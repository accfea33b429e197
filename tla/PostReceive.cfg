SPECIFICATION Spec
CONSTANTS
  Confs <- AllConfs
  Chunk <- LinePieces
  MaxSent = 8
CHECK_DEADLOCK FALSE
INVARIANT TypeOK
INVARIANT WholeArticle
INVARIANT BodyTerminated
INVARIANT TooBigJustified
PROPERTY ReceiveEnds
