SPECIFICATION Spec
CONSTANTS
  Client = {c1, c2}
  NoOne = NoOne
  Listeners = 2
  MaxFd = 4
  FaultSets <- SomeFaults
CHECK_DEADLOCK FALSE
INVARIANT TypeOK
INVARIANT OwnDescriptors
INVARIANT NothingLeaks
INVARIANT AcceptReturns
PROPERTY Accepted
