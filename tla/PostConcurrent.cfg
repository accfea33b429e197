SPECIFICATION Spec
CONSTANTS
  a = a
  b = b
  c = c
  h1 = h1
  Thread = {t1, t2}
  Host = {h1}
  HostOf <- OneHost
  Group = {a, b}
  Lines <- LinesCross
  HighLimit = 1
  UseAcl = TRUE
  Confs <- ConfMany
  Faults = {"db", "crash", "file", "save"}
  UseTool = FALSE
  MaxPosts = 1
  MaxAdmin = 0
CHECK_DEADLOCK FALSE
INVARIANT AckedStored
INVARIANT AclRespected
INVARIANT AckedDelivered
INVARIANT BodyInDbOwn
INVARIANT SequenceKeyFree
INVARIANT NgpostsKeyFree
INVARIANT NumbersDense
INVARIANT BodyNotForeign
PROPERTY ImplementsStore
