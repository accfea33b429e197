SPECIFICATION FairSpec
CONSTANTS
  a = a
  b = b
  c = c
  h1 = h1
  Thread = {t1, t2}
  Host = {h1}
  HostOf <- OneHost
  Group = {a, b}
  Lines <- LinesBoth
  HighLimit = 1
  UseAcl = TRUE
  Confs <- ConfTool
  Faults = {"admin"}
  UseTool = TRUE
  MaxPosts = 1
  MaxAdmin = 1
CHECK_DEADLOCK FALSE
INVARIANT TypeOK
INVARIANT RefsInOrder
INVARIANT KeysHold
PROPERTY PostTerminates
