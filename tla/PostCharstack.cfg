SPECIFICATION Spec
CONSTANTS
  a = a
  b = b
  c = c
  h1 = h1
  Thread = {t1}
  Host = {h1}
  HostOf <- OneHost
  Group = {a, b, c}
  Lines <- LinesABCB
  HighLimit = 3
  UseAcl = FALSE
  Confs <- ConfSqlite
  Faults = {}
  UseTool = FALSE
  MaxPosts = 2
  MaxAdmin = 0
CHECK_DEADLOCK FALSE
INVARIANT NgpostsKeyFree
