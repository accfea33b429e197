SPECIFICATION Spec
CONSTANTS
  a = a
  b = b
  c = c
  h1 = h1
  Thread = {t1, t2}
  Host = {h1}
  HostOf <- OneHost
  Group = {a}
  Lines <- LinesA
  HighLimit = 3
  UseAcl = FALSE
  Confs <- ConfSqlite
  Faults = {}
  UseTool = FALSE
  MaxPosts = 1
  MaxAdmin = 0
CHECK_DEADLOCK FALSE
INVARIANT NumbersUnique
