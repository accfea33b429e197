SPECIFICATION Spec
CONSTANTS
  Admin = {x, y}
  User = {u1}
  Role = {r1}
  Group = {a}
  Engines = {"sqlite3", "mysql", "postgres"}
  MayOverlap = {"mysql", "postgres"}
  MaxOps = 7
CHECK_DEADLOCK FALSE
INVARIANT AclIntegrity
INVARIANT OneRow
PROPERTY NoInheritedAccess
