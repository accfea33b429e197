SPECIFICATION Spec
CONSTANTS
  u1 = u1
  u2 = u2
  p1 = p1
  p2 = p2
  a = a
  b = b
  NULL = NULL
  Name = {u1, u2}
  Pass = {p1, p2}
  Accounts <- TwoAccounts
  Group = {a, b}
  Configs <- BothConfigs
  MaxNum = 2
CONSTRAINT SmallGates
INVARIANT AuthIdentity
INVARIANT AclHasUser
INVARIANT TlsGate
INVARIANT TlsClean
INVARIANT PointerInGroup
 
