SPECIFICATION Spec
CONSTANTS
  Offered <- Directive
  PortArg <- SomePorts
  Address = {"l1", "l2"}
  Salt = {"s1"}
  MaxListeners = 2
ACTION_CONSTRAINT OneFamily
CHECK_DEADLOCK FALSE
INVARIANT TypeOK
INVARIANT ServesUsable
INVARIANT VersionsOrdered
