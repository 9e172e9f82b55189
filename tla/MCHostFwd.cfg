CONSTANTS
  Addr <- MCAddr
  AnyAddr = "any"
  VGuest = "guest"
  PortMod = 3
  IntMax = 3
  Request <- MCRequest
SPECIFICATION Spec
INVARIANTS TypeOK ListedIsServed ServedIsListed IdsUnique EndpointsExclusive
PROPERTY ImplementsPortBook
CHECK_DEADLOCK TRUE
