CONSTANTS
  Addr <- MCAddr
  AnyAddr = "any"
  VGuest = "guest"
  PortMod = 2
  IntMax = 1
  Request <- FewRequests
  Client = {"c1"}
  BUFLEN = 3
  Size <- MCSize
  Wants <- MCWants
  SNDBUF = 0
SPECIFICATION Spec
INVARIANT ShutWrEndsRequest
