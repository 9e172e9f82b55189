CONSTANTS
  Addr <- MCAddr
  AnyAddr = "any"
  VGuest = "guest"
  PortMod = 2
  IntMax = 1
  Request <- SomeRequests
  Client = {"c1", "c2"}
  BUFLEN = 3
  Size <- MCSize
  Wants <- MCWants
  SNDBUF = 0
SPECIFICATION FairSpec
INVARIANTS TypeOK NoFdLeak AnswerFits
PROPERTIES ExecutedAsSent EveryConnectionEnds
