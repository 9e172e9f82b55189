SPECIFICATION Spec
CONSTANTS
  CAP_LAST_CAP = 3
  CAP_NET_BIND_SERVICE = 2
  CAP_SETPCAP = 1
  Skippable = {"pidfd_getfd"}
INVARIANTS
  TypeOK
  HostUntouched
  Sealed
  FollowsHost
  
  
PROPERTY ImplementsDoSlirp
