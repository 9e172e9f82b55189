SPECIFICATION Spec
CONSTANTS
  WIDTH = 9
  INT_MOD = 16
  LONG_MAX = 40
  MTU_MAX = 5
  DEFAULT_MTU = 3
  DEFAULT_NETWORK = 256
  DEFAULT_PREFIX = 2
  CommandLine <- MCCommandLine
INVARIANT UsernsPathOverrides
CHECK_DEADLOCK FALSE
