CONSTANTS
  Timer = {"ra", "other"}
  Delay = {0, 2, 3}
  Sleep = {1, 3}
  Ticks = 2
  MaxBusy = 1
  UintMax = 7
SPECIFICATION FairSpec
INVARIANTS NoOversleep NoEarlyWake RearmIsKept
PROPERTY TimersFire
