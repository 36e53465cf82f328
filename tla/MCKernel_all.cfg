SPECIFICATION MCSpec
CONSTANTS
  idle = idle
  main = main
  peer = peer
  high = high
  Thread <- MCThread
  InitPrio <- MCInitPrio
  PrioMax = 3
  InitTick = 1
  Idle = idle
  Main = main
  NestMax = 2
  IsrMax = 1
  Hard = {h1}
  Soft = {s1, s2}
  None = none
  Modulus = 8
  Time = {1, 2}
  MaxLate = 1
  SwitchInFlight = FALSE
SYMMETRY Symmetry
INVARIANTS TypeOK ReadyQueueOK ContextOK HighestRuns TimerTypeOK ListsOK SoftServed
PROPERTIES CriticalPinned Implements
