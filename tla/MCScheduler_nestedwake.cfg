SPECIFICATION KernelSpec
CONSTANTS
  idle = idle
  main = main
  peer = peer
  high = high
  Thread <- MCThread3
  InitPrio <- MCInitPrio
  PrioMax = 3
  InitTick = 2
  Idle = idle
  Main = main
  NestMax = 1
  IsrMax = 2
INVARIANT HighestRuns
