SPECIFICATION FairSpec
CONSTANTS
  idle = idle
  main = main
  peer = peer
  high = high
  Thread <- MCThread3
  InitPrio <- MCFlatPrio
  PrioMax = 1
  InitTick = 2
  Idle = idle
  Main = main
  NestMax = 1
  IsrMax = 1
PROPERTY NoStarvation
