SPECIFICATION LifeSpec
CONSTANTS
  Thread = {idle, main, high}
  InitPrio <- IdleLowest
  PrioMax = 2
  InitTick = 1
  Idle = idle
  Main = main
  NestMax = 0
  IsrMax = 1
INVARIANTS LifeTypeOK QueueSurvives NoneForgotten NoneUsedFreed
