SPECIFICATION Spec
CONSTANTS
  idle = idle
  low = low
  mid = mid
  peer = peer
  high = high
  a = a
  b = b
  None = none
  Thread <- MCThread
  InitPrio <- MCInitPrio
  PrioMax = 4
  InitTick = 1
  Idle = idle
  Mutex = {a, b}
  Rank <- MCRank
  HoldMax = 2
  DepthMax = 2
  Waits = {"finite"}
  Mortal = {low}
  Ops = {"sleep", "resume", "detach"}
  Ceilings = {}
INVARIANTS TypeOK OwnerOK WaitOK AssertsOK NoInversion
PROPERTY HighestKept
CHECK_DEADLOCK FALSE
