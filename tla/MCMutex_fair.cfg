SPECIFICATION FairSpec
CONSTANTS
  idle = idle
  low = low
  mid = mid
  peer = peer
  high = high
  a = a
  b = b
  None = none
  Thread <- MCThread5
  InitPrio <- MCInitPrio
  PrioMax = 4
  InitTick = 1
  Idle = idle
  Mutex = {a, b}
  Rank <- MCRank
  HoldMax = 1
  DepthMax = 2
  Waits = {"forever"}
  Mortal = {}
  Ops = {"sleep", "ceiling"}
  Ceilings = {1}
INVARIANT NoExcess
PROPERTIES HandedToHighest TopServed
