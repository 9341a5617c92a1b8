SPECIFICATION FairSpec
CONSTANTS
  Workers = {w1, w2}
  Nobody = nobody
  MaxSuspend = 3
  FirstRoom = 1
  Slack = 1
  MaxInfo = 4
  Worlds <- AllWorlds
CHECK_DEADLOCK FALSE
INVARIANTS
  NoTornFetch
  SuspensionsBalanced
PROPERTY
  PatchReturns
