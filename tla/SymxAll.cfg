SPECIFICATION FairSpec
CONSTANTS
  Inputs = {1, 3, 4}
  Setups <- AllSetups
  StopAt = 4
  max_steps_per_path = 6
  max_visits_per_rip = 2
CHECK_DEADLOCK FALSE
INVARIANTS
  PathsDisjoint
  NothingLost
  OnTrajectory
PROPERTY RunEnds
