SPECIFICATION FairSpec
CONSTANTS
  Conns = {c1, c2}
INVARIANTS
  TypeOK
  TasksAreHandlers
  OpenSocketsHaveATask
  OnlyStopOrphans
PROPERTIES
  EitherSideEndsBoth
  StopEnds
