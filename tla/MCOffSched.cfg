CONSTANTS
  nodes = 4
  Costs = {1, 2}
  Graphs <- MCGraphs
  Procs = {0, 1, 2, 3}
SPECIFICATION FairSpec
INVARIANTS
  FinalSchedule
  CoresAccounted
  Greedy
  GoodSchedule
PROPERTIES
  Termination
