CONSTANTS
  Proc = {p1, p2, p3}
  Item = {a, b}
  maxqsize = 2
  NoProc = NoProc
SPECIFICATION FairSpec
PROPERTIES
  ImplementsFifo
  Progress
