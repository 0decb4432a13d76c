CONSTANTS
  Proc = {p1, p2}
  Item = {a, b}
  maxNode = 4
  Reuse = FALSE
SPECIFICATION Spec
INVARIANTS
  ListOK
PROPERTIES
  ImplementsFifo
