CONSTANTS
  Proc = {p1, p2}
  Item = {a, b}
  maxNode = 3
  Reuse = TRUE
SPECIFICATION Spec
INVARIANTS
  LinksInList
