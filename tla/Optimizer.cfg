SPECIFICATION Spec
CONSTANTS
  p1 = p1  p2 = p2   o1 = o1  o2 = o2
  Parameter = {p1, p2}
  Optimizer = {o1, o2}
  MaxGroups = 2
  MaxListed = 2
  MaxUpdates = 2
SYMMETRY MCSymmetry
INVARIANTS NativesBalanced
PROPERTIES FrozenNeverMoves AppliedOnce
CHECK_DEADLOCK FALSE
