SPECIFICATION Spec
CONSTANTS
  t1 = t1  t2 = t2
  x1 = x1  x2 = x2
  s1 = s1  s2 = s2
  z1 = z1
  Thread = {t1, t2}
  Tensor = {x1, x2}
  Storage = {s1, s2}
  Optimizer = {z1}
  NoObject = NoObject
  MaxHandle = 3
  MaxRefs = 2
SYMMETRY MCSymmetry
INVARIANTS TypeOK OwnersExact NoDanglingReference NoLeak LiveBytesExact
PROPERTIES HandleNeverRebinds ImplementsLifetime
CHECK_DEADLOCK FALSE
