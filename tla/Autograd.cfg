SPECIFICATION Spec
CONSTANTS
  t1 = t1  t2 = t2
  Thread = {t1, t2}
  MaxTensor = 3
  MaxWrites = 2
  MaxBackward = 2
SYMMETRY MCSymmetry
INVARIANTS TypeOK VersionsTrackContent SavedValuesIntact FrozenHoldsNoGradient
PROPERTY ImplementsLedger
CHECK_DEADLOCK FALSE
