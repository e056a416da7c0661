SPECIFICATION FairSpec
CONSTANTS
  t1 = t1  t2 = t2
  m1 = m1  m2 = m2  m3 = m3 
  Thread = {t1, t2}
  Module = {m1, m2, m3}
  Config <- MCConfig
  NoThread = NoThread  Absent = Absent  Unusable = Unusable
  MaxLatest = 1
  MaxCalls = 3
INVARIANTS ShapesMatch
PROPERTIES ImplementsStore CallsReturn
CHECK_DEADLOCK FALSE
