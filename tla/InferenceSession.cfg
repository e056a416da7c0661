SPECIFICATION Spec
CONSTANTS
  Caller = {a, b}
  Session = {s}
  NoSession = noSession
  NoCaller = noCaller
  MaxOutputs = 3
  MaxHandles = 4
  MaxEnds = 2
SYMMETRY CallerSymmetry
INVARIANTS OneOwner OneProfile
PROPERTY NothingForgotten
CHECK_DEADLOCK FALSE
