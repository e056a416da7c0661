SPECIFICATION Spec
CONSTANTS
  Caller = {a, b}
  Session = {s}
  NoSession = noSession
  NoCaller = noCaller
  MaxOutputs = 2
  MaxHandles = 2
  MaxEnds = 1
SYMMETRY CallerSymmetry
INVARIANT NothingEscapes
CHECK_DEADLOCK FALSE
