SPECIFICATION ProgramSpec
CONSTANTS
  P <- MCP
  Exp <- MCExp
  Log <- MCLog
  Erf <- MCErf
  InvSqrt2 = 9
  InvSqrtPi = 5
  Programs <- MCPrograms
  Reshapes <- MCReshapes
  MaxBackwards = 2
INVARIANTS ProgramTypeOK GradientsExact
CHECK_DEADLOCK FALSE
