SPECIFICATION MoveSpec
CONSTANTS
  NoDevice = NoDevice
  Device <- MCDevice
  Accelerators <- MCAccelerators
  MaxLayer = 2
  MaxParam = 2
  MaxMoves = 3
INVARIANTS NotSilentlySplit HandlesBalanced
CHECK_DEADLOCK FALSE
