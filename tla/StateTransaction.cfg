SPECIFICATION Spec
CONSTANTS
  a = a  view = view  b = b  x = x  again = again  y = y
  Tensor <- MCTensor
  Cell <- MCCell
  CellOf <- MCCellOf
  IdentityOf <- MCIdentityOf
  Shape <- MCShape
  Torch <- MCTorch
  Value = {0, 1}
  MaxBatch = 2
  MaxVersion = 1
CONSTRAINT OneGradient
INVARIANT TypeOK
PROPERTIES ReplacedIsStale Transactional
CHECK_DEADLOCK FALSE
