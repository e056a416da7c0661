SPECIFICATION CreationSpec
CONSTANTS
  Shapes <- MCShapes
  MaxRank = 3
  MaxNumel = 31
  MaxSize = 63
  ElementSize = 4
  Dimensions <- MCDimensions
  MaxMade = 3
  MaxWritten = 1
INVARIANTS ShapeTypeOK CountsExact NeverWrong LayoutTypeOK LogicalOrder
PROPERTIES AnswersRight WrittenReadsBack
CHECK_DEADLOCK FALSE
