SPECIFICATION LayoutSpec
CONSTANTS
  Dimensions <- Few
  MaxMade = 2
  MaxWritten = 1
PROPERTY ReadersGetLogicalOrder
CHECK_DEADLOCK FALSE
