CONSTANTS
  CharWidth = 2
  Widths <- MCWidths
  MappedLines = 1
  MaxText = 2
  MaxLine = 2
  MaxQueue = 2
SPECIFICATION Spec
CHECK_DEADLOCK FALSE
PROPERTY HandlersReturn
