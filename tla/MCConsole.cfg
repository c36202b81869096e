CONSTANTS
  CharWidth = 2
  Widths <- MCWidths
  MappedLines = 1
  MaxText = 4
  MaxLine = 2
  MaxQueue = 2
SPECIFICATION Spec
CHECK_DEADLOCK FALSE
INVARIANT CursorStaysInLine
INVARIANT RoomForNext
INVARIANT PrintFillsLines
INVARIANT ShiftAsTyped
PROPERTY KeysAreHandled
