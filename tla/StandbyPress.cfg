SPECIFICATION Spec
CONSTANTS
  Edges = 2
  MaxShows = 3
  MaxPresses = 1
CHECK_DEADLOCK FALSE
PROPERTY PressRecords
