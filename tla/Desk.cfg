SPECIFICATION Spec
CONSTANTS
  Edges = 2
  MaxShows = 3
  MaxPresses = 1
INVARIANTS
  DarkWhenHidden
  NextShowIsFresh
PROPERTIES
  ToldThreadsEnd
  StandbyStops
CHECK_DEADLOCK FALSE
