SPECIFICATION Spec
CONSTANTS
  WindowIds = {"first", "second", "tips"}
  Pids = {"cad", "helper", "web"}
  Texts = {"cad", "web", "cad helper", "cad tips", "plan", "plan 2"}
  NoText = "none"
  Within <- MCWithin
  NameOf <- MCNameOf
  PidOf <- MCPidOf
  TitleOf <- MCTitleOf
  ListedPids <- MCListed
  Places <- MCPlaces
  Layouts <- MCLayouts
  MaxMoves = 1
  App = "cad"
  Titles = {"none", "plan 2"}
  Tools = {"observe", "click", "secondary_action", "real", "list", "activate", "maximize"}
  Offsets <- MCOffsets
  MaxDeaths = 1
INVARIANTS
  ActsOnReadWindow
  ShowsTheChosen
  OccludedIsHidden
PROPERTIES
  CallsEnd
