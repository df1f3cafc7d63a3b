SPECIFICATION Spec
CONSTANTS
  c1 = c1
  c2 = c2
  p1 = p1
  u1 = u1
  u2 = u2
  k1 = k1
  k2 = k2
  NoKey = NoKey
  NoWriter = NoWriter
  Bases = {u1, u2}
  Keys = {k1, k2}
  PanelKeys = {NoKey, k2}
  Writers = {c1, c2, p1}
  Panels = {p1}
  Indices = {0, 1}
  DirAtStart = {TRUE, FALSE}
  StartFiles <- MCStartFiles
  CoarseClock = TRUE
  MaxCommands = 2
  MaxTime = 1
PROPERTIES
  UpdatesAreAtomic
  OthersSurviveCleanPages
  KeysKept
  NeverEmptiedSilently
  CommandsEnd
