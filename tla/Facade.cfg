SPECIFICATION Spec
CONSTANTS
  a1 = a1
  trivial = trivial
  rich = rich
  p1 = p1
  p2 = p2
  b1 = b1
  b2 = b2
  NoPic = NoPic
  Apps = {a1}
  Views <- MCViews
  Ttl = 0
  MaxEntries = 1
  MaxIssued = 3
  MaxClock = 1
  Trees = {trivial, rich}
  TrivialTrees = {trivial}
  Pics = {p1, p2}
  Budgets = {b1, b2}
  OverlayEnabled = TRUE
  GlowInCapture = TRUE
  BatchLengths = {3}
  BatchLimits <- MCLimits
  MaxChanges = 1
INVARIANTS
  OneSuccessPerPlan
  SentOnPlannedScreen
  BatchStopsActing
PROPERTIES
  KeepsPromise
  RefusedOnlyIfChanged
  CallsReturn
