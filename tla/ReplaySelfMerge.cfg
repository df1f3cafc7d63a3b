SPECIFICATION Spec
CONSTANTS
  c1 = c1
  c2 = c2
  t1 = t1
  t2 = t2
  nick = nick
  r = r
  q = q
  Ids = {c1, c2}
  Nicknames = {nick}
  Tasks = {t1, t2}
  AppOf <- MCAppOf
  BaseName = BaseName
  Processes = {r, q}
  Runner = r
  Recordings <- MCRecordings
  AliasWords <- MCAliasWords
  Reviews <- MCReviews
  Libraries <- MCLibraries
  Demonstrations <- MCDemonstrations
  Views <- MCViews
  MaxCommands = 2
  MaxStaleRetries = 1
PROPERTY MergesFoldCounts
CHECK_DEADLOCK FALSE
