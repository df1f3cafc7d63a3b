SPECIFICATION StoreSpec
CONSTANTS
  a1 = a1
  a2 = a2
  a3 = a3
  v1 = v1
  Apps = {a1, a2, a3}
  Views = {v1}
  Ttl = 1
  MaxEntries = 2
  MaxIssued = 4
  MaxClock = 3
INVARIANTS
  AnswersNameLatest
  NewestSurvives
PROPERTY PlanSpec
SYMMETRY AppSymmetry
