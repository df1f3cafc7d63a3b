SPECIFICATION Spec
CONSTANTS
  MaxEvents = 3
INVARIANTS
  LiveExactlyOnce
  EveryActionIsOneStep
  NothingMissed
  WakeNotLost
PROPERTY StopSavesTheSession
CHECK_DEADLOCK FALSE
