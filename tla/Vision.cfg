SPECIFICATION FairSpec
CONSTANTS
  N = 3
  AuthCooldown = 2
  TransientCooldown = 1
  UpgradeCooldown = 2
  PoolModes = {"injected", "per_call"}
INVARIANTS
  SharedPoolFailsOver
  GivesUpAfterAll
PROPERTIES
  UpgradesKeepApart
  PreferredReturns
