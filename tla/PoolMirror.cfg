SPECIFICATION MCSpec
CONSTANTS
  Syncs = {s1, s2}
  Nobody = Nobody
  MaxLedger = 3
  Windows = {0, 1}
  LakeSettings = {TRUE, FALSE}
SYMMETRY AnySync
CHECK_DEADLOCK FALSE
INVARIANTS
  TypeOK
  MissingIsOwnedUp
  PublishedLeavesStand
  HealthyHasItsLeaves
  HealthyLacksOnlyLateSpends
PROPERTY
  PublishedGrows
