SPECIFICATION Spec
CONSTANTS
  Words = 2
  Slots = {s1, s2}
  Keys = {k1, k2}
  Otps = {o1, o2}
  Commands = {"lock_config", "lock_data", "personalize"}
  DryRuns = {TRUE, FALSE}
  Silent = TRUE
  MaxMishaps = 2
SYMMETRY Symmetry
INVARIANTS
  TypeOK
  LockedKeysOnFile
  LockedAsWanted
PROPERTY DryRunChangesNothing
