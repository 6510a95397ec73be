SPECIFICATION FairSpec
CONSTANTS
  Words = 2
  Slots = {s1, s2}
  Keys = {k1, k2}
  Otps = {o1, o2}
  Commands = {"personalize"}
  DryRuns = {FALSE}
  Silent = FALSE
  MaxMishaps = 2
INVARIANT PersonalizedMeansLocked
PROPERTY RerunCompletes
