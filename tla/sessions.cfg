SPECIFICATION Spec
CONSTANTS
  Nonces = {n1, n2}
  Keys = {k1, k2}
  Messages = {m1, m2}
  Attempts = 2
  Blocks = 2
  MaxParts = 2
SYMMETRY Symmetry
INVARIANTS
  UsedAsTold
  QuietSession
  DigestOfMessage
  ReportedWhole
