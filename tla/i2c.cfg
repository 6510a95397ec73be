SPECIFICATION FairSpec
CONSTANTS
  Timeout = 3
  MaxCount = 3
INVARIANTS
  BusReleased
  CodesTell
  ResetFrees
PROPERTY EveryTransferEnds
