SPECIFICATION Spec
CONSTANTS
  OpCodes <- MCOpCodes
  Known <- MCKnown
  MinExec <- MCMinExec
  MaxExec <- MCMaxExec
  LongestExec = 690
  ResponseTimeout = 476
  Latencies <- MCLatencies
CHECK_DEADLOCK FALSE
INVARIANT UnknownWaitsLongest
