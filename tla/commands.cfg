SPECIFICATION CommandsSpec
CONSTANTS
  OpCodes <- MCKnown
  Known <- MCKnown
  MinExec <- MCMinExec
  MaxExec <- MCMaxExec
  LongestExec = 690
  ResponseTimeout = 476
  Latencies <- MCLatencies
  Calls <- MCCalls
  Summaries = {0, 4660, 65535}
  Zones <- MCZones
  Asks <- MCAsks
  MaxAsks = 2
  Responses <- MCResponses
  Damages <- MCDamages
CHECK_DEADLOCK FALSE
INVARIANTS
  PunctualIsHeard
  GivesUpOnTime
  WrappersAgree
  DamageNoticed
  ZoneAsExpected
  ShownAsAsked
