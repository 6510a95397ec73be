SPECIFICATION FairSpec
CONSTANTS
  Payloads <- MCPayloads
  MinPayload = 1
  MaxFrame = 7
  Boards = {"avr", "arduino"}
  SerialRoom = 4
  MaxAsks = 2
  MaxBacklog = 1
  Mishaps = {"stall", "lost", "kill", "chip", "button"}
  MaxMishaps = 2
INVARIANTS
  TypeOK
  AnswerIsOwn
  RefusedMeansNotRun
  OnlyMishapsFail
  NothingStray
  Answered
PROPERTY EveryRequestEnds
