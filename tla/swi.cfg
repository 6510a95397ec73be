SPECIFICATION FairSpec
CONSTANTS
  Cmds <- MCCmds
  RspSize <- MCRspSize
  ExecDelay <- MCExecDelay
  ExecTimeout <- MCExecTimeout
  ExecTime <- MCPunctual
  Interface = "SWI"
  RetryCount = 1
  ResponseTimeout = 1
  SyncTimeout = 5
  CommandExecMax = 4
  Faults = {"cmdGarbled", "replyLost", "replyGarbled", "tokenLost", "wakeLost", "doze", "die"}
  MaxFaults = 3
INVARIANTS
  VerdictIsGenuine
  QuietBusExactlyOnce
  OneFaultIsMasked
  NeverDisturbed
  DeadIsReported
PROPERTIES
  EveryCallReturns
  ImplementsChannel
