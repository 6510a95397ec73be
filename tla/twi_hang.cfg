SPECIFICATION FairSpec
CONSTANTS
  Cmds <- MCCmds
  RspSize <- MCRspSize
  ExecDelay <- MCExecDelay
  ExecTimeout <- MCExecTimeout
  ExecTime <- MCPunctual
  Interface = "TWI"
  RetryCount = 1
  ResponseTimeout = 0
  SyncTimeout = 5
  CommandExecMax = 4
  Faults = {"doze"}
  MaxFaults = 1
PROPERTY EveryCallReturns
