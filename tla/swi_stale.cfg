SPECIFICATION Spec
CONSTANTS
  Cmds <- MCCmds
  RspSize <- MCRspSize
  ExecDelay <- MCExecDelay
  ExecTimeout <- MCExecTimeout
  ExecTime <- MCPunctual
  Interface = "SWI"
  RetryCount = 1
  ResponseTimeout = 1
  SyncTimeout = 5
  CommandExecMax = 4
  Faults = {"cmdLost"}
  MaxFaults = 1
INVARIANT VerdictIsGenuine
