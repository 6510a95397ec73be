SPECIFICATION FairSpec
CONSTANTS
  Cmds <- MCCmds
  RspSize <- MCRspSize
  ExecDelay <- MCExecDelay
  ExecTimeout <- MCExecTimeout
  ExecTime <- MCAtTheLimit
  Interface = "TWI"
  RetryCount = 1
  ResponseTimeout = 0
  SyncTimeout = 5
  CommandExecMax = 4
  Faults = {"cmdLost", "cmdGarbled", "replyLost", "replyGarbled", "tokenLost", "wakeLost", "doze", "die"}
  MaxFaults = 3
PROPERTIES
  OneFaultIsOvercome
  WindsDown
  ImplementsChannelSafely
