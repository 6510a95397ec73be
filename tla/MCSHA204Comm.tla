---------------------------- MODULE MCSHA204Comm ----------------------------
(***************************************************************************)
(* Small instances of SHA204Comm: a command answered by a status frame, a  *)
(* short and a long answer (so that a stale frame may be too long for the  *)
(* buffer), with execution times of a few polls.                           *)
(***************************************************************************)
EXTENDS SHA204CommInv

MCCmds == {"lock", "read", "mac"}
MCRspSize == [c \in MCCmds |-> CASE c = "lock" -> 4 [] c = "read" -> 7 [] c = "mac" -> 35]

\* As in SHA204Definitions.h, read's minimum delay is 0 and mac's is not.
MCExecDelay == [c \in MCCmds |-> CASE c = "lock" -> 1 [] c = "read" -> 0 [] c = "mac" -> 2]
MCExecTimeout == [c \in MCCmds |-> CASE c = "lock" -> 3 [] c = "read" -> 2 [] c = "mac" -> 1]

\* The last poll that still finds the chip ready starts a tick before delay and
\* timeout are over.
MCPunctual == [c \in MCCmds |-> MCExecDelay[c] + MCExecTimeout[c] - 1]
\* a chip that takes its .._EXEC_MAX to the full
MCAtTheLimit == [c \in MCCmds |-> MCExecDelay[c] + MCExecTimeout[c]]
=============================================================================
