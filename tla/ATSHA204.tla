------------------------------ MODULE ATSHA204 ------------------------------
(***************************************************************************)
(* The ATSHA204 crypto chip as the library in avr/SHA204 relies on it.     *)
(* The chip itself is external to the repository: what is here is what     *)
(* SHA204.cpp, SHA204SWI.cpp and SHA204TWI.cpp assume of it.               *)
(*                                                                         *)
(* The chip is passive: it changes state when the library drives the bus,  *)
(* when time passes (a command occupies it for some ticks, during which it *)
(* does not answer), and when it loses power or falls asleep by itself.    *)
(* It keeps one output frame, which every transmit request reads again;    *)
(* resync relies on that ("Try receiving response again").                 *)
(*                                                                         *)
(* A frame is a record: size is its count byte (0: no frame), status its   *)
(* status byte, or "data" for an answer longer than a status frame, and    *)
(* mine is a ghost: the frame answers a transmission made since the        *)
(* current library call began.                                             *)
(***************************************************************************)
EXTENDS Integers

CONSTANTS
  Cmds,       \* the commands the library may send
  RspSize     \* [Cmds -> Nat]: the size of the answer to each (.._RSP_SIZE)

\* SHA204_RSP_SIZE_MIN: count, status and two CRC bytes
RspSizeMin == 4

ASSUME RspSizeAssumption == RspSize \in [Cmds -> {n \in Nat : n >= RspSizeMin}]

Statuses == {"none", "wake", "data", "ok", "parse", "exec", "comm", "garbled"}
Frames == [size : Nat, status : Statuses, mine : BOOLEAN]

Frame(size, status, mine) == [size |-> size, status |-> status, mine |-> mine]
NoFrame == Frame(0, "none", FALSE)

\* a frame whose count byte passes the size check but whose CRC does not match
GarbledFrame == Frame(RspSizeMin, "garbled", FALSE)

Chips == [power : {"sleep", "idle", "awake", "dead"}, left : Nat, out : Frames]

ChipInit == [power |-> "sleep", left |-> 0, out |-> NoFrame]

\* The chip notices the bus only when it is awake and not executing a command.
Responsive(c) == c.power = "awake" /\ c.left = 0

\* What a command that ran to its end answers: a status frame or data.
AnswerTo(cmd) ==
  Frame(RspSize[cmd], IF RspSize[cmd] = RspSizeMin THEN "ok" ELSE "data", TRUE)

\* Every way the chip may dispose of an intact command: carry it out, or refuse
\* it with one of the two status bytes for that.
Replies(cmd) ==
  {AnswerTo(cmd), Frame(RspSizeMin, "parse", TRUE), Frame(RspSizeMin, "exec", TRUE)}

Accepted(c, reply, duration) ==
  IF Responsive(c) THEN [c EXCEPT !.left = duration, !.out = reply] ELSE c

\* A command whose CRC does not match is answered with SHA204_STATUS_BYTE_COMM.
Garbled(c) ==
  IF Responsive(c) THEN [c EXCEPT !.out = Frame(RspSizeMin, "comm", TRUE)] ELSE c

\* The wake-up response is the only frame a chip just woken holds.
Woken(c) ==
  IF c.power \in {"sleep", "idle"}
    THEN [c EXCEPT !.power = "awake", !.out = Frame(RspSizeMin, "wake", FALSE)]
    ELSE c

Off(c, power) == [c EXCEPT !.power = power, !.left = 0, !.out = NoFrame]

\* A sleep or idle token sent to a chip that listens.
Dismissed(c, power) == IF Responsive(c) THEN Off(c, power) ELSE c

Elapsed(c, ticks) ==
  [c EXCEPT !.left = IF c.left > ticks THEN c.left - ticks ELSE 0]

\* The ghost at the start of a call: nothing answers it yet.
Forgotten(c) == [c EXCEPT !.out.mine = FALSE]
=============================================================================
