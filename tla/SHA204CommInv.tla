---------------------------- MODULE SHA204CommInv ----------------------------
(***************************************************************************)
(* The inductive invariant behind SHA204Comm's safety properties, in       *)
(* named parts. VerdictIsGenuine alone is not inductive: it needs to know, *)
(* at every point of the retry loops, what the chip may have in its output *)
(* buffer, and for that whether it may still be executing.                 *)
(***************************************************************************)
EXTENDS SHA204CommChannel

InLoop == {"send", "receive", "poll", "check"}
InResync == {"resync", "resyncRead", "resyncSleep", "resynced"}
InWake == {"wake", "wakeReply"}

\* Every transmission uses up one of the retries, only a transmission can make
\* the chip execute, and only after one does the library receive.
Budget ==
  /\ executed <= sent
  /\ sent + sendsLeft <= RetryCount + 1
  /\ pc \in {"receive", "poll", "check"} => sent > 0
  /\ pc \in InResync \cup InWake /\ site = "garbage" => sent > 0

\* resync and wakeup know whom to return to.
Caller ==
  /\ pc \in InLoop => op = "command"
  /\ pc \in InResync => op = "command" /\ site # "api"
  /\ pc \in InWake => op = IF site = "api" THEN "wakeup" ELSE "command"

\* Where ret_code may be returned unchanged it is an error of the library's.
Undecided ==
  /\ pc \in {"send"} \cup InResync => ret \notin Verdicts
  /\ pc \in InWake /\ site # "api" => ret \notin Verdicts
  /\ pc = "receive" /\ recvsLeft = 0 => ret \notin Verdicts
  /\ pc = "check" => ret \in HeardCodes

\* How long the chip may still be busy: never longer than the polling loop is
\* going to last.
Settled ==
  /\ pc = "receive" => chip.left <= ExecTimeout[cmd] /\ (recvsLeft = 0 => chip.left = 0)
  /\ pc = "poll" =>
       IF Interface = "SWI" THEN countdown >= 1 /\ chip.left <= countdown - 1
       ELSE countdown = ExecTimeout[cmd]
  /\ pc \notin {"receive", "poll"} => chip.left = 0

\* Frames that answer the command in progress, and tell the truth about it.
Ours(frame) ==
  /\ frame \in Replies(cmd) \cup {Frame(RspSizeMin, "comm", TRUE)}
  /\ frame = AnswerTo(cmd) => executed > 0

\* From a transmission until the chip is woken again
Listening ==
  \/ pc \in {"receive", "poll", "check"}
  \/ pc \in {"resync", "resyncRead"} /\ site = "garbage"
  \/ pc = "resynced" /\ site = "garbage" /\ resynced = "SUCCESS"

\* a chip that is awake holds nothing but an answer to that transmission.
Loyal ==
  /\ Listening /\ chip.power = "awake" => Ours(chip.out)
  /\ pc = "check" /\ ret = "SUCCESS" /\ CrcOk(rx) => Ours(rx)

\* No transmission is lost without the library's noticing.
NothingUnnoticed == Interface = "TWI" \/ "cmdLost" \notin Faults

CommInv == Budget /\ Caller /\ Undecided /\ Settled
GenuineInv == CommInv /\ Loyal /\ VerdictIsGenuine
=============================================================================
