---------------------------- MODULE SHA204Timing ----------------------------
(***************************************************************************)
(* The clock of SHA204::execute and send_and_receive (avr/SHA204/          *)
(* SHA204.cpp) on the single wire, in microseconds: how long the library   *)
(* waits before its first poll and how long it keeps polling, computed in  *)
(* the widths the code computes it in. SHA204Comm counts the same polls in *)
(* ticks and takes the number of them for granted.                         *)
(***************************************************************************)
EXTENDS Integers

CONSTANTS
  OpCodes,          \* the op-codes given to execute
  Known,            \* those with a case of their own in its switch
  MinExec,          \* [Known -> Nat]: shortest and longest execution times of
  MaxExec,          \*   SHA204Definitions.h, in tenths of a millisecond
  LongestExec,      \* the longest of all of them: 69.0 ms
  ResponseTimeout,  \* SHA204_RESPONSE_TIMEOUT(): what a poll in vain takes
  Latencies         \* when the chip may have its answer ready

ASSUME OpCodesAssumption == Known \subseteq OpCodes
ASSUME ExecAssumption ==
  /\ MinExec \in [Known -> Nat] /\ MaxExec \in [Known -> Nat] /\ LongestExec \in Nat
  /\ \A op \in Known : MinExec[op] <= MaxExec[op] /\ MaxExec[op] <= LongestExec
ASSUME TimeoutAssumption == ResponseTimeout \in Nat \ {0} /\ Latencies \subseteq Nat

Max(a, b) == IF a > b THEN a ELSE b

\* The .._DELAY and .._EXEC_MAX macros: CPU_CLOCK_DEVIATION_NEGATIVE is 0.99 and
\* .._POSITIVE 1.01; half a millisecond is taken off or added, and the cast to
\* uint8_t cuts the fraction off (0.4 ms becomes less than nothing: 0).
DelayMs(tenths) == Max(tenths * 99 - 500, 0) \div 1000
ExecMaxMs(tenths) == (tenths * 101 + 500) \div 1000

\* execute's switch
PollDelay(op) == IF op \in Known THEN DelayMs(MinExec[op]) ELSE 0
PollTimeout(op) ==
  IF op \in Known THEN ExecMaxMs(MaxExec[op]) - DelayMs(MinExec[op]) ELSE ExecMaxMs(LongestExec)

\* the longest execution that a command is allowed for, in microseconds
Allowed(op) == (PollDelay(op) + PollTimeout(op)) * 1000

\* uint16_t (int has 16 bits on AVR too, so the product itself wraps the same way)
Wrap(x) == x % 65536

\* mutant: the last poll is not allowed for
TimeoutUsTight(op) == Wrap(PollTimeout(op) * 1000)

\* execution_timeout_us
TimeoutUs(op) == Wrap(Wrap(PollTimeout(op) * 1000) + ResponseTimeout)

VARIABLES
  pc,         \* "sent": the command is out, "poll", or "done"
  op_code,    \* the op-code being executed
  countdown,  \* timeout_countdown
  now,        \* time since the command was sent
  ready,      \* when the chip has its answer
  ret_code    \* what receive_response returned: nothing yet, an answer or none

vars == <<pc, op_code, countdown, now, ready, ret_code>>

TypeOK ==
  /\ pc \in {"sent", "poll", "done"} /\ op_code \in OpCodes
  /\ countdown \in Nat /\ countdown < 65536
  /\ now \in Nat /\ ready \in Nat /\ ret_code \in {"FUNC_FAIL", "SUCCESS", "RX_NO_RESPONSE"}

Init ==
  /\ pc = "sent" /\ op_code \in OpCodes
  /\ countdown = 0 /\ now = 0 /\ ret_code = "FUNC_FAIL"
  /\ ready \in Latencies

\* Delay_ms(execution_delay), then the countdown is set.
WaitDelay ==
  /\ pc = "sent"
  /\ now' = PollDelay(op_code) * 1000
  /\ countdown' = TimeoutUs(op_code)
  /\ pc' = "poll"
  /\ UNCHANGED <<op_code, ready, ret_code>>

KeepPolling(left, code) == left > ResponseTimeout /\ code = "RX_NO_RESPONSE"

\* receive_response finds the answer if the chip had it ready when asked.
Poll ==
  /\ pc = "poll"
  /\ ret_code' = IF ready <= now THEN "SUCCESS" ELSE "RX_NO_RESPONSE"
  /\ now' = now + ResponseTimeout
  /\ countdown' = Wrap(countdown - ResponseTimeout)
  /\ pc' = IF KeepPolling(countdown', ret_code') THEN "poll" ELSE "done"
  /\ UNCHANGED <<op_code, ready>>

Next == WaitDelay \/ Poll
Spec == Init /\ [][Next]_vars

\* The timeouts fit their 16 bits: true of every op-code execute knows.
NothingWraps == \A o \in OpCodes : PollTimeout(o) * 1000 + ResponseTimeout <= 65535

(***************************************************************************)
(* A chip that answers in time, a poll before the longest execution the    *)
(* library allows for, is heard: no such command is ever sent twice.       *)
(***************************************************************************)
PunctualIsHeard == pc = "done" /\ ready + ResponseTimeout <= Allowed(op_code) => ret_code = "SUCCESS"

(***************************************************************************)
(* The library gives up when the longest execution it allows for is over,  *)
(* not earlier, and not more than a poll later.                            *)
(***************************************************************************)
GivesUpOnTime ==
  pc = "done" /\ ret_code # "SUCCESS" =>
    Allowed(op_code) <= now /\ now - ResponseTimeout <= Allowed(op_code)

(***************************************************************************)
(* SHA204Definitions.h calls SHA204_COMMAND_EXEC_MAX the "maximum command  *)
(* delay"; execute takes it for the timeout of an op-code it does not know.*)
(* No such command is given up before that delay is over.                  *)
(***************************************************************************)
UnknownWaitsLongest == 
  pc = "done" /\ op_code \notin Known /\ ret_code # "SUCCESS" => now >= ExecMaxMs(LongestExec) * 1000
=============================================================================
