----------------------------- MODULE SHA204Comm -----------------------------
(***************************************************************************)
(* The communication layer of the SHA204 library: wakeup() and             *)
(* send_and_receive() of avr/SHA204/SHA204.cpp over the two transports,    *)
(* SHA204SWI (single wire) and SHA204TWI (I2C), each with its resync(),    *)
(* receive_response() and send_command().                                  *)
(*                                                                         *)
(* The caller may use the library's operations in any order. Every bus     *)
(* transaction is one step; between two of them the chip may fall asleep   *)
(* or die, and any transaction may be spoilt, as far as Faults and         *)
(* MaxFaults (per operation) allow. Time is counted in ticks of one poll.  *)
(***************************************************************************)
EXTENDS ATSHA204

CONSTANTS
  Interface,       \* "SWI" or "TWI": which subclass of SHA204 is built in
  RetryCount,      \* SHA204_RETRY_COUNT
  ResponseTimeout, \* SHA204_RESPONSE_TIMEOUT(), in ticks
  ExecDelay,       \* [Cmds -> Nat]: send_and_receive's execution_delay
  ExecTimeout,     \* [Cmds -> Nat]: send_and_receive's execution_timeout
  ExecTime,        \* [Cmds -> Nat]: the longest the chip really takes
  SyncTimeout,     \* SHA204_SYNC_TIMEOUT, in ticks
  CommandExecMax,  \* SHA204_COMMAND_EXEC_MAX, in ticks
  Faults,          \* the kinds of fault that may strike
  MaxFaults        \* how many of them in one operation

FaultKinds == {"cmdLost", "cmdGarbled", "replyLost", "replyGarbled",
               "tokenLost", "wakeLost", "doze", "die"}

ASSUME InterfaceAssumption == Interface \in {"SWI", "TWI"}
ASSUME RetryAssumption == RetryCount \in Nat
\* One tick for the single wire's 476 us, and the 0 of SHA204TWI.h
ASSUME ResponseTimeoutAssumption == ResponseTimeout = IF Interface = "SWI" THEN 1 ELSE 0
ASSUME TimingAssumption ==
  /\ ExecDelay \in [Cmds -> Nat] /\ ExecTimeout \in [Cmds -> Nat \ {0}]
  /\ ExecTime \in [Cmds -> Nat]
  /\ SyncTimeout \in Nat /\ CommandExecMax \in Nat
\* Callers pass .._EXEC_MAX - .._DELAY as the timeout: a sound chip is done by then.
ASSUME ExecMaxAssumption ==
  \A c \in Cmds : ExecTime[c] <= ExecDelay[c] + ExecTimeout[c]
ASSUME FaultAssumption == Faults \subseteq FaultKinds /\ MaxFaults \in Nat

\* SHA204ReturnCodes.h, the codes this layer uses
ReturnCodes == {"SUCCESS", "PARSE_ERROR", "CMD_FAIL", "STATUS_CRC", "FUNC_FAIL",
                "INVALID_SIZE", "BAD_CRC", "RX_NO_RESPONSE",
                "RESYNC_WITH_WAKEUP", "COMM_FAIL", "TIMEOUT"}

VARIABLES
  pc,         \* where in the library the firmware is ("ready": in its caller)
  op,         \* the operation in progress, or the last one made
  cmd,        \* the command of send_and_receive
  ret,        \* ret_code, and the result once pc is "ready"
  sendsLeft,  \* n_retries_send
  recvsLeft,  \* n_retries_receive
  countdown,  \* timeout_countdown
  rx,         \* the frame in rx_buffer
  site,       \* who called resync or wakeup: the place to return to
  resynced,   \* ret_code_resync
  chip,       \* the chip at the other end of the bus
  faults,     \* ghost: faults that struck during the current operation
  sent,       \* ghost: transmissions of the current command
  executed,   \* ghost: how often the chip carried the current command out
  wasAwake    \* ghost: the chip was listening when the call began

library == <<pc, op, cmd, ret, sendsLeft, recvsLeft, countdown, rx, site, resynced>>
ghosts == <<sent, executed, wasAwake>>
vars == <<library, chip, faults, ghosts>>

Sites == {"api", "send", "silence", "garbage"}
Points == {"ready", "send", "receive", "poll", "check", "resync", "resyncRead",
           "resyncSleep", "wake", "wakeReply", "resynced"}

(***************************************************************************)
(* One representative use of each variable's type.                         *)
(***************************************************************************)
TypeOK ==
  /\ pc \in Points
  /\ op \in {"none", "wakeup", "command", "sleep", "idle"}
  /\ cmd \in Cmds
  /\ ret \in ReturnCodes
  /\ sendsLeft \in 0..(RetryCount + 1)
  /\ recvsLeft \in 0..(RetryCount + 1)
  /\ countdown \in Nat
  /\ rx \in Frames
  /\ site \in Sites
  /\ resynced \in ReturnCodes
  /\ chip \in Chips
  /\ faults \in Nat /\ sent \in Nat /\ executed \in Nat
  /\ wasAwake \in BOOLEAN

Init ==
  /\ pc = "ready" /\ op = "none"
  /\ cmd \in Cmds
  /\ ret = "SUCCESS" /\ resynced = "SUCCESS"
  /\ sendsLeft = 0 /\ recvsLeft = 0 /\ countdown = 0
  /\ rx = NoFrame
  /\ site = "api"
  /\ chip = ChipInit
  /\ faults = 0 /\ sent = 0 /\ executed = 0
  /\ wasAwake = FALSE

-----------------------------------------------------------------------------
(* Faults and the receiving half of a bus transaction *)

NoFault == UNCHANGED faults
Strike(kind) ==
  /\ kind \in Faults /\ faults < MaxFaults
  /\ faults' = faults + 1

\* mutant: silence is not told apart from a frame of the wrong size
HeardNoSilence(size, code, frame) ==
  /\ UNCHANGED faults
  /\ frame = IF Responsive(chip) THEN chip.out ELSE NoFrame
  /\ code = IF frame.size \in RspSizeMin..size THEN "SUCCESS" ELSE "INVALID_SIZE"

\* receive_response(size): a frame that fits is stored, one that is too long or
\* too short is reported, silence (no start pulse, no I2C acknowledge) is told
\* apart. That a spoilt frame shows, in its count byte or in its CRC, is taken for
\* granted here (which damage does is DamageNoticed of Commands).
Heard(size, code, frame) ==
  \/ /\ NoFault
     /\ IF ~Responsive(chip) THEN code = "RX_NO_RESPONSE" /\ frame = NoFrame
        ELSE /\ code = IF chip.out.size \in RspSizeMin..size
                         THEN "SUCCESS" ELSE "INVALID_SIZE"
             /\ frame = chip.out
  \/ /\ Responsive(chip)
     /\ \/ Strike("replyLost") /\ code = "RX_NO_RESPONSE" /\ frame = NoFrame
        \/ Strike("replyGarbled") /\ code = "SUCCESS" /\ frame = GarbledFrame
        \/ Strike("replyGarbled") /\ code = "INVALID_SIZE" /\ frame = GarbledFrame

\* what Heard may report
HeardCodes == {"SUCCESS", "INVALID_SIZE", "RX_NO_RESPONSE"}
HeardFrames == {NoFrame, GarbledFrame, chip.out}

\* mutant: the CRC is not looked at
CrcIgnored(frame) == TRUE

\* check_crc: a match is taken to mean an undamaged frame
CrcOk(frame) == frame.status # "garbled"

Return(code) == pc' = "ready" /\ ret' = code

-----------------------------------------------------------------------------
(* The caller's operations *)

CallWakeup ==
  /\ pc = "ready"
  /\ pc' = "wake" /\ op' = "wakeup" /\ site' = "api"
  /\ faults' = 0
  /\ UNCHANGED <<cmd, ret, sendsLeft, recvsLeft, countdown, rx, resynced, chip, ghosts>>

\* Entry of send_and_receive. The caller's buffer holds nothing of interest.
CallCommand(c) ==
  /\ pc = "ready"
  /\ pc' = "send" /\ op' = "command" /\ cmd' = c
  /\ ret' = "FUNC_FAIL"
  /\ sendsLeft' = RetryCount + 1
  /\ rx' = NoFrame
  /\ chip' = Forgotten(chip)
  /\ faults' = 0 /\ sent' = 0 /\ executed' = 0
  /\ wasAwake' = Responsive(chip)
  /\ UNCHANGED <<recvsLeft, countdown, site, resynced>>

\* sleep() and idle(): on the single wire the token always counts as sent; on
\* I2C a chip that does not acknowledge makes i2c_start time out.
CallDismiss(token) ==
  /\ pc = "ready"
  /\ op' = token
  /\ \/ chip' = Dismissed(chip, token) /\ faults' = 0
     \/ chip' = chip /\ "tokenLost" \in Faults /\ MaxFaults > 0 /\ faults' = 1
  /\ ret' = IF Interface = "TWI" /\ (~Responsive(chip) \/ faults' = 1)
              THEN "TIMEOUT" ELSE "SUCCESS"
  /\ UNCHANGED <<pc, cmd, sendsLeft, recvsLeft, countdown, rx, site, resynced, ghosts>>

-----------------------------------------------------------------------------
(* send_and_receive: the loop for sending *)

\* mutants: no end of retries; no retry
MaySendForever == ret # "SUCCESS"
MaySendOnce == sendsLeft > RetryCount /\ ret # "SUCCESS"

MaySend == sendsLeft > 0 /\ ret # "SUCCESS"

\* An intact command starts to execute while the library waits out its delay.
Delivered ==
  /\ NoFault
  /\ \E reply \in Replies(cmd), duration \in 1..ExecTime[cmd] :
       /\ chip' = Elapsed(Accepted(chip, reply, duration), ExecDelay[cmd])
       /\ executed' = IF Responsive(chip) /\ reply = AnswerTo(cmd)
                        THEN executed + 1 ELSE executed

\* The single wire has no acknowledge: send_bytes cannot fail.
SendCommandSWI ==
  /\ \/ Delivered
     \/ Strike("cmdLost") /\ UNCHANGED <<chip, executed>>
     \/ Strike("cmdGarbled") /\ chip' = Garbled(chip) /\ UNCHANGED executed
  /\ ret' = "SUCCESS"
  /\ recvsLeft' = RetryCount + 1
  /\ pc' = "receive"
  /\ UNCHANGED site

\* On I2C a byte without acknowledge ends the transmission.
SendCommandTWI ==
  \/ /\ Responsive(chip)
     /\ \/ Delivered
        \/ Strike("cmdGarbled") /\ chip' = Garbled(chip) /\ UNCHANGED executed
     /\ ret' = "SUCCESS"
     /\ recvsLeft' = RetryCount + 1
     /\ pc' = "receive"
     /\ UNCHANGED site
  \/ /\ IF Responsive(chip) THEN Strike("cmdLost") ELSE NoFault
     /\ ret' = "COMM_FAIL"
     /\ pc' = "resync" /\ site' = "send"
     /\ UNCHANGED <<recvsLeft, chip, executed>>

SendCommand ==
  /\ pc = "send" /\ MaySend
  /\ sendsLeft' = sendsLeft - 1
  /\ sent' = sent + 1
  /\ IF Interface = "SWI" THEN SendCommandSWI ELSE SendCommandTWI
  /\ UNCHANGED <<op, cmd, countdown, rx, resynced, wasAwake>>

GiveUp ==
  /\ pc = "send" /\ ~MaySend
  /\ Return(ret)
  /\ UNCHANGED <<op, cmd, sendsLeft, recvsLeft, countdown, rx, site, resynced,
                 chip, faults, ghosts>>

-----------------------------------------------------------------------------
(* send_and_receive: the loop for receiving *)

\* mutant: n_retries_receive is not counted down
StartReceiveUncounted ==
  /\ pc = "receive" /\ recvsLeft > 0
  /\ rx' = NoFrame
  /\ countdown' = ExecTimeout[cmd] + ResponseTimeout
  /\ pc' = "poll"
  /\ UNCHANGED <<op, cmd, ret, sendsLeft, recvsLeft, site, resynced, chip, faults, ghosts>>

StartReceive ==
  /\ pc = "receive" /\ recvsLeft > 0
  /\ recvsLeft' = recvsLeft - 1
  /\ rx' = NoFrame
  /\ countdown' = ExecTimeout[cmd] + ResponseTimeout
  /\ pc' = "poll"
  /\ UNCHANGED <<op, cmd, ret, sendsLeft, site, resynced, chip, faults, ghosts>>

ReceivesExhausted ==
  /\ pc = "receive" /\ recvsLeft = 0
  /\ pc' = "send"
  /\ UNCHANGED <<op, cmd, ret, sendsLeft, recvsLeft, countdown, rx, site, resynced,
                 chip, faults, ghosts>>

\* mutant: one poll is all
PollOnce(code, left) == FALSE

\* The condition at the foot of the polling loop, after the countdown
KeepPolling(code, left) == left > ResponseTimeout /\ code = "RX_NO_RESPONSE"

\* mutants: the first silence makes the library send again; no countdown
PollImpatiently ==
  /\ pc = "poll"
  /\ \E code \in HeardCodes, frame \in HeardFrames :
       /\ Heard(RspSize[cmd], code, frame)
       /\ ret' = code /\ rx' = frame
  /\ countdown' = countdown - ResponseTimeout
  /\ chip' = Elapsed(chip, 1)
  /\ pc' = IF ret' = "RX_NO_RESPONSE" THEN "send" ELSE "check"
  /\ UNCHANGED <<op, cmd, sendsLeft, recvsLeft, site, resynced, ghosts>>

PollUncounted ==
  /\ pc = "poll"
  /\ \E code \in HeardCodes, frame \in HeardFrames :
       /\ Heard(RspSize[cmd], code, frame)
       /\ ret' = code /\ rx' = frame
  /\ chip' = Elapsed(chip, 1)
  /\ pc' = IF KeepPolling(ret', countdown) THEN "poll" ELSE "check"
  /\ UNCHANGED <<op, cmd, sendsLeft, recvsLeft, countdown, site, resynced, ghosts>>

Poll ==
  /\ pc = "poll"
  /\ \E code \in HeardCodes, frame \in HeardFrames :
       /\ Heard(RspSize[cmd], code, frame)
       /\ ret' = code /\ rx' = frame
  /\ countdown' = countdown - ResponseTimeout
  /\ chip' = Elapsed(chip, 1)
  /\ pc' = IF KeepPolling(ret', countdown') THEN "poll" ELSE "check"
  /\ UNCHANGED <<op, cmd, sendsLeft, recvsLeft, site, resynced, ghosts>>

\* No response at all
Silence ==
  /\ pc = "check" /\ ret = "RX_NO_RESPONSE"
  /\ pc' = "resync" /\ site' = "silence"
  /\ UNCHANGED <<op, cmd, ret, sendsLeft, recvsLeft, countdown, rx, resynced,
                 chip, faults, ghosts>>

\* A frame of the wrong size, or one with a wrong CRC
Garbage ==
  /\ pc = "check"
  /\ \/ ret = "INVALID_SIZE" /\ UNCHANGED ret
     \/ ret = "SUCCESS" /\ ~CrcOk(rx) /\ ret' = "BAD_CRC"
  /\ pc' = "resync" /\ site' = "garbage"
  /\ UNCHANGED <<op, cmd, sendsLeft, recvsLeft, countdown, rx, resynced,
                 chip, faults, ghosts>>

\* A valid frame: data and status bytes other than the three error codes end
\* the call with success, a communication error makes the library send again.
Verdict ==
  /\ pc = "check" /\ ret = "SUCCESS" /\ CrcOk(rx)
  /\ CASE rx.status = "parse" -> Return("PARSE_ERROR")
       [] rx.status = "exec" -> Return("CMD_FAIL")
       [] rx.status = "comm" -> pc' = "send" /\ ret' = "STATUS_CRC"
       [] OTHER -> Return("SUCCESS")
  /\ UNCHANGED <<op, cmd, sendsLeft, recvsLeft, countdown, rx, site, resynced,
                 chip, faults, ghosts>>

-----------------------------------------------------------------------------
(* resync and wakeup *)

\* Single wire: wait. I2C: reset the bus and address the chip; if it
\* acknowledges, that is all.
Resync ==
  /\ pc = "resync"
  /\ \/ /\ Interface = "SWI"
        /\ chip' = Elapsed(chip, SyncTimeout)
        /\ pc' = "resyncRead"
        /\ NoFault /\ UNCHANGED resynced
     \/ /\ Interface = "TWI" /\ Responsive(chip)
        /\ NoFault
        /\ resynced' = "SUCCESS" /\ pc' = "resynced"
        /\ UNCHANGED chip
     \/ /\ Interface = "TWI"
        /\ IF Responsive(chip) THEN Strike("tokenLost") ELSE NoFault
        /\ pc' = "resyncRead"
        /\ UNCHANGED <<chip, resynced>>
  /\ UNCHANGED <<op, cmd, ret, sendsLeft, recvsLeft, countdown, rx, site, ghosts>>

ResyncRead ==
  /\ pc = "resyncRead"
  /\ \E code \in HeardCodes, frame \in HeardFrames :
       /\ Heard(RspSize[cmd], code, frame)
       /\ rx' = frame
       /\ IF code = "SUCCESS"
            THEN pc' = "resynced" /\ resynced' = "SUCCESS"
            ELSE pc' = "resyncSleep" /\ UNCHANGED resynced
  /\ chip' = Elapsed(chip, 1)
  /\ UNCHANGED <<op, cmd, ret, sendsLeft, recvsLeft, countdown, site, ghosts>>

ResyncSleep ==
  /\ pc = "resyncSleep"
  /\ \/ NoFault /\ chip' = Dismissed(chip, "sleep")
     \/ Strike("tokenLost") /\ UNCHANGED chip
  /\ pc' = "wake"
  /\ UNCHANGED <<op, cmd, ret, sendsLeft, recvsLeft, countdown, rx, site, resynced, ghosts>>

\* chip_wakeup: the pulse reports success whatever the chip does
WakePulse ==
  /\ pc = "wake"
  /\ \/ NoFault /\ chip' = Woken(chip)
     \/ Strike("wakeLost") /\ UNCHANGED chip
  /\ pc' = "wakeReply"
  /\ UNCHANGED <<op, cmd, ret, sendsLeft, recvsLeft, countdown, rx, site, resynced, ghosts>>

\* The four bytes received are compared with the one wake-up response there is.
\* What is not that response fails by its status or by its CRC.
WakeVerdicts(code, frame) ==
  CASE code # "SUCCESS" -> {code}
    [] code = "SUCCESS" /\ frame.status = "wake" -> {"SUCCESS"}
    [] code = "SUCCESS" /\ frame.status = "garbled" -> {"COMM_FAIL", "BAD_CRC"}
    [] OTHER -> {"COMM_FAIL"}

\* wakeup waits after a mismatch and returns; in resync, success means that the
\* chip had to be woken.
WakeEnds(code, verdict) ==
  /\ chip' = IF code = "SUCCESS" /\ verdict # "SUCCESS"
               THEN Elapsed(chip, CommandExecMax) ELSE Elapsed(chip, 1)
  /\ IF site = "api"
       THEN Return(verdict) /\ UNCHANGED resynced
       ELSE /\ pc' = "resynced"
            /\ resynced' = IF verdict = "SUCCESS" THEN "RESYNC_WITH_WAKEUP" ELSE verdict
            /\ UNCHANGED ret

\* The rest of wakeup: read the response and verify it.
WakeReply ==
  /\ pc = "wakeReply"
  /\ \E code \in HeardCodes, frame \in HeardFrames :
       /\ Heard(RspSizeMin, code, frame)
       /\ rx' = frame
       /\ \E verdict \in WakeVerdicts(code, frame) : WakeEnds(code, verdict)
  /\ UNCHANGED <<op, cmd, sendsLeft, recvsLeft, countdown, site, ghosts>>

\* What send_and_receive makes of resync's result, at each of its call sites
Resynced ==
  /\ pc = "resynced"
  /\ \/ /\ site \in {"send", "silence"}
        /\ IF resynced = "RX_NO_RESPONSE" THEN Return(ret) ELSE pc' = "send" /\ UNCHANGED ret
     \/ /\ site = "garbage"
        /\ CASE resynced = "SUCCESS" -> pc' = "receive" /\ UNCHANGED ret
             [] resynced = "RESYNC_WITH_WAKEUP" -> pc' = "send" /\ UNCHANGED ret
             [] OTHER -> Return(ret)
  /\ UNCHANGED <<op, cmd, sendsLeft, recvsLeft, countdown, rx, site, resynced,
                 chip, faults, ghosts>>

-----------------------------------------------------------------------------
(* The chip by itself *)

\* It falls asleep unasked: resync expects that ("had to be woken up").
Doze ==
  /\ chip.power \in {"awake", "idle"}
  /\ Strike("doze")
  /\ chip' = Off(chip, "sleep")
  /\ UNCHANGED <<library, ghosts>>

\* It is gone for good ("The device seems to be dead in the water").
Die ==
  /\ chip.power # "dead"
  /\ Strike("die")
  /\ chip' = Off(chip, "dead")
  /\ UNCHANGED <<library, ghosts>>

Calls ==
  \/ CallWakeup
  \/ \E c \in Cmds : CallCommand(c)
  \/ \E token \in {"sleep", "idle"} : CallDismiss(token)

Steps ==
  \/ SendCommand \/ GiveUp
  \/ StartReceive \/ ReceivesExhausted \/ Poll
  \/ Silence \/ Garbage \/ Verdict
  \/ Resync \/ ResyncRead \/ ResyncSleep \/ WakePulse \/ WakeReply \/ Resynced

Next == Calls \/ Steps \/ Doze \/ Die

Spec == Init /\ [][Next]_vars

\* The firmware is one thread that is never descheduled: a library call in
\* progress keeps taking its steps. Nothing is assumed of callers or faults.
FairSpec == Spec /\ WF_vars(Steps)

-----------------------------------------------------------------------------
(* Properties *)

\* The result of the last call of send_and_receive is at hand.
Returned == pc = "ready" /\ op = "command"

\* The chip itself pronounced the result, as opposed to the library giving up.
Verdicts == {"SUCCESS", "PARSE_ERROR", "CMD_FAIL"}

(***************************************************************************)
(* What the library reports as the chip's verdict is the chip's verdict on *)
(* this very command, never an older frame that was still in its output    *)
(* buffer; and success means that the chip carried the command out and     *)
(* that its answer is in the caller's buffer.                              *)
(***************************************************************************)
VerdictIsGenuine ==
  Returned /\ ret \in Verdicts =>
    /\ rx.mine
    /\ ret = "SUCCESS" => rx = AnswerTo(cmd) /\ executed > 0

(***************************************************************************)
(* The retry loops are bounded, and a command never takes effect more      *)
(* often than it was sent.                                                 *)
(***************************************************************************)
EffortIsBounded == executed <= sent /\ sent <= RetryCount + 1

(***************************************************************************)
(* A chip that was woken and suffers no fault gets each command exactly    *)
(* once and the caller gets its verdict: no retry is ever spurious.        *)
(***************************************************************************)
QuietBusExactlyOnce ==
  Returned /\ faults = 0 /\ wasAwake =>
    /\ ret \in Verdicts
    /\ sent = 1
    /\ ret = "SUCCESS" <=> executed = 1

(***************************************************************************)
(* With SHA204_RETRY_COUNT at least 1, one fault of any kind short of the  *)
(* chip's death is masked: a call that comes back brings the chip's        *)
(* verdict. On the single wire every call does (EveryCallReturns); on I2C  *)
(* OneFaultIsOvercome says which do not.                                   *)
(***************************************************************************)
OneFaultIsMasked ==
  Returned /\ faults <= 1 /\ wasAwake /\ chip.power # "dead" => ret \in Verdicts

\* On I2C the countdown never falls: what is polled is polled until it answers,
\* and a chip that sleeps or is dead never does.
PolledAsleep == Interface = "TWI" /\ pc = "poll" /\ chip.power # "awake"

(***************************************************************************)
(* A call made to a chip that listens comes back, and with the chip's      *)
(* verdict if at most one fault struck it, short of the chip's death;      *)
(* except that on I2C a chip lost after the transmission is polled for     *)
(* ever.                                                                   *)
(***************************************************************************)
OneFaultIsOvercome ==
  op = "command" /\ pc # "ready" /\ wasAwake ~>
    \/ Returned /\ (faults <= 1 /\ chip.power # "dead" => ret \in Verdicts)
    \/ PolledAsleep /\ faults > 0

\* What is still before a call: transmissions, receive attempts, places in the
\* code, and polls, in order of weight.
Turns == IF pc \in {"ready", "send"} THEN 0 ELSE recvsLeft + 1
Stage == [ready |-> 0, send |-> 1, receive |-> 2, resynced |-> 3, wakeReply |-> 4,
          wake |-> 5, resyncSleep |-> 6, resyncRead |-> 7, resync |-> 8,
          check |-> 9, poll |-> 10][pc]
Wait == IF Interface = "SWI" THEN countdown ELSE chip.left + (MaxFaults - faults)
Way == <<sendsLeft, Turns, Stage, Wait>>

Nearer == \E i \in 1..4 : Way'[i] < Way[i] /\ \A j \in 1..(i - 1) : Way'[j] = Way[j]

(***************************************************************************)
(* The nested loops of send_and_receive, resync and wakeup have a measure: *)
(* every step of the library brings a call nearer to its return, and no    *)
(* fault takes it away from there. The one exception is a poll, on I2C, of *)
(* a chip that is not awake.                                               *)
(***************************************************************************)
WindsDown ==
  [][/\ Steps => Nearer \/ PolledAsleep
     /\ Doze \/ Die => Nearer \/ UNCHANGED Way]_vars

(***************************************************************************)
(* The library never leaves the chip executing behind its back: whenever   *)
(* it sends a command, wakes the chip, puts it to sleep or returns, the    *)
(* chip has finished what it was given.                                    *)
(***************************************************************************)
NeverDisturbed ==
  pc \in {"ready", "send", "resyncSleep", "wake"} => chip.left = 0

(***************************************************************************)
(* A dead chip is never mistaken for a live one.                           *)
(***************************************************************************)
DeadIsReported ==
  Returned /\ chip.power = "dead" /\ faults = 0 => ret \in {"RX_NO_RESPONSE", "COMM_FAIL"}

(***************************************************************************)
(* Every call of send_and_receive and of wakeup comes back.                *)
(***************************************************************************)
EveryCallReturns == pc # "ready" ~> pc = "ready"
=============================================================================
