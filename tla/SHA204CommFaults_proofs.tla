----------------------- MODULE SHA204CommFaults_proofs -----------------------
(***************************************************************************)
(* What SHA204Comm does according to the faults of a call: with none and a *)
(* chip that listens, with a dead chip, and with one fault that the chip   *)
(* does not die of, wherever in the call it strikes; and how every call    *)
(* winds down. Proved for every retry count (from 1, to mask a fault),     *)
(* timing and set of commands, and for calls that follow on any faults of  *)
(* others.                                                                 *)
(***************************************************************************)
EXTENDS SHA204Comm_proofs

\* The single wire's last poll begins one response timeout before the countdown is over;
\* on I2C polling goes on.
PunctualChips == Interface = "TWI" \/ \A c \in Cmds : ExecTime[c] < ExecDelay[c] + ExecTimeout[c]

-----------------------------------------------------------------------------
(* A chip that listens *)

\* The answer in its output buffer is to the one transmission of this call.
Answering ==
  /\ sent = 1 /\ chip.out \in Replies(cmd)
  /\ executed = IF chip.out = AnswerTo(cmd) THEN 1 ELSE 0

\* How far the call is: it goes straight from the transmission to the verdict.
Straight ==
  /\ pc \in {"send", "receive", "poll", "check", "ready"}
  /\ pc = "send" => /\ chip.power = "awake" /\ sent = 0 /\ executed = 0
                    /\ ret = "FUNC_FAIL" /\ sendsLeft = RetryCount + 1
  /\ pc \in {"receive", "poll", "check"} =>
       chip.power = "awake" /\ Answering /\ sendsLeft = RetryCount
  /\ pc \in {"poll", "check"} => recvsLeft = RetryCount
  /\ pc = "receive" =>
       recvsLeft = RetryCount + 1 /\ (Interface = "SWI" => chip.left <= ExecTimeout[cmd] - 1)
  /\ pc = "poll" => (Interface = "SWI" => chip.left <= countdown - 2)
  /\ pc = "check" => ret = "SUCCESS" /\ rx = chip.out
  /\ pc = "ready" => ret \in Verdicts /\ sent = 1 /\ (ret = "SUCCESS" <=> executed = 1)

StraightInv == op = "command" /\ faults = 0 /\ wasAwake => Straight

\* A strike shows in the count of faults.
LEMMA StrikeCounts ==
  ASSUME TypeOK, NEW kind, Strike(kind)
  PROVE  faults' # 0
BY DEF TypeOK, Strike

\* The three answers fit the buffer, pass the CRC, and can be told apart.
LEMMA RepliesFit ==
  ASSUME NEW c \in Cmds, NEW r \in Replies(c)
  PROVE  /\ r.size \in RspSizeMin..RspSize[c]
         /\ CrcOk(r) /\ r.status # "comm"
         /\ (r.status \notin {"parse", "exec"}) <=> r = AnswerTo(c)
<1>1. RspSize[c] \in Nat /\ RspSize[c] >= RspSizeMin
  BY RspSizeAssumption
<1>2. CASE r = AnswerTo(c)
  BY <1>1, <1>2 DEF AnswerTo, Frame, CrcOk
<1>3. CASE r = Frame(RspSizeMin, "parse", TRUE) \/ r = Frame(RspSizeMin, "exec", TRUE)
  BY <1>1, <1>3 DEF AnswerTo, Frame, CrcOk, RspSizeMin
<1> QED
  BY <1>2, <1>3 DEF Replies

\* Without a fault, silence means that the chip is busy, and an answer is heard as it is.
LEMMA HeardStraight ==
  ASSUME TypeOK, chip.power = "awake", chip.out \in Replies(cmd),
         NEW code, NEW frame, Heard(RspSize[cmd], code, frame), faults' = 0
  PROVE  IF chip.left = 0 THEN code = "SUCCESS" /\ frame = chip.out
         ELSE code = "RX_NO_RESPONSE"
<1>1. chip.out.size \in RspSizeMin..RspSize[cmd]
  BY RepliesFit DEF TypeOK
<1>2. ~Strike("replyLost") /\ ~Strike("replyGarbled")
  BY StrikeCounts
<1> QED
  BY <1>1, <1>2 DEF Heard, Responsive

LEMMA StraightCalls ==
  ASSUME TypeInv, CommInv, StraightInv, Calls
  PROVE  StraightInv'
<1>1. CASE CallWakeup
  BY <1>1 DEF CallWakeup, StraightInv
<1>2. ASSUME NEW c \in Cmds, CallCommand(c)
      PROVE  StraightInv'
  <2>1. /\ pc' = "send" /\ ret' = "FUNC_FAIL" /\ sendsLeft' = RetryCount + 1
        /\ sent' = 0 /\ executed' = 0 /\ chip' = Forgotten(chip)
        /\ wasAwake' = Responsive(chip)
    BY <1>2 DEF CallCommand
  <2>2. wasAwake' => chip'.power = "awake"
    BY <2>1 DEF Responsive, Forgotten, TypeInv, TypeOK, Chips
  <2> QED
    BY <2>1, <2>2 DEF StraightInv, Straight
<1>3. ASSUME NEW token \in {"sleep", "idle"}, CallDismiss(token)
      PROVE  StraightInv'
  BY <1>3 DEF CallDismiss, StraightInv
<1> QED
  BY <1>1, <1>2, <1>3 DEF Calls

LEMMA StraightSend ==
  ASSUME PunctualChips, TypeInv, CommInv, StraightInv, SendCommand \/ GiveUp
  PROVE  StraightInv'
<1> SUFFICES ASSUME op' = "command", faults' = 0, wasAwake' PROVE Straight'
  BY DEF StraightInv
<1> USE DEF TypeInv, TypeOK
<1>1. pc = "send" /\ op = "command" /\ wasAwake
  BY DEF SendCommand, GiveUp, ghosts
<1>2. faults = 0
  BY StrikeCounts DEF SendCommand, GiveUp, SendCommandSWI, SendCommandTWI, Delivered, NoFault
<1>3. /\ chip.power = "awake" /\ sent = 0 /\ executed = 0
      /\ ret = "FUNC_FAIL" /\ sendsLeft = RetryCount + 1
  BY <1>1, <1>2 DEF StraightInv, Straight
<1>4. SendCommand
  BY <1>3, RetryAssumption DEF GiveUp, MaySend
<1>5. Responsive(chip)
  BY <1>1, <1>3 DEF CommInv, Settled, Responsive
<1>6. /\ Delivered /\ pc' = "receive" /\ recvsLeft' = RetryCount + 1
      /\ sent' = 1 /\ cmd' = cmd /\ sendsLeft' = RetryCount
  BY <1>3, <1>4, <1>5, StrikeCounts, RetryAssumption DEF SendCommand, SendCommandSWI, SendCommandTWI
<1>7. PICK reply \in Replies(cmd), duration \in 1..ExecTime[cmd] :
        /\ chip' = Elapsed(Accepted(chip, reply, duration), ExecDelay[cmd])
        /\ executed' = IF reply = AnswerTo(cmd) THEN executed + 1 ELSE executed
  BY <1>5, <1>6 DEF Delivered
<1>8. /\ reply \in Frames /\ duration \in Nat /\ ExecDelay[cmd] \in Nat
      /\ ExecTime[cmd] \in Nat /\ ExecTimeout[cmd] \in Nat \ {0}
  BY FrameTypes, TimingAssumption
<1>9. /\ Accepted(chip, reply, duration) \in Chips
      /\ Accepted(chip, reply, duration).left = duration
      /\ Accepted(chip, reply, duration).power = "awake"
      /\ Accepted(chip, reply, duration).out = reply
  BY <1>3, <1>5, <1>8, ChipTypes DEF Accepted, Chips
<1>10. /\ chip'.left = IF duration > ExecDelay[cmd] THEN duration - ExecDelay[cmd] ELSE 0
       /\ chip'.power = "awake" /\ chip'.out = reply
  BY <1>7, <1>8, <1>9, ElapsedFields
<1>11. Interface = "SWI" => chip'.left <= ExecTimeout[cmd] - 1
  BY <1>8, <1>10 DEF PunctualChips
<1>12. Answering'
  BY <1>3, <1>6, <1>7, <1>10 DEF Answering
<1> QED
  BY <1>6, <1>10, <1>11, <1>12 DEF Straight

LEMMA StraightReceive ==
  ASSUME TypeInv, CommInv, StraightInv,
         StartReceive \/ ReceivesExhausted \/ Poll \/ Silence \/ Garbage \/ Verdict
  PROVE  StraightInv'
<1> SUFFICES ASSUME op' = "command", faults' = 0, wasAwake' PROVE Straight'
  BY DEF StraightInv
<1> USE DEF TypeInv, TypeOK
<1>1. op = "command" /\ wasAwake /\ cmd' = cmd /\ sent' = sent /\ executed' = executed
  BY DEF StartReceive, ReceivesExhausted, Poll, Silence, Garbage, Verdict, ghosts
<1>2. faults = 0
  BY StrikeCounts DEF StartReceive, ReceivesExhausted, Poll, Silence, Garbage, Verdict, Heard, NoFault
<1>3. Straight
  BY <1>1, <1>2 DEF StraightInv
<1>4. CASE StartReceive
  <2>1. countdown' = ExecTimeout[cmd] + ResponseTimeout /\ pc' = "poll" /\ chip' = chip /\ pc = "receive"
        /\ sendsLeft' = RetryCount /\ recvsLeft' = RetryCount
    BY <1>3, <1>4, RetryAssumption DEF StartReceive, Straight
  <2>2. Answering' /\ chip'.power = "awake"
    BY <1>1, <1>3, <2>1 DEF Straight, Answering
  <2>3. Interface = "SWI" => chip'.left <= countdown' - 2
    BY <1>3, <2>1, ResponseTimeoutAssumption, TimingAssumption DEF Straight, Chips
  <2> QED
    BY <2>1, <2>2, <2>3 DEF Straight
<1>5. CASE ReceivesExhausted
  BY <1>3, <1>5, RetryAssumption DEF ReceivesExhausted, Straight
<1>6. CASE Poll
  <2>1. chip.power = "awake" /\ Answering
    BY <1>3, <1>6 DEF Straight, Poll
  <2>2. PICK code \in HeardCodes, frame \in HeardFrames :
          /\ Heard(RspSize[cmd], code, frame)
          /\ ret' = code /\ rx' = frame
    BY <1>6 DEF Poll
  <2>3. IF chip.left = 0 THEN ret' = "SUCCESS" /\ rx' = chip.out ELSE ret' = "RX_NO_RESPONSE"
    BY <2>1, <2>2, HeardStraight DEF Answering
  <2>4. /\ chip'.left = IF chip.left > 1 THEN chip.left - 1 ELSE 0
        /\ chip'.power = "awake" /\ chip'.out = chip.out
        /\ chip.left \in Nat /\ countdown' = countdown - ResponseTimeout
    BY <1>6, <2>1, ElapsedFields DEF Poll, Chips
  <2>5. Answering' /\ sendsLeft' = RetryCount /\ recvsLeft' = RetryCount
    BY <1>1, <1>3, <1>6, <2>1, <2>4 DEF Answering, Poll, Straight
  <2>6. CASE chip.left = 0
    <3>1. pc' = "check"
      BY <1>6, <2>3, <2>6 DEF Poll, KeepPolling
    <3> QED
      BY <2>3, <2>4, <2>5, <2>6, <3>1 DEF Straight
  <2>7. CASE chip.left # 0
    <3>1. CASE Interface = "SWI"
      <4>1. ResponseTimeout = 1 /\ chip.left <= countdown - 2
        BY <1>3, <1>6, <3>1, ResponseTimeoutAssumption DEF Straight, Poll
      <4>2. countdown' > 1 /\ chip'.left <= countdown' - 2
        BY <2>4, <2>7, <4>1
      <4>3. pc' = "poll"
        BY <1>6, <2>3, <2>7, <4>1, <4>2 DEF Poll, KeepPolling
      <4> QED
        BY <2>4, <2>5, <4>2, <4>3 DEF Straight
    <3>2. CASE Interface # "SWI"
      <4>1. ResponseTimeout = 0 /\ countdown = ExecTimeout[cmd]
        BY <1>6, <3>2, ResponseTimeoutAssumption DEF Poll, CommInv, Settled
      <4>2. countdown' > 0
        BY <2>4, <4>1, TimingAssumption
      <4>3. pc' = "poll"
        BY <1>6, <2>3, <2>7, <4>1, <4>2 DEF Poll, KeepPolling
      <4> QED
        BY <2>4, <2>5, <3>2, <4>3 DEF Straight
    <3> QED
      BY <3>1, <3>2
  <2> QED
    BY <2>6, <2>7
<1>7. CASE Silence
  BY <1>3, <1>7 DEF Silence, Straight
<1>8. CASE Garbage
  <2>1. CrcOk(rx) /\ ret = "SUCCESS"
    BY <1>3, <1>8, RepliesFit DEF Garbage, Straight, Answering
  <2> QED
    BY <1>8, <2>1 DEF Garbage
<1>9. CASE Verdict
  <2>1. rx \in Replies(cmd) /\ sent = 1 /\ executed = IF rx = AnswerTo(cmd) THEN 1 ELSE 0
    BY <1>3, <1>9 DEF Verdict, Straight, Answering
  <2>2. rx.status # "comm" /\ ((rx.status \notin {"parse", "exec"}) <=> rx = AnswerTo(cmd))
    BY <2>1, RepliesFit
  <2>3. pc' = "ready" /\ ret' \in Verdicts /\ (ret' = "SUCCESS" <=> rx.status \notin {"parse", "exec"})
    BY <1>9, <2>2 DEF Verdict, Return, Verdicts
  <2> QED
    BY <1>1, <2>1, <2>2, <2>3 DEF Straight
<1> QED
  BY <1>4, <1>5, <1>6, <1>7, <1>8, <1>9

\* The call does not get to resync, and wakeup is another operation.
LEMMA StraightRest ==
  ASSUME TypeInv, CommInv, StraightInv,
         Resync \/ ResyncRead \/ ResyncSleep \/ WakePulse \/ WakeReply \/ Resynced \/ Doze \/ Die
  PROVE  StraightInv'
<1> SUFFICES ASSUME op' = "command", faults' = 0, wasAwake' PROVE FALSE
  BY DEF StraightInv
<1>1. ~Doze /\ ~Die
  BY StrikeCounts DEF Doze, Die, TypeInv
<1>2. op = "command" /\ wasAwake /\ pc \in InResync \cup InWake
  BY <1>1 DEF Resync, ResyncRead, ResyncSleep, WakePulse, WakeReply, Resynced, ghosts, InResync, InWake
<1>3. faults = 0
  BY <1>1, StrikeCounts DEF Resync, ResyncRead, ResyncSleep, WakePulse, WakeReply, Resynced, Heard, NoFault, TypeInv
<1> QED
  BY <1>2, <1>3 DEF StraightInv, Straight, InResync, InWake

LEMMA StraightStep ==
  ASSUME PunctualChips, TypeInv, CommInv, StraightInv, [Next]_vars
  PROVE  StraightInv'
<1>1. ASSUME UNCHANGED vars
      PROVE  StraightInv'
  BY <1>1 DEF vars, library, ghosts, StraightInv, Straight, Answering
<1> QED
  BY <1>1, StraightCalls, StraightSend, StraightReceive, StraightRest DEF Next, Steps

(***************************************************************************)
(* A chip that listens when the call begins, and is done one response      *)
(* timeout before its maximum, gets the command once and its verdict is    *)
(* returned: no retry or resynchronisation without a fault.                *)
(***************************************************************************)
THEOREM QuietMeansOnce ==
  ASSUME PunctualChips
  PROVE  Spec => []QuietBusExactlyOnce
<1>1. Init => StraightInv
  BY DEF Init, StraightInv
<1>2. TypeInv /\ CommInv /\ StraightInv /\ [Next]_vars => StraightInv'
  BY StraightStep
<1>3. StraightInv => QuietBusExactlyOnce
  BY DEF StraightInv, Straight, QuietBusExactlyOnce, Returned
<1> QED
  BY <1>1, <1>2, <1>3, CommInvHolds, PTL DEF Spec

-----------------------------------------------------------------------------
(* A dead chip *)

\* One attempt in vain, one resynchronisation in vain
InVain ==
  /\ pc = "send" => ret = "FUNC_FAIL" /\ sendsLeft = RetryCount + 1
  /\ pc = "receive" => recvsLeft = RetryCount + 1
  /\ pc = "check" => ret = "RX_NO_RESPONSE"
  /\ pc \in InResync \cup InWake =>
       site \in {"send", "silence"} /\ ret \in {"RX_NO_RESPONSE", "COMM_FAIL"}
  /\ pc = "resynced" => resynced = "RX_NO_RESPONSE"
  /\ pc = "ready" => ret \in {"RX_NO_RESPONSE", "COMM_FAIL"}

InVainInv == op = "command" /\ faults = 0 /\ chip.power = "dead" => InVain

\* Only Die makes a chip dead, and nothing brings it back.
LEMMA DeadStaysDead ==
  ASSUME TypeInv, Next, faults' = 0
  PROVE  chip'.power = "dead" => chip.power = "dead"
<1> USE DEF TypeInv, TypeOK
<1>1. CASE Calls
  BY <1>1 DEF Calls, CallWakeup, CallCommand, CallDismiss, Forgotten, Dismissed, Off, Chips
<1>2. CASE SendCommand
  <2>1. \/ chip' = chip \/ chip' = Garbled(chip)
        \/ \E reply \in Replies(cmd), duration \in 1..ExecTime[cmd] :
             chip' = Elapsed(Accepted(chip, reply, duration), ExecDelay[cmd])
    BY <1>2 DEF SendCommand, SendCommandSWI, SendCommandTWI, Delivered
  <2> QED
    BY <2>1 DEF Garbled, Accepted, Elapsed, Chips
<1>3. CASE GiveUp \/ StartReceive \/ ReceivesExhausted \/ Silence \/ Garbage \/ Verdict \/ Resynced
  BY <1>3 DEF GiveUp, StartReceive, ReceivesExhausted, Silence, Garbage, Verdict, Resynced
<1>4. CASE Poll \/ Resync \/ ResyncRead
  BY <1>4 DEF Poll, Resync, ResyncRead, Elapsed, Chips
<1>5. CASE ResyncSleep \/ WakePulse
  BY <1>5 DEF ResyncSleep, WakePulse, Dismissed, Off, Woken, Chips
<1>6. CASE WakeReply
  BY <1>6 DEF WakeReply, WakeEnds, Elapsed, Chips
<1>7. CASE Doze \/ Die
  BY <1>7, StrikeCounts DEF Doze, Die
<1> QED
  BY <1>1, <1>2, <1>3, <1>4, <1>5, <1>6, <1>7 DEF Next, Steps

\* A dead chip is not heard.
LEMMA DeadSilence ==
  ASSUME chip.power = "dead", NEW size, NEW code, NEW frame, Heard(size, code, frame)
  PROVE  code = "RX_NO_RESPONSE" /\ faults' = faults
BY DEF Heard, Responsive, NoFault

LEMMA InVainNext ==
  ASSUME TypeInv, CommInv, InVainInv, Next
  PROVE  InVainInv'
<1> SUFFICES ASSUME op' = "command", faults' = 0, chip'.power = "dead" PROVE InVain'
  BY DEF InVainInv
<1>1. chip.power = "dead" /\ ~Responsive(chip)
  BY DeadStaysDead DEF Responsive
<1>2. CASE Calls
  BY <1>2 DEF Calls, CallWakeup, CallCommand, CallDismiss, InVain, InResync, InWake
<1>3. CASE ~Calls
  <2>1. faults = 0
    BY <1>3, StrikeCounts DEF Next, Steps, SendCommand, SendCommandSWI, SendCommandTWI, Delivered, GiveUp,
       StartReceive, ReceivesExhausted, Poll, Silence, Garbage, Verdict, Resync, ResyncRead, ResyncSleep,
       WakePulse, WakeReply, Resynced, Doze, Die, Heard, NoFault, TypeInv
  <2>2. op = "command"
    BY <1>3 DEF Next, Steps, SendCommand, GiveUp, StartReceive, ReceivesExhausted, Poll, Silence, Garbage,
       Verdict, Resync, ResyncRead, ResyncSleep, WakePulse, WakeReply, Resynced, Doze, Die, library
  <2>3. InVain
    BY <1>1, <2>1, <2>2 DEF InVainInv
  <2>4. CASE SendCommand
    BY <1>1, <2>4 DEF SendCommand, SendCommandSWI, SendCommandTWI, InVain, InResync, InWake
  <2>5. CASE GiveUp
    BY <2>3, <2>5, RetryAssumption DEF GiveUp, MaySend, InVain
  <2>6. CASE StartReceive
    BY <2>6 DEF StartReceive, InVain, InResync, InWake
  <2>7. CASE ReceivesExhausted
    BY <2>3, <2>7, RetryAssumption DEF ReceivesExhausted, InVain
  <2>8. CASE Poll
    <3>1. ret' = "RX_NO_RESPONSE" /\ pc' \in {"poll", "check"}
      BY <1>1, <2>8, DeadSilence DEF Poll
    <3> QED
      BY <3>1 DEF InVain, InResync, InWake
  <2>9. CASE Silence
    BY <2>9 DEF Silence, InVain, InResync, InWake
  <2>10. CASE Garbage \/ Verdict
    BY <2>3, <2>10 DEF Garbage, Verdict, InVain
  <2>11. CASE Resync \/ ResyncSleep \/ WakePulse
    <3>1. /\ pc \in InResync \cup InWake /\ pc' \in {"resyncRead", "wake", "wakeReply"}
          /\ UNCHANGED <<site, ret>>
      BY <1>1, <2>11 DEF Resync, ResyncSleep, WakePulse, InResync, InWake
    <3> QED
      BY <2>3, <3>1 DEF InVain, InResync, InWake
  <2>12. CASE ResyncRead
    <3>1. pc = "resyncRead" /\ pc' = "resyncSleep" /\ UNCHANGED <<site, ret>>
      BY <1>1, <2>12, DeadSilence DEF ResyncRead
    <3> QED
      BY <2>3, <3>1 DEF InVain, InResync, InWake
  <2>13. CASE WakeReply
    <3>1. pc = "wakeReply" /\ site' = site /\ site # "api"
      BY <2>3, <2>13 DEF WakeReply, InVain, InWake
    <3>2. PICK code \in HeardCodes, frame \in HeardFrames :
            /\ Heard(RspSizeMin, code, frame)
            /\ \E verdict \in WakeVerdicts(code, frame) : WakeEnds(code, verdict)
      BY <2>13 DEF WakeReply
    <3>3. code = "RX_NO_RESPONSE"
      BY <1>1, <3>2, DeadSilence
    <3>4. WakeEnds(code, "RX_NO_RESPONSE")
      BY <3>2, <3>3 DEF WakeVerdicts
    <3>5. pc' = "resynced" /\ resynced' = "RX_NO_RESPONSE" /\ ret' = ret
      BY <3>1, <3>4 DEF WakeEnds
    <3> QED
      BY <2>3, <3>1, <3>5 DEF InVain, InResync, InWake
  <2>14. CASE Resynced
    <3>1. /\ pc = "resynced" /\ resynced = "RX_NO_RESPONSE" /\ site \in {"send", "silence"}
          /\ ret \in {"RX_NO_RESPONSE", "COMM_FAIL"}
      BY <2>3, <2>14 DEF Resynced, InVain, InResync, InWake
    <3>2. pc' = "ready" /\ ret' = ret
      BY <2>14, <3>1 DEF Resynced, Return
    <3> QED
      BY <3>1, <3>2 DEF InVain, InResync, InWake
  <2>15. CASE Doze \/ Die
    BY <2>15, StrikeCounts DEF Doze, Die, TypeInv
  <2> QED
    BY <1>3, <2>4, <2>5, <2>6, <2>7, <2>8, <2>9, <2>10, <2>11, <2>12, <2>13, <2>14, <2>15
    DEF Next, Steps
<1> QED
  BY <1>2, <1>3

(***************************************************************************)
(* A command to a chip that is dead is never reported as anything but no   *)
(* response or a failed transmission.                                      *)
(***************************************************************************)
THEOREM DeadGivesNothing == Spec => []DeadIsReported
<1>1. Init => InVainInv
  BY DEF Init, InVainInv
<1>2. TypeInv /\ CommInv /\ InVainInv /\ [Next]_vars => InVainInv'
  <2>1. ASSUME InVainInv, UNCHANGED vars
        PROVE  InVainInv'
    BY <2>1 DEF vars, library, ghosts, InVainInv, InVain
  <2> QED
    BY <2>1, InVainNext
<1>3. InVainInv => DeadIsReported
  BY DEF InVainInv, InVain, DeadIsReported, Returned
<1> QED
  BY <1>1, <1>2, <1>3, CommInvHolds, PTL DEF Spec

-----------------------------------------------------------------------------
(* How a call winds down *)

FaultsLimited == faults <= MaxFaults

LEMMA FaultsLimitedStep == TypeInv /\ FaultsLimited /\ [Next]_vars => FaultsLimited'
<1> SUFFICES ASSUME TypeInv, FaultsLimited, [Next]_vars PROVE FaultsLimited'
  OBVIOUS
<1> USE FaultAssumption DEF TypeInv, TypeOK, FaultsLimited
<1>1. \A kind : Strike(kind) => faults' <= MaxFaults
  BY DEF Strike
<1>2. \A size, code, frame : Heard(size, code, frame) => faults' <= MaxFaults
  BY <1>1 DEF Heard, NoFault
<1>3. CASE Calls
  BY <1>3 DEF Calls, CallWakeup, CallCommand, CallDismiss
<1>4. CASE SendCommand
  BY <1>1, <1>4 DEF SendCommand, SendCommandSWI, SendCommandTWI, Delivered, NoFault
<1>5. CASE Poll \/ ResyncRead \/ WakeReply
  BY <1>2, <1>5 DEF Poll, ResyncRead, WakeReply
<1>6. CASE Resync \/ ResyncSleep \/ WakePulse
  BY <1>1, <1>6 DEF Resync, ResyncSleep, WakePulse, NoFault
<1>7. CASE GiveUp \/ StartReceive \/ ReceivesExhausted \/ Silence \/ Garbage \/ Verdict \/ Resynced
  BY <1>7 DEF GiveUp, StartReceive, ReceivesExhausted, Silence, Garbage, Verdict, Resynced
<1>8. CASE Doze \/ Die
  BY <1>1, <1>8 DEF Doze, Die
<1> QED
  BY <1>3, <1>4, <1>5, <1>6, <1>7, <1>8 DEF Next, Steps, vars

\* Nothing of the way that lies before a call is below zero.
LEMMA WayTypes ==
  ASSUME TypeInv, FaultsLimited
  PROVE  \A i \in 1..4 : Way[i] \in Nat
<1>1. sendsLeft \in Nat /\ Turns \in Nat
  BY RetryAssumption DEF TypeInv, TypeOK, Turns
<1>2. Stage \in Nat
  BY DEF TypeInv, TypeOK, Points, Stage
<1>3. Wait \in Nat
  BY FaultAssumption DEF TypeInv, TypeOK, FaultsLimited, Wait, Chips
<1> QED
  BY <1>1, <1>2, <1>3 DEF Way

LEMMA HowNearer ==
  ASSUME \/ sendsLeft' < sendsLeft
         \/ sendsLeft' = sendsLeft /\ Turns' < Turns
         \/ sendsLeft' = sendsLeft /\ Turns' = Turns /\ Stage' < Stage
         \/ sendsLeft' = sendsLeft /\ Turns' = Turns /\ Stage' = Stage /\ Wait' < Wait
  PROVE  Nearer
<1>1. CASE sendsLeft' < sendsLeft
  <2>1. Way'[1] < Way[1] /\ \A j \in 1..(1 - 1) : Way'[j] = Way[j]
    BY <1>1 DEF Way
  <2> QED
    BY <2>1 DEF Nearer
<1>2. CASE sendsLeft' = sendsLeft /\ Turns' < Turns
  <2>1. Way'[2] < Way[2] /\ \A j \in 1..(2 - 1) : Way'[j] = Way[j]
    BY <1>2 DEF Way
  <2> QED
    BY <2>1 DEF Nearer
<1>3. CASE sendsLeft' = sendsLeft /\ Turns' = Turns /\ Stage' < Stage
  <2>1. Way'[3] < Way[3] /\ \A j \in 1..(3 - 1) : Way'[j] = Way[j]
    BY <1>3 DEF Way
  <2> QED
    BY <2>1 DEF Nearer
<1>4. CASE sendsLeft' = sendsLeft /\ Turns' = Turns /\ Stage' = Stage /\ Wait' < Wait
  <2>1. Way'[4] < Way[4] /\ \A j \in 1..(4 - 1) : Way'[j] = Way[j]
    BY <1>4 DEF Way
  <2> QED
    BY <2>1 DEF Nearer
<1> QED
  BY <1>1, <1>2, <1>3, <1>4

\* A poll that is not the last waits for a shorter time still, unless the chip is not awake.
LEMMA PollNearer ==
  ASSUME TypeInv, CommInv, FaultsLimited, Poll, ~PolledAsleep
  PROVE  Nearer
<1> USE FaultAssumption, ResponseTimeoutAssumption, InterfaceAssumption DEF TypeInv, TypeOK
<1>1. /\ pc = "poll" /\ sendsLeft' = sendsLeft /\ recvsLeft' = recvsLeft
      /\ pc' \in {"poll", "check"}
  BY DEF Poll
<1>2. Turns' = Turns
  BY <1>1 DEF Turns
<1>3. CASE pc' = "check"
  <2>1. Stage' < Stage
    BY <1>1, <1>3 DEF Stage
  <2> QED
    BY <1>1, <1>2, <2>1, HowNearer
<1>4. CASE pc' = "poll"
  <2>1. Stage' = Stage
    BY <1>1, <1>4 DEF Stage
  <2>2. Wait' < Wait
    <3>1. CASE Interface = "SWI"
      BY <1>1, <3>1 DEF Wait, CommInv, Settled, Poll
    <3>2. CASE Interface = "TWI"
      <4>1. chip.power = "awake"
        BY <1>1, <3>2 DEF PolledAsleep
      <4>2. PICK code, frame : Heard(RspSize[cmd], code, frame) /\ ret' = code
        BY DEF Poll
      <4>3. code = "RX_NO_RESPONSE"
        BY <1>4, <4>2 DEF Poll, KeepPolling
      <4>4. \/ faults' = faults /\ chip.left > 0
            \/ faults' = faults + 1 /\ chip.left = 0
        BY <4>1, <4>2, <4>3 DEF Heard, NoFault, Strike, Responsive, Chips
      <4>5. chip.left \in Nat /\ chip'.left = IF chip.left > 1 THEN chip.left - 1 ELSE 0
        BY ElapsedFields DEF Poll, Chips
      <4> QED
        BY <3>2, <4>4, <4>5 DEF Wait
    <3> QED
      BY <3>1, <3>2
  <2> QED
    BY <1>1, <1>2, <2>1, <2>2, HowNearer
<1> QED
  BY <1>1, <1>3, <1>4

LEMMA StepNearer ==
  ASSUME TypeInv, CommInv, FaultsLimited, Steps, ~PolledAsleep
  PROVE  Nearer
<1> USE RetryAssumption DEF TypeInv, TypeOK
<1>1. CASE SendCommand
  <2>1. sendsLeft' < sendsLeft
    BY <1>1 DEF SendCommand, MaySend
  <2> QED
    BY <2>1, HowNearer
<1>2. CASE GiveUp
  <2>1. sendsLeft' = sendsLeft /\ Turns' = Turns /\ Stage' < Stage
    BY <1>2 DEF GiveUp, Return, Turns, Stage
  <2> QED
    BY <2>1, HowNearer
<1>3. CASE StartReceive \/ ReceivesExhausted
  <2>1. sendsLeft' = sendsLeft /\ Turns' < Turns
    BY <1>3 DEF StartReceive, ReceivesExhausted, Turns
  <2> QED
    BY <2>1, HowNearer
<1>4. CASE Poll
  BY <1>4, PollNearer
<1>5. CASE Silence \/ Garbage \/ Verdict
  <2>1. /\ pc = "check" /\ pc' \in {"resync", "send", "ready"}
        /\ sendsLeft' = sendsLeft /\ recvsLeft' = recvsLeft
    BY <1>5 DEF Silence, Garbage, Verdict, Return
  <2>2. CASE pc' = "resync"
    <3>1. Turns' = Turns /\ Stage' < Stage
      BY <2>1, <2>2 DEF Turns, Stage
    <3> QED
      BY <2>1, <3>1, HowNearer
  <2>3. CASE pc' \in {"send", "ready"}
    <3>1. Turns' < Turns
      BY <2>1, <2>3 DEF Turns
    <3> QED
      BY <2>1, <3>1, HowNearer
  <2> QED
    BY <2>1, <2>2, <2>3
<1>6. CASE Resync \/ ResyncRead \/ ResyncSleep \/ WakePulse
  <2>1. /\ sendsLeft' = sendsLeft /\ recvsLeft' = recvsLeft
        /\ \/ pc = "resync" /\ pc' \in {"resyncRead", "resynced"}
           \/ pc = "resyncRead" /\ pc' \in {"resyncSleep", "resynced"}
           \/ pc = "resyncSleep" /\ pc' = "wake"
           \/ pc = "wake" /\ pc' = "wakeReply"
    BY <1>6 DEF Resync, ResyncRead, ResyncSleep, WakePulse
  <2>2. Turns' = Turns /\ Stage' < Stage
    BY <2>1 DEF Turns, Stage
  <2> QED
    BY <2>1, <2>2, HowNearer
<1>7. CASE WakeReply \/ Resynced
  <2>1. /\ sendsLeft' = sendsLeft /\ recvsLeft' = recvsLeft
        /\ \/ pc = "wakeReply" /\ pc' \in {"resynced", "ready"}
           \/ pc = "resynced" /\ pc' \in {"receive", "send", "ready"}
    BY <1>7 DEF WakeReply, WakeEnds, Resynced, Return
  <2>2. CASE pc' \in {"resynced", "receive"}
    <3>1. Turns' = Turns /\ Stage' < Stage
      BY <2>1, <2>2 DEF Turns, Stage
    <3> QED
      BY <2>1, <3>1, HowNearer
  <2>3. CASE pc' \in {"send", "ready"}
    <3>1. Turns' < Turns
      BY <2>1, <2>3 DEF Turns
    <3> QED
      BY <2>1, <3>1, HowNearer
  <2> QED
    BY <2>1, <2>2, <2>3
<1> QED
  BY <1>1, <1>2, <1>3, <1>4, <1>5, <1>6, <1>7 DEF Steps

LEMMA ChipNotFurther ==
  ASSUME TypeInv, FaultsLimited, Doze \/ Die
  PROVE  Nearer \/ UNCHANGED Way
<1>1. UNCHANGED library /\ faults' = faults + 1 /\ chip'.left = 0 /\ chip.left \in Nat
  BY DEF Doze, Die, Strike, Off, TypeInv, TypeOK, Chips
<1>2. sendsLeft' = sendsLeft /\ Turns' = Turns /\ Stage' = Stage
  BY <1>1 DEF library, Turns, Stage
<1>3. CASE Interface = "SWI"
  BY <1>1, <1>2, <1>3 DEF Way, Wait, library
<1>4. CASE Interface = "TWI"
  <2>1. Wait' < Wait
    BY <1>1, <1>4, FaultAssumption DEF Wait, TypeInv, TypeOK
  <2> QED
    BY <1>2, <2>1, HowNearer
<1> QED
  BY <1>3, <1>4, InterfaceAssumption

(***************************************************************************)
(* Whatever strikes, every step of the library lowers a measure of the     *)
(* call in progress, which is never below zero and which no fault raises;  *)
(* except a poll, on I2C, of a chip that is not awake.                     *)
(***************************************************************************)
THEOREM CallsWindDown == Spec => WindsDown /\ [](\A i \in 1..4 : Way[i] \in Nat)
<1>1. Init => FaultsLimited
  BY FaultAssumption DEF Init, FaultsLimited
<1>2. TypeInv /\ CommInv /\ FaultsLimited /\ [Next]_vars =>
        [/\ Steps => Nearer \/ PolledAsleep
         /\ Doze \/ Die => Nearer \/ UNCHANGED Way]_vars
  BY StepNearer, ChipNotFurther
<1>3. TypeInv /\ FaultsLimited => \A i \in 1..4 : Way[i] \in Nat
  BY WayTypes
<1> QED
  BY <1>1, <1>2, <1>3, FaultsLimitedStep, CommInvHolds, PTL DEF Spec, WindsDown

-----------------------------------------------------------------------------
(* After one fault                                                           *)

\* What the code's retries are for
OneFaultPremises == PunctualChips /\ NothingUnnoticed /\ RetryCount >= 1

\* The chip's complaint of a damaged command
Comm == Frame(RspSizeMin, "comm", TRUE)

\* The chip has a verdict on this command, or there is an attempt left after its complaint.
Promising(frame) ==
  frame \in Replies(cmd) \/ (frame = Comm /\ chip.power = "awake" /\ sendsLeft >= 1)

\* Garbage is followed by a resync of a chip that still holds its answer.
AfterGarbage ==
  /\ chip.power = "awake" /\ chip.out \in Replies(cmd) /\ recvsLeft >= 1
  /\ pc \in {"resync", "resyncRead", "resynced"}
  /\ pc = "resynced" => resynced = "SUCCESS"

\* Silence, or a transmission that was not acknowledged, by one that ends with the chip awake
\* and an attempt to make.
AfterSilence ==
  /\ sendsLeft >= 1
  /\ pc = "resync" /\ site = "silence" /\ chip.power = "awake" => chip.out \in Replies(cmd)
  /\ pc = "resync" /\ site = "send" => Interface = "TWI"
  /\ pc = "resyncRead" /\ chip.power = "awake" => chip.out \in Replies(cmd)
  /\ pc \in {"resyncSleep", "wake"} => chip.power = "sleep"
  /\ pc = "wakeReply" => chip.power = "awake" /\ chip.out = Frame(RspSizeMin, "wake", FALSE)
  /\ pc = "resynced" => chip.power = "awake" /\ resynced \in {"SUCCESS", "RESYNC_WITH_WAKEUP"}

\* What was just received: something to go by, something damaged, or nothing
Checked ==
  \/ ret = "SUCCESS" /\ CrcOk(rx) /\ Promising(rx)
  \/ /\ ret \in {"SUCCESS", "INVALID_SIZE"} /\ ~CrcOk(rx)
     /\ chip.power = "awake" /\ chip.out \in Replies(cmd) /\ recvsLeft >= 1
  \/ /\ ret = "RX_NO_RESPONSE" /\ sendsLeft >= 1
     /\ chip.power = "awake" => chip.out \in Replies(cmd)

\* After the one fault a verdict is still to come.
Recovering ==
  /\ chip.power \in {"awake", "sleep"}
  /\ pc = "send" => ret # "SUCCESS" /\ sendsLeft >= (IF chip.power = "awake" THEN 1 ELSE 2)
  /\ pc \in {"receive", "poll"} =>
       IF chip.power = "awake" THEN Promising(chip.out) ELSE sendsLeft >= 1
  /\ pc = "receive" =>
       recvsLeft >= 1 /\ (Interface = "SWI" => chip.left <= ExecTimeout[cmd] - 1)
  /\ pc = "poll" => (Interface = "SWI" /\ chip.power = "awake" => chip.left <= countdown - 2)
  /\ pc = "check" => Checked
  /\ pc \in InResync \cup InWake => IF site = "garbage" THEN AfterGarbage ELSE AfterSilence
  /\ pc = "ready" => ret \in Verdicts

RecoveringInv == op = "command" /\ faults = 1 /\ wasAwake /\ chip.power # "dead" => Recovering

-----------------------------------------------------------------------------
(* The steps after a fault *)

\* One fault more than one is two.
LEMMA SecondStrike ==
  ASSUME TypeInv, faults = 1, faults' = 1, NEW kind
  PROVE  ~Strike(kind)
BY DEF TypeInv, TypeOK, Strike

\* What the chip holds fits the buffer and passes the CRC.
LEMMA PromisesFit ==
  ASSUME TypeInv, NEW frame, Promising(frame)
  PROVE  frame.size \in RspSizeMin..RspSize[cmd] /\ CrcOk(frame)
<1>1. CASE frame \in Replies(cmd)
  BY <1>1, RepliesFit DEF TypeInv, TypeOK
<1>2. CASE frame = Comm
  BY <1>2, RspSizeAssumption DEF Comm, Frame, CrcOk, RspSizeMin, TypeInv, TypeOK
<1> QED
  BY <1>1, <1>2 DEF Promising

\* After the fault, a chip that listens is heard as it is, and one that does not is not.
LEMMA HeardAfterwards ==
  ASSUME TypeInv, faults = 1, faults' = 1, NEW size, NEW code, NEW frame, Heard(size, code, frame)
  PROVE  IF Responsive(chip) /\ chip.out.size \in RspSizeMin..size
           THEN code = "SUCCESS" /\ frame = chip.out
           ELSE ~Responsive(chip) => code = "RX_NO_RESPONSE"
BY SecondStrike DEF Heard

LEMMA RecoveringSend ==
  ASSUME OneFaultPremises, TypeInv, CommInv, StraightInv, RecoveringInv, SendCommand \/ GiveUp
  PROVE  RecoveringInv'
<1> SUFFICES ASSUME op' = "command", faults' = 1, wasAwake', chip'.power # "dead" PROVE Recovering'
  BY DEF RecoveringInv
<1> USE DEF TypeInv, TypeOK
<1>1. /\ pc = "send" /\ op = "command" /\ wasAwake /\ cmd' = cmd /\ chip.left = 0
      /\ RetryCount \in Nat /\ RetryCount >= 1
  BY RetryAssumption DEF SendCommand, GiveUp, ghosts, CommInv, Settled, OneFaultPremises
<1>2. faults \in {0, 1}
  <2>1. faults' = faults \/ faults' = faults + 1
    BY DEF SendCommand, GiveUp, SendCommandSWI, SendCommandTWI, Delivered, NoFault, Strike
  <2> QED
    BY <2>1
<1>3. /\ chip.power \in {"awake", "sleep"} /\ ret # "SUCCESS"
      /\ sendsLeft >= (IF chip.power = "awake" THEN 1 ELSE 2)
      /\ faults = 0 => chip.power = "awake" /\ sendsLeft = RetryCount + 1
  <2>1. CASE faults = 0
    BY <1>1, <2>1 DEF StraightInv, Straight
  <2>2. CASE faults = 1
    <3>1. chip.power # "dead"
      BY DEF SendCommand, GiveUp, SendCommandSWI, SendCommandTWI, Delivered, Garbled, Accepted,
         Elapsed, Responsive, Chips
    <3> QED
      BY <1>1, <2>2, <3>1 DEF RecoveringInv, Recovering
  <2> QED
    BY <1>2, <2>1, <2>2
<1>4. SendCommand /\ sendsLeft' = sendsLeft - 1
  BY <1>1, <1>3 DEF GiveUp, MaySend, SendCommand
<1>5. CASE pc' = "resync"
  <2>1. Interface = "TWI" /\ site' = "send" /\ chip' = chip
    BY <1>4, <1>5, InterfaceAssumption DEF SendCommand, SendCommandSWI, SendCommandTWI
  <2>2. Responsive(chip) => Strike("cmdLost")
    BY <1>4, <1>5 DEF SendCommand, SendCommandSWI, SendCommandTWI
  <2>3. sendsLeft' >= 1
    <3>1. CASE faults = 0
      BY <1>1, <1>3, <1>4, <3>1
    <3>2. CASE faults = 1
      BY <1>1, <1>2, <1>3, <1>4, <2>2, <3>2, SecondStrike DEF Responsive
    <3> QED
      BY <1>2, <3>1, <3>2
  <2> QED
    BY <1>3, <1>5, <2>1, <2>3 DEF Recovering, AfterSilence, InResync, InWake
<1>6. CASE pc' # "resync"
  <2>1. pc' = "receive" /\ recvsLeft' = RetryCount + 1
    BY <1>4, <1>6 DEF SendCommand, SendCommandSWI, SendCommandTWI
  <2>2. ExecTimeout[cmd] \in Nat \ {0} /\ ExecDelay[cmd] \in Nat /\ ExecTime[cmd] \in Nat
    BY TimingAssumption
  <2>3. /\ chip'.power = chip.power
        /\ Interface = "SWI" => chip'.left <= ExecTimeout[cmd] - 1
        /\ chip.power = "awake" => chip'.out \in Replies(cmd) \/ (chip'.out = Comm /\ faults = 0)
    <3>1. CASE Delivered
      <4>1. PICK reply \in Replies(cmd), duration \in 1..ExecTime[cmd] :
              chip' = Elapsed(Accepted(chip, reply, duration), ExecDelay[cmd])
        BY <3>1 DEF Delivered
      <4>2. reply \in Frames /\ duration \in Nat
        BY <2>2, FrameTypes
      <4>3. CASE Responsive(chip)
        <5>1. /\ Accepted(chip, reply, duration) \in Chips
              /\ Accepted(chip, reply, duration).left = duration
              /\ Accepted(chip, reply, duration).power = chip.power
              /\ Accepted(chip, reply, duration).out = reply
          BY <4>2, <4>3, ChipTypes DEF Accepted, Chips
        <5>2. /\ chip'.left = IF duration > ExecDelay[cmd] THEN duration - ExecDelay[cmd] ELSE 0
              /\ chip'.power = chip.power /\ chip'.out = reply
          BY <2>2, <4>1, <5>1, ElapsedFields
        <5>3. Interface = "SWI" => ExecTime[cmd] < ExecDelay[cmd] + ExecTimeout[cmd]
          BY DEF OneFaultPremises, PunctualChips
        <5> QED
          BY <2>2, <5>2, <5>3
      <4>4. CASE ~Responsive(chip)
        <5>1. chip' = chip
          BY <1>1, <2>2, <4>1, <4>4, QuietFields DEF Accepted
        <5> QED
          BY <1>1, <2>2, <4>4, <5>1 DEF Responsive
      <4> QED
        BY <4>3, <4>4
    <3>2. CASE ~Delivered
      <4>1. chip' = Garbled(chip) /\ \E kind \in FaultKinds : Strike(kind)
        BY <1>4, <1>6, <3>2 DEF SendCommand, SendCommandSWI, SendCommandTWI, Strike, FaultKinds,
           OneFaultPremises, NothingUnnoticed
      <4>2. faults = 0 /\ chip.power = "awake"
        BY <1>2, <1>3, <4>1, SecondStrike
      <4>3. chip'.power = chip.power /\ chip'.left = 0 /\ chip'.out = Comm
        BY <1>1, <4>1, <4>2 DEF Garbled, Responsive, Comm, Chips
      <4> QED
        BY <2>2, <4>2, <4>3
    <3> QED
      BY <3>1, <3>2
  <2>4. chip.power # "awake" \/ faults = 0 => sendsLeft' >= 1
    BY <1>1, <1>3, <1>4
  <2>5. chip.power = "awake" => Promising(chip.out)'
    BY <1>1, <2>3, <2>4 DEF Promising, Replies, AnswerTo, Comm
  <2>6. chip'.power # "awake" => sendsLeft' >= 1
    BY <2>3, <2>4
  <2>7. recvsLeft' >= 1 /\ ExecTimeout'[cmd'] = ExecTimeout[cmd]
    BY <1>1, <2>1
  <2> QED
    BY <1>1, <1>3, <2>1, <2>3, <2>5, <2>6, <2>7 DEF Recovering, InResync, InWake
<1> QED
  BY <1>5, <1>6

LEMMA RecoveringReceive ==
  ASSUME OneFaultPremises, TypeInv, CommInv, StraightInv, RecoveringInv,
         StartReceive \/ ReceivesExhausted \/ Silence \/ Garbage \/ Verdict
  PROVE  RecoveringInv'
<1> SUFFICES ASSUME op' = "command", faults' = 1, wasAwake', chip'.power # "dead" PROVE Recovering'
  BY DEF RecoveringInv
<1> USE DEF TypeInv, TypeOK
<1>1. /\ op = "command" /\ wasAwake /\ cmd' = cmd /\ faults = 1 /\ chip' = chip
      /\ sendsLeft' = sendsLeft
  BY DEF StartReceive, ReceivesExhausted, Silence, Garbage, Verdict, ghosts
<1>2. Recovering
  BY <1>1 DEF RecoveringInv
<1>3. \A f : Promising(f)' <=> Promising(f)
  BY <1>1 DEF Promising
<1>4. CASE StartReceive
  <2>1. countdown' = ExecTimeout[cmd] + ResponseTimeout /\ pc' = "poll" /\ pc = "receive"
    BY <1>4 DEF StartReceive
  <2>2. Interface = "SWI" => chip.left <= countdown' - 2
    BY <1>2, <2>1, ResponseTimeoutAssumption, TimingAssumption DEF Recovering, Chips
  <2>3. IF chip.power = "awake" THEN Promising(chip.out)' ELSE sendsLeft >= 1
    BY <1>1, <1>2, <1>3, <2>1 DEF Recovering
  <2> QED
    BY <1>1, <1>2, <2>1, <2>2, <2>3 DEF Recovering, InResync, InWake
<1>5. CASE ReceivesExhausted
  BY <1>2, <1>5 DEF ReceivesExhausted, Recovering
<1>6. CASE Silence
  <2>1. /\ pc = "check" /\ ret = "RX_NO_RESPONSE" /\ pc' = "resync" /\ site' = "silence"
    BY <1>6 DEF Silence
  <2>2. sendsLeft >= 1 /\ (chip.power = "awake" => chip.out \in Replies(cmd))
    BY <1>2, <2>1 DEF Recovering, Checked
  <2> QED
    BY <1>1, <1>2, <2>1, <2>2 DEF Recovering, AfterSilence, InResync, InWake
<1>7. CASE Garbage
  <2>1. /\ pc = "check" /\ pc' = "resync" /\ site' = "garbage" /\ recvsLeft' = recvsLeft
        /\ ret = "INVALID_SIZE" \/ (ret = "SUCCESS" /\ ~CrcOk(rx))
    BY <1>7 DEF Garbage
  <2>2. chip.power = "awake" /\ chip.out \in Replies(cmd) /\ recvsLeft >= 1
    BY <1>2, <2>1 DEF Recovering, Checked
  <2> QED
    BY <1>1, <1>2, <2>1, <2>2 DEF Recovering, AfterGarbage, InResync, InWake
<1>8. CASE Verdict
  <2>1. pc = "check" /\ ret = "SUCCESS" /\ CrcOk(rx)
    BY <1>8 DEF Verdict
  <2>2. Promising(rx)
    BY <1>2, <2>1 DEF Recovering, Checked
  <2>3. CASE rx \in Replies(cmd)
    <3>1. rx.status # "comm"
      BY <2>3, RepliesFit
    <3>2. pc' = "ready" /\ ret' \in Verdicts
      BY <1>8, <3>1 DEF Verdict, Return, Verdicts
    <3> QED
      BY <1>1, <1>2, <3>2 DEF Recovering, InResync, InWake
  <2>4. CASE rx = Comm /\ chip.power = "awake" /\ sendsLeft >= 1
    <3>1. rx.status = "comm"
      BY <2>4 DEF Comm, Frame
    <3>2. pc' = "send" /\ ret' = "STATUS_CRC"
      BY <1>8, <3>1 DEF Verdict
    <3> QED
      BY <1>1, <1>2, <2>4, <3>2 DEF Recovering, InResync, InWake
  <2> QED
    BY <2>2, <2>3, <2>4 DEF Promising
<1> QED
  BY <1>4, <1>5, <1>6, <1>7, <1>8

\* Where the fault strikes a receive, and where the receive comes after it
LEMMA RecoveringPoll ==
  ASSUME OneFaultPremises, TypeInv, CommInv, StraightInv, RecoveringInv, Poll
  PROVE  RecoveringInv'
<1> SUFFICES ASSUME op' = "command", faults' = 1, wasAwake', chip'.power # "dead" PROVE Recovering'
  BY DEF RecoveringInv
<1> USE DEF TypeInv, TypeOK
<1>1. /\ pc = "poll" /\ op = "command" /\ wasAwake /\ cmd' = cmd
      /\ sendsLeft' = sendsLeft /\ recvsLeft' = recvsLeft
      /\ countdown' = countdown - ResponseTimeout
      /\ pc' = IF KeepPolling(ret', countdown') THEN "poll" ELSE "check"
  BY DEF Poll, ghosts
<1>2. PICK code \in HeardCodes, frame \in HeardFrames :
        /\ Heard(RspSize[cmd], code, frame)
        /\ ret' = code /\ rx' = frame
  BY DEF Poll
<1>3. /\ chip'.left = IF chip.left > 1 THEN chip.left - 1 ELSE 0
      /\ chip'.power = chip.power /\ chip'.out = chip.out
      /\ chip.left \in Nat
  BY ElapsedFields DEF Poll, Chips
<1>4. \A f : Promising(f)' <=> Promising(f)
  BY <1>1, <1>3 DEF Promising
<1>5. CASE faults = 0
  <2>1. /\ chip.power = "awake" /\ chip.out \in Replies(cmd)
        /\ sendsLeft >= 1 /\ recvsLeft >= 1
    BY <1>1, <1>5, RetryAssumption DEF StraightInv, Straight, Answering, OneFaultPremises
  <2>2. /\ Responsive(chip)
        /\ ret' = "RX_NO_RESPONSE" \/ (ret' \in {"SUCCESS", "INVALID_SIZE"} /\ rx' = GarbledFrame)
    <3>1. ~NoFault
      BY <1>5 DEF NoFault
    <3>2. /\ Responsive(chip)
          /\ code = "RX_NO_RESPONSE" \/ (code \in {"SUCCESS", "INVALID_SIZE"} /\ frame = GarbledFrame)
      BY <1>2, <3>1 DEF Heard
    <3> QED
      BY <1>2, <3>2
  <2>3. chip'.left = 0
    BY <1>3, <2>2 DEF Responsive
  <2>4. CASE pc' = "poll"
    <3>1. Interface = "SWI" => chip'.left <= countdown' - 2
      BY <1>1, <2>3, <2>4, ResponseTimeoutAssumption DEF KeepPolling
    <3>2. Promising(chip.out)'
      BY <1>1, <1>3, <2>1 DEF Promising
    <3> QED
      BY <1>3, <2>1, <2>4, <3>1, <3>2 DEF Recovering, InResync, InWake
  <2>5. CASE pc' = "check"
    <3>1. Checked'
      BY <1>1, <1>3, <2>1, <2>2 DEF Checked, CrcOk, GarbledFrame, Frame
    <3> QED
      BY <1>3, <2>1, <2>5, <3>1 DEF Recovering, InResync, InWake
  <2> QED
    BY <1>1, <2>4, <2>5
<1>6. CASE faults = 1
  <2>1. Recovering
    BY <1>1, <1>3, <1>6 DEF RecoveringInv
  <2>2. CASE Responsive(chip)
    <3>1. chip.power = "awake" /\ chip.left = 0 /\ Promising(chip.out)
      BY <1>1, <2>1, <2>2 DEF Recovering, Responsive
    <3>2. ret' = "SUCCESS" /\ rx' = chip.out /\ CrcOk(chip.out)
      BY <1>2, <1>6, <2>2, <3>1, PromisesFit, HeardAfterwards
    <3>3. pc' = "check"
      BY <1>1, <3>2 DEF KeepPolling
    <3>4. Checked'
      BY <1>4, <3>1, <3>2 DEF Checked, CrcOk
    <3> QED
      BY <1>3, <2>1, <3>3, <3>4 DEF Recovering, InResync, InWake
  <2>3. CASE ~Responsive(chip)
    <3>1. ret' = "RX_NO_RESPONSE"
      BY <1>2, <1>6, <2>3, HeardAfterwards
    <3>2. CASE chip.power = "awake"
      <4>1. chip.left # 0 /\ Promising(chip.out)'
        BY <1>1, <1>3, <2>1, <2>3, <3>2 DEF Recovering, Responsive, Promising
      <4>2. CASE Interface = "SWI"
        <5>1. ResponseTimeout = 1 /\ chip.left <= countdown - 2
          BY <1>1, <2>1, <3>2, <4>2, ResponseTimeoutAssumption DEF Recovering
        <5>2. countdown' > 1 /\ chip'.left <= countdown' - 2
          BY <1>1, <1>3, <4>1, <5>1
        <5>3. pc' = "poll"
          BY <1>1, <3>1, <5>1, <5>2 DEF KeepPolling
        <5> QED
          BY <1>3, <3>2, <4>1, <5>2, <5>3 DEF Recovering, InResync, InWake
      <4>3. CASE Interface # "SWI"
        <5>1. ResponseTimeout = 0 /\ countdown = ExecTimeout[cmd]
          BY <1>1, <4>3, ResponseTimeoutAssumption DEF CommInv, Settled
        <5>2. countdown' > 0
          BY <1>1, <5>1, TimingAssumption
        <5>3. pc' = "poll"
          BY <1>1, <3>1, <5>1, <5>2 DEF KeepPolling
        <5> QED
          BY <1>3, <3>2, <4>1, <4>3, <5>3 DEF Recovering, InResync, InWake
      <4> QED
        BY <4>2, <4>3
    <3>3. CASE chip.power # "awake"
      <4>1. sendsLeft' >= 1
        BY <1>1, <2>1, <3>3 DEF Recovering
      <4>2. Checked'
        BY <1>3, <3>1, <3>3, <4>1 DEF Checked
      <4> QED
        BY <1>1, <1>3, <2>1, <3>3, <4>1, <4>2 DEF Recovering, InResync, InWake
    <3> QED
      BY <3>2, <3>3
  <2> QED
    BY <2>2, <2>3
<1>7. faults' = faults \/ faults' = faults + 1
  BY <1>2 DEF Heard, NoFault, Strike
<1> QED
  BY <1>5, <1>6, <1>7

LEMMA RecoveringResync ==
  ASSUME TypeInv, CommInv, StraightInv, RecoveringInv,
         Resync \/ ResyncRead \/ ResyncSleep \/ WakePulse \/ WakeReply \/ Resynced
  PROVE  RecoveringInv'
<1> SUFFICES ASSUME op' = "command", faults' = 1, wasAwake', chip'.power # "dead" PROVE Recovering'
  BY DEF RecoveringInv
<1> USE DEF TypeInv, TypeOK
<1>1. /\ pc \in InResync \cup InWake /\ op = "command" /\ wasAwake /\ cmd' = cmd
      /\ sendsLeft' = sendsLeft /\ recvsLeft' = recvsLeft /\ site' = site
  BY DEF Resync, ResyncRead, ResyncSleep, WakePulse, WakeReply, Resynced, ghosts, InResync, InWake
<1>2. faults = 1
  <2>1. faults' = faults \/ faults' = faults + 1
    BY DEF Resync, ResyncRead, ResyncSleep, WakePulse, WakeReply, Resynced, Heard, NoFault, Strike
  <2>2. faults # 0
    BY <1>1 DEF StraightInv, Straight, InResync, InWake
  <2> QED
    BY <2>1, <2>2
<1>3. site # "api" /\ chip.left = 0
  BY <1>1 DEF CommInv, Caller, Settled, InResync, InWake
<1>4. chip.power # "dead"
  BY DEF Resync, ResyncRead, ResyncSleep, WakePulse, WakeReply, WakeEnds, Resynced, Dismissed, Off,
     Woken, Responsive, Elapsed, Chips
<1>5. Recovering
  BY <1>1, <1>2, <1>4 DEF RecoveringInv
<1>6. \A t \in Nat : Elapsed(chip, t) = chip
  BY <1>3, QuietFields
<1>7. Responsive(chip) <=> chip.power = "awake"
  BY <1>3 DEF Responsive
<1>8. CASE Resync
  <2>1. chip' = chip /\ pc = "resync"
    BY <1>6, <1>8, TimingAssumption DEF Resync
  <2>2. \/ pc' = "resyncRead" /\ (Interface = "TWI" => chip.power # "awake")
        \/ pc' = "resynced" /\ resynced' = "SUCCESS" /\ chip.power = "awake"
    BY <1>2, <1>7, <1>8, SecondStrike DEF Resync
  <2>3. CASE site = "garbage"
    BY <1>1, <1>5, <2>1, <2>2, <2>3 DEF Recovering, AfterGarbage, InResync, InWake
  <2>4. CASE site # "garbage"
    <3>1. site = "send" \/ site = "silence"
      BY <1>3, <2>4 DEF Sites
    <3> QED
      BY <1>1, <1>5, <2>1, <2>2, <2>4, <3>1, InterfaceAssumption
      DEF Recovering, AfterSilence, InResync, InWake
  <2> QED
    BY <2>3, <2>4
<1>9. CASE ResyncRead
  <2>1. chip' = chip /\ pc = "resyncRead"
    BY <1>6, <1>9 DEF ResyncRead
  <2>2. PICK code \in HeardCodes, frame \in HeardFrames :
          /\ Heard(RspSize[cmd], code, frame)
          /\ IF code = "SUCCESS"
               THEN pc' = "resynced" /\ resynced' = "SUCCESS"
               ELSE pc' = "resyncSleep" /\ UNCHANGED resynced
    BY <1>9 DEF ResyncRead
  <2>3. CASE chip.power = "awake"
    <3>1. chip.out \in Replies(cmd)
      BY <1>1, <1>5, <2>1, <2>3 DEF Recovering, AfterGarbage, AfterSilence
    <3>2. code = "SUCCESS"
      BY <1>2, <1>7, <2>2, <2>3, <3>1, RepliesFit, HeardAfterwards
    <3> QED
      BY <1>1, <1>5, <2>1, <2>2, <2>3, <3>1, <3>2
      DEF Recovering, AfterGarbage, AfterSilence, InResync, InWake
  <2>4. CASE chip.power # "awake"
    <3>1. code = "RX_NO_RESPONSE"
      BY <1>2, <1>7, <2>2, <2>4, HeardAfterwards
    <3>2. pc' = "resyncSleep" /\ chip.power = "sleep"
      BY <1>5, <2>2, <2>4, <3>1 DEF Recovering
    <3> QED
      BY <1>1, <1>5, <2>1, <2>4, <3>2 DEF Recovering, AfterGarbage, AfterSilence, InResync, InWake
  <2> QED
    BY <2>3, <2>4
<1>10. CASE ResyncSleep
  <2>1. pc = "resyncSleep" /\ pc' = "wake"
    BY <1>10 DEF ResyncSleep
  <2>2. site # "garbage" /\ chip.power = "sleep"
    BY <1>1, <1>5, <2>1 DEF Recovering, AfterGarbage, AfterSilence
  <2>3. chip' = chip
    BY <1>7, <1>10, <2>2 DEF ResyncSleep, Dismissed
  <2> QED
    BY <1>1, <1>5, <2>1, <2>2, <2>3 DEF Recovering, AfterSilence, InResync, InWake
<1>11. CASE WakePulse
  <2>1. pc = "wake" /\ pc' = "wakeReply" /\ chip' = Woken(chip)
    BY <1>2, <1>11, SecondStrike DEF WakePulse
  <2>2. site # "garbage" /\ chip.power = "sleep"
    BY <1>1, <1>5, <2>1 DEF Recovering, AfterGarbage, AfterSilence
  <2>3. chip'.power = "awake" /\ chip'.out = Frame(RspSizeMin, "wake", FALSE)
    BY <2>1, <2>2 DEF Woken, Chips
  <2> QED
    BY <1>1, <1>5, <2>1, <2>2, <2>3 DEF Recovering, AfterSilence, InResync, InWake
<1>12. CASE WakeReply
  <2>1. /\ pc = "wakeReply" /\ site # "garbage"
        /\ chip.power = "awake" /\ chip.out = Frame(RspSizeMin, "wake", FALSE)
    BY <1>1, <1>5, <1>12 DEF WakeReply, Recovering, AfterGarbage, AfterSilence
  <2>2. PICK code \in HeardCodes, frame \in HeardFrames :
          /\ Heard(RspSizeMin, code, frame)
          /\ \E verdict \in WakeVerdicts(code, frame) : WakeEnds(code, verdict)
    BY <1>12 DEF WakeReply
  <2>3. code = "SUCCESS" /\ frame = Frame(RspSizeMin, "wake", FALSE)
    <3>1. chip.out.size \in RspSizeMin..RspSizeMin
      BY <2>1 DEF Frame, RspSizeMin
    <3> QED
      BY <1>2, <1>7, <2>1, <2>2, <3>1, HeardAfterwards
  <2>4. WakeEnds("SUCCESS", "SUCCESS")
    BY <2>2, <2>3 DEF WakeVerdicts, Frame
  <2>5. chip' = chip /\ pc' = "resynced" /\ resynced' = "RESYNC_WITH_WAKEUP"
    BY <1>3, <1>6, <2>4 DEF WakeEnds
  <2> QED
    BY <1>1, <1>5, <2>1, <2>5 DEF Recovering, AfterSilence, InResync, InWake
<1>13. CASE Resynced
  <2>1. pc = "resynced" /\ chip' = chip /\ ret \notin Verdicts
    BY <1>13 DEF Resynced, CommInv, Undecided, InResync
  <2>2. CASE site = "garbage"
    <3>1. resynced = "SUCCESS" /\ chip.power = "awake" /\ chip.out \in Replies(cmd) /\ recvsLeft >= 1
      BY <1>1, <1>5, <2>1, <2>2 DEF Recovering, AfterGarbage
    <3>2. pc' = "receive"
      BY <1>13, <2>2, <3>1 DEF Resynced
    <3>3. Promising(chip.out)'
      BY <1>1, <2>1, <3>1 DEF Promising
    <3>4. 0 <= ExecTimeout[cmd] - 1
      BY TimingAssumption
    <3> QED
      BY <1>1, <1>3, <2>1, <3>1, <3>2, <3>3, <3>4 DEF Recovering, InResync, InWake
  <2>3. CASE site # "garbage"
    <3>1. /\ sendsLeft >= 1 /\ chip.power = "awake"
          /\ resynced \in {"SUCCESS", "RESYNC_WITH_WAKEUP"}
      BY <1>1, <1>5, <2>1, <2>3 DEF Recovering, AfterSilence
    <3>2. pc' = "send" /\ ret' = ret
      BY <1>13, <2>3, <3>1 DEF Resynced
    <3> QED
      BY <1>1, <2>1, <3>1, <3>2 DEF Recovering, InResync, InWake, Verdicts
  <2> QED
    BY <2>2, <2>3
<1> QED
  BY <1>8, <1>9, <1>10, <1>11, <1>12, <1>13

\* A new call begins without a fault; a chip that falls asleep is the one fault.
LEMMA RecoveringRest ==
  ASSUME OneFaultPremises, TypeInv, CommInv, StraightInv, Calls \/ Doze \/ Die
  PROVE  RecoveringInv'
<1> SUFFICES ASSUME op' = "command", faults' = 1, wasAwake', chip'.power # "dead" PROVE Recovering'
  BY DEF RecoveringInv
<1> USE DEF TypeInv, TypeOK
<1>1. ~Calls
  BY DEF Calls, CallWakeup, CallCommand, CallDismiss
<1>2. Doze
  BY <1>1 DEF Die, Off, Chips
<1>3. /\ faults = 0 /\ UNCHANGED <<library, ghosts>> /\ chip' = Off(chip, "sleep")
      /\ chip'.power = "sleep" /\ chip'.left = 0
  BY <1>2 DEF Doze, Strike, Off, Chips
<1>4. Straight
  BY <1>3 DEF StraightInv, library, ghosts
<1>5. RetryCount \in Nat /\ RetryCount >= 1 /\ ExecTimeout[cmd] \in Nat \ {0}
  BY RetryAssumption, TimingAssumption DEF OneFaultPremises
<1>6. pc = "check" => rx \in Replies(cmd) /\ CrcOk(rx) /\ ret = "SUCCESS"
  BY <1>4, RepliesFit DEF Straight, Answering
<1>7. pc = "check" => Checked'
  BY <1>3, <1>6 DEF Checked, Promising, CrcOk, library
<1>8. pc = "send" => ret # "SUCCESS" /\ sendsLeft >= 2
  BY <1>4, <1>5 DEF Straight
<1>9. pc \in {"receive", "poll"} => sendsLeft >= 1
  BY <1>4, <1>5 DEF Straight
<1>10. pc = "receive" => recvsLeft >= 1 /\ chip'.left <= ExecTimeout[cmd] - 1
  BY <1>3, <1>4, <1>5 DEF Straight
<1> QED
  BY <1>3, <1>4, <1>7, <1>8, <1>9, <1>10 DEF Straight, Recovering, library, InResync, InWake

\* On I2C, nothing puts a chip to sleep behind the library's back.
StaysAwake == Interface = "TWI" => Faults \cap {"doze", "die"} = {}

\* Then what is polled there is a chip that acknowledged the command or the resync.
Attentive ==
  Interface = "TWI" =>
    /\ pc \in {"receive", "poll", "check"} => chip.power = "awake"
    /\ pc = "resynced" /\ resynced = "SUCCESS" => chip.power = "awake"

LEMMA AttentiveStep ==
  ASSUME StaysAwake
  PROVE  TypeInv /\ CommInv /\ Attentive /\ [Next]_vars => Attentive'
<1> SUFFICES ASSUME TypeInv, CommInv, Attentive, [Next]_vars, Interface = "TWI"
             PROVE  Attentive'
  BY DEF Attentive
<1> USE DEF TypeInv, TypeOK, Attentive
<1>1. CASE Calls
  BY <1>1 DEF Calls, CallWakeup, CallCommand, CallDismiss
<1>2. CASE SendCommand
  <2>1. CASE pc' = "receive"
    <3>1. Responsive(chip) /\ (Delivered \/ chip' = Garbled(chip))
      BY <1>2, <2>1 DEF SendCommand, SendCommandTWI
    <3>2. CASE Delivered
      <4>1. PICK reply \in Replies(cmd), duration \in 1..ExecTime[cmd] :
              chip' = Elapsed(Accepted(chip, reply, duration), ExecDelay[cmd])
        BY <3>2 DEF Delivered
      <4>2. reply \in Frames /\ duration \in Nat /\ ExecDelay[cmd] \in Nat
        BY FrameTypes, TimingAssumption
      <4>3. Accepted(chip, reply, duration) \in Chips /\ Accepted(chip, reply, duration).power = "awake"
        BY <3>1, <4>2, ChipTypes DEF Accepted, Responsive, Chips
      <4> QED
        BY <2>1, <4>1, <4>2, <4>3, ElapsedFields
    <3>3. CASE chip' = Garbled(chip)
      BY <2>1, <3>1, <3>3 DEF Garbled, Responsive, Chips
    <3> QED
      BY <3>1, <3>2, <3>3
  <2>2. CASE pc' = "resync"
    BY <2>2
  <2> QED
    BY <1>2, <2>1, <2>2 DEF SendCommand, SendCommandTWI
<1>3. CASE Poll
  BY <1>3, ElapsedFields DEF Poll
<1>4. CASE GiveUp \/ StartReceive \/ ReceivesExhausted \/ Silence \/ Garbage \/ Verdict
  BY <1>4 DEF GiveUp, StartReceive, ReceivesExhausted, Silence, Garbage, Verdict, Return
<1>5. CASE Resync \/ ResyncSleep \/ WakePulse
  BY <1>5 DEF Resync, ResyncSleep, WakePulse, Responsive
<1>6. CASE ResyncRead
  <2>1. PICK code, frame : /\ Heard(RspSize[cmd], code, frame)
                           /\ IF code = "SUCCESS" THEN pc' = "resynced" ELSE pc' = "resyncSleep"
    BY <1>6 DEF ResyncRead
  <2>2. code = "SUCCESS" => chip.power = "awake"
    BY <2>1 DEF Heard, Responsive
  <2> QED
    BY <1>6, <2>1, <2>2, ElapsedFields DEF ResyncRead
<1>7. CASE WakeReply
  <2>0. PICK code \in HeardCodes, frame \in HeardFrames :
          \E verdict \in WakeVerdicts(code, frame) : WakeEnds(code, verdict)
    BY <1>7 DEF WakeReply
  <2>1. PICK verdict \in WakeVerdicts(code, frame) : WakeEnds(code, verdict)
    BY <2>0
  <2>2. CASE pc' = "resynced"
    <3>1. resynced' = IF verdict = "SUCCESS" THEN "RESYNC_WITH_WAKEUP" ELSE verdict
      BY <2>1, <2>2 DEF WakeEnds, Return
    <3> QED
      BY <2>2, <3>1
  <2> QED
    BY <2>1, <2>2 DEF WakeEnds, Return
<1>8. CASE Resynced
  BY <1>8 DEF Resynced, Return
<1>9. ~Doze /\ ~Die
  BY DEF StaysAwake, Doze, Die, Strike
<1>10. CASE UNCHANGED vars
  BY <1>10 DEF vars, library
<1> QED
  BY <1>1, <1>2, <1>3, <1>4, <1>5, <1>6, <1>7, <1>8, <1>9, <1>10 DEF Next, Steps

(***************************************************************************)
(* With at least one retry, a call made to a chip that listens ends with   *)
(* the chip's verdict if no more than one fault strikes it, whichever and  *)
(* wherever, short of the chip's death and of a command lost unnoticed.    *)
(* And it does end, in this sense: every step of the library lowers the    *)
(* measure of the call. On I2C, where a chip that dozes after the          *)
(* transmission is polled for ever, this is for a chip that stays awake.   *)
(***************************************************************************)
THEOREM OneFaultMasked ==
  ASSUME OneFaultPremises, StaysAwake
  PROVE  Spec => []OneFaultIsMasked /\ [][Steps => Nearer]_vars
<1>1. Init => StraightInv /\ RecoveringInv /\ FaultsLimited /\ Attentive
  BY FaultAssumption DEF Init, StraightInv, RecoveringInv, FaultsLimited, Attentive
<1>2. TypeInv /\ CommInv /\ StraightInv /\ [Next]_vars => StraightInv'
  BY StraightStep DEF OneFaultPremises
<1>3. TypeInv /\ CommInv /\ StraightInv /\ RecoveringInv /\ [Next]_vars => RecoveringInv'
  <2>1. ASSUME RecoveringInv, UNCHANGED vars
        PROVE  RecoveringInv'
    BY <2>1 DEF vars, library, ghosts, RecoveringInv, Recovering, Checked, AfterGarbage,
       AfterSilence, Promising, CrcOk
  <2> QED
    BY <2>1, RecoveringSend, RecoveringReceive, RecoveringPoll, RecoveringResync, RecoveringRest
    DEF Next, Steps
<1>4. TypeInv /\ StraightInv /\ RecoveringInv => OneFaultIsMasked
  BY DEF TypeInv, TypeOK, StraightInv, Straight, RecoveringInv, Recovering, OneFaultIsMasked, Returned
<1>5. TypeInv /\ CommInv /\ Attentive /\ [Next]_vars => Attentive'
  BY AttentiveStep
<1>6. TypeInv /\ CommInv /\ FaultsLimited /\ Attentive /\ [Next]_vars => [Steps => Nearer]_vars
  <2>1. ~PolledAsleep \/ ~Attentive
    BY DEF Attentive, PolledAsleep
  <2> QED
    BY <2>1, StepNearer
<1> QED
  BY <1>1, <1>2, <1>3, <1>4, <1>5, <1>6, FaultsLimitedStep, CommInvHolds, PTL DEF Spec
==============================================================================
