-------------------------- MODULE SHA204Comm_proofs --------------------------
(***************************************************************************)
(* Theorems about SHA204Comm, for every set of commands, every choice of   *)
(* retry count, delays and timeouts, every set of faults and both          *)
(* transports.                                                             *)
(***************************************************************************)
EXTENDS SHA204CommInv, TLAPS

USE DEF RspSizeMin

-----------------------------------------------------------------------------
(* The chip's operations stay within its type. *)

LEMMA FrameTypes ==
  /\ NoFrame \in Frames
  /\ GarbledFrame \in Frames
  /\ \A c \in Cmds : AnswerTo(c) \in Frames /\ Replies(c) \subseteq Frames
BY RspSizeAssumption, SMT DEF NoFrame, GarbledFrame, AnswerTo, Replies, Frame, Frames, Statuses

LEMMA ChipTypes ==
  ASSUME NEW c \in Chips
  PROVE  /\ \A r \in Frames, d \in Nat : Accepted(c, r, d) \in Chips
         /\ Garbled(c) \in Chips
         /\ Woken(c) \in Chips
         /\ \A p \in {"sleep", "idle", "dead"} : Off(c, p) \in Chips /\ Dismissed(c, p) \in Chips
         /\ \A t \in Nat : Elapsed(c, t) \in Chips
         /\ Forgotten(c) \in Chips
<1>1. \A r \in Frames, d \in Nat : Accepted(c, r, d) \in Chips
  BY DEF Chips, Accepted
<1>2. Garbled(c) \in Chips
  BY DEF Chips, Frames, Statuses, Frame, Garbled
<1>3. Woken(c) \in Chips
  BY DEF Chips, Frames, Statuses, Frame, Woken
<1>4. \A p \in {"sleep", "idle", "dead"} : Off(c, p) \in Chips /\ Dismissed(c, p) \in Chips
  BY FrameTypes DEF Chips, Off, Dismissed
<1>5. \A t \in Nat : Elapsed(c, t) \in Chips
  BY DEF Chips, Elapsed
<1>6. Forgotten(c) \in Chips
  BY DEF Chips, Frames, Forgotten
<1> QED
  BY <1>1, <1>2, <1>3, <1>4, <1>5, <1>6

LEMMA HeardTypes ==
  ASSUME TypeOK
  PROVE  HeardFrames \subseteq Frames /\ HeardCodes \subseteq ReturnCodes
BY FrameTypes DEF TypeOK, HeardFrames, HeardCodes, ReturnCodes, Chips

LEMMA StrikeTypes ==
  ASSUME faults \in Nat, NEW kind, Strike(kind)
  PROVE  faults' \in Nat
BY DEF Strike

-----------------------------------------------------------------------------
(* Type correctness. The countdown never goes below zero (timeout_countdown *)
(* is unsigned): it is only lowered when it exceeds the response timeout.  *)

CountdownCovers == pc = "poll" => countdown >= ResponseTimeout
TypeInv == TypeOK /\ CountdownCovers

LEMMA TypeInvInit == Init => TypeInv
<1> SUFFICES ASSUME Init PROVE TypeInv
  OBVIOUS
<1>1. ChipInit \in Chips
  BY FrameTypes DEF ChipInit, Chips
<1>2. 0 \in 0..(RetryCount + 1) /\ NoFrame \in Frames
  BY FrameTypes, RetryAssumption
<1> QED
  BY <1>1, <1>2
  DEF Init, TypeInv, TypeOK, CountdownCovers, Points, ReturnCodes, Sites

LEMMA TypeInvCalls ==
  ASSUME TypeInv, Calls
  PROVE  TypeInv'
<1> USE DEF TypeInv, TypeOK, CountdownCovers, ghosts, Points, ReturnCodes, Sites
<1>1. CASE CallWakeup
  BY <1>1 DEF CallWakeup
<1>2. ASSUME NEW c \in Cmds, CallCommand(c)
      PROVE  TypeInv'
  <2>1. chip' \in Chips
    BY <1>2, ChipTypes DEF CallCommand
  <2> QED
    BY <1>2, <2>1, FrameTypes, RetryAssumption DEF CallCommand, Responsive
<1>3. ASSUME NEW token \in {"sleep", "idle"}, CallDismiss(token)
      PROVE  TypeInv'
  <2>1. chip' \in Chips
    BY <1>3, ChipTypes DEF CallDismiss
  <2> QED
    BY <1>3, <2>1 DEF CallDismiss
<1> QED
  BY <1>1, <1>2, <1>3 DEF Calls

LEMMA TypeInvSend ==
  ASSUME TypeInv, SendCommand \/ GiveUp
  PROVE  TypeInv'
<1> USE DEF TypeInv, TypeOK, CountdownCovers, ghosts, Points, ReturnCodes, Sites
<1>1. ASSUME Delivered
      PROVE  chip' \in Chips /\ executed' \in Nat /\ faults' \in Nat
  <2>1. PICK reply \in Replies(cmd), duration \in 1..ExecTime[cmd] :
          /\ chip' = Elapsed(Accepted(chip, reply, duration), ExecDelay[cmd])
          /\ executed' = IF Responsive(chip) /\ reply = AnswerTo(cmd)
                           THEN executed + 1 ELSE executed
    BY <1>1 DEF Delivered
  <2>2. Accepted(chip, reply, duration) \in Chips
    <3>1. reply \in Frames /\ duration \in Nat
      BY FrameTypes, TimingAssumption
    <3> QED
      BY <3>1, ChipTypes
  <2> QED
    BY <1>1, <2>1, <2>2, ChipTypes, TimingAssumption DEF Delivered, NoFault
<1>2. Garbled(chip) \in Chips
  BY ChipTypes
<1>3. CASE SendCommand
  <2>1. sendsLeft' \in 0..(RetryCount + 1) /\ RetryCount + 1 \in 0..(RetryCount + 1)
    BY <1>3, RetryAssumption DEF SendCommand, MaySend
  <2>2. CASE SendCommandSWI
    BY <1>1, <1>2, <1>3, <2>1, <2>2 DEF SendCommand, SendCommandSWI, Strike
  <2>3. CASE SendCommandTWI
    BY <1>1, <1>2, <1>3, <2>1, <2>3 DEF SendCommand, SendCommandTWI, Strike, NoFault
  <2> QED
    BY <1>3, <2>2, <2>3 DEF SendCommand
<1>4. CASE GiveUp
  BY <1>4 DEF GiveUp, Return
<1> QED
  BY <1>3, <1>4

LEMMA TypeInvReceive ==
  ASSUME TypeInv, StartReceive \/ ReceivesExhausted \/ Poll \/ Silence \/ Garbage \/ Verdict
  PROVE  TypeInv'
<1> USE DEF TypeInv, TypeOK, CountdownCovers, ghosts, Points, ReturnCodes, Sites
<1>1. CASE StartReceive
  <2>1. /\ countdown' \in Nat /\ countdown' >= ResponseTimeout
        /\ recvsLeft' \in 0..(RetryCount + 1) /\ rx' \in Frames
    BY <1>1, FrameTypes, TimingAssumption, ResponseTimeoutAssumption, RetryAssumption
    DEF StartReceive
  <2> QED
    BY <1>1, <2>1 DEF StartReceive
<1>2. CASE ReceivesExhausted
  BY <1>2 DEF ReceivesExhausted
<1>3. CASE Poll
  <2>1. PICK code \in HeardCodes, frame \in HeardFrames :
          /\ Heard(RspSize[cmd], code, frame)
          /\ ret' = code /\ rx' = frame
    BY <1>3 DEF Poll
  <2>2. faults' \in Nat
    BY <2>1, StrikeTypes DEF Heard, NoFault
  <2>3. chip' \in Chips
    BY <1>3, ChipTypes DEF Poll
  <2>4. countdown' \in Nat
    BY <1>3, ResponseTimeoutAssumption DEF Poll
  <2>5. pc' \in {"poll", "check"} /\ (pc' = "poll" => countdown' >= ResponseTimeout)
    BY <1>3, <2>4, ResponseTimeoutAssumption DEF Poll, KeepPolling
  <2> QED
    BY <1>3, <2>1, <2>2, <2>3, <2>4, <2>5, HeardTypes DEF Poll
<1>4. CASE Silence
  BY <1>4 DEF Silence
<1>5. CASE Garbage
  BY <1>5 DEF Garbage
<1>6. CASE Verdict
  BY <1>6 DEF Verdict, Return
<1> QED
  BY <1>1, <1>2, <1>3, <1>4, <1>5, <1>6

LEMMA TypeInvResync ==
  ASSUME TypeInv, Resync \/ ResyncRead \/ ResyncSleep \/ WakePulse \/ WakeReply \/ Resynced
  PROVE  TypeInv'
<1> USE DEF TypeInv, TypeOK, CountdownCovers, ghosts, Points, ReturnCodes, Sites
<1>1. CASE Resync
  <2>1. chip' \in Chips
    BY <1>1, ChipTypes, TimingAssumption DEF Resync
  <2> QED
    BY <1>1, <2>1 DEF Resync, NoFault, Strike
<1>2. CASE ResyncRead
  <2>1. PICK code \in HeardCodes, frame \in HeardFrames :
          /\ Heard(RspSize[cmd], code, frame)
          /\ rx' = frame
          /\ IF code = "SUCCESS"
               THEN pc' = "resynced" /\ resynced' = "SUCCESS"
               ELSE pc' = "resyncSleep" /\ UNCHANGED resynced
    BY <1>2 DEF ResyncRead
  <2>2. faults' \in Nat
    BY <2>1, StrikeTypes DEF Heard, NoFault
  <2>3. chip' \in Chips
    BY <1>2, ChipTypes DEF ResyncRead
  <2> QED
    BY <1>2, <2>1, <2>2, <2>3, HeardTypes DEF ResyncRead
<1>3. CASE ResyncSleep
  <2>1. chip' \in Chips
    BY <1>3, ChipTypes DEF ResyncSleep
  <2> QED
    BY <1>3, <2>1 DEF ResyncSleep, NoFault, Strike
<1>4. CASE WakePulse
  <2>1. chip' \in Chips
    BY <1>4, ChipTypes DEF WakePulse
  <2> QED
    BY <1>4, <2>1 DEF WakePulse, NoFault, Strike
<1>5. CASE WakeReply
  <2>0. PICK code \in HeardCodes, frame \in HeardFrames :
          /\ Heard(RspSizeMin, code, frame)
          /\ rx' = frame
          /\ \E verdict \in WakeVerdicts(code, frame) : WakeEnds(code, verdict)
    BY <1>5 DEF WakeReply
  <2>1. PICK verdict \in WakeVerdicts(code, frame) : WakeEnds(code, verdict)
    BY <2>0
  <2>2. verdict \in ReturnCodes
    BY <2>0, <2>1 DEF WakeVerdicts, HeardCodes
  <2>3. faults' \in Nat
    BY <2>0, StrikeTypes DEF Heard, NoFault
  <2>4. chip' \in Chips
    BY <2>1, ChipTypes, TimingAssumption DEF WakeEnds
  <2> QED
    BY <1>5, <2>0, <2>1, <2>2, <2>3, <2>4, HeardTypes DEF WakeReply, WakeEnds, Return
<1>6. CASE Resynced
  BY <1>6 DEF Resynced, Return
<1> QED
  BY <1>1, <1>2, <1>3, <1>4, <1>5, <1>6

LEMMA TypeInvChip ==
  ASSUME TypeInv, Doze \/ Die
  PROVE  TypeInv'
<1>1. chip' \in Chips /\ faults' \in Nat
  BY ChipTypes, StrikeTypes DEF TypeInv, TypeOK, Doze, Die
<1> QED
  BY <1>1 DEF TypeInv, TypeOK, CountdownCovers, Doze, Die, library, ghosts

LEMMA TypeInvStep == TypeInv /\ [Next]_vars => TypeInv'
<1>1. ASSUME TypeInv, UNCHANGED vars
      PROVE  TypeInv'
  BY <1>1 DEF TypeInv, TypeOK, CountdownCovers, vars, library, ghosts
<1> QED
  BY <1>1, TypeInvCalls, TypeInvSend, TypeInvReceive, TypeInvResync, TypeInvChip
  DEF Next, Steps

(***************************************************************************)
(* Every variable keeps its type; in particular the two retry counters     *)
(* stay within their range and the unsigned countdown of the polling loop  *)
(* never wraps below zero.                                                 *)
(***************************************************************************)
THEOREM TypeCorrect == Spec => []TypeOK
<1>1. Spec => []TypeInv
  BY TypeInvInit, TypeInvStep, PTL DEF Spec
<1>2. TypeInv => TypeOK
  BY DEF TypeInv
<1> QED
  BY <1>1, <1>2, PTL

-----------------------------------------------------------------------------
(* What the chip's operations do to the fields the invariant speaks of *)

LEMMA ElapsedFields ==
  ASSUME NEW c \in Chips, NEW t \in Nat
  PROVE  /\ Elapsed(c, t).left = IF c.left > t THEN c.left - t ELSE 0
         /\ Elapsed(c, t).power = c.power
         /\ Elapsed(c, t).out = c.out
BY DEF Chips, Elapsed

LEMMA QuietFields ==
  ASSUME NEW c \in Chips, c.left = 0
  PROVE  /\ \A t \in Nat : Elapsed(c, t) = c
         /\ Garbled(c).left = 0 /\ Woken(c).left = 0 /\ Forgotten(c).left = 0
         /\ \A p \in {"sleep", "idle", "dead"} : Off(c, p).left = 0 /\ Dismissed(c, p).left = 0
<1>1. \A t \in Nat : Elapsed(c, t) = c
  BY DEF Chips, Elapsed
<1>2. Garbled(c).left = 0
  BY DEF Chips, Garbled
<1>3. Woken(c).left = 0
  BY DEF Chips, Woken
<1>4. Forgotten(c).left = 0
  BY DEF Chips, Forgotten
<1>5. \A p \in {"sleep", "idle", "dead"} : Off(c, p).left = 0 /\ Dismissed(c, p).left = 0
  BY DEF Chips, Off, Dismissed
<1> QED
  BY <1>1, <1>2, <1>3, <1>4, <1>5

-----------------------------------------------------------------------------
(* The part of the invariant that holds whatever faults strike *)

LEMMA CommInvInit == Init => CommInv
<1> SUFFICES ASSUME Init PROVE CommInv
  OBVIOUS
<1>1. 0 + 0 <= RetryCount + 1
  BY RetryAssumption
<1> QED
  BY <1>1 DEF Init, CommInv, Budget, Caller, Undecided, Settled, InLoop, InResync, InWake, ChipInit

LEMMA CommInvCalls ==
  ASSUME TypeInv, CommInv, Calls
  PROVE  CommInv'
<1> USE DEF TypeInv, TypeOK, ghosts, CommInv, Budget, Caller, Undecided, Settled,
            InLoop, InResync, InWake
<1>1. CASE CallWakeup
  BY <1>1 DEF CallWakeup
<1>2. ASSUME NEW c \in Cmds, CallCommand(c)
      PROVE  CommInv'
  <2>1. chip'.left = 0
    BY <1>2, QuietFields DEF CallCommand
  <2>2. Budget'
    BY <1>2, RetryAssumption DEF CallCommand
  <2> QED
    BY <1>2, <2>1, <2>2 DEF CallCommand, Verdicts
<1>3. ASSUME NEW token \in {"sleep", "idle"}, CallDismiss(token)
      PROVE  CommInv'
  <2>1. chip'.left = 0
    BY <1>3, QuietFields DEF CallDismiss
  <2> QED
    BY <1>3, <2>1 DEF CallDismiss
<1> QED
  BY <1>1, <1>2, <1>3 DEF Calls

LEMMA CommInvSend ==
  ASSUME TypeInv, CommInv, SendCommand \/ GiveUp
  PROVE  CommInv'
<1> USE DEF TypeInv, TypeOK, ghosts, CommInv, Budget, Caller, Undecided, Settled,
            InLoop, InResync, InWake
<1>1. ASSUME pc = "send", Delivered
      PROVE  /\ chip'.left <= ExecTimeout[cmd]
             /\ executed' \in Nat /\ executed' <= executed + 1
  <2>1. PICK reply \in Replies(cmd), duration \in 1..ExecTime[cmd] :
          /\ chip' = Elapsed(Accepted(chip, reply, duration), ExecDelay[cmd])
          /\ executed' = IF Responsive(chip) /\ reply = AnswerTo(cmd)
                           THEN executed + 1 ELSE executed
    BY <1>1 DEF Delivered
  <2>2. /\ reply \in Frames /\ duration \in Nat
        /\ ExecTime[cmd] \in Nat /\ ExecDelay[cmd] \in Nat /\ ExecTimeout[cmd] \in Nat
        /\ ExecTime[cmd] <= ExecDelay[cmd] + ExecTimeout[cmd]
    BY FrameTypes, TimingAssumption, ExecMaxAssumption
  <2>3. Accepted(chip, reply, duration) \in Chips
    BY <2>2, ChipTypes
  <2>4. Accepted(chip, reply, duration).left <= duration
    BY <1>1, <2>2 DEF Accepted, Chips
  <2>5. chip'.left <= ExecTimeout[cmd]
    BY <2>1, <2>2, <2>3, <2>4, ElapsedFields DEF Chips
  <2> QED
    BY <2>1, <2>5
<1>2. CASE SendCommand
  <2>1. chip.left = 0 /\ Garbled(chip).left = 0 /\ ExecTimeout[cmd] \in Nat \ {0}
    BY <1>2, QuietFields, TimingAssumption DEF SendCommand
  <2>2. sent' + sendsLeft' <= RetryCount + 1
    BY <1>2, RetryAssumption DEF SendCommand, MaySend
  <2>3. CASE SendCommandSWI
    <3>1. chip'.left <= ExecTimeout[cmd] /\ executed' \in Nat /\ executed' <= executed + 1
      BY <1>1, <1>2, <2>1, <2>3 DEF SendCommand, SendCommandSWI
    <3> QED
      BY <1>2, <2>2, <2>3, <3>1, RetryAssumption DEF SendCommand, SendCommandSWI
  <2>4. CASE SendCommandTWI
    <3>1. CASE pc' = "receive"
      <4>1. chip'.left <= ExecTimeout[cmd] /\ executed' \in Nat /\ executed' <= executed + 1
        BY <1>1, <1>2, <2>1, <2>4, <3>1 DEF SendCommand, SendCommandTWI
      <4> QED
        BY <1>2, <2>2, <2>4, <3>1, <4>1, RetryAssumption DEF SendCommand, SendCommandTWI
    <3>2. CASE pc' = "resync"
      BY <1>2, <2>1, <2>2, <2>4, <3>2 DEF SendCommand, SendCommandTWI, Verdicts
    <3> QED
      BY <2>4, <3>1, <3>2 DEF SendCommandTWI
  <2> QED
    BY <1>2, <2>3, <2>4 DEF SendCommand
<1>3. CASE GiveUp
  BY <1>3 DEF GiveUp, Return
<1> QED
  BY <1>2, <1>3

LEMMA CommInvReceive ==
  ASSUME TypeInv, CommInv,
         StartReceive \/ ReceivesExhausted \/ Poll \/ Silence \/ Garbage \/ Verdict
  PROVE  CommInv'
<1> USE DEF TypeInv, TypeOK, ghosts, CommInv, Budget, Caller, Undecided, Settled,
            InLoop, InResync, InWake
<1>1. CASE StartReceive
  <2>1. countdown' = IF Interface = "SWI" THEN ExecTimeout[cmd] + 1 ELSE ExecTimeout[cmd]
    BY <1>1, TimingAssumption, ResponseTimeoutAssumption DEF StartReceive
  <2> QED
    BY <1>1, <2>1, TimingAssumption DEF StartReceive, Chips
<1>2. CASE ReceivesExhausted
  BY <1>2 DEF ReceivesExhausted
<1>3. CASE Poll
  <2>1. PICK code \in HeardCodes, frame \in HeardFrames :
          Heard(RspSize[cmd], code, frame) /\ ret' = code
    BY <1>3 DEF Poll
  <2>2. code # "RX_NO_RESPONSE" => chip.left = 0
    BY <2>1 DEF Heard, Responsive
  <2>3. /\ chip'.left = IF chip.left > 1 THEN chip.left - 1 ELSE 0
        /\ chip.left \in Nat /\ ExecTimeout[cmd] \in Nat \ {0}
    BY <1>3, ElapsedFields, TimingAssumption DEF Poll, Chips
  <2>4. CASE Interface = "SWI"
    <3>1. ResponseTimeout = 1
      BY <2>4, ResponseTimeoutAssumption
    <3>2. Settled'
      BY <1>3, <2>1, <2>2, <2>3, <2>4, <3>1 DEF Poll, KeepPolling
    <3> QED
      BY <1>3, <2>1, <3>2 DEF Poll
  <2>5. CASE Interface # "SWI"
    <3>1. ResponseTimeout = 0
      BY <2>5, ResponseTimeoutAssumption
    <3>2. Settled'
      BY <1>3, <2>1, <2>2, <2>3, <2>5, <3>1 DEF Poll, KeepPolling
    <3> QED
      BY <1>3, <2>1, <3>2 DEF Poll
  <2> QED
    BY <2>4, <2>5
<1>4. CASE Silence
  BY <1>4 DEF Silence, Verdicts
<1>5. CASE Garbage
  BY <1>5 DEF Garbage, Verdicts
<1>6. CASE Verdict
  BY <1>6 DEF Verdict, Return, Verdicts
<1> QED
  BY <1>1, <1>2, <1>3, <1>4, <1>5, <1>6

LEMMA CommInvResync ==
  ASSUME TypeInv, CommInv,
         Resync \/ ResyncRead \/ ResyncSleep \/ WakePulse \/ WakeReply \/ Resynced
  PROVE  CommInv'
<1> USE DEF TypeInv, TypeOK, ghosts, CommInv, Budget, Caller, Undecided, Settled,
            InLoop, InResync, InWake
<1>0. chip.left = 0
  BY DEF Resync, ResyncRead, ResyncSleep, WakePulse, WakeReply, Resynced
<1>1. CASE Resync
  <2>1. chip'.left = 0
    BY <1>0, <1>1, QuietFields, TimingAssumption DEF Resync
  <2> QED
    BY <1>1, <2>1 DEF Resync
<1>2. CASE ResyncRead
  <2>1. chip'.left = 0
    BY <1>0, <1>2, QuietFields DEF ResyncRead
  <2> QED
    BY <1>2, <2>1 DEF ResyncRead
<1>3. CASE ResyncSleep
  <2>1. chip'.left = 0
    BY <1>0, <1>3, QuietFields DEF ResyncSleep
  <2> QED
    BY <1>3, <2>1 DEF ResyncSleep
<1>4. CASE WakePulse
  <2>1. chip'.left = 0
    BY <1>0, <1>4, QuietFields DEF WakePulse
  <2> QED
    BY <1>4, <2>1 DEF WakePulse
<1>5. CASE WakeReply
  <2>1. PICK code \in HeardCodes, frame \in HeardFrames, verdict \in ReturnCodes :
          WakeEnds(code, verdict)
    <3>1. \A code \in HeardCodes, frame \in HeardFrames : WakeVerdicts(code, frame) \subseteq ReturnCodes
      BY DEF WakeVerdicts, HeardCodes, ReturnCodes
    <3> QED
      BY <1>5, <3>1 DEF WakeReply
  <2>2. chip'.left = 0
    BY <1>0, <2>1, QuietFields, TimingAssumption DEF WakeEnds
  <2> QED
    BY <1>5, <2>1, <2>2 DEF WakeReply, WakeEnds, Return
<1>6. CASE Resynced
  BY <1>0, <1>6, TimingAssumption DEF Resynced, Return
<1> QED
  BY <1>1, <1>2, <1>3, <1>4, <1>5, <1>6

LEMMA CommInvChip ==
  ASSUME TypeInv, CommInv, Doze \/ Die
  PROVE  CommInv'
<1>1. chip'.left = 0
  BY DEF Doze, Die, Off, TypeInv, TypeOK, Chips
<1>2. ExecTimeout[cmd] \in Nat
  BY TimingAssumption DEF TypeInv, TypeOK
<1> QED
  BY <1>1, <1>2 DEF TypeInv, TypeOK, Doze, Die, library, ghosts,
     CommInv, Budget, Caller, Undecided, Settled, InLoop, InResync, InWake

LEMMA CommInvStep == TypeInv /\ CommInv /\ [Next]_vars => CommInv'
<1>1. ASSUME CommInv, UNCHANGED vars
      PROVE  CommInv'
  BY <1>1 DEF vars, library, ghosts, CommInv, Budget, Caller, Undecided, Settled,
     InLoop, InResync, InWake
<1> QED
  BY <1>1, CommInvCalls, CommInvSend, CommInvReceive, CommInvResync, CommInvChip
  DEF Next, Steps

LEMMA CommInvHolds == Spec => [](TypeInv /\ CommInv)
BY TypeInvInit, TypeInvStep, CommInvInit, CommInvStep, PTL DEF Spec

(***************************************************************************)
(* Whatever the bus and the chip do, a command is sent at most RetryCount  *)
(* times again, and takes effect at most as often as it was sent.          *)
(***************************************************************************)
THEOREM EffortBounded == Spec => []EffortIsBounded
<1>1. TypeInv /\ CommInv => EffortIsBounded
  BY RetryAssumption DEF TypeInv, TypeOK, CommInv, Budget, EffortIsBounded
<1> QED
  BY <1>1, CommInvHolds, PTL

(***************************************************************************)
(* Whenever the library sends, wakes the chip, puts it to sleep or returns *)
(* to its caller, the chip is not executing.                               *)
(***************************************************************************)
THEOREM ChipNeverDisturbed == Spec => []NeverDisturbed
<1>1. CommInv => NeverDisturbed
  BY DEF CommInv, Settled, NeverDisturbed
<1> QED
  BY <1>1, CommInvHolds, PTL

-----------------------------------------------------------------------------
(* Whose answer is in the buffer: the part of the invariant that needs every *)
(* lost transmission to be noticed                                         *)

Truthful == Loyal /\ VerdictIsGenuine

LEMMA TruthfulInit == Init => Truthful
BY DEF Init, Truthful, Loyal, Listening, VerdictIsGenuine, Returned

LEMMA TruthfulCalls ==
  ASSUME TypeInv, CommInv, Truthful, Calls
  PROVE  Truthful'
<1> USE DEF Truthful, Loyal, Listening, VerdictIsGenuine, Returned
<1>1. CASE CallWakeup
  BY <1>1 DEF CallWakeup
<1>2. ASSUME NEW c \in Cmds, CallCommand(c)
      PROVE  Truthful'
  BY <1>2 DEF CallCommand
<1>3. ASSUME NEW token \in {"sleep", "idle"}, CallDismiss(token)
      PROVE  Truthful'
  BY <1>3 DEF CallDismiss
<1> QED
  BY <1>1, <1>2, <1>3 DEF Calls

LEMMA TruthfulSend ==
  ASSUME NothingUnnoticed, TypeInv, CommInv, Truthful, SendCommand \/ GiveUp
  PROVE  Truthful'
<1> USE DEF TypeInv, TypeOK
<1>1. ASSUME pc = "send", Delivered, cmd' = cmd
      PROVE  chip'.power = "awake" => Ours(chip.out)'
  <2>1. PICK reply \in Replies(cmd), duration \in 1..ExecTime[cmd] :
          /\ chip' = Elapsed(Accepted(chip, reply, duration), ExecDelay[cmd])
          /\ executed' = IF Responsive(chip) /\ reply = AnswerTo(cmd)
                           THEN executed + 1 ELSE executed
    BY <1>1 DEF Delivered
  <2>2. reply \in Frames /\ duration \in Nat /\ ExecDelay[cmd] \in Nat
    BY FrameTypes, TimingAssumption
  <2>3. Accepted(chip, reply, duration) \in Chips
    BY <2>2, ChipTypes
  <2>4. /\ chip'.power = Accepted(chip, reply, duration).power
        /\ chip'.out = Accepted(chip, reply, duration).out
    BY <2>1, <2>2, <2>3, ElapsedFields
  <2>5. chip.left = 0
    BY <1>1 DEF CommInv, Settled
  <2>6. ASSUME chip'.power = "awake"
        PROVE  Responsive(chip) /\ chip'.out = reply
    BY <2>4, <2>5, <2>6 DEF Accepted, Responsive, Chips
  <2>7. ASSUME chip'.power = "awake", chip'.out = AnswerTo(cmd)
        PROVE  executed' > 0
    BY <2>1, <2>6, <2>7
  <2>8. ASSUME chip'.power = "awake"
        PROVE  chip'.out \in Replies(cmd')
    BY <1>1, <2>6, <2>8
  <2> QED
    BY <1>1, <2>7, <2>8 DEF Ours
<1>2. ASSUME pc = "send", chip' = Garbled(chip), cmd' = cmd, executed' = executed
      PROVE  chip'.power = "awake" => Ours(chip.out)'
  <2>1. chip.left = 0
    BY <1>2 DEF CommInv, Settled
  <2>2. ASSUME chip'.power = "awake"
        PROVE  chip'.out = Frame(RspSizeMin, "comm", TRUE)
    BY <1>2, <2>1, <2>2 DEF Garbled, Responsive, Chips
  <2> QED
    BY <1>2, <2>2 DEF Ours, AnswerTo, Frame
<1>3. CASE SendCommand
  <2>1. pc = "send" /\ cmd' = cmd /\ pc' \in {"receive", "resync"}
    BY <1>3 DEF SendCommand, SendCommandSWI, SendCommandTWI
  <2>2. ASSUME pc' = "receive"
        PROVE  chip'.power = "awake" => Ours(chip.out)'
    <3>1. \/ Delivered
          \/ chip' = Garbled(chip) /\ executed' = executed
          \/ Interface = "SWI" /\ "cmdLost" \in Faults
      BY <1>3, <2>2 DEF SendCommand, SendCommandSWI, SendCommandTWI, Strike
    <3> QED
      BY <1>1, <1>2, <2>1, <3>1 DEF NothingUnnoticed
  <2>3. pc' = "resync" => site' = "send"
    BY <1>3 DEF SendCommand, SendCommandSWI, SendCommandTWI
  <2> QED
    BY <2>1, <2>2, <2>3 DEF Truthful, Loyal, Listening, VerdictIsGenuine, Returned
<1>4. CASE GiveUp
  <2>1. ret' \notin Verdicts /\ pc' = "ready"
    BY <1>4 DEF GiveUp, Return, CommInv, Undecided
  <2> QED
    BY <2>1 DEF Truthful, Loyal, Listening, VerdictIsGenuine, Returned
<1> QED
  BY <1>3, <1>4

LEMMA TruthfulReceive ==
  ASSUME TypeInv, CommInv, Truthful,
         StartReceive \/ ReceivesExhausted \/ Poll \/ Silence \/ Garbage \/ Verdict
  PROVE  Truthful'
<1> USE DEF TypeInv, TypeOK, ghosts
<1>1. CASE StartReceive
  BY <1>1 DEF StartReceive, Truthful, Loyal, Listening, Ours, VerdictIsGenuine, Returned
<1>2. CASE ReceivesExhausted
  BY <1>2 DEF ReceivesExhausted, Truthful, Loyal, Listening, VerdictIsGenuine, Returned
<1>3. CASE Poll
  <2>1. PICK code \in HeardCodes, frame \in HeardFrames :
          /\ Heard(RspSize[cmd], code, frame)
          /\ ret' = code /\ rx' = frame
    BY <1>3 DEF Poll
  <2>2. /\ chip'.power = chip.power /\ chip'.out = chip.out
        /\ cmd' = cmd /\ executed' = executed
    BY <1>3, ElapsedFields DEF Poll
  <2>3. chip.power = "awake" => Ours(chip.out)
    BY <1>3 DEF Poll, Truthful, Loyal, Listening
  <2>4. ASSUME code = "SUCCESS", CrcOk(frame)
        PROVE  Ours(frame)
    BY <2>1, <2>3, <2>4 DEF Heard, CrcOk, GarbledFrame, Frame, Responsive
  <2>5. pc' \in {"poll", "check"}
    BY <1>3 DEF Poll
  <2> QED
    BY <2>1, <2>2, <2>3, <2>4, <2>5
    DEF Truthful, Loyal, Listening, Ours, CrcOk, VerdictIsGenuine, Returned
<1>4. CASE Silence
  BY <1>4 DEF Silence, Truthful, Loyal, Listening, VerdictIsGenuine, Returned
<1>5. CASE Garbage
  BY <1>5 DEF Garbage, Truthful, Loyal, Listening, Ours, VerdictIsGenuine, Returned
<1>6. CASE Verdict
  <2>1. Ours(rx) /\ rx' = rx /\ cmd' = cmd /\ executed' = executed /\ pc' \in {"ready", "send"}
    BY <1>6 DEF Verdict, Return, Truthful, Loyal
  <2>2. rx.mine
    BY <2>1, RspSizeAssumption DEF Ours, Replies, AnswerTo, Frame
  <2>3. ASSUME pc' = "ready", ret' = "SUCCESS"
        PROVE  rx = AnswerTo(cmd) /\ executed > 0
    <3>1. rx.status \notin {"parse", "exec", "comm"}
      BY <1>6, <2>3 DEF Verdict, Return
    <3> QED
      BY <2>1, <3>1 DEF Ours, Replies, Frame
  <2> QED
    BY <2>1, <2>2, <2>3 DEF Truthful, Loyal, Listening, VerdictIsGenuine, Returned, AnswerTo
<1> QED
  BY <1>1, <1>2, <1>3, <1>4, <1>5, <1>6

LEMMA TruthfulResync ==
  ASSUME TypeInv, CommInv, Truthful,
         Resync \/ ResyncRead \/ ResyncSleep \/ WakePulse \/ WakeReply \/ Resynced
  PROVE  Truthful'
<1> USE DEF TypeInv, TypeOK, ghosts
<1>1. CASE Resync
  <2>1. /\ chip'.power = chip.power /\ chip'.out = chip.out
        /\ cmd' = cmd /\ executed' = executed /\ site' = site
        /\ pc = "resync" /\ pc' \in {"resyncRead", "resynced"}
    BY <1>1, ElapsedFields, TimingAssumption DEF Resync
  <2> QED
    BY <2>1 DEF Truthful, Loyal, Listening, Ours, VerdictIsGenuine, Returned
<1>2. CASE ResyncRead
  <2>1. /\ chip'.power = chip.power /\ chip'.out = chip.out
        /\ cmd' = cmd /\ executed' = executed /\ site' = site
        /\ pc = "resyncRead" /\ pc' \in {"resyncSleep", "resynced"}
    BY <1>2, ElapsedFields DEF ResyncRead
  <2> QED
    BY <2>1 DEF Truthful, Loyal, Listening, Ours, VerdictIsGenuine, Returned
<1>3. CASE ResyncSleep
  BY <1>3 DEF ResyncSleep, Truthful, Loyal, Listening, VerdictIsGenuine, Returned
<1>4. CASE WakePulse
  BY <1>4 DEF WakePulse, Truthful, Loyal, Listening, VerdictIsGenuine, Returned
<1>5. CASE WakeReply
  <2>0. PICK code \in HeardCodes, frame \in HeardFrames :
          \E verdict \in WakeVerdicts(code, frame) : WakeEnds(code, verdict)
    BY <1>5 DEF WakeReply
  <2>1. PICK verdict \in WakeVerdicts(code, frame) : WakeEnds(code, verdict)
    BY <2>0
  <2>2. CASE site = "api"
    <3>1. pc' = "ready" /\ op' = "wakeup"
      BY <1>5, <2>1, <2>2 DEF WakeReply, WakeEnds, Return, CommInv, Caller, InWake
    <3> QED
      BY <3>1 DEF Truthful, Loyal, Listening, VerdictIsGenuine, Returned
  <2>3. CASE site # "api"
    <3>1. pc' = "resynced" /\ resynced' # "SUCCESS"
      BY <2>1, <2>3 DEF WakeEnds
    <3> QED
      BY <3>1 DEF Truthful, Loyal, Listening, VerdictIsGenuine, Returned
  <2> QED
    BY <2>2, <2>3
<1>6. CASE Resynced
  <2>1. CASE pc' = "ready"
    <3>1. ret' \notin Verdicts
      BY <1>6, <2>1 DEF Resynced, Return, CommInv, Undecided, InResync
    <3> QED
      BY <2>1, <3>1 DEF Truthful, Loyal, Listening, VerdictIsGenuine, Returned
  <2>2. CASE pc' # "ready"
    BY <1>6, <2>2 DEF Resynced, Return, Truthful, Loyal, Listening, Ours,
       VerdictIsGenuine, Returned
  <2> QED
    BY <2>1, <2>2
<1> QED
  BY <1>1, <1>2, <1>3, <1>4, <1>5, <1>6

LEMMA TruthfulChip ==
  ASSUME TypeInv, CommInv, Truthful, Doze \/ Die
  PROVE  Truthful'
<1>1. chip'.power # "awake"
  BY DEF Doze, Die, Off, TypeInv, TypeOK, Chips
<1> QED
  BY <1>1 DEF Doze, Die, library, ghosts, Truthful, Loyal, Listening, Ours, CrcOk,
     VerdictIsGenuine, Returned

(***************************************************************************)
(* If no transmission can be lost unnoticed, a verdict reported to the     *)
(* caller is the chip's verdict on this very command, and a success has    *)
(* been executed, whatever other faults strike and however the calls of    *)
(* the library follow one another.                                         *)
(***************************************************************************)
THEOREM VerdictGenuine ==
  ASSUME NothingUnnoticed
  PROVE  Spec => []VerdictIsGenuine
<1>1. TypeInv /\ CommInv /\ Truthful /\ [Next]_vars => Truthful'
  <2>1. ASSUME Truthful, UNCHANGED vars
        PROVE  Truthful'
    BY <2>1 DEF vars, library, ghosts, Truthful, Loyal, Listening, Ours, CrcOk,
       VerdictIsGenuine, Returned
  <2> QED
    BY <2>1, TruthfulCalls, TruthfulSend, TruthfulReceive, TruthfulResync, TruthfulChip
    DEF Next, Steps
<1>2. Truthful => VerdictIsGenuine
  BY DEF Truthful
<1> QED
  BY <1>1, <1>2, CommInvHolds, TruthfulInit, PTL DEF Spec

-----------------------------------------------------------------------------
(* The refinement of CommandChannel: every step is a step of the channel or  *)
(* leaves it alone.                                                        *)

ChannelStep == [Channel!ChannelNext]_(Channel!channel)

LEMMA Inside ==
  ASSUME pc # "ready", pc' # "ready", op' = op, sent' = sent, executed' = executed
  PROVE  ChannelStep
BY DEF ChannelStep, Channel!channel, InCommand, Told, Returned

LEMMA Answers ==
  ASSUME TypeInv, CommInv, (NothingUnnoticed => VerdictIsGenuine'),
         pc # "ready", pc' = "ready", op = "command", op' = op,
         sent' = sent, executed' = executed,
         ret' \in Verdicts => sent > 0
  PROVE  ChannelStep
<1>1. InCommand /\ ~InCommand' /\ Told' \in Channel!Outcomes \ {"none"}
  BY DEF InCommand, Told, Returned, Channel!Outcomes
<1>2. Told' = "done" => executed > 0 \/ Unnoticed
  <2>1. CASE NothingUnnoticed
    BY <2>1 DEF Told, Returned, VerdictIsGenuine, Verdicts
  <2>2. CASE ~NothingUnnoticed
    BY <2>2, InterfaceAssumption DEF NothingUnnoticed, Unnoticed
  <2> QED
    BY <2>1, <2>2
<1>3. Told' = "refused" => sent > 0
  BY DEF Told, Returned, Verdicts
<1>4. Channel!Answer(Told')
  BY <1>1, <1>2, <1>3 DEF Channel!Answer
<1> QED
  BY <1>1, <1>4 DEF ChannelStep, Channel!ChannelNext, Channel!AnswerSome

LEMMA ChannelRefinesStep ==
  ASSUME TypeInv, CommInv, (NothingUnnoticed => VerdictIsGenuine'), Next
  PROVE  ChannelStep
<1> USE DEF TypeInv, TypeOK, CommInv
<1>1. CASE CallWakeup \/ \E token \in {"sleep", "idle"} : CallDismiss(token)
  <2>1. /\ ~InCommand /\ ~InCommand' /\ Told' = "none"
        /\ sent' = sent /\ executed' = executed
    BY <1>1 DEF CallWakeup, CallDismiss, ghosts, InCommand, Told, Returned
  <2> QED
    BY <2>1 DEF ChannelStep, Channel!ChannelNext, Channel!Dismiss, InCommand
<1>2. CASE \E c \in Cmds : CallCommand(c)
  <2>1. ~InCommand /\ InCommand' /\ Told' = "none" /\ sent' = 0 /\ executed' = 0
    BY <1>2 DEF CallCommand, InCommand, Told, Returned
  <2> QED
    BY <2>1 DEF ChannelStep, Channel!ChannelNext, Channel!Request
<1>3. CASE SendCommand
  <2>1. InCommand /\ InCommand' /\ Told = "none" /\ Told' = "none"
    BY <1>3 DEF SendCommand, SendCommandSWI, SendCommandTWI, Caller, InLoop, InCommand,
       Told, Returned
  <2>2. sent < RetryCount + 1 /\ sent' = sent + 1
    BY <1>3, RetryAssumption DEF SendCommand, MaySend, Budget
  <2>3. executed' \in {executed, executed + 1}
    BY <1>3 DEF SendCommand, SendCommandSWI, SendCommandTWI, Delivered
  <2> QED
    BY <2>1, <2>2, <2>3 DEF ChannelStep, Channel!ChannelNext, Channel!Attempt
<1>4. CASE GiveUp
  <2>1. ret' \notin Verdicts
    BY <1>4 DEF GiveUp, Return, Undecided
  <2> QED
    BY <1>4, <2>1, Answers DEF GiveUp, Return, Caller, InLoop, ghosts
<1>5. CASE StartReceive \/ ReceivesExhausted \/ Poll \/ Silence \/ Garbage
  BY <1>5, Inside DEF StartReceive, ReceivesExhausted, Poll, Silence, Garbage, ghosts
<1>6. CASE Verdict
  <2>1. CASE pc' = "ready"
    BY <1>6, <2>1, Answers DEF Verdict, Caller, InLoop, Budget, ghosts
  <2>2. CASE pc' # "ready"
    BY <1>6, <2>2, Inside DEF Verdict, ghosts
  <2> QED
    BY <2>1, <2>2
<1>7. CASE Resync \/ ResyncRead \/ ResyncSleep \/ WakePulse
  <2>1. /\ pc # "ready" /\ pc' # "ready" /\ op' = op
        /\ sent' = sent /\ executed' = executed
    BY <1>7 DEF Resync, ResyncRead, ResyncSleep, WakePulse, ghosts
  <2> QED
    BY <2>1, Inside
<1>8. CASE WakeReply
  <2>1. pc = "wakeReply" /\ op' = op /\ sent' = sent /\ executed' = executed
    BY <1>8 DEF WakeReply, ghosts
  <2>2. CASE site = "api"
    <3>1. op = "wakeup"
      BY <2>1, <2>2 DEF Caller, InWake
    <3> QED
      BY <2>1, <3>1 DEF ChannelStep, Channel!channel, InCommand, Told, Returned
  <2>3. CASE site # "api"
    <3>1. pc' # "ready"
      BY <1>8, <2>3 DEF WakeReply, WakeEnds
    <3> QED
      BY <2>1, <3>1, Inside
  <2> QED
    BY <2>2, <2>3
<1>9. CASE Resynced
  <2>1. pc = "resynced" /\ op = "command" /\ op' = op /\ sent' = sent /\ executed' = executed
    BY <1>9 DEF Resynced, Caller, InResync, ghosts
  <2>2. CASE pc' = "ready"
    <3>1. ret' \notin Verdicts
      BY <1>9, <2>2 DEF Resynced, Return, Undecided, InResync
    <3> QED
      BY <2>1, <2>2, <3>1, Answers
  <2>3. CASE pc' # "ready"
    BY <2>1, <2>3, Inside
  <2> QED
    BY <2>2, <2>3
<1>10. CASE Doze \/ Die
  BY <1>10 DEF Doze, Die, library, ghosts, ChannelStep, Channel!channel, InCommand, Told, Returned
<1> QED
  BY <1>1, <1>2, <1>3, <1>4, <1>5, <1>6, <1>7, <1>8, <1>9, <1>10 DEF Next, Calls, Steps

LEMMA GenuineWhenNoticed == Spec => [](NothingUnnoticed => VerdictIsGenuine)
<1>1. CASE NothingUnnoticed
  <2>1. VerdictIsGenuine => (NothingUnnoticed => VerdictIsGenuine)
    OBVIOUS
  <2> QED
    BY <1>1, <2>1, VerdictGenuine, PTL
<1>2. CASE ~NothingUnnoticed
  <2>1. NothingUnnoticed => VerdictIsGenuine
    BY <1>2
  <2> QED
    BY <2>1, PTL
<1> QED
  BY <1>1, <1>2

(***************************************************************************)
(* send_and_receive implements the abstract command channel: what it tells *)
(* its caller about a command is never more than the abstract channel,     *)
(* which knows nothing of frames, polling or resynchronisation, may tell.  *)
(***************************************************************************)
THEOREM ChannelImplemented == Spec => ImplementsChannelSafely
<1>1. Init => Channel!ChannelInit
  BY DEF Init, Channel!ChannelInit, InCommand, Told, Returned
<1>2. /\ TypeInv /\ CommInv
      /\ (NothingUnnoticed => VerdictIsGenuine)'
      /\ [Next]_vars
      => [Channel!ChannelNext]_(Channel!channel)
  <2>1. ASSUME UNCHANGED vars
        PROVE  ChannelStep
    BY <2>1 DEF vars, library, ghosts, ChannelStep, Channel!channel, InCommand, Told, Returned
  <2> QED
    BY <2>1, ChannelRefinesStep DEF ChannelStep, NothingUnnoticed
<1> QED
  BY <1>1, <1>2, CommInvHolds, GenuineWhenNoticed, PTL
  DEF Spec, ImplementsChannelSafely, Channel!ChannelSpec
=============================================================================
