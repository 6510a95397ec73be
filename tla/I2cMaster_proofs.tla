-------------------------- MODULE I2cMaster_proofs --------------------------
(***************************************************************************)
(* Safety of the I2C driver and of the transfers on top of it, for every   *)
(* length of transfer and every timeout.                                   *)
(***************************************************************************)
EXTENDS I2cMaster, TLAPS

\* The firmware has the bus only between its capture and the STOP.
HoldsBus == bus = "ours" => pc \in {"address", "bytes", "stop"}

\* A waiting loop has turns left.
TurnsLeft == pc \in {"start", "address"} => timeout_remaining > 0

\* Bytes done and bytes to do add up, and the result is not known before the end.
Progress ==
  /\ pc \in {"start", "address"} => moved = 0
  /\ pc \in {"start", "address", "bytes"} => moved + left = total /\ left > 0 /\ ret = "none"
  /\ pc \in {"start", "address", "bytes", "stop"} => op \in Transfers

\* What CodesTell says, from the last byte on
Codes ==
  pc \in {"stop", "ready", "reset"} =>
    /\ ret = "SUCCESS" /\ op \in {"send_bytes", "send_command"} => moved = total
    /\ ret \in {"TIMEOUT", "RX_NO_RESPONSE"} => moved = 0
    /\ ret = "TX_FAIL" => moved < total

\* There are clocks left for every bit the chip still has to send.
Clocked ==
  /\ pc = "reset" => op = "i2c_reset" /\ bits <= clocks
  /\ pc = "ready" /\ op = "i2c_reset" => bits = 0

Inv == TypeOK /\ HoldsBus /\ TurnsLeft /\ Progress /\ Codes /\ Clocked

\* The result of a transfer whose i2c_start failed
LEMMA NoChipCode ==
  /\ NoChip \in {"TIMEOUT", "COMM_FAIL", "RX_NO_RESPONSE"}
  BY DEF NoChip

LEMMA InvInit == Init => Inv
  BY I2cAssumption DEF Init, Inv, TypeOK, HoldsBus, TurnsLeft, Progress, Codes, Clocked

\* A turn in vain keeps the invariant, whatever it does to the bus.
LEMMA TurnCounted ==
  ASSUME Inv, pc \in {"start", "address"}, Counted,
         bus' = bus \/ bus' = "taken",
         UNCHANGED <<arch, op, left, clocks, bits, moved, total>>
  PROVE  Inv'
<1>1. CASE timeout_remaining = 1
  BY <1>1, NoChipCode, I2cAssumption
    DEF Inv, TypeOK, HoldsBus, TurnsLeft, Progress, Codes, Clocked, Counted, Fail, Transfers
<1>2. CASE timeout_remaining # 1
  BY <1>2, I2cAssumption
    DEF Inv, TypeOK, HoldsBus, TurnsLeft, Progress, Codes, Clocked, Counted, Transfers
<1>3. QED BY <1>1, <1>2

LEMMA InvNext == Inv /\ [Next]_vars => Inv'
<1> SUFFICES ASSUME Inv, [Next]_vars PROVE Inv'
  OBVIOUS
<1> USE I2cAssumption DEF Inv, TypeOK, HoldsBus, TurnsLeft, Progress, Codes, Clocked, Transfers
<1>1. ASSUME NEW o \in Transfers, NEW n \in 1..MaxCount, Call(o, n) PROVE Inv'
  BY <1>1 DEF Call
<1>2. CASE Reset
  BY <1>2 DEF Reset, ResetClocks
<1>3. CASE NothingYet
  BY <1>3, TurnCounted DEF NothingYet
<1>4. CASE Captured
  <2>1. CASE timeout_remaining = 1
    BY <1>4, <2>1, NoChipCode DEF Captured, Fail
  <2>2. CASE timeout_remaining # 1
    BY <1>4, <2>2 DEF Captured
  <2>3. QED BY <2>1, <2>2
<1>5. CASE Addressed
  BY <1>5, NoChipCode DEF Addressed, Fail
<1>6. CASE Acknowledged
  BY <1>6, NoChipCode DEF Acknowledged, Fail
<1>7. CASE BusFault
  BY <1>7, NoChipCode DEF BusFault, Fail
<1>8. CASE ArbitrationLost
  <2>1. CASE arch = "avr8"
    BY <1>8, <2>1 DEF ArbitrationLost
  <2>2. CASE arch # "avr8"
    BY <1>8, <2>2, TurnCounted DEF ArbitrationLost
  <2>3. QED BY <2>1, <2>2
<1>9. CASE Byte
  <2>1. CASE LastByte
    <3>1. ret' \in {"SUCCESS", "INVALID_SIZE"} /\ (op # "receive_response" => ret' = "SUCCESS")
      BY <1>9, <2>1 DEF Byte, Complete
    <3>2. QED BY <1>9, <2>1, <3>1 DEF Byte, LastByte
  <2>2. CASE ~LastByte
    BY <1>9, <2>2 DEF Byte, LastByte
  <2>3. QED BY <2>1, <2>2
<1>10. CASE ByteFails
  <2>1. /\ ret' \in {"TX_FAIL", "COMM_FAIL", "SUCCESS", "INVALID_SIZE"}
        /\ op # "receive_response" => ret' # "SUCCESS"
    BY <1>10 DEF ByteFails
  <2>2. QED BY <1>10, <2>1 DEF ByteFails
<1>11. CASE Stop
  BY <1>11 DEF Stop
<1>12. CASE Clock
  BY <1>12 DEF Clock
<1>13. CASE ResetEnd
  BY <1>13 DEF ResetEnd
<1>14. CASE Released
  BY <1>14 DEF Released
<1>15. CASE UNCHANGED vars
  BY <1>15 DEF vars
<1>16. QED
  BY <1>1, <1>2, <1>3, <1>4, <1>5, <1>6, <1>7, <1>8, <1>9, <1>10, <1>11, <1>12, <1>13, <1>14, <1>15
    DEF Next, Caller, Driver, Waiting, Moving

LEMMA Invariance == Spec => []Inv
  BY InvInit, InvNext, PTL DEF Spec

\* The driver's variables keep their types: the waiting loops do not count below 0, no
\* transfer moves more bytes than it was asked for.
THEOREM TypeCorrect == Spec => []TypeOK
<1>1. Inv => TypeOK
  BY DEF Inv
<1>2. QED BY <1>1, Invariance, PTL

\* The bus is released at the end of every transfer, whatever ended it.
THEOREM BusGivenBack == Spec => []BusReleased
<1>1. Inv => BusReleased
  BY DEF Inv, HoldsBus, BusReleased
<1>2. QED BY <1>1, Invariance, PTL

\* Success means every byte, "no response" and a timeout mean none.
THEOREM CodesRight == Spec => []CodesTell
<1>1. Inv => CodesTell
  BY DEF Inv, Codes, CodesTell
<1>2. QED BY <1>1, Invariance, PTL

\* Nine clocks are enough, wherever in a byte the chip was.
THEOREM ResetEnough == Spec => []ResetFrees
<1>1. Inv => ResetFrees
  BY DEF Inv, Clocked, ResetFrees
<1>2. QED BY <1>1, Invariance, PTL
=============================================================================
