------------------------------ MODULE I2cMaster ------------------------------
(***************************************************************************)
(* avr/SHA204/i2c_master.c, in its two versions (AVR8 with its TWI status  *)
(* register, XMEGA), under the transfers of SHA204TWI.cpp: send_bytes,     *)
(* send_command, receive_response, and i2c_reset, which resync calls.      *)
(*                                                                         *)
(* One step is one turn of a waiting loop, one byte, or one clock. The     *)
(* hardware's answer is open: nothing yet, the bus, lost arbitration, an   *)
(* acknowledge or none. A chip whose byte was cut off may hold SDA low     *)
(* until it is clocked on.                                                 *)
(***************************************************************************)
EXTENDS Integers

CONSTANTS
  Timeout,   \* turns of a waiting loop: timeout * 100
  MaxCount   \* the most bytes of a transfer

ASSUME I2cAssumption == Timeout \in Nat \ {0} /\ MaxCount \in Nat \ {0}

VARIABLES
  arch,               \* which version is compiled in
  pc,                 \* "ready" (in the caller), "start", "address", "bytes", "stop", "reset"
  op,                 \* the transfer in progress, or the last one
  left,               \* bytes it still has to transfer
  timeout_remaining,
  ret,                \* what the caller is told
  clocks,             \* i2c_reset: 9 - i
  bus,                \* "free", "ours", or "taken" by somebody else
  bits,               \* what the chip still has to send of a byte that was cut off
  moved,              \* ghost: bytes acknowledged, or read, in this transfer
  total               \* ghost: its length

vars == <<arch, pc, op, left, timeout_remaining, ret, clocks, bus, bits, moved, total>>

Transfers == {"send_bytes", "send_command", "receive_response"}

TypeOK ==
  /\ arch \in {"avr8", "xmega"}
  /\ pc \in {"ready", "start", "address", "bytes", "stop", "reset"}
  /\ op \in Transfers \cup {"none", "i2c_reset"}
  /\ left \in 0..MaxCount /\ moved \in 0..MaxCount /\ total \in 0..MaxCount
  /\ timeout_remaining \in 0..Timeout
  /\ ret \in {"none", "SUCCESS", "TIMEOUT", "TX_FAIL", "COMM_FAIL", "RX_NO_RESPONSE", "INVALID_SIZE"}
  /\ clocks \in 0..9 /\ bits \in 0..9
  /\ bus \in {"free", "ours", "taken"}

\* The firmware may be started while the chip is sending.
Init ==
  /\ arch \in {"avr8", "xmega"}
  /\ pc = "ready" /\ op = "none" /\ left = 0 /\ timeout_remaining = 0
  /\ ret = "none" /\ clocks = 0 /\ bus = "free" /\ bits \in 0..9
  /\ moved = 0 /\ total = 0

-----------------------------------------------------------------------------
(* i2c_start *)

\* The caller, one of SHA204TWI's transfers, has n bytes to write or to read.
Call(o, n) ==
  /\ pc = "ready"
  /\ pc' = "start" /\ op' = o /\ left' = n /\ total' = n /\ moved' = 0
  /\ timeout_remaining' = Timeout
  /\ ret' = "none"
  /\ UNCHANGED <<arch, clocks, bus, bits>>

\* mutant: a failed i2c_start is left alone
FailAtOnce(code) == pc' = "ready" /\ ret' = code

\* i2c_start did not get the chip's acknowledge: its caller issues a STOP.
Fail(code) == pc' = "stop" /\ ret' = code

NoChip == CASE op = "send_bytes" -> "TIMEOUT"
            [] op = "send_command" -> "COMM_FAIL"
            [] OTHER -> "RX_NO_RESPONSE"

\* mutant: a turn in vain is not counted
Uncounted == UNCHANGED <<pc, ret, timeout_remaining>>

\* A turn in which nothing happened, or in which it happened too late
Counted ==
  /\ timeout_remaining' = timeout_remaining - 1
  /\ IF timeout_remaining = 1 THEN Fail(NoChip) ELSE UNCHANGED <<pc, ret>>

\* A START goes out when nobody else has the bus or holds SDA low.
LineFree == bus = "free" /\ bits = 0

\* AVR8: the turn that captures the bus is counted too; in the last one the
\* function reports a timeout although it has the bus.
Captured ==
  /\ arch = "avr8" /\ pc = "start" /\ LineFree
  /\ bus' = "ours"
  /\ IF timeout_remaining = 1
       THEN timeout_remaining' = 0 /\ Fail(NoChip)
       ELSE timeout_remaining' = Timeout /\ pc' = "address" /\ UNCHANGED ret
  /\ UNCHANGED <<arch, op, left, clocks, bits, moved, total>>

\* XMEGA: START and address are one step of the hardware.
Addressed ==
  /\ arch = "xmega" /\ pc = "start" /\ LineFree
  /\ \/ bus' = "ours" /\ pc' = "bytes" /\ UNCHANGED ret
     \/ bus' = "free" /\ Fail(NoChip)
  /\ UNCHANGED <<arch, op, left, timeout_remaining, clocks, bits, moved, total>>

\* Lost arbitration: START again, without a count (continue) on AVR8
ArbitrationLost ==
  /\ pc = "start" /\ LineFree
  /\ bus' = "taken"
  /\ IF arch = "avr8" THEN UNCHANGED <<pc, ret, timeout_remaining>> ELSE Counted
  /\ UNCHANGED <<arch, op, left, clocks, bits, moved, total>>

\* AVR8: any other status
BusFault ==
  /\ arch = "avr8" /\ pc = "start"
  /\ Fail(NoChip)
  /\ UNCHANGED <<arch, op, left, timeout_remaining, clocks, bus, bits, moved, total>>

NothingYet ==
  /\ pc \in {"start", "address"}
  /\ Counted
  /\ UNCHANGED <<arch, op, left, clocks, bus, bits, moved, total>>

\* AVR8: the address is out. Without acknowledge i2c_start issues a STOP itself.
Acknowledged ==
  /\ pc = "address"
  /\ \/ pc' = "bytes" /\ UNCHANGED <<ret, bus>>
     \/ bus' \in {"free", "taken"} /\ Fail(NoChip)
  /\ UNCHANGED <<arch, op, left, timeout_remaining, clocks, bits, moved, total>>

-----------------------------------------------------------------------------
(* i2c_write and i2c_read, which wait for the hardware without limit, and   *)
(* what their callers make of them                                          *)

\* mutant: the last byte is not waited for
LastTooEarly == left <= 2

LastByte == left = 1

\* receive_response looks at the count byte.
Complete == IF op = "receive_response" THEN ret' \in {"SUCCESS", "INVALID_SIZE"} ELSE ret' = "SUCCESS"

Byte ==
  /\ pc = "bytes"
  /\ left' = left - 1 /\ moved' = moved + 1
  /\ IF LastByte THEN pc' = "stop" /\ Complete ELSE UNCHANGED <<pc, ret>>
  /\ bus' = IF LastByte /\ arch = "xmega" /\ op = "receive_response" THEN "free" ELSE bus
  /\ UNCHANGED <<arch, op, timeout_remaining, clocks, bits, total>>

\* No acknowledge, or the bus is lost. receive_response then takes what it has
\* got for a frame if its first byte allows.
ByteFails ==
  /\ pc = "bytes"
  /\ pc' = "stop"
  /\ ret' \in CASE op = "send_bytes" -> {"TX_FAIL"}
                [] op = "send_command" -> {"COMM_FAIL"}
                [] OTHER -> {"SUCCESS", "INVALID_SIZE"}
  /\ bus' \in {"ours", "taken"}
  /\ bits' \in IF op = "receive_response" THEN 0..9 ELSE {bits}
  /\ UNCHANGED <<arch, op, left, timeout_remaining, clocks, moved, total>>

\* i2c_stop, at each end of each transfer
Stop ==
  /\ pc = "stop"
  /\ pc' = "ready"
  /\ bus' = IF bus = "ours" THEN "free" ELSE bus
  /\ UNCHANGED <<arch, op, left, timeout_remaining, ret, clocks, bits, moved, total>>

-----------------------------------------------------------------------------
(* i2c_reset *)

\* mutant: eight clocks
EightClocks == 8

ResetClocks == 9

Reset ==
  /\ pc = "ready"
  /\ pc' = "reset" /\ op' = "i2c_reset" /\ clocks' = ResetClocks
  /\ UNCHANGED <<arch, left, timeout_remaining, ret, bus, bits, moved, total>>

\* SDA is high: the chip sends its next bit, or finds its byte not acknowledged.
Clock ==
  /\ pc = "reset" /\ clocks > 0
  /\ clocks' = clocks - 1
  /\ bits' = IF bits = 0 THEN 0 ELSE bits - 1
  /\ UNCHANGED <<arch, pc, op, left, timeout_remaining, ret, bus, moved, total>>

ResetEnd ==
  /\ pc = "reset" /\ clocks = 0
  /\ pc' = "ready"
  /\ UNCHANGED <<arch, op, left, timeout_remaining, ret, clocks, bus, bits, moved, total>>

\* Whoever has the bus lets go of it.
Released ==
  /\ bus = "taken"
  /\ bus' = "free"
  /\ UNCHANGED <<arch, pc, op, left, timeout_remaining, ret, clocks, bits, moved, total>>

-----------------------------------------------------------------------------

Waiting == NothingYet \/ Captured \/ Addressed \/ Acknowledged \/ BusFault
Moving == Byte \/ ByteFails
Driver == Waiting \/ ArbitrationLost \/ Moving \/ Stop \/ Clock \/ ResetEnd
Caller == Reset \/ \E o \in Transfers, n \in 1..MaxCount : Call(o, n)

Next == Caller \/ Driver \/ Released

Spec == Init /\ [][Next]_vars

\* The firmware keeps running; arbitration is not lost in every turn there is
\* (the strong fairness); and a byte under way, for which i2c_write and i2c_read
\* wait without limit, is done some day: the chip does not hold SCL for ever.
FairSpec == Spec /\ WF_vars(Driver) /\ SF_vars(Waiting)

(***************************************************************************)
(* When a transfer is over the firmware does not hold the bus, however it  *)
(* ended: in the last turn of a waiting loop, at a byte, or in i2c_start.  *)
(***************************************************************************)
BusReleased == pc = "ready" => bus # "ours"

(***************************************************************************)
(* The codes mean what the communication layer takes them for: success of  *)
(* a transfer to the chip is every byte acknowledged; and "no response"    *)
(* or a timeout is not one byte transferred, so that it may be the chip's  *)
(* being busy ("so that the Communication layer can distinguish").         *)
(***************************************************************************)
CodesTell ==
  pc = "ready" =>
    /\ ret = "SUCCESS" /\ op \in {"send_bytes", "send_command"} => moved = total
    /\ ret \in {"TIMEOUT", "RX_NO_RESPONSE"} => moved = 0
    /\ ret = "TX_FAIL" => moved < total

(***************************************************************************)
(* i2c_reset frees the bus of a chip that stopped anywhere in a byte.      *)
(***************************************************************************)
ResetFrees == pc = "ready" /\ op = "i2c_reset" => bits = 0

(***************************************************************************)
(* Every transfer ends: the waits of i2c_start end by themselves, the      *)
(* others because bytes are not held back for ever.                        *)
(***************************************************************************)
EveryTransferEnds == pc # "ready" ~> pc = "ready"
=============================================================================
