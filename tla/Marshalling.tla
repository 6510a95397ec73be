---------------------------- MODULE Marshalling ----------------------------
(***************************************************************************)
(* The packets of avr/SHA204/SHA204.cpp. A command reaches the chip on one *)
(* of two ways: the prompt calls a function of its own for every command   *)
(* (random, read, check_mac, ..), which lays its packet out with the       *)
(* indexes of SHA204Definitions.h; the scripts' requests all go through    *)
(* execute, which lays the fields out one after the other. A packet is its *)
(* count, op-code and parameters, and the names, places and sizes of the   *)
(* fields of data; send_and_receive appends the CRC.                       *)
(***************************************************************************)
EXTENDS Integers, Sequences

CmdSizeMin == 7
CmdSizeMax == 84
DataIdx == 5
RspSizeMin == 4
RspSizeVal == 7
RspSizeMax == 35
KeyIdMax == 15
OtpBlockMax == 1
AddressMask == [config |-> 31, otp |-> 15, data |-> 127]

At(idx, name, size) == [at |-> idx, name |-> name, size |-> size]

\* What is handed to send_and_receive: count, op-code, parameters, data, and the size of
\* the response. "BAD_PARAM" when nothing is.
Packet(op, param1, param2, count, data, response) ==
  [op |-> op, param1 |-> param1, param2 |-> param2, count |-> count, data |-> data,
   response |-> response]
BadParam == Packet("BAD_PARAM", 0, 0, 0, {}, 0)

\* A flag is a bit by its value, a mask the set of its bits
AllFlags == {1, 2, 4, 8, 16, 32, 64, 128}
Has(bits, flag) == (bits \div flag) % 2 = 1
Reserved(bits, mask) == \E flag \in AllFlags \ mask : Has(bits, flag)

\* The zone of a Read or a Write, in its lowest bits
Zone(zone) == <<"config", "otp", "data", "none">>[(zone % 4) + 1]
OutOfZone(zone, word) == Zone(zone) # "none" /\ word > AddressMask[Zone(zone)]

-----------------------------------------------------------------------------
(* The functions the prompt calls. A challenge, message or MAC that the      *)
(* caller leaves out is NULL: FALSE here.                                    *)

random(mode) ==
  IF mode > 1 THEN BadParam ELSE Packet("RANDOM", 0, 0, CmdSizeMin, {}, RspSizeMax)

dev_rev == Packet("DEVREV", 0, 0, CmdSizeMin, {}, RspSizeVal)

\* (zone = SHA204_ZONE_OTP has no bit 7: the second condition never holds)
read(zone, address) ==
  IF \/ Reserved(zone, {1, 2, 128}) \/ (Has(zone, 128) /\ zone = 1)
     \/ OutOfZone(zone, address \div 4)
  THEN BadParam
  ELSE Packet("READ", zone, (address \div 4) % 128, CmdSizeMin, {},
              IF Has(zone, 128) THEN RspSizeMax ELSE RspSizeVal)

\* mutant: one response for another
check_mac_Swapped(mode, key_id) ==
  IF Reserved(mode, {1, 2, 4, 32}) \/ key_id > KeyIdMax THEN BadParam
  ELSE Packet("CHECKMAC", mode, key_id, 84,
              {At(5, "data2", 32), At(37, "data1", 32), At(69, "data3", 13)}, RspSizeMin)

check_mac(mode, key_id) ==
  IF Reserved(mode, {1, 2, 4, 32}) \/ key_id > KeyIdMax THEN BadParam
  ELSE Packet("CHECKMAC", mode, key_id, 84,
              {At(5, "data1", 32), At(37, "data2", 32), At(69, "data3", 13)}, RspSizeMin)

derive_key(rnd, target_key, mac) ==
  IF Reserved(rnd, {4}) \/ target_key > KeyIdMax THEN BadParam
  ELSE Packet("DERIVE_KEY", rnd, target_key, IF mac THEN 39 ELSE CmdSizeMin,
              IF mac THEN {At(5, "data1", 32)} ELSE {}, RspSizeMin)

gen_dig(zone, key_id, other_data) ==
  IF zone > 2 \/ (zone = 1 /\ key_id > OtpBlockMax) \/ (zone = 2 /\ key_id > KeyIdMax) THEN BadParam
  ELSE Packet("GENDIG", zone, key_id, IF other_data THEN 11 ELSE CmdSizeMin,
              IF other_data THEN {At(5, "data1", 4)} ELSE {}, RspSizeMin)

hmac(mode, key_id) ==
  IF Reserved(mode, {4, 16, 32, 64}) THEN BadParam ELSE Packet("HMAC", mode, key_id, CmdSizeMin, {}, RspSizeMax)

lock(zone, summary) ==
  IF Reserved(zone, {1, 128}) \/ (Has(zone, 128) /\ summary # 0) THEN BadParam
  ELSE Packet("LOCK", (zone % 2) + 128 * (zone \div 128), summary, CmdSizeMin, {}, RspSizeMin)

mac(mode, key_id, challenge) ==
  IF Reserved(mode, {1, 2, 4, 16, 32, 64}) \/ (~Has(mode, 1) /\ ~challenge) THEN BadParam
  ELSE Packet("MAC", mode, key_id, IF Has(mode, 1) THEN CmdSizeMin ELSE 39,
              IF Has(mode, 1) THEN {} ELSE {At(5, "data1", 32)}, RspSizeMax)

nonce(mode) ==
  IF mode > 3 \/ mode = 2 THEN BadParam
  ELSE IF mode # 3 THEN Packet("NONCE", mode, 0, 27, {At(5, "data1", 20)}, RspSizeMax)
  ELSE Packet("NONCE", mode, 0, 39, {At(5, "data1", 32)}, RspSizeMin)

pause(selector) == Packet("PAUSE", selector, 0, CmdSizeMin, {}, RspSizeMin)

update_extra(mode, new_value) ==
  IF mode > 1 THEN BadParam ELSE Packet("UPDATE_EXTRA", mode, new_value, CmdSizeMin, {}, RspSizeMin)

ValueSize(zone) == IF Has(zone, 128) THEN 32 ELSE 4

\* count is what p_command has passed, and the CRC
write(zone, address, mac_given) ==
  IF Reserved(zone, {1, 2, 64, 128}) \/ OutOfZone(zone, address \div 4) THEN BadParam
  ELSE LET past == DataIdx + ValueSize(zone) IN
       Packet("WRITE", zone, (address \div 4) % 128, past + (IF mac_given THEN 32 ELSE 0) + 2,
              {At(DataIdx, "data1", ValueSize(zone))}
                \cup (IF mac_given THEN {At(past, "data2", 32)} ELSE {}), RspSizeMin)

sha(mode, message) ==
  IF Reserved(mode, {1}) \/ (mode = 1 /\ ~message) THEN BadParam
  ELSE IF mode = 1 THEN Packet("SHA", mode, 0, 71, {At(5, "data1", 64)}, RspSizeMax)
  ELSE Packet("SHA", mode, 0, CmdSizeMin, {}, RspSizeMin)

-----------------------------------------------------------------------------
(* execute *)

\* the table of its switch; for an op-code it does not know, the caller's buffer
ResponseSize(op, param1, rx_size) ==
  CASE op \in {"CHECKMAC", "DERIVE_KEY", "GENDIG", "LOCK", "PAUSE", "UPDATE_EXTRA", "WRITE"} -> RspSizeMin
    [] op \in {"HMAC", "MAC", "RANDOM"} -> RspSizeMax
    [] op = "DEVREV" -> RspSizeVal
    [] op = "NONCE" -> IF param1 = 3 THEN RspSizeMin ELSE RspSizeMax
    [] op = "READ" -> IF Has(param1, 128) THEN RspSizeMax ELSE RspSizeVal
    [] op = "SHA" -> IF Has(param1, 1) THEN RspSizeMax ELSE RspSizeMin
    [] OTHER -> rx_size

\* The lengths of the three pieces of data, 0 for one that is not there
Size(lens) == lens[1] + lens[2] + lens[3]

\* p_buffer moves past every piece
Laid(lens) ==
  {f \in {At(DataIdx, "data1", lens[1]), At(DataIdx + lens[1], "data2", lens[2]),
          At(DataIdx + lens[1] + lens[2], "data3", lens[3])} : f.size > 0}

\* check_parameters is compiled without SHA204_CHECK_PARAMETERS: it refuses nothing
execute(op, param1, param2, lens, rx_size) ==
  Packet(op, param1, param2, CmdSizeMin + Size(lens), Laid(lens), ResponseSize(op, param1, rx_size))
=============================================================================
