----------------------------- MODULE ConfigZone -----------------------------
(***************************************************************************)
(* The 88 bytes of a chip's configuration zone, as three pieces of code    *)
(* take them apart: process_config_modifications of talk_to_sha204.py puts *)
(* the options of personalize.ini in, process_config_area shows them, and  *)
(* so does process_config of the firmware, which has the layout a second   *)
(* time.                                                                   *)
(***************************************************************************)
EXTENDS Integers, Sequences

ZoneSize == 88
Bytes == 0..255
NoValue == -1   \* None

\* A field of a byte: what its lowest bit counts, and how many values it has
Bits(byte, unit, range) == (byte \div unit) % range
SetBits(byte, unit, range, value) == byte + (value - Bits(byte, unit, range)) * unit

\* An option: of the section ConfigZone, or of the section of a slot
General == {"I2Cenable", "I2Caddress", "OTPmode", "SelectorMode"}
OfSlots == {"ReadKey", "CheckOnly", "SingleUse", "EncryptRead", "IsSecret", "WriteKey", "WriteConfig"}
Flags == {"CheckOnly", "SingleUse", "EncryptRead", "IsSecret"}
Options ==
  [name : General, slot : {0}] \cup [name : OfSlots, slot : 0..15]
    \cup [name : {"UseFlag", "UpdateCount"}, slot : 0..7] \cup [name : {"KeyUse"}, slot : {15}]

\* get_ini_bool, get_ini_int, get_ini_str: what is not possible is left out with an error
\* message. A boolean is a number here, KeyUse one of its 16 bytes repeated.
Possible(name) ==
  CASE name \in Flags \cup {"I2Cenable"} -> {0, 1}
    [] name = "I2Caddress" -> 0..127
    [] name = "OTPmode" -> {170, 85, 0}
    [] name \in {"ReadKey", "WriteKey", "WriteConfig"} -> 0..15
    [] OTHER -> Bytes

Parsed(name, value) == IF value \in Possible(name) THEN value ELSE NoValue

slot_addr(i) == 20 + 2 * i
useflag_addr(i) == 52 + 2 * i
FlagUnit == [CheckOnly |-> 16, SingleUse |-> 32, EncryptRead |-> 64, IsSecret |-> 128]

\* mutant: the key number overwrites its neighbours in the byte
ModifiedSlotRoughly(config, o, t) ==
  LET low == slot_addr(o.slot) high == slot_addr(o.slot) + 1 IN
  CASE o.name = "ReadKey" -> [config EXCEPT ![low] = t]
    [] o.name \in Flags -> [config EXCEPT ![low] = SetBits(@, FlagUnit[o.name], 2, t)]
    [] o.name = "WriteKey" -> [config EXCEPT ![high] = SetBits(@, 1, 16, t)]
    [] o.name = "WriteConfig" -> [config EXCEPT ![high] = SetBits(@, 16, 16, t)]

ModifiedSlot(config, o, t) ==
  LET low == slot_addr(o.slot) high == slot_addr(o.slot) + 1 IN
  CASE o.name = "ReadKey" -> [config EXCEPT ![low] = SetBits(@, 1, 16, t)]
    [] o.name \in Flags -> [config EXCEPT ![low] = SetBits(@, FlagUnit[o.name], 2, t)]
    [] o.name = "WriteKey" -> [config EXCEPT ![high] = SetBits(@, 1, 16, t)]
    [] o.name = "WriteConfig" -> [config EXCEPT ![high] = SetBits(@, 16, 16, t)]

Modified(config, o, t) ==
  IF t = NoValue THEN config
  ELSE
  CASE o.name = "I2Cenable" -> [config EXCEPT ![14] = t]
    [] o.name = "I2Caddress" -> [config EXCEPT ![16] = 2 * t]
    [] o.name = "OTPmode" -> [config EXCEPT ![18] = t]
    [] o.name = "SelectorMode" -> [config EXCEPT ![19] = t]
    [] o.name \in OfSlots -> ModifiedSlot(config, o, t)
    [] o.name = "UseFlag" -> [config EXCEPT ![useflag_addr(o.slot)] = t]
    [] o.name = "UpdateCount" -> [config EXCEPT ![useflag_addr(o.slot) + 1] = t]
    [] o.name = "KeyUse" -> [i \in DOMAIN config |-> IF i \in 68..83 THEN t ELSE config[i]]

\* update_config_area: the words of four bytes in which the two differ
ChangedWords(config_new, config) ==
  {i \in 0..21 : \E j \in 0..3 : config_new[4 * i + j] # config[4 * i + j]}

-----------------------------------------------------------------------------
(* What is shown, beside the options *)

Others == [name : {"serial", "revision", "UserExtra", "Selector", "DataOTPlocked", "ConfigLocked"}, slot : {0}]

Part(config, first, last) == [i \in 1..(last - first + 1) |-> config[first + i - 1]]

OtpMode(byte) ==
  CASE byte = 170 -> "read-only" [] byte = 85 -> "consumption" [] byte = 0 -> "legacy" [] OTHER -> "error"

\* process_config_area
ScriptShows(config, o) ==
  LET low == config[slot_addr(o.slot)] high == config[slot_addr(o.slot) + 1] IN
  CASE o.name = "serial" -> Part(config, 0, 3) \o Part(config, 8, 12)
    [] o.name = "revision" -> Part(config, 4, 7)
    [] o.name = "I2Cenable" -> Bits(config[14], 1, 2)
    [] o.name = "I2Caddress" -> config[16] \div 2
    [] o.name = "OTPmode" -> OtpMode(config[18])
    [] o.name = "SelectorMode" -> config[19] = 0
    [] o.name = "UserExtra" -> config[84]
    [] o.name = "Selector" -> config[85]
    [] o.name = "DataOTPlocked" -> config[86] # 85
    [] o.name = "ConfigLocked" -> config[87] # 85
    [] o.name = "ReadKey" -> low % 16
    [] o.name \in Flags -> Bits(low, FlagUnit[o.name], 2)
    [] o.name = "WriteKey" -> high % 16
    [] o.name = "WriteConfig" -> high \div 16
    [] o.name = "UseFlag" -> config[52 + 2 * o.slot]
    [] o.name = "UpdateCount" -> config[53 + 2 * o.slot]
    [] o.name = "KeyUse" -> Part(config, 68, 83)

hexprint_4bits(b) == b % 16
hexprint_1bit(b) == b % 2

\* mutant: the two bytes of a slot, most significant first
FirmwareShowsSlotSwapped(config, o) ==
  LET addr == 20 + 2 * o.slot IN
  CASE o.name = "ReadKey" -> hexprint_4bits(config[addr + 1])
    [] o.name = "CheckOnly" -> hexprint_1bit(config[addr] \div 16)
    [] o.name = "SingleUse" -> hexprint_1bit(config[addr] \div 32)
    [] o.name = "EncryptRead" -> hexprint_1bit(config[addr] \div 64)
    [] o.name = "IsSecret" -> hexprint_1bit(config[addr] \div 128)
    [] o.name = "WriteKey" -> hexprint_4bits(config[addr])
    [] o.name = "WriteConfig" -> hexprint_4bits(config[addr] \div 16)

\* process_config
FirmwareShowsSlot(config, o) ==
  LET addr == 20 + 2 * o.slot IN
  CASE o.name = "ReadKey" -> hexprint_4bits(config[addr])
    [] o.name = "CheckOnly" -> hexprint_1bit(config[addr] \div 16)
    [] o.name = "SingleUse" -> hexprint_1bit(config[addr] \div 32)
    [] o.name = "EncryptRead" -> hexprint_1bit(config[addr] \div 64)
    [] o.name = "IsSecret" -> hexprint_1bit(config[addr] \div 128)
    [] o.name = "WriteKey" -> hexprint_4bits(config[addr + 1])
    [] o.name = "WriteConfig" -> hexprint_4bits(config[addr + 1] \div 16)

FirmwareShows(config, o) ==
  CASE o.name = "serial" -> Part(config, 0, 3) \o Part(config, 8, 12)
    [] o.name = "revision" -> Part(config, 4, 7)
    [] o.name = "I2Cenable" -> Bits(config[14], 1, 2)
    [] o.name = "I2Caddress" -> config[16] \div 2
    [] o.name = "OTPmode" -> OtpMode(config[18])
    [] o.name = "SelectorMode" -> config[19] = 0
    [] o.name = "UserExtra" -> config[84]
    [] o.name = "Selector" -> config[85]
    [] o.name = "DataOTPlocked" -> config[86] # 85
    [] o.name = "ConfigLocked" -> config[87] # 85
    [] o.name \in OfSlots -> FirmwareShowsSlot(config, o)
    [] o.name = "UseFlag" -> config[52 + 2 * o.slot]
    [] o.name = "UpdateCount" -> config[53 + 2 * o.slot]
    [] o.name = "KeyUse" -> Part(config, 68, 83)

\* (the address is not shown of a chip on the single wire)
FirmwareShowsIt(config, o) == o.name = "I2Caddress" => Bits(config[14], 1, 2) = 1

\* What an option asks for, as it is to be shown
Wanted(o, t) ==
  CASE o.name = "OTPmode" -> OtpMode(t)
    [] o.name = "SelectorMode" -> t = 0
    [] o.name = "KeyUse" -> [i \in 1..16 |-> t]
    [] OTHER -> t
=============================================================================
