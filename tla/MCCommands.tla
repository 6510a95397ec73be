----------------------------- MODULE MCCommands -----------------------------
(***************************************************************************)
(* The execution times of SHA204Definitions.h, all modes of all commands   *)
(* with the second parameters at which they are refused or not, the zone   *)
(* with options in the first and last slots of each kind, and damage to    *)
(* status responses and to two with data.                                  *)
(***************************************************************************)
EXTENDS Commands, MCTimes

\* What the theorems about the clock suppose of a table of times
ASSUME TimesFit == NothingWraps

MCCalls ==
  [op : {"RANDOM", "DEVREV", "PAUSE", "NONCE", "SHA"}, param1 : 0..255, param2 : {0}, given : BOOLEAN]
    \cup [op : {"READ", "WRITE"}, param1 : 0..255, given : BOOLEAN,
          param2 : {0, 3, 32, 60, 64, 124, 128, 508, 512, 65535}]
    \cup [op : {"CHECKMAC", "DERIVE_KEY", "GENDIG", "UPDATE_EXTRA"}, param1 : 0..255, given : BOOLEAN,
          param2 : {0, 1, 2, 15, 16, 255}]
    \cup [op : {"HMAC", "LOCK", "MAC"}, param1 : 0..255, given : BOOLEAN, param2 : {0, 15, 16, 65535}]

MCZones ==
  {[i \in 0..(ZoneSize - 1) |-> 0], [i \in 0..(ZoneSize - 1) |-> 255],
   [i \in 0..(ZoneSize - 1) |-> (37 * i + 85) % 256]}

Opt(name, slot, values) == {[option |-> [name |-> name, slot |-> slot], value |-> v] : v \in values}
MCAsks ==
  Opt("I2Cenable", 0, {0, 1, 2}) \cup Opt("I2Caddress", 0, {0, 100, 128}) \cup Opt("OTPmode", 0, {170, 0, 1})
    \cup Opt("SelectorMode", 0, {0, 255, 256}) \cup Opt("KeyUse", 15, {0, 171})
    \cup UNION {Opt("ReadKey", s, {5, 16}) \cup Opt("WriteKey", s, {10}) \cup Opt("WriteConfig", s, {8})
                  \cup UNION {Opt(f, s, {0, 1}) : f \in Flags} : s \in {0, 7, 8, 15}}
    \cup UNION {Opt("UseFlag", s, {0, 255}) \cup Opt("UpdateCount", s, {7}) : s \in {0, 7}}

\* What the second answer with data holds looks like the rest of a status response, so with
\* its count damaged it passes as one.
MCResponses == {<<4, 0>>, <<4, 15>>, <<7, 1, 35, 69, 238>>, <<7, 0, 3, 64, 0>>}

\* Up to three bits past the count of four bytes, two of seven; all bursts of up to eight
\* bits and some of up to sixteen, at every place; and the response as it was sent
Patterns == {p \in SUBSET (0..7) : 0 \in p} \cup {{0, 15}, {0, 1, 14, 15}, 0..15, {0, 2, 15}, {0, 5, 8, 13}}
MCDamages ==
  {{}} \cup {{a, b, c} : a, b, c \in 8..31} \cup {{a, b} : a, b \in 8..55}
    \cup {{first + k : k \in p} : first \in 0..55, p \in Patterns}
=============================================================================
