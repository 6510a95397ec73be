------------------------------ MODULE MCTimes ------------------------------
(***************************************************************************)
(* The op-codes and execution times of SHA204Definitions.h.                *)
(***************************************************************************)
EXTENDS Integers

MCKnown == {"CHECKMAC", "DERIVE_KEY", "DEVREV", "GENDIG", "HMAC", "LOCK", "MAC",
            "NONCE", "PAUSE", "RANDOM", "READ", "UPDATE_EXTRA", "WRITE", "SHA"}
MCOpCodes == MCKnown \cup {"TEMPSENSE"}

MCMinExec == [op \in MCKnown |->
  CASE op = "CHECKMAC" -> 120 [] op = "DERIVE_KEY" -> 140 [] op = "DEVREV" -> 4
    [] op = "GENDIG" -> 110 [] op = "HMAC" -> 270 [] op = "LOCK" -> 50
    [] op = "MAC" -> 120 [] op = "NONCE" -> 220 [] op = "PAUSE" -> 4
    [] op = "RANDOM" -> 110 [] op = "READ" -> 4 [] op = "UPDATE_EXTRA" -> 40
    [] op = "WRITE" -> 40 [] op = "SHA" -> 110]
MCMaxExec == [op \in MCKnown |->
  CASE op = "CHECKMAC" -> 380 [] op = "DERIVE_KEY" -> 620 [] op = "DEVREV" -> 20
    [] op = "GENDIG" -> 430 [] op = "HMAC" -> 690 [] op = "LOCK" -> 240
    [] op = "MAC" -> 350 [] op = "NONCE" -> 600 [] op = "PAUSE" -> 20
    [] op = "RANDOM" -> 500 [] op = "READ" -> 40 [] op = "UPDATE_EXTRA" -> 60
    [] op = "WRITE" -> 420 [] op = "SHA" -> 220]

\* Every millisecond, and a poll's width before it, as far as the longest limit
MCLatencies == {n * 1000 : n \in 0..71} \cup {n * 1000 - 476 : n \in 1..71}
=============================================================================
