---------------------------- MODULE MCPersonalize ----------------------------
(***************************************************************************)
(* Small instances of Personalize: two words of configuration, two slots,  *)
(* two keys and two dates are enough for a torn update, a partly written   *)
(* data zone, and a run that differs from the one before.                  *)
(***************************************************************************)
EXTENDS Personalize, TLC

Symmetry == Permutations(Slots) \cup Permutations(Keys) \cup Permutations(Otps)
=============================================================================
