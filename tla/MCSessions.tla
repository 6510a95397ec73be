----------------------------- MODULE MCSessions -----------------------------
(***************************************************************************)
(* Small instances of Sessions: two nonces, so that one session's TempKey  *)
(* can be told from another's; two keys, whose order and double use show;  *)
(* two messages.                                                           *)
(***************************************************************************)
EXTENDS Sessions

Symmetry == Permutations(Nonces) \cup Permutations(Keys) \cup Permutations(Messages)
=============================================================================
