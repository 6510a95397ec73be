--------------------------- MODULE MCSHA204Timing ---------------------------
(***************************************************************************)
(* The timing alone, with an op-code of which execute knows nothing.       *)
(***************************************************************************)
EXTENDS SHA204Timing, MCTimes
=============================================================================
