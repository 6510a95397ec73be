---------------------------- MODULE MCBinaryMode ----------------------------
(***************************************************************************)
(* Requests whose fixed part, of which nothing depends, is cut to one      *)
(* byte: a Read and one that opens a prompt when it is left behind; one    *)
(* that ends a prompt and looks like a request from there on; and one that *)
(* looks like two requests, in bytes the script chooses, and so leaves     *)
(* more behind than the script waits for.                                  *)
(***************************************************************************)
EXTENDS BinaryMode

MCPayloads ==
  {<<"plain">>, <<"prompt">>, <<"enter", "frame", "plain", "plain">>,
   <<"frame", "plain", "plain", "frame", "plain", "plain">>}
=============================================================================
