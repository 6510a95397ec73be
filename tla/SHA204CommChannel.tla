-------------------------- MODULE SHA204CommChannel --------------------------
(***************************************************************************)
(* SHA204Comm implements CommandChannel: the refinement mapping.           *)
(***************************************************************************)
EXTENDS SHA204Comm

\* A transmission lost on the single wire goes unnoticed.
Unnoticed == Interface = "SWI" /\ "cmdLost" \in Faults

InCommand == op = "command" /\ pc # "ready"

Told ==
  CASE ~Returned -> "none"
    [] Returned /\ ret = "SUCCESS" -> "done"
    [] Returned /\ ret \in {"PARSE_ERROR", "CMD_FAIL"} -> "refused"
    [] OTHER -> "failed"

Channel == INSTANCE CommandChannel WITH
  Attempts <- RetryCount + 1,
  Silent <- Unnoticed,
  busy <- InCommand,
  attempts <- sent,
  effects <- executed,
  outcome <- Told

(***************************************************************************)
(* send_and_receive, with its retries and resynchronisations, over a bus   *)
(* that loses and damages frames, is an at-least-once command channel that *)
(* always answers.                                                         *)
(***************************************************************************)
ImplementsChannel == Channel!FairChannelSpec

(***************************************************************************)
(* The safety part of the same: no outcome is reported that the abstract   *)
(* channel could not report.                                               *)
(***************************************************************************)
ImplementsChannelSafely == Channel!ChannelSpec
=============================================================================
