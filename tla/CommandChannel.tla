--------------------------- MODULE CommandChannel ---------------------------
(***************************************************************************)
(* What send_and_receive of avr/SHA204/SHA204.cpp promises its callers:    *)
(* a command is attempted a bounded number of times, may take effect once  *)
(* per attempt (retries make it an at-least-once channel: a caller must    *)
(* expect a Lock or a Write to have been carried out more than once), and  *)
(* is reported as done only if it took effect. On a transport that may     *)
(* lose an attempt without noticing (Silent), not even that is promised.   *)
(***************************************************************************)
EXTENDS Integers

CONSTANTS
  Attempts,   \* the most often one command is sent, a positive number
  Silent      \* TRUE: a lost attempt may look like a successful one

VARIABLES
  busy,       \* a command is in progress
  attempts,   \* how often it was sent
  effects,    \* how often it took effect
  outcome     \* what the caller was told

channel == <<busy, attempts, effects, outcome>>

Outcomes == {"none", "done", "refused", "failed"}

ChannelTypeOK ==
  /\ busy \in BOOLEAN
  /\ attempts \in 0..Attempts /\ effects \in 0..Attempts
  /\ outcome \in Outcomes

ChannelInit == ~busy /\ attempts = 0 /\ effects = 0 /\ outcome = "none"

Request ==
  /\ ~busy
  /\ busy' = TRUE /\ attempts' = 0 /\ effects' = 0 /\ outcome' = "none"

Attempt ==
  /\ busy /\ attempts < Attempts
  /\ attempts' = attempts + 1
  /\ effects' \in {effects, effects + 1}
  /\ UNCHANGED <<busy, outcome>>

Answer(result) ==
  /\ busy
  /\ result = "done" => effects > 0 \/ Silent
  /\ result = "refused" => attempts > 0
  /\ busy' = FALSE /\ outcome' = result
  /\ UNCHANGED <<attempts, effects>>

\* The caller turns to something else: the outcome is no longer on record.
Dismiss == ~busy /\ outcome' = "none" /\ UNCHANGED <<busy, attempts, effects>>

AnswerSome == \E result \in Outcomes \ {"none"} : Answer(result)

ChannelNext == Request \/ Attempt \/ AnswerSome \/ Dismiss

ChannelSpec == ChannelInit /\ [][ChannelNext]_channel

\* Every request is answered.
FairChannelSpec == ChannelSpec /\ WF_channel(AnswerSome)
=============================================================================
