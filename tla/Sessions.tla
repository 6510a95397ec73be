------------------------------ MODULE Sessions ------------------------------
(***************************************************************************)
(* Commands that build on each other through the chip's TempKey register:  *)
(* Nonce, GenDig and MAC typed at the interactive prompt of                *)
(* avr/sha204_playground.cpp, and the two halves of a SHA computation      *)
(* (prompt and talk_to_sha204.py). Each half is a request of its own: wake *)
(* the chip, run the command through send_and_receive, put the chip to     *)
(* idle (TempKey is kept) or to sleep (it is lost).                        *)
(*                                                                         *)
(* send_and_receive is here as a summary of SHA204Comm, an assumption that *)
(* no run compares with it: a command is attempted up to Attempts times    *)
(* and may take effect in each of them; and between two attempts resync    *)
(* may put the chip to sleep, which clears TempKey. What TempKey holds is  *)
(* known to nobody but the chip. The user has the results of the commands  *)
(* to tell.                                                                *)
(***************************************************************************)
EXTENDS Integers, SequencesExt

CONSTANTS
  Nonces,    \* the random numbers Nonce may draw
  Keys,      \* the values GenDig may mix into TempKey
  Messages,  \* what may be hashed
  Attempts,  \* SHA204_RETRY_COUNT + 1
  Blocks,    \* how many reads make up a serial number (or a config zone)
  MaxParts   \* bound: no request is made of a longer TempKey

ASSUME SessionsAssumption ==
  Attempts \in Nat \ {0} /\ Blocks \in Nat \ {0} /\ MaxParts \in Nat

VARIABLES
  pc,        \* the firmware: "loop", "wake", "call", "send", "listen", "resync", "report", "dismiss"
  job,       \* the request being served: its commands, what it is for, what comes after it
  idle,      \* the interactive setting: idle or sleep after commands
  host,      \* a script running sha: where it is, its message, what it printed
  chip,      \* the chip: its power state and TempKey
  attempts, effects, outcome,  \* of the send_and_receive in progress, as in CommandChannel
  answer,    \* the chip's answer to the last attempt
  stored,    \* what serialNumber, or the display of the config zone, copied to its buffer
  told,      \* ghost: TempKey as the results so far tell it
  quiet      \* ghost: no fault since TempKey was last to be loaded

vars == <<pc, job, idle, host, chip, attempts, effects, outcome, answer, stored, told, quiet>>
channel == <<attempts, effects, outcome, answer>>

Parts == Nonces \cup Keys \cup Messages
NoKey == [kind |-> "none", parts |-> <<>>]
TempKeys == [kind : {"none", "nonce", "sha"}, parts : Seq(Parts)]

Cmd(name, arg) == [name |-> name, arg |-> arg]
NoArg == "no argument"
Commands ==
  [name : {"nonce", "sha_init", "mac", "other"}, arg : {NoArg}]
    \cup [name : {"gen_dig"}, arg : Keys] \cup [name : {"sha_compute"}, arg : Messages]

NoAnswer == [verdict |-> "none", about |-> NoKey]
NoJob == [todo |-> <<>>, display |-> "none", after |-> "sleep"]
NoHost == [at |-> "none", message |-> NoArg, digest |-> <<>>]

TypeOK ==
  /\ pc \in {"loop", "wake", "call", "send", "listen", "resync", "report", "dismiss"}
  /\ job \in [todo : Seq(Commands), display : {"none", "serial", "config"}, after : {"idle", "sleep"}]
  /\ pc \in {"call", "send", "listen", "resync", "report"} => job.todo # <<>>
  /\ idle \in BOOLEAN
  /\ host \in [at : {"none", "init", "compute", "printed", "exited"},
               message : Messages \cup {NoArg}, digest : Seq(Parts)]
  /\ chip \in [power : {"awake", "idle", "sleep"}, tempKey : TempKeys]
  /\ chip.power = "sleep" => chip.tempKey = NoKey
  /\ attempts \in 0..Attempts /\ effects \in 0..attempts
  /\ outcome \in {"none", "done", "refused", "failed"}
  /\ answer \in [verdict : {"none", "done", "refused"}, about : TempKeys]
  /\ pc = "listen" => answer.verdict # "none"
  /\ stored \in Seq({"done", "refused", "failed"})
  /\ told \in TempKeys /\ quiet \in BOOLEAN

Init ==
  /\ pc = "loop" /\ job = NoJob /\ idle = FALSE /\ host = NoHost
  /\ chip = [power |-> "sleep", tempKey |-> NoKey]
  /\ attempts = 0 /\ effects = 0 /\ outcome = "none" /\ answer = NoAnswer
  /\ stored = <<>> /\ told = NoKey /\ quiet = TRUE

Fault == quiet' = FALSE

-----------------------------------------------------------------------------
(* The chip: external, as the prompts and the comments of the code describe  *)
(* its commands. Whether TempKey outlives a command that does not load it is *)
(* left open.                                                                *)

Needs(c) ==
  CASE c.name \in {"gen_dig", "mac"} -> {"nonce"}
    [] c.name = "sha_compute" -> {"sha"}
    [] OTHER -> {"none", "nonce", "sha"}

\* what TempKey holds, and the answer is computed from, when the command is done
Results(key, c) ==
  CASE c.name = "nonce" -> {[kind |-> "nonce", parts |-> <<n>>] : n \in Nonces}
    [] c.name = "sha_init" -> {[kind |-> "sha", parts |-> <<>>]}
    [] c.name \in {"gen_dig", "sha_compute"} -> {[key EXCEPT !.parts = Append(@, c.arg)]}
    [] OTHER -> {key}

Kept(key, c) == IF c.name \in {"mac", "other"} THEN {key, NoKey} ELSE {key}

Asleep == [power |-> "sleep", tempKey |-> NoKey]
Woken(c) == [c EXCEPT !.power = "awake"]

\* mutant: the two tokens mixed up
DismissedWrongly(token) ==
  IF chip.power # "awake" THEN chip
  ELSE IF token = "idle" THEN Asleep ELSE [chip EXCEPT !.power = "idle"]

\* a token is heard by a chip that is awake
Dismissed(token) ==
  IF chip.power # "awake" THEN chip
  ELSE IF token = "sleep" THEN Asleep ELSE [chip EXCEPT !.power = "idle"]

-----------------------------------------------------------------------------
(* Requests: typed at the prompt, or sent by a script *)

\* The main loop reads the next request when it is done with the one before.
Begin(todo, display, after) ==
  /\ pc = "loop" /\ Len(chip.tempKey.parts) <= MaxParts
  /\ pc' = "wake"
  /\ job' = [todo |-> todo, display |-> display, after |-> after]
  /\ stored' = <<>>
  /\ quiet' = (quiet \/ (todo # <<>> /\ todo[1].name \in {"nonce", "sha_init"}))
  /\ UNCHANGED <<idle, chip, channel, told>>

NoScript == host.at \in {"none", "printed", "exited"}

Type(todo, display) ==
  /\ NoScript
  /\ Begin(todo, display, IF idle THEN "idle" ELSE "sleep")
  /\ host' = NoHost

TypeNonce == Type(<<Cmd("nonce", NoArg)>>, "none")
TypeGenDig == \E k \in Keys : Type(<<Cmd("gen_dig", k)>>, "none")
TypeMac == Type(<<Cmd("mac", NoArg)>>, "none")
TypeHmac == Type(<<Cmd("mac", NoArg)>>, "none")
TypeOther == Type(<<Cmd("other", NoArg)>>, "none")
TypeWake == Type(<<>>, "none")

\* Both halves in one go; the result of the first is printed, not looked at.
TypeSha == \E m \in Messages : Type(<<Cmd("sha_init", NoArg), Cmd("sha_compute", m)>>, "none")

Reads == [i \in 1..Blocks |-> Cmd("other", NoArg)]
TypeSerial == Type(Reads, "serial")
TypeConfig == Type(Reads, "config")

SwitchIdle ==
  /\ pc = "loop" /\ NoScript
  /\ idle' = ~idle
  /\ UNCHANGED <<pc, job, host, chip, channel, stored, told, quiet>>

\* mac, check_mac, random of the script send the chip to sleep.
ScriptOther ==
  /\ NoScript
  /\ \E name \in {"mac", "other"} : Begin(<<Cmd(name, NoArg)>>, "none", "sleep")
  /\ host' = NoHost

\* The script's sha: REQUEST_IDLE after the first half ..
ShaInit ==
  /\ NoScript
  /\ Begin(<<Cmd("sha_init", NoArg)>>, "none", "idle")
  /\ \E m \in Messages : host' = [at |-> "init", message |-> m, digest |-> <<>>]

\* mutant: the answer to the first half is not looked at
InitSeemsDone == TRUE

\* .. which must have succeeded ..
InitIsDone == outcome = "done"

\* .. and REQUEST_SLEEP after the second.
ShaCompute ==
  /\ host.at = "init" /\ pc = "loop"
  /\ IF InitIsDone
       THEN /\ Begin(<<Cmd("sha_compute", host.message)>>, "none", "sleep")
            /\ host' = [host EXCEPT !.at = "compute"]
       ELSE /\ host' = [host EXCEPT !.at = "exited"]
            /\ UNCHANGED <<pc, job, idle, chip, channel, stored, told, quiet>>

\* The script may be killed at any point; the firmware does not notice.
Kill ==
  /\ host.at \in {"init", "compute"}
  /\ host' = NoHost
  /\ UNCHANGED <<pc, job, idle, chip, channel, stored, told, quiet>>

-----------------------------------------------------------------------------
(* Serving a request *)

\* The result of wakeup is looked at by the display of the config zone only.
Wake ==
  /\ pc = "wake"
  /\ \/ chip' = Woken(chip) /\ pc' = (IF job.todo = <<>> THEN "dismiss" ELSE "call")
        /\ UNCHANGED <<quiet, outcome>>
     \/ /\ Fault /\ chip' \in {chip, Woken(chip)}
        /\ IF job.todo = <<>> \/ job.display = "config"
             THEN pc' = "dismiss" /\ outcome' = "none"
             ELSE pc' = "call" /\ UNCHANGED outcome
  /\ UNCHANGED <<job, idle, host, attempts, effects, answer, stored, told>>

Call ==
  /\ pc = "call"
  /\ pc' = "send"
  /\ attempts' = 0 /\ effects' = 0 /\ outcome' = "none" /\ answer' = NoAnswer
  /\ UNCHANGED <<job, idle, host, chip, stored, told, quiet>>

\* The chip carries the command out, or refuses it.
Executed(c) ==
  \/ /\ chip.tempKey.kind \in Needs(c)
     /\ \E key \in Results(chip.tempKey, c) :
          /\ answer' = [verdict |-> "done", about |-> key]
          /\ \E kept \in Kept(key, c) : chip' = [chip EXCEPT !.tempKey = kept]
     /\ effects' = effects + 1
  \/ /\ chip.tempKey.kind \notin Needs(c) \/ c.name = "other"
     /\ answer' = [verdict |-> "refused", about |-> NoKey]
     /\ chip' \in {chip, [chip EXCEPT !.tempKey = NoKey]}
     /\ UNCHANGED effects

\* mutant: there is no end of attempts
MaySendForever == TRUE

MaySend == attempts < Attempts

Send ==
  /\ pc = "send" /\ MaySend
  /\ attempts' = attempts + 1
  /\ \/ /\ chip.power = "awake" /\ Executed(job.todo[1])
        /\ pc' = "listen" /\ UNCHANGED quiet
     \/ /\ IF chip.power = "awake" THEN Fault ELSE UNCHANGED quiet
        /\ answer' = NoAnswer
        /\ pc' = "resync" /\ UNCHANGED <<chip, effects>>
  /\ UNCHANGED <<job, idle, host, outcome, stored, told>>

GiveUp ==
  /\ pc = "send" /\ ~MaySend
  /\ outcome' = "failed" /\ pc' = "report"
  /\ UNCHANGED <<job, idle, host, chip, attempts, effects, answer, stored, told, quiet>>

Listen ==
  /\ pc = "listen"
  /\ \/ outcome' = answer.verdict /\ pc' = "report" /\ UNCHANGED quiet
     \/ Fault /\ pc' = "resync" /\ UNCHANGED outcome
  /\ UNCHANGED <<job, idle, host, chip, attempts, effects, answer, stored, told>>

\* resync finds the chip awake and has it repeat its answer (or the command is
\* sent again), puts it to sleep and wakes it as far as the chip hears that, or
\* fails.
Resync ==
  /\ pc = "resync"
  /\ \/ chip' = chip /\ answer # NoAnswer /\ pc' = "listen" /\ UNCHANGED outcome
     \/ /\ chip' \in {chip, Woken(chip)}
                       \cup (IF chip.power = "awake" THEN {Asleep, Woken(Asleep)} ELSE {})
        /\ \/ pc' = "send" /\ UNCHANGED outcome
           \/ pc' = "report" /\ outcome' = "failed"
  /\ UNCHANGED <<job, idle, host, attempts, effects, answer, stored, told, quiet>>

\* What the user knows of TempKey after a command
Told(c) ==
  CASE outcome = "done" /\ c.name \in {"nonce", "sha_init"} -> answer.about
    [] outcome = "done" /\ c.name \in {"gen_dig", "sha_compute"} /\ told # NoKey ->
         [told EXCEPT !.parts = Append(@, c.arg)]
    [] OTHER -> NoKey

\* mutant: a failed read does not end the series
EndsNever == Len(job.todo) = 1

\* The first failure ends a series of reads.
Ends == Len(job.todo) = 1 \/ (job.display # "none" /\ outcome # "done")

\* serialNumber copies all blocks but the first before it looks at the result.
Report ==
  /\ pc = "report"
  /\ told' = Told(job.todo[1])
  /\ stored' = IF job.display # "none" /\ (outcome = "done" \/ (job.display = "serial" /\ stored # <<>>))
                 THEN Append(stored, outcome) ELSE stored
  /\ job' = [job EXCEPT !.todo = Tail(@)]
  /\ pc' = IF Ends THEN "dismiss" ELSE "call"
  /\ UNCHANGED <<idle, host, chip, channel, quiet>>

\* idle or sleep; then the script, if it waits for it, is sent the answer.
Dismiss ==
  /\ pc = "dismiss"
  /\ pc' = "loop"
  /\ \/ chip' = Dismissed(job.after) /\ UNCHANGED quiet
     \/ UNCHANGED chip /\ Fault
  /\ told' = IF job.after = "sleep" THEN NoKey ELSE told
  /\ host' = IF host.at # "compute" THEN host
             ELSE IF outcome = "done" THEN [host EXCEPT !.at = "printed", !.digest = answer.about.parts]
             ELSE [host EXCEPT !.at = "exited"]
  /\ UNCHANGED <<job, idle, channel, stored>>

\* The watchdog puts the chip to sleep.
Doze ==
  /\ chip.power # "sleep" /\ Fault
  /\ chip' = Asleep
  /\ UNCHANGED <<pc, job, idle, host, channel, stored, told>>

-----------------------------------------------------------------------------

Typed ==
  \/ TypeNonce \/ TypeGenDig \/ TypeMac \/ TypeHmac \/ TypeOther \/ TypeWake \/ TypeSha
  \/ TypeSerial \/ TypeConfig \/ SwitchIdle
Script == ScriptOther \/ ShaInit \/ ShaCompute \/ Kill
Firmware == Wake \/ Call \/ Send \/ GiveUp \/ Listen \/ Resync \/ Report \/ Dismiss

Next == Typed \/ Script \/ Firmware \/ Doze

Spec == Init /\ [][Next]_vars

-----------------------------------------------------------------------------
(* Properties *)

\* s has the parts in their order, each of them once or more, as often as a command
\* may be attempted: part i stands from after ends[i - 1] to ends[i].
Repeats(s, parts, n) ==
  \E ends \in [0..Len(parts) -> 0..Len(s)] :
    /\ ends[0] = 0 /\ ends[Len(parts)] = Len(s)
    /\ \A i \in 1..Len(parts) :
         /\ ends[i] - ends[i - 1] \in 1..n
         /\ \A j \in (ends[i - 1] + 1)..ends[i] : s[j] = parts[i]

\* What the user believes a command is computed from, when it reports success
Expected ==
  LET c == job.todo[1] IN
    IF c.name = "mac" THEN told.parts ELSE Append(told.parts, c.arg)

UsesKey == pc = "report" /\ told # NoKey /\ job.todo[1].name \in {"gen_dig", "mac", "sha_compute"}

(***************************************************************************)
(* A command that uses TempKey and reports success has used what the       *)
(* results told the user is in it: the same nonce, the same keys in the    *)
(* same order, though a key may have been mixed in once per attempt. If    *)
(* resync put the chip to sleep, which clears TempKey, or an earlier       *)
(* session left its own there, the command fails instead.                  *)
(***************************************************************************)
UsedAsTold ==
  UsesKey /\ outcome = "done" =>
    answer.about.kind = told.kind /\ Repeats(answer.about.parts, Expected, Attempts)

(***************************************************************************)
(* As long as nothing went wrong on the bus since TempKey was loaded, a    *)
(* command that uses it succeeds and has used exactly what the user was    *)
(* told: no request in between (the chip idles) loses or changes it.       *)
(***************************************************************************)
QuietSession ==
  UsesKey /\ quiet /\ told.kind \in Needs(job.todo[1]) =>
    outcome = "done" /\ answer.about.parts = Expected

(***************************************************************************)
(* The digest the script prints is that of its message, hashed once per    *)
(* attempt at most (and once if nothing went wrong); whatever was computed *)
(* in the chip before, and whatever its first half came to.                *)
(***************************************************************************)
DigestOfMessage ==
  host.at = "printed" =>
    /\ Repeats(host.digest, <<host.message>>, Attempts)
    /\ quiet => host.digest = <<host.message>>

(***************************************************************************)
(* serialNumber and the display of the config zone report success only if  *)
(* every part they show was read (whatever a failed call leaves behind).   *)
(***************************************************************************)
ReportedWhole ==
  pc = "dismiss" /\ job.display # "none" /\ outcome = "done" =>
    stored = [i \in 1..Blocks |-> "done"]
=============================================================================
