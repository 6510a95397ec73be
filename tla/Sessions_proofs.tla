--------------------------- MODULE Sessions_proofs ---------------------------
(***************************************************************************)
(* Sessions at the prompt and from scripts, for any number of attempts,    *)
(* blocks, keys and messages: what is reported, what a session without     *)
(* faults is worth, and what is left of it with them.                      *)
(***************************************************************************)
EXTENDS Sessions, SequenceTheorems, TLAPS

Busy == {"send", "listen", "resync"}
Serving == {"call", "report"} \cup Busy

\* An answer that was given has been asked for.
Asked ==
  /\ pc = "report" => outcome # "none"
  /\ pc \in Busy => /\ answer = NoAnswer \/ answer.verdict # "none"
                    /\ answer.verdict = "done" => effects > 0
                    /\ answer.verdict = "refused" => attempts > 0

\* A series of reads: what is stored and what is still to be read make up the whole.
Series ==
  job.display # "none" =>
    /\ pc = "wake" => stored = <<>>
    /\ pc \in Serving \cup {"wake"} =>
         /\ Len(stored) + Len(job.todo) = Blocks
         /\ \A i \in 1..Len(stored) : stored[i] = "done"

\* The script has the message it hashes.
HasMessage == host.at \in {"init", "compute"} => host.message \in Messages

Inv == TypeOK /\ Asked /\ Series /\ HasMessage /\ ReportedWhole

-----------------------------------------------------------------------------

\* The commands are commands, and what is appended to TempKey is a part.
LEMMA CommandFacts ==
  /\ \A name \in {"nonce", "sha_init", "mac", "other"} : Cmd(name, NoArg) \in Commands
  /\ \A k \in Keys : Cmd("gen_dig", k) \in Commands
  /\ \A m \in Messages : Cmd("sha_compute", m) \in Commands
  /\ \A c \in Commands : c.name \in {"gen_dig", "sha_compute"} => c.arg \in Parts
  BY DEF Commands, Cmd, Parts

\* .. and so are requests of one command, of two, and of none.
LEMMA RequestsOfCommands ==
  /\ <<>> \in Seq(Commands)
  /\ \A c \in Commands : <<c>> \in Seq(Commands)
  /\ \A c, d \in Commands : <<c, d>> \in Seq(Commands)
  OBVIOUS

\* A key with one more part is a key.
LEMMA KeyExtended ==
  ASSUME NEW key \in TempKeys, NEW p \in Parts
  PROVE  [key EXCEPT !.parts = Append(@, p)] \in TempKeys
<1>1. Append(key.parts, p) \in Seq(Parts)
  BY DEF TempKeys
<1>2. QED BY <1>1 DEF TempKeys

LEMMA KeysOfKinds ==
  /\ NoKey \in TempKeys
  /\ \A n \in Nonces : [kind |-> "nonce", parts |-> <<n>>] \in TempKeys
  /\ [kind |-> "sha", parts |-> <<>>] \in TempKeys
  BY DEF NoKey, TempKeys, Parts

LEMMA ResultsAreKeys ==
  ASSUME NEW key \in TempKeys, NEW c \in Commands
  PROVE  Results(key, c) \subseteq TempKeys
<1>1. CASE c.name = "nonce"
  BY <1>1, KeysOfKinds DEF Results
<1>2. CASE c.name = "sha_init"
  BY <1>2, KeysOfKinds DEF Results
<1>3. CASE c.name \in {"gen_dig", "sha_compute"}
  BY <1>3, KeyExtended, CommandFacts DEF Results
<1>4. CASE c.name \notin {"nonce", "sha_init", "gen_dig", "sha_compute"}
  BY <1>4 DEF Results
<1>5. QED BY <1>1, <1>2, <1>3, <1>4

LEMMA InvInit == Init => Inv
<1> SUFFICES ASSUME Init PROVE Inv
  OBVIOUS
<1>1. TypeOK
  <2>1. job \in [todo : Seq(Commands), display : {"none", "serial", "config"}, after : {"idle", "sleep"}]
    BY DEF Init, NoJob
  <2>2. host \in [at : {"none", "init", "compute", "printed", "exited"},
                  message : Messages \cup {NoArg}, digest : Seq(Parts)]
    BY DEF Init, NoHost
  <2>3. chip \in [power : {"awake", "idle", "sleep"}, tempKey : TempKeys] /\ told \in TempKeys
    BY KeysOfKinds DEF Init
  <2>4. answer \in [verdict : {"none", "done", "refused"}, about : TempKeys]
    BY KeysOfKinds DEF Init, NoAnswer
  <2>5. attempts \in 0..Attempts /\ effects \in 0..attempts /\ stored \in Seq({"done", "refused", "failed"})
    BY SessionsAssumption DEF Init
  <2>6. QED
    BY <2>1, <2>2, <2>3, <2>4, <2>5 DEF Init, TypeOK
<1>2. QED
  BY <1>1 DEF Init, Inv, Asked, Series, HasMessage, NoHost, ReportedWhole, NoJob, NoAnswer, Busy, Serving

-----------------------------------------------------------------------------

\* A request begins: nothing is stored yet, and all its reads are ahead.
LEMMA BeginKeeps ==
  ASSUME Inv, NEW todo \in Seq(Commands), NEW display \in {"none", "serial", "config"},
         NEW after \in {"idle", "sleep"}, Begin(todo, display, after),
         display # "none" => Len(todo) = Blocks,
         host' \in [at : {"none", "init", "compute", "printed", "exited"},
                    message : Messages \cup {NoArg}, digest : Seq(Parts)],
         HasMessage'
  PROVE  Inv'
<1>1. job' \in [todo : Seq(Commands), display : {"none", "serial", "config"}, after : {"idle", "sleep"}]
  BY DEF Begin
<1>2. pc' = "wake" /\ stored' = <<>> /\ quiet' \in BOOLEAN /\ UNCHANGED <<idle, chip, channel, told>>
  BY DEF Begin, Inv, TypeOK
<1>3. TypeOK'
  <2>1. stored' \in Seq({"done", "refused", "failed"})
    BY <1>2
  <2>2. QED BY <1>1, <1>2, <2>1 DEF Inv, TypeOK, channel
<1>4. Series'
  BY <1>2 DEF Begin, Series, Serving, Busy
<1>5. QED
  BY <1>2, <1>3, <1>4 DEF Inv, Asked, ReportedWhole, Busy

LEMMA TypedKeeps ==
  ASSUME Inv, Typed PROVE Inv'
<1>1. ASSUME NEW todo \in Seq(Commands), NEW display \in {"none", "serial", "config"},
             display # "none" => Len(todo) = Blocks, Type(todo, display)
      PROVE  Inv'
  <2>1. host' \in [at : {"none", "init", "compute", "printed", "exited"},
                   message : Messages \cup {NoArg}, digest : Seq(Parts)] /\ HasMessage'
    BY <1>1 DEF Type, NoHost, HasMessage
  <2>2. QED BY <1>1, <2>1, BeginKeeps DEF Type
<1>2. Reads \in Seq(Commands) /\ Len(Reads) = Blocks
  BY CommandFacts, SessionsAssumption DEF Reads
<1>3. CASE TypeNonce \/ TypeMac \/ TypeHmac \/ TypeOther \/ TypeWake
  BY <1>3, <1>1, CommandFacts, RequestsOfCommands DEF TypeNonce, TypeMac, TypeHmac, TypeOther, TypeWake
<1>4. CASE TypeGenDig
  BY <1>4, <1>1, CommandFacts, RequestsOfCommands DEF TypeGenDig
<1>5. CASE TypeSha
  BY <1>5, <1>1, CommandFacts, RequestsOfCommands DEF TypeSha
<1>6. CASE TypeSerial \/ TypeConfig
  BY <1>6, <1>1, <1>2 DEF TypeSerial, TypeConfig
<1>7. CASE SwitchIdle
  BY <1>7 DEF SwitchIdle, channel, Inv, TypeOK, Asked, Series, HasMessage, ReportedWhole, Busy, Serving
<1>8. QED
  BY <1>3, <1>4, <1>5, <1>6, <1>7 DEF Typed

LEMMA ScriptKeeps ==
  ASSUME Inv, Script PROVE Inv'
<1> DEFINE Hosts == [at : {"none", "init", "compute", "printed", "exited"},
                     message : Messages \cup {NoArg}, digest : Seq(Parts)]
<1>1. NoHost \in Hosts /\ \A m \in Messages : [at |-> "init", message |-> m, digest |-> <<>>] \in Hosts
  BY DEF NoHost
<1>2. host \in Hosts
  BY DEF Inv, TypeOK
<1>3. CASE ScriptOther
  <2>1. PICK name \in {"mac", "other"} : Begin(<<Cmd(name, NoArg)>>, "none", "sleep")
    BY <1>3 DEF ScriptOther
  <2>2. host' \in Hosts /\ HasMessage'
    BY <1>1, <1>3 DEF ScriptOther, HasMessage, NoHost
  <2>3. <<Cmd(name, NoArg)>> \in Seq(Commands)
    BY CommandFacts, RequestsOfCommands
  <2>4. QED BY <2>1, <2>2, <2>3, BeginKeeps
<1>4. CASE ShaInit
  <2>1. host' \in Hosts /\ HasMessage'
    BY <1>1, <1>4 DEF ShaInit, HasMessage
  <2>2. <<Cmd("sha_init", NoArg)>> \in Seq(Commands)
    BY CommandFacts, RequestsOfCommands
  <2>3. QED BY <1>4, <2>1, <2>2, BeginKeeps DEF ShaInit
<1>5. CASE ShaCompute
  <2>1. host' \in Hosts /\ HasMessage' /\ host.message \in Messages
    BY <1>2, <1>5 DEF ShaCompute, HasMessage, Inv
  <2>2. CASE InitIsDone
    <3>1. <<Cmd("sha_compute", host.message)>> \in Seq(Commands)
      BY <2>1, CommandFacts, RequestsOfCommands
    <3>2. QED BY <1>5, <2>1, <2>2, <3>1, BeginKeeps DEF ShaCompute
  <2>3. CASE ~InitIsDone
    <3>1. UNCHANGED <<pc, job, idle, chip, channel, stored, told, quiet>>
      BY <1>5, <2>3 DEF ShaCompute
    <3>2. TypeOK'
      BY <2>1, <3>1 DEF channel, Inv, TypeOK
    <3>3. QED
      BY <2>1, <3>1, <3>2 DEF channel, Inv, Asked, Series, ReportedWhole, Busy, Serving
  <2>4. QED BY <2>2, <2>3
<1>6. CASE Kill
  BY <1>1, <1>6 DEF Kill, channel, Inv, TypeOK, Asked, Series, HasMessage, NoHost, ReportedWhole, Busy, Serving
<1>7. QED BY <1>3, <1>4, <1>5, <1>6 DEF Script

\* Waking the chip, putting it to sleep or to idle, and running a command on it leave it a chip.
LEMMA ChipKept ==
  ASSUME TypeOK
  PROVE  LET Chips == {c \in [power : {"awake", "idle", "sleep"}, tempKey : TempKeys] :
                         c.power = "sleep" => c.tempKey = NoKey}
         IN /\ chip \in Chips /\ Woken(chip) \in Chips /\ Asleep \in Chips /\ Woken(Asleep) \in Chips
            /\ \A token \in {"idle", "sleep"} : Dismissed(token) \in Chips
            /\ chip.power = "awake" => \A key \in TempKeys : [chip EXCEPT !.tempKey = key] \in Chips
  BY KeysOfKinds DEF TypeOK, Woken, Asleep, Dismissed

LEMMA WakeKeeps == Inv /\ Wake => Inv'
<1> SUFFICES ASSUME Inv, Wake PROVE Inv'
  OBVIOUS
<1>1. /\ chip' \in {chip, Woken(chip)} /\ quiet' \in BOOLEAN
      /\ UNCHANGED <<job, idle, host, attempts, effects, answer, stored, told>>
      /\ \/ pc' = "call" /\ job.todo # <<>> /\ UNCHANGED outcome
         \/ pc' = "dismiss" /\ (job.todo = <<>> \/ outcome' = "none") /\ outcome' \in {outcome, "none"}
  BY DEF Wake, Fault, Inv, TypeOK
<1>2. job.display # "none" => job.todo # <<>>
  BY SessionsAssumption DEF Wake, Inv, Series
<1>3. TypeOK'
  BY <1>1, ChipKept DEF Inv, TypeOK
<1>4. QED
  BY <1>1, <1>2, <1>3 DEF Wake, Inv, Asked, Series, HasMessage, ReportedWhole, Busy, Serving

LEMMA CallKeeps == Inv /\ Call => Inv'
<1> SUFFICES ASSUME Inv, Call PROVE Inv'
  OBVIOUS
<1>1. answer' \in [verdict : {"none", "done", "refused"}, about : TempKeys]
  BY KeysOfKinds DEF Call, NoAnswer
<1>2. TypeOK'
  BY <1>1, SessionsAssumption DEF Call, Inv, TypeOK
<1>3. QED
  BY <1>2 DEF Call, Inv, Asked, Series, HasMessage, ReportedWhole, Busy, Serving, NoAnswer

LEMMA SendKeeps == Inv /\ Send => Inv'
<1> SUFFICES ASSUME Inv, Send PROVE Inv'
  OBVIOUS
<1>1. /\ pc = "send" /\ job.todo # <<>> /\ job.todo \in Seq(Commands) /\ job.todo[1] \in Commands
      /\ UNCHANGED <<job, idle, host, outcome, stored, told>>
      /\ attempts \in 0..(Attempts - 1) /\ attempts' = attempts + 1
      /\ effects \in 0..attempts /\ quiet' \in BOOLEAN
  <2>1. pc = "send" /\ job.todo # <<>> /\ job.todo \in Seq(Commands)
    BY DEF Send, Inv, TypeOK
  <2>2. job.todo[1] \in Commands
    BY <2>1
  <2>3. /\ attempts \in 0..(Attempts - 1) /\ attempts' = attempts + 1 /\ effects \in 0..attempts
        /\ UNCHANGED <<job, idle, host, outcome, stored, told>>
    BY SessionsAssumption DEF Send, MaySend, Inv, TypeOK
  <2>4. quiet' \in BOOLEAN
    BY DEF Send, Fault, Inv, TypeOK
  <2>5. QED BY <2>1, <2>2, <2>3, <2>4
<1>2. CASE chip.power = "awake" /\ Executed(job.todo[1]) /\ pc' = "listen"
  <2>1. chip.tempKey \in TempKeys /\ Results(chip.tempKey, job.todo[1]) \subseteq TempKeys
    BY <1>1, ResultsAreKeys DEF Inv, TypeOK
  <2>2. /\ answer' \in [verdict : {"done", "refused"}, about : TempKeys]
        /\ effects' \in {effects, effects + 1} /\ (answer'.verdict = "done" => effects' = effects + 1)
        /\ \E key \in TempKeys : chip' \in {chip, [chip EXCEPT !.tempKey = key]}
    <3>1. CASE /\ chip.tempKey.kind \in Needs(job.todo[1])
               /\ \E key \in Results(chip.tempKey, job.todo[1]) :
                     /\ answer' = [verdict |-> "done", about |-> key]
                     /\ \E kept \in Kept(key, job.todo[1]) : chip' = [chip EXCEPT !.tempKey = kept]
               /\ effects' = effects + 1
      <4>1. PICK key \in TempKeys :
              /\ answer' = [verdict |-> "done", about |-> key]
              /\ \E kept \in Kept(key, job.todo[1]) : chip' = [chip EXCEPT !.tempKey = kept]
        BY <2>1, <3>1
      <4>2. Kept(key, job.todo[1]) \subseteq TempKeys
        BY KeysOfKinds DEF Kept
      <4>3. QED BY <3>1, <4>1, <4>2
    <3>2. CASE /\ answer' = [verdict |-> "refused", about |-> NoKey]
               /\ chip' \in {chip, [chip EXCEPT !.tempKey = NoKey]}
               /\ UNCHANGED effects
      BY <3>2, KeysOfKinds
    <3>3. QED BY <1>2, <3>1, <3>2 DEF Executed
  <2>3. TypeOK'
    <3>1. chip' \in [power : {"awake", "idle", "sleep"}, tempKey : TempKeys] /\ (chip'.power = "sleep" => chip'.tempKey = NoKey)
      BY <1>2, <2>2, ChipKept DEF Inv
    <3>2. QED BY SMTT(60), <1>1, <1>2, <2>2, <3>1, SessionsAssumption DEF Inv, TypeOK
  <2>4. Asked'
    BY <1>1, <1>2, <2>2, SessionsAssumption DEF Asked, Busy
  <2>5. QED
    BY <1>1, <1>2, <2>3, <2>4 DEF Inv, Series, HasMessage, ReportedWhole, Busy, Serving
<1>3. CASE answer' = NoAnswer /\ pc' = "resync" /\ UNCHANGED <<chip, effects>>
  <2>1. answer' \in [verdict : {"none", "done", "refused"}, about : TempKeys] /\ answer'.verdict = "none"
    BY <1>3, KeysOfKinds DEF NoAnswer
  <2>2. TypeOK'
    BY <1>1, <1>3, <2>1, SessionsAssumption DEF Inv, TypeOK
  <2>3. QED
    BY <1>1, <1>3, <2>1, <2>2 DEF Inv, Asked, Series, HasMessage, ReportedWhole, Busy, Serving
<1>4. QED BY <1>2, <1>3 DEF Send

LEMMA AnswerKeeps == Inv /\ (GiveUp \/ Listen \/ Resync) => Inv'
<1> SUFFICES ASSUME Inv, GiveUp \/ Listen \/ Resync PROVE Inv'
  OBVIOUS
<1>1. /\ pc \in Busy /\ pc' \in {"send", "listen", "resync", "report"}
      /\ UNCHANGED <<job, idle, host, attempts, effects, answer, stored, told>>
      /\ outcome' \in {outcome, "done", "refused", "failed"} /\ quiet' \in BOOLEAN
      /\ pc' = "report" => outcome' # "none"
      /\ pc' = "listen" => answer.verdict # "none"
    BY DEF GiveUp, Listen, Resync, Busy, Fault, Inv, TypeOK, Asked
<1>2. chip' \in {chip, Woken(chip), Asleep, Woken(Asleep)}
  BY DEF GiveUp, Listen, Resync
<1>3. TypeOK'
  <2>1. chip' \in [power : {"awake", "idle", "sleep"}, tempKey : TempKeys] /\ (chip'.power = "sleep" => chip'.tempKey = NoKey)
    BY <1>2, ChipKept DEF Inv
  <2>2. job.todo # <<>>
    BY <1>1 DEF Inv, TypeOK, Busy
  <2>3. QED BY <1>1, <2>1, <2>2 DEF Inv, TypeOK
<1>4. QED
  BY <1>1, <1>3 DEF Inv, Asked, Series, HasMessage, ReportedWhole, Busy, Serving

LEMMA DismissKeeps == Inv /\ (Dismiss \/ Doze) => Inv'
<1> SUFFICES ASSUME Inv, Dismiss \/ Doze PROVE Inv'
  OBVIOUS
<1>1. /\ pc' \in {pc, "loop"} /\ (Dismiss => pc' = "loop") /\ (Doze => pc' = pc)
      /\ UNCHANGED <<job, idle, channel, stored>>
      /\ quiet' \in BOOLEAN /\ told' \in TempKeys
  BY KeysOfKinds DEF Dismiss, Doze, Fault, Inv, TypeOK, channel
<1>2. chip' \in [power : {"awake", "idle", "sleep"}, tempKey : TempKeys] /\ (chip'.power = "sleep" => chip'.tempKey = NoKey)
  <2>1. job.after \in {"idle", "sleep"}
    BY DEF Inv, TypeOK
  <2>2. QED BY <2>1, ChipKept DEF Dismiss, Doze, Inv
<1>3. /\ host' \in [at : {"none", "init", "compute", "printed", "exited"},
                    message : Messages \cup {NoArg}, digest : Seq(Parts)]
      /\ HasMessage'
  <2>1. answer.about.parts \in Seq(Parts)
    BY DEF Inv, TypeOK, TempKeys
  <2>2. CASE Dismiss
    <3>1. CASE host.at # "compute"
      <4>1. host' = host
        BY <2>2, <3>1 DEF Dismiss
      <4>2. QED BY <4>1 DEF Inv, TypeOK, HasMessage
    <3>2. CASE host.at = "compute" /\ outcome = "done"
      <4>1. host' = [host EXCEPT !.at = "printed", !.digest = answer.about.parts]
        BY <2>2, <3>2 DEF Dismiss
      <4>2. QED BY <2>1, <4>1 DEF Inv, TypeOK, HasMessage
    <3>3. CASE host.at = "compute" /\ outcome # "done"
      <4>1. host' = [host EXCEPT !.at = "exited"]
        BY <2>2, <3>3 DEF Dismiss
      <4>2. QED BY <4>1 DEF Inv, TypeOK, HasMessage
    <3>4. QED BY <3>1, <3>2, <3>3
  <2>3. CASE Doze
    BY <2>3 DEF Doze, Inv, TypeOK, HasMessage
  <2>4. QED BY <2>2, <2>3
<1>4. TypeOK'
  BY <1>1, <1>2, <1>3 DEF Inv, TypeOK, channel
<1>5. QED
  BY <1>1, <1>3, <1>4 DEF Inv, Asked, Series, ReportedWhole, Busy, Serving, channel

\* What is told of TempKey is a key.
LEMMA ToldIsKey ==
  ASSUME TypeOK, NEW c \in Commands
  PROVE  Told(c) \in TempKeys
<1>1. CASE outcome = "done" /\ c.name \in {"nonce", "sha_init"}
  BY <1>1 DEF Told, TypeOK
<1>2. CASE outcome = "done" /\ c.name \in {"gen_dig", "sha_compute"} /\ told # NoKey
  <2>1. Told(c) = [told EXCEPT !.parts = Append(@, c.arg)]
    BY <1>2 DEF Told
  <2>2. told \in TempKeys /\ c.arg \in Parts
    BY <1>2, CommandFacts DEF TypeOK
  <2>3. QED BY <2>1, <2>2, KeyExtended
<1>3. CASE ~(outcome = "done" /\ c.name \in {"nonce", "sha_init"})
           /\ ~(outcome = "done" /\ c.name \in {"gen_dig", "sha_compute"} /\ told # NoKey)
  BY <1>3, KeysOfKinds DEF Told
<1>4. QED BY <1>1, <1>2, <1>3

\* A command of a request is over: a read that was done brings the series one
\* further, one that was not ends it, and the last one makes it whole.
LEMMA ReportKeeps == Inv /\ Report => Inv'
<1> SUFFICES ASSUME Inv, Report PROVE Inv'
  OBVIOUS
<1> DEFINE done == job.display # "none" /\ (outcome = "done" \/ (job.display = "serial" /\ stored # <<>>))
<1>1. /\ pc = "report" /\ job.todo # <<>> /\ job.todo \in Seq(Commands) /\ job.todo[1] \in Commands
      /\ outcome \in {"done", "refused", "failed"} /\ stored \in Seq({"done", "refused", "failed"})
  <2>1. pc = "report" /\ job.todo # <<>> /\ job.todo \in Seq(Commands) /\ outcome \in {"done", "refused", "failed"}
    BY DEF Report, Inv, TypeOK, Asked
  <2>2. QED BY <2>1 DEF Inv, TypeOK
<1>2. /\ told' = Told(job.todo[1]) /\ job' = [job EXCEPT !.todo = Tail(@)]
      /\ stored' = (IF done THEN Append(stored, outcome) ELSE stored)
      /\ pc' = (IF Ends THEN "dismiss" ELSE "call")
      /\ UNCHANGED <<idle, host, chip, attempts, effects, outcome, answer, quiet>>
  BY DEF Report, channel
<1>3. /\ Tail(job.todo) \in Seq(Commands) /\ Len(Tail(job.todo)) = Len(job.todo) - 1
      /\ Len(job.todo) \in Nat \ {0} /\ Len(stored) \in Nat
  BY <1>1
<1>4. /\ job'.todo = Tail(job.todo) /\ job'.display = job.display
      /\ job' \in [todo : Seq(Commands), display : {"none", "serial", "config"}, after : {"idle", "sleep"}]
  BY <1>2, <1>3 DEF Inv, TypeOK
<1>5. pc' = "call" => job'.todo # <<>> /\ (job.display # "none" => outcome = "done")
  <2>1. ASSUME pc' = "call" PROVE Len(job.todo) # 1 /\ (job.display # "none" => outcome = "done")
    BY <1>2, <2>1 DEF Ends
  <2>2. ASSUME pc' = "call" PROVE Len(job'.todo) # 0
    BY <1>3, <1>4, <2>1, <2>2
  <2>3. job'.todo = <<>> => Len(job'.todo) = 0
    OBVIOUS
  <2>4. QED BY <2>1, <2>2, <2>3
<1>6. stored' \in Seq({"done", "refused", "failed"})
  BY <1>1, <1>2
<1>7. TypeOK'
  <2>1. told' \in TempKeys
    BY <1>1, <1>2, ToldIsKey DEF Inv
  <2>2. QED BY <1>2, <1>4, <1>5, <1>6, <2>1 DEF Inv, TypeOK
<1>8. job.display # "none" /\ outcome = "done" =>
        /\ Len(stored') + Len(job'.todo) = Blocks
        /\ \A i \in 1..Len(stored') : stored'[i] = "done"
  <2> SUFFICES ASSUME job.display # "none", outcome = "done"
               PROVE  /\ Len(stored') + Len(job'.todo) = Blocks
                      /\ \A i \in 1..Len(stored') : stored'[i] = "done"
    OBVIOUS
  <2>1. stored' = Append(stored, "done")
    BY <1>2
  <2>2. Len(stored) + Len(job.todo) = Blocks /\ \A i \in 1..Len(stored) : stored[i] = "done"
    BY <1>1 DEF Inv, Series, Serving
  <2>3. Len(stored') = Len(stored) + 1
    BY <1>1, <2>1
  <2>4. \A i \in 1..Len(stored') : stored'[i] = "done"
    <3>1. \A i \in 1..(Len(stored) + 1) :
            Append(stored, "done")[i] = IF i = Len(stored) + 1 THEN "done" ELSE stored[i]
      BY <1>1
    <3>2. \A i \in 1..(Len(stored) + 1) : i # Len(stored) + 1 => i \in 1..Len(stored)
      BY <1>3
    <3>3. QED BY <2>1, <2>2, <2>3, <3>1, <3>2
  <2>5. Len(job'.todo) = Len(job.todo) - 1
    BY <1>3, <1>4
  <2>6. Len(stored') + Len(job'.todo) = Blocks
    <3>1. \A a, b \in Nat : a + b = Blocks => (a + 1) + (b - 1) = Blocks
      BY SessionsAssumption
    <3>2. Len(stored) \in Nat /\ Len(job.todo) \in Nat
      BY <1>3
    <3>3. QED BY <2>2, <2>3, <2>5, <3>1, <3>2, Zenon
  <2>7. QED BY <2>4, <2>6
<1>9. Series'
  BY <1>2, <1>4, <1>5, <1>8 DEF Series, Serving, Busy
<1>10. ReportedWhole'
  <2> SUFFICES ASSUME pc' = "dismiss", job.display # "none", outcome = "done"
               PROVE  stored' = [i \in 1..Blocks |-> "done"]
    BY <1>2, <1>4 DEF ReportedWhole
  <2>1. Len(job.todo) = 1
    BY <1>2 DEF Ends
  <2>2. Len(stored') = Blocks
    BY <1>3, <1>4, <1>6, <1>8, <2>1, SessionsAssumption
  <2>3. QED BY <1>6, <1>8, <2>2
<1>11. QED
  BY <1>2, <1>7, <1>9, <1>10 DEF Inv, Asked, HasMessage, Busy

LEMMA InvNext == Inv /\ [Next]_vars => Inv'
<1> SUFFICES ASSUME Inv, [Next]_vars PROVE Inv'
  OBVIOUS
<1>1. CASE UNCHANGED vars
  BY <1>1 DEF vars, channel, Inv, TypeOK, Asked, Series, HasMessage, ReportedWhole, Busy, Serving
<1>2. QED
  BY <1>1, TypedKeeps, ScriptKeeps, WakeKeeps, CallKeeps, SendKeeps, AnswerKeeps, ReportKeeps, DismissKeeps
    DEF Next, Firmware

LEMMA Invariance == Spec => []Inv
  BY InvInit, InvNext, PTL DEF Spec

-----------------------------------------------------------------------------

\* TempKey, the request and the rest keep their types.
THEOREM TypeCorrect == Spec => []TypeOK
<1>1. Inv => TypeOK
  BY DEF Inv
<1>2. QED BY <1>1, Invariance, PTL

\* However many blocks there are and however reads fail: success means all of them.
THEOREM WholeReported == Spec => []ReportedWhole
<1>1. Inv => ReportedWhole
  BY DEF Inv
<1>2. QED BY <1>1, Invariance, PTL

-----------------------------------------------------------------------------
(* A session in which nothing goes wrong                                     *)

Loaders == {"nonce", "sha_init"}
Users == {"gen_dig", "mac", "sha_compute"}
Extended(c) == [told EXCEPT !.parts = Append(@, c.arg)]

\* What the chip has answered to the command under way, from what TempKey was told to be
Answered ==
  LET c == job.todo[1] IN
  /\ c.name \in Loaders => answer.verdict = "done" /\ chip.tempKey = answer.about
  /\ told # NoKey /\ c.name \in Users =>
       IF told.kind \in Needs(c)
         THEN /\ answer.verdict = "done"
              /\ IF c.name = "mac" THEN answer.about = told
                 ELSE answer.about = Extended(c) /\ chip.tempKey = answer.about
         ELSE answer.verdict = "refused"

\* Without a fault there is no second attempt, the chip is awake while it is needed, and
\* TempKey is what the results tell, except while it is being loaded anew.
QuietInv ==
  quiet =>
    /\ pc # "resync"
    /\ pc \in {"call", "send", "listen", "report"} => chip.power = "awake"
    /\ pc = "send" => attempts = 0
    /\ pc = "report" => outcome = answer.verdict
    /\ told # NoKey /\ pc \in {"loop", "dismiss"} => chip.tempKey = told
    /\ (told # NoKey /\ pc \in {"wake", "call", "send"}
          /\ (job.todo = <<>> \/ job.todo[1].name \notin Loaders)) => chip.tempKey = told
    /\ pc \in {"listen", "report"} => Answered

LEMMA QuietInit == Init => QuietInv
  BY DEF Init, QuietInv

LEMMA QuietBegin ==
  ASSUME QuietInv, NEW todo, NEW display, NEW after, Begin(todo, display, after)
  PROVE  QuietInv'
<1>1. pc = "loop" /\ pc' = "wake" /\ job'.todo = todo /\ UNCHANGED <<chip, told>>
  BY DEF Begin
<1>2. quiet' => quiet \/ (todo # <<>> /\ todo[1].name \in Loaders)
  BY DEF Begin, Loaders
<1>3. QED BY <1>1, <1>2 DEF QuietInv

\* The chip is awake, has what it was told to have, and answers at once.
LEMMA QuietSend == Inv /\ QuietInv /\ Send => QuietInv'
<1> SUFFICES ASSUME Inv, QuietInv, Send, quiet' PROVE QuietInv'
  BY DEF QuietInv
<1> DEFINE c == job.todo[1]
<1>1. /\ quiet /\ chip.power = "awake" /\ pc' = "listen" /\ Executed(c)
      /\ UNCHANGED <<job, told, outcome>>
      /\ told # NoKey /\ c.name \notin Loaders => chip.tempKey = told
  <2>1. quiet
    BY DEF Send, Fault, Inv, TypeOK
  <2>2. chip.power = "awake"
    BY <2>1 DEF Send, QuietInv
  <2>3. Executed(c) /\ pc' = "listen"
    BY <2>2 DEF Send, Fault
  <2>4. QED BY <2>1, <2>2, <2>3 DEF Send, QuietInv
<1>2. chip \in [power : {"awake", "idle", "sleep"}, tempKey : TempKeys] /\ chip.tempKey.kind \in {"none", "nonce", "sha"}
  BY DEF Inv, TypeOK, TempKeys
<1>3. CASE c.name \in Loaders
  <2>1. Needs(c) = {"none", "nonce", "sha"} /\ c.name # "other"
    BY <1>3 DEF Needs, Loaders
  <2>2. PICK key \in Results(chip.tempKey, c) :
          /\ answer' = [verdict |-> "done", about |-> key]
          /\ \E kept \in Kept(key, c) : chip' = [chip EXCEPT !.tempKey = kept]
    BY <1>1, <1>2, <2>1 DEF Executed
  <2>3. Kept(key, c) = {key}
    BY <1>3 DEF Kept, Loaders
  <2>4. chip'.power = "awake" /\ chip'.tempKey = key
    BY <1>1, <1>2, <2>2, <2>3
  <2>5. Answered'
    BY <1>1, <1>3, <2>2, <2>4 DEF Answered, Loaders, Users
  <2>6. QED BY <1>1, <2>4, <2>5 DEF QuietInv
<1>4. CASE c.name \in Users
  <2>1. CASE chip.tempKey.kind \in Needs(c)
    <3>1. PICK key \in Results(chip.tempKey, c) :
            /\ answer' = [verdict |-> "done", about |-> key]
            /\ \E kept \in Kept(key, c) : chip' = [chip EXCEPT !.tempKey = kept]
      BY <1>1, <1>4, <2>1 DEF Executed, Users
    <3>2. chip'.power = "awake"
      BY <1>1, <1>2, <3>1
    <3>3. CASE c.name = "mac"
      <4>1. key = chip.tempKey
        BY <3>1, <3>3 DEF Results
      <4>2. Answered'
        BY <1>1, <2>1, <3>1, <3>3, <4>1 DEF Answered, Loaders, Users
      <4>3. QED BY <1>1, <3>2, <4>2 DEF QuietInv
    <3>4. CASE c.name # "mac"
      <4>1. key = [chip.tempKey EXCEPT !.parts = Append(@, c.arg)] /\ Kept(key, c) = {key}
        BY <1>4, <3>1, <3>4 DEF Results, Kept, Users
      <4>2. chip'.tempKey = key
        BY <1>2, <3>1, <4>1
      <4>3. told # NoKey => key = Extended(c)
        BY <1>1, <1>4, <4>1 DEF Loaders, Users, Extended
      <4>4. Answered'
        BY <1>1, <1>4, <2>1, <3>1, <3>4, <4>2, <4>3 DEF Answered, Loaders, Users, Extended
      <4>5. QED BY <1>1, <3>2, <4>4 DEF QuietInv
    <3>5. QED BY <3>3, <3>4
  <2>2. CASE chip.tempKey.kind \notin Needs(c)
    <3>1. answer' = [verdict |-> "refused", about |-> NoKey] /\ chip' \in {chip, [chip EXCEPT !.tempKey = NoKey]}
      BY <1>1, <2>2 DEF Executed
    <3>2. chip'.power = "awake"
      BY <1>1, <1>2, <3>1
    <3>3. told # NoKey => told.kind \notin Needs(c)
      BY <1>1, <1>4, <2>2 DEF Loaders, Users
    <3>4. Answered'
      BY <1>1, <1>4, <3>1, <3>3 DEF Answered, Loaders, Users
    <3>5. QED BY <1>1, <3>2, <3>4 DEF QuietInv
  <2>3. QED BY <2>1, <2>2
<1>5. CASE c.name \notin Loaders \cup Users
  <2>1. Answered'
    BY <1>1, <1>5 DEF Answered
  <2>2. chip'.power = "awake"
    BY <1>1, <1>2 DEF Executed
  <2>3. QED BY <1>1, <2>1, <2>2 DEF QuietInv
<1>6. QED BY <1>3, <1>4, <1>5

\* What is told from then on is what the chip has.
LEMMA QuietReport == Inv /\ QuietInv /\ Report => QuietInv'
<1> SUFFICES ASSUME Inv, QuietInv, Report, quiet' PROVE QuietInv'
  BY DEF QuietInv
<1> DEFINE c == job.todo[1]
<1>1. /\ quiet /\ Answered /\ chip.power = "awake" /\ outcome = answer.verdict
      /\ told' = Told(c) /\ chip' = chip /\ pc' \in {"dismiss", "call"}
  BY DEF Report, QuietInv
<1>2. Told(c) # NoKey => chip.tempKey = Told(c)
  <2>1. CASE outcome = "done" /\ c.name \in Loaders
    BY <1>1, <2>1 DEF Told, Loaders, Answered
  <2>2. CASE outcome = "done" /\ c.name \in {"gen_dig", "sha_compute"} /\ told # NoKey
    BY <1>1, <2>2 DEF Told, Answered, Users, Extended
  <2>3. CASE ~(outcome = "done" /\ c.name \in Loaders)
             /\ ~(outcome = "done" /\ c.name \in {"gen_dig", "sha_compute"} /\ told # NoKey)
    BY <2>3 DEF Told, Loaders
  <2>4. QED BY <2>1, <2>2, <2>3
<1>3. QED BY <1>1, <1>2 DEF QuietInv

LEMMA QuietNext == Inv /\ QuietInv /\ [Next]_vars => QuietInv'
<1> SUFFICES ASSUME Inv, QuietInv, [Next]_vars PROVE QuietInv'
  OBVIOUS
<1>1. CASE Typed \/ Script
  <2>1. CASE \E todo, display, after : Begin(todo, display, after)
    BY <2>1, QuietBegin
  <2>2. CASE UNCHANGED <<pc, job, chip, channel, told, quiet>>
    BY <2>2 DEF QuietInv, Answered, Extended, channel
  <2>3. QED
    BY <1>1, <2>1, <2>2
      DEF Typed, Type, TypeNonce, TypeGenDig, TypeMac, TypeHmac, TypeOther, TypeWake, TypeSha, TypeSerial,
          TypeConfig, SwitchIdle, Script, ScriptOther, ShaInit, ShaCompute, Kill
<1>2. CASE Wake
  <2>1. CASE quiet'
    <3>1. /\ quiet /\ pc = "wake" /\ chip' = Woken(chip) /\ pc' = (IF job.todo = <<>> THEN "dismiss" ELSE "call")
          /\ UNCHANGED <<job, told>>
      BY <1>2, <2>1 DEF Wake, Fault
    <3>2. chip'.power = "awake" /\ chip'.tempKey = chip.tempKey
      BY <3>1 DEF Woken, Inv, TypeOK
    <3>3. QED BY <3>1, <3>2 DEF QuietInv
  <2>2. QED BY <2>1 DEF QuietInv
<1>3. CASE Call
  BY <1>3 DEF Call, QuietInv
<1>4. CASE GiveUp \/ Resync
  <2>1. quiet' = quiet /\ pc \in {"send", "resync"}
    BY <1>4 DEF GiveUp, Resync
  <2>2. CASE quiet
    <3>1. GiveUp /\ attempts = 0
      BY <1>4, <2>1, <2>2 DEF Resync, QuietInv
    <3>2. ~MaySend
      BY <3>1 DEF GiveUp
    <3>3. QED BY <3>1, <3>2, SessionsAssumption DEF MaySend
  <2>3. CASE ~quiet
    BY <2>1, <2>3 DEF QuietInv
  <2>4. QED BY <2>2, <2>3
<1>5. CASE Listen
  BY <1>5 DEF Listen, Fault, QuietInv, Answered, Extended
<1>6. CASE Dismiss
  <2>1. CASE quiet'
    <3>1. quiet /\ pc = "dismiss" /\ pc' = "loop" /\ chip' = Dismissed(job.after)
      BY <1>6, <2>1 DEF Dismiss, Fault
    <3>2. told' # NoKey => told' = told /\ job.after # "sleep"
      BY <1>6 DEF Dismiss
    <3>3. job.after # "sleep" => chip'.tempKey = chip.tempKey
      BY <3>1 DEF Dismissed, Inv, TypeOK
    <3>4. QED BY <3>1, <3>2, <3>3 DEF QuietInv
  <2>2. QED BY <2>1 DEF QuietInv
<1>7. CASE Doze
  BY <1>7 DEF Doze, Fault, QuietInv
<1>8. CASE UNCHANGED vars
  BY <1>8 DEF vars, channel, QuietInv, Answered, Extended
<1>9. QED
  BY <1>1, <1>2, <1>3, <1>4, <1>5, <1>6, <1>7, <1>8, QuietSend, QuietReport DEF Next, Firmware

\* Whatever was asked in between, if nothing went wrong since TempKey was loaded: commands
\* succeed and are computed from what the user was told.
THEOREM QuietIsExact == Spec => []QuietSession
<1>1. Inv /\ QuietInv => QuietSession
  <2> SUFFICES ASSUME Inv, QuietInv, UsesKey, quiet, told.kind \in Needs(job.todo[1])
               PROVE  outcome = "done" /\ answer.about.parts = Expected
    BY DEF QuietSession
  <2>1. Answered /\ outcome = answer.verdict /\ told # NoKey /\ job.todo[1].name \in Users
    BY DEF QuietInv, UsesKey, Users
  <2>2. told \in TempKeys
    BY DEF Inv, TypeOK
  <2>3. QED BY <2>1, <2>2 DEF Answered, Extended, Expected, TempKeys
<1>2. QED BY <1>1, Invariance, QuietInit, QuietNext, PTL DEF Spec

-----------------------------------------------------------------------------
(* Repetitions                                                               *)

\* A sequence, followed by a part k times
Then(base, p, k) == [i \in 1..(Len(base) + k) |-> IF i <= Len(base) THEN base[i] ELSE p]

\* Each part once is a repetition of the parts.
LEMMA RepeatsItself ==
  ASSUME NEW s \in Seq(Parts), NEW n \in Nat \ {0}
  PROVE  Repeats(s, s, n)
<1> DEFINE N == Len(s)
           ends == [i \in 0..N |-> i]
<1>0. N \in Nat
  OBVIOUS
<1> HIDE DEF N
<1>1. ends \in [0..N -> 0..N] /\ ends[0] = 0 /\ ends[N] = N
  BY <1>0
<1>2. \A i \in 0..N : ends[i] = i
  OBVIOUS
<1> HIDE DEF ends
<1>3. ASSUME NEW i \in 1..N
      PROVE  /\ ends[i] - ends[i - 1] \in 1..n
             /\ \A j \in (ends[i - 1] + 1)..ends[i] : s[j] = s[i]
  <2>1. ends[i] = i /\ ends[i - 1] = i - 1
    BY <1>0, <1>2
  <2>2. QED BY <1>0, <2>1
<1>4. QED BY <1>1, <1>3 DEF Repeats, N

LEMMA ThenFacts ==
  ASSUME NEW p \in Parts, NEW k \in Nat, NEW base \in Seq(Parts)
  PROVE  /\ Then(base, p, k) \in Seq(Parts) /\ Len(Then(base, p, k)) = Len(base) + k
         /\ \A i \in 1..(Len(base) + k) :
              Then(base, p, k)[i] = IF i <= Len(base) THEN base[i] ELSE p
  BY DEF Then

LEMMA ThenNothing ==
  ASSUME NEW p \in Parts, NEW base \in Seq(Parts)
  PROVE  Then(base, p, 0) = base
<1>1. Then(base, p, 0) \in Seq(Parts) /\ Len(Then(base, p, 0)) = Len(base) /\ Len(base) \in Nat
  BY SMTT(60), ThenFacts
<1>2. \A i \in 1..Len(base) : Then(base, p, 0)[i] = base[i]
  <2>1. \A i \in 1..(Len(base) + 0) :
          Then(base, p, 0)[i] = IF i <= Len(base) THEN base[i] ELSE p
    BY ThenFacts
  <2>2. QED BY <1>1, <2>1
<1>3. QED BY <1>1, <1>2, SeqEqual

LEMMA ThenOnceMore ==
  ASSUME NEW p \in Parts, NEW k \in Nat, NEW base \in Seq(Parts)
  PROVE  Append(Then(base, p, k), p) = Then(base, p, k + 1)
<1> DEFINE s == Then(base, p, k)
           t == Then(base, p, k + 1)
<1>1. s \in Seq(Parts) /\ Len(s) = Len(base) + k /\ Len(base) \in Nat
      /\ \A i \in 1..(Len(base) + k) : s[i] = IF i <= Len(base) THEN base[i] ELSE p
  <2>1. Len(base) \in Nat
    OBVIOUS
  <2>2. QED BY <2>1, ThenFacts
<1>2. t \in Seq(Parts) /\ Len(t) = Len(base) + k + 1
      /\ \A i \in 1..(Len(base) + k + 1) : t[i] = IF i <= Len(base) THEN base[i] ELSE p
  <2>1. k + 1 \in Nat /\ Len(base) + (k + 1) = Len(base) + k + 1
    BY <1>1
  <2>2. QED BY ZenonT(60), <2>1, ThenFacts
<1> HIDE DEF s, t
<1>3. /\ Append(s, p) \in Seq(Parts) /\ Len(Append(s, p)) = Len(s) + 1
      /\ \A i \in 1..Len(s) : Append(s, p)[i] = s[i]
      /\ Append(s, p)[Len(s) + 1] = p
  BY <1>1
<1>4. Len(Append(s, p)) = Len(t)
  BY <1>1, <1>2, <1>3
<1>5. \A i \in 1..Len(t) : Append(s, p)[i] = t[i]
  BY SMTT(60), <1>1, <1>2, <1>3
<1>6. Append(s, p) = t
  BY <1>2, <1>3, <1>4, <1>5, SeqEqual
<1>7. QED BY <1>6 DEF s, t

\* A repetition, then another part up to n times, is a repetition.
LEMMA RepeatsLonger ==
  ASSUME NEW base \in Seq(Parts), NEW parts \in Seq(Parts), NEW p \in Parts,
         NEW n \in Nat, NEW k \in 1..n, Repeats(base, parts, n)
  PROVE  Repeats(Then(base, p, k), Append(parts, p), n)
<1> DEFINE s == Then(base, p, k)
           longer == Append(parts, p)
           N == Len(parts)
           B == Len(base)
<1>1. PICK ends \in [0..N -> 0..B] :
        /\ ends[0] = 0 /\ ends[N] = B
        /\ \A i \in 1..N :
             /\ ends[i] - ends[i - 1] \in 1..n
             /\ \A j \in (ends[i - 1] + 1)..ends[i] : base[j] = parts[i]
  BY DEF Repeats
<1>2. /\ N \in Nat /\ B \in Nat /\ k \in Nat
      /\ Len(longer) = N + 1 /\ longer[N + 1] = p /\ \A i \in 1..N : longer[i] = parts[i]
  OBVIOUS
<1>3. Len(s) = B + k /\ \A i \in 1..(B + k) : s[i] = IF i <= B THEN base[i] ELSE p
  <2>1. k \in Nat
    OBVIOUS
  <2>2. QED BY <2>1, ThenFacts
<1> DEFINE e == [i \in 0..(N + 1) |-> IF i = N + 1 THEN B + k ELSE ends[i]]
<1> HIDE DEF s, longer, N, B
<1>4. e \in [0..(N + 1) -> 0..(B + k)]
  BY <1>1, <1>2
<1>5. e[0] = 0 /\ e[N + 1] = B + k /\ \A i \in 0..N : e[i] = ends[i]
  BY <1>1, <1>2
<1> HIDE DEF e
<1>6. ASSUME NEW i \in 1..(N + 1)
      PROVE  /\ e[i] - e[i - 1] \in 1..n
             /\ \A j \in (e[i - 1] + 1)..e[i] : s[j] = longer[i]
  <2>1. CASE i = N + 1
    <3>1. e[i] = B + k /\ e[i - 1] = B
      BY <1>1, <1>2, <1>5, <2>1
    <3>2. \A j \in (B + 1)..(B + k) : s[j] = p
      BY <1>2, <1>3
    <3>3. (B + k) - B \in 1..n /\ longer[i] = p
      BY <1>2, <2>1
    <3>4. QED BY <3>1, <3>2, <3>3
  <2>2. CASE i # N + 1
    <3>1. i \in 1..N /\ i - 1 \in 0..N /\ i \in 0..N
      BY <1>2, <2>2
    <3>2. e[i] = ends[i] /\ e[i - 1] = ends[i - 1] /\ ends[i] \in 0..B /\ ends[i - 1] \in 0..B
      BY <1>1, <1>5, <3>1
    <3>3. ASSUME NEW j \in (ends[i - 1] + 1)..ends[i]
          PROVE  s[j] = longer[i]
      <4> DEFINE from == ends[i - 1]
                 to == ends[i]
      <4>0. from \in Nat /\ to \in Nat /\ to <= B /\ B \in Nat /\ k \in Nat
        BY SMTT(60), <1>2, <3>2
      <4> HIDE DEF from, to
      <4>4. j \in (from + 1)..to
        BY DEF from, to
      <4>1. j \in 1..(B + k) /\ j <= B
        BY <4>0, <4>4
      <4>2. base[j] = parts[i] /\ longer[i] = parts[i]
        BY <1>1, <1>2, <3>1
      <4>3. QED BY <1>3, <4>1, <4>2
    <3>4. ends[i] - ends[i - 1] \in 1..n
      BY <1>1, <3>1
    <3>5. QED BY <3>2, <3>3, <3>4
  <2>3. QED BY <2>1, <2>2
<1>7. \E f \in [0..Len(longer) -> 0..Len(s)] :
        /\ f[0] = 0 /\ f[Len(longer)] = Len(s)
        /\ \A i \in 1..Len(longer) :
             /\ f[i] - f[i - 1] \in 1..n
             /\ \A j \in (f[i - 1] + 1)..f[i] : s[j] = longer[i]
  BY <1>2, <1>3, <1>4, <1>5, <1>6
<1>8. QED BY <1>7 DEF Repeats, s, longer

-----------------------------------------------------------------------------
(* A session in which anything goes wrong                                    *)

Mixers == {"gen_dig", "sha_compute"}
ShaBegun == [kind |-> "sha", parts |-> <<>>]

\* A key that is from, its parts perhaps repeated; and one with p mixed in k times as well.
Follows(key, from) == key.kind = from.kind /\ Repeats(key.parts, from.parts, Attempts)
Mixed(key, from, p, k) ==
  /\ key.kind = from.kind
  /\ \E base \in Seq(Parts) :
       Repeats(base, from.parts, Attempts) /\ key.parts = Then(base, p, k)
With(key, p) == [key EXCEPT !.parts = Append(@, p)]

LEMMA FollowsItself ==
  ASSUME NEW key \in TempKeys PROVE Follows(key, key)
<1>1. key.parts \in Seq(Parts) /\ Attempts \in Nat \ {0}
  BY SessionsAssumption DEF TempKeys
<1>2. QED BY <1>1, RepeatsItself DEF Follows

LEMMA MixingBegins ==
  ASSUME NEW key \in TempKeys, NEW from, NEW p \in Parts, Follows(key, from)
  PROVE  Mixed(key, from, p, 0)
<1>1. key.parts \in Seq(Parts)
  BY DEF TempKeys
<1>2. Then(key.parts, p, 0) = key.parts
  BY <1>1, ThenNothing
<1>3. QED BY <1>1, <1>2 DEF Mixed, Follows

LEMMA MixedAgain ==
  ASSUME NEW key \in TempKeys, NEW from, NEW p \in Parts, NEW k \in Nat, Mixed(key, from, p, k)
  PROVE  Mixed(With(key, p), from, p, k + 1)
<1>1. PICK base \in Seq(Parts) :
        Repeats(base, from.parts, Attempts) /\ key.parts = Then(base, p, k)
  BY DEF Mixed
<1>2. Append(key.parts, p) = Then(base, p, k + 1)
  BY <1>1, ThenOnceMore
<1>3. With(key, p).kind = key.kind /\ With(key, p).parts = Append(key.parts, p)
  BY DEF With, TempKeys
<1>4. QED BY <1>1, <1>2, <1>3 DEF Mixed

LEMMA MixedFollows ==
  ASSUME NEW key, NEW from \in TempKeys, NEW p \in Parts, NEW k \in 1..Attempts,
         Mixed(key, from, p, k)
  PROVE  Follows(key, With(from, p))
<1>1. PICK base \in Seq(Parts) :
        Repeats(base, from.parts, Attempts) /\ key.parts = Then(base, p, k)
  BY DEF Mixed
<1>2. from.parts \in Seq(Parts) /\ Attempts \in Nat
  BY SessionsAssumption DEF TempKeys
<1>3. Repeats(key.parts, Append(from.parts, p), Attempts)
  BY <1>1, <1>2, RepeatsLonger
<1>4. With(from, p).kind = from.kind /\ With(from, p).parts = Append(from.parts, p)
  BY DEF With, TempKeys
<1>5. QED BY <1>3, <1>4 DEF Mixed, Follows

\* What a mixing command leaves in TempKey, and what it answers to
Mixing(p) ==
  /\ chip.tempKey = NoKey \/ \E k \in 0..effects : Mixed(chip.tempKey, told, p, k)
  /\ answer.verdict = "done" => \E k \in 1..effects : Mixed(answer.about, told, p, k)

\* What is in TempKey, if anything, is what was told; during a command, that and what the
\* attempts so far have made of it.
AsTold ==
  told # NoKey =>
    /\ pc \in {"loop", "wake", "call", "dismiss"} =>
         chip.tempKey = NoKey \/ Follows(chip.tempKey, told)
    /\ pc \in Busy \cup {"report"} =>
         /\ job.todo[1].name \in Mixers => Mixing(job.todo[1].arg)
         /\ job.todo[1].name = "mac" =>
              /\ chip.tempKey = NoKey \/ Follows(chip.tempKey, told)
              /\ answer.verdict = "done" => Follows(answer.about, told)

\* TempKey is what the last answer was about, or it is lost.
InChip ==
  /\ pc \in Busy \cup {"report"} /\ answer.verdict = "done" =>
       /\ chip.tempKey = NoKey \/ chip.tempKey = answer.about
       /\ job.todo[1].name = "sha_init" => answer.about = ShaBegun
  /\ pc = "report" /\ outcome = "done" => answer.verdict = "done"

\* The script that hashes: what its two requests are, and what it knows between them.
ForScript ==
  /\ host.at = "init" =>
       /\ pc \in Serving \cup {"wake"} =>
            job.todo = <<Cmd("sha_init", NoArg)>> /\ job.display = "none"
       /\ pc # "loop" => job.after = "idle"
       /\ pc \in {"dismiss", "loop"} /\ outcome = "done" => told = ShaBegun
  /\ host.at = "compute" =>
       /\ pc # "loop"
       /\ pc # "dismiss" => /\ job.todo = <<Cmd("sha_compute", host.message)>>
                            /\ job.display = "none" /\ told = ShaBegun
       /\ pc = "dismiss" /\ outcome = "done" =>
            /\ Repeats(answer.about.parts, <<host.message>>, Attempts)
            /\ quiet => answer.about.parts = <<host.message>>

TellingInv == AsTold /\ InChip

LEMMA TellingInit == Init => TellingInv
  BY DEF Init, TellingInv, AsTold, InChip, Busy

LEMMA TellingCall == Inv /\ TellingInv /\ Call => TellingInv'
<1> SUFFICES ASSUME Inv, TellingInv, Call PROVE TellingInv'
  OBVIOUS
<1> DEFINE c == job.todo[1]
<1>1. /\ pc = "call" /\ pc' = "send" /\ effects' = 0 /\ answer' = NoAnswer
      /\ UNCHANGED <<chip, told, job>>
  BY DEF Call
<1>2. c \in Commands /\ chip.tempKey \in TempKeys
  BY <1>1 DEF Inv, TypeOK
<1>3. told # NoKey => chip.tempKey = NoKey \/ Follows(chip.tempKey, told)
  BY <1>1 DEF TellingInv, AsTold
<1>4. answer'.verdict = "none"
  BY <1>1 DEF NoAnswer
<1>5. told # NoKey /\ c.name \in Mixers =>
        chip.tempKey = NoKey \/ \E k \in 0..0 : Mixed(chip.tempKey, told, c.arg, k)
  BY <1>2, <1>3, MixingBegins, CommandFacts DEF Mixers
<1>6. told # NoKey /\ c.name \in Mixers => Mixing(c.arg)'
  BY <1>1, <1>4, <1>5 DEF Mixing
<1>7. QED
  BY <1>1, <1>3, <1>4, <1>6 DEF TellingInv, AsTold, InChip, Busy

LEMMA TellingSend == Inv /\ TellingInv /\ Send => TellingInv'
<1> SUFFICES ASSUME Inv, TellingInv, Send PROVE TellingInv'
  OBVIOUS
<1> DEFINE c == job.todo[1]
           key == chip.tempKey
<1>1. /\ pc = "send" /\ pc' \in {"listen", "resync"} /\ UNCHANGED <<job, told>>
      /\ \/ Executed(c)
         \/ answer' = NoAnswer /\ UNCHANGED <<chip, effects>>
  BY DEF Send
<1>2. c \in Commands /\ key \in TempKeys /\ told \in TempKeys /\ effects \in Nat
      /\ chip \in [power : {"awake", "idle", "sleep"}, tempKey : TempKeys]
  BY <1>1, SessionsAssumption DEF Inv, TypeOK
<1>3. /\ told # NoKey /\ c.name \in Mixers =>
           /\ key = NoKey \/ \E k \in 0..effects : Mixed(key, told, c.arg, k)
      /\ told # NoKey /\ c.name = "mac" => key = NoKey \/ Follows(key, told)
  BY <1>1 DEF TellingInv, AsTold, Mixing, Busy
<1>4. CASE answer' = NoAnswer /\ UNCHANGED <<chip, effects>>
  <2>1. answer'.verdict = "none"
    BY <1>4 DEF NoAnswer
  <2>2. told # NoKey /\ c.name \in Mixers => Mixing(c.arg)'
    BY <1>1, <1>3, <1>4, <2>1 DEF Mixing
  <2>3. QED BY <1>1, <1>3, <1>4, <2>1, <2>2 DEF TellingInv, AsTold, InChip, Busy
<1>5. CASE /\ key.kind \in Needs(c)
           /\ \E result \in Results(key, c) :
                /\ answer' = [verdict |-> "done", about |-> result]
                /\ \E kept \in Kept(result, c) : chip' = [chip EXCEPT !.tempKey = kept]
           /\ effects' = effects + 1
  <2>1. PICK result \in Results(key, c) :
          /\ answer' = [verdict |-> "done", about |-> result]
          /\ \E kept \in Kept(result, c) : chip' = [chip EXCEPT !.tempKey = kept]
    BY <1>5
  <2>2. chip'.tempKey = NoKey \/ chip'.tempKey = result
    BY <1>2, <2>1 DEF Kept
  <2>3. InChip'
    BY <1>1, <2>1, <2>2 DEF InChip, Results, ShaBegun
  <2>4. ASSUME told # NoKey, c.name \in Mixers
        PROVE  Mixing(c.arg)'
    <3>1. result = With(key, c.arg)
      BY <2>1, <2>4 DEF Results, Mixers, With
    <3>2. key # NoKey
      BY <1>5, <2>4 DEF Needs, Mixers, NoKey
    <3>3. PICK k \in 0..effects : Mixed(key, told, c.arg, k)
      BY <1>3, <2>4, <3>2
    <3>4. Mixed(result, told, c.arg, k + 1)
      BY <1>2, <2>4, <3>1, <3>3, MixedAgain, CommandFacts DEF Mixers
    <3>5. k + 1 \in 1..effects' /\ k + 1 \in 0..effects'
      BY <1>2, <1>5, <3>3
    <3>6. QED BY <1>1, <2>1, <2>2, <3>4, <3>5 DEF Mixing
  <2>5. ASSUME told # NoKey, c.name = "mac"
        PROVE  Follows(result, told)
    <3>1. result = key
      BY <2>1, <2>5 DEF Results
    <3>2. key # NoKey
      BY <1>5, <2>5 DEF Needs, NoKey
    <3>3. QED BY <1>3, <2>5, <3>1, <3>2
  <2>6. AsTold'
    BY <1>1, <2>1, <2>2, <2>4, <2>5 DEF AsTold, Busy
  <2>7. QED BY <2>3, <2>6 DEF TellingInv
<1>6. CASE /\ answer' = [verdict |-> "refused", about |-> NoKey]
           /\ chip' \in {chip, [chip EXCEPT !.tempKey = NoKey]}
           /\ UNCHANGED effects
  <2>1. chip'.tempKey = key \/ chip'.tempKey = NoKey
    BY <1>2, <1>6
  <2>2. told # NoKey /\ c.name \in Mixers => Mixing(c.arg)'
    BY <1>1, <1>3, <1>6, <2>1 DEF Mixing
  <2>3. QED BY <1>1, <1>3, <1>6, <2>1, <2>2 DEF TellingInv, AsTold, InChip, Busy
<1>7. QED BY <1>1, <1>4, <1>5, <1>6 DEF Executed

\* While an answer is waited for, the chip at most loses TempKey.
LEMMA TellingListen ==
  Inv /\ TellingInv /\ (GiveUp \/ Listen \/ Resync \/ Doze) => TellingInv'
<1> SUFFICES ASSUME Inv, TellingInv, GiveUp \/ Listen \/ Resync \/ Doze PROVE TellingInv'
  OBVIOUS
<1>1. /\ pc' = pc \/ (pc \in Busy /\ pc' \in Busy \cup {"report"})
      /\ UNCHANGED <<job, effects, answer, told>>
      /\ pc' = "report" /\ outcome' = "done" /\ pc # "report" => answer.verdict = "done"
      /\ pc' = pc => outcome' = outcome
    BY DEF GiveUp, Listen, Resync, Doze, Busy, channel, NoAnswer
<1>2. chip'.tempKey = chip.tempKey \/ chip'.tempKey = NoKey
  BY DEF GiveUp, Listen, Resync, Doze, Asleep, Woken, Inv, TypeOK
<1>3. \A p : Mixing(p) => Mixing(p)'
  BY <1>1, <1>2 DEF Mixing
<1>4. AsTold'
  BY <1>1, <1>2, <1>3 DEF TellingInv, AsTold, Busy
<1>5. InChip'
  BY <1>1, <1>2 DEF TellingInv, InChip, Busy
<1>6. QED BY <1>4, <1>5 DEF TellingInv

\* From the report on the user knows of the command.
LEMMA TellingReport == Inv /\ TellingInv /\ Report => TellingInv'
<1> SUFFICES ASSUME Inv, TellingInv, Report PROVE TellingInv'
  OBVIOUS
<1> DEFINE c == job.todo[1]
<1>1. pc = "report" /\ pc' \in {"dismiss", "call"} /\ told' = Told(c) /\ UNCHANGED chip
  BY DEF Report
<1>2. c \in Commands /\ told \in TempKeys /\ effects \in 0..Attempts /\ answer.about \in TempKeys
  BY <1>1, SessionsAssumption DEF Inv, TypeOK
<1>3. outcome = "done" =>
        answer.verdict = "done" /\ (chip.tempKey = NoKey \/ chip.tempKey = answer.about)
  BY <1>1 DEF TellingInv, InChip
<1>4. told' # NoKey => chip.tempKey = NoKey \/ Follows(chip.tempKey, told')
  <2>1. CASE outcome = "done" /\ c.name \in {"nonce", "sha_init"}
    <3>1. told' = answer.about
      BY <1>1, <2>1 DEF Told
    <3>2. QED BY <1>2, <1>3, <2>1, <3>1, FollowsItself
  <2>2. CASE outcome = "done" /\ c.name \in Mixers /\ told # NoKey
    <3>1. told' = With(told, c.arg)
      BY <1>1, <2>2 DEF Told, Mixers, With
    <3>2. PICK k \in 1..effects : Mixed(answer.about, told, c.arg, k)
      BY <1>1, <1>3, <2>2 DEF TellingInv, AsTold, Mixing
    <3>3. Follows(answer.about, told')
      BY <1>2, <2>2, <3>1, <3>2, MixedFollows, CommandFacts, SessionsAssumption DEF Mixers
    <3>4. QED BY <1>3, <2>2, <3>3
  <2>3. CASE ~(outcome = "done" /\ c.name \in {"nonce", "sha_init"})
             /\ ~(outcome = "done" /\ c.name \in Mixers /\ told # NoKey)
    BY <1>1, <2>3 DEF Told, Mixers
  <2>4. QED BY <2>1, <2>2, <2>3
<1>5. QED BY <1>1, <1>4 DEF TellingInv, AsTold, InChip, Busy

LEMMA TellingNext == Inv /\ TellingInv /\ [Next]_vars => TellingInv'
<1> SUFFICES ASSUME Inv, TellingInv, [Next]_vars PROVE TellingInv'
  OBVIOUS
<1>1. CASE Typed \/ Script
  <2>1. CASE \E todo, display, after : Begin(todo, display, after)
    <3>1. pc = "loop" /\ pc' = "wake" /\ UNCHANGED <<chip, told>>
      BY <2>1 DEF Begin
    <3>2. QED BY <3>1 DEF TellingInv, AsTold, InChip, Busy
  <2>2. CASE UNCHANGED <<pc, job, chip, channel, told>>
    BY <2>2 DEF TellingInv, AsTold, InChip, Mixing, channel
  <2>3. QED
    BY <1>1, <2>1, <2>2
      DEF Typed, Type, TypeNonce, TypeGenDig, TypeMac, TypeHmac, TypeOther, TypeWake, TypeSha,
          TypeSerial, TypeConfig, SwitchIdle, Script, ScriptOther, ShaInit, ShaCompute, Kill
<1>2. CASE Wake
  <2>1. pc = "wake" /\ pc' \in {"call", "dismiss"} /\ told' = told
    BY <1>2 DEF Wake
  <2>2. chip'.tempKey = chip.tempKey
    BY <1>2 DEF Wake, Woken, Inv, TypeOK
  <2>3. QED BY <2>1, <2>2 DEF TellingInv, AsTold, InChip, Busy
<1>3. CASE Dismiss
  <2>1. pc = "dismiss" /\ pc' = "loop" /\ (told' = told \/ told' = NoKey)
    BY <1>3 DEF Dismiss
  <2>2. chip'.tempKey = chip.tempKey \/ chip'.tempKey = NoKey
    BY <1>3 DEF Dismiss, Dismissed, Asleep, Inv, TypeOK
  <2>3. QED BY <2>1, <2>2 DEF TellingInv, AsTold, InChip, Busy
<1>4. CASE UNCHANGED vars
  BY <1>4 DEF vars, channel, TellingInv, AsTold, InChip, Mixing
<1>5. QED
  BY <1>1, <1>2, <1>3, <1>4, TellingCall, TellingSend, TellingListen, TellingReport
    DEF Next, Firmware

\* Whatever goes wrong, and however often a command is attempted: success means computed
\* from what the user was told.
THEOREM UsedIsTold == Spec => []UsedAsTold
<1>1. Inv /\ TellingInv => UsedAsTold
  <2> SUFFICES ASSUME Inv, TellingInv, UsesKey, outcome = "done"
               PROVE  Follows(answer.about, [told EXCEPT !.parts = Expected])
    <3>1. Inv => \A s : /\ [told EXCEPT !.parts = s].kind = told.kind
                      /\ [told EXCEPT !.parts = s].parts = s
      BY DEF Inv, TypeOK, TempKeys
    <3>2. QED BY <3>1 DEF UsedAsTold, Follows
  <2> DEFINE c == job.todo[1]
  <2>1. pc = "report" /\ told # NoKey /\ c.name \in Mixers \cup {"mac"} /\ answer.verdict = "done"
    BY DEF UsesKey, Mixers, TellingInv, InChip
  <2>2. c \in Commands /\ told \in TempKeys /\ effects \in 0..Attempts
    BY <2>1, SessionsAssumption DEF Inv, TypeOK
  <2>3. CASE c.name = "mac"
    <3>1. Expected = told.parts
      BY <2>3 DEF Expected
    <3>2. [told EXCEPT !.parts = told.parts] = told
      BY <2>2 DEF TempKeys
    <3>3. QED BY <2>1, <2>3, <3>1, <3>2 DEF TellingInv, AsTold
  <2>4. CASE c.name \in Mixers
    <3>1. [told EXCEPT !.parts = Expected] = With(told, c.arg)
      BY <2>2, <2>4 DEF Expected, Mixers, With
    <3>2. PICK k \in 1..effects : Mixed(answer.about, told, c.arg, k)
      BY <2>1, <2>4 DEF TellingInv, AsTold, Mixing
    <3>3. QED
      BY <2>2, <2>4, <3>1, <3>2, MixedFollows, CommandFacts, SessionsAssumption DEF Mixers
  <2>5. QED BY <2>1, <2>3, <2>4
<1>2. QED BY <1>1, Invariance, TellingInit, TellingNext, PTL DEF Spec

-----------------------------------------------------------------------------
(* The script's two halves                                                   *)

LEMMA ScriptInit == Init => ForScript
  BY DEF Init, ForScript, NoHost

\* A request other than the script's own begins.
LEMMA ScriptTyped == Inv /\ ForScript /\ (Typed \/ Script) => ForScript'
<1> SUFFICES ASSUME Inv, ForScript, Typed \/ Script PROVE ForScript'
  OBVIOUS
<1>1. CASE host' = NoHost
  BY <1>1 DEF ForScript, NoHost
<1>2. CASE ShaInit
  <2>1. /\ pc' = "wake" /\ host'.at = "init"
        /\ job' = [todo |-> <<Cmd("sha_init", NoArg)>>, display |-> "none", after |-> "idle"]
    BY <1>2 DEF ShaInit, Begin
  <2>2. QED BY <2>1 DEF ForScript
<1>3. CASE ShaCompute
  <2>1. host.at = "init" /\ pc = "loop"
    BY <1>3 DEF ShaCompute
  <2>2. CASE InitIsDone
    <3>1. /\ Begin(<<Cmd("sha_compute", host.message)>>, "none", "sleep")
          /\ host' = [host EXCEPT !.at = "compute"]
      BY <1>3, <2>2 DEF ShaCompute
    <3>2. host'.at = "compute" /\ host'.message = host.message
      BY <3>1 DEF Inv, TypeOK
    <3>3. told' = ShaBegun
      BY <2>1, <2>2, <3>1 DEF ForScript, InitIsDone, Begin
    <3>4. pc' = "wake" /\ job'.todo = <<Cmd("sha_compute", host'.message)>> /\ job'.display = "none"
      BY <3>1, <3>2 DEF Begin
    <3>5. QED BY <3>2, <3>3, <3>4 DEF ForScript
  <2>3. CASE ~InitIsDone
    <3>1. host' = [host EXCEPT !.at = "exited"]
      BY <1>3, <2>3 DEF ShaCompute
    <3>2. host'.at = "exited"
      BY <3>1 DEF Inv, TypeOK
    <3>3. QED BY <3>2 DEF ForScript
  <2>4. QED BY <2>2, <2>3
<1>4. CASE SwitchIdle
  <2>1. host'.at \notin {"init", "compute"}
    BY <1>4 DEF SwitchIdle, NoScript
  <2>2. QED BY <2>1 DEF ForScript
<1>5. QED
  BY <1>1, <1>2, <1>3, <1>4
    DEF Typed, Type, TypeNonce, TypeGenDig, TypeMac, TypeHmac, TypeOther, TypeWake, TypeSha,
        TypeSerial, TypeConfig, Script, ScriptOther, Kill

\* Its request is served.
LEMMA ScriptServed ==
  Inv /\ ForScript /\ (Wake \/ Call \/ Send \/ GiveUp \/ Listen \/ Resync \/ Doze) => ForScript'
<1> SUFFICES ASSUME Inv, ForScript, Wake \/ Call \/ Send \/ GiveUp \/ Listen \/ Resync \/ Doze
             PROVE  ForScript'
  OBVIOUS
<1>1. CASE Doze
  <2>1. UNCHANGED <<pc, job, host, outcome, answer, told>> /\ ~quiet'
    BY <1>1 DEF Doze, Fault, channel
  <2>2. QED BY <2>1 DEF ForScript
<1>2. CASE ~Doze
  <2>1. UNCHANGED <<job, host, told>>
    BY <1>2 DEF Wake, Call, Send, GiveUp, Listen, Resync
  <2>2. pc \in Serving \cup {"wake"} /\ pc' \in Serving \cup {"dismiss"}
    BY <1>2 DEF Wake, Call, Send, GiveUp, Listen, Resync, Serving, Busy
  <2>3. pc' = "dismiss" => job.todo = <<>> \/ job.display = "config"
    BY <1>2 DEF Wake, Call, Send, GiveUp, Listen, Resync
  <2>4. host.at \in {"init", "compute"} => pc' # "dismiss"
    BY <2>2, <2>3 DEF ForScript, Serving, Busy
  <2>5. QED BY <2>1, <2>2, <2>4 DEF ForScript, Serving, Busy
<1>3. QED BY <1>1, <1>2

LEMMA ScriptReport == Inv /\ QuietInv /\ TellingInv /\ ForScript /\ Report => ForScript'
<1> SUFFICES ASSUME Inv, QuietInv, TellingInv, ForScript, Report PROVE ForScript'
  OBVIOUS
<1> DEFINE c == job.todo[1]
<1>1. /\ pc = "report" /\ told' = Told(c) /\ UNCHANGED <<host, answer, outcome, quiet>>
      /\ pc' = IF Ends THEN "dismiss" ELSE "call"
  BY DEF Report, channel
<1>2. job'.after = job.after
  BY DEF Report, Inv, TypeOK
<1>3. CASE host.at = "init"
  <2>1. job.todo = <<Cmd("sha_init", NoArg)>> /\ job.after = "idle"
    BY <1>1, <1>3 DEF ForScript, Serving
  <2>2. c.name = "sha_init" /\ pc' = "dismiss"
    BY <1>1, <2>1 DEF Cmd, Ends
  <2>3. outcome = "done" => told' = ShaBegun
    BY <1>1, <2>2 DEF TellingInv, InChip, Told
  <2>4. QED BY <1>1, <1>2, <1>3, <2>1, <2>2, <2>3 DEF ForScript, Serving, Busy
<1>4. CASE host.at = "compute"
  <2>1. job.todo = <<Cmd("sha_compute", host.message)>> /\ told = ShaBegun
    BY <1>1, <1>4 DEF ForScript
  <2>2. c.name = "sha_compute" /\ c.arg = host.message /\ pc' = "dismiss" /\ told # NoKey
    BY <1>1, <2>1 DEF Cmd, Ends, ShaBegun, NoKey
  <2>3. host.message \in Parts /\ told \in TempKeys /\ effects \in 0..Attempts
    BY <1>4, SessionsAssumption DEF Inv, TypeOK, HasMessage, Parts
  <2>4. With(told, host.message).parts = <<host.message>>
    BY <2>1, <2>3 DEF With, ShaBegun
  <2>5. outcome = "done" => Repeats(answer.about.parts, <<host.message>>, Attempts)
    <3> SUFFICES ASSUME outcome = "done"
                 PROVE  Repeats(answer.about.parts, <<host.message>>, Attempts)
      OBVIOUS
    <3>1. PICK k \in 1..effects : Mixed(answer.about, told, host.message, k)
      BY <1>1, <2>2 DEF TellingInv, AsTold, InChip, Mixing, Mixers
    <3>2. Follows(answer.about, With(told, host.message))
      BY <2>3, <3>1, MixedFollows, SessionsAssumption
    <3>3. QED BY <2>4, <3>2 DEF Follows
  <2>6. outcome = "done" /\ quiet => answer.about.parts = <<host.message>>
    <3>1. quiet => Answered
      BY <1>1 DEF QuietInv
    <3>2. told.kind \in Needs(c) /\ Extended(c) = With(told, host.message)
      BY <2>1, <2>2 DEF Needs, ShaBegun, Extended, With
    <3>3. QED BY <2>2, <2>4, <3>1, <3>2 DEF Answered, Users
  <2>7. QED BY <1>1, <1>4, <2>2, <2>5, <2>6 DEF ForScript
<1>5. QED BY <1>1, <1>3, <1>4 DEF ForScript

LEMMA ScriptDismiss == Inv /\ ForScript /\ DigestOfMessage /\ Dismiss => ForScript' /\ DigestOfMessage'
<1> SUFFICES ASSUME Inv, ForScript, DigestOfMessage, Dismiss PROVE ForScript' /\ DigestOfMessage'
  OBVIOUS
<1>1. /\ pc = "dismiss" /\ pc' = "loop" /\ UNCHANGED <<job, outcome, answer>>
      /\ quiet' => quiet
      /\ told' = IF job.after = "sleep" THEN NoKey ELSE told
  BY DEF Dismiss, Fault, channel
<1>2. CASE host.at # "compute"
  <2>1. host' = host
    BY <1>2 DEF Dismiss
  <2>2. QED BY <1>1, <1>2, <2>1 DEF ForScript, DigestOfMessage, Serving, Busy
<1>3. CASE host.at = "compute" /\ outcome = "done"
  <2>1. host' = [host EXCEPT !.at = "printed", !.digest = answer.about.parts]
    BY <1>3 DEF Dismiss
  <2>2. host'.at = "printed" /\ host'.digest = answer.about.parts /\ host'.message = host.message
    BY <2>1 DEF Inv, TypeOK
  <2>3. QED BY <1>1, <1>3, <2>2 DEF ForScript, DigestOfMessage
<1>4. CASE host.at = "compute" /\ outcome # "done"
  <2>1. host' = [host EXCEPT !.at = "exited"]
    BY <1>4 DEF Dismiss
  <2>2. host'.at = "exited"
    BY <2>1 DEF Inv, TypeOK
  <2>3. QED BY <2>2 DEF ForScript, DigestOfMessage
<1>5. QED BY <1>2, <1>3, <1>4

\* A digest, once printed, is not recomputed.
LEMMA DigestKept ==
  Inv /\ DigestOfMessage /\ [Next]_vars /\ ~Dismiss => DigestOfMessage'
<1> SUFFICES ASSUME Inv, DigestOfMessage, [Next]_vars, ~Dismiss PROVE DigestOfMessage'
  OBVIOUS
<1>1. CASE host'.at # "printed"
  BY <1>1 DEF DigestOfMessage
<1>2. CASE host' = host /\ (quiet' => quiet)
  BY <1>2 DEF DigestOfMessage
<1>3. NoHost.at # "printed"
  BY DEF NoHost
<1>4. CASE Typed \/ Script
  <2>1. CASE ShaInit \/ ShaCompute
    <3>1. host'.at # "printed"
      BY <2>1 DEF ShaInit, ShaCompute, Inv, TypeOK
    <3>2. QED BY <1>1, <3>1
  <2>2. QED
    BY <1>1, <1>2, <1>3, <1>4, <2>1
      DEF Typed, Type, TypeNonce, TypeGenDig, TypeMac, TypeHmac, TypeOther, TypeWake, TypeSha,
          TypeSerial, TypeConfig, SwitchIdle, Script, ScriptOther, Kill
<1>5. CASE (Firmware /\ ~Dismiss) \/ Doze \/ UNCHANGED vars
  <2>1. host' = host /\ (quiet' => quiet)
    BY <1>5 DEF Firmware, Wake, Call, Send, GiveUp, Listen, Resync, Report, Doze, Fault, vars
  <2>2. QED BY <1>2, <2>1
<1>6. QED BY <1>4, <1>5 DEF Next

ScriptInv == ForScript /\ DigestOfMessage

LEMMA ScriptNext ==
  Inv /\ QuietInv /\ TellingInv /\ ScriptInv /\ [Next]_vars => ScriptInv'
<1> SUFFICES ASSUME Inv, QuietInv, TellingInv, ScriptInv, [Next]_vars PROVE ScriptInv'
  OBVIOUS
<1>1. UNCHANGED vars => ForScript'
  BY DEF vars, channel, ScriptInv, ForScript
<1>2. ~Dismiss => ForScript'
  BY <1>1, ScriptTyped, ScriptServed, ScriptReport DEF ScriptInv, Next, Firmware
<1>3. QED BY <1>2, DigestKept, ScriptDismiss DEF ScriptInv

\* Whatever was computed in the chip before the script's two requests or between them: the
\* digest printed is that of the message.
THEOREM DigestIsOfMessage == Spec => []DigestOfMessage
<1>1. Init => ScriptInv
  BY ScriptInit DEF Init, ScriptInv, DigestOfMessage, NoHost
<1>2. ScriptInv => DigestOfMessage
  BY DEF ScriptInv
<1>3. QED
  BY <1>1, <1>2, ScriptNext, TellingInit, TellingNext, QuietInit, QuietNext, Invariance, PTL
    DEF Spec
=============================================================================
