------------------------- MODULE BinaryMode_proofs -------------------------
(***************************************************************************)
(* Safety of the binary mode, for requests of any contents and length, any *)
(* sizes of the buffers and any number of mishaps.                         *)
(*                                                                         *)
(* The argument follows the current request, the last one sent. It is on   *)
(* the line, or being read or run, or it ran, or it will never run: this   *)
(* is Whereabouts, and it says what can be on the two lines in each case.  *)
(* It holds as long as the script has not taken another's answer; Once is  *)
(* what is left when it has. Without a broken request more is known: no    *)
(* byte can be read for anything but what it is (Unbroken), and if nothing *)
(* was lost either, what the script waits for is there (Complete).         *)
(***************************************************************************)
EXTENDS BinaryMode, SequenceTheorems, TLAPS

\* What no longer, or never, began the current request.
Strays == [kind : Kinds, starts : {FALSE}]
NoStart == toDevice \in Seq(Strays)

\* What may be said: answers to the current request, its results, what does not
\* end a transaction with its answer, and what is said when nothing goes wrong.
Own(codes) == {m \in Messages : m.mine /\ m.kind # "text" /\ m.code \in codes}
OwnWords == {Text} \cup Own({"OK", "RECEIVE_ERROR", "PARAM_ERROR", "EXECUTE_ERROR"})
ResultWords == {Text} \cup Own({"OK", "EXECUTE_ERROR"})
UnansweredWords == {m \in Messages : ~(m.mine /\ m.kind = "body")}
Overflows == board = "arduino" /\ size + 1 > SerialRoom
CalmWords ==
  {m \in Messages : /\ m.kind # "text"
                    /\ m.code = "OK" \/ (m.code = "RECEIVE_ERROR" /\ Overflows)}

OnlyText == toHost \in Seq({Text})
OwnOnly == toHost \in Seq(OwnWords)

\* The current request is being read or run.
Taken == own /\ fw \in {"count", "bytes", "run"}

\* A request has one beginning, is run once, and is answered only then.
Once ==
  /\ \A i, j \in 1..Len(toDevice) : toDevice[i].starts /\ toDevice[j].starts => i = j
  /\ runs = 1 => NoStart /\ ~Taken
  /\ Taken => NoStart
  /\ runs = 0 => toHost \in Seq(UnansweredWords)
  /\ last = "answer" => runs = 1

\* The whole request is on the line, with nothing before it.
Pending ==
  /\ fw \in {"loop", "line"} /\ runs = 0 /\ OnlyText
  /\ size >= MinPayload
  /\ Len(toDevice) = size + 2 /\ toDevice[1].kind = "frame" /\ toDevice[1].starts
  /\ \A i \in 2..Len(toDevice) : ~toDevice[i].starts

\* What is still to be read is on the line, but for what found no room.
AllThere(n) == Len(toDevice) = n \/ (Overflows /\ Len(toDevice) < n)

\* The request is being read or run.
Arriving ==
  /\ own /\ runs = 0 /\ NoStart /\ OnlyText
  /\ size >= MinPayload
  /\ \/ fw = "count" /\ AllThere(size + 1)
     \/ fw = "bytes" /\ count = size /\ AllThere(want)
     \/ fw = "run" /\ toDevice = <<>>

\* It has been answered, and nothing is left of it.
Done == fw = "loop" /\ toDevice = <<>> /\ OwnOnly

\* It went to the chip.
Ran ==
  /\ runs = 1 /\ fw = "loop" /\ toDevice = <<>>
  /\ toHost \in Seq(ResultWords)

\* It did not, and nobody can take it there any more.
Unrun == runs = 0 /\ NoStart /\ ~Taken

\* What the script sees first of a sound request that was not run: the text of the
\* prompt that took its beginning, or that it was refused.
Heralded ==
  \/ host = "status" /\ fw = "line" /\ OnlyText
  \/ host = "status" /\ toHost # <<>> /\ toHost[1] = Text
  \/ Done

\* Where the current request is while the script waits.
Whereabouts ==
  host \in Waiting /\ ~misled =>
    \/ host = "status" /\ (Pending \/ Arriving)
    \/ Ran
    \/ Unrun /\ (whole /\ ~lost => Heralded)

\* Nothing is under way when the script has its answer.
Clean ==
  host = "ready" /\ ~misled /\ last # "foreign" =>
    toDevice = <<>> /\ fw \in {"loop", "line"} /\ OnlyText

\* A request that was refused will not be run later.
Refused == last \in {"RECEIVE_ERROR", "PARAM_ERROR"} /\ ~misled => Unrun

\* As long as no request is delayed or cut off, every byte is read as what it is.
Unbroken ==
  ~broken =>
    /\ fw # "line" /\ ~stray /\ ~misled /\ whole
    /\ Pending \/ Arriving \/ Done
    /\ host = "ready" => Done /\ OnlyText
    /\ host \in {"size", "body"} => Done

\* If no output is lost either, what the script waits for is there.
Complete ==
  ~broken /\ ~lost /\ Done =>
    /\ host = "status" => /\ toHost # <<>>
                          /\ \/ toHost[1] = Text
                             \/ /\ toHost[1].kind = "status"
                                /\ toHost[1].code = "OK" => /\ Len(toHost) >= 3
                                                            /\ toHost[2].kind = "size"
                                                            /\ toHost[3].kind = "body"
    /\ host = "size" => /\ Len(toHost) >= 2
                        /\ toHost[1].kind = "size" /\ toHost[2].kind = "body"
    /\ host = "body" => Len(toHost) >= 1 /\ toHost[1].kind = "body"

\* Without a mishap the firmware says nothing but answers.
Calm ==
  mishaps = 0 =>
    /\ ~broken /\ ~lost
    /\ host \in Waiting \cup {"ready"} =>
         /\ board = "avr" => dtrSeen
         /\ toHost \in Seq(CalmWords)

Inv ==
  /\ TypeOK /\ Once /\ Unbroken /\ Clean /\ Whereabouts /\ Refused /\ Complete /\ Calm
  /\ host \in Waiting => size >= MinPayload
  /\ AnswerIsOwn /\ OnlyMishapsFail /\ Answered /\ RefusedMeansNotRun

-----------------------------------------------------------------------------
(* Sequences *)

LEMMA TailFacts ==
  ASSUME NEW S, NEW s \in Seq(S), s # <<>>
  PROVE  /\ Tail(s) \in Seq(S) /\ Head(s) = s[1] /\ s[1] \in S
         /\ Len(s) \in Nat /\ Len(s) >= 1 /\ Len(Tail(s)) = Len(s) - 1
         /\ \A i \in 1..(Len(s) - 1) : Tail(s)[i] = s[i + 1]
  OBVIOUS

LEMMA PrefixFacts ==
  ASSUME NEW S, NEW s \in Seq(S), NEW n \in 0..Len(s)
  PROVE  /\ SubSeq(s, 1, n) \in Seq(S) /\ Len(SubSeq(s, 1, n)) = n
         /\ \A i \in 1..n : SubSeq(s, 1, n)[i] = s[i]
  OBVIOUS

LEMMA SuffixFacts ==
  ASSUME NEW S, NEW s \in Seq(S), NEW n \in 1..Len(s)
  PROVE  /\ SubSeq(s, n + 1, Len(s)) \in Seq(S) /\ Len(SubSeq(s, n + 1, Len(s))) = Len(s) - n
         /\ \A i \in 1..(Len(s) - n) : SubSeq(s, n + 1, Len(s))[i] = s[i + n]
  OBVIOUS

LEMMA ConcatFacts ==
  ASSUME NEW S, NEW s \in Seq(S), NEW t \in Seq(S)
  PROVE  /\ s \o t \in Seq(S) /\ Len(s \o t) = Len(s) + Len(t)
         /\ \A i \in 1..Len(s) : (s \o t)[i] = s[i]
         /\ \A i \in 1..Len(t) : (s \o t)[Len(s) + i] = t[i]
  OBVIOUS

LEMMA PrintKeeps ==
  ASSUME NEW S, Text \in S, toHost \in Seq(S), PrintText
  PROVE  /\ toHost' \in Seq(S)
         /\ toHost' # <<>>
         /\ Len(toHost') >= Len(toHost)
         /\ \A i \in 1..Len(toHost) : toHost'[i] = toHost[i]
  BY SMTT(60) DEF PrintText, Say

LEMMA LoseKeeps ==
  ASSUME NEW S, toHost \in Seq(S), LoseOutput
  PROVE  toHost' \in Seq(S)
  BY DEF LoseOutput

LEMMA TextIsAMessage ==
  /\ Text \in Messages /\ Text \in OwnWords /\ Text \in ResultWords /\ Text \in UnansweredWords
  /\ Text.kind = "text" /\ ~Text.mine
  BY DEF Text, Messages, OwnWords, ResultWords, UnansweredWords

\* A byte read by the script leaves the rest of the line as it is.
LEMMA HeadFacts ==
  ASSUME toHost # <<>>, toHost' = Tail(toHost), NEW S, toHost \in Seq(S)
  PROVE  /\ toHost' \in Seq(S) /\ Head(toHost) = toHost[1] /\ toHost[1] \in S
         /\ Len(toHost) \in Nat /\ Len(toHost) >= 1 /\ Len(toHost') = Len(toHost) - 1
         /\ \A i \in 1..(Len(toHost) - 1) : toHost'[i] = toHost[i + 1]
  BY TailFacts

LEMMA MessageFacts ==
  ASSUME NEW payload \in Payloads
  PROVE  /\ Message(payload) \in Seq(Bytes) /\ Len(Message(payload)) = Len(payload) + 2
         /\ Message(payload)[1].kind = "frame" /\ Message(payload)[1].starts
         /\ \A i \in 2..(Len(payload) + 2) : ~Message(payload)[i].starts
         /\ Len(payload) \in MinPayload..(MaxFrame - 1)
  <1> DEFINE head == <<[kind |-> "frame", starts |-> TRUE], [kind |-> "plain", starts |-> FALSE]>>
             rest == [i \in 1..Len(payload) |-> [kind |-> payload[i], starts |-> FALSE]]
  <1>1. payload \in Seq(Kinds) /\ Len(payload) \in MinPayload..(MaxFrame - 1) /\ Len(payload) \in Nat
    BY PayloadsAssumption, BoundsAssumption
  <1>2. head \in Seq(Bytes) /\ Len(head) = 2 /\ head[1] = [kind |-> "frame", starts |-> TRUE]
        /\ head[2] = [kind |-> "plain", starts |-> FALSE]
    BY DEF Bytes, Kinds
  <1>3. /\ rest \in Seq(Bytes) /\ Len(rest) = Len(payload)
        /\ \A i \in 1..Len(payload) : ~rest[i].starts
    BY <1>1 DEF Bytes
  <1> HIDE DEF head, rest
  <1>4. Message(payload) = head \o rest
    BY DEF Message, head, rest
  <1>5. /\ head \o rest \in Seq(Bytes) /\ Len(head \o rest) = Len(payload) + 2
        /\ (head \o rest)[1] = head[1] /\ (head \o rest)[2] = head[2]
        /\ \A i \in 1..Len(payload) : (head \o rest)[2 + i] = rest[i]
    <2>1. \A h, r \in Seq(Bytes) :
             /\ h \o r \in Seq(Bytes) /\ Len(h \o r) = Len(h) + Len(r)
             /\ \A i \in 1..Len(h) : (h \o r)[i] = h[i]
             /\ \A i \in 1..Len(r) : (h \o r)[Len(h) + i] = r[i]
      BY ConcatFacts
    <2>2. head \in Seq(Bytes) /\ rest \in Seq(Bytes) /\ Len(head) = 2 /\ Len(rest) = Len(payload)
      BY <1>2, <1>3
    <2>3. 1 \in 1..2 /\ 2 \in 1..2 /\ Len(payload) \in Nat
      BY <1>1
    <2> QED BY ONLY SMTT(60), <2>1, <2>2, <2>3
  <1>6. ASSUME NEW i \in 2..(Len(payload) + 2) PROVE ~(head \o rest)[i].starts
    <2>1. CASE i = 2
      BY <2>1, <1>5, <1>2
    <2>2. CASE i # 2
      <3>1. i - 2 \in 1..Len(payload) /\ 2 + (i - 2) = i
        BY <2>2, <1>1
      <3> QED BY <3>1, <1>5, <1>3
    <2> QED BY <2>1, <2>2
  <1> QED BY <1>1, <1>2, <1>4, <1>5, <1>6

\* What is under way when a request is sent.
Leftovers == [i \in DOMAIN toDevice |-> Earlier(toDevice[i])]
OthersAnswers == [i \in DOMAIN toHost |-> Others(toHost[i])]

LEMMA LeftoversFacts ==
  ASSUME toDevice \in Seq(Bytes), toHost \in Seq(Messages)
  PROVE  /\ Leftovers \in Seq(Strays) /\ Len(Leftovers) = Len(toDevice)
         /\ OthersAnswers \in Seq({m \in Messages : ~m.mine})
         /\ Len(OthersAnswers) = Len(toHost)
         /\ OnlyText => OthersAnswers = toHost
  <1>1. \A b \in Bytes : Earlier(b) \in Strays
    BY DEF Earlier, Bytes, Strays
  <1>2. \A m \in Messages : Others(m) \in {x \in Messages : ~x.mine}
    BY DEF Others, Messages
  <1>3. \A m \in Messages : ~m.mine => Others(m) = m
    BY DEF Others, Messages
  <1>4. Text \in Messages /\ ~Text.mine
    BY DEF Text, Messages
  <1>5. Leftovers \in Seq(Strays) /\ Len(Leftovers) = Len(toDevice)
    BY <1>1 DEF Leftovers
  <1>6. OthersAnswers \in Seq({m \in Messages : ~m.mine}) /\ Len(OthersAnswers) = Len(toHost)
    BY <1>2 DEF OthersAnswers
  <1>7. ASSUME OnlyText PROVE OthersAnswers = toHost
    <2>1. \A i \in 1..Len(toHost) : toHost[i] = Text
      BY <1>7 DEF OnlyText
    <2>2. \A i \in 1..Len(toHost) : OthersAnswers[i] = toHost[i]
      BY <2>1, <1>3, <1>4 DEF OthersAnswers
    <2>3. OthersAnswers \in Seq(Messages)
      BY <1>6
    <2> QED BY <2>2, <2>3, <1>6, SeqEqual
  <1> QED BY <1>5, <1>6, <1>7

LEMMA InRoomFacts ==
  ASSUME NEW S, NEW s \in Seq(S)
  PROVE  /\ InRoom(s) \in Seq(S) /\ Len(InRoom(s)) <= Len(s)
         /\ \A i \in 1..Len(InRoom(s)) : InRoom(s)[i] = s[i]
         /\ Len(InRoom(s)) < Len(s) => board = "arduino" /\ Len(s) > SerialRoom
  <1>1. CASE board = "arduino" /\ Len(s) > SerialRoom
    <2>1. SerialRoom \in 0..Len(s)
      BY <1>1, BoundsAssumption
    <2> QED BY <2>1, <1>1, PrefixFacts DEF InRoom
  <1>2. CASE ~(board = "arduino" /\ Len(s) > SerialRoom)
    BY <1>2 DEF InRoom
  <1> QED BY <1>1, <1>2
-----------------------------------------------------------------------------
(* The script *)

\* Nothing of an earlier state matters when the line is quiet.
LEMMA SettleKeeps == Inv /\ Settle => Inv'
  <1> SUFFICES ASSUME Inv, Settle PROVE Inv'
    OBVIOUS
  <1> USE DEF Inv, Settle
  <1>0. (\A S : <<>> \in Seq(S)) /\ toHost' = <<>> /\ toDevice = <<>> /\ toDevice' = toDevice
    BY EmptySeq DEF Quiet
  <1>1. TypeOK'
    BY <1>0 DEF TypeOK, firmware
  <1>2. Once'
    BY <1>0 DEF Once, firmware, Taken, NoStart, Waiting
  <1>3. Unbroken'
    BY <1>0 DEF Unbroken, firmware, Pending, Arriving, Done, Quiet, OnlyText, OwnOnly,
       Waiting
  <1>4. Clean'
    BY <1>0 DEF Clean, Quiet, OnlyText, firmware
  <1>5. Whereabouts' /\ Refused' /\ Complete'
    BY DEF Whereabouts, Refused, Complete, Waiting
  <1>6. Calm'
    BY <1>0 DEF Calm, Unbroken, Quiet, Dtr, firmware, TypeOK
  <1>7. (host \in Waiting => size >= MinPayload)'
    BY DEF Waiting
  <1>8. (AnswerIsOwn /\ OnlyMishapsFail /\ Answered /\ RefusedMeansNotRun)'
    BY DEF AnswerIsOwn, OnlyMishapsFail, Answered, RefusedMeansNotRun
  <1> QED BY <1>1, <1>2, <1>3, <1>4, <1>5, <1>6, <1>7, <1>8

LEMMA OpenKeeps == Inv /\ Open => Inv'
  <1> SUFFICES ASSUME Inv, Open PROVE Inv'
    OBVIOUS
  <1> USE DEF Inv, Open, Restart, Dtr
  <1>0. /\ toDevice' = toDevice \/ (toDevice' = <<>> /\ fw' = "loop" /\ own' = FALSE /\ toHost' = <<Text>>)
        /\ \A S : <<>> \in Seq(S)
        /\ \A S : Text \in S => <<Text>> \in Seq(S)
        /\ <<Text>> \in Seq(OwnWords)
        /\ Text \in Messages /\ ~Text.mine
    BY EmptySeq, TextIsAMessage DEF Restart
  <1>a. ASSUME Restart PROVE TypeOK' /\ Once'
    <2>1. /\ host' = "opening" /\ fw' = "loop" /\ count' = 0 /\ want' = 0 /\ asks' = 0 /\ own' = FALSE
          /\ toDevice' = <<>> /\ toHost' = <<Text>> /\ stray' = stray
          /\ UNCHANGED <<board, size, last, dtrSeen, runs, whole, misled, broken, lost, mishaps>>
      BY <1>a
    <2>2. TypeOK /\ Once
      OBVIOUS
    <2> HIDE DEF Inv, Open, Restart
    <2>3. TypeOK'
      <3>1. toHost' \in Seq(Messages) /\ toDevice' \in Seq(Bytes)
        BY <1>0, <2>1
      <3>2. {dtrSeen', own', whole', stray', misled', broken', lost'} \subseteq BOOLEAN
        BY <2>1, <2>2 DEF TypeOK
      <3>3. /\ count' \in 0..(MaxFrame - 1) /\ want' \in 0..count'
            /\ asks' \in 0..MaxAsks /\ (asks' > 0 <=> fw' = "line")
        BY <2>1, <2>2, BoundsAssumption DEF TypeOK
      <3>4. /\ host' \in {"closed", "opening", "ready"} \cup Waiting
            /\ fw' \in {"loop", "count", "bytes", "run", "line"}
            /\ size' \in 0..(MaxFrame - 1) /\ last' \in {"none", "answer", "foreign"} \cup Failures
            /\ runs' \in 0..1 /\ mishaps' \in 0..MaxMishaps /\ board' \in Boards
        BY <2>1, <2>2 DEF TypeOK
      <3> QED BY <3>1, <3>2, <3>3, <3>4 DEF TypeOK, Waiting, Failures
    <2>4. Once'
      <3>1. Text \in UnansweredWords
        BY <1>0 DEF UnansweredWords
      <3>2. toHost' \in Seq(UnansweredWords)
        BY <1>0, <2>1, <3>1
      <3>3. Len(toDevice') = 0
        BY <2>1
      <3> QED BY <1>0, <2>1, <2>2, <3>2, <3>3 DEF Once, Taken, NoStart
    <2> QED BY <2>3, <2>4
  <1>b. ASSUME UNCHANGED <<firmware, toDevice, toHost>> PROVE TypeOK' /\ Once'
    <2>1. TypeOK'
      BY <1>b DEF TypeOK, firmware, script, Waiting, Failures
    <2>2. TypeOK /\ Once /\ UNCHANGED <<fw, own, toDevice, toHost, runs, last>>
      BY <1>b DEF firmware
    <2> HIDE DEF Inv, Open, Restart
    <2>3. Once'
      BY <2>2 DEF Once, Taken, NoStart
    <2> QED BY <2>1, <2>3
  <1>1. TypeOK' /\ Once'
    BY <1>a, <1>b
  <1>3. Unbroken'
    BY <1>0 DEF Unbroken, Pending, Arriving, AllThere, Overflows, Done, OnlyText,
       OwnOnly, NoStart, firmware, script, TypeOK, Waiting
  <1>4. Clean'
    BY <1>0 DEF Clean, OnlyText, firmware, script, TypeOK, Waiting
  <1>5. Whereabouts'
    BY <1>0 DEF Whereabouts, Pending, Arriving, AllThere, Overflows, Done, Ran, Unrun,
       Heralded, Taken, OnlyText, OwnOnly, NoStart, firmware, script, TypeOK, Waiting
  <1>6. Refused'
    BY <1>0 DEF Refused, Unrun, Taken, NoStart, firmware, script, TypeOK, Waiting
  <1>7. Complete'
    BY <1>0 DEF Complete, Unbroken, Done, OnlyText, OwnOnly, firmware, script, TypeOK,
       Waiting
  <1>8. Calm'
    BY <1>0 DEF Calm, Unbroken, Overflows, firmware, script, TypeOK, Waiting, Dtr
  <1>9. (host \in Waiting => size >= MinPayload)'
    BY <1>0 DEF Waiting, firmware, script
  <1>10. (AnswerIsOwn /\ OnlyMishapsFail /\ Answered /\ RefusedMeansNotRun)'
    BY <1>0 DEF AnswerIsOwn, OnlyMishapsFail, Answered, RefusedMeansNotRun, firmware,
       script, TypeOK, Overflows
  <1> QED BY <1>1, <1>3, <1>4, <1>5, <1>6, <1>7, <1>8, <1>9, <1>10

LEMMA TimeoutKeeps == Inv /\ Timeout => Inv'
  <1> SUFFICES ASSUME Inv, Timeout PROVE Inv'
    OBVIOUS
  <1> USE DEF Inv, Timeout, Fail, Quiet
  <1>1. TypeOK'
    BY DEF TypeOK, firmware, script, Waiting, Failures
  <1>2. Once'
    BY DEF Once, TypeOK, firmware, script, Taken, NoStart, Waiting
  <1>3. Unbroken'
    BY DEF Unbroken, Pending, Arriving, AllThere, Overflows, Done, OnlyText, OwnOnly,
       NoStart, firmware, script, TypeOK, Waiting
  <1>4. Clean'
    BY DEF Clean, OnlyText, firmware, script, TypeOK, Waiting
  <1>5. Whereabouts'
    BY DEF Whereabouts, Pending, Arriving, AllThere, Overflows, Done, Ran, Unrun,
       Heralded, Taken, OnlyText, OwnOnly, NoStart, firmware, script, TypeOK, Waiting
  <1>6. Refused'
    BY DEF Refused, Unrun, Taken, NoStart, firmware, script, TypeOK, Waiting
  <1>7. Complete'
    BY DEF Complete, Unbroken, Done, OnlyText, OwnOnly, firmware, script, TypeOK,
       Waiting
  <1>8. Calm'
    BY DEF Calm, Unbroken, Overflows, firmware, script, TypeOK, Waiting, Dtr
  <1>9. (host \in Waiting => size >= MinPayload)'
    BY DEF Waiting, firmware, script
  <1>10. (AnswerIsOwn /\ OnlyMishapsFail /\ Answered /\ RefusedMeansNotRun)'
    <2>1. broken \/ lost
      BY DEF Unbroken, Complete, Pending, Arriving, Done, TypeOK, Waiting
    <2>2. mishaps # 0
      BY <2>1 DEF Calm
    <2> QED BY <2>1, <2>2 DEF AnswerIsOwn, OnlyMishapsFail, Answered,
       RefusedMeansNotRun, firmware, script, TypeOK, Overflows
  <1> QED BY <1>1, <1>2, <1>3, <1>4, <1>5, <1>6, <1>7, <1>8, <1>9, <1>10

LEMMA FinishKeeps == Inv /\ Finish => Inv'
  <1> SUFFICES ASSUME Inv, Finish PROVE Inv'
    OBVIOUS
  <1> USE DEF Inv, Finish
  <1>1. TypeOK'
    BY DEF TypeOK, firmware, script, Waiting, Failures
  <1>2. Once'
    BY DEF Once, TypeOK, firmware, script, Taken, NoStart, Waiting
  <1>3. Unbroken'
    BY DEF Unbroken, Pending, Arriving, AllThere, Overflows, Done, OnlyText, OwnOnly,
       NoStart, firmware, script, TypeOK, Waiting
  <1>4. Clean'
    BY DEF Clean, OnlyText, firmware, script, TypeOK, Waiting
  <1>5. Whereabouts'
    BY DEF Whereabouts, Pending, Arriving, AllThere, Overflows, Done, Ran, Unrun,
       Heralded, Taken, OnlyText, OwnOnly, NoStart, firmware, script, TypeOK, Waiting
  <1>6. Refused'
    BY DEF Refused, Unrun, Taken, NoStart, firmware, script, TypeOK, Waiting
  <1>7. Complete'
    BY DEF Complete, Unbroken, Done, OnlyText, OwnOnly, firmware, script, TypeOK,
       Waiting
  <1>8. Calm'
    BY DEF Calm, Unbroken, Overflows, firmware, script, TypeOK, Waiting, Dtr
  <1>9. (host \in Waiting => size >= MinPayload)'
    BY DEF Waiting, firmware, script
  <1>10. (AnswerIsOwn /\ OnlyMishapsFail /\ Answered /\ RefusedMeansNotRun)'
    BY DEF AnswerIsOwn, OnlyMishapsFail, Answered, RefusedMeansNotRun, firmware, script,
       TypeOK, Overflows
  <1> QED BY <1>1, <1>2, <1>3, <1>4, <1>5, <1>6, <1>7, <1>8, <1>9, <1>10


LEMMA ReadStatusKeeps == Inv /\ ReadStatus => Inv'
  <1> SUFFICES ASSUME Inv, ReadStatus PROVE Inv'
    OBVIOUS
  <1> USE DEF Inv, ReadStatus, Fail
  <1>0. /\ toHost \in Seq(Messages) /\ toHost' \in Seq(Messages) /\ toHost[1] \in Messages
        /\ Head(toHost) = toHost[1] /\ Len(toHost) \in Nat /\ Len(toHost) >= 1
        /\ Len(toHost') = Len(toHost) - 1
        /\ Len(toHost) >= 2 => toHost'[1] = toHost[2]
        /\ Len(toHost) >= 3 => toHost'[2] = toHost[3]
        /\ OnlyText => toHost' \in Seq({Text}) /\ toHost[1] = Text
        /\ OwnOnly => toHost' \in Seq(OwnWords) /\ toHost[1] \in OwnWords
        /\ toHost \in Seq(ResultWords) => toHost' \in Seq(ResultWords) /\ toHost[1] \in ResultWords
        /\ toHost \in Seq(UnansweredWords) =>
              toHost' \in Seq(UnansweredWords) /\ toHost[1] \in UnansweredWords
        /\ toHost \in Seq(CalmWords) => toHost' \in Seq(CalmWords) /\ toHost[1] \in CalmWords
        /\ Text.kind = "text"
    <2>1. toHost # <<>> /\ toHost' = Tail(toHost) /\ toHost \in Seq(Messages)
      BY DEF TypeOK
    <2>2. /\ toHost' \in Seq(Messages) /\ toHost[1] \in Messages
          /\ Head(toHost) = toHost[1] /\ Len(toHost) \in Nat /\ Len(toHost) >= 1
          /\ Len(toHost') = Len(toHost) - 1
          /\ \A i \in 1..(Len(toHost) - 1) : toHost'[i] = toHost[i + 1]
      BY <2>1, HeadFacts
    <2>3. /\ Len(toHost) >= 2 => toHost'[1] = toHost[2]
          /\ Len(toHost) >= 3 => toHost'[2] = toHost[3]
      BY <2>2
    <2>4. OnlyText => toHost' \in Seq({Text}) /\ toHost[1] = Text
      BY <2>1, HeadFacts DEF OnlyText
    <2>5. OwnOnly => toHost' \in Seq(OwnWords) /\ toHost[1] \in OwnWords
      BY <2>1, HeadFacts DEF OwnOnly
    <2>6. toHost \in Seq(ResultWords) => toHost' \in Seq(ResultWords) /\ toHost[1] \in ResultWords
      BY <2>1, HeadFacts
    <2>7. toHost \in Seq(UnansweredWords) =>
              toHost' \in Seq(UnansweredWords) /\ toHost[1] \in UnansweredWords
      BY <2>1, HeadFacts
    <2>8. toHost \in Seq(CalmWords) => toHost' \in Seq(CalmWords) /\ toHost[1] \in CalmWords
      BY <2>1, HeadFacts
    <2> QED BY <2>1, <2>2, <2>3, <2>4, <2>5, <2>6, <2>7, <2>8, TextIsAMessage
  <1>s. /\ host' = "size" /\ last' = last /\ toHost[1].kind = "status" /\ toHost[1].code = "OK"
        \/ /\ host' = "closed"
           /\ \/ last' = "junk" /\ toHost[1].kind # "status"
              \/ /\ last' = toHost[1].code /\ toHost[1].kind = "status"
                 /\ last' \in {"RECEIVE_ERROR", "PARAM_ERROR", "EXECUTE_ERROR"}
    BY <1>0 DEF Messages
  <1>1. TypeOK'
    BY <1>0, <1>s DEF TypeOK, firmware, script, Waiting, Failures
  <1>2. Once'
    BY <1>0, <1>s DEF Once, TypeOK, firmware, script, Taken, NoStart, Waiting
  <1>3. Unbroken'
    BY <1>0 DEF Unbroken, Pending, Arriving, AllThere, Overflows, Done, OnlyText,
       OwnOnly, NoStart, firmware, script, TypeOK, Waiting, CalmWords, Own, OwnWords,
       ResultWords, UnansweredWords, Messages
  <1>4. Clean'
    BY <1>0 DEF Clean, OnlyText, firmware, script, TypeOK, Waiting
  <1>5. Whereabouts'
    BY <1>0 DEF Whereabouts, Pending, Arriving, AllThere, Overflows, Done, Ran, Unrun,
       Heralded, Taken, OnlyText, OwnOnly, NoStart, firmware, script, TypeOK, Waiting,
       CalmWords, Own, OwnWords, ResultWords, UnansweredWords, Messages
  <1>6. Refused'
    BY <1>0 DEF Refused, Unrun, Taken, NoStart, firmware, script, TypeOK, Waiting,
       Whereabouts, Pending, Arriving, Ran, OnlyText, CalmWords, Own, OwnWords,
       ResultWords, UnansweredWords, Messages
  <1>7. Complete'
    BY <1>0 DEF Complete, Unbroken, Done, OnlyText, OwnOnly, firmware, script, TypeOK,
       Waiting
  <1>8. Calm'
    BY <1>0 DEF Calm, Unbroken, Overflows, firmware, script, TypeOK, Waiting, Dtr,
       CalmWords, Own, OwnWords, ResultWords, UnansweredWords, Messages, Unbroken,
       Complete, Pending, Arriving, Done, OnlyText, OwnOnly
  <1>9. (host \in Waiting => size >= MinPayload)'
    BY <1>0 DEF Waiting, firmware, script
  <1>10. (AnswerIsOwn /\ OnlyMishapsFail /\ Answered /\ RefusedMeansNotRun)'
    <2>1. AnswerIsOwn'
      BY <1>s DEF AnswerIsOwn
    <2>2. OnlyMishapsFail'
      <3> SUFFICES ASSUME mishaps = 0 PROVE OnlyMishapsFail'
        BY DEF OnlyMishapsFail
      <3>1. toHost[1] \in CalmWords /\ ~broken /\ ~lost
        BY <1>0 DEF Calm, Waiting
      <3>2. Done
        BY <1>0, <3>1 DEF Unbroken, Pending, Arriving, CalmWords
      <3>3. toHost[1].kind = "status"
        BY <1>0, <3>1, <3>2 DEF Complete, CalmWords
      <3>4. toHost[1].code \in {"OK", "RECEIVE_ERROR"}
            /\ (toHost[1].code = "RECEIVE_ERROR" => board = "arduino" /\ size + 1 > SerialRoom)
        BY <3>1 DEF CalmWords, Overflows
      <3> QED BY <1>s, <3>3, <3>4 DEF OnlyMishapsFail
    <2>3. Answered' /\ RefusedMeansNotRun'
      BY <1>s, <1>6 DEF Answered, RefusedMeansNotRun, Refused, Unrun
    <2> QED BY <2>1, <2>2, <2>3
  <1> QED BY <1>1, <1>2, <1>3, <1>4, <1>5, <1>6, <1>7, <1>8, <1>9, <1>10

LEMMA ReadSizeKeeps == Inv /\ ReadSize => Inv'
  <1> SUFFICES ASSUME Inv, ReadSize PROVE Inv'
    OBVIOUS
  <1> USE DEF Inv, ReadSize, Fail
  <1>0. /\ toHost \in Seq(Messages) /\ toHost' \in Seq(Messages) /\ toHost[1] \in Messages
        /\ Head(toHost) = toHost[1] /\ Len(toHost) \in Nat /\ Len(toHost) >= 1
        /\ Len(toHost') = Len(toHost) - 1
        /\ Len(toHost) >= 2 => toHost'[1] = toHost[2]
        /\ Len(toHost) >= 3 => toHost'[2] = toHost[3]
        /\ OnlyText => toHost' \in Seq({Text}) /\ toHost[1] = Text
        /\ OwnOnly => toHost' \in Seq(OwnWords) /\ toHost[1] \in OwnWords
        /\ toHost \in Seq(ResultWords) => toHost' \in Seq(ResultWords) /\ toHost[1] \in ResultWords
        /\ toHost \in Seq(UnansweredWords) =>
              toHost' \in Seq(UnansweredWords) /\ toHost[1] \in UnansweredWords
        /\ toHost \in Seq(CalmWords) => toHost' \in Seq(CalmWords) /\ toHost[1] \in CalmWords
        /\ Text.kind = "text"
    <2>1. toHost # <<>> /\ toHost' = Tail(toHost) /\ toHost \in Seq(Messages)
      BY DEF TypeOK
    <2>2. /\ toHost' \in Seq(Messages) /\ toHost[1] \in Messages
          /\ Head(toHost) = toHost[1] /\ Len(toHost) \in Nat /\ Len(toHost) >= 1
          /\ Len(toHost') = Len(toHost) - 1
          /\ \A i \in 1..(Len(toHost) - 1) : toHost'[i] = toHost[i + 1]
      BY <2>1, HeadFacts
    <2>3. /\ Len(toHost) >= 2 => toHost'[1] = toHost[2]
          /\ Len(toHost) >= 3 => toHost'[2] = toHost[3]
      BY <2>2
    <2>4. OnlyText => toHost' \in Seq({Text}) /\ toHost[1] = Text
      BY <2>1, HeadFacts DEF OnlyText
    <2>5. OwnOnly => toHost' \in Seq(OwnWords) /\ toHost[1] \in OwnWords
      BY <2>1, HeadFacts DEF OwnOnly
    <2>6. toHost \in Seq(ResultWords) => toHost' \in Seq(ResultWords) /\ toHost[1] \in ResultWords
      BY <2>1, HeadFacts
    <2>7. toHost \in Seq(UnansweredWords) =>
              toHost' \in Seq(UnansweredWords) /\ toHost[1] \in UnansweredWords
      BY <2>1, HeadFacts
    <2>8. toHost \in Seq(CalmWords) => toHost' \in Seq(CalmWords) /\ toHost[1] \in CalmWords
      BY <2>1, HeadFacts
    <2> QED BY <2>1, <2>2, <2>3, <2>4, <2>5, <2>6, <2>7, <2>8, TextIsAMessage
  <1>1. TypeOK'
    BY <1>0 DEF TypeOK, firmware, script, Waiting, Failures
  <1>2. Once'
    BY <1>0 DEF Once, TypeOK, firmware, script, Taken, NoStart, Waiting
  <1>3. Unbroken'
    BY <1>0 DEF Unbroken, Pending, Arriving, AllThere, Overflows, Done, OnlyText,
       OwnOnly, NoStart, firmware, script, TypeOK, Waiting, CalmWords, Own, OwnWords,
       ResultWords, UnansweredWords, Messages
  <1>4. Clean'
    BY <1>0 DEF Clean, OnlyText, firmware, script, TypeOK, Waiting
  <1>5. Whereabouts'
    BY <1>0 DEF Whereabouts, Pending, Arriving, AllThere, Overflows, Done, Ran, Unrun,
       Heralded, Taken, OnlyText, OwnOnly, NoStart, firmware, script, TypeOK, Waiting,
       CalmWords, Own, OwnWords, ResultWords, UnansweredWords, Messages
  <1>6. Refused'
    BY <1>0 DEF Refused, Unrun, Taken, NoStart, firmware, script, TypeOK, Waiting,
       Whereabouts, Pending, Arriving, Ran, OnlyText, CalmWords, Own, OwnWords,
       ResultWords, UnansweredWords, Messages
  <1>7. Complete'
    BY <1>0 DEF Complete, Unbroken, Done, OnlyText, OwnOnly, firmware, script, TypeOK,
       Waiting
  <1>8. Calm'
    BY <1>0 DEF Calm, Unbroken, Overflows, firmware, script, TypeOK, Waiting, Dtr,
       CalmWords, Own, OwnWords, ResultWords, UnansweredWords, Messages, Unbroken,
       Complete, Pending, Arriving, Done, OnlyText, OwnOnly
  <1>9. (host \in Waiting => size >= MinPayload)'
    BY <1>0 DEF Waiting, firmware, script
  <1>10. (AnswerIsOwn /\ OnlyMishapsFail /\ Answered /\ RefusedMeansNotRun)'
    <2>1. \/ host' = "body" /\ last' = last
          \/ last' = "junk" /\ toHost[1].kind # "size"
      BY <1>0
    <2>2. OnlyMishapsFail'
      <3> SUFFICES ASSUME mishaps = 0 PROVE OnlyMishapsFail'
        BY DEF OnlyMishapsFail
      <3>1. ~broken /\ ~lost /\ Done
        BY DEF Calm, Unbroken
      <3>2. toHost[1].kind = "size"
        BY <3>1 DEF Complete
      <3> QED BY <2>1, <3>2 DEF OnlyMishapsFail
    <2> QED BY <2>1, <2>2 DEF AnswerIsOwn, Answered, RefusedMeansNotRun
  <1> QED BY <1>1, <1>2, <1>3, <1>4, <1>5, <1>6, <1>7, <1>8, <1>9, <1>10


LEMMA ReadBodyKeeps == Inv /\ ReadBody => Inv'
  <1> SUFFICES ASSUME Inv, ReadBody PROVE Inv'
    OBVIOUS
  <1> USE DEF Inv, ReadBody, Fail
  <1>0. /\ toHost \in Seq(Messages) /\ toHost[1] \in Messages /\ Head(toHost) = toHost[1]
        /\ OnlyText => toHost[1] = Text
        /\ OwnOnly => toHost[1] \in OwnWords
        /\ toHost \in Seq(ResultWords) => toHost[1] \in ResultWords
        /\ toHost \in Seq(UnansweredWords) => toHost[1] \in UnansweredWords
        /\ toHost \in Seq(CalmWords) => toHost[1] \in CalmWords
        /\ Len(toHost) >= 1 /\ Text.kind = "text"
    BY TailFacts, TextIsAMessage DEF TypeOK, OnlyText, OwnOnly
  <1>r. /\ toHost' \in Seq(Messages)
        /\ OnlyText => toHost' \in Seq({Text})
        /\ OwnOnly => toHost' \in Seq(OwnWords)
        /\ toHost \in Seq(ResultWords) => toHost' \in Seq(ResultWords)
        /\ toHost \in Seq(UnansweredWords) => toHost' \in Seq(UnansweredWords)
        /\ toHost \in Seq(CalmWords) => toHost' \in Seq(CalmWords)
    <2>1. CASE toHost' = <<>>
      BY <2>1, EmptySeq
    <2>2. CASE toHost' = Tail(toHost)
      BY <2>2, <1>0, HeadFacts DEF OnlyText, OwnOnly
    <2> QED BY <2>1, <2>2
  <1>s. \/ /\ host' = "ready" /\ toHost' = <<>> /\ toHost[1].kind = "body"
           /\ last' = IF toHost[1].mine THEN "answer" ELSE "foreign"
        \/ host' = "closed" /\ last' = "junk" /\ toHost[1].kind # "body"
    BY <1>0
  <1>1. TypeOK'
    BY <1>0, <1>r, <1>s DEF TypeOK, firmware, script, Waiting, Failures
  <1>m. host' = "ready" /\ toHost[1].mine => runs = 1
    BY <1>0, <1>s DEF Once, UnansweredWords, TypeOK
  <1>2. Once'
    BY <1>0, <1>r, <1>s, <1>m DEF Once, TypeOK, firmware, script, Taken, NoStart,
       Waiting
  <1>3. Unbroken'
    BY <1>0, <1>r, <1>s DEF Unbroken, Pending, Arriving, AllThere, Overflows, Done,
       OnlyText, OwnOnly, NoStart, firmware, script, TypeOK, Waiting
  <1>4. Clean'
    <2>1. ASSUME host' = "ready", ~misled, toHost[1].mine PROVE Ran
      BY <2>1, <1>m DEF Whereabouts, Unrun, Waiting
    <2>2. <<>> \in Seq({Text})
      BY EmptySeq
    <2> QED BY <1>s, <2>1, <2>2 DEF Clean, Ran, OnlyText, firmware
  <1>5. Whereabouts'
    BY <1>0, <1>r, <1>s DEF Whereabouts, Pending, Arriving, AllThere, Overflows, Done,
       Ran, Unrun, Heralded, Taken, OnlyText, OwnOnly, NoStart, firmware, script,
       TypeOK, Waiting
  <1>6. Refused'
    BY <1>0, <1>r, <1>s DEF Refused, Unrun, Taken, NoStart, firmware, script, TypeOK,
       Waiting
  <1>7. Complete'
    BY <1>0, <1>r, <1>s DEF Complete, Unbroken, Done, OnlyText, OwnOnly, firmware,
       script, TypeOK, Waiting
  <1>8. Calm'
    BY <1>0, <1>r, <1>s DEF Calm, Unbroken, Overflows, firmware, script, TypeOK,
       Waiting, Dtr
  <1>9. (host \in Waiting => size >= MinPayload)'
    BY <1>0, <1>r, <1>s DEF Waiting, firmware, script
  <1>10. (AnswerIsOwn /\ OnlyMishapsFail /\ Answered /\ RefusedMeansNotRun)'
    <2>1. ASSUME host' = "ready", ~toHost[1].mine PROVE ~whole \/ (broken /\ (lost \/ misled))
      <3>1. toHost[1] \notin OwnWords
        BY <1>0, <1>s, <2>1 DEF OwnWords, Own
      <3>2. ~Done
        BY <1>0, <3>1 DEF Done
      <3>3. ~OnlyText
        BY <1>0, <1>s, <2>1
      <3>4. toHost[1] \notin ResultWords
        BY <1>0, <1>s, <2>1 DEF ResultWords, Own
      <3>5. broken
        BY <3>2 DEF Unbroken
      <3>6. ASSUME whole, ~lost, ~misled PROVE FALSE
        BY <1>0, <3>2, <3>4, <3>6 DEF Whereabouts, Ran, Heralded, Waiting
      <3> QED BY <3>5, <3>6 DEF TypeOK
    <2>2. AnswerIsOwn'
      BY <1>s, <1>m, <2>1 DEF AnswerIsOwn
    <2>3. OnlyMishapsFail'
      <3> SUFFICES ASSUME mishaps = 0 PROVE OnlyMishapsFail'
        BY DEF OnlyMishapsFail
      <3>1. ~broken /\ ~lost /\ Done /\ whole /\ ~misled
        BY DEF Calm, Unbroken
      <3>2. toHost[1].kind = "body"
        BY <3>1 DEF Complete
      <3> QED BY <1>s, <2>1, <3>1, <3>2 DEF OnlyMishapsFail
    <2> QED BY <1>s, <2>2, <2>3 DEF Answered, RefusedMeansNotRun
  <1> QED BY <1>1, <1>2, <1>3, <1>4, <1>5, <1>6, <1>7, <1>8, <1>9, <1>10


LEMMA KillKeeps == Inv /\ Kill => Inv'
  <1> SUFFICES ASSUME Inv, Kill PROVE Inv'
    OBVIOUS
  <1> USE DEF Inv, Kill
  <1>0. /\ toDevice' \in Seq(Bytes) /\ (NoStart => toDevice' \in Seq(Strays))
        /\ Len(toDevice') <= Len(toDevice) /\ Len(toDevice') \in Nat /\ Len(toDevice) \in Nat
        /\ \A i \in 1..Len(toDevice') : i \in 1..Len(toDevice) /\ toDevice'[i] = toDevice[i]
        /\ broken' = (broken \/ Len(toDevice') < Len(toDevice))
        /\ whole' = (whole /\ Len(toDevice') = Len(toDevice))
        /\ (Len(toDevice') = Len(toDevice) => toDevice' = toDevice)
        /\ host' = "closed" /\ mishaps' = mishaps + 1 /\ mishaps' \in 0..MaxMishaps
        /\ UNCHANGED <<board, firmware, size, last, dtrSeen, toHost, runs, misled, lost>>
    <2>1. PICK n \in 0..Len(toDevice) : /\ toDevice' = SubSeq(toDevice, 1, n)
                                        /\ broken' = (broken \/ n < Len(toDevice))
                                        /\ whole' = (whole /\ n = Len(toDevice))
      OBVIOUS
    <2>2. toDevice \in Seq(Bytes)
      BY DEF TypeOK
    <2>3. /\ toDevice' \in Seq(Bytes) /\ Len(toDevice') = n
          /\ \A i \in 1..n : toDevice'[i] = toDevice[i]
      BY <2>1, <2>2, PrefixFacts
    <2>4. NoStart => toDevice' \in Seq(Strays)
      BY <2>1, PrefixFacts DEF NoStart
    <2>5. n = Len(toDevice) => toDevice' = toDevice
      BY <2>1, <2>2, SubSeqFull
    <2>6. mishaps' = mishaps + 1 /\ mishaps' \in 0..MaxMishaps
      BY BoundsAssumption DEF Strike, TypeOK
    <2>7. Len(toDevice) \in Nat /\ n <= Len(toDevice)
      BY <2>2
    <2> QED BY <2>1, <2>3, <2>4, <2>5, <2>6, <2>7
  <1>1. TypeOK'
    BY <1>0 DEF TypeOK, firmware, script, Waiting, Failures
  <1>2. Once'
    BY <1>0 DEF Once, TypeOK, firmware, script, Taken, NoStart, Waiting
  <1>3. Unbroken'
    BY <1>0 DEF Unbroken, Pending, Arriving, AllThere, Overflows, Done, OnlyText,
       OwnOnly, NoStart, firmware, script, TypeOK, Waiting
  <1>4. Clean'
    BY <1>0 DEF Clean, OnlyText, firmware, script, TypeOK, Waiting
  <1>5. Whereabouts'
    BY <1>0 DEF Whereabouts, Pending, Arriving, AllThere, Overflows, Done, Ran, Unrun,
       Heralded, Taken, OnlyText, OwnOnly, NoStart, firmware, script, TypeOK, Waiting
  <1>6. Refused'
    BY <1>0 DEF Refused, Unrun, Taken, NoStart, firmware, script, TypeOK, Waiting
  <1>7. Complete'
    BY <1>0 DEF Complete, Unbroken, Done, OnlyText, OwnOnly, firmware, script, TypeOK,
       Waiting
  <1>8. Calm'
    BY <1>0 DEF Calm, Unbroken, Overflows, firmware, script, TypeOK, Waiting, Dtr
  <1>9. (host \in Waiting => size >= MinPayload)'
    BY <1>0 DEF Waiting, firmware, script
  <1>10. (AnswerIsOwn /\ OnlyMishapsFail /\ Answered /\ RefusedMeansNotRun)'
    BY <1>0 DEF AnswerIsOwn, OnlyMishapsFail, Answered, RefusedMeansNotRun, firmware,
       script, TypeOK, Overflows
  <1> QED BY <1>1, <1>2, <1>3, <1>4, <1>5, <1>6, <1>7, <1>8, <1>9, <1>10

LEMMA LoseOutputKeeps == Inv /\ LoseOutput => Inv'
  <1> SUFFICES ASSUME Inv, LoseOutput PROVE Inv'
    OBVIOUS
  <1> USE DEF Inv, LoseOutput
  <1>0. /\ \A S : toHost \in Seq(S) => toHost' \in Seq(S)
        /\ toHost' \in Seq(Messages)
        /\ OnlyText => toHost' \in Seq({Text})
        /\ OwnOnly => toHost' \in Seq(OwnWords)
        /\ toHost \in Seq(ResultWords) => toHost' \in Seq(ResultWords)
        /\ toHost \in Seq(UnansweredWords) => toHost' \in Seq(UnansweredWords)
        /\ mishaps' = mishaps + 1 /\ mishaps' \in 0..MaxMishaps /\ mishaps' # 0
        /\ lost' = TRUE
        /\ UNCHANGED <<board, firmware, script, dtrSeen, toDevice, runs, whole, misled, broken>>
    <2>1. \A S : toHost \in Seq(S) => toHost' \in Seq(S)
      BY LoseKeeps
    <2>2. mishaps' = mishaps + 1 /\ mishaps' \in 0..MaxMishaps /\ mishaps' # 0
      BY SMTT(60), BoundsAssumption DEF Strike, TypeOK
    <2> QED BY <2>1, <2>2 DEF TypeOK, OnlyText, OwnOnly
  <1>1. TypeOK'
    BY <1>0 DEF TypeOK, firmware, script, Waiting, Failures
  <1>2. Once'
    BY <1>0 DEF Once, TypeOK, firmware, script, Taken, NoStart, Waiting
  <1>3. Unbroken'
    BY SMTT(60), <1>0 DEF Unbroken, Pending, Arriving, AllThere, Overflows, Done, OnlyText,
       OwnOnly, NoStart, firmware, script, TypeOK, Waiting
  <1>4. Clean'
    BY <1>0 DEF Clean, OnlyText, firmware, script, TypeOK, Waiting
  <1>5. Whereabouts'
    BY SMTT(60), <1>0 DEF Whereabouts, Pending, Arriving, AllThere, Overflows, Done, Ran, Unrun,
       Heralded, Taken, OnlyText, OwnOnly, NoStart, firmware, script, TypeOK, Waiting
  <1>6. Refused'
    BY <1>0 DEF Refused, Unrun, Taken, NoStart, firmware, script, TypeOK, Waiting
  <1>7. Complete'
    BY <1>0 DEF Complete, Unbroken, Done, OnlyText, OwnOnly, firmware, script, TypeOK,
       Waiting
  <1>8. Calm'
    BY <1>0 DEF Calm, Unbroken, Overflows, firmware, script, TypeOK, Waiting, Dtr
  <1>9. (host \in Waiting => size >= MinPayload)'
    BY <1>0 DEF Waiting, firmware, script
  <1>10. (AnswerIsOwn /\ OnlyMishapsFail /\ Answered /\ RefusedMeansNotRun)'
    BY <1>0 DEF AnswerIsOwn, OnlyMishapsFail, Answered, RefusedMeansNotRun, firmware,
       script, TypeOK, Overflows
  <1> QED BY <1>1, <1>2, <1>3, <1>4, <1>5, <1>6, <1>7, <1>8, <1>9, <1>10


LEMMA SendKeeps == ASSUME NEW payload \in Payloads, Inv, Send(payload) PROVE Inv'
  <1> USE DEF Inv, Send
  <1>0. /\ toDevice' = Leftovers \o Message(payload) /\ toHost' = OthersAnswers
        /\ host = "ready" /\ host' = "status" /\ size' = Len(payload)
        /\ last' = "none" /\ runs' = 0 /\ whole' = TRUE /\ lost' = FALSE /\ own' = FALSE
        /\ misled' = (misled \/ last = "foreign")
        /\ UNCHANGED <<board, fw, count, want, asks, stray, dtrSeen, broken, mishaps>>
    BY DEF Leftovers, OthersAnswers
  <1> HIDE DEF Send
  <1>h. /\ toHost' \in Seq({m \in Messages : ~m.mine}) /\ (OnlyText => toHost' = toHost)
        /\ toHost' \in Seq(Messages) /\ toHost' \in Seq(UnansweredWords)
    <2>1. toHost' \in Seq({m \in Messages : ~m.mine}) /\ (OnlyText => toHost' = toHost)
      BY <1>0, LeftoversFacts DEF TypeOK
    <2>2. {m \in Messages : ~m.mine} \subseteq Messages /\ {m \in Messages : ~m.mine} \subseteq UnansweredWords
      BY DEF UnansweredWords
    <2> QED BY <2>1, <2>2, SeqMonotonic
  <1>m. /\ Message(payload) \in Seq(Bytes) /\ Len(Message(payload)) = Len(payload) + 2
        /\ Message(payload)[1].kind = "frame" /\ Message(payload)[1].starts
        /\ \A i \in 2..(Len(payload) + 2) : ~Message(payload)[i].starts
        /\ Len(payload) \in MinPayload..(MaxFrame - 1) /\ Len(payload) \in Nat
    BY MessageFacts, BoundsAssumption
  <1>l. /\ Leftovers \in Seq(Bytes) /\ Len(Leftovers) = Len(toDevice) /\ Len(toDevice) \in Nat
        /\ \A i \in 1..Len(toDevice) : ~Leftovers[i].starts
    <2>1. Leftovers \in Seq(Strays) /\ Len(Leftovers) = Len(toDevice) /\ Len(toDevice) \in Nat
      BY LeftoversFacts DEF TypeOK
    <2>2. \A b \in Strays : b \in Bytes /\ ~b.starts
      BY DEF Strays, Bytes
    <2> QED BY <2>1, <2>2, SeqMonotonic, ElementOfSeq
  <1>d. /\ toDevice' \in Seq(Bytes) /\ Len(toDevice') = Len(toDevice) + size' + 2
        /\ \A i \in 1..Len(toDevice') : toDevice'[i].starts <=> i = Len(toDevice) + 1
        /\ toDevice'[Len(toDevice) + 1].kind = "frame"
    <2>1. /\ toDevice' \in Seq(Bytes) /\ Len(toDevice') = Len(Leftovers) + Len(Message(payload))
          /\ \A i \in 1..Len(Leftovers) : toDevice'[i] = Leftovers[i]
          /\ \A i \in 1..Len(Message(payload)) : toDevice'[Len(Leftovers) + i] = Message(payload)[i]
      <3>1. \A a, b \in Seq(Bytes) :
               /\ a \o b \in Seq(Bytes) /\ Len(a \o b) = Len(a) + Len(b)
               /\ \A i \in 1..Len(a) : (a \o b)[i] = a[i]
               /\ \A i \in 1..Len(b) : (a \o b)[Len(a) + i] = b[i]
        BY ConcatFacts
      <3>2. Leftovers \in Seq(Bytes) /\ Message(payload) \in Seq(Bytes)
            /\ toDevice' = Leftovers \o Message(payload)
        BY <1>0, <1>m, <1>l
      <3> QED BY ONLY <3>1, <3>2
    <2>2. ASSUME NEW i \in 1..Len(toDevice') PROVE toDevice'[i].starts <=> i = Len(toDevice) + 1
      <3>1. CASE i <= Len(toDevice)
        BY <3>1, <2>1, <1>l
      <3>2. CASE i > Len(toDevice)
        <4> DEFINE k == i - Len(toDevice)
        <4>1. k \in 1..(Len(payload) + 2) /\ i = Len(toDevice) + k
          BY <3>2, <2>1, <1>m, <1>l
        <4>2. toDevice'[i] = Message(payload)[k]
          BY SMTT(60), <4>1, <2>1, <1>m, <1>l
        <4>3. Message(payload)[k].starts <=> k = 1
          BY <4>1, <1>m
        <4> QED BY <4>1, <4>2, <4>3, <1>l
      <3> QED BY <3>1, <3>2, <1>l
    <2>3. toDevice'[Len(toDevice) + 1] = Message(payload)[1]
      BY <2>1, <1>m, <1>l
    <2> QED BY <2>1, <2>2, <2>3, <1>0, <1>m, <1>l
  <1>p. ASSUME toDevice = <<>>, fw \in {"loop", "line"}, OnlyText PROVE Pending'
    BY <1>p, <1>0, <1>h, <1>d, <1>m DEF Pending, OnlyText
  <1>1. TypeOK'
    <2>1. TypeOK /\ size' \in 0..(MaxFrame - 1) /\ runs' \in 0..1
      BY <1>0, <1>m, BoundsAssumption
    <2>2. (misled \/ last = "foreign") \in BOOLEAN
      OBVIOUS
    <2> HIDE DEF Inv
    <2> QED BY <1>0, <1>h, <1>d, <2>1, <2>2 DEF TypeOK, Waiting, Failures
  <1>2. Once'
    BY SMTT(60), <1>0, <1>h, <1>d, <1>m, <1>p DEF Once, TypeOK, firmware, script, Taken, NoStart,
       Waiting
  <1>3. Unbroken'
    <2> SUFFICES ASSUME ~broken PROVE Unbroken'
      BY <1>0 DEF Unbroken
    <2>1. fw # "line" /\ ~stray /\ ~misled /\ whole /\ Done /\ OnlyText
      BY <1>0 DEF Unbroken
    <2>2. last # "foreign"
      BY <2>1 DEF AnswerIsOwn
    <2>3. Pending'
      BY <1>p, <2>1 DEF Done
    <2> QED BY <1>0, <2>1, <2>2, <2>3 DEF Unbroken
  <1>4. Clean'
    BY <1>0, <1>h, <1>d, <1>m, <1>p DEF Clean, OnlyText, firmware, script, TypeOK,
       Waiting
  <1>5. Whereabouts'
    <2> SUFFICES ASSUME ~misled' PROVE Whereabouts'
      BY DEF Whereabouts
    <2>1. ~misled /\ last # "foreign"
      BY <1>0
    <2>2. Pending'
      BY <1>0, <1>p, <2>1 DEF Clean
    <2> QED BY <1>0, <2>2 DEF Whereabouts
  <1>6. Refused'
    BY <1>0, <1>h, <1>d, <1>m, <1>p DEF Refused, Unrun, Taken, NoStart, firmware,
       script, TypeOK, Waiting
  <1>7. Complete'
    BY <1>0, <1>h, <1>d, <1>m, <1>p DEF Complete, Unbroken, Done, OnlyText, OwnOnly,
       firmware, script, TypeOK, Waiting
  <1>8. Calm'
    <2> SUFFICES ASSUME mishaps = 0 PROVE Calm'
      BY <1>0 DEF Calm
    <2>1. ~broken /\ ~lost /\ (board = "avr" => dtrSeen) /\ toHost \in Seq(CalmWords) /\ OnlyText
      BY <1>0 DEF Calm, Unbroken
    <2>2. toHost = <<>>
      <3>1. Len(toHost) \in Nat /\ (Len(toHost) >= 1 => toHost[1] \in CalmWords /\ toHost[1] = Text)
        BY <2>1 DEF OnlyText
      <3>2. Text \notin CalmWords
        BY TextIsAMessage DEF CalmWords
      <3> QED BY <2>1, <3>1, <3>2
    <2>3. toHost' \in Seq(CalmWords')
      BY <1>h, <2>1, <2>2, EmptySeq
    <2> QED BY <1>0, <2>1, <2>3 DEF Calm
  <1>9. (host \in Waiting => size >= MinPayload)'
    BY <1>0, <1>h, <1>d, <1>m, <1>p DEF Waiting, firmware, script
  <1>10. (AnswerIsOwn /\ OnlyMishapsFail /\ Answered /\ RefusedMeansNotRun)'
    BY <1>0, <1>h, <1>d, <1>m, <1>p DEF AnswerIsOwn, OnlyMishapsFail, Answered,
       RefusedMeansNotRun, firmware, script, TypeOK, Overflows
  <1> QED BY <1>1, <1>2, <1>3, <1>4, <1>5, <1>6, <1>7, <1>8, <1>9, <1>10


-----------------------------------------------------------------------------
(* The firmware *)

\* Whatever is said comes after what is on the line; here is what that leaves true.
Prints ==
  /\ toHost' \in Seq(Messages)
  /\ Len(toHost) \in Nat /\ Len(toHost') \in Nat /\ Len(toHost') >= Len(toHost)
  /\ Len(toHost) >= 1 => toHost'[1] = toHost[1]
  /\ Len(toHost) >= 2 => toHost'[2] = toHost[2]
  /\ Len(toHost) >= 3 => toHost'[3] = toHost[3]
  /\ OnlyText => OnlyText'
  /\ OwnOnly => OwnOnly'
  /\ toHost \in Seq(ResultWords) => toHost' \in Seq(ResultWords)
  /\ toHost \in Seq(UnansweredWords) => toHost' \in Seq(UnansweredWords)

LEMMA PrintTextPrints ==
  ASSUME toHost \in Seq(Messages), PrintText
  PROVE  Prints /\ toHost' # <<>> /\ (OnlyText => toHost'[1] = Text)
  <1>1. /\ toHost' \in Seq(Messages) /\ toHost' # <<>> /\ Len(toHost') >= Len(toHost)
        /\ \A i \in 1..Len(toHost) : toHost'[i] = toHost[i]
    BY PrintKeeps, TextIsAMessage
  <1>2. Len(toHost) \in Nat /\ Len(toHost') \in Nat /\ Len(toHost') >= 1
    BY <1>1
  <1>3. OnlyText => OnlyText' /\ toHost'[1] = Text
    <2>1. OnlyText => toHost' \in Seq({Text})
      BY PrintKeeps DEF OnlyText
    <2> QED BY <2>1, <1>2 DEF OnlyText
  <1>4. OwnOnly => OwnOnly'
    BY PrintKeeps, TextIsAMessage DEF OwnOnly
  <1>5. toHost \in Seq(ResultWords) => toHost' \in Seq(ResultWords)
    BY PrintKeeps, TextIsAMessage
  <1>6. toHost \in Seq(UnansweredWords) => toHost' \in Seq(UnansweredWords)
    BY PrintKeeps, TextIsAMessage
  <1> QED BY <1>1, <1>2, <1>3, <1>4, <1>5, <1>6 DEF Prints

LEMMA SilencePrints ==
  ASSUME toHost \in Seq(Messages), UNCHANGED toHost
  PROVE  Prints
  BY DEF Prints, OnlyText, OwnOnly

LEMMA StillDone ==
  ASSUME TypeOK, Unbroken, ~broken, fw = "loop", toDevice = <<>>
  PROVE  Done
  BY BoundsAssumption DEF Unbroken, Pending, Arriving, TypeOK

\* What is printed when the whole answer is there comes after it.
LEMMA CompleteKept ==
  ASSUME TypeOK, Unbroken, Complete, Prints,
         UNCHANGED <<host, broken, lost>>, Done' => fw = "loop" /\ toDevice = <<>>
  PROVE  Complete'
  <1> SUFFICES ASSUME ~broken, ~lost, Done' PROVE Complete'
    BY DEF Complete
  <1>1. Done
    BY StillDone
  <1>2. toHost # <<>> => toHost' # <<>> /\ Len(toHost) >= 1
    BY DEF Prints, TypeOK
  <1> QED BY <1>1, <1>2 DEF Complete, Prints

LEMMA NoticeDtrKeeps == Inv /\ NoticeDtr => Inv'
  <1> SUFFICES ASSUME Inv, NoticeDtr PROVE Inv'
    OBVIOUS
  <1> USE DEF Inv, NoticeDtr
  <1>t. toHost \in Seq(Messages)
    BY DEF TypeOK
  <1>0. Prints /\ toHost' \in Seq(Messages) /\ (toHost = <<>> \/ toHost'[1] = toHost[1])
        /\ Text.kind = "text"
    <2>1. Prints
      BY <1>t, PrintTextPrints, SilencePrints
    <2> QED BY <2>1, TextIsAMessage, <1>t DEF Prints
  <1>1. TypeOK'
    BY <1>0 DEF TypeOK, firmware, script, Waiting, Failures, Dtr
  <1>2. Once'
    BY <1>0 DEF Prints, Once, TypeOK, firmware, script, Taken, NoStart, Waiting
  <1>3. Unbroken'
    BY <1>0 DEF Prints, Unbroken, Pending, Arriving, AllThere, Overflows, Done,
       OnlyText, OwnOnly, NoStart, firmware, script, TypeOK, Waiting
  <1>4. Clean'
    BY <1>0 DEF Prints, Clean, OnlyText, firmware, script, TypeOK, Waiting
  <1>5. Whereabouts'
    BY <1>0 DEF Prints, Whereabouts, Pending, Arriving, AllThere, Overflows, Done, Ran,
       Unrun, Heralded, Taken, OnlyText, OwnOnly, NoStart, firmware, script, TypeOK,
       Waiting
  <1>6. Refused'
    BY <1>0 DEF Refused, Unrun, Taken, NoStart, firmware, script, TypeOK, Waiting
  <1>7. Complete'
    BY <1>0, CompleteKept DEF Done, firmware, script
  <1>8. Calm'
    BY <1>0 DEF Calm, Unbroken, Overflows, firmware, script, TypeOK, Waiting, Dtr
  <1>9. (host \in Waiting => size >= MinPayload)'
    BY <1>0 DEF Waiting, firmware, script
  <1>10. (AnswerIsOwn /\ OnlyMishapsFail /\ Answered /\ RefusedMeansNotRun)'
    BY <1>0 DEF AnswerIsOwn, OnlyMishapsFail, Answered, RefusedMeansNotRun, firmware,
       script, TypeOK, Overflows
  <1> QED BY <1>1, <1>2, <1>3, <1>4, <1>5, <1>6, <1>7, <1>8, <1>9, <1>10


LEMMA ButtonKeeps == Inv /\ Button => Inv'
  <1> SUFFICES ASSUME Inv, Button PROVE Inv'
    OBVIOUS
  <1> USE DEF Inv, Button
  <1>t. toHost \in Seq(Messages)
    BY DEF TypeOK
  <1>0. Prints /\ toHost' \in Seq(Messages) /\ (toHost = <<>> \/ toHost'[1] = toHost[1])
        /\ mishaps' = mishaps + 1 /\ mishaps' \in 0..MaxMishaps /\ mishaps' # 0
    <2>1. Prints
      BY <1>t, PrintTextPrints, SilencePrints
    <2>2. mishaps' = mishaps + 1 /\ mishaps' \in 0..MaxMishaps /\ mishaps' # 0
      BY BoundsAssumption DEF Strike, TypeOK
    <2> QED BY <2>1, <2>2, <1>t DEF Prints
  <1>1. TypeOK'
    BY <1>0 DEF TypeOK, firmware, script, Waiting, Failures
  <1>2. Once'
    BY <1>0 DEF Prints, Once, TypeOK, firmware, script, Taken, NoStart, Waiting
  <1>3. Unbroken'
    BY <1>0 DEF Prints, Unbroken, Pending, Arriving, AllThere, Overflows, Done,
       OnlyText, OwnOnly, NoStart, firmware, script, TypeOK, Waiting
  <1>4. Clean'
    BY <1>0 DEF Prints, Clean, OnlyText, firmware, script, TypeOK, Waiting
  <1>5. Whereabouts'
    BY SMTT(60), <1>0 DEF Prints, Whereabouts, Pending, Arriving, AllThere, Overflows, Done, Ran,
       Unrun, Heralded, Taken, OnlyText, OwnOnly, NoStart, firmware, script, TypeOK,
       Waiting
  <1>6. Refused'
    BY <1>0 DEF Refused, Unrun, Taken, NoStart, firmware, script, TypeOK, Waiting
  <1>7. Complete'
    BY <1>0, CompleteKept DEF Done, firmware, script
  <1>8. Calm'
    BY <1>0 DEF Calm, Unbroken, Overflows, firmware, script, TypeOK, Waiting, Dtr
  <1>9. (host \in Waiting => size >= MinPayload)'
    BY <1>0 DEF Waiting, firmware, script
  <1>10. (AnswerIsOwn /\ OnlyMishapsFail /\ Answered /\ RefusedMeansNotRun)'
    BY SMTT(60), <1>0 DEF AnswerIsOwn, OnlyMishapsFail, Answered, RefusedMeansNotRun, firmware,
       script, TypeOK, Overflows
  <1> QED BY <1>1, <1>2, <1>3, <1>4, <1>5, <1>6, <1>7, <1>8, <1>9, <1>10


\* The firmware takes the first byte, and what does not fit is lost.
LEMMA TailKept ==
  ASSUME TypeOK, Once, toDevice # <<>>,
         toDevice' = Tail(toDevice) \/ toDevice' = InRoom(Tail(toDevice))
  PROVE  /\ toDevice' \in Seq(Bytes) /\ Head(toDevice) = toDevice[1] /\ toDevice[1] \in Bytes
         /\ Len(toDevice) \in Nat /\ Len(toDevice) >= 1 /\ Len(toDevice') \in Nat
         /\ Len(toDevice') <= Len(toDevice) - 1
         /\ Len(toDevice') < Len(toDevice) - 1 => board = "arduino" /\ Len(toDevice) - 1 > SerialRoom
         /\ NoStart => NoStart' /\ ~toDevice[1].starts
         /\ toDevice[1].starts => NoStart'
         /\ \A i, j \in 1..Len(toDevice') : toDevice'[i].starts /\ toDevice'[j].starts => i = j
         /\ toDevice' = Tail(toDevice) => Len(toDevice') = Len(toDevice) - 1
  <1>1. toDevice \in Seq(Bytes)
    BY DEF TypeOK
  <1>2. /\ Tail(toDevice) \in Seq(Bytes) /\ Head(toDevice) = toDevice[1] /\ toDevice[1] \in Bytes
        /\ Len(toDevice) \in Nat /\ Len(toDevice) >= 1 /\ Len(Tail(toDevice)) = Len(toDevice) - 1
        /\ \A i \in 1..(Len(toDevice) - 1) : Tail(toDevice)[i] = toDevice[i + 1]
    BY <1>1, TailFacts
  <1>3. /\ InRoom(Tail(toDevice)) \in Seq(Bytes) /\ Len(InRoom(Tail(toDevice))) <= Len(toDevice) - 1
        /\ \A i \in 1..Len(InRoom(Tail(toDevice))) : InRoom(Tail(toDevice))[i] = Tail(toDevice)[i]
        /\ Len(InRoom(Tail(toDevice))) < Len(toDevice) - 1 =>
              board = "arduino" /\ Len(toDevice) - 1 > SerialRoom
    BY <1>2, InRoomFacts
  <1>i. Len(InRoom(Tail(toDevice))) \in Nat
    BY <1>3
  <1>4. /\ toDevice' \in Seq(Bytes) /\ Len(toDevice') \in Nat /\ Len(toDevice') <= Len(toDevice) - 1
        /\ Len(toDevice') < Len(toDevice) - 1 => board = "arduino" /\ Len(toDevice) - 1 > SerialRoom
        /\ toDevice' = Tail(toDevice) => Len(toDevice') = Len(toDevice) - 1
    <2>1. CASE toDevice' = Tail(toDevice)
      BY <2>1, <1>2
    <2>2. CASE toDevice' = InRoom(Tail(toDevice))
      BY <2>2, <1>2, <1>3, <1>i
    <2> QED BY <2>1, <2>2
  <1>5. \A i \in 1..Len(toDevice') : i + 1 \in 1..Len(toDevice) /\ toDevice'[i] = toDevice[i + 1]
    <2> TAKE i \in 1..Len(toDevice')
    <2>a. i \in 1..Len(toDevice')
      BY SMTT(60)
    <2>b. Len(toDevice) \in Nat /\ Len(toDevice') \in Nat /\ Len(toDevice') <= Len(toDevice) - 1
      BY <1>2, <1>4
    <2>1. i \in 1..(Len(toDevice) - 1)
      BY ONLY <2>a, <2>b
    <2>2. CASE toDevice' = Tail(toDevice)
      BY <2>1, <2>2, <1>2
    <2>3. CASE toDevice' = InRoom(Tail(toDevice))
      BY <2>1, <2>3, <1>2, <1>3
    <2> QED BY <2>2, <2>3
  <1>6. \A b \in Bytes : ~b.starts => b \in Strays
    BY DEF Bytes, Strays
  <1>7. \A b \in Strays : ~b.starts
    BY DEF Strays
  <1>8. (\A i \in 1..Len(toDevice') : ~toDevice'[i].starts) => NoStart'
    <2> SUFFICES ASSUME \A i \in 1..Len(toDevice') : ~toDevice'[i].starts PROVE NoStart'
      OBVIOUS
    <2>1. \A i \in 1..Len(toDevice') : toDevice'[i] \in Strays
      BY <1>4, <1>6
    <2> QED BY SMTT(60), <1>4, <2>1 DEF NoStart
  <1>9. ASSUME NoStart PROVE NoStart' /\ ~toDevice[1].starts
    <2>1. \A i \in 1..Len(toDevice) : ~toDevice[i].starts
      BY <1>9, <1>7 DEF NoStart
    <2> QED BY <2>1, <1>2, <1>5, <1>8
  <1>10. ASSUME toDevice[1].starts PROVE NoStart'
    <2>1. \A i \in 1..Len(toDevice) : toDevice[i].starts => i = 1
      BY <1>10, <1>2 DEF Once
    <2>2. \A i \in 1..Len(toDevice') : ~toDevice'[i].starts
      BY <2>1, <1>5, <1>4
    <2> QED BY <2>2, <1>8
  <1>11. ASSUME NEW i \in 1..Len(toDevice'), NEW j \in 1..Len(toDevice'),
                toDevice'[i].starts, toDevice'[j].starts
         PROVE  i = j
    <2>1. i + 1 \in 1..Len(toDevice) /\ j + 1 \in 1..Len(toDevice) /\ i + 1 = j + 1
      BY <1>11, <1>5 DEF Once
    <2> QED BY <2>1, <1>4
  <1> QED BY <1>2, <1>4, <1>9, <1>10, <1>11

LEMMA ReadCommandKeeps == Inv /\ ReadCommand => Inv'
  <1> SUFFICES ASSUME Inv, ReadCommand PROVE Inv'
    OBVIOUS
  <1> USE DEF Inv, ReadCommand
  <1>t. TypeOK /\ Once /\ toHost \in Seq(Messages)
    BY DEF TypeOK
  <1>d. /\ toDevice' \in Seq(Bytes) /\ Head(toDevice) = toDevice[1] /\ toDevice[1] \in Bytes
        /\ Len(toDevice) \in Nat /\ Len(toDevice) >= 1 /\ Len(toDevice') \in Nat
        /\ Len(toDevice') <= Len(toDevice) - 1
        /\ Len(toDevice') < Len(toDevice) - 1 => board = "arduino" /\ Len(toDevice) - 1 > SerialRoom
        /\ NoStart => NoStart' /\ ~toDevice[1].starts
        /\ toDevice[1].starts => NoStart'
        /\ \A i, j \in 1..Len(toDevice') : toDevice'[i].starts /\ toDevice'[j].starts => i = j
    BY <1>t, TailKept
  <1>p. Prints /\ toHost' \in Seq(Messages) /\ (toHost # <<>> => toHost' # <<>> /\ toHost'[1] = toHost[1])
    <2>1. Prints
      BY <1>t, PrintTextPrints, SilencePrints
    <2> QED BY <2>1, <1>t DEF Prints
  <1>0. /\ fw = "loop" /\ toDevice # <<>>
        /\ \/ /\ toDevice[1].kind = "frame" /\ fw' = "count" /\ own' = toDevice[1].starts
              /\ asks' = asks /\ toHost' = toHost
           \/ /\ toDevice[1].kind # "frame" /\ own' = FALSE
              /\ \/ fw' = "line" /\ asks' \in 1..MaxAsks
                 \/ fw' = fw /\ asks' = asks
        /\ stray' = (stray \/ ~toDevice[1].starts)
        /\ UNCHANGED <<board, count, want, script, dtrSeen, runs, whole, misled, broken, lost,
                       mishaps>>
    BY <1>d
  <1>f. own' \in BOOLEAN /\ stray' \in BOOLEAN
    BY <1>0, <1>d DEF Bytes, TypeOK
  <1> HIDE DEF ReadCommand
  <1>a. ASSUME Pending PROVE Arriving' /\ stray' = stray /\ toHost' = toHost
    <2>1. /\ fw \in {"loop", "line"} /\ runs = 0 /\ OnlyText /\ size >= MinPayload
          /\ Len(toDevice) = size + 2 /\ toDevice[1].kind = "frame" /\ toDevice[1].starts
      BY <1>a DEF Pending
    <2>2. /\ fw' = "count" /\ own' = TRUE /\ toHost' = toHost /\ NoStart' /\ stray' = stray
          /\ UNCHANGED <<board, size, runs>>
      BY <2>1, <1>0, <1>d, <1>t DEF script, TypeOK
    <2>3. size \in Nat
      BY <1>t, BoundsAssumption DEF TypeOK
    <2>4. AllThere(size + 1)'
      BY <2>1, <2>2, <2>3, <1>d DEF AllThere, Overflows
    <2> QED BY <2>1, <2>2, <2>4 DEF Arriving, OnlyText
  <1>1. TypeOK'
    BY SMTT(60), <1>0, <1>d, <1>p, <1>f, <1>a DEF TypeOK, firmware, script, Waiting, Failures
  <1>2. Once'
    <2>1. Once /\ UNCHANGED <<runs, last>>
      BY <1>0 DEF script
    <2>2. runs = 1 => NoStart' /\ ~own'
      BY <2>1, <1>0, <1>d DEF Once
    <2>3. Taken' => own' /\ toDevice[1].starts
      BY <1>0 DEF Taken
    <2> HIDE DEF Inv
    <2> QED BY <2>1, <2>2, <2>3, <1>d, <1>p DEF Once, Taken, Prints
  <1>3. Unbroken'
    BY <1>0, <1>d, <1>p, <1>f, <1>a DEF Unbroken, Pending, Arriving, AllThere,
       Overflows, Done, OnlyText, OwnOnly, NoStart, firmware, script, TypeOK, Waiting
  <1>4. Clean'
    BY <1>0, <1>d, <1>p, <1>f, <1>a DEF Clean, OnlyText, firmware, script, TypeOK,
       Waiting
  <1>5. Whereabouts'
    BY <1>0, <1>d, <1>p, <1>f, <1>a DEF Whereabouts, Pending, Arriving, AllThere,
       Overflows, Done, Ran, Unrun, Heralded, Taken, OnlyText, OwnOnly, NoStart,
       firmware, script, TypeOK, Waiting
  <1>6. Refused'
    BY <1>0, <1>d, <1>p, <1>f, <1>a DEF Refused, Unrun, Taken, NoStart, firmware,
       script, TypeOK, Waiting
  <1>7. Complete'
    <2> SUFFICES ASSUME ~broken PROVE ~Done'
      BY <1>0 DEF Complete
    <2>1. Arriving'
      BY <1>0, <1>a DEF Unbroken, Arriving, Done
    <2> QED BY <2>1 DEF Arriving, Done
  <1>8. Calm'
    <2> SUFFICES ASSUME mishaps = 0 PROVE Calm'
      BY <1>0 DEF Calm
    <2>1. ~broken /\ Pending
      BY <1>0 DEF Calm, Unbroken, Arriving, Done
    <2>2. toHost' = toHost
      BY <2>1, <1>a
    <2> QED BY <1>0, <2>2 DEF Calm, CalmWords, Overflows, script
  <1>9. (host \in Waiting => size >= MinPayload)'
    BY <1>0, <1>d, <1>p, <1>f, <1>a DEF Waiting, firmware, script
  <1>10. (AnswerIsOwn /\ OnlyMishapsFail /\ Answered /\ RefusedMeansNotRun)'
    BY <1>0, <1>d, <1>p, <1>f, <1>a DEF AnswerIsOwn, OnlyMishapsFail, Answered,
       RefusedMeansNotRun, firmware, script, TypeOK, Overflows
  <1> QED BY <1>1, <1>2, <1>3, <1>4, <1>5, <1>6, <1>7, <1>8, <1>9, <1>10


\* The sketch's line editor takes any number of bytes.
LEMMA SuffixKept ==
  ASSUME TypeOK, Once, NEW n \in 1..Len(toDevice),
         toDevice' = SubSeq(toDevice, n + 1, Len(toDevice))
  PROVE  /\ toDevice' \in Seq(Bytes) /\ toDevice # <<>>
         /\ NoStart => NoStart'
         /\ toDevice[1].starts => NoStart'
         /\ \A i, j \in 1..Len(toDevice') : toDevice'[i].starts /\ toDevice'[j].starts => i = j
  <1>1. toDevice \in Seq(Bytes) /\ Len(toDevice) \in Nat /\ n \in Nat /\ n >= 1 /\ 1 \in 1..Len(toDevice)
    BY DEF TypeOK
  <1>2. /\ toDevice' \in Seq(Bytes) /\ Len(toDevice') = Len(toDevice) - n
        /\ \A i \in 1..(Len(toDevice) - n) : toDevice'[i] = toDevice[i + n]
    BY <1>1, SuffixFacts
  <1>n. toDevice' \in Seq(Bytes) /\ Len(toDevice') \in Nat
    BY <1>2
  <1>3. \A i \in 1..Len(toDevice') : i + n \in 1..Len(toDevice) /\ i + n # 1 /\ toDevice'[i] = toDevice[i + n]
    <2> TAKE i \in 1..Len(toDevice')
    <2>1. i \in 1..Len(toDevice')
      OBVIOUS
    <2>2. i \in 1..(Len(toDevice) - n)
      BY ONLY <2>1, <1>1, <1>2
    <2>3. i + n \in 1..Len(toDevice) /\ i + n # 1
      BY ONLY <2>2, <1>1
    <2> QED BY <2>2, <2>3, <1>2
  <1>4. \A b \in Bytes : ~b.starts => b \in Strays
    BY DEF Bytes, Strays
  <1>5. \A b \in Strays : ~b.starts
    BY DEF Strays
  <1>6. (\A i \in 1..Len(toDevice') : ~toDevice'[i].starts) => NoStart'
    <2> SUFFICES ASSUME \A i \in 1..Len(toDevice') : ~toDevice'[i].starts PROVE NoStart'
      OBVIOUS
    <2>1. \A i \in 1..Len(toDevice') : toDevice'[i] \in Strays
      BY <1>n, <1>4
    <2> QED BY ONLY <1>n, <2>1 DEF NoStart
  <1>7. ASSUME NoStart PROVE NoStart'
    <2>1. \A i \in 1..Len(toDevice) : ~toDevice[i].starts
      BY <1>7, <1>5 DEF NoStart
    <2> QED BY <2>1, <1>3, <1>6
  <1>8. ASSUME toDevice[1].starts PROVE NoStart'
    <2>1. \A i \in 1..Len(toDevice) : toDevice[i].starts => i = 1
      BY <1>8, <1>1 DEF Once
    <2>2. \A i \in 1..Len(toDevice') : ~toDevice'[i].starts
      BY <2>1, <1>3
    <2> QED BY <2>2, <1>6
  <1>9. ASSUME NEW i \in 1..Len(toDevice'), NEW j \in 1..Len(toDevice'),
               toDevice'[i].starts, toDevice'[j].starts
        PROVE  i = j
    <2>1. i + n \in 1..Len(toDevice) /\ j + n \in 1..Len(toDevice) /\ i + n = j + n
      BY <1>9, <1>3 DEF Once
    <2>2. i \in 1..Len(toDevice') /\ j \in 1..Len(toDevice')
      OBVIOUS
    <2>3. i \in Nat /\ j \in Nat /\ n \in Nat
      BY <2>2, <1>1, <1>n
    <2> QED BY ONLY <2>1, <2>3
  <1>10. toDevice # <<>>
    BY <1>1
  <1> QED BY <1>10, <1>n, <1>7, <1>8, <1>9

LEMMA ReadLineKeeps == Inv /\ ReadLine => Inv'
  <1> SUFFICES ASSUME Inv, ReadLine PROVE Inv'
    OBVIOUS
  <1> USE DEF Inv, ReadLine
  <1>t. TypeOK /\ Once /\ toHost \in Seq(Messages)
    BY DEF TypeOK
  <1>d. /\ toDevice' \in Seq(Bytes) /\ toDevice # <<>> /\ (NoStart => NoStart')
        /\ toDevice[1].starts => NoStart'
        /\ \A i, j \in 1..Len(toDevice') : toDevice'[i].starts /\ toDevice'[j].starts => i = j
    BY <1>t, TailKept DEF NextByte
  <1>p. /\ Prints /\ toHost' \in Seq(Messages)
        /\ toHost # <<>> => toHost' # <<>> /\ toHost'[1] = toHost[1]
        /\ PrintText => toHost' # <<>> /\ (OnlyText => toHost'[1] = Text)
    <2>1. Prints /\ (PrintText => toHost' # <<>> /\ (OnlyText => toHost'[1] = Text))
      BY <1>t, PrintTextPrints, SilencePrints
    <2> QED BY <2>1, <1>t DEF Prints
  <1>0. /\ fw = "line" /\ toDevice # <<>>
        /\ \/ asks = 1 /\ fw' = "loop" /\ asks' = 0 /\ PrintText
           \/ asks # 1 /\ fw' = "line" /\ asks' = asks - 1
           \/ fw' = "line" /\ asks' = asks
        /\ asks' \in 0..MaxAsks /\ (asks' > 0 <=> fw' = "line")
        /\ UNCHANGED <<board, count, want, own, stray, script, dtrSeen, runs, whole, misled,
                       broken, lost, mishaps>>
    BY <1>d, BoundsAssumption DEF TypeOK
  <1> HIDE DEF ReadLine
  <1>b. broken
    BY <1>0 DEF Unbroken
  <1>m. mishaps # 0
    BY <1>b DEF Calm
  <1>1. TypeOK'
    BY <1>0, <1>d, <1>p, <1>b, <1>m DEF TypeOK, firmware, script, Waiting, Failures
  <1>2. Once'
    BY <1>0, <1>d, <1>p, <1>b, <1>m DEF Prints, Once, TypeOK, firmware, script, Taken,
       NoStart, Waiting
  <1>3. Unbroken'
    BY <1>0, <1>d, <1>p, <1>b, <1>m DEF Unbroken, Pending, Arriving, AllThere,
       Overflows, Done, OnlyText, OwnOnly, NoStart, firmware, script, TypeOK, Waiting
  <1>4. Clean'
    BY <1>0, <1>d, <1>p, <1>b, <1>m DEF Clean, OnlyText, firmware, script, TypeOK,
       Waiting
  <1>5. Whereabouts'
    BY <1>0, <1>d, <1>p, <1>b, <1>m DEF Prints, Whereabouts, Pending, Arriving,
       AllThere, Overflows, Done, Ran, Unrun, Heralded, Taken, OnlyText, OwnOnly,
       NoStart, firmware, script, TypeOK, Waiting
  <1>6. Refused'
    BY <1>0, <1>d, <1>p, <1>b, <1>m DEF Refused, Unrun, Taken, NoStart, firmware,
       script, TypeOK, Waiting
  <1>7. Complete'
    BY <1>0, <1>d, <1>p, <1>b, <1>m DEF Complete, Unbroken, Done, OnlyText, OwnOnly,
       firmware, script, TypeOK, Waiting
  <1>8. Calm'
    BY <1>0, <1>d, <1>p, <1>b, <1>m DEF Calm, Unbroken, Overflows, firmware, script,
       TypeOK, Waiting, Dtr
  <1>9. (host \in Waiting => size >= MinPayload)'
    BY <1>0, <1>d, <1>p, <1>b, <1>m DEF Waiting, firmware, script
  <1>10. (AnswerIsOwn /\ OnlyMishapsFail /\ Answered /\ RefusedMeansNotRun)'
    BY <1>0, <1>d, <1>p, <1>b, <1>m DEF AnswerIsOwn, OnlyMishapsFail, Answered,
       RefusedMeansNotRun, firmware, script, TypeOK, Overflows
  <1> QED BY <1>1, <1>2, <1>3, <1>4, <1>5, <1>6, <1>7, <1>8, <1>9, <1>10

LEMMA ReadBytesKeeps == Inv /\ ReadBytes => Inv'
  <1> SUFFICES ASSUME Inv, ReadBytes PROVE Inv'
    OBVIOUS
  <1> USE DEF Inv, ReadBytes
  <1>t. TypeOK /\ Once /\ toHost \in Seq(Messages)
    BY DEF TypeOK
  <1>d. /\ toDevice' \in Seq(Bytes) /\ toDevice # <<>> /\ (NoStart => NoStart')
        /\ toDevice[1].starts => NoStart'
        /\ \A i, j \in 1..Len(toDevice') : toDevice'[i].starts /\ toDevice'[j].starts => i = j
    BY <1>t, SuffixKept
  <1>p. /\ Prints /\ toHost' \in Seq(Messages)
        /\ toHost # <<>> => toHost' # <<>> /\ toHost'[1] = toHost[1]
        /\ PrintText => toHost' # <<>> /\ (OnlyText => toHost'[1] = Text)
    <2>1. Prints /\ (PrintText => toHost' # <<>> /\ (OnlyText => toHost'[1] = Text))
      BY <1>t, PrintTextPrints, SilencePrints
    <2> QED BY <2>1, <1>t DEF Prints
  <1>0. /\ fw = "line" /\ toDevice # <<>> /\ PrintText
        /\ \/ asks = 1 /\ fw' = "loop" /\ asks' = 0
           \/ asks # 1 /\ fw' = "line" /\ asks' = asks - 1
        /\ asks' \in 0..MaxAsks /\ (asks' > 0 <=> fw' = "line")
        /\ UNCHANGED <<board, count, want, own, stray, script, dtrSeen, runs, whole, misled,
                       broken, lost, mishaps>>
    BY <1>d, BoundsAssumption DEF TypeOK
  <1> HIDE DEF ReadBytes
  <1>b. broken
    BY <1>0 DEF Unbroken
  <1>m. mishaps # 0
    BY <1>b DEF Calm
  <1>1. TypeOK'
    BY <1>0, <1>d, <1>p, <1>b, <1>m DEF TypeOK, firmware, script, Waiting, Failures
  <1>2. Once'
    BY <1>0, <1>d, <1>p, <1>b, <1>m DEF Prints, Once, TypeOK, firmware, script, Taken,
       NoStart, Waiting
  <1>3. Unbroken'
    BY <1>0, <1>d, <1>p, <1>b, <1>m DEF Unbroken, Pending, Arriving, AllThere,
       Overflows, Done, OnlyText, OwnOnly, NoStart, firmware, script, TypeOK, Waiting
  <1>4. Clean'
    BY <1>0, <1>d, <1>p, <1>b, <1>m DEF Clean, OnlyText, firmware, script, TypeOK,
       Waiting
  <1>5. Whereabouts'
    BY <1>0, <1>d, <1>p, <1>b, <1>m DEF Prints, Whereabouts, Pending, Arriving,
       AllThere, Overflows, Done, Ran, Unrun, Heralded, Taken, OnlyText, OwnOnly,
       NoStart, firmware, script, TypeOK, Waiting
  <1>6. Refused'
    BY <1>0, <1>d, <1>p, <1>b, <1>m DEF Refused, Unrun, Taken, NoStart, firmware,
       script, TypeOK, Waiting
  <1>7. Complete'
    BY <1>0, <1>d, <1>p, <1>b, <1>m DEF Complete, Unbroken, Done, OnlyText, OwnOnly,
       firmware, script, TypeOK, Waiting
  <1>8. Calm'
    BY <1>0, <1>d, <1>p, <1>b, <1>m DEF Calm, Unbroken, Overflows, firmware, script,
       TypeOK, Waiting, Dtr
  <1>9. (host \in Waiting => size >= MinPayload)'
    BY <1>0, <1>d, <1>p, <1>b, <1>m DEF Waiting, firmware, script
  <1>10. (AnswerIsOwn /\ OnlyMishapsFail /\ Answered /\ RefusedMeansNotRun)'
    BY <1>0, <1>d, <1>p, <1>b, <1>m DEF AnswerIsOwn, OnlyMishapsFail, Answered,
       RefusedMeansNotRun, firmware, script, TypeOK, Overflows
  <1> QED BY <1>1, <1>2, <1>3, <1>4, <1>5, <1>6, <1>7, <1>8, <1>9, <1>10


\* An answer of one element, and what it leaves true.
LEMMA StatusFacts ==
  ASSUME TypeOK, NEW code \in {"RECEIVE_ERROR", "PARAM_ERROR", "EXECUTE_ERROR"}, Say(<<Status(code)>>)
  PROVE  /\ toHost' \in Seq(Messages) /\ toHost' # <<>>
         /\ Len(toHost) \in Nat /\ Len(toHost') \in Nat
         /\ toHost # <<>> => toHost'[1] = toHost[1]
         /\ toHost = <<>> => toHost'[1].kind = "status" /\ toHost'[1].code = code
         /\ own /\ OnlyText => toHost' \in Seq(OwnWords)
         /\ own /\ OnlyText /\ code = "EXECUTE_ERROR" => toHost' \in Seq(ResultWords)
         /\ OnlyText /\ toHost # <<>> => toHost'[1] = Text
         /\ toHost \in Seq(UnansweredWords) => toHost' \in Seq(UnansweredWords)
         /\ toHost \in Seq(CalmWords) /\ code = "RECEIVE_ERROR" /\ Overflows => toHost' \in Seq(CalmWords)
  <1> DEFINE m == Status(code)
  <1>1. /\ m \in Messages /\ m.kind = "status" /\ m.code = code /\ m \in UnansweredWords
        /\ own => m \in OwnWords
        /\ own /\ code = "EXECUTE_ERROR" => m \in ResultWords
        /\ code = "RECEIVE_ERROR" /\ Overflows => m \in CalmWords
    BY DEF Status, Messages, UnansweredWords, OwnWords, ResultWords, CalmWords, Own,
       TypeOK
  <1> HIDE DEF m
  <1>2. \A S : m \in S => <<m>> \in Seq(S) /\ Len(<<m>>) = 1 /\ <<m>>[1] = m
    OBVIOUS
  <1>3. toHost' = toHost \o <<m>> /\ toHost \in Seq(Messages)
    BY DEF Say, TypeOK, m
  <1>4. \A S : toHost \in Seq(S) /\ m \in S => toHost' \in Seq(S)
    BY <1>2, <1>3, ConcatFacts
  <1>5. /\ Len(toHost') = Len(toHost) + 1 /\ Len(toHost) \in Nat
        /\ toHost # <<>> => toHost'[1] = toHost[1]
        /\ toHost = <<>> => toHost'[1] = m
    BY <1>1, <1>3
  <1>6. toHost' # <<>>
    BY <1>1, <1>4, <1>5, <1>3
  <1>7. OnlyText => toHost \in Seq(OwnWords) /\ toHost \in Seq(ResultWords)
    BY TextIsAMessage DEF OnlyText
  <1>8. OnlyText /\ toHost # <<>> => toHost'[1] = Text
    BY <1>5 DEF OnlyText
  <1>9. /\ own /\ OnlyText => toHost' \in Seq(OwnWords)
        /\ own /\ OnlyText /\ code = "EXECUTE_ERROR" => toHost' \in Seq(ResultWords)
    BY <1>1, <1>4, <1>7
  <1>10. /\ toHost' \in Seq(Messages)
         /\ toHost \in Seq(UnansweredWords) => toHost' \in Seq(UnansweredWords)
         /\ toHost \in Seq(CalmWords) /\ code = "RECEIVE_ERROR" /\ Overflows => toHost' \in Seq(CalmWords)
    BY <1>1, <1>3, <1>4
  <1> QED BY <1>1, <1>5, <1>6, <1>8, <1>9, <1>10

\* Nothing comes when more is to be read.
Late ==
  /\ fw = "count" \/ (fw = "bytes" /\ want > 0)
  /\ NothingThere /\ Refuse("RECEIVE_ERROR")
  /\ UNCHANGED <<board, count, want, asks, own, stray, script, dtrSeen, runs, misled, lost>>

LEMMA LateKeeps == Inv /\ Late => Inv'
  <1> SUFFICES ASSUME Inv, Late PROVE Inv'
    OBVIOUS
  <1> USE DEF Inv, Late
  <1>t. TypeOK /\ Say(<<Status("RECEIVE_ERROR")>>)
    BY DEF Refuse
  <1>0. /\ fw = "count" \/ (fw = "bytes" /\ want > 0)
        /\ fw' = "loop"
        /\ \/ toDevice = <<>> /\ UNCHANGED <<whole, broken, mishaps>>
           \/ whole' = FALSE /\ broken' = TRUE /\ mishaps' \in 0..MaxMishaps /\ mishaps' # 0
        /\ UNCHANGED <<board, count, want, asks, own, stray, script, dtrSeen, runs, misled, lost, toDevice>>
    BY BoundsAssumption DEF Refuse, NothingThere, Strike, TypeOK
  <1>p. /\ toHost' \in Seq(Messages) /\ toHost' # <<>>
        /\ toHost # <<>> => toHost'[1] = toHost[1]
        /\ toHost = <<>> => toHost'[1].kind = "status" /\ toHost'[1].code = "RECEIVE_ERROR"
        /\ own /\ OnlyText => toHost' \in Seq(OwnWords)
        /\ OnlyText /\ toHost # <<>> => toHost'[1] = Text
        /\ toHost \in Seq(UnansweredWords) => toHost' \in Seq(UnansweredWords)
        /\ toHost \in Seq(CalmWords) /\ Overflows => toHost' \in Seq(CalmWords)
    BY <1>t, StatusFacts
  <1> HIDE DEF Late
  <1>d. ASSUME Arriving, toDevice = <<>> PROVE Done' /\ Overflows
    BY <1>d, <1>0, <1>p, <1>t, BoundsAssumption DEF Arriving, Done, AllThere, OwnOnly,
       TypeOK
  <1>u. ~broken => Arriving
    BY <1>0 DEF Unbroken, Pending, Done
  <1>w. host \in Waiting /\ ~misled => Arriving \/ (Unrun /\ (whole /\ ~lost => Heralded))
    BY <1>0 DEF Whereabouts, Pending, Ran
  <1>h. Unrun \/ Arriving => Unrun'
    BY <1>0 DEF Unrun, Arriving, Taken, NoStart
  <1>1. TypeOK'
    BY <1>0, <1>p, <1>d, <1>u, <1>w, <1>h DEF TypeOK, firmware, script, Waiting,
       Failures
  <1>2. Once'
    BY <1>0, <1>p, <1>d, <1>u, <1>w, <1>h DEF Once, TypeOK, firmware, script, Taken,
       NoStart, Waiting
  <1>3. Unbroken'
    <2> SUFFICES ASSUME ~broken' PROVE Unbroken'
      BY DEF Unbroken
    <2>1. ~broken /\ toDevice = <<>> /\ UNCHANGED <<whole, broken, mishaps>>
      BY <1>0 DEF TypeOK
    <2>2. Done' /\ fw # "line" /\ ~stray /\ ~misled /\ whole
      BY <2>1, <1>d, <1>u DEF Unbroken
    <2>3. host # "ready"
      BY <2>1, <1>0 DEF Unbroken, Done
    <2> QED BY <1>0, <2>1, <2>2, <2>3 DEF Unbroken, script
  <1>4. Clean'
    BY <1>0, <1>p, <1>d, <1>u, <1>w, <1>h DEF Clean, OnlyText, firmware, script, TypeOK,
       Waiting
  <1>5. Whereabouts'
    <2> SUFFICES ASSUME host' \in Waiting, ~misled' PROVE Whereabouts'
      BY DEF Whereabouts
    <2>1. Unrun'
      BY <1>0, <1>w, <1>h DEF script
    <2>2. ASSUME whole', ~lost' PROVE Heralded'
      <3>1. toDevice = <<>> /\ whole /\ ~lost
        BY <1>0, <2>2
      <3>2. CASE Arriving
        BY <3>1, <3>2, <1>d DEF Heralded
      <3>3. CASE Heralded
        BY <3>3, <1>0, <1>p DEF Heralded, Done, script
      <3> QED BY <3>1, <3>2, <3>3, <1>0, <1>w DEF script
    <2> QED BY <2>1, <2>2 DEF Whereabouts
  <1>6. Refused'
    BY <1>0, <1>p, <1>d, <1>u, <1>w, <1>h DEF Refused, Unrun, Taken, NoStart, firmware,
       script, TypeOK, Waiting
  <1>7. Complete'
    <2> SUFFICES ASSUME ~broken', Done' PROVE Complete'
      BY DEF Complete
    <2>1. ~broken /\ Arriving
      BY <1>0, <1>u DEF TypeOK
    <2>2. host \notin {"size", "body"}
      BY <2>1, <1>0 DEF Unbroken, Done
    <2> QED BY <2>1, <2>2, <1>0, <1>p DEF Complete, Arriving, script
  <1>8. Calm'
    <2> SUFFICES ASSUME mishaps' = 0 PROVE Calm'
      BY DEF Calm
    <2>1. ~broken /\ ~lost /\ toDevice = <<>> /\ mishaps = 0 /\ UNCHANGED <<whole, broken, mishaps>>
      BY <1>0 DEF Calm
    <2>2. Overflows /\ (toHost \in Seq(CalmWords) => toHost' \in Seq(CalmWords))
      BY <2>1, <1>d, <1>u, <1>p
    <2> QED BY <1>0, <2>1, <2>2 DEF Calm, CalmWords, Overflows, script
  <1>9. (host \in Waiting => size >= MinPayload)'
    BY <1>0, <1>p, <1>d, <1>u, <1>w, <1>h DEF Waiting, firmware, script
  <1>10. (AnswerIsOwn /\ OnlyMishapsFail /\ Answered /\ RefusedMeansNotRun)'
    BY <1>0, <1>p, <1>d, <1>u, <1>w, <1>h DEF AnswerIsOwn, OnlyMishapsFail, Answered,
       RefusedMeansNotRun, firmware, script, TypeOK, Overflows
  <1> QED BY <1>1, <1>2, <1>3, <1>4, <1>5, <1>6, <1>7, <1>8, <1>9, <1>10


\* The count is there.
Counted ==
  /\ fw = "count" /\ NextByte
  /\ \E n \in IF own THEN {size} ELSE 0..MaxFrame :
       IF Fits(n)
         THEN fw' = "bytes" /\ count' = n /\ want' = n /\ UNCHANGED toHost
         ELSE Refuse("RECEIVE_ERROR") /\ UNCHANGED <<count, want>>
  /\ UNCHANGED <<whole, broken, mishaps>>
  /\ UNCHANGED <<board, asks, own, stray, script, dtrSeen, runs, misled, lost>>

LEMMA CountedKeeps == Inv /\ Counted => Inv'
  <1> SUFFICES ASSUME Inv, Counted PROVE Inv'
    OBVIOUS
  <1> USE DEF Inv, Counted
  <1>t. TypeOK /\ Once /\ size \in Nat /\ size < MaxFrame
    BY BoundsAssumption DEF TypeOK
  <1>d. /\ toDevice' \in Seq(Bytes) /\ Len(toDevice) \in Nat /\ Len(toDevice) >= 1
        /\ Len(toDevice') = Len(toDevice) - 1 /\ (NoStart => NoStart')
        /\ \A i, j \in 1..Len(toDevice') : toDevice'[i].starts /\ toDevice'[j].starts => i = j
    BY <1>t, TailKept DEF NextByte
  <1>0. /\ fw = "count" /\ toDevice # <<>>
        /\ \/ /\ fw' = "bytes" /\ count' \in 0..(MaxFrame - 1) /\ want' = count'
              /\ (own => count' = size) /\ toHost' = toHost
           \/ /\ fw' = "loop" /\ ~own /\ Say(<<Status("RECEIVE_ERROR")>>)
              /\ UNCHANGED <<count, want>>
        /\ UNCHANGED <<board, asks, own, stray, script, dtrSeen, runs, misled, lost, whole, broken, mishaps>>
    <2>1. PICK n \in IF own THEN {size} ELSE 0..MaxFrame :
             IF Fits(n)
               THEN fw' = "bytes" /\ count' = n /\ want' = n /\ UNCHANGED toHost
               ELSE Refuse("RECEIVE_ERROR") /\ UNCHANGED <<count, want>>
      OBVIOUS
    <2>2. n \in Nat /\ (own => n = size)
      BY <1>t, BoundsAssumption DEF TypeOK
    <2>3. CASE Fits(n)
      BY <2>1, <2>2, <2>3, BoundsAssumption DEF Fits, NextByte
    <2>4. CASE ~Fits(n)
      BY <2>1, <2>2, <2>4, <1>t DEF Fits, NextByte, Refuse
    <2> QED BY <2>3, <2>4
  <1>p. /\ toHost' \in Seq(Messages)
        /\ toHost # <<>> => toHost' # <<>> /\ toHost'[1] = toHost[1]
        /\ toHost \in Seq(UnansweredWords) => toHost' \in Seq(UnansweredWords)
    <2>1. CASE toHost' = toHost
      BY <2>1, <1>t DEF TypeOK
    <2>2. CASE Say(<<Status("RECEIVE_ERROR")>>)
      BY <2>2, <1>t, StatusFacts
    <2> QED BY <2>1, <2>2, <1>0
  <1> HIDE DEF Counted
  <1>a. ASSUME Arriving PROVE Arriving' /\ toHost' = toHost
    <2>1. /\ own' /\ runs' = 0 /\ NoStart' /\ fw' = "bytes" /\ count' = size /\ want' = size
          /\ toHost' = toHost /\ UNCHANGED <<board, size>>
      BY <1>a, <1>0, <1>d DEF Arriving, script
    <2>2. AllThere(want)'
      BY <1>a, <1>0, <2>1, <1>d, <1>t DEF Arriving, AllThere, Overflows
    <2> QED BY <1>a, <2>1, <2>2 DEF Arriving, OnlyText
  <1>u. ~broken => Arriving
    BY <1>0 DEF Unbroken, Pending, Done
  <1>w. host \in Waiting /\ ~misled =>
          (Arriving /\ host = "status") \/ (Unrun /\ (whole /\ ~lost => Heralded))
    BY <1>0 DEF Whereabouts, Pending, Ran, Unrun, Arriving, Taken
  <1>h. Unrun => Unrun'
    BY <1>0, <1>d DEF Unrun, Taken
  <1>1. TypeOK'
    BY <1>0, <1>d, <1>p DEF TypeOK, firmware, script, Waiting, Failures
  <1>2. Once'
    BY <1>0, <1>d, <1>p DEF Once, TypeOK, firmware, script, Taken, NoStart, Waiting
  <1>3. Unbroken'
    <2> SUFFICES ASSUME ~broken PROVE Unbroken'
      BY <1>0 DEF Unbroken
    <2>1. Arriving' /\ fw # "line" /\ ~stray /\ ~misled /\ whole /\ host \notin {"ready", "size", "body"}
      BY <1>0, <1>a, <1>u DEF Unbroken, Done
    <2> QED BY <1>0, <2>1 DEF Unbroken, script
  <1>4. Clean'
    BY <1>0, <1>d, <1>p DEF Clean, OnlyText, firmware, script, TypeOK, Waiting
  <1>5. Whereabouts'
    <2> SUFFICES ASSUME host' \in Waiting, ~misled' PROVE Whereabouts'
      BY DEF Whereabouts
    <2>1. CASE Arriving
      <3>1. host = "status"
        BY <2>1, <1>0, <1>w DEF script, Unrun, Arriving, Taken
      <3> QED BY <2>1, <3>1, <1>0, <1>a DEF Whereabouts, script
    <2>2. CASE Unrun /\ (whole /\ ~lost => Heralded)
      <3>1. Unrun'
        BY <2>2, <1>h
      <3>2. Heralded => Heralded'
        BY <1>0, <1>p DEF Heralded, Done, script
      <3> QED BY <2>2, <3>1, <3>2, <1>0 DEF Whereabouts
    <2> QED BY <2>1, <2>2, <1>0, <1>w DEF script
  <1>6. Refused'
    BY <1>0, <1>h DEF Refused, Unrun, Taken, NoStart, firmware, script, TypeOK, Waiting
  <1>7. Complete'
    <2> SUFFICES ASSUME ~broken PROVE ~Done'
      BY <1>0 DEF Complete
    <2> QED BY <1>a, <1>u DEF Arriving, Done
  <1>8. Calm'
    <2> SUFFICES ASSUME mishaps = 0 PROVE Calm'
      BY <1>0 DEF Calm
    <2>1. toHost' = toHost
      BY <1>u, <1>a DEF Calm
    <2> QED BY <1>0, <2>1 DEF Calm, CalmWords, Overflows, script
  <1>9. (host \in Waiting => size >= MinPayload)'
    BY <1>0, <1>d, <1>p DEF Waiting, firmware, script
  <1>10. (AnswerIsOwn /\ OnlyMishapsFail /\ Answered /\ RefusedMeansNotRun)'
    BY <1>0, <1>d, <1>p DEF AnswerIsOwn, OnlyMishapsFail, Answered, RefusedMeansNotRun,
       firmware, script, TypeOK, Overflows
  <1> QED BY <1>1, <1>2, <1>3, <1>4, <1>5, <1>6, <1>7, <1>8, <1>9, <1>10

LEMMA ReadCountKeeps == Inv /\ ReadCount => Inv'
  <1>1. ReadCount => Late \/ Counted
    BY DEF ReadCount, Late, Counted
  <1> QED BY <1>1, LateKeeps, CountedKeeps

\* A byte of the payload is there.
Took ==
  /\ fw = "bytes" /\ want > 0 /\ NextByte /\ want' = want - 1
  /\ UNCHANGED <<fw, toHost, whole, broken, mishaps>>
  /\ UNCHANGED <<board, count, asks, own, stray, script, dtrSeen, runs, misled, lost>>

LEMMA TookKeeps == Inv /\ Took => Inv'
  <1> SUFFICES ASSUME Inv, Took PROVE Inv'
    OBVIOUS
  <1> USE DEF Inv, Took
  <1>t. TypeOK /\ Once /\ size \in Nat /\ want \in Nat
    BY BoundsAssumption DEF TypeOK
  <1>d. /\ toDevice' \in Seq(Bytes) /\ Len(toDevice) \in Nat /\ Len(toDevice) >= 1
        /\ Len(toDevice') = Len(toDevice) - 1 /\ (NoStart => NoStart')
        /\ \A i, j \in 1..Len(toDevice') : toDevice'[i].starts /\ toDevice'[j].starts => i = j
    BY <1>t, TailKept DEF NextByte
  <1>0. /\ fw = "bytes" /\ want > 0 /\ want' = want - 1 /\ toDevice # <<>>
        /\ UNCHANGED <<fw, toHost, whole, broken, mishaps>>
        /\ UNCHANGED <<board, count, asks, own, stray, script, dtrSeen, runs, misled, lost>>
    BY DEF NextByte
  <1>p. /\ toHost' \in Seq(Messages) /\ toHost' = toHost
    BY <1>0 DEF TypeOK
  <1> HIDE DEF Took
  <1>a. ASSUME Arriving PROVE Arriving' /\ toHost' = toHost
    <2>1. /\ own' /\ runs' = 0 /\ NoStart' /\ fw' = "bytes" /\ count' = size
          /\ toHost' = toHost /\ UNCHANGED <<board, size>>
      BY <1>a, <1>0, <1>d DEF Arriving, script
    <2>2. AllThere(want)'
      BY <1>a, <1>0, <2>1, <1>d, <1>t DEF Arriving, AllThere, Overflows
    <2> QED BY <1>a, <2>1, <2>2 DEF Arriving, OnlyText
  <1>u. ~broken => Arriving
    BY <1>0 DEF Unbroken, Pending, Done
  <1>w. host \in Waiting /\ ~misled =>
          (Arriving /\ host = "status") \/ (Unrun /\ (whole /\ ~lost => Heralded))
    BY <1>0 DEF Whereabouts, Pending, Ran, Unrun, Arriving, Taken
  <1>h. Unrun => Unrun'
    BY <1>0, <1>d DEF Unrun, Taken
  <1>1. TypeOK'
    BY <1>0, <1>d, <1>p DEF TypeOK, firmware, script, Waiting, Failures
  <1>2. Once'
    BY <1>0, <1>d, <1>p DEF Once, TypeOK, firmware, script, Taken, NoStart, Waiting
  <1>3. Unbroken'
    <2> SUFFICES ASSUME ~broken PROVE Unbroken'
      BY <1>0 DEF Unbroken
    <2>1. Arriving' /\ fw # "line" /\ ~stray /\ ~misled /\ whole /\ host \notin {"ready", "size", "body"}
      BY <1>0, <1>a, <1>u DEF Unbroken, Done
    <2> QED BY <1>0, <2>1 DEF Unbroken, script
  <1>4. Clean'
    BY <1>0, <1>d, <1>p DEF Clean, OnlyText, firmware, script, TypeOK, Waiting
  <1>5. Whereabouts'
    <2> SUFFICES ASSUME host' \in Waiting, ~misled' PROVE Whereabouts'
      BY DEF Whereabouts
    <2>1. CASE Arriving
      <3>1. host = "status"
        BY <2>1, <1>0, <1>w DEF script, Unrun, Arriving, Taken
      <3> QED BY <2>1, <3>1, <1>0, <1>a DEF Whereabouts, script
    <2>2. CASE Unrun /\ (whole /\ ~lost => Heralded)
      <3>1. Unrun'
        BY <2>2, <1>h
      <3>2. Heralded => Heralded'
        BY <1>0, <1>p DEF Heralded, Done, script
      <3> QED BY <2>2, <3>1, <3>2, <1>0 DEF Whereabouts
    <2> QED BY <2>1, <2>2, <1>0, <1>w DEF script
  <1>6. Refused'
    BY <1>0, <1>h DEF Refused, Unrun, Taken, NoStart, firmware, script, TypeOK, Waiting
  <1>7. Complete'
    <2> SUFFICES ASSUME ~broken PROVE ~Done'
      BY <1>0 DEF Complete
    <2> QED BY <1>a, <1>u DEF Arriving, Done
  <1>8. Calm'
    BY <1>0 DEF Calm, CalmWords, Overflows, script
  <1>9. (host \in Waiting => size >= MinPayload)'
    BY <1>0, <1>d, <1>p DEF Waiting, firmware, script
  <1>10. (AnswerIsOwn /\ OnlyMishapsFail /\ Answered /\ RefusedMeansNotRun)'
    BY <1>0, <1>d, <1>p DEF AnswerIsOwn, OnlyMishapsFail, Answered, RefusedMeansNotRun,
       firmware, script, TypeOK, Overflows
  <1> QED BY <1>1, <1>2, <1>3, <1>4, <1>5, <1>6, <1>7, <1>8, <1>9, <1>10

LEMMA ReadPayloadKeeps == Inv /\ ReadPayload => Inv'
  <1>1. ReadPayload => Late \/ Took
    BY DEF ReadPayload, Late, Took, More
  <1> QED BY <1>1, LateKeeps, TookKeeps

LEMMA UnpackKeeps == Inv /\ Unpack => Inv'
  <1> SUFFICES ASSUME Inv, Unpack PROVE Inv'
    OBVIOUS
  <1> USE DEF Inv, Unpack
  <1>t. TypeOK /\ Once /\ size \in Nat /\ want \in Nat /\ count \in Nat /\ Len(toDevice) \in Nat
    BY BoundsAssumption DEF TypeOK
  <1>0. /\ fw = "bytes" /\ want = 0
        /\ \/ fw' = "run" /\ toHost' = toHost
           \/ fw' = "loop" /\ (~own \/ count < MinPayload) /\ Say(<<Status("PARAM_ERROR")>>)
        /\ UNCHANGED <<board, count, want, asks, own, stray, script, dtrSeen, toDevice, runs,
                       whole, misled, broken, lost, mishaps>>
    BY <1>t DEF More, TooShort, Refuse
  <1>p. /\ toHost' \in Seq(Messages)
        /\ toHost # <<>> => toHost' # <<>> /\ toHost'[1] = toHost[1]
        /\ toHost \in Seq(UnansweredWords) => toHost' \in Seq(UnansweredWords)
    <2>1. CASE toHost' = toHost
      BY <2>1, <1>t DEF TypeOK
    <2>2. CASE Say(<<Status("PARAM_ERROR")>>)
      BY <2>2, <1>t, StatusFacts
    <2> QED BY <2>1, <2>2, <1>0
  <1> HIDE DEF Unpack
  <1>a. ASSUME Arriving PROVE Arriving' /\ toHost' = toHost
    <2>1. toDevice = <<>> /\ own /\ count = size /\ size >= MinPayload
      BY <1>a, <1>0, <1>t DEF Arriving, AllThere
    <2>2. fw' = "run" /\ toHost' = toHost
      BY <2>1, <1>0, <1>t, BoundsAssumption
    <2> QED BY <1>a, <2>1, <2>2, <1>0 DEF Arriving, OnlyText, NoStart, script
  <1>u. ~broken => Arriving
    BY <1>0 DEF Unbroken, Pending, Done
  <1>w. host \in Waiting /\ ~misled =>
          (Arriving /\ host = "status") \/ (Unrun /\ (whole /\ ~lost => Heralded))
    BY <1>0 DEF Whereabouts, Pending, Ran, Unrun, Arriving, Taken
  <1>h. Unrun => Unrun'
    BY <1>0 DEF Unrun, Taken, NoStart
  <1>1. TypeOK'
    BY <1>0, <1>p DEF TypeOK, firmware, script, Waiting, Failures
  <1>2. Once'
    BY <1>0, <1>p DEF Once, TypeOK, firmware, script, Taken, NoStart, Waiting
  <1>3. Unbroken'
    <2> SUFFICES ASSUME ~broken PROVE Unbroken'
      BY <1>0 DEF Unbroken
    <2>1. Arriving' /\ fw # "line" /\ ~stray /\ ~misled /\ whole /\ host \notin {"ready", "size", "body"}
      BY <1>0, <1>a, <1>u DEF Unbroken, Done
    <2> QED BY <1>0, <2>1 DEF Unbroken, script
  <1>4. Clean'
    BY <1>0, <1>p DEF Clean, OnlyText, firmware, script, TypeOK, Waiting
  <1>5. Whereabouts'
    <2> SUFFICES ASSUME host' \in Waiting, ~misled' PROVE Whereabouts'
      BY DEF Whereabouts
    <2>1. CASE Arriving
      <3>1. host = "status"
        BY <2>1, <1>0, <1>w DEF script, Unrun, Arriving, Taken
      <3> QED BY <2>1, <3>1, <1>0, <1>a DEF Whereabouts, script
    <2>2. CASE Unrun /\ (whole /\ ~lost => Heralded)
      <3>1. Unrun'
        BY <2>2, <1>h
      <3>2. Heralded => Heralded'
        BY <1>0, <1>p DEF Heralded, Done, script
      <3> QED BY <2>2, <3>1, <3>2, <1>0 DEF Whereabouts
    <2> QED BY <2>1, <2>2, <1>0, <1>w DEF script
  <1>6. Refused'
    BY <1>0, <1>h DEF Refused, Unrun, Taken, NoStart, firmware, script, TypeOK, Waiting
  <1>7. Complete'
    <2> SUFFICES ASSUME ~broken PROVE ~Done'
      BY <1>0 DEF Complete
    <2> QED BY <1>a, <1>u DEF Arriving, Done
  <1>8. Calm'
    <2> SUFFICES ASSUME mishaps = 0 PROVE Calm'
      BY <1>0 DEF Calm
    <2>1. toHost' = toHost
      BY <1>u, <1>a DEF Calm
    <2> QED BY <1>0, <2>1 DEF Calm, CalmWords, Overflows, script
  <1>9. (host \in Waiting => size >= MinPayload)'
    BY <1>0, <1>p DEF Waiting, firmware, script
  <1>10. (AnswerIsOwn /\ OnlyMishapsFail /\ Answered /\ RefusedMeansNotRun)'
    BY <1>0, <1>p DEF AnswerIsOwn, OnlyMishapsFail, Answered, RefusedMeansNotRun,
       firmware, script, TypeOK, Overflows
  <1> QED BY <1>1, <1>2, <1>3, <1>4, <1>5, <1>6, <1>7, <1>8, <1>9, <1>10

LEMMA AnswerFacts ==
  ASSUME TypeOK, Say(Answer)
  PROVE  /\ toHost' \in Seq(Messages) /\ toHost' # <<>>
         /\ Len(toHost) \in Nat /\ Len(toHost') \in Nat /\ Len(toHost') >= 3
         /\ toHost # <<>> => toHost'[1] = toHost[1]
         /\ toHost = <<>> => /\ toHost'[1].kind = "status" /\ toHost'[2].kind = "size"
                             /\ toHost'[3].kind = "body"
         /\ OnlyText /\ toHost # <<>> => toHost'[1] = Text
         /\ own /\ OnlyText => toHost' \in Seq(OwnWords) /\ toHost' \in Seq(ResultWords)
         /\ ~own /\ toHost \in Seq(UnansweredWords) => toHost' \in Seq(UnansweredWords)
         /\ toHost \in Seq(CalmWords) => toHost' \in Seq(CalmWords)
  <1> DEFINE a == Status("OK")
             b == [Status("OK") EXCEPT !.kind = "size"]
             c == [Status("OK") EXCEPT !.kind = "body"]
  <1>1. /\ a = [kind |-> "status", code |-> "OK", mine |-> own]
        /\ b = [kind |-> "size", code |-> "OK", mine |-> own]
        /\ c = [kind |-> "body", code |-> "OK", mine |-> own]
    BY DEF Status
  <1>2. /\ a \in Messages /\ b \in Messages /\ c \in Messages
        /\ a.kind = "status" /\ b.kind = "size" /\ c.kind = "body"
        /\ own => /\ a \in OwnWords /\ b \in OwnWords /\ c \in OwnWords
                  /\ a \in ResultWords /\ b \in ResultWords /\ c \in ResultWords
        /\ ~own => a \in UnansweredWords /\ b \in UnansweredWords /\ c \in UnansweredWords
        /\ a \in CalmWords /\ b \in CalmWords /\ c \in CalmWords
    <2> HIDE DEF a, b, c
    <2> QED BY <1>1 DEF Messages, UnansweredWords, OwnWords, ResultWords, CalmWords,
       Own, TypeOK
  <1>3. Answer = <<a, b, c>>
    BY DEF Answer
  <1> HIDE DEF a, b, c
  <1>4. /\ \A S : a \in S /\ b \in S /\ c \in S => Answer \in Seq(S)
        /\ Len(Answer) = 3 /\ Answer[1] = a /\ Answer[2] = b /\ Answer[3] = c
    BY <1>3
  <1>5. toHost' = toHost \o Answer /\ toHost \in Seq(Messages) /\ Answer \in Seq(Messages)
    BY <1>2, <1>4 DEF Say, TypeOK
  <1>6. \A S : toHost \in Seq(S) /\ Answer \in Seq(S) => toHost' \in Seq(S)
    BY <1>5, ConcatFacts
  <1>7. /\ Len(toHost') = Len(toHost) + 3 /\ Len(toHost) \in Nat
        /\ toHost # <<>> => toHost'[1] = toHost[1]
        /\ toHost = <<>> => toHost' = Answer
    <2>1. \A s, t \in Seq(Messages) :
            /\ Len(s \o t) = Len(s) + Len(t)
            /\ \A i \in 1..Len(s) : (s \o t)[i] = s[i]
      BY ConcatFacts
    <2>2. Len(toHost) \in Nat /\ (toHost # <<>> => 1 \in 1..Len(toHost))
      BY <1>5
    <2>3. toHost = <<>> => toHost' = Answer
      BY <1>5, ConcatEmptySeq
    <2> QED BY <2>1, <2>2, <2>3, <1>4, <1>5
  <1>8. toHost' \in Seq(Messages) /\ toHost' # <<>>
    BY <1>5, <1>6, <1>7
  <1>9. OnlyText => toHost \in Seq(OwnWords) /\ toHost \in Seq(ResultWords)
    BY TextIsAMessage DEF OnlyText
  <1>10. OnlyText /\ toHost # <<>> => toHost'[1] = Text
    BY <1>7 DEF OnlyText
  <1>11. own /\ OnlyText => toHost' \in Seq(OwnWords) /\ toHost' \in Seq(ResultWords)
    BY <1>2, <1>4, <1>6, <1>9
  <1>12. /\ ~own /\ toHost \in Seq(UnansweredWords) => toHost' \in Seq(UnansweredWords)
         /\ toHost \in Seq(CalmWords) => toHost' \in Seq(CalmWords)
    BY <1>2, <1>4, <1>6
  <1> QED BY <1>2, <1>4, <1>7, <1>8, <1>10, <1>11, <1>12

LEMMA ExecuteKeeps == Inv /\ Execute => Inv'
  <1> SUFFICES ASSUME Inv, Execute PROVE Inv'
    OBVIOUS
  <1> USE DEF Inv, Execute
  <1>t. TypeOK /\ Once
    OBVIOUS
  <1>0. /\ fw = "run" /\ fw' = "loop" /\ runs' = IF own THEN runs + 1 ELSE runs
        /\ \/ Say(Answer) /\ UNCHANGED mishaps
           \/ /\ Say(<<Status("EXECUTE_ERROR")>>) /\ (own => mishaps' # 0)
              /\ mishaps' \in 0..MaxMishaps /\ (mishaps = 0 \/ mishaps' # 0)
        /\ UNCHANGED <<board, count, want, asks, own, stray, script, dtrSeen, toDevice,
                       whole, misled, broken, lost>>
    BY BoundsAssumption DEF Refuse, Strike, TypeOK
  <1>p. /\ toHost' \in Seq(Messages) /\ toHost' # <<>>
        /\ toHost # <<>> => toHost'[1] = toHost[1]
        /\ toHost = <<>> => /\ toHost'[1].kind = "status"
                            /\ toHost'[1].code = "OK" => /\ Len(toHost') >= 3
                                                         /\ toHost'[2].kind = "size"
                                                         /\ toHost'[3].kind = "body"
        /\ OnlyText /\ toHost # <<>> => toHost'[1] = Text
        /\ own /\ OnlyText => toHost' \in Seq(OwnWords) /\ toHost' \in Seq(ResultWords)
        /\ ~own /\ toHost \in Seq(UnansweredWords) => toHost' \in Seq(UnansweredWords)
        /\ Say(Answer) /\ toHost \in Seq(CalmWords) => toHost' \in Seq(CalmWords)
    <2>1. CASE Say(Answer)
      BY <2>1, <1>t, AnswerFacts
    <2>2. CASE Say(<<Status("EXECUTE_ERROR")>>) /\ ~Say(Answer)
      BY <2>2, <1>t, StatusFacts
    <2> QED BY <2>1, <2>2, <1>0
  <1>r. /\ own => NoStart /\ runs = 0 /\ runs' = 1
        /\ ~own => runs' = runs /\ ~Taken
        /\ ~Taken'
    BY <1>0, <1>t DEF Once, Taken, TypeOK
  <1> HIDE DEF Execute
  <1>u. ~broken => Arriving
    BY <1>0 DEF Unbroken, Pending, Done
  <1>w. host \in Waiting /\ ~misled =>
          (Arriving /\ host = "status") \/ (Unrun /\ (whole /\ ~lost => Heralded))
    BY <1>0 DEF Whereabouts, Pending, Ran, Unrun, Arriving, Taken
  <1>a. ASSUME Arriving
        PROVE  own /\ toDevice = <<>> /\ Done' /\ runs' = 1 /\ toHost' \in Seq(ResultWords)
    BY <1>a, <1>0, <1>p, <1>r DEF Arriving, Done, OwnOnly
  <1>h. Unrun => Unrun'
    BY <1>0, <1>r DEF Unrun, Taken, NoStart
  <1>1. TypeOK'
    BY <1>0, <1>p, <1>r DEF TypeOK, firmware, script, Waiting, Failures
  <1>2. Once'
    BY <1>0, <1>p, <1>r DEF Once, TypeOK, firmware, script, Taken, NoStart, Waiting
  <1>3. Unbroken'
    <2> SUFFICES ASSUME ~broken PROVE Unbroken'
      BY <1>0 DEF Unbroken
    <2>1. Done' /\ fw # "line" /\ ~stray /\ ~misled /\ whole /\ host # "ready"
      BY <1>0, <1>a, <1>u DEF Unbroken, Done
    <2> QED BY <1>0, <2>1 DEF Unbroken, script
  <1>4. Clean'
    BY <1>0, <1>p, <1>r DEF Clean, OnlyText, firmware, script, TypeOK, Waiting
  <1>5. Whereabouts'
    <2> SUFFICES ASSUME host' \in Waiting, ~misled' PROVE Whereabouts'
      BY DEF Whereabouts
    <2>1. CASE Arriving
      <3>1. Ran'
        BY <2>1, <1>0, <1>a DEF Ran
      <3> QED BY <3>1 DEF Whereabouts
    <2>2. CASE Unrun /\ (whole /\ ~lost => Heralded)
      <3>1. Unrun'
        BY <2>2, <1>h
      <3>2. Heralded => Heralded'
        BY <1>0, <1>p DEF Heralded, Done, script
      <3> QED BY <2>2, <3>1, <3>2, <1>0 DEF Whereabouts
    <2> QED BY <2>1, <2>2, <1>0, <1>w DEF script
  <1>6. Refused'
    BY <1>0, <1>h DEF Refused, Unrun, Taken, NoStart, firmware, script, TypeOK, Waiting
  <1>7. Complete'
    <2> SUFFICES ASSUME ~broken PROVE Complete'
      BY <1>0 DEF Complete
    <2>1. Arriving /\ host \notin {"size", "body"}
      BY <1>0, <1>u DEF Unbroken, Done
    <2> QED BY <2>1, <1>0, <1>p DEF Complete, Arriving, script
  <1>8. Calm'
    <2> SUFFICES ASSUME mishaps' = 0 PROVE Calm'
      BY DEF Calm
    <2>1. own /\ Say(Answer) /\ mishaps = 0 /\ ~broken /\ ~lost
      <3>1. mishaps = 0 /\ ~broken /\ ~lost
        BY <1>0 DEF Calm
      <3> QED BY <3>1, <1>0, <1>a, <1>u
    <2> QED BY <1>0, <1>p, <2>1 DEF Calm, CalmWords, Overflows, script
  <1>9. (host \in Waiting => size >= MinPayload)'
    BY <1>0, <1>p, <1>r DEF Waiting, firmware, script
  <1>10. (AnswerIsOwn /\ OnlyMishapsFail /\ Answered /\ RefusedMeansNotRun)'
    <2>1. AnswerIsOwn' /\ Answered'
      BY <1>0, <1>2 DEF AnswerIsOwn, Answered, Once, script
    <2>2. OnlyMishapsFail'
      BY <1>0 DEF OnlyMishapsFail, script
    <2>3. RefusedMeansNotRun'
      BY <1>0, <1>6 DEF RefusedMeansNotRun, Refused, Unrun, script
    <2> QED BY <2>1, <2>2, <2>3
  <1> QED BY <1>1, <1>2, <1>3, <1>4, <1>5, <1>6, <1>7, <1>8, <1>9, <1>10


-----------------------------------------------------------------------------
(* The specification *)

LEMMA InitHolds == Init => Inv
  <1> SUFFICES ASSUME Init PROVE Inv
    OBVIOUS
  <1> USE DEF Init
  <1>0. \A S : <<>> \in Seq(S)
    BY EmptySeq
  <1>1. TypeOK
    <2>1. 0 \in 0..(MaxFrame - 1) /\ 0 \in 0..0 /\ 0 \in 0..1 /\ 0 \in 0..MaxAsks /\ 0 \in 0..MaxMishaps /\ ~(0 > 0)
      BY BoundsAssumption
    <2>2. toDevice \in Seq(Bytes) /\ toHost \in Seq(Messages)
      BY <1>0
    <2>3. {dtrSeen, own, whole, stray, misled, broken, lost} \subseteq BOOLEAN
      OBVIOUS
    <2>4. /\ count \in 0..(MaxFrame - 1) /\ want \in 0..count /\ size \in 0..(MaxFrame - 1)
          /\ asks \in 0..MaxAsks /\ (asks > 0 <=> fw = "line") /\ runs \in 0..1
          /\ mishaps \in 0..MaxMishaps
      BY <2>1
    <2>5. /\ host \in {"closed", "opening", "ready"} \cup Waiting
          /\ fw \in {"loop", "count", "bytes", "run", "line"}
          /\ last \in {"none", "answer", "foreign"} \cup Failures /\ board \in Boards
      OBVIOUS
    <2> HIDE DEF Init
    <2> QED BY <2>2, <2>3, <2>4, <2>5 DEF TypeOK
  <1>2. Once /\ Done /\ OnlyText
    BY <1>0 DEF Once, Done, OwnOnly, OnlyText, NoStart, Taken
  <1>3. Unbroken /\ Clean /\ Whereabouts /\ Refused /\ Complete
    BY <1>2 DEF Unbroken, Clean, Whereabouts, Refused, Complete, Waiting
  <1>4. Calm /\ (host \in Waiting => size >= MinPayload)
    BY DEF Calm, Waiting
  <1>5. AnswerIsOwn /\ OnlyMishapsFail /\ Answered /\ RefusedMeansNotRun
    BY DEF AnswerIsOwn, OnlyMishapsFail, Answered, RefusedMeansNotRun
  <1> QED BY <1>1, <1>2, <1>3, <1>4, <1>5 DEF Inv

LEMMA NextKeeps == Inv /\ [Next]_vars => Inv'
  <1> SUFFICES ASSUME Inv, [Next]_vars PROVE Inv'
    OBVIOUS
  <1>1. CASE Script
    BY <1>1, SettleKeeps, ReadStatusKeeps, ReadSizeKeeps, ReadBodyKeeps, TimeoutKeeps
       DEF Script
  <1>2. CASE Firmware
    BY <1>2, NoticeDtrKeeps, ReadCommandKeeps, ReadLineKeeps, ReadBytesKeeps,
       ReadCountKeeps,
       ReadPayloadKeeps, UnpackKeeps, ExecuteKeeps DEF Firmware
  <1>3. CASE Environment
    BY <1>3, OpenKeeps, SendKeeps, FinishKeeps, KillKeeps, LoseOutputKeeps, ButtonKeeps
       DEF Environment
  <1>4. CASE UNCHANGED vars
    <2>1. /\ UNCHANGED <<board, host, fw, count, want, asks, dtrSeen, toDevice, toHost, size, own,
                         last, runs, whole, misled, stray, broken, lost, mishaps>>
      BY <1>4 DEF vars, firmware, script
    <2> USE DEF Inv
    <2>2. TypeOK' /\ Once' /\ (host \in Waiting => size >= MinPayload)'
      BY <2>1 DEF TypeOK, Once, NoStart, Taken, Waiting
    <2>3. Pending' = Pending /\ Arriving' = Arriving /\ Done' = Done /\ OnlyText' = OnlyText
          /\ Unrun' = Unrun /\ Ran' = Ran /\ Heralded' = Heralded
      BY <2>1 DEF Pending, Arriving, AllThere, Overflows, Done, OnlyText, OwnOnly,
         Unrun, Ran,
                  Heralded, NoStart, Taken
    <2>4. Unbroken' /\ Clean' /\ Whereabouts' /\ Refused' /\ Complete' /\ Calm'
      BY <2>1, <2>3 DEF Unbroken, Clean, Whereabouts, Refused, Complete, Calm,
         CalmWords, Overflows,
                        Waiting
    <2>5. (AnswerIsOwn /\ OnlyMishapsFail /\ Answered /\ RefusedMeansNotRun)'
      BY <2>1 DEF AnswerIsOwn, OnlyMishapsFail, Answered, RefusedMeansNotRun
    <2> QED BY <2>2, <2>4, <2>5
  <1> QED BY <1>1, <1>2, <1>3, <1>4 DEF Next

LEMMA InvHolds == Spec => []Inv
  <1> QED BY InitHolds, NextKeeps, PTL DEF Spec

(***************************************************************************)
(* Every variable keeps its type: no frame is longer than the buffer, and  *)
(* no request is run twice.                                                *)
(***************************************************************************)
THEOREM TypeCorrect == Spec => []TypeOK
  <1>1. Inv => TypeOK
    BY DEF Inv
  <1> QED BY InvHolds, <1>1, PTL

(***************************************************************************)
(* The answer the script takes is that of its own request, which went to   *)
(* the chip exactly once, unless the request got stuck, or an earlier one  *)
(* did and either output was lost or the script already took the answer of *)
(* another.                                                                *)
(***************************************************************************)
THEOREM OwnAnswer == Spec => []AnswerIsOwn
  <1>1. Inv => AnswerIsOwn
    BY DEF Inv
  <1> QED BY InvHolds, <1>1, PTL

(***************************************************************************)
(* A request that was refused as damaged or wrong has not been to the      *)
(* chip, unless the script took the answer of another before.              *)
(***************************************************************************)
THEOREM RefusalSafe == Spec => []RefusedMeansNotRun
  <1>1. Inv => RefusedMeansNotRun
    BY DEF Inv
  <1> QED BY InvHolds, <1>1, PTL

(***************************************************************************)
(* Without a mishap every request is answered with success, or refused     *)
(* because it does not fit into the input buffer of the Arduino.           *)
(***************************************************************************)
THEOREM CalmLine == Spec => []OnlyMishapsFail
  <1>1. Inv => OnlyMishapsFail
    BY DEF Inv
  <1> QED BY InvHolds, <1>1, PTL

(***************************************************************************)
(* A byte of a request is taken for an interactive command only if a       *)
(* request was delayed or cut off.                                         *)
(***************************************************************************)
THEOREM NothingReadAstray == Spec => []NothingStray
  <1>1. Inv => NothingStray
    BY DEF Inv, Unbroken, NothingStray
  <1> QED BY InvHolds, <1>1, PTL

(***************************************************************************)
(* The script is left without an answer only if a request was delayed or   *)
(* cut off, or the answer to this very request was lost.                   *)
(***************************************************************************)
THEOREM NoSilence == Spec => []Answered
  <1>1. Inv => Answered
    BY DEF Inv
  <1> QED BY InvHolds, <1>1, PTL
=============================================================================
