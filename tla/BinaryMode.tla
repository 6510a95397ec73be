------------------------------ MODULE BinaryMode ------------------------------
(***************************************************************************)
(* One do_transaction of talk_to_sha204.py after the other, against the    *)
(* main loop of sha204_playground.cpp, or of the sketch of that name, with *)
(* its binary mode, over a serial line.                                    *)
(*                                                                         *)
(* A request is the byte BINARY_MODE_CHAR, a count and a payload. Nothing  *)
(* in it marks its end or its parts: the firmware waits a fixed time and   *)
(* then takes the bytes that are there. If some are not there yet, it      *)
(* answers with an error and goes back to its main loop, where what comes  *)
(* late is read as interactive commands, one byte at a time; some of these *)
(* print, some ask for lines of input and take all that follows for it.    *)
(*                                                                         *)
(* Two seconds are taken to be enough for everything the firmware has to   *)
(* do (100 ms and 3 ms a byte for a frame, some 600 ms for a command that  *)
(* fails every time it can): Settle and Timeout wait for a Quiet firmware. *)
(*                                                                         *)
(* The AVR firmware has its own USB stack, which makes the host wait when  *)
(* it has no room; it sees DTR and has a button. The sketch has neither,   *)
(* its line editor ends with a pause instead of a carriage return, and     *)
(* behind a UART its input buffer is small: what does not fit is lost.     *)
(***************************************************************************)
EXTENDS Integers, Sequences

CONSTANTS
  Payloads,    \* the requests: sequences of Kinds
  MinPayload,  \* a payload has idle, opcode, param1 and two bytes of param2
  Boards,      \* what the firmware runs on: "avr", "arduino"
  SerialRoom,  \* Arduino: how many bytes of input wait to be read
  MaxFrame,    \* MAX_BUFFER_SIZE: the frame buffer, one byte of it for the count
  MaxBacklog,  \* bound: most bytes left on the line when a request is sent
  MaxAsks,     \* most lines of input an interactive command asks for
  Mishaps,     \* the mishaps that may happen
  MaxMishaps   \* how many of them in a behaviour

\* What a byte is to the main loop: BINARY_MODE_CHAR, a command that asks for
\* input, a carriage return, anything else
Kinds == {"frame", "prompt", "enter", "plain"}

ASSUME PayloadsAssumption ==
  \A p \in Payloads : p \in Seq(Kinds) /\ Len(p) \in MinPayload..(MaxFrame - 1)
ASSUME BoundsAssumption ==
  /\ MinPayload \in Nat /\ MaxFrame \in Nat \ {0} /\ SerialRoom \in Nat /\ MaxBacklog \in Nat
  /\ MaxAsks \in Nat \ {0} /\ MaxMishaps \in Nat
ASSUME BoardsAssumption == Boards \subseteq {"avr", "arduino"}
ASSUME MishapsAssumption == Mishaps \subseteq {"stall", "lost", "kill", "chip", "button"}

VARIABLES
  board,     \* never changes
  host,      \* the script: closed, opening, ready, or what it reads next
  fw,        \* where the firmware is
  count,     \* receive_serial_binary_transaction: n_bytes
  want,      \* how many of them are still to be read
  asks,      \* lines of input the interactive command still asks for
  dtrSeen,   \* prev_dtr
  toDevice,  \* bytes on their way to the firmware
  toHost,    \* bytes on their way to the script
  size,      \* length of the current request's payload
  own,       \* ghost: the frame being read or run is the current request
  last,      \* ghost: how the script's last transaction ended
  runs,      \* ghost: how often the current request went to the chip
  whole,     \* ghost: the current request got to the firmware in one piece
  misled,    \* ghost: this script took another request's answer before the current request
  stray,     \* ghost: a byte of a request was taken for a command
  broken,    \* ghost: a request was ever delayed or cut off
  lost,      \* ghost: output was lost since the current request was sent
  mishaps    \* counts mishaps

firmware == <<fw, count, want, asks, own, stray>>
script == <<host, size, last>>
vars == <<board, firmware, script, dtrSeen, toDevice, toHost, runs, whole, misled,
          broken, lost, mishaps>>

Waiting == {"status", "size", "body"}
Failures == {"RECEIVE_ERROR", "PARAM_ERROR", "EXECUTE_ERROR", "junk", "silence"}

\* A byte on its way to the firmware; ghost: whether it begins the current request.
Bytes == [kind : Kinds, starts : BOOLEAN]

\* What the firmware says, an element at a time; ghost: whether to the current request.
Messages == [kind : {"status", "size", "body", "text"},
             code : {"OK", "RECEIVE_ERROR", "PARAM_ERROR", "EXECUTE_ERROR"},
             mine : BOOLEAN]

TypeOK ==
  /\ host \in {"closed", "opening", "ready"} \cup Waiting
  /\ fw \in {"loop", "count", "bytes", "run", "line"}
  /\ count \in 0..(MaxFrame - 1) /\ want \in 0..count
  /\ asks \in 0..MaxAsks /\ (asks > 0 <=> fw = "line")
  /\ toDevice \in Seq(Bytes)
  /\ toHost \in Seq(Messages)
  /\ size \in 0..(MaxFrame - 1)
  /\ last \in {"none", "answer", "foreign"} \cup Failures
  /\ runs \in 0..1 /\ mishaps \in 0..MaxMishaps
  /\ {dtrSeen, own, whole, stray, misled, broken, lost} \subseteq BOOLEAN
  /\ board \in Boards

\* The firmware has read all its input when it starts (usb_serial_flush_input).
Init ==
  /\ host = "closed" /\ fw = "loop"
  /\ count = 0 /\ want = 0 /\ asks = 0 /\ size = 0
  /\ dtrSeen = FALSE /\ own = FALSE
  /\ toDevice = <<>> /\ toHost = <<>>
  /\ last = "none" /\ runs = 0 /\ whole = TRUE
  /\ stray = FALSE /\ misled = FALSE /\ broken = FALSE /\ lost = FALSE /\ mishaps = 0
  /\ board \in Boards

Strike(kind) ==
  /\ kind \in Mishaps /\ mishaps < MaxMishaps
  /\ mishaps' = mishaps + 1

Dtr == host # "closed"

\* The firmware waits for input, in its main loop or in readline.
Quiet ==
  /\ toDevice = <<>>
  /\ fw = "line" \/ (fw = "loop" /\ (board = "avr" => dtrSeen = Dtr))

-----------------------------------------------------------------------------
(* The script *)

\* What the firmware prints: any amount of text is one element.
Text == [kind |-> "text", code |-> "OK", mine |-> FALSE]

\* Many an Arduino is wired so that DTR resets it.
Restart ==
  /\ board = "arduino"
  /\ fw' = "loop" /\ count' = 0 /\ want' = 0 /\ asks' = 0 /\ own' = FALSE
  /\ toDevice' = <<>> /\ toHost' = <<Text>>
  /\ UNCHANGED stray

\* serial.Serial raises DTR; the script sleeps for two seconds, then throws
\* away what the firmware said.
Open ==
  /\ host = "closed"
  /\ host' = "opening"
  /\ Restart \/ UNCHANGED <<firmware, toDevice, toHost>>
  /\ UNCHANGED <<board, size, last, dtrSeen, runs, whole, misled, broken, lost,
                 mishaps>>

\* mutant: the input is not flushed
SettleUnflushed ==
  /\ host = "opening" /\ Quiet
  /\ host' = "ready" /\ last' = "none" /\ misled' = FALSE
  /\ UNCHANGED <<board, firmware, size, dtrSeen, toDevice, toHost, runs, whole, broken,
                 lost, mishaps>>

Settle ==
  /\ host = "opening" /\ Quiet
  /\ host' = "ready" /\ toHost' = <<>> /\ last' = "none" /\ misled' = FALSE
  /\ UNCHANGED <<board, firmware, size, dtrSeen, toDevice, runs, whole, broken, lost,
                 mishaps>>

\* BINARY_TRANSACTION_CODE, the length, the payload
Message(payload) ==
  <<[kind |-> "frame", starts |-> TRUE], [kind |-> "plain", starts |-> FALSE]>>
     \o [i \in 1..Len(payload) |-> [kind |-> payload[i], starts |-> FALSE]]

\* What is under way when a request is sent is none of its own.
Earlier(byte) == [byte EXCEPT !.starts = FALSE]
Others(message) == [message EXCEPT !.mine = FALSE]

Send(payload) ==
  /\ host = "ready" /\ Len(toDevice) <= MaxBacklog
  /\ host' = "status" /\ size' = Len(payload)
  /\ toDevice' = [i \in DOMAIN toDevice |-> Earlier(toDevice[i])] \o Message(payload)
  /\ toHost' = [i \in DOMAIN toHost |-> Others(toHost[i])]
  /\ last' = "none" /\ runs' = 0 /\ whole' = TRUE /\ lost' = FALSE /\ own' = FALSE
  /\ misled' = (misled \/ last = "foreign")
  /\ UNCHANGED <<board, fw, count, want, asks, stray, dtrSeen, broken, mishaps>>

\* Whatever is raised, every caller exits.
Fail(how) == host' = "closed" /\ last' = how

\* A status that is not 0 is an error; so is the first byte of a text.
ReadStatus ==
  /\ host = "status" /\ toHost # <<>>
  /\ toHost' = Tail(toHost)
  /\ LET head == Head(toHost) IN
       IF head.kind # "status" THEN Fail("junk")
       ELSE IF head.code # "OK" THEN Fail(head.code)
       ELSE host' = "size" /\ UNCHANGED last
  /\ UNCHANGED <<board, firmware, size, dtrSeen, toDevice, runs, whole, misled, broken,
                 lost, mishaps>>

\* Something else read as the length leads to too few bytes or a wrong CRC.
ReadSize ==
  /\ host = "size" /\ toHost # <<>>
  /\ toHost' = Tail(toHost)
  /\ IF Head(toHost).kind = "size" THEN host' = "body" /\ UNCHANGED last ELSE Fail("junk")
  /\ UNCHANGED <<board, firmware, size, dtrSeen, toDevice, runs, whole, misled, broken,
                 lost, mishaps>>

\* The CRC is right: the answer is taken and the line flushed.
ReadBody ==
  /\ host = "body" /\ toHost # <<>>
  /\ IF Head(toHost).kind = "body"
       THEN /\ host' = "ready" /\ toHost' = <<>>
            /\ last' = IF Head(toHost).mine THEN "answer" ELSE "foreign"
       ELSE Fail("junk") /\ toHost' = Tail(toHost)
  /\ UNCHANGED <<board, firmware, size, dtrSeen, toDevice, runs, whole, misled, broken,
                 lost, mishaps>>

\* mutant: an empty read is tried again
TimeoutRetried ==
  /\ host \in Waiting /\ toHost = <<>> /\ Quiet
  /\ UNCHANGED vars

\* serport.read gives up after two seconds.
Timeout ==
  /\ host \in Waiting /\ toHost = <<>> /\ Quiet
  /\ Fail("silence")
  /\ UNCHANGED <<board, firmware, size, dtrSeen, toDevice, toHost, runs, whole, misled,
                 broken, lost, mishaps>>

\* The script has done its transactions.
Finish ==
  /\ host = "ready" /\ last \in {"answer", "foreign"}
  /\ host' = "closed"
  /\ UNCHANGED <<board, firmware, size, last, dtrSeen, toDevice, toHost, runs, whole,
                 misled, broken, lost, mishaps>>

\* The script is killed; what it has not sent yet stays unsent.
Kill ==
  /\ host # "closed" /\ Strike("kill")
  /\ host' = "closed"
  /\ \E n \in 0..Len(toDevice) :
       /\ toDevice' = SubSeq(toDevice, 1, n)
       /\ broken' = (broken \/ n < Len(toDevice))
       /\ whole' = (whole /\ n = Len(toDevice))
  /\ UNCHANGED <<board, firmware, size, last, dtrSeen, toHost, runs, misled, lost>>

\* CDC_Device_SendByte drops bytes when the host does not fetch them in time:
\* one stretch of the output is lost.
LoseOutput ==
  /\ Dtr /\ Strike("lost")
  /\ \E i, j \in 1..Len(toHost) :
       /\ i <= j
       /\ toHost' = SubSeq(toHost, 1, i - 1) \o SubSeq(toHost, j + 1, Len(toHost))
  /\ lost' = TRUE
  /\ UNCHANGED <<board, firmware, script, dtrSeen, toDevice, runs, whole, misled,
                 broken>>

-----------------------------------------------------------------------------
(* The firmware *)

Status(code) == [kind |-> "status", code |-> code, mine |-> own]
Answer == <<Status("OK"), [Status("OK") EXCEPT !.kind = "size"],
                          [Status("OK") EXCEPT !.kind = "body"]>>

Say(bytes) == toHost' = toHost \o bytes
PrintText ==
  IF toHost # <<>> /\ toHost[Len(toHost)] = Text THEN UNCHANGED toHost ELSE Say(<<Text>>)

\* The main loop greets whoever raises DTR with its help text.
NoticeDtr ==
  /\ board = "avr" /\ fw = "loop" /\ dtrSeen # Dtr
  /\ dtrSeen' = Dtr
  /\ IF Dtr THEN PrintText ELSE UNCHANGED toHost
  /\ UNCHANGED <<board, firmware, script, toDevice, runs, whole, misled, broken, lost,
                 mishaps>>

\* A button press is announced on the same line.
Button ==
  /\ board = "avr" /\ fw = "loop" /\ Strike("button")
  /\ PrintText
  /\ UNCHANGED <<board, firmware, script, dtrSeen, toDevice, runs, whole, misled,
                 broken, lost>>

NextByte == toDevice # <<>> /\ toDevice' = Tail(toDevice)

\* What is left of the input while the firmware does something else.
InRoom(bytes) ==
  IF board = "arduino" /\ Len(bytes) > SerialRoom THEN SubSeq(bytes, 1, SerialRoom) ELSE bytes

\* The main loop on a byte: binary mode, or an interactive command, which
\* prints, runs something, or asks for input first.
ReadCommand ==
  /\ fw = "loop" /\ toDevice # <<>>
  /\ \/ toDevice' = InRoom(Tail(toDevice))
     \/ toDevice' = Tail(toDevice) /\ Head(toDevice).kind # "frame"
  /\ IF Head(toDevice).kind = "frame"
       THEN fw' = "count" /\ own' = Head(toDevice).starts /\ UNCHANGED <<asks, toHost>>
       ELSE /\ PrintText /\ own' = FALSE
            /\ IF Head(toDevice).kind = "prompt"
                 THEN fw' = "line" /\ asks' \in 1..MaxAsks
                 ELSE UNCHANGED <<fw, asks>>
  /\ stray' = (stray \/ ~Head(toDevice).starts)
  /\ UNCHANGED <<board, count, want, script, dtrSeen, runs, whole, misled, broken, lost,
                 mishaps>>

\* usb_serial_readline: a carriage return ends the line, other bytes are
\* echoed as long as there is room for them.
ReadLine ==
  /\ board = "avr" /\ fw = "line" /\ NextByte
  /\ IF Head(toDevice).kind = "enter"
       THEN /\ asks' = asks - 1
            /\ fw' = IF asks = 1 THEN "loop" ELSE "line"
            /\ PrintText
       ELSE (PrintText \/ UNCHANGED toHost) /\ UNCHANGED <<asks, fw>>
  /\ UNCHANGED <<board, count, want, own, stray, script, dtrSeen, runs, whole, misled,
                 broken, lost, mishaps>>

\* The sketch's: the line ends when the buffer is full, or with a pause.
ReadBytes ==
  /\ board = "arduino" /\ fw = "line"
  /\ \E n \in 1..Len(toDevice) : toDevice' = SubSeq(toDevice, n + 1, Len(toDevice))
  /\ asks' = asks - 1
  /\ fw' = IF asks = 1 THEN "loop" ELSE "line"
  /\ PrintText
  /\ UNCHANGED <<board, count, want, own, stray, script, dtrSeen, runs, whole, misled,
                 broken, lost, mishaps>>

\* usb_serial_available() is 0: there is no more input, or it is late.
NothingThere ==
  /\ UNCHANGED toDevice
  /\ \/ toDevice = <<>> /\ UNCHANGED <<whole, broken, mishaps>>
     \/ toDevice # <<>> /\ Strike("stall") /\ whole' = FALSE /\ broken' = TRUE

\* mutant: only a successful transaction is answered
RefuseSilently(code) == fw' = "loop" /\ UNCHANGED toHost

Refuse(code) == fw' = "loop" /\ Say(<<Status(code)>>)

\* mutant: the count is not compared with the size of the buffer
FitsAlways(n) == TRUE

Fits(n) == n < MaxFrame

\* receive_serial_binary_transaction after its first delay. Where the count
\* should be there may be any byte of a broken request.
ReadCount ==
  /\ fw = "count"
  /\ \/ /\ NothingThere /\ Refuse("RECEIVE_ERROR") /\ UNCHANGED <<count, want>>
     \/ /\ NextByte
        /\ \E n \in IF own THEN {size} ELSE 0..MaxFrame :
             IF Fits(n)
               THEN fw' = "bytes" /\ count' = n /\ want' = n /\ UNCHANGED toHost
               ELSE Refuse("RECEIVE_ERROR") /\ UNCHANGED <<count, want>>
        /\ UNCHANGED <<whole, broken, mishaps>>
  /\ UNCHANGED <<board, asks, own, stray, script, dtrSeen, runs, misled, lost>>

\* mutant: i < n_bytes
MoreOffByOne(left) == left > 1

More(left) == left > 0

ReadPayload ==
  /\ fw = "bytes" /\ More(want)
  /\ \/ NothingThere /\ Refuse("RECEIVE_ERROR") /\ UNCHANGED want
     \/ NextByte /\ want' = want - 1 /\ UNCHANGED <<fw, toHost, whole, broken, mishaps>>
  /\ UNCHANGED <<board, count, asks, own, stray, script, dtrSeen, runs, misled, lost>>

\* mutant: a command without data is too short
TooShortOffByOne(n) == n <= MinPayload

TooShort(n) == n < MinPayload

\* binary_mode_transaction takes the packet apart. The data lengths in a
\* request of the script are right; in anything else they may be too large.
Unpack ==
  /\ fw = "bytes" /\ ~More(want)
  /\ \/ ~TooShort(count) /\ fw' = "run" /\ UNCHANGED toHost
     \/ (TooShort(count) \/ ~own) /\ Refuse("PARAM_ERROR")
  /\ UNCHANGED <<board, count, want, asks, own, stray, script, dtrSeen, toDevice, runs,
                 whole, misled, broken, lost, mishaps>>

\* mutant: a failed command is reported like a damaged request
ExecuteMiscoded ==
  /\ fw = "run"
  /\ runs' = IF own THEN runs + 1 ELSE runs
  /\ \/ fw' = "loop" /\ Say(Answer) /\ UNCHANGED mishaps
     \/ Refuse("RECEIVE_ERROR") /\ IF own THEN Strike("chip") ELSE UNCHANGED mishaps
  /\ UNCHANGED <<board, count, want, asks, own, stray, script, dtrSeen, toDevice, whole,
                 misled, broken, lost>>

\* wakeup, execute, sleep or idle, and the main loop sends the answer.
Execute ==
  /\ fw = "run"
  /\ runs' = IF own THEN runs + 1 ELSE runs
  /\ \/ fw' = "loop" /\ Say(Answer) /\ UNCHANGED mishaps
     \/ Refuse("EXECUTE_ERROR") /\ IF own THEN Strike("chip") ELSE UNCHANGED mishaps
  /\ UNCHANGED <<board, count, want, asks, own, stray, script, dtrSeen, toDevice, whole,
                 misled, broken, lost>>

-----------------------------------------------------------------------------

Script == Settle \/ ReadStatus \/ ReadSize \/ ReadBody \/ Timeout
Firmware ==
  \/ NoticeDtr \/ ReadCommand \/ ReadLine \/ ReadBytes
  \/ ReadCount \/ ReadPayload \/ Unpack \/ Execute
Environment == Open \/ (\E p \in Payloads : Send(p)) \/ Finish \/ Kill \/ LoseOutput \/ Button

Next == Script \/ Firmware \/ Environment

Spec == Init /\ [][Next]_vars

\* A script that waits goes on once its two seconds are over; the firmware runs
\* all the time. Nobody has to open the port or to send anything.
FairSpec == Spec /\ WF_vars(Script) /\ WF_vars(Firmware)

-----------------------------------------------------------------------------
(***************************************************************************)
(* Nothing in an answer says which request it answers. Still, the answer   *)
(* to a request that got through in one piece is its own, and it went to   *)
(* the chip exactly once, whatever earlier scripts left on the line. (A    *)
(* request that got stuck may hold what looks like a request: if the error *)
(* that is reported first is lost, its answer is taken. A prompt that an   *)
(* earlier script left behind may take the beginning of a sound request,   *)
(* with the same effect if what it prints is lost; and a script that took  *)
(* another's answer goes on with the rest of the line before it.)          *)
(***************************************************************************)
AnswerIsOwn ==
  /\ last = "foreign" => ~whole \/ (broken /\ (lost \/ misled))
  /\ last = "answer" => runs = 1

(***************************************************************************)
(* The codes for a damaged request and for wrong parameters mean that the  *)
(* chip has not seen it: it is safe to send it again. (Unless the script   *)
(* took another's answer before: it is then one answer behind.)            *)
(***************************************************************************)
RefusedMeansNotRun == last \in {"RECEIVE_ERROR", "PARAM_ERROR"} => runs = 0 \/ misled

(***************************************************************************)
(* As long as nothing goes wrong every request is answered: the two sides  *)
(* agree on where a request ends and on what is said when. A request that  *)
(* is too long for the Arduino's input buffer is refused and leaves        *)
(* nothing behind: the next one is answered again.                         *)
(***************************************************************************)
OnlyMishapsFail ==
  mishaps = 0 => \/ last \in {"none", "answer"}
                 \/ board = "arduino" /\ size + 1 > SerialRoom /\ last = "RECEIVE_ERROR"

(***************************************************************************)
(* No byte of a request is taken for an interactive command unless some    *)
(* request was delayed on its way or cut off.                              *)
(***************************************************************************)
NothingStray == stray => broken

(***************************************************************************)
(* A transaction comes to an end.                                          *)
(***************************************************************************)
EveryRequestEnds == host \in Waiting ~> host \notin Waiting

(***************************************************************************)
(* The firmware never throws input away: what is left of a broken request  *)
(* may open a prompt, which then takes the requests that follow for lines  *)
(* of input. A script is left without any answer only after that, or when  *)
(* the answer to this very request was lost.                               *)
(***************************************************************************)
Answered == last = "silence" => broken \/ lost
=============================================================================
