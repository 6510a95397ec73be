----------------------------- MODULE LineInput -----------------------------
(***************************************************************************)
(* Entry of the bytes of a parameter: get_bytes_serial, on top of          *)
(* usb_serial_readline, which is a line editor with echo in                *)
(* avr/LufaLayer.c and a readBytes with a pause of 100 ms in the Arduino   *)
(* sketch. The cursor is a uint16_t: erasing at the start of a line wraps  *)
(* it, and what happens from Enter on is then undefined.                   *)
(***************************************************************************)
EXTENDS Integers, Sequences

CONSTANTS
  Chars,         \* the characters typed
  Lengths,       \* the numbers of bytes asked for
  CursorModulus  \* 2^16

Nul == "NUL"
Unset == "unset"   \* what memory holds before it is written
MaxLength == CHOOSE n \in Lengths : \A k \in Lengths : k <= n

ASSUME LineInputAssumption ==
  /\ Lengths \subseteq Nat \ {0} /\ CursorModulus \in Nat
  /\ MaxLength \in Lengths /\ \A n \in Lengths : n <= MaxLength /\ 2 * n + 1 < CursorModulus

VARIABLES
  board,   \* which readline: "avr" or "arduino"
  reading, \* in get_bytes_serial
  len,     \* the bytes it is, or was last, to get
  buffer, cursor,
  output,  \* the caller's array; it keeps its bytes from one command to the next
  got,     \* what get_bytes_serial returned
  shown,   \* ghost: what the user's terminal shows of the line (avr), or was typed (arduino)
  before,  \* ghost: output when the line was begun
  erased   \* ghost: more was erased than had been typed

line == <<reading, len, buffer, cursor, output, got, shown, before, erased>>

Bytes == (Chars \cup {Nul, Unset}) \X (Chars \cup {Nul, Unset})
NoBytes == [i \in 0..MaxLength |-> <<Unset, Unset>>]
NoLine == [i \in 0..(2 * MaxLength + 1) |-> Unset]

LineTypeOK ==
  /\ board \in {"avr", "arduino"} /\ reading \in BOOLEAN /\ len \in Lengths \cup {0}
  /\ buffer \in [0..(2 * MaxLength + 1) -> Chars \cup {Nul, Unset}]
  /\ cursor \in 0..(CursorModulus - 1)
  /\ output \in [0..MaxLength -> Bytes] /\ before \in [0..MaxLength -> Bytes]
  /\ got \in 0..MaxLength /\ shown \in Seq(Chars) /\ erased \in BOOLEAN

LineInit ==
  /\ board \in {"avr", "arduino"} /\ reading = FALSE /\ len = 0 /\ buffer = NoLine /\ cursor = 0
  /\ output = NoBytes /\ got = 0 /\ shown = <<>> /\ before = NoBytes /\ erased = FALSE

Ask(n) ==
  /\ ~reading /\ reading' = TRUE /\ len' = n /\ buffer' = NoLine /\ cursor' = 0
  /\ shown' = <<>> /\ before' = output /\ erased' = FALSE
  /\ UNCHANGED <<output, got>>

\* The ghosts are not kept for longer than the command
Forget ==
  /\ shown' = <<>> /\ got' = 0 /\ before' = output /\ erased' = FALSE
  /\ UNCHANGED <<reading, len, buffer, cursor, output>>

buffer_size == 2 * len + 1

\* get_bytes_serial's conversion of the line: a byte for every pair of characters, and
\* one for half a pair, which is stored and not counted
Convert(text, length) ==
  /\ output' = [i \in 0..MaxLength |->
                  IF 2 * i < length THEN <<text[2 * i], text[2 * i + 1]>> ELSE output[i]]
  /\ got' = length \div 2
  /\ reading' = FALSE /\ buffer' = NoLine /\ cursor' = 0
  /\ UNCHANGED <<len, before, erased>>

Put(c) ==
  /\ buffer' = [buffer EXCEPT ![cursor] = c] /\ cursor' = cursor + 1
  /\ shown' = Append(shown, c)
  /\ UNCHANGED <<reading, len, output, got, before, erased>>

\* mutant: no room is kept for the terminator
NoTerminator == cursor < buffer_size

Room == cursor < buffer_size - 1

\* The line editor: a character (echoed if there is room for it), an erasure, Enter
Typed(c) == IF Room THEN Put(c) ELSE UNCHANGED line

Backspace ==
  /\ cursor' = (cursor - 1) % CursorModulus
  /\ shown' = IF shown = <<>> THEN shown ELSE SubSeq(shown, 1, Len(shown) - 1)
  /\ erased' = (erased \/ shown = <<>>)
  /\ UNCHANGED <<reading, len, buffer, output, got, before>>

InBuffer == cursor < buffer_size
Enter == Convert([buffer EXCEPT ![cursor] = Nul], cursor) /\ UNCHANGED shown

\* The sketch: bytes are taken until the buffer is full or none comes for 100 ms
Received(c) ==
  IF Room THEN Put(c)
  ELSE Convert([buffer EXCEPT ![cursor] = c], buffer_size) /\ shown' = Append(shown, c)
Pause == cursor > 0 /\ Convert(buffer, cursor) /\ UNCHANGED shown

-----------------------------------------------------------------------------
\* As long as nobody erases what was not typed, a command gets the bytes that the
\* terminal shows when Enter is pressed: as many as there are pairs of digits, each from
\* its own pair, and none of the bytes past those asked for is written (the sketch, whose
\* readline has no room for a terminator to keep, may write one). Bytes that were not
\* typed are left as the command before had them.
LineKept ==
  (~reading /\ ~erased) =>
    /\ got = Len(shown) \div 2
    /\ \A i \in 0..MaxLength :
         /\ i < got => output[i] = <<shown[2 * i + 1], shown[2 * i + 2]>>
         /\ (2 * i >= Len(shown) \/ i > len \/ (i = len /\ board = "avr")) => output[i] = before[i]
=============================================================================
