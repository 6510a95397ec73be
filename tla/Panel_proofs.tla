---------------------------- MODULE Panel_proofs ----------------------------
(***************************************************************************)
(* The main loop between the button and the line editor, for any width of  *)
(* the tick counter and its bytes, any time a press has to last, any       *)
(* lengths of a parameter and any characters.                              *)
(***************************************************************************)
EXTENDS Panel, SequenceTheorems, TLAPS

-----------------------------------------------------------------------------
(* Remainders                                                                *)

LEMMA RemainderInRange ==
  ASSUME NEW n \in Nat \ {0}, NEW a \in Int
  PROVE  a % n \in 0..(n - 1)
  OBVIOUS

LEMMA RemainderOfSmall ==
  ASSUME NEW n \in Nat \ {0}, NEW a \in 0..(n - 1)
  PROVE  a % n = a
  OBVIOUS

LEMMA RemainderOfNegative ==
  ASSUME NEW n \in Nat \ {0}, NEW a \in (-n)..(-1)
  PROVE  a % n = a + n
  OBVIOUS

LEMMA RemainderOfWhole ==
  ASSUME NEW n \in Nat \ {0}
  PROVE  n % n = 0
  OBVIOUS

-----------------------------------------------------------------------------
(* The line editor                                                           *)

\* What is being typed is in the buffer, up to the cursor; nothing is stored yet.
InHand ==
  reading =>
    /\ len \in Lengths
    /\ board = "arduino" => ~erased
    /\ ~erased => /\ cursor = Len(shown) /\ cursor <= 2 * len
                  /\ \A i \in 0..(cursor - 1) : buffer[i] = shown[i + 1]
                  /\ output = before

LineInv == LineTypeOK /\ InHand /\ LineKept

LEMMA LineBounds ==
  /\ MaxLength \in Nat \ {0} /\ CursorModulus \in Nat \ {0}
  /\ \A n \in Lengths : n \in Nat \ {0} /\ n <= MaxLength /\ 2 * n + 1 < CursorModulus
  BY LineInputAssumption

LEMMA LineStarts == LineInit => LineInv
<1> SUFFICES ASSUME LineInit PROVE LineInv
  OBVIOUS
<1>1. LineTypeOK
  <2>1. NoLine \in [0..(2 * MaxLength + 1) -> Chars \cup {Nul, Unset}]
    BY DEF NoLine
  <2>2. NoBytes \in [0..MaxLength -> Bytes]
    BY DEF NoBytes, Bytes
  <2>3. cursor \in 0..(CursorModulus - 1) /\ got \in 0..MaxLength
    BY LineBounds DEF LineInit
  <2>4. shown \in Seq(Chars)
    BY DEF LineInit
  <2>5. QED BY <2>1, <2>2, <2>3, <2>4 DEF LineInit, LineTypeOK
<1>2. QED
  BY <1>1 DEF LineInit, LineInv, InHand, LineKept

LEMMA AskKeeps ==
  ASSUME LineInv, UNCHANGED board, NEW n \in Lengths, Ask(n) PROVE LineInv'
<1>1. LineTypeOK'
  <2>1. buffer' \in [0..(2 * MaxLength + 1) -> Chars \cup {Nul, Unset}]
    BY DEF Ask, NoLine
  <2>2. cursor' \in 0..(CursorModulus - 1) /\ len' \in Lengths
    BY LineBounds DEF Ask
  <2>3. shown' \in Seq(Chars)
    BY DEF Ask
  <2>4. output' = output /\ before' = output /\ got' = got /\ board' = board
        /\ reading' = TRUE /\ erased' = FALSE
    BY DEF Ask
  <2>5. QED BY <2>1, <2>2, <2>3, <2>4 DEF LineInv, LineTypeOK
<1>2. InHand'
  BY LineBounds DEF Ask, InHand
<1>3. QED BY <1>1, <1>2 DEF Ask, LineInv, LineKept

LEMMA ForgetKeeps ==
  ASSUME LineInv, UNCHANGED board, ~reading, Forget PROVE LineInv'
<1>1. LineTypeOK'
  <2>1. shown' \in Seq(Chars) /\ got' \in 0..MaxLength
    BY LineBounds DEF Forget
  <2>2. UNCHANGED <<reading, len, buffer, cursor, output>> /\ before' = output /\ erased' = FALSE
    BY DEF Forget
  <2>3. QED BY <2>1, <2>2 DEF LineInv, LineTypeOK
<1>2. LineKept'
  BY DEF Forget, LineKept
<1>3. QED BY <1>1, <1>2 DEF Forget, LineInv, InHand

LEMMA PutKeeps ==
  ASSUME LineInv, UNCHANGED board, reading, NEW c \in Chars, Room, Put(c) PROVE LineInv'
<1>1. /\ len \in Nat /\ 2 * len + 1 < CursorModulus /\ len <= MaxLength /\ cursor \in Nat
      /\ cursor < 2 * len /\ MaxLength \in Nat /\ CursorModulus \in Nat
  BY LineBounds DEF LineInv, InHand, LineTypeOK, Room, buffer_size
<1>2. /\ shown' \in Seq(Chars) /\ Len(shown') = Len(shown) + 1
      /\ shown'[Len(shown) + 1] = c /\ \A i \in 1..Len(shown) : shown'[i] = shown[i]
      /\ Len(shown) \in Nat
  BY DEF Put, LineInv, LineTypeOK
<1>3. /\ buffer' \in [0..(2 * MaxLength + 1) -> Chars \cup {Nul, Unset}]
      /\ buffer'[cursor] = c /\ \A i \in 0..(cursor - 1) : buffer'[i] = buffer[i]
  <2>1. cursor \in 0..(2 * MaxLength + 1) /\ \A i \in 0..(cursor - 1) : i \in 0..(2 * MaxLength + 1)
    BY <1>1
  <2>2. QED BY <1>1, <2>1 DEF Put, LineInv, LineTypeOK
<1>4. LineTypeOK'
  <2>1. cursor' \in 0..(CursorModulus - 1)
    BY <1>1 DEF Put
  <2>2. UNCHANGED <<reading, len, output, got, before, erased>>
    BY DEF Put
  <2>3. QED BY <1>2, <1>3, <2>1, <2>2 DEF LineInv, LineTypeOK
<1>5. InHand'
  <2> SUFFICES ASSUME ~erased
               PROVE  /\ cursor' = Len(shown') /\ cursor' <= 2 * len'
                      /\ \A i \in 0..(cursor' - 1) : buffer'[i] = shown'[i + 1]
    BY DEF Put, LineInv, InHand
  <2>1. /\ cursor = Len(shown) /\ cursor' = cursor + 1 /\ len' = len
        /\ \A i \in 0..(cursor - 1) : buffer[i] = shown[i + 1]
    BY DEF Put, LineInv, InHand
  <2>2. ASSUME NEW i \in 0..(cursor' - 1) PROVE buffer'[i] = shown'[i + 1]
    <3>1. CASE i = cursor
      BY <1>2, <1>3, <2>1, <3>1
    <3>2. CASE i # cursor
      <4>1. i \in 0..(cursor - 1) /\ i + 1 \in 1..Len(shown)
        BY <1>1, <2>1, <3>2
      <4>2. QED BY <1>2, <1>3, <2>1, <4>1
    <3>3. QED BY <3>1, <3>2
  <2>3. QED BY <1>1, <1>2, <2>1, <2>2
<1>6. QED BY <1>4, <1>5 DEF Put, LineInv, LineKept

\* Erasing takes back what was typed last, or more than was typed.
LEMMA BackspaceKeeps ==
  ASSUME LineInv, UNCHANGED board, reading, board = "avr", Backspace PROVE LineInv'
<1>1. /\ cursor \in 0..(CursorModulus - 1) /\ CursorModulus \in Nat \ {0}
      /\ shown \in Seq(Chars) /\ Len(shown) \in Nat
  BY LineBounds DEF LineInv, LineTypeOK
<1>2. cursor' \in 0..(CursorModulus - 1) /\ (cursor # 0 => cursor' = cursor - 1)
  <2>1. cursor - 1 \in Int /\ (cursor # 0 => cursor - 1 \in 0..(CursorModulus - 1))
    BY <1>1
  <2>2. QED BY <1>1, <2>1, RemainderInRange, RemainderOfSmall DEF Backspace
<1>3. shown # <<>> => /\ shown' \in Seq(Chars) /\ Len(shown') = Len(shown) - 1 /\ Len(shown) > 0
                      /\ \A i \in 1..(Len(shown) - 1) : shown'[i] = shown[i]
  <2> SUFFICES ASSUME shown # <<>>
               PROVE  /\ shown' \in Seq(Chars) /\ Len(shown') = Len(shown) - 1 /\ Len(shown) > 0
                      /\ \A i \in 1..(Len(shown) - 1) : shown'[i] = shown[i]
    OBVIOUS
  <2>1. Len(shown) > 0 /\ shown' = SubSeq(shown, 1, Len(shown) - 1)
    BY <1>1 DEF Backspace
  <2>2. \A i \in 1..(Len(shown) - 1) : shown[i] \in Chars
    BY <1>1
  <2>3. /\ shown' \in Seq(Chars) /\ Len(shown') = Len(shown) - 1
        /\ \A i \in 1..(Len(shown) - 1) : shown'[i] = shown[i]
    <3> DEFINE short == SubSeq(shown, 1, Len(shown) - 1)
    <3>1. /\ short \in Seq(Chars)
          /\ Len(short) = IF 1 <= Len(shown) - 1 THEN (Len(shown) - 1) - 1 + 1 ELSE 0
          /\ \A i \in 1..((Len(shown) - 1) - 1 + 1) : short[i] = shown[1 + i - 1]
      BY <1>1, <2>2, SubSeqProperties
    <3>2. shown' = short
      BY <2>1
    <3> HIDE DEF short
    <3>3. Len(shown') = Len(shown) - 1
      <4>1. \A n \in Nat : n > 0 => (IF 1 <= n - 1 THEN (n - 1) - 1 + 1 ELSE 0) = n - 1
        OBVIOUS
      <4>2. Len(shown') = IF 1 <= Len(shown) - 1 THEN (Len(shown) - 1) - 1 + 1 ELSE 0
        BY <3>1, <3>2
      <4>3. QED BY <1>1, <2>1, <4>1, <4>2
    <3>4. ASSUME NEW i \in 1..(Len(shown) - 1) PROVE shown'[i] = shown[i]
      <4>1. i \in 1..((Len(shown) - 1) - 1 + 1) /\ 1 + i - 1 = i
        BY <1>1
      <4>2. QED BY <3>1, <3>2, <4>1
    <3>5. QED BY <3>1, <3>2, <3>3, <3>4
  <2>4. QED BY <2>1, <2>3
<1>4. LineTypeOK'
  BY <1>1, <1>2, <1>3 DEF Backspace, LineInv, LineTypeOK
<1>5. InHand'
  <2>1. CASE erased'
    BY <2>1 DEF Backspace, LineInv, InHand
  <2>2. CASE ~erased'
    <3>1. ~erased /\ shown # <<>> /\ UNCHANGED <<len, buffer, output, before, reading>>
      BY <2>2 DEF Backspace
    <3>2. /\ cursor = Len(shown) /\ cursor <= 2 * len /\ output = before /\ len \in Lengths
          /\ \A i \in 0..(cursor - 1) : buffer[i] = shown[i + 1]
      BY <3>1 DEF LineInv, InHand
    <3>3. cursor' = cursor - 1 /\ len \in Nat
      BY <1>2, <1>3, <3>1, <3>2, LineBounds
    <3>4. ASSUME NEW i \in 0..(cursor' - 1) PROVE buffer'[i] = shown'[i + 1]
      <4>1. i \in 0..(cursor - 1) /\ i + 1 \in 1..(Len(shown) - 1)
        BY <1>1, <3>2, <3>3
      <4>2. QED BY <1>3, <3>1, <3>2, <4>1
    <3>5. QED BY <1>1, <1>3, <3>1, <3>2, <3>3, <3>4 DEF InHand
  <2>3. QED BY <2>1, <2>2
<1>6. QED BY <1>4, <1>5 DEF Backspace, LineInv, LineKept

\* A line of up to length characters becomes bytes: those it has digits for, and no others.
LEMMA ConvertKeeps ==
  ASSUME LineInv, UNCHANGED board, reading,
         NEW text \in [0..(2 * MaxLength + 1) -> Chars \cup {Nul, Unset}],
         NEW length \in 0..buffer_size,
         Convert(text, length), shown' \in Seq(Chars),
         ~erased => /\ length = Len(shown')
                    /\ \A i \in 0..(length - 1) : text[i] = shown'[i + 1]
                    /\ board = "avr" => length <= 2 * len
  PROVE  LineInv'
<1>1. /\ len \in Lengths /\ len \in Nat /\ MaxLength \in Nat /\ len <= MaxLength
      /\ length \in Nat /\ length <= 2 * len + 1 /\ CursorModulus \in Nat \ {0}
  BY LineBounds DEF LineInv, InHand, buffer_size
<1>2. length \div 2 \in Nat /\ 2 * (length \div 2) <= length /\ length <= 2 * (length \div 2) + 1
  BY <1>1
<1>3. length \div 2 \in 0..MaxLength
  BY <1>1, <1>2
<1>4. ASSUME NEW i \in 0..MaxLength
      PROVE  output'[i] = IF 2 * i < length THEN <<text[2 * i], text[2 * i + 1]>> ELSE output[i]
  BY DEF Convert
<1>5. output' \in [0..MaxLength -> Bytes]
  <2>1. output \in [0..MaxLength -> Bytes]
    BY DEF LineInv, LineTypeOK
  <2>2. ASSUME NEW i \in 0..MaxLength, 2 * i < length
        PROVE  <<text[2 * i], text[2 * i + 1]>> \in Bytes
    <3>1. 2 * i \in 0..(2 * MaxLength + 1) /\ 2 * i + 1 \in 0..(2 * MaxLength + 1)
      BY <1>1
    <3>2. text[2 * i] \in Chars \cup {Nul, Unset} /\ text[2 * i + 1] \in Chars \cup {Nul, Unset}
      BY <3>1
    <3>3. QED BY <3>2 DEF Bytes
  <2>3. QED BY <2>1, <2>2 DEF Convert
<1>6. LineTypeOK'
  <2>1. NoLine \in [0..(2 * MaxLength + 1) -> Chars \cup {Nul, Unset}]
    BY DEF NoLine
  <2>2. /\ UNCHANGED <<board, len, before, erased>> /\ got' = length \div 2
        /\ reading' = FALSE /\ buffer' = NoLine /\ cursor' = 0
    BY DEF Convert
  <2>3. cursor' \in 0..(CursorModulus - 1)
    BY <1>1, <2>2
  <2>4. QED BY <1>3, <1>5, <2>1, <2>2, <2>3 DEF LineInv, LineTypeOK
<1>7. ASSUME ~erased
      PROVE  /\ got' = Len(shown') \div 2
             /\ \A i \in 0..MaxLength :
                  /\ i < got' => output'[i] = <<shown'[2 * i + 1], shown'[2 * i + 2]>>
                  /\ (2 * i >= Len(shown') \/ i > len \/ (i = len /\ board = "avr")) =>
                       output'[i] = before[i]
  <2>1. got' = length \div 2 /\ length = Len(shown') /\ output = before
    BY <1>7 DEF Convert, LineInv, InHand
  <2>2. ASSUME NEW i \in 0..MaxLength, i < got'
        PROVE  output'[i] = <<shown'[2 * i + 1], shown'[2 * i + 2]>>
    <3>1. 2 * i < length /\ 2 * i \in 0..(length - 1) /\ 2 * i + 1 \in 0..(length - 1)
      BY <1>1, <1>2, <2>1, <2>2
    <3>2. text[2 * i] = shown'[2 * i + 1] /\ text[2 * i + 1] = shown'[(2 * i + 1) + 1]
      BY <1>7, <3>1
    <3>3. (2 * i + 1) + 1 = 2 * i + 2
      OBVIOUS
    <3>4. QED BY <1>4, <3>1, <3>2, <3>3
  <2>3. ASSUME NEW i \in 0..MaxLength,
               2 * i >= Len(shown') \/ i > len \/ (i = len /\ board = "avr")
        PROVE  output'[i] = before[i]
    <3>1. ~(2 * i < length)
      BY <1>1, <1>7, <2>1, <2>3
    <3>2. QED BY <1>4, <2>1, <3>1
  <2>4. QED BY <2>1, <2>2, <2>3
<1>8. LineKept' /\ InHand'
  <2>1. UNCHANGED <<board, len, before, erased>> /\ reading' = FALSE
    BY DEF Convert
  <2>2. QED BY <1>7, <2>1 DEF LineKept, InHand
<1>9. QED BY <1>6, <1>8 DEF LineInv

LEMMA EnterKeeps ==
  ASSUME LineInv, UNCHANGED board, reading, board = "avr", InBuffer, Enter PROVE LineInv'
<1> DEFINE text == [buffer EXCEPT ![cursor] = Nul]
<1>1. cursor \in Nat /\ cursor < 2 * len + 1 /\ len \in Nat /\ MaxLength \in Nat
      /\ buffer \in [0..(2 * MaxLength + 1) -> Chars \cup {Nul, Unset}]
  BY LineBounds DEF LineInv, LineTypeOK, InHand, InBuffer, buffer_size
<1>2. text \in [0..(2 * MaxLength + 1) -> Chars \cup {Nul, Unset}]
      /\ \A i \in 0..(cursor - 1) : text[i] = buffer[i]
  <2>1. \A i \in 0..(2 * MaxLength + 1) : text[i] = IF i = cursor THEN Nul ELSE buffer[i]
    BY <1>1
  <2>2. \A i \in 0..(cursor - 1) : i \in 0..(2 * MaxLength + 1) /\ i # cursor
    BY <1>1, LineBounds DEF LineInv, InHand
  <2>3. QED BY <1>1, <2>1, <2>2
<1>3. cursor \in 0..buffer_size
  BY <1>1 DEF buffer_size
<1>4. Convert(text, cursor) /\ shown' = shown
  BY DEF Enter
<1>5. shown' \in Seq(Chars)
  BY <1>4 DEF LineInv, LineTypeOK
<1>6. ~erased => /\ cursor = Len(shown) /\ cursor <= 2 * len
                 /\ \A i \in 0..(cursor - 1) : buffer[i] = shown[i + 1]
  BY DEF LineInv, InHand
<1> HIDE DEF text
<1>7. QED BY <1>2, <1>3, <1>4, <1>5, <1>6, ConvertKeeps

LEMMA PauseKeeps ==
  ASSUME LineInv, UNCHANGED board, reading, board = "arduino", Pause PROVE LineInv'
<1>1. /\ cursor = Len(shown) /\ cursor <= 2 * len /\ cursor \in Nat /\ len \in Nat
      /\ \A i \in 0..(cursor - 1) : buffer[i] = shown[i + 1]
      /\ buffer \in [0..(2 * MaxLength + 1) -> Chars \cup {Nul, Unset}] /\ shown \in Seq(Chars)
  BY LineBounds DEF LineInv, InHand, LineTypeOK
<1>2. cursor \in 0..buffer_size
  BY <1>1 DEF buffer_size
<1>3. Convert(buffer, cursor) /\ shown' = shown
  BY DEF Pause
<1>4. QED BY <1>1, <1>2, <1>3, ConvertKeeps

LEMMA ReceivedKeeps ==
  ASSUME LineInv, UNCHANGED board, reading, board = "arduino", NEW c \in Chars, Received(c)
  PROVE  LineInv'
<1>1. CASE Room
  BY <1>1, PutKeeps DEF Received
<1>2. CASE ~Room
  <2> DEFINE text == [buffer EXCEPT ![cursor] = c]
  <2>1. /\ cursor = Len(shown) /\ cursor = 2 * len /\ cursor \in Nat /\ len \in Nat
        /\ \A i \in 0..(cursor - 1) : buffer[i] = shown[i + 1]
        /\ buffer \in [0..(2 * MaxLength + 1) -> Chars \cup {Nul, Unset}] /\ shown \in Seq(Chars)
        /\ buffer_size = cursor + 1 /\ len <= MaxLength /\ MaxLength \in Nat
    BY <1>2, LineBounds DEF LineInv, InHand, LineTypeOK, Room, buffer_size
  <2>2. \A i \in 0..(2 * MaxLength + 1) : text[i] = IF i = cursor THEN c ELSE buffer[i]
    BY <2>1
  <2>3. text \in [0..(2 * MaxLength + 1) -> Chars \cup {Nul, Unset}]
    BY <2>1, <2>2
  <2>4. Convert(text, buffer_size) /\ shown' = Append(shown, c)
    BY <1>2 DEF Received
  <2>5. /\ shown' \in Seq(Chars) /\ Len(shown') = cursor + 1
        /\ shown'[cursor + 1] = c /\ \A i \in 1..cursor : shown'[i] = shown[i]
    <3>1. \A s \in Seq(Chars) : /\ Append(s, c) \in Seq(Chars) /\ Len(Append(s, c)) = Len(s) + 1
                                /\ Append(s, c)[Len(s) + 1] = c
                                /\ \A i \in 1..Len(s) : Append(s, c)[i] = s[i]
      OBVIOUS
    <3>2. QED BY <2>1, <2>4, <3>1
  <2> HIDE DEF text
  <2>6. ASSUME NEW i \in 0..(buffer_size - 1) PROVE text[i] = shown'[i + 1]
    <3>1. i \in 0..(2 * MaxLength + 1)
      BY <2>1
    <3>2. CASE i = cursor
      BY <2>2, <2>5, <3>1, <3>2
    <3>3. CASE i # cursor
      <4>1. i \in 0..(cursor - 1) /\ i + 1 \in 1..cursor
        BY <2>1, <3>3
      <4>2. QED BY <2>1, <2>2, <2>5, <3>1, <3>3, <4>1
    <3>4. QED BY <3>2, <3>3
  <2>7. buffer_size \in 0..buffer_size /\ buffer_size = Len(shown')
    BY <2>1, <2>5
  <2>8. QED BY <2>3, <2>4, <2>5, <2>6, <2>7, ConvertKeeps
<1>3. QED BY <1>1, <1>2

-----------------------------------------------------------------------------
(* The clock                                                                 *)

LEMMA ClockBounds ==
  /\ Modulus \in Nat \ {0} /\ MaxHeld \in Nat /\ MaxHeld < Modulus
  /\ Hold \in Nat /\ Hold >= 3 /\ Hold < MaxHeld
  BY ButtonAssumption, PanelAssumption

\* The counter wraps, and so does a difference of two of its values.
LEMMA ClockValues ==
  ASSUME NEW t \in Times, NEW u \in Times
  PROVE  /\ Plus1(t) \in Times /\ Plus1(t) = IF t + 1 = Modulus THEN 0 ELSE t + 1
         /\ Minus(t, u) \in Times /\ Minus(t, u) = IF t >= u THEN t - u ELSE t - u + Modulus
<1>1. Plus1(t) \in Times
  BY ClockBounds, RemainderInRange DEF Plus1, Times
<1>2. Plus1(t) = IF t + 1 = Modulus THEN 0 ELSE t + 1
  <2>1. CASE t + 1 = Modulus
    BY <2>1, ClockBounds, RemainderOfWhole DEF Plus1
  <2>2. CASE t + 1 # Modulus
    <3>1. t + 1 \in 0..(Modulus - 1)
      BY <2>2, ClockBounds DEF Times
    <3>2. QED BY <2>2, <3>1, ClockBounds, RemainderOfSmall DEF Plus1
  <2>3. QED BY <2>1, <2>2
<1>3. Minus(t, u) \in Times
  BY ClockBounds, RemainderInRange DEF Minus, Times
<1>4. Minus(t, u) = IF t >= u THEN t - u ELSE t - u + Modulus
  <2>1. CASE t >= u
    <3>1. t - u \in 0..(Modulus - 1)
      BY <2>1, ClockBounds DEF Times
    <3>2. QED BY <2>1, <3>1, ClockBounds, RemainderOfSmall DEF Minus
  <2>2. CASE ~(t >= u)
    <3>1. t - u \in (-Modulus)..(-1)
      BY <2>2, ClockBounds DEF Times
    <3>2. QED BY <2>2, <3>1, ClockBounds, RemainderOfNegative DEF Minus
  <2>3. QED BY <2>1, <2>2
<1>5. QED BY <1>1, <1>2, <1>3, <1>4

LEMMA ClockSteps ==
  ASSUME NEW t \in Times, NEW u \in Times, Minus(t, u) < MaxHeld
  PROVE  Minus(Plus1(t), u) = Minus(t, u) + 1
<1>1. Plus1(t) \in Times
  BY ClockValues
<1>2. Minus(Plus1(t), u) = IF Plus1(t) >= u THEN Plus1(t) - u ELSE Plus1(t) - u + Modulus
  BY <1>1, ClockValues
<1>3. /\ Plus1(t) = IF t + 1 = Modulus THEN 0 ELSE t + 1
      /\ Minus(t, u) = IF t >= u THEN t - u ELSE t - u + Modulus
  BY ClockValues
<1>4. QED BY <1>2, <1>3, ClockBounds DEF Times

\* The time since the press was found, as the counter has it
Elapsed == Minus(current_time, button_pressed_timestamp)

\* It is the ticks of the press, but for one that fell into the first reading.
Lasted == Elapsed = held \/ Elapsed = held - 1

\* A reading that is not torn is of the time before or after it.
LEMMA ReadingIsTrue ==
  ASSUME ButtonTypeOK, NEW value, NEW damaged \in BOOLEAN, Reads(value, TRUE, damaged)
  PROVE  /\ current_time' \in Times /\ held' \in 0..MaxHeld /\ (held' = held \/ held' = held + 1)
         /\ ~damaged => value = current_time \/ value = current_time'
         /\ IF held' = held THEN current_time' = current_time
            ELSE held < MaxHeld /\ current_time' = Plus1(current_time)
<1>1. current_time \in Times /\ held \in 0..MaxHeld
  BY DEF ButtonTypeOK
<1>2. CASE /\ value = current_time /\ damaged = FALSE
           /\ UNCHANGED current_time /\ held' = held
  BY <1>1, <1>2
<1>3. CASE /\ Ticks(TRUE)
           /\ \/ value \in {current_time, Plus1(current_time)} /\ damaged = FALSE
              \/ value \in Torn /\ damaged = TRUE
  <2>1. held < MaxHeld /\ current_time' = Plus1(current_time) /\ held' = held + 1
    BY <1>3 DEF Ticks
  <2>2. current_time' \in Times
    BY <1>1, <2>1, ClockValues
  <2>3. QED BY <1>1, <1>3, <2>1, <2>2, ClockBounds
<1>4. QED BY <1>2, <1>3 DEF Reads

\* Time and the ticks of a press go on together.
LEMMA LastsOn ==
  ASSUME ButtonTypeOK, Lasted, UNCHANGED button_pressed_timestamp, held' \in 0..MaxHeld,
         \/ held' = held /\ current_time' = current_time
         \/ held' = held + 1 /\ held < MaxHeld /\ current_time' = Plus1(current_time)
  PROVE  Lasted' /\ Elapsed \in Nat /\ Elapsed' \in Nat /\ Elapsed' >= Elapsed
<1>1. /\ current_time \in Times /\ button_pressed_timestamp \in Times /\ held \in Nat
  BY DEF ButtonTypeOK
<1>2. Elapsed \in Nat
  BY <1>1, ClockValues DEF Elapsed, Times
<1>3. CASE held' = held /\ current_time' = current_time
  BY <1>2, <1>3 DEF Lasted, Elapsed
<1>4. CASE held' = held + 1 /\ held < MaxHeld /\ current_time' = Plus1(current_time)
  <2>1. Elapsed < MaxHeld
    BY <1>1, <1>2, <1>4, ClockBounds DEF Lasted
  <2>2. Elapsed' = Elapsed + 1
    BY <1>1, <1>4, <2>1, ClockSteps DEF Elapsed
  <2>3. QED BY <1>1, <1>2, <1>4, <2>2 DEF Lasted
<1>5. QED BY <1>3, <1>4

-----------------------------------------------------------------------------
(* The button                                                                *)

\* A press is announced once it has lasted, and is registered from then on. A registration
\* left by the press before is taken back before a new one lasts, unless a line is typed.
Pressed ==
  button_is_pressed /\ ~torn =>
    /\ Lasted
    /\ announced = 0 \/ (announced = 1 /\ button_press_registered /\ Elapsed >= Hold)
    /\ button_press_registered /\ announced = 0 /\ ~carried => pc = "measure" /\ held <= 1

PanelTypeOK ==
  /\ pc \in {"service", "measure", "command", "line", "lost"}
  /\ pc # "lost" => (reading <=> pc = "line")
  /\ button_press_registered \in BOOLEAN /\ announced \in Nat /\ carried \in BOOLEAN

ButtonInv == ButtonTypeOK /\ PanelTypeOK /\ (~button_is_pressed => held = 0) /\ Pressed

LEMMA ButtonStarts == Init => ButtonInv
<1> SUFFICES ASSUME Init PROVE ButtonInv
  OBVIOUS
<1>1. ButtonTypeOK
  <2>1. 0 \in Times /\ 0 \in 0..MaxHeld
    BY ClockBounds DEF Times
  <2>2. QED BY <2>1 DEF Init, ButtonInit, ButtonTypeOK
<1>2. PanelTypeOK
  BY DEF Init, LineInit, PanelTypeOK
<1>3. QED BY <1>1, <1>2 DEF Init, ButtonInit, ButtonInv, Pressed

\* service_button, from the main loop or from the line editor
LEMMA ServedKeeps ==
  ASSUME ButtonInv, NEW inLine \in BOOLEAN, service_button, Presses(inLine),
         PanelTypeOK', pc' = IF inLine THEN pc ELSE "measure", inLine => pc # "measure"
  PROVE  ButtonInv'
<1>1. ButtonTypeOK /\ (~button_is_pressed => held = 0) /\ UNCHANGED button_press_registered
  BY DEF ButtonInv, Presses
<1>2. CASE Begins
  <2>1. PICK value \in Times, damaged \in BOOLEAN :
          Reads(value, TRUE, damaged) /\ button_pressed_timestamp' = value /\ torn' = damaged
    BY <1>2 DEF Begins
  <2>2. /\ current_time' \in Times /\ held' \in 0..MaxHeld /\ held = 0 /\ (held' = 0 \/ held' = 1)
        /\ ~damaged => value = current_time \/ value = current_time'
        /\ IF held' = held THEN current_time' = current_time
           ELSE held < MaxHeld /\ current_time' = Plus1(current_time)
    <3>1. held = 0
      BY <1>1, <1>2 DEF Begins
    <3>2. /\ current_time' \in Times /\ held' \in 0..MaxHeld /\ (held' = held \/ held' = held + 1)
          /\ ~damaged => value = current_time \/ value = current_time'
          /\ IF held' = held THEN current_time' = current_time
             ELSE held < MaxHeld /\ current_time' = Plus1(current_time)
      BY <1>1, <2>1, ReadingIsTrue
    <3>3. held' = 0 \/ held' = 1
      BY <3>1, <3>2
    <3>4. QED BY <3>1, <3>2, <3>3
  <2>3. ~button_is_pressed /\ button_is_pressed' = TRUE /\ down' = down
    BY <1>2 DEF Begins
  <2>4. ButtonTypeOK'
    BY <1>1, <2>1, <2>2, <2>3 DEF ButtonTypeOK
  <2>5. ~torn' => Lasted'
    <3>1. Minus(current_time, current_time) = 0 /\ Minus(current_time', current_time') = 0
      BY <1>1, <2>2, ClockValues DEF ButtonTypeOK, Times
    <3>2. held' = 1 => Minus(current_time', current_time) = 1
      BY <1>1, <2>2, <3>1, ClockSteps DEF ButtonTypeOK
    <3>3. QED BY <2>1, <2>2, <3>1, <3>2 DEF Lasted, Elapsed
  <2>6. announced' = 0 /\ carried' = (inLine /\ button_press_registered)
    BY <2>3 DEF Presses
  <2>7. Pressed'
    BY <1>1, <2>2, <2>5, <2>6 DEF Pressed, ButtonInv, PanelTypeOK
  <2>8. QED BY <2>3, <2>4, <2>7 DEF ButtonInv
<1>3. CASE GoesOn
  <2>1. UNCHANGED <<current_time, down, button_is_pressed, button_pressed_timestamp, held, torn>>
        /\ button_is_pressed
    BY <1>3 DEF GoesOn, button
  <2>2. announced' = announced /\ carried' = carried
    BY <2>1 DEF Presses, ButtonInv, PanelTypeOK
  <2>3. ButtonTypeOK'
    BY <1>1, <2>1 DEF ButtonTypeOK
  <2>4. Pressed'
    BY <1>1, <2>1, <2>2 DEF ButtonInv, Pressed, Lasted, Elapsed
  <2>5. QED BY <2>1, <2>3, <2>4 DEF ButtonInv
<1>4. CASE IsOver
  <2>1. /\ UNCHANGED <<current_time, down>> /\ button_is_pressed' = FALSE
        /\ button_pressed_timestamp' = 0 /\ held' = 0 /\ torn' = FALSE
    BY <1>4 DEF IsOver
  <2>2. ButtonTypeOK'
    <3>1. 0 \in Times /\ 0 \in 0..MaxHeld
      BY ClockBounds DEF Times
    <3>2. QED BY <1>1, <2>1, <3>1 DEF ButtonTypeOK
  <2>3. QED BY <2>1, <2>2 DEF ButtonInv, Pressed
<1>5. QED BY <1>2, <1>3, <1>4 DEF service_button

\* What button_pressed_for tells of a press whose readings were true
LEMMA Measured ==
  ASSUME ButtonInv, NEW length \in Times, button_pressed_for(length), button_is_pressed, ~torn'
  PROVE  /\ ~torn /\ Lasted /\ Lasted' /\ held' \in 0..MaxHeld
         /\ held' = held \/ held' = held + 1
         /\ Elapsed \in Nat /\ Elapsed' \in Nat /\ length >= Elapsed /\ length <= Elapsed'
<1>1. PICK value \in Times, damaged \in BOOLEAN :
        /\ Reads(value, TRUE, damaged) /\ torn' = (torn \/ damaged)
        /\ length = Minus(value, button_pressed_timestamp)
  BY DEF button_pressed_for
<1>2. ButtonTypeOK /\ UNCHANGED button_pressed_timestamp
  BY DEF ButtonInv, button_pressed_for
<1>3. ~torn /\ ~damaged
  BY <1>1
<1>4. Lasted
  BY <1>3 DEF ButtonInv, Pressed
<1>5. /\ current_time' \in Times /\ held' \in 0..MaxHeld /\ (held' = held \/ held' = held + 1)
      /\ value = current_time \/ value = current_time'
      /\ IF held' = held THEN current_time' = current_time
         ELSE held < MaxHeld /\ current_time' = Plus1(current_time)
  BY <1>1, <1>2, <1>3, ReadingIsTrue
<1>6. Lasted' /\ Elapsed \in Nat /\ Elapsed' \in Nat /\ Elapsed' >= Elapsed
  BY <1>2, <1>4, <1>5, LastsOn
<1>7. length = Elapsed \/ length = Elapsed'
  BY <1>1, <1>2, <1>5 DEF Elapsed
<1>8. QED BY <1>3, <1>4, <1>5, <1>6, <1>7

LEMMA MeasureKeeps ==
  ASSUME ButtonInv, Measure PROVE ButtonInv'
<1>1. PICK length \in Times :
        /\ button_pressed_for(length)
        /\ button_press_registered' =
             (Announces(length) \/ (button_press_registered /\ ~Released(length)))
        /\ announced' = IF Announces(length) THEN announced + 1 ELSE announced
  BY DEF Measure
<1>2. /\ UNCHANGED <<board, line, carried, down, button_is_pressed, button_pressed_timestamp>>
      /\ pc = "measure" /\ pc' \in {"service", "command"}
  BY <1>1 DEF Measure, button_pressed_for
<1>3. PanelTypeOK'
  <2>1. reading' = reading /\ ~reading
    BY <1>2 DEF line, ButtonInv, PanelTypeOK
  <2>2. button_press_registered' \in BOOLEAN
    BY <1>1 DEF Announces, Released, ButtonInv, PanelTypeOK
  <2>3. announced' \in Nat
    BY <1>1 DEF ButtonInv, PanelTypeOK
  <2>4. QED BY <1>2, <2>1, <2>2, <2>3 DEF ButtonInv, PanelTypeOK
<1>4. ButtonTypeOK' /\ (~button_is_pressed' => held' = 0)
  <2>1. CASE button_is_pressed
    <3>1. PICK value \in Times, damaged \in BOOLEAN :
            Reads(value, TRUE, damaged) /\ torn' = (torn \/ damaged)
      BY <1>1, <2>1 DEF button_pressed_for
    <3>2. current_time' \in Times /\ held' \in 0..MaxHeld
      BY <3>1, ReadingIsTrue DEF ButtonInv
    <3>3. torn' \in BOOLEAN
      BY <3>1 DEF ButtonInv, ButtonTypeOK
    <3>4. QED BY <1>2, <2>1, <3>2, <3>3 DEF ButtonInv, ButtonTypeOK
  <2>2. CASE ~button_is_pressed
    <3>1. UNCHANGED <<current_time, held, torn>>
      BY <1>1, <2>2 DEF button_pressed_for
    <3>2. QED BY <1>2, <2>2, <3>1 DEF ButtonInv, ButtonTypeOK
  <2>3. QED BY <2>1, <2>2
<1>5. Pressed'
  <2> SUFFICES ASSUME button_is_pressed, ~torn'
               PROVE  /\ Lasted'
                      /\ \/ announced' = 0
                         \/ announced' = 1 /\ button_press_registered' /\ Elapsed' >= Hold
                      /\ button_press_registered' /\ announced' = 0 => carried
    BY <1>2 DEF Pressed
  <2>1. /\ ~torn /\ Lasted /\ Lasted' /\ held' \in 0..MaxHeld /\ (held' = held \/ held' = held + 1)
        /\ Elapsed \in Nat /\ Elapsed' \in Nat /\ length >= Elapsed /\ length <= Elapsed'
    BY <1>1, Measured
  <2>2. /\ announced = 0 \/ (announced = 1 /\ button_press_registered /\ Elapsed >= Hold)
        /\ button_press_registered /\ announced = 0 /\ ~carried => held <= 1
    BY <2>1 DEF ButtonInv, Pressed
  <2>3. length \in Nat /\ Hold \in Nat /\ held \in Nat /\ Hold >= 3
    BY ClockBounds DEF Times, ButtonInv, ButtonTypeOK
  <2>4. CASE Announces(length)
    <3>1. ~button_press_registered /\ length >= Hold
      BY <2>4 DEF Announces
    <3>2. announced' = 1
      BY <1>1, <2>2, <2>4, <3>1
    <3>3. button_press_registered'
      BY <1>1, <2>4
    <3>4. QED BY <2>1, <2>3, <3>1, <3>2, <3>3
  <2>5. CASE ~Announces(length)
    <3>1. announced' = announced
      BY <1>1, <2>5
    <3>2. CASE announced = 1
      <4>1. button_press_registered /\ length >= Hold /\ Elapsed' >= Hold
        BY <2>1, <2>2, <2>3, <3>2
      <4>2. ~Released(length)
        BY <2>3, <4>1 DEF Released
      <4>3. button_press_registered'
        BY <1>1, <4>1, <4>2
      <4>4. QED BY <2>1, <3>1, <3>2, <4>1, <4>3
    <3>3. CASE announced = 0
      <4>1. ASSUME button_press_registered', ~carried PROVE FALSE
        <5>1. button_press_registered /\ ~Released(length)
          BY <1>1, <2>5, <4>1
        <5>2. held <= 1
          BY <2>2, <3>3, <4>1, <5>1
        <5>3. length <= 2
          <6>1. Elapsed' = held' \/ Elapsed' = held' - 1
            BY <2>1 DEF Lasted
          <6>2. held' \in Nat /\ held' <= 2
            BY <2>1, <2>3, <5>2
          <6>3. /\ Elapsed' \in Nat /\ length \in Nat /\ length <= Elapsed'
                /\ Elapsed' = held' \/ Elapsed' = held' - 1
            BY <2>1, <2>3, <6>1
          <6>4. \A e \in Nat, h \in Nat, l \in Nat :
                  (e = h \/ e = h - 1) /\ h <= 2 /\ l <= e => l <= 2
            OBVIOUS
          <6>5. QED BY <6>2, <6>3, <6>4
        <5>4. QED BY <2>3, <5>1, <5>3 DEF Released
      <4>2. QED BY <2>1, <3>1, <3>3, <4>1
    <3>4. QED BY <2>2, <3>2, <3>3
  <2>6. QED BY <2>4, <2>5
<1>6. QED BY <1>3, <1>4, <1>5 DEF ButtonInv

\* A tick of the timer between the readings
LEMMA TickKeeps ==
  ASSUME ButtonInv, TimePasses PROVE ButtonInv'
<1>1. /\ pc # "measure" /\ held < MaxHeld
      /\ current_time' = Plus1(current_time) /\ held' = IF button_is_pressed THEN held + 1 ELSE 0
      /\ UNCHANGED <<down, button_is_pressed, button_pressed_timestamp, torn>>
      /\ UNCHANGED <<reading, pc, button_press_registered, announced, carried>>
  BY DEF TimePasses, Tick, Ticks, line, panel
<1>2. current_time' \in Times
  BY <1>1, ClockValues DEF ButtonInv, ButtonTypeOK
<1>3. held' \in 0..MaxHeld
  BY <1>1, ClockBounds DEF ButtonInv, ButtonTypeOK
<1>4. ButtonTypeOK' /\ PanelTypeOK' /\ (~button_is_pressed' => held' = 0)
  BY <1>1, <1>2, <1>3 DEF ButtonInv, ButtonTypeOK, PanelTypeOK
<1>5. ASSUME button_is_pressed, ~torn
      PROVE  Lasted' /\ Elapsed \in Nat /\ Elapsed' \in Nat /\ Elapsed' >= Elapsed
  <2>1. Lasted
    BY <1>5 DEF ButtonInv, Pressed
  <2>2. held' = held + 1
    BY <1>1, <1>5
  <2>3. QED BY <1>1, <1>3, <2>1, <2>2, LastsOn DEF ButtonInv
<1>6. Pressed'
  <2>1. Hold \in Nat
    BY ClockBounds
  <2>2. QED BY <1>1, <1>5, <2>1 DEF ButtonInv, Pressed
<1>7. QED BY <1>4, <1>6 DEF ButtonInv

\* What does not touch the button leaves what is known of it.
LEMMA ElsewhereKeeps ==
  ASSUME ButtonInv, PanelTypeOK', pc # "measure", UNCHANGED panel, down' \in BOOLEAN,
         UNCHANGED <<current_time, button_is_pressed, button_pressed_timestamp, held, torn>>
  PROVE  ButtonInv'
<1>1. UNCHANGED <<button_press_registered, announced, carried>>
  BY DEF panel
<1>2. ButtonTypeOK' /\ (~button_is_pressed' => held' = 0)
  BY DEF ButtonInv, ButtonTypeOK
<1>3. Pressed'
  BY <1>1 DEF ButtonInv, Pressed, Lasted, Elapsed
<1>4. QED BY <1>2, <1>3 DEF ButtonInv

\* The user's finger
LEMMA FingerKeeps ==
  ASSUME ButtonInv, Finger PROVE ButtonInv'
<1>1. down' \in BOOLEAN /\ UNCHANGED <<reading, pc, panel>>
      /\ UNCHANGED <<current_time, button_is_pressed, button_pressed_timestamp, held, torn>>
  BY DEF Finger, PressOrRelease, line, ButtonInv, ButtonTypeOK
<1>2. PanelTypeOK'
  BY <1>1 DEF panel, ButtonInv, PanelTypeOK
<1>3. ButtonTypeOK' /\ Pressed' /\ (~button_is_pressed' => held' = 0)
  BY <1>1 DEF panel, ButtonInv, ButtonTypeOK, Pressed, Lasted, Elapsed
<1>4. QED BY <1>2, <1>3 DEF ButtonInv

-----------------------------------------------------------------------------
(* The main loop                                                             *)

Inv == LineInv /\ ButtonInv

\* A line in which nothing is typed
LEMMA LineRests ==
  ASSUME LineInv, UNCHANGED <<board, line>> PROVE LineInv'
BY DEF LineInv, line, LineTypeOK, InHand, LineKept

LEMMA Starts == Init => Inv
BY LineStarts, ButtonStarts DEF Init, Inv

\* The step that service_button is part of
LEMMA ServiceKeeps ==
  ASSUME Inv, Service PROVE Inv'
<1>1. LineInv'
  BY LineRests DEF Inv, Service
<1>2. PanelTypeOK'
  <2>1. announced' \in Nat /\ carried' \in BOOLEAN /\ button_press_registered' \in BOOLEAN
    BY DEF Service, Presses, Inv, ButtonInv, ButtonTypeOK, PanelTypeOK
  <2>2. reading' = reading /\ pc' = "measure" /\ ~reading /\ pc = "service"
    BY DEF Service, line, Inv, ButtonInv, PanelTypeOK
  <2>3. QED BY <2>1, <2>2 DEF PanelTypeOK
<1>3. ButtonInv'
  BY <1>2, ServedKeeps DEF Service, Inv
<1>4. QED BY <1>1, <1>3 DEF Inv

LEMMA LineTurnKeeps ==
  ASSUME Inv, LineTurn PROVE Inv'
<1>1. reading /\ pc = "line" /\ UNCHANGED <<board, pc>>
  BY DEF LineTurn, Inv, ButtonInv, PanelTypeOK
<1>2. LineInv' /\ reading' = reading
  <2>1. CASE \E c \in Chars : Typed(c)
    <3>1. PICK c \in Chars : Typed(c)
      BY <2>1
    <3>2. CASE Room
      <4>1. Put(c) /\ reading' = reading
        BY <3>1, <3>2 DEF Typed, Put
      <4>2. QED BY <1>1, <3>2, <4>1, PutKeeps DEF Inv
    <3>3. CASE ~Room
      BY <1>1, <3>1, <3>3, LineRests DEF Typed, Inv, line
    <3>4. QED BY <3>2, <3>3
  <2>2. CASE Backspace
    <3>1. reading' = reading
      BY <2>2 DEF Backspace
    <3>2. QED BY <1>1, <2>2, <3>1, BackspaceKeeps DEF Inv, LineTurn
  <2>3. CASE UNCHANGED line
    BY <1>1, <2>3, LineRests DEF Inv, line
  <2>4. QED BY <2>1, <2>2, <2>3 DEF LineTurn
<1>3. PanelTypeOK'
  <2>1. announced' \in Nat /\ carried' \in BOOLEAN /\ button_press_registered' \in BOOLEAN
    BY DEF LineTurn, Presses, Inv, ButtonInv, ButtonTypeOK, PanelTypeOK
  <2>2. QED BY <1>1, <1>2, <2>1 DEF PanelTypeOK
<1>4. ButtonInv'
  BY <1>1, <1>3, ServedKeeps DEF LineTurn, Inv
<1>5. QED BY <1>2, <1>4 DEF Inv

LEMMA LineReturnsKeeps ==
  ASSUME Inv, LineReturns PROVE Inv'
<1>1. reading /\ pc = "line" /\ UNCHANGED <<button, board, panel>>
  BY DEF LineReturns, Inv, ButtonInv, PanelTypeOK
<1>2. LineInv' /\ (reading' <=> pc' = "line") /\ pc' \in {"line", "command"}
  <2>1. CASE board = "avr" /\ InBuffer /\ Enter /\ pc' = "command"
    <3>1. ~reading'
      BY <2>1 DEF Enter, Convert
    <3>2. QED BY <1>1, <2>1, <3>1, EnterKeeps DEF Inv
  <2>2. CASE board = "arduino" /\ Pause /\ pc' = "command"
    <3>1. ~reading'
      BY <2>2 DEF Pause, Convert
    <3>2. QED BY <1>1, <2>2, <3>1, PauseKeeps DEF Inv
  <2>3. CASE /\ board = "arduino" /\ \E c \in Chars : Received(c)
             /\ pc' = IF reading' THEN "line" ELSE "command"
    <3>1. LineInv'
      BY <1>1, <2>3, ReceivedKeeps DEF Inv
    <3>2. QED BY <2>3, <3>1
  <2>4. QED BY <2>1, <2>2, <2>3 DEF LineReturns
<1>3. PanelTypeOK'
  BY <1>1, <1>2 DEF panel, Inv, ButtonInv, PanelTypeOK, LineInv, LineTypeOK
<1>4. ButtonInv'
  BY <1>1, <1>3, ElsewhereKeeps DEF button, Inv, ButtonInv, ButtonTypeOK
<1>5. QED BY <1>2, <1>4 DEF Inv

LEMMA StepKeeps ==
  ASSUME Inv, Next PROVE Inv'
<1>1. CASE Service
  BY <1>1, ServiceKeeps
<1>2. CASE Measure
  BY <1>2, MeasureKeeps, LineRests DEF Inv, Measure
<1>3. CASE SketchTurn
  <2>1. LineInv'
    BY <1>3, LineRests DEF Inv, SketchTurn
  <2>2. PanelTypeOK' /\ pc # "measure"
    BY <1>3 DEF SketchTurn, line, panel, Inv, ButtonInv, PanelTypeOK
  <2>3. ButtonInv'
    BY <1>3, <2>2, ElsewhereKeeps DEF SketchTurn, button, Inv, ButtonInv, ButtonTypeOK
  <2>4. QED BY <2>1, <2>3 DEF Inv
<1>4. CASE AskFor
  <2>1. PICK n \in Lengths : Ask(n)
    BY <1>4 DEF AskFor
  <2>2. LineInv'
    BY <1>4, <2>1, AskKeeps DEF Inv, AskFor
  <2>3. PanelTypeOK' /\ pc # "measure"
    BY <1>4, <2>1 DEF AskFor, Ask, panel, Inv, ButtonInv, PanelTypeOK
  <2>4. ButtonInv'
    BY <1>4, <2>3, ElsewhereKeeps DEF AskFor, button, Inv, ButtonInv, ButtonTypeOK
  <2>5. QED BY <2>2, <2>4 DEF Inv
<1>5. CASE CommandEnds
  <2>1. ~reading /\ reading' = reading /\ pc' = "service"
    BY <1>5 DEF CommandEnds, Forget, Inv, ButtonInv, PanelTypeOK
  <2>2. LineInv'
    BY <1>5, <2>1, ForgetKeeps DEF Inv, CommandEnds
  <2>3. PanelTypeOK' /\ pc # "measure"
    BY <1>5, <2>1 DEF CommandEnds, panel, Inv, ButtonInv, PanelTypeOK
  <2>4. ButtonInv'
    BY <1>5, <2>3, ElsewhereKeeps DEF CommandEnds, button, Inv, ButtonInv, ButtonTypeOK
  <2>5. QED BY <2>2, <2>4 DEF Inv
<1>6. CASE LineTurn
  BY <1>6, LineTurnKeeps
<1>7. CASE LineReturns
  BY <1>7, LineReturnsKeeps
<1>8. CASE LineLost
  <2>1. LineInv'
    BY <1>8, LineRests DEF Inv, LineLost
  <2>2. PanelTypeOK' /\ pc # "measure"
    BY <1>8 DEF LineLost, line, panel, Inv, ButtonInv, PanelTypeOK
  <2>3. ButtonInv'
    BY <1>8, <2>2, ElsewhereKeeps DEF LineLost, button, Inv, ButtonInv, ButtonTypeOK
  <2>4. QED BY <2>1, <2>3 DEF Inv
<1>9. CASE TimePasses
  BY <1>9, TickKeeps, LineRests DEF Inv, TimePasses
<1>10. CASE Finger
  BY <1>10, FingerKeeps, LineRests DEF Inv, Finger
<1>11. QED
  BY <1>1, <1>2, <1>3, <1>4, <1>5, <1>6, <1>7, <1>8, <1>9, <1>10 DEF Next

LEMMA NothingKeeps ==
  ASSUME Inv, UNCHANGED vars PROVE Inv'
<1>1. LineInv'
  BY LineRests DEF Inv, vars
<1>2. ButtonInv'
  BY DEF Inv, vars, button, line, panel, ButtonInv, ButtonTypeOK, PanelTypeOK, Pressed, Lasted,
         Elapsed
<1>3. QED BY <1>1, <1>2 DEF Inv

LEMMA AlwaysInv == Spec => []Inv
<1>1. Inv /\ [Next]_vars => Inv'
  BY StepKeeps, NothingKeeps
<1>2. QED BY Starts, <1>1, PTL DEF Spec

-----------------------------------------------------------------------------
(* Theorems                                                                  *)

\* Every variable of the button, of the line editor and of the main loop keeps to its
\* type: the line stays in its buffer and the cursor in its 16 bits.
THEOREM TypeCorrect == Spec => []TypeOK
<1>1. Inv => TypeOK
  BY DEF Inv, LineInv, ButtonInv, PanelTypeOK, TypeOK
<1>2. QED BY AlwaysInv, <1>1, PTL

\* main: unless a reading of the four bytes of the time was torn, a press is announced no
\* more than once and not before it has lasted its 70 ms, wherever the ticks fall and
\* wherever the counter stands.
THEOREM PressAnnounced == Spec => []AnnouncedPress
<1>1. Inv => AnnouncedPress
  <2> SUFFICES ASSUME Inv, button_is_pressed, ~torn
               PROVE  announced <= 1 /\ (announced = 1 => held >= Hold)
    BY DEF AnnouncedPress
  <2>1. /\ Lasted /\ held \in Nat /\ Hold \in Nat
        /\ announced = 0 \/ (announced = 1 /\ Elapsed >= Hold)
    BY ClockBounds DEF Inv, ButtonInv, ButtonTypeOK, Pressed
  <2>2. QED BY <2>1 DEF Lasted
<1>2. QED BY AlwaysInv, <1>1, PTL

\* get_bytes_serial: a command gets the bytes of what the terminal shows, unless more was
\* erased than had been typed.
THEOREM LineIsKept == Spec => []LineKept
<1>1. Inv => LineKept
  BY DEF Inv, LineInv
<1>2. QED BY AlwaysInv, <1>1, PTL

\* main: the turn of the loop that finds a press more than Hold ticks long leaves it
\* announced.
THEOREM NothingIsMissed == Spec => NothingMissed
<1>1. ASSUME Inv, Measure, button_is_pressed, held > Hold, ~torn', ~carried
      PROVE  announced' = 1
  <2>1. PICK length \in Times :
          /\ button_pressed_for(length)
          /\ announced' = IF Announces(length) THEN announced + 1 ELSE announced
    BY <1>1 DEF Measure
  <2>2. /\ ~torn /\ Lasted /\ Elapsed \in Nat /\ length >= Elapsed
    BY <1>1, <2>1, Measured DEF Inv
  <2>3. /\ held \in Nat /\ Hold \in Nat /\ Hold >= 3 /\ length \in Nat
    BY <1>1, ClockBounds DEF Times, Inv, ButtonInv, ButtonTypeOK
  <2>4. length >= Hold
    BY <1>1, <2>2, <2>3 DEF Lasted
  <2>5. /\ announced = 0 \/ (announced = 1 /\ button_press_registered)
        /\ button_press_registered /\ announced = 0 => held <= 1
    BY <1>1, <2>2 DEF Inv, ButtonInv, Pressed
  <2>6. CASE button_press_registered
    <3>1. announced = 1
      BY <1>1, <2>3, <2>5, <2>6
    <3>2. QED BY <2>1, <2>6, <3>1 DEF Announces
  <2>7. CASE ~button_press_registered
    <3>1. announced = 0
      BY <2>5, <2>7
    <3>2. QED BY <2>1, <2>4, <2>7, <3>1 DEF Announces
  <2>8. QED BY <2>6, <2>7
<1>2. Inv /\ [Next]_vars =>
        [(Measure /\ button_is_pressed /\ held > Hold /\ ~torn' /\ ~carried) => announced' = 1]_vars
  BY <1>1
<1>3. QED BY AlwaysInv, <1>2, PTL DEF Spec, NothingMissed
=============================================================================
