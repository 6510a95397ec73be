-------------------------------- MODULE Crc --------------------------------
(***************************************************************************)
(* calculate_crc and check_crc of avr/SHA204/SHA204.cpp (crc16 of          *)
(* talk_to_sha204.py is the same computation): 16 bits, polynomial 0x8005, *)
(* the bits of a byte from the lowest to the highest.                      *)
(***************************************************************************)
EXTENDS Integers, Sequences

\* A number with one of its bits flipped, and a byte with those at `places` flipped
Flip(n, weight) == IF (n \div weight) % 2 = 1 THEN n - weight ELSE n + weight
FlipAll(byte, places) ==
  LET flipped[k \in 0..8] ==
        IF k = 0 THEN byte
        ELSE IF k - 1 \in places THEN Flip(flipped[k - 1], 2^(k - 1)) ELSE flipped[k - 1]
  IN flipped[8]

\* One bit of data into the register
Shifted(crc, bit) ==
  LET left == (2 * crc) % 65536 IN
  IF bit # crc \div 32768 THEN Flip(Flip(Flip(left, 1), 4), 32768) ELSE left

\* The bytes of data, each from its lowest bit on
Crc16(data) ==
  LET with[crc \in 0..65535, byte \in 0..255] ==
        LET after[bits \in 0..8] ==
              IF bits = 0 THEN crc ELSE Shifted(after[bits - 1], (byte \div 2^(bits - 1)) % 2)
        IN after[8]
      crc_register[counter \in 0..Len(data)] ==
        IF counter = 0 THEN 0 ELSE with[crc_register[counter - 1], data[counter]]
  IN crc_register[Len(data)]

calculate_crc(data) == <<Crc16(data) % 256, Crc16(data) \div 256>>

\* mutant: the second byte is not compared
check_crcHalf(response) ==
  LET count == response[1] - 2 IN
  calculate_crc(SubSeq(response, 1, count))[1] = response[count + 1]

\* response[0] says how much of the buffer is response (the caller sees to it that it is
\* no less than 4 and no more than the buffer)
check_crc(response) ==
  LET count == response[1] - 2 IN
  calculate_crc(SubSeq(response, 1, count)) = <<response[count + 1], response[count + 2]>>

\* A response in which some bits are flipped, numbered in the order of transmission: the
\* count byte has 0 to 7
Damaged(response, bits) ==
  [i \in DOMAIN response |->
     FlipAll(response[i], {place \in 0..7 : 8 * (i - 1) + place \in bits})]
=============================================================================
