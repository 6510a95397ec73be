--------------------------- MODULE Commands_proofs ---------------------------
(***************************************************************************)
(* The clock of one command, the packets of every command, the             *)
(* configuration zone and undamaged responses, for every table of times    *)
(* whose timeouts fit 16 bits, all parameters, all zones, any number of    *)
(* options and all the bytes of a response.                                *)
(***************************************************************************)
EXTENDS Commands, SequenceTheorems, TLAPS

(* The clock *)

\* Time spent and time left add up; the loop is left when less than a poll's
\* width of it is left, and an answer missed was not ready at the last poll.
Clock ==
  /\ pc = "poll" =>
       /\ now + countdown = Allowed(op_code) + ResponseTimeout
       /\ countdown >= ResponseTimeout
  /\ pc = "done" /\ ret_code # "SUCCESS" =>
       /\ now + countdown = Allowed(op_code) + ResponseTimeout
       /\ countdown <= ResponseTimeout
       /\ ready + ResponseTimeout > now

TimingInv == TypeOK /\ Clock

(***************************************************************************)
(* No timeout of execute is negative: the shortest execution time of a     *)
(* command, rounded down, does not exceed the longest, rounded.            *)
(***************************************************************************)
LEMMA TimesAreNat ==
  ASSUME NEW o \in OpCodes
  PROVE  PollDelay(o) \in Nat /\ PollTimeout(o) \in Nat
<1>1. \A t \in Nat : DelayMs(t) \in Nat /\ ExecMaxMs(t) \in Nat
  BY DEF DelayMs, ExecMaxMs, Max
<1>2. \A s, t \in Nat : s <= t => DelayMs(s) <= ExecMaxMs(t)
  BY DEF DelayMs, ExecMaxMs, Max
<1>3. CASE o \in Known
  BY <1>1, <1>2, <1>3, ExecAssumption DEF PollDelay, PollTimeout
<1>4. CASE o \notin Known
  BY <1>1, <1>4, ExecAssumption DEF PollDelay, PollTimeout
<1> QED
  BY <1>3, <1>4

(***************************************************************************)
(* A step of the clock keeps types and, if the timeouts fit their 16 bits, *)
(* the sum of what is spent and what is left.                              *)
(***************************************************************************)
LEMMA TimingStep ==
  ASSUME NothingWraps, TimingInv, [Next]_vars
  PROVE  TimingInv'
<1>0. TypeOK /\ Clock
  BY DEF TimingInv
<1> USE <1>0, TimeoutAssumption DEF TypeOK
<1>1. CASE WaitDelay
  <2>1. PollDelay(op_code) \in Nat /\ PollTimeout(op_code) \in Nat
    BY TimesAreNat
  <2>2. PollTimeout(op_code) * 1000 + ResponseTimeout <= 65535
    BY DEF NothingWraps
  <2>3. countdown' = PollTimeout(op_code) * 1000 + ResponseTimeout
    BY <1>1, <2>1, <2>2 DEF WaitDelay, TimeoutUs, Wrap
  <2>4. now' = PollDelay(op_code) * 1000 /\ pc' = "poll" /\ UNCHANGED <<op_code, ready, ret_code>>
    BY <1>1 DEF WaitDelay
  <2>5. Allowed(op_code) = PollDelay(op_code) * 1000 + PollTimeout(op_code) * 1000
    BY <2>1 DEF Allowed
  <2>6. Allowed(op_code)' = Allowed(op_code)
    BY <2>4 DEF Allowed, PollDelay, PollTimeout
  <2>7. now' \in Nat /\ countdown' \in Nat /\ countdown' < 65536
    BY <2>1, <2>2, <2>3, <2>4
  <2>8. now' + countdown' = Allowed(op_code) + ResponseTimeout /\ countdown' >= ResponseTimeout
    BY <2>1, <2>3, <2>4, <2>5
  <2> QED
    BY <2>4, <2>6, <2>7, <2>8 DEF Clock, TimingInv
<1>2. CASE Poll
  <2>1. PollDelay(op_code) \in Nat /\ PollTimeout(op_code) \in Nat
    BY TimesAreNat
  <2>2. Allowed(op_code) \in Nat
    BY <2>1 DEF Allowed
  <2>3. now + countdown = Allowed(op_code) + ResponseTimeout /\ countdown >= ResponseTimeout
    BY <1>2 DEF Poll, Clock
  <2>4. countdown' = countdown - ResponseTimeout
    BY <1>2, <2>3 DEF Poll, Wrap
  <2>5. TypeOK'
    <3>1. countdown' \in Nat /\ countdown' < 65536 /\ now' \in Nat
      BY <1>2, <2>3, <2>4 DEF Poll
    <3> QED
      BY <1>2, <3>1 DEF Poll
  <2>6. Clock'
    BY <1>2, <2>2, <2>3, <2>4 DEF Poll, Clock, KeepPolling, Allowed
  <2> QED
    BY <2>5, <2>6 DEF TimingInv
<1>3. CASE UNCHANGED vars
  BY <1>3 DEF vars, TimingInv, Clock, Allowed, PollDelay, PollTimeout
<1> QED
  BY <1>1, <1>2, <1>3 DEF Next, TimingInv

LEMMA TypesKept ==
  ASSUME TypeOK, [Next]_vars
  PROVE  TypeOK'
<1> USE TimeoutAssumption DEF TypeOK
<1>1. CASE WaitDelay
  <2>1. PollDelay(op_code) \in Nat /\ PollTimeout(op_code) \in Nat
    BY TimesAreNat
  <2>2. TimeoutUs(op_code) \in Nat /\ TimeoutUs(op_code) < 65536
    BY <2>1 DEF TimeoutUs, Wrap
  <2> QED
    BY <1>1, <2>1, <2>2 DEF WaitDelay
<1>2. CASE Poll
  <2>1. countdown' \in Nat /\ countdown' < 65536 /\ now' \in Nat
    BY <1>2 DEF Poll, Wrap
  <2> QED
    BY <1>2, <2>1 DEF Poll
<1>3. CASE UNCHANGED vars
  BY <1>3 DEF vars
<1> QED
  BY <1>1, <1>2, <1>3 DEF Next

LEMMA TimingInductive ==
  ASSUME NothingWraps
  PROVE  Spec => []TimingInv
<1>1. Init => TimingInv
  BY TimeoutAssumption DEF Init, TimingInv, TypeOK, Clock
<1>2. TimingInv /\ [Next]_vars => TimingInv'
  BY TimingStep
<1> QED
  BY <1>1, <1>2, PTL DEF Spec

(***************************************************************************)
(* A chip that answers a poll before the allowed time is over is heard.    *)
(***************************************************************************)
LEMMA HeardByTheClock == TimingInv => PunctualIsHeard
<1> SUFFICES ASSUME TimingInv, pc = "done", ready + ResponseTimeout <= Allowed(op_code), ret_code # "SUCCESS"
             PROVE  FALSE
  BY DEF PunctualIsHeard
<1>1. PollDelay(op_code) \in Nat /\ PollTimeout(op_code) \in Nat
  BY TimesAreNat DEF TimingInv, TypeOK
<1> QED
  BY <1>1, TimeoutAssumption DEF TimingInv, TypeOK, Clock, Allowed

(***************************************************************************)
(* Whatever its table of times, as long as the timeouts fit their 16 bits, *)
(* execute hears every chip that has its answer ready a poll before the    *)
(* longest time allowed for.                                               *)
(***************************************************************************)
THEOREM PunctualHeard ==
  ASSUME NothingWraps
  PROVE  Spec => []PunctualIsHeard
  BY HeardByTheClock, TimingInductive, PTL

(***************************************************************************)
(* Whatever the table of execution times, the library neither gives up     *)
(* before the time it allows for is over nor more than a poll after it.    *)
(***************************************************************************)
LEMMA GivenUpByTheClock == TimingInv => GivesUpOnTime
<1> SUFFICES ASSUME TimingInv, pc = "done", ret_code # "SUCCESS"
             PROVE  Allowed(op_code) <= now /\ now - ResponseTimeout <= Allowed(op_code)
  BY DEF GivesUpOnTime
<1>1. PollDelay(op_code) \in Nat /\ PollTimeout(op_code) \in Nat
  BY TimesAreNat DEF TimingInv, TypeOK
<1>2. Allowed(op_code) \in Nat
  BY <1>1 DEF Allowed
<1> QED
  BY <1>2, TimeoutAssumption DEF TimingInv, TypeOK, Clock

(***************************************************************************)
(* With the same proviso, execute never gives a command up before the      *)
(* longest time allowed for is over, nor more than a poll after it.        *)
(***************************************************************************)
THEOREM GivenUpOnTime ==
  ASSUME NothingWraps
  PROVE  Spec => []GivesUpOnTime
  BY GivenUpByTheClock, TimingInductive, PTL

-----------------------------------------------------------------------------
(* The packets *)

LibraryCalls == [op : Ops, param1 : 0..255, param2 : Nat, given : BOOLEAN]

\* What execute makes of no data, and of one, two and three pieces of it.
LEMMA ExecutedBare ==
  ASSUME NEW op, NEW param1, NEW param2, NEW rx_size
  PROVE  execute(op, param1, param2, <<0, 0, 0>>, rx_size) =
           Packet(op, param1, param2, 7, {}, ResponseSize(op, param1, rx_size))
<1>1. CmdSizeMin + Size(<<0, 0, 0>>) = 7
  BY DEF Size, CmdSizeMin
<1>2. Laid(<<0, 0, 0>>) = {}
  BY DEF Laid, At, DataIdx
<1> QED
  BY <1>1, <1>2 DEF execute

LEMMA ExecutedOne ==
  ASSUME NEW op, NEW param1, NEW param2, NEW rx_size,
         NEW m \in Nat \ {0}
  PROVE  execute(op, param1, param2, <<m, 0, 0>>, rx_size) =
           Packet(op, param1, param2, 7 + m, {At(5, "data1", m)}, ResponseSize(op, param1, rx_size))
<1>1. CmdSizeMin + Size(<<m, 0, 0>>) = 7 + m
  BY DEF Size, CmdSizeMin
<1>2. Laid(<<m, 0, 0>>) = {At(5, "data1", m)}
  BY DEF Laid, At, DataIdx
<1> QED
  BY <1>1, <1>2 DEF execute

LEMMA ExecutedTwo ==
  ASSUME NEW op, NEW param1, NEW param2, NEW rx_size,
         NEW m \in Nat \ {0}, NEW n \in Nat \ {0}
  PROVE  execute(op, param1, param2, <<m, n, 0>>, rx_size) =
           Packet(op, param1, param2, 7 + m + n, {At(5, "data1", m), At(5 + m, "data2", n)}, ResponseSize(op, param1, rx_size))
<1>1. CmdSizeMin + Size(<<m, n, 0>>) = 7 + m + n
  BY DEF Size, CmdSizeMin
<1>2. Laid(<<m, n, 0>>) = {At(5, "data1", m), At(5 + m, "data2", n)}
  BY DEF Laid, At, DataIdx
<1> QED
  BY <1>1, <1>2 DEF execute

LEMMA ExecutedThree ==
  ASSUME NEW op, NEW param1, NEW param2, NEW rx_size,
         NEW m \in Nat \ {0}, NEW n \in Nat \ {0}, NEW k \in Nat \ {0}
  PROVE  execute(op, param1, param2, <<m, n, k>>, rx_size) =
           Packet(op, param1, param2, 7 + m + n + k, {At(5, "data1", m), At(5 + m, "data2", n), At(5 + m + n, "data3", k)}, ResponseSize(op, param1, rx_size))
<1>1. CmdSizeMin + Size(<<m, n, k>>) = 7 + m + n + k
  BY DEF Size, CmdSizeMin
<1>2. Laid(<<m, n, k>>) = {At(5, "data1", m), At(5 + m, "data2", n), At(5 + m + n, "data3", k)}
  BY DEF Laid, At, DataIdx
<1> QED
  BY <1>1, <1>2 DEF execute

\* lock masks the zone with bits it has found to be the only ones set.
LEMMA LockFlags ==
  ASSUME NEW bits \in 0..255, ~Reserved(bits, {1, 128})
  PROVE  (bits % 2) + 128 * (bits \div 128) = bits
<1>1. ~Has(bits, 2) /\ ~Has(bits, 4) /\ ~Has(bits, 8) /\ ~Has(bits, 16) /\ ~Has(bits, 32) /\ ~Has(bits, 64)
  BY DEF Reserved, AllFlags
<1> QED
  BY <1>1 DEF Has

\* A parameter with only one bit that is not reserved has two values.
LEMMA OneFlag ==
  ASSUME NEW bits \in 0..255, NEW mask, mask \in {{1}, {4}}, ~Reserved(bits, mask)
  PROVE  bits \in {0, CHOOSE f \in mask : TRUE}
<1>1. CASE mask = {1}
  <2>1. /\ ~Has(bits, 2) /\ ~Has(bits, 4) /\ ~Has(bits, 8) /\ ~Has(bits, 16) /\ ~Has(bits, 32)
        /\ ~Has(bits, 64) /\ ~Has(bits, 128)
    BY <1>1 DEF Reserved, AllFlags
  <2> QED
    BY <1>1, <2>1 DEF Has
<1>2. CASE mask = {4}
  <2>1. /\ ~Has(bits, 1) /\ ~Has(bits, 2) /\ ~Has(bits, 8) /\ ~Has(bits, 16) /\ ~Has(bits, 32)
        /\ ~Has(bits, 64) /\ ~Has(bits, 128)
    BY <1>2 DEF Reserved, AllFlags
  <2> QED
    BY <1>2, <2>1 DEF Has
<1> QED
  BY <1>1, <1>2

\* An address that is in its zone is not cut short by the mask for all
\* zones.
LEMMA WordKept ==
  ASSUME NEW param1 \in 0..255, NEW word \in Nat, ~OutOfZone(param1, word), Zone(param1) # "none"
  PROVE  word % 128 = word
<1>1. Zone(param1) \in {"config", "otp", "data"} /\ word <= AddressMask[Zone(param1)]
  <2>1. param1 % 4 \in 0..3
    OBVIOUS
  <2>2. Zone(param1) \in {"config", "otp", "data", "none"}
    BY <2>1 DEF Zone
  <2> QED
    BY <2>2 DEF OutOfZone, AddressMask
<1> QED
  BY <1>1 DEF AddressMask

(***************************************************************************)
(* What a function of the library hands to send_and_receive, if it does    *)
(* not refuse, is what execute would.                                      *)
(***************************************************************************)
LEMMA WrapperExecutes ==
  ASSUME NEW c \in LibraryCalls, Wrapper(c) # BadParam
  PROVE  /\ Wrapper(c).op = c.op
         /\ Wrapper(c).count <= CmdSizeMax
         /\ ~(c.op \in {"READ", "WRITE"} /\ Zone(c.param1) = "none") =>
              Wrapper(c) = execute(c.op, Param1(c), Param2(c), Lens(c), RspSizeMax)
<1> DEFINE Agrees(p) ==
      /\ p.op = c.op /\ p.count <= CmdSizeMax
      /\ ~(c.op \in {"READ", "WRITE"} /\ Zone(c.param1) = "none") =>
           p = execute(c.op, Param1(c), Param2(c), Lens(c), RspSizeMax)
<1> SUFFICES Agrees(Wrapper(c))
  OBVIOUS
<1>0. c.op \in Ops /\ c.param1 \in 0..255 /\ c.param2 \in Nat /\ c.given \in BOOLEAN
  BY DEF LibraryCalls
<1> USE <1>0 DEF CmdSizeMin, CmdSizeMax, RspSizeMin, RspSizeVal, RspSizeMax
<1> HIDE DEF Agrees
<1>1. CASE c.op = "RANDOM"
  <2> DEFINE p == Packet("RANDOM", 0, 0, 7, {}, 35)
  <2>1. Wrapper(c) = p
    BY <1>1 DEF Wrapper, random
  <2>2. Lens(c) = <<0, 0, 0>> /\ Param1(c) = 0 /\ Param2(c) = 0
    BY <1>1 DEF Lens, Param1, Param2, NoData, FourBytes, ThirtyTwo
  <2>3. ResponseSize(c.op, Param1(c), 35) = 35
    BY <1>1, <2>2 DEF ResponseSize
  <2>4. execute(c.op, Param1(c), Param2(c), Lens(c), 35) = p
    BY <1>1, <2>2, <2>3, ExecutedBare
  <2> QED
    BY <1>1, <2>1, <2>4 DEF Agrees, Packet
<1>2. CASE c.op = "DEVREV"
  <2> DEFINE p == Packet("DEVREV", 0, 0, 7, {}, 7)
  <2>1. Wrapper(c) = p
    BY <1>2 DEF Wrapper, dev_rev
  <2>2. Lens(c) = <<0, 0, 0>> /\ Param1(c) = 0 /\ Param2(c) = 0
    BY <1>2 DEF Lens, Param1, Param2, NoData, FourBytes, ThirtyTwo
  <2>3. ResponseSize(c.op, Param1(c), 35) = 7
    BY <1>2, <2>2 DEF ResponseSize
  <2>4. execute(c.op, Param1(c), Param2(c), Lens(c), 35) = p
    BY <1>2, <2>2, <2>3, ExecutedBare
  <2> QED
    BY <1>2, <2>1, <2>4 DEF Agrees, Packet
<1>3. CASE c.op = "READ"
  <2> DEFINE response == IF Has(c.param1, 128) THEN 35 ELSE 7
             word == c.param2 \div 4
  <2>1. word \in Nat
    OBVIOUS
  <2>2. Wrapper(c) = Packet("READ", c.param1, word % 128, 7, {}, response) /\ ~OutOfZone(c.param1, word)
    BY <1>3 DEF Wrapper, read
  <2>3. Zone(c.param1) # "none" => word % 128 = word
    BY <2>1, <2>2, WordKept
  <2>4. Lens(c) = <<0, 0, 0>> /\ Param1(c) = c.param1 /\ Param2(c) = word
    BY <1>3 DEF Lens, Param1, Param2, NoData
  <2>5. ResponseSize(c.op, Param1(c), 35) = response
    BY <1>3, <2>4 DEF ResponseSize
  <2>6. execute(c.op, Param1(c), Param2(c), Lens(c), 35) = Packet("READ", c.param1, word, 7, {}, response)
    BY <1>3, <2>4, <2>5, ExecutedBare
  <2> QED
    BY <1>3, <2>2, <2>3, <2>6 DEF Agrees, Packet
<1>4. CASE c.op = "CHECKMAC"
  <2> DEFINE p == Packet("CHECKMAC", c.param1, c.param2, 84,
                         {At(5, "data1", 32), At(37, "data2", 32), At(69, "data3", 13)}, 4)
  <2>1. Wrapper(c) = p
    BY <1>4 DEF Wrapper, check_mac
  <2>2. Lens(c) = <<32, 32, 13>> /\ Param1(c) = c.param1 /\ Param2(c) = c.param2
    BY <1>4 DEF Lens, Param1, Param2, NoData, FourBytes, ThirtyTwo
  <2>3. ResponseSize(c.op, Param1(c), 35) = 4
    BY <1>4, <2>2 DEF ResponseSize
  <2>4. execute(c.op, Param1(c), Param2(c), Lens(c), 35) = p
    BY <1>4, <2>2, <2>3, ExecutedThree
  <2> QED
    BY <1>4, <2>1, <2>4 DEF Agrees, Packet
<1>5. CASE c.op = "DERIVE_KEY"
  <2> DEFINE p == Packet("DERIVE_KEY", c.param1, c.param2, IF c.given THEN 39 ELSE 7,
                         IF c.given THEN {At(5, "data1", 32)} ELSE {}, 4)
  <2>1. Wrapper(c) = p
    BY <1>5 DEF Wrapper, derive_key
  <2>2. Param1(c) = c.param1 /\ Param2(c) = c.param2
    BY <1>5 DEF Param1, Param2
  <2>3. ResponseSize(c.op, Param1(c), 35) = 4
    BY <1>5, <2>2 DEF ResponseSize
  <2>4. CASE c.given
    <3>1. Lens(c) = <<32, 0, 0>>
      BY <1>5, <2>4 DEF Lens, FourBytes, ThirtyTwo
    <3> QED
      BY <1>5, <2>1, <2>2, <2>3, <2>4, <3>1, ExecutedBare, ExecutedOne DEF Agrees, Packet
  <2>5. CASE ~(c.given)
    <3>1. Lens(c) = <<0, 0, 0>>
      BY <1>5, <2>5 DEF Lens, NoData
    <3> QED
      BY <1>5, <2>1, <2>2, <2>3, <2>5, <3>1, ExecutedBare, ExecutedOne DEF Agrees, Packet
  <2> QED
    BY <2>4, <2>5
<1>6. CASE c.op = "GENDIG"
  <2> DEFINE p == Packet("GENDIG", c.param1, c.param2, IF c.given THEN 11 ELSE 7,
                         IF c.given THEN {At(5, "data1", 4)} ELSE {}, 4)
  <2>1. Wrapper(c) = p
    BY <1>6 DEF Wrapper, gen_dig
  <2>2. Param1(c) = c.param1 /\ Param2(c) = c.param2
    BY <1>6 DEF Param1, Param2
  <2>3. ResponseSize(c.op, Param1(c), 35) = 4
    BY <1>6, <2>2 DEF ResponseSize
  <2>4. CASE c.given
    <3>1. Lens(c) = <<4, 0, 0>>
      BY <1>6, <2>4 DEF Lens, FourBytes, ThirtyTwo
    <3> QED
      BY <1>6, <2>1, <2>2, <2>3, <2>4, <3>1, ExecutedBare, ExecutedOne DEF Agrees, Packet
  <2>5. CASE ~(c.given)
    <3>1. Lens(c) = <<0, 0, 0>>
      BY <1>6, <2>5 DEF Lens, NoData
    <3> QED
      BY <1>6, <2>1, <2>2, <2>3, <2>5, <3>1, ExecutedBare, ExecutedOne DEF Agrees, Packet
  <2> QED
    BY <2>4, <2>5
<1>7. CASE c.op = "HMAC"
  <2> DEFINE p == Packet("HMAC", c.param1, c.param2, 7, {}, 35)
  <2>1. Wrapper(c) = p
    BY <1>7 DEF Wrapper, hmac
  <2>2. Lens(c) = <<0, 0, 0>> /\ Param1(c) = c.param1 /\ Param2(c) = c.param2
    BY <1>7 DEF Lens, Param1, Param2, NoData, FourBytes, ThirtyTwo
  <2>3. ResponseSize(c.op, Param1(c), 35) = 35
    BY <1>7, <2>2 DEF ResponseSize
  <2>4. execute(c.op, Param1(c), Param2(c), Lens(c), 35) = p
    BY <1>7, <2>2, <2>3, ExecutedBare
  <2> QED
    BY <1>7, <2>1, <2>4 DEF Agrees, Packet
<1>8. CASE c.op = "LOCK"
  <2> DEFINE p == Packet("LOCK", c.param1, c.param2, 7, {}, 4)
  <2>1. Wrapper(c) = p
    BY <1>8, LockFlags DEF Wrapper, lock
  <2>2. Lens(c) = <<0, 0, 0>> /\ Param1(c) = c.param1 /\ Param2(c) = c.param2
    BY <1>8 DEF Lens, Param1, Param2, NoData, FourBytes, ThirtyTwo
  <2>3. ResponseSize(c.op, Param1(c), 35) = 4
    BY <1>8, <2>2 DEF ResponseSize
  <2>4. execute(c.op, Param1(c), Param2(c), Lens(c), 35) = p
    BY <1>8, <2>2, <2>3, ExecutedBare
  <2> QED
    BY <1>8, <2>1, <2>4 DEF Agrees, Packet
<1>9. CASE c.op = "MAC"
  <2>0. Has(c.param1, 1) <=> ~(c.param1 % 2 = 0)
    BY DEF Has
  <2> DEFINE p == Packet("MAC", c.param1, c.param2, IF c.param1 % 2 = 0 THEN 39 ELSE 7,
                         IF c.param1 % 2 = 0 THEN {At(5, "data1", 32)} ELSE {}, 35)
  <2>1. Wrapper(c) = p
    BY <1>9, <2>0 DEF Wrapper, mac
  <2>2. Param1(c) = c.param1 /\ Param2(c) = c.param2
    BY <1>9 DEF Param1, Param2
  <2>3. ResponseSize(c.op, Param1(c), 35) = 35
    BY <1>9, <2>2 DEF ResponseSize
  <2>4. CASE c.param1 % 2 = 0
    <3>1. Lens(c) = <<32, 0, 0>>
      BY <1>9, <2>4 DEF Lens, FourBytes, ThirtyTwo
    <3> QED
      BY <1>9, <2>1, <2>2, <2>3, <2>4, <3>1, ExecutedBare, ExecutedOne DEF Agrees, Packet
  <2>5. CASE ~(c.param1 % 2 = 0)
    <3>1. Lens(c) = <<0, 0, 0>>
      BY <1>9, <2>5 DEF Lens, NoData
    <3> QED
      BY <1>9, <2>1, <2>2, <2>3, <2>5, <3>1, ExecutedBare, ExecutedOne DEF Agrees, Packet
  <2> QED
    BY <2>4, <2>5
<1>10. CASE c.op = "NONCE"
  <2>1. Param1(c) = c.param1 /\ Param2(c) = 0
    BY <1>10 DEF Param1, Param2
  <2>2. CASE c.param1 = 3
    <3>1. Wrapper(c) = Packet("NONCE", 3, 0, 39, {At(5, "data1", 32)}, 4)
      BY <1>10, <2>2 DEF Wrapper, nonce
    <3>2. Lens(c) = <<32, 0, 0>> /\ ResponseSize(c.op, Param1(c), 35) = 4
      BY <1>10, <2>1, <2>2 DEF Lens, ResponseSize
    <3> QED
      BY <1>10, <2>1, <2>2, <3>1, <3>2, ExecutedBare, ExecutedOne DEF Agrees, Packet
  <2>3. CASE c.param1 # 3
    <3>1. Wrapper(c) = Packet("NONCE", c.param1, 0, 27, {At(5, "data1", 20)}, 35)
      BY <1>10, <2>3 DEF Wrapper, nonce
    <3>2. Lens(c) = <<20, 0, 0>> /\ ResponseSize(c.op, Param1(c), 35) = 35
      BY <1>10, <2>1, <2>3 DEF Lens, ResponseSize
    <3> QED
      BY <1>10, <2>1, <2>3, <3>1, <3>2, ExecutedBare, ExecutedOne DEF Agrees, Packet
  <2> QED
    BY <2>2, <2>3
<1>11. CASE c.op = "PAUSE"
  <2> DEFINE p == Packet("PAUSE", c.param1, 0, 7, {}, 4)
  <2>1. Wrapper(c) = p
    BY <1>11 DEF Wrapper, pause
  <2>2. Lens(c) = <<0, 0, 0>> /\ Param1(c) = c.param1 /\ Param2(c) = 0
    BY <1>11 DEF Lens, Param1, Param2, NoData, FourBytes, ThirtyTwo
  <2>3. ResponseSize(c.op, Param1(c), 35) = 4
    BY <1>11, <2>2 DEF ResponseSize
  <2>4. execute(c.op, Param1(c), Param2(c), Lens(c), 35) = p
    BY <1>11, <2>2, <2>3, ExecutedBare
  <2> QED
    BY <1>11, <2>1, <2>4 DEF Agrees, Packet
<1>12. CASE c.op = "UPDATE_EXTRA"
  <2> DEFINE p == Packet("UPDATE_EXTRA", c.param1, c.param2, 7, {}, 4)
  <2>1. Wrapper(c) = p
    BY <1>12 DEF Wrapper, update_extra
  <2>2. Lens(c) = <<0, 0, 0>> /\ Param1(c) = c.param1 /\ Param2(c) = c.param2
    BY <1>12 DEF Lens, Param1, Param2, NoData, FourBytes, ThirtyTwo
  <2>3. ResponseSize(c.op, Param1(c), 35) = 4
    BY <1>12, <2>2 DEF ResponseSize
  <2>4. execute(c.op, Param1(c), Param2(c), Lens(c), 35) = p
    BY <1>12, <2>2, <2>3, ExecutedBare
  <2> QED
    BY <1>12, <2>1, <2>4 DEF Agrees, Packet
<1>13. CASE c.op = "WRITE"
  <2> DEFINE size == IF c.param1 >= 128 THEN 32 ELSE 4
             word == c.param2 \div 4
             data == {At(5, "data1", size)} \cup (IF c.given THEN {At(5 + size, "data2", 32)} ELSE {})
             p(w) == Packet("WRITE", c.param1, w, 7 + size + (IF c.given THEN 32 ELSE 0), data, 4)
  <2>1. word \in Nat
    OBVIOUS
  <2>2. ValueSize(c.param1) = size
    BY DEF ValueSize, Has
  <2>3. Wrapper(c) = write(c.param1, c.param2, c.given)
    BY <1>13 DEF Wrapper
  <2>4. ~OutOfZone(c.param1, word)
    BY <2>3 DEF write
  <2>5. 5 + size + (IF c.given THEN 32 ELSE 0) + 2 = 7 + size + (IF c.given THEN 32 ELSE 0)
    OBVIOUS
  <2>6. Wrapper(c) = p(word % 128)
    BY <2>2, <2>3, <2>5 DEF write, DataIdx
  <2>7. Zone(c.param1) # "none" => word % 128 = word
    BY <2>1, <2>4, WordKept
  <2>8. /\ Param1(c) = c.param1 /\ Param2(c) = word
        /\ Lens(c) = <<size, IF c.given THEN 32 ELSE 0, 0>>
    BY <1>13 DEF Param1, Param2, Lens
  <2>9. ResponseSize(c.op, Param1(c), 35) = 4
    BY <1>13 DEF ResponseSize
  <2>10. execute(c.op, Param1(c), Param2(c), Lens(c), 35) = p(word)
    <3>1. size \in Nat \ {0}
      OBVIOUS
    <3> HIDE DEF size, word
    <3>2. CASE c.given
      BY <1>13, <2>8, <2>9, <3>1, <3>2, ExecutedTwo
    <3>3. CASE ~c.given
      BY <1>13, <2>8, <2>9, <3>1, <3>3, ExecutedOne
    <3> QED
      BY <3>2, <3>3
  <2>11. p(word % 128).op = "WRITE" /\ p(word % 128).count <= 84
    BY DEF Packet
  <2> QED
    BY <1>13, <2>6, <2>7, <2>10, <2>11 DEF Agrees
<1>14. CASE c.op = "SHA"
  <2>1. Wrapper(c) = sha(c.param1, c.given)
    BY <1>14 DEF Wrapper
  <2>2. c.param1 \in {0, 1}
    BY <2>1, OneFlag DEF sha
  <2>3. Param1(c) = c.param1 /\ Param2(c) = 0
    BY <1>14 DEF Param1, Param2
  <2>4. CASE c.param1 = 1
    <3>1. Wrapper(c) = Packet("SHA", 1, 0, 71, {At(5, "data1", 64)}, 35)
      BY <2>1, <2>4 DEF sha
    <3>2. Lens(c) = <<64, 0, 0>> /\ ResponseSize(c.op, Param1(c), 35) = 35
      BY <1>14, <2>3, <2>4 DEF Lens, ResponseSize, Has
    <3> QED
      BY <1>14, <2>3, <2>4, <3>1, <3>2, ExecutedBare, ExecutedOne DEF Agrees, Packet
  <2>5. CASE c.param1 = 0
    <3>1. Wrapper(c) = Packet("SHA", 0, 0, 7, {}, 4)
      BY <2>1, <2>5 DEF sha
    <3>2. Lens(c) = <<0, 0, 0>> /\ ResponseSize(c.op, Param1(c), 35) = 4
      BY <1>14, <2>3, <2>5 DEF Lens, ResponseSize, Has, NoData
    <3> QED
      BY <1>14, <2>3, <2>5, <3>1, <3>2, ExecutedBare, ExecutedOne DEF Agrees, Packet
  <2> QED
    BY <2>2, <2>4, <2>5
<1> QED
  BY <1>0, <1>1, <1>2, <1>3, <1>4, <1>5, <1>6, <1>7, <1>8, <1>9, <1>10, <1>11, <1>12, <1>13, <1>14 DEF Ops

ScriptRequests == ZoneRequests \cup LockRequests \cup KeyRequests

AsCall(r, address) ==
  [op |-> r.op, param1 |-> r.param1, param2 |-> address, given |-> r.lens # NoData /\ r.op # "WRITE"]

\* The scripts set no reserved bit in the first parameter of any request.
LEMMA Unreserved ==
  /\ ~Reserved(0, {1, 2, 128}) /\ ~Reserved(128, {1, 2, 128})
  /\ \A bits \in {0, 129, 130} : ~Reserved(bits, {1, 2, 64, 128})
  /\ \A which \in {0, 1} : ~Reserved(which, {1, 128}) /\ ~Reserved(which, {1})
  /\ ~Reserved(0, {1, 2, 4, 16, 32, 64}) /\ ~Reserved(0, {1, 2, 4, 32})
  BY DEF Reserved, AllFlags, Has

\* What execute makes of a script's request is what the function for its
\* command would send, and that function does not refuse it.
LEMMA RequestsAreCalls ==
  ASSUME NEW r \in ScriptRequests
  PROVE  LET p == execute(r.op, r.param1, r.param2, r.lens, RspSizeMax) IN
         /\ r.op \in Ops /\ p # BadParam /\ p.op = r.op /\ p.count <= CmdSizeMax
         /\ \E address \in {r.param2, 4 * r.param2} : p = Wrapper(AsCall(r, address))
<1> DEFINE p == execute(r.op, r.param1, r.param2, r.lens, RspSizeMax)
           Fine == /\ r.op \in Ops /\ p # BadParam /\ p.op = r.op /\ p.count <= CmdSizeMax
                   /\ \E address \in {r.param2, 4 * r.param2} : p = Wrapper(AsCall(r, address))
<1> SUFFICES Fine
  OBVIOUS
<1> USE Unreserved DEF CmdSizeMin, CmdSizeMax, RspSizeMin, RspSizeVal, RspSizeMax
<1>0. ASSUME NEW address, address = r.param2 \/ address = 4 * r.param2, p = Wrapper(AsCall(r, address)),
             r.op \in Ops, p # BadParam, p.op = r.op, p.count <= 84
      PROVE  Fine
  BY <1>0
<1> HIDE DEF Fine, p
<1>1. ASSUME NEW i \in {0, 8}, r = Request("READ", 128, i, NoData)
      PROVE  Fine
  <2> DEFINE q == Packet("READ", 128, i, 7, {}, 35)
  <2>1. r.op = "READ" /\ r.param1 = 128 /\ r.param2 = i /\ r.lens = <<0, 0, 0>>
    BY <1>1 DEF Request, NoData, FourBytes, ThirtyTwo
  <2>2. ResponseSize("READ", 128, 35) = 35
    BY DEF ResponseSize, Has
  <2>3. p = q
    BY <2>1, <2>2, ExecutedBare DEF p
  <2>5. Wrapper(AsCall(r, 4 * i)) = read(128, 4 * i)
    BY <2>1 DEF AsCall, Wrapper
  <2>6. read(128, 4 * i) = q
    BY <1>1 DEF read, Has, OutOfZone, Zone, AddressMask
  <2>7. q # BadParam /\ q.op = "READ" /\ q.count = 7
    BY DEF Packet, BadParam
  <2>8. 4 * i = r.param2 \/ 4 * i = 4 * r.param2
    BY <2>1
  <2> HIDE DEF q
  <2> QED
    BY <1>0, <2>1, <2>3, <2>5, <2>6, <2>7, <2>8 DEF Ops
<1>2. ASSUME NEW i \in 16..21, r = Request("READ", 0, i, NoData)
      PROVE  Fine
  <2> DEFINE q == Packet("READ", 0, i, 7, {}, 7)
  <2>1. r.op = "READ" /\ r.param1 = 0 /\ r.param2 = i /\ r.lens = <<0, 0, 0>>
    BY <1>2 DEF Request, NoData, FourBytes, ThirtyTwo
  <2>2. ResponseSize("READ", 0, 35) = 7
    BY DEF ResponseSize, Has
  <2>3. p = q
    BY <2>1, <2>2, ExecutedBare DEF p
  <2>5. Wrapper(AsCall(r, 4 * i)) = read(0, 4 * i)
    BY <2>1 DEF AsCall, Wrapper
  <2>6. read(0, 4 * i) = q
    BY <1>2 DEF read, Has, OutOfZone, Zone, AddressMask
  <2>7. q # BadParam /\ q.op = "READ" /\ q.count = 7
    BY DEF Packet, BadParam
  <2>8. 4 * i = r.param2 \/ 4 * i = 4 * r.param2
    BY <2>1
  <2> HIDE DEF q
  <2> QED
    BY <1>0, <2>1, <2>3, <2>5, <2>6, <2>7, <2>8 DEF Ops
<1>3. ASSUME NEW i \in 0..21, r = Request("WRITE", 0, i, FourBytes)
      PROVE  Fine
  <2> DEFINE q == Packet("WRITE", 0, i, 11, {At(5, "data1", 4)}, 4)
  <2>1. r.op = "WRITE" /\ r.param1 = 0 /\ r.param2 = i /\ r.lens = <<4, 0, 0>>
    BY <1>3 DEF Request, NoData, FourBytes, ThirtyTwo
  <2>2. ResponseSize("WRITE", 0, 35) = 4
    BY DEF ResponseSize, Has
  <2>3. p = q
    BY <2>1, <2>2, ExecutedOne DEF p
  <2>5. Wrapper(AsCall(r, 4 * i)) = write(0, 4 * i, FALSE)
    BY <2>1 DEF AsCall, Wrapper
  <2>6. write(0, 4 * i, FALSE) = q
    BY <1>3 DEF write, Has, OutOfZone, Zone, AddressMask, ValueSize, DataIdx
  <2>7. q # BadParam /\ q.op = "WRITE" /\ q.count = 11
    BY DEF Packet, BadParam
  <2>8. 4 * i = r.param2 \/ 4 * i = 4 * r.param2
    BY <2>1
  <2> HIDE DEF q
  <2>9. p = Wrapper(AsCall(r, 4 * i))
    BY <2>3, <2>5, <2>6, Zenon
  <2> QED
    BY <1>0, <2>1, <2>3, <2>7, <2>8, <2>9 DEF Ops
<1>4. ASSUME NEW i \in {0, 8}, r = Request("WRITE", 129, i, ThirtyTwo)
      PROVE  Fine
  <2> DEFINE q == Packet("WRITE", 129, i, 39, {At(5, "data1", 32)}, 4)
  <2>1. r.op = "WRITE" /\ r.param1 = 129 /\ r.param2 = i /\ r.lens = <<32, 0, 0>>
    BY <1>4 DEF Request, NoData, FourBytes, ThirtyTwo
  <2>2. ResponseSize("WRITE", 129, 35) = 4
    BY DEF ResponseSize, Has
  <2>3. p = q
    BY <2>1, <2>2, ExecutedOne DEF p
  <2>5. Wrapper(AsCall(r, 4 * i)) = write(129, 4 * i, FALSE)
    BY <2>1 DEF AsCall, Wrapper
  <2>6. write(129, 4 * i, FALSE) = q
    BY <1>4 DEF write, Has, OutOfZone, Zone, AddressMask, ValueSize, DataIdx
  <2>7. q # BadParam /\ q.op = "WRITE" /\ q.count = 39
    BY DEF Packet, BadParam
  <2>8. 4 * i = r.param2 \/ 4 * i = 4 * r.param2
    BY <2>1
  <2> HIDE DEF q
  <2>9. p = Wrapper(AsCall(r, 4 * i))
    BY <2>3, <2>5, <2>6, Zenon
  <2> QED
    BY <1>0, <2>1, <2>3, <2>7, <2>8, <2>9 DEF Ops
<1>5. ASSUME NEW slot \in 0..15, r = Request("WRITE", 130, slot * 8, ThirtyTwo)
      PROVE  Fine
  <2> DEFINE q == Packet("WRITE", 130, slot * 8, 39, {At(5, "data1", 32)}, 4)
  <2>1. r.op = "WRITE" /\ r.param1 = 130 /\ r.param2 = slot * 8 /\ r.lens = <<32, 0, 0>>
    BY <1>5 DEF Request, NoData, FourBytes, ThirtyTwo
  <2>2. ResponseSize("WRITE", 130, 35) = 4
    BY DEF ResponseSize, Has
  <2>3. p = q
    BY <2>1, <2>2, ExecutedOne DEF p
  <2>5. Wrapper(AsCall(r, 4 * (slot * 8))) = write(130, 4 * (slot * 8), FALSE)
    BY <2>1 DEF AsCall, Wrapper
  <2>6. write(130, 4 * (slot * 8), FALSE) = q
    BY <1>5 DEF write, Has, OutOfZone, Zone, AddressMask, ValueSize, DataIdx
  <2>7. q # BadParam /\ q.op = "WRITE" /\ q.count = 39
    BY DEF Packet, BadParam
  <2>8. 4 * (slot * 8) = r.param2 \/ 4 * (slot * 8) = 4 * r.param2
    BY <2>1
  <2> HIDE DEF q
  <2>9. p = Wrapper(AsCall(r, 4 * (slot * 8)))
    BY <2>3, <2>5, <2>6, Zenon
  <2> QED
    BY <1>0, <2>1, <2>3, <2>7, <2>8, <2>9 DEF Ops
<1>6. ASSUME NEW which \in {0, 1}, NEW crc \in Summaries, r = Request("LOCK", which, crc, NoData)
      PROVE  Fine
  <2> DEFINE q == Packet("LOCK", which, crc, 7, {}, 4)
  <2>1. r.op = "LOCK" /\ r.param1 = which /\ r.param2 = crc /\ r.lens = <<0, 0, 0>>
    BY <1>6 DEF Request, NoData, FourBytes, ThirtyTwo
  <2>2. ResponseSize("LOCK", which, 35) = 4
    BY DEF ResponseSize, Has
  <2>3. p = q
    BY <2>1, <2>2, ExecutedBare DEF p
  <2>5. Wrapper(AsCall(r, crc)) = lock(which, crc)
    BY <2>1 DEF AsCall, Wrapper
  <2>6. lock(which, crc) = q
    BY <1>6 DEF lock, Has
  <2>7. q # BadParam /\ q.op = "LOCK" /\ q.count = 7
    BY DEF Packet, BadParam
  <2>8. crc = r.param2 \/ crc = 4 * r.param2
    BY <2>1
  <2> HIDE DEF q
  <2> QED
    BY <1>0, <2>1, <2>3, <2>5, <2>6, <2>7, <2>8 DEF Ops
<1>7. ASSUME r = Request("RANDOM", 0, 0, NoData)
      PROVE  Fine
  <2> DEFINE q == Packet("RANDOM", 0, 0, 7, {}, 35)
  <2>1. r.op = "RANDOM" /\ r.param1 = 0 /\ r.param2 = 0 /\ r.lens = <<0, 0, 0>>
    BY <1>7 DEF Request, NoData, FourBytes, ThirtyTwo
  <2>2. ResponseSize("RANDOM", 0, 35) = 35
    BY DEF ResponseSize, Has
  <2>3. p = q
    BY <2>1, <2>2, ExecutedBare DEF p
  <2>5. Wrapper(AsCall(r, 0)) = random(0)
    BY <2>1 DEF AsCall, Wrapper
  <2>6. random(0) = q
    BY <1>7 DEF random
  <2>7. q # BadParam /\ q.op = "RANDOM" /\ q.count = 7
    BY DEF Packet, BadParam
  <2>8. 0 = r.param2 \/ 0 = 4 * r.param2
    BY <2>1
  <2> HIDE DEF q
  <2> QED
    BY <1>0, <2>1, <2>3, <2>5, <2>6, <2>7, <2>8 DEF Ops
<1>8. ASSUME NEW slot \in 0..15, r = Request("MAC", 0, slot, ThirtyTwo)
      PROVE  Fine
  <2> DEFINE q == Packet("MAC", 0, slot, 39, {At(5, "data1", 32)}, 35)
  <2>1. r.op = "MAC" /\ r.param1 = 0 /\ r.param2 = slot /\ r.lens = <<32, 0, 0>>
    BY <1>8 DEF Request, NoData, FourBytes, ThirtyTwo
  <2>2. ResponseSize("MAC", 0, 35) = 35
    BY DEF ResponseSize, Has
  <2>3. p = q
    BY <2>1, <2>2, ExecutedOne DEF p
  <2>4. r.lens # NoData
    BY <2>1 DEF NoData
  <2>5. Wrapper(AsCall(r, slot)) = mac(0, slot, TRUE)
    BY <2>1, <2>4 DEF AsCall, Wrapper
  <2>6. mac(0, slot, TRUE) = q
    BY <1>8 DEF mac, Has
  <2>7. q # BadParam /\ q.op = "MAC" /\ q.count = 39
    BY DEF Packet, BadParam
  <2>8. slot = r.param2 \/ slot = 4 * r.param2
    BY <2>1
  <2> HIDE DEF q
  <2>9. p = Wrapper(AsCall(r, slot))
    BY <2>3, <2>5, <2>6, Zenon
  <2> QED
    BY <1>0, <2>1, <2>3, <2>7, <2>8, <2>9 DEF Ops
<1>9. ASSUME NEW slot \in 0..15, r = Request("CHECKMAC", 0, slot, <<32, 32, 13>>)
      PROVE  Fine
  <2> DEFINE q == Packet("CHECKMAC", 0, slot, 84, {At(5, "data1", 32), At(37, "data2", 32), At(69, "data3", 13)}, 4)
  <2>1. r.op = "CHECKMAC" /\ r.param1 = 0 /\ r.param2 = slot /\ r.lens = <<32, 32, 13>>
    BY <1>9 DEF Request, NoData, FourBytes, ThirtyTwo
  <2>2. ResponseSize("CHECKMAC", 0, 35) = 4
    BY DEF ResponseSize, Has
  <2>3. p = q
    BY <2>1, <2>2, ExecutedThree DEF p
  <2>5. Wrapper(AsCall(r, slot)) = check_mac(0, slot)
    BY <2>1 DEF AsCall, Wrapper
  <2>6. check_mac(0, slot) = q
    BY <1>9 DEF check_mac, KeyIdMax
  <2>7. q # BadParam /\ q.op = "CHECKMAC" /\ q.count = 84
    BY DEF Packet, BadParam
  <2>8. slot = r.param2 \/ slot = 4 * r.param2
    BY <2>1
  <2> HIDE DEF q
  <2> QED
    BY <1>0, <2>1, <2>3, <2>5, <2>6, <2>7, <2>8 DEF Ops
<1>10. ASSUME r = Request("SHA", 0, 0, NoData)
      PROVE  Fine
  <2> DEFINE q == Packet("SHA", 0, 0, 7, {}, 4)
  <2>1. r.op = "SHA" /\ r.param1 = 0 /\ r.param2 = 0 /\ r.lens = <<0, 0, 0>>
    BY <1>10 DEF Request, NoData, FourBytes, ThirtyTwo
  <2>2. ResponseSize("SHA", 0, 35) = 4
    BY DEF ResponseSize, Has
  <2>3. p = q
    BY <2>1, <2>2, ExecutedBare DEF p
  <2>5. Wrapper(AsCall(r, 0)) = sha(0, FALSE)
    BY <2>1 DEF AsCall, Wrapper, NoData
  <2>6. sha(0, FALSE) = q
    BY <1>10 DEF sha
  <2>7. q # BadParam /\ q.op = "SHA" /\ q.count = 7
    BY DEF Packet, BadParam
  <2>8. 0 = r.param2 \/ 0 = 4 * r.param2
    BY <2>1
  <2> HIDE DEF q
  <2>9. p = Wrapper(AsCall(r, 0))
    BY <2>3, <2>5, <2>6, Zenon
  <2> QED
    BY <1>0, <2>1, <2>3, <2>7, <2>8, <2>9 DEF Ops
<1>11. ASSUME r = Request("SHA", 1, 0, <<64, 0, 0>>)
      PROVE  Fine
  <2> DEFINE q == Packet("SHA", 1, 0, 71, {At(5, "data1", 64)}, 35)
  <2>1. r.op = "SHA" /\ r.param1 = 1 /\ r.param2 = 0 /\ r.lens = <<64, 0, 0>>
    BY <1>11 DEF Request, NoData, FourBytes, ThirtyTwo
  <2>2. ResponseSize("SHA", 1, 35) = 35
    BY DEF ResponseSize, Has
  <2>3. p = q
    BY <2>1, <2>2, ExecutedOne DEF p
  <2>4. r.lens # NoData
    BY <2>1 DEF NoData
  <2>5. Wrapper(AsCall(r, 0)) = sha(1, TRUE)
    BY <2>1, <2>4 DEF AsCall, Wrapper
  <2>6. sha(1, TRUE) = q
    BY <1>11 DEF sha
  <2>7. q # BadParam /\ q.op = "SHA" /\ q.count = 71
    BY DEF Packet, BadParam
  <2>8. 0 = r.param2 \/ 0 = 4 * r.param2
    BY <2>1
  <2> HIDE DEF q
  <2>9. p = Wrapper(AsCall(r, 0))
    BY <2>3, <2>5, <2>6, Zenon
  <2> QED
    BY <1>0, <2>1, <2>3, <2>7, <2>8, <2>9 DEF Ops
<1>12. CASE r \in ZoneRequests
  BY <1>12, <1>1, <1>2, <1>3, <1>4, <1>5 DEF ZoneRequests
<1>13. CASE r \in LockRequests
  BY <1>13, <1>6, <1>7 DEF LockRequests
<1>14. CASE r \in KeyRequests
  BY <1>14, <1>8, <1>9, <1>10, <1>11 DEF KeyRequests
<1> QED
  BY <1>12, <1>13, <1>14 DEF ScriptRequests

-----------------------------------------------------------------------------
(* The configuration zone *)

ZoneBytes == [0..(ZoneSize - 1) -> Bytes]

\* A field that is set holds what it was set to and leaves the other
\* fields of its byte alone: a key number, the upper half of a slot's
\* second byte, and a flag.
LEMMA LowNibbleSet ==
  ASSUME NEW b \in Bytes, NEW v \in 0..15
  PROVE  LET s == SetBits(b, 1, 16, v) IN
         /\ s \in Bytes /\ s % 16 = v /\ s \div 16 = b \div 16
         /\ \A unit \in {16, 32, 64, 128} : Bits(s, unit, 2) = Bits(b, unit, 2)
  BY SMTT(60) DEF Bytes, SetBits, Bits

LEMMA HighNibbleSet ==
  ASSUME NEW b \in Bytes, NEW v \in 0..15
  PROVE  LET s == SetBits(b, 16, 16, v) IN
         s \in Bytes /\ s \div 16 = v /\ s % 16 = b % 16
  BY DEF Bytes, SetBits, Bits

LEMMA FlagSet ==
  ASSUME NEW b \in Bytes, NEW v \in {0, 1}, NEW unit \in {16, 32, 64, 128}
  PROVE  LET s == SetBits(b, unit, 2, v) IN
         /\ s \in Bytes /\ s % 16 = b % 16 /\ Bits(s, unit, 2) = v
         /\ \A other \in {16, 32, 64, 128} \ {unit} : Bits(s, other, 2) = Bits(b, other, 2)
<1>1. CASE unit = 16
  BY SMTT(60), <1>1 DEF Bytes, SetBits, Bits
<1>2. CASE unit = 32
  BY SMTT(60), <1>2 DEF Bytes, SetBits, Bits
<1>3. CASE unit = 64
  BY <1>3 DEF Bytes, SetBits, Bits
<1>4. CASE unit = 128
  BY <1>4 DEF Bytes, SetBits, Bits
<1> QED
  BY <1>1, <1>2, <1>3, <1>4

\* The bytes that an option, or what is shown beside the options, is shown from
ShownFrom(o) ==
  IF o \in Options THEN Place(o)
  ELSE CASE o.name = "serial" -> 0..3 \cup 8..12 [] o.name = "revision" -> 4..7
         [] o.name = "UserExtra" -> {84} [] o.name = "Selector" -> {85}
         [] o.name = "DataOTPlocked" -> {86} [] o.name = "ConfigLocked" -> {87}

LEMMA NamesOfOptions ==
  ASSUME NEW o \in Options
  PROVE  \/ o.name \in General /\ o.slot = 0
         \/ o.name \in OfSlots /\ o.slot \in 0..15
         \/ o.name \in {"UseFlag", "UpdateCount"} /\ o.slot \in 0..7
         \/ o.name = "KeyUse" /\ o.slot = 15
  BY DEF Options

LEMMA SameOption ==
  ASSUME NEW o \in Options \cup Others, NEW p \in Options \cup Others, o.name = p.name, o.slot = p.slot
  PROVE  o = p
  BY DEF Options, Others, General, OfSlots

LEMMA OtherIsNoOption ==
  ASSUME NEW o \in Others
  PROVE  o \notin Options /\ o.slot = 0 /\
         o.name \in {"serial", "revision", "UserExtra", "Selector", "DataOTPlocked", "ConfigLocked"}
  BY DEF Options, Others, General, OfSlots

\* Nothing is shown from outside of the zone.
LEMMA PlaceInZone ==
  ASSUME NEW o \in Options \cup Others
  PROVE  ShownFrom(o) \subseteq 0..(ZoneSize - 1)
<1>1. CASE o \in Options
  BY <1>1, NamesOfOptions DEF ShownFrom, Place, ZoneSize, General, OfSlots, slot_addr, useflag_addr, Flags
<1>2. CASE o \in Others
  BY <1>2, OtherIsNoOption DEF ShownFrom, ZoneSize
<1> QED
  BY <1>1, <1>2

(***************************************************************************)
(* What is shown of an option depends on its bytes alone.                  *)
(***************************************************************************)
LEMMA ShownByItsBytes ==
  ASSUME NEW c \in ZoneBytes, NEW d \in ZoneBytes, NEW o \in Options \cup Others,
         \A i \in ShownFrom(o) : c[i] = d[i]
  PROVE  ScriptShows(c, o) = ScriptShows(d, o)
<1>1. CASE o \in Options /\ o.name \in General
  BY <1>1 DEF ShownFrom, Place, General, OfSlots, ScriptShows, Flags
<1>2. CASE o \in Options /\ o.name \in OfSlots
  <2>1. o.slot \in 0..15
    BY <1>2, NamesOfOptions DEF General, OfSlots
  <2>2. CASE o.name \in {"WriteKey", "WriteConfig"}
    BY <1>2, <2>1, <2>2 DEF ShownFrom, Place, OfSlots, ScriptShows, Flags, General
  <2>3. CASE o.name \in OfSlots \ {"WriteKey", "WriteConfig"}
    <3>1. c[slot_addr(o.slot)] = d[slot_addr(o.slot)]
      BY <1>2, <2>1, <2>3 DEF ShownFrom, Place, OfSlots, General, Flags
    <3> QED
      BY <1>2, <2>1, <2>3, <3>1 DEF OfSlots, ScriptShows, Flags, General
  <2> QED
    BY <1>2, <2>2, <2>3
<1>3. CASE o \in Options /\ o.name \in {"UseFlag", "UpdateCount"}
  <2>1. o.slot \in 0..7
    BY <1>3, NamesOfOptions DEF General, OfSlots
  <2> QED
    BY <1>3, <2>1 DEF ShownFrom, Place, OfSlots, Flags, ScriptShows, useflag_addr, General
<1>4. CASE o \in Options /\ o.name = "KeyUse"
  <2>1. \A i \in 68..83 : c[i] = d[i]
    BY <1>4 DEF ShownFrom, Place, OfSlots, General, Flags
  <2>2. Part(c, 68, 83) = Part(d, 68, 83)
    BY <2>1 DEF Part
  <2> QED
    BY <1>4, <2>2 DEF ScriptShows, OfSlots, Flags, General
<1>5. CASE o \in Others
  <2>1. o \notin Options
    BY <1>5, OtherIsNoOption
  <2>2. CASE o.name = "serial"
    <3>1. \A i \in 0..3 \cup 8..12 : c[i] = d[i]
      BY <2>1, <2>2 DEF ShownFrom
    <3>2. Part(c, 0, 3) = Part(d, 0, 3) /\ Part(c, 8, 12) = Part(d, 8, 12)
      BY <3>1 DEF Part
    <3> QED
      BY <2>2, <3>2 DEF ScriptShows, General, OfSlots, Flags
  <2>3. CASE o.name = "revision"
    <3>1. \A i \in 4..7 : c[i] = d[i]
      BY <2>1, <2>3 DEF ShownFrom
    <3>2. Part(c, 4, 7) = Part(d, 4, 7)
      BY <3>1 DEF Part
    <3> QED
      BY <2>3, <3>2 DEF ScriptShows, General, OfSlots, Flags
  <2>4. CASE o.name \in {"UserExtra", "Selector", "DataOTPlocked", "ConfigLocked"}
    BY <2>1, <2>4 DEF ShownFrom, ScriptShows, General, OfSlots, Flags
  <2> QED
    BY <1>5, <2>2, <2>3, <2>4, OtherIsNoOption
<1> QED
  BY <1>1, <1>2, <1>3, <1>4, <1>5, NamesOfOptions

(***************************************************************************)
(* An option changes no byte but its own, and leaves a zone.               *)
(***************************************************************************)
LEMMA ModifiedFrame ==
  ASSUME NEW c \in ZoneBytes, NEW o \in Options, NEW t \in Possible(o.name) \cup {NoValue}
  PROVE  /\ Modified(c, o, t) \in ZoneBytes
         /\ \A i \in 0..(ZoneSize - 1) \ Place(o) : Modified(c, o, t)[i] = c[i]
<1>1. CASE t = NoValue
  BY <1>1 DEF Modified, General, OfSlots, Flags
<1> SUFFICES ASSUME t # NoValue, t \in Possible(o.name)
             PROVE  /\ Modified(c, o, t) \in ZoneBytes
                    /\ \A i \in 0..(ZoneSize - 1) \ Place(o) : Modified(c, o, t)[i] = c[i]
  BY <1>1
<1>2. CASE o.name \in General
  <2>1. CASE o.name = "I2Cenable"
    BY SMTT(60), <2>1 DEF Modified, Place, ZoneBytes, Bytes, ZoneSize, Possible, General, OfSlots, Flags
  <2>2. CASE o.name = "I2Caddress"
    BY SMTT(60), <2>2 DEF Modified, Place, ZoneBytes, Bytes, ZoneSize, Possible, Flags, General, OfSlots
  <2>3. CASE o.name = "OTPmode"
    BY SMTT(60), <2>3 DEF Modified, Place, ZoneBytes, Bytes, ZoneSize, Possible, Flags, General, OfSlots
  <2>4. CASE o.name = "SelectorMode"
    BY SMTT(60), <2>4 DEF Modified, Place, ZoneBytes, Bytes, ZoneSize, Possible, Flags, General, OfSlots
  <2> QED
    BY SMTT(60), <1>2, <2>1, <2>2, <2>3, <2>4 DEF General
<1>3. CASE o.name \in OfSlots
  <2>1. o.slot \in 0..15
    BY <1>3, NamesOfOptions DEF General, OfSlots
  <2>2. Modified(c, o, t) = ModifiedSlot(c, o, t)
    BY <1>3 DEF Modified, OfSlots, General, Flags
  <2>3. /\ slot_addr(o.slot) \in 20..50 /\ slot_addr(o.slot) + 1 \in 21..51
        /\ c[slot_addr(o.slot)] \in Bytes /\ c[slot_addr(o.slot) + 1] \in Bytes
    BY <2>1 DEF slot_addr, ZoneBytes, ZoneSize
  <2>4. CASE o.name = "ReadKey"
    <3>1. t \in 0..15
      BY SMTT(60), <2>4 DEF Possible, Flags
    <3> QED
      BY <2>2, <2>3, <2>4, <3>1, LowNibbleSet DEF ModifiedSlot, Place, ZoneBytes, ZoneSize, OfSlots, General, Flags
  <2>5. CASE o.name \in Flags
    <3>1. t \in {0, 1} /\ FlagUnit[o.name] \in {16, 32, 64, 128}
      BY <2>5 DEF Possible, Flags, FlagUnit
    <3> QED
      BY <2>2, <2>3, <2>5, <3>1, FlagSet DEF ModifiedSlot, Place, ZoneBytes, ZoneSize, OfSlots, Flags, General
  <2>6. CASE o.name = "WriteKey"
    <3>1. t \in 0..15
      BY <2>6 DEF Possible, Flags
    <3> QED
      BY <2>2, <2>3, <2>6, <3>1, LowNibbleSet DEF ModifiedSlot, Place, ZoneBytes, ZoneSize, OfSlots, Flags, General
  <2>7. CASE o.name = "WriteConfig"
    <3>1. t \in 0..15
      BY SMTT(60), <2>7 DEF Possible, Flags
    <3> QED
      BY <2>2, <2>3, <2>7, <3>1, HighNibbleSet DEF ModifiedSlot, Place, ZoneBytes, ZoneSize, OfSlots, Flags, General
  <2> QED
    BY <1>3, <2>4, <2>5, <2>6, <2>7 DEF OfSlots, Flags
<1>4. CASE o.name \in {"UseFlag", "UpdateCount"}
  <2>1. o.slot \in 0..7 /\ t \in Bytes
    BY <1>4, NamesOfOptions DEF General, OfSlots, Possible, Flags
  <2> QED
    BY <1>4, <2>1 DEF Modified, Place, ZoneBytes, ZoneSize, OfSlots, useflag_addr, General, Flags
<1>5. CASE o.name = "KeyUse"
  <2>1. t \in Bytes
    BY <1>5 DEF Possible, Flags
  <2> QED
    BY <1>5, <2>1 DEF Modified, Place, ZoneBytes, ZoneSize, OfSlots, General, Flags
<1> QED
  BY <1>2, <1>3, <1>4, <1>5, NamesOfOptions

LEMMA FlagUnits ==
  ASSUME NEW name \in Flags
  PROVE  /\ FlagUnit[name] \in {16, 32, 64, 128}
         /\ \A other \in Flags : FlagUnit[other] = FlagUnit[name] => other = name
  BY DEF Flags, FlagUnit

(***************************************************************************)
(* An option that was put in is shown as it was asked for.                 *)
(***************************************************************************)
LEMMA ShownOfItself ==
  ASSUME NEW c \in ZoneBytes, NEW o \in Options, NEW t \in Possible(o.name)
  PROVE  ScriptShows(Modified(c, o, t), o) = Wanted(o, t)
<1>1. t # NoValue
  BY DEF Possible, NoValue, Bytes
<1>2. CASE o.name \in General
  <2>1. CASE o.name = "I2Cenable"
    <3>1. t \in {0, 1}
      BY <2>1 DEF Possible, Flags
    <3> QED
      BY <1>1, <2>1, <3>1 DEF Modified, ScriptShows, Wanted, ZoneBytes, ZoneSize, Bits, General, OfSlots, Flags
  <2>2. CASE o.name = "I2Caddress"
    <3>1. t \in 0..127
      BY <2>2 DEF Possible, Flags
    <3> QED
      BY <1>1, <2>2, <3>1 DEF Modified, ScriptShows, Wanted, ZoneBytes, ZoneSize, General, OfSlots, Flags
  <2>3. CASE o.name = "OTPmode"
    BY <1>1, <2>3 DEF Modified, ScriptShows, Wanted, ZoneBytes, ZoneSize, General, OfSlots, Flags
  <2>4. CASE o.name = "SelectorMode"
    <3>1. Modified(c, o, t)[19] = t
      BY <1>1, <2>4 DEF Modified, ZoneBytes, ZoneSize, General, OfSlots, Flags
    <3>2. ScriptShows(Modified(c, o, t), o) = (Modified(c, o, t)[19] = 0)
      BY <2>4 DEF ScriptShows, General, OfSlots, Flags
    <3>3. Wanted(o, t) = (t = 0)
      BY <2>4 DEF Wanted
    <3> QED
      BY <3>1, <3>2, <3>3
  <2> QED
    BY <1>2, <2>1, <2>2, <2>3, <2>4 DEF General
<1>3. CASE o.name \in OfSlots
  <2>1. o.slot \in 0..15
    BY <1>3, NamesOfOptions DEF General, OfSlots
  <2>2. Modified(c, o, t) = ModifiedSlot(c, o, t)
    BY <1>1, <1>3 DEF Modified, OfSlots
  <2>3. /\ slot_addr(o.slot) \in 20..50 /\ slot_addr(o.slot) + 1 \in 21..51
        /\ c[slot_addr(o.slot)] \in Bytes /\ c[slot_addr(o.slot) + 1] \in Bytes
    BY <2>1 DEF slot_addr, ZoneBytes, ZoneSize
  <2>4. Wanted(o, t) = t
    BY <1>3 DEF Wanted, OfSlots
  <2>5. CASE o.name = "ReadKey"
    <3>1. t \in 0..15
      BY <2>5 DEF Possible, Flags
    <3> QED
      BY <2>2, <2>3, <2>4, <2>5, <3>1, LowNibbleSet
      DEF ModifiedSlot, ScriptShows, ZoneBytes, ZoneSize, General, OfSlots, Flags
  <2>8. CASE o.name = "WriteKey"
    <3>1. t \in 0..15
      BY <2>8 DEF Possible, Flags
    <3> QED
      BY <2>2, <2>3, <2>4, <2>8, <3>1, LowNibbleSet
      DEF ModifiedSlot, ScriptShows, ZoneBytes, ZoneSize, General, OfSlots, Flags
  <2>6. CASE o.name \in Flags
    <3>1. t \in {0, 1}
      BY <2>6 DEF Possible, Flags
    <3> DEFINE unit == FlagUnit[o.name]
               s == SetBits(c[slot_addr(o.slot)], unit, 2, t)
    <3>2. unit \in {16, 32, 64, 128}
      BY <2>6, FlagUnits
    <3>3. Bits(s, unit, 2) = t
      BY <2>3, <3>1, <3>2, FlagSet
    <3>4. Modified(c, o, t)[slot_addr(o.slot)] = s
      BY <2>2, <2>3, <2>6 DEF ModifiedSlot, ZoneBytes, ZoneSize, General, OfSlots, Flags
    <3>5. ScriptShows(Modified(c, o, t), o) = Bits(Modified(c, o, t)[slot_addr(o.slot)], unit, 2)
      BY <2>6 DEF ScriptShows, General, OfSlots, Flags
    <3> QED
      BY <2>4, <3>3, <3>4, <3>5
  <2>7. CASE o.name = "WriteConfig"
    <3>1. t \in 0..15
      BY <2>7 DEF Possible, Flags
    <3> QED
      BY <2>2, <2>3, <2>4, <2>7, <3>1, HighNibbleSet
      DEF ModifiedSlot, ScriptShows, ZoneBytes, ZoneSize, General, OfSlots, Flags
  <2> QED
    BY <1>3, <2>5, <2>6, <2>7, <2>8 DEF OfSlots, Flags
<1>4. CASE o.name \in {"UseFlag", "UpdateCount"}
  <2>1. o.slot \in 0..7
    BY <1>4, NamesOfOptions DEF General, OfSlots
  <2>2. CASE o.name = "UseFlag"
    BY <1>1, <2>1, <2>2
    DEF Modified, ScriptShows, Wanted, ZoneBytes, ZoneSize, useflag_addr, General, OfSlots, Flags
  <2>3. CASE o.name = "UpdateCount"
    BY <1>1, <2>1, <2>3
    DEF Modified, ScriptShows, Wanted, ZoneBytes, ZoneSize, useflag_addr, General, OfSlots, Flags
  <2> QED
    BY <1>4, <2>2, <2>3
<1>5. CASE o.name = "KeyUse"
  <2>1. \A i \in 68..83 : Modified(c, o, t)[i] = t
    BY <1>1, <1>5 DEF Modified, ZoneBytes, ZoneSize, General, OfSlots, Flags
  <2>2. Part(Modified(c, o, t), 68, 83) = [i \in 1..16 |-> t]
    BY <2>1 DEF Part
  <2> QED
    BY <1>5, <2>2 DEF ScriptShows, Wanted, General, OfSlots, Flags
<1> QED
  BY <1>2, <1>3, <1>4, <1>5, NamesOfOptions

(***************************************************************************)
(* The bytes of two options overlap only if they are fields of one byte of *)
(* a slot.                                                                 *)
(***************************************************************************)
LEMMA PlacesApart ==
  ASSUME NEW o \in Options, NEW p \in Options \cup Others, o # p,
         ShownFrom(p) \cap Place(o) # {}
  PROVE  /\ p \in Options /\ o.name \in OfSlots /\ p.name \in OfSlots /\ o.slot = p.slot /\ o.name # p.name
         /\ (o.name \in {"WriteKey", "WriteConfig"}) <=> (p.name \in {"WriteKey", "WriteConfig"})
<1>1. p \in Options
  <2>1. Place(o) \subseteq 13..83
    BY NamesOfOptions DEF Place, General, OfSlots, Flags, slot_addr, useflag_addr
  <2>2. p \in Others => ShownFrom(p) \cap 13..83 = {}
    BY OtherIsNoOption DEF ShownFrom
  <2> QED
    BY <2>1, <2>2
<1>2. ShownFrom(p) = Place(p)
  BY <1>1 DEF ShownFrom
<1>3. o.name # p.name \/ o.slot # p.slot
  BY SameOption
<1>4. ASSUME NEW q \in Options
      PROVE  \/ q.name \in General /\ Place(q) \subseteq 14..19 /\ q.slot = 0
             \/ q.name \in OfSlots /\ Place(q) \subseteq 20..51
             \/ q.name \in {"UseFlag", "UpdateCount"} /\ Place(q) \subseteq 52..67
             \/ q.name = "KeyUse" /\ Place(q) = 68..83 /\ q.slot = 15
  BY NamesOfOptions DEF Place, General, OfSlots, Flags, slot_addr, useflag_addr
<1>5. CASE o.name \in OfSlots
  <2>1. p.name \in OfSlots
    BY <1>1, <1>2, <1>4, <1>5 DEF General, OfSlots
  <2>2. o.slot \in 0..15 /\ p.slot \in 0..15
    BY <1>1, <1>5, <2>1, NamesOfOptions DEF General, OfSlots
  <2> QED
    BY <1>1, <1>2, <1>3, <1>5, <2>1, <2>2 DEF Place, General, OfSlots, Flags, slot_addr
<1>6. CASE o.name \in General
  <2>1. p.name \in General
    BY <1>1, <1>2, <1>4, <1>6 DEF General, OfSlots
  <2>2. o.name # p.name
    BY <1>1, <1>3, <1>4, <1>6, <2>1 DEF General, OfSlots
  <2> QED
    BY <1>2, <1>6, <2>1, <2>2 DEF Place, General, OfSlots, Flags
<1>7. CASE o.name \in {"UseFlag", "UpdateCount"}
  <2>1. p.name \in {"UseFlag", "UpdateCount"}
    BY <1>1, <1>2, <1>4, <1>7 DEF General, OfSlots
  <2>2. o.slot \in 0..7 /\ p.slot \in 0..7
    BY <1>1, <1>7, <2>1, NamesOfOptions DEF General, OfSlots
  <2> QED
    BY <1>1, <1>2, <1>3, <1>7, <2>1, <2>2 DEF Place, General, OfSlots, Flags, useflag_addr
<1>8. CASE o.name = "KeyUse"
  <2>1. p.name = "KeyUse" /\ o.slot = 15 /\ p.slot = 15
    BY <1>1, <1>2, <1>4, <1>8 DEF General, OfSlots
  <2> QED
    BY <1>3, <1>8, <2>1
<1> QED
  BY <1>5, <1>6, <1>7, <1>8, NamesOfOptions

(***************************************************************************)
(* Everything else is shown as it was.                                     *)
(***************************************************************************)
LEMMA ShownOfOthers ==
  ASSUME NEW c \in ZoneBytes, NEW o \in Options, NEW t \in Possible(o.name),
         NEW p \in Options \cup Others, p # o
  PROVE  ScriptShows(Modified(c, o, t), p) = ScriptShows(c, p)
<1>1. Modified(c, o, t) \in ZoneBytes
  BY ModifiedFrame
<1>2. CASE ShownFrom(p) \cap Place(o) = {}
  <2>1. \A i \in ShownFrom(p) : Modified(c, o, t)[i] = c[i]
    BY <1>2, ModifiedFrame, PlaceInZone
  <2> QED
    BY <1>1, <2>1, ShownByItsBytes
<1>3. CASE ShownFrom(p) \cap Place(o) # {}
  <2>1. /\ o.name \in OfSlots /\ p.name \in OfSlots /\ o.slot = p.slot /\ o.name # p.name
        /\ (o.name \in {"WriteKey", "WriteConfig"}) <=> (p.name \in {"WriteKey", "WriteConfig"})
    BY <1>3, PlacesApart
  <2>2. o.slot \in 0..15
    BY <2>1, NamesOfOptions DEF General, OfSlots
  <2>3. Modified(c, o, t) = ModifiedSlot(c, o, t)
    BY <2>1 DEF Modified, Possible, NoValue, Bytes, OfSlots, Flags
  <2>4. /\ slot_addr(o.slot) \in 20..50 /\ slot_addr(o.slot) + 1 \in 21..51
        /\ c[slot_addr(o.slot)] \in Bytes /\ c[slot_addr(o.slot) + 1] \in Bytes
    BY SMTT(60), <2>2 DEF slot_addr, ZoneBytes, ZoneSize
  <2>5. CASE o.name = "ReadKey"
    <3>1. t \in 0..15 /\ p.name \in Flags
      BY SMTT(60), <2>1, <2>5 DEF Possible, OfSlots, Flags
    <3> QED
      BY <2>1, <2>3, <2>4, <2>5, <3>1, LowNibbleSet, FlagUnits
      DEF ModifiedSlot, ScriptShows, ZoneBytes, ZoneSize, General, OfSlots, Flags
  <2>6. CASE o.name \in Flags
    <3>1. t \in {0, 1} /\ FlagUnit[o.name] \in {16, 32, 64, 128}
      BY SMTT(60), <2>6, FlagUnits DEF Possible, Flags
    <3>2. CASE p.name = "ReadKey"
      BY <2>1, <2>3, <2>4, <2>6, <3>1, <3>2, FlagSet
      DEF ModifiedSlot, ScriptShows, ZoneBytes, ZoneSize, General, OfSlots, Flags
    <3>3. CASE p.name \in Flags
      <4>1. FlagUnit[p.name] \in {16, 32, 64, 128} \ {FlagUnit[o.name]}
        BY <2>1, <2>6, <3>3, FlagUnits
      <4> DEFINE addr == slot_addr(o.slot)
                 unit == FlagUnit[p.name]
                 s == SetBits(c[addr], FlagUnit[o.name], 2, t)
      <4>2. Bits(s, unit, 2) = Bits(c[addr], unit, 2)
        BY SMTT(60), <2>4, <3>1, <4>1, FlagSet
      <4>3. Modified(c, o, t)[addr] = s
        BY <2>3, <2>4, <2>6 DEF ModifiedSlot, ZoneBytes, ZoneSize, General, OfSlots, Flags
      <4>4. /\ ScriptShows(Modified(c, o, t), p) = Bits(Modified(c, o, t)[addr], unit, 2)
            /\ ScriptShows(c, p) = Bits(c[addr], unit, 2)
        BY SMTT(60), <2>1, <3>3 DEF ScriptShows, General, OfSlots, Flags
      <4> QED
        BY <4>2, <4>3, <4>4
    <3> QED
      BY <2>1, <2>6, <3>2, <3>3 DEF OfSlots, Flags
  <2>7. CASE o.name = "WriteKey"
    <3>1. t \in 0..15 /\ p.name = "WriteConfig"
      BY SMTT(60), <2>1, <2>7 DEF Possible, OfSlots, Flags
    <3> QED
      BY <2>1, <2>3, <2>4, <2>7, <3>1, LowNibbleSet
      DEF ModifiedSlot, ScriptShows, ZoneBytes, ZoneSize, General, OfSlots, Flags
  <2>8. CASE o.name = "WriteConfig"
    <3>1. t \in 0..15 /\ p.name = "WriteKey"
      BY <2>1, <2>8 DEF Possible, OfSlots, Flags
    <3> QED
      BY <2>1, <2>3, <2>4, <2>8, <3>1, HighNibbleSet
      DEF ModifiedSlot, ScriptShows, ZoneBytes, ZoneSize, General, OfSlots, Flags
  <2> QED
    BY <2>1, <2>5, <2>6, <2>7, <2>8 DEF OfSlots, Flags
<1> QED
  BY <1>2, <1>3

(***************************************************************************)
(* The two displays, each with a layout of its own, show the same of every *)
(* zone.                                                                   *)
(***************************************************************************)
LEMMA DisplaysAgree ==
  ASSUME NEW c \in ZoneBytes, NEW o \in Options \cup Others
  PROVE  FirmwareShows(c, o) = ScriptShows(c, o)
<1>1. CASE o \in Options /\ o.name \in OfSlots
  <2>1. o.slot \in 0..15
    BY <1>1, NamesOfOptions DEF General, OfSlots
  <2>2. /\ slot_addr(o.slot) = 20 + 2 * o.slot
        /\ c[slot_addr(o.slot)] \in Bytes /\ c[slot_addr(o.slot) + 1] \in Bytes
    BY <2>1 DEF slot_addr, ZoneBytes, ZoneSize
  <2>3. FirmwareShows(c, o) = FirmwareShowsSlot(c, o)
    BY <1>1 DEF FirmwareShows, OfSlots
  <2> QED
    BY <1>1, <2>2, <2>3
    DEF FirmwareShowsSlot, ScriptShows, hexprint_4bits, hexprint_1bit, Bits, FlagUnit, Bytes, OfSlots, Flags
<1>2. CASE o \in Options /\ o.name \notin OfSlots
  BY <1>2, NamesOfOptions DEF FirmwareShows, ScriptShows, General, OfSlots, Flags
<1>3. CASE o \in Others
  BY <1>3, OtherIsNoOption DEF FirmwareShows, ScriptShows, General, OfSlots, Flags
<1> QED
  BY SMTT(60), <1>1, <1>2, <1>3

(***************************************************************************)
(* The zone, read piece by piece.                                          *)
(***************************************************************************)
LEMMA CollectedIsZone ==
  ASSUME zone \in ZoneBytes, NEW reads,
         \A r \in reads : r.to \in Nat /\ r.to = 4 * r.p.param2,
         \A i \in 0..(ZoneSize - 1) : \E r \in reads : i - r.to \in DOMAIN Answered(r.p)
  PROVE  Collected(reads) = zone
<1> DEFINE place(i) == CHOOSE r \in reads : i - r.to \in DOMAIN Answered(r.p)
<1>1. ASSUME NEW i \in 0..(ZoneSize - 1)
      PROVE  Answered(place(i).p)[i - place(i).to] = zone[i]
  <2>1. place(i) \in reads /\ i - place(i).to \in DOMAIN Answered(place(i).p)
    BY <1>1
  <2> HIDE DEF place
  <2>2. i - place(i).to \in Int /\ 4 * place(i).p.param2 + (i - place(i).to) = i
    BY SMTT(60), <2>1 DEF ZoneSize
  <2> QED
    BY <2>1, <2>2 DEF Answered
<1>2. Collected(reads) = [i \in 0..(ZoneSize - 1) |-> Answered(place(i).p)[i - place(i).to]]
  BY DEF Collected
<1> HIDE DEF place
<1>3. [i \in 0..(ZoneSize - 1) |-> Answered(place(i).p)[i - place(i).to]] = [i \in 0..(ZoneSize - 1) |-> zone[i]]
  BY <1>1
<1> QED
  BY <1>2, <1>3 DEF ZoneBytes

LEMMA PromptReadsAll ==
  ASSUME zone \in ZoneBytes
  PROVE  Collected(PromptReads) = zone
<1> USE Unreserved DEF RspSizeVal, RspSizeMax, CmdSizeMin
<1>1. \A a \in {0, 32} : read(128, a).param2 = a \div 4 /\ read(128, a).response = 35
  BY DEF read, Packet, Has, OutOfZone, Zone, AddressMask
<1>2. \A a \in {64, 68, 72, 76, 80, 84} : read(0, a).param2 = a \div 4 /\ read(0, a).response = 7
  BY DEF read, Packet, Has, OutOfZone, Zone, AddressMask
<1>3. \A r \in PromptReads : r.to \in Nat /\ r.to = 4 * r.p.param2
  BY <1>1, <1>2 DEF PromptReads
<1>4. ASSUME NEW i \in 0..(ZoneSize - 1)
      PROVE  \E r \in PromptReads : i - r.to \in DOMAIN Answered(r.p)
  <2>1. CASE i < 64
    <3>1. PICK a \in {0, 32} : i - a \in 0..31
      BY <2>1 DEF ZoneSize
    <3>2. [to |-> a, p |-> read(128, a)] \in PromptReads
      BY <3>1 DEF PromptReads
    <3>3. DOMAIN Answered(read(128, a)) = 0..31
      BY <1>1, <3>1 DEF Answered
    <3> QED
      BY <3>1, <3>2, <3>3
  <2>2. CASE i >= 64
    <3>1. PICK a \in {64, 68, 72, 76, 80, 84} : i - a \in 0..3
      BY <2>2 DEF ZoneSize
    <3>2. [to |-> a, p |-> read(0, a)] \in PromptReads
      BY <3>1 DEF PromptReads
    <3>3. DOMAIN Answered(read(0, a)) = 0..3
      BY <1>2, <3>1 DEF Answered
    <3> QED
      BY <3>1, <3>2, <3>3
  <2> QED
    BY <2>1, <2>2 DEF ZoneSize
<1> QED
  BY <1>3, <1>4, CollectedIsZone

LEMMA ScriptReadsAll ==
  ASSUME zone \in ZoneBytes
  PROVE  Collected(ScriptReads) = zone
<1> USE DEF RspSizeVal, RspSizeMax
<1> DEFINE p(zone_bits, i) == execute("READ", zone_bits, i, NoData, 35)
<1>1. \A i \in {0, 8} : p(128, i).param2 = i /\ p(128, i).response = 35
  BY DEF execute, Packet, ResponseSize, Has
<1>2. \A i \in 16..21 : p(0, i).param2 = i /\ p(0, i).response = 7
  BY DEF execute, Packet, ResponseSize, Has
<1>3. ScriptReads = {[to |-> 0, p |-> p(128, 0)], [to |-> 32, p |-> p(128, 8)]}
                      \cup {[to |-> 4 * i, p |-> p(0, i)] : i \in 16..21}
  BY DEF ScriptReads
<1> HIDE DEF p
<1>4. \A r \in ScriptReads : r.to \in Nat /\ r.to = 4 * r.p.param2
  BY <1>1, <1>2, <1>3
<1>5. ASSUME NEW i \in 0..(ZoneSize - 1)
      PROVE  \E r \in ScriptReads : i - r.to \in DOMAIN Answered(r.p)
  <2>1. CASE i < 64
    <3>1. PICK w \in {0, 8} : i - 4 * w \in 0..31
      BY <2>1 DEF ZoneSize
    <3>2. [to |-> 4 * w, p |-> p(128, w)] \in ScriptReads
      BY <1>3, <3>1
    <3>3. DOMAIN Answered(p(128, w)) = 0..31
      BY <1>1, <3>1 DEF Answered
    <3> QED
      BY <3>1, <3>2, <3>3
  <2>2. CASE i >= 64
    <3>1. PICK w \in 16..21 : i - 4 * w \in 0..3
      BY <2>2 DEF ZoneSize
    <3>2. [to |-> 4 * w, p |-> p(0, w)] \in ScriptReads
      BY <1>3, <3>1
    <3>3. DOMAIN Answered(p(0, w)) = 0..3
      BY <1>2, <3>1 DEF Answered
    <3> QED
      BY <3>1, <3>2, <3>3
  <2> QED
    BY <2>1, <2>2 DEF ZoneSize
<1> QED
  BY <1>4, <1>5, CollectedIsZone

(***************************************************************************)
(* The words written back make up the difference.                          *)
(***************************************************************************)
LEMMA WrittenBack ==
  ASSUME NEW new \in ZoneBytes, NEW old \in ZoneBytes
  PROVE  LET written == {execute("WRITE", 0, i, FourBytes, RspSizeMax) : i \in ChangedWords(new, old)} IN
         [i \in DOMAIN old |-> IF \E p \in written : i \div 4 = p.param2 THEN new[i] ELSE old[i]] = new
<1> DEFINE written == {execute("WRITE", 0, i, FourBytes, RspSizeMax) : i \in ChangedWords(new, old)}
<1>1. ASSUME NEW i \in 0..(ZoneSize - 1), new[i] # old[i]
      PROVE  \E p \in written : i \div 4 = p.param2
  <2>1. i \div 4 \in 0..21 /\ (i % 4) \in 0..3 /\ 4 * (i \div 4) + (i % 4) = i
    BY DEF ZoneSize
  <2>2. i \div 4 \in ChangedWords(new, old)
    BY <1>1, <2>1 DEF ChangedWords
  <2>3. execute("WRITE", 0, i \div 4, FourBytes, RspSizeMax).param2 = i \div 4
    BY DEF execute, Packet
  <2> QED
    BY <2>2, <2>3
<1> HIDE DEF written
<1>2. [i \in DOMAIN old |-> IF \E p \in written : i \div 4 = p.param2 THEN new[i] ELSE old[i]] = new
  BY <1>1 DEF ZoneBytes
<1> QED
  BY <1>2 DEF written

-----------------------------------------------------------------------------
(* The CRC *)

(***************************************************************************)
(* A sequence, followed by two numbers and padded: what it begins with.    *)
(***************************************************************************)
LEMMA Padded ==
  ASSUME NEW S, NEW r \in Seq(S), NEW c \in Seq(S), NEW z \in Seq(S), Len(c) = 2, Len(r) > 0
  PROVE  LET b == (r \o c) \o z IN
         /\ b[1] = r[1] /\ b[Len(r) + 1] = c[1] /\ b[Len(r) + 2] = c[2]
         /\ SubSeq(b, 1, Len(r)) = r
<1> DEFINE n == Len(r)
           b == (r \o c) \o z
<1>1. n \in Nat \ {0} /\ Len(z) \in Nat
  OBVIOUS
<1>2. /\ r \o c \in Seq(S) /\ Len(r \o c) = n + 2
      /\ \A i \in 1..(n + 2) : (r \o c)[i] = IF i <= n THEN r[i] ELSE c[i - n]
  <2>1. /\ r \o c \in Seq(S) /\ Len(r \o c) = Len(r) + Len(c)
        /\ \A i \in 1..(Len(r) + Len(c)) : (r \o c)[i] = IF i <= Len(r) THEN r[i] ELSE c[i - Len(r)]
    BY ConcatProperties, Zenon
  <2> QED
    BY <2>1, Zenon
<1>3. \A i \in 1..(n + 2) + Len(z) : b[i] = IF i <= n + 2 THEN (r \o c)[i] ELSE z[i - (n + 2)]
  BY <1>2, ConcatProperties
<1> HIDE DEF n, b
<1>4. \A i \in 1..(n + 2) : b[i] = IF i <= n THEN r[i] ELSE c[i - n]
  BY SMTT(60), <1>1, <1>2, <1>3
<1>5. b[1] = r[1] /\ b[n + 1] = c[1] /\ b[n + 2] = c[2]
  BY <1>1, <1>4
<1>6. \A i \in 1..n : b[i] = r[i] /\ r[i] \in S
  BY SMTT(60), <1>1, <1>4 DEF n
<1>7. /\ SubSeq(b, 1, n) \in Seq(S) /\ Len(SubSeq(b, 1, n)) = n
      /\ \A i \in 1..n : SubSeq(b, 1, n)[i] = b[i]
  <2>1. /\ SubSeq(b, 1, n) \in Seq(S)
        /\ Len(SubSeq(b, 1, n)) = IF 1 <= n THEN n - 1 + 1 ELSE 0
        /\ \A i \in 1..(n - 1 + 1) : SubSeq(b, 1, n)[i] = b[1 + i - 1]
    BY <1>1, <1>6, SubSeqProperties
  <2> QED
    BY <1>1, <2>1
<1>8. SubSeq(b, 1, n) = r
  BY <1>6, <1>7, SeqEqual DEF n
<1> QED
  BY <1>5, <1>8 DEF b, n

(***************************************************************************)
(* A response that the chip sends, its count in its first byte, and that   *)
(* arrives as it was sent, whatever its bytes, passes receive_response and *)
(* check_crc in every buffer that it fits into.                            *)
(***************************************************************************)
THEOREM UndamagedAccepted ==
  ASSUME NEW response \in Seq(Bytes), NEW size \in Sizes,
         response[1] = Len(response) + 2, response[1] \in RspSizeMin..size
  PROVE  Passes(Buffer(WithCrc(response), size))
<1> DEFINE crc == calculate_crc(response)
           S == Bytes \cup {crc[1], crc[2], 0}
           rest == [i \in 1..(size - Len(WithCrc(response))) |-> 0]
           buffer == (response \o crc) \o rest
<1>1. Len(response) \in Nat /\ Len(response) > 0 /\ size \in Nat /\ Len(response) + 2 <= size
  <2> DEFINE n == Len(response)
  <2>1. n \in Nat /\ size \in Nat
    BY DEF Sizes, RspSizeMin, RspSizeVal, RspSizeMax
  <2>2. n + 2 \in 4..size
    BY DEF RspSizeMin
  <2> HIDE DEF n
  <2>3. n > 0 /\ n + 2 <= size
    BY <2>1, <2>2
  <2> QED
    BY <2>1, <2>3 DEF n
<1>2. crc \in Seq({crc[1], crc[2]}) /\ Len(crc) = 2 /\ crc = <<crc[1], crc[2]>>
  BY DEF calculate_crc
<1>3. Len(WithCrc(response)) = Len(response) + 2
  <2>1. response \in Seq(S) /\ crc \in Seq(S)
    BY <1>2
  <2> QED
    BY ZenonT(60), <1>2, <2>1, ConcatProperties DEF WithCrc
<1>4. rest \in Seq(S) /\ Len(rest) = size - (Len(response) + 2)
  BY <1>1, <1>3
<1> HIDE DEF crc
<1>5. response \in Seq(S) /\ crc \in Seq(S)
  BY <1>2
<1> HIDE DEF S, rest
<1>6. /\ buffer[1] = response[1]
      /\ buffer[Len(response) + 1] = crc[1] /\ buffer[Len(response) + 2] = crc[2]
      /\ SubSeq(buffer, 1, Len(response)) = response
  BY <1>1, <1>2, <1>4, <1>5, Padded
<1>7. Len(buffer) = size
  <2>1. response \o crc \in Seq(S) /\ Len(response \o crc) = Len(response) + 2
    BY ZenonT(60), <1>2, <1>5, ConcatProperties
  <2>2. Len(buffer) = Len(response \o crc) + Len(rest)
    BY <1>4, <2>1, ConcatProperties
  <2> QED
    BY <1>1, <1>4, <2>1, <2>2
<1> HIDE DEF buffer
<1>8. buffer[1] - 2 = Len(response)
  BY <1>1, <1>6
<1>9. check_crc(buffer)
  BY <1>2, <1>6, <1>8 DEF check_crc, crc
<1>10. buffer = Buffer(WithCrc(response), size)
  BY DEF buffer, rest, crc, Buffer, WithCrc
<1>11. buffer[1] \in RspSizeMin..Len(buffer)
  BY <1>6, <1>7
<1> QED
  BY <1>9, <1>10, <1>11 DEF Passes

-----------------------------------------------------------------------------
(* The invariant *)

(***************************************************************************)
(* The packets' part of the invariant: what is about to be sent was made   *)
(* by the wrapper of the call, or by execute of the request.               *)
(***************************************************************************)
Packets ==
  /\ job = "call" => subject \in Calls
  /\ job = "request" => subject \in ScriptRequests
  /\ packet # BadParam =>
       \/ job = "call" /\ packet = Wrapper(subject)
       \/ job = "request" /\ packet = execute(subject.op, subject.param1, subject.param2, subject.lens, RspSizeMax)
  /\ pc = "marshalled" => packet # BadParam

AskedOK ==
  /\ \A a \in asked : a.option \in Options /\ a.value \in Possible(a.option.name) \cup {NoValue}
  /\ \A a, b \in asked : a.option = b.option => a = b

\* No byte differs from the chip's but those of the options put in, and every option is
\* shown as asked for or, if not asked for, as the chip's zone shows it.
Differ == \A i \in 0..(ZoneSize - 1) : config[i] # zone[i] => \E a \in Wishes : i \in Place(a.option)
Shown ==
  \A o \in Options \cup Others :
    /\ \A a \in Wishes : a.option = o => ScriptShows(config, o) = Wanted(o, a.value)
    /\ (\A a \in Wishes : a.option # o) => ScriptShows(config, o) = ScriptShows(zone, o)

ZonePart ==
  job = "zone" =>
    /\ zone \in ZoneBytes /\ subject \in {"unread", "read", "written"}
    /\ subject = "unread" => asked = {}
    /\ subject = "read" => config \in ZoneBytes /\ AskedOK /\ Differ /\ Shown
    /\ subject = "written" => zone = config

ClockPart ==
  /\ pc \in {"idle", "refused", "marshalled", "sent", "poll", "done"} /\ op_code \in OpCodes
  /\ countdown \in Nat /\ countdown < 65536 /\ now \in Nat /\ ready \in Nat
  /\ ret_code \in {"FUNC_FAIL", "SUCCESS", "RX_NO_RESPONSE"}

CommandsInv == Packets /\ ZonePart /\ ClockPart

LEMMA CallsAreTyped ==
  ASSUME NEW c \in Calls
  PROVE  c \in LibraryCalls
  BY CallsAssumption DEF LibraryCalls

LEMMA CommandsStart == CommandsInit => CommandsInv
<1> SUFFICES ASSUME CommandsInit PROVE CommandsInv
  OBVIOUS
<1>1. Packets
  BY DEF CommandsInit, Packets, ScriptRequests
<1>2. ZonePart
  BY ZoneAssumption DEF CommandsInit, ZonePart, ZoneBytes
<1>3. ClockPart
  <2>1. \E op \in OpCodes : TRUE
    BY CallsAssumption DEF Ops
  <2>2. op_code \in OpCodes
    BY <2>1 DEF CommandsInit
  <2> QED
    BY <2>2, TimeoutAssumption DEF CommandsInit, ClockPart
<1> QED
  BY <1>1, <1>2, <1>3 DEF CommandsInv

\* An option put in keeps the zone's part of the invariant.
LEMMA OneOption ==
  ASSUME ZonePart, Modify
  PROVE  ZonePart'
<1>1. job = "zone" /\ subject = "read" /\ UNCHANGED <<job, subject, zone>>
  BY DEF Modify
<1>2. zone \in ZoneBytes /\ config \in ZoneBytes /\ AskedOK /\ Differ /\ Shown
  BY <1>1 DEF ZonePart
<1>3. PICK a \in Asks :
        LET t == Parsed(a.option.name, a.value) IN
        /\ \A b \in asked : b.option # a.option
        /\ config' = Modified(config, a.option, t)
        /\ asked' = asked \cup {[option |-> a.option, value |-> t]}
  BY DEF Modify
<1> DEFINE o == a.option
           t == Parsed(o.name, a.value)
           new == [option |-> o, value |-> t]
<1>4. o \in Options /\ t \in Possible(o.name) \cup {NoValue}
  BY ZoneAssumption DEF Parsed
<1>5. /\ config' = Modified(config, o, t) /\ asked' = asked \cup {new}
      /\ \A b \in asked : b.option # o
  BY <1>3
<1> HIDE DEF t, o
<1>6. AskedOK'
  BY <1>2, <1>4, <1>5 DEF AskedOK
<1>7. config' \in ZoneBytes
  BY <1>2, <1>4, <1>5, ModifiedFrame
<1>8. CASE t = NoValue
  <2>1. config' = config
    BY <1>5, <1>8 DEF Modified
  <2>2. Wishes' = Wishes
    BY <1>5, <1>8 DEF Wishes
  <2> QED
    BY <1>1, <1>2, <1>6, <1>7, <2>1, <2>2 DEF ZonePart, Differ, Shown
<1>9. CASE t # NoValue
  <2>1. t \in Possible(o.name)
    BY <1>4, <1>9
  <2>2. Wishes' = Wishes \cup {new}
    BY <1>5, <1>9 DEF Wishes
  <2>3. \A b \in Wishes : b.option # o
    BY <1>5 DEF Wishes
  <2>6. new \in Wishes' /\ new.option = o /\ new.value = t
    BY <2>2
  <2> HIDE DEF new
  <2>4. Differ'
    <3> SUFFICES ASSUME NEW i \in 0..(ZoneSize - 1), config'[i] # zone[i]
                 PROVE  \E b \in Wishes' : i \in Place(b.option)
      BY <1>1 DEF Differ
    <3>1. CASE i \in Place(o)
      BY <2>6, <3>1
    <3>2. CASE i \notin Place(o)
      <4>1. config'[i] = config[i]
        BY <1>2, <1>4, <1>5, <3>2, ModifiedFrame
      <4> QED
        BY <1>2, <2>2, <4>1 DEF Differ
    <3> QED
      BY <3>1, <3>2
  <2>5. Shown'
    <3> SUFFICES ASSUME NEW p \in Options \cup Others
                 PROVE  /\ \A b \in Wishes' : b.option = p => ScriptShows(config', p) = Wanted(p, b.value)
                        /\ (\A b \in Wishes' : b.option # p) => ScriptShows(config', p) = ScriptShows(zone, p)
      BY <1>1 DEF Shown
    <3>1. CASE p = o
      <4>1. ScriptShows(config', p) = Wanted(p, t)
        BY <1>2, <1>4, <1>5, <2>1, <3>1, ShownOfItself
      <4> QED
        BY <2>2, <2>3, <2>6, <3>1, <4>1
    <3>2. CASE p # o
      <4>1. ScriptShows(config', p) = ScriptShows(config, p)
        BY <1>2, <1>4, <1>5, <2>1, <3>2, ShownOfOthers
      <4> QED
        BY <1>2, <2>2, <2>6, <3>2, <4>1 DEF Shown
    <3> QED
      BY <3>1, <3>2
  <2> QED
    BY <1>1, <1>2, <1>6, <1>7, <2>4, <2>5 DEF ZonePart
<1> QED
  BY <1>8, <1>9

\* Every action keeps the invariant.
LEMMA CommandsStep == CommandsInv /\ [CommandsNext]_allVars => CommandsInv'
<1> SUFFICES ASSUME CommandsInv, [CommandsNext]_allVars PROVE CommandsInv'
  OBVIOUS
<1>0. Packets /\ ZonePart /\ ClockPart
  BY DEF CommandsInv
<1>1. CASE Marshal
  <2>1. Packets'
    BY <1>0, <1>1 DEF Marshal, Packets
  <2>2. ZonePart'
    BY <1>0, <1>1 DEF Marshal, ZonePart
  <2>3. ClockPart'
    BY <1>0, <1>1 DEF Marshal, ClockPart
  <2> QED
    BY <2>1, <2>2, <2>3 DEF CommandsInv
<1>2. CASE Sent
  <2>1. packet.op \in OpCodes
    <3>1. packet # BadParam
      BY <1>0, <1>2 DEF Sent, Packets
    <3>2. CASE job = "call"
      <4>1. subject \in LibraryCalls /\ packet = Wrapper(subject)
        BY <1>0, <3>1, <3>2, CallsAreTyped DEF Packets
      <4>2. packet.op = subject.op
        BY <3>1, <4>1, WrapperExecutes
      <4> QED
        BY <4>1, <4>2, CallsAssumption DEF LibraryCalls
    <3>3. CASE job = "request"
      <4>1. subject \in ScriptRequests
        BY <1>0, <3>3 DEF Packets
      <4>2. packet = execute(subject.op, subject.param1, subject.param2, subject.lens, RspSizeMax)
        BY <1>0, <3>1, <3>3 DEF Packets
      <4>3. packet.op \in Ops
        BY <4>1, <4>2, RequestsAreCalls
      <4> QED
        BY <4>3, CallsAssumption
    <3> QED
      BY <1>0, <3>1, <3>2, <3>3 DEF Packets
  <2>2. ClockPart'
    BY <1>0, <1>2, <2>1, TimeoutAssumption DEF Sent, ClockPart
  <2>3. Packets' /\ ZonePart'
    BY <1>2 DEF Sent, Packets, ZonePart
  <2> QED
    BY <2>2, <2>3 DEF CommandsInv
<1>3. CASE Timing
  <2>1. UNCHANGED <<job, subject, packet, zone, config, asked>> /\ pc' # "marshalled" /\ pc \in {"sent", "poll"}
    BY <1>3 DEF Timing, Next, WaitDelay, Poll
  <2>2. Packets' /\ ZonePart'
    BY <1>0, <2>1 DEF Packets, ZonePart, AskedOK, Differ, Shown, Wishes
  <2>3. TypeOK'
    <3>1. TypeOK
      BY <1>0, <2>1 DEF ClockPart, TypeOK
    <3>2. [Next]_vars
      BY <1>3 DEF Timing
    <3> QED
      BY <3>1, <3>2, TypesKept
  <2> QED
    BY <2>2, <2>3 DEF CommandsInv, ClockPart, TypeOK
<1>4. CASE ReadZone
  <2>1. /\ job = "zone" /\ subject = "unread" /\ subject' = "read"
        /\ UNCHANGED <<job, packet, zone, asked, pc, op_code, countdown, now, ready, ret_code>>
    BY <1>4 DEF ReadZone, timing, vars
  <2>2. zone \in ZoneBytes /\ asked = {}
    BY <1>0, <2>1 DEF ZonePart
  <2>3. config' = zone
    BY <1>4, <2>2, PromptReadsAll, ScriptReadsAll DEF ReadZone
  <2>4. ZonePart'
    BY <2>1, <2>2, <2>3 DEF ZonePart, AskedOK, Differ, Shown, Wishes
  <2>5. Packets' /\ ClockPart'
    BY <1>0, <2>1 DEF Packets, ClockPart
  <2> QED
    BY <2>4, <2>5 DEF CommandsInv
<1>5. CASE Modify
  <2>1. /\ job = "zone"
        /\ UNCHANGED <<job, subject, packet, pc, op_code, countdown, now, ready, ret_code>>
    BY <1>5 DEF Modify, timing, vars
  <2>2. ZonePart'
    BY <1>0, <1>5, OneOption
  <2>3. Packets' /\ ClockPart'
    BY <1>0, <2>1 DEF Packets, ClockPart
  <2> QED
    BY <2>2, <2>3 DEF CommandsInv
<1>6. CASE WriteBack
  <2>1. /\ job = "zone" /\ subject = "read" /\ subject' = "written"
        /\ UNCHANGED <<job, packet, config, asked, pc, op_code, countdown, now, ready, ret_code>>
    BY <1>6 DEF WriteBack, timing, vars
  <2>2. zone \in ZoneBytes /\ config \in ZoneBytes
    BY <1>0, <2>1 DEF ZonePart
  <2>3. zone' = config
    BY <1>6, <2>2, WrittenBack DEF WriteBack
  <2>4. ZonePart'
    BY <2>1, <2>2, <2>3 DEF ZonePart
  <2>5. Packets' /\ ClockPart'
    BY <1>0, <2>1 DEF Packets, ClockPart
  <2> QED
    BY <2>4, <2>5 DEF CommandsInv
<1>7. CASE UNCHANGED allVars
  <2>1. UNCHANGED <<job, subject, packet, zone, config, asked, pc, op_code, countdown, now, ready, ret_code>>
    BY <1>7 DEF allVars, timing, vars
  <2> QED
    BY <1>0, <2>1 DEF CommandsInv, Packets, ZonePart, ClockPart, AskedOK, Differ, Shown, Wishes
<1> QED
  BY <1>1, <1>2, <1>3, <1>4, <1>5, <1>6, <1>7 DEF CommandsNext

LEMMA CommandsInductive == CommandsSpec => []CommandsInv
  BY CommandsStart, CommandsStep, PTL DEF CommandsSpec

(***************************************************************************)
(* Every packet of a function of the library is the one execute would      *)
(* make; every request of the scripts is one its function would accept;    *)
(* none is longer than the longest command: for all parameters.            *)
(***************************************************************************)
THEOREM PacketsAgree == CommandsSpec => []WrappersAgree
<1>1. CommandsInv => WrappersAgree
  <2> SUFFICES ASSUME Packets, packet # BadParam
               PROVE  WrappersAgree
    BY DEF CommandsInv, WrappersAgree
  <2>1. CASE job = "call"
    <3>1. subject \in LibraryCalls /\ packet = Wrapper(subject)
      BY <2>1, CallsAreTyped DEF Packets
    <3> QED
      BY <2>1, <3>1, WrapperExecutes DEF WrappersAgree
  <2>2. CASE job = "request"
    <3>1. /\ subject \in ScriptRequests
          /\ packet = execute(subject.op, subject.param1, subject.param2, subject.lens, RspSizeMax)
      BY <2>2 DEF Packets
    <3> QED
      BY <2>2, <3>1, RequestsAreCalls DEF WrappersAgree, AsCall
  <2> QED
    BY <2>1, <2>2 DEF Packets
<1> QED
  BY <1>1, CommandsInductive, PTL

(***************************************************************************)
(* The zone is read as it is, changed only where an option lies, and       *)
(* written back to the last byte that differs.                             *)
(***************************************************************************)
THEOREM ZoneWritten == CommandsSpec => []ZoneAsExpected
<1>1. CommandsInv => ZoneAsExpected
  <2> SUFFICES ASSUME ZonePart PROVE ZoneAsExpected
    BY DEF CommandsInv
  <2> QED
    BY DEF ZonePart, ZoneAsExpected, Differ, ZoneBytes
<1> QED
  BY <1>1, CommandsInductive, PTL

(***************************************************************************)
(* Script and firmware show every option as it was asked for, and all      *)
(* others, the fields of the same byte too, as the chip has them.          *)
(***************************************************************************)
THEOREM ShownRight == CommandsSpec => []ShownAsAsked
<1>1. CommandsInv => ShownAsAsked
  <2> SUFFICES ASSUME ZonePart, job = "zone", subject = "read", NEW o \in Options \cup Others
               PROVE  /\ ScriptShows(config, o) =
                           IF \E a \in Wishes : a.option = o
                             THEN Wanted(o, (CHOOSE a \in Wishes : a.option = o).value)
                             ELSE ScriptShows(zone, o)
                      /\ FirmwareShows(config, o) = ScriptShows(config, o)
    BY DEF CommandsInv, ShownAsAsked
  <2>1. config \in ZoneBytes /\ Shown
    BY DEF ZonePart
  <2>2. FirmwareShows(config, o) = ScriptShows(config, o)
    BY <2>1, DisplaysAgree
  <2>3. CASE \E a \in Wishes : a.option = o
    <3> DEFINE a == CHOOSE b \in Wishes : b.option = o
    <3>1. a \in Wishes /\ a.option = o
      BY <2>3
    <3> HIDE DEF a
    <3>2. ScriptShows(config, o) = Wanted(o, a.value)
      BY <2>1, <3>1 DEF Shown
    <3> QED
      BY <2>2, <2>3, <3>2 DEF a
  <2>4. CASE ~\E a \in Wishes : a.option = o
    BY <2>1, <2>2, <2>4 DEF Shown
  <2> QED
    BY <2>3, <2>4
<1> QED
  BY <1>1, CommandsInductive, PTL

(***************************************************************************)
(* The clock is right, too, when it is started for the packet of whatever  *)
(* call or request.                                                        *)
(***************************************************************************)
LEMMA CommandsClock ==
  ASSUME NothingWraps
  PROVE  CommandsSpec => [](CommandsInv /\ Clock)
<1>1. CommandsInit => Clock
  BY DEF CommandsInit, Clock
<1>2. CommandsInv /\ Clock /\ [CommandsNext]_allVars => Clock'
  <2> SUFFICES ASSUME CommandsInv, Clock, [CommandsNext]_allVars PROVE Clock'
    OBVIOUS
  <2>1. CASE Timing
    <3>1. pc \in {"sent", "poll"}
      BY <2>1 DEF Timing, Next, WaitDelay, Poll
    <3>2. TimingInv
      BY <3>1 DEF CommandsInv, ClockPart, TimingInv, TypeOK
    <3>3. [Next]_vars
      BY <2>1 DEF Timing
    <3> QED
      BY <3>2, <3>3, TimingStep DEF TimingInv
  <2>2. CASE Marshal \/ Sent
    <3>1. pc' \in {"refused", "marshalled", "sent"}
      BY <2>2 DEF Marshal, Sent
    <3> QED
      BY <3>1 DEF Clock
  <2>3. CASE ReadZone \/ Modify \/ WriteBack \/ UNCHANGED allVars
    <3>1. UNCHANGED vars
      BY <2>3 DEF ReadZone, Modify, WriteBack, allVars, timing
    <3> QED
      BY <3>1 DEF vars, Clock, Allowed, PollDelay, PollTimeout
  <2> QED
    BY <2>1, <2>2, <2>3 DEF CommandsNext
<1> QED
  BY <1>1, <1>2, CommandsInductive, PTL DEF CommandsSpec

LEMMA DoneByTheClock == CommandsInv /\ Clock /\ pc = "done" => TimingInv
  BY DEF CommandsInv, ClockPart, TimingInv, TypeOK

(***************************************************************************)
(* With marshalling in front of it: the answer to a call of the library or *)
(* a request of a script is heard if the chip is punctual.                 *)
(***************************************************************************)
THEOREM CommandsHeard ==
  ASSUME NothingWraps
  PROVE  CommandsSpec => []PunctualIsHeard
<1>1. CommandsInv /\ Clock => PunctualIsHeard
  BY DoneByTheClock, HeardByTheClock DEF PunctualIsHeard
<1> QED
  BY <1>1, CommandsClock, PTL

(***************************************************************************)
(* No call or request is given up before its time is over, or more than a *)
(* poll later.                                                             *)
(***************************************************************************)
THEOREM CommandsGivenUpOnTime ==
  ASSUME NothingWraps
  PROVE  CommandsSpec => []GivesUpOnTime
<1>1. CommandsInv /\ Clock => GivesUpOnTime
  BY DoneByTheClock, GivenUpByTheClock DEF GivesUpOnTime
<1> QED
  BY <1>1, CommandsClock, PTL

=============================================================================
