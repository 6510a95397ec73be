------------------------------ MODULE Commands ------------------------------
(***************************************************************************)
(* What the library and the script make of one request: a command's packet *)
(* and the time it is given (SHA204::random .. sha, execute,               *)
(* send_and_receive); the configuration zone, read in seven or eight Read  *)
(* commands, changed as personalize.ini says, shown and written back; and  *)
(* the CRC of a response. Each behaviour is about one of the three.        *)
(***************************************************************************)
EXTENDS SHA204Timing, Marshalling, ConfigZone, Crc, FiniteSets

CONSTANTS
  Calls,       \* calls of the functions of the library
  Summaries,   \* CRCs of a zone to be locked
  Zones,       \* contents of configuration zones
  Asks,        \* the options of personalize.ini: [option, value]
  MaxAsks,     \* bound: how many of them a file has
  Responses,   \* responses of the chip, without their CRC
  Damages      \* sets of bits that the line flips in a response

\* The commands the library has a function for
Ops == {"RANDOM", "DEVREV", "READ", "CHECKMAC", "DERIVE_KEY", "GENDIG", "HMAC", "LOCK", "MAC",
        "NONCE", "PAUSE", "UPDATE_EXTRA", "WRITE", "SHA"}

ASSUME CallsAssumption ==
  /\ Ops \subseteq OpCodes /\ Summaries \subseteq Nat
  /\ Calls \subseteq [op : Ops, param1 : 0..255, param2 : Nat, given : BOOLEAN]
ASSUME ZoneAssumption ==
  /\ Zones \subseteq [0..(ZoneSize - 1) -> Bytes]
  /\ Asks \subseteq [option : Options, value : Int]

VARIABLES
  job,         \* "call", "request", "zone", "crc", and "none" while the clock runs
  subject,     \* the call or request, the response received, or how far the zone is
  packet,      \* what is given to send_and_receive
  zone,        \* the chip's configuration zone
  config,      \* the script's copy of it
  asked        \* ghost: the options put in, the latest of each

timing == vars
allVars == <<timing, job, subject, packet, zone, config, asked>>

NoZone == <<>>

Request(op, param1, param2, lens) ==
  [op |-> op, param1 |-> param1, param2 |-> param2, lens |-> lens]
NoData == <<0, 0, 0>>
FourBytes == <<4, 0, 0>>
ThirtyTwo == <<32, 0, 0>>

\* read_config_area, write_config_word, write_otp_area, write_data_slot
ZoneRequests ==
  {Request("READ", 128, i, NoData) : i \in {0, 8}} \cup {Request("READ", 0, i, NoData) : i \in 16..21}
    \cup {Request("WRITE", 0, i, FourBytes) : i \in 0..21}
    \cup {Request("WRITE", 129, i, ThirtyTwo) : i \in {0, 8}}
    \cup {Request("WRITE", 130, slot * 8, ThirtyTwo) : slot \in 0..15}

\* do_lock_config_area, do_lock_data_otp_area, get_random
LockRequests ==
  {Request("LOCK", which, crc, NoData) : which \in {0, 1}, crc \in Summaries}
    \cup {Request("RANDOM", 0, 0, NoData)}

\* mac, check_mac, sha
KeyRequests ==
  {Request("MAC", 0, slot, ThirtyTwo) : slot \in 0..15}
    \cup {Request("CHECKMAC", 0, slot, <<32, 32, 13>>) : slot \in 0..15}
    \cup {Request("SHA", 0, 0, NoData), Request("SHA", 1, 0, <<64, 0, 0>>)}

\* The lengths of answers (.._RSP_SIZE), the response a chip sends, and the cleared buffer of `size`
\* that it is received in
Sizes == {RspSizeMin, RspSizeVal, RspSizeMax}
WithCrc(response) == response \o calculate_crc(response)
Buffer(response, size) == response \o [i \in 1..(size - Len(response)) |-> 0]

CommandsInit ==
  /\ pc = "idle" /\ op_code = CHOOSE op \in OpCodes : TRUE
  /\ countdown = 0 /\ now = 0 /\ ready = 0 /\ ret_code = "FUNC_FAIL"
  /\ packet = BadParam /\ config = NoZone /\ asked = {}
  /\ \/ job = "call" /\ subject \in Calls /\ zone = NoZone
     \/ job = "request" /\ subject \in ZoneRequests \cup LockRequests \cup KeyRequests /\ zone = NoZone
     \/ job = "zone" /\ subject = "unread" /\ zone \in Zones
     \/ /\ job = "crc" /\ zone = NoZone
        /\ \E frame \in {WithCrc(r) : r \in Responses}, bits \in Damages, size \in Sizes :
             /\ Len(frame) <= size /\ bits \subseteq 0..(8 * Len(frame) - 1)
             /\ subject = [buffer |-> Buffer(Damaged(frame, bits), size),
                           sent |-> Len(frame), bits |-> bits]

-----------------------------------------------------------------------------
(* Commands *)

\* param2 is an address in bytes for Read and Write; `given` says whether the optional
\* data is there (the prompt always has some)
Wrapper(c) ==
  CASE c.op = "RANDOM" -> random(c.param1)
    [] c.op = "DEVREV" -> dev_rev
    [] c.op = "READ" -> read(c.param1, c.param2)
    [] c.op = "CHECKMAC" -> check_mac(c.param1, c.param2)
    [] c.op = "DERIVE_KEY" -> derive_key(c.param1, c.param2, c.given)
    [] c.op = "GENDIG" -> gen_dig(c.param1, c.param2, c.given)
    [] c.op = "HMAC" -> hmac(c.param1, c.param2)
    [] c.op = "LOCK" -> lock(c.param1, c.param2)
    [] c.op = "MAC" -> mac(c.param1, c.param2, c.given)
    [] c.op = "NONCE" -> nonce(c.param1)
    [] c.op = "PAUSE" -> pause(c.param1)
    [] c.op = "UPDATE_EXTRA" -> update_extra(c.param1, c.param2)
    [] c.op = "WRITE" -> write(c.param1, c.param2, c.given)
    [] c.op = "SHA" -> sha(c.param1, c.given)

Marshal ==
  /\ pc = "idle" /\ job \in {"call", "request"}
  /\ packet' = IF job = "call" THEN Wrapper(subject)
               ELSE execute(subject.op, subject.param1, subject.param2, subject.lens, RspSizeMax)
  /\ pc' = IF packet' = BadParam THEN "refused" ELSE "marshalled"
  /\ UNCHANGED <<op_code, countdown, now, ready, ret_code, job, subject, zone, config, asked>>

\* send_command: from here on the clock is all there is
Sent ==
  /\ pc = "marshalled" /\ pc' = "sent"
  /\ op_code' = packet.op /\ ready' \in Latencies
  /\ job' = "none" /\ subject' = "none" /\ packet' = BadParam
  /\ UNCHANGED <<countdown, now, ret_code, zone, config, asked>>

Timing == Next /\ UNCHANGED <<job, subject, packet, zone, config, asked>>

-----------------------------------------------------------------------------
(* The configuration zone *)

\* The chip's answer to a Read: external
Answered(p) ==
  [i \in 0..(IF p.response = RspSizeMax THEN 31 ELSE 3) |-> zone[4 * p.param2 + i]]

\* The 'o' of the prompt reads into the place that it gives as the address
PromptReads == {[to |-> 0, p |-> read(128, 0)], [to |-> 32, p |-> read(128, 32)]}
                 \cup {[to |-> addr, p |-> read(0, addr)] : addr \in {64, 68, 72, 76, 80, 84}}

\* mutant: the last words are asked for by their place
ScriptReadsByPlace ==
  {[to |-> 0, p |-> execute("READ", 128, 0, NoData, RspSizeMax)],
   [to |-> 32, p |-> execute("READ", 128, 8, NoData, RspSizeMax)]}
    \cup {[to |-> 4 * i, p |-> execute("READ", 0, i - 16, NoData, RspSizeMax)] : i \in 16..21}

\* receive_config_area appends what it reads
ScriptReads ==
  {[to |-> 0, p |-> execute("READ", 128, 0, NoData, RspSizeMax)],
   [to |-> 32, p |-> execute("READ", 128, 8, NoData, RspSizeMax)]}
    \cup {[to |-> 4 * i, p |-> execute("READ", 0, i, NoData, RspSizeMax)] : i \in 16..21}

Collected(reads) ==
  [i \in 0..(ZoneSize - 1) |->
     LET r == CHOOSE s \in reads : i - s.to \in DOMAIN Answered(s.p) IN Answered(r.p)[i - r.to]]

ReadZone ==
  /\ job = "zone" /\ subject = "unread"
  /\ \E reads \in {PromptReads, ScriptReads} : config' = Collected(reads)
  /\ subject' = "read"
  /\ UNCHANGED <<timing, job, packet, zone, asked>>

\* process_config_modifications, one option
Modify ==
  /\ job = "zone" /\ subject = "read" /\ Cardinality(asked) < MaxAsks
  /\ \E a \in Asks :
       LET t == Parsed(a.option.name, a.value) IN
       /\ \A b \in asked : b.option # a.option
       /\ config' = Modified(config, a.option, t)
       /\ asked' = asked \cup {[option |-> a.option, value |-> t]}
  /\ UNCHANGED <<timing, job, subject, packet, zone>>

\* update_config_area, with a chip that does as it is told
WriteBack ==
  /\ job = "zone" /\ subject = "read"
  /\ LET written == {execute("WRITE", 0, i, FourBytes, RspSizeMax) : i \in ChangedWords(config, zone)} IN
     zone' = [i \in DOMAIN zone |->
                IF \E p \in written : i \div 4 = p.param2 THEN config[i] ELSE zone[i]]
  /\ subject' = "written"
  /\ UNCHANGED <<timing, job, packet, config, asked>>

CommandsNext == Marshal \/ Sent \/ Timing \/ ReadZone \/ Modify \/ WriteBack
CommandsSpec == CommandsInit /\ [][CommandsNext]_allVars

-----------------------------------------------------------------------------
(* Properties *)

\* The pieces of data a script would give for the command of a call, and its second
\* parameter: Read and Write are given an address in bytes, execute the number of a word
Lens(c) ==
  CASE c.op = "CHECKMAC" -> <<32, 32, 13>>
    [] c.op = "DERIVE_KEY" /\ c.given -> ThirtyTwo
    [] c.op = "GENDIG" /\ c.given -> FourBytes
    [] c.op = "MAC" /\ c.param1 % 2 = 0 -> ThirtyTwo
    [] c.op = "NONCE" -> <<IF c.param1 = 3 THEN 32 ELSE 20, 0, 0>>
    [] c.op = "WRITE" -> <<IF c.param1 >= 128 THEN 32 ELSE 4, IF c.given THEN 32 ELSE 0, 0>>
    [] c.op = "SHA" /\ c.param1 = 1 -> <<64, 0, 0>>
    [] OTHER -> NoData
Param2(c) ==
  CASE c.op \in {"READ", "WRITE"} -> c.param2 \div 4
    [] c.op \in {"RANDOM", "DEVREV", "NONCE", "PAUSE", "SHA"} -> 0
    [] OTHER -> c.param2
Param1(c) == IF c.op \in {"RANDOM", "DEVREV"} THEN 0 ELSE c.param1

\* Both ways to a command lead to the same packet and expect the same response: every
\* function of the library, wherever it lays its data, sends what execute would send
\* for them (but that Random's mode is lost, and an address in a zone that does not exist
\* is cut short); no packet is longer than the longest command; and every request of the
\* scripts, which nobody checks on its way, is one that the function for its command
\* would not refuse.
WrappersAgree ==
  (packet # BadParam) =>
    /\ packet.count <= CmdSizeMax
    /\ (job = "call" /\ ~(subject.op \in {"READ", "WRITE"} /\ Zone(subject.param1) = "none")) =>
         packet = execute(subject.op, Param1(subject), Param2(subject), Lens(subject), RspSizeMax)
    /\ job = "request" =>
         \E address \in {subject.param2, 4 * subject.param2} :
           packet = Wrapper([op |-> subject.op, param1 |-> subject.param1, param2 |-> address,
                             given |-> subject.lens # NoData /\ subject.op # "WRITE"])

\* receive_response and check_crc let the buffer pass.
Passes(buffer) == buffer[1] \in RspSizeMin..Len(buffer) /\ check_crc(buffer)

\* The bits lie in `part` and no more than 16 apart.
BurstIn(bits, part) == bits \subseteq part /\ \A a, b \in bits : a - b < 16

\* Damage that leaves the count alone: an odd number of bits, two bits, a burst within the
\* data, or one within the CRC. Damage to the count, where no longer answer is expected.
Noticeable(r) ==
  LET counting == 0..7
      data == 8..(8 * (r.sent - 2) - 1)
      crc == (8 * (r.sent - 2))..(8 * r.sent - 1)
      n == Cardinality(r.bits) IN
  IF r.bits \cap counting = {}
    THEN n % 2 = 1 \/ n = 2 \/ (n > 0 /\ (BurstIn(r.bits, data) \/ BurstIn(r.bits, crc)))
    ELSE Len(r.buffer) = RspSizeMin

\* A response that arrives as it was sent passes, and none that was damaged in one of these
\* ways does. No more is promised: the CRC is sent in the other order of bits than it is
\* computed in, so a burst across its border may pass; and it is found by the count, so a
\* response whose count was damaged may pass as a shorter or longer one.
DamageNoticed ==
  job = "crc" =>
    /\ subject.bits = {} => Passes(subject.buffer)
    /\ Noticeable(subject) => ~Passes(subject.buffer)

\* The bytes an option lies in
Place(o) ==
  CASE o.name = "I2Cenable" -> {14} [] o.name = "I2Caddress" -> {16}
    [] o.name = "OTPmode" -> {18} [] o.name = "SelectorMode" -> {19}
    [] o.name \in {"WriteKey", "WriteConfig"} -> {slot_addr(o.slot) + 1}
    [] o.name \in Flags \cup {"ReadKey"} -> {slot_addr(o.slot)}
    [] o.name = "UseFlag" -> {useflag_addr(o.slot)}
    [] o.name = "UpdateCount" -> {useflag_addr(o.slot) + 1}
    [] o.name = "KeyUse" -> 68..83
Wishes == {a \in asked : a.value # NoValue}

\* The prompt and the script read the zone as it is; the options change no byte but their
\* own; and the words written back make the chip's zone what the script expects it to be
\* when it locks it.
ZoneAsExpected ==
  /\ (job = "zone" /\ subject = "read") =>
       \A i \in DOMAIN zone : config[i] # zone[i] => \E a \in Wishes : i \in Place(a.option)
  /\ (job = "zone" /\ subject = "written") => zone = config

\* Both displays show every option as personalize.ini asks for it, and everything else,
\* the other half of the same byte among it, as it was.
ShownAsAsked ==
  (job = "zone" /\ subject = "read") =>
    \A o \in Options \cup Others :
      /\ ScriptShows(config, o) =
           IF \E a \in Wishes : a.option = o
             THEN Wanted(o, (CHOOSE a \in Wishes : a.option = o).value)
             ELSE ScriptShows(zone, o)
      /\ FirmwareShowsIt(config, o) => FirmwareShows(config, o) = ScriptShows(config, o)
=============================================================================
