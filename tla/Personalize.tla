----------------------------- MODULE Personalize -----------------------------
(***************************************************************************)
(* talk_to_sha204.py: lock_config, lock_data and personalize, the commands *)
(* that write an ATSHA204's configuration, keys and OTP area and lock them *)
(* for good, with what they keep on disk (keys.ini).                       *)
(*                                                                         *)
(* Every do_transaction is one step: the command takes effect or not, and  *)
(* the script gets the chip's reply or an error, on which it exits. The    *)
(* script may be interrupted before any step and be started again, with    *)
(* other options. Between the script and the chip lies CommandChannel:     *)
(* a command may take effect although its reply is lost, and, if Silent,   *)
(* a lost command may be answered as if it had succeeded (with the status  *)
(* byte 0x11 that the firmware found in the chip's output buffer).         *)
(***************************************************************************)
EXTENDS Integers, FiniteSets

CONSTANTS
  Words,        \* how many words of the config zone the script changes
  Slots,        \* the key slots
  Keys,         \* 32-byte keys
  Otps,         \* OTP contents: they depend on the date the script runs
  Commands,     \* the commands the user gives
  DryRuns,      \* the values of --dry-run the user gives, a subset of BOOLEAN
  Silent,       \* a command may be lost unnoticed
  MaxMishaps    \* lost commands, lost replies and interruptions in a behaviour

ASSUME WordsAssumption == Words \in Nat
ASSUME CommandsAssumption ==
  /\ Commands \subseteq {"lock_config", "lock_data", "personalize"}
  /\ DryRuns \subseteq BOOLEAN
  /\ Silent \in BOOLEAN
ASSUME SlotsAssumption == IsFiniteSet(Slots) /\ Keys # {} /\ Otps # {}
ASSUME MishapsAssumption == MaxMishaps \in Nat

\* Neither a factory-fresh slot, nor an option missing from keys.ini, nor the
\* single byte a stale reply to Random leaves there, is a 32-byte key.
NoKey == "no key"
ASSUME NoKeyAssumption == NoKey \notin Keys /\ NoKey \notin Otps

VARIABLES
  pc,           \* where the script is
  command,      \* args.command
  dryRun,       \* args.dry_run
  randomKeys,   \* args.random_keys
  sawDataLocked,\* config_area['DataOTPlocked'] as personalize read it
  changed,      \* update_config_area: how many words are written or left alone
  keys,         \* lock_data: keys
  todo,         \* lock_data: the slots still to be filled or written
  otp,          \* lock_data: the OTP contents to be written
  printed,      \* what this run of the script told the user
  keysFile,     \* keys.ini: the options Slot0..Slot15
  config,       \* the chip's config zone: the words that have the wanted value
  configLocked, \* its lock byte 87
  slots,        \* the chip's data zone
  otpZone,      \* the chip's OTP zone: its two halves
  dataLocked,   \* its lock byte 86
  mishaps       \* counts what went wrong

script == <<pc, command, dryRun, randomKeys, sawDataLocked, changed, keys, todo, otp, printed>>
chip == <<config, configLocked, slots, otpZone, dataLocked>>
vars == <<script, keysFile, chip, mishaps>>

Points == {"exited", "main", "configRead", "update", "verify", "lockConfig",
           "dataRead", "keysIni", "random", "openFile", "writeFile", "slots",
           "otp1", "otp2", "lockData", "announce"}

AllWords == 1..Words
Messages == {"config locked", "data locked", "personalized"}

TypeOK ==
  /\ pc \in Points
  /\ command \in {"none"} \cup Commands
  /\ dryRun \in BOOLEAN /\ randomKeys \in BOOLEAN /\ sawDataLocked \in BOOLEAN
  /\ changed \in 0..Words
  /\ keys \in [Slots -> Keys \cup {NoKey}] /\ todo \subseteq Slots
  /\ otp \in Otps
  /\ printed \subseteq Messages
  /\ keysFile \in [Slots -> Keys \cup {NoKey}]
  /\ config \subseteq AllWords /\ configLocked \in BOOLEAN
  /\ slots \in [Slots -> Keys \cup {NoKey}]
  /\ otpZone \in [{1, 2} -> Otps \cup {NoKey}]
  /\ dataLocked \in BOOLEAN
  /\ mishaps \in Nat

\* A factory-fresh chip, some of whose words may happen to be as wanted, and
\* whatever keys the user wrote to keys.ini.
Init ==
  /\ pc = "exited" /\ command = "none"
  /\ dryRun = FALSE /\ randomKeys = FALSE /\ sawDataLocked = FALSE
  /\ changed = 0
  /\ keys = [s \in Slots |-> NoKey] /\ todo = {}
  /\ otp \in Otps
  /\ printed = {}
  /\ keysFile \in [Slots -> Keys \cup {NoKey}]
  /\ config \in SUBSET AllWords /\ configLocked = FALSE
  /\ slots = [s \in Slots |-> NoKey]
  /\ otpZone = [h \in {1, 2} |-> NoKey]
  /\ dataLocked = FALSE
  /\ mishaps = 0

-----------------------------------------------------------------------------
(* do_transaction *)

Mishap == mishaps < MaxMishaps /\ mishaps' = mishaps + 1
Smooth == UNCHANGED mishaps

\* mutant: locks are sent all the same
WithheldWritesOnly(opcode) == dryRun /\ opcode = "write"

\* The commands a dry run does not send (the script uses no UpdateExtra)
Withheld(opcode) == dryRun /\ opcode \in {"write", "lock"}

\* How a command that changes the chip may end. Accepted: whether the chip
\* carries it out; Effect: what that does to the chip. reply is the byte the
\* script sees, 0 for OK, or "error" for a TransactionError.
Transaction(opcode, Accepted, Effect, reply) ==
  \/ /\ Withheld(opcode)
     /\ reply = "0" /\ Smooth /\ UNCHANGED chip
  \/ /\ ~Withheld(opcode) /\ Smooth
     /\ IF Accepted THEN Effect /\ reply = "0" ELSE UNCHANGED chip /\ reply = "error"
  \/ /\ ~Withheld(opcode) /\ Mishap
     /\ \/ Accepted /\ Effect /\ reply = "error"
        \/ UNCHANGED chip /\ reply = "error"
        \/ UNCHANGED chip /\ reply = "other" /\ Silent

Exit == pc' = "exited"

\* mutant: an error is swallowed
ProceedsRegardless(reply) == TRUE

\* Every TransactionError ends the script; the byte of a reply is not looked at.
Proceeds(reply) == reply # "error"

\* A command that reads: the script sees the chip's state or exits. (A stale
\* reply is too short: it ends the script with an IndexError.)
ReadFails ==
  /\ Mishap /\ Exit
  /\ UNCHANGED <<command, dryRun, randomKeys, sawDataLocked, changed, keys, todo, otp, printed,
                 keysFile, chip>>

Stays(script_rest) == UNCHANGED <<script_rest, command, dryRun, randomKeys, keysFile>>

-----------------------------------------------------------------------------
(* The user *)

Start(c, dry, rnd) ==
  /\ pc = "exited"
  /\ command' = c /\ dryRun' = dry /\ randomKeys' = rnd
  /\ pc' = CASE c = "lock_config" -> "configRead"
             [] c = "lock_data" -> "dataRead"
             [] c = "personalize" -> "main"
  /\ printed' = {}
  /\ UNCHANGED <<sawDataLocked, changed, keys, todo, otp, keysFile, chip, mishaps>>

Interrupt ==
  /\ pc # "exited"
  /\ Mishap /\ Exit
  /\ UNCHANGED <<command, dryRun, randomKeys, sawDataLocked, changed, keys, todo, otp, printed,
                 keysFile, chip>>

-----------------------------------------------------------------------------
(* personalize *)

Main ==
  /\ pc = "main"
  /\ \/ /\ Smooth
        /\ sawDataLocked' = dataLocked
        /\ pc' = CASE ~configLocked -> "configRead"
                   [] configLocked /\ ~dataLocked -> "dataRead"
                   [] OTHER -> "announce"
        /\ Stays(<<changed, keys, todo, otp, printed, chip>>)
     \/ ReadFails

Announce ==
  /\ pc = "announce"
  /\ printed' = printed \cup {"personalized"}
  /\ Exit
  /\ Stays(<<sawDataLocked, changed, keys, todo, otp, chip, mishaps>>)

-----------------------------------------------------------------------------
(* lock_config *)

ConfigRead ==
  /\ pc = "configRead"
  /\ \/ /\ Smooth
        /\ pc' = IF configLocked THEN "exited" ELSE "update"
        /\ changed' = 0
        /\ Stays(<<sawDataLocked, keys, todo, otp, printed, chip>>)
     \/ ReadFails

\* mutant: a word too many
OneWordTooMany == changed <= Words

MoreWords == changed < Words

\* update_config_area, word by word: only a word that differs is written, and
\* what write_config_word returns is not looked at.
UpdateConfig ==
  /\ pc = "update" /\ MoreWords
  /\ \/ /\ changed + 1 \in config
        /\ changed' = changed + 1 /\ UNCHANGED <<pc, mishaps, chip>>
     \/ /\ changed + 1 \notin config
        /\ \E reply \in {"0", "other", "error"} :
             /\ Transaction("write", ~configLocked,
                            /\ config' = config \cup {changed + 1}
                            /\ UNCHANGED <<configLocked, slots, otpZone, dataLocked>>,
                            reply)
             /\ IF Proceeds(reply) THEN changed' = changed + 1 /\ UNCHANGED pc
                ELSE Exit /\ UNCHANGED changed
  /\ Stays(<<sawDataLocked, keys, todo, otp, printed>>)

UpdateDone ==
  /\ pc = "update" /\ ~MoreWords
  /\ pc' = "verify"
  /\ Stays(<<sawDataLocked, changed, keys, todo, otp, printed, chip, mishaps>>)

\* do_lock_config_area: read the zone back before locking it.
VerifyConfig ==
  /\ pc = "verify"
  /\ \/ /\ Smooth
        /\ pc' = IF config = AllWords THEN "lockConfig" ELSE "exited"
        /\ Stays(<<sawDataLocked, changed, keys, todo, otp, printed, chip>>)
     \/ ReadFails

\* The chip compares the CRC of what the script expects with its zone.
LockConfig ==
  /\ pc = "lockConfig"
  /\ \E reply \in {"0", "other", "error"} :
       /\ Transaction("lock", ~configLocked /\ config = AllWords,
                      configLocked' = TRUE /\ UNCHANGED <<config, slots, otpZone, dataLocked>>,
                      reply)
       /\ printed' = IF reply = "0" THEN printed \cup {"config locked"} ELSE printed
       /\ pc' = IF Proceeds(reply) /\ command = "personalize"
                  THEN IF sawDataLocked THEN "announce" ELSE "dataRead"
                  ELSE "exited"
  /\ Stays(<<sawDataLocked, changed, keys, todo, otp>>)

-----------------------------------------------------------------------------
(* lock_data *)

\* mutant: the lock byte of the data zone is not looked at
MayLockAgain == configLocked

MayLockData == configLocked /\ ~dataLocked

DataRead ==
  /\ pc = "dataRead"
  /\ \/ /\ Smooth
        /\ pc' = IF MayLockData THEN "keysIni" ELSE "exited"
        /\ Stays(<<sawDataLocked, changed, keys, todo, otp, printed, chip>>)
     \/ ReadFails

\* mutant: keys that are not on file are not replaced
MissingNothing(ks) == {}

\* Of the keys of keys.ini, those still to be drawn
Missing(ks) == {s \in Slots : ks[s] = NoKey}

\* Keys on file are kept unless --random-keys is given; an option that is not a
\* 32-byte key counts as missing.
KeysIni ==
  /\ pc = "keysIni"
  /\ keys' = IF randomKeys THEN [s \in Slots |-> NoKey] ELSE keysFile
  /\ todo' = Missing(keys')
  /\ pc' = "random"
  /\ Stays(<<sawDataLocked, changed, otp, printed, chip, mishaps>>)

\* The missing ones are drawn by the chip, even in a dry run. A stale reply is
\* taken for a key.
DrawKey ==
  /\ pc = "random" /\ todo # {}
  /\ \/ \E s \in todo :
          /\ todo' = todo \ {s}
          /\ \/ Smooth /\ \E k \in Keys : keys' = [keys EXCEPT ![s] = k]
             \/ Silent /\ Mishap /\ UNCHANGED keys
          /\ Stays(<<pc, sawDataLocked, changed, otp, printed, chip>>)
     \/ ReadFails

AllDrawn ==
  /\ pc = "random" /\ todo = {}
  /\ pc' = "openFile"
  /\ Stays(<<sawDataLocked, changed, keys, todo, otp, printed, chip, mishaps>>)

\* open(args.keys_file, 'w') empties the file before anything is written.
OpenFile ==
  /\ pc = "openFile"
  /\ keysFile' = [s \in Slots |-> NoKey]
  /\ pc' = "writeFile"
  /\ UNCHANGED <<command, dryRun, randomKeys, sawDataLocked, changed, keys, todo, otp, printed,
                 chip, mishaps>>

WriteFile ==
  /\ pc = "writeFile"
  /\ keysFile' = keys
  /\ todo' = Slots
  /\ pc' = "slots"
  /\ UNCHANGED <<command, dryRun, randomKeys, sawDataLocked, changed, keys, otp, printed,
                 chip, mishaps>>

DataWritable == configLocked /\ ~dataLocked

\* write_data_slot refuses what is not 32 bytes long; what it returns is not
\* looked at.
WriteSlot ==
  /\ pc = "slots" /\ todo # {}
  /\ \E s \in todo :
       \/ /\ keys[s] = NoKey
          /\ Exit /\ UNCHANGED <<todo, chip, mishaps>>
       \/ /\ keys[s] # NoKey
          /\ \E reply \in {"0", "other", "error"} :
               /\ Transaction("write", DataWritable,
                              /\ slots' = [slots EXCEPT ![s] = keys[s]]
                              /\ UNCHANGED <<config, configLocked, otpZone, dataLocked>>,
                              reply)
               /\ IF Proceeds(reply) THEN todo' = todo \ {s} /\ UNCHANGED pc
                  ELSE Exit /\ UNCHANGED todo
  /\ Stays(<<sawDataLocked, changed, keys, otp, printed>>)

\* The OTP contents carry the date of this run.
ComposeOtp ==
  /\ pc = "slots" /\ todo = {}
  /\ otp' \in Otps
  /\ pc' = "otp1"
  /\ Stays(<<sawDataLocked, changed, keys, todo, printed, chip, mishaps>>)

WriteOtp(half, next) ==
  /\ \E reply \in {"0", "other", "error"} :
       /\ Transaction("write", DataWritable,
                      /\ otpZone' = [otpZone EXCEPT ![half] = otp]
                      /\ UNCHANGED <<config, configLocked, slots, dataLocked>>,
                      reply)
       /\ pc' = IF Proceeds(reply) THEN next ELSE "exited"
  /\ Stays(<<sawDataLocked, changed, keys, todo, otp, printed>>)

WriteOtpArea ==
  \/ pc = "otp1" /\ WriteOtp(1, "otp2")
  \/ pc = "otp2" /\ WriteOtp(2, "lockData")

\* mutant: the zone is locked with LOCK_ZONE_NO_CRC
NoSummary == TRUE

\* The chip compares the CRC over the keys and the OTP contents sent with its
\* zones: it locks exactly what the script believes to be there.
SummaryMatches == slots = keys /\ otpZone = [h \in {1, 2} |-> otp]

LockData ==
  /\ pc = "lockData"
  /\ \E reply \in {"0", "other", "error"} :
       /\ Transaction("lock", DataWritable /\ SummaryMatches,
                      dataLocked' = TRUE /\ UNCHANGED <<config, configLocked, slots, otpZone>>,
                      reply)
       /\ printed' = IF reply = "0" THEN printed \cup {"data locked"} ELSE printed
       /\ pc' = IF Proceeds(reply) /\ command = "personalize" THEN "announce" ELSE "exited"
  /\ Stays(<<sawDataLocked, changed, keys, todo, otp>>)

-----------------------------------------------------------------------------
StartSome ==
  \E c \in Commands, dry \in DryRuns, rnd \in BOOLEAN : Start(c, dry, rnd)

Steps ==
  \/ Main \/ Announce
  \/ ConfigRead \/ UpdateConfig \/ UpdateDone \/ VerifyConfig \/ LockConfig
  \/ DataRead \/ KeysIni \/ DrawKey \/ AllDrawn \/ OpenFile \/ WriteFile
  \/ WriteSlot \/ ComposeOtp \/ WriteOtpArea \/ LockData

Next == StartSome \/ Steps \/ Interrupt

Spec == Init /\ [][Next]_vars

\* A running script runs on (nothing it waits for is unbounded: the serial port
\* has a timeout), and a user whose script has ended starts it again.
FairSpec == Spec /\ WF_vars(Steps) /\ WF_vars(StartSome)

-----------------------------------------------------------------------------
(* Properties *)

(***************************************************************************)
(* The keys of a locked chip are the keys on file: whatever is lost or     *)
(* interrupted, no chip is ever locked with a key the user cannot know, and*)
(* the file of a locked chip is never overwritten.                         *)
(***************************************************************************)
LockedKeysOnFile == dataLocked => slots = keysFile

(***************************************************************************)
(* A zone is locked only with the contents it should have: every word of   *)
(* the configuration as wanted, both halves of the OTP area of one run,    *)
(* and the data zone only after the configuration.                         *)
(***************************************************************************)
LockedAsWanted ==
  /\ configLocked => config = AllWords
  /\ dataLocked => configLocked /\ otpZone[1] \in Otps /\ otpZone[1] = otpZone[2]

(***************************************************************************)
(* A dry run never changes the chip.                                       *)
(***************************************************************************)
DryRunChangesNothing == [][dryRun /\ dryRun' => UNCHANGED chip]_vars

(***************************************************************************)
(* "personalized" is printed only for a chip that is locked.               *)
(***************************************************************************)
PersonalizedMeansLocked == "personalized" \in printed => configLocked /\ dataLocked

(***************************************************************************)
(* No interruption and no loss leaves the chip in a state from which       *)
(* running personalize again does not complete.                            *)
(***************************************************************************)
RerunCompletes == <>(configLocked /\ dataLocked)
=============================================================================
