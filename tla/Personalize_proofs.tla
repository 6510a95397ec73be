-------------------------- MODULE Personalize_proofs --------------------------
(***************************************************************************)
(* The safety properties of Personalize, proved for any number of words,   *)
(* slots, keys and mishaps.                                                *)
(***************************************************************************)
EXTENDS Personalize, TLAPS

InLockData == {"keysIni", "random", "openFile", "writeFile", "slots", "otp1", "otp2", "lockData"}

\* lock_data goes on only with a chip whose data zone is still open, and nobody
\* but lock_data closes it.
StillOpen == pc \in InLockData => configLocked /\ ~dataLocked

\* From the moment keys.ini is written, it holds the keys being installed.
OnFile == pc \in {"slots", "otp1", "otp2", "lockData"} => keysFile = keys

SafeInv == TypeOK /\ StillOpen /\ OnFile /\ LockedKeysOnFile /\ LockedAsWanted

\* A factory-fresh chip is safe.
LEMMA InitSafe == Init => SafeInv
<1> SUFFICES ASSUME Init PROVE SafeInv
  OBVIOUS
<1>1. TypeOK
  <2>1. changed \in 0..Words /\ mishaps \in Nat
    BY WordsAssumption DEF Init
  <2>2. printed \subseteq Messages /\ todo \subseteq Slots /\ config \subseteq AllWords
    BY DEF Init
  <2> QED
    BY <2>1, <2>2 DEF Init, TypeOK, Points
<1>2. StillOpen /\ OnFile /\ LockedKeysOnFile /\ LockedAsWanted
  BY DEF Init, StillOpen, OnFile, LockedKeysOnFile, LockedAsWanted, InLockData
<1> QED
  BY <1>1, <1>2 DEF SafeInv

\* The three messages the script prints
LEMMA MessagesAre ==
  "config locked" \in Messages /\ "data locked" \in Messages /\ "personalized" \in Messages
  BY DEF Messages

\* No step of the script, of the user or of misfortune makes it unsafe.
LEMMA StepsSafe ==
  ASSUME SafeInv, [Next]_vars
  PROVE  SafeInv'
<1> USE DEF SafeInv, TypeOK, StillOpen, OnFile, LockedKeysOnFile, LockedAsWanted, InLockData, Points
<1>1. CASE StartSome
  BY <1>1, CommandsAssumption DEF StartSome, Start, chip
<1>2. CASE Main
  BY <1>2 DEF Main, Smooth, Stays, ReadFails, Mishap, Exit, chip
<1>3. CASE Announce
  BY <1>3, MessagesAre DEF Announce, Stays, Exit, chip
<1>4. CASE ConfigRead
  BY <1>4, WordsAssumption DEF ConfigRead, Smooth, Stays, ReadFails, Mishap, Exit, chip
<1>5. CASE UpdateConfig
  <2>1. PICK reply \in {"0", "other", "error"} :
          \/ UNCHANGED chip
          \/ /\ ~configLocked /\ config' = config \cup {changed + 1}
             /\ UNCHANGED <<configLocked, slots, otpZone, dataLocked>>
    BY <1>5 DEF UpdateConfig, MoreWords, Proceeds, Transaction, Withheld, chip
  <2>2. changed' \in 0..Words /\ changed + 1 \in AllWords /\ mishaps' \in Nat
    BY <1>5, WordsAssumption DEF UpdateConfig, MoreWords, Proceeds, Transaction, Withheld, Smooth, Mishap, AllWords
  <2>3. pc' \in {"update", "exited"} /\ UNCHANGED <<command, dryRun, randomKeys, sawDataLocked, keys,
                                                    todo, otp, printed, keysFile>>
    BY <1>5 DEF UpdateConfig, Proceeds, Stays, Exit
  <2> QED
    BY <2>1, <2>2, <2>3 DEF chip
<1>6. CASE UpdateDone
  BY <1>6 DEF UpdateDone, Stays, chip
<1>7. CASE VerifyConfig
  BY <1>7 DEF VerifyConfig, Smooth, Stays, ReadFails, Mishap, Exit, chip
<1>8. CASE LockConfig
  <2>1. \/ UNCHANGED chip
        \/ config = AllWords /\ configLocked' = TRUE /\ UNCHANGED <<config, slots, otpZone, dataLocked>>
    BY <1>8 DEF LockConfig, Proceeds, Transaction, Withheld, chip
  <2>2. mishaps' = mishaps \/ mishaps' = mishaps + 1
    BY <1>8 DEF LockConfig, Proceeds, Transaction, Withheld, Smooth, Mishap
  <2>7. printed' \subseteq Messages
    BY <1>8, MessagesAre DEF LockConfig
  <2>3. pc' \in {"announce", "dataRead", "exited"}
    BY <1>8 DEF LockConfig, Proceeds
  <2>4. UNCHANGED <<command, dryRun, randomKeys, sawDataLocked, changed, keys, todo, otp, keysFile>>
    BY <1>8 DEF LockConfig, Stays
  <2>5. mishaps' \in Nat
    BY <2>2
  <2>6. TypeOK'
    BY <2>1, <2>7, <2>3, <2>4, <2>5 DEF chip
  <2> QED
    BY <2>1, <2>3, <2>4, <2>6 DEF chip
<1>9. CASE DataRead
  BY <1>9 DEF DataRead, MayLockData, Smooth, Stays, ReadFails, Mishap, Exit, chip
<1>10. CASE KeysIni
  BY <1>10 DEF KeysIni, Missing, Stays, chip
<1>11. CASE DrawKey
  <2>1. keys' \in [Slots -> Keys \cup {NoKey}] /\ todo' \subseteq Slots
    BY <1>11 DEF DrawKey, ReadFails, Stays
  <2>2. mishaps' \in Nat
    BY <1>11 DEF DrawKey, Smooth, Mishap, ReadFails
  <2>3. /\ pc' \in {"random", "exited"} /\ pc = "random"
        /\ UNCHANGED <<command, dryRun, randomKeys, sawDataLocked, changed, otp, printed, keysFile, chip>>
    BY <1>11 DEF DrawKey, Stays, ReadFails, Exit
  <2> QED
    BY <2>1, <2>2, <2>3 DEF chip
<1>12. CASE AllDrawn
  BY <1>12 DEF AllDrawn, Stays, chip
<1>13. CASE OpenFile
  BY <1>13 DEF OpenFile, chip
<1>14. CASE WriteFile
  BY <1>14 DEF WriteFile, chip
<1>15. CASE WriteSlot
  <2>1. \/ UNCHANGED chip
        \/ /\ ~dataLocked /\ slots' \in [Slots -> Keys \cup {NoKey}]
           /\ UNCHANGED <<config, configLocked, otpZone, dataLocked>>
    BY <1>15 DEF WriteSlot, Proceeds, Transaction, Withheld, DataWritable, chip
  <2>2. mishaps' = mishaps \/ mishaps' = mishaps + 1
    BY <1>15 DEF WriteSlot, Proceeds, Transaction, Withheld, Smooth, Mishap
  <2>3. pc = "slots" /\ pc' \in {"slots", "exited"} /\ todo' \subseteq Slots
    BY <1>15 DEF WriteSlot, Proceeds, Exit
  <2>4. UNCHANGED <<command, dryRun, randomKeys, sawDataLocked, changed, keys, otp, printed, keysFile>>
    BY <1>15 DEF WriteSlot, Stays
  <2>5. mishaps' \in Nat
    BY <2>2
  <2>6. TypeOK'
    BY <2>1, <2>3, <2>4, <2>5 DEF chip
  <2> QED
    BY <2>1, <2>3, <2>4, <2>6 DEF chip
<1>16. CASE ComposeOtp
  BY <1>16 DEF ComposeOtp, Stays, chip
<1>17. CASE WriteOtpArea
  BY <1>17 DEF WriteOtpArea, WriteOtp, Proceeds, Transaction, Withheld, DataWritable, Smooth, Mishap, Stays, chip
<1>18. CASE LockData
  <2>1. \/ UNCHANGED chip
        \/ /\ configLocked /\ slots = keys /\ otpZone = [h \in {1, 2} |-> otp] /\ dataLocked' = TRUE
           /\ UNCHANGED <<config, configLocked, slots, otpZone>>
    BY <1>18 DEF LockData, Proceeds, Transaction, Withheld, DataWritable, SummaryMatches, chip
  <2>2. mishaps' = mishaps \/ mishaps' = mishaps + 1
    BY <1>18 DEF LockData, Proceeds, Transaction, Withheld, Smooth, Mishap
  <2>7. printed' \subseteq Messages
    BY <1>18, MessagesAre DEF LockData
  <2>3. pc = "lockData" /\ pc' \in {"announce", "exited"}
    BY <1>18 DEF LockData, Proceeds
  <2>4. UNCHANGED <<command, dryRun, randomKeys, sawDataLocked, changed, keys, todo, otp, keysFile>>
    BY <1>18 DEF LockData, Stays
  <2>5. mishaps' \in Nat
    BY <2>2
  <2>6. TypeOK'
    BY <2>1, <2>7, <2>3, <2>4, <2>5 DEF chip
  <2>8. CASE UNCHANGED chip
    BY <2>3, <2>4, <2>6, <2>8 DEF chip
  <2>9. CASE ~UNCHANGED chip
    <3>1. /\ configLocked /\ slots = keys /\ otpZone = [h \in {1, 2} |-> otp] /\ dataLocked' = TRUE
          /\ UNCHANGED <<config, configLocked, slots, otpZone>>
      BY <2>1, <2>9
    <3>2. otpZone'[1] = otp /\ otpZone'[2] = otp
      BY <3>1
    <3>3. LockedKeysOnFile' /\ LockedAsWanted'
      BY <2>3, <2>4, <3>1, <3>2
    <3> QED
      BY <2>3, <2>6, <3>3
  <2> QED
    BY <2>8, <2>9
<1>19. CASE Interrupt
  BY <1>19 DEF Interrupt, Mishap, Exit, chip
<1>20. CASE UNCHANGED vars
  BY <1>20 DEF vars, script, chip
<1> QED
  BY <1>1, <1>2, <1>3, <1>4, <1>5, <1>6, <1>7, <1>8, <1>9, <1>10, <1>11, <1>12, <1>13, <1>14,
     <1>15, <1>16, <1>17, <1>18, <1>19, <1>20 DEF Next, Steps

\* The inductive invariant holds throughout.
LEMMA SpecSafe == Spec => []SafeInv
<1>1. SafeInv /\ [Next]_vars => SafeInv'
  BY StepsSafe
<1> QED
  BY <1>1, InitSafe, PTL DEF Spec

(***************************************************************************)
(* Every variable keeps its type.                                          *)
(***************************************************************************)
THEOREM TypeCorrect == Spec => []TypeOK
<1>1. SafeInv => TypeOK
  BY DEF SafeInv
<1> QED
  BY <1>1, SpecSafe, PTL

(***************************************************************************)
(* However often the script is interrupted and started again, and whatever *)
(* commands and replies are lost, a chip is locked only with the keys that *)
(* keys.ini holds, and keys.ini is not changed afterwards.                 *)
(***************************************************************************)
THEOREM KeysOnFile == Spec => []LockedKeysOnFile
<1>1. SafeInv => LockedKeysOnFile
  BY DEF SafeInv
<1> QED
  BY <1>1, SpecSafe, PTL

(***************************************************************************)
(* A zone is locked only with the contents it should have.                 *)
(***************************************************************************)
THEOREM AsWanted == Spec => []LockedAsWanted
<1>1. SafeInv => LockedAsWanted
  BY DEF SafeInv
<1> QED
  BY <1>1, SpecSafe, PTL

(***************************************************************************)
(* A run with --dry-run never changes the chip.                            *)
(***************************************************************************)
THEOREM DryRunSafe == Spec => DryRunChangesNothing
<1>1. [Next]_vars => [dryRun /\ dryRun' => UNCHANGED chip]_vars
  <2> SUFFICES ASSUME Next, dryRun, dryRun'
               PROVE  UNCHANGED chip
    OBVIOUS
  <2>1. CASE UpdateConfig
    BY <2>1 DEF UpdateConfig, MoreWords, Proceeds, Transaction, Withheld, chip
  <2>2. CASE LockConfig
    BY <2>2 DEF LockConfig, Proceeds, Transaction, Withheld, chip
  <2>3. CASE WriteSlot
    BY <2>3 DEF WriteSlot, Proceeds, Transaction, Withheld, chip
  <2>4. CASE WriteOtpArea
    BY <2>4 DEF WriteOtpArea, WriteOtp, Proceeds, Transaction, Withheld, chip
  <2>5. CASE LockData
    BY <2>5 DEF LockData, Proceeds, Transaction, Withheld, chip
  <2>6. CASE StartSome
    BY <2>6 DEF StartSome, Start, chip
  <2>7. CASE Interrupt
    BY <2>7 DEF Interrupt, chip
  <2>8. CASE Main \/ Announce \/ ConfigRead \/ UpdateDone \/ VerifyConfig
    BY <2>8 DEF Main, Announce, ConfigRead, UpdateDone, VerifyConfig, Stays, ReadFails, chip
  <2>9. CASE DataRead \/ KeysIni \/ DrawKey \/ AllDrawn \/ OpenFile \/ WriteFile \/ ComposeOtp
    BY <2>9 DEF DataRead, MayLockData, KeysIni, DrawKey, AllDrawn, OpenFile, WriteFile, ComposeOtp, Stays,
                ReadFails, chip
  <2> QED
    BY <2>1, <2>2, <2>3, <2>4, <2>5, <2>6, <2>7, <2>8, <2>9 DEF Next, Steps
<1> QED
  BY <1>1, PTL DEF Spec, DryRunChangesNothing

-----------------------------------------------------------------------------
\* Nobody gives --dry-run, and no lost command is answered as if it had succeeded.
InEarnest == DryRuns = {FALSE} /\ ~Silent

\* A run in earnest gets to its last message only past a locked chip.
Truthful ==
  /\ ~dryRun
  /\ sawDataLocked => dataLocked
  /\ pc = "announce" => configLocked /\ dataLocked
  /\ PersonalizedMeansLocked

\* Locks stay locked; a Lock whose reply the script accepts was carried out.
LEMMA StepsTruthful ==
  ASSUME InEarnest, SafeInv, Truthful, [Next]_vars
  PROVE  Truthful'
<1> USE DEF InEarnest, Truthful, PersonalizedMeansLocked
<1>1. CASE StartSome
  BY <1>1, CommandsAssumption DEF StartSome, Start, chip
<1>2. CASE Main
  BY <1>2 DEF Main, Stays, ReadFails, Exit, chip, SafeInv, TypeOK
<1>3. CASE Announce
  BY <1>3 DEF Announce, Stays, Exit, chip
<1>4. CASE ConfigRead \/ UpdateDone \/ VerifyConfig
  BY <1>4 DEF ConfigRead, UpdateDone, VerifyConfig, Stays, ReadFails, Exit, chip
<1>5. CASE UpdateConfig
  BY <1>5 DEF UpdateConfig, Transaction, Stays, Exit, chip
<1>6. CASE LockConfig
  <2>1. /\ configLocked' = TRUE \/ configLocked' = configLocked
        /\ UNCHANGED <<dryRun, sawDataLocked, dataLocked>>
    BY <1>6 DEF LockConfig, Transaction, Stays, chip
  <2>2. pc' = "announce" => configLocked' = TRUE /\ sawDataLocked
    BY <1>6 DEF LockConfig, Transaction, Withheld, Proceeds, chip
  <2>3. printed' = printed \/ \A m \in printed' : m \in printed \/ m = "config locked"
    BY <1>6 DEF LockConfig
  <2>4. "personalized" \in printed' => "personalized" \in printed
    BY <2>3
  <2> QED BY <2>1, <2>2, <2>4
<1>7. CASE DataRead \/ KeysIni \/ DrawKey \/ AllDrawn \/ OpenFile \/ WriteFile \/ ComposeOtp
  BY <1>7 DEF DataRead, KeysIni, DrawKey, AllDrawn, OpenFile, WriteFile, ComposeOtp, Stays, ReadFails, Exit, chip
<1>8. CASE WriteSlot
  BY <1>8 DEF WriteSlot, Transaction, Stays, Exit, chip
<1>9. CASE WriteOtpArea
  BY <1>9 DEF WriteOtpArea, WriteOtp, Transaction, Stays, chip
<1>10. CASE LockData
  <2>1. /\ dataLocked' = TRUE \/ dataLocked' = dataLocked
        /\ UNCHANGED <<dryRun, sawDataLocked, configLocked>>
    BY <1>10 DEF LockData, Transaction, Stays, chip
  <2>2. pc' = "announce" => configLocked /\ dataLocked' = TRUE
    BY <1>10 DEF LockData, Transaction, Withheld, Proceeds, DataWritable, chip
  <2>3. printed' = printed \/ \A m \in printed' : m \in printed \/ m = "data locked"
    BY <1>10 DEF LockData
  <2>4. "personalized" \in printed' => "personalized" \in printed
    BY <2>3
  <2> QED BY <2>1, <2>2, <2>4
<1>11. CASE Interrupt
  BY <1>11 DEF Interrupt, Exit, chip
<1>12. CASE UNCHANGED vars
  BY <1>12 DEF vars, script, chip
<1> QED
  BY <1>1, <1>2, <1>3, <1>4, <1>5, <1>6, <1>7, <1>8, <1>9, <1>10, <1>11, <1>12 DEF Next, Steps

(***************************************************************************)
(* Without dry runs, and where no lost command is taken for done, the      *)
(* script prints "personalized" only for a chip whose zones are locked,    *)
(* although it does not look at what the two Lock commands returned.       *)
(***************************************************************************)
THEOREM LockedWhenPersonalized ==
  ASSUME InEarnest
  PROVE  Spec => []PersonalizedMeansLocked
<1>1. Init => Truthful
  BY DEF Init, Truthful, PersonalizedMeansLocked
<1>2. SafeInv /\ Truthful /\ [Next]_vars => Truthful'
  BY StepsTruthful
<1>3. Truthful => PersonalizedMeansLocked
  BY DEF Truthful
<1> QED
  BY <1>1, <1>2, <1>3, SpecSafe, PTL DEF Spec
=============================================================================
