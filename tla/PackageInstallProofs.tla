------------------------ MODULE PackageInstallProofs ------------------------
(***************************************************************************)
(* Proofs about PackageInstall, for packages of any number of files.       *)
(***************************************************************************)
EXTENDS PackageInstall, TLAPS

-----------------------------------------------------------------------------
(* The inductive invariant.                                                *)

DiskTyped ==
    /\ existed \subseteq Files
    /\ install \in [Files -> Contents]
    /\ staged \in [Files -> {"new", "other", "none"}]
    /\ backup \in [Files -> {"old", "other", "none"}]
    /\ journal \subseteq Files
    /\ dirs \subseteq Folders /\ created \subseteq Folders
    /\ changed \subseteq Files /\ added \subseteq Files /\ damaged \subseteq Files

MemoryTyped ==
    /\ pc \in {"stage", "check", "folders", "apply", "start", "rollback", "over"}
    /\ at \in 0..N /\ (pc \in {"stage", "apply", "start"} => at # 0)
    /\ touched \subseteq Files
    /\ tries \in 0..2
    /\ told \in {"nothing", "failed", "restored", "incomplete", "updated"}

FlagsTyped == failed \in BOOLEAN /\ finished \in BOOLEAN

\* The parts of TypeOK, one for each prover.
LEMMA TypeParts ==
    /\ TypeOK <=> DiskTyped /\ MemoryTyped /\ FlagsTyped
    /\ TypeOK' <=> DiskTyped' /\ MemoryTyped' /\ FlagsTyped'
BY DEF TypeOK, DiskTyped, MemoryTyped, FlagsTyped

Preparing == pc \in {"stage", "check", "folders"}

\* Where the updater is agrees with what it has told and finished.
PhaseOK ==
    /\ Preparing => touched = {} /\ created = {}
    /\ pc # "over" => ~finished /\ told # "updated"
    /\ pc \notin {"rollback", "over"} => tries = 0
    /\ pc \in {"check", "folders"} => at = 1
    /\ told = "updated" => finished
    /\ pc = "over" /\ told \in {"failed", "restored"} =>
          finished /\ created \cap dirs = {}
    /\ finished /\ told # "updated" => touched = {}

\* The transaction is whole until it is rolled back.
Kept == finished => told = "updated"

\* The list has every file that may be touched, and their backups.
BackedUp ==
    /\ pc = "stage" => journal = 1..(at - 1)
    /\ Kept /\ pc # "stage" => journal = Files
    /\ Kept => \A f \in (journal \cap existed) \ damaged : backup[f] = "old"
    /\ \A f \in Files \ damaged : backup[f] # "other"

\* What the update has not touched is as before.
UntouchedIsBefore ==
    \A f \in Files \ (changed \cup touched) : install[f] = Before(f)

\* What has been passed is in place, or not touched any more.
Passed ==
    /\ pc = "apply" => \A f \in Files \ changed : f < at => install[f] = "new"
    /\ pc = "start" => \A f \in Files \ changed : install[f] = "new"
    /\ pc = "rollback" /\ ~failed => \A f \in touched : f <= at

AddedIsLeft ==
    /\ AddedIsKept
    /\ added \cap (touched \cup existed) = {}

Inductive ==
    /\ TypeOK
    /\ PhaseOK
    /\ BackedUp
    /\ UntouchedIsBefore
    /\ Passed
    /\ UpdatedMeansNew
    /\ AddedIsLeft

-----------------------------------------------------------------------------
LEMMA InitInductive == Init => Inductive
<1> SUFFICES ASSUME Init PROVE Inductive
  OBVIOUS
<1> USE PackageAssumption DEF Init, Files, Before
<1>1. TypeOK
  <2>1. DiskTyped
    BY DEF DiskTyped, Contents
  <2>2. MemoryTyped
    BY DEF MemoryTyped
  <2>3. FlagsTyped
    BY DEF FlagsTyped
  <2> QED BY <2>1, <2>2, <2>3, TypeParts
<1>2. PhaseOK /\ Passed
  BY DEF PhaseOK, Passed, Preparing
<1>3. BackedUp /\ UntouchedIsBefore
  BY DEF BackedUp, UntouchedIsBefore, Kept
<1>4. UpdatedMeansNew /\ AddedIsLeft
  BY DEF UpdatedMeansNew, AddedIsLeft, AddedIsKept
<1> QED BY <1>1, <1>2, <1>3, <1>4 DEF Inductive

\* What the constructor's steps preserve.
LEMMA StageStep == Inductive /\ (Stage \/ StageFails) => Inductive'
<1> SUFFICES ASSUME Inductive, Stage \/ StageFails
             PROVE  Inductive'
  OBVIOUS
<1>0. DiskTyped /\ MemoryTyped /\ FlagsTyped /\ PhaseOK /\ BackedUp
      /\ UntouchedIsBefore /\ Passed
      /\ UpdatedMeansNew /\ AddedIsLeft
  BY TypeParts DEF Inductive
<1> USE <1>0, PackageAssumption DEF Unseen, history
<1>1. CASE Stage
  <2> USE <1>1 DEF Stage
  <2>1. TypeOK'
    <3>1. DiskTyped'
      BY DEF DiskTyped, MemoryTyped, Files, Contents, Before
    <3>2. MemoryTyped'
      BY DEF MemoryTyped, DiskTyped, Files, PhaseOK
    <3>3. FlagsTyped'
      BY DEF FlagsTyped
    <3> QED BY <3>1, <3>2, <3>3, TypeParts
  <2>2. PhaseOK'
    BY DEF PhaseOK, Preparing, DiskTyped, MemoryTyped
  <2>3. BackedUp'
    BY DEF BackedUp, Kept, PhaseOK, Preparing, DiskTyped, MemoryTyped, Files, Before
  <2>4. UntouchedIsBefore'
    BY DEF UntouchedIsBefore, DiskTyped, MemoryTyped, Before, PhaseOK, Preparing
  <2>5. Passed'
    BY DEF Passed, DiskTyped, MemoryTyped, Files, PhaseOK, Preparing, UntouchedIsBefore
  <2>6. UpdatedMeansNew'
    BY DEF UpdatedMeansNew, DiskTyped, MemoryTyped, Passed, PhaseOK
  <2>7. AddedIsLeft'
    BY DEF AddedIsLeft, AddedIsKept, DiskTyped, MemoryTyped
  <2> QED BY <2>1, <2>2, <2>3, <2>4, <2>5, <2>6, <2>7 DEF Inductive
<1>2. CASE StageFails
  <2> USE <1>2 DEF StageFails, Discard
  <2>1. TypeOK'
    <3>1. DiskTyped'
      BY DEF DiskTyped, MemoryTyped, Files, Contents, Before
    <3>2. MemoryTyped'
      BY DEF MemoryTyped, DiskTyped, Files, PhaseOK
    <3>3. FlagsTyped'
      BY DEF FlagsTyped
    <3> QED BY <3>1, <3>2, <3>3, TypeParts
  <2>2. PhaseOK'
    BY DEF PhaseOK, Preparing, DiskTyped, MemoryTyped
  <2>3. BackedUp'
    BY DEF BackedUp, Kept, PhaseOK, Preparing, DiskTyped, MemoryTyped, Files, Before
  <2>4. UntouchedIsBefore'
    BY DEF UntouchedIsBefore, DiskTyped, MemoryTyped, Before, PhaseOK, Preparing
  <2>5. Passed'
    BY DEF Passed, DiskTyped, MemoryTyped, Files, PhaseOK, Preparing, UntouchedIsBefore
  <2>6. UpdatedMeansNew'
    BY DEF UpdatedMeansNew, DiskTyped, MemoryTyped, Passed, PhaseOK
  <2>7. AddedIsLeft'
    BY DEF AddedIsLeft, AddedIsKept, DiskTyped, MemoryTyped
  <2> QED BY <2>1, <2>2, <2>3, <2>4, <2>5, <2>6, <2>7 DEF Inductive
<1> QED BY <1>1, <1>2

\* What the steps of Apply preserve.
LEMMA ApplyStep == Inductive /\ (Check \/ MakeFolders \/ Put \/ PutFails) => Inductive'
<1> SUFFICES ASSUME Inductive, Check \/ MakeFolders \/ Put \/ PutFails
             PROVE  Inductive'
  OBVIOUS
<1>0. DiskTyped /\ MemoryTyped /\ FlagsTyped /\ PhaseOK /\ BackedUp
      /\ UntouchedIsBefore /\ Passed
      /\ UpdatedMeansNew /\ AddedIsLeft
  BY TypeParts DEF Inductive
<1> USE <1>0, PackageAssumption DEF Unseen, history
<1>1. CASE Check
  <2> USE <1>1 DEF Check, StartRollback, Last, disk
  <2>1. TypeOK'
    <3>1. DiskTyped'
      BY DEF DiskTyped, MemoryTyped, Files, Contents, Before
    <3>2. MemoryTyped'
      BY DEF MemoryTyped, DiskTyped, Files, PhaseOK
    <3>3. FlagsTyped'
      BY DEF FlagsTyped
    <3> QED BY <3>1, <3>2, <3>3, TypeParts
  <2>2. PhaseOK'
    BY DEF PhaseOK, Preparing, DiskTyped, MemoryTyped
  <2>3. BackedUp'
    BY DEF BackedUp, Kept, PhaseOK, Preparing, DiskTyped, MemoryTyped, Files, Before
  <2>4. UntouchedIsBefore'
    BY DEF UntouchedIsBefore, DiskTyped, MemoryTyped, Before, PhaseOK, Preparing
  <2>5. Passed'
    BY DEF Passed, DiskTyped, MemoryTyped, Files, PhaseOK, Preparing, UntouchedIsBefore
  <2>6. UpdatedMeansNew'
    BY DEF UpdatedMeansNew, DiskTyped, MemoryTyped, Passed, PhaseOK
  <2>7. AddedIsLeft'
    BY DEF AddedIsLeft, AddedIsKept, DiskTyped, MemoryTyped
  <2> QED BY <2>1, <2>2, <2>3, <2>4, <2>5, <2>6, <2>7 DEF Inductive
<1>2. CASE MakeFolders
  <2> USE <1>2 DEF MakeFolders, StartRollback, Last
  <2>1. TypeOK'
    <3>1. DiskTyped'
      BY DEF DiskTyped, MemoryTyped, Files, Contents, Before
    <3>2. MemoryTyped'
      BY DEF MemoryTyped, DiskTyped, Files, PhaseOK
    <3>3. FlagsTyped'
      BY DEF FlagsTyped
    <3> QED BY <3>1, <3>2, <3>3, TypeParts
  <2>2. PhaseOK'
    BY DEF PhaseOK, Preparing, DiskTyped, MemoryTyped
  <2>3. BackedUp'
    BY DEF BackedUp, Kept, PhaseOK, Preparing, DiskTyped, MemoryTyped, Files, Before
  <2>4. UntouchedIsBefore'
    BY DEF UntouchedIsBefore, DiskTyped, MemoryTyped, Before, PhaseOK, Preparing
  <2>5. Passed'
    BY DEF Passed, DiskTyped, MemoryTyped, Files, PhaseOK, Preparing, UntouchedIsBefore
  <2>6. UpdatedMeansNew'
    BY DEF UpdatedMeansNew, DiskTyped, MemoryTyped, Passed, PhaseOK
  <2>7. AddedIsLeft'
    BY DEF AddedIsLeft, AddedIsKept, DiskTyped, MemoryTyped
  <2> QED BY <2>1, <2>2, <2>3, <2>4, <2>5, <2>6, <2>7 DEF Inductive
<1>3. CASE Put
  <2> USE <1>3 DEF Put, InPlace, StartRollback, Last
  <2>1. TypeOK'
    <3>1. DiskTyped'
      BY DEF DiskTyped, MemoryTyped, Files, Contents, Before
    <3>2. MemoryTyped'
      BY DEF MemoryTyped, DiskTyped, Files, PhaseOK
    <3>3. FlagsTyped'
      BY DEF FlagsTyped
    <3> QED BY <3>1, <3>2, <3>3, TypeParts
  <2>2. PhaseOK'
    BY DEF PhaseOK, Preparing, DiskTyped, MemoryTyped
  <2>3. BackedUp'
    BY DEF BackedUp, Kept, PhaseOK, Preparing, DiskTyped, MemoryTyped, Files, Before
  <2>4. UntouchedIsBefore'
    BY DEF UntouchedIsBefore, DiskTyped, MemoryTyped, Before, PhaseOK, Preparing
  <2>5. Passed'
    BY DEF Passed, DiskTyped, MemoryTyped, Files, PhaseOK, Preparing, UntouchedIsBefore
  <2>6. UpdatedMeansNew'
    BY DEF UpdatedMeansNew, DiskTyped, MemoryTyped, Passed, PhaseOK
  <2>7. AddedIsLeft'
    BY DEF AddedIsLeft, AddedIsKept, DiskTyped, MemoryTyped
  <2> QED BY <2>1, <2>2, <2>3, <2>4, <2>5, <2>6, <2>7 DEF Inductive
<1>4. CASE PutFails
  <2> USE <1>4 DEF PutFails, TouchedByFailure, StartRollback, Last
  <2>1. TypeOK'
    <3>1. DiskTyped'
      BY DEF DiskTyped, MemoryTyped, Files, Contents, Before
    <3>2. MemoryTyped'
      BY DEF MemoryTyped, DiskTyped, Files, PhaseOK
    <3>3. FlagsTyped'
      BY DEF FlagsTyped
    <3> QED BY <3>1, <3>2, <3>3, TypeParts
  <2>2. PhaseOK'
    BY DEF PhaseOK, Preparing, DiskTyped, MemoryTyped
  <2>3. BackedUp'
    BY DEF BackedUp, Kept, PhaseOK, Preparing, DiskTyped, MemoryTyped, Files, Before
  <2>4. UntouchedIsBefore'
    BY DEF UntouchedIsBefore, DiskTyped, MemoryTyped, Before, PhaseOK, Preparing
  <2>5. Passed'
    BY DEF Passed, DiskTyped, MemoryTyped, Files, PhaseOK, Preparing, UntouchedIsBefore
  <2>6. UpdatedMeansNew'
    BY DEF UpdatedMeansNew, DiskTyped, MemoryTyped, Passed, PhaseOK
  <2>7. AddedIsLeft'
    BY DEF AddedIsLeft, AddedIsKept, DiskTyped, MemoryTyped
  <2> QED BY <2>1, <2>2, <2>3, <2>4, <2>5, <2>6, <2>7 DEF Inductive
<1> QED BY <1>1, <1>2, <1>3, <1>4

\* Keeping the update, or beginning to roll it back.
LEMMA StartStep == Inductive /\ (Started \/ StartFails) => Inductive'
<1> SUFFICES ASSUME Inductive, Started \/ StartFails
             PROVE  Inductive'
  OBVIOUS
<1>0. DiskTyped /\ MemoryTyped /\ FlagsTyped /\ PhaseOK /\ BackedUp
      /\ UntouchedIsBefore /\ Passed
      /\ UpdatedMeansNew /\ AddedIsLeft
  BY TypeParts DEF Inductive
<1> USE <1>0, PackageAssumption DEF Unseen, history
<1>1. CASE Started
  <2> USE <1>1 DEF Started
  <2>1. TypeOK'
    <3>1. DiskTyped'
      BY DEF DiskTyped, MemoryTyped, Files, Contents, Before
    <3>2. MemoryTyped'
      BY DEF MemoryTyped, DiskTyped, Files, PhaseOK
    <3>3. FlagsTyped'
      BY DEF FlagsTyped
    <3> QED BY <3>1, <3>2, <3>3, TypeParts
  <2>2. PhaseOK'
    BY DEF PhaseOK, Preparing, DiskTyped, MemoryTyped
  <2>3. BackedUp'
    BY DEF BackedUp, Kept, PhaseOK, Preparing, DiskTyped, MemoryTyped, Files, Before
  <2>4. UntouchedIsBefore'
    BY DEF UntouchedIsBefore, DiskTyped, MemoryTyped, Before, PhaseOK, Preparing
  <2>5. Passed'
    BY DEF Passed, DiskTyped, MemoryTyped, Files, PhaseOK, Preparing, UntouchedIsBefore
  <2>6. UpdatedMeansNew'
    BY DEF UpdatedMeansNew, DiskTyped, MemoryTyped, Passed, PhaseOK
  <2>7. AddedIsLeft'
    BY DEF AddedIsLeft, AddedIsKept, DiskTyped, MemoryTyped
  <2> QED BY <2>1, <2>2, <2>3, <2>4, <2>5, <2>6, <2>7 DEF Inductive
<1>2. CASE StartFails
  <2> USE <1>2 DEF StartFails, StartRollback, Last, disk
  <2>1. TypeOK'
    <3>1. DiskTyped'
      BY DEF DiskTyped, MemoryTyped, Files, Contents, Before
    <3>2. MemoryTyped'
      BY DEF MemoryTyped, DiskTyped, Files, PhaseOK
    <3>3. FlagsTyped'
      BY DEF FlagsTyped
    <3> QED BY <3>1, <3>2, <3>3, TypeParts
  <2>2. PhaseOK'
    BY DEF PhaseOK, Preparing, DiskTyped, MemoryTyped
  <2>3. BackedUp'
    BY DEF BackedUp, Kept, PhaseOK, Preparing, DiskTyped, MemoryTyped, Files, Before
  <2>4. UntouchedIsBefore'
    BY DEF UntouchedIsBefore, DiskTyped, MemoryTyped, Before, PhaseOK, Preparing
  <2>5. Passed'
    BY DEF Passed, DiskTyped, MemoryTyped, Files, PhaseOK, Preparing, UntouchedIsBefore
  <2>6. UpdatedMeansNew'
    BY DEF UpdatedMeansNew, DiskTyped, MemoryTyped, Passed, PhaseOK
  <2>7. AddedIsLeft'
    BY DEF AddedIsLeft, AddedIsKept, DiskTyped, MemoryTyped
  <2> QED BY <2>1, <2>2, <2>3, <2>4, <2>5, <2>6, <2>7 DEF Inductive
<1> QED BY <1>1, <1>2

\* A file that is rolled back, or not, and then the folders.
LEMMA RollBackStep == Inductive /\ (RollBackFile \/ RollBackFolders) => Inductive'
<1> SUFFICES ASSUME Inductive, RollBackFile \/ RollBackFolders
             PROVE  Inductive'
  OBVIOUS
<1>0. DiskTyped /\ MemoryTyped /\ FlagsTyped /\ PhaseOK /\ BackedUp
      /\ UntouchedIsBefore /\ Passed
      /\ UpdatedMeansNew /\ AddedIsLeft
  BY TypeParts DEF Inductive
<1> USE <1>0, PackageAssumption DEF Unseen, history
<1>1. CASE RollBackFile
  <2> USE <1>1 DEF RollBackFile, Leave, Restore, Remove, NotRestored
  <2>1. TypeOK'
    <3>1. DiskTyped'
      BY DEF DiskTyped, MemoryTyped, Files, Contents, Before
    <3>2. at' \in 0..N /\ touched' \subseteq touched
      BY DEF MemoryTyped
    <3>3. MemoryTyped'
      BY <3>2 DEF MemoryTyped
    <3>4. FlagsTyped'
      BY DEF FlagsTyped
    <3> QED BY <3>1, <3>3, <3>4, TypeParts
  <2>2. PhaseOK'
    BY DEF PhaseOK, Preparing, DiskTyped, MemoryTyped
  <2>3. BackedUp'
    BY DEF BackedUp, Kept, PhaseOK, Preparing, DiskTyped, MemoryTyped, Files, Before
  <2>4. UntouchedIsBefore'
    BY DEF UntouchedIsBefore, DiskTyped, MemoryTyped, Before, PhaseOK, Preparing
  <2>5. Passed'
    <3>1. CASE failed'
      BY <3>1 DEF Passed
    <3>2. CASE ~failed'
      <4>1. ~failed /\ touched' = touched \ {at}
        BY <3>2
      <4>2. \A f \in touched : f \in Int /\ f <= at
        BY <4>1 DEF Passed, MemoryTyped, Files
      <4>3. \A f \in touched' : f <= at'
        BY <4>1, <4>2 DEF MemoryTyped
      <4> QED BY <4>3 DEF Passed
    <3> QED BY <3>1, <3>2
  <2>6. UpdatedMeansNew'
    BY DEF UpdatedMeansNew, DiskTyped, MemoryTyped, Passed, PhaseOK
  <2>7. AddedIsLeft'
    BY DEF AddedIsLeft, AddedIsKept, DiskTyped, MemoryTyped
  <2> QED BY <2>1, <2>2, <2>3, <2>4, <2>5, <2>6, <2>7 DEF Inductive
<1>2. CASE RollBackFolders
  <2> USE <1>2 DEF RollBackFolders, Complete, Discard, Last
  <2>0. ~failed => touched = {}
    BY DEF Passed, MemoryTyped, Files
  <2>1. TypeOK'
    <3>1. DiskTyped'
      BY DEF DiskTyped, MemoryTyped, Files, Contents, Before
    <3>2. MemoryTyped'
      BY DEF MemoryTyped, DiskTyped, Files, PhaseOK
    <3>3. FlagsTyped'
      BY DEF FlagsTyped
    <3> QED BY <3>1, <3>2, <3>3, TypeParts
  <2>2. PhaseOK'
    BY <2>0 DEF PhaseOK, Preparing, DiskTyped, MemoryTyped
  <2>3. BackedUp'
    BY DEF BackedUp, Kept, PhaseOK, Preparing, DiskTyped, MemoryTyped, Files, Before
  <2>4. UntouchedIsBefore'
    BY DEF UntouchedIsBefore, DiskTyped, MemoryTyped, Before, PhaseOK, Preparing
  <2>5. Passed'
    BY DEF Passed, DiskTyped, MemoryTyped, Files, PhaseOK, Preparing, UntouchedIsBefore
  <2>6. UpdatedMeansNew'
    BY DEF UpdatedMeansNew, DiskTyped, MemoryTyped, Passed, PhaseOK
  <2>7. AddedIsLeft'
    BY DEF AddedIsLeft, AddedIsKept, DiskTyped, MemoryTyped
  <2> QED BY <2>1, <2>2, <2>3, <2>4, <2>5, <2>6, <2>7 DEF Inductive
<1> QED BY <1>1, <1>2

\* What others do to the files.
LEMMA OthersStep ==
    ASSUME NEW f \in Files, Inductive,
           \/ ChangeInstalled(f) \/ DeleteInstalled(f)
           \/ ChangeStaged(f) \/ ChangeBackup(f)
    PROVE  Inductive'
<1>0. DiskTyped /\ MemoryTyped /\ FlagsTyped /\ PhaseOK /\ BackedUp
      /\ UntouchedIsBefore /\ Passed
      /\ UpdatedMeansNew /\ AddedIsLeft
  BY TypeParts DEF Inductive
<1> USE <1>0, PackageAssumption DEF Others, memory, history, ChangeInstalled, DeleteInstalled,
        ChangeStaged, ChangeBackup
<1>1. TypeOK'
  <2>1. DiskTyped'
    BY DEF DiskTyped, MemoryTyped, Files, Contents, Before
  <2>2. MemoryTyped'
    BY DEF MemoryTyped, DiskTyped, Files, PhaseOK
  <2>3. FlagsTyped'
    BY DEF FlagsTyped
  <2> QED BY <2>1, <2>2, <2>3, TypeParts
<1>2. PhaseOK'
  BY DEF PhaseOK, Preparing, DiskTyped, MemoryTyped
<1>3. BackedUp'
  BY DEF BackedUp, Kept, PhaseOK, Preparing, DiskTyped, MemoryTyped, Files, Before
<1>4. UntouchedIsBefore'
  BY DEF UntouchedIsBefore, DiskTyped, MemoryTyped, Before, PhaseOK, Preparing
<1>5. Passed'
  BY ZenonT(40) DEF Passed, DiskTyped, MemoryTyped, Files, PhaseOK, Preparing, UntouchedIsBefore
<1>6. UpdatedMeansNew'
  BY DEF UpdatedMeansNew, DiskTyped, MemoryTyped, Passed, PhaseOK
<1>7. AddedIsLeft'
  BY DEF AddedIsLeft, AddedIsKept, DiskTyped, MemoryTyped
<1> QED BY <1>1, <1>2, <1>3, <1>4, <1>5, <1>6, <1>7 DEF Inductive

LEMMA InductiveStep == Inductive /\ [Next]_vars => Inductive'
<1> SUFFICES ASSUME Inductive, [Next]_vars PROVE Inductive'
  OBVIOUS
<1>1. CASE Updater
  BY <1>1, StageStep, ApplyStep, StartStep, RollBackStep DEF Updater
<1>2. CASE \E f \in Files : \/ ChangeInstalled(f) \/ DeleteInstalled(f)
                            \/ ChangeStaged(f) \/ ChangeBackup(f)
  BY <1>2, OthersStep
<1>3. CASE UNCHANGED vars
  BY <1>3 DEF vars, disk, memory, history, Inductive, TypeOK, PhaseOK, Preparing,
     Kept, BackedUp, UntouchedIsBefore, Passed, UpdatedMeansNew, AddedIsLeft,
     AddedIsKept, Before
<1> QED BY <1>1, <1>2, <1>3 DEF Next

\* The inductive invariant holds in every behaviour.
THEOREM InductiveInvariant == Spec => []Inductive
BY InitInductive, InductiveStep, PTL DEF Spec

-----------------------------------------------------------------------------
(* The theorems.                                                           *)

\* The variables have their types, in the transaction and in memory.
THEOREM TypeCorrect == Spec => []TypeOK
<1>1. Inductive => TypeOK
  BY DEF Inductive
<1> QED BY <1>1, InductiveInvariant, PTL

\* Wherever the updater stops, the installed files are as before or can be made so
\* with files.txt and the backups: no package is too large for that.
THEOREM AlwaysRecoverable == Spec => []RecoverableByHand
<1>1. Inductive => RecoverableByHand
  <2> SUFFICES ASSUME Inductive, NEW f \in Files \ (changed \cup damaged)
               PROVE  ByHand(f) = Before(f)
    BY DEF RecoverableByHand
  <2> USE DEF Inductive, ByHand, Before
  <2>1. CASE f \in journal /\ f \in existed /\ Kept
    BY <2>1 DEF BackedUp
  <2>2. CASE f \in journal /\ f \in existed /\ ~Kept
    BY <2>2 DEF BackedUp, Kept, PhaseOK, UntouchedIsBefore, TypeOK
  <2>3. CASE f \in journal /\ f \notin existed
    BY <2>3
  <2>4. CASE f \notin journal /\ pc = "stage"
    BY <2>4 DEF PhaseOK, Preparing, UntouchedIsBefore
  <2>5. CASE f \notin journal /\ pc # "stage"
    BY <2>5 DEF PhaseOK, Kept, BackedUp, UntouchedIsBefore
  <2> QED BY <2>1, <2>2, <2>3, <2>4, <2>5
<1> QED BY <1>1, InductiveInvariant, PTL

\* The updater never says that an update left nothing behind when it did.
THEOREM RestoredIsTrue == Spec => []RestoredMeansBefore
<1>1. Inductive => RestoredMeansBefore
  BY DEF Inductive, RestoredMeansBefore, PhaseOK, UntouchedIsBefore
<1> QED BY <1>1, InductiveInvariant, PTL

\* The updater never says that an update is complete when a file is missing.
THEOREM UpdatedIsTrue == Spec => []UpdatedMeansNew
<1>1. Inductive => UpdatedMeansNew
  BY DEF Inductive
<1> QED BY <1>1, InductiveInvariant, PTL

\* What others add is left alone.
THEOREM AddedStays == Spec => []AddedIsKept
<1>1. Inductive => AddedIsKept
  BY DEF Inductive, AddedIsLeft
<1> QED BY <1>1, InductiveInvariant, PTL
=============================================================================
