--------------------------- MODULE PackageInstall ---------------------------
(***************************************************************************)
(* PackageInstall of src/src/update/update_package.cpp and its use by the  *)
(* updater: the files of a release are staged and the installed ones       *)
(* backed up in a transaction directory, then every file is put in place,  *)
(* the new player is started, and all of it is kept or rolled back.        *)
(*                                                                         *)
(* Every call into the file system may fail, files may be changed by       *)
(* others at any time, and the process may be killed at any step: then it  *)
(* just takes no further one.  A content is "old" or "new", the versions   *)
(* before and after the update, "other" or "none".                         *)
(***************************************************************************)
EXTENDS Integers, FiniteSets

CONSTANTS
    N,         \* number of files in the package, in the order of installation
    Folders,   \* the folders of the package
    Above,     \* the folders a folder is in
    In,        \* the folders a file is in
    MaxOthers  \* bound on what others do to the files

Files == 1..N
Contents == {"old", "new", "other", "none"}

ASSUME PackageAssumption ==
    /\ N \in Nat \ {0}
    /\ Above \in [Folders -> SUBSET Folders]
    /\ In \in [Files -> SUBSET Folders]
    /\ MaxOthers \in Nat

VARIABLES
    existed,  \* the files that were installed before
    install,  \* contents in the installation directory
    staged,   \* contents in new/ of the transaction
    backup,   \* contents in backup/ of the transaction
    journal,  \* the files that files.txt lists
    dirs,     \* the folders of the package that exist
    created,  \* created: those that this update has made
    pc,       \* what the updater does
    at,       \* the file it has come to
    touched,  \* files[i].touched
    failed,   \* a step of the rollback in progress failed
    tries,    \* rollbacks begun: the call, then the destructor
    finished, \* finished
    told,     \* what the updater tells the user
    changed,  \* history: installed files that others have changed
    added,    \* history: files that others have added before the update did
    damaged   \* history: backups that others have changed

disk == <<install, staged, backup, journal, dirs>>
memory == <<created, pc, at, touched, failed, tries, finished, told>>
history == <<changed, added, damaged>>
vars == <<existed, disk, memory, history>>

Before(f) == IF f \in existed THEN "old" ELSE "none"
Closed(S) == \A d \in S : Above[d] \subseteq S

Init ==
    /\ existed \in SUBSET Files
    /\ install = [f \in Files |-> Before(f)]
    /\ staged = [f \in Files |-> "none"]
    /\ backup = [f \in Files |-> "none"]
    /\ journal = {}
    /\ dirs \in SUBSET Folders /\ Closed(dirs)
    /\ \A f \in existed : In[f] \subseteq dirs
    /\ created = {}
    /\ pc = "stage" /\ at = 1
    /\ touched = {} /\ failed = FALSE /\ tries = 0
    /\ finished = FALSE /\ told = "nothing"
    /\ changed = {} /\ added = {} /\ damaged = {}

Unseen == UNCHANGED <<existed, history>>

-----------------------------------------------------------------------------
(* The constructor.                                                        *)

\* remove_all of the transaction, whose errors are ignored.
Discard ==
    /\ \E K \in SUBSET Files :
          backup' = [f \in Files |-> IF f \in K THEN backup[f] ELSE "none"]
    /\ journal' \in {journal, {}}
    /\ staged' = [f \in Files |-> "none"]

\* The next file is copied to new/, its installed version to backup/, both are
\* compared with the checksums taken before, and the list gets its line.
Stage ==
    /\ pc = "stage"
    /\ install[at] = Before(at)
    /\ staged' = [staged EXCEPT ![at] = "new"]
    /\ backup' = [backup EXCEPT ![at] = Before(at)]
    /\ journal' = journal \cup {at}
    /\ IF at = N THEN pc' = "check" /\ at' = 1 ELSE pc' = pc /\ at' = at + 1
    /\ UNCHANGED <<install, dirs, created, touched, failed, tries, finished, told>>
    /\ Unseen

\* Staging fails: the constructor throws, and no destructor runs.
StageFails ==
    /\ pc = "stage"
    /\ Discard
    /\ pc' = "over" /\ finished' = TRUE /\ told' = "failed"
    /\ UNCHANGED <<install, dirs, created, at, touched, failed, tries>>
    /\ Unseen

-----------------------------------------------------------------------------
(* Apply.                                                                  *)

Last == N

\* The exception that leads to Rollback, and what it will tell.
StartRollback(message) ==
    /\ pc' = "rollback" /\ at' = Last
    /\ failed' = FALSE /\ tries' = tries + 1
    /\ told' = message
    /\ UNCHANGED <<created, finished>>

\* Preflight and the second look at the staged files.
Unchanged ==
    \A f \in Files : install[f] = Before(f) /\ staged[f] = "new"

Check ==
    /\ pc = "check"
    /\ \/ /\ Unchanged
          /\ pc' = "folders"
          /\ UNCHANGED <<created, at, failed, tries, finished, told>>
       \/ StartRollback("failed")
    /\ UNCHANGED <<disk, touched>>
    /\ Unseen

\* MakeDirectories for every folder, outer ones first, up to the one that fails.
MakeFolders ==
    /\ pc = "folders"
    /\ \E made \in SUBSET (Folders \ dirs) :
          /\ Closed(dirs \cup made)
          /\ dirs' = dirs \cup made
          /\ created' = created \cup made
          /\ \/ /\ dirs' = Folders
                /\ pc' = "apply"
                /\ UNCHANGED <<at, failed, tries, finished, told>>
             \/ /\ pc' = "rollback" /\ at' = Last
                /\ failed' = FALSE /\ tries' = tries + 1
                /\ told' = "failed"
                /\ UNCHANGED finished
    /\ UNCHANGED <<install, staged, backup, journal, touched>>
    /\ Unseen

InPlace(f) == staged[f] = "new"

\* A file is in place.  ReplaceFile needs the old one, and a new one is moved only
\* where there is none.  What is there is read again: it may be another content, or
\* the reading may fail whatever the content is.
Put ==
    /\ pc = "apply"
    /\ IF at \in existed THEN install[at] # "none" ELSE install[at] = "none"
    /\ install' = [install EXCEPT ![at] = staged[at]]
    /\ staged' = [staged EXCEPT ![at] = "none"]
    /\ touched' = touched \cup {at}
    /\ \/ /\ InPlace(at)
          /\ IF at = N THEN pc' = "start" /\ at' = at ELSE pc' = pc /\ at' = at + 1
          /\ UNCHANGED <<created, failed, tries, finished, told>>
       \/ StartRollback("failed")
    /\ UNCHANGED <<backup, journal, dirs>>
    /\ Unseen

\* Mutant: a replacement that fails is taken for one that did nothing.
MutantUntouched(f) == touched

\* Mutant: a file to be added is marked before it is moved as well.
MutantTouchedFirst(f) == touched \cup {f}

\* A replacement that fails may have done something, a move has not.
TouchedByFailure(f) == IF f \in existed THEN touched \cup {f} ELSE touched

\* ReplaceFile may fail after it has renamed the installed file.
PutFails ==
    /\ pc = "apply"
    /\ \/ install' = install
       \/ at \in existed /\ install' = [install EXCEPT ![at] = "none"]
    /\ touched' = TouchedByFailure(at)
    /\ StartRollback("failed")
    /\ UNCHANGED <<staged, backup, journal, dirs>>
    /\ Unseen

-----------------------------------------------------------------------------
(* The updater starts the new player, and keeps the update or not.         *)

\* Commit
Started ==
    /\ pc = "start"
    /\ pc' = "over" /\ finished' = TRUE /\ told' = "updated"
    /\ staged' = [f \in Files |-> "none"]
    /\ UNCHANGED <<install, backup, journal, dirs, created, at, touched, failed,
                   tries>>
    /\ Unseen

StartFails ==
    /\ pc = "start"
    /\ StartRollback("restored")
    /\ UNCHANGED <<disk, touched>>
    /\ Unseen

-----------------------------------------------------------------------------
(* Rollback.                                                               *)

Leave(f) ==
    /\ f \notin touched
    /\ UNCHANGED <<install, touched, failed>>

\* The installed file is as before, or becomes so from its backup.
Restore(f) ==
    /\ f \in touched /\ f \in existed
    /\ install[f] = "old" \/ backup[f] = "old"
    /\ install' = [install EXCEPT ![f] = "old"]
    /\ touched' = touched \ {f}
    /\ UNCHANGED failed

Remove(f) ==
    /\ f \in touched /\ f \notin existed
    /\ install' = [install EXCEPT ![f] = "none"]
    /\ touched' = touched \ {f}
    /\ UNCHANGED failed

\* The copy or the move fails, or the look at what has just been restored.
NotRestored(f) ==
    /\ f \in touched
    /\ failed' = TRUE
    /\ \/ install' = install
       \/ /\ f \in existed /\ backup[f] = "old"
          /\ install' = [install EXCEPT ![f] = "old"]
    /\ UNCHANGED touched

\* Files are rolled back in reverse order, and one that fails does not stop it.
RollBackFile ==
    /\ pc = "rollback" /\ at # 0
    /\ Leave(at) \/ Restore(at) \/ Remove(at) \/ NotRestored(at)
    /\ at' = at - 1
    /\ UNCHANGED <<staged, backup, journal, dirs, created, pc, tries, finished, told>>
    /\ Unseen

\* The folders that still have something in them.
Holding == {d \in Folders : \E f \in Files : install[f] # "none" /\ d \in In[f]}

\* Mutant: the backups are removed whatever the rollback came to.
MutantDiscardAlways(left) == TRUE

Complete(left) == ~failed /\ left = {}

\* The folders are removed, inner ones first.  A complete rollback removes the
\* transaction too.  The destructor tries once more after one that is not.
RollBackFolders ==
    /\ pc = "rollback" /\ at = 0
    /\ \E left \in SUBSET (created \cap dirs) :
          /\ Holding \cap created \cap dirs \subseteq left
          /\ \A d \in left : Above[d] \cap created \cap dirs \subseteq left
          /\ dirs' = dirs \ (created \ left)
          /\ IF Complete(left)
             THEN /\ Discard
                  /\ pc' = "over" /\ finished' = TRUE
                  /\ UNCHANGED <<at, failed, tries, told>>
             ELSE /\ told' = "incomplete"
                  /\ IF tries = 1
                     THEN /\ pc' = pc /\ at' = Last
                          /\ failed' = FALSE /\ tries' = 2
                     ELSE pc' = "over" /\ UNCHANGED <<at, failed, tries>>
                  /\ UNCHANGED <<staged, backup, journal, finished>>
    /\ UNCHANGED <<install, created, touched>>
    /\ Unseen

-----------------------------------------------------------------------------
(* The others.                                                             *)

Others(f) ==
    /\ pc # "over"
    /\ Cardinality(changed) + Cardinality(damaged) < MaxOthers
    /\ UNCHANGED <<existed, journal, dirs, memory>>

\* An installed file is changed, or one is added in a folder that exists.
ChangeInstalled(f) ==
    /\ Others(f)
    /\ install[f] # "other" /\ In[f] \subseteq dirs
    /\ install' = [install EXCEPT ![f] = "other"]
    /\ changed' = changed \cup {f}
    /\ added' = IF install[f] = "none" /\ f \notin existed \cup touched
                THEN added \cup {f} ELSE added
    /\ UNCHANGED <<staged, backup, damaged>>

DeleteInstalled(f) ==
    /\ Others(f)
    /\ install[f] \in {"old", "new"}
    /\ install' = [install EXCEPT ![f] = "none"]
    /\ changed' = changed \cup {f}
    /\ UNCHANGED <<staged, backup, added, damaged>>

ChangeStaged(f) ==
    /\ Others(f)
    /\ staged[f] = "new"
    /\ staged' = [staged EXCEPT ![f] = "other"]
    /\ UNCHANGED <<install, backup, history>>

ChangeBackup(f) ==
    /\ Others(f)
    /\ backup[f] = "old"
    /\ \E c \in {"other", "none"} : backup' = [backup EXCEPT ![f] = c]
    /\ damaged' = damaged \cup {f}
    /\ UNCHANGED <<install, staged, changed, added>>

Updater ==
    \/ Stage \/ StageFails \/ Check \/ MakeFolders \/ Put \/ PutFails
    \/ Started \/ StartFails \/ RollBackFile \/ RollBackFolders

Next ==
    \/ Updater
    \/ \E f \in Files : \/ ChangeInstalled(f) \/ DeleteInstalled(f)
                       \/ ChangeStaged(f) \/ ChangeBackup(f)

Spec == Init /\ [][Next]_vars

-----------------------------------------------------------------------------
(* Properties.                                                             *)

\* The variables have their types, and a rollback begins at the last file.
TypeOK ==
    /\ existed \subseteq Files
    /\ install \in [Files -> Contents]
    /\ staged \in [Files -> {"new", "other", "none"}]
    /\ backup \in [Files -> {"old", "other", "none"}]
    /\ journal \subseteq Files
    /\ dirs \subseteq Folders /\ created \subseteq Folders
    /\ pc \in {"stage", "check", "folders", "apply", "start", "rollback", "over"}
    /\ at \in 0..N /\ (pc \in {"stage", "apply", "start"} => at # 0)
    /\ touched \subseteq Files
    /\ failed \in BOOLEAN /\ finished \in BOOLEAN
    /\ tries \in 0..2
    /\ told \in {"nothing", "failed", "restored", "incomplete", "updated"}
    /\ changed \subseteq Files /\ added \subseteq Files /\ damaged \subseteq Files

\* What files.txt says to do by hand: a file of the list is restored from backup/,
\* or removed if it was added.
ByHand(f) ==
    IF f \notin journal THEN install[f]
    ELSE IF f \notin existed THEN "none"
    ELSE IF backup[f] # "none" THEN backup[f]
    ELSE install[f]

\* Wherever the updater is killed or gives up, the files are as before, or are so
\* after the steps files.txt gives, for all that nobody else has changed.
RecoverableByHand ==
    \A f \in Files \ (changed \cup damaged) : ByHand(f) = Before(f)

\* When the updater says that an update failed, or that all files are restored, each
\* file is as before and no folder of the update is left.
RestoredMeansBefore ==
    pc = "over" /\ told \in {"failed", "restored"} =>
        /\ \A f \in Files \ changed : install[f] = Before(f)
        /\ created \cap dirs = {}

\* When it says that the update is complete, every file is the one of the package.
UpdatedMeansNew ==
    told = "updated" => \A f \in Files \ changed : install[f] = "new"

\* A file that somebody else put where the package adds one is neither overwritten
\* nor deleted by the rollback.
AddedIsKept == \A f \in added : install[f] = "other"

\* The backup directory that an incomplete rollback names is there.
NamedBackupExists ==
    pc = "over" /\ told = "incomplete" => journal # {}
=============================================================================
