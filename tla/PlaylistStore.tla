---------------------------- MODULE PlaylistStore ----------------------------
(***************************************************************************)
(* The playlist store of src/src/playlist/playlist_store.cpp: the numbered *)
(* list files of the PlayList directory, their temporary files, and the    *)
(* compaction that renumbers them under a transaction marker.              *)
(*                                                                         *)
(* The store is used by the window thread alone; what interleaves with its *)
(* file operations are crashes of the program, after which Load starts     *)
(* from whatever is in the directory.  One action does one file operation. *)
(* A write of a list is atomic, since SaveTtbl itself renames a complete   *)
(* file, and so is that of the marker.  Faults says which operations may   *)
(* fail, and where the program may crash.                                  *)
(*                                                                         *)
(* A list is an identity and a version that grows with every edit.  The    *)
(* save thresholds (five edits, 30 seconds) are a choice of which dirty    *)
(* lists are due.  The active list, external catalogues, titles and the    *)
(* three-digit files of older programs are left out.                       *)
(***************************************************************************)
EXTENDS Integers, Sequences, FiniteSets, SequencesExt, FiniteSetsExt

CONSTANTS
    MaxLists,     \* bound on the lists that exist at a time, and on slots
    MaxVersion,   \* bound on the edits of a list
    Edited,       \* bound on the lists whose contents are edited
    Faults        \* what can go wrong

ASSUME MaxListsAssumption == MaxLists \in Nat \ {0}
ASSUME MaxVersionAssumption == MaxVersion \in Nat
ASSUME EditedAssumption == Edited \subseteq 1 .. MaxLists
ASSUME FaultsAssumption ==
    Faults \subseteq {"crash", "crash_delete", "write", "rename", "recover"}

Lists == 1 .. MaxLists
Versions == 0 .. MaxVersion
Slots == 0 .. MaxLists - 1
None == -1
NoFile == [list |-> 0, version |-> None]
Contents == [list : Lists, version : Versions]
NoMarker == <<>>

VARIABLES
    \* the directory
    file,      \* NNNN.ttbl
    temp,      \* NNNN.ttbl.tmp
    stage,     \* NNNN.ttbl.compact.tmp
    marker,    \* .ttbl-compact: the source slot of each destination
    \* the program
    entries,   \* entries_: slot, content, dirty_edits # 0
    pc, caller,
    at,        \* the entry FlushDirty or CompactSlots has reached
    failed,    \* FlushDirty's result is a failure
    \* ghosts
    saved,     \* version of each list the user was told is saved, or None
    gone       \* lists the user has deleted, and of which a file is left

diskVars == <<file, temp, stage, marker>>
flushVars == <<caller, at, failed>>
ghostVars == <<saved, gone>>
vars == <<diskVars, entries, pc, flushVars, ghostVars>>

Entry(slot, content, dirty) == [slot |-> slot, content |-> content, dirty |-> dirty]
EntrySlots == {entries[i].slot : i \in DOMAIN entries}
EntryLists == {entries[i].content.list : i \in DOMAIN entries}

Init ==
    /\ file = [s \in Slots |-> NoFile]
    /\ temp = file /\ stage = file /\ marker = NoMarker
    /\ entries = <<>> /\ pc = "down"
    /\ caller = "load" /\ at = 1 /\ failed = FALSE
    /\ saved = [l \in Lists |-> None] /\ gone = {}

-----------------------------------------------------------------------------
(* RecoverCompaction, called by Load, FlushDirty and CompactSlots.  It     *)
(* always starts from the top, so its next operation is the first one that *)
(* the directory still needs.                                              *)

Destinations == 0 .. Len(marker) - 1
Source(d) == marker[d + 1]
Displaced == {d \in Destinations : Source(d) # d}

\* Destinations the first loop does not pass over.
MutantKeepExisting == {d \in Displaced : file[d] = NoFile}
MutantStageRequired == Displaced
Unfinished == {d \in Displaced : stage[d] # NoFile \/ file[d] = NoFile}
AllPresent == \A d \in Destinations : file[d] # NoFile

\* Committed source slots beyond the new end, whose files are to be deleted.
MutantNoOldSlots == {}
OldSlots == {Source(d) : d \in Destinations} \ Destinations
Uncleaned == {s \in OldSlots : file[s] # NoFile \/ temp[s] # NoFile}
Unstaged == {d \in Destinations : stage[d] # NoFile}

\* After a failure CompactSlots marks every list dirty, so that it is retried.
MarkAllDirty == entries' = [i \in DOMAIN entries |-> [entries[i] EXCEPT !.dirty = TRUE]]

Return(to) == pc' = to /\ caller' = "load" /\ at' = 1 /\ failed' = FALSE

RecoverReturns(ok) ==
    /\ IF caller \in {"timer", "force"} /\ ok
       THEN pc' = "save" /\ UNCHANGED flushVars
       ELSE Return(CASE caller = "load"          -> "scan"
                     [] caller = "compact" /\ ok -> "flushed"
                     [] OTHER                    -> "idle")
    /\ IF caller = "compact" /\ ~ok THEN MarkAllDirty ELSE UNCHANGED entries

RecoverMove ==
    /\ pc = "recover" /\ Unfinished # {}
    /\ LET d == Min(Unfinished) IN
       /\ stage[d] # NoFile
       /\ file' = [file EXCEPT ![d] = stage[d]]
       /\ stage' = [stage EXCEPT ![d] = NoFile]
    /\ UNCHANGED <<temp, marker, entries, pc, flushVars, ghostVars>>

RecoverMissing ==
    /\ pc = "recover"
    /\ IF Unfinished # {} THEN stage[Min(Unfinished)] = NoFile ELSE ~AllPresent
    /\ RecoverReturns(FALSE)
    /\ UNCHANGED <<diskVars, ghostVars>>

\* The old file goes first, then its .tmp.
RecoverDeleteOld ==
    /\ pc = "recover" /\ Unfinished = {} /\ AllPresent
    /\ \E s \in Uncleaned :
          IF file[s] # NoFile
          THEN file' = [file EXCEPT ![s] = NoFile] /\ UNCHANGED temp
          ELSE temp' = [temp EXCEPT ![s] = NoFile] /\ UNCHANGED file
    /\ UNCHANGED <<stage, marker, entries, pc, flushVars, ghostVars>>

RecoverDeleteStage ==
    /\ pc = "recover" /\ Unfinished = {} /\ AllPresent /\ Uncleaned = {}
    /\ \E d \in Unstaged : stage' = [stage EXCEPT ![d] = NoFile]
    /\ UNCHANGED <<file, temp, marker, entries, pc, flushVars, ghostVars>>

RecoverDone ==
    /\ pc = "recover" /\ Unfinished = {} /\ AllPresent
    /\ Uncleaned = {} /\ Unstaged = {}
    /\ marker' = NoMarker
    /\ RecoverReturns(TRUE)
    /\ UNCHANGED <<file, temp, stage, ghostVars>>

\* Any of the operations above is refused, by a lock or a read-only file.
RecoverRefused ==
    /\ "recover" \in Faults
    /\ pc = "recover" /\ marker # NoMarker
    /\ RecoverReturns(FALSE)
    /\ UNCHANGED <<diskVars, ghostVars>>

RecoverStep ==
    RecoverMove \/ RecoverMissing \/ RecoverDeleteOld \/ RecoverDeleteStage \/ RecoverDone

-----------------------------------------------------------------------------
(* Load.                                                                   *)

Start ==
    /\ pc = "down" /\ pc' = "recover"
    /\ UNCHANGED <<diskVars, entries, flushVars, ghostVars>>

Traces(l) == \E s \in Slots : l \in {file[s].list, temp[s].list, stage[s].list}
FreshLists == {l \in Lists : ~Traces(l) /\ l \notin EntryLists /\ saved[l] = None}
FreshList == Min(FreshLists)
FreshEntry(slot) == Entry(slot, [list |-> FreshList, version |-> 0], TRUE)

\* Load takes an orphan .tmp for the file, and never leaves the catalogue empty.
\* It lists the occupied slots in their order.
InOrder(slots) == \A i, j \in DOMAIN slots : i < j => slots[i] < slots[j]

Scan ==
    /\ pc = "scan"
    /\ file' = [s \in Slots |-> IF file[s] = NoFile THEN temp[s] ELSE file[s]]
    /\ temp' = [s \in Slots |-> IF file[s] = NoFile THEN NoFile ELSE temp[s]]
    /\ LET Loaded(l) == {file'[s].version : s \in {r \in Slots : file'[r].list = l}}
       IN  saved' = [l \in Lists |-> IF Loaded(l) = {} THEN saved[l] ELSE Max(Loaded(l))]
    /\ \E slots \in BoundedSeq(Slots, MaxLists) :
          /\ InOrder(slots)
          /\ Range(slots) = {s \in Slots : file'[s] # NoFile}
          /\ IF slots = <<>>
             THEN /\ FreshLists # {}
                  /\ entries' = <<FreshEntry(0)>> /\ gone' = gone \ {FreshList}
             ELSE /\ entries' = [i \in DOMAIN slots |-> Entry(slots[i], file'[slots[i]], FALSE)]
                  /\ UNCHANGED gone
    /\ Return("idle")
    /\ UNCHANGED <<stage, marker>>

-----------------------------------------------------------------------------
(* What the user does with the lists.                                      *)

NextOrdinarySlot == Min((0 .. Len(entries)) \ EntrySlots)

\* NewList appends, InsertList inserts.
NewList ==
    /\ pc = "idle" /\ Len(entries) < MaxLists /\ FreshLists # {}
    /\ \E i \in 1 .. Len(entries) + 1 :
          entries' = InsertAt(entries, i, FreshEntry(NextOrdinarySlot))
    /\ gone' = gone \ {FreshList}
    /\ UNCHANGED <<diskVars, pc, flushVars, saved>>

\* MarkDirty, Rename and ReplaceList.
Edit ==
    /\ pc = "idle"
    /\ \E i \in DOMAIN entries :
          /\ entries[i].content.list \in Edited /\ entries[i].content.version < MaxVersion
          /\ entries' = [entries EXCEPT ![i].content.version = @ + 1, ![i].dirty = TRUE]
    /\ UNCHANGED <<diskVars, pc, flushVars, ghostVars>>

\* SortByTitle is a sequence of such moves.
ReorderList ==
    /\ pc = "idle"
    /\ \E i, j \in DOMAIN entries :
          i # j /\ entries' = InsertAt(RemoveAt(entries, i), j, entries[i])
    /\ UNCHANGED <<diskVars, pc, flushVars, ghostVars>>

DeleteFile ==
    /\ pc = "idle" /\ Len(entries) > 1
    /\ \E i \in DOMAIN entries :
          /\ at' = i
          /\ file' = [file EXCEPT ![entries[i].slot] = NoFile]
          /\ saved' = [saved EXCEPT ![entries[i].content.list] = None]
    /\ pc' = "delete"
    /\ UNCHANGED <<temp, stage, marker, entries, caller, failed, gone>>

MutantDeleteKeepsTemp ==
    /\ pc = "delete"
    /\ entries' = RemoveAt(entries, at)
    /\ Return("idle")
    /\ UNCHANGED <<diskVars, saved>>
    /\ gone' = gone \cup {l \in {entries[at].content.list} : Traces(l)'}

DeleteTemp ==
    /\ pc = "delete"
    /\ temp' = [temp EXCEPT ![entries[at].slot] = NoFile]
    /\ entries' = RemoveAt(entries, at)
    /\ Return("idle")
    /\ UNCHANGED <<file, stage, marker, saved>>
    /\ gone' = gone \cup {l \in {entries[at].content.list} : Traces(l)'}

-----------------------------------------------------------------------------
(* FlushDirty: the timer saves the lists that are due, a forced flush all, *)
(* and then compacts.                                                      *)

MutantFlushSavesFirst ==
    /\ pc = "idle" /\ pc' = "save"
    /\ caller' \in {"timer", "force"}
    /\ UNCHANGED <<diskVars, entries, at, failed, ghostVars>>

Flush ==
    /\ pc = "idle" /\ pc' = "recover"
    /\ caller' \in {"timer", "force"}
    /\ UNCHANGED <<diskVars, entries, at, failed, ghostVars>>

Dirty == {i \in at .. Len(entries) : entries[i].dirty}
Due == IF caller = "force" /\ Dirty # {} THEN {Min(Dirty)} ELSE Dirty

SaveWrite ==
    /\ pc = "save"
    /\ \E i \in Due :
          \/ /\ temp' = [temp EXCEPT ![entries[i].slot] = entries[i].content]
             /\ at' = i /\ pc' = "rename" /\ UNCHANGED failed
          \/ /\ "write" \in Faults
             /\ at' = i + 1 /\ failed' = TRUE /\ UNCHANGED <<temp, pc>>
    /\ UNCHANGED <<file, stage, marker, entries, caller, ghostVars>>

\* A failed rename removes the .tmp and leaves the list dirty.
SaveRename ==
    /\ pc = "rename"
    /\ LET slot == entries[at].slot
           content == entries[at].content IN
       /\ temp' = [temp EXCEPT ![slot] = NoFile]
       /\ \/ /\ file' = [file EXCEPT ![slot] = temp[slot]]
             /\ entries' = [entries EXCEPT ![at].dirty = FALSE]
             /\ saved' = [saved EXCEPT ![content.list] = content.version]
             /\ UNCHANGED failed
          \/ /\ "rename" \in Faults
             /\ failed' = TRUE /\ UNCHANGED <<file, entries, saved>>
    /\ at' = at + 1 /\ pc' = "save"
    /\ UNCHANGED <<stage, marker, caller, gone>>

\* Entries whose slot is not their position: those CompactSlots stages.
ToStage == {i \in DOMAIN entries : entries[i].slot # i - 1}

\* What follows the loop: whether FlushDirty compacts.
MutantCompactsAnyway == caller = "force"
Compacts == caller = "force" /\ ~failed

SaveDone ==
    /\ pc = "save"
    /\ caller = "force" => Dirty = {}
    /\ IF Compacts /\ ToStage # {}
       THEN pc' = "stage" /\ caller' = "compact" /\ at' = 1 /\ UNCHANGED failed
       ELSE Return(IF Compacts THEN "flushed" ELSE "idle")
    /\ UNCHANGED <<diskVars, entries, ghostVars>>

Unwritten == {i \in ToStage : i >= at}
WithoutStaged(last) ==
    [d \in Slots |-> IF d + 1 \in ToStage /\ d < last THEN NoFile ELSE stage[d]]

StageWrite ==
    /\ pc = "stage" /\ Unwritten # {}
    /\ LET i == Min(Unwritten) IN
       \/ /\ stage' = [stage EXCEPT ![i - 1] = entries[i].content]
          /\ at' = i + 1 /\ UNCHANGED <<pc, caller, failed>>
       \/ /\ "write" \in Faults
          /\ stage' = WithoutStaged(i) /\ Return("idle")
    /\ UNCHANGED <<file, temp, marker, entries, ghostVars>>

\* The slots in memory are renumbered as soon as the marker is in place.
StagePublish ==
    /\ pc = "stage" /\ Unwritten = {}
    /\ \/ /\ marker' = [i \in DOMAIN entries |-> entries[i].slot]
          /\ entries' = [i \in DOMAIN entries |-> [entries[i] EXCEPT !.slot = i - 1]]
          /\ pc' = "recover" /\ at' = 1 /\ UNCHANGED <<stage, caller, failed>>
       \/ /\ "rename" \in Faults
          /\ stage' = WithoutStaged(Len(entries)) /\ Return("idle")
          /\ UNCHANGED <<marker, entries>>
    /\ UNCHANGED <<file, temp, ghostVars>>

\* A forced flush that succeeded ends the program, or it goes on.
Exit ==
    /\ pc = "flushed" /\ pc' = "down" /\ entries' = <<>>
    /\ UNCHANGED <<diskVars, flushVars, ghostVars>>

Continue ==
    /\ pc = "flushed" /\ pc' = "idle"
    /\ UNCHANGED <<diskVars, entries, flushVars, ghostVars>>

Crash ==
    /\ "crash" \in Faults /\ pc # "down"
    /\ pc = "delete" => "crash_delete" \in Faults
    /\ entries' = <<>> /\ Return("down")
    /\ UNCHANGED <<diskVars, ghostVars>>

Next ==
    \/ Start \/ RecoverStep \/ RecoverRefused \/ Scan
    \/ NewList \/ Edit \/ ReorderList \/ DeleteFile \/ DeleteTemp
    \/ Flush \/ SaveWrite \/ SaveRename \/ SaveDone
    \/ StageWrite \/ StagePublish \/ Exit \/ Continue \/ Crash

Spec == Init /\ [][Next]_vars

\* The user starts the program again, and not every recovery is cut short by
\* a crash.
RestartSpec == Spec /\ WF_vars(Start) /\ SF_vars(RecoverStep)

-----------------------------------------------------------------------------
(* Properties.                                                             *)

\* Files hold lists, entries have slots of their own (NextOrdinarySlot,
\* CompactSlots), and the marker names different sources (ReadCompactionMarker
\* refuses any other).
TypeOK ==
    /\ {file, temp, stage} \subseteq [Slots -> Contents \cup {NoFile}]
    /\ marker \in BoundedSeq(Slots, MaxLists)
    /\ IsInjective(marker)
    /\ Len(entries) <= MaxLists
    /\ \A i \in DOMAIN entries :
          entries[i] \in [slot : Slots, content : Contents, dirty : BOOLEAN]
    /\ \A i, j \in DOMAIN entries : i # j => entries[i].slot # entries[j].slot
    /\ pc \in {"down", "recover", "scan", "idle", "delete", "save", "rename",
               "stage", "flushed"}
    /\ caller \in {"load", "timer", "force", "compact"}
    /\ at \in 1 .. MaxLists + 1 /\ failed \in BOOLEAN
    /\ saved \in [Lists -> Versions \cup {None}] /\ gone \subseteq Lists

\* A published compaction can always be completed: each of its destinations has
\* a file or a staged one (RecoverCompaction refuses to go on otherwise, and
\* with it every later FlushDirty).
RecoveryCanFinish ==
    \A d \in Destinations : file[d] # NoFile \/ (d \in Displaced /\ stage[d] # NoFile)

\* What the recovery at start-up moves: the staged files before the first
\* destination that has neither a file nor a staged one.
Recovered ==
    LET Missing == {d \in Displaced : stage[d] = NoFile /\ file[d] = NoFile}
    IN  {d \in Displaced : stage[d] # NoFile /\ \A m \in Missing : d < m}

\* What Load would find in a slot if no operation failed: what the recovery of a
\* published compaction has moved there, unless the slot is one of those it has
\* deleted, then the file, then an orphan .tmp.  Load goes on where the recovery
\* stops.  A .tmp that Delete is about to remove does not count.
Restored(s) ==
    IF s \in Recovered THEN stage[s]
    ELSE IF RecoveryCanFinish /\ s \in OldSlots THEN NoFile
    ELSE IF file[s] # NoFile \/ (pc = "delete" /\ entries[at].slot = s) THEN file[s]
    ELSE temp[s]
RestoredVersions ==
    LET all == {Restored(s) : s \in Slots}
    IN  [l \in Lists |-> Max({None} \cup {c.version : c \in {d \in all : d.list = l}})]

\* A list that was saved, or read at start-up, is found again by a restart at
\* any moment, in the saved version or a newer one.  In particular the staged
\* image of a compaction that could not be completed does not replace a later
\* save (FlushDirty recovers before it saves).  Where the compaction can no
\* longer be completed, because a list whose file it needs was deleted in the
\* meantime, Load may miss a list; its saved version is then left in a staged
\* file that no flush touches any more.
Stranded(l) == \E s \in Slots : stage[s].list = l /\ stage[s].version >= saved[l]
NoSavedListLost ==
    \A l \in Lists : RestoredVersions[l] >= saved[l] \/ (~RecoveryCanFinish /\ Stranded(l))

\* A restart at any moment finds no list in two slots, although a compaction
\* copies lists before it removes their old files (CompactSlots,
\* RecoverCompaction).
NoListTwice ==
    \A r, s \in Slots :
       r # s /\ Restored(r).list = Restored(s).list => Restored(r) = NoFile

\* A list the user has deleted does not come back, whatever files of it an
\* interrupted save or compaction has left (Delete).
DeletedStaysDeleted == gone \cap EntryLists = {}

\* When a forced flush reports success, slot i of the directory holds the list
\* at position i, as it is in memory, and nothing else is there (FlushDirty:
\* SavePersistentState then stores the number of lists and the active slot).
ForcedFlushIsExact ==
    pc = "flushed" =>
       \A s \in Slots :
          Restored(s) = IF s < Len(entries) THEN entries[s + 1].content ELSE NoFile

\* A published compaction is completed in the end, however often the program
\* crashes on the way (RecoverCompaction called by Load).
CompactionFinishes == marker # NoMarker ~> marker = NoMarker

Catalogue == INSTANCE PlaylistCatalogue WITH
    stored <- RestoredVersions,
    promised <- {l \in Lists : saved[l] # None}

\* The files, the temporary files and the compaction together implement the
\* catalogue: what a restart would find changes only as the user asked for.
ImplementsCatalogue == Catalogue!Spec

=============================================================================
