---------------------------- MODULE MediaLibrary ----------------------------
(***************************************************************************)
(* The media library of the player window                                  *)
(* (src/src/ui/player_window_library.cpp) over one watched directory:      *)
(* the catalogue the window owns, the scan worker that rebuilds it, the    *)
(* directory notifications and user edits that arrive while it does, and   *)
(* the library file written when the window closes.                        *)
(*                                                                         *)
(* A track is its file: [tags, rating], where tags is the version of the   *)
(* file the tags were read from.  Playlists, archives and a disabled       *)
(* library are left out.                                                   *)
(***************************************************************************)
EXTENDS DirectoryMonitor

CONSTANTS
    MaxUser \* bound on the user's commands

ASSUME LibraryAssumption == MaxUser \in Nat

VARIABLES
    lib,            \* the catalogue, see Catalogue
    indexing,       \* a scan has not delivered its complete result
    refreshPending, \* another scan is wanted after this one
    scan,           \* generation of the last scan
    worker,         \* the scan worker and its control block, or NoWorker
    phase,          \* "open", "closing" or "closed"
    saved,          \* Music.library
    user,           \* number of user commands so far
    rated,          \* history: the last rating the user gave a file
    discarded,      \* history: files the user removed, and not added since
    added           \* history: files the user added at some time

libraryVars == <<lib, indexing, refreshPending, scan, worker, phase, saved,
                 user, rated, discarded, added>>
history == <<rated, discarded, added>>
vars == <<monitorVars, libraryVars>>

None == <<>>
NoResult == [kind |-> "none"]
NoWorker == [pc |-> "none", unposted |-> NoResult]
Without(f, S) == [x \in DOMAIN f \ S |-> f[x]]
Over(f, g) ==
    [x \in DOMAIN f \cup DOMAIN g |-> IF x \in DOMAIN f THEN f[x] ELSE g[x]]
Put(f, x, v) == Over([y \in {x} |-> v], f)
Track(v, r) == [tags |-> v, rating |-> r]

\* items: the published tracks; persisted: the seeds of the next scan; edits,
\* removed and fileChanges are stamped with `revision', so that a result
\* started earlier can be told from them; files, directory and tracks are the
\* work queued for the next scan.
EmptyCatalogue ==
    [items |-> None, persisted |-> None, edits |-> None, removed |-> None,
     excluded |-> {}, fileChanges |-> None, loaded |-> FALSE, revision |-> 0,
     files |-> {}, directory |-> FALSE, tracks |-> None]

\* A scan request takes the queued work with it.
Job(l, g) ==
    [pc |-> "files", generation |-> g, revision |-> l.revision,
     load |-> ~l.loaded, files |-> l.files, directory |-> l.directory,
     tracks |-> l.tracks, persisted |-> l.persisted, items |-> None,
     observed |-> {}, tried |-> {}, read |-> {}, todo |-> {}, missing |-> {},
     posted |-> FALSE, unposted |-> NoResult]

\* StartMediaLibraryRefresh as the last call of a handler: l, idx and w are
\* what the handler left of lib, indexing and worker.
Refresh(l, idx, w) ==
    IF idx \/ w # NoWorker
    THEN /\ lib' = l
         /\ indexing' = idx
         /\ refreshPending' = TRUE
         /\ worker' = w
         /\ UNCHANGED scan
    ELSE /\ lib' = [l EXCEPT !.files = {}, !.directory = FALSE,
                             !.tracks = None]
         /\ indexing' = TRUE
         /\ refreshPending' = FALSE
         /\ scan' = scan + 1
         /\ worker' = Job(l, scan + 1)

\* A handler that ends without starting a scan.
Settle(l, idx, w) ==
    /\ lib' = l
    /\ indexing' = idx
    /\ worker' = w
    /\ UNCHANGED <<refreshPending, scan>>

Live(l) == DOMAIN l.items \ l.excluded

Libraries ==
    UNION {[S -> [tags : 1..2, rating : {0}]] : S \in SUBSET Files}

\* OnCreate: the directory is queued, then the first scan loads Music.library.
Init ==
    /\ MonitorInit
    /\ saved \in {s \in Libraries : \A f \in DOMAIN s : s[f].tags <= content[f]}
    /\ lib = EmptyCatalogue
    /\ indexing = TRUE
    /\ refreshPending = FALSE
    /\ scan = 1
    /\ worker = Job([EmptyCatalogue EXCEPT !.directory = TRUE], 1)
    /\ phase = "open"
    /\ user = 0
    /\ rated = None
    /\ discarded = {}
    /\ added = {}

-----------------------------------------------------------------------------
(* The scan worker: MediaLibraryState::RunBuild.                           *)

WorkerStep(w, msgs) ==
    /\ worker' = w
    /\ messages' = msgs
    /\ UNCHANGED <<env, diskVars, watchVars, recorded, lib, indexing,
                   refreshPending, scan, phase, saved, user, history>>

\* One attempt per file and scan is made to read it, which fails when it is
\* gone; a known track keeps its rating, and without success its tags.
Read(w, f, ok) ==
    LET old  == IF f \in DOMAIN w.items THEN w.items[f] ELSE Track(0, 0)
        read == ok /\ f \in present \ w.tried
    IN  [w EXCEPT !.items = Put(@, f, IF read THEN Track(content[f], old.rating)
                                      ELSE old),
                  !.tried = @ \cup {f},
                  !.read = IF read THEN @ \cup {f} ELSE @]

\* A file the scan has come across.
ReadTrack(w, f, ok) == [Read(w, f, ok) EXCEPT !.observed = @ \cup {f}]

\* Reading a file may time out or fail.
Outcomes == IF "unread" \in env THEN BOOLEAN ELSE {TRUE}

ScanFile(f) ==
    /\ worker.pc = "files"
    /\ f \in worker.files
    /\ LET w == [worker EXCEPT !.files = @ \ {f}]
       IN  \/ /\ f \in present
              /\ \E ok \in Outcomes : WorkerStep(ReadTrack(w, f, ok), messages)
           \/ /\ f \notin present \/ "unread" \in env
              /\ WorkerStep(w, messages)

Result(w, complete, failed) ==
    [kind |-> "ready", generation |-> w.generation, revision |-> w.revision,
     complete |-> complete, failed |-> failed, loads |-> w.load,
     items |-> w.items, observed |-> w.observed, read |-> w.read,
     missing |-> w.missing]

\* Mutant: the result of a refused message is dropped.
MutantDeliverDrops(w, r) ==
    \/ WorkerStep([w EXCEPT !.posted = TRUE], Append(messages, r))
    \/ /\ (IF r.complete THEN "handoff" ELSE "partial") \in env
       /\ WorkerStep([w EXCEPT !.posted = TRUE], messages)

\* DeliverBuildResult: a result the window cannot be sent stays with the
\* control block, replacing an earlier one.
Deliver(w, r) ==
    \/ WorkerStep([w EXCEPT !.posted = TRUE], Append(messages, r))
    \/ /\ (IF r.complete THEN "handoff" ELSE "partial") \in env
       /\ WorkerStep([w EXCEPT !.posted = FALSE, !.unposted = r], messages)

\* What the first scan adds is Music.library, as nothing if it cannot be loaded.
Seeds(w) ==
    IF ~w.load THEN {w.persisted}
    ELSE {saved} \cup IF "unloaded" \in env THEN {None} ELSE {}

\* Changed files were added first; queued tracks, then Music.library or the
\* persisted tracks only fill in.  The first scan delivers a partial result.
MergeSeeds ==
    /\ worker.pc = "files"
    /\ worker.files = {}
    /\ \E seeds \in Seeds(worker) :
          LET w == [worker EXCEPT !.pc = "list",
                        !.items = Over(Over(@, worker.tracks), seeds)]
          IN  IF w.load THEN Deliver(w, Result(w, FALSE, FALSE))
              ELSE WorkerStep(w, messages)

\* Tracks whose tags no scan has read yet are tried again.
Untagged(w) == {f \in DOMAIN w.items \ w.tried : w.items[f].tags = 0}

ReadUntagged(f) ==
    /\ worker.pc = "list"
    /\ f \in Untagged(worker)
    /\ \E ok \in Outcomes : WorkerStep(Read(worker, f, ok), messages)

\* A listing that fails has only some of the files.
ListDirectory ==
    /\ worker.pc = "list"
    /\ Untagged(worker) = {}
    /\ \E listed \in SUBSET present :
          /\ listed = present \/ "unread" \in env
          /\ WorkerStep([worker EXCEPT !.pc = "read",
                             !.todo = IF worker.directory THEN listed ELSE {}],
                        messages)

\* A scan of the directory that is stopped returns no result.
ListCanceled ==
    /\ worker.pc = "list"
    /\ Untagged(worker) = {}
    /\ worker.directory
    /\ "cancel" \in env
    /\ WorkerStep([worker EXCEPT !.pc = "done"], messages)

\* An exception out of RunBuild delivers a failed result.
BuildThrows ==
    /\ worker.pc \in {"files", "list", "read"}
    /\ "throw" \in env
    /\ Deliver([worker EXCEPT !.pc = "done"], Result(worker, TRUE, TRUE))

ReadListed(f) ==
    /\ worker.pc = "read"
    /\ f \in worker.todo
    /\ \E ok \in Outcomes :
          WorkerStep(ReadTrack([worker EXCEPT !.todo = @ \ {f}], f, ok), messages)

\* Only a file the system says is not found is missing.
VerifyMissing ==
    /\ worker.pc = "read"
    /\ worker.todo = {}
    /\ \E gone \in SUBSET (DOMAIN worker.items \ present) :
          /\ gone = DOMAIN worker.items \ present \/ "unread" \in env
          /\ WorkerStep([worker EXCEPT !.pc = "deliver",
                             !.missing = IF worker.directory THEN gone ELSE {}],
                        messages)

DeliverResult ==
    /\ worker.pc = "deliver"
    /\ Deliver([worker EXCEPT !.pc = "done"], Result(worker, TRUE, FALSE))

Build ==
    \/ \E f \in Files : ScanFile(f) \/ ReadUntagged(f) \/ ReadListed(f)
    \/ MergeSeeds \/ ListDirectory \/ ListCanceled \/ BuildThrows
    \/ VerifyMissing \/ DeliverResult

-----------------------------------------------------------------------------
(* ApplyMediaLibraryIndex.                                                 *)

Newer(entries, rev) == {f \in DOMAIN entries : entries[f].revision > rev}
Older(entries, rev) == DOMAIN entries \ Newer(entries, rev)

\* Mutant: a file the scan saw is shown whatever removed it.
MutantExclusionsObserved(l, r) ==
    LET missing == r.missing \ Newer(l.edits, r.revision)
    IN  [removed  |-> l.removed,
         excluded |-> (l.excluded \cup missing) \ (r.observed \ r.missing)]

\* The removals of the scan, then the notifications newer than the scan, then
\* the files the scan saw although an older notification had removed them.
Exclusions(l, r) ==
    LET missing == r.missing \ Newer(l.edits, r.revision)
        news    == Newer(l.fileChanges, r.revision) \cap DOMAIN r.items
        gone    == {f \in news : l.fileChanges[f].removed}
        removed == Over([f \in gone |-> l.fileChanges[f].revision],
                        Without(Over([f \in missing |-> r.revision], l.removed),
                                news))
        seen    == {f \in DOMAIN removed : removed[f] <= r.revision
                                           /\ f \in r.observed \ r.missing}
    IN  [removed  |-> Without(removed, seen),
         excluded |-> (((l.excluded \cup missing) \ news) \cup gone) \ seen]

\* Mutant: the scan overwrites what was edited meanwhile.
MutantEditedByScan(items, l, r, excluded) == items

\* The user's edits newer than the scan override what it found.
Edited(items, l, r, excluded) ==
    LET newer == Newer(l.edits, r.revision) \ excluded
        whole == {f \in newer : ~l.edits[f].ratingOnly}
        stars == {f \in newer \ whole : f \in DOMAIN items}
    IN  Over([f \in whole |-> l.edits[f].track],
             Over([f \in stars |-> Track(items[f].tags, l.edits[f].track.rating)],
                  items))

\* Tracks waiting for the next scan get the tags this one read.
Republished(tracks, items, read) ==
    [f \in DOMAIN tracks |->
        IF f \in read THEN Track(items[f].tags, tracks[f].rating)
        ELSE tracks[f]]

Applied(l, r) ==
    LET x      == Exclusions(l, r)
        items  == Edited(r.items, l, r, x.excluded)
        live   == DOMAIN items \ x.excluded
        loaded == l.loaded \/ r.loads
        old(e) == IF r.complete THEN Older(e, r.revision) ELSE {}
    IN  [l EXCEPT
            !.removed = x.removed, !.excluded = x.excluded, !.items = items,
            !.edits = Without(@, old(@)),
            !.fileChanges = Without(@, old(@)),
            !.loaded = loaded,
            !.persisted = IF loaded THEN [f \in live |-> items[f]] ELSE @,
            !.tracks = Republished(@, items, r.read \cap live)]

\* The effect of a result, by message or recovered from its control block.
Apply(r, w) ==
    LET current == r.generation = scan
        l   == IF current /\ ~r.failed THEN Applied(lib, r) ELSE lib
        idx == IF current THEN ~r.complete ELSE indexing
    IN  IF current /\ refreshPending /\ phase = "open"
        THEN Refresh(l, idx, w) ELSE Settle(l, idx, w)

ReceiveResult ==
    /\ phase # "closed"
    /\ messages # <<>>
    /\ \E i \in DOMAIN messages :
        /\ messages[i].kind = "ready"
        /\ phase = "open" => i = 1
        /\ \A j \in 1..(i - 1) : messages[j].kind # "ready"
        /\ messages' = RemoveAt(messages, i)
        /\ Apply(messages[i], worker)
    /\ UNCHANGED <<env, diskVars, watchVars, recorded, phase, saved, user,
                   history>>

\* The 250 ms poll reaps a finished worker: it recovers an unposted result, or
\* notes that there was none, and starts the scan that was waiting.  With no
\* worker to reap there is never a scan to start here.  While the window is
\* open a timer message yields to every posted one.
PollWorkers ==
    /\ phase # "closed"
    /\ phase = "open" => messages = <<>>
    /\ worker.pc = "done"
    /\ IF worker.unposted # NoResult THEN
           Apply(worker.unposted, NoWorker)
       ELSE LET idx == indexing /\ (worker.posted \/ worker.generation # scan)
            IN  IF phase = "open" /\ ~idx /\ refreshPending
                THEN Refresh(lib, idx, NoWorker)
                ELSE Settle(lib, idx, NoWorker)
    /\ UNCHANGED <<monitorVars, phase, saved, user, history>>

-----------------------------------------------------------------------------
(* HandleMediaLibraryDirectoryChange.                                      *)

FileChange(l, f, removed) ==
    Put(l.fileChanges, f, [revision |-> l.revision + 1, removed |-> removed])

FileRemoved(l, f) ==
    LET known == DOMAIN l.items \cap {f}
    IN  [l EXCEPT !.revision = @ + 1,
                  !.fileChanges = FileChange(l, f, TRUE),
                  !.excluded = @ \cup known,
                  !.persisted = Without(@, known),
                  !.removed = Over([x \in known |-> l.revision + 1], @)]

\* RevivePath drops the removal mark of an added file; the file is queued
\* unless its track is already there.
FileAdded(l, f) ==
    LET revived == {f} \cap l.excluded
    IN  [l EXCEPT !.revision = @ + 1,
                  !.fileChanges = FileChange(l, f, FALSE),
                  !.excluded = @ \ revived,
                  !.removed = Without(@, revived),
                  !.files = IF f \in DOMAIN l.items THEN @ ELSE @ \cup {f}]

\* Mutant: a modified file the library knows is not read again.
MutantModifiedIfUnknown(l, f) ==
    [l EXCEPT !.files = IF f \in DOMAIN l.items THEN @ ELSE @ \cup {f}]

FileModified(l, f) == [l EXCEPT !.files = @ \cup {f}]

Queued(l) == l.files # {} \/ l.directory

\* A message of a stopped monitor, or about a file that is gone again, is
\* dropped.
HandleChange(m) ==
    LET Changed(l) == IF Queued(l) THEN Refresh(l, indexing, worker)
                      ELSE Settle(l, indexing, worker)
        here == IF m.action \in {"added", "modified"}
                THEN m.file \in present ELSE TRUE
    IN  IF ~Accept(m) \/ ~here THEN Settle(lib, indexing, worker)
        ELSE CASE m.action = "rescan" ->
                    Refresh([lib EXCEPT !.directory = TRUE], indexing, worker)
               [] m.action = "removed" ->
                    Settle(FileRemoved(lib, m.file), indexing, worker)
               [] m.action = "added" -> Changed(FileAdded(lib, m.file))
               [] m.action = "modified" -> Changed(FileModified(lib, m.file))

ReceiveChange ==
    /\ phase = "open"
    /\ messages # <<>>
    /\ Head(messages).kind = "change"
    /\ messages' = Tail(messages)
    /\ HandleChange(Head(messages))
    /\ UNCHANGED <<env, diskVars, watchVars, recorded, phase, saved, user,
                   history>>

-----------------------------------------------------------------------------
(* The user.                                                               *)

Command ==
    /\ phase = "open"
    /\ user < MaxUser
    /\ user' = user + 1
    /\ UNCHANGED <<env, diskVars, messages, phase, saved>>

\* RecordEdit: a rating joins a pending edit of the whole track.
RatingEdit(l, f, r) ==
    LET whole == f \in DOMAIN l.edits /\ ~l.edits[f].ratingOnly
        tags  == IF whole THEN l.edits[f].track.tags ELSE l.items[f].tags
    IN  Put(l.edits, f, [revision |-> l.revision + 1, track |-> Track(tags, r),
                         ratingOnly |-> ~whole])

Rerated(tracks, f, r) ==
    IF f \in DOMAIN tracks THEN [tracks EXCEPT ![f].rating = r] ELSE tracks

\* SetVisiblePlaylistRating; every rating of a behaviour is a new value.
RateTrack(f) ==
    /\ f \in Live(lib)
    /\ Command
    /\ LET r == user + 1
       IN  /\ Settle([lib EXCEPT !.items = Rerated(@, f, r),
                                 !.persisted = Rerated(@, f, r),
                                 !.tracks = Rerated(@, f, r),
                                 !.edits = RatingEdit(lib, f, r),
                                 !.revision = @ + 1],
                     indexing, worker)
           /\ rated' = Put(rated, f, r)
    /\ UNCHANGED <<watchVars, recorded, discarded, added>>

\* RemoveMediaLibraryTracksByIdentity
RemoveTrack(f) ==
    /\ f \in Live(lib)
    /\ Command
    /\ Settle([lib EXCEPT !.excluded = @ \cup {f},
                          !.persisted = Without(@, {f})],
              indexing, worker)
    /\ discarded' = discarded \cup {f}
    /\ rated' = Without(rated, {f})
    /\ UNCHANGED <<watchVars, recorded, added>>

\* CommitMediaLibraryTracks: the import has just read the file.
AddTrack(f) ==
    /\ f \in present
    /\ Command
    /\ LET track == IF f \in DOMAIN lib.items THEN lib.items[f]
                    ELSE Track(content[f], 0)
       IN  Refresh([lib EXCEPT
                       !.excluded = @ \ {f},
                       !.removed = Without(@, {f}),
                       !.items = Put(@, f, track),
                       !.persisted = Over(@, [x \in {f} |-> track]),
                       !.tracks = Over(@, [x \in {f} |-> track]),
                       !.edits = Put(@, f, [revision |-> lib.revision + 1,
                                            track |-> track,
                                            ratingOnly |-> FALSE]),
                       !.revision = @ + 1],
                   indexing, worker)
    /\ discarded' = discarded \ {f}
    /\ added' = added \cup {f}
    /\ UNCHANGED <<watchVars, recorded, rated>>

\* The user switches to the library view: a scan with nothing queued.
ShowLibrary ==
    /\ Command
    /\ Refresh(lib, indexing, worker)
    /\ UNCHANGED <<watchVars, recorded, history>>

\* The refresh command queues the directory.
RefreshCommand ==
    /\ Command
    /\ Refresh([lib EXCEPT !.directory = TRUE], indexing, worker)
    /\ UNCHANGED <<watchVars, recorded, history>>

\* The options page turns directory monitoring off and on.
StopMonitoring ==
    /\ monitoring
    /\ Command
    /\ StopMonitor
    /\ Refresh(lib, indexing, worker)
    /\ UNCHANGED history

StartMonitoring ==
    /\ ~monitoring
    /\ Command
    /\ StartMonitor
    /\ Refresh([lib EXCEPT !.directory = TRUE], indexing, worker)
    /\ UNCHANGED history

-----------------------------------------------------------------------------
(* ShutdownMediaLibrary.                                                   *)

Close ==
    /\ phase = "open"
    /\ phase' = "closing"
    /\ StopMonitor
    /\ refreshPending' = FALSE
    /\ UNCHANGED <<env, diskVars, messages, lib, indexing, scan, worker, saved,
                   user, history>>

\* Mutant: a library file not loaded yet is replaced.
MutantSnapshotOfItems(l) ==
    LET whole == {f \in DOMAIN l.edits : ~l.edits[f].ratingOnly}
    IN  Without(Over([f \in whole |-> l.edits[f].track], l.items), l.excluded)

\* After 100 ms a running worker is abandoned: its receiver is cleared.
Snapshot(l) ==
    LET whole == {f \in DOMAIN l.edits : ~l.edits[f].ratingOnly}
        base  == Over(l.items, IF l.loaded THEN None ELSE saved)
        tracks == Over([f \in whole |-> l.edits[f].track],
                       [f \in DOMAIN base |->
                           IF f \in DOMAIN l.edits
                           THEN Track(base[f].tags, l.edits[f].track.rating)
                           ELSE base[f]])
    IN  Without(tracks, l.excluded)

\* The file cannot be written, or not loaded first: it stays as it was.
SaveFails ==
    \/ "unsaved" \in env
    \/ "unloaded" \in env /\ ~lib.loaded

SaveLibrary ==
    /\ phase = "closing"
    /\ \A i \in DOMAIN messages : messages[i].kind # "ready"
    /\ worker.pc # "done"
    /\ worker.unposted = NoResult
    /\ phase' = "closed"
    /\ saved' = Snapshot(lib) \/ (SaveFails /\ saved' = saved)
    /\ worker' = NoWorker
    /\ messages' = <<>>
    /\ UNCHANGED <<env, diskVars, watchVars, recorded, lib, indexing,
                   refreshPending, scan, user, history>>

\* An unposted partial result is taken from the running worker.
TakeUnposted ==
    /\ phase = "closing"
    /\ worker.pc # "done"
    /\ worker.unposted # NoResult
    /\ Apply(worker.unposted, [worker EXCEPT !.unposted = NoResult])
    /\ UNCHANGED <<monitorVars, phase, saved, user, history>>

-----------------------------------------------------------------------------
DirectoryWrite ==
    /\ \E f \in Files : CreateFile(f) \/ ModifyFile(f) \/ RemoveFile(f)
    /\ phase # "closed"
    /\ UNCHANGED libraryVars

Watch == WatchStep /\ UNCHANGED libraryVars

Window == ReceiveResult \/ ReceiveChange \/ PollWorkers

Shutdown == Close \/ TakeUnposted \/ SaveLibrary

UserCommand ==
    \/ \E f \in Files : RateTrack(f) \/ RemoveTrack(f) \/ AddTrack(f)
    \/ ShowLibrary \/ RefreshCommand \/ StopMonitoring \/ StartMonitoring

Next ==
    \/ DirectoryWrite
    \/ Watch
    \/ Build
    \/ Window
    \/ UserCommand
    \/ Shutdown

\* The worker threads run and the window keeps pumping messages and timers;
\* nothing obliges the user, the directory or the close.
Fairness == WF_vars(Watch) /\ WF_vars(Build) /\ WF_vars(Window)

Spec == Init /\ [][Next]_vars /\ Fairness

-----------------------------------------------------------------------------
(* Properties.                                                             *)

CatalogueTypeOK ==
    /\ lib.excluded \cup lib.files \subseteq Files
    /\ UNION {DOMAIN lib.items, DOMAIN lib.persisted, DOMAIN lib.edits,
              DOMAIN lib.removed, DOMAIN lib.tracks} \subseteq Files
    /\ \A f \in DOMAIN lib.edits : lib.edits[f].revision \in 1..lib.revision
    /\ \A f \in DOMAIN lib.removed : lib.removed[f] \in 0..lib.revision

\* The variables have their types, and every stamp is a revision given out.
TypeOK ==
    /\ env \subseteq Hazards
    /\ present \subseteq Files
    /\ watch \in {"closed", "announce", "waiting", "rearm"}
    /\ phase \in {"open", "closing", "closed"}
    /\ indexing \in BOOLEAN
    /\ refreshPending \in BOOLEAN
    /\ worker # NoWorker => worker.generation = scan
    /\ CatalogueTypeOK

\* Nothing is on its way: no message, no scan, no record, the handle armed.
Quiet ==
    /\ phase = "open"
    /\ messages = <<>> /\ recorded = <<>>
    /\ watch = "waiting"
    /\ worker = NoWorker /\ ~indexing /\ ~refreshPending

Avoids(S) == env \cap S = {}

\* A name comes back, a scan does not end or its first result is refused,
\* Music.library is not loaded or not written.
Mishaps == {"recreate", "partial", "throw", "cancel", "unloaded", "unsaved"}

\* Once everything has been handled the library shows every file of the
\* directory the user has not removed, with its last tags unless the user added
\* it, and no other file except those the user rated or added, whatever order
\* changes, notifications, scans and edits came in (HandleMediaLibraryDirectoryChange,
\* RunBuild, ApplyMediaLibraryIndex).
LibraryIsCurrent ==
    Quiet /\ Avoids(Mishaps \cup {"drop", "unread"}) =>
        /\ present \ discarded \subseteq Live(lib)
        /\ Live(lib) \subseteq present \cup DOMAIN rated \cup added
        /\ \A f \in (Live(lib) \cap present) \ added :
               lib.items[f].tags = content[f]

\* Every rated track of the library has the rating the user gave it last.
RatingIsKept ==
    \A f \in DOMAIN rated \cap Live(lib) : lib.items[f].rating = rated[f]

\* A rating the user gives is neither overwritten by a scan that had started
\* before it nor lost by the file written at the end, while no file of the
\* directory is written and none of the Mishaps happens (RecordEdit,
\* ApplyMediaLibraryIndex).
RatingHolds ==
    Avoids({"create", "modify"} \cup Mishaps) =>
        /\ RatingIsKept
        /\ phase = "closed" =>
              \A f \in DOMAIN rated \cap DOMAIN saved :
                  saved[f].rating = rated[f]

\* A track the user removed does not come back through a scan or the library
\* file, unless a file appears (RemoveMediaLibraryTracksByIdentity).
RemovalHolds ==
    Avoids({"create", "recreate"}) =>
        /\ discarded \cap Live(lib) = {}
        /\ phase = "closed" /\ Avoids({"unloaded", "unsaved"}) =>
              discarded \cap DOMAIN saved = {}

\* Closing at any moment, also before the library was loaded or while a scan
\* runs, writes every track the library file had or the user added whose file
\* is still there (ShutdownMediaLibrary).
NoTrackLost ==
    [][Avoids(Mishaps) /\ phase' = "closed" =>
           ((DOMAIN saved \cup added) \cap present) \ discarded
               \subseteq DOMAIN saved']_vars

\* The flag that makes every later scan wait is cleared by someone: the worker
\* still runs or its complete result is on its way
\* (DeliverBuildResult, PollMediaLibraryWorkers).
IndexingIsOwned ==
    phase = "open" /\ indexing =>
        \/ worker # NoWorker
        \/ \E i \in DOMAIN messages :
              /\ messages[i].kind = "ready"
              /\ messages[i].generation = scan
              /\ messages[i].complete

\* The same where a failed scan or a refused message cannot interfere, or can
\* be made good.
IndexingEnds == Avoids({"partial", "cancel"}) => IndexingIsOwned

\* A file that comes back after its removal is shown again.
ReturnedFileIsShown == Quiet => present \ discarded \subseteq Live(lib)
=============================================================================
