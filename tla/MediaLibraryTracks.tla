------------------------- MODULE MediaLibraryTracks -------------------------
(***************************************************************************)
(* Proofs that the media library keeps what the user has put into it, the  *)
(* ratings (RatingHolds of MediaLibrary) and the tracks (NoTrackLost), and *)
(* that it shows the directory once all changes have been handled          *)
(* (LibraryIsCurrent), for any number of files, of changes to the          *)
(* directory and of commands, and every set of environments.               *)
(***************************************************************************)
EXTENDS MediaLibraryProofs

-----------------------------------------------------------------------------
(* What the steps of the scan worker do to its tracks.                     *)

\* The tracks a scan is going to have once it has merged its seeds.
Coming(w, sv) ==
    IF w.pc = "files"
    THEN Over(Over(w.items, w.tracks), IF w.load THEN sv ELSE w.persisted)
    ELSE w.items

\* Reading a file gives its track new tags at most.
LEMMA ReadChanges ==
    ASSUME NEW w \in Jobs, NEW f \in Files, NEW ok, NEW a, a = Read(w, f, ok)
    PROVE  /\ DOMAIN a.items = {f} \cup DOMAIN w.items
           /\ a.tracks = w.tracks /\ a.persisted = w.persisted
           /\ \A g \in DOMAIN w.items :
                 /\ g # f => a.items[g] = w.items[g]
                 /\ a.items[g].rating = w.items[g].rating
           /\ ok /\ f \in present \ w.tried =>
                 a.items[f].tags = content[f] /\ a.read = w.read \cup {f}
           /\ ~(ok /\ f \in present \ w.tried) =>
                 /\ a.read = w.read
                 /\ f \in DOMAIN w.items => a.items[f] = w.items[f]
<1>1. PICK seen, old, track, items, read :
          /\ seen \in BOOLEAN /\ seen <=> (ok /\ f \in present \ w.tried)
          /\ old = IF f \in DOMAIN w.items THEN w.items[f] ELSE Track(0, 0)
          /\ track = IF seen THEN Track(content[f], old.rating) ELSE old
          /\ items = Put(w.items, f, track)
          /\ read = IF seen THEN w.read \cup {f} ELSE w.read
  OBVIOUS
<1>2. a = [w EXCEPT !.items = items, !.tried = w.tried \cup {f}, !.read = read]
  BY <1>1 DEF Read
<1>3. /\ a.items = items /\ a.read = read /\ a.tracks = w.tracks
      /\ a.persisted = w.persisted
  BY <1>2 DEF Jobs
<1>4. /\ DOMAIN items = {f} \cup DOMAIN w.items /\ items[f] = track
      /\ \A g \in DOMAIN w.items : g # f => items[g] = w.items[g]
  BY <1>1 DEF Put, Over
<1>5. /\ f \in DOMAIN w.items => track.rating = w.items[f].rating
      /\ seen => track.tags = content[f]
      /\ ~seen /\ f \in DOMAIN w.items => track = w.items[f]
  BY <1>1 DEF Track
<1> QED BY <1>1, <1>3, <1>4, <1>5

LEMMA ReadTrackChanges ==
    ASSUME NEW w \in Jobs, NEW f \in Files, NEW ok, content \in [Files -> Nat],
           NEW a, a = ReadTrack(w, f, ok)
    PROVE  /\ DOMAIN a.items = {f} \cup DOMAIN w.items
           /\ a.tracks = w.tracks /\ a.persisted = w.persisted
           /\ \A g \in DOMAIN w.items :
                 /\ g # f => a.items[g] = w.items[g]
                 /\ a.items[g].rating = w.items[g].rating
           /\ ok /\ f \in present \ w.tried =>
                 a.items[f].tags = content[f] /\ a.read = w.read \cup {f}
           /\ ~(ok /\ f \in present \ w.tried) =>
                 /\ a.read = w.read
                 /\ f \in DOMAIN w.items => a.items[f] = w.items[f]
<1>1. PICK b : b = Read(w, f, ok)
  OBVIOUS
<1>2. b \in Jobs
  BY <1>1, ReadYields
<1>3. a = [b EXCEPT !.observed = b.observed \cup {f}]
  BY <1>1 DEF ReadTrack
<1>4. /\ a.items = b.items /\ a.read = b.read /\ a.tracks = b.tracks
      /\ a.persisted = b.persisted
  BY <1>2, <1>3 DEF Jobs
<1> QED BY <1>1, <1>4, ReadChanges

\* Where it can be loaded, Music.library is what the first scan adds.
LEMMA SeedsMerged ==
    ASSUME MergeSeeds, worker \in Jobs, "unloaded" \notin env,
           NEW m, m = Coming(worker, saved),
           NEW v, v = [worker EXCEPT !.pc = "list", !.items = m]
    PROVE  /\ worker.pc = "files" /\ worker.files = {}
           /\ IF worker.load THEN Deliver(v, Result(v, FALSE, FALSE))
              ELSE WorkerStep(v, messages)
<1>1. PICK seeds \in Seeds(worker) :
          LET w == [worker EXCEPT !.pc = "list",
                        !.items = Over(Over(worker.items, worker.tracks), seeds)]
          IN  IF w.load THEN Deliver(w, Result(w, FALSE, FALSE))
              ELSE WorkerStep(w, messages)
  BY DEF MergeSeeds
<1>2. worker.pc = "files" /\ worker.files = {}
  BY DEF MergeSeeds
<1>3. seeds = IF worker.load THEN saved ELSE worker.persisted
  BY JobFields DEF Seeds
<1>4. m = Over(Over(worker.items, worker.tracks), seeds)
  BY <1>2, <1>3 DEF Coming
<1>5. v.load = worker.load
  BY DEF Jobs
<1> QED BY <1>1, <1>2, <1>4, <1>5

LEMMA Listed ==
    ASSUME ListDirectory
    PROVE  \E todo \in SUBSET present :
              /\ worker.pc = "list" /\ Untagged(worker) = {}
              /\ "unread" \notin env /\ worker.directory => todo = present
              /\ ~worker.directory => todo = {}
              /\ WorkerStep([worker EXCEPT !.pc = "read", !.todo = todo], messages)
BY DEF ListDirectory

LEMMA Verified ==
    ASSUME VerifyMissing
    PROVE  \E missing \in SUBSET (DOMAIN worker.items \ present) :
              /\ worker.pc = "read" /\ worker.todo = {}
              /\ "unread" \notin env /\ worker.directory =>
                    missing = DOMAIN worker.items \ present
              /\ ~worker.directory => missing = {}
              /\ WorkerStep([worker EXCEPT !.pc = "deliver", !.missing = missing],
                            messages)
BY DEF VerifyMissing

-----------------------------------------------------------------------------
(* The ratings: the inductive invariant, about one file f.                 *)

\* Only what RatingHolds is about happens.
Calm(e) == e \cap ({"create", "modify"} \cup Mishaps) = {}

\* An edit of f that a result of revision n does not overwrite, and one that
\* shows f even if the result has not found it.
Edit(l, f, n) == f \in DOMAIN l.edits /\ l.edits[f].revision > n
WholeEdit(l, f, n) == Edit(l, f, n) /\ ~l.edits[f].ratingOnly

\* Wherever the catalogue keeps f it keeps the rating; a rated track that is
\* excluded has lost its file.
RatedHere(l, rt, P, f) ==
    /\ f \in Live(l) => f \in DOMAIN l.persisted
    /\ f \in DOMAIN rt /\ f \notin l.excluded =>
          /\ f \in DOMAIN l.items /\ l.items[f].rating = rt[f]
          /\ l.persisted[f].rating = rt[f]
          /\ f \in DOMAIN l.tracks => l.tracks[f].rating = rt[f]
    /\ f \in DOMAIN rt /\ f \in DOMAIN l.edits => l.edits[f].track.rating = rt[f]
    /\ f \in DOMAIN rt /\ f \in l.excluded => f \notin P

\* The tracks m found by a scan of revision n have f with its rating, or it was
\* edited since.  While the window is open this is so for every live track.
Agrees(l, m, n, rt, f, p) ==
    /\ f \in Live(l) /\ (p = "open" \/ f \in DOMAIN rt) /\ f \notin DOMAIN m =>
          WholeEdit(l, f, n)
    /\ f \in DOMAIN rt /\ f \notin l.excluded /\ f \in DOMAIN m =>
          m[f].rating = rt[f] \/ Edit(l, f, n)

\* A scan goes on from its partial result.
GoesOn(r, m, n, f) == r.revision = n /\ (f \in DOMAIN r.items => f \in DOMAIN m)

Lineage(w, ms, s, f) ==
    \A r \in Results : Pending(r, w, ms, s) /\ ~r.complete =>
        /\ w.pc \in Running => GoesOn(r, w.items, w.revision, f)
        /\ \A q \in Results : Pending(q, w, ms, s) /\ q.complete =>
              GoesOn(r, q.items, q.revision, f)

Scanned(l, w, ms, s, sv, rt, f, p) ==
    /\ w.pc \in Running => Agrees(l, Coming(w, sv), w.revision, rt, f, p)
    /\ \A r \in Results : Pending(r, w, ms, s) =>
          Agrees(l, r.items, r.revision, rt, f, p)

Ratings(l, w, ms, s, sv, rt, P, f, p) ==
    /\ RatedHere(l, rt, P, f)
    /\ Scanned(l, w, ms, s, sv, rt, f, p)
    /\ Lineage(w, ms, s, f)

\* Only a complete result is refused.
Whole(w) == w.unposted # NoResult => w.unposted.complete

SavedRating(sv, rt, f) ==
    f \in DOMAIN rt /\ f \in DOMAIN sv => sv[f].rating = rt[f]

QInv ==
    Calm(env) =>
        /\ RInv
        /\ Whole(worker)
        /\ \A f \in Files :
              /\ Ratings(lib, worker, messages, scan, saved, rated, present, f, phase)
              /\ phase = "closed" => SavedRating(saved, rated, f)

-----------------------------------------------------------------------------
(* What a handler does to the catalogue.                                   *)

\* From l and rt to a and q, f is left alone or taken out, edited as a whole,
\* or rated while it is live and the window open.
Follows(l, a, rt, q, f, p) ==
    \/ /\ f \in Live(a) => f \in Live(l)
       /\ f \in DOMAIN q /\ f \notin a.excluded =>
             f \in DOMAIN rt /\ f \notin l.excluded /\ q[f] = rt[f]
       /\ f \in DOMAIN q => f \in DOMAIN rt
       /\ f \in DOMAIN l.edits => f \in DOMAIN a.edits /\ a.edits[f] = l.edits[f]
    \/ /\ f \in DOMAIN a.edits /\ a.edits[f].revision = l.revision + 1
       /\ ~a.edits[f].ratingOnly
    \/ /\ f \in Live(l) /\ p = "open"
       /\ f \in DOMAIN a.edits /\ a.edits[f].revision = l.revision + 1
       /\ f \in DOMAIN l.edits /\ ~l.edits[f].ratingOnly => ~a.edits[f].ratingOnly

LEMMA AgreesFollows ==
    ASSUME NEW l, l.revision \in Nat, NEW a, NEW rt, NEW q, NEW f, NEW p,
           Follows(l, a, rt, q, f, p), NEW n \in Nat, n <= l.revision,
           NEW m, Agrees(l, m, n, rt, f, p)
    PROVE  Agrees(a, m, n, q, f, p)
<1>1. l.revision + 1 > n
  OBVIOUS
<1>2. CASE /\ f \in Live(a) => f \in Live(l)
           /\ f \in DOMAIN q /\ f \notin a.excluded =>
                 f \in DOMAIN rt /\ f \notin l.excluded /\ q[f] = rt[f]
           /\ f \in DOMAIN q => f \in DOMAIN rt
           /\ f \in DOMAIN l.edits => f \in DOMAIN a.edits /\ a.edits[f] = l.edits[f]
  <2>1. Edit(l, f, n) => Edit(a, f, n) /\ (WholeEdit(l, f, n) => WholeEdit(a, f, n))
    BY <1>2 DEF Edit, WholeEdit
  <2> QED BY <1>2, <2>1 DEF Agrees, WholeEdit
<1>3. CASE /\ f \in DOMAIN a.edits /\ a.edits[f].revision = l.revision + 1
           /\ ~a.edits[f].ratingOnly
  <2>1. WholeEdit(a, f, n) /\ Edit(a, f, n)
    BY <1>1, <1>3 DEF WholeEdit, Edit
  <2> QED BY <2>1 DEF Agrees
<1>4. CASE /\ f \in Live(l) /\ p = "open"
           /\ f \in DOMAIN a.edits /\ a.edits[f].revision = l.revision + 1
           /\ f \in DOMAIN l.edits /\ ~l.edits[f].ratingOnly => ~a.edits[f].ratingOnly
  <2>1. Edit(a, f, n)
    BY <1>1, <1>4 DEF Edit
  <2>2. f \notin DOMAIN m => WholeEdit(a, f, n)
    BY <1>4, <2>1 DEF Agrees, WholeEdit, Edit
  <2> QED BY <2>1, <2>2 DEF Agrees
<1> QED BY <1>2, <1>3, <1>4 DEF Follows

LEMMA RatingsFollow ==
    ASSUME NEW l \in Catalogue, NEW w \in Jobs \cup {NoWorker}, NEW ms \in Seq(Messages),
           NEW s, Sound(l, w, ms, s), NEW a, NEW rt, NEW q, NEW P, NEW f, NEW p, NEW sv,
           Follows(l, a, rt, q, f, p), Ratings(l, w, ms, s, sv, rt, P, f, p),
           RatedHere(a, q, P, f)
    PROVE  Ratings(a, w, ms, s, sv, q, P, f, p)
<1>1. /\ l.revision \in Nat /\ Numbered(w, l.revision, s) /\ MailStamped(ms, l.revision)
  BY CatalogueFields DEF Sound
<1>2. ASSUME w.pc \in Running
      PROVE  Agrees(a, Coming(w, sv), w.revision, q, f, p)
  <2>1. w \in Jobs
    BY <1>2, WorkerFields DEF Running
  <2>2. w.revision \in Nat /\ w.revision <= l.revision
    BY <1>1, <2>1, JobFields DEF Numbered
  <2>3. Agrees(l, Coming(w, sv), w.revision, rt, f, p)
    BY <1>2 DEF Ratings, Scanned
  <2> QED BY <1>1, <2>2, <2>3, AgreesFollows
<1>3. ASSUME NEW r \in Results, Pending(r, w, ms, s)
      PROVE  Agrees(a, r.items, r.revision, q, f, p)
  <2>1. r.revision \in Nat /\ r.revision <= l.revision
    BY <1>1, <1>3, PendingFields
  <2>2. Agrees(l, r.items, r.revision, rt, f, p)
    BY <1>3 DEF Ratings, Scanned
  <2> QED BY <1>1, <2>1, <2>2, AgreesFollows
<1>4. Lineage(w, ms, s, f)
  BY DEF Ratings
<1> QED BY <1>2, <1>3, <1>4 DEF Ratings, Scanned

\* A scan that starts takes its seeds from the catalogue.
LEMMA RatingsAtStart ==
    ASSUME NEW l \in Catalogue, NEW ms \in Seq(Messages), NEW s \in Nat,
           Sound(l, NoWorker, ms, s), l.loaded,
           NEW sv, NEW rt, NEW P, NEW f, NEW p,
           Ratings(l, NoWorker, ms, s, sv, rt, P, f, p),
           NEW a, a = [l EXCEPT !.files = {}, !.directory = FALSE, !.tracks = None],
           NEW j, j = Job(l, s + 1)
    PROVE  Ratings(a, j, ms, s + 1, sv, rt, P, f, p) /\ Whole(j)
<1>1. /\ a.items = l.items /\ a.persisted = l.persisted /\ a.edits = l.edits
      /\ a.excluded = l.excluded /\ a.tracks = None /\ DOMAIN None = {}
  BY NothingIs DEF Catalogue
<1>2. RatedHere(a, rt, P, f)
  BY <1>1 DEF Ratings, RatedHere, Live
<1>3. /\ j.pc = "files" /\ j.unposted = NoResult /\ j.load = FALSE
      /\ j.items = None /\ j.tracks = l.tracks /\ j.persisted = l.persisted
  BY DEF Job
<1>4. \A r : ~Pending(r, j, ms, s + 1)
  <2>1. \A i \in DOMAIN ms : ~Current(ms[i], s + 1)
    <3>1. MailOK(ms, s)
      BY DEF Sound, Protocol
    <3> QED BY <3>1, NewScanHasNoMail
  <2> QED BY <1>3, <2>1 DEF Pending
<1>5. PICK m : m = Coming(j, sv)
  OBVIOUS
<1>6. m = Over(Over(None, l.tracks), l.persisted)
  BY <1>3, <1>5 DEF Coming
<1>7. /\ f \in DOMAIN l.persisted => f \in DOMAIN m
      /\ f \in DOMAIN m => f \in DOMAIN l.tracks \/ f \in DOMAIN l.persisted
      /\ f \in DOMAIN l.tracks => m[f] = l.tracks[f]
      /\ f \in DOMAIN l.persisted /\ f \notin DOMAIN l.tracks => m[f] = l.persisted[f]
  BY <1>1, <1>6 DEF Over
<1>8. Agrees(a, m, j.revision, rt, f, p)
  <2>1. f \in Live(a) => f \in DOMAIN m
    BY <1>2, <1>1, <1>7 DEF RatedHere
  <2>2. f \in DOMAIN rt /\ f \notin a.excluded /\ f \in DOMAIN m => m[f].rating = rt[f]
    BY <1>1, <1>7 DEF Ratings, RatedHere
  <2> QED BY <2>1, <2>2 DEF Agrees
<1>9. Scanned(a, j, ms, s + 1, sv, rt, f, p) /\ Lineage(j, ms, s + 1, f)
  BY <1>4, <1>5, <1>8 DEF Scanned, Lineage
<1> QED BY <1>2, <1>3, <1>9 DEF Ratings, Whole

LEMMA RatingsAtEnd ==
    ASSUME scan \in Nat,
           NEW l \in Catalogue, NEW idx \in BOOLEAN, NEW w \in Jobs \cup {NoWorker},
           NEW ms \in Seq(Messages), NEW sv, NEW rt, NEW P, NEW f, NEW p,
           Ends(l, idx, w), Sound(l, w, ms, scan), Loading(l, idx, w, ms, scan),
           Ratings(l, w, ms, scan, sv, rt, P, f, p), Whole(w)
    PROVE  Ratings(lib', worker', ms, scan', sv, rt, P, f, p) /\ Whole(worker')
<1>1. CASE lib' = l /\ worker' = w /\ scan' = scan
  BY <1>1
<1>2. CASE /\ lib' = [l EXCEPT !.files = {}, !.directory = FALSE, !.tracks = None]
           /\ scan' = scan + 1 /\ worker' = Job(l, scan + 1)
           /\ idx = FALSE /\ w = NoWorker
  <2>1. PICK a, j, s : a = lib' /\ j = worker' /\ s = scan
    OBVIOUS
  <2>2. /\ a = [l EXCEPT !.files = {}, !.directory = FALSE, !.tracks = None]
        /\ j = Job(l, s + 1) /\ s \in Nat
    BY <1>2, <2>1
  <2>3. Sound(l, NoWorker, ms, s) /\ Ratings(l, NoWorker, ms, s, sv, rt, P, f, p)
    BY <1>2, <2>1
  <2>4. l.loaded
    BY <1>2 DEF Loading
  <2>5. Ratings(a, j, ms, s + 1, sv, rt, P, f, p) /\ Whole(j)
    BY <2>2, <2>3, <2>4, RatingsAtStart
  <2> QED BY <1>2, <2>1, <2>5
<1>3. idx = FALSE \/ idx = TRUE
  OBVIOUS
<1> QED BY <1>1, <1>2, <1>3 DEF Ends, Refresh, Settle

-----------------------------------------------------------------------------
(* What a result does to the catalogue.                                    *)

\* What a result leaves of a track that is not excluded.
LEMMA AppliedItems ==
    ASSUME NEW l \in Catalogue, NEW r \in Results, NEW a, a = Applied(l, r),
           NEW f, f \notin a.excluded
    PROVE  /\ f \in DOMAIN a.items <=> f \in DOMAIN r.items \/ WholeEdit(l, f, r.revision)
           /\ f \in DOMAIN a.items /\ Edit(l, f, r.revision) =>
                 a.items[f].rating = l.edits[f].track.rating
           /\ f \in DOMAIN a.items /\ ~Edit(l, f, r.revision) => a.items[f] = r.items[f]
<1>0. PICK e, S : e = a.items /\ S = a.excluded
  OBVIOUS
<1>1. e = Edited(r.items, l, r, S) /\ f \notin S
  BY <1>0, AppliedYields
<1>2. PICK whole, stars, edited, starred, under :
          /\ whole = {x \in Newer(l.edits, r.revision) \ S : ~l.edits[x].ratingOnly}
          /\ stars = {x \in (Newer(l.edits, r.revision) \ S) \ whole : x \in DOMAIN r.items}
          /\ edited = [x \in whole |-> l.edits[x].track]
          /\ starred = [x \in stars |-> Track(r.items[x].tags, l.edits[x].track.rating)]
          /\ under = Over(starred, r.items)
  OBVIOUS
<1>3. e = Over(edited, under)
  BY <1>1, <1>2 DEF Edited
<1>4. /\ f \in Newer(l.edits, r.revision) <=> Edit(l, f, r.revision)
      /\ f \in whole <=> WholeEdit(l, f, r.revision)
      /\ f \in stars <=> /\ Edit(l, f, r.revision) /\ ~WholeEdit(l, f, r.revision)
                         /\ f \in DOMAIN r.items
  BY <1>1, <1>2 DEF Newer, Edit, WholeEdit
<1>5. /\ f \in DOMAIN under <=> f \in stars \/ f \in DOMAIN r.items
      /\ f \in stars => under[f].rating = l.edits[f].track.rating
      /\ f \in DOMAIN r.items /\ f \notin stars => under[f] = r.items[f]
  BY <1>2 DEF Over, Track
<1>6. /\ f \in DOMAIN e <=> f \in whole \/ f \in DOMAIN under
      /\ f \in whole => e[f] = l.edits[f].track
      /\ f \in DOMAIN under /\ f \notin whole => e[f] = under[f]
  BY <1>2, <1>3 DEF Over
<1> QED BY <1>0, <1>4, <1>5, <1>6 DEF WholeEdit

\* What Applied does to f where f is not excluded afterwards.
LEMMA AppliedRates ==
    ASSUME NEW l \in Catalogue, NEW r \in Results, NEW a, a = Applied(l, r), NEW f
    PROVE  /\ a.loaded => /\ f \in DOMAIN a.persisted <=> f \in Live(a)
                          /\ f \in Live(a) => a.persisted[f] = a.items[f]
           /\ f \in DOMAIN a.tracks <=> f \in DOMAIN l.tracks
           /\ f \in DOMAIN a.tracks => a.tracks[f].rating = l.tracks[f].rating
           /\ f \in DOMAIN a.edits => f \in DOMAIN l.edits /\ a.edits[f] = l.edits[f]
           /\ f \in DOMAIN l.edits /\ (r.complete => Edit(l, f, r.revision)) =>
                 f \in DOMAIN a.edits
<1>0. PICK x, items, live, loaded, tracks, persisted, S, T :
          /\ x = Exclusions(l, r)
          /\ items = Edited(r.items, l, r, x.excluded)
          /\ live = DOMAIN items \ x.excluded
          /\ loaded = (l.loaded \/ r.loads)
          /\ tracks = Republished(l.tracks, items, r.read \cap live)
          /\ persisted = IF loaded THEN [g \in live |-> items[g]] ELSE l.persisted
          /\ S = IF r.complete THEN Older(l.edits, r.revision) ELSE {}
          /\ T = IF r.complete THEN Older(l.fileChanges, r.revision) ELSE {}
  OBVIOUS
<1>1. a = [l EXCEPT !.removed = x.removed, !.excluded = x.excluded, !.items = items,
                    !.edits = Without(l.edits, S),
                    !.fileChanges = Without(l.fileChanges, T),
                    !.loaded = loaded, !.persisted = persisted, !.tracks = tracks]
  BY <1>0 DEF Applied
<1>2. /\ a.items = items /\ a.excluded = x.excluded /\ a.loaded = loaded
      /\ a.persisted = persisted /\ a.tracks = tracks /\ a.edits = Without(l.edits, S)
  BY <1>1 DEF Catalogue
<1>3. live = Live(a)
  BY <1>0, <1>2 DEF Live
<1>4. loaded => /\ f \in DOMAIN persisted <=> f \in live
                /\ f \in live => persisted[f] = items[f]
  BY <1>0
<1>5. /\ f \in DOMAIN tracks <=> f \in DOMAIN l.tracks
      /\ f \in DOMAIN tracks => tracks[f].rating = l.tracks[f].rating
  BY <1>0 DEF Republished, Track
<1>6. /\ f \in DOMAIN Without(l.edits, S) =>
             f \in DOMAIN l.edits /\ Without(l.edits, S)[f] = l.edits[f]
      /\ f \in DOMAIN l.edits /\ f \notin S => f \in DOMAIN Without(l.edits, S)
  BY DEF Without
<1>7. r.complete /\ Edit(l, f, r.revision) => f \notin S
  BY <1>0 DEF Older, Newer, Edit
<1>8. ~r.complete => f \notin S
  BY <1>0
<1> QED BY <1>2, <1>3, <1>4, <1>5, <1>6, <1>7, <1>8

\* A result that agrees with the ratings leaves them as they are.
LEMMA RatedApplied ==
    ASSUME NEW l \in Catalogue, NEW r \in Results, NEW a, a = Applied(l, r), a.loaded,
           NEW P, \A g \in DOMAIN l.fileChanges : g \notin P /\ l.fileChanges[g].removed,
           After(l, r.observed, r.revision), r.missing \cap P = {},
           NEW rt, NEW f, NEW p, RatedHere(l, rt, P, f),
           Agrees(l, r.items, r.revision, rt, f, p)
    PROVE  RatedHere(a, rt, P, f)
<1>1. l.excluded \subseteq a.excluded
  BY AppliedExcludes
<1>2. a.excluded = Exclusions(l, r).excluded /\ a.items = Edited(r.items, l, r, a.excluded)
  BY AppliedYields
<1>8. ASSUME f \notin a.excluded
      PROVE  /\ f \in DOMAIN a.items <=> f \in DOMAIN r.items \/ WholeEdit(l, f, r.revision)
             /\ f \in DOMAIN a.items /\ Edit(l, f, r.revision) =>
                   a.items[f].rating = l.edits[f].track.rating
             /\ f \in DOMAIN a.items /\ ~Edit(l, f, r.revision) => a.items[f] = r.items[f]
  BY <1>8, AppliedItems
<1>3. f \in a.excluded /\ f \notin l.excluded => f \notin P
  <2>1. f \in a.excluded /\ f \notin l.excluded =>
            f \in r.missing \/ (f \in DOMAIN l.fileChanges)
    BY <1>2 DEF Exclusions, Newer
  <2> QED BY <2>1
<1>4. f \in Live(a) => f \in DOMAIN a.persisted
  BY AppliedRates
<1>5. ASSUME f \in DOMAIN rt, f \notin a.excluded
      PROVE  /\ f \in DOMAIN a.items /\ a.items[f].rating = rt[f]
             /\ a.persisted[f].rating = rt[f]
             /\ f \in DOMAIN a.tracks => a.tracks[f].rating = rt[f]
  <2>1. f \notin l.excluded /\ f \in DOMAIN l.items /\ f \in Live(l)
    BY <1>1, <1>5 DEF RatedHere, Live
  <2>2. f \in DOMAIN r.items \/ WholeEdit(l, f, r.revision)
    BY <1>5, <2>1 DEF Agrees
  <2>3. f \in DOMAIN a.items
    BY <1>5, <1>8, <2>2
  <2>4. a.items[f].rating = rt[f]
    <3>1. CASE Edit(l, f, r.revision)
      <4>1. a.items[f].rating = l.edits[f].track.rating
        BY <1>5, <1>8, <2>3, <3>1
      <4> QED BY <1>5, <3>1, <4>1 DEF RatedHere, Edit
    <3>2. CASE ~Edit(l, f, r.revision)
      <4>1. a.items[f] = r.items[f] /\ f \in DOMAIN r.items
        BY <1>5, <1>8, <2>2, <2>3, <3>2 DEF WholeEdit
      <4> QED BY <1>5, <2>1, <3>2, <4>1 DEF Agrees
    <3> QED BY <3>1, <3>2
  <2>5. f \in Live(a)
    BY <1>5, <2>3 DEF Live
  <2>6. a.persisted[f] = a.items[f]
    BY <2>5, AppliedRates
  <2>7. f \in DOMAIN a.tracks => f \in DOMAIN l.tracks /\ a.tracks[f].rating = l.tracks[f].rating
    BY AppliedRates
  <2> QED BY <1>5, <2>1, <2>3, <2>4, <2>6, <2>7 DEF RatedHere
<1>6. f \in DOMAIN rt /\ f \in DOMAIN a.edits => a.edits[f].track.rating = rt[f]
  BY AppliedRates DEF RatedHere
<1>7. f \in DOMAIN rt /\ f \in a.excluded => f \notin P
  BY <1>3 DEF RatedHere
<1> QED BY <1>4, <1>5, <1>6, <1>7 DEF RatedHere

\* The tracks m of a later result of the scan still agree once its partial
\* result r has been applied, and, when the window is closing, those of a
\* partial one after the complete one.
LEMMA AgreesApplied ==
    ASSUME NEW l \in Catalogue, NEW r \in Results, NEW a, a = Applied(l, r),
           l.excluded \subseteq a.excluded,
           NEW rt, NEW P, NEW f, NEW p, RatedHere(l, rt, P, f),
           NEW n, NEW m, Agrees(l, m, n, rt, f, p), n = r.revision,
           p = "open" => ~r.complete,
           ~r.complete => (f \in DOMAIN r.items => f \in DOMAIN m)
    PROVE  Agrees(a, m, n, rt, f, p)
<1>1. Edit(l, f, n) => Edit(a, f, n) /\ (WholeEdit(l, f, n) => WholeEdit(a, f, n))
  BY AppliedRates DEF Edit, WholeEdit
<1>2. ASSUME f \in Live(a), p = "open" \/ f \in DOMAIN rt, f \notin DOMAIN m
      PROVE  WholeEdit(a, f, n)
  <2>1. f \in DOMAIN a.items /\ f \notin a.excluded /\ f \notin l.excluded
    BY <1>2 DEF Live
  <2>2. CASE f \in DOMAIN rt
    <3>1. f \in Live(l)
      BY <2>1, <2>2 DEF RatedHere, Live
    <3> QED BY <1>1, <1>2, <2>2, <3>1 DEF Agrees, WholeEdit
  <2>3. CASE p = "open"
    <3>1. f \notin DOMAIN r.items
      BY <1>2, <2>3
    <3>2. WholeEdit(l, f, r.revision)
      BY <2>1, <3>1, AppliedItems
    <3> QED BY <1>1, <3>2 DEF WholeEdit
  <2> QED BY <1>2, <2>2, <2>3
<1>3. f \in DOMAIN rt /\ f \notin a.excluded /\ f \in DOMAIN m =>
          m[f].rating = rt[f] \/ Edit(a, f, n)
  BY <1>1 DEF Agrees
<1> QED BY <1>2, <1>3 DEF Agrees

\* What a result of the last scan is when the window receives it.
Succeeds(r, l, w, ms, s, P, rt, f, p) ==
    /\ \A g \in DOMAIN l.fileChanges : g \notin P /\ l.fileChanges[g].removed
    /\ r.missing \cap P = {} /\ After(l, r.observed, r.revision)
    /\ ~l.loaded => r.loads /\ ~r.failed
    /\ Agrees(l, r.items, r.revision, rt, f, p)
    /\ w.pc \in Running =>
          ~r.complete /\ w.pc # "files" /\ GoesOn(r, w.items, w.revision, f)
    /\ \A q \in Results : Pending(q, w, ms, s) =>
          IF r.complete THEN p # "open" /\ q.revision = r.revision
          ELSE GoesOn(r, q.items, q.revision, f)

LEMMA RatingsApplied ==
    ASSUME scan \in Nat, refreshPending \in BOOLEAN, indexing \in BOOLEAN,
           lib \in Catalogue, NEW r \in Results, r.revision <= lib.revision,
           NEW w \in Jobs \cup {NoWorker}, NEW ms \in Seq(Messages), Apply(r, w),
           Sound(lib, w, ms, scan), NEW sv, NEW P, NEW rt, NEW f, NEW p,
           Ratings(lib, w, ms, scan, sv, rt, P, f, p), Whole(w),
           r.generation # scan => Loading(lib, indexing, w, ms, scan),
           r.generation = scan => Succeeds(r, lib, w, ms, scan, P, rt, f, p)
    PROVE  Ratings(lib', worker', ms, scan', sv, rt, P, f, p) /\ Whole(worker')
<1>1. PICK l, idx :
          /\ l = IF r.generation = scan /\ ~r.failed THEN Applied(lib, r) ELSE lib
          /\ idx = IF r.generation = scan THEN ~r.complete ELSE indexing
  OBVIOUS
<1>2. Ends(l, idx, w) /\ idx \in BOOLEAN
  BY <1>1, ResultFields DEF Apply, Ends
<1>3. CASE r.generation # scan
  BY <1>1, <1>2, <1>3, RatingsAtEnd
<1>4. CASE r.generation = scan /\ r.failed
  <2>1. lib.loaded
    BY <1>4 DEF Succeeds
  <2>2. l = lib /\ Loading(l, idx, w, ms, scan)
    BY <1>1, <1>4, <2>1 DEF Loading
  <2> QED BY <1>2, <2>2, RatingsAtEnd
<1>5. CASE r.generation = scan /\ ~r.failed
  <2>1. Succeeds(r, lib, w, ms, scan, P, rt, f, p) /\ l = Applied(lib, r)
    BY <1>1, <1>5
  <2>2. /\ l \in Catalogue /\ l.revision = lib.revision
        /\ l.loaded = (lib.loaded \/ r.loads)
    BY <2>1, AppliedYields
  <2>3. l.loaded
    BY <2>1, <2>2 DEF Succeeds
  <2>4. Sound(l, w, ms, scan)
    <3>1. Stamped(l)
      BY <2>1, AppliedStamped DEF Sound
    <3> QED BY <2>2, <3>1 DEF Sound
  <2>5. RatedHere(lib, rt, P, f)
    BY DEF Ratings
  <2>6. RatedHere(l, rt, P, f)
    BY <2>1, <2>3, <2>5, RatedApplied DEF Succeeds
  <2>7. lib.excluded \subseteq l.excluded
    BY <2>1, AppliedExcludes DEF Succeeds
  <2>8. ASSUME w.pc \in Running
        PROVE  Agrees(l, Coming(w, sv), w.revision, rt, f, p)
    <3>1. ~r.complete /\ w.pc # "files" /\ GoesOn(r, w.items, w.revision, f)
      BY <2>1, <2>8 DEF Succeeds
    <3>2. Coming(w, sv) = w.items
      BY <3>1 DEF Coming
    <3>3. Agrees(lib, w.items, w.revision, rt, f, p)
      BY <2>8, <3>2 DEF Ratings, Scanned
    <3>4. Agrees(l, w.items, w.revision, rt, f, p)
      BY <2>1, <2>5, <2>7, <3>1, <3>3, AgreesApplied DEF GoesOn
    <3> QED BY <3>2, <3>4
  <2>9. ASSUME NEW q \in Results, Pending(q, w, ms, scan)
        PROVE  Agrees(l, q.items, q.revision, rt, f, p)
    <3>1. Agrees(lib, q.items, q.revision, rt, f, p)
      BY <2>9 DEF Ratings, Scanned
    <3>2. /\ q.revision = r.revision /\ (p = "open" => ~r.complete)
          /\ ~r.complete => (f \in DOMAIN r.items => f \in DOMAIN q.items)
      BY <2>1, <2>9 DEF Succeeds, GoesOn
    <3> QED BY <2>1, <2>5, <2>7, <3>1, <3>2, AgreesApplied
  <2>10. Ratings(l, w, ms, scan, sv, rt, P, f, p)
    BY <2>6, <2>8, <2>9 DEF Ratings, Scanned
  <2>11. Loading(l, idx, w, ms, scan)
    BY <2>3 DEF Loading
  <2> QED BY <1>2, <2>2, <2>4, <2>10, <2>11, RatingsAtEnd
<1> QED BY <1>3, <1>4, <1>5

-----------------------------------------------------------------------------
(* The directory and its monitor.                                          *)

LEMMA CalmStays ==
    ASSUME NEW e, NEW d, SameHazards(e, d), Calm(d)
    PROVE  Calm(e)
BY DEF Calm, Mishaps, SameHazards

\* What QInv takes from RInv.
LEMMA CalmYields ==
    ASSUME QInv, Calm(env)
    PROVE  /\ RInv /\ IInv /\ Typed /\ Whole(worker)
           /\ Removals(lib, indexing, worker, messages, scan, present, env)
           /\ Loading(lib, indexing, worker, messages, scan)
           /\ Unmodified(lib, worker, messages)
           /\ Sound(lib, worker, messages, scan)
           /\ lib \in Catalogue /\ worker \in Jobs \cup {NoWorker}
           /\ messages \in Seq(Messages) /\ scan \in Nat
           /\ indexing \in BOOLEAN /\ refreshPending \in BOOLEAN
           /\ rated \in Entries(Nat) /\ saved \in Tracks
           /\ \A f \in Files :
                 Ratings(lib, worker, messages, scan, saved, rated, present, f, phase)
<1>1. "create" \notin env /\ "recreate" \notin env /\ "throw" \notin env /\ "modify" \notin env
  BY DEF Calm, Mishaps
<1>2. RInv /\ IInv /\ Typed
  BY DEF QInv, RInv, IInv
<1>3. Removals(lib, indexing, worker, messages, scan, present, env)
  BY <1>1, <1>2 DEF RInv, Avoids
<1> QED BY <1>1, <1>2, <1>3
        DEF QInv, Removals, Standing, Partials, IInv, Typed, MonitorTyped, LibraryTyped

\* Files only disappear, and notifications are posted.
LEMMA RatingsPosted ==
    ASSUME NEW l, NEW w, NEW ms \in Seq(Messages), NEW s \in Nat, NEW sv, NEW rt,
           NEW P, NEW Q, NEW f, NEW p, Ratings(l, w, ms, s, sv, rt, P, f, p), Q \subseteq P,
           NEW cs \in Seq(Changes \cup Rescans), NEW all, all = ms \o cs
    PROVE  Ratings(l, w, all, s, sv, rt, Q, f, p)
<1>1. \A i \in DOMAIN all : \/ \E j \in DOMAIN ms : all[i] = ms[j]
                            \/ \E k \in DOMAIN cs : all[i] = cs[k]
  BY ChangesBehind
<1>2. \A k \in DOMAIN cs : ~Current(cs[k], s)
  <2>1. \A k \in DOMAIN cs : cs[k] \in Changes \cup Rescans
    OBVIOUS
  <2> QED BY <2>1, ChangesAreNotCurrent
<1>3. \A q : Pending(q, w, all, s) => Pending(q, w, ms, s)
  BY <1>1, <1>2 DEF Pending
<1>4. RatedHere(l, rt, Q, f)
  BY DEF Ratings, RatedHere
<1>5. Scanned(l, w, all, s, sv, rt, f, p) /\ Lineage(w, all, s, f)
  BY <1>3 DEF Ratings, Scanned, Lineage
<1> QED BY <1>4, <1>5 DEF Ratings

\* The step leaves the library alone.
LEMMA OutsideRates ==
    ASSUME QInv, RInv => RInv', SameHazards(env, env'), present' \subseteq present,
           UNCHANGED libraryVars,
           NEW cs \in Seq(Changes \cup Rescans), messages' = messages \o cs
    PROVE  QInv'
<1> SUFFICES ASSUME Calm(env') PROVE QInv'
  BY DEF QInv
<1>1. Calm(env)
  BY CalmStays
<1>2. UNCHANGED <<lib, worker, scan, phase, saved, rated>>
  BY DEF libraryVars, history
<1>3. ASSUME NEW f \in Files
      PROVE  /\ Ratings(lib, worker, messages', scan, saved, rated, present', f, phase)
             /\ phase = "closed" => SavedRating(saved, rated, f)
  <2>1. Ratings(lib, worker, messages, scan, saved, rated, present, f, phase)
        /\ messages \in Seq(Messages) /\ scan \in Nat
    BY <1>1, CalmYields
  <2>2. Ratings(lib, worker, messages', scan, saved, rated, present', f, phase)
    BY <2>1, RatingsPosted
  <2> QED BY <1>1, <2>2 DEF QInv
<1> QED BY <1>1, <1>2, <1>3 DEF QInv

LEMMA DirectoryWriteRates == QInv /\ DirectoryWrite => QInv'
<1> SUFFICES ASSUME QInv, DirectoryWrite, Calm(env') PROVE QInv'
  BY DEF QInv
<1>1. UNCHANGED libraryVars
  BY DEF DirectoryWrite
<1>2. PICK f \in Files : CreateFile(f) \/ ModifyFile(f) \/ RemoveFile(f)
  BY DEF DirectoryWrite
<1>3. env' = env /\ messages' = messages
  BY <1>2 DEF CreateFile, ModifyFile, RemoveFile, Written
<1>4. ~CreateFile(f)
  BY <1>3 DEF CreateFile, Calm, Mishaps
<1>5. present' \subseteq present
  BY <1>2, <1>4 DEF ModifyFile, RemoveFile
<1>6. messages \in Seq(Messages)
  BY <1>3, CalmYields
<1>7. <<>> \in Seq(Changes \cup Rescans) /\ messages' = messages \o <<>>
  BY <1>3, <1>6, NothingPosted
<1>8. SameHazards(env, env')
  BY <1>3 DEF SameHazards
<1> QED BY <1>1, <1>5, <1>7, <1>8, DirectoryWriteLeaves, OutsideRates

LEMMA WatchRates == QInv /\ Watch => QInv'
<1> SUFFICES ASSUME QInv, Watch, Calm(env') PROVE QInv'
  BY DEF QInv
<1>1. UNCHANGED diskVars /\ UNCHANGED libraryVars /\ SameHazards(env, env')
  BY DEF Watch, WatchStep, OpenWatch, AnnounceScan, ReadBatch, DropRecord, ReadOverflow,
         Rearm, RearmFails, SameHazards
<1>2. Typed
  BY <1>1, CalmStays, CalmYields
<1>3. PICK cs \in Seq(Changes \cup Rescans) : messages' = messages \o cs
  BY <1>2, WatchPosts
<1>4. present' \subseteq present
  BY <1>1 DEF diskVars
<1> QED BY <1>1, <1>3, <1>4, WatchLeaves, OutsideRates

-----------------------------------------------------------------------------
(* The scan worker.                                                        *)

\* k has f as m has it, or m did not have it.
Preserves(m, k, f) == f \in DOMAIN m => f \in DOMAIN k /\ k[f].rating = m[f].rating

LEMMA AgreesPreserved ==
    ASSUME NEW l, NEW rt, NEW P, NEW f, NEW p, RatedHere(l, rt, P, f),
           NEW n, NEW m, Agrees(l, m, n, rt, f, p), NEW k, Preserves(m, k, f)
    PROVE  Agrees(l, k, n, rt, f, p)
<1>1. f \in Live(l) /\ (p = "open" \/ f \in DOMAIN rt) /\ f \notin DOMAIN k =>
          WholeEdit(l, f, n)
  BY DEF Agrees, Preserves
<1>2. ASSUME f \in DOMAIN rt, f \notin l.excluded, f \in DOMAIN k
      PROVE  k[f].rating = rt[f] \/ Edit(l, f, n)
  <2>1. CASE f \in DOMAIN m
    BY <1>2, <2>1 DEF Agrees, Preserves
  <2>2. CASE f \notin DOMAIN m
    <3>1. f \in Live(l)
      BY <1>2 DEF RatedHere, Live
    <3> QED BY <1>2, <2>2, <3>1 DEF Agrees, WholeEdit
  <2> QED BY <2>1, <2>2
<1> QED BY <1>1, <1>2 DEF Agrees

\* A step of the worker goes on from the tracks it has or is going to have.
GoingOn(w) ==
    /\ worker.pc \in Running /\ w.pc \in Running
    /\ w.unposted = worker.unposted /\ messages' = messages
    /\ \A f \in Files :
          /\ f \in DOMAIN worker.items => f \in DOMAIN w.items
          /\ Preserves(Coming(worker, saved), Coming(w, saved), f)

\* Or it hands them over.
HandingOver(w, r) ==
    /\ r.revision = worker.revision /\ r.items = Coming(worker, saved)
    /\ IF r.complete THEN worker.pc = "deliver" /\ w.pc = "done"
       ELSE worker.pc = "files" /\ w.pc = "list" /\ w.items = r.items
    /\ \/ messages' = Append(messages, r) /\ w.unposted = worker.unposted
       \/ messages' = messages /\ w.unposted = r /\ r.complete

LEMMA HandedOver ==
    ASSUME worker \in Jobs, Calm(env), NEW v \in Jobs, v.unposted = worker.unposted,
           v.revision = worker.revision, v.items = Coming(worker, saved),
           NEW c \in BOOLEAN,
           IF c THEN worker.pc = "deliver" /\ v.pc = "done"
           ELSE worker.pc = "files" /\ v.pc = "list",
           Deliver(v, Result(IF c THEN worker ELSE v, c, FALSE))
    PROVE  \E w \in Jobs : /\ worker' = w /\ w.revision = worker.revision
                           /\ \E r \in Results : HandingOver(w, r)
<1>1. PICK r \in Results : /\ r = Result(IF c THEN worker ELSE v, c, FALSE)
                           /\ r.complete = c /\ r.revision = worker.revision
                           /\ r.items = Coming(worker, saved)
  <2>1. PICK u \in Jobs : u = (IF c THEN worker ELSE v)
    OBVIOUS
  <2>2. u.revision = worker.revision /\ u.items = Coming(worker, saved)
    <3>1. CASE c
      BY <2>1, <3>1 DEF Coming
    <3>2. CASE ~c
      BY <2>1, <3>2
    <3> QED BY <3>1, <3>2
  <2>3. PICK r : r = Result(u, c, FALSE)
    OBVIOUS
  <2>4. r \in Results /\ r.complete = c /\ r.revision = u.revision /\ r.items = u.items
    BY <2>3, ResultYields
  <2> QED BY <2>1, <2>2, <2>3, <2>4
<1>2. CASE WorkerStep([v EXCEPT !.posted = TRUE], Append(messages, r))
  <2>1. PICK w : w = [v EXCEPT !.posted = TRUE]
    OBVIOUS
  <2>2. /\ w \in Jobs /\ w.pc = v.pc /\ w.revision = v.revision
        /\ w.unposted = v.unposted /\ w.items = v.items
    BY <2>1 DEF Jobs
  <2>3. worker' = w /\ messages' = Append(messages, r)
    BY <1>2, <2>1 DEF WorkerStep
  <2>4. HandingOver(w, r)
    BY <1>1, <2>2, <2>3 DEF HandingOver
  <2> QED BY <2>2, <2>3, <2>4
<1>3. CASE /\ (IF r.complete THEN "handoff" ELSE "partial") \in env
           /\ WorkerStep([v EXCEPT !.posted = FALSE, !.unposted = r], messages)
  <2>1. PICK w : w = [v EXCEPT !.posted = FALSE, !.unposted = r]
    OBVIOUS
  <2>2. /\ w \in Jobs /\ w.pc = v.pc /\ w.revision = v.revision
        /\ w.unposted = r /\ w.items = v.items
    BY <2>1 DEF Jobs
  <2>3. worker' = w /\ messages' = messages
    BY <1>3, <2>1 DEF WorkerStep
  <2>4. r.complete
    BY <1>3 DEF Calm, Mishaps
  <2>5. HandingOver(w, r)
    BY <1>1, <2>2, <2>3, <2>4 DEF HandingOver
  <2> QED BY <2>2, <2>3, <2>5
<1> QED BY <1>1, <1>2, <1>3 DEF Deliver

LEMMA CalmBuildYields ==
    ASSUME Typed, Calm(env), Unmodified(lib, worker, messages), Build
    PROVE  \E w \in Jobs : /\ worker' = w /\ w.revision = worker.revision
                           /\ GoingOn(w) \/ \E r \in Results : HandingOver(w, r)
<1> DEFINE Yields ==
              \E w \in Jobs : /\ worker' = w /\ w.revision = worker.revision
                              /\ GoingOn(w) \/ \E r \in Results : HandingOver(w, r)
<1>0. /\ worker \in Jobs \cup {NoWorker} /\ content \in [Files -> Nat]
      /\ present \subseteq Files /\ saved \in Tracks
  BY DEF Typed, MonitorTyped, LibraryTyped
<1>1. worker \in Jobs
  BY BuildYields
<1>2. /\ {"throw", "cancel", "unloaded"} \cap env = {}
      /\ worker.pc = "files" => worker.files = {}
  BY DEF Calm, Mishaps, Unmodified
<1>3. ASSUME NEW f \in Files, ScanFile(f) PROVE Yields
  BY <1>2, <1>3 DEF ScanFile
<1>4. ASSUME NEW f \in Files, ReadListed(f) PROVE Yields
  <2>1. PICK v : v = [worker EXCEPT !.todo = worker.todo \ {f}]
    OBVIOUS
  <2>2. /\ v \in Jobs /\ v.pc = worker.pc /\ v.revision = worker.revision
        /\ v.unposted = worker.unposted /\ v.items = worker.items
    <3>1. worker.todo \ {f} \in SUBSET Files
      BY <1>1, JobFields
    <3> QED BY <1>1, <2>1, <3>1 DEF Jobs
  <2>3. PICK ok, w : /\ w = ReadTrack(v, f, ok)
                     /\ worker.pc = "read" /\ worker' = w /\ messages' = messages
    BY <1>4, <2>1 DEF ReadListed, WorkerStep
  <2>4. /\ w \in Jobs /\ w.pc = worker.pc /\ w.revision = worker.revision
        /\ w.unposted = worker.unposted
    BY <1>0, <2>2, <2>3, ReadTrackYields
  <2>5. /\ \A g : g \in DOMAIN worker.items => g \in DOMAIN w.items
        /\ \A g : Preserves(worker.items, w.items, g)
    BY <1>0, <2>2, <2>3, ReadTrackChanges DEF Preserves
  <2>6. worker.pc = "read" /\ worker' = w /\ messages' = messages
    BY <2>3
  <2>7. Coming(worker, saved) = worker.items /\ Coming(w, saved) = w.items
    BY <2>4, <2>6 DEF Coming
  <2>8. GoingOn(w)
    BY <2>4, <2>5, <2>6, <2>7 DEF GoingOn, Running
  <2> QED BY <2>4, <2>6, <2>8
<1>10. ASSUME NEW f \in Files, ReadUntagged(f) PROVE Yields
  <2>1. PICK ok, w : /\ w = Read(worker, f, ok)
                     /\ worker.pc = "list" /\ worker' = w /\ messages' = messages
    BY <1>10 DEF ReadUntagged, WorkerStep
  <2>2. /\ w \in Jobs /\ w.pc = "list" /\ w.revision = worker.revision
        /\ w.unposted = worker.unposted
    BY <1>0, <1>1, <2>1, ReadYields
  <2>3. /\ \A g : g \in DOMAIN worker.items => g \in DOMAIN w.items
        /\ \A g : Preserves(worker.items, w.items, g)
    BY <1>1, <2>1, ReadChanges DEF Preserves
  <2>4. Coming(worker, saved) = worker.items /\ Coming(w, saved) = w.items
    BY <2>1, <2>2 DEF Coming
  <2>5. GoingOn(w)
    BY <2>1, <2>2, <2>3, <2>4 DEF GoingOn, Running
  <2> QED BY <2>1, <2>2, <2>5
<1>5. ASSUME MergeSeeds PROVE Yields
  <2>1. PICK m, v : /\ m = Coming(worker, saved)
                    /\ v = [worker EXCEPT !.pc = "list", !.items = m]
    OBVIOUS
  <2>2. worker.pc = "files"
    BY <1>5 DEF MergeSeeds
  <2>3. m \in Tracks
    <3>1. /\ worker.items \in Tracks /\ worker.tracks \in Tracks
          /\ worker.persisted \in Tracks
      BY <1>1, JobFields
    <3>2. Over(worker.items, worker.tracks) \in Tracks
      BY <3>1, OverTyped DEF Tracks
    <3> QED BY <1>0, <2>1, <2>2, <3>1, <3>2, OverTyped DEF Coming, Tracks
  <2>4. /\ v \in Jobs /\ v.pc = "list" /\ v.revision = worker.revision
        /\ v.unposted = worker.unposted /\ v.items = m /\ v.load = worker.load
    BY <1>1, <2>1, <2>3 DEF Jobs, Running
  <2>5. IF worker.load THEN Deliver(v, Result(v, FALSE, FALSE))
        ELSE WorkerStep(v, messages)
    BY <1>1, <1>2, <1>5, <2>1, SeedsMerged
  <2>6. CASE worker.load
    <3>1. Deliver(v, Result(v, FALSE, FALSE))
      BY <2>5, <2>6
    <3> QED BY <1>1, <2>1, <2>2, <2>4, <3>1, HandedOver
  <2>7. CASE ~worker.load
    <3>1. worker' = v /\ messages' = messages
      BY <2>5, <2>7 DEF WorkerStep
    <3>2. \A g : g \in DOMAIN worker.items => g \in DOMAIN v.items
      BY <2>1, <2>2, <2>4 DEF Coming, Over
    <3>3. Coming(v, saved) = m
      BY <2>4 DEF Coming
    <3>4. GoingOn(v)
      BY <2>1, <2>2, <2>4, <3>1, <3>2, <3>3 DEF GoingOn, Running, Preserves
    <3> QED BY <2>4, <3>1, <3>4
  <2> QED BY <2>6, <2>7
<1>6. ASSUME ListDirectory \/ VerifyMissing PROVE Yields
  <2>1. PICK w \in Jobs : /\ worker' = w /\ w.pc \in {"read", "deliver"}
                          /\ w.revision = worker.revision
                          /\ w.unposted = worker.unposted /\ w.items = worker.items
    <3>1. CASE ListDirectory
      <4>1. PICK todo \in SUBSET present :
                WorkerStep([worker EXCEPT !.pc = "read", !.todo = todo], messages)
        BY <3>1, Listed
      <4>2. PICK w : w = [worker EXCEPT !.pc = "read", !.todo = todo]
        OBVIOUS
      <4>3. worker' = w /\ todo \in SUBSET Files
        BY <1>0, <4>1, <4>2 DEF WorkerStep
      <4>4. /\ w \in Jobs /\ w.pc = "read" /\ w.revision = worker.revision
            /\ w.unposted = worker.unposted /\ w.items = worker.items
        BY <1>1, <4>2, <4>3 DEF Jobs, Running
      <4> QED BY <4>3, <4>4
    <3>2. CASE VerifyMissing
      <4>1. DOMAIN worker.items \subseteq Files
        BY <1>1, JobFields, EntriesYields DEF Tracks
      <4>2. PICK missing \in SUBSET Files :
                WorkerStep([worker EXCEPT !.pc = "deliver", !.missing = missing], messages)
        BY <3>2, <4>1, Verified
      <4>3. PICK w : w = [worker EXCEPT !.pc = "deliver", !.missing = missing]
        OBVIOUS
      <4>4. worker' = w
        BY <4>2, <4>3 DEF WorkerStep
      <4>5. /\ w \in Jobs /\ w.pc = "deliver" /\ w.revision = worker.revision
            /\ w.unposted = worker.unposted /\ w.items = worker.items
        BY <1>1, <4>3 DEF Jobs, Running
      <4> QED BY <4>4, <4>5
    <3> QED BY <1>6, <3>1, <3>2
  <2>2. messages' = messages /\ worker.pc \in {"list", "read"}
    BY <1>6 DEF ListDirectory, VerifyMissing, WorkerStep
  <2>3. Coming(worker, saved) = worker.items /\ Coming(w, saved) = worker.items
    BY <2>1, <2>2 DEF Coming
  <2>4. GoingOn(w)
    BY <2>1, <2>2, <2>3 DEF GoingOn, Running, Preserves
  <2> QED BY <2>1, <2>4
<1>7. ASSUME DeliverResult PROVE Yields
  <2>1. PICK v : v = [worker EXCEPT !.pc = "done"]
    OBVIOUS
  <2>2. /\ v \in Jobs /\ v.pc = "done" /\ v.revision = worker.revision
        /\ v.unposted = worker.unposted /\ v.items = worker.items
    BY <1>1, <2>1 DEF Jobs
  <2>3. worker.pc = "deliver" /\ Deliver(v, Result(worker, TRUE, FALSE))
    BY <1>7, <2>1 DEF DeliverResult
  <2>4. v.items = Coming(worker, saved)
    BY <2>2, <2>3 DEF Coming
  <2> QED BY <1>1, <2>2, <2>3, <2>4, HandedOver
<1>8. ~ListCanceled /\ ~BuildThrows
  BY <1>2 DEF ListCanceled, BuildThrows
<1>9. Yields
  BY <1>3, <1>4, <1>5, <1>6, <1>7, <1>8, <1>10 DEF Build
<1> QED BY <1>9 DEF Yields

\* What a scan has found agrees with the ratings, and so does its result.
LEMMA RatingsBuilt ==
    ASSUME Typed, Sound(lib, worker, messages, scan), worker \in Jobs, Whole(worker),
           worker.pc \in Running,
           NEW w \in Jobs, w.revision = worker.revision,
           GoingOn(w) \/ \E r \in Results : HandingOver(w, r),
           NEW f \in Files, NEW rt, NEW P, NEW p,
           Ratings(lib, worker, messages, scan, saved, rt, P, f, p)
    PROVE  Ratings(lib, w, messages', scan, saved, rt, P, f, p) /\ Whole(w)
<1>0. /\ messages \in Seq(Messages)
      /\ RatedHere(lib, rt, P, f)
      /\ Agrees(lib, Coming(worker, saved), worker.revision, rt, f, p)
      /\ \A q \in Results : Pending(q, worker, messages, scan) =>
            Agrees(lib, q.items, q.revision, rt, f, p)
      /\ Lineage(worker, messages, scan, f) /\ Protocol(worker, messages, scan)
  BY DEF Typed, MonitorTyped, Ratings, Scanned, Sound
<1>1. \A q \in Results : Pending(q, worker, messages, scan) =>
          ~q.complete /\ worker.pc # "files"
  <2> SUFFICES ASSUME NEW q \in Results, Pending(q, worker, messages, scan)
               PROVE  ~q.complete /\ worker.pc # "files"
    OBVIOUS
  <2>1. worker.pc # "done"
    BY DEF Running
  <2>2. CASE q = worker.unposted /\ q # NoResult
    BY <1>0, <2>1, <2>2 DEF Protocol
  <2>3. CASE \E i \in DOMAIN messages : q = messages[i] /\ Current(q, scan)
    <3>1. q.complete \in BOOLEAN
      BY ResultFields
    <3>2. q.complete => OnItsWay(messages, scan, TRUE)
      BY <2>3, <3>1 DEF OnItsWay
    <3>3. ~q.complete => OnItsWay(messages, scan, FALSE)
      BY <2>3, <3>1 DEF OnItsWay
    <3> QED BY <1>0, <3>2, <3>3 DEF Protocol
  <2> QED BY <2>2, <2>3 DEF Pending
<1>2. CASE GoingOn(w)
  <2>1. \A q : Pending(q, w, messages', scan) <=> Pending(q, worker, messages, scan)
    BY <1>2 DEF GoingOn, Pending
  <2>2. Agrees(lib, Coming(w, saved), w.revision, rt, f, p)
    BY <1>0, <1>2, AgreesPreserved DEF GoingOn
  <2>3. Lineage(w, messages', scan, f)
    BY <1>0, <1>2, <2>1 DEF Lineage, GoingOn, GoesOn
  <2>4. Whole(w)
    BY <1>2 DEF GoingOn, Whole
  <2> QED BY <1>0, <2>1, <2>2, <2>3, <2>4 DEF Ratings, Scanned
<1>3. CASE \E r \in Results : HandingOver(w, r)
  <2>1. PICK r \in Results : HandingOver(w, r)
    BY <1>3
  <2>2. ASSUME NEW q \in Results, Pending(q, w, messages', scan)
        PROVE  q = r \/ Pending(q, worker, messages, scan)
    <3>1. CASE messages' = Append(messages, r) /\ w.unposted = worker.unposted
      <4>1. PICK ms : ms = messages'
        OBVIOUS
      <4>2. \A i \in DOMAIN ms : ms[i] = r \/ \E j \in DOMAIN messages : ms[i] = messages[j]
        <5>1. r \in Messages
          BY DEF Messages
        <5> QED BY <1>0, <3>1, <4>1, <5>1
      <4>3. Pending(q, w, ms, scan)
        BY <2>2, <4>1
      <4> QED BY <3>1, <4>2, <4>3 DEF Pending
    <3>2. CASE messages' = messages /\ w.unposted = r
      BY <2>2, <3>2 DEF Pending
    <3> QED BY <2>1, <3>1, <3>2 DEF HandingOver
  <2>3. /\ r.revision = worker.revision /\ r.items = Coming(worker, saved)
        /\ r.complete => worker.pc = "deliver" /\ w.pc = "done"
        /\ ~r.complete => worker.pc = "files" /\ w.pc = "list" /\ w.items = r.items
    BY <2>1 DEF HandingOver
  <2>4. Agrees(lib, r.items, r.revision, rt, f, p)
    BY <1>0, <2>3
  <2>5. ASSUME NEW q \in Results, Pending(q, w, messages', scan)
        PROVE  Agrees(lib, q.items, q.revision, rt, f, p)
    BY <1>0, <2>2, <2>4, <2>5
  <2>6. ASSUME w.pc \in Running
        PROVE  Agrees(lib, Coming(w, saved), w.revision, rt, f, p)
    <3>1. w.pc = "list" /\ w.items = r.items
      BY <2>3, <2>6 DEF Running
    <3>2. Coming(w, saved) = r.items
      BY <3>1 DEF Coming
    <3> QED BY <2>3, <2>4, <3>2
  <2>7. Lineage(w, messages', scan, f)
    <3>1. CASE r.complete
      <4>1. w.pc \notin Running /\ r.items = worker.items
        BY <2>3, <3>1 DEF Running, Coming
      <4>2. ASSUME NEW q \in Results, Pending(q, w, messages', scan), ~q.complete
            PROVE  GoesOn(q, r.items, r.revision, f)
        <5>1. Pending(q, worker, messages, scan)
          BY <2>2, <3>1, <4>2
        <5>2. GoesOn(q, worker.items, worker.revision, f)
          BY <1>0, <4>2, <5>1 DEF Lineage
        <5> QED BY <2>3, <4>1, <5>2
      <4>3. ASSUME NEW q \in Results, Pending(q, w, messages', scan), q.complete
            PROVE  q = r
        BY <1>1, <2>2, <4>3
      <4> QED BY <4>1, <4>2, <4>3 DEF Lineage
    <3>2. CASE ~r.complete
      <4>1. ASSUME NEW q \in Results, Pending(q, w, messages', scan)
            PROVE  q = r
        BY <1>1, <2>2, <2>3, <3>2, <4>1
      <4>2. GoesOn(r, w.items, w.revision, f)
        BY <2>3, <3>2 DEF GoesOn
      <4> QED BY <3>2, <4>1, <4>2 DEF Lineage
    <3> QED BY <3>1, <3>2
  <2>0. Whole(w)
    BY <2>1 DEF HandingOver, Whole
  <2> QED BY <1>0, <2>5, <2>6, <2>7, <2>0 DEF Ratings, Scanned
<1> QED BY <1>2, <1>3

LEMMA BuildRates == QInv /\ Build => QInv'
<1> SUFFICES ASSUME QInv, Build, Calm(env') PROVE QInv'
  BY DEF QInv
<1>1. env' = env
  BY DEF Build, ScanFile, ReadUntagged, ReadListed, MergeSeeds, ListDirectory, ListCanceled,
         BuildThrows, VerifyMissing, DeliverResult, Deliver, WorkerStep
<1>2. Calm(env)
  BY <1>1
<1>3. /\ RInv /\ IInv /\ Typed /\ Whole(worker) /\ Unmodified(lib, worker, messages)
      /\ Sound(lib, worker, messages, scan)
  BY <1>2, CalmYields
<1>4. worker \in Jobs /\ UNCHANGED <<lib, scan, phase, saved, history, diskVars>>
  BY <1>3, BuildYields
<1>5. UNCHANGED <<rated, present>>
  BY <1>4 DEF history, diskVars
<1>6. worker.pc \in Running
  BY DEF Build, ScanFile, ReadUntagged, ReadListed, MergeSeeds, ListDirectory, ListCanceled,
         BuildThrows, VerifyMissing, DeliverResult, Running
<1>7. PICK w \in Jobs : /\ worker' = w /\ w.revision = worker.revision
                        /\ GoingOn(w) \/ \E r \in Results : HandingOver(w, r)
  BY <1>2, <1>3, CalmBuildYields
<1>8. ASSUME NEW f \in Files
      PROVE  /\ Ratings(lib, w, messages', scan, saved, rated, present, f, phase)
             /\ Whole(w)
             /\ phase = "closed" => SavedRating(saved, rated, f)
  <2>1. Ratings(lib, worker, messages, scan, saved, rated, present, f, phase)
    BY <1>2, CalmYields
  <2>2. phase = "closed" => SavedRating(saved, rated, f)
    BY <1>2 DEF QInv
  <2>3. Ratings(lib, w, messages', scan, saved, rated, present, f, phase) /\ Whole(w)
    BY <1>3, <1>4, <1>6, <1>7, <2>1, RatingsBuilt
  <2> QED BY <2>2, <2>3
<1>9. Whole(w)
  <2>1. CASE GoingOn(w)
    BY <1>3, <2>1 DEF GoingOn, Whole
  <2>2. CASE \E r \in Results : HandingOver(w, r)
    BY <1>3, <2>2 DEF HandingOver, Whole
  <2> QED BY <1>7, <2>1, <2>2
<1>10. RInv'
  BY <1>3, BuildLeaves
<1> QED BY <1>4, <1>5, <1>7, <1>8, <1>9, <1>10 DEF QInv

-----------------------------------------------------------------------------
(* The window.                                                             *)

LEMMA HandlerRates ==
    ASSUME RInv', env' = env, phase' = phase, phase # "closed", Whole(worker'),
           UNCHANGED <<present, saved>>,
           \A f \in Files :
              Ratings(lib', worker', messages', scan', saved, rated', present, f, phase)
    PROVE  QInv'
BY DEF QInv

LEMMA RatingsTaken ==
    ASSUME NEW l, NEW w, NEW ms \in Seq(Messages), NEW i \in DOMAIN ms,
           NEW s \in Nat, MailOK(ms, s), NEW sv, NEW rt, NEW P, NEW f, NEW p,
           Ratings(l, w, ms, s, sv, rt, P, f, p), NEW rest, rest = RemoveAt(ms, i)
    PROVE  Ratings(l, w, rest, s, sv, rt, P, f, p)
<1>1. Taken(ms, i, s, rest)
  BY TakenYields
<1>2. \A k \in DOMAIN rest : \E j \in DOMAIN ms : rest[k] = ms[j]
  BY <1>1 DEF Taken
<1>3. \A q : Pending(q, w, rest, s) => Pending(q, w, ms, s)
  BY <1>2 DEF Pending
<1>4. Scanned(l, w, rest, s, sv, rt, f, p)
  BY <1>3 DEF Ratings, Scanned
<1>5. Lineage(w, rest, s, f)
  BY <1>3 DEF Ratings, Lineage
<1> QED BY <1>4, <1>5 DEF Ratings

\* A result the window receives succeeds.
LEMMA ReceivedSucceeds ==
    ASSUME messages \in Seq(Messages), scan \in Nat,
           Sound(lib, worker, messages, scan), Whole(worker), lib \in Catalogue,
           worker \in Jobs \cup {NoWorker},
           Removals(lib, indexing, worker, messages, scan, present, env),
           Loading(lib, indexing, worker, messages, scan),
           NEW i \in DOMAIN messages, \A j \in 1..(i - 1) : messages[j].kind # "ready",
           NEW ms, ms = RemoveAt(messages, i), NEW r \in Results, r = messages[i],
           r.generation = scan, NEW rt, NEW f, NEW p, NEW sv,
           Ratings(lib, worker, messages, scan, sv, rt, present, f, p)
    PROVE  Succeeds(r, lib, worker, ms, scan, present, rt, f, p)
<1>1. /\ Gone(lib, worker, messages, present) /\ Ahead(lib, worker, messages, scan)
      /\ Protocol(worker, messages, scan) /\ MailOK(messages, scan)
  BY DEF Removals, Standing, Sound, Protocol
<1>2. Current(r, scan) /\ Pending(r, worker, messages, scan) /\ r.complete \in BOOLEAN
  BY ResultFields DEF Current, Pending
<1>3. OnItsWay(messages, scan, r.complete)
  BY <1>2 DEF OnItsWay
<1>4. Taken(messages, i, scan, ms)
  BY <1>1, TakenYields
<1>5. /\ \A g \in DOMAIN lib.fileChanges : g \notin present /\ lib.fileChanges[g].removed
      /\ r.missing \cap present = {} /\ After(lib, r.observed, r.revision)
  BY <1>1, <1>2 DEF Gone, Ahead, Current
<1>6. ~lib.loaded => r.loads /\ ~r.failed
  BY <1>2 DEF Loading
<1>7. Agrees(lib, r.items, r.revision, rt, f, p)
  BY <1>2 DEF Ratings, Scanned
<1>8. worker.pc \in Running =>
          ~r.complete /\ worker.pc # "files" /\ GoesOn(r, worker.items, worker.revision, f)
  BY <1>1, <1>2, <1>3 DEF Protocol, Ratings, Lineage
<1>9. ASSUME NEW q \in Results, Pending(q, worker, ms, scan)
      PROVE  IF r.complete THEN p # "open" /\ q.revision = r.revision
             ELSE GoesOn(r, q.items, q.revision, f)
  <2>1. Pending(q, worker, messages, scan)
    BY <1>4, <1>9 DEF Taken, Pending
  <2>2. ~r.complete /\ q.complete
    <3>1. CASE q = worker.unposted /\ q # NoResult
      <4>1. q.complete
        BY <3>1 DEF Whole
      <4>2. ~OnItsWay(messages, scan, TRUE)
        BY <1>1, <3>1, <4>1 DEF Protocol
      <4> QED BY <1>2, <1>3, <4>1, <4>2
    <3>2. CASE \E k \in DOMAIN ms : q = ms[k] /\ Current(q, scan)
      <4>1. PICK j \in DOMAIN messages : j # i /\ q = messages[j]
        BY <1>4, <3>2 DEF Taken
      <4>2. Current(messages[j], scan) /\ Current(messages[i], scan)
        BY <1>2, <3>2, <4>1
      <4>3. j \in Nat /\ i \in Nat /\ j >= 1
        OBVIOUS
      <4>4. ~(j < i)
        BY <4>2, <4>3 DEF Current
      <4>5. CASE i < j
        BY <1>1, <4>1, <4>2, <4>5 DEF MailOK
      <4> QED BY <4>1, <4>3, <4>4, <4>5
    <3> QED BY <1>9, <3>1, <3>2 DEF Pending
  <2> QED BY <1>2, <2>1, <2>2 DEF Ratings, Lineage
<1> QED BY <1>5, <1>6, <1>7, <1>8, <1>9 DEF Succeeds

\* A scan that starts has no result.
LEMMA WholeAtEnd ==
    ASSUME NEW l, NEW idx, NEW w, Ends(l, idx, w), Whole(w)
    PROVE  Whole(worker')
BY DEF Ends, Refresh, Settle, Job, Whole

LEMMA WholeApplied ==
    ASSUME NEW r, NEW w, Apply(r, w), Whole(w)
    PROVE  Whole(worker')
BY WholeAtEnd DEF Apply, Ends

LEMMA ReceiveResultRates == QInv /\ ReceiveResult => QInv'
<1> SUFFICES ASSUME QInv, ReceiveResult, Calm(env') PROVE QInv'
  BY DEF QInv
<1>1. /\ UNCHANGED <<env, present, phase, saved, rated>> /\ phase # "closed"
  BY DEF ReceiveResult, diskVars, history
<1>2. /\ RInv /\ Whole(worker) /\ Sound(lib, worker, messages, scan)
      /\ Removals(lib, indexing, worker, messages, scan, present, env)
      /\ Loading(lib, indexing, worker, messages, scan)
      /\ lib \in Catalogue /\ worker \in Jobs \cup {NoWorker}
      /\ messages \in Seq(Messages) /\ scan \in Nat
      /\ indexing \in BOOLEAN /\ refreshPending \in BOOLEAN
  BY <1>1, CalmYields
<1>3. PICK i \in DOMAIN messages :
          /\ messages[i].kind = "ready"
          /\ \A j \in 1..(i - 1) : messages[j].kind # "ready"
          /\ messages' = RemoveAt(messages, i) /\ Apply(messages[i], worker)
  BY DEF ReceiveResult
<1>4. PICK ms, r : ms = RemoveAt(messages, i) /\ r = messages[i]
  OBVIOUS
<1>5. ms \in Seq(Messages) /\ Sound(lib, worker, ms, scan)
  BY <1>2, <1>4, TakenKeeps
<1>6. r \in Results /\ r.revision <= lib.revision
  <2>1. r \in Messages
    BY <1>2, <1>4
  <2> QED BY <1>2, <1>3, <1>4, <2>1, ReadyIsResult DEF Sound, MailStamped
<1>7. MailOK(messages, scan)
  BY <1>2 DEF Sound, Protocol
<1>8. Loading(lib, indexing, worker, ms, scan)
  <2>1. Taken(messages, i, scan, ms)
    BY <1>2, <1>4, <1>7, TakenYields
  <2>2. \A q : Pending(q, worker, ms, scan) => Pending(q, worker, messages, scan)
    BY <2>1 DEF Taken, Pending
  <2> QED BY <1>2, <2>2 DEF Loading
<1>9. ASSUME NEW f \in Files
      PROVE  Ratings(lib', worker', ms, scan', saved, rated, present, f, phase)
             /\ Whole(worker')
  <2>1. Ratings(lib, worker, messages, scan, saved, rated, present, f, phase)
    BY <1>1, CalmYields
  <2>2. Ratings(lib, worker, ms, scan, saved, rated, present, f, phase)
    BY <1>2, <1>4, <1>7, <2>1, RatingsTaken
  <2>3. r.generation = scan => Succeeds(r, lib, worker, ms, scan, present, rated, f, phase)
    BY <1>2, <1>3, <1>4, <1>6, <2>1, ReceivedSucceeds
  <2>4. Apply(r, worker)
    BY <1>3, <1>4
  <2> QED BY <1>2, <1>5, <1>6, <1>8, <2>2, <2>3, <2>4, RatingsApplied
<1>10. Whole(worker')
  BY <1>2, <1>3, WholeApplied
<1>11. RInv'
  BY <1>2, ReceiveResultLeaves
<1> QED BY <1>1, <1>3, <1>4, <1>9, <1>10, <1>11, HandlerRates

\* The complete result of the last scan, when its worker is reaped: what is
\* still on its way is the partial one.
LEMMA UnpostedSucceeds ==
    ASSUME Typed, worker \in Jobs, worker.pc = "done", Whole(worker),
           Sound(lib, worker, messages, scan), phase = "open" => messages = <<>>,
           Removals(lib, indexing, worker, messages, scan, present, env),
           Loading(lib, indexing, worker, messages, scan),
           NEW r \in Results, r = worker.unposted, NEW rt, NEW f, NEW sv,
           Ratings(lib, worker, messages, scan, sv, rt, present, f, phase)
    PROVE  /\ r.revision <= lib.revision /\ r.generation = scan
           /\ Succeeds(r, lib, NoWorker, messages, scan, present, rt, f, phase)
<1>1. /\ r # NoResult /\ NoWorker.unposted = NoResult /\ NoWorker.pc \notin Running
  BY ResultFields DEF NoWorker, Running
<1>2. /\ Gone(lib, worker, messages, present) /\ Ahead(lib, worker, messages, scan)
      /\ Protocol(worker, messages, scan) /\ messages \in Seq(Messages)
  BY DEF Removals, Standing, Sound, Typed, MonitorTyped
<1>3. Pending(r, worker, messages, scan) /\ r.complete
  BY <1>1 DEF Pending, Whole
<1>4. r.revision <= lib.revision /\ r.generation = scan
  BY <1>1 DEF Sound, Numbered
<1>5. /\ \A g \in DOMAIN lib.fileChanges : g \notin present /\ lib.fileChanges[g].removed
      /\ r.missing \cap present = {} /\ After(lib, r.observed, r.revision)
      /\ ~lib.loaded => r.loads /\ ~r.failed
      /\ Agrees(lib, r.items, r.revision, rt, f, phase)
  BY <1>1, <1>2, <1>3 DEF Gone, Ahead, Loading, Ratings, Scanned
<1>6. ASSUME NEW q \in Results, Pending(q, NoWorker, messages, scan)
      PROVE  phase # "open" /\ q.revision = r.revision
  <2>1. PICK i \in DOMAIN messages : q = messages[i] /\ Current(q, scan)
    BY <1>1, <1>6 DEF Pending
  <2>2. phase # "open"
    BY <2>1
  <2>3. ~q.complete
    <3>1. ~OnItsWay(messages, scan, TRUE)
      BY <1>1, <1>2, <1>3 DEF Protocol
    <3> QED BY <2>1, <3>1, ResultFields DEF OnItsWay
  <2>4. Pending(q, worker, messages, scan)
    BY <2>1 DEF Pending
  <2>5. GoesOn(q, r.items, r.revision, f)
    BY <1>3, <2>3, <2>4 DEF Ratings, Lineage
  <2> QED BY <2>2, <2>5 DEF GoesOn
<1> QED BY <1>1, <1>3, <1>4, <1>5, <1>6 DEF Succeeds

LEMMA RatingsReaped ==
    ASSUME NEW l, NEW w \in Jobs, NEW ms, NEW s, NEW sv, NEW rt, NEW P, NEW f, NEW p,
           Ratings(l, w, ms, s, sv, rt, P, f, p)
    PROVE  Ratings(l, NoWorker, ms, s, sv, rt, P, f, p)
<1>1. NoWorker.unposted = NoResult /\ NoWorker.pc \notin Running
  BY DEF NoWorker, Running
<1>2. \A q : Pending(q, NoWorker, ms, s) => Pending(q, w, ms, s)
  BY <1>1 DEF Pending
<1>3. Scanned(l, NoWorker, ms, s, sv, rt, f, p) /\ Lineage(NoWorker, ms, s, f)
  BY <1>1, <1>2 DEF Ratings, Scanned, Lineage
<1> QED BY <1>3 DEF Ratings

LEMMA PollWorkersRates == QInv /\ PollWorkers => QInv'
<1> SUFFICES ASSUME QInv, PollWorkers, Calm(env') PROVE QInv'
  BY DEF QInv
<1>1. /\ UNCHANGED <<env, present, messages, phase, saved, rated>>
      /\ phase # "closed" /\ worker.pc = "done" /\ (phase = "open" => messages = <<>>)
  BY DEF PollWorkers, monitorVars, diskVars, history
<1>2. /\ RInv /\ Typed /\ Whole(worker) /\ Sound(lib, worker, messages, scan)
      /\ Removals(lib, indexing, worker, messages, scan, present, env)
      /\ Loading(lib, indexing, worker, messages, scan)
      /\ lib \in Catalogue /\ worker \in Jobs \cup {NoWorker}
      /\ messages \in Seq(Messages) /\ scan \in Nat
      /\ indexing \in BOOLEAN /\ refreshPending \in BOOLEAN
  BY <1>1, CalmYields
<1>3. worker \in Jobs
  BY <1>1, <1>2, WorkerFields
<1>4. /\ NoWorker \in Jobs \cup {NoWorker} /\ NoWorker.unposted = NoResult
      /\ NoWorker.pc \notin Running /\ NoWorker.pc = "none" /\ Whole(NoWorker)
  BY DEF NoWorker, Running, Whole
<1>5. Sound(lib, NoWorker, messages, scan)
  BY <1>2, <1>4 DEF Sound, Numbered, Protocol, Running
<1>6. PICK idx : idx = (indexing /\ (worker.posted \/ worker.generation # scan))
  OBVIOUS
<1>7. worker.unposted = NoResult =>
          Ends(lib, idx, NoWorker) /\ idx \in BOOLEAN
          /\ Loading(lib, idx, NoWorker, messages, scan)
  <2> SUFFICES ASSUME worker.unposted = NoResult
               PROVE  Ends(lib, idx, NoWorker) /\ idx \in BOOLEAN
                      /\ Loading(lib, idx, NoWorker, messages, scan)
    OBVIOUS
  <2>1. Ends(lib, idx, NoWorker) /\ idx \in BOOLEAN
    BY <1>6 DEF PollWorkers, Ends
  <2>2. ~lib.loaded => indexing /\ worker.posted
    BY <1>1, <1>2 DEF Loading
  <2>3. \A q : Pending(q, NoWorker, messages, scan) => Pending(q, worker, messages, scan)
    BY <1>4 DEF Pending
  <2> QED BY <1>2, <1>4, <1>6, <2>1, <2>2, <2>3 DEF Loading
<1>8. ASSUME NEW f \in Files
      PROVE  Ratings(lib', worker', messages, scan', saved, rated, present, f, phase)
  <2>1. Ratings(lib, worker, messages, scan, saved, rated, present, f, phase)
    BY <1>1, CalmYields
  <2>2. Ratings(lib, NoWorker, messages, scan, saved, rated, present, f, phase)
    BY <1>3, <2>1, RatingsReaped
  <2>3. CASE worker.unposted # NoResult
    <3>1. PICK r \in Results : r = worker.unposted
      BY <1>3, <2>3, JobFields
    <3>2. /\ r.revision <= lib.revision /\ r.generation = scan
          /\ Succeeds(r, lib, NoWorker, messages, scan, present, rated, f, phase)
      BY <1>1, <1>2, <1>3, <2>1, <3>1, UnpostedSucceeds
    <3>3. Apply(r, NoWorker)
      BY <2>3, <3>1 DEF PollWorkers
    <3> QED BY <1>2, <1>4, <1>5, <2>2, <3>2, <3>3, RatingsApplied
  <2>4. CASE worker.unposted = NoResult
    BY <1>2, <1>4, <1>5, <1>7, <2>2, <2>4, RatingsAtEnd
  <2> QED BY <2>3, <2>4
<1>9. Whole(worker')
  <2>1. CASE worker.unposted # NoResult
    <3>1. Apply(worker.unposted, NoWorker)
      BY <2>1 DEF PollWorkers
    <3> QED BY <1>4, <3>1, WholeApplied
  <2>2. CASE worker.unposted = NoResult
    BY <1>4, <1>7, <2>2, WholeAtEnd
  <2> QED BY <2>1, <2>2
<1>10. RInv'
  BY <1>2, PollWorkersLeaves
<1> QED BY <1>1, <1>8, <1>9, <1>10, HandlerRates

\* No result is taken from a running worker: only a complete one is refused.
LEMMA TakeUnpostedRates == QInv /\ TakeUnposted => QInv'
<1> SUFFICES ASSUME QInv, TakeUnposted, Calm(env') PROVE FALSE
  BY DEF QInv
<1>1. env' = env /\ worker.pc # "done" /\ worker.unposted # NoResult
  BY DEF TakeUnposted, monitorVars
<1>2. Whole(worker) /\ Sound(lib, worker, messages, scan)
  BY <1>1, CalmYields
<1> QED BY <1>1, <1>2 DEF Whole, Sound, Protocol

\* The handler changed the catalogue to a and ended.
LEMMA GrowingHandlerRates ==
    ASSUME QInv, Calm(env), RInv', UNCHANGED <<env, present, phase, saved>>,
           phase # "closed", NEW a, Grown(lib, a), Ends(a, indexing, worker),
           messages' \in Seq(Messages), Sound(lib, worker, messages', scan),
           Loading(lib, indexing, worker, messages', scan),
           \A f \in Files :
              /\ Ratings(lib, worker, messages', scan, saved, rated, present, f, phase)
              /\ Follows(lib, a, rated, rated', f, phase)
              /\ RatedHere(a, rated', present, f)
    PROVE  QInv'
<1>1. PICK ms, q : ms = messages' /\ q = rated'
  OBVIOUS
<1>2. /\ lib \in Catalogue /\ worker \in Jobs \cup {NoWorker} /\ scan \in Nat
      /\ indexing \in BOOLEAN /\ Whole(worker)
  BY CalmYields
<1>3. ms \in Seq(Messages) /\ Sound(lib, worker, ms, scan) /\ a \in Catalogue
  BY <1>1 DEF Grown
<1>4. Sound(a, worker, ms, scan)
  BY <1>2, <1>3, GrownIsSound
<1>5. Loading(a, indexing, worker, ms, scan)
  BY <1>1 DEF Grown, Loading
<1>6. ASSUME NEW f \in Files
      PROVE  Ratings(lib', worker', ms, scan', saved, q, present, f, phase)
  <2>1. /\ Ratings(lib, worker, ms, scan, saved, rated, present, f, phase)
        /\ Follows(lib, a, rated, q, f, phase) /\ RatedHere(a, q, present, f)
    BY <1>1
  <2>2. Ratings(a, worker, ms, scan, saved, q, present, f, phase)
    BY <1>2, <1>3, <2>1, RatingsFollow
  <2> QED BY <1>2, <1>3, <1>4, <1>5, <2>2, RatingsAtEnd
<1>7. Whole(worker')
  BY <1>2, WholeAtEnd
<1> QED BY <1>1, <1>6, <1>7, HandlerRates

\* The handler leaves the tracks alone.
LEMMA SameTracksRate ==
    ASSUME NEW l, NEW a, a.items = l.items, a.persisted = l.persisted,
           a.tracks = l.tracks, a.edits = l.edits, a.excluded = l.excluded,
           NEW rt, NEW P, NEW f, NEW p, RatedHere(l, rt, P, f)
    PROVE  Follows(l, a, rt, rt, f, p) /\ RatedHere(a, rt, P, f)
<1>1. Live(a) = Live(l)
  BY DEF Live
<1>2. RatedHere(a, rt, P, f)
  BY <1>1 DEF RatedHere
<1>3. f \in DOMAIN rt /\ f \notin a.excluded => f \in DOMAIN rt /\ f \notin l.excluded
  OBVIOUS
<1> QED BY <1>1, <1>2, <1>3 DEF Follows

LEMMA RemovedFileRates ==
    ASSUME NEW l \in Catalogue, NEW g, NEW a, a = FileRemoved(l, g),
           NEW rt, NEW P, g \notin P, NEW f, NEW p, RatedHere(l, rt, P, f)
    PROVE  Follows(l, a, rt, rt, f, p) /\ RatedHere(a, rt, P, f)
<1>1. PICK known : known = DOMAIN l.items \cap {g}
  OBVIOUS
<1>2. /\ a.items = l.items /\ a.tracks = l.tracks /\ a.edits = l.edits
      /\ a.excluded = l.excluded \cup known
      /\ a.persisted = Without(l.persisted, known)
  BY <1>1 DEF FileRemoved, Catalogue
<1>3. f \in Live(a) <=> f \in Live(l) /\ f \notin known
  BY <1>2 DEF Live
<1>4. f \notin known => /\ f \in DOMAIN a.persisted <=> f \in DOMAIN l.persisted
                        /\ f \in DOMAIN a.persisted => a.persisted[f] = l.persisted[f]
  BY <1>2 DEF Without
<1>5. f \in known => f \notin P
  BY <1>1
<1>6. f \in DOMAIN rt /\ f \notin l.excluded => f \in Live(l)
  BY DEF RatedHere, Live
<1>7. RatedHere(a, rt, P, f)
  <2>1. CASE f \in known
    BY <1>2, <1>3, <1>5, <2>1 DEF RatedHere
  <2>2. CASE f \notin known
    BY <1>2, <1>3, <1>4, <1>6, <2>2 DEF RatedHere
  <2> QED BY <2>1, <2>2
<1> QED BY <1>2, <1>3, <1>7 DEF Follows

LEMMA ReceiveChangeRates == QInv /\ ReceiveChange => QInv'
<1> SUFFICES ASSUME QInv, ReceiveChange, Calm(env') PROVE QInv'
  BY DEF QInv
<1>1. /\ phase = "open" /\ messages # <<>> /\ Head(messages).kind = "change"
      /\ messages' = Tail(messages) /\ HandleChange(Head(messages))
      /\ UNCHANGED <<env, present, phase, saved, rated>>
  BY DEF ReceiveChange, diskVars, history
<1>2. /\ RInv /\ Sound(lib, worker, messages, scan)
      /\ Removals(lib, indexing, worker, messages, scan, present, env)
      /\ Loading(lib, indexing, worker, messages, scan)
      /\ Unmodified(lib, worker, messages)
      /\ lib \in Catalogue /\ worker \in Jobs \cup {NoWorker}
      /\ messages \in Seq(Messages) /\ scan \in Nat
  BY <1>1, CalmYields
<1>3. 1 \in DOMAIN messages /\ Head(messages) = messages[1]
      /\ messages' = RemoveAt(messages, 1)
  BY <1>1, <1>2, TailIsTaken
<1>4. PICK m \in Messages : m = messages[1]
  BY <1>2, <1>3
<1>5. m.action # "added" /\ m.action # "modified"
      /\ (m.action = "removed" => m.file \notin present)
  BY <1>1, <1>2, <1>3, <1>4 DEF Removals, Standing, Gone, Unmodified
<1>6. PICK a : /\ Grown(lib, a) /\ Ends(a, indexing, worker)
               /\ \/ a = lib \/ a = [lib EXCEPT !.directory = TRUE]
                  \/ m.action = "removed" /\ a = FileRemoved(lib, m.file)
  BY <1>1, <1>2, <1>3, <1>4, <1>5, ChangeYields
<1>7. MailOK(messages, scan)
  BY <1>2 DEF Sound, Protocol
<1>8. messages' \in Seq(Messages) /\ Sound(lib, worker, messages', scan)
  BY <1>2, <1>3, TakenKeeps
<1>9. Loading(lib, indexing, worker, messages', scan)
  <2>1. PICK ms : ms = messages'
    OBVIOUS
  <2>2. Taken(messages, 1, scan, ms)
    BY <1>2, <1>3, <1>7, <2>1, TakenYields
  <2>3. \A q : Pending(q, worker, ms, scan) => Pending(q, worker, messages, scan)
    BY <2>2 DEF Taken, Pending
  <2> QED BY <1>2, <2>1, <2>3 DEF Loading
<1>10. ASSUME NEW f \in Files
       PROVE  /\ Ratings(lib, worker, messages', scan, saved, rated, present, f, phase)
              /\ Follows(lib, a, rated, rated, f, phase)
              /\ RatedHere(a, rated, present, f)
  <2>1. Ratings(lib, worker, messages, scan, saved, rated, present, f, phase)
    BY <1>1, CalmYields
  <2>2. PICK ms : ms = messages'
    OBVIOUS
  <2>3. Ratings(lib, worker, ms, scan, saved, rated, present, f, phase)
    BY <1>2, <1>3, <1>7, <2>1, <2>2, RatingsTaken
  <2>4. RatedHere(lib, rated, present, f)
    BY <2>1 DEF Ratings
  <2>5. CASE a = lib
    BY <2>2, <2>3, <2>4, <2>5, SameTracksRate
  <2>6. CASE a = [lib EXCEPT !.directory = TRUE]
    <3>1. /\ a.items = lib.items /\ a.persisted = lib.persisted /\ a.tracks = lib.tracks
          /\ a.edits = lib.edits /\ a.excluded = lib.excluded
      BY <1>2, <2>6 DEF Catalogue
    <3> QED BY <2>2, <2>3, <2>4, <3>1, SameTracksRate
  <2>7. CASE m.action = "removed" /\ a = FileRemoved(lib, m.file)
    BY <1>2, <1>5, <2>2, <2>3, <2>4, <2>7, RemovedFileRates
  <2> QED BY <1>6, <2>5, <2>6, <2>7
<1>11. RInv'
  BY <1>2, ReceiveChangeLeaves
<1> QED BY <1>1, <1>6, <1>8, <1>9, <1>10, <1>11, GrowingHandlerRates

-----------------------------------------------------------------------------
(* The user.                                                               *)

\* The catalogue after RateTrack(g), RemoveTrack(g) and AddTrack(g).
Starred(l, g, r) ==
    [l EXCEPT !.items = Rerated(@, g, r), !.persisted = Rerated(@, g, r),
              !.tracks = Rerated(@, g, r), !.edits = RatingEdit(l, g, r),
              !.revision = @ + 1]
Dropped(l, g) == [l EXCEPT !.excluded = @ \cup {g}, !.persisted = Without(@, {g})]
Imported(l, g, t) ==
    [l EXCEPT !.excluded = @ \ {g}, !.removed = Without(@, {g}),
              !.items = Put(@, g, t),
              !.persisted = Over(@, [x \in {g} |-> t]),
              !.tracks = Over(@, [x \in {g} |-> t]),
              !.edits = Put(@, g, [revision |-> l.revision + 1,
                                   track |-> t, ratingOnly |-> FALSE]),
              !.revision = @ + 1]

\* The rating of a live track goes wherever the track is.
LEMMA GivenRatingRates ==
    ASSUME NEW l \in Catalogue, NEW g \in Live(l), NEW r, NEW a, a = Starred(l, g, r),
           NEW rt, NEW q, q = Put(rt, g, r), NEW P, NEW f, RatedHere(l, rt, P, f)
    PROVE  Follows(l, a, rt, q, f, "open") /\ RatedHere(a, q, P, f)
<1>0. PICK edits, e : /\ edits = RatingEdit(l, g, r) /\ edits = Put(l.edits, g, e)
                      /\ e.revision = l.revision + 1 /\ e.track.rating = r
                      /\ e.ratingOnly = ~(g \in DOMAIN l.edits /\ ~l.edits[g].ratingOnly)
  <2>1. PICK whole, tags, e :
            /\ whole = (g \in DOMAIN l.edits /\ ~l.edits[g].ratingOnly)
            /\ tags = IF whole THEN l.edits[g].track.tags ELSE l.items[g].tags
            /\ e = [revision |-> l.revision + 1, track |-> Track(tags, r),
                    ratingOnly |-> ~whole]
    OBVIOUS
  <2>2. RatingEdit(l, g, r) = Put(l.edits, g, e)
    BY <2>1 DEF RatingEdit
  <2>3. e.revision = l.revision + 1 /\ e.track.rating = r /\ e.ratingOnly = ~whole
    BY <2>1 DEF Track
  <2> QED BY <2>1, <2>2, <2>3
<1>1. /\ a.items = Rerated(l.items, g, r) /\ a.persisted = Rerated(l.persisted, g, r)
      /\ a.tracks = Rerated(l.tracks, g, r) /\ a.edits = edits
      /\ a.excluded = l.excluded
  BY <1>0 DEF Catalogue, Starred
<1>2. \A t \in Tracks :
          /\ DOMAIN Rerated(t, g, r) = DOMAIN t
          /\ g \in DOMAIN t => Rerated(t, g, r)[g].rating = r
          /\ \A x \in DOMAIN t : x # g => Rerated(t, g, r)[x] = t[x]
  <2> SUFFICES ASSUME NEW t \in Tracks
               PROVE  /\ DOMAIN Rerated(t, g, r) = DOMAIN t
                      /\ g \in DOMAIN t => Rerated(t, g, r)[g].rating = r
                      /\ \A x \in DOMAIN t : x # g => Rerated(t, g, r)[x] = t[x]
    OBVIOUS
  <2>1. t \in [DOMAIN t -> TrackType]
    BY EntriesYields DEF Tracks
  <2>2. CASE g \in DOMAIN t
    <3>1. PICK v : v = [t[g] EXCEPT !.rating = r]
      OBVIOUS
    <3>2. v.rating = r
      <4>1. t[g] \in TrackType
        BY <2>1, <2>2
      <4> QED BY <3>1, <4>1 DEF TrackType
    <3>3. Rerated(t, g, r) = [t EXCEPT ![g] = v]
      BY <2>2, <3>1 DEF Rerated
    <3> QED BY <2>1, <3>2, <3>3
  <2>3. CASE g \notin DOMAIN t
    BY <2>3 DEF Rerated
  <2> QED BY <2>2, <2>3
<1>3. l.items \in Tracks /\ l.persisted \in Tracks /\ l.tracks \in Tracks
  BY CatalogueFields
<1>4. Live(a) = Live(l) /\ g \in DOMAIN l.items /\ g \notin l.excluded
  BY <1>1, <1>2, <1>3 DEF Live
<1>5. /\ DOMAIN edits = {g} \cup DOMAIN l.edits /\ edits[g] = e
      /\ \A x \in DOMAIN l.edits : x # g => edits[x] = l.edits[x]
      /\ DOMAIN q = {g} \cup DOMAIN rt /\ q[g] = r
      /\ \A x \in DOMAIN rt : x # g => q[x] = rt[x]
  BY <1>0 DEF Put, Over
<1>6. CASE f = g
  <2>1. f \in Live(l) /\ f \in DOMAIN l.persisted
    BY <1>6 DEF RatedHere
  <2>2. RatedHere(a, q, P, f)
    BY <1>0, <1>1, <1>2, <1>3, <1>4, <1>5, <1>6, <2>1 DEF RatedHere
  <2>3. /\ f \in DOMAIN a.edits /\ a.edits[f].revision = l.revision + 1
        /\ f \in DOMAIN l.edits /\ ~l.edits[f].ratingOnly => ~a.edits[f].ratingOnly
    BY <1>0, <1>1, <1>5, <1>6
  <2> QED BY <2>1, <2>2, <2>3 DEF Follows
<1>7. CASE f # g
  <2>0. f \in DOMAIN rt /\ f \notin l.excluded => f \in Live(l)
    BY DEF RatedHere, Live
  <2>1. RatedHere(a, q, P, f)
    BY <1>1, <1>2, <1>3, <1>4, <1>5, <1>7, <2>0 DEF RatedHere
  <2>2. /\ f \in Live(a) => f \in Live(l)
        /\ f \in DOMAIN q /\ f \notin a.excluded =>
              f \in DOMAIN rt /\ f \notin l.excluded /\ q[f] = rt[f]
        /\ f \in DOMAIN q => f \in DOMAIN rt
        /\ f \in DOMAIN l.edits => f \in DOMAIN a.edits /\ a.edits[f] = l.edits[f]
    BY <1>1, <1>4, <1>5, <1>7
  <2> QED BY <2>1, <2>2 DEF Follows
<1> QED BY <1>6, <1>7

\* A track that is removed loses its rating.
LEMMA DiscardedRates ==
    ASSUME NEW l \in Catalogue, NEW g, NEW a, a = Dropped(l, g),
           NEW rt, NEW q, q = Without(rt, {g}), NEW P, NEW f, NEW p,
           RatedHere(l, rt, P, f)
    PROVE  Follows(l, a, rt, q, f, p) /\ RatedHere(a, q, P, f)
<1>1. /\ a.items = l.items /\ a.tracks = l.tracks /\ a.edits = l.edits
      /\ a.excluded = l.excluded \cup {g} /\ a.persisted = Without(l.persisted, {g})
  BY DEF Catalogue, Dropped
<1>2. f \in Live(a) <=> f \in Live(l) /\ f # g
  BY <1>1 DEF Live
<1>3. /\ f \in DOMAIN q <=> f \in DOMAIN rt /\ f # g
      /\ f \in DOMAIN q => q[f] = rt[f]
      /\ f # g => /\ f \in DOMAIN a.persisted <=> f \in DOMAIN l.persisted
                  /\ f \in DOMAIN a.persisted => a.persisted[f] = l.persisted[f]
  BY <1>1 DEF Without
<1>4. f \in DOMAIN rt /\ f \notin l.excluded => f \in Live(l)
  BY DEF RatedHere, Live
<1>5. RatedHere(a, q, P, f)
  BY <1>1, <1>2, <1>3, <1>4 DEF RatedHere
<1> QED BY <1>1, <1>2, <1>3, <1>5 DEF Follows

\* A track that is added keeps the rating it has.
LEMMA ImportedRates ==
    ASSUME NEW l \in Catalogue, NEW P, NEW g \in P, NEW t,
           g \in DOMAIN l.items => t = l.items[g], NEW a, a = Imported(l, g, t),
           NEW rt, NEW f, NEW p, RatedHere(l, rt, P, f)
    PROVE  Follows(l, a, rt, rt, f, p) /\ RatedHere(a, rt, P, f)
<1>0. PICK entry, e : /\ entry = [x \in {g} |-> t]
                      /\ e = [revision |-> l.revision + 1, track |-> t, ratingOnly |-> FALSE]
  OBVIOUS
<1>1. /\ a.excluded = l.excluded \ {g} /\ a.items = Put(l.items, g, t)
      /\ a.persisted = Over(l.persisted, entry) /\ a.tracks = Over(l.tracks, entry)
      /\ a.edits = Put(l.edits, g, e)
  BY <1>0 DEF Catalogue, Imported
<1>2. /\ DOMAIN a.items = DOMAIN l.items \cup {g} /\ a.items[g] = t
      /\ \A x \in DOMAIN l.items : x # g => a.items[x] = l.items[x]
      /\ DOMAIN a.edits = DOMAIN l.edits \cup {g} /\ a.edits[g] = e
      /\ \A x \in DOMAIN l.edits : x # g => a.edits[x] = l.edits[x]
  BY <1>1 DEF Put, Over
<1>3. /\ DOMAIN a.persisted = DOMAIN l.persisted \cup {g}
      /\ \A x \in DOMAIN l.persisted : a.persisted[x] = l.persisted[x]
      /\ g \notin DOMAIN l.persisted => a.persisted[g] = t
      /\ DOMAIN a.tracks = DOMAIN l.tracks \cup {g}
      /\ \A x \in DOMAIN l.tracks : a.tracks[x] = l.tracks[x]
      /\ g \notin DOMAIN l.tracks => a.tracks[g] = t
  BY <1>0, <1>1 DEF Over
<1>4. CASE f = g
  <2>1. f \in DOMAIN rt => /\ f \in DOMAIN l.items /\ f \in DOMAIN l.persisted
                           /\ f \notin l.excluded /\ t.rating = rt[f]
    BY <1>4 DEF RatedHere, Live
  <2>2. RatedHere(a, rt, P, f)
    BY <1>0, <1>1, <1>2, <1>3, <1>4, <2>1 DEF RatedHere, Live
  <2> QED BY <1>0, <1>2, <1>4, <2>2 DEF Follows
<1>5. CASE f # g
  <2>1. f \in Live(a) <=> f \in Live(l)
    BY <1>1, <1>2, <1>5 DEF Live
  <2>2. f \in DOMAIN rt /\ f \notin l.excluded => f \in Live(l)
    BY DEF RatedHere, Live
  <2>3. RatedHere(a, rt, P, f)
    BY <1>1, <1>2, <1>3, <1>5, <2>1, <2>2 DEF RatedHere
  <2> QED BY <1>1, <1>2, <1>5, <2>1, <2>3 DEF Follows
<1> QED BY <1>4, <1>5

\* What a command leaves of the catalogue and the ratings.
LEMMA CommandRates ==
    ASSUME QInv, Calm(env), UserCommand
    PROVE  \E a : /\ Grown(lib, a) /\ Ends(a, indexing, worker)
                  /\ \A f \in Files : /\ Follows(lib, a, rated, rated', f, phase)
                                      /\ RatedHere(a, rated', present, f)
<1> DEFINE Yields ==
              \E a : /\ Grown(lib, a) /\ Ends(a, indexing, worker)
                     /\ \A f \in Files : /\ Follows(lib, a, rated, rated', f, phase)
                                         /\ RatedHere(a, rated', present, f)
<1> HIDE DEF Yields
<1>0. lib \in Catalogue /\ user \in Nat /\ content \in [Files -> Nat]
  <2>1. Typed
    BY CalmYields
  <2> QED BY <2>1 DEF Typed, MonitorTyped, LibraryTyped
<1>6. \A f \in Files : RatedHere(lib, rated, present, f)
  <2> SUFFICES ASSUME NEW f \in Files PROVE RatedHere(lib, rated, present, f)
    OBVIOUS
  <2>1. Ratings(lib, worker, messages, scan, saved, rated, present, f, phase)
    BY CalmYields
  <2> QED BY <2>1 DEF Ratings
<1>1. ASSUME NEW g \in Files, RateTrack(g) PROVE Yields
  <2>1. g \in Live(lib) /\ phase = "open" /\ g \in DOMAIN lib.items
    BY <1>0, <1>1, LiveYields DEF RateTrack, Command
  <2>2. PICK r \in Nat : r = user + 1
    BY <1>0
  <2>3. PICK a : a = Starred(lib, g, r)
    OBVIOUS
  <2>4. Grown(lib, a)
    BY <1>0, <2>1, <2>3, RatedGrows DEF Starred
  <2>5. PICK q : q = rated'
    OBVIOUS
  <2>6. Ends(a, indexing, worker) /\ q = Put(rated, g, r)
    BY <1>1, <2>2, <2>3, <2>5 DEF RateTrack, Ends, Starred
  <2>7. \A f \in Files : /\ Follows(lib, a, rated, q, f, "open")
                         /\ RatedHere(a, q, present, f)
    BY <1>0, <1>6, <2>1, <2>3, <2>6, GivenRatingRates
  <2> QED BY <2>1, <2>4, <2>5, <2>6, <2>7 DEF Yields
<1>2. ASSUME NEW g \in Files, RemoveTrack(g) PROVE Yields
  <2>1. PICK a : a = Dropped(lib, g)
    OBVIOUS
  <2>2. Grown(lib, a)
    BY <1>0, <2>1, DiscardedGrows DEF Dropped
  <2>3. PICK q : q = rated'
    OBVIOUS
  <2>4. Ends(a, indexing, worker) /\ q = Without(rated, {g})
    BY <1>2, <2>1, <2>3 DEF RemoveTrack, Ends, Dropped
  <2>5. \A f \in Files : /\ Follows(lib, a, rated, q, f, phase)
                         /\ RatedHere(a, q, present, f)
    BY <1>0, <1>6, <2>1, <2>4, DiscardedRates
  <2> QED BY <2>2, <2>3, <2>4, <2>5 DEF Yields
<1>3. ASSUME NEW g \in Files, AddTrack(g) PROVE Yields
  <2>1. PICK t : t = IF g \in DOMAIN lib.items THEN lib.items[g] ELSE Track(content[g], 0)
    OBVIOUS
  <2>2. t \in TrackType
    <3>1. \A x \in DOMAIN lib.items : lib.items[x] \in TrackType
      <4>1. lib.items \in Tracks
        BY <1>0, CatalogueFields
      <4> QED BY <4>1, EntriesYields DEF Tracks
    <3>2. Track(content[g], 0) \in TrackType
      BY <1>0, TrackTyped
    <3> QED BY <2>1, <3>1, <3>2
  <2>3. PICK a : a = Imported(lib, g, t)
    OBVIOUS
  <2>4. Grown(lib, a)
    BY <1>0, <2>2, <2>3, ImportedGrows DEF Imported
  <2>5. Ends(a, indexing, worker) /\ rated' = rated /\ g \in present
    BY <1>3, <2>1, <2>3 DEF AddTrack, Ends, Imported
  <2>6. g \in DOMAIN lib.items => t = lib.items[g]
    BY <2>1
  <2>7. \A f \in Files : /\ Follows(lib, a, rated, rated, f, phase)
                         /\ RatedHere(a, rated, present, f)
    BY <1>0, <1>6, <2>3, <2>5, <2>6, ImportedRates
  <2> QED BY <2>4, <2>5, <2>7 DEF Yields
<1>4. ASSUME ShowLibrary \/ RefreshCommand \/ StopMonitoring \/ StartMonitoring
      PROVE  Yields
  <2>1. PICK a : /\ a = lib \/ a = [lib EXCEPT !.directory = TRUE]
                 /\ Ends(a, indexing, worker) /\ rated' = rated
    BY <1>4 DEF ShowLibrary, RefreshCommand, StopMonitoring, StartMonitoring, Ends, history
  <2>2. Grown(lib, a)
    BY <1>0, <2>1, GrownReflexive, RequestGrows
  <2>3. /\ a.items = lib.items /\ a.persisted = lib.persisted /\ a.tracks = lib.tracks
        /\ a.edits = lib.edits /\ a.excluded = lib.excluded
    BY <1>0, <2>1 DEF Catalogue
  <2>4. \A f \in Files : /\ Follows(lib, a, rated, rated, f, phase)
                         /\ RatedHere(a, rated, present, f)
    BY <1>0, <1>6, <2>3, SameTracksRate
  <2> QED BY <2>1, <2>2, <2>4 DEF Yields
<1>5. Yields
  BY <1>1, <1>2, <1>3, <1>4 DEF UserCommand
<1> QED BY <1>5 DEF Yields

LEMMA UserCommandRates == QInv /\ UserCommand => QInv'
<1> SUFFICES ASSUME QInv, UserCommand, Calm(env') PROVE QInv'
  BY DEF QInv
<1>1. env' = env /\ phase = "open"
  <2>1. Command
    BY DEF UserCommand, RateTrack, RemoveTrack, AddTrack, ShowLibrary, RefreshCommand,
           StopMonitoring, StartMonitoring
  <2> QED BY <2>1 DEF Command
<1>2. /\ RInv /\ Typed /\ Sound(lib, worker, messages, scan)
      /\ Loading(lib, indexing, worker, messages, scan) /\ messages \in Seq(Messages)
      /\ \A f \in Files :
            Ratings(lib, worker, messages, scan, saved, rated, present, f, phase)
  BY <1>1, CalmYields
<1>3. UNCHANGED <<present, messages, phase, saved>>
  BY <1>2, CommandYields DEF diskVars
<1>4. PICK a : /\ Grown(lib, a) /\ Ends(a, indexing, worker)
               /\ \A f \in Files : /\ Follows(lib, a, rated, rated', f, phase)
                                   /\ RatedHere(a, rated', present, f)
  BY <1>1, CommandRates
<1>5. RInv'
  BY <1>2, UserCommandLeaves
<1> QED BY <1>1, <1>2, <1>3, <1>4, <1>5, GrowingHandlerRates

-----------------------------------------------------------------------------
(* The window is closed.                                                   *)

LEMMA CloseRates == QInv /\ Close => QInv'
<1> SUFFICES ASSUME QInv, Close, Calm(env') PROVE QInv'
  BY DEF QInv
<1>1. /\ phase = "open" /\ phase' = "closing"
      /\ UNCHANGED <<env, present, messages, lib, scan, worker, saved, rated>>
  BY DEF Close, StopMonitor, diskVars, history
<1>2. RInv /\ Whole(worker)
  BY <1>1, CalmYields
<1>3. ASSUME NEW f \in Files
      PROVE  Ratings(lib, worker, messages, scan, saved, rated, present, f, "closing")
  <2>1. Ratings(lib, worker, messages, scan, saved, rated, present, f, "open")
    BY <1>1, CalmYields
  <2>2. \A n, m : Agrees(lib, m, n, rated, f, "open") => Agrees(lib, m, n, rated, f, "closing")
    BY DEF Agrees
  <2>3. Scanned(lib, worker, messages, scan, saved, rated, f, "closing")
    BY <2>1, <2>2 DEF Ratings, Scanned
  <2> QED BY <2>1, <2>3 DEF Ratings
<1>4. RInv'
  BY <1>2, CloseLeaves
<1> QED BY <1>1, <1>2, <1>3, <1>4 DEF QInv

\* The file that is written has the ratings: of the published tracks, and of
\* the edits where the library was not loaded yet.
LEMMA SnapshotRates ==
    ASSUME NEW l, NEW rt, NEW P, NEW f, RatedHere(l, rt, P, f)
    PROVE  SavedRating(Snapshot(l), rt, f)
<1> SUFFICES ASSUME f \in DOMAIN rt, f \in DOMAIN Snapshot(l)
             PROVE  Snapshot(l)[f].rating = rt[f]
  BY DEF SavedRating
<1>1. PICK whole, base, edited, merged, tracks :
          /\ whole = {g \in DOMAIN l.edits : ~l.edits[g].ratingOnly}
          /\ base = Over(l.items, IF l.loaded THEN None ELSE saved)
          /\ edited = [g \in whole |-> l.edits[g].track]
          /\ merged = [g \in DOMAIN base |->
                           IF g \in DOMAIN l.edits
                           THEN Track(base[g].tags, l.edits[g].track.rating)
                           ELSE base[g]]
          /\ tracks = Over(edited, merged)
  OBVIOUS
<1>2. Snapshot(l) = Without(tracks, l.excluded)
  BY <1>1 DEF Snapshot
<1>3. f \in DOMAIN tracks /\ f \notin l.excluded /\ Snapshot(l)[f] = tracks[f]
  BY <1>2 DEF Without
<1>4. f \in DOMAIN l.items /\ l.items[f].rating = rt[f]
      /\ (f \in DOMAIN l.edits => l.edits[f].track.rating = rt[f])
  BY <1>3 DEF RatedHere
<1>5. f \in DOMAIN base /\ base[f] = l.items[f]
  BY <1>1, <1>4 DEF Over
<1>6. merged[f].rating = rt[f]
  BY <1>1, <1>4, <1>5 DEF Track
<1>7. f \in whole => edited[f].rating = rt[f]
  BY <1>1, <1>4
<1>8. tracks[f] = IF f \in whole THEN edited[f] ELSE merged[f]
  BY <1>1, <1>3 DEF Over
<1> QED BY <1>3, <1>6, <1>7, <1>8

\* Where no scan runs and no result is on its way, there is only the catalogue.
LEMMA RatingsAtRest ==
    ASSUME NEW l, NEW ms, ms = <<>>, NEW s, NEW sv, NEW rt, NEW P, NEW f, NEW p,
           RatedHere(l, rt, P, f)
    PROVE  Ratings(l, NoWorker, ms, s, sv, rt, P, f, p)
<1>1. NoWorker.unposted = NoResult /\ NoWorker.pc \notin Running /\ DOMAIN ms = {}
  BY DEF NoWorker, Running
<1>2. \A r : ~Pending(r, NoWorker, ms, s)
  BY <1>1 DEF Pending
<1>3. Scanned(l, NoWorker, ms, s, sv, rt, f, p) /\ Lineage(NoWorker, ms, s, f)
  BY <1>1, <1>2 DEF Scanned, Lineage
<1> QED BY <1>3 DEF Ratings

LEMMA SaveLibraryRates == QInv /\ SaveLibrary => QInv'
<1> SUFFICES ASSUME QInv, SaveLibrary, Calm(env') PROVE QInv'
  BY DEF QInv
<1>1. /\ phase' = "closed" /\ saved' = Snapshot(lib) /\ worker' = NoWorker
      /\ messages' = <<>> /\ UNCHANGED <<env, present, lib, scan, rated>>
  BY DEF SaveLibrary, SaveFails, Calm, Mishaps, diskVars, history
<1>2. RInv
  BY <1>1, CalmYields
<1>3. ASSUME NEW f \in Files
      PROVE  /\ Ratings(lib, worker', messages', scan, saved', rated, present, f, phase')
             /\ SavedRating(saved', rated, f)
  <2>1. Ratings(lib, worker, messages, scan, saved, rated, present, f, phase)
    BY <1>1, CalmYields
  <2>2. RatedHere(lib, rated, present, f)
    BY <2>1 DEF Ratings
  <2>3. PICK ms, sv, p : ms = messages' /\ sv = saved' /\ p = phase'
    OBVIOUS
  <2>4. Ratings(lib, NoWorker, ms, scan, sv, rated, present, f, p)
    BY <1>1, <2>2, <2>3, RatingsAtRest
  <2>5. SavedRating(Snapshot(lib), rated, f)
    BY <2>2, SnapshotRates
  <2> QED BY <1>1, <2>3, <2>4, <2>5
<1>4. Whole(worker')
  BY <1>1 DEF Whole, NoWorker
<1>5. RInv'
  BY <1>2, SaveLibraryLeaves
<1> QED BY <1>1, <1>3, <1>4, <1>5 DEF QInv

-----------------------------------------------------------------------------
(* The initial states, the theorem.                                        *)

LEMMA InitRates == Init => QInv
<1> SUFFICES ASSUME Init, Calm(env) PROVE QInv
  BY DEF QInv
<1>1. /\ lib = EmptyCatalogue /\ scan = 1 /\ phase = "open" /\ rated = None
      /\ worker = Job([EmptyCatalogue EXCEPT !.directory = TRUE], 1) /\ messages = <<>>
  BY DEF Init, MonitorInit
<1>2. RInv
  <2>1. Benign(env)
    BY DEF Calm, Mishaps, Benign
  <2> QED BY <2>1, InitRemovals
<1>3. worker.unposted = NoResult
  BY <1>1 DEF Job
<1>4. DOMAIN lib.items = {} /\ DOMAIN rated = {} /\ DOMAIN messages = {}
  <2>1. lib.items = None
    BY <1>1 DEF EmptyCatalogue
  <2>2. DOMAIN None = {}
    BY NothingIs
  <2> QED BY <1>1, <2>1, <2>2
<1>5. \A r : ~Pending(r, worker, messages, scan)
  BY <1>3, <1>4 DEF Pending
<1>6. ASSUME NEW f \in Files
      PROVE  Ratings(lib, worker, messages, scan, saved, rated, present, f, phase)
  <2>1. f \notin Live(lib) /\ f \notin DOMAIN rated
    BY <1>4 DEF Live
  <2>2. RatedHere(lib, rated, present, f)
    BY <2>1 DEF RatedHere
  <2>3. \A m, n : Agrees(lib, m, n, rated, f, phase)
    BY <2>1 DEF Agrees
  <2>4. Scanned(lib, worker, messages, scan, saved, rated, f, phase)
    BY <2>3 DEF Scanned
  <2>5. Lineage(worker, messages, scan, f)
    BY <1>5 DEF Lineage
  <2> QED BY <2>2, <2>4, <2>5 DEF Ratings
<1> QED BY <1>1, <1>2, <1>3, <1>6 DEF QInv, Whole

LEMMA StutterRates == QInv /\ UNCHANGED vars => QInv'
<1> SUFFICES ASSUME QInv, UNCHANGED vars PROVE QInv'
  OBVIOUS
<1>1. UNCHANGED <<env, present, messages, lib, scan, worker, phase, saved, rated>>
  BY DEF vars, monitorVars, libraryVars, diskVars, history
<1>2. Calm(env) => RInv'
  BY StutterLeaves DEF QInv
<1> QED BY <1>1, <1>2 DEF QInv

\* While no file of the directory is written and none of the Mishaps happens, the
\* rating a user gives a track is what the library shows and what the file written
\* at the end says, however many scans started before it deliver their results
\* after it, in whatever order results, notifications and commands come, also
\* where a complete result is refused and recovered later, where notifications
\* overflow or are dropped and where files cannot be read (RecordEdit,
\* ApplyMediaLibraryIndex, ShutdownMediaLibrary).
THEOREM RatingsHold == Spec => []RatingHolds
<1>1. QInv /\ [Next]_vars => QInv'
  BY DirectoryWriteRates, WatchRates, BuildRates, ReceiveResultRates,
     ReceiveChangeRates, PollWorkersRates, UserCommandRates, CloseRates,
     TakeUnpostedRates, SaveLibraryRates, StutterRates
     DEF Next, Window, Shutdown
<1>2. IInv /\ QInv => RatingHolds
  <2> SUFFICES ASSUME IInv, QInv, Avoids({"create", "modify"} \cup Mishaps)
               PROVE  /\ RatingIsKept
                      /\ phase = "closed" =>
                            \A f \in DOMAIN rated \cap DOMAIN saved :
                                saved[f].rating = rated[f]
    BY DEF RatingHolds
  <2>1. env \subseteq Hazards /\ rated \in Entries(Nat)
    BY DEF IInv, Typed, MonitorTyped, LibraryTyped
  <2>2. Calm(env)
    BY <2>1 DEF Avoids, Calm, Mishaps
  <2>3. DOMAIN rated \subseteq Files
    BY <2>1, EntriesYields
  <2>4. ASSUME NEW f \in DOMAIN rated
        PROVE  /\ f \in Live(lib) => lib.items[f].rating = rated[f]
               /\ phase = "closed" /\ f \in DOMAIN saved => saved[f].rating = rated[f]
    <3>1. Ratings(lib, worker, messages, scan, saved, rated, present, f, phase)
      BY <2>2, <2>3, CalmYields
    <3>2. phase = "closed" => SavedRating(saved, rated, f)
      BY <2>2, <2>3 DEF QInv
    <3> QED BY <3>1, <3>2 DEF Ratings, RatedHere, Live, SavedRating
  <2> QED BY <2>4 DEF RatingIsKept
<1> QED BY InitRates, <1>1, <1>2, InductiveInvariant, PTL DEF Spec

-----------------------------------------------------------------------------
(* No track is lost: the inductive invariant.                              *)

\* What NoTrackLost excludes does not happen.
Plain(e) ==
    e \cap {"recreate", "partial", "throw", "cancel", "unloaded", "unsaved"} = {}

\* The files that have been in the directory, and those of them that are gone:
\* no name comes back.
Ever == {f \in Files : content[f] # 0}
Lost == Ever \ present

\* The library, its scan and its results speak of files S that have been in the
\* directory, and only of such, G, as missing or removed that are gone.
Known(l, S, G) ==
    /\ DOMAIN l.items \cup DOMAIN l.persisted \subseteq S
    /\ DOMAIN l.edits \cup DOMAIN l.tracks \subseteq S
    /\ \A f \in DOMAIN l.fileChanges : l.fileChanges[f].removed => f \in G

KnownScan(w, S, G) ==
    w # NoWorker =>
        /\ DOMAIN w.items \cup DOMAIN w.tracks \cup DOMAIN w.persisted \subseteq S
        /\ w.todo \subseteq S
        /\ w.missing \subseteq G

KnownResults(w, ms, s, S, G) ==
    \A r \in Results : Pending(r, w, ms, s) =>
        DOMAIN r.items \subseteq S /\ r.missing \subseteq G

\* Whatever is on its way is of one scan.
OneScan(w, ms, s) ==
    \A r \in Results : Pending(r, w, ms, s) =>
        /\ w.pc \in Running => r.revision = w.revision
        /\ \A q \in Results : Pending(q, w, ms, s) => q.revision = r.revision

Grounded(l, idx, w, ms, s, S, G) ==
    /\ Known(l, S, G) /\ KnownScan(w, S, G) /\ KnownResults(w, ms, s, S, G)
    /\ Whole(w) /\ OneScan(w, ms, s) /\ Loading(l, idx, w, ms, s)

\* f is in the catalogue, or in the library file it has not loaded yet, and
\* will be among the seeds of the next scan.
Here(l, sv, f) ==
    /\ f \notin l.excluded
    /\ f \in DOMAIN l.items \/ (~l.loaded /\ f \in DOMAIN sv)
    /\ l.loaded => f \in DOMAIN l.persisted

\* A scan of revision n has f among its tracks m, or f was added since.
Finds(l, m, n, f) == f \in DOMAIN m \/ WholeEdit(l, f, n)

Kept(l, w, ms, s, sv, f) ==
    /\ Here(l, sv, f)
    /\ w.pc \in Running => Finds(l, Coming(w, sv), w.revision, f)
    /\ \A r \in Results : Pending(r, w, ms, s) => Finds(l, r.items, r.revision, f)

\* Notifications and records are true.
Told(ms, G) ==
    \A i \in DOMAIN ms :
        ms[i].kind = "change" /\ ms[i].action = "removed" => ms[i].file \in G
RecordsTold(rs, G) ==
    \A i \in DOMAIN rs : rs[i][1] = "removed" => rs[i][2] \in G

\* The tracks that must not be lost.
Wanted == ((DOMAIN saved \cup added) \cap present) \ discarded

TInv ==
    Plain(env) =>
        IF phase = "closed" THEN (added \cap present) \ discarded \subseteq DOMAIN saved
        ELSE /\ present \cup DOMAIN saved \cup added \subseteq Ever
             /\ Told(messages, Lost) /\ RecordsTold(recorded, Lost)
             /\ Grounded(lib, indexing, worker, messages, scan, Ever, Lost)
             /\ \A f \in Wanted : Kept(lib, worker, messages, scan, saved, f)

-----------------------------------------------------------------------------
(* No track is lost: handlers.                                             *)

\* Less is on its way, and the worker is the same or reaped.
LEMMA LessOnItsWay ==
    ASSUME NEW l, NEW idx, NEW w \in Jobs \cup {NoWorker}, NEW v, v \in {w, NoWorker},
           NEW ms, NEW ns, NEW s,
           \A q \in Results : Pending(q, v, ns, s) => Pending(q, w, ms, s)
    PROVE  /\ \A S, G : Grounded(l, idx, w, ms, s, S, G) => Grounded(l, idx, v, ns, s, S, G)
           /\ \A sv, f : Kept(l, w, ms, s, sv, f) => Kept(l, v, ns, s, sv, f)
<1>1. /\ NoWorker.pc = "none" /\ NoWorker.unposted = NoResult
      /\ NoWorker.pc \notin Running
  BY DEF NoWorker, Running
<1>2. ASSUME NEW S, NEW G, Grounded(l, idx, w, ms, s, S, G)
      PROVE  Grounded(l, idx, v, ns, s, S, G)
  <2>1. KnownScan(v, S, G) /\ Whole(v)
    BY <1>1, <1>2 DEF Grounded, KnownScan, Whole
  <2>2. KnownResults(v, ns, s, S, G)
    BY <1>2 DEF Grounded, KnownResults
  <2>3. OneScan(v, ns, s)
    BY <1>1, <1>2 DEF Grounded, OneScan
  <2>4. Loading(l, idx, v, ns, s)
    BY <1>1, <1>2 DEF Grounded, Loading
  <2> QED BY <1>2, <2>1, <2>2, <2>3, <2>4 DEF Grounded
<1>3. ASSUME NEW sv, NEW f, Kept(l, w, ms, s, sv, f)
      PROVE  Kept(l, v, ns, s, sv, f)
  BY <1>1, <1>3 DEF Kept
<1> QED BY <1>2, <1>3

LEMMA TakenIsLess ==
    ASSUME NEW w, NEW ms \in Seq(Messages), NEW i \in DOMAIN ms, NEW s \in Nat, MailOK(ms, s),
           NEW rest, rest = RemoveAt(ms, i)
    PROVE  /\ \A q \in Results : Pending(q, w, rest, s) => Pending(q, w, ms, s)
           /\ \A G : Told(ms, G) => Told(rest, G)
<1>1. Taken(ms, i, s, rest)
  BY TakenYields
<1>2. \A k \in DOMAIN rest : \E j \in DOMAIN ms : rest[k] = ms[j]
  BY <1>1 DEF Taken
<1> QED BY <1>2 DEF Pending, Told

\* A scan that starts takes its seeds from the catalogue, and the queued tracks.
LEMMA TracksAtStart ==
    ASSUME NEW l \in Catalogue, NEW ms \in Seq(Messages), NEW s \in Nat,
           Sound(l, NoWorker, ms, s),
           NEW S, NEW G, Grounded(l, FALSE, NoWorker, ms, s, S, G),
           NEW a, a = [l EXCEPT !.files = {}, !.directory = FALSE, !.tracks = None],
           NEW j, j = Job(l, s + 1)
    PROVE  /\ Grounded(a, TRUE, j, ms, s + 1, S, G)
           /\ \A sv, f : Kept(l, NoWorker, ms, s, sv, f) => Kept(a, j, ms, s + 1, sv, f)
<1>1. /\ a.items = l.items /\ a.persisted = l.persisted /\ a.edits = l.edits
      /\ a.excluded = l.excluded /\ a.tracks = None /\ DOMAIN None = {}
      /\ a.fileChanges = l.fileChanges /\ a.loaded = l.loaded
  BY NothingIs DEF Catalogue
<1>2. l.loaded
  BY DEF Grounded, Loading
<1>3. /\ j.pc = "files" /\ j.unposted = NoResult /\ j.load = FALSE
      /\ j.items = None /\ j.tracks = l.tracks /\ j.persisted = l.persisted
      /\ j.todo = {} /\ j.missing = {}
  BY <1>2 DEF Job
<1>4. \A r : ~Pending(r, j, ms, s + 1)
  <2>1. \A i \in DOMAIN ms : ~Current(ms[i], s + 1)
    <3>1. MailOK(ms, s)
      BY DEF Sound, Protocol
    <3> QED BY <3>1, NewScanHasNoMail
  <2> QED BY <1>3, <2>1 DEF Pending
<1>5. Known(a, S, G) /\ KnownScan(j, S, G)
  BY <1>1, <1>3 DEF Grounded, Known, KnownScan
<1>6. /\ KnownResults(j, ms, s + 1, S, G) /\ OneScan(j, ms, s + 1)
      /\ Whole(j) /\ Loading(a, TRUE, j, ms, s + 1)
  BY <1>1, <1>2, <1>3, <1>4 DEF KnownResults, OneScan, Whole, Loading
<1>7. ASSUME NEW sv, NEW f, Kept(l, NoWorker, ms, s, sv, f)
      PROVE  Kept(a, j, ms, s + 1, sv, f)
  <2>1. Here(a, sv, f) /\ f \in DOMAIN l.persisted
    BY <1>1, <1>2, <1>7 DEF Kept, Here
  <2>2. f \in DOMAIN Coming(j, sv)
    BY <1>3, <2>1 DEF Coming, Over
  <2> QED BY <1>4, <2>1, <2>2 DEF Kept, Finds
<1> QED BY <1>5, <1>6, <1>7 DEF Grounded

LEMMA TracksAtEnd ==
    ASSUME scan \in Nat,
           NEW l \in Catalogue, NEW idx \in BOOLEAN, NEW w \in Jobs \cup {NoWorker},
           NEW ms \in Seq(Messages), Ends(l, idx, w), Sound(l, w, ms, scan),
           NEW S, NEW G, Grounded(l, idx, w, ms, scan, S, G)
    PROVE  /\ Grounded(lib', indexing', worker', ms, scan', S, G)
           /\ \A sv, f : Kept(l, w, ms, scan, sv, f) => Kept(lib', worker', ms, scan', sv, f)
<1>1. CASE lib' = l /\ worker' = w /\ scan' = scan /\ indexing' = idx
  BY <1>1
<1>2. CASE /\ lib' = [l EXCEPT !.files = {}, !.directory = FALSE, !.tracks = None]
           /\ scan' = scan + 1 /\ worker' = Job(l, scan + 1) /\ indexing' = TRUE
           /\ idx = FALSE /\ w = NoWorker
  <2>1. PICK a, j, s : a = lib' /\ j = worker' /\ s = scan
    OBVIOUS
  <2>2. /\ a = [l EXCEPT !.files = {}, !.directory = FALSE, !.tracks = None]
        /\ j = Job(l, s + 1) /\ s \in Nat
    BY <1>2, <2>1
  <2>3. Sound(l, NoWorker, ms, s) /\ Grounded(l, FALSE, NoWorker, ms, s, S, G)
    BY <1>2, <2>1
  <2>4. /\ Grounded(a, TRUE, j, ms, s + 1, S, G)
        /\ \A sv, f : Kept(l, NoWorker, ms, s, sv, f) => Kept(a, j, ms, s + 1, sv, f)
    BY <2>2, <2>3, TracksAtStart
  <2> QED BY <1>2, <2>1, <2>4
<1>3. idx = FALSE \/ idx = TRUE
  OBVIOUS
<1> QED BY <1>1, <1>2, <1>3 DEF Ends, Refresh, Settle

-----------------------------------------------------------------------------
(* No track is lost: the directory and its monitor.                        *)

LEMMA WiderGrounds ==
    ASSUME NEW l, NEW idx, NEW w, NEW ms, NEW s, NEW S, NEW G,
           Grounded(l, idx, w, ms, s, S, G), NEW T, S \subseteq T, NEW H, G \subseteq H
    PROVE  Grounded(l, idx, w, ms, s, T, H)
<1>1. Known(l, T, H) /\ KnownScan(w, T, H)
  BY DEF Grounded, Known, KnownScan
<1>2. KnownResults(w, ms, s, T, H)
  BY DEF Grounded, KnownResults
<1> QED BY <1>1, <1>2 DEF Grounded

LEMMA NotificationsAreLess ==
    ASSUME NEW w, NEW ms \in Seq(Messages), NEW s \in Nat,
           NEW cs \in Seq(Changes \cup Rescans), NEW all, all = ms \o cs
    PROVE  \A q \in Results : Pending(q, w, all, s) => Pending(q, w, ms, s)
<1>1. \A i \in DOMAIN all : \/ \E j \in DOMAIN ms : all[i] = ms[j]
                            \/ \E k \in DOMAIN cs : all[i] = cs[k]
  BY ChangesBehind
<1>2. \A k \in DOMAIN cs : ~Current(cs[k], s)
  <2>1. \A k \in DOMAIN cs : cs[k] \in Changes \cup Rescans
    OBVIOUS
  <2> QED BY <2>1, ChangesAreNotCurrent
<1> QED BY <1>1, <1>2 DEF Pending

\* The step leaves the library alone: no file it knows comes back, and what is
\* recorded or posted is true.
LEMMA OutsideLosesNothing ==
    ASSUME IInv, TInv, Plain(env), UNCHANGED libraryVars,
           Ever \subseteq Ever', Lost \subseteq Lost',
           present' \subseteq Ever', present' \cap Ever \subseteq present,
           phase # "closed", Told(messages', Lost'), RecordsTold(recorded', Lost'),
           NEW cs \in Seq(Changes \cup Rescans), messages' = messages \o cs
    PROVE  TInv'
<1>1. UNCHANGED <<lib, indexing, worker, scan, phase, saved, discarded, added>>
  BY DEF libraryVars, history
<1>2. /\ messages \in Seq(Messages) /\ scan \in Nat /\ worker \in Jobs \cup {NoWorker}
  BY DEF IInv, Typed, MonitorTyped, LibraryTyped
<1>3. /\ present \cup DOMAIN saved \cup added \subseteq Ever
      /\ Grounded(lib, indexing, worker, messages, scan, Ever, Lost)
      /\ \A f \in Wanted : Kept(lib, worker, messages, scan, saved, f)
  BY DEF TInv
<1>4. PICK ms, S, G : ms = messages' /\ S = Ever' /\ G = Lost'
  OBVIOUS
<1>5. \A q \in Results : Pending(q, worker, ms, scan) => Pending(q, worker, messages, scan)
  BY <1>2, <1>4, NotificationsAreLess
<1>6. worker \in {worker, NoWorker}
  OBVIOUS
<1>7. /\ Grounded(lib, indexing, worker, ms, scan, Ever, Lost)
      /\ \A f \in Wanted : Kept(lib, worker, ms, scan, saved, f)
  BY <1>2, <1>3, <1>5, <1>6, LessOnItsWay
<1>8. Grounded(lib, indexing, worker, ms, scan, S, G)
  BY <1>4, <1>7, WiderGrounds
<1>9. ((DOMAIN saved \cup added) \cap present') \ discarded \subseteq Wanted
  BY <1>3 DEF Wanted
<1>10. \A f \in Wanted' : Kept(lib, worker, ms, scan, saved, f)
  BY <1>1, <1>7, <1>9 DEF Wanted
<1>11. present' \cup DOMAIN saved' \cup added' \subseteq Ever'
  BY <1>1, <1>3
<1>12. /\ Grounded(lib', indexing', worker', messages', scan', Ever', Lost')
       /\ \A f \in Wanted' : Kept(lib', worker', messages', scan', saved', f)
  BY <1>1, <1>4, <1>8, <1>10
<1> QED BY <1>1, <1>11, <1>12 DEF TInv

LEMMA RecordedTells ==
    ASSUME NEW rs \in Seq(Actions \X Files), NEW G, NEW H, RecordsTold(rs, G), G \subseteq H,
           NEW r, r[1] = "removed" => r[2] \in H, NEW qs, qs = rs \/ qs = Append(rs, r)
    PROVE  RecordsTold(qs, H)
<1>1. CASE qs = rs
  BY <1>1 DEF RecordsTold
<1>2. CASE qs = Append(rs, r)
  <2>1. \A i \in DOMAIN qs : (i \in DOMAIN rs /\ qs[i] = rs[i]) \/ qs[i] = r
    BY <1>2
  <2>2. ASSUME NEW i \in DOMAIN qs, qs[i][1] = "removed" PROVE qs[i][2] \in H
    <3>1. CASE i \in DOMAIN rs /\ qs[i] = rs[i]
      BY <2>2, <3>1 DEF RecordsTold
    <3>2. CASE qs[i] = r
      BY <2>2, <3>2
    <3> QED BY <2>1, <3>1, <3>2
  <2> QED BY <2>2 DEF RecordsTold
<1> QED BY <1>1, <1>2

LEMMA DirectoryWriteLosesNothing == IInv /\ TInv /\ DirectoryWrite => TInv'
<1> SUFFICES ASSUME IInv, TInv, DirectoryWrite, Plain(env') PROVE TInv'
  BY DEF TInv
<1>1. UNCHANGED libraryVars /\ phase # "closed"
  BY DEF DirectoryWrite
<1>2. PICK f \in Files : CreateFile(f) \/ ModifyFile(f) \/ RemoveFile(f)
  BY DEF DirectoryWrite
<1>3. PICK c : Written(f, c) /\ (c = "removed" => RemoveFile(f))
  BY <1>2 DEF CreateFile, ModifyFile, RemoveFile
<1>4. /\ env' = env /\ messages' = messages
      /\ recorded' \in {recorded, Append(recorded, <<c, f>>)}
  BY <1>3 DEF Written
<1>5. /\ present \subseteq Files /\ content \in [Files -> Nat]
      /\ messages \in Seq(Messages) /\ recorded \in Seq(Actions \X Files)
  BY DEF IInv, Typed, MonitorTyped
<1>6. /\ present \subseteq Ever /\ Told(messages, Lost) /\ RecordsTold(recorded, Lost)
  BY <1>1, <1>4 DEF TInv
<1>7. /\ Ever \subseteq Ever' /\ Lost \subseteq Lost' /\ present' \subseteq Ever'
      /\ present' \cap Ever \subseteq present /\ (RemoveFile(f) => f \in Lost')
  <2>1. CASE CreateFile(f)
    <3>1. content[f] = 0 /\ present' = present \cup {f} /\ f \notin present
      BY <1>4, <2>1 DEF CreateFile, Plain
    <3>2. content' \in [Files -> Nat] /\ content'[f] = 1
          /\ \A g \in Files : g # f => content'[g] = content[g]
      BY <1>5, <2>1, <3>1 DEF CreateFile
    <3>3. Ever' = Ever \cup {f} /\ f \notin Ever
      BY <3>1, <3>2 DEF Ever
    <3>4. ~RemoveFile(f)
      BY <3>1 DEF RemoveFile
    <3> QED BY <1>6, <3>1, <3>3, <3>4 DEF Lost
  <2>2. CASE ModifyFile(f)
    <3>1. /\ present' = present /\ f \in present /\ content[f] # 0
      BY <1>6, <2>2 DEF ModifyFile, Ever
    <3>2. /\ content'[f] = content[f] + 1 /\ content[f] \in Nat
          /\ \A g \in Files : g # f => content'[g] = content[g]
      BY <1>5, <2>2 DEF ModifyFile
    <3>3. Ever' = Ever
      BY <3>1, <3>2 DEF Ever
    <3>4. ~RemoveFile(f)
      BY <3>1 DEF RemoveFile
    <3> QED BY <1>6, <3>1, <3>3, <3>4 DEF Lost
  <2>3. CASE RemoveFile(f)
    <3>1. /\ present' = present \ {f} /\ f \in present /\ content' = content
      BY <2>3 DEF RemoveFile
    <3>2. Ever' = Ever
      BY <3>1 DEF Ever
    <3> QED BY <1>6, <3>1, <3>2 DEF Lost
  <2> QED BY <1>2, <2>1, <2>2, <2>3
<1>8. <<>> \in Seq(Changes \cup Rescans) /\ messages' = messages \o <<>>
  BY <1>4, <1>5, NothingPosted
<1>9. Told(messages', Lost')
  BY <1>4, <1>6, <1>7 DEF Told
<1>10. RecordsTold(recorded', Lost')
  <2>1. PICK G, qs, r : G = Lost' /\ qs = recorded' /\ r = <<c, f>>
    OBVIOUS
  <2>2. r[1] = "removed" => r[2] \in G
    BY <1>3, <1>7, <2>1
  <2>3. /\ qs = recorded \/ qs = Append(recorded, r)
        /\ RecordsTold(recorded, Lost) /\ Lost \subseteq G
    BY <1>4, <1>6, <1>7, <2>1
  <2>4. RecordsTold(qs, G)
    BY <1>5, <2>2, <2>3, RecordedTells
  <2> QED BY <2>1, <2>4
<1> QED BY <1>1, <1>4, <1>7, <1>8, <1>9, <1>10, OutsideLosesNothing

LEMMA WatchLosesNothing == IInv /\ TInv /\ Watch => TInv'
<1> SUFFICES ASSUME IInv, TInv, Watch, Plain(env') PROVE TInv'
  BY DEF TInv
<1>1. /\ UNCHANGED diskVars /\ UNCHANGED libraryVars /\ SameHazards(env, env')
      /\ RecordsKept
  BY DEF Watch, WatchStep, OpenWatch, AnnounceScan, ReadBatch, DropRecord, ReadOverflow,
         Rearm, RearmFails, SameHazards, RecordsKept
<1>2. Plain(env) /\ present' = present /\ Ever' = Ever /\ Lost' = Lost /\ UNCHANGED phase
  BY <1>1 DEF SameHazards, Plain, diskVars, Ever, Lost, libraryVars
<1>3. /\ messages \in Seq(Messages) /\ generation \in Nat
      /\ recorded \in Seq(Actions \X Files) /\ Typed
  BY DEF IInv, Typed, MonitorTyped
<1>4. PICK cs \in Seq(Changes \cup Rescans) : messages' = messages \o cs
  BY <1>3, WatchPosts
<1>5. ASSUME phase # "closed"
      PROVE  /\ Told(messages', Lost) /\ RecordsTold(recorded', Lost)
             /\ present \subseteq Ever
  <2>1. Told(messages, Lost) /\ RecordsTold(recorded, Lost) /\ present \subseteq Ever
    BY <1>2, <1>5 DEF TInv
  <2>2. RecordsTold(recorded', Lost)
    <3>1. PICK rs : rs = recorded'
      OBVIOUS
    <3>2. \A k \in DOMAIN rs : \E j \in DOMAIN recorded : rs[k] = recorded[j]
      BY <1>1, <1>3, <3>1, RecordsKeep
    <3>3. RecordsTold(rs, Lost)
      BY <2>1, <3>2 DEF RecordsTold
    <3> QED BY <3>1, <3>3
  <2>3. PICK ms : ms = messages'
    OBVIOUS
  <2>4. CASE messages' = messages
    BY <2>1, <2>2, <2>4
  <2>5. CASE messages' = Append(messages, Rescan)
    <3>1. Rescan.action = "rescan" /\ Rescan \in Messages
      BY <1>3, RescanIsMessage DEF Rescan, Messages
    <3>2. \A i \in DOMAIN ms : (i \in DOMAIN messages /\ ms[i] = messages[i]) \/ ms[i] = Rescan
      BY <1>3, <2>3, <2>5, <3>1
    <3>3. Told(ms, Lost)
      BY <2>1, <3>1, <3>2 DEF Told
    <3> QED BY <2>1, <2>2, <2>3, <3>3
  <2>6. CASE ReadBatch
    <3>1. PICK bs : bs = [i \in DOMAIN recorded |-> Change(recorded[i][1], recorded[i][2])]
      OBVIOUS
    <3>2. \A i \in DOMAIN recorded : Change(recorded[i][1], recorded[i][2]) \in Messages
      <4> SUFFICES ASSUME NEW i \in DOMAIN recorded
                   PROVE  Change(recorded[i][1], recorded[i][2]) \in Messages
        OBVIOUS
      <4>1. PICK c, f : c = recorded[i][1] /\ f = recorded[i][2]
        OBVIOUS
      <4>2. recorded[i] \in Actions \X Files
        BY <1>3
      <4>3. c \in Actions /\ f \in Files
        BY <4>1, <4>2
      <4> QED BY <1>3, <4>1, <4>3, ChangeIsMessage DEF Messages
    <3>3. bs \in Seq(Messages) /\ DOMAIN bs = DOMAIN recorded
      <4>1. DOMAIN recorded = 1..Len(recorded) /\ Len(recorded) \in Nat
        BY <1>3
      <4>2. bs \in [1..Len(recorded) -> Messages]
        BY <3>1, <3>2, <4>1
      <4> QED BY <3>1, <4>1, <4>2, SeqDef
    <3>4. \A i \in DOMAIN ms : \/ i \in DOMAIN messages /\ ms[i] = messages[i]
                               \/ \E k \in DOMAIN bs : ms[i] = bs[k]
      <4>1. ms = messages \o bs
        BY <2>3, <2>6, <3>1 DEF ReadBatch
      <4> QED BY <1>3, <3>3, <4>1
    <3>5. ASSUME NEW k \in DOMAIN bs, bs[k].action = "removed" PROVE bs[k].file \in Lost
      <4>1. bs[k].action = recorded[k][1] /\ bs[k].file = recorded[k][2]
        BY <3>1, <3>3 DEF Change
      <4> QED BY <2>1, <3>3, <3>5, <4>1 DEF RecordsTold
    <3>6. Told(ms, Lost)
      BY <2>1, <3>4, <3>5 DEF Told
    <3> QED BY <2>1, <2>2, <2>3, <3>6
  <2> QED BY <2>4, <2>5, <2>6
          DEF Watch, WatchStep, OpenWatch, AnnounceScan, DropRecord, ReadOverflow, Rearm,
              RearmFails, Notify
<1>6. Ever \subseteq Ever' /\ Lost \subseteq Lost' /\ present' \cap Ever \subseteq present
  BY <1>2
<1>7. CASE phase # "closed"
  <2>1. /\ Told(messages', Lost') /\ RecordsTold(recorded', Lost')
        /\ present' \subseteq Ever'
    BY <1>2, <1>5, <1>7
  <2> QED BY <1>1, <1>2, <1>4, <1>6, <1>7, <2>1, OutsideLosesNothing
<1>8. CASE phase = "closed"
  BY <1>1, <1>2, <1>8 DEF TInv, libraryVars, history
<1> QED BY <1>7, <1>8

-----------------------------------------------------------------------------
(* No track is lost: the window.                                           *)

\* What a result of the last scan is when the window receives it.
InLine(r, l, w, ms, s, S, G) ==
    /\ DOMAIN r.items \subseteq S /\ r.missing \subseteq G
    /\ ~l.loaded => r.loads /\ ~r.failed
    /\ w.pc \in Running => w.revision = r.revision
    /\ \A q \in Results : Pending(q, w, ms, s) => q.revision = r.revision

LEMMA PendingIsInLine ==
    ASSUME NEW l, NEW idx, NEW w, NEW v, v \in {w, NoWorker}, NEW ms, NEW ns, NEW s,
           \A q \in Results : Pending(q, v, ns, s) => Pending(q, w, ms, s),
           NEW S, NEW G, Grounded(l, idx, w, ms, s, S, G),
           NEW r \in Results, Pending(r, w, ms, s)
    PROVE  InLine(r, l, v, ns, s, S, G)
<1>1. DOMAIN r.items \subseteq S /\ r.missing \subseteq G
  BY DEF Grounded, KnownResults
<1>2. ~l.loaded => r.loads /\ ~r.failed
  BY DEF Grounded, Loading
<1>3. v.pc \in Running => v.revision = r.revision
  BY DEF Grounded, OneScan, NoWorker, Running
<1>4. \A q \in Results : Pending(q, v, ns, s) => q.revision = r.revision
  BY DEF Grounded, OneScan
<1> QED BY <1>1, <1>2, <1>3, <1>4 DEF InLine

LEMMA AppliedKnows ==
    ASSUME NEW l \in Catalogue, NEW r \in Results, NEW a, a = Applied(l, r), a.loaded,
           NEW S, NEW G, Known(l, S, G), DOMAIN r.items \subseteq S
    PROVE  Known(a, S, G)
<1>1. /\ a.items = Edited(r.items, l, r, a.excluded)
      /\ DOMAIN a.edits \subseteq DOMAIN l.edits
      /\ DOMAIN a.fileChanges \subseteq DOMAIN l.fileChanges
      /\ \A f \in DOMAIN a.fileChanges : a.fileChanges[f] = l.fileChanges[f]
  <2>1. PICK T : a.edits = Without(l.edits, T)
    BY AppliedYields
  <2>2. PICK U : a.fileChanges = Without(l.fileChanges, U)
    BY AppliedYields
  <2>3. a.items = Edited(r.items, l, r, a.excluded)
    BY AppliedYields
  <2> QED BY <2>1, <2>2, <2>3 DEF Without
<1>2. DOMAIN a.items \subseteq DOMAIN r.items \cup DOMAIN l.edits
  BY <1>1, EditedYields
<1>3. DOMAIN a.persisted \subseteq DOMAIN a.items /\ DOMAIN a.tracks \subseteq DOMAIN l.tracks
  BY AppliedRates DEF Live
<1> QED BY <1>1, <1>2, <1>3 DEF Known

\* A result that found f leaves it in the catalogue: it is not missing, and no
\* notification says that it is gone.
LEMMA AppliedHere ==
    ASSUME NEW l \in Catalogue, NEW r \in Results, NEW a, a = Applied(l, r), a.loaded,
           NEW S, NEW G, Known(l, S, G), r.missing \subseteq G,
           NEW sv, NEW f, f \notin G, Here(l, sv, f), Finds(l, r.items, r.revision, f)
    PROVE  Here(a, sv, f)
<1>1. a.excluded = Exclusions(l, r).excluded /\ a.items = Edited(r.items, l, r, a.excluded)
  BY AppliedYields
<1>2. f \notin a.excluded
  <2>1. f \in a.excluded /\ f \notin l.excluded =>
            f \in r.missing \/ (f \in DOMAIN l.fileChanges /\ l.fileChanges[f].removed)
    BY <1>1 DEF Exclusions, Newer
  <2> QED BY <2>1 DEF Here, Known
<1>3. f \in DOMAIN a.items
  BY <1>2, AppliedItems DEF Finds
<1>4. f \in DOMAIN a.persisted
  BY <1>2, <1>3, AppliedRates DEF Live
<1> QED BY <1>2, <1>3, <1>4 DEF Here

\* The edits newer than the scan survive its results.
LEMMA AppliedFinds ==
    ASSUME NEW l \in Catalogue, NEW r \in Results, NEW a, a = Applied(l, r),
           NEW m, NEW n, n = r.revision, NEW f, Finds(l, m, n, f)
    PROVE  Finds(a, m, n, f)
<1>1. WholeEdit(l, f, n) => WholeEdit(a, f, n)
  BY AppliedRates DEF Edit, WholeEdit
<1> QED BY <1>1 DEF Finds

LEMMA TracksApplied ==
    ASSUME scan \in Nat, refreshPending \in BOOLEAN, indexing \in BOOLEAN,
           lib \in Catalogue, NEW r \in Results, r.revision <= lib.revision,
           NEW w \in Jobs \cup {NoWorker}, NEW ms \in Seq(Messages), Apply(r, w),
           Sound(lib, w, ms, scan), NEW S, NEW G,
           Grounded(lib, indexing, w, ms, scan, S, G),
           r.generation = scan => InLine(r, lib, w, ms, scan, S, G)
    PROVE  /\ Grounded(lib', indexing', worker', ms, scan', S, G)
           /\ \A sv, f :
                 /\ f \notin G /\ Kept(lib, w, ms, scan, sv, f)
                 /\ r.generation = scan => Finds(lib, r.items, r.revision, f)
                 => Kept(lib', worker', ms, scan', sv, f)
<1>1. PICK l, idx :
          /\ l = IF r.generation = scan /\ ~r.failed THEN Applied(lib, r) ELSE lib
          /\ idx = IF r.generation = scan THEN ~r.complete ELSE indexing
  OBVIOUS
<1>2. Ends(l, idx, w) /\ idx \in BOOLEAN
  BY <1>1, ResultFields DEF Apply, Ends
<1>3. CASE r.generation # scan
  BY <1>1, <1>2, <1>3, TracksAtEnd
<1>4. CASE r.generation = scan /\ r.failed
  <2>1. lib.loaded
    BY <1>4 DEF InLine
  <2>2. l = lib /\ Loading(l, idx, w, ms, scan)
    BY <1>1, <1>4, <2>1 DEF Loading
  <2>3. Grounded(l, idx, w, ms, scan, S, G)
    BY <2>2 DEF Grounded
  <2> QED BY <1>2, <2>2, <2>3, TracksAtEnd
<1>5. CASE r.generation = scan /\ ~r.failed
  <2>1. InLine(r, lib, w, ms, scan, S, G) /\ l = Applied(lib, r)
    BY <1>1, <1>5
  <2>2. /\ l \in Catalogue /\ l.revision = lib.revision
        /\ l.loaded = (lib.loaded \/ r.loads)
    BY <2>1, AppliedYields
  <2>3. l.loaded
    BY <2>1, <2>2 DEF InLine
  <2>4. Sound(l, w, ms, scan)
    <3>1. Stamped(l)
      BY <2>1, AppliedStamped DEF Sound
    <3> QED BY <2>2, <3>1 DEF Sound
  <2>5. Grounded(l, idx, w, ms, scan, S, G)
    <3>1. Known(l, S, G)
      BY <2>1, <2>3, AppliedKnows DEF Grounded, InLine
    <3>2. Loading(l, idx, w, ms, scan)
      BY <2>3 DEF Loading
    <3> QED BY <3>1, <3>2 DEF Grounded
  <2>6. ASSUME NEW sv, NEW f, f \notin G, Kept(lib, w, ms, scan, sv, f),
               Finds(lib, r.items, r.revision, f)
        PROVE  Kept(l, w, ms, scan, sv, f)
    <3>1. Here(l, sv, f)
      BY <2>1, <2>3, <2>6, AppliedHere DEF Grounded, InLine, Kept
    <3>2. ASSUME w.pc \in Running PROVE Finds(l, Coming(w, sv), w.revision, f)
      <4>1. w.revision = r.revision /\ Finds(lib, Coming(w, sv), w.revision, f)
        BY <2>1, <2>6, <3>2 DEF InLine, Kept
      <4> QED BY <2>1, <4>1, AppliedFinds
    <3>3. ASSUME NEW q \in Results, Pending(q, w, ms, scan)
          PROVE  Finds(l, q.items, q.revision, f)
      <4>1. q.revision = r.revision /\ Finds(lib, q.items, q.revision, f)
        BY <2>1, <2>6, <3>3 DEF InLine, Kept
      <4> QED BY <2>1, <4>1, AppliedFinds
    <3> QED BY <3>1, <3>2, <3>3 DEF Kept
  <2>7. /\ Grounded(lib', indexing', worker', ms, scan', S, G)
        /\ \A sv, f : Kept(l, w, ms, scan, sv, f) => Kept(lib', worker', ms, scan', sv, f)
    BY <1>2, <2>2, <2>4, <2>5, TracksAtEnd
  <2> QED BY <1>5, <2>6, <2>7
<1> QED BY <1>3, <1>4, <1>5

\* What TInv says while the window is not closed.
LEMMA TInvYields ==
    ASSUME IInv, TInv, Plain(env), phase # "closed"
    PROVE  /\ Typed /\ Sound(lib, worker, messages, scan)
           /\ lib \in Catalogue /\ worker \in Jobs \cup {NoWorker}
           /\ messages \in Seq(Messages) /\ scan \in Nat
           /\ indexing \in BOOLEAN /\ refreshPending \in BOOLEAN /\ saved \in Tracks
           /\ content \in [Files -> Nat] /\ present \subseteq Ever
           /\ DOMAIN saved \subseteq Ever /\ added \subseteq Ever
           /\ Told(messages, Lost) /\ RecordsTold(recorded, Lost)
           /\ Grounded(lib, indexing, worker, messages, scan, Ever, Lost)
           /\ \A f \in Wanted : /\ f \notin Lost
                                /\ Kept(lib, worker, messages, scan, saved, f)
BY DEF IInv, TInv, Typed, MonitorTyped, LibraryTyped, Wanted, Lost

LEMMA HandlerLosesNothing ==
    ASSUME env' = env, phase' = phase, phase # "closed",
           UNCHANGED <<present, content, saved>>,
           present \subseteq Ever, DOMAIN saved \subseteq Ever, added' \subseteq Ever,
           Told(messages', Lost), RecordsTold(recorded', Lost),
           Grounded(lib', indexing', worker', messages', scan', Ever, Lost),
           \A f \in Wanted' : Kept(lib', worker', messages', scan', saved, f)
    PROVE  TInv'
<1>1. Ever' = Ever /\ Lost' = Lost
  BY DEF Ever, Lost
<1> QED BY <1>1 DEF TInv

LEMMA ReceiveResultLosesNothing == IInv /\ TInv /\ ReceiveResult => TInv'
<1> SUFFICES ASSUME IInv, TInv, ReceiveResult, Plain(env') PROVE TInv'
  BY DEF TInv
<1>1. /\ UNCHANGED <<env, present, content, phase, saved, recorded, discarded, added>>
      /\ phase # "closed"
  BY DEF ReceiveResult, diskVars, history
<1>2. /\ Sound(lib, worker, messages, scan)
      /\ lib \in Catalogue /\ worker \in Jobs \cup {NoWorker}
      /\ messages \in Seq(Messages) /\ scan \in Nat
      /\ indexing \in BOOLEAN /\ refreshPending \in BOOLEAN
      /\ present \subseteq Ever /\ DOMAIN saved \subseteq Ever /\ added \subseteq Ever
      /\ Told(messages, Lost) /\ RecordsTold(recorded, Lost)
      /\ Grounded(lib, indexing, worker, messages, scan, Ever, Lost)
      /\ \A f \in Wanted : /\ f \notin Lost
                           /\ Kept(lib, worker, messages, scan, saved, f)
  BY <1>1, TInvYields
<1>3. PICK i \in DOMAIN messages :
          /\ messages[i].kind = "ready"
          /\ messages' = RemoveAt(messages, i) /\ Apply(messages[i], worker)
  BY DEF ReceiveResult
<1>4. PICK ms, r : ms = RemoveAt(messages, i) /\ r = messages[i]
  OBVIOUS
<1>5. ms \in Seq(Messages) /\ Sound(lib, worker, ms, scan)
  BY <1>2, <1>4, TakenKeeps
<1>6. r \in Results /\ r.revision <= lib.revision
  <2>1. r \in Messages
    BY <1>2, <1>4
  <2> QED BY <1>2, <1>3, <1>4, <2>1, ReadyIsResult DEF Sound, MailStamped
<1>7. MailOK(messages, scan)
  BY <1>2 DEF Sound, Protocol
<1>8. /\ \A q \in Results : Pending(q, worker, ms, scan) => Pending(q, worker, messages, scan)
      /\ Told(ms, Lost)
  BY <1>2, <1>4, <1>7, TakenIsLess
<1>9. worker \in {worker, NoWorker}
  OBVIOUS
<1>10. /\ Grounded(lib, indexing, worker, ms, scan, Ever, Lost)
       /\ \A f \in Wanted : Kept(lib, worker, ms, scan, saved, f)
  BY <1>2, <1>8, <1>9, LessOnItsWay
<1>11. r.generation = scan =>
          /\ InLine(r, lib, worker, ms, scan, Ever, Lost)
          /\ \A f \in Wanted : Finds(lib, r.items, r.revision, f)
  <2> SUFFICES ASSUME r.generation = scan
               PROVE  /\ InLine(r, lib, worker, ms, scan, Ever, Lost)
                      /\ \A f \in Wanted : Finds(lib, r.items, r.revision, f)
    OBVIOUS
  <2>1. Pending(r, worker, messages, scan)
    BY <1>3, <1>4 DEF Pending, Current
  <2>2. InLine(r, lib, worker, ms, scan, Ever, Lost)
    BY <1>2, <1>6, <1>8, <1>9, <2>1, PendingIsInLine
  <2> QED BY <1>2, <1>6, <2>1, <2>2 DEF Kept
<1>12. Apply(r, worker)
  BY <1>3, <1>4
<1>13. /\ Grounded(lib', indexing', worker', ms, scan', Ever, Lost)
       /\ \A f \in Wanted : Kept(lib', worker', ms, scan', saved, f)
  BY <1>2, <1>5, <1>6, <1>10, <1>11, <1>12, TracksApplied
<1>14. Wanted' = Wanted /\ added' = added
  BY <1>1 DEF Wanted
<1>15. /\ Told(messages', Lost) /\ RecordsTold(recorded', Lost)
       /\ Grounded(lib', indexing', worker', messages', scan', Ever, Lost)
       /\ \A f \in Wanted' : Kept(lib', worker', messages', scan', saved, f)
  BY <1>1, <1>2, <1>3, <1>4, <1>8, <1>13, <1>14
<1> QED BY <1>1, <1>2, <1>14, <1>15, HandlerLosesNothing

LEMMA PollWorkersLosesNothing == IInv /\ TInv /\ PollWorkers => TInv'
<1> SUFFICES ASSUME IInv, TInv, PollWorkers, Plain(env') PROVE TInv'
  BY DEF TInv
<1>1. /\ UNCHANGED <<env, present, content, messages, phase, saved, recorded,
                     discarded, added>>
      /\ phase # "closed" /\ worker.pc = "done"
  BY DEF PollWorkers, monitorVars, diskVars, history
<1>2. /\ Sound(lib, worker, messages, scan)
      /\ lib \in Catalogue /\ worker \in Jobs \cup {NoWorker}
      /\ messages \in Seq(Messages) /\ scan \in Nat
      /\ indexing \in BOOLEAN /\ refreshPending \in BOOLEAN
      /\ present \subseteq Ever /\ DOMAIN saved \subseteq Ever /\ added \subseteq Ever
      /\ Told(messages, Lost) /\ RecordsTold(recorded, Lost)
      /\ Grounded(lib, indexing, worker, messages, scan, Ever, Lost)
      /\ \A f \in Wanted : /\ f \notin Lost
                           /\ Kept(lib, worker, messages, scan, saved, f)
  BY <1>1, TInvYields
<1>3. worker \in Jobs
  BY <1>1, <1>2, WorkerFields
<1>4. /\ NoWorker \in Jobs \cup {NoWorker} /\ NoWorker.unposted = NoResult
      /\ NoWorker.pc \notin Running /\ NoWorker.pc = "none"
      /\ NoWorker \in {worker, NoWorker}
  BY DEF NoWorker, Running
<1>5. Sound(lib, NoWorker, messages, scan)
  BY <1>2, <1>4 DEF Sound, Numbered, Protocol, Running
<1>6. \A q \in Results : Pending(q, NoWorker, messages, scan) =>
                             Pending(q, worker, messages, scan)
  BY <1>4 DEF Pending
<1>7. /\ Grounded(lib, indexing, NoWorker, messages, scan, Ever, Lost)
      /\ \A f \in Wanted : Kept(lib, NoWorker, messages, scan, saved, f)
  BY <1>2, <1>4, <1>6, LessOnItsWay
<1>8. /\ Grounded(lib', indexing', worker', messages, scan', Ever, Lost)
      /\ \A f \in Wanted : Kept(lib', worker', messages, scan', saved, f)
  <2>1. CASE worker.unposted # NoResult
    <3>1. PICK r \in Results : r = worker.unposted
      BY <1>3, <2>1, JobFields
    <3>2. Pending(r, worker, messages, scan)
      BY <2>1, <3>1 DEF Pending
    <3>3. r.revision <= lib.revision /\ r.generation = scan
      BY <1>2, <2>1, <3>1 DEF Sound, Numbered
    <3>4. InLine(r, lib, NoWorker, messages, scan, Ever, Lost)
      BY <1>2, <1>4, <1>6, <3>2, PendingIsInLine
    <3>5. \A f \in Wanted : Finds(lib, r.items, r.revision, f)
      BY <1>2, <3>2 DEF Kept
    <3>6. Apply(r, NoWorker)
      BY <2>1, <3>1 DEF PollWorkers
    <3> QED BY <1>2, <1>4, <1>5, <1>7, <3>3, <3>4, <3>5, <3>6, TracksApplied
  <2>2. CASE worker.unposted = NoResult
    <3>1. PICK idx : idx = (indexing /\ (worker.posted \/ worker.generation # scan))
      OBVIOUS
    <3>2. Ends(lib, idx, NoWorker) /\ idx \in BOOLEAN
      BY <2>2, <3>1 DEF PollWorkers, Ends
    <3>3. ~lib.loaded => indexing /\ worker.posted
      BY <1>1, <1>2, <2>2 DEF Grounded, Loading
    <3>4. Loading(lib, idx, NoWorker, messages, scan)
      BY <1>7, <3>1, <3>3 DEF Grounded, Loading
    <3>5. Grounded(lib, idx, NoWorker, messages, scan, Ever, Lost)
      BY <1>7, <3>4 DEF Grounded
    <3> QED BY <1>2, <1>4, <1>5, <1>7, <3>2, <3>5, TracksAtEnd
  <2> QED BY <2>1, <2>2
<1>9. Wanted' = Wanted /\ added' = added
  BY <1>1 DEF Wanted
<1>10. /\ Told(messages', Lost) /\ RecordsTold(recorded', Lost)
       /\ Grounded(lib', indexing', worker', messages', scan', Ever, Lost)
       /\ \A f \in Wanted' : Kept(lib', worker', messages', scan', saved', f)
  BY <1>1, <1>2, <1>8, <1>9
<1> QED BY <1>1, <1>2, <1>9, <1>10, HandlerLosesNothing

\* No result is taken from a running worker: only a complete one is refused.
LEMMA TakeUnpostedLosesNothing == IInv /\ TInv /\ TakeUnposted => TInv'
<1> SUFFICES ASSUME IInv, TInv, TakeUnposted, Plain(env') PROVE FALSE
  BY DEF TInv
<1>1. /\ env' = env /\ worker.pc # "done" /\ worker.unposted # NoResult
      /\ phase # "closed"
  BY DEF TakeUnposted, monitorVars
<1>2. /\ Sound(lib, worker, messages, scan)
      /\ Grounded(lib, indexing, worker, messages, scan, Ever, Lost)
  BY <1>1, TInvYields
<1> QED BY <1>1, <1>2 DEF Grounded, Whole, Sound, Protocol

\* What a handler makes of a wanted track: it is kept, or added.
Keeps(l, a, f) ==
    /\ f \in a.excluded => f \in l.excluded
    /\ f \in DOMAIN l.items => f \in DOMAIN a.items
    /\ f \in DOMAIN l.persisted => f \in DOMAIN a.persisted
    /\ f \in DOMAIN l.edits /\ ~l.edits[f].ratingOnly =>
          /\ f \in DOMAIN a.edits /\ ~a.edits[f].ratingOnly
          /\ a.edits[f].revision \in {l.edits[f].revision, l.revision + 1}

Adds(l, a, f) ==
    /\ f \notin a.excluded /\ f \in DOMAIN a.items /\ f \in DOMAIN a.persisted
    /\ f \in DOMAIN a.edits /\ ~a.edits[f].ratingOnly
    /\ a.edits[f].revision = l.revision + 1

LEMMA KeptFollows ==
    ASSUME NEW l \in Catalogue, NEW w \in Jobs \cup {NoWorker}, NEW ms \in Seq(Messages),
           NEW s, Sound(l, w, ms, s), NEW a, a.loaded = l.loaded, NEW sv, NEW f,
           (Kept(l, w, ms, s, sv, f) /\ Keeps(l, a, f)) \/ Adds(l, a, f)
    PROVE  Kept(a, w, ms, s, sv, f)
<1>1. /\ l.revision \in Nat /\ Numbered(w, l.revision, s) /\ MailStamped(ms, l.revision)
  BY CatalogueFields DEF Sound
<1>2. Here(a, sv, f)
  BY DEF Kept, Keeps, Adds, Here
<1>3. ASSUME NEW n \in Nat, n <= l.revision, NEW m,
             Kept(l, w, ms, s, sv, f) => Finds(l, m, n, f)
      PROVE  Finds(a, m, n, f)
  <2>1. l.revision + 1 > n
    BY <1>1, <1>3
  <2>2. Adds(l, a, f) => WholeEdit(a, f, n)
    BY <2>1 DEF Adds, WholeEdit, Edit
  <2>3. Keeps(l, a, f) /\ WholeEdit(l, f, n) => WholeEdit(a, f, n)
    BY <2>1 DEF Keeps, WholeEdit, Edit
  <2> QED BY <1>3, <2>2, <2>3 DEF Finds
<1>4. ASSUME w.pc \in Running PROVE Finds(a, Coming(w, sv), w.revision, f)
  <2>1. w \in Jobs
    BY <1>4, WorkerFields DEF Running
  <2>2. w.revision \in Nat /\ w.revision <= l.revision
    BY <1>1, <2>1, JobFields DEF Numbered
  <2> QED BY <1>3, <1>4, <2>2 DEF Kept
<1>5. ASSUME NEW r \in Results, Pending(r, w, ms, s)
      PROVE  Finds(a, r.items, r.revision, f)
  <2>1. r.revision \in Nat /\ r.revision <= l.revision
    BY <1>1, <1>5, PendingFields
  <2> QED BY <1>3, <1>5, <2>1 DEF Kept
<1> QED BY <1>2, <1>4, <1>5 DEF Kept

\* A handler that changes the catalogue to a before it ends: every wanted track
\* is kept or added, and the notifications it leaves are true.
LEMMA GrowingHandlerLosesNothing ==
    ASSUME IInv, TInv, Plain(env), phase # "closed",
           UNCHANGED <<env, present, content, phase, saved>>,
           NEW a, Grown(lib, a), Ends(a, indexing, worker), Known(a, Ever, Lost),
           added' \subseteq Ever, messages' \in Seq(Messages),
           Sound(lib, worker, messages', scan),
           \A q \in Results : Pending(q, worker, messages', scan) =>
                                  Pending(q, worker, messages, scan),
           Told(messages', Lost), RecordsTold(recorded', Lost),
           \A f \in Wanted' : (f \in Wanted /\ Keeps(lib, a, f)) \/ Adds(lib, a, f)
    PROVE  TInv'
<1>1. /\ lib \in Catalogue /\ worker \in Jobs \cup {NoWorker}
      /\ scan \in Nat /\ indexing \in BOOLEAN
      /\ present \subseteq Ever /\ DOMAIN saved \subseteq Ever
      /\ Grounded(lib, indexing, worker, messages, scan, Ever, Lost)
      /\ \A f \in Wanted : Kept(lib, worker, messages, scan, saved, f)
  BY TInvYields
<1>2. PICK ms : ms = messages'
  OBVIOUS
<1>3. /\ ms \in Seq(Messages) /\ Sound(lib, worker, ms, scan)
      /\ worker \in {worker, NoWorker}
      /\ \A q \in Results : Pending(q, worker, ms, scan) => Pending(q, worker, messages, scan)
  BY <1>2
<1>4. /\ Grounded(lib, indexing, worker, ms, scan, Ever, Lost)
      /\ \A f \in Wanted : Kept(lib, worker, ms, scan, saved, f)
  BY <1>1, <1>3, LessOnItsWay
<1>5. a \in Catalogue /\ a.loaded = lib.loaded /\ Sound(a, worker, ms, scan)
  BY <1>1, <1>3, GrownIsSound DEF Grown
<1>6. Grounded(a, indexing, worker, ms, scan, Ever, Lost)
  <2>1. Loading(a, indexing, worker, ms, scan)
    BY <1>4, <1>5 DEF Grounded, Loading
  <2> QED BY <1>4, <2>1 DEF Grounded
<1>7. ASSUME NEW f \in Wanted' PROVE Kept(a, worker, ms, scan, saved, f)
  <2>1. (Kept(lib, worker, ms, scan, saved, f) /\ Keeps(lib, a, f)) \/ Adds(lib, a, f)
    BY <1>4, <1>7
  <2> QED BY <1>1, <1>3, <1>5, <2>1, KeptFollows
<1>8. /\ Grounded(lib', indexing', worker', ms, scan', Ever, Lost)
      /\ \A f \in Wanted' : Kept(lib', worker', ms, scan', saved, f)
  BY <1>1, <1>3, <1>5, <1>6, <1>7, TracksAtEnd
<1> QED BY <1>1, <1>2, <1>8, HandlerLosesNothing

LEMMA FileRemovedKeeps ==
    ASSUME NEW l \in Catalogue, NEW g, NEW S, NEW G, g \in G, Known(l, S, G),
           NEW a, a = FileRemoved(l, g)
    PROVE  Known(a, S, G) /\ \A f : f \notin G => Keeps(l, a, f)
<1>1. PICK known, notice : /\ known = DOMAIN l.items \cap {g}
                           /\ notice = FileChange(l, g, TRUE)
  OBVIOUS
<1>2. /\ a.items = l.items /\ a.tracks = l.tracks /\ a.edits = l.edits
      /\ a.excluded = l.excluded \cup known /\ a.fileChanges = notice
      /\ a.persisted = Without(l.persisted, known)
  BY <1>1 DEF FileRemoved, Catalogue
<1>3. \A f \in DOMAIN notice : f = g \/ (f \in DOMAIN l.fileChanges
                                         /\ notice[f] = l.fileChanges[f])
  BY <1>1 DEF FileChange, Put, Over
<1>4. \A f \in DOMAIN a.fileChanges : a.fileChanges[f].removed => f \in G
  BY <1>2, <1>3 DEF Known
<1>5. /\ DOMAIN a.persisted \subseteq DOMAIN l.persisted
      /\ \A f \in DOMAIN l.persisted : f \notin known => f \in DOMAIN a.persisted
  BY <1>2 DEF Without
<1>6. ASSUME NEW f, f \notin G PROVE Keeps(l, a, f)
  <2>1. f \notin known
    BY <1>1, <1>6
  <2> QED BY <1>2, <1>5, <2>1 DEF Keeps
<1>7. Known(a, S, G)
  BY <1>2, <1>4, <1>5 DEF Known
<1> QED BY <1>6, <1>7

LEMMA FileAddedKeeps ==
    ASSUME NEW l \in Catalogue, NEW g, NEW S, NEW G, Known(l, S, G),
           NEW a, a = FileAdded(l, g)
    PROVE  Known(a, S, G) /\ \A f : Keeps(l, a, f)
<1>1. PICK revived, notice : /\ revived = {g} \cap l.excluded
                             /\ notice = FileChange(l, g, FALSE)
  OBVIOUS
<1>2. /\ a.items = l.items /\ a.tracks = l.tracks /\ a.edits = l.edits
      /\ a.excluded = l.excluded \ revived /\ a.fileChanges = notice
      /\ a.persisted = l.persisted
  BY <1>1 DEF FileAdded, Catalogue
<1>3. \A f \in DOMAIN notice : \/ f = g /\ notice[f].removed = FALSE
                               \/ /\ f \in DOMAIN l.fileChanges
                                  /\ notice[f] = l.fileChanges[f]
  BY <1>1 DEF FileChange, Put, Over
<1>4. \A f \in DOMAIN a.fileChanges : a.fileChanges[f].removed => f \in G
  BY <1>2, <1>3 DEF Known
<1>5. Known(a, S, G)
  BY <1>2, <1>4 DEF Known
<1>6. \A f : Keeps(l, a, f)
  BY <1>2 DEF Keeps
<1> QED BY <1>5, <1>6

\* A handler that only queues work.
LEMMA SameTracksKeep ==
    ASSUME NEW l, NEW a, a.items = l.items, a.persisted = l.persisted,
           a.tracks = l.tracks, a.edits = l.edits, a.excluded = l.excluded,
           a.fileChanges = l.fileChanges, NEW S, NEW G, Known(l, S, G)
    PROVE  Known(a, S, G) /\ \A f : Keeps(l, a, f)
BY DEF Known, Keeps

LEMMA QueuedKeeps ==
    ASSUME NEW l \in Catalogue, NEW a, NEW S, NEW G, Known(l, S, G),
           \/ a = l \/ a = [l EXCEPT !.directory = TRUE]
           \/ \E g : a = FileModified(l, g)
    PROVE  Known(a, S, G) /\ \A f : Keeps(l, a, f)
<1>1. /\ a.items = l.items /\ a.persisted = l.persisted /\ a.tracks = l.tracks
      /\ a.edits = l.edits /\ a.excluded = l.excluded
      /\ a.fileChanges = l.fileChanges
  BY DEF Catalogue, FileModified
<1> QED BY <1>1, SameTracksKeep

LEMMA ReceiveChangeLosesNothing == IInv /\ TInv /\ ReceiveChange => TInv'
<1> SUFFICES ASSUME IInv, TInv, ReceiveChange, Plain(env') PROVE TInv'
  BY DEF TInv
<1>1. /\ phase = "open" /\ messages # <<>> /\ Head(messages).kind = "change"
      /\ messages' = Tail(messages) /\ HandleChange(Head(messages))
      /\ UNCHANGED <<env, present, content, recorded, phase, saved, discarded, added>>
  BY DEF ReceiveChange, diskVars, history
<1>2. /\ Sound(lib, worker, messages, scan)
      /\ lib \in Catalogue /\ worker \in Jobs \cup {NoWorker}
      /\ messages \in Seq(Messages) /\ scan \in Nat
      /\ added \subseteq Ever /\ Told(messages, Lost) /\ RecordsTold(recorded, Lost)
      /\ Grounded(lib, indexing, worker, messages, scan, Ever, Lost)
      /\ \A f \in Wanted : f \notin Lost
  BY <1>1, TInvYields
<1>3. 1 \in DOMAIN messages /\ Head(messages) = messages[1]
      /\ messages' = RemoveAt(messages, 1)
  BY <1>1, <1>2, TailIsTaken
<1>4. PICK m \in Messages : m = messages[1]
  BY <1>2, <1>3
<1>5. MailOK(messages, scan)
  BY <1>2 DEF Sound, Protocol
<1>6. messages' \in Seq(Messages) /\ Sound(lib, worker, messages', scan)
  BY <1>2, <1>3, TakenKeeps
<1>7. PICK ms : ms = messages'
  OBVIOUS
<1>8. /\ \A q \in Results : Pending(q, worker, ms, scan) => Pending(q, worker, messages, scan)
      /\ Told(ms, Lost)
  BY <1>2, <1>3, <1>5, <1>7, TakenIsLess
<1>9. PICK a : /\ Grown(lib, a) /\ Ends(a, indexing, worker)
               /\ \/ a = lib \/ a = [lib EXCEPT !.directory = TRUE]
                  \/ m.action = "removed" /\ a = FileRemoved(lib, m.file)
                  \/ m.action = "added" /\ a = FileAdded(lib, m.file)
                  \/ m.action = "modified" /\ a = FileModified(lib, m.file)
  BY <1>1, <1>2, <1>3, <1>4, ChangeYields
<1>10. Known(a, Ever, Lost) /\ \A f : f \notin Lost => Keeps(lib, a, f)
  <2>1. Known(lib, Ever, Lost)
    BY <1>2 DEF Grounded
  <2>2. CASE \/ a = lib \/ a = [lib EXCEPT !.directory = TRUE]
             \/ m.action = "modified" /\ a = FileModified(lib, m.file)
    BY <1>2, <2>1, <2>2, QueuedKeeps
  <2>3. CASE m.action = "removed" /\ a = FileRemoved(lib, m.file)
    <3>1. m.file \in Lost
      BY <1>1, <1>2, <1>3, <1>4, <2>3 DEF Told
    <3> QED BY <1>2, <2>1, <2>3, <3>1, FileRemovedKeeps
  <2>4. CASE m.action = "added" /\ a = FileAdded(lib, m.file)
    BY <1>2, <2>1, <2>4, FileAddedKeeps
  <2> QED BY <1>9, <2>2, <2>3, <2>4
<1>11. Wanted' = Wanted /\ added' = added
  BY <1>1 DEF Wanted
<1>12. /\ Told(messages', Lost) /\ RecordsTold(recorded', Lost)
       /\ \A q \in Results : Pending(q, worker, messages', scan) =>
                                 Pending(q, worker, messages, scan)
       /\ \A f \in Wanted' : f \in Wanted /\ Keeps(lib, a, f)
  BY <1>1, <1>2, <1>7, <1>8, <1>10, <1>11
<1> QED BY <1>1, <1>2, <1>6, <1>9, <1>10, <1>11, <1>12, GrowingHandlerLosesNothing

-----------------------------------------------------------------------------
(* No track is lost: the user.                                             *)

LEMMA StarredKeeps ==
    ASSUME NEW l \in Catalogue, NEW g \in Live(l), NEW r, NEW a, a = Starred(l, g, r),
           NEW S, NEW G, Known(l, S, G)
    PROVE  Known(a, S, G) /\ \A f : Keeps(l, a, f)
<1>1. PICK e : /\ RatingEdit(l, g, r) = Put(l.edits, g, e)
               /\ e.revision = l.revision + 1
               /\ e.ratingOnly = ~(g \in DOMAIN l.edits /\ ~l.edits[g].ratingOnly)
  <2>1. PICK whole, tags, e :
            /\ whole = (g \in DOMAIN l.edits /\ ~l.edits[g].ratingOnly)
            /\ tags = IF whole THEN l.edits[g].track.tags ELSE l.items[g].tags
            /\ e = [revision |-> l.revision + 1, track |-> Track(tags, r),
                    ratingOnly |-> ~whole]
    OBVIOUS
  <2>2. RatingEdit(l, g, r) = Put(l.edits, g, e)
    BY <2>1 DEF RatingEdit
  <2>3. e.revision = l.revision + 1 /\ e.ratingOnly = ~whole
    BY <2>1
  <2> QED BY <2>1, <2>2, <2>3
<1>2. /\ a.items = Rerated(l.items, g, r) /\ a.persisted = Rerated(l.persisted, g, r)
      /\ a.tracks = Rerated(l.tracks, g, r) /\ a.edits = Put(l.edits, g, e)
      /\ a.excluded = l.excluded /\ a.fileChanges = l.fileChanges
  BY <1>1 DEF Catalogue, Starred
<1>3. \A t : DOMAIN Rerated(t, g, r) = DOMAIN t
  <2> SUFFICES ASSUME NEW t PROVE DOMAIN Rerated(t, g, r) = DOMAIN t
    OBVIOUS
  <2>1. CASE g \in DOMAIN t
    <3>1. Rerated(t, g, r) = [t EXCEPT ![g].rating = r]
      BY <2>1 DEF Rerated
    <3> QED BY <3>1
  <2>2. CASE g \notin DOMAIN t
    BY <2>2 DEF Rerated
  <2> QED BY <2>1, <2>2
<1>4. g \in DOMAIN l.items
  BY LiveYields DEF Live
<1>5. /\ DOMAIN a.edits = {g} \cup DOMAIN l.edits /\ a.edits[g] = e
      /\ \A x \in DOMAIN l.edits : x # g => a.edits[x] = l.edits[x]
  BY <1>2 DEF Put, Over
<1>6. /\ DOMAIN a.items = DOMAIN l.items /\ DOMAIN a.persisted = DOMAIN l.persisted
      /\ DOMAIN a.tracks = DOMAIN l.tracks
  BY <1>2, <1>3
<1>7. Known(a, S, G)
  BY <1>2, <1>4, <1>5, <1>6 DEF Known
<1>8. ASSUME NEW f PROVE Keeps(l, a, f)
  BY <1>1, <1>2, <1>5, <1>6 DEF Keeps
<1> QED BY <1>7, <1>8

LEMMA DroppedKeeps ==
    ASSUME NEW l \in Catalogue, NEW g, NEW a, a = Dropped(l, g),
           NEW S, NEW G, Known(l, S, G)
    PROVE  Known(a, S, G) /\ \A f : f # g => Keeps(l, a, f)
<1>1. /\ a.items = l.items /\ a.tracks = l.tracks /\ a.edits = l.edits
      /\ a.excluded = l.excluded \cup {g} /\ a.persisted = Without(l.persisted, {g})
      /\ a.fileChanges = l.fileChanges
  BY DEF Catalogue, Dropped
<1>2. /\ DOMAIN a.persisted \subseteq DOMAIN l.persisted
      /\ \A f \in DOMAIN l.persisted : f # g => f \in DOMAIN a.persisted
  BY <1>1 DEF Without
<1> QED BY <1>1, <1>2 DEF Known, Keeps

LEMMA ImportedKeeps ==
    ASSUME NEW l \in Catalogue, NEW S, NEW G, Known(l, S, G), NEW g \in S, NEW t,
           NEW a, a = Imported(l, g, t)
    PROVE  Known(a, S, G) /\ Adds(l, a, g) /\ \A f : f # g => Keeps(l, a, f)
<1>0. PICK entry, e : /\ entry = [x \in {g} |-> t]
                      /\ e = [revision |-> l.revision + 1, track |-> t, ratingOnly |-> FALSE]
  OBVIOUS
<1>1. /\ a.excluded = l.excluded \ {g} /\ a.items = Put(l.items, g, t)
      /\ a.persisted = Over(l.persisted, entry) /\ a.tracks = Over(l.tracks, entry)
      /\ a.edits = Put(l.edits, g, e) /\ a.fileChanges = l.fileChanges
  BY <1>0 DEF Catalogue, Imported
<1>2. /\ DOMAIN a.items = DOMAIN l.items \cup {g}
      /\ DOMAIN a.edits = DOMAIN l.edits \cup {g} /\ a.edits[g] = e
      /\ \A x \in DOMAIN l.edits : x # g => a.edits[x] = l.edits[x]
  BY <1>1 DEF Put, Over
<1>3. /\ DOMAIN a.persisted = DOMAIN l.persisted \cup {g}
      /\ DOMAIN a.tracks = DOMAIN l.tracks \cup {g}
  BY <1>0, <1>1 DEF Over
<1>4. Known(a, S, G)
  BY <1>1, <1>2, <1>3 DEF Known
<1>5. Adds(l, a, g)
  BY <1>0, <1>1, <1>2, <1>3 DEF Adds
<1>6. ASSUME NEW f, f # g PROVE Keeps(l, a, f)
  BY <1>1, <1>2, <1>3, <1>6 DEF Keeps
<1> QED BY <1>4, <1>5, <1>6

\* What a command leaves of the catalogue: the tracks that are still wanted are
\* kept, the one that is added is there.
LEMMA CommandLosesNothing ==
    ASSUME IInv, TInv, Plain(env), UserCommand
    PROVE  \E a : /\ Grown(lib, a) /\ Ends(a, indexing, worker)
                  /\ Known(a, Ever, Lost) /\ added' \subseteq Ever
                  /\ \A f \in Wanted' : (f \in Wanted /\ Keeps(lib, a, f)) \/ Adds(lib, a, f)
<1> DEFINE Yields ==
              \E a : /\ Grown(lib, a) /\ Ends(a, indexing, worker)
                     /\ Known(a, Ever, Lost) /\ added' \subseteq Ever
                     /\ \A f \in Wanted' :
                           (f \in Wanted /\ Keeps(lib, a, f)) \/ Adds(lib, a, f)
<1> HIDE DEF Yields
<1>0. phase = "open" /\ UNCHANGED <<present, saved>>
  <2>1. Command
    BY DEF UserCommand, RateTrack, RemoveTrack, AddTrack, ShowLibrary, RefreshCommand,
           StopMonitoring, StartMonitoring
  <2> QED BY <2>1 DEF Command, diskVars
<1>1. /\ lib \in Catalogue /\ content \in [Files -> Nat] /\ Typed
      /\ present \subseteq Ever /\ added \subseteq Ever /\ Known(lib, Ever, Lost)
  BY <1>0, TInvYields DEF Grounded
<1>2. ASSUME NEW g \in Files, RateTrack(g) PROVE Yields
  <2>1. g \in Live(lib) /\ g \in DOMAIN lib.items
    BY <1>1, <1>2, LiveYields DEF RateTrack
  <2>2. PICK r \in Nat : r = user + 1
    BY <1>1 DEF Typed, LibraryTyped
  <2>3. PICK a : a = Starred(lib, g, r)
    OBVIOUS
  <2>4. Grown(lib, a)
    BY <1>1, <2>1, <2>3, RatedGrows DEF Starred
  <2>5. Ends(a, indexing, worker) /\ added' = added /\ discarded' = discarded
    BY <1>2, <2>2, <2>3 DEF RateTrack, Ends, Starred
  <2>6. Known(a, Ever, Lost) /\ \A f : Keeps(lib, a, f)
    BY <1>1, <2>1, <2>3, StarredKeeps
  <2>7. Wanted' = Wanted
    BY <1>0, <2>5 DEF Wanted
  <2> QED BY <1>1, <2>4, <2>5, <2>6, <2>7 DEF Yields
<1>3. ASSUME NEW g \in Files, RemoveTrack(g) PROVE Yields
  <2>1. PICK a : a = Dropped(lib, g)
    OBVIOUS
  <2>2. Grown(lib, a)
    BY <1>1, <2>1, DiscardedGrows DEF Dropped
  <2>3. /\ Ends(a, indexing, worker) /\ added' = added
        /\ discarded' = discarded \cup {g}
    BY <1>3, <2>1 DEF RemoveTrack, Ends, Dropped
  <2>4. Known(a, Ever, Lost) /\ \A f : f # g => Keeps(lib, a, f)
    BY <1>1, <2>1, DroppedKeeps
  <2>5. \A f \in Wanted' : f \in Wanted /\ f # g
    BY <1>0, <2>3 DEF Wanted
  <2> QED BY <1>1, <2>2, <2>3, <2>4, <2>5 DEF Yields
<1>4. ASSUME NEW g \in Files, AddTrack(g) PROVE Yields
  <2>1. PICK t : t = IF g \in DOMAIN lib.items THEN lib.items[g] ELSE Track(content[g], 0)
    OBVIOUS
  <2>2. t \in TrackType
    <3>1. \A x \in DOMAIN lib.items : lib.items[x] \in TrackType
      <4>1. lib.items \in Tracks
        BY <1>1, CatalogueFields
      <4> QED BY <4>1, EntriesYields DEF Tracks
    <3>2. Track(content[g], 0) \in TrackType
      BY <1>1, TrackTyped
    <3> QED BY <2>1, <3>1, <3>2
  <2>3. PICK a : a = Imported(lib, g, t)
    OBVIOUS
  <2>4. Grown(lib, a)
    BY <1>1, <2>2, <2>3, ImportedGrows DEF Imported
  <2>5. /\ Ends(a, indexing, worker) /\ g \in present
        /\ added' = added \cup {g} /\ discarded' = discarded \ {g}
    BY <1>4, <2>1, <2>3 DEF AddTrack, Ends, Imported
  <2>6. g \in Ever /\ added' \subseteq Ever
    BY <1>1, <2>5
  <2>7. /\ Known(a, Ever, Lost) /\ Adds(lib, a, g)
        /\ \A f : f # g => Keeps(lib, a, f)
    BY <1>1, <2>3, <2>6, ImportedKeeps
  <2>0. \A f \in Wanted' : f = g \/ f \in Wanted
    BY <1>0, <2>5 DEF Wanted
  <2> QED BY <2>4, <2>5, <2>6, <2>7, <2>0 DEF Yields
<1>5. ASSUME ShowLibrary \/ RefreshCommand \/ StopMonitoring \/ StartMonitoring
      PROVE  Yields
  <2>1. PICK a : /\ a = lib \/ a = [lib EXCEPT !.directory = TRUE]
                 /\ Ends(a, indexing, worker)
                 /\ added' = added /\ discarded' = discarded
    BY <1>5 DEF ShowLibrary, RefreshCommand, StopMonitoring, StartMonitoring, Ends, history
  <2>2. Grown(lib, a)
    BY <1>1, <2>1, GrownReflexive, RequestGrows
  <2>3. Known(a, Ever, Lost) /\ \A f : Keeps(lib, a, f)
    BY <1>1, <2>1, QueuedKeeps
  <2>4. Wanted' = Wanted
    BY <1>0, <2>1 DEF Wanted
  <2> QED BY <1>1, <2>1, <2>2, <2>3, <2>4 DEF Yields
<1>6. Yields
  BY <1>2, <1>3, <1>4, <1>5 DEF UserCommand
<1> QED BY <1>6 DEF Yields

LEMMA UserCommandLosesNothing == IInv /\ TInv /\ UserCommand => TInv'
<1> SUFFICES ASSUME IInv, TInv, UserCommand, Plain(env') PROVE TInv'
  BY DEF TInv
<1>1. env' = env /\ phase = "open"
  <2>1. Command
    BY DEF UserCommand, RateTrack, RemoveTrack, AddTrack, ShowLibrary, RefreshCommand,
           StopMonitoring, StartMonitoring
  <2> QED BY <2>1 DEF Command
<1>2. /\ Typed /\ Sound(lib, worker, messages, scan) /\ messages \in Seq(Messages)
      /\ Told(messages, Lost) /\ RecordsTold(recorded, Lost)
  BY <1>1, TInvYields
<1>3. /\ UNCHANGED <<env, present, content, messages, phase, saved>>
      /\ recorded' \in {recorded, <<>>}
  BY <1>2, CommandYields DEF diskVars
<1>4. PICK a : /\ Grown(lib, a) /\ Ends(a, indexing, worker)
               /\ Known(a, Ever, Lost) /\ added' \subseteq Ever
               /\ \A f \in Wanted' : (f \in Wanted /\ Keeps(lib, a, f)) \/ Adds(lib, a, f)
  BY <1>1, CommandLosesNothing
<1>5. RecordsTold(recorded', Lost)
  BY <1>2, <1>3 DEF RecordsTold
<1> QED BY <1>1, <1>2, <1>3, <1>4, <1>5, GrowingHandlerLosesNothing

-----------------------------------------------------------------------------
(* No track is lost: the scan worker.                                      *)

\* What a step of the worker leaves of the tracks it has found.
Onward(w) ==
    /\ DOMAIN w.items \subseteq DOMAIN Coming(worker, saved) \cup worker.todo \cup present
    /\ w.tracks = worker.tracks /\ w.persisted = worker.persisted
    /\ w.todo \subseteq worker.todo \cup present
    /\ w.missing \subseteq worker.missing \cup (DOMAIN worker.items \ present)
    /\ DOMAIN Coming(worker, saved) \subseteq DOMAIN Coming(w, saved)

\* The result it hands over has every track it had or was going to have.
HandsOver(w, r) ==
    /\ r.revision = worker.revision /\ r.missing = worker.missing
    /\ r.items = Coming(worker, saved)
    /\ r.loads = worker.load /\ ~r.failed
    /\ \/ messages' = Append(messages, r) /\ w.unposted = worker.unposted
       \/ messages' = messages /\ w.unposted = r /\ r.complete

LEMMA TracksHandedOver ==
    ASSUME Plain(env), NEW v \in Jobs, Onward(v), v.unposted = worker.unposted,
           NEW r \in Results, r.revision = worker.revision, r.missing = worker.missing,
           r.items = Coming(worker, saved), r.loads = worker.load, ~r.failed, Deliver(v, r)
    PROVE  \E w \in Jobs : worker' = w /\ Onward(w) /\ HandsOver(w, r)
<1>1. CASE WorkerStep([v EXCEPT !.posted = TRUE], Append(messages, r))
  <2>1. PICK w : w = [v EXCEPT !.posted = TRUE]
    OBVIOUS
  <2>2. /\ w \in Jobs /\ w.pc = v.pc /\ w.load = v.load /\ w.unposted = v.unposted
        /\ w.items = v.items /\ w.tracks = v.tracks /\ w.persisted = v.persisted
        /\ w.todo = v.todo /\ w.missing = v.missing
    BY <2>1 DEF Jobs
  <2>3. worker' = w /\ messages' = Append(messages, r)
    BY <1>1, <2>1 DEF WorkerStep
  <2>4. Onward(w)
    BY <2>2 DEF Onward, Coming
  <2>5. HandsOver(w, r)
    BY <2>2, <2>3 DEF HandsOver
  <2> QED BY <2>2, <2>3, <2>4, <2>5
<1>2. CASE /\ (IF r.complete THEN "handoff" ELSE "partial") \in env
           /\ WorkerStep([v EXCEPT !.posted = FALSE, !.unposted = r], messages)
  <2>1. PICK w : w = [v EXCEPT !.posted = FALSE, !.unposted = r]
    OBVIOUS
  <2>2. /\ w \in Jobs /\ w.pc = v.pc /\ w.load = v.load /\ w.unposted = r
        /\ w.items = v.items /\ w.tracks = v.tracks /\ w.persisted = v.persisted
        /\ w.todo = v.todo /\ w.missing = v.missing
    BY <2>1 DEF Jobs
  <2>3. worker' = w /\ messages' = messages
    BY <1>2, <2>1 DEF WorkerStep
  <2>4. r.complete
    BY <1>2 DEF Plain
  <2>5. Onward(w)
    BY <2>2 DEF Onward, Coming
  <2>6. HandsOver(w, r)
    BY <2>2, <2>3, <2>4 DEF HandsOver
  <2> QED BY <2>2, <2>3, <2>5, <2>6
<1> QED BY <1>1, <1>2 DEF Deliver

LEMMA PlainBuildYields ==
    ASSUME Typed, Plain(env), Build
    PROVE  \E w \in Jobs :
              /\ worker' = w /\ Onward(w)
              /\ \/ messages' = messages /\ w.unposted = worker.unposted
                 \/ \E r \in Results : HandsOver(w, r)
<1> DEFINE Yields ==
              \E w \in Jobs :
                 /\ worker' = w /\ Onward(w)
                 /\ \/ messages' = messages /\ w.unposted = worker.unposted
                    \/ \E r \in Results : HandsOver(w, r)
<1> HIDE DEF Yields
<1>0. /\ content \in [Files -> Nat] /\ present \subseteq Files /\ saved \in Tracks
      /\ worker \in Jobs
      /\ "throw" \notin env /\ "cancel" \notin env /\ "unloaded" \notin env
  BY BuildYields DEF Typed, MonitorTyped, LibraryTyped, Plain
<1>1. ASSUME NEW f \in Files, ScanFile(f) PROVE Yields
  <2>1. PICK v : v = [worker EXCEPT !.files = worker.files \ {f}]
    OBVIOUS
  <2>2. worker.files \ {f} \in SUBSET Files
    BY <1>0, JobFields
  <2>3. /\ v \in Jobs /\ v.pc = worker.pc /\ v.load = worker.load
        /\ v.unposted = worker.unposted /\ v.items = worker.items
        /\ v.tracks = worker.tracks /\ v.persisted = worker.persisted
        /\ v.todo = worker.todo /\ v.missing = worker.missing
    BY <1>0, <2>1, <2>2 DEF Jobs
  <2>4. PICK w, ok : /\ worker' = w
                     /\ (f \in present /\ w = ReadTrack(v, f, ok)) \/ w = v
    BY <1>1, <2>1 DEF ScanFile, WorkerStep
  <2>5. worker' = w /\ messages' = messages /\ worker.pc = "files"
    BY <1>1, <2>4 DEF ScanFile, WorkerStep
  <2>6. /\ w \in Jobs /\ w.pc = "files" /\ w.load = worker.load
        /\ w.unposted = worker.unposted /\ w.todo = worker.todo
        /\ w.missing = worker.missing /\ w.tracks = worker.tracks
        /\ w.persisted = worker.persisted
        /\ DOMAIN worker.items \subseteq DOMAIN w.items
        /\ DOMAIN w.items \subseteq DOMAIN worker.items \cup present
    <3>1. CASE f \in present /\ w = ReadTrack(v, f, ok)
      <4>2. /\ w \in Jobs /\ w.pc = v.pc /\ w.load = v.load /\ w.unposted = v.unposted
            /\ w.todo = v.todo /\ w.missing = v.missing
        BY <1>0, <2>3, <3>1, ReadTrackYields
      <4>3. DOMAIN w.items = {f} \cup DOMAIN v.items /\ w.tracks = v.tracks
            /\ w.persisted = v.persisted
        BY <1>0, <2>3, <3>1, ReadTrackChanges
      <4> QED BY <2>3, <2>5, <3>1, <4>2, <4>3
    <3>2. CASE w = v
      BY <2>3, <2>5, <3>2
    <3> QED BY <2>4, <3>1, <3>2
  <2>7. Onward(w)
    <3>1. PICK seeds : seeds = IF worker.load THEN saved ELSE worker.persisted
      OBVIOUS
    <3>2. /\ Coming(worker, saved) = Over(Over(worker.items, worker.tracks), seeds)
          /\ Coming(w, saved) = Over(Over(w.items, w.tracks), seeds)
      BY <2>5, <2>6, <3>1 DEF Coming
    <3>3. /\ DOMAIN Coming(worker, saved) =
                DOMAIN worker.items \cup DOMAIN worker.tracks \cup DOMAIN seeds
          /\ DOMAIN Coming(w, saved) =
                DOMAIN w.items \cup DOMAIN w.tracks \cup DOMAIN seeds
      BY <3>2 DEF Over
    <3> QED BY <2>6, <3>3 DEF Onward
  <2> QED BY <2>5, <2>6, <2>7 DEF Yields
<1>2. ASSUME NEW f \in Files, ReadListed(f) PROVE Yields
  <2>1. PICK v : v = [worker EXCEPT !.todo = worker.todo \ {f}]
    OBVIOUS
  <2>2. worker.todo \ {f} \in SUBSET Files
    BY <1>0, JobFields
  <2>3. /\ v \in Jobs /\ v.pc = worker.pc /\ v.load = worker.load
        /\ v.unposted = worker.unposted /\ v.items = worker.items
        /\ v.tracks = worker.tracks /\ v.persisted = worker.persisted
        /\ v.todo = worker.todo \ {f} /\ v.missing = worker.missing
    BY <1>0, <2>1, <2>2 DEF Jobs
  <2>4. PICK w, ok : w = ReadTrack(v, f, ok) /\ worker' = w
    BY <1>2, <2>1 DEF ReadListed, WorkerStep
  <2>5. /\ worker' = w /\ messages' = messages /\ worker.pc = "read"
        /\ f \in worker.todo
    BY <1>2, <2>4 DEF ReadListed, WorkerStep
  <2>6. /\ w \in Jobs /\ w.pc = v.pc /\ w.unposted = v.unposted
        /\ w.todo = v.todo /\ w.missing = v.missing
    BY <1>0, <2>3, <2>4, ReadTrackYields
  <2>7. DOMAIN w.items = {f} \cup DOMAIN v.items /\ w.tracks = v.tracks
        /\ w.persisted = v.persisted
    BY <1>0, <2>3, <2>4, ReadTrackChanges
  <2>0. Coming(worker, saved) = worker.items /\ Coming(w, saved) = w.items
    BY <2>3, <2>5, <2>6 DEF Coming
  <2>9. Onward(w)
    BY <2>3, <2>5, <2>6, <2>7, <2>0 DEF Onward
  <2> QED BY <2>3, <2>5, <2>6, <2>9 DEF Yields
<1>9. ASSUME NEW f \in Files, ReadUntagged(f) PROVE Yields
  <2>1. PICK w, ok : /\ w = Read(worker, f, ok)
                     /\ worker' = w /\ messages' = messages /\ worker.pc = "list"
                     /\ f \in DOMAIN worker.items
    BY <1>9 DEF ReadUntagged, WorkerStep, Untagged
  <2>2. /\ w \in Jobs /\ w.pc = "list" /\ w.unposted = worker.unposted
        /\ w.todo = worker.todo /\ w.missing = worker.missing
    BY <1>0, <2>1, ReadYields
  <2>3. DOMAIN w.items = {f} \cup DOMAIN worker.items /\ w.tracks = worker.tracks
        /\ w.persisted = worker.persisted
    BY <1>0, <2>1, ReadChanges
  <2>4. Coming(worker, saved) = worker.items /\ Coming(w, saved) = w.items
    BY <2>1, <2>2 DEF Coming
  <2>5. Onward(w)
    BY <2>1, <2>2, <2>3, <2>4 DEF Onward
  <2> QED BY <2>1, <2>2, <2>5 DEF Yields
<1>3. ASSUME MergeSeeds PROVE Yields
  <2>1. PICK m, v : /\ m = Coming(worker, saved)
                    /\ v = [worker EXCEPT !.pc = "list", !.items = m]
    OBVIOUS
  <2>2. worker.pc = "files"
    BY <1>3 DEF MergeSeeds
  <2>3. m \in Tracks
    <3>1. /\ worker.items \in Tracks /\ worker.tracks \in Tracks
          /\ worker.persisted \in Tracks
      BY <1>0, JobFields
    <3>2. Over(worker.items, worker.tracks) \in Tracks
      BY <3>1, OverTyped DEF Tracks
    <3> QED BY <1>0, <2>1, <2>2, <3>1, <3>2, OverTyped DEF Coming, Tracks
  <2>4. /\ v \in Jobs /\ v.pc = "list" /\ v.revision = worker.revision
        /\ v.unposted = worker.unposted /\ v.items = m /\ v.load = worker.load
        /\ v.tracks = worker.tracks /\ v.persisted = worker.persisted
        /\ v.todo = worker.todo /\ v.missing = worker.missing
    BY <1>0, <2>1, <2>3 DEF Jobs, Running
  <2>5. IF worker.load THEN Deliver(v, Result(v, FALSE, FALSE))
        ELSE WorkerStep(v, messages)
    BY <1>0, <1>3, <2>1, SeedsMerged
  <2>6. Coming(v, saved) = m
    BY <2>4 DEF Coming
  <2>7. Onward(v)
    BY <2>1, <2>4, <2>6 DEF Onward
  <2>0. CASE worker.load
    <3>1. PICK r : r = Result(v, FALSE, FALSE)
      OBVIOUS
    <3>2. /\ r \in Results /\ r.revision = v.revision /\ r.missing = v.missing
          /\ r.items = v.items /\ r.loads = v.load /\ r.failed = FALSE
      BY <2>4, <3>1, ResultYields
    <3>3. Deliver(v, r)
      BY <2>5, <2>0, <3>1
    <3> QED BY <2>1, <2>4, <2>7, <3>2, <3>3, TracksHandedOver DEF Yields
  <2>9. CASE ~worker.load
    <3>1. worker' = v /\ messages' = messages
      BY <2>5, <2>9 DEF WorkerStep
    <3> QED BY <2>4, <2>7, <3>1 DEF Yields
  <2> QED BY <2>0, <2>9
<1>4. ASSUME ListDirectory PROVE Yields
  <2>1. PICK todo \in SUBSET present :
            /\ worker.pc = "list"
            /\ WorkerStep([worker EXCEPT !.pc = "read", !.todo = todo], messages)
    BY <1>4, Listed
  <2>2. PICK w : w = [worker EXCEPT !.pc = "read", !.todo = todo]
    OBVIOUS
  <2>3. worker' = w /\ messages' = messages /\ worker.pc = "list" /\ todo \in SUBSET Files
    BY <1>0, <2>1, <2>2 DEF WorkerStep
  <2>4. /\ w \in Jobs /\ w.pc = "read" /\ w.unposted = worker.unposted
        /\ w.items = worker.items /\ w.tracks = worker.tracks
        /\ w.persisted = worker.persisted /\ w.todo = todo
        /\ w.missing = worker.missing
    BY <1>0, <2>2, <2>3 DEF Jobs, Running
  <2>5. Coming(worker, saved) = worker.items /\ Coming(w, saved) = w.items
    BY <2>3, <2>4 DEF Coming
  <2>6. Onward(w)
    BY <2>1, <2>4, <2>5 DEF Onward
  <2> QED BY <2>3, <2>4, <2>6 DEF Yields
<1>5. ASSUME VerifyMissing PROVE Yields
  <2>1. DOMAIN worker.items \subseteq Files
    BY <1>0, JobFields, EntriesYields DEF Tracks
  <2>2. PICK missing \in SUBSET (DOMAIN worker.items \ present) :
            /\ worker.pc = "read"
            /\ WorkerStep([worker EXCEPT !.pc = "deliver", !.missing = missing], messages)
    BY <1>5, Verified
  <2>3. PICK w : w = [worker EXCEPT !.pc = "deliver", !.missing = missing]
    OBVIOUS
  <2>4. worker' = w /\ messages' = messages /\ worker.pc = "read"
        /\ missing \in SUBSET Files
    BY <2>1, <2>2, <2>3 DEF WorkerStep
  <2>5. /\ w \in Jobs /\ w.pc = "deliver" /\ w.unposted = worker.unposted
        /\ w.items = worker.items /\ w.tracks = worker.tracks
        /\ w.persisted = worker.persisted /\ w.todo = worker.todo
        /\ w.missing = missing
    BY <1>0, <2>3, <2>4 DEF Jobs, Running
  <2>6. Coming(worker, saved) = worker.items /\ Coming(w, saved) = w.items
    BY <2>4, <2>5 DEF Coming
  <2>7. Onward(w)
    BY <2>2, <2>5, <2>6 DEF Onward
  <2> QED BY <2>4, <2>5, <2>7 DEF Yields
<1>6. ASSUME DeliverResult PROVE Yields
  <2>1. PICK v, r : v = [worker EXCEPT !.pc = "done"] /\ r = Result(worker, TRUE, FALSE)
    OBVIOUS
  <2>2. /\ v \in Jobs /\ v.pc = "done" /\ v.unposted = worker.unposted
        /\ v.items = worker.items /\ v.tracks = worker.tracks
        /\ v.persisted = worker.persisted /\ v.todo = worker.todo
        /\ v.missing = worker.missing
    BY <1>0, <2>1 DEF Jobs
  <2>3. /\ r \in Results /\ r.revision = worker.revision /\ r.missing = worker.missing
        /\ r.items = worker.items /\ r.loads = worker.load /\ r.failed = FALSE
    BY <1>0, <2>1, ResultYields
  <2>4. worker.pc = "deliver" /\ Deliver(v, r)
    BY <1>6, <2>1 DEF DeliverResult
  <2>5. Coming(worker, saved) = worker.items /\ Coming(v, saved) = v.items
    BY <2>2, <2>4 DEF Coming
  <2>6. Onward(v)
    BY <2>2, <2>5 DEF Onward
  <2> QED BY <2>2, <2>3, <2>4, <2>5, <2>6, TracksHandedOver DEF Yields
<1>7. ~ListCanceled /\ ~BuildThrows
  BY <1>0 DEF ListCanceled, BuildThrows
<1>8. Yields
  BY <1>1, <1>2, <1>3, <1>4, <1>5, <1>6, <1>7, <1>9 DEF Build
<1> QED BY <1>8 DEF Yields

LEMMA BuildLosesNothing == IInv /\ TInv /\ Build => TInv'
<1> SUFFICES ASSUME IInv, TInv, Build, Plain(env') PROVE TInv'
  BY DEF TInv
<1>1. env' = env /\ worker.pc \in Running
  BY DEF Build, ScanFile, ReadUntagged, ReadListed, MergeSeeds, ListDirectory, ListCanceled,
         BuildThrows, VerifyMissing, DeliverResult, Deliver, WorkerStep, Running
<1>2. Typed /\ worker \in Jobs
      /\ UNCHANGED <<present, content, recorded, lib, indexing, scan, phase, saved,
                     discarded, added>>
  BY BuildYields DEF IInv, diskVars, history
<1>3. CASE phase = "closed"
  <2>1. phase' = "closed" /\ (added' \cap present') \ discarded' \subseteq DOMAIN saved'
    BY <1>1, <1>2, <1>3 DEF TInv
  <2> QED BY <2>1 DEF TInv
<1>4. CASE phase # "closed"
  <2>1. /\ Sound(lib, worker, messages, scan) /\ messages \in Seq(Messages)
        /\ present \subseteq Ever /\ DOMAIN saved \subseteq Ever /\ added \subseteq Ever
        /\ Told(messages, Lost) /\ RecordsTold(recorded, Lost)
        /\ Grounded(lib, indexing, worker, messages, scan, Ever, Lost)
        /\ \A f \in Wanted : Kept(lib, worker, messages, scan, saved, f)
    BY <1>1, <1>4, TInvYields
  <2>2. PICK w \in Jobs :
            /\ worker' = w /\ w.revision = worker.revision
            /\ Reading(w) \/ GivenUp(w) \/ \E r \in Results : Posting(w, r)
    BY <1>2, BuildYields
  <2>3. Onward(w) /\ \/ messages' = messages /\ w.unposted = worker.unposted
                     \/ \E r \in Results : HandsOver(w, r)
    BY <1>1, <1>2, <2>2, PlainBuildYields
  <2>4. PICK ms : ms = messages'
    OBVIOUS
  <2>5. ASSUME NEW q \in Results, Pending(q, w, ms, scan)
        PROVE  Pending(q, worker, messages, scan) \/ HandsOver(w, q)
    <3>1. CASE messages' = messages /\ w.unposted = worker.unposted
      BY <2>4, <2>5, <3>1 DEF Pending
    <3>2. ASSUME NEW r \in Results, HandsOver(w, r)
          PROVE  q = r \/ Pending(q, worker, messages, scan)
      <4>1. CASE messages' = Append(messages, r) /\ w.unposted = worker.unposted
        <5>1. \A i \in DOMAIN ms : ms[i] = r \/ \E j \in DOMAIN messages : ms[i] = messages[j]
          <6>1. r \in Messages
            BY DEF Messages
          <6> QED BY <2>1, <2>4, <4>1, <6>1
        <5> QED BY <2>5, <4>1, <5>1 DEF Pending
      <4>2. CASE messages' = messages /\ w.unposted = r
        BY <2>4, <2>5, <4>2 DEF Pending
      <4> QED BY <3>2, <4>1, <4>2 DEF HandsOver
    <3> QED BY <2>3, <3>1, <3>2
  <2>6. /\ DOMAIN Coming(worker, saved) \subseteq Ever /\ DOMAIN worker.items \subseteq Ever
        /\ DOMAIN worker.tracks \subseteq Ever /\ DOMAIN worker.persisted \subseteq Ever
        /\ worker.todo \subseteq Ever /\ worker.missing \subseteq Lost
    <3>1. /\ DOMAIN worker.items \subseteq Ever /\ DOMAIN worker.tracks \subseteq Ever
          /\ DOMAIN worker.persisted \subseteq Ever
          /\ worker.todo \subseteq Ever /\ worker.missing \subseteq Lost
      BY <1>2, <2>1, JobFields DEF Grounded, KnownScan
    <3>2. PICK seeds : seeds = IF worker.load THEN saved ELSE worker.persisted
      OBVIOUS
    <3>3. Coming(worker, saved) = IF worker.pc = "files"
                                  THEN Over(Over(worker.items, worker.tracks), seeds)
                                  ELSE worker.items
      BY <3>2 DEF Coming
    <3>4. DOMAIN Over(Over(worker.items, worker.tracks), seeds) \subseteq Ever
      BY <2>1, <3>1, <3>2 DEF Over
    <3> QED BY <3>1, <3>3, <3>4
  <2>7. KnownScan(w, Ever, Lost)
    <3>1. worker.missing \cup (DOMAIN worker.items \ present) \subseteq Lost
      BY <2>6 DEF Lost
    <3>2. /\ DOMAIN w.items \subseteq Ever /\ w.todo \subseteq Ever /\ w.missing \subseteq Lost
          /\ DOMAIN w.tracks \subseteq Ever /\ DOMAIN w.persisted \subseteq Ever
      BY <2>1, <2>3, <2>6, <3>1 DEF Onward
    <3> QED BY <3>2 DEF KnownScan
  <2>0. KnownResults(w, ms, scan, Ever, Lost)
    <3> SUFFICES ASSUME NEW q \in Results, Pending(q, w, ms, scan)
                 PROVE  DOMAIN q.items \subseteq Ever /\ q.missing \subseteq Lost
      BY DEF KnownResults
    <3>1. CASE Pending(q, worker, messages, scan)
      BY <2>1, <3>1 DEF Grounded, KnownResults
    <3>2. CASE HandsOver(w, q)
      BY <2>6, <3>2 DEF HandsOver
    <3> QED BY <2>5, <3>1, <3>2
  <2>9. ASSUME NEW q \in Results, Pending(q, w, ms, scan)
        PROVE  q.revision = w.revision
    <3>1. CASE Pending(q, worker, messages, scan)
      BY <1>1, <2>1, <2>2, <3>1 DEF Grounded, OneScan
    <3>2. CASE HandsOver(w, q)
      BY <2>2, <3>2 DEF HandsOver
    <3> QED BY <2>5, <2>9, <3>1, <3>2
  <2>10. OneScan(w, ms, scan)
    BY <2>9 DEF OneScan
  <2>11. Whole(w)
    BY <2>1, <2>3 DEF HandsOver, Grounded, Whole
  <2>12. Loading(lib, indexing, w, ms, scan)
    <3> SUFFICES ASSUME ~lib.loaded PROVE Loading(lib, indexing, w, ms, scan)
      BY DEF Loading
    <3>1. /\ indexing /\ worker.load
          /\ worker.pc \in {"list", "read", "deliver", "done"} =>
                worker.posted \/ worker.unposted # NoResult
          /\ \A r \in Results : Pending(r, worker, messages, scan) => r.loads /\ ~r.failed
      BY <1>2, <2>1, JobFields DEF Grounded, Loading
    <3>2. ~GivenUp(w)
      BY <1>1 DEF GivenUp, Plain
    <3>3. w.load
      BY <2>2, <3>1, <3>2 DEF Reading, Posting
    <3>4. w.pc \in {"list", "read", "deliver", "done"} => w.posted \/ w.unposted # NoResult
      <4>1. CASE Reading(w)
        BY <3>1, <4>1 DEF Reading, Running
      <4>2. ASSUME NEW r \in Results, Posting(w, r)
            PROVE  w.posted \/ w.unposted # NoResult
        <5>1. r # NoResult
          BY ResultFields
        <5> QED BY <4>2, <5>1 DEF Posting, Sent
      <4> QED BY <2>2, <3>2, <4>1, <4>2
    <3>5. \A q \in Results : Pending(q, w, ms, scan) => q.loads /\ ~q.failed
      <4> SUFFICES ASSUME NEW q \in Results, Pending(q, w, ms, scan)
                   PROVE  q.loads /\ ~q.failed
        OBVIOUS
      <4>1. CASE Pending(q, worker, messages, scan)
        BY <3>1, <4>1
      <4>2. CASE HandsOver(w, q)
        BY <3>1, <4>2 DEF HandsOver
      <4> QED BY <2>5, <4>1, <4>2
    <3> QED BY <3>1, <3>3, <3>4, <3>5 DEF Loading
  <2>13. Grounded(lib, indexing, w, ms, scan, Ever, Lost)
    BY <2>1, <2>7, <2>0, <2>10, <2>11, <2>12 DEF Grounded
  <2>14. ASSUME NEW f \in Wanted PROVE Kept(lib, w, ms, scan, saved, f)
    <3>1. /\ Here(lib, saved, f)
          /\ Finds(lib, Coming(worker, saved), worker.revision, f)
          /\ \A q \in Results : Pending(q, worker, messages, scan) =>
                Finds(lib, q.items, q.revision, f)
      BY <1>1, <2>1, <2>14 DEF Kept
    <3>2. Finds(lib, Coming(w, saved), w.revision, f)
      BY <2>2, <2>3, <3>1 DEF Onward, Finds
    <3>3. ASSUME NEW q \in Results, Pending(q, w, ms, scan)
          PROVE  Finds(lib, q.items, q.revision, f)
      <4>1. CASE Pending(q, worker, messages, scan)
        BY <3>1, <4>1
      <4>2. CASE HandsOver(w, q)
        BY <3>1, <4>2 DEF HandsOver
      <4> QED BY <2>5, <3>3, <4>1, <4>2
    <3> QED BY <3>1, <3>2, <3>3 DEF Kept
  <2>15. Told(messages', Lost)
    <3>1. CASE messages' = messages
      BY <2>1, <3>1
    <3>2. ASSUME NEW r \in Results, messages' = Append(messages, r)
          PROVE  Told(messages', Lost)
      <4>1. r.kind = "ready" /\ r \in Messages
        BY ResultFields DEF Messages
      <4>2. \A i \in DOMAIN ms : ms[i] = r \/ (i \in DOMAIN messages /\ ms[i] = messages[i])
        BY <2>1, <2>4, <3>2, <4>1
      <4>3. Told(ms, Lost)
        BY <2>1, <4>1, <4>2 DEF Told
      <4> QED BY <2>4, <4>3
    <3> QED BY <2>3, <3>1, <3>2 DEF HandsOver
  <2>16. Wanted' = Wanted /\ added' \subseteq Ever /\ RecordsTold(recorded', Lost)
    BY <1>2, <2>1 DEF Wanted
  <2>17. /\ Grounded(lib', indexing', worker', messages', scan', Ever, Lost)
         /\ \A f \in Wanted' : Kept(lib', worker', messages', scan', saved, f)
    BY <1>2, <2>2, <2>4, <2>13, <2>14, <2>16
  <2> QED BY <1>1, <1>2, <1>4, <2>1, <2>15, <2>16, <2>17, HandlerLosesNothing
<1> QED BY <1>3, <1>4

-----------------------------------------------------------------------------
(* No track is lost: the end, the initial states, the theorem.             *)

LEMMA CloseLosesNothing == IInv /\ TInv /\ Close => TInv'
<1> SUFFICES ASSUME IInv, TInv, Close, Plain(env') PROVE TInv'
  BY DEF TInv
<1>1. /\ phase = "open" /\ phase' = "closing" /\ recorded' = <<>>
      /\ UNCHANGED <<env, present, content, messages, lib, indexing, scan, worker,
                     saved, discarded, added>>
  BY DEF Close, StopMonitor, diskVars, history
<1>2. /\ present \cup DOMAIN saved \cup added \subseteq Ever /\ Told(messages, Lost)
      /\ Grounded(lib, indexing, worker, messages, scan, Ever, Lost)
      /\ \A f \in Wanted : Kept(lib, worker, messages, scan, saved, f)
  BY <1>1 DEF TInv
<1>3. Ever' = Ever /\ Lost' = Lost /\ Wanted' = Wanted
  BY <1>1 DEF Ever, Lost, Wanted
<1>4. RecordsTold(recorded', Lost')
  BY <1>1 DEF RecordsTold
<1> QED BY <1>1, <1>2, <1>3, <1>4 DEF TInv

\* The file that is written has every track of the catalogue, and of the file
\* before it where that has not been loaded.
LEMMA SnapshotHas ==
    ASSUME NEW l, NEW f, Here(l, saved, f)
    PROVE  f \in DOMAIN Snapshot(l)
<1>1. PICK base, edited, merged, tracks :
          /\ base = Over(l.items, IF l.loaded THEN None ELSE saved)
          /\ edited = [g \in {x \in DOMAIN l.edits : ~l.edits[x].ratingOnly} |->
                           l.edits[g].track]
          /\ merged = [g \in DOMAIN base |->
                           IF g \in DOMAIN l.edits
                           THEN Track(base[g].tags, l.edits[g].track.rating)
                           ELSE base[g]]
          /\ tracks = Over(edited, merged)
  OBVIOUS
<1>2. Snapshot(l) = Without(tracks, l.excluded)
  BY <1>1 DEF Snapshot
<1>3. f \in DOMAIN base
  BY <1>1 DEF Here, Over
<1>4. f \in DOMAIN tracks
  BY <1>1, <1>3 DEF Over
<1> QED BY <1>2, <1>4 DEF Without, Here

LEMMA SavedTracks ==
    ASSUME IInv, TInv, SaveLibrary, Plain(env)
    PROVE  Wanted \subseteq DOMAIN saved'
<1>1. phase # "closed" /\ saved' = Snapshot(lib)
  BY DEF SaveLibrary, SaveFails, Plain
<1>2. \A f \in Wanted : Kept(lib, worker, messages, scan, saved, f)
  BY <1>1, TInvYields
<1>3. \A f \in Wanted : f \in DOMAIN Snapshot(lib)
  BY <1>2, SnapshotHas DEF Kept
<1> QED BY <1>1, <1>3

LEMMA SaveLibraryLosesNothing == IInv /\ TInv /\ SaveLibrary => TInv'
<1> SUFFICES ASSUME IInv, TInv, SaveLibrary, Plain(env') PROVE TInv'
  BY DEF TInv
<1>1. phase' = "closed" /\ UNCHANGED <<env, present, discarded, added>>
  BY DEF SaveLibrary, diskVars, history
<1>2. Wanted \subseteq DOMAIN saved'
  BY <1>1, SavedTracks
<1>3. (added' \cap present') \ discarded' \subseteq DOMAIN saved'
  BY <1>1, <1>2 DEF Wanted
<1> QED BY <1>1, <1>3 DEF TInv

LEMMA InitLosesNothing == Init => TInv
<1> SUFFICES ASSUME Init, Plain(env) PROVE TInv
  BY DEF TInv
<1>0. /\ lib = EmptyCatalogue /\ scan = 1 /\ phase = "open" /\ added = {}
      /\ indexing = TRUE /\ messages = <<>> /\ recorded = <<>>
      /\ worker = Job([EmptyCatalogue EXCEPT !.directory = TRUE], 1)
  BY DEF Init, MonitorInit
<1>1. DOMAIN None = {} /\ DOMAIN messages = {} /\ DOMAIN recorded = {}
  BY <1>0, NothingIs
<1>2. /\ lib.items = None /\ lib.persisted = None /\ lib.edits = None
      /\ lib.tracks = None /\ lib.fileChanges = None /\ lib.loaded = FALSE
      /\ lib.excluded = {}
  BY <1>0 DEF EmptyCatalogue
<1>3. PICK w : w = worker
  OBVIOUS
<1>4. /\ w.pc = "files" /\ w.load /\ w.items = None /\ w.tracks = None
      /\ w.persisted = None /\ w.todo = {} /\ w.missing = {} /\ w.unposted = NoResult
  <2>1. PICK l : l = [EmptyCatalogue EXCEPT !.directory = TRUE]
    OBVIOUS
  <2>2. l.tracks = None /\ l.persisted = None /\ l.loaded = FALSE
    BY <2>1 DEF EmptyCatalogue
  <2>3. w = Job(l, 1)
    BY <1>0, <1>3, <2>1
  <2> QED BY <2>2, <2>3 DEF Job
<1>5. \A q : ~Pending(q, w, messages, scan)
  BY <1>1, <1>4 DEF Pending
<1>6. Known(lib, Ever, Lost) /\ KnownScan(w, Ever, Lost)
  BY <1>1, <1>2, <1>4 DEF Known, KnownScan
<1>7. /\ KnownResults(w, messages, scan, Ever, Lost) /\ OneScan(w, messages, scan)
      /\ Whole(w) /\ Loading(lib, indexing, w, messages, scan)
  BY <1>0, <1>4, <1>5 DEF KnownResults, OneScan, Whole, Loading
<1>8. ASSUME NEW f \in Wanted PROVE Kept(lib, w, messages, scan, saved, f)
  <2>1. f \in DOMAIN saved
    BY <1>0, <1>8 DEF Wanted
  <2>2. Here(lib, saved, f)
    BY <1>2, <2>1 DEF Here
  <2>3. f \in DOMAIN Coming(w, saved)
    BY <1>4, <2>1 DEF Coming, Over
  <2> QED BY <1>5, <2>2, <2>3 DEF Kept, Finds
<1>9. present \subseteq Ever /\ DOMAIN saved \subseteq Ever
  <2>1. present \subseteq Ever
    BY DEF Init, MonitorInit, Ever
  <2>2. ASSUME NEW f \in DOMAIN saved PROVE f \in Ever
    <3>1. PICK S \in SUBSET Files : saved \in [S -> [tags : 1..2, rating : {0}]]
      BY DEF Init, Libraries
    <3>2. f \in Files /\ saved[f].tags \in 1..2
      BY <3>1
    <3>3. saved[f].tags <= content[f]
      BY <2>2 DEF Init
    <3>4. content[f] # 0
      BY <3>2, <3>3
    <3> QED BY <3>2, <3>4 DEF Ever
  <2> QED BY <2>1, <2>2
<1>10. Told(messages, Lost) /\ RecordsTold(recorded, Lost)
  BY <1>1 DEF Told, RecordsTold
<1>11. Grounded(lib, indexing, w, messages, scan, Ever, Lost)
  BY <1>6, <1>7 DEF Grounded
<1> QED BY <1>0, <1>3, <1>8, <1>9, <1>10, <1>11 DEF TInv

LEMMA StutterLosesNothing == TInv /\ UNCHANGED vars => TInv'
<1> SUFFICES ASSUME TInv, UNCHANGED vars PROVE TInv'
  OBVIOUS
<1>1. UNCHANGED <<env, present, content, recorded, messages, lib, indexing, scan,
                  worker, phase, saved, discarded, added>>
  BY DEF vars, monitorVars, libraryVars, diskVars, history
<1> QED BY <1>1 DEF TInv, Ever, Lost, Wanted

\* Only the end of the shutdown closes the window and writes the library file.
LEMMA OnlySaveLibraryCloses ==
    ASSUME IInv, Next, ~SaveLibrary
    PROVE  saved' = saved /\ (phase' = "closed" => phase = "closed")
<1>1. CASE DirectoryWrite \/ Watch
  BY <1>1 DEF DirectoryWrite, Watch, libraryVars
<1>2. CASE Build
  BY <1>2, BuildYields DEF IInv
<1>3. CASE Window
  BY <1>3 DEF Window, ReceiveResult, ReceiveChange, PollWorkers
<1>4. CASE UserCommand
  BY <1>4, CommandYields DEF IInv
<1>5. CASE Close \/ TakeUnposted
  BY <1>5 DEF Close, TakeUnposted
<1> QED BY <1>1, <1>2, <1>3, <1>4, <1>5 DEF Next, Shutdown

\* Whenever the window is closed, also before the library file has been loaded,
\* while a scan runs or with results and notifications on their way, the file
\* that is written has every track of the old one and every track the user
\* added whose file is still there and that was not removed
\* (ShutdownMediaLibrary, ApplyMediaLibraryIndex).
THEOREM NoTrackIsLost == Spec => NoTrackLost
<1>1. Init => IInv /\ TInv
  BY InitEstablishes, InitLosesNothing
<1>2. IInv /\ TInv /\ [Next]_vars => TInv'
  BY DirectoryWriteLosesNothing, WatchLosesNothing, BuildLosesNothing,
     ReceiveResultLosesNothing, ReceiveChangeLosesNothing, PollWorkersLosesNothing,
     UserCommandLosesNothing, CloseLosesNothing, TakeUnpostedLosesNothing,
     SaveLibraryLosesNothing, StutterLosesNothing
     DEF Next, Window, Shutdown
<1>3. IInv /\ TInv /\ Next =>
          (Avoids(Mishaps) /\ phase' = "closed" =>
              ((DOMAIN saved \cup added) \cap present) \ discarded \subseteq DOMAIN saved')
  <2> SUFFICES ASSUME IInv, TInv, Next, phase' = "closed", Avoids(Mishaps)
               PROVE  Wanted \subseteq DOMAIN saved'
    BY DEF Wanted
  <2>1. Plain(env)
    BY DEF Plain, Avoids, Mishaps
  <2>2. CASE SaveLibrary
    BY <2>1, <2>2, SavedTracks
  <2>3. CASE ~SaveLibrary
    <3>1. saved' = saved /\ phase = "closed"
      BY <2>3, OnlySaveLibraryCloses
    <3>2. (added \cap present) \ discarded \subseteq DOMAIN saved
      BY <2>1, <3>1 DEF TInv
    <3> QED BY <3>1, <3>2 DEF Wanted
  <2> QED BY <2>2, <2>3
<1>4. IInv /\ TInv /\ [Next]_vars =>
          [Avoids(Mishaps) /\ phase' = "closed" =>
              ((DOMAIN saved \cup added) \cap present) \ discarded
                  \subseteq DOMAIN saved']_vars
  BY <1>3
<1> QED BY <1>1, <1>2, <1>4, InductiveInvariant, PTL DEF Spec, NoTrackLost
-----------------------------------------------------------------------------
(* The library is current: the inductive invariant.                        *)

\* What LibraryIsCurrent excludes does not happen.
Steady(e) == Plain(e) /\ e \cap {"drop", "unread"} = {}

\* A notification m of one of the actions A on f, or that asks for a scan.
About(m, f, A) ==
    m.kind = "change" /\ (m.action = "rescan" \/ (m.action \in A /\ m.file = f))

\* Such a change of f, or a scan of the directory, will reach the window.
Upstream(f, A) ==
    \/ ~monitoring \/ watch \in {"closed", "announce"}
    \/ \E i \in DOMAIN messages : About(messages[i], f, A) /\ Accept(messages[i])
    \/ \E i \in DOMAIN recorded : recorded[i][1] \in A /\ recorded[i][2] = f

\* The scan is still going to look at f.
ToRead(w, f) ==
    \/ w.pc = "files" /\ f \in w.files
    \/ w.pc \in {"files", "list"} /\ w.directory
    \/ w.pc = "read" /\ f \in w.todo

\* The scan is going to find f missing, or has found it.
Misses(w, f) ==
    \/ w.pc \in {"files", "list", "read"} /\ w.directory
    \/ f \in w.missing

\* A notification about f that a result of revision n is older than.
News(l, f, n) == f \in DOMAIN l.fileChanges /\ l.fileChanges[f].revision > n
Warned(l, f, n) == News(l, f, n) => l.fileChanges[f].removed

\* A scan of revision n with the tracks m that misses f, if b, does not bring f
\* into the library.
Barred(l, m, n, f, b) ==
    \/ f \notin m \/ f \in l.excluded
    \/ News(l, f, n)
    \/ b /\ ~Edit(l, f, n)

Tagged(m, f, v) == f \in DOMAIN m => m[f].tags = v

\* Nothing is running, and no complete result is on its way.
Idle(w, ms, s) ==
    w.pc \notin Running /\ \A r \in Results : Pending(r, w, ms, s) => ~r.complete

\* What the library shows once the scan and its result have been handled: f;
\* the tags v of f; not f, unless x.
Shown(l, w, ms, s, sv, f) ==
    /\ w.pc \in Running => ToRead(w, f) \/ Finds(l, Coming(w, sv), w.revision, f)
    /\ \A r \in Results : Pending(r, w, ms, s) /\ r.complete =>
          Finds(l, r.items, r.revision, f)
    /\ Idle(w, ms, s) => f \in DOMAIN l.persisted

Fresh(l, w, ms, s, sv, f, v) ==
    /\ w.pc \in Running =>
          (ToRead(w, f) /\ f \notin w.tried) \/ Tagged(Coming(w, sv), f, v)
    /\ \A r \in Results : Pending(r, w, ms, s) /\ r.complete => Tagged(r.items, f, v)
    /\ Idle(w, ms, s) => Tagged(l.items, f, v)

Hidden(l, w, ms, s, sv, f, x) ==
    /\ w.pc \in Running =>
          /\ Warned(l, f, w.revision)
          /\ x \/ Barred(l, DOMAIN Coming(w, sv) \cup w.todo, w.revision, f, Misses(w, f))
    /\ \A r \in Results : Pending(r, w, ms, s) /\ r.complete =>
          /\ Warned(l, f, r.revision)
          /\ x \/ Barred(l, DOMAIN r.items, r.revision, f, f \in r.missing)
    /\ Idle(w, ms, s) => x \/ f \notin Live(l)

\* The parts of the catalogue fit: G are the files that are gone, D those the
\* user removed, X those the user added.
Fits(l, G, D, X) ==
    /\ l.excluded \ D \subseteq G /\ DOMAIN l.removed \subseteq G
    /\ DOMAIN l.tracks \subseteq X
    /\ \A f \in DOMAIN l.edits : ~l.edits[f].ratingOnly => f \in X
    /\ DOMAIN l.persisted \subseteq Live(l)
    /\ \A f \in DOMAIN l.persisted \ X : l.persisted[f].tags = l.items[f].tags

\* What was removed from l was removed after a scan of revision n saw O.
Behind(l, O, n) == \A f \in O \cap DOMAIN l.removed : l.removed[f] > n

Scans(l, w, X) ==
    w # NoWorker =>
        /\ DOMAIN w.tracks \subseteq X /\ w.tried \subseteq DOMAIN w.items
        /\ w.pc \in {"files", "list", "read"} => w.missing = {}
        /\ w.pc \in Running => Behind(l, w.observed \cup w.todo, w.revision)

\* No scan has failed, and a partial result has nothing that its scan does not
\* go on with.
Parts(l, w, ms, s) ==
    \A r \in Results : Pending(r, w, ms, s) =>
        /\ ~r.failed /\ Behind(l, r.observed, r.revision)
        /\ ~r.complete =>
              /\ r.missing = {}
              /\ w.pc \in Running => DOMAIN r.items \subseteq DOMAIN w.items
              /\ \A q \in Results : Pending(q, w, ms, s) /\ q.complete =>
                    DOMAIN r.items \subseteq DOMAIN q.items

Resting(w, ms, s) ==
    w.pc \notin Running /\ \A r \in Results : ~Pending(r, w, ms, s)

\* f will be shown, if it is in the catalogue it is kept; its tags will be v; f
\* will not be shown, unless x.  U says that there is news of f upstream.
Appears(l, w, ms, s, sv, f, U) ==
    /\ f \in DOMAIN l.items => Kept(l, w, ms, s, sv, f)
    /\ f \in l.files \/ l.directory \/ U \/ Shown(l, w, ms, s, sv, f)

Refreshes(l, w, ms, s, sv, f, v, U) ==
    f \in l.files \/ l.directory \/ U \/ Fresh(l, w, ms, s, sv, f, v)

Vanishes(l, w, ms, s, sv, f, x, U) ==
    l.directory \/ U \/ Hidden(l, w, ms, s, sv, f, x)

\* What is queued goes with the scan that starts.
Cleared(l) == [l EXCEPT !.files = {}, !.directory = FALSE, !.tracks = None]

\* What is claimed of f before a step is claimed of it afterwards.
Carries(l, w, ms, s, a, j, ns, t, sv, X, f) ==
    /\ \A U : Appears(l, w, ms, s, sv, f, U) => Appears(a, j, ns, t, sv, f, U)
    /\ \A v, U : f \notin X /\ Refreshes(l, w, ms, s, sv, f, v, U) =>
                    Refreshes(a, j, ns, t, sv, f, v, U)
    /\ \A x, U : (f \in X => x) /\ Vanishes(l, w, ms, s, sv, f, x, U) =>
                    Vanishes(a, j, ns, t, sv, f, x, U)

\* The scan, its results and the catalogue fit.
Ordered(l, idx, w, ms, s, G, D, X) ==
    /\ Fits(l, G, D, X) /\ Scans(l, w, X) /\ Parts(l, w, ms, s)
    /\ ~idx => Resting(w, ms, s)

Mirrored(f) ==
    /\ f \in present \ discarded =>
          Appears(lib, worker, messages, scan, saved, f, Upstream(f, {"added"}))
    /\ f \in present \ added =>
          Refreshes(lib, worker, messages, scan, saved, f, content[f],
                    Upstream(f, {"modified"}))
    /\ f \in Lost =>
          Vanishes(lib, worker, messages, scan, saved, f, f \in DOMAIN rated \cup added,
                   Upstream(f, {"removed"}))

CInv ==
    Steady(env) /\ phase = "open" =>
        /\ Queued(lib) => refreshPending
        /\ watch # "closed" => monitoring
        /\ discarded \subseteq Ever
        /\ Ordered(lib, indexing, worker, messages, scan, Lost, discarded, added)
        /\ \A f \in Files : Mirrored(f)

-----------------------------------------------------------------------------
(* The library is current: the end of a handler.                           *)

LEMMA RestingIsIdle ==
    ASSUME NEW w, NEW ms, NEW s, Resting(w, ms, s)
    PROVE  Idle(w, ms, s)
BY DEF Resting, Idle

\* A scan that starts has nothing pending.
LEMMA StartIsAlone ==
    ASSUME NEW j, j.unposted = NoResult, NEW ms \in Seq(Messages), NEW s \in Nat, MailOK(ms, s)
    PROVE  \A r \in Results : ~Pending(r, j, ms, s + 1)
<1>1. \A i \in DOMAIN ms : ~Current(ms[i], s + 1)
  BY NewScanHasNoMail
<1> QED BY <1>1 DEF Pending

\* It reads the directory and the files that were queued, and goes on with the
\* tracks of the catalogue.
LEMMA StartReads ==
    ASSUME NEW l \in Catalogue, NEW g \in Nat, NEW j, j = Job(l, g), NEW f
    PROVE  /\ ToRead(j, f) <=> f \in l.files \/ l.directory
           /\ Misses(j, f) <=> l.directory
<1>1. /\ j.pc = "files" /\ j.files = l.files /\ j.todo = {} /\ j.missing = {}
  BY JobYields
<1>2. j.directory = l.directory
  BY DEF Job
<1> QED BY <1>1, <1>2 DEF ToRead, Misses

LEMMA StartComes ==
    ASSUME NEW l \in Catalogue, l.loaded, NEW g \in Nat, NEW j, j = Job(l, g), NEW sv,
           NEW c, c = Coming(j, sv), NEW f
    PROVE  /\ f \in DOMAIN c <=> f \in DOMAIN l.tracks \/ f \in DOMAIN l.persisted
           /\ f \in DOMAIN l.persisted /\ f \notin DOMAIN l.tracks => c[f] = l.persisted[f]
<1>1. j.pc = "files" /\ j.load = ~l.loaded
  BY JobYields
<1>2. j.tracks = l.tracks /\ j.persisted = l.persisted /\ j.items = None
  BY DEF Job
<1>3. c = Over(Over(None, l.tracks), l.persisted)
  BY <1>1, <1>2 DEF Coming
<1>4. DOMAIN None = {}
  BY NothingIs
<1>5. PICK t : t = Over(None, l.tracks)
  OBVIOUS
<1>6. DOMAIN t = DOMAIN l.tracks
  BY <1>4, <1>5 DEF Over
<1> QED BY <1>3, <1>5, <1>6 DEF Over

LEMMA OrderedAtStart ==
    ASSUME NEW l \in Catalogue, NEW ms \in Seq(Messages), NEW s \in Nat,
           Sound(l, NoWorker, ms, s), NEW G, NEW D, NEW X,
           Ordered(l, FALSE, NoWorker, ms, s, G, D, X),
           NEW a, a = Cleared(l),
           NEW j, j = Job(l, s + 1)
    PROVE  Ordered(a, TRUE, j, ms, s + 1, G, D, X)
<1>1. /\ a.items = l.items /\ a.persisted = l.persisted /\ a.edits = l.edits
      /\ a.removed = l.removed /\ a.excluded = l.excluded /\ a.tracks = None
  BY DEF Catalogue, Cleared
<1>2. DOMAIN None = {}
  BY NothingIs
<1>3. Fits(a, G, D, X)
  BY <1>1, <1>2 DEF Ordered, Fits, Live
<1>4. /\ j.observed = {} /\ j.todo = {} /\ j.missing = {} /\ j.unposted = NoResult
  BY JobYields
<1>5. j.tracks = l.tracks /\ j.tried = {}
  BY DEF Job
<1>6. Scans(a, j, X)
  BY <1>4, <1>5 DEF Ordered, Fits, Scans, Behind
<1>7. MailOK(ms, s)
  BY DEF Sound, Protocol
<1>8. \A r \in Results : ~Pending(r, j, ms, s + 1)
  BY <1>4, <1>7, StartIsAlone
<1>9. Parts(a, j, ms, s + 1)
  BY <1>8 DEF Parts
<1> QED BY <1>3, <1>6, <1>9 DEF Ordered

LEMMA MirroredAtStart ==
    ASSUME NEW l \in Catalogue, l.loaded, NEW ms \in Seq(Messages), NEW s \in Nat,
           Sound(l, NoWorker, ms, s), NEW S, NEW G, NEW D, NEW X,
           Grounded(l, FALSE, NoWorker, ms, s, S, G),
           Ordered(l, FALSE, NoWorker, ms, s, G, D, X),
           NEW a, a = Cleared(l),
           NEW n \in Nat, n = s + 1, NEW j, j = Job(l, n), NEW sv, NEW f
    PROVE  Carries(l, NoWorker, ms, s, a, j, ms, n, sv, X, f)
<1>1. /\ a.items = l.items /\ a.persisted = l.persisted /\ a.edits = l.edits
      /\ a.fileChanges = l.fileChanges /\ a.excluded = l.excluded
  BY DEF Catalogue, Cleared
<1>2. /\ j.pc = "files" /\ j.revision = l.revision /\ j.unposted = NoResult
      /\ j.todo = {}
  BY JobYields
<1>3. j.tried = {}
  BY DEF Job
<1>4. /\ ToRead(j, f) <=> f \in l.files \/ l.directory
      /\ Misses(j, f) <=> l.directory
  BY StartReads
<1>5. PICK c : c = Coming(j, sv)
  OBVIOUS
<1>6. /\ f \in DOMAIN c <=> f \in DOMAIN l.tracks \/ f \in DOMAIN l.persisted
      /\ f \in DOMAIN l.persisted /\ f \notin DOMAIN l.tracks => c[f] = l.persisted[f]
  BY <1>5, StartComes
<1>7. /\ \A r \in Results : ~Pending(r, j, ms, n)
      /\ j.pc \in Running
  BY <1>2, StartIsAlone DEF Sound, Protocol, Running
<1>8. Idle(NoWorker, ms, s)
  BY RestingIsIdle DEF Ordered
<1>9. ~Idle(j, ms, n)
  BY <1>7 DEF Idle
<1>10. ASSUME NEW U, Appears(l, NoWorker, ms, s, sv, f, U) PROVE Appears(a, j, ms, n, sv, f, U)
  <2>1. f \in DOMAIN a.items => Kept(a, j, ms, n, sv, f)
    <3>1. Kept(l, NoWorker, ms, s, sv, f) => Kept(a, j, ms, n, sv, f)
      BY TracksAtStart DEF Cleared
    <3> QED BY <1>1, <1>10, <3>1 DEF Appears
  <2>2. U \/ Shown(a, j, ms, n, sv, f)
    BY <1>4, <1>5, <1>6, <1>7, <1>8, <1>9, <1>10 DEF Appears, Shown, Finds
  <2> QED BY <2>1, <2>2 DEF Appears
<1>11. ASSUME NEW v, NEW U, f \notin X, Refreshes(l, NoWorker, ms, s, sv, f, v, U)
      PROVE  Refreshes(a, j, ms, n, sv, f, v, U)
  <2>1. f \notin DOMAIN l.tracks
    BY <1>11 DEF Ordered, Fits
  <2>2. f \in DOMAIN l.persisted => f \in DOMAIN l.items /\ l.persisted[f].tags = l.items[f].tags
    BY <1>11 DEF Ordered, Fits, Live
  <2>3. U \/ Fresh(a, j, ms, n, sv, f, v)
    BY <1>3, <1>4, <1>5, <1>6, <1>7, <1>8, <1>9, <1>11, <2>1, <2>2
       DEF Refreshes, Fresh, Tagged
  <2> QED BY <2>3 DEF Refreshes
<1>12. ASSUME NEW x, NEW U, f \in X => x, Vanishes(l, NoWorker, ms, s, sv, f, x, U)
       PROVE  Vanishes(a, j, ms, n, sv, f, x, U)
  <2>1. f \in DOMAIN l.tracks => x
    BY <1>12 DEF Ordered, Fits
  <2>2. ~News(a, f, j.revision) /\ ~Edit(a, f, j.revision)
    <3>1. /\ l.revision \in Nat
          /\ f \in DOMAIN l.edits => l.edits[f].revision \in 1..l.revision
          /\ f \in DOMAIN l.fileChanges => l.fileChanges[f].revision \in 1..l.revision
      BY CatalogueFields DEF Sound, Stamped
    <3> QED BY <1>1, <1>2, <3>1 DEF News, Edit
  <2>3. CASE l.directory
    <3>1. Misses(j, f)
      BY <1>4, <2>3
    <3> QED BY <1>7, <1>9, <2>2, <3>1 DEF Vanishes, Hidden, Warned, Barred
  <2>4. CASE ~l.directory /\ ~U
    <3>1. x \/ f \notin Live(l)
      BY <1>8, <1>12, <2>4 DEF Vanishes, Hidden
    <3>2. x \/ f \notin DOMAIN Coming(j, sv) \cup j.todo
      BY <1>2, <1>5, <1>6, <2>1, <3>1 DEF Ordered, Fits
    <3> QED BY <1>7, <1>9, <2>2, <3>2 DEF Vanishes, Hidden, Warned, Barred
  <2> QED BY <2>3, <2>4 DEF Vanishes
<1> QED BY <1>10, <1>11, <1>12 DEF Carries

LEMMA MirroredAtEnd ==
    ASSUME scan \in Nat,
           NEW l \in Catalogue, NEW idx \in BOOLEAN, NEW w \in Jobs \cup {NoWorker},
           NEW ms \in Seq(Messages), Ends(l, idx, w), Sound(l, w, ms, scan),
           NEW S, NEW G, Grounded(l, idx, w, ms, scan, S, G), NEW D, NEW X,
           Ordered(l, idx, w, ms, scan, G, D, X)
    PROVE  /\ Ordered(lib', indexing', worker', ms, scan', G, D, X)
           /\ Refresh(l, idx, w) => (Queued(lib') => refreshPending')
           /\ \A sv, f : Carries(l, w, ms, scan, lib', worker', ms, scan', sv, X, f)
<1>1. CASE /\ lib' = l /\ worker' = w /\ scan' = scan /\ indexing' = idx
           /\ Refresh(l, idx, w) => refreshPending'
  <2>1. \A sv, f : Carries(l, w, ms, scan, l, w, ms, scan, sv, X, f)
    BY DEF Carries
  <2> QED BY <1>1, <2>1
<1>2. CASE /\ lib' = [l EXCEPT !.files = {}, !.directory = FALSE, !.tracks = None]
           /\ scan' = scan + 1 /\ worker' = Job(l, scan + 1) /\ indexing' = TRUE
           /\ idx = FALSE /\ w = NoWorker
  <2>1. PICK a, j, s : a = lib' /\ j = worker' /\ s = scan
    OBVIOUS
  <2>2. a = Cleared(l) /\ j = Job(l, s + 1) /\ s \in Nat
    BY <1>2, <2>1 DEF Cleared
  <2>3. /\ Sound(l, NoWorker, ms, s) /\ Grounded(l, FALSE, NoWorker, ms, s, S, G)
        /\ Ordered(l, FALSE, NoWorker, ms, s, G, D, X)
    BY <1>2, <2>1
  <2>4. l.loaded
    BY <2>3 DEF Grounded, Loading
  <2>5. Ordered(a, TRUE, j, ms, s + 1, G, D, X)
    BY <2>2, <2>3, OrderedAtStart
  <2>6. \A sv, f : Carries(l, NoWorker, ms, s, a, j, ms, s + 1, sv, X, f)
    <3>1. PICK n \in Nat : n = s + 1
      BY <2>2
    <3>2. j = Job(l, n)
      BY <2>2, <3>1
    <3>3. \A sv, f : Carries(l, NoWorker, ms, s, a, j, ms, n, sv, X, f)
      BY <2>2, <2>3, <2>4, <3>1, <3>2, MirroredAtStart
    <3> QED BY <3>1, <3>3
  <2>7. ~Queued(a)
    <3>1. a.files = {} /\ a.directory = FALSE
      BY <2>2 DEF Catalogue, Cleared
    <3> QED BY <3>1 DEF Queued
  <2> QED BY <1>2, <2>1, <2>5, <2>6, <2>7
<1>3. idx = FALSE \/ idx = TRUE
  OBVIOUS
<1>4. Refresh(l, idx, w) =>
          \/ /\ lib' = [l EXCEPT !.files = {}, !.directory = FALSE, !.tracks = None]
             /\ scan' = scan + 1 /\ worker' = Job(l, scan + 1) /\ indexing' = TRUE
             /\ idx = FALSE /\ w = NoWorker
          \/ lib' = l /\ worker' = w /\ scan' = scan /\ indexing' = idx /\ refreshPending'
  BY <1>3 DEF Refresh
<1>5. ~Refresh(l, idx, w) => lib' = l /\ worker' = w /\ scan' = scan /\ indexing' = idx
  BY DEF Ends, Settle
<1> QED BY <1>1, <1>2, <1>4, <1>5

-----------------------------------------------------------------------------
(* The library is current: what a handler does to the catalogue.           *)

\* Nothing that is on its way is of a revision to come.
LEMMA NoRevisionToCome ==
    ASSUME NEW l \in Catalogue, NEW w \in Jobs \cup {NoWorker}, NEW ms \in Seq(Messages),
           NEW s, Sound(l, w, ms, s)
    PROVE  /\ l.revision \in Nat
           /\ w.pc \in Running => w.revision \in Nat /\ w.revision <= l.revision
           /\ \A r \in Results : Pending(r, w, ms, s) =>
                 r.revision \in Nat /\ r.revision <= l.revision
<1>1. /\ l.revision \in Nat /\ Numbered(w, l.revision, s) /\ MailStamped(ms, l.revision)
  BY CatalogueFields DEF Sound
<1>2. ASSUME w.pc \in Running PROVE w.revision \in Nat /\ w.revision <= l.revision
  <2>1. w \in Jobs
    BY <1>2, WorkerFields DEF Running
  <2> QED BY <1>1, <2>1, JobFields DEF Numbered
<1>3. ASSUME NEW r \in Results, Pending(r, w, ms, s)
      PROVE  r.revision \in Nat /\ r.revision <= l.revision
  BY <1>1, <1>3, PendingFields
<1> QED BY <1>1, <1>2, <1>3

LEMMA BehindGrown ==
    ASSUME NEW l \in Catalogue, NEW a, Grown(l, a), NEW O, NEW n \in Nat, n <= l.revision,
           Behind(l, O, n)
    PROVE  Behind(a, O, n)
<1>1. l.revision \in Nat /\ a.removed \in Entries(Nat)
  BY CatalogueFields DEF Grown
<1>2. \A f \in DOMAIN a.removed : a.removed[f] \in Nat
  BY <1>1, EntriesYields
<1> QED BY <1>1, <1>2 DEF Grown, Behind

LEMMA OrderedGrows ==
    ASSUME NEW l \in Catalogue, NEW w \in Jobs \cup {NoWorker}, NEW ms \in Seq(Messages),
           NEW s, Sound(l, w, ms, s), NEW idx, NEW G, NEW D, NEW X,
           Ordered(l, idx, w, ms, s, G, D, X), NEW a, Grown(l, a),
           NEW E, NEW Y, X \subseteq Y, Fits(a, G, E, Y)
    PROVE  Ordered(a, idx, w, ms, s, G, E, Y)
<1>1. /\ w.pc \in Running => w.revision \in Nat /\ w.revision <= l.revision
      /\ \A r \in Results : Pending(r, w, ms, s) =>
            r.revision \in Nat /\ r.revision <= l.revision
  BY NoRevisionToCome
<1>2. Scans(a, w, Y)
  <2>1. ASSUME w.pc \in Running, w # NoWorker
        PROVE  Behind(a, w.observed \cup w.todo, w.revision)
    BY <1>1, <2>1, BehindGrown DEF Ordered, Scans
  <2> QED BY <2>1 DEF Ordered, Scans
<1>3. Parts(a, w, ms, s)
  <2>1. ASSUME NEW r \in Results, Pending(r, w, ms, s)
        PROVE  Behind(a, r.observed, r.revision)
    BY <1>1, <2>1, BehindGrown DEF Ordered, Parts
  <2> QED BY <2>1 DEF Ordered, Parts
<1> QED BY <1>2, <1>3 DEF Ordered

\* What is queued stays queued.
Queues(l, a, f) == (f \in l.files => f \in a.files) /\ (l.directory => a.directory)

LEMMA AppearsGrows ==
    ASSUME NEW l \in Catalogue, NEW w \in Jobs \cup {NoWorker}, NEW ms \in Seq(Messages),
           NEW s, Sound(l, w, ms, s), NEW a, a.loaded = l.loaded, NEW sv, NEW f,
           Queues(l, a, f),
           (Keeps(l, a, f) /\ (f \in DOMAIN a.items => f \in DOMAIN l.items)) \/ Adds(l, a, f),
           NEW U, Appears(l, w, ms, s, sv, f, U) \/ Adds(l, a, f)
    PROVE  Appears(a, w, ms, s, sv, f, U)
<1>1. f \in DOMAIN a.items => Kept(a, w, ms, s, sv, f)
  BY KeptFollows DEF Appears
<1>2. Adds(l, a, f) \/ f \in l.files \/ l.directory \/ U \/ Shown(l, w, ms, s, sv, f)
  BY DEF Appears
<1>3. CASE Adds(l, a, f)
  <2>1. Kept(a, w, ms, s, sv, f) /\ f \in DOMAIN a.persisted
    BY <1>3, KeptFollows DEF Adds
  <2> QED BY <1>1, <2>1 DEF Appears, Shown, Kept
<1>4. CASE Keeps(l, a, f) /\ Shown(l, w, ms, s, sv, f)
  <2>1. /\ l.revision \in Nat
        /\ w.pc \in Running => w.revision \in Nat /\ w.revision <= l.revision
        /\ \A r \in Results : Pending(r, w, ms, s) =>
              r.revision \in Nat /\ r.revision <= l.revision
    BY NoRevisionToCome
  <2>2. ASSUME NEW n \in Nat, n <= l.revision, NEW m, Finds(l, m, n, f) PROVE Finds(a, m, n, f)
    <3>1. l.revision + 1 > n
      BY <2>1, <2>2
    <3>2. WholeEdit(l, f, n) => WholeEdit(a, f, n)
      BY <1>4, <3>1 DEF Keeps, WholeEdit, Edit
    <3> QED BY <2>2, <3>2 DEF Finds
  <2>3. w.pc \in Running => ToRead(w, f) \/ Finds(a, Coming(w, sv), w.revision, f)
    BY <1>4, <2>1, <2>2 DEF Shown
  <2>4. \A r \in Results : Pending(r, w, ms, s) /\ r.complete =>
            Finds(a, r.items, r.revision, f)
    BY <1>4, <2>1, <2>2 DEF Shown
  <2>5. Shown(a, w, ms, s, sv, f)
    BY <1>4, <2>3, <2>4 DEF Shown, Keeps
  <2> QED BY <1>1, <2>5 DEF Appears
<1>5. CASE f \in l.files \/ l.directory \/ U
  BY <1>1, <1>5 DEF Appears, Queues
<1> QED BY <1>2, <1>3, <1>4, <1>5

LEMMA RefreshesGrows ==
    ASSUME NEW l, NEW a, NEW f, Queues(l, a, f),
           f \in DOMAIN a.items => f \in DOMAIN l.items /\ a.items[f].tags = l.items[f].tags,
           NEW w, NEW ms, NEW s, NEW sv, NEW v, NEW U, Refreshes(l, w, ms, s, sv, f, v, U)
    PROVE  Refreshes(a, w, ms, s, sv, f, v, U)
<1>1. CASE Fresh(l, w, ms, s, sv, f, v)
  <2>1. Fresh(a, w, ms, s, sv, f, v)
    BY <1>1 DEF Fresh, Tagged
  <2> QED BY <2>1 DEF Refreshes
<1>2. CASE f \in l.files \/ l.directory \/ U
  BY <1>2 DEF Refreshes, Queues
<1> QED BY <1>1, <1>2 DEF Refreshes

\* f is not brought back; what is notified of it is that it is gone.
Stays(l, a, f) ==
    /\ f \in Live(a) => f \in Live(l)
    /\ f \in l.excluded => f \in a.excluded
    /\ f \in DOMAIN a.edits =>
          f \in DOMAIN l.edits /\ a.edits[f].revision = l.edits[f].revision

Warns(l, a, f) ==
    /\ f \in DOMAIN l.fileChanges => f \in DOMAIN a.fileChanges
    /\ f \in DOMAIN a.fileChanges =>
          \/ f \in DOMAIN l.fileChanges /\ a.fileChanges[f] = l.fileChanges[f]
          \/ a.fileChanges[f].removed /\ a.fileChanges[f].revision > l.revision

LEMMA VanishesGrows ==
    ASSUME NEW l \in Catalogue, NEW w \in Jobs \cup {NoWorker}, NEW ms \in Seq(Messages),
           NEW s, Sound(l, w, ms, s), NEW a, NEW f, Queues(l, a, f), Warns(l, a, f),
           NEW x, NEW y, f \in a.excluded \/ y \/ ((x => y) /\ Stays(l, a, f)),
           NEW sv, NEW U, Vanishes(l, w, ms, s, sv, f, x, U), Grown(l, a)
    PROVE  Vanishes(a, w, ms, s, sv, f, y, U)
<1>1. CASE Hidden(l, w, ms, s, sv, f, x)
  <2>1. /\ l.revision \in Nat
        /\ w.pc \in Running => w.revision \in Nat /\ w.revision <= l.revision
        /\ \A r \in Results : Pending(r, w, ms, s) =>
              r.revision \in Nat /\ r.revision <= l.revision
    BY NoRevisionToCome
  <2>2. f \in DOMAIN a.fileChanges => a.fileChanges[f].revision \in Nat
    <3>1. a.fileChanges \in Notices
      BY CatalogueFields DEF Grown
    <3>2. PICK c : c = a.fileChanges
      OBVIOUS
    <3>3. \A g \in DOMAIN c : c[g] \in [revision : Nat, removed : BOOLEAN]
      BY <3>1, <3>2, EntriesYields DEF Notices
    <3> QED BY <3>2, <3>3
  <2>3. ASSUME NEW n \in Nat, n <= l.revision, NEW m, NEW b,
               Warned(l, f, n), x \/ Barred(l, m, n, f, b)
        PROVE  Warned(a, f, n) /\ (y \/ Barred(a, m, n, f, b))
    <3>1. News(l, f, n) => News(a, f, n)
      BY <2>1, <2>2, <2>3 DEF Warns, News
    <3>2. Warned(a, f, n)
      BY <2>3 DEF Warns, Warned, News
    <3>3. f \in a.excluded \/ y \/ Barred(a, m, n, f, b)
      BY <2>3, <3>1 DEF Stays, Barred, Edit
    <3> QED BY <3>2, <3>3 DEF Barred
  <2>4. w.pc \in Running =>
          /\ Warned(a, f, w.revision)
          /\ y \/ Barred(a, DOMAIN Coming(w, sv) \cup w.todo, w.revision, f, Misses(w, f))
    BY <1>1, <2>1, <2>3 DEF Hidden
  <2>5. \A r \in Results : Pending(r, w, ms, s) /\ r.complete =>
          /\ Warned(a, f, r.revision)
          /\ y \/ Barred(a, DOMAIN r.items, r.revision, f, f \in r.missing)
    BY <1>1, <2>1, <2>3 DEF Hidden
  <2>6. Idle(w, ms, s) => y \/ f \notin Live(a)
    BY <1>1 DEF Hidden, Stays, Live
  <2>7. Hidden(a, w, ms, s, sv, f, y)
    BY <2>4, <2>5, <2>6 DEF Hidden
  <2> QED BY <2>7 DEF Vanishes
<1>2. CASE l.directory \/ U
  BY <1>2 DEF Vanishes, Queues
<1> QED BY <1>1, <1>2 DEF Vanishes

\* f is left as it is.
Spares(l, a, f) ==
    /\ Queues(l, a, f) /\ Keeps(l, a, f) /\ Stays(l, a, f) /\ Warns(l, a, f)
    /\ f \in DOMAIN a.items =>
          f \in DOMAIN l.items /\ a.items[f].tags = l.items[f].tags

LEMMA RequestSpares ==
    ASSUME NEW l \in Catalogue, NEW a, NEW f,
           \/ a = l \/ a = [l EXCEPT !.directory = TRUE]
           \/ \E g : a = FileModified(l, g)
    PROVE  /\ Spares(l, a, f)
           /\ \A G, D, X : Fits(l, G, D, X) => Fits(a, G, D, X)
<1>1. /\ a.items = l.items /\ a.persisted = l.persisted /\ a.tracks = l.tracks
      /\ a.edits = l.edits /\ a.excluded = l.excluded /\ a.removed = l.removed
      /\ a.fileChanges = l.fileChanges
  BY DEF Catalogue, FileModified
<1>2. l.files \subseteq a.files /\ (l.directory => a.directory)
  BY DEF Catalogue, FileModified
<1>3. Spares(l, a, f)
  BY <1>1, <1>2 DEF Spares, Queues, Keeps, Stays, Warns, Live
<1>4. \A G, D, X : Fits(l, G, D, X) => Fits(a, G, D, X)
  BY <1>1 DEF Fits, Live
<1> QED BY <1>3, <1>4

\* A file that is removed is hidden by the notification itself.
LEMMA FileRemovedSpares ==
    ASSUME NEW l \in Catalogue, NEW g, NEW a, a = FileRemoved(l, g)
    PROVE  /\ \A f : f # g => Spares(l, a, f)
           /\ \A G, D, X : g \in G /\ Fits(l, G, D, X) => Fits(a, G, D, X)
           /\ a.files = l.files /\ a.directory = l.directory
           /\ g \notin Live(a) /\ g \in DOMAIN a.fileChanges
           /\ a.fileChanges[g] = [revision |-> l.revision + 1, removed |-> TRUE]
<1>1. PICK known, notice, e, entry :
          /\ known = DOMAIN l.items \cap {g}
          /\ e = [revision |-> l.revision + 1, removed |-> TRUE]
          /\ notice = Put(l.fileChanges, g, e)
          /\ entry = [x \in known |-> l.revision + 1]
  OBVIOUS
<1>2. /\ a.items = l.items /\ a.tracks = l.tracks /\ a.edits = l.edits
      /\ a.excluded = l.excluded \cup known /\ a.fileChanges = notice
      /\ a.persisted = Without(l.persisted, known) /\ a.removed = Over(entry, l.removed)
      /\ a.files = l.files /\ a.directory = l.directory
  BY <1>1 DEF FileRemoved, FileChange, Catalogue
<1>3. /\ DOMAIN notice = DOMAIN l.fileChanges \cup {g} /\ notice[g] = e
      /\ \A f \in DOMAIN l.fileChanges : f # g => notice[f] = l.fileChanges[f]
  BY <1>1 DEF Put, Over
<1>4. /\ DOMAIN a.persisted = DOMAIN l.persisted \ known
      /\ \A f \in DOMAIN a.persisted : a.persisted[f] = l.persisted[f]
      /\ DOMAIN a.removed = known \cup DOMAIN l.removed
  BY <1>1, <1>2 DEF Without, Over
<1>5. ASSUME NEW f, f # g PROVE Spares(l, a, f)
  <2>1. f \notin known /\ f \in DOMAIN l.persisted => f \in DOMAIN a.persisted
    BY <1>1, <1>4, <1>5
  <2>2. Queues(l, a, f) /\ Keeps(l, a, f)
    BY <1>1, <1>2, <1>5, <2>1 DEF Queues, Keeps
  <2>3. Stays(l, a, f) /\ Warns(l, a, f)
    BY <1>1, <1>2, <1>3, <1>5 DEF Stays, Warns, Live
  <2> QED BY <1>2, <2>2, <2>3 DEF Spares
<1>6. ASSUME NEW G, g \in G, NEW D, NEW X, Fits(l, G, D, X) PROVE Fits(a, G, D, X)
  <2>1. Live(a) = Live(l) \ known
    BY <1>2 DEF Live
  <2> QED BY <1>1, <1>2, <1>4, <1>6, <2>1 DEF Fits
<1>7. g \notin Live(a)
  BY <1>1, <1>2 DEF Live
<1> QED BY <1>1, <1>2, <1>3, <1>5, <1>6, <1>7

LEMMA FileAddedSpares ==
    ASSUME NEW l \in Catalogue, NEW g, NEW a, a = FileAdded(l, g)
    PROVE  /\ \A f : f # g => Spares(l, a, f)
           /\ \A f : Queues(l, a, f) /\ Keeps(l, a, f)
           /\ a.items = l.items /\ (g \in a.files \/ g \in DOMAIN l.items)
           /\ \A G, D, X : Fits(l, G, D, X) => Fits(a, G, D, X)
<1>1. PICK revived, notice, e :
          /\ revived = {g} \cap l.excluded
          /\ e = [revision |-> l.revision + 1, removed |-> FALSE]
          /\ notice = Put(l.fileChanges, g, e)
  OBVIOUS
<1>2. /\ a.items = l.items /\ a.tracks = l.tracks /\ a.edits = l.edits
      /\ a.excluded = l.excluded \ revived /\ a.fileChanges = notice
      /\ a.persisted = l.persisted /\ a.removed = Without(l.removed, revived)
      /\ a.files = (IF g \in DOMAIN l.items THEN l.files ELSE l.files \cup {g})
      /\ a.directory = l.directory
  BY <1>1 DEF FileAdded, FileChange, Catalogue
<1>3. /\ DOMAIN notice = DOMAIN l.fileChanges \cup {g}
      /\ \A f \in DOMAIN l.fileChanges : f # g => notice[f] = l.fileChanges[f]
  BY <1>1 DEF Put, Over
<1>4. DOMAIN a.removed \subseteq DOMAIN l.removed
  BY <1>2 DEF Without
<1>5. ASSUME NEW f PROVE Queues(l, a, f) /\ Keeps(l, a, f)
  BY <1>2 DEF Queues, Keeps
<1>6. ASSUME NEW f, f # g PROVE Spares(l, a, f)
  <2>1. f \notin revived
    BY <1>1, <1>6
  <2>2. Stays(l, a, f) /\ Warns(l, a, f)
    BY <1>2, <1>3, <1>6, <2>1 DEF Stays, Warns, Live
  <2> QED BY <1>2, <1>5, <2>2 DEF Spares
<1>7. ASSUME NEW G, NEW D, NEW X, Fits(l, G, D, X) PROVE Fits(a, G, D, X)
  <2>1. Live(l) \subseteq Live(a)
    BY <1>2 DEF Live
  <2> QED BY <1>2, <1>4, <1>7, <2>1 DEF Fits
<1> QED BY <1>2, <1>5, <1>6, <1>7

LEMMA ReratedTags ==
    ASSUME NEW t \in Tracks, NEW g, NEW r, NEW u, u = Rerated(t, g, r)
    PROVE  /\ DOMAIN u = DOMAIN t
           /\ \A f \in DOMAIN t : u[f].tags = t[f].tags
           /\ \A f \in DOMAIN t : f # g => u[f] = t[f]
<1>1. CASE g \in DOMAIN t
  <2>1. PICK v : v = [t[g] EXCEPT !.rating = r]
    OBVIOUS
  <2>2. t[g] \in TrackType
    BY <1>1, EntriesYields DEF Tracks
  <2>3. v.tags = t[g].tags
    BY <2>1, <2>2 DEF TrackType
  <2>4. u = [t EXCEPT ![g] = v]
    BY <1>1, <2>1 DEF Rerated
  <2> QED BY <1>1, <2>3, <2>4
<1>2. CASE g \notin DOMAIN t
  BY <1>2 DEF Rerated
<1> QED BY <1>1, <1>2

LEMMA StarredSpares ==
    ASSUME NEW l \in Catalogue, NEW g \in Live(l), g \in DOMAIN l.items, NEW r,
           NEW a, a = Starred(l, g, r)
    PROVE  /\ \A f : f # g => Spares(l, a, f)
           /\ Queues(l, a, g) /\ Keeps(l, a, g) /\ Warns(l, a, g)
           /\ a.items[g].tags = l.items[g].tags
           /\ \A G, D, X : Fits(l, G, D, X) => Fits(a, G, D, X)
           /\ a.files = l.files /\ a.directory = l.directory
<1>1. PICK e : /\ RatingEdit(l, g, r) = Put(l.edits, g, e)
               /\ e.revision = l.revision + 1
               /\ e.ratingOnly = ~(g \in DOMAIN l.edits /\ ~l.edits[g].ratingOnly)
  <2>1. PICK whole, tags, e :
            /\ whole = (g \in DOMAIN l.edits /\ ~l.edits[g].ratingOnly)
            /\ tags = IF whole THEN l.edits[g].track.tags ELSE l.items[g].tags
            /\ e = [revision |-> l.revision + 1, track |-> Track(tags, r),
                    ratingOnly |-> ~whole]
    OBVIOUS
  <2>2. RatingEdit(l, g, r) = Put(l.edits, g, e)
    BY <2>1 DEF RatingEdit
  <2>3. e.revision = l.revision + 1 /\ e.ratingOnly = ~whole
    BY <2>1
  <2> QED BY <2>1, <2>2, <2>3
<1>2. /\ a.items = Rerated(l.items, g, r) /\ a.persisted = Rerated(l.persisted, g, r)
      /\ a.tracks = Rerated(l.tracks, g, r) /\ a.edits = Put(l.edits, g, e)
      /\ a.excluded = l.excluded /\ a.fileChanges = l.fileChanges
      /\ a.removed = l.removed /\ a.files = l.files /\ a.directory = l.directory
  BY <1>1 DEF Catalogue, Starred
<1>3. l.items \in Tracks /\ l.persisted \in Tracks /\ l.tracks \in Tracks
  BY CatalogueFields
<1>4. /\ DOMAIN a.items = DOMAIN l.items
      /\ \A f \in DOMAIN l.items : a.items[f].tags = l.items[f].tags
  BY <1>2, <1>3, ReratedTags
<1>5. /\ DOMAIN a.persisted = DOMAIN l.persisted
      /\ \A f \in DOMAIN l.persisted : a.persisted[f].tags = l.persisted[f].tags
  BY <1>2, <1>3, ReratedTags
<1>6. DOMAIN a.tracks = DOMAIN l.tracks
  BY <1>2, <1>3, ReratedTags
<1>7. /\ DOMAIN a.edits = {g} \cup DOMAIN l.edits /\ a.edits[g] = e
      /\ \A x \in DOMAIN l.edits : x # g => a.edits[x] = l.edits[x]
  BY <1>2 DEF Put, Over
<1>8. ASSUME NEW f PROVE Queues(l, a, f) /\ Keeps(l, a, f) /\ Warns(l, a, f)
  BY <1>1, <1>2, <1>4, <1>5, <1>7 DEF Queues, Keeps, Warns
<1>9. ASSUME NEW f, f # g PROVE Spares(l, a, f)
  <2>1. Stays(l, a, f)
    BY <1>2, <1>4, <1>7, <1>9 DEF Stays, Live
  <2> QED BY <1>4, <1>8, <2>1 DEF Spares
<1>10. ASSUME NEW G, NEW D, NEW X, Fits(l, G, D, X) PROVE Fits(a, G, D, X)
  <2>1. Live(a) = Live(l)
    BY <1>2, <1>4 DEF Live
  <2>2. \A f \in DOMAIN a.edits : ~a.edits[f].ratingOnly =>
            f \in DOMAIN l.edits /\ ~l.edits[f].ratingOnly
    BY <1>1, <1>7
  <2>3. \A f \in DOMAIN l.persisted : f \in DOMAIN l.items
    BY <1>10 DEF Fits, Live
  <2> QED BY <1>2, <1>4, <1>5, <1>6, <1>10, <2>1, <2>2, <2>3 DEF Fits
<1> QED BY <1>2, <1>4, <1>8, <1>9, <1>10

LEMMA DroppedSpares ==
    ASSUME NEW l \in Catalogue, NEW g, NEW a, a = Dropped(l, g)
    PROVE  /\ \A f : f # g => Spares(l, a, f)
           /\ Queues(l, a, g) /\ Warns(l, a, g) /\ g \in a.excluded /\ a.items = l.items
           /\ \A G, D, X : Fits(l, G, D, X) => Fits(a, G, D \cup {g}, X)
           /\ a.files = l.files /\ a.directory = l.directory
<1>1. /\ a.items = l.items /\ a.tracks = l.tracks /\ a.edits = l.edits
      /\ a.excluded = l.excluded \cup {g} /\ a.persisted = Without(l.persisted, {g})
      /\ a.fileChanges = l.fileChanges /\ a.removed = l.removed
      /\ a.files = l.files /\ a.directory = l.directory
  BY DEF Catalogue, Dropped
<1>2. /\ DOMAIN a.persisted = DOMAIN l.persisted \ {g}
      /\ \A f \in DOMAIN a.persisted : a.persisted[f] = l.persisted[f]
  BY <1>1 DEF Without
<1>3. ASSUME NEW f, f # g PROVE Spares(l, a, f)
  BY <1>1, <1>2, <1>3 DEF Spares, Queues, Keeps, Stays, Warns, Live
<1>4. ASSUME NEW G, NEW D, NEW X, Fits(l, G, D, X) PROVE Fits(a, G, D \cup {g}, X)
  <2>1. Live(a) = Live(l) \ {g}
    BY <1>1 DEF Live
  <2> QED BY <1>1, <1>2, <1>4, <2>1 DEF Fits
<1> QED BY <1>1, <1>3, <1>4 DEF Queues, Warns

LEMMA ImportedSpares ==
    ASSUME NEW l \in Catalogue, NEW g, NEW t, NEW a, a = Imported(l, g, t)
    PROVE  /\ \A f : f # g => Spares(l, a, f)
           /\ Queues(l, a, g) /\ Warns(l, a, g)
           /\ \A G, D, X : Fits(l, G, D, X) => Fits(a, G, D \ {g}, X \cup {g})
<1>1. PICK entry, e : /\ entry = [x \in {g} |-> t]
                      /\ e = [revision |-> l.revision + 1, track |-> t, ratingOnly |-> FALSE]
  OBVIOUS
<1>2. /\ a.excluded = l.excluded \ {g} /\ a.items = Put(l.items, g, t)
      /\ a.persisted = Over(l.persisted, entry) /\ a.tracks = Over(l.tracks, entry)
      /\ a.edits = Put(l.edits, g, e) /\ a.fileChanges = l.fileChanges
      /\ a.removed = Without(l.removed, {g})
      /\ a.files = l.files /\ a.directory = l.directory
  BY <1>1 DEF Catalogue, Imported
<1>3. /\ DOMAIN a.items = DOMAIN l.items \cup {g}
      /\ \A f \in DOMAIN l.items : f # g => a.items[f] = l.items[f]
      /\ DOMAIN a.edits = DOMAIN l.edits \cup {g}
      /\ \A f \in DOMAIN l.edits : f # g => a.edits[f] = l.edits[f]
  BY <1>2 DEF Put, Over
<1>4. /\ DOMAIN a.persisted = DOMAIN l.persisted \cup {g}
      /\ \A f \in DOMAIN l.persisted : a.persisted[f] = l.persisted[f]
      /\ DOMAIN a.tracks = DOMAIN l.tracks \cup {g}
  BY <1>1, <1>2 DEF Over
<1>5. DOMAIN a.removed = DOMAIN l.removed \ {g}
  BY <1>2 DEF Without
<1>6. ASSUME NEW f, f # g PROVE Spares(l, a, f)
  BY <1>2, <1>3, <1>4, <1>6 DEF Spares, Queues, Keeps, Stays, Warns, Live
<1>7. ASSUME NEW G, NEW D, NEW X, Fits(l, G, D, X) PROVE Fits(a, G, D \ {g}, X \cup {g})
  <2>1. Live(a) = Live(l) \cup {g}
    BY <1>2, <1>3 DEF Live
  <2>2. \A f \in DOMAIN a.persisted \ (X \cup {g}) : a.persisted[f].tags = a.items[f].tags
    <3>1. \A f \in DOMAIN l.persisted : f \in DOMAIN l.items
      BY <1>7 DEF Fits, Live
    <3> QED BY <1>3, <1>4, <1>7, <3>1 DEF Fits
  <2> QED BY <1>2, <1>3, <1>4, <1>5, <1>7, <2>1, <2>2 DEF Fits
<1> QED BY <1>2, <1>6, <1>7 DEF Queues, Warns

-----------------------------------------------------------------------------
(* The library is current: the window.                                     *)

\* Less is on its way, but not the last of it.
LEMMA LessComes ==
    ASSUME NEW l, NEW idx, NEW w \in Jobs \cup {NoWorker},
           NEW v, v = w \/ (v = NoWorker /\ w.pc \notin Running),
           NEW ms, NEW ns, NEW s,
           \A q \in Results : Pending(q, v, ns, s) => Pending(q, w, ms, s),
           Idle(v, ns, s) => Idle(w, ms, s)
    PROVE  /\ \A G, D, X : Ordered(l, idx, w, ms, s, G, D, X) => Ordered(l, idx, v, ns, s, G, D, X)
           /\ \A sv, X, f : Carries(l, w, ms, s, l, v, ns, s, sv, X, f)
<1>1. /\ NoWorker.pc \notin Running /\ v \in {w, NoWorker}
      /\ v.pc \in Running => v = w
  BY DEF NoWorker, Running
<1>2. ASSUME NEW G, NEW D, NEW X, Ordered(l, idx, w, ms, s, G, D, X)
      PROVE  Ordered(l, idx, v, ns, s, G, D, X)
  <2>1. Scans(l, v, X)
    BY <1>2 DEF Ordered, Scans
  <2>2. Parts(l, v, ns, s)
    BY <1>1, <1>2 DEF Ordered, Parts
  <2>3. ~idx => Resting(v, ns, s)
    BY <1>1, <1>2 DEF Ordered, Resting
  <2> QED BY <1>2, <2>1, <2>2, <2>3 DEF Ordered
<1>3. ASSUME NEW sv, NEW X, NEW f PROVE Carries(l, w, ms, s, l, v, ns, s, sv, X, f)
  <2>1. Kept(l, w, ms, s, sv, f) => Kept(l, v, ns, s, sv, f)
    BY <1>1, LessOnItsWay
  <2>2. Shown(l, w, ms, s, sv, f) => Shown(l, v, ns, s, sv, f)
    BY <1>1 DEF Shown
  <2>3. \A t : Fresh(l, w, ms, s, sv, f, t) => Fresh(l, v, ns, s, sv, f, t)
    BY <1>1 DEF Fresh
  <2>4. \A x : Hidden(l, w, ms, s, sv, f, x) => Hidden(l, v, ns, s, sv, f, x)
    BY <1>1 DEF Hidden
  <2> QED BY <2>1, <2>2, <2>3, <2>4 DEF Carries, Appears, Refreshes, Vanishes
<1> QED BY <1>2, <1>3

\* What a handler has to leave when it ends.
LEMMA HandlerMirrors ==
    ASSUME scan \in Nat, phase' = "open", UNCHANGED <<present, content, saved>>,
           NEW a \in Catalogue, NEW idx \in BOOLEAN, NEW w \in Jobs \cup {NoWorker},
           Ends(a, idx, w), messages' \in Seq(Messages), Sound(a, w, messages', scan),
           Grounded(a, idx, w, messages', scan, Ever, Lost),
           Ordered(a, idx, w, messages', scan, Lost, discarded', added'),
           Refresh(a, idx, w) \/ (Queued(a) => refreshPending),
           watch' # "closed" => monitoring', discarded' \subseteq Ever,
           \A f \in Files :
              /\ f \in present \ discarded' =>
                    Appears(a, w, messages', scan, saved, f, Upstream(f, {"added"})')
              /\ f \in present \ added' =>
                    Refreshes(a, w, messages', scan, saved, f, content[f],
                              Upstream(f, {"modified"})')
              /\ f \in Lost =>
                    Vanishes(a, w, messages', scan, saved, f, f \in DOMAIN rated' \cup added',
                             Upstream(f, {"removed"})')
    PROVE  CInv'
<1>1. Ever' = Ever /\ Lost' = Lost
  BY DEF Ever, Lost
<1>2. PICK ms, D, X : ms = messages' /\ D = discarded' /\ X = added'
  OBVIOUS
<1>3. /\ Ordered(lib', indexing', worker', ms, scan', Lost, D, X)
      /\ Refresh(a, idx, w) => (Queued(lib') => refreshPending')
      /\ \A sv, f : Carries(a, w, ms, scan, lib', worker', ms, scan', sv, X, f)
  <2>1. /\ ms \in Seq(Messages) /\ Sound(a, w, ms, scan)
        /\ Grounded(a, idx, w, ms, scan, Ever, Lost)
        /\ Ordered(a, idx, w, ms, scan, Lost, D, X)
    BY <1>2
  <2> QED BY <2>1, MirroredAtEnd
<1>4. Queued(lib') => refreshPending'
  <2>1. CASE Refresh(a, idx, w)
    BY <1>3, <2>1
  <2>2. CASE ~Refresh(a, idx, w)
    BY <2>2 DEF Ends, Settle
  <2> QED BY <2>1, <2>2
<1>5. ASSUME NEW f \in Files PROVE Mirrored(f)'
  <2>1. Carries(a, w, ms, scan, lib', worker', ms, scan', saved, X, f)
    BY <1>3
  <2>2. f \in present \ discarded' =>
            Appears(lib', worker', ms, scan', saved, f, Upstream(f, {"added"})')
    BY <1>2, <2>1 DEF Carries
  <2>3. f \in present \ added' =>
            Refreshes(lib', worker', ms, scan', saved, f, content[f],
                      Upstream(f, {"modified"})')
    BY <1>2, <2>1 DEF Carries
  <2>4. f \in Lost =>
            Vanishes(lib', worker', ms, scan', saved, f, f \in DOMAIN rated' \cup added',
                     Upstream(f, {"removed"})')
    BY <1>2, <2>1 DEF Carries
  <2> QED BY <1>1, <1>2, <2>2, <2>3, <2>4 DEF Mirrored
<1>6. Ordered(lib', indexing', worker', messages', scan', Lost', discarded', added')
  BY <1>1, <1>2, <1>3
<1> QED BY <1>1, <1>4, <1>5, <1>6 DEF CInv

LEMMA IdleIsLoaded ==
    ASSUME NEW l, NEW idx, NEW w \in Jobs \cup {NoWorker}, NEW ms \in Seq(Messages), NEW s,
           Delivery(idx, w, ms, s), Loading(l, idx, w, ms, s), Idle(w, ms, s)
    PROVE  ~idx /\ l.loaded
<1>1. w.unposted # NoResult => w.unposted \in Results /\ w.unposted.complete
  BY WorkerFields DEF Delivery
<1>2. w.unposted = NoResult
  BY <1>1 DEF Idle, Pending
<1>3. ~OnItsWay(ms, s, TRUE)
  <2> SUFFICES ASSUME NEW i \in DOMAIN ms, Current(ms[i], s), ms[i].complete = TRUE
               PROVE  FALSE
    BY DEF OnItsWay
  <2>1. ms[i] \in Messages
    OBVIOUS
  <2>2. ms[i] \in Results
    BY <2>1, ReadyIsResult DEF Current
  <2> QED BY <2>2 DEF Idle, Pending
<1>4. ~idx
  BY <1>2, <1>3 DEF Idle, Delivery
<1> QED BY <1>4 DEF Loading

\* Once it is kept it is shown.
LEMMA KeptIsShown ==
    ASSUME NEW l, NEW w, NEW ms, NEW s, NEW sv, NEW f, Kept(l, w, ms, s, sv, f),
           Idle(w, ms, s) => l.loaded
    PROVE  Shown(l, w, ms, s, sv, f)
BY DEF Kept, Here, Shown

\* A notification that is handled: it is dropped, or it changes the catalogue
\* to a and starts a scan if it leaves anything to read.
Answers(m, a) ==
    \/ a = lib /\ \/ ~Accept(m)
                  \/ m.action \in {"added", "modified"} /\ m.file \notin present
    \/ m.action = "rescan" /\ a = [lib EXCEPT !.directory = TRUE]
    \/ m.action = "removed" /\ a = FileRemoved(lib, m.file)
    \/ m.action = "added" /\ m.file \in present /\ a = FileAdded(lib, m.file)
    \/ m.action = "modified" /\ a = FileModified(lib, m.file)

Handles(m, a) ==
    /\ Ends(a, indexing, worker)
    /\ Refresh(a, indexing, worker) \/ (Queued(a) => Queued(lib))
    /\ Answers(m, a)

LEMMA ChangeTells ==
    ASSUME lib \in Catalogue, NEW m \in Messages, m.kind = "change", HandleChange(m)
    PROVE  \E a : Handles(m, a)
<1>1. ASSUME ~Accept(m) \/ (m.action \in {"added", "modified"} /\ m.file \notin present),
             Settle(lib, indexing, worker)
      PROVE  Handles(m, lib)
  BY <1>1 DEF Ends, Handles, Answers
<1>2. ASSUME NEW a, m.action = "rescan", a = [lib EXCEPT !.directory = TRUE],
             Refresh(a, indexing, worker)
      PROVE  Handles(m, a)
  BY <1>2 DEF Ends, Handles, Answers
<1>3. ASSUME NEW a, m.action = "removed", a = FileRemoved(lib, m.file),
             Settle(a, indexing, worker)
      PROVE  Handles(m, a)
  <2>1. a.files = lib.files /\ a.directory = lib.directory
    BY <1>3 DEF FileRemoved, Catalogue
  <2>2. Queued(a) => Queued(lib)
    BY <2>1 DEF Queued
  <2> QED BY <1>3, <2>2 DEF Ends, Handles, Answers
<1>4. ASSUME NEW a, \/ m.action = "added" /\ m.file \in present /\ a = FileAdded(lib, m.file)
                    \/ m.action = "modified" /\ a = FileModified(lib, m.file),
             IF Queued(a) THEN Refresh(a, indexing, worker) ELSE Settle(a, indexing, worker)
      PROVE  Handles(m, a)
  BY <1>4 DEF Ends, Handles, Answers
<1>5. m.action \in {"rescan", "added", "modified", "removed"}
  BY NotificationFields DEF Actions
<1>6. CASE ~Accept(m) \/ (m.action \in {"added", "modified"} /\ m.file \notin present)
  <2>1. Settle(lib, indexing, worker)
    BY <1>6 DEF HandleChange
  <2> QED BY <1>1, <1>6, <2>1
<1>7. CASE /\ m.action = "rescan"
           /\ ~(~Accept(m) \/ (m.action \in {"added", "modified"} /\ m.file \notin present))
  <2>1. Refresh([lib EXCEPT !.directory = TRUE], indexing, worker)
    BY <1>7 DEF HandleChange
  <2> QED BY <1>2, <1>7, <2>1
<1>8. CASE /\ m.action = "removed"
           /\ ~(~Accept(m) \/ (m.action \in {"added", "modified"} /\ m.file \notin present))
  <2>1. Settle(FileRemoved(lib, m.file), indexing, worker)
    BY <1>8 DEF HandleChange
  <2> QED BY <1>3, <1>8, <2>1
<1>9. CASE /\ m.action = "added"
           /\ ~(~Accept(m) \/ (m.action \in {"added", "modified"} /\ m.file \notin present))
  <2>1. PICK a : a = FileAdded(lib, m.file)
    OBVIOUS
  <2>2. IF Queued(a) THEN Refresh(a, indexing, worker) ELSE Settle(a, indexing, worker)
    BY <1>9, <2>1 DEF HandleChange
  <2> QED BY <1>4, <1>9, <2>1, <2>2
<1>10. CASE /\ m.action = "modified"
            /\ ~(~Accept(m) \/ (m.action \in {"added", "modified"} /\ m.file \notin present))
  <2>1. PICK a : a = FileModified(lib, m.file)
    OBVIOUS
  <2>2. IF Queued(a) THEN Refresh(a, indexing, worker) ELSE Settle(a, indexing, worker)
    BY <1>10, <2>1 DEF HandleChange
  <2> QED BY <1>4, <1>10, <2>1, <2>2
<1> QED BY <1>5, <1>6, <1>7, <1>8, <1>9, <1>10

\* The news of f but for the message that is taken from the queue.
LEMMA UpstreamTaken ==
    ASSUME messages \in Seq(Messages), messages # <<>>, messages' = Tail(messages),
           UNCHANGED <<monitoring, watch, generation, recorded>>, NEW f, NEW A, Upstream(f, A)
    PROVE  Upstream(f, A)' \/ (About(messages[1], f, A) /\ Accept(messages[1]))
<1>1. PICK ms : ms = messages'
  OBVIOUS
<1>2. \A j \in DOMAIN messages : j # 1 => \E k \in DOMAIN ms : ms[k] = messages[j]
  <2> SUFFICES ASSUME NEW j \in DOMAIN messages, j # 1
               PROVE  \E k \in DOMAIN ms : ms[k] = messages[j]
    OBVIOUS
  <2>1. j - 1 \in DOMAIN ms /\ ms[j - 1] = messages[(j - 1) + 1] /\ (j - 1) + 1 = j
    BY <1>1
  <2> QED BY <2>1
<1>3. CASE \E i \in DOMAIN messages : About(messages[i], f, A) /\ Accept(messages[i])
  <2>1. PICK i \in DOMAIN messages : About(messages[i], f, A) /\ Accept(messages[i])
    BY <1>3
  <2>2. CASE i = 1
    BY <2>1, <2>2
  <2>3. CASE i # 1
    <3>1. PICK k \in DOMAIN ms : ms[k] = messages[i]
      BY <1>2, <2>3
    <3>2. About(ms[k], f, A) /\ (Accept(ms[k]) <=> monitoring /\ ms[k].generation = generation)
      BY <2>1, <3>1 DEF Accept
    <3>3. monitoring /\ ms[k].generation = generation
      BY <2>1, <3>1 DEF Accept
    <3> QED BY <1>1, <3>2, <3>3 DEF Upstream, Accept
  <2> QED BY <2>2, <2>3
<1>4. CASE \/ ~monitoring \/ watch \in {"closed", "announce"}
           \/ \E i \in DOMAIN recorded : recorded[i][1] \in A /\ recorded[i][2] = f
  BY <1>4 DEF Upstream
<1> QED BY <1>3, <1>4 DEF Upstream

\* What is claimed, when less is on its way, but not the last of it.
LEMMA ClaimsGo ==
    ASSUME CInv, Steady(env), phase = "open", worker \in Jobs \cup {NoWorker},
           NEW v, v = worker \/ (v = NoWorker /\ worker.pc \notin Running), NEW ns,
           \A q \in Results : Pending(q, v, ns, scan) => Pending(q, worker, messages, scan),
           Idle(v, ns, scan) => Idle(worker, messages, scan)
    PROVE  /\ Ordered(lib, indexing, v, ns, scan, Lost, discarded, added)
           /\ \A f \in Files :
                 /\ f \in present \ discarded =>
                       Appears(lib, v, ns, scan, saved, f, Upstream(f, {"added"}))
                 /\ f \in present \ added =>
                       Refreshes(lib, v, ns, scan, saved, f, content[f],
                                 Upstream(f, {"modified"}))
                 /\ f \in Lost =>
                       Vanishes(lib, v, ns, scan, saved, f, f \in DOMAIN rated \cup added,
                                Upstream(f, {"removed"}))
<1>1. /\ Ordered(lib, indexing, worker, messages, scan, Lost, discarded, added)
      /\ \A f \in Files : Mirrored(f)
  BY DEF CInv
<1>2. Ordered(lib, indexing, v, ns, scan, Lost, discarded, added)
  BY <1>1, LessComes
<1>3. ASSUME NEW f \in Files
      PROVE  /\ f \in present \ discarded =>
                   Appears(lib, v, ns, scan, saved, f, Upstream(f, {"added"}))
             /\ f \in present \ added =>
                   Refreshes(lib, v, ns, scan, saved, f, content[f],
                             Upstream(f, {"modified"}))
             /\ f \in Lost =>
                   Vanishes(lib, v, ns, scan, saved, f, f \in DOMAIN rated \cup added,
                            Upstream(f, {"removed"}))
  <2>1. \A X : Carries(lib, worker, messages, scan, lib, v, ns, scan, saved, X, f)
    BY LessComes
  <2>2. Carries(lib, worker, messages, scan, lib, v, ns, scan, saved, added, f)
    BY <2>1
  <2> QED BY <1>1, <2>2 DEF Mirrored, Carries
<1> QED BY <1>2, <1>3

\* A handler that grows the catalogue to a.
LEMMA GrowingHandlerMirrors ==
    ASSUME IInv, TInv, CInv, Steady(env), phase = "open",
           UNCHANGED <<present, content, phase, saved>>,
           NEW a, Grown(lib, a), Ends(a, indexing, worker), Known(a, Ever, Lost),
           messages' \in Seq(Messages), Sound(lib, worker, messages', scan),
           \A q \in Results : Pending(q, worker, messages', scan) <=>
                                  Pending(q, worker, messages, scan),
           added \subseteq added', Fits(a, Lost, discarded', added'),
           Refresh(a, indexing, worker) \/ (Queued(a) => Queued(lib)),
           watch' # "closed" => monitoring', discarded' \subseteq Ever,
           \A f \in Files :
              /\ f \in present \ discarded' =>
                    Appears(a, worker, messages', scan, saved, f, Upstream(f, {"added"})')
              /\ f \in present \ added' =>
                    Refreshes(a, worker, messages', scan, saved, f, content[f],
                              Upstream(f, {"modified"})')
              /\ f \in Lost =>
                    Vanishes(a, worker, messages', scan, saved, f,
                             f \in DOMAIN rated' \cup added', Upstream(f, {"removed"})')
    PROVE  CInv'
<1>1. /\ lib \in Catalogue /\ worker \in Jobs \cup {NoWorker}
      /\ scan \in Nat /\ indexing \in BOOLEAN
      /\ Grounded(lib, indexing, worker, messages, scan, Ever, Lost)
  BY TInvYields DEF Steady
<1>2. PICK ms : ms = messages'
  OBVIOUS
<1>3. /\ ms \in Seq(Messages) /\ Sound(lib, worker, ms, scan)
      /\ worker \in {worker, NoWorker}
      /\ \A q \in Results : Pending(q, worker, ms, scan) <=> Pending(q, worker, messages, scan)
  BY <1>2
<1>4. Grounded(lib, indexing, worker, ms, scan, Ever, Lost)
  BY <1>1, <1>3, LessOnItsWay
<1>5. a \in Catalogue /\ a.loaded = lib.loaded /\ Sound(a, worker, ms, scan)
  BY <1>1, <1>3, GrownIsSound DEF Grown
<1>6. Grounded(a, indexing, worker, ms, scan, Ever, Lost)
  <2>1. Loading(a, indexing, worker, ms, scan)
    BY <1>4, <1>5 DEF Grounded, Loading
  <2> QED BY <1>4, <2>1 DEF Grounded
<1>7. Ordered(lib, indexing, worker, ms, scan, Lost, discarded, added)
  <2>1. Idle(worker, ms, scan) => Idle(worker, messages, scan)
    BY <1>3 DEF Idle
  <2> QED BY <1>1, <1>3, <2>1, ClaimsGo
<1>8. PICK E, Y : E = discarded' /\ Y = added'
  OBVIOUS
<1>9. Fits(a, Lost, E, Y) /\ added \subseteq Y
  BY <1>8
<1>10. Ordered(a, indexing, worker, ms, scan, Lost, E, Y)
  BY <1>1, <1>3, <1>7, <1>9, OrderedGrows
<1>11. Queued(lib) => refreshPending
  BY DEF CInv
<1>12. /\ Ordered(a, indexing, worker, messages', scan, Lost, discarded', added')
       /\ Grounded(a, indexing, worker, messages', scan, Ever, Lost)
       /\ Sound(a, worker, messages', scan)
       /\ Refresh(a, indexing, worker) \/ (Queued(a) => refreshPending)
       /\ phase' = "open"
  BY <1>2, <1>5, <1>6, <1>8, <1>10, <1>11
<1> QED BY <1>1, <1>5, <1>12, HandlerMirrors

-----------------------------------------------------------------------------
(* The library is current: directory notifications.                        *)

\* What an answer leaves of the files it is not about, and of every file.
LEMMA AnswerSpares ==
    ASSUME lib \in Catalogue, NEW m, NEW a, Answers(m, a),
           m.action = "removed" => m.file \in Lost
    PROVE  /\ a.items = lib.items
           /\ Fits(lib, Lost, discarded, added) => Fits(a, Lost, discarded, added)
           /\ \A f : Queues(lib, a, f) /\ (f \notin Lost => Keeps(lib, a, f))
           /\ \A f \in Lost : Spares(lib, a, f)
                              \/ (m.action = "removed" /\ a = FileRemoved(lib, f))
<1>1. CASE \/ a = lib \/ a = [lib EXCEPT !.directory = TRUE]
           \/ a = FileModified(lib, m.file)
  <2>1. /\ \A f : Spares(lib, a, f)
        /\ Fits(lib, Lost, discarded, added) => Fits(a, Lost, discarded, added)
    BY <1>1, RequestSpares
  <2>2. a.items = lib.items
    BY <1>1 DEF FileModified, Catalogue
  <2> QED BY <2>1, <2>2 DEF Spares
<1>2. CASE m.action = "removed" /\ a = FileRemoved(lib, m.file)
  <2>1. /\ \A f : f # m.file => Spares(lib, a, f)
        /\ Fits(lib, Lost, discarded, added) => Fits(a, Lost, discarded, added)
        /\ a.files = lib.files /\ a.directory = lib.directory
    <3>1. PICK g : g = m.file
      OBVIOUS
    <3>2. /\ \A f : f # g => Spares(lib, a, f)
          /\ \A G, D, X : g \in G /\ Fits(lib, G, D, X) => Fits(a, G, D, X)
          /\ a.files = lib.files /\ a.directory = lib.directory
      BY <1>2, <3>1, FileRemovedSpares
    <3> QED BY <1>2, <3>1, <3>2
  <2>2. a.items = lib.items
    BY <1>2 DEF FileRemoved, Catalogue
  <2> QED BY <1>2, <2>1, <2>2 DEF Spares, Queues
<1>3. CASE m.action = "added" /\ m.file \in present /\ a = FileAdded(lib, m.file)
  <2>1. /\ \A f : f # m.file => Spares(lib, a, f)
        /\ \A f : Queues(lib, a, f) /\ Keeps(lib, a, f)
        /\ a.items = lib.items
        /\ Fits(lib, Lost, discarded, added) => Fits(a, Lost, discarded, added)
    BY <1>3, FileAddedSpares
  <2>2. m.file \notin Lost
    BY <1>3 DEF Lost
  <2> QED BY <2>1, <2>2
<1> QED BY <1>1, <1>2, <1>3 DEF Answers

LEMMA AnswerAppears ==
    ASSUME lib \in Catalogue, worker \in Jobs \cup {NoWorker}, NEW ms \in Seq(Messages),
           Sound(lib, worker, ms, scan), Idle(worker, ms, scan) => lib.loaded,
           NEW m, NEW a, Answers(m, a), a.loaded = lib.loaded,
           m.action = "removed" => m.file \in Lost, NEW f \in present, NEW U,
           Appears(lib, worker, ms, scan, saved, f, U),
           NEW V, U => V \/ (About(m, f, {"added"}) /\ Accept(m))
    PROVE  Appears(a, worker, ms, scan, saved, f, V)
<1>1. f \notin Lost
  BY DEF Lost
<1>2. a.items = lib.items /\ Queues(lib, a, f) /\ Keeps(lib, a, f)
  BY <1>1, AnswerSpares
<1>3. CASE ~(About(m, f, {"added"}) /\ Accept(m))
  <2>1. Appears(lib, worker, ms, scan, saved, f, V)
    BY <1>3 DEF Appears
  <2> QED BY <1>2, <2>1, AppearsGrows
<1>4. CASE About(m, f, {"added"}) /\ Accept(m)
  <2>1. Appears(lib, worker, ms, scan, saved, f, TRUE)
    BY DEF Appears
  <2>2. Appears(a, worker, ms, scan, saved, f, TRUE)
    BY <1>2, <2>1, AppearsGrows
  <2>3. CASE m.action = "rescan"
    <3>1. a = [lib EXCEPT !.directory = TRUE]
      BY <1>4, <2>3 DEF Answers
    <3>2. a.directory
      BY <3>1 DEF Catalogue
    <3> QED BY <2>2, <3>2 DEF Appears
  <2>4. CASE m.action = "added" /\ m.file = f
    <3>1. a = FileAdded(lib, f)
      BY <1>4, <2>4 DEF Answers
    <3>2. f \in a.files \/ f \in DOMAIN a.items
      BY <1>2, <3>1, FileAddedSpares
    <3>3. CASE f \in a.files
      BY <2>2, <3>3 DEF Appears
    <3>4. CASE f \in DOMAIN a.items
      <4>1. Kept(a, worker, ms, scan, saved, f)
        BY <2>2, <3>4 DEF Appears
      <4>2. Shown(a, worker, ms, scan, saved, f)
        BY <4>1, KeptIsShown
      <4> QED BY <4>1, <4>2 DEF Appears
    <3> QED BY <3>2, <3>3, <3>4
  <2> QED BY <1>4, <2>3, <2>4 DEF About
<1> QED BY <1>3, <1>4

LEMMA AnswerRefreshes ==
    ASSUME lib \in Catalogue, NEW m, NEW a, Answers(m, a),
           m.action = "removed" => m.file \in Lost, NEW f \in present, NEW ms, NEW v, NEW U,
           Refreshes(lib, worker, ms, scan, saved, f, v, U),
           NEW V, U => V \/ (About(m, f, {"modified"}) /\ Accept(m))
    PROVE  Refreshes(a, worker, ms, scan, saved, f, v, V)
<1>1. a.items = lib.items /\ Queues(lib, a, f)
  BY AnswerSpares
<1>2. CASE ~(About(m, f, {"modified"}) /\ Accept(m))
  <2>1. Refreshes(lib, worker, ms, scan, saved, f, v, V)
    BY <1>2 DEF Refreshes
  <2> QED BY <1>1, <2>1, RefreshesGrows
<1>3. CASE About(m, f, {"modified"}) /\ Accept(m)
  <2>1. \/ a = [lib EXCEPT !.directory = TRUE]
        \/ a = FileModified(lib, f)
    BY <1>3 DEF About, Answers
  <2>2. a.directory \/ f \in a.files
    BY <2>1 DEF FileModified, Catalogue
  <2> QED BY <2>2 DEF Refreshes
<1> QED BY <1>2, <1>3

\* The notification of the removal hides the file, whatever is on its way.
LEMMA RemovedVanishes ==
    ASSUME NEW l \in Catalogue, NEW w \in Jobs \cup {NoWorker}, NEW ms \in Seq(Messages),
           NEW s, Sound(l, w, ms, s), NEW f \in Lost, NEW a, a = FileRemoved(l, f),
           NEW sv, NEW x, NEW U
    PROVE  Vanishes(a, w, ms, s, sv, f, x, U)
<1>1. /\ f \notin Live(a) /\ f \in DOMAIN a.fileChanges
      /\ a.fileChanges[f] = [revision |-> l.revision + 1, removed |-> TRUE]
  BY FileRemovedSpares
<1>2. ASSUME NEW n \in Nat, n <= l.revision PROVE Warned(a, f, n) /\ News(a, f, n)
  <2>1. l.revision \in Nat
    BY CatalogueFields
  <2> QED BY <1>1, <1>2, <2>1 DEF Warned, News
<1>3. /\ w.pc \in Running => w.revision \in Nat /\ w.revision <= l.revision
      /\ \A r \in Results : Pending(r, w, ms, s) =>
            r.revision \in Nat /\ r.revision <= l.revision
  BY NoRevisionToCome
<1>4. Hidden(a, w, ms, s, sv, f, x)
  BY <1>1, <1>2, <1>3 DEF Hidden, Barred
<1> QED BY <1>4 DEF Vanishes

LEMMA AnswerVanishes ==
    ASSUME lib \in Catalogue, worker \in Jobs \cup {NoWorker}, NEW ms \in Seq(Messages),
           Sound(lib, worker, ms, scan),
           NEW m, NEW a, Answers(m, a), Grown(lib, a),
           m.action = "removed" => m.file \in Lost, NEW f \in Lost, NEW x, NEW U,
           Vanishes(lib, worker, ms, scan, saved, f, x, U),
           NEW V, U => V \/ (About(m, f, {"removed"}) /\ Accept(m))
    PROVE  Vanishes(a, worker, ms, scan, saved, f, x, V)
<1>1. CASE a = FileRemoved(lib, f)
  BY <1>1, RemovedVanishes
<1>2. CASE a # FileRemoved(lib, f) /\ ~(About(m, f, {"removed"}) /\ Accept(m))
  <2>1. Spares(lib, a, f)
    BY <1>2, AnswerSpares
  <2>2. Vanishes(lib, worker, ms, scan, saved, f, x, V)
    BY <1>2 DEF Vanishes
  <2>3. Queues(lib, a, f) /\ Warns(lib, a, f) /\ Stays(lib, a, f)
    BY <2>1 DEF Spares
  <2> QED BY <2>2, <2>3, VanishesGrows
<1>3. CASE a # FileRemoved(lib, f) /\ About(m, f, {"removed"}) /\ Accept(m)
  <2>1. a = [lib EXCEPT !.directory = TRUE]
    BY <1>3 DEF About, Answers
  <2>2. a.directory
    BY <2>1 DEF Catalogue
  <2> QED BY <2>2 DEF Vanishes
<1> QED BY <1>1, <1>2, <1>3

LEMMA ReceiveChangeMirrors == IInv /\ TInv /\ CInv /\ ReceiveChange => CInv'
<1> SUFFICES ASSUME IInv, TInv, CInv, ReceiveChange, Steady(env') PROVE CInv'
  BY DEF CInv
<1>1. /\ phase = "open" /\ messages # <<>> /\ Head(messages).kind = "change"
      /\ messages' = Tail(messages) /\ HandleChange(Head(messages))
      /\ UNCHANGED <<env, present, content, monitoring, watch, generation, recorded,
                     phase, saved, rated, discarded, added>>
  BY DEF ReceiveChange, diskVars, watchVars, history
<1>2. /\ Sound(lib, worker, messages, scan)
      /\ lib \in Catalogue /\ worker \in Jobs \cup {NoWorker}
      /\ messages \in Seq(Messages) /\ scan \in Nat /\ Told(messages, Lost)
      /\ Grounded(lib, indexing, worker, messages, scan, Ever, Lost)
  BY <1>1, TInvYields DEF Steady
<1>3. /\ 1 \in DOMAIN messages /\ Head(messages) = messages[1]
      /\ messages' = RemoveAt(messages, 1)
  BY <1>1, <1>2, TailIsTaken
<1>4. PICK m \in Messages : m = messages[1]
  BY <1>2, <1>3
<1>5. m.kind = "change" /\ ~Current(m, scan) /\ (m.action = "removed" => m.file \in Lost)
  BY <1>1, <1>2, <1>3, <1>4 DEF Current, Told
<1>6. PICK ms : ms = messages'
  OBVIOUS
<1>7. MailOK(messages, scan) /\ Steady(env)
  BY <1>1, <1>2 DEF Sound, Protocol
<1>8. /\ ms \in Seq(Messages) /\ Sound(lib, worker, ms, scan)
      /\ \A q \in Results : Pending(q, worker, ms, scan) => Pending(q, worker, messages, scan)
  BY <1>2, <1>3, <1>6, <1>7, TakenKeeps, TakenIsLess
<1>9. \A q \in Results : Pending(q, worker, messages, scan) => Pending(q, worker, ms, scan)
  <2> SUFFICES ASSUME NEW q \in Results, NEW i \in DOMAIN messages,
                      q = messages[i], Current(q, scan)
               PROVE  \E k \in DOMAIN ms : q = ms[k] /\ Current(q, scan)
    BY DEF Pending
  <2>1. i # 1
    BY <1>4, <1>5
  <2>2. i - 1 \in DOMAIN ms /\ ms[i - 1] = messages[(i - 1) + 1] /\ (i - 1) + 1 = i
    BY <1>1, <1>2, <1>6, <2>1
  <2> QED BY <2>2
<1>10. Idle(worker, ms, scan) => Idle(worker, messages, scan)
  BY <1>9 DEF Idle
<1>11. Idle(worker, ms, scan) => lib.loaded
  <2>1. Delivery(indexing, worker, messages, scan)
    BY <1>1, <1>7 DEF IInv, Avoids, Steady, Plain
  <2>2. Loading(lib, indexing, worker, messages, scan)
    BY <1>2 DEF Grounded
  <2> QED BY <1>2, <1>10, <2>1, <2>2, IdleIsLoaded
<1>12. /\ Ordered(lib, indexing, worker, ms, scan, Lost, discarded, added)
       /\ \A f \in Files :
             /\ f \in present \ discarded =>
                   Appears(lib, worker, ms, scan, saved, f, Upstream(f, {"added"}))
             /\ f \in present \ added =>
                   Refreshes(lib, worker, ms, scan, saved, f, content[f],
                             Upstream(f, {"modified"}))
             /\ f \in Lost =>
                   Vanishes(lib, worker, ms, scan, saved, f, f \in DOMAIN rated \cup added,
                            Upstream(f, {"removed"}))
  BY <1>1, <1>2, <1>7, <1>8, <1>10, ClaimsGo
<1>13. PICK a : Handles(m, a)
  BY <1>1, <1>2, <1>3, <1>4, <1>5, ChangeTells
<1>14. Answers(m, a) /\ Ends(a, indexing, worker)
       /\ (Refresh(a, indexing, worker) \/ (Queued(a) => Queued(lib)))
  BY <1>13 DEF Handles
<1>15. Grown(lib, a) /\ Known(a, Ever, Lost)
  <2>1. Known(lib, Ever, Lost)
    BY <1>2 DEF Grounded
  <2>2. m.action \in Actions => m.file \in Files
    BY <1>5, NotificationFields DEF Actions
  <2>3. CASE \/ a = lib \/ a = [lib EXCEPT !.directory = TRUE]
             \/ m.action = "modified" /\ a = FileModified(lib, m.file)
    <3>1. Known(a, Ever, Lost)
      BY <1>2, <2>1, <2>3, QueuedKeeps
    <3>2. CASE a = FileModified(lib, m.file) /\ m.action = "modified"
      <4>1. {m.file} \in SUBSET Files
        BY <2>2, <3>2 DEF Actions
      <4>2. a = [lib EXCEPT !.files = @ \cup {m.file}]
        BY <3>2 DEF FileModified
      <4> QED BY <1>2, <3>1, <4>1, <4>2, QueuedGrows
    <3> QED BY <1>2, <2>3, <3>1, <3>2, GrownReflexive, RequestGrows
  <2>4. CASE m.action = "removed" /\ a = FileRemoved(lib, m.file)
    BY <1>2, <1>5, <2>1, <2>2, <2>4, FileRemovedKeeps, FileRemovedGrows DEF Actions
  <2>5. CASE m.action = "added" /\ a = FileAdded(lib, m.file)
    BY <1>2, <2>1, <2>2, <2>5, FileAddedKeeps, FileAddedGrows DEF Actions
  <2> QED BY <1>14, <2>3, <2>4, <2>5 DEF Answers
<1>16. ASSUME NEW f \in Files
       PROVE  /\ f \in present \ discarded =>
                    Appears(a, worker, ms, scan, saved, f, Upstream(f, {"added"})')
              /\ f \in present \ added =>
                    Refreshes(a, worker, ms, scan, saved, f, content[f],
                              Upstream(f, {"modified"})')
              /\ f \in Lost =>
                    Vanishes(a, worker, ms, scan, saved, f, f \in DOMAIN rated \cup added,
                             Upstream(f, {"removed"})')
  <2>1. \A A : Upstream(f, A) => Upstream(f, A)' \/ (About(m, f, A) /\ Accept(m))
    BY <1>1, <1>2, <1>4, UpstreamTaken
  <2>2. a.loaded = lib.loaded
    BY <1>15 DEF Grown
  <2>3. f \in present \ discarded =>
            Appears(a, worker, ms, scan, saved, f, Upstream(f, {"added"})')
    BY <1>2, <1>5, <1>8, <1>11, <1>12, <1>14, <2>1, <2>2, AnswerAppears
  <2>4. f \in present \ added =>
            Refreshes(a, worker, ms, scan, saved, f, content[f], Upstream(f, {"modified"})')
    BY <1>2, <1>5, <1>12, <1>14, <2>1, AnswerRefreshes
  <2>5. f \in Lost =>
            Vanishes(a, worker, ms, scan, saved, f, f \in DOMAIN rated \cup added,
                     Upstream(f, {"removed"})')
    BY <1>2, <1>5, <1>8, <1>12, <1>14, <1>15, <2>1, AnswerVanishes
  <2> QED BY <2>3, <2>4, <2>5
<1>17. Fits(a, Lost, discarded, added)
  BY <1>2, <1>5, <1>12, <1>14, AnswerSpares DEF Ordered
<1>18. /\ watch' # "closed" => monitoring'
       /\ discarded' \subseteq Ever /\ added \subseteq added'
       /\ Fits(a, Lost, discarded', added')
       /\ messages' \in Seq(Messages) /\ Sound(lib, worker, messages', scan)
       /\ \A q \in Results : Pending(q, worker, messages', scan) <=>
                                 Pending(q, worker, messages, scan)
  BY <1>1, <1>6, <1>7, <1>8, <1>9, <1>17 DEF CInv
<1>19. \A f \in Files :
          /\ f \in present \ discarded' =>
                Appears(a, worker, messages', scan, saved, f, Upstream(f, {"added"})')
          /\ f \in present \ added' =>
                Refreshes(a, worker, messages', scan, saved, f, content[f],
                          Upstream(f, {"modified"})')
          /\ f \in Lost =>
                Vanishes(a, worker, messages', scan, saved, f,
                         f \in DOMAIN rated' \cup added', Upstream(f, {"removed"})')
  BY <1>1, <1>6, <1>16
<1> QED BY <1>1, <1>7, <1>14, <1>15, <1>18, <1>19, GrowingHandlerMirrors

-----------------------------------------------------------------------------
(* The library is current: the user.                                       *)

\* A command of the user that leaves the catalogue a.
Moves(a) ==
    /\ Grown(lib, a) /\ Ends(a, indexing, worker) /\ Known(a, Ever, Lost)
    /\ Refresh(a, indexing, worker) \/ (Queued(a) => Queued(lib))
    /\ added \subseteq added' /\ discarded' \subseteq Ever
    /\ Fits(a, Lost, discarded', added')
    /\ \A f \in Files :
          /\ Queues(lib, a, f) /\ Warns(lib, a, f)
          /\ f \in present \ discarded' =>
                \/ /\ f \notin discarded /\ Keeps(lib, a, f)
                   /\ f \in DOMAIN a.items => f \in DOMAIN lib.items
                \/ Adds(lib, a, f)
          /\ f \in present \ added' =>
                /\ f \notin added
                /\ f \in DOMAIN a.items =>
                      f \in DOMAIN lib.items /\ a.items[f].tags = lib.items[f].tags
          /\ \/ f \in a.excluded \cup DOMAIN rated' \cup added'
             \/ Stays(lib, a, f) /\ f \notin DOMAIN rated \cup added

LEMMA CommandMoves ==
    ASSUME IInv, TInv, CInv, Steady(env), UserCommand
    PROVE  \E a : Moves(a)
<1>0. phase = "open" /\ UNCHANGED <<present, saved>>
  <2>1. Command
    BY DEF UserCommand, RateTrack, RemoveTrack, AddTrack, ShowLibrary, RefreshCommand,
           StopMonitoring, StartMonitoring
  <2> QED BY <2>1 DEF Command, diskVars
<1>1. /\ lib \in Catalogue /\ content \in [Files -> Nat] /\ Typed
      /\ present \subseteq Ever /\ added \subseteq Ever /\ Known(lib, Ever, Lost)
  BY <1>0, TInvYields DEF Steady, Grounded
<1>2. discarded \subseteq Ever /\ Fits(lib, Lost, discarded, added)
  BY <1>0 DEF CInv, Ordered
<1>3. ASSUME NEW g \in Files, RateTrack(g) PROVE \E a : Moves(a)
  <2>1. g \in Live(lib) /\ g \in DOMAIN lib.items
    BY <1>1, <1>3, LiveYields DEF RateTrack
  <2>2. PICK r \in Nat : r = user + 1
    BY <1>1 DEF Typed, LibraryTyped
  <2>3. PICK a : a = Starred(lib, g, r)
    OBVIOUS
  <2>4. Grown(lib, a)
    BY <1>1, <2>1, <2>3, RatedGrows DEF Starred
  <2>5. /\ Ends(a, indexing, worker) /\ added' = added /\ discarded' = discarded
        /\ rated' = Put(rated, g, r)
    BY <1>3, <2>2, <2>3 DEF RateTrack, Ends, Starred
  <2>6. Known(a, Ever, Lost) /\ \A f : Keeps(lib, a, f)
    BY <1>1, <2>1, <2>3, StarredKeeps
  <2>7. /\ \A f : f # g => Spares(lib, a, f)
        /\ Queues(lib, a, g) /\ Warns(lib, a, g)
        /\ a.items[g].tags = lib.items[g].tags
        /\ Fits(a, Lost, discarded, added)
        /\ a.files = lib.files /\ a.directory = lib.directory
    BY <1>1, <1>2, <2>1, <2>3, StarredSpares
  <2>0. Queued(a) => Queued(lib)
    BY <2>7 DEF Queued
  <2>9. DOMAIN rated' = {g} \cup DOMAIN rated
    BY <2>5 DEF Put, Over
  <2>10. \A f : f # g => f \in DOMAIN rated' \cup added' \/ f \notin DOMAIN rated \cup added
    BY <2>5, <2>9
  <2> QED BY <1>2, <2>1, <2>4, <2>5, <2>6, <2>7, <2>0, <2>9, <2>10 DEF Moves, Spares
<1>4. ASSUME NEW g \in Files, RemoveTrack(g) PROVE \E a : Moves(a)
  <2>1. g \in Live(lib) /\ g \in DOMAIN lib.items
    BY <1>1, <1>4, LiveYields DEF RemoveTrack
  <2>2. PICK a : a = Dropped(lib, g)
    OBVIOUS
  <2>3. Grown(lib, a)
    BY <1>1, <1>4, <2>2, DiscardedGrows DEF Dropped
  <2>4. /\ Ends(a, indexing, worker) /\ added' = added
        /\ discarded' = discarded \cup {g} /\ rated' = Without(rated, {g})
    BY <1>4, <2>2 DEF RemoveTrack, Ends, Dropped
  <2>5. Known(a, Ever, Lost) /\ \A f : f # g => Keeps(lib, a, f)
    BY <1>1, <2>2, DroppedKeeps
  <2>6. /\ \A f : f # g => Spares(lib, a, f)
        /\ Queues(lib, a, g) /\ Warns(lib, a, g) /\ g \in a.excluded /\ a.items = lib.items
        /\ Fits(a, Lost, discarded \cup {g}, added)
        /\ a.files = lib.files /\ a.directory = lib.directory
    BY <1>1, <1>2, <2>2, DroppedSpares
  <2>7. Queued(a) => Queued(lib)
    BY <2>6 DEF Queued
  <2>0. g \in Ever
    BY <1>1, <2>1 DEF Known
  <2>9. DOMAIN rated' = DOMAIN rated \ {g}
    BY <2>4 DEF Without
  <2>10. \A f : f # g => f \in DOMAIN rated' \cup added' \/ f \notin DOMAIN rated \cup added
    BY <2>4, <2>9
  <2> QED BY <1>2, <2>3, <2>4, <2>5, <2>6, <2>7, <2>0, <2>10 DEF Moves, Spares
<1>5. ASSUME NEW g \in Files, AddTrack(g) PROVE \E a : Moves(a)
  <2>1. PICK t : t = IF g \in DOMAIN lib.items THEN lib.items[g] ELSE Track(content[g], 0)
    OBVIOUS
  <2>2. t \in TrackType
    <3>1. \A x \in DOMAIN lib.items : lib.items[x] \in TrackType
      <4>1. lib.items \in Tracks
        BY <1>1, CatalogueFields
      <4> QED BY <4>1, EntriesYields DEF Tracks
    <3>2. Track(content[g], 0) \in TrackType
      BY <1>1, TrackTyped
    <3> QED BY <2>1, <3>1, <3>2
  <2>3. PICK a : a = Imported(lib, g, t)
    OBVIOUS
  <2>4. Grown(lib, a)
    BY <1>1, <2>2, <2>3, ImportedGrows DEF Imported
  <2>5. /\ Refresh(a, indexing, worker) /\ g \in present
        /\ added' = added \cup {g} /\ discarded' = discarded \ {g} /\ rated' = rated
    BY <1>5, <2>1, <2>3 DEF AddTrack, Imported
  <2>6. g \in Ever
    BY <1>1, <2>5
  <2>7. /\ Known(a, Ever, Lost) /\ Adds(lib, a, g)
        /\ \A f : f # g => Keeps(lib, a, f)
    BY <1>1, <2>3, <2>6, ImportedKeeps
  <2>0. /\ \A f : f # g => Spares(lib, a, f)
        /\ Queues(lib, a, g) /\ Warns(lib, a, g)
        /\ Fits(a, Lost, discarded \ {g}, added \cup {g})
    BY <1>1, <1>2, <2>3, ImportedSpares
  <2> QED BY <1>2, <2>4, <2>5, <2>7, <2>0 DEF Moves, Spares, Ends
<1>6. ASSUME ShowLibrary \/ RefreshCommand \/ StopMonitoring \/ StartMonitoring
      PROVE  \E a : Moves(a)
  <2>1. PICK a : /\ a = lib \/ a = [lib EXCEPT !.directory = TRUE]
                 /\ Refresh(a, indexing, worker)
                 /\ UNCHANGED history
    BY <1>6 DEF ShowLibrary, RefreshCommand, StopMonitoring, StartMonitoring
  <2>2. Grown(lib, a)
    BY <1>1, <2>1, GrownReflexive, RequestGrows
  <2>3. Known(a, Ever, Lost)
    BY <1>1, <2>1, QueuedKeeps
  <2>4. Fits(a, Lost, discarded, added) /\ \A f : Spares(lib, a, f)
    BY <1>1, <1>2, <2>1, RequestSpares
  <2>5. rated' = rated /\ discarded' = discarded /\ added' = added
    BY <2>1 DEF history
  <2> QED BY <1>2, <2>1, <2>2, <2>3, <2>4, <2>5 DEF Moves, Spares, Ends
<1> QED BY <1>3, <1>4, <1>5, <1>6 DEF UserCommand

\* No command takes news of a file away but with the monitor.
LEMMA CommandUpstream ==
    ASSUME UserCommand, watch # "closed" => monitoring
    PROVE  /\ watch' # "closed" => monitoring'
           /\ \A f, A : Upstream(f, A) => Upstream(f, A)'
<1>1. Command
  BY DEF UserCommand, RateTrack, RemoveTrack, AddTrack, ShowLibrary, RefreshCommand,
         StopMonitoring, StartMonitoring
<1>2. CASE UNCHANGED <<watchVars, recorded>>
  BY <1>1, <1>2 DEF Command, watchVars, Upstream, Accept
<1>3. CASE StopMonitor
  BY <1>3 DEF StopMonitor, Upstream
<1>4. CASE StartMonitor
  BY <1>4 DEF StartMonitor, Upstream
<1> QED BY <1>2, <1>3, <1>4 DEF UserCommand, RateTrack, RemoveTrack, AddTrack, ShowLibrary,
           RefreshCommand, StopMonitoring, StartMonitoring

LEMMA UserCommandMirrors == IInv /\ TInv /\ CInv /\ UserCommand => CInv'
<1> SUFFICES ASSUME IInv, TInv, CInv, UserCommand, Steady(env') PROVE CInv'
  BY DEF CInv
<1>1. phase = "open" /\ UNCHANGED <<env, present, content, messages, phase, saved>>
  <2>1. Command
    BY DEF UserCommand, RateTrack, RemoveTrack, AddTrack, ShowLibrary, RefreshCommand,
           StopMonitoring, StartMonitoring
  <2> QED BY <2>1 DEF Command, diskVars
<1>2. /\ Sound(lib, worker, messages, scan) /\ lib \in Catalogue
      /\ worker \in Jobs \cup {NoWorker} /\ messages \in Seq(Messages)
  BY <1>1, TInvYields DEF Steady
<1>3. PICK a : Moves(a)
  BY <1>1, CommandMoves
<1>4. Grown(lib, a) /\ a.loaded = lib.loaded
  BY <1>3 DEF Moves, Grown
<1>5. /\ watch' # "closed" => monitoring'
      /\ \A f, A : Upstream(f, A) => Upstream(f, A)'
  BY <1>1, CommandUpstream DEF CInv
<1>6. ASSUME NEW f \in Files
      PROVE  /\ f \in present \ discarded' =>
                   Appears(a, worker, messages, scan, saved, f, Upstream(f, {"added"})')
             /\ f \in present \ added' =>
                   Refreshes(a, worker, messages, scan, saved, f, content[f],
                             Upstream(f, {"modified"})')
             /\ f \in Lost =>
                   Vanishes(a, worker, messages, scan, saved, f,
                            f \in DOMAIN rated' \cup added', Upstream(f, {"removed"})')
  <2>1. Mirrored(f)
    BY <1>1 DEF CInv
  <2>2. Queues(lib, a, f) /\ Warns(lib, a, f)
    BY <1>3 DEF Moves
  <2>3. ASSUME f \in present \ discarded'
        PROVE  Appears(a, worker, messages, scan, saved, f, Upstream(f, {"added"})')
    <3>1. \/ /\ f \notin discarded /\ Keeps(lib, a, f)
             /\ f \in DOMAIN a.items => f \in DOMAIN lib.items
          \/ Adds(lib, a, f)
      BY <1>3, <2>3 DEF Moves
    <3>2. f \notin discarded =>
              Appears(lib, worker, messages, scan, saved, f, Upstream(f, {"added"})')
      BY <1>5, <2>1, <2>3 DEF Mirrored, Appears
    <3> QED BY <1>2, <1>4, <2>2, <3>1, <3>2, AppearsGrows
  <2>4. ASSUME f \in present \ added'
        PROVE  Refreshes(a, worker, messages, scan, saved, f, content[f],
                         Upstream(f, {"modified"})')
    <3>1. /\ f \notin added
          /\ f \in DOMAIN a.items =>
                f \in DOMAIN lib.items /\ a.items[f].tags = lib.items[f].tags
      BY <1>3, <2>4 DEF Moves
    <3>2. Refreshes(lib, worker, messages, scan, saved, f, content[f],
                    Upstream(f, {"modified"})')
      BY <1>5, <2>1, <2>4, <3>1 DEF Mirrored, Refreshes
    <3> QED BY <2>2, <3>1, <3>2, RefreshesGrows
  <2>5. ASSUME f \in Lost
        PROVE  Vanishes(a, worker, messages, scan, saved, f,
                        f \in DOMAIN rated' \cup added', Upstream(f, {"removed"})')
    <3>1. PICK x, y : x = (f \in DOMAIN rated \cup added) /\ y = (f \in DOMAIN rated' \cup added')
      OBVIOUS
    <3>2. f \in a.excluded \/ y \/ ((x => y) /\ Stays(lib, a, f))
      BY <1>3, <3>1 DEF Moves
    <3>3. Vanishes(lib, worker, messages, scan, saved, f, x, Upstream(f, {"removed"})')
      BY <1>5, <2>1, <2>5, <3>1 DEF Mirrored, Vanishes
    <3>4. Vanishes(a, worker, messages, scan, saved, f, y, Upstream(f, {"removed"})')
      BY <1>2, <1>4, <2>2, <3>2, <3>3, VanishesGrows
    <3> QED BY <3>1, <3>4
  <2> QED BY <2>3, <2>4, <2>5
<1>7. \A f \in Files :
         /\ f \in present \ discarded' =>
               Appears(a, worker, messages', scan, saved, f, Upstream(f, {"added"})')
         /\ f \in present \ added' =>
               Refreshes(a, worker, messages', scan, saved, f, content[f],
                         Upstream(f, {"modified"})')
         /\ f \in Lost =>
               Vanishes(a, worker, messages', scan, saved, f,
                        f \in DOMAIN rated' \cup added', Upstream(f, {"removed"})')
  BY <1>1, <1>6
<1>8. /\ messages' \in Seq(Messages) /\ Sound(lib, worker, messages', scan)
      /\ \A q \in Results : Pending(q, worker, messages', scan) <=>
                                Pending(q, worker, messages, scan)
  BY <1>1, <1>2
<1> QED BY <1>1, <1>3, <1>5, <1>7, <1>8, GrowingHandlerMirrors DEF Moves

-----------------------------------------------------------------------------
(* The library is current: the directory and its monitor.                  *)

\* Nothing has tags of a file that has not been there.
LEMMA UnheardIsFresh ==
    ASSUME NEW l, NEW idx, NEW w \in Jobs \cup {NoWorker}, NEW ms, NEW s, NEW S, NEW G,
           Grounded(l, idx, w, ms, s, S, G), NEW sv, DOMAIN sv \subseteq S,
           NEW f, f \notin S, NEW v
    PROVE  Fresh(l, w, ms, s, sv, f, v)
<1>1. w.pc \in Running => f \notin DOMAIN Coming(w, sv)
  <2> SUFFICES ASSUME w.pc \in Running PROVE f \notin DOMAIN Coming(w, sv)
    OBVIOUS
  <2>1. w # NoWorker
    BY DEF Running, NoWorker
  <2>2. f \notin DOMAIN w.items \cup DOMAIN w.tracks \cup DOMAIN w.persisted
    BY <2>1 DEF Grounded, KnownScan
  <2> QED BY <2>2 DEF Coming, Over
<1>2. \A r \in Results : Pending(r, w, ms, s) => f \notin DOMAIN r.items
  BY DEF Grounded, KnownResults
<1>3. f \notin DOMAIN l.items
  BY DEF Grounded, Known
<1> QED BY <1>1, <1>2, <1>3 DEF Fresh, Tagged

LEMMA OutsideMirrors ==
    ASSUME IInv, TInv, CInv, Steady(env), phase = "open", UNCHANGED libraryVars,
           Ever \subseteq Ever', Lost \subseteq Lost', watch' # "closed" => monitoring',
           NEW cs \in Seq(Changes \cup Rescans), messages' = messages \o cs,
           \A f \in Files :
              /\ f \in present' =>
                    \/ f \in present /\ (Upstream(f, {"added"}) => Upstream(f, {"added"})')
                    \/ f \notin Ever /\ Upstream(f, {"added"})'
              /\ f \in present' =>
                    \/ f \notin Ever \/ Upstream(f, {"modified"})'
                    \/ /\ f \in present /\ content'[f] = content[f]
                       /\ Upstream(f, {"modified"}) => Upstream(f, {"modified"})'
              /\ f \in Lost' =>
                    \/ Upstream(f, {"removed"})'
                    \/ f \in Lost /\ (Upstream(f, {"removed"}) => Upstream(f, {"removed"})')
    PROVE  CInv'
<1>1. UNCHANGED <<lib, indexing, refreshPending, worker, scan, phase, saved, rated,
                  discarded, added>>
  BY DEF libraryVars, history
<1>2. /\ messages \in Seq(Messages) /\ worker \in Jobs \cup {NoWorker}
      /\ scan \in Nat /\ DOMAIN saved \subseteq Ever
      /\ Grounded(lib, indexing, worker, messages, scan, Ever, Lost)
  BY TInvYields DEF Steady
<1>3. PICK ms, G : ms = messages' /\ G = Lost'
  OBVIOUS
<1>4. \A q \in Results : Pending(q, worker, ms, scan) => Pending(q, worker, messages, scan)
  BY <1>2, <1>3, NotificationsAreLess
<1>5. \A q \in Results : Pending(q, worker, messages, scan) => Pending(q, worker, ms, scan)
  <2> SUFFICES ASSUME NEW q \in Results, NEW i \in DOMAIN messages,
                      q = messages[i], Current(q, scan)
               PROVE  \E k \in DOMAIN ms : q = ms[k] /\ Current(q, scan)
    BY DEF Pending
  <2>1. i \in DOMAIN ms /\ ms[i] = messages[i]
    BY <1>2, <1>3
  <2> QED BY <2>1
<1>6. Idle(worker, ms, scan) => Idle(worker, messages, scan)
  BY <1>5 DEF Idle
<1>7. /\ Ordered(lib, indexing, worker, ms, scan, Lost, discarded, added)
      /\ \A f \in Files :
            /\ f \in present \ discarded =>
                  Appears(lib, worker, ms, scan, saved, f, Upstream(f, {"added"}))
            /\ f \in present \ added =>
                  Refreshes(lib, worker, ms, scan, saved, f, content[f],
                            Upstream(f, {"modified"}))
            /\ f \in Lost =>
                  Vanishes(lib, worker, ms, scan, saved, f, f \in DOMAIN rated \cup added,
                           Upstream(f, {"removed"}))
  BY <1>2, <1>4, <1>6, ClaimsGo
<1>8. Grounded(lib, indexing, worker, ms, scan, Ever, Lost)
  BY <1>2, <1>4, LessOnItsWay
<1>9. Ordered(lib, indexing, worker, ms, scan, G, discarded, added)
  <2>1. Fits(lib, Lost, discarded, added) /\ Lost \subseteq G
    BY <1>3, <1>7 DEF Ordered
  <2>2. Fits(lib, G, discarded, added)
    BY <2>1 DEF Fits
  <2> QED BY <1>7, <2>2 DEF Ordered
<1>10. ASSUME NEW f \in Files PROVE Mirrored(f)'
  <2>1. ASSUME f \in present' \ discarded
        PROVE  Appears(lib, worker, ms, scan, saved, f, Upstream(f, {"added"})')
    <3>1. CASE f \in present /\ (Upstream(f, {"added"}) => Upstream(f, {"added"})')
      BY <1>7, <2>1, <3>1 DEF Appears
    <3>2. CASE f \notin Ever /\ Upstream(f, {"added"})'
      <4>1. f \notin DOMAIN lib.items
        BY <1>2, <3>2 DEF Grounded, Known
      <4> QED BY <3>2, <4>1 DEF Appears
    <3> QED BY <2>1, <3>1, <3>2
  <2>2. ASSUME f \in present' \ added
        PROVE  Refreshes(lib, worker, ms, scan, saved, f, content'[f],
                         Upstream(f, {"modified"})')
    <3>1. CASE Upstream(f, {"modified"})'
      BY <3>1 DEF Refreshes
    <3>2. CASE f \notin Ever
      <4>1. Fresh(lib, worker, ms, scan, saved, f, content'[f])
        BY <1>2, <1>8, <3>2, UnheardIsFresh
      <4> QED BY <4>1 DEF Refreshes
    <3>3. CASE /\ f \in present /\ content'[f] = content[f]
               /\ Upstream(f, {"modified"}) => Upstream(f, {"modified"})'
      BY <1>7, <2>2, <3>3 DEF Refreshes
    <3> QED BY <2>2, <3>1, <3>2, <3>3
  <2>3. ASSUME f \in Lost'
        PROVE  Vanishes(lib, worker, ms, scan, saved, f, f \in DOMAIN rated \cup added,
                        Upstream(f, {"removed"})')
    <3>1. CASE Upstream(f, {"removed"})'
      BY <3>1 DEF Vanishes
    <3>2. CASE f \in Lost /\ (Upstream(f, {"removed"}) => Upstream(f, {"removed"})')
      BY <1>7, <3>2 DEF Vanishes
    <3> QED BY <2>3, <3>1, <3>2
  <2> QED BY <1>1, <1>3, <2>1, <2>2, <2>3 DEF Mirrored
<1>11. /\ Queued(lib') => refreshPending'
       /\ discarded' \subseteq Ever'
       /\ Ordered(lib', indexing', worker', messages', scan', Lost', discarded', added')
  <2>1. (Queued(lib) => refreshPending) /\ discarded \subseteq Ever
    BY DEF CInv
  <2> QED BY <1>1, <1>3, <1>9, <2>1
<1> QED BY <1>10, <1>11 DEF CInv

\* A change is recorded, unless a scan of the directory is to come anyway.
LEMMA WrittenIsUpstream ==
    ASSUME NEW g \in Files, NEW c \in Actions, Written(g, c),
           recorded \in Seq(Actions \X Files)
    PROVE  /\ Upstream(g, {c})'
           /\ \A f, A : Upstream(f, A) => Upstream(f, A)'
<1>1. UNCHANGED <<watch, monitoring, generation, messages>>
  BY DEF Written, watchVars
<1>2. CASE watch = "closed"
  BY <1>1, <1>2 DEF Upstream
<1>3. CASE watch # "closed"
  <2>1. PICK r, rs : r = <<c, g>> /\ rs = recorded'
    OBVIOUS
  <2>2. rs = Append(recorded, r) /\ r \in Actions \X Files
    BY <1>3, <2>1 DEF Written
  <2>3. /\ Len(rs) \in DOMAIN rs /\ rs[Len(rs)] = r
        /\ \A i \in DOMAIN recorded : i \in DOMAIN rs /\ rs[i] = recorded[i]
    BY <2>2
  <2>4. r[1] = c /\ r[2] = g
    BY <2>1
  <2>5. Upstream(g, {c})'
    BY <2>1, <2>3, <2>4 DEF Upstream
  <2>6. ASSUME NEW f, NEW A, Upstream(f, A) PROVE Upstream(f, A)'
    BY <1>1, <2>1, <2>3, <2>6 DEF Upstream, Accept
  <2> QED BY <2>5, <2>6
<1> QED BY <1>2, <1>3

LEMMA DirectoryWriteMirrors == IInv /\ TInv /\ CInv /\ DirectoryWrite => CInv'
<1> SUFFICES ASSUME IInv, TInv, CInv, DirectoryWrite, Steady(env'), phase' = "open"
             PROVE  CInv'
  BY DEF CInv
<1>1. UNCHANGED libraryVars /\ phase = "open"
  BY DEF DirectoryWrite, libraryVars
<1>2. PICK f \in Files : CreateFile(f) \/ ModifyFile(f) \/ RemoveFile(f)
  BY DEF DirectoryWrite
<1>3. /\ CreateFile(f) => Written(f, "added")
      /\ ModifyFile(f) => Written(f, "modified")
      /\ RemoveFile(f) => Written(f, "removed")
      /\ UNCHANGED <<env, messages, watch, monitoring>>
  BY <1>2 DEF CreateFile, ModifyFile, RemoveFile, Written, watchVars
<1>4. /\ content \in [Files -> Nat] /\ present \subseteq Files
      /\ messages \in Seq(Messages) /\ recorded \in Seq(Actions \X Files)
      /\ Steady(env) /\ present \subseteq Ever
  BY <1>1, <1>3, TInvYields DEF Steady, Typed, MonitorTyped
<1>5. watch' # "closed" => monitoring'
  BY <1>1, <1>3, <1>4 DEF CInv
<1>6. <<>> \in Seq(Changes \cup Rescans) /\ messages' = messages \o <<>>
  BY <1>3, <1>4, NothingPosted
<1>7. CASE CreateFile(f)
  <2>1. /\ \A g, A : Upstream(g, A) => Upstream(g, A)'
        /\ Upstream(f, {"added"})'
    BY <1>3, <1>4, <1>7, WrittenIsUpstream DEF Actions
  <2>2. content[f] = 0 /\ present' = present \cup {f}
    BY <1>4, <1>7 DEF CreateFile, Steady, Plain
  <2>3. content' \in [Files -> Nat] /\ content'[f] = 1
        /\ \A g \in Files : g # f => content'[g] = content[g]
    BY <1>4, <1>7, <2>2 DEF CreateFile
  <2>4. Ever' = Ever \cup {f} /\ f \notin Ever
    BY <2>2, <2>3 DEF Ever
  <2>5. Lost' = Lost
    BY <2>2, <2>4 DEF Lost
  <2> QED BY <1>1, <1>4, <1>5, <1>6, <2>1, <2>2, <2>3, <2>4, <2>5, OutsideMirrors
<1>8. CASE ModifyFile(f)
  <2>1. /\ \A g, A : Upstream(g, A) => Upstream(g, A)'
        /\ Upstream(f, {"modified"})'
    BY <1>3, <1>4, <1>8, WrittenIsUpstream DEF Actions
  <2>2. present' = present /\ f \in present /\ content[f] # 0
    BY <1>4, <1>8 DEF ModifyFile, Ever
  <2>3. /\ content'[f] = content[f] + 1 /\ content[f] \in Nat
        /\ \A g \in Files : g # f => content'[g] = content[g]
    BY <1>4, <1>8 DEF ModifyFile
  <2>4. Ever' = Ever
    BY <2>2, <2>3 DEF Ever
  <2>5. Lost' = Lost
    BY <2>2, <2>4 DEF Lost
  <2> QED BY <1>1, <1>4, <1>5, <1>6, <2>1, <2>2, <2>3, <2>4, <2>5, OutsideMirrors
<1>9. CASE RemoveFile(f)
  <2>1. /\ \A g, A : Upstream(g, A) => Upstream(g, A)'
        /\ Upstream(f, {"removed"})'
    BY <1>3, <1>4, <1>9, WrittenIsUpstream DEF Actions
  <2>2. present' = present \ {f} /\ f \in present /\ content' = content
    BY <1>9 DEF RemoveFile
  <2>3. Ever' = Ever
    BY <2>2 DEF Ever
  <2>4. Lost' = Lost \cup {f}
    BY <1>4, <2>2, <2>3 DEF Lost
  <2> QED BY <1>1, <1>4, <1>5, <1>6, <2>1, <2>2, <2>3, <2>4, OutsideMirrors
<1> QED BY <1>2, <1>7, <1>8, <1>9

\* What is recorded is posted, or the scan that makes up for it is.
LEMMA WatchUpstream ==
    ASSUME Watch, "drop" \notin env,
           watch # "closed" => monitoring, messages \in Seq(Messages),
           recorded \in Seq(Actions \X Files), generation \in Nat
    PROVE  /\ watch' # "closed" => monitoring'
           /\ \A f, A : Upstream(f, A) => Upstream(f, A)'
<1>1. UNCHANGED <<monitoring, generation>>
  BY DEF Watch, WatchStep, OpenWatch, AnnounceScan, ReadBatch, DropRecord, ReadOverflow,
         Rearm, RearmFails
<1>2. CASE OpenWatch \/ RearmFails
  BY <1>1, <1>2 DEF OpenWatch, RearmFails, Upstream
<1>3. CASE Rearm
  BY <1>1, <1>3 DEF Rearm, Upstream, Accept
<1>4. CASE AnnounceScan \/ ReadOverflow
  <2>1. monitoring /\ messages' = Append(messages, Rescan)
    BY <1>4 DEF AnnounceScan, ReadOverflow, Notify
  <2>2. PICK ms, m : ms = messages' /\ m = Rescan
    OBVIOUS
  <2>3. m \in Messages /\ m.kind = "change" /\ m.action = "rescan" /\ m.generation = generation
    BY <2>2, RescanIsMessage DEF Messages, Rescan
  <2>4. Len(ms) \in DOMAIN ms /\ ms[Len(ms)] = m
    BY <2>1, <2>2, <2>3
  <2> QED BY <1>1, <2>1, <2>2, <2>3, <2>4 DEF Upstream, About, Accept
<1>5. CASE ReadBatch
  <2>1. PICK bs : bs = [i \in DOMAIN recorded |-> Change(recorded[i][1], recorded[i][2])]
    OBVIOUS
  <2>2. \A i \in DOMAIN recorded : Change(recorded[i][1], recorded[i][2]) \in Messages
    <3> SUFFICES ASSUME NEW i \in DOMAIN recorded
                 PROVE  Change(recorded[i][1], recorded[i][2]) \in Messages
      OBVIOUS
    <3>1. PICK c, f : c = recorded[i][1] /\ f = recorded[i][2]
      OBVIOUS
    <3>2. recorded[i] \in Actions \X Files
      OBVIOUS
    <3>3. c \in Actions /\ f \in Files
      BY <3>1, <3>2
    <3> QED BY <3>1, <3>3, ChangeIsMessage DEF Messages
  <2>3. bs \in Seq(Messages) /\ DOMAIN bs = DOMAIN recorded
    <3>1. DOMAIN recorded = 1..Len(recorded) /\ Len(recorded) \in Nat
      OBVIOUS
    <3>2. bs \in [1..Len(recorded) -> Messages]
      BY <2>1, <2>2, <3>1
    <3> QED BY <2>1, <3>2, SeqDef
  <2>4. PICK ms : ms = messages'
    OBVIOUS
  <2>5. ms = messages \o bs
    BY <1>5, <2>1, <2>4 DEF ReadBatch
  <2>6. \A i \in DOMAIN messages : i \in DOMAIN ms /\ ms[i] = messages[i]
    BY <2>3, <2>5
  <2>7. \A i \in DOMAIN bs : \E k \in DOMAIN ms : ms[k] = bs[i]
    <3> SUFFICES ASSUME NEW i \in DOMAIN bs PROVE \E k \in DOMAIN ms : ms[k] = bs[i]
      OBVIOUS
    <3>1. Len(messages) + i \in DOMAIN ms /\ ms[Len(messages) + i] = bs[i]
      BY <2>3, <2>5
    <3> QED BY <3>1
  <2>0. monitoring /\ watch = "waiting"
    BY <1>5 DEF ReadBatch
  <2>9. ASSUME NEW f, NEW A, Upstream(f, A) PROVE Upstream(f, A)'
    <3>1. CASE \E i \in DOMAIN messages : About(messages[i], f, A) /\ Accept(messages[i])
      BY <1>1, <2>4, <2>6, <3>1 DEF Upstream, Accept
    <3>2. CASE \E i \in DOMAIN recorded : recorded[i][1] \in A /\ recorded[i][2] = f
      <4>1. PICK i \in DOMAIN recorded : recorded[i][1] \in A /\ recorded[i][2] = f
        BY <3>2
      <4>2. /\ bs[i].kind = "change" /\ bs[i].action \in A /\ bs[i].file = f
            /\ bs[i].generation = generation
        BY <2>1, <4>1 DEF Change
      <4>3. PICK k \in DOMAIN ms : ms[k] = bs[i]
        BY <2>3, <2>7, <4>1
      <4> QED BY <1>1, <2>4, <2>0, <4>2, <4>3 DEF Upstream, About, Accept
    <3> QED BY <2>0, <2>9, <3>1, <3>2 DEF Upstream
  <2> QED BY <1>1, <2>0, <2>9
<1> QED BY <1>2, <1>3, <1>4, <1>5 DEF Watch, WatchStep, DropRecord

LEMMA WatchMirrors == IInv /\ TInv /\ CInv /\ Watch => CInv'
<1> SUFFICES ASSUME IInv, TInv, CInv, Watch, Steady(env'), phase' = "open" PROVE CInv'
  BY DEF CInv
<1>1. UNCHANGED diskVars /\ UNCHANGED libraryVars /\ SameHazards(env, env')
  BY DEF Watch, WatchStep, OpenWatch, AnnounceScan, ReadBatch, DropRecord, ReadOverflow,
         Rearm, RearmFails, SameHazards
<1>2. /\ Steady(env) /\ present' = present /\ content' = content
      /\ Ever' = Ever /\ Lost' = Lost /\ phase = "open"
  BY <1>1 DEF SameHazards, Steady, Plain, diskVars, Ever, Lost, libraryVars
<1>3. /\ messages \in Seq(Messages) /\ generation \in Nat
      /\ recorded \in Seq(Actions \X Files) /\ Typed
  BY DEF IInv, Typed, MonitorTyped
<1>4. PICK cs \in Seq(Changes \cup Rescans) : messages' = messages \o cs
  BY <1>3, WatchPosts
<1>5. /\ watch' # "closed" => monitoring'
      /\ \A f, A : Upstream(f, A) => Upstream(f, A)'
  BY <1>2, <1>3, WatchUpstream DEF CInv, Steady
<1> QED BY <1>1, <1>2, <1>4, <1>5, OutsideMirrors

-----------------------------------------------------------------------------
(* The library is current: the scan worker.                                *)

\* The tags of f that the scan is going to find are the last ones.
Settles(w, f) ==
    (ToRead(w, f) /\ f \notin w.tried) \/ Tagged(Coming(w, saved), f, content[f])

\* What a step that leaves the worker w does not undo.
Advances(w) ==
    /\ w.revision = worker.revision /\ w.generation = worker.generation
    /\ w.tracks = worker.tracks
    /\ DOMAIN worker.items \subseteq DOMAIN w.items /\ w.tried \subseteq DOMAIN w.items
    /\ w.pc \in {"files", "list", "read"} => w.missing = {}
    /\ w.observed \cup w.todo \subseteq worker.observed \cup worker.todo \cup present
    /\ \A f \in Files :
          /\ f \in DOMAIN Coming(worker, saved) => f \in DOMAIN Coming(w, saved)
          /\ f \in present /\ ToRead(worker, f) =>
                ToRead(w, f) \/ f \in DOMAIN Coming(w, saved)
          /\ f \in present /\ Settles(worker, f) => Settles(w, f)
          /\ f \notin present /\ f \in DOMAIN Coming(w, saved) \cup w.todo =>
                /\ f \in DOMAIN Coming(worker, saved) \cup worker.todo
                /\ Misses(worker, f) => Misses(w, f)

\* The result that goes with it.
Hands(w, r) ==
    /\ r.revision = worker.revision /\ r.generation = worker.generation
    /\ ~r.failed /\ r.items = w.items /\ r.observed = worker.observed /\ r.missing = worker.missing
    /\ w.missing = worker.missing
    /\ IF r.complete THEN worker.pc = "deliver" /\ w.pc = "done"
       ELSE worker.pc = "files" /\ w.pc = "list"
    /\ \/ messages' = Append(messages, r) /\ w.unposted = worker.unposted
       \/ messages' = messages /\ w.unposted = r /\ r.complete

\* The tracks read so far come first.
LEMMA ComingFirst ==
    ASSUME NEW w, NEW sv, NEW f \in DOMAIN w.items
    PROVE  f \in DOMAIN Coming(w, sv) /\ Coming(w, sv)[f] = w.items[f]
BY DEF Coming, Over

LEMMA ComingSame ==
    ASSUME NEW w, NEW u, u.pc = w.pc, u.tracks = w.tracks, u.load = w.load,
           u.persisted = w.persisted, NEW f, f \in DOMAIN u.items <=> f \in DOMAIN w.items,
           f \in DOMAIN w.items => u.items[f] = w.items[f], NEW sv
    PROVE  /\ f \in DOMAIN Coming(u, sv) <=> f \in DOMAIN Coming(w, sv)
           /\ f \in DOMAIN Coming(w, sv) => Coming(u, sv)[f] = Coming(w, sv)[f]
<1>1. PICK seeds : seeds = IF w.load THEN sv ELSE w.persisted
  OBVIOUS
<1>2. /\ Coming(u, sv) = IF u.pc = "files" THEN Over(Over(u.items, u.tracks), seeds) ELSE u.items
      /\ Coming(w, sv) = IF w.pc = "files" THEN Over(Over(w.items, w.tracks), seeds) ELSE w.items
  BY <1>1 DEF Coming
<1>3. CASE w.pc = "files"
  <2>1. PICK p, q : p = Over(u.items, u.tracks) /\ q = Over(w.items, w.tracks)
    OBVIOUS
  <2>2. /\ f \in DOMAIN p <=> f \in DOMAIN q
        /\ f \in DOMAIN q => p[f] = q[f]
    BY <2>1 DEF Over
  <2> QED BY <1>2, <1>3, <2>1, <2>2 DEF Over
<1>4. CASE w.pc # "files"
  BY <1>2, <1>4
<1> QED BY <1>3, <1>4

\* What looking at f makes of the scan w.
Looked(w, f, a) ==
    /\ a.directory = w.directory /\ a.tracks = w.tracks /\ a.persisted = w.persisted
    /\ DOMAIN a.items = {f} \cup DOMAIN w.items
    /\ \A g \in DOMAIN w.items : g # f => a.items[g] = w.items[g]
    /\ a.tried = w.tried \cup {f}
    /\ f \in present \ w.tried => a.items[f].tags = content[f]
    /\ f \in w.tried /\ f \in DOMAIN w.items => a.items[f] = w.items[f]

LEMMA ReadLooks ==
    ASSUME NEW w \in Jobs, NEW f \in Files, content \in [Files -> Nat],
           NEW ok, ok = TRUE, NEW a, a = Read(w, f, ok)
    PROVE  Looked(w, f, a)
<1>1. \A r, b : b = Read(w, f, r) =>
          b.directory = w.directory /\ b.tried = w.tried \cup {f}
  <2> SUFFICES ASSUME NEW r, NEW b, b = Read(w, f, r)
               PROVE  b.directory = w.directory /\ b.tried = w.tried \cup {f}
    OBVIOUS
  <2>1. PICK items, tried, read :
            b = [w EXCEPT !.items = items, !.tried = tried, !.read = read]
    BY DEF Read
  <2>2. b.directory = w.directory
    BY <2>1 DEF Jobs
  <2>3. b.tried = w.tried \cup {f}
    BY ReadYields
  <2> QED BY <2>2, <2>3
<1>2. \A r, b : b = Read(w, f, r) =>
          /\ DOMAIN b.items = {f} \cup DOMAIN w.items
          /\ b.tracks = w.tracks /\ b.persisted = w.persisted
          /\ \A g \in DOMAIN w.items : g # f => b.items[g] = w.items[g]
          /\ r /\ f \in present \ w.tried => b.items[f].tags = content[f]
          /\ f \in w.tried /\ f \in DOMAIN w.items => b.items[f] = w.items[f]
  BY ReadChanges
<1> QED BY <1>1, <1>2 DEF Looked

LEMMA ReadTrackReads ==
    ASSUME NEW w \in Jobs, NEW f \in Files, content \in [Files -> Nat],
           NEW ok, ok = TRUE, NEW a, a = ReadTrack(w, f, ok)
    PROVE  Looked(w, f, a)
<1>1. PICK b : b = Read(w, f, ok)
  OBVIOUS
<1>2. b \in Jobs
  BY <1>1, ReadYields
<1>3. a = [b EXCEPT !.observed = b.observed \cup {f}]
  BY <1>1 DEF ReadTrack
<1>4. /\ a.items = b.items /\ a.tried = b.tried /\ a.tracks = b.tracks
      /\ a.persisted = b.persisted /\ a.directory = b.directory
  BY <1>2, <1>3 DEF Jobs
<1>5. Looked(w, f, b)
  BY <1>1, ReadLooks
<1> QED BY <1>4, <1>5 DEF Looked

\* Looking at one file f.
LEMMA ReadAdvances ==
    ASSUME worker \in Jobs, worker.pc \in {"files", "list", "read"}, worker.missing = {},
           worker.tried \subseteq DOMAIN worker.items,
           NEW w \in Jobs, NEW f \in Files, w.pc = worker.pc,
           w.revision = worker.revision, w.generation = worker.generation,
           w.tracks = worker.tracks, w.persisted = worker.persisted, w.load = worker.load,
           w.directory = worker.directory, w.missing = worker.missing,
           w.files \subseteq worker.files, worker.files \ {f} \subseteq w.files,
           w.todo \subseteq worker.todo, worker.todo \ {f} \subseteq w.todo,
           DOMAIN worker.items \subseteq DOMAIN w.items,
           DOMAIN w.items \subseteq DOMAIN worker.items \cup {f},
           \A g \in DOMAIN worker.items : g # f => w.items[g] = worker.items[g],
           w.tried \subseteq worker.tried \cup {f}, worker.tried \subseteq w.tried,
           w.tried \subseteq DOMAIN w.items,
           f \in present =>
              /\ f \in DOMAIN w.items
              /\ f \notin worker.tried => w.items[f].tags = content[f]
              /\ f \in worker.tried => w.items[f] = worker.items[f],
           f \in present \cup worker.todo \/ DOMAIN w.items = DOMAIN worker.items,
           w.observed = worker.observed \/
              (w.observed = worker.observed \cup {f} /\ f \in present \cup worker.todo)
    PROVE  Advances(w)
<1>1. ASSUME NEW g \in Files, g # f
      PROVE  /\ g \in DOMAIN Coming(w, saved) <=> g \in DOMAIN Coming(worker, saved)
             /\ g \in DOMAIN Coming(w, saved) => Coming(w, saved)[g] = Coming(worker, saved)[g]
             /\ ToRead(w, g) <=> ToRead(worker, g)
             /\ g \in w.tried <=> g \in worker.tried
             /\ g \in w.todo <=> g \in worker.todo
  <2>1. g \in DOMAIN w.items <=> g \in DOMAIN worker.items
    BY <1>1
  <2>2. /\ g \in DOMAIN Coming(w, saved) <=> g \in DOMAIN Coming(worker, saved)
        /\ g \in DOMAIN Coming(worker, saved) => Coming(w, saved)[g] = Coming(worker, saved)[g]
    BY <1>1, <2>1, ComingSame
  <2>3. ToRead(w, g) <=> ToRead(worker, g)
    BY <1>1 DEF ToRead
  <2> QED BY <1>1, <2>2, <2>3
<1>2. Misses(worker, f) => Misses(w, f)
  BY DEF Misses
<1>3. \A g \in Files : Misses(worker, g) => Misses(w, g)
  BY DEF Misses
<1>4. f \in DOMAIN Coming(worker, saved) => f \in DOMAIN Coming(w, saved)
  <2>1. CASE f \in DOMAIN w.items
    BY <2>1, ComingFirst
  <2>2. CASE f \notin DOMAIN w.items
    <3>1. f \in DOMAIN w.items <=> f \in DOMAIN worker.items
      BY <2>2
    <3> QED BY <2>2, <3>1, ComingSame
  <2> QED BY <2>1, <2>2
<1>5. ASSUME f \in present
      PROVE  f \in DOMAIN Coming(w, saved) /\ (Settles(worker, f) => Settles(w, f))
  <2>1. f \in DOMAIN w.items
    BY <1>5
  <2>2. f \in DOMAIN Coming(w, saved) /\ Coming(w, saved)[f] = w.items[f]
    BY <2>1, ComingFirst
  <2>3. CASE f \notin worker.tried
    BY <1>5, <2>2, <2>3 DEF Settles, Tagged
  <2>4. CASE f \in worker.tried
    <3>1. f \in DOMAIN Coming(worker, saved) /\ Coming(worker, saved)[f] = worker.items[f]
      BY <2>4, ComingFirst
    <3>2. w.items[f] = worker.items[f]
      BY <1>5, <2>4
    <3> QED BY <2>2, <2>4, <3>1, <3>2 DEF Settles, Tagged
  <2> QED BY <2>2, <2>3, <2>4
<1>6. ASSUME f \notin present, f \in DOMAIN Coming(w, saved) \cup w.todo
      PROVE  f \in DOMAIN Coming(worker, saved) \cup worker.todo
  <2>1. CASE f \in worker.todo
    BY <2>1
  <2>2. CASE f \notin worker.todo
    <3>1. f \in DOMAIN w.items <=> f \in DOMAIN worker.items
      BY <1>6, <2>2
    <3>2. CASE f \in DOMAIN worker.items
      BY <3>2, ComingFirst
    <3>3. CASE f \notin DOMAIN worker.items
      BY <1>6, <2>2, <3>1, <3>3, ComingSame
    <3> QED BY <3>2, <3>3
  <2> QED BY <2>1, <2>2
<1>7. ASSUME NEW g \in Files
      PROVE  /\ g \in DOMAIN Coming(worker, saved) => g \in DOMAIN Coming(w, saved)
             /\ g \in present /\ ToRead(worker, g) =>
                   ToRead(w, g) \/ g \in DOMAIN Coming(w, saved)
             /\ g \in present /\ Settles(worker, g) => Settles(w, g)
             /\ g \notin present /\ g \in DOMAIN Coming(w, saved) \cup w.todo =>
                   /\ g \in DOMAIN Coming(worker, saved) \cup worker.todo
                   /\ Misses(worker, g) => Misses(w, g)
  <2>1. CASE g = f
    BY <1>2, <1>4, <1>5, <1>6, <2>1
  <2>2. CASE g # f
    <3>1. Settles(worker, g) => Settles(w, g)
      BY <1>1, <2>2 DEF Settles, Tagged
    <3> QED BY <1>1, <1>3, <2>2, <3>1
  <2> QED BY <2>1, <2>2
<1>8. w.observed \cup w.todo \subseteq worker.observed \cup worker.todo \cup present
  OBVIOUS
<1> QED BY <1>7, <1>8 DEF Advances

\* The result is posted, or stays with the control block.
LEMMA ResultHandedOver ==
    ASSUME Steady(env), NEW v \in Jobs, Advances(v), v.unposted = worker.unposted,
           v.missing = worker.missing,
           NEW r \in Results, r.revision = worker.revision,
           r.generation = worker.generation, ~r.failed, r.items = v.items,
           r.observed = worker.observed, r.missing = worker.missing,
           IF r.complete THEN worker.pc = "deliver" /\ v.pc = "done"
           ELSE worker.pc = "files" /\ v.pc = "list",
           Deliver(v, r)
    PROVE  \E w \in Jobs : worker' = w /\ Advances(w) /\ Hands(w, r)
<1>1. ASSUME NEW w \in Jobs, w.pc = v.pc, w.revision = v.revision,
             w.generation = v.generation, w.items = v.items, w.tracks = v.tracks,
             w.persisted = v.persisted, w.load = v.load, w.todo = v.todo,
             w.files = v.files, w.directory = v.directory, w.tried = v.tried,
             w.observed = v.observed, w.missing = v.missing
      PROVE  Advances(w)
  <2>1. Coming(w, saved) = Coming(v, saved)
    BY <1>1 DEF Coming
  <2>2. \A f : (ToRead(w, f) <=> ToRead(v, f)) /\ (Misses(w, f) <=> Misses(v, f))
    BY <1>1 DEF ToRead, Misses
  <2>3. \A f : Settles(w, f) <=> Settles(v, f)
    BY <1>1, <2>1, <2>2 DEF Settles
  <2> QED BY <1>1, <2>1, <2>2, <2>3 DEF Advances
<1>2. CASE WorkerStep([v EXCEPT !.posted = TRUE], Append(messages, r))
  <2>1. PICK w : w = [v EXCEPT !.posted = TRUE]
    OBVIOUS
  <2>2. /\ w \in Jobs /\ w.pc = v.pc /\ w.revision = v.revision
        /\ w.generation = v.generation /\ w.items = v.items /\ w.tracks = v.tracks
        /\ w.persisted = v.persisted /\ w.load = v.load /\ w.todo = v.todo
        /\ w.files = v.files /\ w.directory = v.directory /\ w.tried = v.tried
        /\ w.observed = v.observed /\ w.missing = v.missing /\ w.unposted = v.unposted
    BY <2>1 DEF Jobs
  <2>3. worker' = w /\ messages' = Append(messages, r)
    BY <1>2, <2>1 DEF WorkerStep
  <2>4. Hands(w, r)
    BY <2>2, <2>3 DEF Hands
  <2> QED BY <1>1, <2>2, <2>3, <2>4
<1>3. CASE /\ (IF r.complete THEN "handoff" ELSE "partial") \in env
           /\ WorkerStep([v EXCEPT !.posted = FALSE, !.unposted = r], messages)
  <2>1. PICK w : w = [v EXCEPT !.posted = FALSE, !.unposted = r]
    OBVIOUS
  <2>2. /\ w \in Jobs /\ w.pc = v.pc /\ w.revision = v.revision
        /\ w.generation = v.generation /\ w.items = v.items /\ w.tracks = v.tracks
        /\ w.persisted = v.persisted /\ w.load = v.load /\ w.todo = v.todo
        /\ w.files = v.files /\ w.directory = v.directory /\ w.tried = v.tried
        /\ w.observed = v.observed /\ w.missing = v.missing /\ w.unposted = r
    BY <2>1 DEF Jobs
  <2>3. worker' = w /\ messages' = messages
    BY <1>3, <2>1 DEF WorkerStep
  <2>4. r.complete
    BY <1>3 DEF Steady, Plain
  <2>5. Hands(w, r)
    BY <2>2, <2>3, <2>4 DEF Hands
  <2> QED BY <1>1, <2>2, <2>3, <2>5
<1> QED BY <1>2, <1>3 DEF Deliver

LEMMA BuildAdvances ==
    ASSUME Typed, Steady(env), Build, NEW X, Scans(lib, worker, X)
    PROVE  \E w \in Jobs :
              /\ worker' = w /\ Advances(w)
              /\ \/ /\ w.pc \in Running /\ messages' = messages
                    /\ w.unposted = worker.unposted
                 \/ \E r \in Results : Hands(w, r)
<1> DEFINE Yields ==
              \E w \in Jobs :
                 /\ worker' = w /\ Advances(w)
                 /\ \/ /\ w.pc \in Running /\ messages' = messages
                       /\ w.unposted = worker.unposted
                    \/ \E r \in Results : Hands(w, r)
<1> HIDE DEF Yields
<1>0. /\ content \in [Files -> Nat] /\ present \subseteq Files /\ saved \in Tracks
      /\ worker \in Jobs /\ "throw" \notin env /\ "cancel" \notin env
      /\ "unloaded" \notin env /\ "unread" \notin env /\ Outcomes = {TRUE}
  BY BuildYields DEF Typed, MonitorTyped, LibraryTyped, Steady, Plain, Outcomes
<1>1. /\ worker.tried \subseteq DOMAIN worker.items
      /\ worker.pc \in {"files", "list", "read"} => worker.missing = {}
  BY <1>0, JobFields DEF Scans
<1>2. ASSUME NEW f \in Files, ScanFile(f) PROVE Yields
  <2>1. PICK v : v = [worker EXCEPT !.files = worker.files \ {f}]
    OBVIOUS
  <2>2. worker.files \ {f} \in SUBSET Files
    BY <1>0, JobFields
  <2>3. /\ v \in Jobs /\ v.pc = worker.pc /\ v.revision = worker.revision
        /\ v.generation = worker.generation /\ v.tracks = worker.tracks
        /\ v.persisted = worker.persisted /\ v.load = worker.load
        /\ v.directory = worker.directory /\ v.missing = worker.missing
        /\ v.files = worker.files \ {f} /\ v.todo = worker.todo
        /\ v.items = worker.items /\ v.tried = worker.tried
        /\ v.observed = worker.observed /\ v.unposted = worker.unposted
    BY <1>0, <2>1, <2>2 DEF Jobs
  <2>0. PICK ok : ok = TRUE
    OBVIOUS
  <2>4. PICK w : w = IF f \in present THEN ReadTrack(v, f, ok) ELSE v
    OBVIOUS
  <2>5. worker' = w /\ messages' = messages /\ worker.pc = "files"
    <3>1. /\ worker.pc = "files"
          /\ \/ f \in present /\ WorkerStep(ReadTrack(v, f, ok), messages)
             \/ f \notin present /\ WorkerStep(v, messages)
      BY <1>0, <1>2, <2>1, <2>0 DEF ScanFile
    <3> QED BY <2>4, <3>1 DEF WorkerStep
  <2>6. CASE f \in present
    <3>1. w = ReadTrack(v, f, ok)
      BY <2>4, <2>6
    <3>2. /\ w \in Jobs /\ w.pc = v.pc /\ w.generation = v.generation
          /\ w.revision = v.revision /\ w.unposted = v.unposted /\ w.load = v.load
          /\ w.files = v.files /\ w.todo = v.todo /\ w.missing = v.missing
          /\ w.observed = v.observed \cup {f}
      BY <1>0, <2>3, <3>1, ReadTrackYields
    <3>3. /\ w.directory = v.directory /\ w.tracks = v.tracks /\ w.persisted = v.persisted
          /\ DOMAIN w.items = {f} \cup DOMAIN v.items
          /\ \A g \in DOMAIN v.items : g # f => w.items[g] = v.items[g]
          /\ w.tried = v.tried \cup {f}
          /\ f \in present \ v.tried => w.items[f].tags = content[f]
          /\ f \in v.tried /\ f \in DOMAIN v.items => w.items[f] = v.items[f]
      <4>1. Looked(v, f, w)
        BY <1>0, <2>3, <2>0, <3>1, ReadTrackReads
      <4> QED BY <4>1 DEF Looked
    <3>4. worker.missing = {} /\ worker.pc \in {"files", "list", "read"}
      BY <1>1, <2>5
    <3>5. /\ worker.files \ {f} \subseteq w.files /\ w.files \subseteq worker.files
          /\ w.todo \subseteq worker.todo /\ worker.todo \ {f} \subseteq w.todo
      BY <2>3, <3>2
    <3>6. /\ DOMAIN worker.items \subseteq DOMAIN w.items
          /\ DOMAIN w.items \subseteq DOMAIN worker.items \cup {f}
          /\ \A g \in DOMAIN worker.items : g # f => w.items[g] = worker.items[g]
          /\ w.tried \subseteq worker.tried \cup {f} /\ worker.tried \subseteq w.tried
          /\ w.tried \subseteq DOMAIN w.items
          /\ f \in DOMAIN w.items
          /\ f \notin worker.tried => w.items[f].tags = content[f]
          /\ f \in worker.tried => w.items[f] = worker.items[f]
      BY <1>1, <2>3, <2>6, <3>3
    <3>7. Advances(w)
      BY <1>0, <1>1, <2>3, <2>6, <3>2, <3>3, <3>4, <3>5, <3>6, ReadAdvances
    <3> QED BY <2>3, <2>5, <3>2, <3>7 DEF Yields, Running
  <2>7. CASE f \notin present
    <3>1. w = v
      BY <2>4, <2>7
    <3>2. worker.missing = {} /\ worker.pc \in {"files", "list", "read"}
      BY <1>1, <2>5
    <3>3. /\ worker.files \ {f} \subseteq v.files /\ v.files \subseteq worker.files
          /\ v.todo \subseteq worker.todo /\ worker.todo \ {f} \subseteq v.todo
          /\ DOMAIN worker.items \subseteq DOMAIN v.items
          /\ DOMAIN v.items \subseteq DOMAIN worker.items \cup {f}
          /\ v.tried \subseteq worker.tried \cup {f} /\ worker.tried \subseteq v.tried
          /\ v.tried \subseteq DOMAIN v.items
      BY <1>1, <2>3
    <3>4. Advances(v)
      BY <1>0, <1>1, <2>3, <2>7, <3>2, <3>3, ReadAdvances
    <3> QED BY <2>3, <2>5, <3>1, <3>4 DEF Yields, Running
  <2> QED BY <2>6, <2>7
<1>3. ASSUME NEW f \in Files, ReadListed(f) PROVE Yields
  <2>1. PICK v : v = [worker EXCEPT !.todo = worker.todo \ {f}]
    OBVIOUS
  <2>2. worker.todo \ {f} \in SUBSET Files
    BY <1>0, JobFields
  <2>3. /\ v \in Jobs /\ v.pc = worker.pc /\ v.revision = worker.revision
        /\ v.generation = worker.generation /\ v.tracks = worker.tracks
        /\ v.persisted = worker.persisted /\ v.load = worker.load
        /\ v.directory = worker.directory /\ v.missing = worker.missing
        /\ v.files = worker.files /\ v.todo = worker.todo \ {f}
        /\ v.items = worker.items /\ v.tried = worker.tried
        /\ v.observed = worker.observed /\ v.unposted = worker.unposted
    BY <1>0, <2>1, <2>2 DEF Jobs
  <2>0. PICK ok : ok = TRUE
    OBVIOUS
  <2>4. PICK w : w = ReadTrack(v, f, ok)
    OBVIOUS
  <2>5. worker' = w /\ messages' = messages /\ worker.pc = "read" /\ f \in worker.todo
    <3>1. /\ worker.pc = "read" /\ f \in worker.todo
          /\ WorkerStep(ReadTrack(v, f, ok), messages)
      BY <1>0, <1>3, <2>1, <2>0 DEF ReadListed
    <3> QED BY <2>4, <3>1 DEF WorkerStep
  <2>6. /\ w \in Jobs /\ w.pc = v.pc /\ w.generation = v.generation
        /\ w.revision = v.revision /\ w.unposted = v.unposted /\ w.load = v.load
        /\ w.files = v.files /\ w.todo = v.todo /\ w.missing = v.missing
        /\ w.observed = v.observed \cup {f}
    BY <1>0, <2>3, <2>4, ReadTrackYields
  <2>7. /\ w.directory = v.directory /\ w.tracks = v.tracks /\ w.persisted = v.persisted
        /\ DOMAIN w.items = {f} \cup DOMAIN v.items
        /\ \A g \in DOMAIN v.items : g # f => w.items[g] = v.items[g]
        /\ w.tried = v.tried \cup {f}
        /\ f \in present \ v.tried => w.items[f].tags = content[f]
        /\ f \in v.tried /\ f \in DOMAIN v.items => w.items[f] = v.items[f]
    <3>1. Looked(v, f, w)
      BY <1>0, <2>3, <2>4, <2>0, ReadTrackReads
    <3> QED BY <3>1 DEF Looked
  <2>8. worker.missing = {} /\ worker.pc \in {"files", "list", "read"}
    BY <1>1, <2>5
  <2>9. /\ worker.files \ {f} \subseteq w.files /\ w.files \subseteq worker.files
        /\ w.todo \subseteq worker.todo /\ worker.todo \ {f} \subseteq w.todo
    BY <2>3, <2>6
  <2>10. /\ DOMAIN worker.items \subseteq DOMAIN w.items
         /\ DOMAIN w.items \subseteq DOMAIN worker.items \cup {f}
         /\ \A g \in DOMAIN worker.items : g # f => w.items[g] = worker.items[g]
         /\ w.tried \subseteq worker.tried \cup {f} /\ worker.tried \subseteq w.tried
         /\ w.tried \subseteq DOMAIN w.items
         /\ f \in present =>
               /\ f \in DOMAIN w.items
               /\ f \notin worker.tried => w.items[f].tags = content[f]
               /\ f \in worker.tried => w.items[f] = worker.items[f]
    BY <1>1, <2>3, <2>7
  <2>11. Advances(w)
    BY <1>0, <1>1, <2>3, <2>5, <2>6, <2>7, <2>8, <2>9, <2>10, ReadAdvances
  <2> QED BY <2>3, <2>5, <2>6, <2>11 DEF Yields, Running
<1>10. ASSUME NEW f \in Files, ReadUntagged(f) PROVE Yields
  <2>0. PICK ok : ok = TRUE
    OBVIOUS
  <2>1. PICK w : w = Read(worker, f, ok)
    OBVIOUS
  <2>2. worker' = w /\ messages' = messages /\ worker.pc = "list" /\ f \in DOMAIN worker.items
    <3>1. /\ worker.pc = "list" /\ f \in DOMAIN worker.items
          /\ WorkerStep(Read(worker, f, ok), messages)
      BY <1>0, <1>10, <2>0 DEF ReadUntagged, Untagged
    <3> QED BY <2>1, <3>1 DEF WorkerStep
  <2>3. /\ w \in Jobs /\ w.pc = worker.pc /\ w.generation = worker.generation
        /\ w.revision = worker.revision /\ w.unposted = worker.unposted
        /\ w.load = worker.load /\ w.files = worker.files /\ w.todo = worker.todo
        /\ w.missing = worker.missing /\ w.observed = worker.observed
    BY <1>0, <2>1, ReadYields
  <2>4. Looked(worker, f, w)
    BY <1>0, <2>1, <2>0, ReadLooks
  <2>5. /\ w.directory = worker.directory /\ w.tracks = worker.tracks
        /\ w.persisted = worker.persisted
        /\ DOMAIN w.items = DOMAIN worker.items
        /\ \A g \in DOMAIN worker.items : g # f => w.items[g] = worker.items[g]
        /\ w.tried = worker.tried \cup {f}
        /\ f \in present =>
              /\ f \notin worker.tried => w.items[f].tags = content[f]
              /\ f \in worker.tried => w.items[f] = worker.items[f]
    BY <2>2, <2>4 DEF Looked
  <2>6. /\ worker.missing = {} /\ worker.pc \in {"files", "list", "read"}
        /\ worker.files \ {f} \subseteq w.files /\ w.files \subseteq worker.files
        /\ w.todo \subseteq worker.todo /\ worker.todo \ {f} \subseteq w.todo
        /\ DOMAIN worker.items \subseteq DOMAIN w.items
        /\ DOMAIN w.items \subseteq DOMAIN worker.items \cup {f}
        /\ w.tried \subseteq worker.tried \cup {f} /\ worker.tried \subseteq w.tried
        /\ w.tried \subseteq DOMAIN w.items /\ f \in DOMAIN w.items
    BY <1>1, <2>2, <2>3, <2>5
  <2>7. Advances(w)
    BY <1>0, <1>1, <2>3, <2>5, <2>6, ReadAdvances
  <2> QED BY <2>2, <2>3, <2>7 DEF Yields, Running
<1>4. ASSUME MergeSeeds PROVE Yields
  <2>1. PICK m, v : /\ m = Coming(worker, saved)
                    /\ v = [worker EXCEPT !.pc = "list", !.items = m]
    OBVIOUS
  <2>2. worker.pc = "files" /\ worker.files = {}
    BY <1>4 DEF MergeSeeds
  <2>3. m \in Tracks /\ DOMAIN worker.items \subseteq DOMAIN m
    <3>1. /\ worker.items \in Tracks /\ worker.tracks \in Tracks
          /\ worker.persisted \in Tracks
      BY <1>0, JobFields
    <3>2. Over(worker.items, worker.tracks) \in Tracks
      BY <3>1, OverTyped DEF Tracks
    <3>3. m \in Tracks
      BY <1>0, <2>1, <2>2, <3>1, <3>2, OverTyped DEF Coming, Tracks
    <3> QED BY <2>1, <3>3, ComingFirst
  <2>4. /\ v \in Jobs /\ v.pc = "list" /\ v.revision = worker.revision
        /\ v.generation = worker.generation /\ v.tracks = worker.tracks
        /\ v.items = m /\ v.tried = worker.tried /\ v.load = worker.load
        /\ v.directory = worker.directory /\ v.todo = worker.todo
        /\ v.files = worker.files /\ v.observed = worker.observed
        /\ v.missing = worker.missing /\ v.unposted = worker.unposted
    BY <1>0, <2>1, <2>3 DEF Jobs, Running
  <2>5. IF worker.load THEN Deliver(v, Result(v, FALSE, FALSE))
        ELSE WorkerStep(v, messages)
    BY <1>0, <1>4, <2>1, SeedsMerged
  <2>6. Coming(v, saved) = m
    BY <2>4 DEF Coming
  <2>7. \A f : /\ ToRead(v, f) <=> ToRead(worker, f)
               /\ Misses(v, f) <=> Misses(worker, f)
    BY <2>2, <2>4 DEF ToRead, Misses
  <2>8. \A f : Settles(v, f) <=> Settles(worker, f)
    BY <2>1, <2>4, <2>6, <2>7 DEF Settles
  <2>9. Advances(v)
    <3>1. v.tried \subseteq DOMAIN v.items /\ v.missing = {}
      BY <1>1, <2>2, <2>3, <2>4
    <3> QED BY <2>1, <2>3, <2>4, <2>6, <2>7, <2>8, <3>1 DEF Advances
  <2>10. CASE worker.load
    <3>1. PICK r : r = Result(v, FALSE, FALSE)
      OBVIOUS
    <3>2. /\ r \in Results /\ r.revision = v.revision /\ r.generation = v.generation
          /\ r.missing = v.missing /\ r.items = v.items /\ r.observed = v.observed
          /\ r.complete = FALSE /\ r.failed = FALSE
      BY <2>4, <3>1, ResultYields
    <3>3. Deliver(v, r)
      BY <2>5, <2>10, <3>1
    <3>4. \E w \in Jobs : worker' = w /\ Advances(w) /\ Hands(w, r)
      BY <2>2, <2>4, <2>9, <3>2, <3>3, ResultHandedOver
    <3> QED BY <3>2, <3>4 DEF Yields
  <2>11. CASE ~worker.load
    <3>1. worker' = v /\ messages' = messages
      BY <2>5, <2>11 DEF WorkerStep
    <3> QED BY <2>4, <2>9, <3>1 DEF Yields, Running
  <2> QED BY <2>10, <2>11
<1>5. ASSUME ListDirectory PROVE Yields
  <2>1. PICK todo \in SUBSET present :
            /\ worker.pc = "list" /\ todo = IF worker.directory THEN present ELSE {}
            /\ WorkerStep([worker EXCEPT !.pc = "read", !.todo = todo], messages)
    BY <1>0, <1>5, Listed
  <2>2. PICK w : w = [worker EXCEPT !.pc = "read", !.todo = todo]
    OBVIOUS
  <2>3. worker' = w /\ messages' = messages /\ worker.pc = "list" /\ todo \in SUBSET Files
    BY <1>0, <2>1, <2>2 DEF WorkerStep
  <2>4. /\ w \in Jobs /\ w.pc = "read" /\ w.revision = worker.revision
        /\ w.generation = worker.generation /\ w.tracks = worker.tracks
        /\ w.items = worker.items /\ w.tried = worker.tried
        /\ w.directory = worker.directory /\ w.todo = todo
        /\ w.observed = worker.observed
        /\ w.missing = worker.missing /\ w.unposted = worker.unposted
    BY <1>0, <2>2, <2>3 DEF Jobs, Running
  <2>5. Coming(worker, saved) = worker.items /\ Coming(w, saved) = w.items
    BY <2>3, <2>4 DEF Coming
  <2>6. ASSUME NEW f \in present PROVE ToRead(worker, f) => ToRead(w, f)
    BY <2>1, <2>3, <2>4, <2>6 DEF ToRead
  <2>7. \A f : Misses(w, f) <=> Misses(worker, f)
    BY <2>3, <2>4 DEF Misses
  <2>8. \A f \in present : Settles(worker, f) => Settles(w, f)
    BY <2>4, <2>5, <2>6 DEF Settles
  <2>9. \A f : f \notin present => f \notin todo
    BY <2>1
  <2>10. w.tried \subseteq DOMAIN w.items /\ w.missing = {} /\ todo \subseteq present
    BY <1>1, <2>1, <2>3, <2>4
  <2>11. Advances(w)
    BY <2>4, <2>5, <2>6, <2>7, <2>8, <2>9, <2>10 DEF Advances
  <2> QED BY <2>3, <2>4, <2>11 DEF Yields, Running
<1>6. ASSUME VerifyMissing PROVE Yields
  <2>1. DOMAIN worker.items \subseteq Files
    BY <1>0, JobFields, EntriesYields DEF Tracks
  <2>2. PICK missing \in SUBSET (DOMAIN worker.items \ present) :
            /\ worker.pc = "read" /\ worker.todo = {}
            /\ missing = IF worker.directory THEN DOMAIN worker.items \ present ELSE {}
            /\ WorkerStep([worker EXCEPT !.pc = "deliver", !.missing = missing], messages)
    BY <1>0, <1>6, Verified
  <2>3. PICK w : w = [worker EXCEPT !.pc = "deliver", !.missing = missing]
    OBVIOUS
  <2>4. worker' = w /\ messages' = messages /\ worker.pc = "read" /\ worker.todo = {}
        /\ missing \in SUBSET Files
    BY <2>1, <2>2, <2>3 DEF WorkerStep
  <2>5. /\ w \in Jobs /\ w.pc = "deliver" /\ w.revision = worker.revision
        /\ w.generation = worker.generation /\ w.tracks = worker.tracks
        /\ w.items = worker.items /\ w.tried = worker.tried
        /\ w.directory = worker.directory /\ w.todo = worker.todo
        /\ w.observed = worker.observed
        /\ w.missing = missing /\ w.unposted = worker.unposted
    BY <1>0, <2>3, <2>4 DEF Jobs, Running
  <2>6. Coming(worker, saved) = worker.items /\ Coming(w, saved) = w.items
    BY <2>4, <2>5 DEF Coming
  <2>7. \A f : ~ToRead(worker, f)
    BY <2>4 DEF ToRead
  <2>8. \A f : Settles(worker, f) => Settles(w, f)
    BY <2>5, <2>6, <2>7 DEF Settles
  <2>9. worker.missing = {}
    BY <1>1, <2>4
  <2>10. ASSUME NEW f, f \notin present, f \in DOMAIN w.items, Misses(worker, f)
         PROVE  Misses(w, f)
    BY <2>2, <2>4, <2>5, <2>9, <2>10 DEF Misses
  <2>11. w.tried \subseteq DOMAIN w.items
    BY <1>1, <2>5
  <2>12. Advances(w)
    BY <2>4, <2>5, <2>6, <2>7, <2>8, <2>10, <2>11 DEF Advances
  <2> QED BY <2>4, <2>5, <2>12 DEF Yields, Running
<1>7. ASSUME DeliverResult PROVE Yields
  <2>1. PICK v, r : v = [worker EXCEPT !.pc = "done"] /\ r = Result(worker, TRUE, FALSE)
    OBVIOUS
  <2>2. /\ v \in Jobs /\ v.pc = "done" /\ v.revision = worker.revision
        /\ v.generation = worker.generation /\ v.tracks = worker.tracks
        /\ v.items = worker.items /\ v.tried = worker.tried
        /\ v.directory = worker.directory /\ v.todo = worker.todo
        /\ v.observed = worker.observed
        /\ v.missing = worker.missing /\ v.unposted = worker.unposted
    BY <1>0, <2>1 DEF Jobs
  <2>3. /\ r \in Results /\ r.revision = worker.revision /\ r.missing = worker.missing
        /\ r.generation = worker.generation /\ r.observed = worker.observed
        /\ r.items = worker.items /\ r.complete = TRUE /\ r.failed = FALSE
    BY <1>0, <2>1, ResultYields
  <2>4. worker.pc = "deliver" /\ Deliver(v, r)
    BY <1>7, <2>1 DEF DeliverResult
  <2>5. Coming(worker, saved) = worker.items /\ Coming(v, saved) = v.items
    BY <2>2, <2>4 DEF Coming
  <2>6. \A f : /\ ~ToRead(worker, f)
               /\ Misses(v, f) <=> Misses(worker, f)
    BY <2>2, <2>4 DEF ToRead, Misses
  <2>7. \A f : Settles(worker, f) => Settles(v, f)
    BY <2>2, <2>5, <2>6 DEF Settles
  <2>8. v.tried \subseteq DOMAIN v.items
    BY <1>1, <2>2
  <2>9. Advances(v)
    BY <2>2, <2>5, <2>6, <2>7, <2>8 DEF Advances
  <2>10. \E w \in Jobs : worker' = w /\ Advances(w) /\ Hands(w, r)
    BY <2>2, <2>3, <2>4, <2>9, ResultHandedOver
  <2> QED BY <2>3, <2>10 DEF Yields
<1>8. ~ListCanceled /\ ~BuildThrows
  BY <1>0 DEF ListCanceled, BuildThrows
<1>9. Yields
  BY <1>2, <1>3, <1>4, <1>5, <1>6, <1>7, <1>8, <1>10 DEF Build
<1> QED BY <1>9 DEF Yields

LEMMA BuildMirrors == IInv /\ TInv /\ CInv /\ Build => CInv'
<1> SUFFICES ASSUME IInv, TInv, CInv, Build, Steady(env'), phase' = "open" PROVE CInv'
  BY DEF CInv
<1>1. worker.pc \in Running
  BY DEF Build, ScanFile, ReadUntagged, ReadListed, MergeSeeds, ListDirectory,
         ListCanceled, BuildThrows, VerifyMissing, DeliverResult, Running
<1>2. /\ Typed /\ worker \in Jobs /\ phase = "open" /\ Steady(env)
      /\ UNCHANGED <<env, present, content, watch, monitoring, generation, recorded, lib,
                     indexing, refreshPending, scan, saved, rated, discarded, added>>
  BY BuildYields DEF IInv, diskVars, watchVars, history
<1>3. /\ Sound(lib, worker, messages, scan) /\ messages \in Seq(Messages)
  BY <1>2, TInvYields DEF Steady
<1>4. /\ Fits(lib, Lost, discarded, added) /\ Scans(lib, worker, added)
      /\ Parts(lib, worker, messages, scan) /\ indexing
  <2>1. Ordered(lib, indexing, worker, messages, scan, Lost, discarded, added)
    BY <1>2 DEF CInv
  <2> QED BY <1>1, <2>1 DEF Ordered, Resting
<1>5. PICK w \in Jobs :
          /\ worker' = w /\ Advances(w)
          /\ \/ w.pc \in Running /\ messages' = messages /\ w.unposted = worker.unposted
             \/ \E r \in Results : Hands(w, r)
  BY <1>2, <1>4, BuildAdvances
<1>6. PICK ms : ms = messages'
  OBVIOUS
<1>7. ASSUME NEW r \in Results, Hands(w, r), messages' = Append(messages, r)
      PROVE  /\ Len(ms) \in DOMAIN ms /\ ms[Len(ms)] = r
             /\ \A i \in DOMAIN ms : ms[i] = r \/ \E j \in DOMAIN messages : ms[i] = messages[j]
             /\ \A i \in DOMAIN messages : i \in DOMAIN ms /\ ms[i] = messages[i]
  <2>1. r \in Messages
    BY DEF Messages
  <2> QED BY <1>3, <1>6, <1>7, <2>1
<1>8. ASSUME NEW q \in Results, Pending(q, w, ms, scan)
      PROVE  Pending(q, worker, messages, scan) \/ Hands(w, q)
  <2>1. CASE messages' = messages /\ w.unposted = worker.unposted
    BY <1>6, <1>8, <2>1 DEF Pending
  <2>2. ASSUME NEW r \in Results, Hands(w, r)
        PROVE  q = r \/ Pending(q, worker, messages, scan)
    <3>1. CASE messages' = Append(messages, r) /\ w.unposted = worker.unposted
      BY <1>7, <1>8, <2>2, <3>1 DEF Pending
    <3>2. CASE messages' = messages /\ w.unposted = r
      BY <1>6, <1>8, <3>2 DEF Pending
    <3> QED BY <2>2, <3>1, <3>2 DEF Hands
  <2> QED BY <1>5, <2>1, <2>2
<1>9. ASSUME NEW q \in Results, Pending(q, worker, messages, scan)
      PROVE  ~q.complete
  <2> SUFFICES ASSUME q.complete PROVE FALSE
    OBVIOUS
  <2>1. q.complete = TRUE
    BY ResultFields
  <2>2. CASE q = worker.unposted
    <3>1. worker.pc = "done"
      BY <1>3, <1>9, <2>1, <2>2, ResultFields DEF Sound, Protocol
    <3> QED BY <1>1, <3>1 DEF Running
  <2>3. CASE q # worker.unposted
    <3>1. OnItsWay(messages, scan, TRUE)
      BY <1>9, <2>1, <2>3 DEF Pending, OnItsWay
    <3> QED BY <1>1, <1>3, <3>1 DEF Sound, Protocol
  <2> QED BY <2>2, <2>3
<1>10. ASSUME Idle(w, ms, scan) PROVE FALSE
  <2>1. PICK r \in Results : Hands(w, r)
    BY <1>5, <1>10 DEF Idle
  <2>2. r.complete
    BY <1>10, <2>1 DEF Idle, Hands, Running
  <2>3. r.generation = scan /\ r.kind = "ready" /\ r # NoResult
    BY <1>2, <1>3, <2>1, ResultFields, JobFields DEF Sound, Numbered, Hands
  <2>4. Pending(r, w, ms, scan)
    <3>1. CASE messages' = Append(messages, r)
      <4>1. Len(ms) \in DOMAIN ms /\ ms[Len(ms)] = r
        BY <1>7, <2>1, <3>1
      <4> QED BY <2>3, <4>1 DEF Pending, Current
    <3>2. CASE w.unposted = r
      BY <2>3, <3>2 DEF Pending
    <3> QED BY <2>1, <3>1, <3>2 DEF Hands
  <2> QED BY <1>10, <2>2, <2>4 DEF Idle
<1>11. ASSUME NEW q \in Results, Hands(w, q)
       PROVE  q.items = Coming(w, saved) /\ q.revision = w.revision
              /\ (q.complete => \A f : ~ToRead(w, f) /\ (Misses(w, f) <=> f \in q.missing))
  BY <1>5, <1>11 DEF Hands, Coming, ToRead, Misses, Advances
<1>12. Ordered(lib, indexing, w, ms, scan, Lost, discarded, added)
  <2>1. Behind(lib, worker.observed \cup worker.todo, worker.revision)
        /\ DOMAIN worker.tracks \subseteq added
    BY <1>1, <1>2, <1>4, JobFields DEF Scans
  <2>2. present \cap DOMAIN lib.removed = {}
    BY <1>4 DEF Fits, Lost
  <2>3. Scans(lib, w, added)
    <3>1. Behind(lib, w.observed \cup w.todo, w.revision)
      BY <1>5, <2>1, <2>2 DEF Behind, Advances
    <3>2. /\ w.tracks = worker.tracks /\ w.tried \subseteq DOMAIN w.items
          /\ w.pc \in {"files", "list", "read"} => w.missing = {}
      BY <1>5 DEF Advances
    <3> QED BY <2>1, <3>1, <3>2 DEF Scans
  <2>4. ASSUME NEW q \in Results, Pending(q, w, ms, scan)
        PROVE  /\ ~q.failed /\ Behind(lib, q.observed, q.revision)
               /\ ~q.complete =>
                     /\ q.missing = {}
                     /\ w.pc \in Running => DOMAIN q.items \subseteq DOMAIN w.items
                     /\ \A p \in Results : Pending(p, w, ms, scan) /\ p.complete =>
                           DOMAIN q.items \subseteq DOMAIN p.items
    <3>1. CASE Pending(q, worker, messages, scan)
      <4>1. /\ ~q.failed /\ Behind(lib, q.observed, q.revision)
            /\ ~q.complete =>
                  q.missing = {} /\ DOMAIN q.items \subseteq DOMAIN worker.items
        BY <1>1, <1>4, <3>1 DEF Parts
      <4>2. DOMAIN worker.items \subseteq DOMAIN w.items
        BY <1>5 DEF Advances
      <4>3. ASSUME NEW p \in Results, Pending(p, w, ms, scan), p.complete
            PROVE  p.items = w.items
        BY <1>8, <1>9, <4>3 DEF Hands
      <4> QED BY <4>1, <4>2, <4>3
    <3>2. CASE Hands(w, q)
      <4>1. ~q.failed /\ Behind(lib, q.observed, q.revision)
        BY <2>1, <3>2 DEF Hands, Behind
      <4>2. ~q.complete => q.missing = {} /\ q.items = w.items
        <5>1. worker.pc \in {"files", "list", "read"} => worker.missing = {}
          BY <1>2, <1>4, JobFields DEF Scans
        <5> QED BY <3>2, <5>1 DEF Hands
      <4>3. ASSUME ~q.complete, NEW p \in Results, Pending(p, w, ms, scan), p.complete
            PROVE  FALSE
        BY <1>8, <1>9, <3>2, <4>3 DEF Hands
      <4> QED BY <4>1, <4>2, <4>3
    <3> QED BY <1>8, <2>4, <3>1, <3>2
  <2>5. Parts(lib, w, ms, scan)
    BY <2>4 DEF Parts
  <2> QED BY <1>4, <2>3, <2>5 DEF Ordered
<1>13. ASSUME NEW f \in present, f \in Files,
              NEW U, Appears(lib, worker, messages, scan, saved, f, U)
       PROVE  Appears(lib, w, ms, scan, saved, f, U)
  <2>1. /\ f \in DOMAIN Coming(worker, saved) => f \in DOMAIN Coming(w, saved)
        /\ ToRead(worker, f) => ToRead(w, f) \/ f \in DOMAIN Coming(w, saved)
        /\ w.revision = worker.revision
    BY <1>5, <1>13 DEF Advances
  <2>2. Finds(lib, Coming(worker, saved), worker.revision, f) =>
            Finds(lib, Coming(w, saved), w.revision, f)
    BY <2>1 DEF Finds
  <2>3. ASSUME Kept(lib, worker, messages, scan, saved, f)
        PROVE  Kept(lib, w, ms, scan, saved, f)
    <3>1. Finds(lib, Coming(w, saved), w.revision, f)
      BY <1>1, <2>2, <2>3 DEF Kept
    <3>2. ASSUME NEW q \in Results, Pending(q, w, ms, scan)
          PROVE  Finds(lib, q.items, q.revision, f)
      <4>1. CASE Pending(q, worker, messages, scan)
        BY <2>3, <4>1 DEF Kept
      <4>2. CASE Hands(w, q)
        BY <1>11, <3>1, <4>2
      <4> QED BY <1>8, <3>2, <4>1, <4>2
    <3> QED BY <2>3, <3>1, <3>2 DEF Kept
  <2>4. ASSUME Shown(lib, worker, messages, scan, saved, f)
        PROVE  Shown(lib, w, ms, scan, saved, f)
    <3>1. ToRead(w, f) \/ Finds(lib, Coming(w, saved), w.revision, f)
      <4>1. ToRead(worker, f) \/ Finds(lib, Coming(worker, saved), worker.revision, f)
        BY <1>1, <2>4 DEF Shown
      <4>2. f \in DOMAIN Coming(w, saved) => Finds(lib, Coming(w, saved), w.revision, f)
        BY DEF Finds
      <4> QED BY <2>1, <2>2, <4>1, <4>2
    <3>2. ASSUME NEW q \in Results, Pending(q, w, ms, scan), q.complete
          PROVE  Finds(lib, q.items, q.revision, f)
      <4>1. Hands(w, q)
        BY <1>8, <1>9, <3>2
      <4> QED BY <1>11, <3>1, <3>2, <4>1
    <3> QED BY <1>10, <3>1, <3>2 DEF Shown
  <2> QED BY <1>13, <2>3, <2>4 DEF Appears
<1>14. ASSUME NEW f \in present, NEW U, f \in Files,
              Refreshes(lib, worker, messages, scan, saved, f, content[f], U)
       PROVE  Refreshes(lib, w, ms, scan, saved, f, content[f], U)
  <2> SUFFICES ASSUME Fresh(lib, worker, messages, scan, saved, f, content[f])
               PROVE  Fresh(lib, w, ms, scan, saved, f, content[f])
    BY <1>14 DEF Refreshes
  <2>1. Settles(worker, f)
    BY <1>1 DEF Fresh, Settles
  <2>2. Settles(w, f)
    BY <1>5, <1>14, <2>1 DEF Advances
  <2>3. ASSUME NEW q \in Results, Pending(q, w, ms, scan), q.complete
        PROVE  Tagged(q.items, f, content[f])
    <3>1. Hands(w, q)
      BY <1>8, <1>9, <2>3
    <3> QED BY <1>11, <2>2, <2>3, <3>1 DEF Settles
  <2> QED BY <1>10, <2>2, <2>3 DEF Fresh, Settles
<1>15. ASSUME NEW f \in Files, f \notin present, NEW x, NEW U,
              Vanishes(lib, worker, messages, scan, saved, f, x, U)
       PROVE  Vanishes(lib, w, ms, scan, saved, f, x, U)
  <2> SUFFICES ASSUME Hidden(lib, worker, messages, scan, saved, f, x)
               PROVE  Hidden(lib, w, ms, scan, saved, f, x)
    BY <1>15 DEF Vanishes
  <2>1. /\ Warned(lib, f, worker.revision)
        /\ x \/ Barred(lib, DOMAIN Coming(worker, saved) \cup worker.todo,
                       worker.revision, f, Misses(worker, f))
    BY <1>1 DEF Hidden
  <2>2. /\ w.revision = worker.revision
        /\ f \in DOMAIN Coming(w, saved) \cup w.todo =>
              /\ f \in DOMAIN Coming(worker, saved) \cup worker.todo
              /\ Misses(worker, f) => Misses(w, f)
    BY <1>5, <1>15 DEF Advances
  <2>3. /\ Warned(lib, f, w.revision)
        /\ x \/ Barred(lib, DOMAIN Coming(w, saved) \cup w.todo, w.revision, f, Misses(w, f))
    BY <2>1, <2>2 DEF Barred
  <2>4. ASSUME NEW q \in Results, Pending(q, w, ms, scan), q.complete
        PROVE  /\ Warned(lib, f, q.revision)
               /\ x \/ Barred(lib, DOMAIN q.items, q.revision, f, f \in q.missing)
    <3>1. Hands(w, q)
      BY <1>8, <1>9, <2>4
    <3>2. /\ q.items = Coming(w, saved) /\ q.revision = w.revision
          /\ Misses(w, f) <=> f \in q.missing
      BY <1>11, <2>4, <3>1
    <3> QED BY <2>3, <3>2 DEF Barred
  <2> QED BY <1>10, <2>3, <2>4 DEF Hidden
<1>16. ASSUME NEW f, NEW A, Upstream(f, A) PROVE Upstream(f, A)'
  <2>1. \A i \in DOMAIN messages : i \in DOMAIN ms /\ ms[i] = messages[i]
    BY <1>5, <1>6, <1>7 DEF Hands
  <2> QED BY <1>2, <1>6, <1>16, <2>1 DEF Upstream, Accept
<1>17. ASSUME NEW f \in Files PROVE Mirrored(f)'
  <2>1. Mirrored(f)
    BY <1>2 DEF CInv
  <2>2. f \in present \ discarded =>
            Appears(lib, w, ms, scan, saved, f, Upstream(f, {"added"})')
    <3>1. ASSUME f \in present \ discarded
          PROVE  Appears(lib, worker, messages, scan, saved, f, Upstream(f, {"added"})')
      BY <1>16, <2>1, <3>1 DEF Mirrored, Appears
    <3> QED BY <1>13, <1>17, <3>1
  <2>3. f \in present \ added =>
            Refreshes(lib, w, ms, scan, saved, f, content[f], Upstream(f, {"modified"})')
    <3>1. ASSUME f \in present \ added
          PROVE  Refreshes(lib, worker, messages, scan, saved, f, content[f],
                           Upstream(f, {"modified"})')
      BY <1>16, <2>1, <3>1 DEF Mirrored, Refreshes
    <3> QED BY <1>14, <1>17, <3>1
  <2>4. f \in Lost =>
            Vanishes(lib, w, ms, scan, saved, f, f \in DOMAIN rated \cup added,
                     Upstream(f, {"removed"})')
    <3>1. ASSUME f \in Lost
          PROVE  Vanishes(lib, worker, messages, scan, saved, f,
                          f \in DOMAIN rated \cup added, Upstream(f, {"removed"})')
      BY <1>16, <2>1, <3>1 DEF Mirrored, Vanishes
    <3> QED BY <1>15, <1>17, <3>1 DEF Lost
  <2>5. Lost' = Lost
    BY <1>2 DEF Lost, Ever
  <2> QED BY <1>2, <1>5, <1>6, <2>2, <2>3, <2>4, <2>5 DEF Mirrored
<1>18. /\ Queued(lib') => refreshPending'
       /\ watch' # "closed" => monitoring'
       /\ discarded' \subseteq Ever'
       /\ Ordered(lib', indexing', worker', messages', scan', Lost', discarded', added')
  <2>1. Ever' = Ever /\ Lost' = Lost
    BY <1>2 DEF Lost, Ever
  <2>2. /\ Queued(lib) => refreshPending
        /\ watch # "closed" => monitoring
        /\ discarded \subseteq Ever
    BY <1>2 DEF CInv
  <2> QED BY <1>2, <1>5, <1>6, <1>12, <2>1, <2>2
<1> QED BY <1>17, <1>18 DEF CInv

-----------------------------------------------------------------------------
(* The library is current: the results.                                    *)

LEMMA AppliedFits ==
    ASSUME NEW l \in Catalogue, NEW r \in Results, NEW a, a = Applied(l, r), a.loaded,
           NEW S, NEW G, Known(l, S, G), r.missing \subseteq G,
           NEW D, NEW X, Fits(l, G, D, X)
    PROVE  Fits(a, G, D, X)
<1>1. /\ a.excluded = Exclusions(l, r).excluded /\ a.removed = Exclusions(l, r).removed
      /\ \E T : a.edits = Without(l.edits, T)
  BY AppliedYields
<1>2. a.excluded \subseteq l.excluded \cup r.missing \cup
          {f \in DOMAIN l.fileChanges : l.fileChanges[f].removed}
  BY <1>1 DEF Exclusions, Newer
<1>3. \A f \in DOMAIN a.removed :
          \/ f \in DOMAIN l.removed \cup r.missing
          \/ f \in DOMAIN l.fileChanges /\ l.fileChanges[f].removed
  BY <1>1, ExclusionsYields
<1>4. a.excluded \ D \subseteq G /\ DOMAIN a.removed \subseteq G
  BY <1>2, <1>3 DEF Fits, Known
<1>5. \A f \in DOMAIN a.edits : f \in DOMAIN l.edits /\ a.edits[f] = l.edits[f]
  BY <1>1 DEF Without
<1>6. /\ DOMAIN a.tracks \subseteq DOMAIN l.tracks
      /\ \A f : /\ f \in DOMAIN a.persisted <=> f \in Live(a)
                /\ f \in Live(a) => a.persisted[f] = a.items[f]
  BY AppliedRates
<1> QED BY <1>4, <1>5, <1>6 DEF Fits

\* A result that has found nothing missing brings no removal that the scan does
\* not know of.
LEMMA AppliedBehind ==
    ASSUME NEW l \in Catalogue, NEW r \in Results, r.missing = {},
           NEW a, a = Applied(l, r), NEW O, NEW n, n = r.revision, Behind(l, O, n)
    PROVE  Behind(a, O, n)
<1>1. \A f \in DOMAIN a.removed :
          (f \in DOMAIN l.removed /\ a.removed[f] = l.removed[f]) \/ a.removed[f] > r.revision
  BY AppliedYields, ExclusionsYields
<1> QED BY <1>1 DEF Behind

\* What a result makes of the excluded tracks: what it misses and what it was
\* notified of, gone or not, after it had started, and what it has seen again.
Excludes(l, r, e, missing, news, gone, seen) ==
    /\ \A f : f \in missing <=> f \in r.missing /\ ~Edit(l, f, r.revision)
    /\ \A f : f \in news <=> News(l, f, r.revision) /\ f \in DOMAIN r.items
    /\ \A f : f \in gone <=> f \in news /\ l.fileChanges[f].removed
    /\ \A f \in seen : /\ f \in r.observed \ r.missing /\ f \notin gone
                       /\ f \in DOMAIN l.removed => l.removed[f] <= r.revision
                       /\ f \in DOMAIN l.removed \cup missing
    /\ e = (((l.excluded \cup missing) \ news) \cup gone) \ seen

LEMMA ExclusionsParts ==
    ASSUME NEW l \in Catalogue, NEW r \in Results, NEW a, a = Applied(l, r)
    PROVE  \E missing, news, gone, seen :
              Excludes(l, r, a.excluded, missing, news, gone, seen)
<1>1. PICK missing, news, gone, known, lost, older, kept, removed, seen :
          /\ missing = r.missing \ Newer(l.edits, r.revision)
          /\ news = Newer(l.fileChanges, r.revision) \cap DOMAIN r.items
          /\ gone = {f \in news : l.fileChanges[f].removed}
          /\ known = [f \in gone |-> l.fileChanges[f].revision]
          /\ lost = [f \in missing |-> r.revision]
          /\ older = Over(lost, l.removed)
          /\ kept = Without(older, news)
          /\ removed = Over(known, kept)
          /\ seen = {f \in DOMAIN removed : removed[f] <= r.revision
                                            /\ f \in r.observed \ r.missing}
  OBVIOUS
<1>2. Exclusions(l, r).excluded = (((l.excluded \cup missing) \ news) \cup gone) \ seen
  BY <1>1 DEF Exclusions
<1>3. a.excluded = (((l.excluded \cup missing) \ news) \cup gone) \ seen
  BY <1>2, AppliedYields
<1>4. r.revision \in Nat /\ \A f \in DOMAIN l.fileChanges : l.fileChanges[f].revision \in Nat
  <2>1. l.fileChanges \in Notices
    BY CatalogueFields
  <2>2. \A f \in DOMAIN l.fileChanges :
            l.fileChanges[f] \in [revision : Nat, removed : BOOLEAN]
    BY <2>1, EntriesYields DEF Notices
  <2> QED BY <2>2, ResultFields
<1>5. /\ \A f \in gone : f \in DOMAIN removed /\ removed[f] = l.fileChanges[f].revision
      /\ \A f \in DOMAIN removed \ gone :
            /\ f \in missing \cup DOMAIN l.removed
            /\ f \notin missing => removed[f] = l.removed[f]
  BY <1>1 DEF Over, Without
<1>6. ASSUME NEW f \in gone PROVE ~(removed[f] <= r.revision)
  <2>1. f \in DOMAIN l.fileChanges /\ l.fileChanges[f].revision > r.revision
    BY <1>1 DEF Newer
  <2> QED BY <1>4, <1>5, <2>1
<1>7. ASSUME NEW f \in seen
      PROVE  /\ f \in r.observed \ r.missing /\ f \notin gone
             /\ f \in DOMAIN l.removed => l.removed[f] <= r.revision
             /\ f \in DOMAIN l.removed \cup missing
  <2>1. /\ f \in DOMAIN removed /\ removed[f] <= r.revision
        /\ f \in r.observed \ r.missing
    BY <1>1
  <2>2. f \notin missing
    BY <1>1, <2>1
  <2>3. f \notin gone
    BY <1>6, <2>1
  <2> QED BY <1>5, <2>1, <2>2, <2>3
<1>8. /\ \A f : f \in missing <=> f \in r.missing /\ ~Edit(l, f, r.revision)
      /\ \A f : f \in news <=> News(l, f, r.revision) /\ f \in DOMAIN r.items
      /\ \A f : f \in gone <=> f \in news /\ l.fileChanges[f].removed
  BY <1>1 DEF Newer, Edit, News
<1> QED BY <1>3, <1>7, <1>8 DEF Excludes

\* What is excluded stays excluded, unless a notification is newer.
LEMMA AppliedStillExcludes ==
    ASSUME NEW l \in Catalogue, NEW r \in Results, NEW a, a = Applied(l, r),
           Behind(l, r.observed, r.revision), NEW f \in l.excluded
    PROVE  f \in a.excluded \/ (News(l, f, r.revision) /\ f \in DOMAIN r.items)
<1>1. PICK missing, news, gone, seen :
          Excludes(l, r, a.excluded, missing, news, gone, seen)
  BY ExclusionsParts
<1>2. r.revision \in Nat /\ \A g \in DOMAIN l.removed : l.removed[g] \in Nat
  BY ResultFields, CatalogueFields, EntriesYields
<1>3. f \notin seen
  BY <1>1, <1>2 DEF Behind, Excludes
<1> QED BY <1>1, <1>3 DEF Excludes

\* A newer notification that f is gone, or a scan that misses it, excludes it.
LEMMA AppliedExcludesLost ==
    ASSUME NEW l \in Catalogue, NEW r \in Results, NEW a, a = Applied(l, r), NEW f,
           Warned(l, f, r.revision),
           \/ News(l, f, r.revision) /\ f \in DOMAIN r.items
           \/ f \in r.missing /\ ~Edit(l, f, r.revision)
    PROVE  f \in a.excluded
<1>1. PICK missing, news, gone, seen :
          Excludes(l, r, a.excluded, missing, news, gone, seen)
  BY ExclusionsParts
<1> QED BY <1>1 DEF Warned, Excludes

LEMMA AppliedTags ==
    ASSUME NEW l \in Catalogue, NEW r \in Results, NEW a, a = Applied(l, r),
           NEW f \in DOMAIN a.items, ~WholeEdit(l, f, r.revision)
    PROVE  f \in DOMAIN r.items /\ a.items[f].tags = r.items[f].tags
<1>1. PICK newer, whole, stars, under :
          /\ newer = Newer(l.edits, r.revision) \ a.excluded
          /\ whole = {g \in newer : ~l.edits[g].ratingOnly}
          /\ stars = {g \in newer \ whole : g \in DOMAIN r.items}
          /\ under = Over([g \in stars |-> Track(r.items[g].tags, l.edits[g].track.rating)],
                          r.items)
  OBVIOUS
<1>2. a.items = Over([g \in whole |-> l.edits[g].track], under)
  BY <1>1, AppliedYields DEF Edited
<1>3. f \notin whole
  BY <1>1 DEF Newer, Edit, WholeEdit
<1>4. f \in DOMAIN under /\ a.items[f] = under[f]
  BY <1>2, <1>3 DEF Over
<1>5. CASE f \in stars
  <2>1. under[f] = Track(r.items[f].tags, l.edits[f].track.rating)
    BY <1>1, <1>4, <1>5 DEF Over
  <2>2. under[f].tags = r.items[f].tags
    BY <2>1 DEF Track
  <2> QED BY <1>1, <1>4, <1>5, <2>2
<1>6. CASE f \notin stars
  BY <1>1, <1>4, <1>6 DEF Over
<1> QED BY <1>5, <1>6

\* What the last result of a scan leaves of f: it is shown, with its tags, or
\* not shown.
LEMMA AppliedLives ==
    ASSUME NEW l \in Catalogue, NEW r \in Results, NEW a, a = Applied(l, r), a.loaded,
           NEW f, f \notin a.excluded, Finds(l, r.items, r.revision, f)
    PROVE  f \in DOMAIN a.persisted
<1>1. f \in Live(a)
  BY AppliedItems DEF Finds, Live
<1> QED BY <1>1, AppliedRates

LEMMA AppliedHides ==
    ASSUME NEW l \in Catalogue, NEW r \in Results, NEW a, a = Applied(l, r),
           Behind(l, r.observed, r.revision), NEW f, ~WholeEdit(l, f, r.revision),
           Warned(l, f, r.revision),
           Barred(l, DOMAIN r.items, r.revision, f, f \in r.missing)
    PROVE  f \notin Live(a)
<1> SUFFICES ASSUME f \notin a.excluded PROVE f \notin DOMAIN a.items
  BY DEF Live
<1>1. ~(News(l, f, r.revision) /\ f \in DOMAIN r.items)
  BY AppliedExcludesLost
<1>2. ~(f \in r.missing /\ ~Edit(l, f, r.revision))
  BY AppliedExcludesLost
<1>3. f \notin l.excluded
  BY <1>1, AppliedStillExcludes
<1>4. f \notin DOMAIN r.items
  BY <1>1, <1>2, <1>3 DEF Barred
<1> QED BY <1>4, AppliedItems

\* What is claimed of the files after a result: of f in the directory that the
\* user has not removed, or not added, and of f that is gone.
Claims(l, w, ms, a, v, ns, s, sv, G, D, X) ==
    \A f, U :
        /\ f \notin G \cup D /\ Appears(l, w, ms, s, sv, f, U) =>
              Appears(a, v, ns, s, sv, f, U)
        /\ \A t : f \notin X /\ Refreshes(l, w, ms, s, sv, f, t, U) =>
                     Refreshes(a, v, ns, s, sv, f, t, U)
        /\ \A x : (f \in X => x) /\ Vanishes(l, w, ms, s, sv, f, x, U) =>
                     Vanishes(a, v, ns, s, sv, f, x, U)

\* The scan goes on from its partial result r.
LEMMA PartialResult ==
    ASSUME NEW l \in Catalogue, NEW idx, NEW w \in Jobs \cup {NoWorker}, NEW ms, NEW ns,
           NEW s, NEW S, NEW G, NEW D, NEW X, Grounded(l, idx, w, ms, s, S, G),
           Ordered(l, idx, w, ms, s, G, D, X),
           NEW r \in Results, Pending(r, w, ms, s), ~r.complete,
           \A q \in Results : Pending(q, w, ns, s) => Pending(q, w, ms, s) /\ q.complete,
           ~Idle(w, ns, s), NEW a, a = Applied(l, r), a.loaded, NEW sv
    PROVE  /\ Ordered(a, TRUE, w, ns, s, G, D, X)
           /\ Claims(l, w, ms, a, w, ns, s, sv, G, D, X)
<1>1. /\ a \in Catalogue /\ a.files = l.files /\ a.directory = l.directory
      /\ a.edits = l.edits /\ a.fileChanges = l.fileChanges
  <2>1. a.edits = Without(l.edits, {}) /\ a.fileChanges = Without(l.fileChanges, {})
    BY DEF Applied, Catalogue
  <2>2. l.edits \in Edits /\ l.fileChanges \in Notices
    BY CatalogueFields
  <2>3. Without(l.edits, {}) = l.edits /\ Without(l.fileChanges, {}) = l.fileChanges
    BY <2>2, EntriesYields DEF Without, Edits, Notices
  <2>4. a.directory = l.directory
    BY DEF Applied, Catalogue
  <2> QED BY <2>1, <2>3, <2>4, AppliedYields
<1>2. r.missing = {} /\ r.missing \subseteq G /\ DOMAIN r.items \subseteq S
  BY DEF Ordered, Parts, Grounded, KnownResults
<1>3. Behind(l, r.observed, r.revision)
  BY DEF Ordered, Parts
<1>4. /\ w.pc \in Running => w.revision = r.revision
      /\ \A q \in Results : Pending(q, w, ns, s) => q.revision = r.revision
  BY DEF Grounded, OneScan
<1>5. Fits(a, G, D, X)
  BY <1>2, AppliedFits DEF Ordered, Grounded
<1>6. \A O : Behind(l, O, r.revision) => Behind(a, O, r.revision)
  BY <1>2, AppliedBehind
<1>7. Ordered(a, TRUE, w, ns, s, G, D, X)
  <2>1. Scans(a, w, X)
    BY <1>4, <1>6 DEF Ordered, Scans
  <2>2. Parts(a, w, ns, s)
    BY <1>4, <1>6 DEF Ordered, Parts
  <2> QED BY <1>5, <2>1, <2>2 DEF Ordered
<1>8. ASSUME NEW f, NEW U, f \notin G \cup D, Appears(l, w, ms, s, sv, f, U)
      PROVE  Appears(a, w, ns, s, sv, f, U)
  <2>1. ASSUME NEW m, Finds(l, m, r.revision, f) PROVE Finds(a, m, r.revision, f)
    BY <2>1, AppliedFinds
  <2>2. Shown(l, w, ms, s, sv, f) => Shown(a, w, ns, s, sv, f)
    BY <1>4, <2>1 DEF Shown
  <2>3. ASSUME f \in DOMAIN a.items PROVE Kept(a, w, ns, s, sv, f)
    <3>1. f \notin a.excluded
      BY <1>5, <1>8 DEF Fits
    <3>2. f \in DOMAIN r.items \/ WholeEdit(l, f, r.revision)
      BY <2>3, <3>1, AppliedItems
    <3>3. f \in DOMAIN a.persisted
      BY <2>3, <3>1, AppliedRates DEF Live
    <3>4. Here(a, sv, f)
      BY <2>3, <3>1, <3>3 DEF Here
    <3>5. ASSUME w.pc \in Running PROVE Finds(a, Coming(w, sv), w.revision, f)
      <4>1. DOMAIN r.items \subseteq DOMAIN w.items
        BY <3>5 DEF Ordered, Parts
      <4>2. f \in DOMAIN r.items => f \in DOMAIN Coming(w, sv)
        BY <4>1, ComingFirst
      <4>3. Finds(l, Coming(w, sv), r.revision, f)
        BY <3>2, <4>2 DEF Finds
      <4> QED BY <1>4, <2>1, <3>5, <4>3
    <3>6. ASSUME NEW q \in Results, Pending(q, w, ns, s)
          PROVE  Finds(a, q.items, q.revision, f)
      <4>1. f \in DOMAIN r.items => f \in DOMAIN q.items
        BY <3>6 DEF Ordered, Parts
      <4>2. Finds(l, q.items, r.revision, f)
        BY <3>2, <4>1 DEF Finds
      <4> QED BY <1>4, <2>1, <3>6, <4>2
    <3> QED BY <3>4, <3>5, <3>6 DEF Kept
  <2> QED BY <1>1, <1>8, <2>2, <2>3 DEF Appears
<1>9. ASSUME NEW f, NEW U, NEW t, Refreshes(l, w, ms, s, sv, f, t, U)
      PROVE  Refreshes(a, w, ns, s, sv, f, t, U)
  <2>1. Fresh(l, w, ms, s, sv, f, t) => Fresh(a, w, ns, s, sv, f, t)
    BY DEF Fresh
  <2> QED BY <1>1, <1>9, <2>1 DEF Refreshes
<1>10. ASSUME NEW f, NEW U, NEW x, Vanishes(l, w, ms, s, sv, f, x, U)
       PROVE  Vanishes(a, w, ns, s, sv, f, x, U)
  <2>1. Warned(l, f, r.revision) => Warned(a, f, r.revision)
    BY <1>1 DEF Warned, News
  <2>2. ASSUME NEW m, NEW b, Barred(l, m, r.revision, f, b)
        PROVE  Barred(a, m, r.revision, f, b)
    <3>1. f \in l.excluded => f \in a.excluded \/ News(l, f, r.revision)
      BY <1>3, AppliedStillExcludes
    <3> QED BY <1>1, <2>2, <3>1 DEF Barred, News, Edit
  <2>3. Hidden(l, w, ms, s, sv, f, x) => Hidden(a, w, ns, s, sv, f, x)
    BY <1>4, <2>1, <2>2 DEF Hidden
  <2> QED BY <1>1, <1>10, <2>3 DEF Vanishes
<1> QED BY <1>7, <1>8, <1>9, <1>10 DEF Claims

\* The complete result r is the last of its scan.
LEMMA CompleteResult ==
    ASSUME NEW l \in Catalogue, NEW idx, NEW w \in Jobs \cup {NoWorker}, NEW ms, NEW ns,
           NEW s, NEW S, NEW G, NEW D, NEW X, Grounded(l, idx, w, ms, s, S, G),
           Ordered(l, idx, w, ms, s, G, D, X),
           NEW r \in Results, Pending(r, w, ms, s), r.complete,
           NEW v \in {w, NoWorker}, Resting(v, ns, s),
           NEW a, a = Applied(l, r), a.loaded, NEW sv
    PROVE  /\ Ordered(a, FALSE, v, ns, s, G, D, X)
           /\ Claims(l, w, ms, a, v, ns, s, sv, G, D, X)
<1>1. a \in Catalogue /\ a.files = l.files /\ a.directory = l.directory
  <2>1. a.directory = l.directory
    BY DEF Applied, Catalogue
  <2> QED BY <2>1, AppliedYields
<1>2. r.missing \subseteq G /\ DOMAIN r.items \subseteq S
  BY DEF Grounded, KnownResults
<1>3. Behind(l, r.observed, r.revision)
  BY DEF Ordered, Parts
<1>4. Fits(a, G, D, X)
  BY <1>2, AppliedFits DEF Ordered, Grounded
<1>5. Ordered(a, FALSE, v, ns, s, G, D, X)
  <2>1. Scans(a, v, X)
    BY DEF Ordered, Scans, Resting
  <2>2. Parts(a, v, ns, s)
    BY DEF Parts, Resting
  <2> QED BY <1>4, <2>1, <2>2 DEF Ordered
<1>6. ASSUME NEW f, NEW U, f \notin G \cup D, Appears(l, w, ms, s, sv, f, U)
      PROVE  Appears(a, v, ns, s, sv, f, U)
  <2>1. f \notin a.excluded
    BY <1>4, <1>6 DEF Fits
  <2>2. ASSUME f \in DOMAIN a.items PROVE Kept(a, v, ns, s, sv, f)
    <3>1. f \in DOMAIN a.persisted
      BY <2>1, <2>2, AppliedRates DEF Live
    <3> QED BY <2>1, <2>2, <3>1 DEF Kept, Here, Resting
  <2>3. Shown(l, w, ms, s, sv, f) => f \in DOMAIN a.persisted
    BY <2>1, AppliedLives DEF Shown
  <2>4. Shown(l, w, ms, s, sv, f) => Shown(a, v, ns, s, sv, f)
    BY <2>3 DEF Shown, Resting
  <2> QED BY <1>1, <1>6, <2>2, <2>4 DEF Appears
<1>7. \A f : WholeEdit(l, f, r.revision) => f \in X
  BY DEF Ordered, Fits, WholeEdit, Edit
<1>8. ASSUME NEW f, NEW U, NEW t, f \notin X, Refreshes(l, w, ms, s, sv, f, t, U)
      PROVE  Refreshes(a, v, ns, s, sv, f, t, U)
  <2>1. Tagged(r.items, f, t) => Tagged(a.items, f, t)
    BY <1>7, <1>8, AppliedTags DEF Tagged
  <2>2. Fresh(l, w, ms, s, sv, f, t) => Fresh(a, v, ns, s, sv, f, t)
    BY <2>1 DEF Fresh, Resting
  <2> QED BY <1>1, <1>8, <2>2 DEF Refreshes
<1>9. ASSUME NEW f, NEW U, NEW x, f \in X => x, Vanishes(l, w, ms, s, sv, f, x, U)
      PROVE  Vanishes(a, v, ns, s, sv, f, x, U)
  <2>1. Hidden(l, w, ms, s, sv, f, x) => x \/ f \notin Live(a)
    <3> SUFFICES ASSUME Hidden(l, w, ms, s, sv, f, x), ~x PROVE f \notin Live(a)
      OBVIOUS
    <3>1. /\ Warned(l, f, r.revision)
          /\ Barred(l, DOMAIN r.items, r.revision, f, f \in r.missing)
      BY DEF Hidden
    <3>2. ~WholeEdit(l, f, r.revision)
      BY <1>7, <1>9
    <3> QED BY <1>3, <3>1, <3>2, AppliedHides
  <2>2. Hidden(l, w, ms, s, sv, f, x) => Hidden(a, v, ns, s, sv, f, x)
    BY <2>1 DEF Hidden, Resting
  <2> QED BY <1>1, <1>9, <2>2 DEF Vanishes
<1> QED BY <1>5, <1>6, <1>8, <1>9 DEF Claims

LEMMA LessIsGrounded ==
    ASSUME NEW l, NEW idx, NEW w \in Jobs \cup {NoWorker}, NEW v \in {w, NoWorker},
           NEW ms, NEW ns, NEW s,
           \A q \in Results : Pending(q, v, ns, s) => Pending(q, w, ms, s),
           NEW S, NEW G, Grounded(l, idx, w, ms, s, S, G)
    PROVE  Grounded(l, idx, v, ns, s, S, G)
BY LessOnItsWay

\* The handler that applies the result r, with the worker v that it leaves.
LEMMA ResultMirrors ==
    ASSUME IInv, TInv, CInv, Steady(env), phase = "open",
           UNCHANGED <<present, content, watch, monitoring, phase, saved, history>>,
           NEW r \in Results, Pending(r, worker, messages, scan), r.generation = scan,
           NEW v \in {worker, NoWorker}, Apply(r, v),
           messages' \in Seq(Messages), Sound(lib, v, messages', scan),
           \A q \in Results : Pending(q, v, messages', scan) =>
                                  Pending(q, worker, messages, scan),
           IF r.complete THEN Resting(v, messages', scan)
           ELSE /\ v = worker /\ ~Idle(v, messages', scan)
                /\ \A q \in Results : Pending(q, v, messages', scan) => q.complete,
           \A f, A : Upstream(f, A) => Upstream(f, A)'
    PROVE  CInv'
<1>1. /\ Sound(lib, worker, messages, scan)
      /\ lib \in Catalogue /\ worker \in Jobs \cup {NoWorker}
      /\ messages \in Seq(Messages) /\ scan \in Nat
      /\ Grounded(lib, indexing, worker, messages, scan, Ever, Lost)
  BY TInvYields DEF Steady
<1>2. /\ Queued(lib) => refreshPending
      /\ watch # "closed" => monitoring
      /\ discarded \subseteq Ever
      /\ Ordered(lib, indexing, worker, messages, scan, Lost, discarded, added)
      /\ \A f \in Files : Mirrored(f)
  BY DEF CInv
<1>3. PICK ms : ms = messages'
  OBVIOUS
<1>4. PICK a : a = Applied(lib, r)
  OBVIOUS
<1>5. ~r.failed
  BY <1>2 DEF Ordered, Parts
<1>6. /\ Ends(a, ~r.complete, v)
      /\ Refresh(a, ~r.complete, v) \/ ~refreshPending
  BY <1>4, <1>5 DEF Apply, Ends
<1>7. a \in Catalogue /\ a.revision = lib.revision /\ a.files = lib.files
      /\ a.loaded = (lib.loaded \/ r.loads)
  BY <1>1, <1>4, AppliedYields
<1>8. a.directory = lib.directory
  BY <1>1, <1>4 DEF Applied, Catalogue
<1>9. a.loaded
  BY <1>1, <1>7 DEF Grounded, Loading
<1>10. InLine(r, lib, worker, messages, scan, Ever, Lost)
  BY <1>1, PendingIsInLine
<1>11. r.revision <= lib.revision
  <2>1. Numbered(worker, lib.revision, scan) /\ MailStamped(messages, lib.revision)
    BY <1>1 DEF Sound
  <2> QED BY <2>1 DEF Numbered, MailStamped, Pending, Current
<1>12. Sound(a, v, ms, scan)
  <2>1. Stamped(a)
    BY <1>1, <1>4, <1>11, AppliedStamped DEF Sound
  <2> QED BY <1>3, <1>7, <2>1 DEF Sound
<1>13. Grounded(a, ~r.complete, v, ms, scan, Ever, Lost)
  <2>1. Grounded(lib, indexing, v, ms, scan, Ever, Lost)
    <3>1. \A q \in Results : Pending(q, v, ms, scan) => Pending(q, worker, messages, scan)
      BY <1>3
    <3> QED BY <1>1, <3>1, LessIsGrounded
  <2>2. Known(a, Ever, Lost)
    BY <1>1, <1>4, <1>9, <1>10, AppliedKnows DEF Grounded, InLine
  <2>3. Loading(a, ~r.complete, v, ms, scan)
    BY <1>9 DEF Loading
  <2> QED BY <2>1, <2>2, <2>3 DEF Grounded
<1>14. /\ Ordered(a, ~r.complete, v, ms, scan, Lost, discarded, added)
       /\ Claims(lib, worker, messages, a, v, ms, scan, saved, Lost, discarded, added)
  <2>1. CASE r.complete
    <3>1. /\ Ordered(a, FALSE, v, ms, scan, Lost, discarded, added)
          /\ Claims(lib, worker, messages, a, v, ms, scan, saved, Lost, discarded, added)
      BY <1>1, <1>2, <1>3, <1>4, <1>9, <2>1, CompleteResult
    <3> QED BY <2>1, <3>1
  <2>2. CASE ~r.complete
    <3>1. /\ v = worker /\ ~Idle(worker, ms, scan)
          /\ \A q \in Results : Pending(q, worker, ms, scan) =>
                                    Pending(q, worker, messages, scan) /\ q.complete
      BY <1>3, <2>2
    <3>2. /\ Ordered(a, TRUE, worker, ms, scan, Lost, discarded, added)
          /\ Claims(lib, worker, messages, a, worker, ms, scan, saved, Lost, discarded, added)
      BY <1>1, <1>2, <1>4, <1>9, <2>2, <3>1, PartialResult
    <3> QED BY <2>2, <3>1, <3>2
  <2> QED BY <2>1, <2>2
<1>15. ASSUME NEW f \in Files
       PROVE  /\ f \in present \ discarded =>
                    Appears(a, v, ms, scan, saved, f, Upstream(f, {"added"})')
              /\ f \in present \ added =>
                    Refreshes(a, v, ms, scan, saved, f, content[f],
                              Upstream(f, {"modified"})')
              /\ f \in Lost =>
                    Vanishes(a, v, ms, scan, saved, f, f \in DOMAIN rated \cup added,
                             Upstream(f, {"removed"})')
  <2>1. f \in present \ discarded =>
            Appears(a, v, ms, scan, saved, f, Upstream(f, {"added"}))
    BY <1>2, <1>14 DEF Mirrored, Claims, Lost
  <2>2. f \in present \ added =>
            Refreshes(a, v, ms, scan, saved, f, content[f], Upstream(f, {"modified"}))
    BY <1>2, <1>14 DEF Mirrored, Claims
  <2>3. f \in Lost =>
            Vanishes(a, v, ms, scan, saved, f, f \in DOMAIN rated \cup added,
                     Upstream(f, {"removed"}))
    BY <1>2, <1>14 DEF Mirrored, Claims
  <2>4. \A A : Upstream(f, A) => Upstream(f, A)'
    OBVIOUS
  <2> QED BY <2>1, <2>2, <2>3, <2>4 DEF Appears, Refreshes, Vanishes
<1>16. /\ phase' = "open" /\ rated' = rated /\ discarded' = discarded /\ added' = added
       /\ UNCHANGED <<present, content, saved>>
       /\ watch' # "closed" => monitoring'
  BY <1>2 DEF history
<1>17. Refresh(a, ~r.complete, v) \/ (Queued(a) => refreshPending)
  BY <1>2, <1>6, <1>7, <1>8 DEF Queued
<1>18. v \in Jobs \cup {NoWorker} /\ (~r.complete) \in BOOLEAN
  BY <1>1, ResultFields
<1>19. /\ Sound(a, v, messages', scan)
       /\ Grounded(a, ~r.complete, v, messages', scan, Ever, Lost)
       /\ Ordered(a, ~r.complete, v, messages', scan, Lost, discarded', added')
       /\ discarded' \subseteq Ever
       /\ \A f \in Files :
             /\ f \in present \ discarded' =>
                   Appears(a, v, messages', scan, saved, f, Upstream(f, {"added"})')
             /\ f \in present \ added' =>
                   Refreshes(a, v, messages', scan, saved, f, content[f],
                             Upstream(f, {"modified"})')
             /\ f \in Lost =>
                   Vanishes(a, v, messages', scan, saved, f, f \in DOMAIN rated' \cup added',
                            Upstream(f, {"removed"})')
  BY <1>2, <1>3, <1>12, <1>13, <1>14, <1>15, <1>16
<1> QED BY <1>1, <1>6, <1>7, <1>16, <1>17, <1>18, <1>19, HandlerMirrors

LEMMA ReceiveResultMirrors == IInv /\ TInv /\ CInv /\ ReceiveResult => CInv'
<1> SUFFICES ASSUME IInv, TInv, CInv, ReceiveResult, Steady(env'), phase' = "open"
             PROVE  CInv'
  BY DEF CInv
<1>1. /\ UNCHANGED <<env, present, content, watch, monitoring, generation, recorded,
                     phase, saved, history>>
      /\ Steady(env) /\ phase = "open"
  BY DEF ReceiveResult, diskVars, watchVars
<1>2. /\ Sound(lib, worker, messages, scan)
      /\ lib \in Catalogue /\ worker \in Jobs \cup {NoWorker}
      /\ messages \in Seq(Messages) /\ scan \in Nat /\ indexing \in BOOLEAN
      /\ Grounded(lib, indexing, worker, messages, scan, Ever, Lost)
  BY <1>1, TInvYields DEF Steady
<1>3. Delivery(indexing, worker, messages, scan)
  BY <1>1 DEF IInv, Avoids, Steady, Plain
<1>4. /\ messages # <<>> /\ messages[1].kind = "ready"
      /\ messages' = RemoveAt(messages, 1) /\ Apply(messages[1], worker)
  BY <1>1 DEF ReceiveResult
<1>5. 1 \in DOMAIN messages /\ Tail(messages) = RemoveAt(messages, 1)
  BY <1>2, <1>4, TailIsTaken
<1>6. PICK ms, r : ms = RemoveAt(messages, 1) /\ r = messages[1]
  OBVIOUS
<1>7. r \in Results
  <2>1. r \in Messages
    BY <1>2, <1>5, <1>6
  <2> QED BY <1>4, <1>6, <2>1, ReadyIsResult
<1>8. ms \in Seq(Messages) /\ Sound(lib, worker, ms, scan)
  BY <1>2, <1>5, <1>6, TakenKeeps
<1>9. Taken(messages, 1, scan, ms) /\ MailOK(messages, scan)
  BY <1>2, <1>5, <1>6, TakenYields DEF Sound, Protocol
<1>10. \A q \in Results : Pending(q, worker, ms, scan) => Pending(q, worker, messages, scan)
  BY <1>2, <1>5, <1>6, <1>9, TakenIsLess
<1>11. \A f, A : Upstream(f, A) => Upstream(f, A)'
  <2>1. \A f, A : ~About(messages[1], f, A)
    BY <1>4 DEF About
  <2> QED BY <1>1, <1>2, <1>4, <1>5, <2>1, UpstreamTaken
<1>12. worker.unposted # NoResult => worker.unposted \in Results /\ worker.unposted.complete
  BY <1>2, <1>3, WorkerFields DEF Delivery
<1>13. ASSUME NEW k \in DOMAIN ms, Current(ms[k], scan)
       PROVE  ms[k] \in Results /\ Pending(ms[k], worker, ms, scan)
  <2>1. ms[k] \in Messages
    BY <1>8, <1>13
  <2> QED BY <1>13, <2>1, ReadyIsResult DEF Current, Pending
<1>14. CASE r.generation = scan
  <2>1. Current(r, scan) /\ Pending(r, worker, messages, scan)
    BY <1>4, <1>5, <1>6, <1>14 DEF Current, Pending
  <2>2. OnItsWay(messages, scan, r.complete)
    BY <1>5, <1>6, <2>1 DEF OnItsWay
  <2>3. ~OnItsWay(ms, scan, FALSE) /\ (r.complete => ~OnItsWay(ms, scan, TRUE))
    BY <1>6, <1>9, <2>1 DEF Taken
  <2>4. ASSUME r.complete PROVE Resting(worker, ms, scan)
    <3>1. OnItsWay(messages, scan, TRUE)
      BY <2>2, <2>4
    <3>2. worker.pc \notin Running /\ worker.unposted = NoResult
      BY <1>2, <1>12, <3>1 DEF Sound, Protocol
    <3>3. \A k \in DOMAIN ms : ~Current(ms[k], scan)
      BY <1>13, <2>3, <2>4, ResultFields DEF OnItsWay
    <3> QED BY <3>2, <3>3 DEF Resting, Pending
  <2>5. ASSUME ~r.complete
        PROVE  /\ ~Idle(worker, ms, scan)
               /\ \A q \in Results : Pending(q, worker, ms, scan) => q.complete
    <3>1. OnItsWay(messages, scan, FALSE)
      BY <1>7, <2>2, <2>5, ResultFields
    <3>2. OnItsWay(messages, scan, TRUE) => OnItsWay(ms, scan, TRUE)
      BY <1>6, <1>9, <2>5 DEF Taken
    <3>3. worker.pc \in Running \/ worker.unposted # NoResult \/ OnItsWay(ms, scan, TRUE)
      BY <1>3, <3>1, <3>2 DEF Delivery
    <3>4. ~Idle(worker, ms, scan)
      <4>1. CASE worker.pc \in Running
        BY <4>1 DEF Idle
      <4>2. CASE worker.unposted # NoResult
        BY <1>12, <4>2 DEF Idle, Pending
      <4>3. CASE OnItsWay(ms, scan, TRUE)
        BY <1>13, <4>3 DEF Idle, OnItsWay
      <4> QED BY <3>3, <4>1, <4>2, <4>3
    <3>5. ASSUME NEW q \in Results, Pending(q, worker, ms, scan) PROVE q.complete
      <4>1. CASE q = worker.unposted /\ q # NoResult
        BY <1>12, <4>1
      <4>2. CASE \E k \in DOMAIN ms : q = ms[k] /\ Current(q, scan)
        BY <2>3, <4>2, ResultFields DEF OnItsWay
      <4> QED BY <3>5, <4>1, <4>2 DEF Pending
    <3> QED BY <3>4, <3>5
  <2>6. Apply(r, worker) /\ messages' = ms
    BY <1>4, <1>6
  <2>7. /\ messages' \in Seq(Messages) /\ Sound(lib, worker, messages', scan)
        /\ \A q \in Results : Pending(q, worker, messages', scan) =>
                                  Pending(q, worker, messages, scan)
        /\ IF r.complete THEN Resting(worker, messages', scan)
           ELSE /\ worker = worker /\ ~Idle(worker, messages', scan)
                /\ \A q \in Results : Pending(q, worker, messages', scan) => q.complete
    BY <1>8, <1>10, <2>4, <2>5, <2>6
  <2>8. worker \in {worker, NoWorker}
    OBVIOUS
  <2> QED BY <1>1, <1>7, <1>11, <1>14, <2>1, <2>6, <2>7, <2>8, ResultMirrors
<1>15. CASE r.generation # scan
  <2>1. Settle(lib, indexing, worker)
    BY <1>4, <1>6, <1>15 DEF Apply
  <2>2. ~Current(messages[1], scan)
    BY <1>6, <1>15 DEF Current
  <2>3. OnItsWay(messages, scan, TRUE) => OnItsWay(ms, scan, TRUE)
    BY <1>9, <2>2 DEF Taken
  <2>4. ASSUME Idle(worker, ms, scan) PROVE Idle(worker, messages, scan)
    <3>1. ~OnItsWay(messages, scan, TRUE)
      BY <1>13, <2>3, <2>4 DEF Idle, OnItsWay
    <3>2. ASSUME NEW q \in Results, Pending(q, worker, messages, scan) PROVE ~q.complete
      <4>1. CASE q = worker.unposted /\ q # NoResult
        BY <2>4, <4>1 DEF Idle, Pending
      <4>2. CASE \E k \in DOMAIN messages : q = messages[k] /\ Current(q, scan)
        BY <3>1, <4>2, ResultFields DEF OnItsWay
      <4> QED BY <3>2, <4>1, <4>2 DEF Pending
    <3> QED BY <2>4, <3>2 DEF Idle
  <2>5. /\ Ordered(lib, indexing, worker, ms, scan, Lost, discarded, added)
        /\ \A f \in Files :
              /\ f \in present \ discarded =>
                    Appears(lib, worker, ms, scan, saved, f, Upstream(f, {"added"}))
              /\ f \in present \ added =>
                    Refreshes(lib, worker, ms, scan, saved, f, content[f],
                              Upstream(f, {"modified"}))
              /\ f \in Lost =>
                    Vanishes(lib, worker, ms, scan, saved, f, f \in DOMAIN rated \cup added,
                             Upstream(f, {"removed"}))
    BY <1>1, <1>2, <1>10, <2>4, ClaimsGo
  <2>6. Grounded(lib, indexing, worker, ms, scan, Ever, Lost)
    BY <1>2, <1>10, LessOnItsWay
  <2>7. /\ messages' = ms /\ rated' = rated /\ discarded' = discarded /\ added' = added
        /\ Queued(lib) => refreshPending
        /\ watch' # "closed" => monitoring'
        /\ discarded' \subseteq Ever
    BY <1>1, <1>4, <1>6 DEF CInv, history
  <2>8. ASSUME NEW f \in Files
        PROVE  /\ f \in present \ discarded =>
                     Appears(lib, worker, ms, scan, saved, f, Upstream(f, {"added"})')
               /\ f \in present \ added =>
                     Refreshes(lib, worker, ms, scan, saved, f, content[f],
                               Upstream(f, {"modified"})')
               /\ f \in Lost =>
                     Vanishes(lib, worker, ms, scan, saved, f, f \in DOMAIN rated \cup added,
                              Upstream(f, {"removed"})')
    <3>1. \A A : Upstream(f, A) => Upstream(f, A)'
      BY <1>11
    <3> QED BY <2>5, <3>1 DEF Appears, Refreshes, Vanishes
  <2>9. /\ messages' \in Seq(Messages) /\ Sound(lib, worker, messages', scan)
        /\ Grounded(lib, indexing, worker, messages', scan, Ever, Lost)
        /\ Ordered(lib, indexing, worker, messages', scan, Lost, discarded', added')
        /\ \A f \in Files :
              /\ f \in present \ discarded' =>
                    Appears(lib, worker, messages', scan, saved, f, Upstream(f, {"added"})')
              /\ f \in present \ added' =>
                    Refreshes(lib, worker, messages', scan, saved, f, content[f],
                              Upstream(f, {"modified"})')
              /\ f \in Lost =>
                    Vanishes(lib, worker, messages', scan, saved, f,
                             f \in DOMAIN rated' \cup added', Upstream(f, {"removed"})')
    BY <1>8, <2>5, <2>6, <2>7, <2>8
  <2>10. Ends(lib, indexing, worker)
    BY <2>1 DEF Ends
  <2> QED BY <1>1, <1>2, <2>7, <2>9, <2>10, HandlerMirrors
<1> QED BY <1>14, <1>15

LEMMA PollWorkersMirrors == IInv /\ TInv /\ CInv /\ PollWorkers => CInv'
<1> SUFFICES ASSUME IInv, TInv, CInv, PollWorkers, Steady(env'), phase' = "open"
             PROVE  CInv'
  BY DEF CInv
<1>1. /\ UNCHANGED <<env, present, content, messages, watch, monitoring, generation,
                     recorded, phase, saved, history>>
      /\ Steady(env) /\ phase = "open" /\ worker.pc = "done" /\ messages = <<>>
  BY DEF PollWorkers, monitorVars, diskVars, watchVars
<1>2. /\ Sound(lib, worker, messages, scan)
      /\ lib \in Catalogue /\ worker \in Jobs \cup {NoWorker}
      /\ messages \in Seq(Messages) /\ scan \in Nat /\ indexing \in BOOLEAN
      /\ Grounded(lib, indexing, worker, messages, scan, Ever, Lost)
  BY <1>1, TInvYields DEF Steady
<1>3. worker \in Jobs /\ worker.pc \notin Running
  BY <1>1, <1>2, WorkerFields DEF Running
<1>4. /\ NoWorker \in Jobs \cup {NoWorker} /\ NoWorker.unposted = NoResult
      /\ NoWorker.pc \notin Running /\ NoWorker.pc = "none"
      /\ NoWorker \in {worker, NoWorker}
  BY DEF NoWorker, Running
<1>5. Sound(lib, NoWorker, messages, scan)
  BY <1>2, <1>4 DEF Sound, Numbered, Protocol, Running
<1>6. Resting(NoWorker, messages, scan)
  BY <1>1, <1>4 DEF Resting, Pending
<1>7. \A q \in Results : Pending(q, NoWorker, messages, scan) =>
                             Pending(q, worker, messages, scan)
  BY <1>6 DEF Resting
<1>8. \A f, A : Upstream(f, A) => Upstream(f, A)'
  BY <1>1 DEF Upstream, Accept
<1>9. CASE worker.unposted # NoResult
  <2>1. PICK r \in Results : r = worker.unposted
    BY <1>3, <1>9, JobFields
  <2>2. Pending(r, worker, messages, scan)
    BY <1>9, <2>1 DEF Pending
  <2>3. r.generation = scan /\ r.complete
    BY <1>2, <1>9, <2>1 DEF Sound, Numbered, Grounded, Whole
  <2>4. Apply(r, NoWorker)
    BY <1>9, <2>1 DEF PollWorkers
  <2>5. /\ messages' \in Seq(Messages) /\ Sound(lib, NoWorker, messages', scan)
        /\ \A q \in Results : Pending(q, NoWorker, messages', scan) =>
                                  Pending(q, worker, messages, scan)
        /\ Resting(NoWorker, messages', scan)
    BY <1>1, <1>2, <1>5, <1>6, <1>7
  <2> QED BY <1>1, <1>4, <1>8, <2>2, <2>3, <2>4, <2>5, ResultMirrors
<1>10. CASE worker.unposted = NoResult
  <2>1. PICK idx : idx = (indexing /\ (worker.posted \/ worker.generation # scan))
    OBVIOUS
  <2>2. /\ Ends(lib, idx, NoWorker) /\ idx \in BOOLEAN
    BY <1>10, <2>1 DEF PollWorkers, Ends
  <2>3. Grounded(lib, idx, NoWorker, messages, scan, Ever, Lost)
    <3>1. Grounded(lib, indexing, NoWorker, messages, scan, Ever, Lost)
      BY <1>2, <1>4, <1>7, LessOnItsWay
    <3>2. ~lib.loaded => indexing /\ worker.posted
      BY <1>1, <1>2, <1>10 DEF Grounded, Loading
    <3>3. Loading(lib, idx, NoWorker, messages, scan)
      BY <2>1, <3>1, <3>2 DEF Grounded, Loading
    <3> QED BY <3>1, <3>3 DEF Grounded
  <2>4. Idle(worker, messages, scan)
    BY <1>1, <1>3, <1>10 DEF Idle, Pending
  <2>5. /\ Ordered(lib, indexing, NoWorker, messages, scan, Lost, discarded, added)
        /\ \A f \in Files :
              /\ f \in present \ discarded =>
                    Appears(lib, NoWorker, messages, scan, saved, f, Upstream(f, {"added"}))
              /\ f \in present \ added =>
                    Refreshes(lib, NoWorker, messages, scan, saved, f, content[f],
                              Upstream(f, {"modified"}))
              /\ f \in Lost =>
                    Vanishes(lib, NoWorker, messages, scan, saved, f,
                             f \in DOMAIN rated \cup added, Upstream(f, {"removed"}))
    BY <1>1, <1>2, <1>3, <1>7, <2>4, ClaimsGo
  <2>6. Ordered(lib, idx, NoWorker, messages, scan, Lost, discarded, added)
    BY <1>6, <2>5 DEF Ordered
  <2>7. /\ messages' = messages /\ rated' = rated /\ discarded' = discarded
        /\ added' = added
        /\ Queued(lib) => refreshPending
        /\ watch' # "closed" => monitoring'
        /\ discarded' \subseteq Ever
    BY <1>1 DEF CInv, history
  <2>8. ASSUME NEW f \in Files
        PROVE  /\ f \in present \ discarded =>
                     Appears(lib, NoWorker, messages, scan, saved, f, Upstream(f, {"added"})')
               /\ f \in present \ added =>
                     Refreshes(lib, NoWorker, messages, scan, saved, f, content[f],
                               Upstream(f, {"modified"})')
               /\ f \in Lost =>
                     Vanishes(lib, NoWorker, messages, scan, saved, f,
                              f \in DOMAIN rated \cup added, Upstream(f, {"removed"})')
    <3>1. \A A : Upstream(f, A) => Upstream(f, A)'
      BY <1>8
    <3> QED BY <2>5, <3>1 DEF Appears, Refreshes, Vanishes
  <2>9. /\ messages' \in Seq(Messages) /\ Sound(lib, NoWorker, messages', scan)
        /\ Grounded(lib, idx, NoWorker, messages', scan, Ever, Lost)
        /\ Ordered(lib, idx, NoWorker, messages', scan, Lost, discarded', added')
        /\ \A f \in Files :
              /\ f \in present \ discarded' =>
                    Appears(lib, NoWorker, messages', scan, saved, f, Upstream(f, {"added"})')
              /\ f \in present \ added' =>
                    Refreshes(lib, NoWorker, messages', scan, saved, f, content[f],
                              Upstream(f, {"modified"})')
              /\ f \in Lost =>
                    Vanishes(lib, NoWorker, messages', scan, saved, f,
                             f \in DOMAIN rated' \cup added', Upstream(f, {"removed"})')
    BY <1>2, <1>5, <2>3, <2>6, <2>7, <2>8
  <2> QED BY <1>1, <1>2, <1>4, <2>2, <2>7, <2>9, HandlerMirrors
<1> QED BY <1>9, <1>10

-----------------------------------------------------------------------------
(* The library is current: the end, the initial states, the theorem.       *)

LEMMA ShutdownMirrors == CInv /\ Shutdown => CInv'
<1> SUFFICES ASSUME Shutdown, phase' = "open" PROVE FALSE
  BY DEF CInv
<1> QED BY DEF Shutdown, Close, SaveLibrary, TakeUnposted

\* The monitor is about to open the directory, and then asks for a scan.
LEMMA InitMirrors == Init => CInv
<1> SUFFICES ASSUME Init PROVE CInv
  OBVIOUS
<1>1. /\ lib = EmptyCatalogue /\ discarded = {} /\ indexing = TRUE /\ messages = <<>>
      /\ watch = "closed" /\ monitoring = TRUE
      /\ worker = Job([EmptyCatalogue EXCEPT !.directory = TRUE], 1)
  BY DEF Init, MonitorInit
<1>2. DOMAIN None = {} /\ DOMAIN messages = {}
  BY <1>1, NothingIs
<1>3. /\ lib.items = None /\ lib.persisted = None /\ lib.edits = None
      /\ lib.tracks = None /\ lib.removed = None /\ lib.excluded = {}
      /\ lib.files = {} /\ lib.directory = FALSE
  BY <1>1 DEF EmptyCatalogue
<1>4. PICK w : w = worker
  OBVIOUS
<1>5. /\ w.tracks = None /\ w.missing = {} /\ w.tried = {} /\ w.unposted = NoResult
  <2>1. PICK l : l = [EmptyCatalogue EXCEPT !.directory = TRUE]
    OBVIOUS
  <2>2. l.tracks = None
    BY <2>1 DEF EmptyCatalogue
  <2>3. w = Job(l, 1)
    BY <1>1, <1>4, <2>1
  <2> QED BY <2>2, <2>3 DEF Job
<1>6. \A q : ~Pending(q, w, messages, scan)
  BY <1>2, <1>5 DEF Pending
<1>7. Fits(lib, Lost, discarded, added)
  BY <1>2, <1>3 DEF Fits, Live
<1>8. Scans(lib, w, added) /\ Parts(lib, w, messages, scan)
  BY <1>2, <1>3, <1>5, <1>6 DEF Scans, Behind, Parts
<1>9. Ordered(lib, indexing, w, messages, scan, Lost, discarded, added)
  BY <1>1, <1>7, <1>8 DEF Ordered
<1>10. ~Queued(lib)
  BY <1>3 DEF Queued
<1>11. \A f \in Files : Mirrored(f)
  <2>1. \A f, A : Upstream(f, A)
    BY <1>1 DEF Upstream
  <2> QED BY <1>2, <1>3, <2>1 DEF Mirrored, Appears, Refreshes, Vanishes
<1> QED BY <1>1, <1>4, <1>9, <1>10, <1>11 DEF CInv

LEMMA StutterMirrors == CInv /\ UNCHANGED vars => CInv'
<1> SUFFICES ASSUME CInv, UNCHANGED vars PROVE CInv'
  OBVIOUS
<1>1. UNCHANGED <<env, present, content, watch, monitoring, generation, recorded, messages,
                  lib, indexing, refreshPending, scan, worker, phase, saved, rated,
                  discarded, added>>
  BY DEF vars, monitorVars, libraryVars, diskVars, watchVars, history
<1>2. \A f, A : Upstream(f, A) <=> Upstream(f, A)'
  BY <1>1 DEF Upstream, Accept
<1>3. Ever' = Ever /\ Lost' = Lost
  BY <1>1 DEF Ever, Lost
<1>4. ASSUME NEW f, Mirrored(f) PROVE Mirrored(f)'
  <2>1. f \in present \ discarded =>
            Appears(lib, worker, messages, scan, saved, f, Upstream(f, {"added"})')
    <3>1. f \in present \ discarded =>
              Appears(lib, worker, messages, scan, saved, f, Upstream(f, {"added"}))
      BY <1>4 DEF Mirrored
    <3> QED BY <1>2, <3>1 DEF Appears
  <2>2. f \in present \ added =>
            Refreshes(lib, worker, messages, scan, saved, f, content[f],
                      Upstream(f, {"modified"})')
    <3>1. f \in present \ added =>
              Refreshes(lib, worker, messages, scan, saved, f, content[f],
                        Upstream(f, {"modified"}))
      BY <1>4 DEF Mirrored
    <3> QED BY <1>2, <3>1 DEF Refreshes
  <2>3. f \in Lost =>
            Vanishes(lib, worker, messages, scan, saved, f, f \in DOMAIN rated \cup added,
                     Upstream(f, {"removed"})')
    <3>1. f \in Lost =>
              Vanishes(lib, worker, messages, scan, saved, f, f \in DOMAIN rated \cup added,
                       Upstream(f, {"removed"}))
      BY <1>4 DEF Mirrored
    <3> QED BY <1>2, <3>1 DEF Vanishes
  <2> QED BY <1>1, <1>3, <2>1, <2>2, <2>3 DEF Mirrored
<1> QED BY <1>1, <1>3, <1>4 DEF CInv

LEMMA MirroredIsCurrent ==
    ASSUME IInv, TInv, CInv
    PROVE  LibraryIsCurrent
<1> SUFFICES ASSUME Quiet, Steady(env)
             PROVE  /\ present \ discarded \subseteq Live(lib)
                    /\ Live(lib) \subseteq present \cup DOMAIN rated \cup added
                    /\ \A f \in (Live(lib) \cap present) \ added :
                           lib.items[f].tags = content[f]
  BY DEF LibraryIsCurrent, Avoids, Mishaps, Steady, Plain
<1>1. /\ phase = "open" /\ messages = <<>> /\ recorded = <<>> /\ watch = "waiting"
      /\ ~indexing /\ ~refreshPending
  BY DEF Quiet
<1>2. /\ Queued(lib) => refreshPending
      /\ watch # "closed" => monitoring
      /\ Ordered(lib, indexing, worker, messages, scan, Lost, discarded, added)
      /\ \A f \in Files : Mirrored(f)
  BY <1>1 DEF CInv
<1>3. lib.files = {} /\ ~lib.directory
  BY <1>1, <1>2 DEF Queued
<1>4. \A f, A : ~Upstream(f, A)
  BY <1>1, <1>2 DEF Upstream
<1>5. Idle(worker, messages, scan)
  BY <1>1, <1>2, RestingIsIdle DEF Ordered
<1>6. DOMAIN lib.persisted \subseteq Live(lib)
  BY <1>2 DEF Ordered, Fits
<1>7. DOMAIN lib.items \subseteq Ever /\ present \subseteq Ever /\ Ever \subseteq Files
  BY <1>1, TInvYields DEF Steady, Grounded, Known, Ever
<1>8. ASSUME NEW f \in present \ discarded PROVE f \in Live(lib)
  BY <1>2, <1>3, <1>4, <1>5, <1>6, <1>7 DEF Mirrored, Appears, Shown
<1>9. ASSUME NEW f \in Live(lib) PROVE f \in present \cup DOMAIN rated \cup added
  BY <1>2, <1>3, <1>4, <1>5, <1>7 DEF Mirrored, Vanishes, Hidden, Live, Lost
<1>10. ASSUME NEW f \in (Live(lib) \cap present) \ added PROVE lib.items[f].tags = content[f]
  BY <1>2, <1>3, <1>4, <1>5, <1>7 DEF Mirrored, Refreshes, Fresh, Tagged, Live
<1> QED BY <1>8, <1>9, <1>10

\* Once everything has been handled the library shows the directory: every file
\* the user has not removed, with the tags last written to it unless the user
\* added it, and no other but what the user rated or added, whatever order
\* changes, overflows of the monitor's buffer, notifications, scans, refused
\* results and edits came in (HandleMediaLibraryDirectoryChange, RunBuild,
\* ApplyMediaLibraryIndex).
THEOREM LibraryMirrors == Spec => []LibraryIsCurrent
<1>1. Init => IInv /\ TInv /\ CInv
  BY InitEstablishes, InitLosesNothing, InitMirrors
<1>2. IInv /\ TInv /\ [Next]_vars => TInv'
  BY DirectoryWriteLosesNothing, WatchLosesNothing, BuildLosesNothing,
     ReceiveResultLosesNothing, ReceiveChangeLosesNothing, PollWorkersLosesNothing,
     UserCommandLosesNothing, CloseLosesNothing, TakeUnpostedLosesNothing,
     SaveLibraryLosesNothing, StutterLosesNothing
     DEF Next, Window, Shutdown
<1>3. IInv /\ TInv /\ CInv /\ [Next]_vars => CInv'
  BY DirectoryWriteMirrors, WatchMirrors, BuildMirrors, ReceiveResultMirrors,
     ReceiveChangeMirrors, PollWorkersMirrors, UserCommandMirrors, ShutdownMirrors,
     StutterMirrors
     DEF Next, Window
<1>4. IInv /\ TInv /\ CInv => LibraryIsCurrent
  BY MirroredIsCurrent
<1> QED BY <1>1, <1>2, <1>3, <1>4, InductiveInvariant, PTL DEF Spec
=============================================================================
