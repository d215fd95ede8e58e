-------------------------- MODULE MediaLibraryProofs --------------------------
(***************************************************************************)
(* Proofs about MediaLibrary, for any number of files, of changes to the   *)
(* directory and of commands, and every set of environments.               *)
(***************************************************************************)
EXTENDS MediaLibrary, SequenceTheorems, TLAPS

-----------------------------------------------------------------------------
(* Types.                                                                  *)

\* What a map from paths holds for some of the files.
Entries(T) == UNION {[S -> T] : S \in SUBSET Files}

TrackType == [tags : Nat, rating : Nat]
Tracks == Entries(TrackType)
Edits == Entries([revision : Nat, track : TrackType, ratingOnly : BOOLEAN])
Notices == Entries([revision : Nat, removed : BOOLEAN])

Catalogue ==
    [items : Tracks, persisted : Tracks, edits : Edits, removed : Entries(Nat),
     excluded : SUBSET Files, fileChanges : Notices, loaded : BOOLEAN,
     revision : Nat, files : SUBSET Files, directory : BOOLEAN, tracks : Tracks]

Results ==
    [kind : {"ready"}, generation : Nat, revision : Nat, complete : BOOLEAN,
     failed : BOOLEAN, loads : BOOLEAN, items : Tracks, observed : SUBSET Files,
     read : SUBSET Files, missing : SUBSET Files]

Running == {"files", "list", "read", "deliver"}
Jobs ==
    [pc : Running \cup {"done"}, generation : Nat, revision : Nat,
     load : BOOLEAN, files : SUBSET Files, directory : BOOLEAN, tracks : Tracks,
     persisted : Tracks, items : Tracks, observed : SUBSET Files,
     tried : SUBSET Files, read : SUBSET Files, todo : SUBSET Files,
     missing : SUBSET Files, posted : BOOLEAN,
     unposted : Results \cup {NoResult}]

Actions == {"added", "modified", "removed"}
Changes ==
    [kind : {"change"}, action : Actions, file : Files, generation : Nat]
Rescans == [kind : {"change"}, action : {"rescan"}, generation : Nat]
Messages == Results \cup Changes \cup Rescans

MonitorTyped ==
    /\ env \subseteq Hazards
    /\ present \subseteq Files /\ content \in [Files -> Nat]
    /\ watch \in {"closed", "announce", "waiting", "rearm"}
    /\ monitoring \in BOOLEAN /\ generation \in Nat
    /\ recorded \in Seq(Actions \X Files)
    /\ messages \in Seq(Messages)

LibraryTyped ==
    /\ lib \in Catalogue
    /\ indexing \in BOOLEAN /\ refreshPending \in BOOLEAN
    /\ scan \in Nat
    /\ worker \in Jobs \cup {NoWorker}
    /\ phase \in {"open", "closing", "closed"}
    /\ saved \in Tracks
    /\ user \in Nat
    /\ rated \in Entries(Nat) /\ discarded \subseteq Files /\ added \subseteq Files

Typed == MonitorTyped /\ LibraryTyped

-----------------------------------------------------------------------------
(* Maps.                                                                   *)

LEMMA EntriesYields ==
    ASSUME NEW T, NEW f \in Entries(T)
    PROVE  /\ DOMAIN f \subseteq Files
           /\ f \in [DOMAIN f -> T]
           /\ \A x \in DOMAIN f : f[x] \in T
BY DEF Entries

LEMMA EntriesIs ==
    ASSUME NEW T, NEW S \in SUBSET Files, NEW f \in [S -> T]
    PROVE  f \in Entries(T) /\ DOMAIN f = S
BY DEF Entries

LEMMA NothingIs == ASSUME NEW T PROVE None \in Entries(T) /\ DOMAIN None = {}
<1>1. None = [x \in {} |-> x]
  BY DEF None
<1>2. None \in [{} -> T] /\ DOMAIN None = {}
  BY <1>1
<1> QED BY <1>2 DEF Entries

LEMMA OverTyped ==
    ASSUME NEW T, NEW f \in Entries(T), NEW g \in Entries(T)
    PROVE  Over(f, g) \in Entries(T)
<1> DEFINE S == DOMAIN f \cup DOMAIN g
<1>1. S \in SUBSET Files
  BY EntriesYields
<1>2. \A x \in S : (IF x \in DOMAIN f THEN f[x] ELSE g[x]) \in T
  BY EntriesYields
<1>3. Over(f, g) \in [S -> T]
  BY <1>2 DEF Over
<1> HIDE DEF S
<1> QED BY <1>1, <1>3, EntriesIs

LEMMA ConstantTyped ==
    ASSUME NEW T, NEW S \in SUBSET Files, NEW v \in T
    PROVE  [y \in S |-> v] \in Entries(T)
BY EntriesIs

LEMMA PutTyped ==
    ASSUME NEW T, NEW f \in Entries(T), NEW x \in Files, NEW v \in T
    PROVE  Put(f, x, v) \in Entries(T)
<1>1. [y \in {x} |-> v] \in Entries(T)
  BY ConstantTyped
<1> QED BY <1>1, OverTyped DEF Put

LEMMA WithoutTyped ==
    ASSUME NEW T, NEW f \in Entries(T), NEW S
    PROVE  Without(f, S) \in Entries(T)
<1>1. DOMAIN f \ S \in SUBSET Files /\ \A x \in DOMAIN f : f[x] \in T
  BY EntriesYields
<1>2. Without(f, S) \in [DOMAIN f \ S -> T]
  BY <1>1 DEF Without
<1> QED BY <1>1, <1>2, EntriesIs

-----------------------------------------------------------------------------
(* Records.                                                                *)

LEMMA CatalogueFields ==
    ASSUME NEW l \in Catalogue
    PROVE  /\ l.items \in Tracks /\ l.persisted \in Tracks /\ l.tracks \in Tracks
           /\ l.edits \in Edits /\ l.removed \in Entries(Nat)
           /\ l.fileChanges \in Notices
           /\ l.excluded \subseteq Files /\ l.files \subseteq Files
           /\ l.loaded \in BOOLEAN /\ l.directory \in BOOLEAN
           /\ l.revision \in Nat
BY DEF Catalogue

LEMMA ResultFields ==
    ASSUME NEW r \in Results
    PROVE  /\ r.kind = "ready" /\ r.generation \in Nat /\ r.revision \in Nat
           /\ r.complete \in BOOLEAN /\ r.failed \in BOOLEAN /\ r.loads \in BOOLEAN
           /\ r.items \in Tracks /\ r.observed \subseteq Files
           /\ r.read \subseteq Files /\ r.missing \subseteq Files
           /\ r # NoResult
BY DEF Results, NoResult

LEMMA JobFields ==
    ASSUME NEW w \in Jobs
    PROVE  /\ w.pc \in Running \cup {"done"}
           /\ w.generation \in Nat /\ w.revision \in Nat
           /\ w.load \in BOOLEAN /\ w.directory \in BOOLEAN /\ w.posted \in BOOLEAN
           /\ w.tracks \in Tracks /\ w.persisted \in Tracks /\ w.items \in Tracks
           /\ w.files \subseteq Files /\ w.observed \subseteq Files
           /\ w.tried \subseteq Files
           /\ w.read \subseteq Files /\ w.todo \subseteq Files
           /\ w.missing \subseteq Files
           /\ w.unposted \in Results \cup {NoResult}
           /\ w # NoWorker /\ w.pc # "none"
BY DEF Jobs, NoWorker, Running

\* The worker slot, occupied or not.
LEMMA WorkerFields ==
    ASSUME NEW w \in Jobs \cup {NoWorker}
    PROVE  /\ w.pc \in Running \cup {"done", "none"}
           /\ w.unposted \in Results \cup {NoResult}
           /\ w.pc # "none" => w \in Jobs
           /\ w = NoWorker => w.pc = "none" /\ w.unposted = NoResult
           /\ w.unposted # NoResult => w \in Jobs /\ w.unposted \in Results
<1>1. CASE w \in Jobs
  BY <1>1, JobFields
<1>2. CASE w = NoWorker
  BY <1>2 DEF NoWorker
<1> QED BY <1>1, <1>2

LEMMA JobYields ==
    ASSUME NEW l \in Catalogue, NEW g \in Nat
    PROVE  /\ Job(l, g) \in Jobs
           /\ Job(l, g).generation = g /\ Job(l, g).pc = "files"
           /\ Job(l, g).unposted = NoResult
           /\ Job(l, g).revision = l.revision
           /\ Job(l, g).observed = {} /\ Job(l, g).missing = {} /\ Job(l, g).todo = {}
           /\ Job(l, g).tried = {} /\ Job(l, g).read = {}
           /\ Job(l, g).files = l.files
           /\ Job(l, g).load = ~l.loaded
<1>1. /\ l.items \in Tracks /\ l.persisted \in Tracks /\ l.tracks \in Tracks
      /\ l.files \subseteq Files /\ l.directory \in BOOLEAN /\ l.revision \in Nat
      /\ (~l.loaded) \in BOOLEAN
  BY CatalogueFields
<1>2. None \in Tracks
  BY NothingIs DEF Tracks
<1> QED BY <1>1, <1>2 DEF Job, Jobs, Running

LEMMA ResultYields ==
    ASSUME NEW w \in Jobs, NEW complete \in BOOLEAN, NEW failed \in BOOLEAN
    PROVE  /\ Result(w, complete, failed) \in Results
           /\ Result(w, complete, failed).generation = w.generation
           /\ Result(w, complete, failed).revision = w.revision
           /\ Result(w, complete, failed).complete = complete
           /\ Result(w, complete, failed).failed = failed
           /\ Result(w, complete, failed).loads = w.load
           /\ Result(w, complete, failed).items = w.items
           /\ Result(w, complete, failed).observed = w.observed
           /\ Result(w, complete, failed).read = w.read
           /\ Result(w, complete, failed).missing = w.missing
BY JobFields DEF Result, Results

LEMMA TrackTyped ==
    ASSUME NEW v \in Nat, NEW r \in Nat
    PROVE  Track(v, r) \in TrackType /\ Track(v, r).tags = v /\ Track(v, r).rating = r
BY DEF Track, TrackType

LEMMA TrackFields ==
    ASSUME NEW t \in TrackType
    PROVE  t.tags \in Nat /\ t.rating \in Nat
BY DEF TrackType

-----------------------------------------------------------------------------
(* The operators on the catalogue.                                         *)

\* What a result leaves of the removals.  A file is no longer excluded only if
\* it was added after the scan started, or seen by a scan that started after it
\* was found removed.
LEMMA ExclusionsYields ==
    ASSUME NEW l \in Catalogue, NEW r \in Results, NEW x, x = Exclusions(l, r)
    PROVE  /\ x.removed \in Entries(Nat) /\ x.excluded \subseteq Files
           /\ \A f \in l.excluded \ x.excluded :
                 \/ f \in DOMAIN l.fileChanges /\ ~l.fileChanges[f].removed
                 \/ /\ f \in DOMAIN l.removed /\ l.removed[f] <= r.revision
                    /\ f \in r.observed
           /\ \A f \in DOMAIN x.removed :
                 \/ f \in DOMAIN l.removed /\ x.removed[f] = l.removed[f]
                 \/ /\ f \in DOMAIN l.fileChanges /\ l.fileChanges[f].removed
                    /\ x.removed[f] = l.fileChanges[f].revision
                    /\ x.removed[f] > r.revision
                 \/ /\ f \in r.missing /\ f \notin Newer(l.edits, r.revision)
                    /\ x.removed[f] = r.revision
           /\ DOMAIN l.removed \subseteq l.excluded => DOMAIN x.removed \subseteq x.excluded
<1>0. PICK missing, news, gone, known, lost, older, kept, removed, seen :
          /\ missing = r.missing \ Newer(l.edits, r.revision)
          /\ news = Newer(l.fileChanges, r.revision) \cap DOMAIN r.items
          /\ gone = {f \in news : l.fileChanges[f].removed}
          /\ known = [f \in gone |-> l.fileChanges[f].revision]
          /\ lost = [f \in missing |-> r.revision]
          /\ older = Over(lost, l.removed)
          /\ kept = Without(older, news)
          /\ removed = Over(known, kept)
          /\ seen = {f \in DOMAIN removed : removed[f] <= r.revision
                                            /\ f \in r.observed \ r.missing}
  OBVIOUS
<1>1. /\ x.removed = Without(removed, seen)
      /\ x.excluded = (((l.excluded \cup missing) \ news) \cup gone) \ seen
  BY <1>0 DEF Exclusions
<1>2. /\ l.removed \in Entries(Nat) /\ l.fileChanges \in Notices
      /\ l.excluded \subseteq Files
      /\ r.revision \in Nat /\ r.missing \subseteq Files
  BY CatalogueFields, ResultFields
<1>3. /\ DOMAIN l.fileChanges \subseteq Files
      /\ \A f \in DOMAIN l.fileChanges :
            l.fileChanges[f] \in [revision : Nat, removed : BOOLEAN]
  BY <1>2, EntriesYields DEF Notices
<1>4. /\ news \subseteq DOMAIN l.fileChanges /\ gone \subseteq news
      /\ \A f \in news : l.fileChanges[f].revision > r.revision
      /\ \A f \in gone : l.fileChanges[f].removed
      /\ \A f \in news \ gone : ~l.fileChanges[f].removed
      /\ missing \subseteq r.missing /\ gone \subseteq Files
  BY <1>0, <1>3 DEF Newer
<1>5. known \in Entries(Nat) /\ DOMAIN known = gone
      /\ \A f \in gone : known[f] = l.fileChanges[f].revision
  <2>1. \A f \in gone : l.fileChanges[f].revision \in Nat
    BY <1>3, <1>4
  <2>2. known \in [gone -> Nat]
    BY <1>0, <2>1
  <2> QED BY <1>0, <1>4, <2>2, EntriesIs
<1>6. /\ lost \in Entries(Nat) /\ DOMAIN lost = missing
      /\ \A f \in missing : lost[f] = r.revision
  <2>1. lost \in Entries(Nat)
    BY <1>0, <1>2, <1>4, ConstantTyped
  <2> QED BY <1>0, <2>1
<1>7. /\ older \in Entries(Nat) /\ DOMAIN older = DOMAIN lost \cup DOMAIN l.removed
      /\ \A f \in DOMAIN lost : older[f] = lost[f]
      /\ \A f \in DOMAIN l.removed \ DOMAIN lost : older[f] = l.removed[f]
  <2>1. older \in Entries(Nat)
    BY <1>0, <1>2, <1>6, OverTyped
  <2> QED BY <1>0, <2>1 DEF Over
<1>8. /\ kept \in Entries(Nat) /\ DOMAIN kept = DOMAIN older \ news
      /\ \A f \in DOMAIN older \ news : kept[f] = older[f]
  <2>1. kept \in Entries(Nat)
    BY <1>0, <1>7, WithoutTyped
  <2> QED BY <1>0, <2>1 DEF Without
<1>9. /\ removed \in Entries(Nat) /\ DOMAIN removed = DOMAIN known \cup DOMAIN kept
      /\ \A f \in DOMAIN known : removed[f] = known[f]
      /\ \A f \in DOMAIN kept \ DOMAIN known : removed[f] = kept[f]
  <2>1. removed \in Entries(Nat)
    BY <1>0, <1>5, <1>8, OverTyped
  <2> QED BY <1>0, <2>1 DEF Over
<1>10. /\ x.removed \in Entries(Nat) /\ DOMAIN x.removed = DOMAIN removed \ seen
       /\ \A f \in DOMAIN removed \ seen : x.removed[f] = removed[f]
  <2>1. x.removed \in Entries(Nat)
    BY <1>1, <1>9, WithoutTyped
  <2> QED BY <1>1, <2>1 DEF Without
<1>11. \A f \in seen : /\ f \in DOMAIN removed /\ removed[f] <= r.revision
                       /\ f \in r.observed /\ f \notin r.missing
  BY <1>0
<1>12. x.excluded \subseteq Files
  BY <1>1, <1>2, <1>4
<1>13. ASSUME NEW f \in l.excluded \ x.excluded
       PROVE  \/ f \in DOMAIN l.fileChanges /\ ~l.fileChanges[f].removed
              \/ /\ f \in DOMAIN l.removed /\ l.removed[f] <= r.revision
                 /\ f \in r.observed
  <2>1. CASE f \in news \ gone
    BY <1>4, <2>1
  <2>2. CASE f \in seen
    <3>1. removed[f] <= r.revision /\ f \in DOMAIN removed
      BY <1>11, <2>2
    <3>2. f \notin gone
      <4> SUFFICES ASSUME f \in gone PROVE FALSE
        OBVIOUS
      <4>1. removed[f] = l.fileChanges[f].revision
        BY <1>5, <1>9, <3>1
      <4>2. l.fileChanges[f].revision > r.revision /\ l.fileChanges[f].revision \in Nat
        BY <1>3, <1>4
      <4> QED BY <1>2, <3>1, <4>1, <4>2
    <3>3. f \in DOMAIN kept /\ removed[f] = kept[f]
      BY <1>5, <1>9, <3>1, <3>2
    <3>4. f \notin missing
      BY <1>4, <1>11, <2>2
    <3>5. f \in DOMAIN l.removed /\ removed[f] = l.removed[f]
      BY <1>6, <1>7, <1>8, <3>3, <3>4
    <3> QED BY <1>11, <2>2, <3>1, <3>5
  <2> QED BY <1>1, <2>1, <2>2
<1>14. ASSUME NEW f \in DOMAIN x.removed
       PROVE  \/ f \in DOMAIN l.removed /\ x.removed[f] = l.removed[f]
              \/ /\ f \in DOMAIN l.fileChanges /\ l.fileChanges[f].removed
                 /\ x.removed[f] = l.fileChanges[f].revision
                 /\ x.removed[f] > r.revision
              \/ /\ f \in r.missing /\ f \notin Newer(l.edits, r.revision)
                 /\ x.removed[f] = r.revision
  <2>1. f \in DOMAIN removed /\ x.removed[f] = removed[f]
    BY <1>10
  <2>2. CASE f \in gone
    BY <1>4, <1>5, <1>9, <2>1, <2>2
  <2>3. CASE f \notin gone
    <3>1. f \in DOMAIN older /\ x.removed[f] = older[f]
      BY <1>5, <1>8, <1>9, <2>1, <2>3
    <3> QED BY <1>0, <1>6, <1>7, <3>1
  <2> QED BY <2>2, <2>3
<1>15. ASSUME DOMAIN l.removed \subseteq l.excluded PROVE DOMAIN x.removed \subseteq x.excluded
  BY <1>1, <1>4, <1>5, <1>6, <1>7, <1>8, <1>9, <1>10, <1>15
<1> QED BY <1>10, <1>12, <1>13, <1>14, <1>15

LEMMA EditedYields ==
    ASSUME NEW l \in Catalogue, NEW r \in Results, NEW S, NEW e,
           e = Edited(r.items, l, r, S)
    PROVE  /\ e \in Tracks
           /\ DOMAIN e \subseteq DOMAIN r.items \cup DOMAIN l.edits
<1>0. PICK whole, stars, edited, starred, under :
          /\ whole = {f \in Newer(l.edits, r.revision) \ S : ~l.edits[f].ratingOnly}
          /\ stars = {f \in (Newer(l.edits, r.revision) \ S) \ whole : f \in DOMAIN r.items}
          /\ edited = [f \in whole |-> l.edits[f].track]
          /\ starred = [f \in stars |-> Track(r.items[f].tags, l.edits[f].track.rating)]
          /\ under = Over(starred, r.items)
  OBVIOUS
<1>1. l.edits \in Edits /\ r.items \in Tracks
  BY CatalogueFields, ResultFields
<1>2. /\ DOMAIN l.edits \subseteq Files /\ DOMAIN r.items \subseteq Files
      /\ \A f \in DOMAIN l.edits :
            l.edits[f] \in [revision : Nat, track : TrackType, ratingOnly : BOOLEAN]
      /\ \A f \in DOMAIN r.items : r.items[f] \in TrackType
  BY <1>1, EntriesYields DEF Edits, Tracks
<1>3. /\ whole \subseteq DOMAIN l.edits /\ stars \subseteq DOMAIN l.edits
      /\ stars \subseteq DOMAIN r.items
  BY <1>0 DEF Newer
<1>4. edited \in Entries(TrackType) /\ DOMAIN edited = whole
  <2>1. \A f \in whole : l.edits[f].track \in TrackType
    BY <1>2, <1>3
  <2>2. edited \in [whole -> TrackType] /\ whole \in SUBSET Files
    BY <1>0, <1>2, <1>3, <2>1
  <2> QED BY <2>2, EntriesIs
<1>5. starred \in Entries(TrackType) /\ DOMAIN starred = stars
  <2>1. \A f \in stars : Track(r.items[f].tags, l.edits[f].track.rating) \in TrackType
    <3> SUFFICES ASSUME NEW f \in stars
                 PROVE  Track(r.items[f].tags, l.edits[f].track.rating) \in TrackType
      OBVIOUS
    <3>1. r.items[f] \in TrackType /\ l.edits[f].track \in TrackType
      BY <1>2, <1>3
    <3> QED BY <3>1, TrackFields, TrackTyped
  <2>2. starred \in [stars -> TrackType] /\ stars \in SUBSET Files
    BY <1>0, <1>2, <1>3, <2>1
  <2> QED BY <2>2, EntriesIs
<1>6. e = Over(edited, under)
  BY <1>0 DEF Edited
<1>7. under \in Entries(TrackType) /\ DOMAIN under = DOMAIN starred \cup DOMAIN r.items
  <2>1. under \in Entries(TrackType)
    BY <1>0, <1>1, <1>5, OverTyped DEF Tracks
  <2> QED BY <1>0, <2>1 DEF Over
<1>8. e \in Entries(TrackType) /\ DOMAIN e = DOMAIN edited \cup DOMAIN under
  <2>1. e \in Entries(TrackType)
    BY <1>4, <1>6, <1>7, OverTyped
  <2> QED BY <1>6, <2>1 DEF Over
<1> QED BY <1>3, <1>4, <1>5, <1>7, <1>8 DEF Tracks

LEMMA RepublishedTyped ==
    ASSUME NEW tracks \in Tracks, NEW items \in Tracks, NEW read,
           read \subseteq DOMAIN items
    PROVE  Republished(tracks, items, read) \in Tracks
<1>1. /\ DOMAIN tracks \subseteq Files
      /\ \A f \in DOMAIN tracks : tracks[f] \in TrackType
      /\ \A f \in DOMAIN items : items[f] \in TrackType
  BY EntriesYields DEF Tracks
<1>2. \A f \in DOMAIN tracks :
          (IF f \in read THEN Track(items[f].tags, tracks[f].rating) ELSE tracks[f])
              \in TrackType
  <2> SUFFICES ASSUME NEW f \in DOMAIN tracks
               PROVE  (IF f \in read THEN Track(items[f].tags, tracks[f].rating)
                       ELSE tracks[f]) \in TrackType
    OBVIOUS
  <2>1. CASE f \in read
    <3>1. items[f] \in TrackType /\ tracks[f] \in TrackType
      BY <1>1, <2>1
    <3>2. Track(items[f].tags, tracks[f].rating) \in TrackType
      BY <3>1, TrackFields, TrackTyped
    <3> QED BY <2>1, <3>2
  <2>2. CASE f \notin read
    BY <1>1, <2>2
  <2> QED BY <2>1, <2>2
<1>3. Republished(tracks, items, read) \in [DOMAIN tracks -> TrackType]
  BY <1>2 DEF Republished
<1>4. DOMAIN tracks \in SUBSET Files
  BY <1>1
<1> QED BY <1>3, <1>4, EntriesIs DEF Tracks

\* Only the user's edits and the notifications newer than the result survive it.
LEMMA AppliedYields ==
    ASSUME NEW l \in Catalogue, NEW r \in Results, NEW a, a = Applied(l, r)
    PROVE  /\ a \in Catalogue
           /\ a.revision = l.revision /\ a.files = l.files
           /\ a.loaded = (l.loaded \/ r.loads)
           /\ a.removed = Exclusions(l, r).removed
           /\ a.excluded = Exclusions(l, r).excluded
           /\ a.items = Edited(r.items, l, r, a.excluded)
           /\ \E S \in SUBSET DOMAIN l.edits :
                  /\ a.edits = Without(l.edits, S)
                  /\ r.complete => \A f \in S : l.edits[f].revision <= r.revision
                  /\ ~r.complete => S = {}
           /\ \E S : a.fileChanges = Without(l.fileChanges, S)
<1>0. PICK x, items, live, loaded, tracks, persisted, S, T :
          /\ x = Exclusions(l, r)
          /\ items = Edited(r.items, l, r, x.excluded)
          /\ live = DOMAIN items \ x.excluded
          /\ loaded = (l.loaded \/ r.loads)
          /\ tracks = Republished(l.tracks, items, r.read \cap live)
          /\ persisted = IF loaded THEN [f \in live |-> items[f]] ELSE l.persisted
          /\ S = IF r.complete THEN Older(l.edits, r.revision) ELSE {}
          /\ T = IF r.complete THEN Older(l.fileChanges, r.revision) ELSE {}
  OBVIOUS
<1>1. a = [l EXCEPT !.removed = x.removed, !.excluded = x.excluded, !.items = items,
                    !.edits = Without(l.edits, S),
                    !.fileChanges = Without(l.fileChanges, T),
                    !.loaded = loaded, !.persisted = persisted, !.tracks = tracks]
  BY <1>0 DEF Applied
<1>2. /\ l.tracks \in Tracks /\ l.persisted \in Tracks /\ l.edits \in Edits
      /\ l.fileChanges \in Notices /\ l.loaded \in BOOLEAN /\ r.loads \in BOOLEAN
      /\ r.revision \in Nat
  BY CatalogueFields, ResultFields
<1>3. x.removed \in Entries(Nat) /\ x.excluded \in SUBSET Files
  BY <1>0, ExclusionsYields
<1>4. items \in Tracks
  BY <1>0, EditedYields
<1>5. tracks \in Tracks
  <2>1. r.read \cap live \subseteq DOMAIN items
    BY <1>0
  <2> QED BY <1>0, <1>2, <1>4, <2>1, RepublishedTyped
<1>6. persisted \in Tracks
  <2>1. CASE loaded
    <3>1. DOMAIN items \subseteq Files /\ \A f \in DOMAIN items : items[f] \in TrackType
      BY <1>4, EntriesYields DEF Tracks
    <3>2. persisted \in [live -> TrackType] /\ live \in SUBSET Files
      BY <1>0, <2>1, <3>1
    <3> QED BY <3>2, EntriesIs DEF Tracks
  <2>2. CASE ~loaded
    BY <1>0, <1>2, <2>2
  <2> QED BY <2>1, <2>2
<1>7. Without(l.edits, S) \in Edits
  BY <1>2, WithoutTyped DEF Edits
<1>8. Without(l.fileChanges, T) \in Notices
  BY <1>2, WithoutTyped DEF Notices
<1>9. loaded \in BOOLEAN
  BY <1>0, <1>2
<1>10. a \in Catalogue
  BY <1>1, <1>3, <1>4, <1>5, <1>6, <1>7, <1>8, <1>9, ZenonT(40) DEF Catalogue
<1>11. /\ a.revision = l.revision /\ a.files = l.files /\ a.loaded = loaded
       /\ a.removed = x.removed /\ a.excluded = x.excluded /\ a.items = items
       /\ a.edits = Without(l.edits, S) /\ a.fileChanges = Without(l.fileChanges, T)
  BY <1>1 DEF Catalogue
<1>12. /\ S \in SUBSET DOMAIN l.edits
       /\ r.complete => \A f \in S : l.edits[f].revision <= r.revision
       /\ ~r.complete => S = {}
  <2>1. \A f \in DOMAIN l.edits :
            l.edits[f] \in [revision : Nat, track : TrackType, ratingOnly : BOOLEAN]
    BY <1>2, EntriesYields DEF Edits
  <2>2. \A f \in DOMAIN l.edits : l.edits[f].revision \in Nat
    BY <2>1
  <2> QED BY <1>0, <1>2, <2>2 DEF Older, Newer
<1> QED BY <1>0, <1>10, <1>11, <1>12

-----------------------------------------------------------------------------
(* The message queue.                                                      *)

\* A result of the scan s.
Current(m, s) == m.kind = "ready" /\ m.generation = s

\* Results are of scans already started, and those of the last one are at most
\* a partial result and, behind it, the complete one.
MailOK(ms, s) ==
    /\ \A i \in DOMAIN ms : ms[i].kind = "ready" => ms[i].generation <= s
    /\ \A i, j \in DOMAIN ms :
          i < j /\ Current(ms[i], s) /\ Current(ms[j], s) =>
              ~ms[i].complete /\ ms[j].complete

\* A result of the scan s, complete or not as c says, is on its way.
OnItsWay(ms, s, c) ==
    \E i \in DOMAIN ms : Current(ms[i], s) /\ ms[i].complete = c

LEMMA ChangesAreNotCurrent ==
    ASSUME NEW m \in Changes \cup Rescans, NEW s
    PROVE  ~Current(m, s) /\ m.kind = "change" /\ m \in Messages
BY DEF Changes, Rescans, Messages, Current

LEMMA ReadyIsResult ==
    ASSUME NEW m \in Messages, m.kind = "ready"
    PROVE  m \in Results
BY DEF Messages, Changes, Rescans

\* Notifications behind the queue leave the results as they are.
LEMMA ChangesBehind ==
    ASSUME NEW ms \in Seq(Messages), NEW cs \in Seq(Changes \cup Rescans), NEW s \in Nat
    PROVE  /\ ms \o cs \in Seq(Messages)
           /\ MailOK(ms, s) => MailOK(ms \o cs, s)
           /\ \A c \in BOOLEAN : OnItsWay(ms \o cs, s, c) <=> OnItsWay(ms, s, c)
           /\ \A i \in DOMAIN (ms \o cs) :
                 \/ \E j \in DOMAIN ms : (ms \o cs)[i] = ms[j]
                 \/ \E k \in DOMAIN cs : (ms \o cs)[i] = cs[k]
<1> DEFINE n == Len(ms)  all == ms \o cs
<1>1. cs \in Seq(Messages)
  BY DEF Messages
<1>2. /\ all \in Seq(Messages) /\ n \in Nat /\ DOMAIN ms = 1..n
      /\ DOMAIN all = 1..(n + Len(cs)) /\ Len(cs) \in Nat /\ DOMAIN cs = 1..Len(cs)
  BY <1>1
<1>3. \A i \in 1..n : all[i] = ms[i] /\ i \in DOMAIN all
  BY <1>1, <1>2
<1>4. \A i \in DOMAIN all : i \in 1..n \/ (all[i].kind = "change" /\ ~Current(all[i], s))
  <2> SUFFICES ASSUME NEW i \in DOMAIN all, i \notin 1..n
               PROVE  all[i].kind = "change" /\ ~Current(all[i], s)
    OBVIOUS
  <2>1. i - n \in 1..Len(cs) /\ all[i] = cs[i - n]
    BY <1>1, <1>2
  <2>2. cs[i - n] \in Changes \cup Rescans
    BY <2>1
  <2> QED BY <2>1, <2>2, ChangesAreNotCurrent
<1>7. \A i \in DOMAIN all : i \in 1..n \/ \E k \in DOMAIN cs : all[i] = cs[k]
  <2> SUFFICES ASSUME NEW i \in DOMAIN all, i \notin 1..n
               PROVE  \E k \in DOMAIN cs : all[i] = cs[k]
    OBVIOUS
  <2>1. i - n \in DOMAIN cs /\ all[i] = cs[i - n]
    BY <1>1, <1>2
  <2> QED BY <2>1
<1> HIDE DEF all, n
<1>8. ASSUME NEW i \in DOMAIN all
      PROVE  \/ \E j \in DOMAIN ms : all[i] = ms[j]
             \/ \E k \in DOMAIN cs : all[i] = cs[k]
  <2>1. CASE i \in 1..n
    <3>1. i \in DOMAIN ms /\ all[i] = ms[i]
      BY <1>2, <1>3, <2>1
    <3> QED BY <3>1
  <2>2. CASE \E k \in DOMAIN cs : all[i] = cs[k]
    BY <2>2
  <2> QED BY <1>7, <2>1, <2>2
<1>5. MailOK(ms, s) => MailOK(all, s)
  BY <1>2, <1>3, <1>4 DEF MailOK
<1>6. \A c \in BOOLEAN : OnItsWay(all, s, c) <=> OnItsWay(ms, s, c)
  BY <1>2, <1>3, <1>4 DEF OnItsWay
<1> QED BY <1>2, <1>5, <1>6, <1>8 DEF all

LEMMA ChangeBehind ==
    ASSUME NEW ms \in Seq(Messages), NEW m \in Changes \cup Rescans, NEW s \in Nat
    PROVE  /\ Append(ms, m) \in Seq(Messages)
           /\ MailOK(ms, s) => MailOK(Append(ms, m), s)
           /\ \A c \in BOOLEAN : OnItsWay(Append(ms, m), s, c) <=> OnItsWay(ms, s, c)
           /\ \A i \in DOMAIN Append(ms, m) :
                 Append(ms, m)[i] = m \/ \E j \in DOMAIN ms : Append(ms, m)[i] = ms[j]
<1>0. <<m>> \in Seq(Changes \cup Rescans)
  OBVIOUS
<1>1. PICK cs \in Seq(Changes \cup Rescans) : cs = <<m>>
  BY <1>0
<1>2. Append(ms, m) = ms \o cs /\ \A k \in DOMAIN cs : cs[k] = m
  BY <1>1
<1> QED BY <1>2, ChangesBehind

\* all is ms with the result r of the scan s behind it.
Posted(ms, r, s, all) ==
    /\ all \in Seq(Messages) /\ MailOK(all, s)
    /\ OnItsWay(all, s, r.complete)
    /\ \A c \in BOOLEAN : OnItsWay(all, s, c) => OnItsWay(ms, s, c) \/ c = r.complete
    /\ \A i \in DOMAIN all : all[i] = r \/ \E j \in DOMAIN ms : all[i] = ms[j]

\* A result is posted behind the partial result of its scan only.
LEMMA ResultBehind ==
    ASSUME NEW ms \in Seq(Messages), NEW r \in Results, NEW s \in Nat,
           r.generation = s, MailOK(ms, s), ~OnItsWay(ms, s, TRUE),
           OnItsWay(ms, s, FALSE) => r.complete,
           NEW all, all = Append(ms, r)
    PROVE  Posted(ms, r, s, all)
<1> DEFINE n == Len(ms)
<1>1. r \in Messages
  BY DEF Messages
<1>2. /\ all \in Seq(Messages) /\ n \in Nat /\ DOMAIN ms = 1..n
      /\ DOMAIN all = 1..(n + 1) /\ all[n + 1] = r
      /\ \A i \in 1..n : all[i] = ms[i]
  BY <1>1
<1>3. Current(r, s) /\ r.complete \in BOOLEAN /\ r.kind = "ready"
  BY ResultFields DEF Current
<1>4. \A i \in DOMAIN ms : Current(ms[i], s) => ms[i].complete = FALSE /\ r.complete
  <2> SUFFICES ASSUME NEW i \in DOMAIN ms, Current(ms[i], s)
               PROVE  ms[i].complete = FALSE /\ r.complete
    OBVIOUS
  <2>1. ms[i] \in Results
    <3>1. ms[i] \in Messages /\ ms[i].kind = "ready"
      BY DEF Current
    <3> QED BY <3>1, ReadyIsResult
  <2>2. ms[i].complete \in BOOLEAN
    BY <2>1, ResultFields
  <2>3. ms[i].complete # TRUE
    BY DEF OnItsWay
  <2> QED BY <2>2, <2>3 DEF OnItsWay
<1> HIDE DEF n
<1>5. MailOK(all, s)
  <2>1. \A i \in DOMAIN all : all[i].kind = "ready" => all[i].generation <= s
    BY <1>2 DEF MailOK
  <2>2. ASSUME NEW i \in DOMAIN all, NEW j \in DOMAIN all, i < j,
               Current(all[i], s), Current(all[j], s)
        PROVE  ~all[i].complete /\ all[j].complete
    <3>1. i \in 1..n
      BY <1>2, <2>2
    <3>2. all[i].complete = FALSE /\ r.complete
      BY <1>2, <1>4, <2>2, <3>1
    <3>3. j = n + 1
      <4> SUFFICES ASSUME j \in 1..n PROVE FALSE
        BY <1>2
      <4>1. Current(ms[i], s) /\ Current(ms[j], s)
        BY <1>2, <2>2, <3>1
      <4>2. ms[j].complete /\ ms[j].complete = FALSE
        BY <1>2, <1>4, <2>2, <3>1, <4>1 DEF MailOK
      <4> QED BY <4>2
    <3> QED BY <1>2, <3>2, <3>3
  <2> QED BY <2>1, <2>2 DEF MailOK
<1>6. OnItsWay(all, s, r.complete)
  <2>1. n + 1 \in DOMAIN all
    BY <1>2
  <2> QED BY <1>2, <1>3, <2>1 DEF OnItsWay
<1>7. ASSUME NEW c \in BOOLEAN, OnItsWay(all, s, c)
      PROVE  OnItsWay(ms, s, c) \/ c = r.complete
  <2>1. PICK i \in DOMAIN all : Current(all[i], s) /\ all[i].complete = c
    BY <1>7 DEF OnItsWay
  <2>2. CASE i \in 1..n
    BY <1>2, <2>1, <2>2 DEF OnItsWay
  <2>3. CASE i = n + 1
    BY <1>2, <2>1, <2>3
  <2> QED BY <1>2, <2>2, <2>3
<1>8. \A i \in DOMAIN all : all[i] = r \/ \E j \in DOMAIN ms : all[i] = ms[j]
  BY <1>2
<1> QED BY <1>2, <1>5, <1>6, <1>7, <1>8 DEF Posted

\* rest is ms without its message i.
Taken(ms, i, s, rest) ==
    /\ rest \in Seq(Messages) /\ MailOK(rest, s)
    /\ \A k \in DOMAIN rest : \E j \in DOMAIN ms : j # i /\ rest[k] = ms[j]
    /\ \A c \in BOOLEAN : OnItsWay(rest, s, c) => OnItsWay(ms, s, c)
    /\ \A c \in BOOLEAN : OnItsWay(ms, s, c) =>
          OnItsWay(rest, s, c) \/ (Current(ms[i], s) /\ ms[i].complete = c)
    /\ Current(ms[i], s) /\ ms[i].complete => ~OnItsWay(rest, s, TRUE)
    /\ i = 1 /\ Current(ms[i], s) => ~OnItsWay(rest, s, FALSE)

LEMMA TakenYields ==
    ASSUME NEW ms \in Seq(Messages), NEW i \in DOMAIN ms, NEW s \in Nat, MailOK(ms, s),
           NEW rest, rest = RemoveAt(ms, i)
    PROVE  Taken(ms, i, s, rest)
<1>1. PICK n \in Nat : n = Len(ms) /\ DOMAIN ms = 1..n /\ i \in 1..n
  OBVIOUS
<1>2. ms[i] \in Messages
  OBVIOUS
<1>3. /\ rest \in Seq(Messages) /\ DOMAIN rest = 1..(n - 1)
      /\ \A k \in 1..(n - 1) : rest[k] = IF k < i THEN ms[k] ELSE ms[k + 1]
  <2>1. PICK front, back : front = SubSeq(ms, 1, i - 1) /\ back = SubSeq(ms, i + 1, n)
    OBVIOUS
  <2>2. /\ front \in Seq(Messages) /\ Len(front) = i - 1
        /\ \A k \in 1..(i - 1) : front[k] = ms[k]
    <3>1. \A k \in 1..(i - 1) : ms[k] \in Messages
      BY <1>1
    <3> QED BY <1>1, <2>1, <3>1, SubSeqProperties
  <2>3. /\ back \in Seq(Messages) /\ Len(back) = n - i
        /\ \A k \in 1..(n - i) : back[k] = ms[k + i]
    <3>1. \A k \in (i + 1)..n : ms[k] \in Messages
      BY <1>1
    <3>2. /\ back \in Seq(Messages) /\ Len(back) = IF i + 1 <= n THEN n - (i + 1) + 1 ELSE 0
          /\ \A k \in 1..(n - (i + 1) + 1) : back[k] = ms[(i + 1) + k - 1]
      BY <1>1, <2>1, <3>1, SubSeqProperties, SMTT(30)
    <3>3. Len(back) = n - i
      BY <1>1, <3>2
    <3>4. \A k \in 1..(n - i) : k \in 1..(n - (i + 1) + 1) /\ (i + 1) + k - 1 = k + i
      BY <1>1
    <3> QED BY <3>2, <3>3, <3>4
  <2>4. rest = front \o back
    BY <1>1, <2>1 DEF RemoveAt
  <2>5. rest \in Seq(Messages) /\ Len(rest) = n - 1
    BY <1>1, <2>2, <2>3, <2>4
  <2>6. ASSUME NEW k \in 1..(n - 1)
        PROVE  rest[k] = IF k < i THEN ms[k] ELSE ms[k + 1]
    <3>1. CASE k < i
      <4>1. k \in 1..(i - 1) /\ rest[k] = front[k]
        BY <1>1, <2>2, <2>3, <2>4, <3>1
      <4> QED BY <2>2, <3>1, <4>1
    <3>2. CASE ~(k < i)
      <4>1. rest[k] = back[k - (i - 1)] /\ k - (i - 1) \in 1..(n - i)
        BY <1>1, <2>2, <2>3, <2>4, <3>2, SMTT(30)
      <4>2. (k - (i - 1)) + i = k + 1
        BY <1>1
      <4> QED BY <2>3, <3>2, <4>1, <4>2
    <3> QED BY <3>1, <3>2
  <2> QED BY <1>1, <2>5, <2>6
<1>4. \A k \in DOMAIN rest :
          \E j \in DOMAIN ms : j # i /\ rest[k] = ms[j] /\ (j < i <=> k < i)
  <2> SUFFICES ASSUME NEW k \in DOMAIN rest
               PROVE  \E j \in DOMAIN ms : j # i /\ rest[k] = ms[j] /\ (j < i <=> k < i)
    OBVIOUS
  <2>1. CASE k < i
    <3>1. k \in DOMAIN ms /\ k # i
      BY <1>1, <1>3, <2>1
    <3> QED BY <1>3, <2>1, <3>1
  <2>2. CASE ~(k < i)
    <3>1. k + 1 \in DOMAIN ms /\ k + 1 # i /\ ~(k + 1 < i)
      BY <1>1, <1>3, <2>2
    <3> QED BY <1>3, <2>2, <3>1
  <2> QED BY <2>1, <2>2
<1>5. MailOK(rest, s)
  <2>1. \A k \in DOMAIN rest : rest[k].kind = "ready" => rest[k].generation <= s
    BY <1>4 DEF MailOK
  <2>2. ASSUME NEW j \in DOMAIN rest, NEW k \in DOMAIN rest, j < k,
               Current(rest[j], s), Current(rest[k], s)
        PROVE  ~rest[j].complete /\ rest[k].complete
    <3>1. PICK a \in DOMAIN ms, b \in DOMAIN ms :
              a < b /\ rest[j] = ms[a] /\ rest[k] = ms[b]
      <4>1. CASE j < i /\ k < i
        BY <1>1, <1>3, <2>2, <4>1
      <4>2. CASE j < i /\ ~(k < i)
        <5>1. j \in DOMAIN ms /\ k + 1 \in DOMAIN ms /\ j < k + 1
          BY <1>1, <1>3, <2>2, <4>2
        <5> QED BY <1>3, <4>2, <5>1
      <4>3. CASE ~(j < i)
        <5>1. /\ j + 1 \in DOMAIN ms /\ k + 1 \in DOMAIN ms /\ j + 1 < k + 1
              /\ ~(k < i)
          BY <1>1, <1>3, <2>2, <4>3
        <5> QED BY <1>3, <4>3, <5>1
      <4> QED BY <4>1, <4>2, <4>3
    <3> QED BY <2>2, <3>1 DEF MailOK
  <2> QED BY <2>1, <2>2 DEF MailOK
<1>6. \A c \in BOOLEAN : OnItsWay(rest, s, c) =>
          \E j \in DOMAIN ms : j # i /\ Current(ms[j], s) /\ ms[j].complete = c
  BY <1>4 DEF OnItsWay
<1>7. \A c \in BOOLEAN : OnItsWay(ms, s, c) =>
          OnItsWay(rest, s, c) \/ (Current(ms[i], s) /\ ms[i].complete = c)
  <2> SUFFICES ASSUME NEW c \in BOOLEAN, OnItsWay(ms, s, c)
               PROVE  OnItsWay(rest, s, c) \/ (Current(ms[i], s) /\ ms[i].complete = c)
    OBVIOUS
  <2>1. PICK j \in DOMAIN ms : Current(ms[j], s) /\ ms[j].complete = c
    BY DEF OnItsWay
  <2>2. CASE j = i
    BY <2>1, <2>2
  <2>3. CASE j < i
    <3>1. j \in DOMAIN rest /\ rest[j] = ms[j]
      BY <1>1, <1>3, <2>3
    <3> QED BY <2>1, <3>1 DEF OnItsWay
  <2>4. CASE i < j
    <3>1. j - 1 \in 1..(n - 1) /\ ~(j - 1 < i) /\ (j - 1) + 1 = j
      BY <1>1, <2>4
    <3>2. j - 1 \in DOMAIN rest /\ rest[j - 1] = ms[j]
      BY <1>3, <3>1
    <3> QED BY <2>1, <3>2 DEF OnItsWay
  <2> QED BY <1>1, <2>2, <2>3, <2>4
<1>8. Current(ms[i], s) /\ ms[i].complete => ~OnItsWay(rest, s, TRUE)
  <2> SUFFICES ASSUME Current(ms[i], s), ms[i].complete, NEW j \in DOMAIN ms, j # i,
                      Current(ms[j], s), ms[j].complete = TRUE
               PROVE  FALSE
    BY <1>6
  <2>1. i < j \/ j < i
    BY <1>1
  <2> QED BY <2>1 DEF MailOK
<1>9. i = 1 /\ Current(ms[i], s) => ~OnItsWay(rest, s, FALSE)
  <2> SUFFICES ASSUME i = 1, Current(ms[i], s), NEW j \in DOMAIN ms, j # i,
                      Current(ms[j], s), ms[j].complete = FALSE
               PROVE  FALSE
    BY <1>6
  <2>1. i < j
    BY <1>1
  <2> QED BY <2>1 DEF MailOK
<1>10. \A c \in BOOLEAN : OnItsWay(rest, s, c) => OnItsWay(ms, s, c)
  BY <1>6 DEF OnItsWay
<1>11. \A k \in DOMAIN rest : \E j \in DOMAIN ms : j # i /\ rest[k] = ms[j]
  BY <1>4
<1>12. Current(ms[i], s) /\ ms[i].complete => ~OnItsWay(rest, s, TRUE)
  BY <1>8
<1> QED BY <1>2, <1>3, <1>5, <1>7, <1>9, <1>10, <1>11, <1>12 DEF Taken

LEMMA TailIsTaken ==
    ASSUME NEW ms \in Seq(Messages), ms # <<>>
    PROVE  1 \in DOMAIN ms /\ Head(ms) = ms[1] /\ Tail(ms) = RemoveAt(ms, 1)
<1>0. Tail(ms) \in Seq(Messages)
  OBVIOUS
<1>1. PICK rest \in Seq(Messages) : rest = Tail(ms)
  BY <1>0
<1>2. SubSeq(ms, 1, 1 - 1) = <<>> /\ SubSeq(ms, 1 + 1, Len(ms)) = rest
  BY <1>1
<1>3. <<>> \o rest = rest
  OBVIOUS
<1> QED BY <1>1, <1>2, <1>3 DEF RemoveAt

\* A scan that starts now has no result on its way.
LEMMA NewScanHasNoMail ==
    ASSUME NEW ms \in Seq(Messages), NEW s \in Nat, MailOK(ms, s)
    PROVE  /\ MailOK(ms, s + 1)
           /\ \A c \in BOOLEAN : ~OnItsWay(ms, s + 1, c)
           /\ \A i \in DOMAIN ms : ~Current(ms[i], s + 1)
<1>1. \A i \in DOMAIN ms : ~Current(ms[i], s + 1)
  <2> SUFFICES ASSUME NEW i \in DOMAIN ms, Current(ms[i], s + 1) PROVE FALSE
    OBVIOUS
  <2>1. ms[i].generation = s + 1 /\ ms[i].generation <= s
    BY DEF Current, MailOK
  <2> QED BY <2>1
<1>2. \A i \in DOMAIN ms : ms[i].kind = "ready" => ms[i].generation <= s + 1
  <2> SUFFICES ASSUME NEW i \in DOMAIN ms, ms[i].kind = "ready"
               PROVE  ms[i].generation <= s + 1
    OBVIOUS
  <2>1. ms[i] \in Results
    BY ReadyIsResult
  <2>2. ms[i].generation \in Nat /\ ms[i].generation <= s
    BY <2>1, ResultFields DEF MailOK
  <2> QED BY <2>2
<1> QED BY <1>1, <1>2 DEF MailOK, OnItsWay

-----------------------------------------------------------------------------
(* The scan worker.                                                        *)

LEMMA ReadYields ==
    ASSUME NEW w \in Jobs, NEW f \in Files, NEW ok, content \in [Files -> Nat],
           NEW a, a = Read(w, f, ok)
    PROVE  /\ a \in Jobs /\ a.pc = w.pc /\ a.generation = w.generation
           /\ a.revision = w.revision /\ a.unposted = w.unposted
           /\ a.load = w.load /\ a.posted = w.posted /\ a.files = w.files
           /\ a.todo = w.todo /\ a.missing = w.missing
           /\ a.observed = w.observed /\ a.tried = w.tried \cup {f}
<1>0. PICK seen, old, track, items, read :
          /\ seen \in BOOLEAN /\ seen <=> (ok /\ f \in present \ w.tried)
          /\ old = IF f \in DOMAIN w.items THEN w.items[f] ELSE Track(0, 0)
          /\ track = IF seen THEN Track(content[f], old.rating) ELSE old
          /\ items = Put(w.items, f, track)
          /\ read = IF seen THEN w.read \cup {f} ELSE w.read
  OBVIOUS
<1>1. a = [w EXCEPT !.items = items, !.tried = w.tried \cup {f}, !.read = read]
  BY <1>0 DEF Read
<1>2. /\ w.items \in Tracks /\ read \in SUBSET Files
      /\ w.tried \cup {f} \in SUBSET Files
  BY <1>0, JobFields
<1>3. items \in Tracks
  <2>1. old \in TrackType
    <3>1. \A g \in DOMAIN w.items : w.items[g] \in TrackType
      BY <1>2, EntriesYields DEF Tracks
    <3>2. Track(0, 0) \in TrackType
      BY TrackTyped
    <3> QED BY <1>0, <3>1, <3>2
  <2>2. content[f] \in Nat /\ old.rating \in Nat
    BY <2>1, TrackFields
  <2>3. Track(content[f], old.rating) \in TrackType
    BY <2>2, TrackTyped
  <2>4. track \in TrackType
    BY <1>0, <2>1, <2>3
  <2> QED BY <1>0, <1>2, <2>4, PutTyped DEF Tracks
<1> QED BY <1>1, <1>2, <1>3 DEF Jobs

LEMMA ReadTrackYields ==
    ASSUME NEW w \in Jobs, NEW f \in Files, NEW ok, content \in [Files -> Nat],
           NEW a, a = ReadTrack(w, f, ok)
    PROVE  /\ a \in Jobs /\ a.pc = w.pc /\ a.generation = w.generation
           /\ a.revision = w.revision /\ a.unposted = w.unposted
           /\ a.load = w.load /\ a.posted = w.posted /\ a.files = w.files
           /\ a.todo = w.todo /\ a.missing = w.missing
           /\ a.observed = w.observed \cup {f} /\ a.tried = w.tried \cup {f}
<1>1. PICK b : b = Read(w, f, ok)
  OBVIOUS
<1>2. /\ b \in Jobs /\ b.pc = w.pc /\ b.generation = w.generation
      /\ b.revision = w.revision /\ b.unposted = w.unposted
      /\ b.load = w.load /\ b.posted = w.posted /\ b.files = w.files
      /\ b.todo = w.todo /\ b.missing = w.missing
      /\ b.observed = w.observed /\ b.tried = w.tried \cup {f}
  BY <1>1, ReadYields
<1>3. a = [b EXCEPT !.observed = b.observed \cup {f}]
  BY <1>1 DEF ReadTrack
<1>4. b.observed \cup {f} \in SUBSET Files
  BY <1>2, JobFields
<1> QED BY <1>2, <1>3, <1>4 DEF Jobs

LEMMA SeedsTyped ==
    ASSUME NEW w \in Jobs, saved \in Tracks
    PROVE  Seeds(w) \subseteq Tracks
<1>1. w.persisted \in Tracks /\ None \in Tracks
  BY JobFields, NothingIs DEF Tracks
<1> QED BY <1>1 DEF Seeds

\* A step of the worker reads, is given up, or posts a result, which stays with
\* the control block when the window refuses it.
Reading(w) ==
    /\ worker.pc \in Running /\ w.pc \in Running
    /\ w.pc = "files" =>
          /\ worker.pc = "files" /\ w.files \subseteq worker.files
          /\ w.observed \subseteq worker.observed \cup worker.files
          /\ w.missing = worker.missing
    /\ w.pc # "files" /\ worker.pc = "files" => ~worker.load
    /\ w.observed \cup w.todo \subseteq worker.observed \cup worker.todo \cup present
    /\ w.missing = worker.missing \/ w.missing \cap present = {}
    /\ w.load = worker.load /\ w.posted = worker.posted
    /\ w.unposted = worker.unposted
    /\ messages' = messages

GivenUp(w) ==
    /\ worker.pc = "list" /\ w.pc = "done" /\ "cancel" \in env
    /\ w.missing = worker.missing /\ w.load = worker.load /\ w.posted = worker.posted
    /\ w.unposted = worker.unposted
    /\ messages' = messages

\* The window takes the result, or it stays with the control block.
Sent(w, r) ==
    \/ messages' = Append(messages, r) /\ w.posted /\ w.unposted = worker.unposted
    \/ /\ messages' = messages /\ w.unposted = r
       /\ (IF r.complete THEN "handoff" ELSE "partial") \in env

Posting(w, r) ==
    /\ IF r.complete THEN worker.pc \in Running /\ w.pc = "done"
       ELSE worker.pc = "files" /\ w.pc = "list" /\ worker.load
    /\ r.generation = worker.generation /\ r.revision = worker.revision
    /\ r.observed = worker.observed /\ r.missing = worker.missing
    /\ r.loads = worker.load /\ (r.failed => "throw" \in env)
    /\ w.observed = worker.observed /\ w.todo = worker.todo
    /\ w.missing = worker.missing /\ w.load = worker.load
    /\ Sent(w, r)

LEMMA DeliverYields ==
    ASSUME worker \in Jobs, NEW w \in Jobs, NEW r \in Results, Deliver(w, r),
           w.unposted = worker.unposted
    PROVE  \E v \in Jobs :
              /\ worker' = v /\ v.pc = w.pc
              /\ v.generation = w.generation /\ v.revision = w.revision
              /\ v.observed = w.observed /\ v.todo = w.todo
              /\ v.missing = w.missing /\ v.load = w.load
              /\ Sent(v, r)
              /\ UNCHANGED <<env, diskVars, watchVars, recorded, lib, indexing,
                             refreshPending, scan, phase, saved, user, history>>
<1>1. CASE WorkerStep([w EXCEPT !.posted = TRUE], Append(messages, r))
  <2>1. PICK v : v = [w EXCEPT !.posted = TRUE]
    OBVIOUS
  <2>2. /\ v \in Jobs /\ v.pc = w.pc /\ v.generation = w.generation
        /\ v.revision = w.revision /\ v.unposted = w.unposted
        /\ v.observed = w.observed /\ v.todo = w.todo
        /\ v.missing = w.missing /\ v.load = w.load /\ v.posted = TRUE
    BY <2>1 DEF Jobs
  <2> QED BY <1>1, <2>1, <2>2 DEF WorkerStep, Sent
<1>2. CASE /\ (IF r.complete THEN "handoff" ELSE "partial") \in env
           /\ WorkerStep([w EXCEPT !.posted = FALSE, !.unposted = r], messages)
  <2>1. PICK v : v = [w EXCEPT !.posted = FALSE, !.unposted = r]
    OBVIOUS
  <2>2. /\ v \in Jobs /\ v.pc = w.pc /\ v.generation = w.generation
        /\ v.revision = w.revision /\ v.unposted = r
        /\ v.observed = w.observed /\ v.todo = w.todo
        /\ v.missing = w.missing /\ v.load = w.load
    BY <2>1 DEF Jobs
  <2> QED BY <1>2, <2>1, <2>2 DEF WorkerStep, Sent
<1> QED BY <1>1, <1>2 DEF Deliver

LEMMA BuildYields ==
    ASSUME Typed, Build
    PROVE  /\ worker \in Jobs
           /\ \E w \in Jobs :
                /\ worker' = w
                /\ w.generation = worker.generation /\ w.revision = worker.revision
                /\ Reading(w) \/ GivenUp(w) \/ \E r \in Results : Posting(w, r)
           /\ UNCHANGED <<env, diskVars, watchVars, recorded, lib, indexing,
                          refreshPending, scan, phase, saved, user, history>>
<1> DEFINE Kept == UNCHANGED <<env, diskVars, watchVars, recorded, lib, indexing,
                               refreshPending, scan, phase, saved, user, history>>
           Yields == \E w \in Jobs :
                /\ worker' = w
                /\ w.generation = worker.generation /\ w.revision = worker.revision
                /\ Reading(w) \/ GivenUp(w) \/ \E r \in Results : Posting(w, r)
<1>0. /\ worker \in Jobs \cup {NoWorker} /\ content \in [Files -> Nat]
      /\ present \subseteq Files /\ saved \in Tracks
  BY DEF Typed, MonitorTyped, LibraryTyped
<1>1. worker.pc \in Running => worker \in Jobs
  BY <1>0, WorkerFields DEF Running
<1>2. ASSUME NEW f \in Files, ScanFile(f) PROVE worker \in Jobs /\ Yields /\ Kept
  <2>1. worker.pc = "files" /\ worker \in Jobs
    BY <1>1, <1>2 DEF ScanFile, Running
  <2>2. PICK v : v = [worker EXCEPT !.files = worker.files \ {f}]
    OBVIOUS
  <2>3. /\ v \in Jobs /\ v.pc = "files" /\ v.generation = worker.generation
        /\ v.revision = worker.revision /\ v.unposted = worker.unposted
        /\ v.files = worker.files \ {f} /\ v.observed = worker.observed
        /\ v.todo = worker.todo /\ v.missing = worker.missing
        /\ v.load = worker.load /\ v.posted = worker.posted
    <3>1. worker.files \ {f} \in SUBSET Files
      BY <2>1, JobFields
    <3> QED BY <2>1, <2>2, <3>1 DEF Jobs
  <2>4. PICK ok, a : /\ a = ReadTrack(v, f, ok)
                     /\ (worker' = a /\ f \in present) \/ worker' = v
    BY <1>2, <2>2 DEF ScanFile, WorkerStep
  <2>5. /\ a \in Jobs /\ a.pc = "files" /\ a.generation = worker.generation
        /\ a.revision = worker.revision /\ a.unposted = worker.unposted
        /\ a.files = worker.files \ {f} /\ a.observed = worker.observed \cup {f}
        /\ a.todo = worker.todo /\ a.missing = worker.missing
        /\ a.load = worker.load /\ a.posted = worker.posted
    BY <1>0, <2>3, <2>4, ReadTrackYields
  <2>6. messages' = messages /\ Kept /\ f \in worker.files
    BY <1>2 DEF ScanFile, WorkerStep
  <2>7. Reading(v) /\ (f \in present => Reading(a))
    BY <2>1, <2>3, <2>5, <2>6 DEF Reading, Running
  <2> QED BY <2>1, <2>3, <2>4, <2>5, <2>6, <2>7
<1>3. ASSUME NEW f \in Files, ReadListed(f) PROVE worker \in Jobs /\ Yields /\ Kept
  <2>1. worker.pc = "read" /\ worker \in Jobs
    BY <1>1, <1>3 DEF ReadListed, Running
  <2>2. PICK v : v = [worker EXCEPT !.todo = worker.todo \ {f}]
    OBVIOUS
  <2>3. /\ v \in Jobs /\ v.pc = "read" /\ v.generation = worker.generation
        /\ v.revision = worker.revision /\ v.unposted = worker.unposted
        /\ v.observed = worker.observed /\ v.todo = worker.todo \ {f}
        /\ v.missing = worker.missing
        /\ v.load = worker.load /\ v.posted = worker.posted
    <3>1. worker.todo \ {f} \in SUBSET Files
      BY <2>1, JobFields
    <3> QED BY <2>1, <2>2, <3>1 DEF Jobs
  <2>4. PICK ok, a : a = ReadTrack(v, f, ok) /\ worker' = a
    BY <1>3, <2>2 DEF ReadListed, WorkerStep
  <2>5. /\ a \in Jobs /\ a.pc = "read" /\ a.generation = worker.generation
        /\ a.revision = worker.revision /\ a.unposted = worker.unposted
        /\ a.observed = worker.observed \cup {f} /\ a.todo = worker.todo \ {f}
        /\ a.missing = worker.missing
        /\ a.load = worker.load /\ a.posted = worker.posted
    BY <1>0, <2>3, <2>4, ReadTrackYields
  <2>6. worker' = a /\ messages' = messages /\ Kept /\ f \in worker.todo
    BY <1>3, <2>2, <2>4 DEF ReadListed, WorkerStep
  <2>7. Reading(a)
    BY <2>1, <2>5, <2>6 DEF Reading, Running
  <2> QED BY <2>1, <2>5, <2>6, <2>7
<1>12. ASSUME NEW f \in Files, ReadUntagged(f) PROVE worker \in Jobs /\ Yields /\ Kept
  <2>1. worker.pc = "list" /\ worker \in Jobs
    BY <1>1, <1>12 DEF ReadUntagged, Running
  <2>2. PICK ok, a : /\ a = Read(worker, f, ok)
                     /\ worker' = a /\ messages' = messages /\ Kept
    BY <1>12 DEF ReadUntagged, WorkerStep
  <2>3. /\ a \in Jobs /\ a.pc = "list" /\ a.generation = worker.generation
        /\ a.revision = worker.revision /\ a.unposted = worker.unposted
        /\ a.observed = worker.observed /\ a.todo = worker.todo
        /\ a.missing = worker.missing
        /\ a.load = worker.load /\ a.posted = worker.posted
    BY <1>0, <2>1, <2>2, ReadYields
  <2>4. Reading(a)
    BY <2>1, <2>2, <2>3 DEF Reading, Running
  <2> QED BY <2>1, <2>2, <2>3, <2>4
<1>4. ASSUME MergeSeeds PROVE worker \in Jobs /\ Yields /\ Kept
  <2>1. worker.pc = "files" /\ worker \in Jobs
    BY <1>1, <1>4 DEF MergeSeeds, Running
  <2>9. PICK seeds \in Seeds(worker) :
            LET w == [worker EXCEPT !.pc = "list",
                          !.items = Over(Over(worker.items, worker.tracks), seeds)]
            IN  IF w.load THEN Deliver(w, Result(w, FALSE, FALSE))
                ELSE WorkerStep(w, messages)
    BY <1>4 DEF MergeSeeds
  <2>10. PICK items, w :
            /\ items = Over(Over(worker.items, worker.tracks), seeds)
            /\ w = [worker EXCEPT !.pc = "list", !.items = items]
            /\ IF w.load THEN Deliver(w, Result(w, FALSE, FALSE))
               ELSE WorkerStep(w, messages)
    BY <2>9
  <2>11. w.load = worker.load
    BY <2>1, <2>10 DEF Jobs
  <2>2. /\ seeds \in Seeds(worker)
        /\ items = Over(Over(worker.items, worker.tracks), seeds)
        /\ w = [worker EXCEPT !.pc = "list", !.items = items]
        /\ IF worker.load THEN Deliver(w, Result(w, FALSE, FALSE))
           ELSE WorkerStep(w, messages)
    BY <2>9, <2>10, <2>11
  <2>3. items \in Tracks
    <3>1. worker.items \in Tracks /\ worker.tracks \in Tracks /\ seeds \in Tracks
      BY <1>0, <2>1, <2>2, JobFields, SeedsTyped
    <3>2. Over(worker.items, worker.tracks) \in Tracks
      BY <3>1, OverTyped DEF Tracks
    <3> QED BY <2>2, <3>1, <3>2, OverTyped DEF Tracks
  <2>4. /\ w \in Jobs /\ w.pc = "list" /\ w.generation = worker.generation
        /\ w.revision = worker.revision /\ w.unposted = worker.unposted
        /\ w.observed = worker.observed /\ w.todo = worker.todo
        /\ w.missing = worker.missing
        /\ w.load = worker.load /\ w.posted = worker.posted
    BY <2>1, <2>2, <2>3 DEF Jobs, Running
  <2>5. PICK r : r = Result(w, FALSE, FALSE)
    OBVIOUS
  <2>6. /\ r \in Results /\ r.complete = FALSE /\ r.generation = worker.generation
        /\ r.revision = worker.revision /\ r.failed = FALSE /\ r.loads = worker.load
        /\ r.observed = worker.observed /\ r.missing = worker.missing
    BY <2>4, <2>5, ResultYields
  <2>7. CASE worker.load /\ Deliver(w, r)
    <3>1. PICK v \in Jobs :
              /\ worker' = v /\ v.pc = w.pc
              /\ v.generation = w.generation /\ v.revision = w.revision
              /\ v.observed = w.observed /\ v.todo = w.todo
              /\ v.missing = w.missing /\ v.load = w.load
              /\ Sent(v, r)
              /\ Kept
      BY <2>1, <2>4, <2>6, <2>7, DeliverYields
    <3>2. Posting(v, r)
      BY <2>1, <2>4, <2>6, <2>7, <3>1 DEF Posting
    <3> QED BY <2>1, <2>4, <2>6, <3>1, <3>2
  <2>8. CASE ~worker.load /\ WorkerStep(w, messages)
    <3>1. worker' = w /\ messages' = messages /\ Kept
      BY <2>8 DEF WorkerStep
    <3>2. Reading(w)
      BY <2>1, <2>4, <2>8, <3>1 DEF Reading, Running
    <3> QED BY <2>1, <2>4, <3>1, <3>2
  <2> QED BY <2>2, <2>5, <2>7, <2>8
<1>5. ASSUME ListDirectory PROVE worker \in Jobs /\ Yields /\ Kept
  <2>1. worker.pc = "list" /\ worker \in Jobs
    BY <1>1, <1>5 DEF ListDirectory, Running
  <2>2. PICK todo, w :
            /\ todo \subseteq present
            /\ w = [worker EXCEPT !.pc = "read", !.todo = todo]
            /\ WorkerStep(w, messages)
    BY <1>5 DEF ListDirectory
  <2>3. todo \in SUBSET Files
    BY <1>0, <2>2
  <2>4. /\ w \in Jobs /\ w.pc = "read" /\ w.generation = worker.generation
        /\ w.revision = worker.revision /\ w.unposted = worker.unposted
        /\ w.observed = worker.observed /\ w.todo = todo
        /\ w.missing = worker.missing
        /\ w.load = worker.load /\ w.posted = worker.posted
    BY <2>1, <2>2, <2>3 DEF Jobs, Running
  <2>5. worker' = w /\ messages' = messages /\ Kept
    BY <2>2 DEF WorkerStep
  <2>6. todo \subseteq present
    BY <2>2
  <2>7. Reading(w)
    BY <2>1, <2>4, <2>5, <2>6 DEF Reading, Running
  <2> QED BY <2>1, <2>4, <2>5, <2>7
<1>6. ASSUME ListCanceled PROVE worker \in Jobs /\ Yields /\ Kept
  <2>1. worker.pc = "list" /\ worker \in Jobs /\ "cancel" \in env
    BY <1>1, <1>6 DEF ListCanceled, Running
  <2>2. PICK w : w = [worker EXCEPT !.pc = "done"]
    OBVIOUS
  <2>3. /\ w \in Jobs /\ w.pc = "done" /\ w.generation = worker.generation
        /\ w.revision = worker.revision /\ w.unposted = worker.unposted
        /\ w.observed = worker.observed /\ w.todo = worker.todo
        /\ w.missing = worker.missing
        /\ w.load = worker.load /\ w.posted = worker.posted
    BY <2>1, <2>2 DEF Jobs
  <2>4. worker' = w /\ messages' = messages /\ Kept
    BY <1>6, <2>2 DEF ListCanceled, WorkerStep
  <2>5. GivenUp(w)
    BY <2>1, <2>3, <2>4 DEF GivenUp, Running
  <2> QED BY <2>1, <2>3, <2>4, <2>5
<1>7. ASSUME worker.pc \in Running, NEW failed \in BOOLEAN, failed => "throw" \in env,
             Deliver([worker EXCEPT !.pc = "done"], Result(worker, TRUE, failed))
      PROVE  worker \in Jobs /\ Yields /\ Kept
  <2>1. worker \in Jobs
    BY <1>1, <1>7
  <2>2. PICK w, r : w = [worker EXCEPT !.pc = "done"] /\ r = Result(worker, TRUE, failed)
    OBVIOUS
  <2>3. /\ w \in Jobs /\ w.pc = "done" /\ w.generation = worker.generation
        /\ w.revision = worker.revision /\ w.unposted = worker.unposted
        /\ w.observed = worker.observed /\ w.todo = worker.todo
        /\ w.missing = worker.missing
        /\ w.load = worker.load /\ w.posted = worker.posted
    BY <2>1, <2>2 DEF Jobs
  <2>4. /\ r \in Results /\ r.complete = TRUE /\ r.generation = worker.generation
        /\ r.revision = worker.revision /\ r.failed = failed /\ r.loads = worker.load
        /\ r.observed = worker.observed /\ r.missing = worker.missing
    BY <2>1, <2>2, ResultYields
  <2>5. PICK v \in Jobs :
            /\ worker' = v /\ v.pc = w.pc
            /\ v.generation = w.generation /\ v.revision = w.revision
            /\ v.observed = w.observed /\ v.todo = w.todo
            /\ v.missing = w.missing /\ v.load = w.load
            /\ Sent(v, r)
            /\ Kept
    <3>1. Deliver(w, r)
      BY <1>7, <2>2
    <3> QED BY <2>1, <2>3, <2>4, <3>1, DeliverYields
  <2>6. Posting(v, r)
    BY <1>7, <2>3, <2>4, <2>5 DEF Posting
  <2> QED BY <2>1, <2>3, <2>4, <2>5, <2>6
<1>8. BuildThrows => worker \in Jobs /\ Yields /\ Kept
  BY <1>7 DEF BuildThrows, Running
<1>9. DeliverResult => worker \in Jobs /\ Yields /\ Kept
  BY <1>7 DEF DeliverResult, Running
<1>10. ASSUME VerifyMissing PROVE worker \in Jobs /\ Yields /\ Kept
  <2>1. worker.pc = "read" /\ worker \in Jobs
    BY <1>1, <1>10 DEF VerifyMissing, Running
  <2>2. PICK missing, w :
            /\ missing \subseteq DOMAIN worker.items \ present
            /\ w = [worker EXCEPT !.pc = "deliver", !.missing = missing]
            /\ WorkerStep(w, messages)
    BY <1>10 DEF VerifyMissing
  <2>3. missing \in SUBSET Files
    <3>1. worker.items \in Tracks
      BY <2>1, JobFields
    <3>2. DOMAIN worker.items \subseteq Files
      BY <3>1, EntriesYields DEF Tracks
    <3> QED BY <2>2, <3>2
  <2>4. /\ w \in Jobs /\ w.pc = "deliver" /\ w.generation = worker.generation
        /\ w.revision = worker.revision /\ w.unposted = worker.unposted
        /\ w.observed = worker.observed /\ w.todo = worker.todo
        /\ w.missing = missing
        /\ w.load = worker.load /\ w.posted = worker.posted
    BY <2>1, <2>2, <2>3 DEF Jobs, Running
  <2>5. worker' = w /\ messages' = messages /\ Kept
    BY <2>2 DEF WorkerStep
  <2>6. missing \cap present = {}
    BY <2>2
  <2>7. Reading(w)
    BY <2>1, <2>4, <2>5, <2>6 DEF Reading, Running
  <2> QED BY <2>1, <2>4, <2>5, <2>7
<1> HIDE DEF Yields, Kept
<1>11. worker \in Jobs /\ Yields /\ Kept
  BY <1>2, <1>3, <1>4, <1>5, <1>6, <1>8, <1>9, <1>10, <1>12 DEF Build
<1> QED BY <1>11 DEF Yields, Kept

-----------------------------------------------------------------------------
(* What the handlers do to the catalogue.                                  *)

\* Every stamp is a revision given out.
Stamped(l) ==
    /\ \A f \in DOMAIN l.edits : l.edits[f].revision \in 1..l.revision
    /\ \A f \in DOMAIN l.fileChanges : l.fileChanges[f].revision \in 1..l.revision
    /\ \A f \in DOMAIN l.removed : l.removed[f] \in 0..l.revision

\* What a handler records is newer than what was there before.
Grown(l, a) ==
    /\ a \in Catalogue
    /\ l.revision <= a.revision
    /\ Stamped(l) => Stamped(a)
    /\ a.loaded = l.loaded
    /\ \A f \in DOMAIN a.removed :
          \/ f \in DOMAIN l.removed /\ a.removed[f] = l.removed[f]
          \/ a.removed[f] > l.revision
    /\ \A f \in DOMAIN a.fileChanges :
          \/ f \in DOMAIN l.fileChanges /\ a.fileChanges[f] = l.fileChanges[f]
          \/ a.fileChanges[f].revision > l.revision

\* An edit finds nothing removed, queues nothing and takes at most the files S
\* out of the removed tracks.
EditOnly(l, a, S) ==
    /\ l.excluded \ S \subseteq a.excluded
    /\ a.fileChanges = l.fileChanges
    /\ DOMAIN a.removed \subseteq DOMAIN l.removed
    /\ a.files = l.files

LEMMA EditStamped ==
    ASSUME NEW T, NEW n \in Nat, NEW m, NEW f, NEW e, e.revision = n + 1,
           \A x \in DOMAIN m : m[x].revision \in 1..n
    PROVE  /\ \A x \in DOMAIN Put(m, f, e) : Put(m, f, e)[x].revision \in 1..(n + 1)
           /\ \A x \in DOMAIN Put(m, f, e) :
                 \/ x \in DOMAIN m /\ Put(m, f, e)[x] = m[x]
                 \/ Put(m, f, e)[x].revision > n
<1>1. /\ DOMAIN Put(m, f, e) = {f} \cup DOMAIN m
      /\ Put(m, f, e)[f] = e
      /\ \A x \in DOMAIN m \ {f} : Put(m, f, e)[x] = m[x]
  BY DEF Put, Over
<1>2. \A x \in DOMAIN m : m[x].revision \in 1..(n + 1)
  OBVIOUS
<1>3. e.revision \in 1..(n + 1) /\ e.revision > n
  OBVIOUS
<1> QED BY <1>1, <1>2, <1>3

LEMMA ReratedYields ==
    ASSUME NEW t \in Tracks, NEW f, NEW r \in Nat
    PROVE  Rerated(t, f, r) \in Tracks /\ DOMAIN Rerated(t, f, r) = DOMAIN t
<1>1. DOMAIN t \subseteq Files /\ \A x \in DOMAIN t : t[x] \in TrackType
  BY EntriesYields DEF Tracks
<1>2. CASE f \in DOMAIN t
  <2>1. PICK v : v = [t[f] EXCEPT !.rating = r]
    OBVIOUS
  <2>2. v \in TrackType
    BY <1>1, <1>2, <2>1 DEF TrackType
  <2>3. Rerated(t, f, r) = [t EXCEPT ![f] = v]
    BY <1>2, <2>1 DEF Rerated
  <2>4. t \in [DOMAIN t -> TrackType]
    BY EntriesYields DEF Tracks
  <2>5. Rerated(t, f, r) \in [DOMAIN t -> TrackType]
    BY <2>2, <2>3, <2>4
  <2>6. DOMAIN t \in SUBSET Files
    BY <1>1
  <2> QED BY <2>5, <2>6, EntriesIs DEF Tracks
<1>3. CASE f \notin DOMAIN t
  BY <1>3 DEF Rerated
<1> QED BY <1>2, <1>3

LEMMA RatedGrows ==
    ASSUME NEW l \in Catalogue, NEW f \in DOMAIN l.items, NEW r \in Nat, NEW a,
           a = [l EXCEPT !.items = Rerated(@, f, r), !.persisted = Rerated(@, f, r),
                         !.tracks = Rerated(@, f, r), !.edits = RatingEdit(l, f, r),
                         !.revision = @ + 1]
    PROVE  Grown(l, a) /\ EditOnly(l, a, {})
<1>0. PICK items, persisted, tracks, whole, tags, e, edits :
          /\ items = Rerated(l.items, f, r) /\ persisted = Rerated(l.persisted, f, r)
          /\ tracks = Rerated(l.tracks, f, r)
          /\ whole = (f \in DOMAIN l.edits /\ ~l.edits[f].ratingOnly)
          /\ tags = IF whole THEN l.edits[f].track.tags ELSE l.items[f].tags
          /\ e = [revision |-> l.revision + 1, track |-> Track(tags, r),
                  ratingOnly |-> ~whole]
          /\ edits = Put(l.edits, f, e)
  OBVIOUS
<1>1. a = [l EXCEPT !.items = items, !.persisted = persisted, !.tracks = tracks,
                    !.edits = edits, !.revision = l.revision + 1]
  BY <1>0 DEF RatingEdit
<1>2. /\ l.items \in Tracks /\ l.persisted \in Tracks /\ l.tracks \in Tracks
      /\ l.edits \in Edits /\ l.revision \in Nat
  BY CatalogueFields
<1>3. items \in Tracks /\ persisted \in Tracks /\ tracks \in Tracks
  BY <1>0, <1>2, ReratedYields
<1>4. /\ f \in Files /\ l.items[f] \in TrackType
      /\ \A x \in DOMAIN l.edits :
            l.edits[x] \in [revision : Nat, track : TrackType, ratingOnly : BOOLEAN]
  BY <1>2, EntriesYields DEF Tracks, Edits
<1>5. edits \in Edits
  <2>1. whole \in BOOLEAN
    BY <1>0
  <2>2. whole => l.edits[f].track \in TrackType
    BY <1>0, <1>4
  <2>3. tags \in Nat
    BY <1>0, <1>4, <2>2, TrackFields
  <2>4. Track(tags, r) \in TrackType
    BY <2>3, TrackTyped
  <2>5. e \in [revision : Nat, track : TrackType, ratingOnly : BOOLEAN]
    BY <1>0, <1>2, <2>1, <2>4
  <2> QED BY <1>0, <1>2, <1>4, <2>5, PutTyped DEF Edits
<1>6. a \in Catalogue
  <2>1. l.revision + 1 \in Nat
    BY <1>2
  <2> QED BY <1>1, <1>3, <1>5, <2>1 DEF Catalogue
<1>7. /\ a.revision = l.revision + 1 /\ a.edits = edits /\ a.removed = l.removed
      /\ a.fileChanges = l.fileChanges /\ a.loaded = l.loaded
      /\ a.excluded = l.excluded /\ a.files = l.files
  BY <1>1 DEF Catalogue
<1>8. ASSUME Stamped(l) PROVE Stamped(a)
  <2>1. \A x \in DOMAIN edits : edits[x].revision \in 1..(l.revision + 1)
    <3>1. e.revision = l.revision + 1
      BY <1>0
    <3> QED BY <1>0, <1>2, <1>8, <3>1, EditStamped DEF Stamped
  <2>2. \A x \in DOMAIN l.fileChanges : l.fileChanges[x].revision \in 1..(l.revision + 1)
    BY <1>2, <1>8 DEF Stamped
  <2>3. \A x \in DOMAIN l.removed : l.removed[x] \in 0..(l.revision + 1)
    BY <1>2, <1>8 DEF Stamped
  <2> QED BY <1>7, <2>1, <2>2, <2>3 DEF Stamped
<1> QED BY <1>2, <1>6, <1>7, <1>8 DEF Grown, EditOnly

LEMMA DiscardedGrows ==
    ASSUME NEW l \in Catalogue, NEW f \in Files, NEW a,
           a = [l EXCEPT !.excluded = @ \cup {f}, !.persisted = Without(@, {f})]
    PROVE  Grown(l, a) /\ a.excluded = l.excluded \cup {f} /\ EditOnly(l, a, {})
<1>1. PICK persisted : persisted = Without(l.persisted, {f})
  OBVIOUS
<1>2. persisted \in Tracks /\ l.excluded \cup {f} \in SUBSET Files /\ l.revision \in Nat
  <2>1. l.persisted \in Tracks
    BY CatalogueFields
  <2>2. persisted \in Tracks
    BY <1>1, <2>1, WithoutTyped DEF Tracks
  <2> QED BY <2>2, CatalogueFields
<1>3. a = [l EXCEPT !.excluded = l.excluded \cup {f}, !.persisted = persisted]
  BY <1>1
<1>4. a \in Catalogue
  BY <1>2, <1>3 DEF Catalogue
<1>5. /\ a.revision = l.revision /\ a.edits = l.edits /\ a.removed = l.removed
      /\ a.fileChanges = l.fileChanges /\ a.loaded = l.loaded
      /\ a.excluded = l.excluded \cup {f} /\ a.files = l.files
  BY <1>3 DEF Catalogue
<1> QED BY <1>2, <1>4, <1>5 DEF Grown, Stamped, EditOnly

LEMMA ImportedGrows ==
    ASSUME NEW l \in Catalogue, NEW f \in Files, NEW t \in TrackType, NEW a,
           a = [l EXCEPT !.excluded = @ \ {f}, !.removed = Without(@, {f}),
                         !.items = Put(@, f, t),
                         !.persisted = Over(@, [x \in {f} |-> t]),
                         !.tracks = Over(@, [x \in {f} |-> t]),
                         !.edits = Put(@, f, [revision |-> l.revision + 1,
                                              track |-> t, ratingOnly |-> FALSE]),
                         !.revision = @ + 1]
    PROVE  Grown(l, a) /\ EditOnly(l, a, {f})
<1>0. PICK removed, items, entry, persisted, tracks, e, edits :
          /\ removed = Without(l.removed, {f}) /\ items = Put(l.items, f, t)
          /\ entry = [x \in {f} |-> t]
          /\ persisted = Over(l.persisted, entry) /\ tracks = Over(l.tracks, entry)
          /\ e = [revision |-> l.revision + 1, track |-> t, ratingOnly |-> FALSE]
          /\ edits = Put(l.edits, f, e)
  OBVIOUS
<1>1. a = [l EXCEPT !.excluded = l.excluded \ {f}, !.removed = removed, !.items = items,
                    !.persisted = persisted, !.tracks = tracks, !.edits = edits,
                    !.revision = l.revision + 1]
  BY <1>0
<1>2. /\ l.items \in Tracks /\ l.persisted \in Tracks /\ l.tracks \in Tracks
      /\ l.edits \in Edits /\ l.revision \in Nat /\ l.removed \in Entries(Nat)
      /\ l.excluded \ {f} \in SUBSET Files /\ l.revision + 1 \in Nat
  BY CatalogueFields
<1>3. entry \in Tracks
  BY <1>0, ConstantTyped DEF Tracks
<1>4. /\ items \in Tracks /\ persisted \in Tracks /\ tracks \in Tracks
      /\ removed \in Entries(Nat)
  BY <1>0, <1>2, <1>3, PutTyped, OverTyped, WithoutTyped DEF Tracks
<1>5. edits \in Edits
  <2>1. e \in [revision : Nat, track : TrackType, ratingOnly : BOOLEAN]
    BY <1>0, <1>2
  <2> QED BY <1>0, <1>2, <2>1, PutTyped DEF Edits
<1>6. a \in Catalogue
  <2>1. PICK rest \in SUBSET Files, n \in Nat : rest = l.excluded \ {f} /\ n = l.revision + 1
    BY <1>2
  <2>2. a = [l EXCEPT !.excluded = rest, !.removed = removed, !.items = items,
                      !.persisted = persisted, !.tracks = tracks, !.edits = edits,
                      !.revision = n]
    BY <1>1, <2>1
  <2> QED BY <1>4, <1>5, <2>1, <2>2, ZenonT(40) DEF Catalogue
<1>7. /\ a.revision = l.revision + 1 /\ a.edits = edits /\ a.removed = removed
      /\ a.fileChanges = l.fileChanges /\ a.loaded = l.loaded
      /\ a.excluded = l.excluded \ {f} /\ a.files = l.files
  BY <1>1 DEF Catalogue
<1>8. /\ DOMAIN removed \subseteq DOMAIN l.removed
      /\ \A x \in DOMAIN removed : removed[x] = l.removed[x]
  BY <1>0 DEF Without
<1>9. ASSUME Stamped(l) PROVE Stamped(a)
  <2>1. \A x \in DOMAIN edits : edits[x].revision \in 1..(l.revision + 1)
    <3>1. e.revision = l.revision + 1
      BY <1>0
    <3> QED BY <1>0, <1>2, <1>9, <3>1, EditStamped DEF Stamped
  <2>2. \A x \in DOMAIN l.fileChanges : l.fileChanges[x].revision \in 1..(l.revision + 1)
    BY <1>2, <1>9 DEF Stamped
  <2>3. \A x \in DOMAIN removed : removed[x] \in 0..(l.revision + 1)
    BY <1>2, <1>8, <1>9 DEF Stamped
  <2> QED BY <1>7, <2>1, <2>2, <2>3 DEF Stamped
<1>10. \A x \in DOMAIN a.removed : x \in DOMAIN l.removed /\ a.removed[x] = l.removed[x]
  BY <1>7, <1>8
<1>11. l.revision <= a.revision
  BY <1>2, <1>7
<1>12. Grown(l, a)
  BY <1>6, <1>7, <1>9, <1>10, <1>11 DEF Grown
<1> QED BY <1>7, <1>8, <1>12 DEF EditOnly

LEMMA FileRemovedGrows ==
    ASSUME NEW l \in Catalogue, NEW f \in Files, NEW a, a = FileRemoved(l, f)
    PROVE  /\ Grown(l, a) /\ l.excluded \subseteq a.excluded /\ a.files = l.files
           /\ DOMAIN a.removed \subseteq DOMAIN l.removed \cup {f}
           /\ \A g \in DOMAIN a.fileChanges :
                 \/ g = f /\ a.fileChanges[g].removed
                 \/ g \in DOMAIN l.fileChanges /\ a.fileChanges[g] = l.fileChanges[g]
<1>0. PICK known, stamp, notices, notice, removed, persisted :
          /\ known = DOMAIN l.items \cap {f}
          /\ stamp = [x \in known |-> l.revision + 1]
          /\ notice = [revision |-> l.revision + 1, removed |-> TRUE]
          /\ notices = Put(l.fileChanges, f, notice)
          /\ removed = Over(stamp, l.removed)
          /\ persisted = Without(l.persisted, known)
  OBVIOUS
<1>1. a = [l EXCEPT !.revision = l.revision + 1, !.fileChanges = notices,
                    !.excluded = l.excluded \cup known, !.persisted = persisted,
                    !.removed = removed]
  BY <1>0 DEF FileRemoved, FileChange
<1>2. /\ l.fileChanges \in Notices /\ l.removed \in Entries(Nat)
      /\ l.persisted \in Tracks /\ l.revision \in Nat
      /\ known \in SUBSET Files /\ known \subseteq {f}
      /\ l.excluded \cup known \in SUBSET Files /\ l.revision + 1 \in Nat
  BY <1>0, CatalogueFields
<1>3. notices \in Notices
  <2>1. notice \in [revision : Nat, removed : BOOLEAN]
    BY <1>0, <1>2
  <2> QED BY <1>0, <1>2, <2>1, PutTyped DEF Notices
<1>4. removed \in Entries(Nat) /\ persisted \in Tracks
  <2>1. stamp \in Entries(Nat)
    BY <1>0, <1>2, ConstantTyped
  <2> QED BY <1>0, <1>2, <2>1, OverTyped, WithoutTyped DEF Tracks
<1>5. a \in Catalogue
  BY <1>1, <1>2, <1>3, <1>4 DEF Catalogue
<1>6. /\ a.revision = l.revision + 1 /\ a.files = l.files /\ a.loaded = l.loaded
      /\ a.edits = l.edits /\ a.excluded = l.excluded \cup known
      /\ a.fileChanges = notices /\ a.removed = removed
  BY <1>1 DEF Catalogue
<1>7. /\ DOMAIN notices = DOMAIN l.fileChanges \cup {f}
      /\ notices[f] = notice
      /\ \A g \in DOMAIN l.fileChanges \ {f} : notices[g] = l.fileChanges[g]
  BY <1>0 DEF Put, Over
<1>8. notice.removed /\ notice.revision = l.revision + 1
  BY <1>0
<1>9. /\ DOMAIN removed = known \cup DOMAIN l.removed
      /\ \A g \in known : removed[g] = l.revision + 1
      /\ \A g \in DOMAIN l.removed \ known : removed[g] = l.removed[g]
  BY <1>0 DEF Over
<1>10. ASSUME Stamped(l) PROVE Stamped(a)
  <2>1. \A x \in DOMAIN l.edits : l.edits[x].revision \in 1..(l.revision + 1)
    BY <1>2, <1>10 DEF Stamped
  <2>2. \A x \in DOMAIN notices : notices[x].revision \in 1..(l.revision + 1)
    BY <1>0, <1>2, <1>8, <1>10, EditStamped DEF Stamped
  <2>3. \A x \in DOMAIN removed : removed[x] \in 0..(l.revision + 1)
    BY <1>2, <1>9, <1>10 DEF Stamped
  <2> QED BY <1>6, <2>1, <2>2, <2>3 DEF Stamped
<1>11. Grown(l, a)
  BY <1>2, <1>5, <1>6, <1>7, <1>8, <1>9, <1>10 DEF Grown
<1> QED BY <1>2, <1>6, <1>7, <1>8, <1>9, <1>11

LEMMA FileAddedGrows ==
    ASSUME NEW l \in Catalogue, NEW f \in Files, NEW a, a = FileAdded(l, f)
    PROVE  Grown(l, a)
<1>0. PICK revived, notice, notices, removed, files :
          /\ revived = {f} \cap l.excluded
          /\ notice = [revision |-> l.revision + 1, removed |-> FALSE]
          /\ notices = Put(l.fileChanges, f, notice)
          /\ removed = Without(l.removed, revived)
          /\ files = IF f \in DOMAIN l.items THEN l.files ELSE l.files \cup {f}
  OBVIOUS
<1>1. a = [l EXCEPT !.revision = l.revision + 1, !.fileChanges = notices,
                    !.excluded = l.excluded \ revived, !.removed = removed,
                    !.files = files]
  BY <1>0 DEF FileAdded, FileChange
<1>2. /\ l.fileChanges \in Notices /\ l.removed \in Entries(Nat)
      /\ l.revision \in Nat /\ l.revision + 1 \in Nat
      /\ l.excluded \ revived \in SUBSET Files /\ files \in SUBSET Files
  BY <1>0, CatalogueFields
<1>3. notices \in Notices
  <2>1. notice \in [revision : Nat, removed : BOOLEAN]
    BY <1>0, <1>2
  <2> QED BY <1>0, <1>2, <2>1, PutTyped DEF Notices
<1>4. removed \in Entries(Nat)
  BY <1>0, <1>2, WithoutTyped
<1>5. a \in Catalogue
  BY <1>1, <1>2, <1>3, <1>4 DEF Catalogue
<1>6. /\ a.revision = l.revision + 1 /\ a.loaded = l.loaded /\ a.edits = l.edits
      /\ a.fileChanges = notices /\ a.removed = removed
  BY <1>1 DEF Catalogue
<1>7. /\ DOMAIN removed \subseteq DOMAIN l.removed
      /\ \A x \in DOMAIN removed : removed[x] = l.removed[x]
  BY <1>0 DEF Without
<1>8. /\ DOMAIN notices = DOMAIN l.fileChanges \cup {f}
      /\ notices[f] = notice /\ notice.revision = l.revision + 1
      /\ \A g \in DOMAIN l.fileChanges \ {f} : notices[g] = l.fileChanges[g]
  BY <1>0 DEF Put, Over
<1>9. ASSUME Stamped(l) PROVE Stamped(a)
  <2>1. \A x \in DOMAIN l.edits : l.edits[x].revision \in 1..(l.revision + 1)
    BY <1>2, <1>9 DEF Stamped
  <2>2. \A x \in DOMAIN notices : notices[x].revision \in 1..(l.revision + 1)
    BY <1>0, <1>2, <1>8, <1>9, EditStamped DEF Stamped
  <2>3. \A x \in DOMAIN removed : removed[x] \in 0..(l.revision + 1)
    BY <1>2, <1>7, <1>9 DEF Stamped
  <2> QED BY <1>6, <2>1, <2>2, <2>3 DEF Stamped
<1> QED BY <1>2, <1>5, <1>6, <1>7, <1>8, <1>9 DEF Grown

LEMMA QueuedGrows ==
    ASSUME NEW l \in Catalogue, NEW S \in SUBSET Files, NEW a,
           a = [l EXCEPT !.files = @ \cup S]
    PROVE  /\ Grown(l, a) /\ a.excluded = l.excluded /\ a.removed = l.removed
           /\ a.fileChanges = l.fileChanges /\ a.revision = l.revision
           /\ a.files \subseteq l.files \cup S
<1>1. l.revision \in Nat /\ l.files \cup S \in SUBSET Files
  BY CatalogueFields
<1>2. /\ a \in Catalogue /\ a.revision = l.revision /\ a.loaded = l.loaded
      /\ a.edits = l.edits /\ a.fileChanges = l.fileChanges /\ a.removed = l.removed
      /\ a.excluded = l.excluded /\ a.files = l.files \cup S
  BY <1>1 DEF Catalogue
<1> QED BY <1>1, <1>2 DEF Grown, Stamped

\* The directory is queued, or what is queued is taken by a scan.
LEMMA RequestGrows ==
    ASSUME NEW l \in Catalogue, NEW a,
           \/ a = [l EXCEPT !.directory = TRUE]
           \/ a = [l EXCEPT !.files = {}, !.directory = FALSE, !.tracks = None]
    PROVE  /\ Grown(l, a) /\ a.excluded = l.excluded /\ a.removed = l.removed
           /\ a.fileChanges = l.fileChanges /\ a.revision = l.revision
           /\ a.files \subseteq l.files
<1>1. l.revision \in Nat
  BY CatalogueFields
<1>2. None \in Tracks
  BY NothingIs DEF Tracks
<1>3. /\ a \in Catalogue /\ a.revision = l.revision /\ a.loaded = l.loaded
      /\ a.edits = l.edits /\ a.fileChanges = l.fileChanges /\ a.removed = l.removed
      /\ a.excluded = l.excluded /\ a.files \subseteq l.files
  <2>1. CASE a = [l EXCEPT !.directory = TRUE]
    BY <2>1 DEF Catalogue
  <2>2. CASE a = [l EXCEPT !.files = {}, !.directory = FALSE, !.tracks = None]
    BY <1>2, <2>2 DEF Catalogue
  <2> QED BY <2>1, <2>2
<1> QED BY <1>1, <1>3 DEF Grown, Stamped

LEMMA AppliedStamped ==
    ASSUME NEW l \in Catalogue, NEW r \in Results, r.revision <= l.revision, Stamped(l)
    PROVE  Stamped(Applied(l, r))
<1>1. PICK a : a = Applied(l, r)
  OBVIOUS
<1>2. /\ a.revision = l.revision /\ a.removed = Exclusions(l, r).removed
      /\ \E S : a.edits = Without(l.edits, S)
      /\ \E S : a.fileChanges = Without(l.fileChanges, S)
  BY <1>1, AppliedYields
<1>3. l.revision \in Nat /\ r.revision \in Nat
  BY CatalogueFields, ResultFields
<1>4. \A f \in DOMAIN a.edits : a.edits[f].revision \in 1..l.revision
  BY <1>2 DEF Without, Stamped
<1>5. \A f \in DOMAIN a.fileChanges : a.fileChanges[f].revision \in 1..l.revision
  BY <1>2 DEF Without, Stamped
<1>6. ASSUME NEW f \in DOMAIN a.removed PROVE a.removed[f] \in 0..l.revision
  <2>1. \/ f \in DOMAIN l.removed /\ a.removed[f] = l.removed[f]
        \/ f \in DOMAIN l.fileChanges /\ a.removed[f] = l.fileChanges[f].revision
        \/ a.removed[f] = r.revision
    BY <1>2, ExclusionsYields
  <2>2. \A g \in DOMAIN l.fileChanges : l.fileChanges[g].revision \in 0..l.revision
    BY <1>3 DEF Stamped
  <2>3. r.revision \in 0..l.revision
    BY <1>3
  <2> QED BY <2>1, <2>2, <2>3 DEF Stamped
<1> QED BY <1>1, <1>2, <1>4, <1>5, <1>6 DEF Stamped

-----------------------------------------------------------------------------
(* The inductive invariant.                                                *)

\* No result is of a revision to come, and a scan and its unposted result have
\* the number of the last scan.
Numbered(w, n, s) ==
    /\ w # NoWorker => w.revision <= n /\ w.generation = s
    /\ w.unposted # NoResult => w.unposted.revision <= n /\ w.unposted.generation = s

MailStamped(ms, n) ==
    \A i \in DOMAIN ms : ms[i].kind = "ready" => ms[i].revision <= n

\* A scan has at most one complete result, and it is its last word.
Protocol(w, ms, s) ==
    /\ MailOK(ms, s)
    /\ w.pc = "files" => w.unposted = NoResult /\ ~OnItsWay(ms, s, FALSE)
    /\ w.pc \in Running => ~OnItsWay(ms, s, TRUE)
    /\ w.unposted # NoResult /\ w.unposted.complete =>
          w.pc = "done" /\ ~OnItsWay(ms, s, TRUE)

Sound(l, w, ms, s) ==
    /\ Stamped(l)
    /\ Numbered(w, l.revision, s)
    /\ MailStamped(ms, l.revision)
    /\ Protocol(w, ms, s)

\* Where no partial result is refused and no scan given up, the complete result
\* of the last scan is still to come while the flag is set, and while the
\* partial result that would set it again is on its way.
Delivery(idx, w, ms, s) ==
    /\ w.pc \in Running => w.unposted = NoResult
    /\ w.unposted # NoResult => w.unposted.complete
    /\ idx \/ OnItsWay(ms, s, FALSE) =>
          w.pc \in Running \/ w.unposted # NoResult \/ OnItsWay(ms, s, TRUE)

IInv ==
    /\ Typed
    /\ Sound(lib, worker, messages, scan)
    /\ phase = "open" /\ Avoids({"partial", "cancel"}) =>
          Delivery(indexing, worker, messages, scan)

-----------------------------------------------------------------------------
(* The end of a handler.                                                   *)

Ends(l, idx, w) == Refresh(l, idx, w) \/ Settle(l, idx, w)

\* Whether or not a handler starts a scan, it leaves the library in order.
LEMMA HandlersEndWell ==
    ASSUME scan \in Nat, refreshPending \in BOOLEAN,
           NEW l \in Catalogue, NEW idx \in BOOLEAN, NEW w \in Jobs \cup {NoWorker},
           NEW ms \in Seq(Messages), Ends(l, idx, w), Sound(l, w, ms, scan)
    PROVE  /\ lib' \in Catalogue /\ indexing' \in BOOLEAN
           /\ refreshPending' \in BOOLEAN /\ scan' \in Nat
           /\ worker' \in Jobs \cup {NoWorker}
           /\ Sound(lib', worker', ms, scan')
           /\ Delivery(idx, w, ms, scan) => Delivery(indexing', worker', ms, scan')
<1>1. CASE /\ lib' = l /\ indexing' = idx /\ worker' = w /\ scan' = scan
           /\ refreshPending' \in BOOLEAN
  BY <1>1
<1>2. CASE /\ lib' = [l EXCEPT !.files = {}, !.directory = FALSE, !.tracks = None]
           /\ indexing' = TRUE /\ refreshPending' = FALSE
           /\ scan' = scan + 1 /\ worker' = Job(l, scan + 1)
  <2>1. PICK a, j, s : a = lib' /\ j = worker' /\ s = scan + 1
    OBVIOUS
  <2>2. /\ a \in Catalogue /\ a.revision = l.revision /\ Stamped(a)
    <3>1. a = [l EXCEPT !.files = {}, !.directory = FALSE, !.tracks = None]
      BY <1>2, <2>1
    <3>2. Grown(l, a) /\ a.revision = l.revision
      BY <3>1, RequestGrows
    <3> QED BY <3>2 DEF Sound, Grown
  <2>3. /\ j \in Jobs /\ j.generation = s /\ j.pc = "files" /\ j.unposted = NoResult
        /\ j.revision = l.revision /\ s \in Nat
    BY <1>2, <2>1, JobYields
  <2>4. MailOK(ms, s) /\ \A c \in BOOLEAN : ~OnItsWay(ms, s, c)
    BY <2>1, NewScanHasNoMail DEF Sound, Protocol
  <2>5. l.revision \in Nat
    BY CatalogueFields
  <2>6. Sound(a, j, ms, s)
    <3>1. Numbered(j, a.revision, s)
      BY <2>2, <2>3, <2>5 DEF Numbered
    <3>2. MailStamped(ms, a.revision)
      BY <2>2 DEF Sound
    <3>3. Protocol(j, ms, s)
      BY <2>3, <2>4 DEF Protocol
    <3> QED BY <2>2, <3>1, <3>2, <3>3 DEF Sound
  <2>7. Delivery(TRUE, j, ms, s)
    BY <2>3 DEF Delivery, Running
  <2> QED BY <1>2, <2>1, <2>2, <2>3, <2>6, <2>7
<1> QED BY <1>1, <1>2 DEF Ends, Refresh, Settle

LEMMA GrownIsSound ==
    ASSUME NEW l \in Catalogue, NEW a, Grown(l, a), NEW w \in Jobs \cup {NoWorker},
           NEW ms \in Seq(Messages), NEW s, Sound(l, w, ms, s)
    PROVE  Sound(a, w, ms, s)
<1>1. l.revision \in Nat /\ a.revision \in Nat /\ l.revision <= a.revision
  BY CatalogueFields DEF Grown
<1>2. Numbered(w, a.revision, s)
  <2>1. /\ w # NoWorker => w.revision \in Nat
        /\ w.unposted # NoResult => w.unposted.revision \in Nat
    BY WorkerFields, JobFields, ResultFields
  <2> QED BY <1>1, <2>1 DEF Sound, Numbered
<1>3. MailStamped(ms, a.revision)
  <2> SUFFICES ASSUME NEW i \in DOMAIN ms, ms[i].kind = "ready"
               PROVE  ms[i].revision <= a.revision
    BY DEF MailStamped
  <2>1. ms[i] \in Results
    <3>1. ms[i] \in Messages
      OBVIOUS
    <3> QED BY <3>1, ReadyIsResult
  <2>2. ms[i].revision \in Nat /\ ms[i].revision <= l.revision
    BY <2>1, ResultFields DEF Sound, MailStamped
  <2> QED BY <1>1, <2>2
<1>4. Stamped(a)
  BY DEF Sound, Grown
<1> QED BY <1>2, <1>3, <1>4 DEF Sound

\* A handler that changed the catalogue before it ended.
LEMMA GrowingHandlersEndWell ==
    ASSUME scan \in Nat, refreshPending \in BOOLEAN,
           NEW l \in Catalogue, NEW a, Grown(l, a),
           NEW idx \in BOOLEAN, NEW w \in Jobs \cup {NoWorker},
           NEW ms \in Seq(Messages), Ends(a, idx, w), Sound(l, w, ms, scan)
    PROVE  /\ lib' \in Catalogue /\ indexing' \in BOOLEAN
           /\ refreshPending' \in BOOLEAN /\ scan' \in Nat
           /\ worker' \in Jobs \cup {NoWorker}
           /\ Sound(lib', worker', ms, scan')
           /\ Delivery(idx, w, ms, scan) => Delivery(indexing', worker', ms, scan')
<1>1. a \in Catalogue /\ Sound(a, w, ms, scan)
  BY GrownIsSound DEF Grown
<1> QED BY <1>1, HandlersEndWell

LEMMA GrownReflexive == ASSUME NEW l \in Catalogue PROVE Grown(l, l)
BY CatalogueFields DEF Grown

LEMMA ApplyEndsWell ==
    ASSUME scan \in Nat, refreshPending \in BOOLEAN, indexing \in BOOLEAN,
           lib \in Catalogue,
           NEW r \in Results, r.revision <= lib.revision,
           NEW w \in Jobs \cup {NoWorker}, NEW ms \in Seq(Messages), Apply(r, w),
           Sound(lib, w, ms, scan)
    PROVE  /\ lib' \in Catalogue /\ indexing' \in BOOLEAN
           /\ refreshPending' \in BOOLEAN /\ scan' \in Nat
           /\ worker' \in Jobs \cup {NoWorker}
           /\ Sound(lib', worker', ms, scan')
           /\ Delivery(IF r.generation = scan THEN ~r.complete ELSE indexing, w, ms, scan)
                 => Delivery(indexing', worker', ms, scan')
<1>1. PICK l, idx :
          /\ l = IF r.generation = scan /\ ~r.failed THEN Applied(lib, r) ELSE lib
          /\ idx = IF r.generation = scan THEN ~r.complete ELSE indexing
  OBVIOUS
<1>2. Ends(l, idx, w)
  BY <1>1 DEF Apply, Ends
<1>3. idx \in BOOLEAN
  BY <1>1, ResultFields
<1>4. l \in Catalogue /\ Sound(l, w, ms, scan)
  <2>1. CASE l = lib
    BY <2>1
  <2>2. CASE l = Applied(lib, r)
    <3>1. l \in Catalogue /\ l.revision = lib.revision
      BY <2>2, AppliedYields
    <3>2. Stamped(l)
      BY <2>2, AppliedStamped DEF Sound
    <3> QED BY <3>1, <3>2 DEF Sound
  <2> QED BY <1>1, <2>1, <2>2
<1>5. Delivery(idx, w, ms, scan) => Delivery(indexing', worker', ms, scan')
  BY <1>2, <1>3, <1>4, HandlersEndWell
<1>6. /\ lib' \in Catalogue /\ indexing' \in BOOLEAN
      /\ refreshPending' \in BOOLEAN /\ scan' \in Nat
      /\ worker' \in Jobs \cup {NoWorker}
      /\ Sound(lib', worker', ms, scan')
  BY <1>2, <1>3, <1>4, HandlersEndWell
<1> QED BY <1>1, <1>5, <1>6

-----------------------------------------------------------------------------
(* Every step keeps the invariant: the directory and its monitor.          *)

LEMMA RescanIsMessage ==
    ASSUME generation \in Nat PROVE Rescan \in Changes \cup Rescans
BY DEF Rescan, Rescans

LEMMA ChangeIsMessage ==
    ASSUME generation \in Nat, NEW c \in Actions, NEW f \in Files
    PROVE  Change(c, f) \in Changes \cup Rescans
BY DEF Change, Changes

\* Only notifications are posted.
LEMMA NotificationsKeep ==
    ASSUME IInv, MonitorTyped', UNCHANGED libraryVars, env' \subseteq env,
           env \ {"overflow"} \subseteq env',
           NEW cs \in Seq(Changes \cup Rescans), messages' = messages \o cs
    PROVE  IInv'
<1>1. /\ messages \in Seq(Messages) /\ scan \in Nat
      /\ Sound(lib, worker, messages, scan)
  BY DEF IInv, Typed, MonitorTyped, LibraryTyped
<1>2. PICK ms : ms = messages \o cs
  OBVIOUS
<1>3. /\ ms \in Seq(Messages) /\ MailOK(ms, scan)
      /\ \A c \in BOOLEAN : OnItsWay(ms, scan, c) <=> OnItsWay(messages, scan, c)
      /\ \A i \in DOMAIN ms : \/ \E j \in DOMAIN messages : ms[i] = messages[j]
                              \/ \E k \in DOMAIN cs : ms[i] = cs[k]
  <2>1. MailOK(messages, scan)
    BY <1>1 DEF Sound, Protocol
  <2>2. /\ messages \o cs \in Seq(Messages) /\ MailOK(messages \o cs, scan)
        /\ \A c \in BOOLEAN : OnItsWay(messages \o cs, scan, c) <=> OnItsWay(messages, scan, c)
        /\ \A i \in DOMAIN (messages \o cs) :
              \/ \E j \in DOMAIN messages : (messages \o cs)[i] = messages[j]
              \/ \E k \in DOMAIN cs : (messages \o cs)[i] = cs[k]
    BY <1>1, <2>1, ChangesBehind
  <2> QED BY <1>2, <2>2
<1>4. MailStamped(ms, lib.revision)
  <2>1. \A k \in DOMAIN cs : cs[k].kind = "change"
    <3>1. \A k \in DOMAIN cs : cs[k] \in Changes \cup Rescans
      OBVIOUS
    <3> QED BY <3>1, ChangesAreNotCurrent
  <2> QED BY <1>1, <1>3, <2>1 DEF Sound, MailStamped
<1>5. Protocol(worker, ms, scan)
  BY <1>1, <1>3 DEF Sound, Protocol
<1>6. Sound(lib, worker, ms, scan)
  BY <1>1, <1>4, <1>5 DEF Sound
<1>7. Delivery(indexing, worker, messages, scan) => Delivery(indexing, worker, ms, scan)
  BY <1>3 DEF Delivery
<1>8. Avoids({"partial", "cancel"})' => Avoids({"partial", "cancel"})
  BY DEF Avoids
<1>9. Typed'
  BY DEF IInv, Typed, LibraryTyped, libraryVars, history
<1> QED BY <1>2, <1>6, <1>7, <1>8, <1>9 DEF IInv, libraryVars, history

LEMMA NothingPosted == messages \in Seq(Messages) =>
    <<>> \in Seq(Changes \cup Rescans) /\ messages = messages \o <<>>
OBVIOUS

LEMMA DirectoryWriteKeeps == IInv /\ DirectoryWrite => IInv'
<1> SUFFICES ASSUME IInv, DirectoryWrite PROVE IInv'
  OBVIOUS
<1>1. MonitorTyped
  BY DEF IInv, Typed
<1>2. PICK f \in Files : CreateFile(f) \/ ModifyFile(f) \/ RemoveFile(f)
  BY DEF DirectoryWrite
<1>3. /\ present' \subseteq Files /\ content' \in [Files -> Nat]
      /\ \E c \in Actions : Written(f, c)
  <2>1. present' \subseteq Files
    BY <1>1, <1>2 DEF CreateFile, ModifyFile, RemoveFile, MonitorTyped
  <2>2. content' \in [Files -> Nat]
    BY <1>1, <1>2 DEF CreateFile, ModifyFile, RemoveFile, MonitorTyped
  <2>3. \E c \in Actions : Written(f, c)
    BY <1>2 DEF CreateFile, ModifyFile, RemoveFile, Actions
  <2> QED BY <2>1, <2>2, <2>3
<1>4. recorded' \in Seq(Actions \X Files)
  BY <1>1, <1>3 DEF Written, MonitorTyped
<1>5. UNCHANGED <<env, watch, monitoring, generation, messages>>
  BY <1>3 DEF Written, watchVars
<1>6. MonitorTyped'
  BY <1>1, <1>3, <1>4, <1>5 DEF MonitorTyped
<1>7. UNCHANGED libraryVars
  BY DEF DirectoryWrite
<1>8. <<>> \in Seq(Changes \cup Rescans) /\ messages' = messages \o <<>>
  BY <1>1, <1>5, NothingPosted DEF MonitorTyped
<1> QED BY <1>5, <1>6, <1>7, <1>8, NotificationsKeep

LEMMA RecordDropped ==
    ASSUME NEW S, NEW rs \in Seq(S), NEW i \in DOMAIN rs, NEW r, r = RemoveAt(rs, i)
    PROVE  /\ r \in Seq(S)
           /\ \A k \in DOMAIN r : \E j \in DOMAIN rs : r[k] = rs[j]
<1>1. PICK n \in Nat : n = Len(rs) /\ DOMAIN rs = 1..n /\ i \in 1..n
  OBVIOUS
<1>2. PICK front, back : front = SubSeq(rs, 1, i - 1) /\ back = SubSeq(rs, i + 1, n)
  OBVIOUS
<1>3. /\ front \in Seq(S) /\ Len(front) = i - 1
      /\ \A k \in 1..(i - 1) : front[k] = rs[k]
  <2>1. \A k \in 1..(i - 1) : rs[k] \in S
    BY <1>1
  <2> QED BY <1>1, <1>2, <2>1, SubSeqProperties
<1>4. /\ back \in Seq(S) /\ Len(back) = n - i
      /\ \A k \in 1..(n - i) : back[k] = rs[k + i]
  <2>1. \A k \in (i + 1)..n : rs[k] \in S
    BY <1>1
  <2>2. /\ back \in Seq(S) /\ Len(back) = IF i + 1 <= n THEN n - (i + 1) + 1 ELSE 0
        /\ \A k \in 1..(n - (i + 1) + 1) : back[k] = rs[(i + 1) + k - 1]
    BY <1>1, <1>2, <2>1, SubSeqProperties, SMTT(30)
  <2>3. Len(back) = n - i
    BY <1>1, <2>2
  <2>4. \A k \in 1..(n - i) : k \in 1..(n - (i + 1) + 1) /\ (i + 1) + k - 1 = k + i
    BY <1>1
  <2> QED BY <2>2, <2>3, <2>4
<1>5. r = front \o back
  BY <1>1, <1>2 DEF RemoveAt
<1>6. r \in Seq(S) /\ Len(r) = n - 1
  BY <1>1, <1>3, <1>4, <1>5
<1>7. ASSUME NEW k \in DOMAIN r PROVE \E j \in DOMAIN rs : r[k] = rs[j]
  <2>1. k \in 1..(n - 1)
    BY <1>6
  <2>2. CASE k < i
    <3>1. k \in 1..(i - 1) /\ r[k] = front[k] /\ k \in DOMAIN rs
      BY <1>1, <1>3, <1>4, <1>5, <2>1, <2>2
    <3> QED BY <1>3, <3>1
  <2>3. CASE ~(k < i)
    <3>1. r[k] = back[k - (i - 1)] /\ k - (i - 1) \in 1..(n - i)
      BY <1>1, <1>3, <1>4, <1>5, <2>1, <2>3, SMTT(30)
    <3>2. (k - (i - 1)) + i = k + 1 /\ k + 1 \in DOMAIN rs
      BY <1>1, <2>1
    <3> QED BY <1>4, <3>1, <3>2
  <2> QED BY <2>2, <2>3
<1> QED BY <1>6, <1>7

\* What the worker of the monitor does to the records: they stay, one is left
\* out, or all are.
RecordsKept ==
    \/ recorded' = recorded
    \/ \E i \in DOMAIN recorded : recorded' = RemoveAt(recorded, i)
    \/ recorded' = <<>>

LEMMA RecordsKeep ==
    ASSUME recorded \in Seq(Actions \X Files), RecordsKept
    PROVE  /\ recorded' \in Seq(Actions \X Files)
           /\ \A k \in DOMAIN recorded' :
                 \E j \in DOMAIN recorded : recorded'[k] = recorded[j]
<1>1. CASE recorded' = recorded
  BY <1>1
<1>2. ASSUME NEW i \in DOMAIN recorded, recorded' = RemoveAt(recorded, i)
      PROVE  /\ recorded' \in Seq(Actions \X Files)
             /\ \A k \in DOMAIN recorded' :
                   \E j \in DOMAIN recorded : recorded'[k] = recorded[j]
  BY <1>2, RecordDropped
<1>3. CASE recorded' = <<>>
  <2>1. PICK rs : rs = recorded'
    OBVIOUS
  <2>2. rs \in Seq(Actions \X Files) /\ DOMAIN rs = {}
    BY <1>3, <2>1
  <2> QED BY <2>1, <2>2
<1> QED BY <1>1, <1>2, <1>3 DEF RecordsKept

\* The monitor posts notifications.
LEMMA WatchPosts ==
    ASSUME Typed, Watch
    PROVE  \E cs \in Seq(Changes \cup Rescans) : messages' = messages \o cs
<1>0. MonitorTyped /\ generation \in Nat /\ messages \in Seq(Messages)
  BY DEF Typed, MonitorTyped
<1>1. CASE messages' = messages
  BY <1>0, <1>1, NothingPosted
<1>2. CASE messages' = Append(messages, Rescan)
  <2>1. Rescan \in Changes \cup Rescans
    BY <1>0, RescanIsMessage
  <2>2. <<Rescan>> \in Seq(Changes \cup Rescans)
    BY <2>1
  <2>3. PICK cs \in Seq(Changes \cup Rescans) : cs = <<Rescan>>
    BY <2>2
  <2>4. Append(messages, Rescan) = messages \o cs
    BY <1>0, <2>3
  <2> QED BY <1>2, <2>4
<1>3. CASE ReadBatch
  <2>1. PICK cs : cs = [i \in DOMAIN recorded |-> Change(recorded[i][1], recorded[i][2])]
    OBVIOUS
  <2>2. recorded \in Seq(Actions \X Files)
    BY <1>0 DEF MonitorTyped
  <2>3. \A i \in DOMAIN recorded :
            Change(recorded[i][1], recorded[i][2]) \in Changes \cup Rescans
    <3> SUFFICES ASSUME NEW i \in DOMAIN recorded
                 PROVE  Change(recorded[i][1], recorded[i][2]) \in Changes \cup Rescans
      OBVIOUS
    <3>1. recorded[i] \in Actions \X Files
      BY <2>2
    <3>2. recorded[i][1] \in Actions /\ recorded[i][2] \in Files
      BY <3>1
    <3> QED BY <1>0, <3>2, ChangeIsMessage
  <2>4. DOMAIN recorded = 1..Len(recorded) /\ Len(recorded) \in Nat
    BY <2>2
  <2>5. cs \in [1..Len(recorded) -> Changes \cup Rescans]
    BY <2>1, <2>3, <2>4
  <2>6. cs \in Seq(Changes \cup Rescans)
    BY <2>4, <2>5, SeqDef
  <2> QED BY <1>3, <2>1, <2>6 DEF ReadBatch
<1> QED BY <1>1, <1>2, <1>3
        DEF Watch, WatchStep, OpenWatch, AnnounceScan, DropRecord, ReadOverflow, Rearm,
            RearmFails, Notify

LEMMA WatchKeeps == IInv /\ Watch => IInv'
<1> SUFFICES ASSUME IInv, Watch PROVE IInv'
  OBVIOUS
<1>1. MonitorTyped /\ generation \in Nat /\ messages \in Seq(Messages)
  BY DEF IInv, Typed, MonitorTyped
<1>2. /\ UNCHANGED <<diskVars, monitoring, generation>> /\ UNCHANGED libraryVars
      /\ env' \subseteq env /\ env \ {"overflow"} \subseteq env'
      /\ watch' \in {"closed", "announce", "waiting", "rearm"}
      /\ RecordsKept
  BY <1>1 DEF Watch, WatchStep, OpenWatch, AnnounceScan, ReadBatch, DropRecord,
              ReadOverflow, Rearm, RearmFails, watchVars, MonitorTyped, RecordsKept
<1>3. \E cs \in Seq(Changes \cup Rescans) : messages' = messages \o cs
  BY WatchPosts DEF IInv
<1>4. messages' \in Seq(Messages)
  BY <1>1, <1>3, ChangesBehind, RescanIsMessage DEF IInv, Typed, LibraryTyped
<1>5. MonitorTyped'
  <2>1. recorded' \in Seq(Actions \X Files)
    <3>1. recorded \in Seq(Actions \X Files)
      BY <1>1 DEF MonitorTyped
    <3> QED BY <1>2, <3>1, RecordsKeep
  <2> QED BY <1>1, <1>2, <1>4, <2>1 DEF MonitorTyped, diskVars
<1> QED BY <1>2, <1>3, <1>5, NotificationsKeep

-----------------------------------------------------------------------------
(* Every step keeps the invariant: the scan worker.                        *)

LEMMA BuildKeeps == IInv /\ Build => IInv'
<1> SUFFICES ASSUME IInv, Build PROVE IInv'
  OBVIOUS
<1>1. /\ Typed /\ MonitorTyped /\ LibraryTyped /\ messages \in Seq(Messages) /\ scan \in Nat
      /\ Sound(lib, worker, messages, scan) /\ lib \in Catalogue
  BY DEF IInv, Typed, MonitorTyped, LibraryTyped
<1>2. PICK w \in Jobs :
          /\ worker' = w
          /\ w.generation = worker.generation /\ w.revision = worker.revision
          /\ Reading(w) \/ GivenUp(w) \/ \E r \in Results : Posting(w, r)
  BY <1>1, BuildYields
<1>3. /\ worker \in Jobs
      /\ UNCHANGED <<env, diskVars, watchVars, recorded, lib, indexing,
                     refreshPending, scan, phase, saved, user, history>>
  BY <1>1, BuildYields
<1>4. worker # NoWorker /\ w # NoWorker /\ worker.revision \in Nat /\ lib.revision \in Nat
  BY <1>1, <1>3, JobFields, CatalogueFields
<1>5. w.revision <= lib.revision /\ w.generation = scan
  BY <1>1, <1>2, <1>4 DEF Sound, Numbered
<1>6. MailStamped(messages, lib.revision) /\ Protocol(worker, messages, scan)
      /\ Stamped(lib) /\ MailOK(messages, scan)
      /\ Numbered(worker, lib.revision, scan)
  BY <1>1 DEF Sound, Protocol
<1> DEFINE D == Delivery(indexing, worker, messages, scan)
           D2(ms) == Delivery(indexing, w, ms, scan)
<1>7. /\ messages' \in Seq(Messages)
      /\ Sound(lib, w, messages', scan)
      /\ Avoids({"partial", "cancel"}) /\ D => D2(messages')
  <2>1. CASE Reading(w)
    <3>1. /\ messages' = messages /\ w.unposted = worker.unposted
          /\ worker.pc \in Running /\ w.pc \in Running
          /\ w.pc = "files" => worker.pc = "files" /\ w.pc # "done" /\ worker.pc # "done"
      BY <2>1 DEF Reading
    <3>2. w.pc # "done" /\ worker.pc # "done"
      BY <3>1 DEF Running
    <3>3. Numbered(w, lib.revision, scan)
      BY <1>4, <1>5, <1>6, <3>1 DEF Numbered
    <3>4. Protocol(w, messages, scan)
      BY <1>6, <3>1, <3>2 DEF Protocol
    <3>5. D => D2(messages)
      BY <3>1 DEF Delivery
    <3> QED BY <1>1, <1>6, <3>1, <3>3, <3>4, <3>5 DEF Sound
  <2>2. CASE GivenUp(w)
    <3>1. /\ messages' = messages /\ w.unposted = worker.unposted
          /\ worker.pc \in Running /\ w.pc = "done" /\ "cancel" \in env
      BY <2>2 DEF GivenUp, Running
    <3>2. Numbered(w, lib.revision, scan)
      BY <1>4, <1>5, <1>6, <3>1 DEF Numbered
    <3>3. Protocol(w, messages, scan)
      BY <1>6, <3>1 DEF Protocol, Running
    <3>4. ~Avoids({"partial", "cancel"})
      BY <3>1 DEF Avoids
    <3> QED BY <1>1, <1>6, <3>1, <3>2, <3>3, <3>4 DEF Sound
  <2>3. ASSUME NEW r \in Results, Posting(w, r)
        PROVE  /\ messages' \in Seq(Messages)
               /\ Sound(lib, w, messages', scan)
               /\ Avoids({"partial", "cancel"}) /\ D => D2(messages')
    <3>1. /\ r.generation = scan /\ r.revision <= lib.revision /\ r # NoResult
          /\ r.complete \in BOOLEAN
      BY <1>2, <1>5, <2>3, ResultFields DEF Posting
    <3>2. worker.pc \in Running /\ (~r.complete => worker.pc = "files")
      BY <2>3 DEF Posting, Running
    <3>3. /\ ~OnItsWay(messages, scan, TRUE)
          /\ OnItsWay(messages, scan, FALSE) => r.complete
          /\ ~(worker.unposted # NoResult /\ worker.unposted.complete)
      BY <1>6, <3>2 DEF Protocol, Running
    <3>4. /\ r.complete => w.pc = "done"
          /\ ~r.complete => w.pc = "list" /\ w.pc \in Running
          /\ w.pc # "files"
      BY <2>3 DEF Posting, Running
    <3>5. CASE messages' = Append(messages, r) /\ w.unposted = worker.unposted
      <4>1. PICK ms : ms = Append(messages, r)
        OBVIOUS
      <4>2. /\ ms \in Seq(Messages) /\ MailOK(ms, scan)
            /\ OnItsWay(ms, scan, r.complete)
            /\ \A c \in BOOLEAN : OnItsWay(ms, scan, c) =>
                                      OnItsWay(messages, scan, c) \/ c = r.complete
            /\ \A i \in DOMAIN ms : ms[i] = r \/ \E j \in DOMAIN messages : ms[i] = messages[j]
          <5>1. Posted(messages, r, scan, ms)
          BY <1>1, <1>6, <3>1, <3>3, <4>1, ResultBehind
        <5> QED BY <5>1 DEF Posted
      <4>3. MailStamped(ms, lib.revision)
        BY <1>6, <3>1, <4>2 DEF MailStamped
      <4>4. Numbered(w, lib.revision, scan)
        BY <1>4, <1>5, <1>6, <3>5 DEF Numbered
      <4>5. ~r.complete => ~OnItsWay(ms, scan, TRUE)
        BY <3>1, <3>3, <4>2
      <4>6. Protocol(w, ms, scan)
        BY <3>3, <3>4, <3>5, <4>2, <4>5 DEF Protocol, Running
      <4>7. D => D2(ms)
        <5>1. CASE r.complete
          <6>1. OnItsWay(ms, scan, TRUE) /\ w.pc \notin Running
            BY <3>1, <3>4, <4>2, <5>1 DEF Running
          <6> QED BY <3>5, <6>1 DEF Delivery
        <5>2. CASE ~r.complete
          BY <3>2, <3>4, <3>5, <5>2 DEF Delivery
        <5> QED BY <5>1, <5>2
      <4> QED BY <1>6, <3>5, <4>1, <4>2, <4>3, <4>4, <4>6, <4>7 DEF Sound
    <3>6. CASE messages' = messages /\ w.unposted = r /\ (~r.complete => "partial" \in env)
      <4>1. Numbered(w, lib.revision, scan)
        BY <1>4, <1>5, <3>1, <3>6 DEF Numbered
      <4>2. Protocol(w, messages, scan)
        BY <1>6, <3>3, <3>4, <3>6 DEF Protocol, Running
      <4>3. Avoids({"partial", "cancel"}) => r.complete
        BY <3>6 DEF Avoids
      <4>4. Avoids({"partial", "cancel"}) => D2(messages)
        BY <3>1, <3>4, <3>6, <4>3 DEF Delivery, Running
      <4> QED BY <1>1, <1>6, <3>6, <4>1, <4>2, <4>4 DEF Sound
    <3> QED BY <2>3, <3>5, <3>6 DEF Posting, Sent
  <2> QED BY <1>2, <2>1, <2>2, <2>3
<1>8. Typed'
  <2>1. MonitorTyped'
    BY <1>1, <1>3, <1>7 DEF MonitorTyped, diskVars, watchVars
  <2>2. LibraryTyped'
    BY <1>1, <1>2, <1>3 DEF LibraryTyped, history
  <2> QED BY <2>1, <2>2 DEF Typed
<1>9. Sound(lib', worker', messages', scan')
  BY <1>2, <1>3, <1>7
<1>10. phase' = "open" /\ Avoids({"partial", "cancel"})' =>
           Delivery(indexing', worker', messages', scan')
  <2>1. phase' = "open" /\ Avoids({"partial", "cancel"})' => D
    BY <1>3 DEF IInv, Avoids
  <2>2. Avoids({"partial", "cancel"})' => Avoids({"partial", "cancel"})
    BY <1>3 DEF Avoids
  <2> QED BY <1>2, <1>3, <1>7, <2>1, <2>2
<1> QED BY <1>8, <1>9, <1>10 DEF IInv

-----------------------------------------------------------------------------
(* Every step keeps the invariant: the window.                             *)

\* A message that is taken leaves the rest in order.
LEMMA TakenKeeps ==
    ASSUME NEW l, NEW w, NEW ms \in Seq(Messages), NEW i \in DOMAIN ms, NEW s \in Nat,
           Sound(l, w, ms, s)
    PROVE  /\ RemoveAt(ms, i) \in Seq(Messages) /\ Sound(l, w, RemoveAt(ms, i), s)
           /\ \A idx : Delivery(idx, w, ms, s) /\ ~Current(ms[i], s) =>
                           Delivery(idx, w, RemoveAt(ms, i), s)
<1>1. PICK rest : rest = RemoveAt(ms, i)
  OBVIOUS
<1>2. /\ rest \in Seq(Messages) /\ MailOK(rest, s)
      /\ \A k \in DOMAIN rest : \E j \in DOMAIN ms : rest[k] = ms[j]
      /\ \A c \in BOOLEAN : OnItsWay(rest, s, c) => OnItsWay(ms, s, c)
      /\ \A c \in BOOLEAN : OnItsWay(ms, s, c) =>
            OnItsWay(rest, s, c) \/ (Current(ms[i], s) /\ ms[i].complete = c)
  <2>1. MailOK(ms, s)
    BY DEF Sound, Protocol
  <2>2. Taken(ms, i, s, rest)
    BY <1>1, <2>1, TakenYields
  <2> QED BY <2>2 DEF Taken
<1>3. MailStamped(rest, l.revision)
  BY <1>2 DEF Sound, MailStamped
<1>4. Protocol(w, rest, s)
  BY <1>2 DEF Sound, Protocol
<1>5. \A idx : Delivery(idx, w, ms, s) /\ ~Current(ms[i], s) => Delivery(idx, w, rest, s)
  BY <1>2 DEF Delivery
<1> QED BY <1>1, <1>2, <1>3, <1>4, <1>5 DEF Sound

\* Where nothing is refused or given up, a result that is received is followed
\* by the complete one unless it is complete.
LEMMA ResultTakenDelivers ==
    ASSUME NEW l, NEW w \in Jobs \cup {NoWorker}, NEW ms \in Seq(Messages), ms # <<>>,
           NEW s \in Nat, NEW idx \in BOOLEAN,
           Sound(l, w, ms, s), Delivery(idx, w, ms, s), Head(ms).kind = "ready"
    PROVE  Delivery(IF Head(ms).generation = s THEN ~Head(ms).complete ELSE idx,
                    w, RemoveAt(ms, 1), s)
<1>1. PICK rest, r : rest = RemoveAt(ms, 1) /\ r = Head(ms)
  OBVIOUS
<1>2. 1 \in DOMAIN ms /\ ms[1] = r
  BY <1>1, TailIsTaken
<1>3. MailOK(ms, s)
  BY DEF Sound, Protocol
<1>4. /\ r \in Messages
      /\ \A c \in BOOLEAN : OnItsWay(rest, s, c) => OnItsWay(ms, s, c)
      /\ \A c \in BOOLEAN : OnItsWay(ms, s, c) =>
            OnItsWay(rest, s, c) \/ (Current(r, s) /\ r.complete = c)
      /\ Current(r, s) => ~OnItsWay(rest, s, FALSE)
  <2>1. Taken(ms, 1, s, rest)
    BY <1>1, <1>2, <1>3, TakenYields
  <2>2. ms[1] \in Messages
    BY <1>2
  <2> QED BY <1>2, <2>1, <2>2 DEF Taken
<1>5. r \in Results /\ r.complete \in BOOLEAN
  BY <1>1, <1>4, ReadyIsResult, ResultFields
<1>6. CASE r.generation # s
  BY <1>1, <1>4, <1>6 DEF Delivery, Current
<1>7. CASE r.generation = s
  <2>1. Current(r, s)
    BY <1>1, <1>7 DEF Current
  <2>2. CASE r.complete
    BY <1>1, <1>4, <1>5, <1>7, <2>1, <2>2 DEF Delivery
  <2>3. CASE ~r.complete
    <3>1. OnItsWay(ms, s, FALSE)
      BY <1>2, <1>5, <2>1, <2>3 DEF OnItsWay
    <3>2. r.complete = FALSE
      BY <1>5, <2>3
    <3> QED BY <1>1, <1>4, <1>7, <2>1, <3>1, <3>2 DEF Delivery
  <2> QED BY <2>2, <2>3
<1> QED BY <1>6, <1>7

LEMMA ReceiveResultKeeps == IInv /\ ReceiveResult => IInv'
<1> SUFFICES ASSUME IInv, ReceiveResult PROVE IInv'
  OBVIOUS
<1>1. /\ MonitorTyped /\ LibraryTyped /\ messages \in Seq(Messages) /\ scan \in Nat
      /\ Sound(lib, worker, messages, scan) /\ lib \in Catalogue
      /\ worker \in Jobs \cup {NoWorker} /\ indexing \in BOOLEAN
      /\ refreshPending \in BOOLEAN
  BY DEF IInv, Typed, MonitorTyped, LibraryTyped
<1>2. PICK i \in DOMAIN messages :
          /\ messages[i].kind = "ready" /\ (phase = "open" => i = 1)
          /\ messages' = RemoveAt(messages, i) /\ Apply(messages[i], worker)
  BY DEF ReceiveResult
<1>3. /\ messages # <<>>
      /\ UNCHANGED <<env, diskVars, watchVars, recorded, phase, saved, user, history>>
  BY DEF ReceiveResult
<1>4. PICK ms, r : ms = RemoveAt(messages, i) /\ r = messages[i]
  OBVIOUS
<1>5. /\ ms \in Seq(Messages) /\ Sound(lib, worker, ms, scan)
  BY <1>1, <1>4, TakenKeeps
<1>6. r \in Results /\ r.revision <= lib.revision
  <2>1. r \in Messages
    BY <1>1, <1>4
  <2> QED BY <1>1, <1>2, <1>4, <2>1, ReadyIsResult DEF Sound, MailStamped
<1>7. /\ lib' \in Catalogue /\ indexing' \in BOOLEAN
      /\ refreshPending' \in BOOLEAN /\ scan' \in Nat
      /\ worker' \in Jobs \cup {NoWorker}
      /\ Sound(lib', worker', ms, scan')
      /\ Delivery(IF r.generation = scan THEN ~r.complete ELSE indexing, worker, ms, scan)
            => Delivery(indexing', worker', ms, scan')
  BY <1>1, <1>2, <1>4, <1>5, <1>6, ApplyEndsWell
<1>8. ASSUME phase' = "open", Avoids({"partial", "cancel"})'
      PROVE  Delivery(indexing', worker', messages', scan')
  <2>1. Delivery(indexing, worker, messages, scan)
    BY <1>3, <1>8 DEF IInv, Avoids
  <2>2. i = 1 /\ Head(messages) = r
    BY <1>1, <1>2, <1>3, <1>4, <1>8, TailIsTaken
  <2>3. Delivery(IF r.generation = scan THEN ~r.complete ELSE indexing, worker, ms, scan)
    BY <1>1, <1>2, <1>3, <1>4, <2>1, <2>2, ResultTakenDelivers
  <2> QED BY <1>2, <1>4, <1>7, <2>3
<1>9. MonitorTyped'
  BY <1>1, <1>2, <1>3, <1>4, <1>5 DEF MonitorTyped, diskVars, watchVars
<1>10. LibraryTyped'
  BY <1>1, <1>3, <1>7 DEF LibraryTyped, history
<1> QED BY <1>2, <1>4, <1>7, <1>8, <1>9, <1>10 DEF IInv, Typed

LEMMA PollWorkersKeeps == IInv /\ PollWorkers => IInv'
<1> SUFFICES ASSUME IInv, PollWorkers PROVE IInv'
  OBVIOUS
<1>1. /\ MonitorTyped /\ LibraryTyped /\ messages \in Seq(Messages) /\ scan \in Nat
      /\ Sound(lib, worker, messages, scan) /\ lib \in Catalogue
      /\ worker \in Jobs \cup {NoWorker} /\ indexing \in BOOLEAN
      /\ refreshPending \in BOOLEAN
  BY DEF IInv, Typed, MonitorTyped, LibraryTyped
<1>2. /\ UNCHANGED <<monitorVars, phase, saved, user, history>>
      /\ phase = "open" => messages = <<>>
      /\ worker.pc = "done"
  BY DEF PollWorkers
<1>3. /\ NoWorker \in Jobs \cup {NoWorker} /\ NoWorker.unposted = NoResult
      /\ NoWorker.pc \notin Running /\ NoWorker.pc # "files"
  BY DEF NoWorker, Running
<1>4. Sound(lib, NoWorker, messages, scan)
  BY <1>1, <1>3 DEF Sound, Numbered, Protocol
<1>5. phase = "open" => \A c \in BOOLEAN : ~OnItsWay(messages, scan, c)
  BY <1>2 DEF OnItsWay
<1>6. CASE worker.unposted # NoResult
  <2>1. PICK r : r = worker.unposted
    OBVIOUS
  <2>2. r \in Results /\ r.revision <= lib.revision /\ r.generation = scan
    BY <1>1, <1>6, <2>1, WorkerFields DEF Sound, Numbered
  <2>3. Apply(r, NoWorker)
    BY <1>6, <2>1 DEF PollWorkers
  <2>4. /\ lib' \in Catalogue /\ indexing' \in BOOLEAN
        /\ refreshPending' \in BOOLEAN /\ scan' \in Nat
        /\ worker' \in Jobs \cup {NoWorker}
        /\ Sound(lib', worker', messages, scan')
        /\ Delivery(IF r.generation = scan THEN ~r.complete ELSE indexing,
                    NoWorker, messages, scan)
              => Delivery(indexing', worker', messages, scan')
    BY <1>1, <1>3, <1>4, <2>2, <2>3, ApplyEndsWell
  <2>5. ASSUME phase' = "open", Avoids({"partial", "cancel"})'
        PROVE  Delivery(indexing', worker', messages, scan')
    <3>1. Delivery(indexing, worker, messages, scan)
      BY <1>2, <2>5 DEF IInv, Avoids, monitorVars
    <3>2. r.complete
      BY <1>6, <2>1, <3>1 DEF Delivery
    <3>3. Delivery(FALSE, NoWorker, messages, scan)
      BY <1>2, <1>3, <1>5, <2>5 DEF Delivery
    <3> QED BY <2>2, <2>4, <3>2, <3>3
  <2>6. LibraryTyped'
    BY <1>1, <1>2, <2>4 DEF LibraryTyped, history
  <2>7. MonitorTyped' /\ messages' = messages
    BY <1>1, <1>2 DEF MonitorTyped, monitorVars, diskVars, watchVars
  <2> QED BY <2>4, <2>5, <2>6, <2>7 DEF IInv, Typed
<1>7. CASE worker.unposted = NoResult
  <2>1. PICK idx : idx = (indexing /\ (worker.posted \/ worker.generation # scan))
    OBVIOUS
  <2>2. Ends(lib, idx, NoWorker) /\ idx \in BOOLEAN
    BY <1>7, <2>1 DEF PollWorkers, Ends
  <2>3. /\ lib' \in Catalogue /\ indexing' \in BOOLEAN
        /\ refreshPending' \in BOOLEAN /\ scan' \in Nat
        /\ worker' \in Jobs \cup {NoWorker}
        /\ Sound(lib', worker', messages, scan')
        /\ Delivery(idx, NoWorker, messages, scan) =>
              Delivery(indexing', worker', messages, scan')
    BY <1>1, <1>3, <1>4, <2>2, HandlersEndWell
  <2>4. ASSUME phase' = "open", Avoids({"partial", "cancel"})'
        PROVE  Delivery(indexing', worker', messages, scan')
    <3>1. Delivery(indexing, worker, messages, scan)
      BY <1>2, <2>4 DEF IInv, Avoids, monitorVars
    <3>2. ~indexing
      BY <1>2, <1>5, <1>7, <2>4, <3>1 DEF Delivery, Running
    <3>3. Delivery(idx, NoWorker, messages, scan)
      BY <1>2, <1>3, <1>5, <2>1, <2>4, <3>2 DEF Delivery
    <3> QED BY <2>3, <3>3
  <2>5. LibraryTyped'
    BY <1>1, <1>2, <2>3 DEF LibraryTyped, history
  <2>6. MonitorTyped' /\ messages' = messages
    BY <1>1, <1>2 DEF MonitorTyped, monitorVars, diskVars, watchVars
  <2> QED BY <2>3, <2>4, <2>5, <2>6 DEF IInv, Typed
<1> QED BY <1>6, <1>7

\* A handler that found the queue at ms, changed the catalogue to a and ended.
LEMMA HandlerKeeps ==
    ASSUME IInv, MonitorTyped', env' = env, phase' = phase, saved' \in Tracks,
           user' \in Nat, rated' \in Entries(Nat), discarded' \subseteq Files,
           added' \subseteq Files,
           NEW a, Grown(lib, a), Ends(a, indexing, worker),
           Sound(lib, worker, messages', scan),
           Delivery(indexing, worker, messages, scan) =>
               Delivery(indexing, worker, messages', scan)
    PROVE  IInv'
<1>1. PICK ms : ms = messages'
  OBVIOUS
<1>2. /\ scan \in Nat /\ refreshPending \in BOOLEAN /\ lib \in Catalogue
      /\ indexing \in BOOLEAN /\ worker \in Jobs \cup {NoWorker}
      /\ ms \in Seq(Messages) /\ LibraryTyped
  BY <1>1 DEF IInv, Typed, LibraryTyped, MonitorTyped
<1>3. /\ lib' \in Catalogue /\ indexing' \in BOOLEAN
      /\ refreshPending' \in BOOLEAN /\ scan' \in Nat
      /\ worker' \in Jobs \cup {NoWorker}
      /\ Sound(lib', worker', ms, scan')
      /\ Delivery(indexing, worker, ms, scan) => Delivery(indexing', worker', ms, scan')
  BY <1>1, <1>2, GrowingHandlersEndWell
<1>4. LibraryTyped'
  BY <1>2, <1>3 DEF LibraryTyped
<1>5. phase' = "open" /\ Avoids({"partial", "cancel"})' =>
          Delivery(indexing, worker, messages, scan)
  BY DEF IInv, Avoids
<1> QED BY <1>1, <1>3, <1>4, <1>5 DEF IInv, Typed

\* Notifications are typed by what they report.
LEMMA NotificationFields ==
    ASSUME NEW m \in Messages, m.kind = "change"
    PROVE  \/ m.action = "rescan"
           \/ m.action \in Actions /\ m.file \in Files
BY ResultFields DEF Messages, Changes, Rescans

\* A notification that is handled changes the catalogue to a.
LEMMA ChangeYields ==
    ASSUME lib \in Catalogue, NEW m \in Messages, m.kind = "change", HandleChange(m)
    PROVE  \E a : /\ Grown(lib, a) /\ Ends(a, indexing, worker)
                  /\ \/ a = lib \/ a = [lib EXCEPT !.directory = TRUE]
                     \/ m.action = "removed" /\ a = FileRemoved(lib, m.file)
                     \/ m.action = "added" /\ a = FileAdded(lib, m.file)
                     \/ m.action = "modified" /\ a = FileModified(lib, m.file)
<1>1. CASE Settle(lib, indexing, worker)
  BY <1>1, GrownReflexive DEF Ends
<1>2. CASE m.action = "rescan" /\ Refresh([lib EXCEPT !.directory = TRUE], indexing, worker)
  BY <1>2, RequestGrows DEF Ends
<1>3. CASE m.action = "removed" /\ Settle(FileRemoved(lib, m.file), indexing, worker)
  <2>1. m.file \in Files
    BY <1>3, NotificationFields
  <2> QED BY <1>3, <2>1, FileRemovedGrows DEF Ends
<1>4. CASE m.action = "added" /\ Ends(FileAdded(lib, m.file), indexing, worker)
  <2>1. m.file \in Files
    BY <1>4, NotificationFields
  <2> QED BY <1>4, <2>1, FileAddedGrows
<1>5. CASE m.action = "modified" /\ Ends(FileModified(lib, m.file), indexing, worker)
  <2>1. m.file \in Files
    BY <1>5, NotificationFields
  <2>2. PICK a : a = FileModified(lib, m.file)
    OBVIOUS
  <2>3. a = [lib EXCEPT !.files = @ \cup {m.file}]
    BY <2>2 DEF FileModified
  <2>4. {m.file} \in SUBSET Files
    BY <2>1
  <2>5. Grown(lib, a)
    BY <2>3, <2>4, QueuedGrows
  <2> QED BY <1>5, <2>2, <2>5
<1>6. m.action \in {"rescan", "added", "modified", "removed"}
  BY NotificationFields DEF Actions
<1> QED BY <1>1, <1>2, <1>3, <1>4, <1>5, <1>6 DEF HandleChange, Ends

LEMMA ReceiveChangeKeeps == IInv /\ ReceiveChange => IInv'
<1> SUFFICES ASSUME IInv, ReceiveChange PROVE IInv'
  OBVIOUS
<1>1. /\ MonitorTyped /\ LibraryTyped /\ messages \in Seq(Messages) /\ scan \in Nat
      /\ Sound(lib, worker, messages, scan) /\ lib \in Catalogue
  BY DEF IInv, Typed, MonitorTyped, LibraryTyped
<1>2. /\ messages # <<>> /\ Head(messages).kind = "change"
      /\ messages' = Tail(messages) /\ HandleChange(Head(messages))
      /\ UNCHANGED <<env, diskVars, watchVars, recorded, phase, saved, user, history>>
  BY DEF ReceiveChange
<1>3. 1 \in DOMAIN messages /\ Head(messages) = messages[1]
      /\ messages' = RemoveAt(messages, 1)
  BY <1>1, <1>2, TailIsTaken
<1>4. messages[1] \in Messages
  BY <1>1, <1>3
<1>5. PICK a : Grown(lib, a) /\ Ends(a, indexing, worker)
  BY <1>1, <1>2, <1>3, <1>4, ChangeYields
<1>6. ~Current(messages[1], scan)
  BY <1>2, <1>3 DEF Current
<1>7. /\ messages' \in Seq(Messages) /\ Sound(lib, worker, messages', scan)
      /\ Delivery(indexing, worker, messages, scan) =>
            Delivery(indexing, worker, messages', scan)
  BY <1>1, <1>3, <1>6, TakenKeeps
<1>8. MonitorTyped'
  BY <1>1, <1>2, <1>7 DEF MonitorTyped, diskVars, watchVars
<1>9. /\ saved' \in Tracks /\ user' \in Nat /\ rated' \in Entries(Nat)
      /\ discarded' \subseteq Files /\ added' \subseteq Files
  BY <1>1, <1>2 DEF LibraryTyped, history
<1> QED BY <1>2, <1>5, <1>7, <1>8, <1>9, HandlerKeeps

-----------------------------------------------------------------------------
(* Every step keeps the invariant: the user.                               *)

LEMMA LiveYields ==
    ASSUME lib \in Catalogue, NEW f \in Live(lib)
    PROVE  f \in DOMAIN lib.items /\ f \in Files /\ f \notin lib.excluded
<1>1. lib.items \in Tracks
  BY CatalogueFields
<1>2. DOMAIN lib.items \subseteq Files
  BY <1>1, EntriesYields DEF Tracks
<1> QED BY <1>2 DEF Live

\* What a command of the user does to the catalogue and the history.
LEMMA CommandYields ==
    ASSUME Typed, UserCommand
    PROVE  /\ \E a : Grown(lib, a) /\ Ends(a, indexing, worker)
           /\ UNCHANGED <<env, diskVars, messages, phase, saved>>
           /\ user' \in Nat /\ rated' \in Entries(Nat)
           /\ discarded' \subseteq Files /\ added' \subseteq Files
           /\ watch' \in {"closed", "announce", "waiting", "rearm"}
           /\ monitoring' \in BOOLEAN /\ generation' \in Nat
           /\ recorded' \in {recorded, <<>>}
<1>0. /\ lib \in Catalogue /\ user \in Nat /\ rated \in Entries(Nat)
      /\ discarded \subseteq Files /\ added \subseteq Files
      /\ watch \in {"closed", "announce", "waiting", "rearm"}
      /\ monitoring \in BOOLEAN /\ generation \in Nat
      /\ present \subseteq Files /\ content \in [Files -> Nat]
  BY DEF Typed, MonitorTyped, LibraryTyped
<1> DEFINE Same == UNCHANGED <<watchVars, recorded>>
<1>1. Command => UNCHANGED <<env, diskVars, messages, phase, saved>> /\ user' \in Nat
  BY <1>0 DEF Command
<1>2. ASSUME NEW f \in Files, RateTrack(f)
      PROVE  /\ Command /\ Same /\ UNCHANGED <<discarded, added>>
             /\ \E a : Grown(lib, a) /\ Ends(a, indexing, worker)
             /\ rated' \in Entries(Nat)
  <2>1. f \in DOMAIN lib.items
    BY <1>0, <1>2, LiveYields DEF RateTrack
  <2>2. PICK r : r = user + 1
    OBVIOUS
  <2>3. r \in Nat
    BY <1>0, <2>2
  <2>4. PICK a : a = [lib EXCEPT !.items = Rerated(@, f, r), !.persisted = Rerated(@, f, r),
                                 !.tracks = Rerated(@, f, r),
                                 !.edits = RatingEdit(lib, f, r), !.revision = @ + 1]
    OBVIOUS
  <2>5. Grown(lib, a)
    BY <1>0, <2>1, <2>3, <2>4, RatedGrows
  <2>6. Ends(a, indexing, worker) /\ rated' = Put(rated, f, r)
    BY <1>2, <2>2, <2>4 DEF RateTrack, Ends
  <2>7. rated' \in Entries(Nat)
    BY <1>0, <2>3, <2>6, PutTyped
  <2> QED BY <1>2, <2>5, <2>6, <2>7 DEF RateTrack
<1>3. ASSUME NEW f \in Files, RemoveTrack(f)
      PROVE  /\ Command /\ Same /\ UNCHANGED added
             /\ \E a : Grown(lib, a) /\ Ends(a, indexing, worker)
             /\ rated' \in Entries(Nat) /\ discarded' \subseteq Files
  <2>1. PICK a : a = [lib EXCEPT !.excluded = @ \cup {f}, !.persisted = Without(@, {f})]
    OBVIOUS
  <2>2. Grown(lib, a)
    BY <1>0, <2>1, DiscardedGrows
  <2>3. /\ Ends(a, indexing, worker) /\ rated' = Without(rated, {f})
        /\ discarded' = discarded \cup {f}
    BY <1>3, <2>1 DEF RemoveTrack, Ends
  <2>4. rated' \in Entries(Nat)
    BY <1>0, <2>3, WithoutTyped
  <2> QED BY <1>0, <1>3, <2>2, <2>3, <2>4 DEF RemoveTrack
<1>4. ASSUME NEW f \in Files, AddTrack(f)
      PROVE  /\ Command /\ Same /\ UNCHANGED rated
             /\ \E a : Grown(lib, a) /\ Ends(a, indexing, worker)
             /\ discarded' \subseteq Files /\ added' \subseteq Files
  <2>1. PICK t : t = IF f \in DOMAIN lib.items THEN lib.items[f] ELSE Track(content[f], 0)
    OBVIOUS
  <2>2. t \in TrackType
    <3>1. lib.items \in Tracks
      BY <1>0, CatalogueFields
    <3>2. \A x \in DOMAIN lib.items : lib.items[x] \in TrackType
      BY <3>1, EntriesYields DEF Tracks
    <3>3. content[f] \in Nat
      BY <1>0
    <3>4. Track(content[f], 0) \in TrackType
      BY <3>3, TrackTyped
    <3> QED BY <2>1, <3>2, <3>4
  <2>3. PICK a : a = [lib EXCEPT
                         !.excluded = @ \ {f}, !.removed = Without(@, {f}),
                         !.items = Put(@, f, t),
                         !.persisted = Over(@, [x \in {f} |-> t]),
                         !.tracks = Over(@, [x \in {f} |-> t]),
                         !.edits = Put(@, f, [revision |-> lib.revision + 1,
                                              track |-> t, ratingOnly |-> FALSE]),
                         !.revision = @ + 1]
    OBVIOUS
  <2>4. Grown(lib, a)
    BY <1>0, <2>2, <2>3, ImportedGrows
  <2>5. /\ Ends(a, indexing, worker) /\ discarded' = discarded \ {f}
        /\ added' = added \cup {f}
    BY <1>4, <2>1, <2>3 DEF AddTrack, Ends
  <2> QED BY <1>0, <1>4, <2>4, <2>5 DEF AddTrack
<1>5. ASSUME ShowLibrary \/ RefreshCommand
      PROVE  /\ Command /\ Same /\ UNCHANGED history
             /\ \E a : Grown(lib, a) /\ Ends(a, indexing, worker)
  BY <1>0, <1>5, GrownReflexive, RequestGrows DEF ShowLibrary, RefreshCommand, Ends
<1>6. ASSUME StopMonitoring \/ StartMonitoring
      PROVE  /\ Command /\ UNCHANGED history
             /\ \E a : Grown(lib, a) /\ Ends(a, indexing, worker)
             /\ watch' = "closed" /\ monitoring' \in BOOLEAN
             /\ generation' \in Nat /\ recorded' = <<>>
  <2>1. CASE StopMonitoring
    BY <1>0, <2>1, GrownReflexive DEF StopMonitoring, StopMonitor, Ends
  <2>2. CASE StartMonitoring
    <3>1. PICK a : a = [lib EXCEPT !.directory = TRUE]
      OBVIOUS
    <3>2. Grown(lib, a)
      BY <1>0, <3>1, RequestGrows
    <3>3. Ends(a, indexing, worker)
      BY <2>2, <3>1 DEF StartMonitoring, Ends
    <3>4. generation' = generation + 1 /\ monitoring' = TRUE
      BY <2>2 DEF StartMonitoring, StartMonitor
    <3>5. generation' \in Nat
      BY <1>0, <3>4
    <3> QED BY <2>2, <3>2, <3>3, <3>4, <3>5 DEF StartMonitoring, StartMonitor
  <2> QED BY <1>6, <2>1, <2>2
<1>7. CASE \E f \in Files : RateTrack(f)
  BY <1>0, <1>1, <1>2, <1>7 DEF watchVars
<1>8. CASE \E f \in Files : RemoveTrack(f)
  BY <1>0, <1>1, <1>3, <1>8 DEF watchVars
<1>9. CASE \E f \in Files : AddTrack(f)
  BY <1>0, <1>1, <1>4, <1>9 DEF watchVars
<1>10. CASE ShowLibrary \/ RefreshCommand
  BY <1>0, <1>1, <1>5, <1>10 DEF watchVars, history
<1>11. CASE StopMonitoring \/ StartMonitoring
  BY <1>0, <1>1, <1>6, <1>11 DEF history
<1> QED BY <1>7, <1>8, <1>9, <1>10, <1>11 DEF UserCommand

LEMMA UserCommandKeeps == IInv /\ UserCommand => IInv'
<1> SUFFICES ASSUME IInv, UserCommand PROVE IInv'
  OBVIOUS
<1>1. /\ Typed /\ MonitorTyped /\ LibraryTyped
      /\ Sound(lib, worker, messages, scan)
  BY DEF IInv, Typed
<1>2. PICK a : Grown(lib, a) /\ Ends(a, indexing, worker)
  BY <1>1, CommandYields
<1>3. /\ UNCHANGED <<env, diskVars, messages, phase, saved>>
      /\ user' \in Nat /\ rated' \in Entries(Nat)
      /\ discarded' \subseteq Files /\ added' \subseteq Files
      /\ watch' \in {"closed", "announce", "waiting", "rearm"}
      /\ monitoring' \in BOOLEAN /\ generation' \in Nat
      /\ recorded' \in {recorded, <<>>}
  BY <1>1, CommandYields
<1>4. MonitorTyped'
  <2>1. recorded' \in Seq(Actions \X Files)
    <3>1. recorded \in Seq(Actions \X Files) /\ <<>> \in Seq(Actions \X Files)
      BY <1>1 DEF MonitorTyped
    <3> QED BY <1>3, <3>1
  <2> QED BY <1>1, <1>3, <2>1 DEF MonitorTyped, diskVars
<1>5. saved' \in Tracks /\ messages' = messages
  BY <1>1, <1>3 DEF LibraryTyped
<1> QED BY <1>1, <1>2, <1>3, <1>4, <1>5, HandlerKeeps

-----------------------------------------------------------------------------
(* Every step keeps the invariant: the window is closed.                   *)

LEMMA CloseKeeps == IInv /\ Close => IInv'
<1> SUFFICES ASSUME IInv, Close PROVE IInv'
  OBVIOUS
<1>1. /\ phase' = "closing" /\ refreshPending' = FALSE
      /\ watch' = "closed" /\ monitoring' = FALSE /\ recorded' = <<>>
      /\ UNCHANGED <<env, diskVars, generation, messages, lib, indexing, scan, worker,
                     saved, user, history>>
  BY DEF Close, StopMonitor
<1>2. MonitorTyped'
  <2>1. recorded' \in Seq(Actions \X Files)
    BY <1>1
  <2> QED BY <1>1, <2>1 DEF IInv, Typed, MonitorTyped, diskVars
<1>3. LibraryTyped'
  BY <1>1 DEF IInv, Typed, LibraryTyped, history
<1>4. Sound(lib', worker', messages', scan')
  BY <1>1 DEF IInv
<1> QED BY <1>1, <1>2, <1>3, <1>4 DEF IInv, Typed

LEMMA SnapshotTyped ==
    ASSUME lib \in Catalogue, saved \in Tracks
    PROVE  Snapshot(lib) \in Tracks
<1>0. PICK whole, base, edited, under, tracks :
          /\ whole = {f \in DOMAIN lib.edits : ~lib.edits[f].ratingOnly}
          /\ base = Over(lib.items, IF lib.loaded THEN None ELSE saved)
          /\ edited = [f \in whole |-> lib.edits[f].track]
          /\ under = [f \in DOMAIN base |->
                         IF f \in DOMAIN lib.edits
                         THEN Track(base[f].tags, lib.edits[f].track.rating)
                         ELSE base[f]]
          /\ tracks = Over(edited, under)
  OBVIOUS
<1>1. lib.edits \in Edits /\ lib.items \in Tracks
  BY CatalogueFields
<1>2. base \in Tracks
  <2>1. None \in Tracks
    BY NothingIs DEF Tracks
  <2>2. (IF lib.loaded THEN None ELSE saved) \in Tracks
    BY <2>1
  <2> QED BY <1>0, <1>1, <2>2, OverTyped DEF Tracks
<1>3. /\ DOMAIN lib.edits \subseteq Files /\ DOMAIN base \subseteq Files
      /\ \A f \in DOMAIN lib.edits :
            lib.edits[f] \in [revision : Nat, track : TrackType, ratingOnly : BOOLEAN]
      /\ \A f \in DOMAIN base : base[f] \in TrackType
  BY <1>1, <1>2, EntriesYields DEF Edits, Tracks
<1>4. \A f \in DOMAIN lib.edits : lib.edits[f].track \in TrackType
  BY <1>3
<1>5. edited \in Tracks
  <2>1. edited \in [whole -> TrackType] /\ whole \in SUBSET Files
    BY <1>0, <1>3, <1>4
  <2> QED BY <2>1, EntriesIs DEF Tracks
<1>6. under \in Tracks
  <2>1. \A f \in DOMAIN base :
            (IF f \in DOMAIN lib.edits
             THEN Track(base[f].tags, lib.edits[f].track.rating) ELSE base[f]) \in TrackType
    <3> SUFFICES ASSUME NEW f \in DOMAIN base
                 PROVE  (IF f \in DOMAIN lib.edits
                         THEN Track(base[f].tags, lib.edits[f].track.rating)
                         ELSE base[f]) \in TrackType
      OBVIOUS
    <3>1. CASE f \in DOMAIN lib.edits
      <4>1. base[f] \in TrackType /\ lib.edits[f].track \in TrackType
        BY <1>3, <1>4, <3>1
      <4>2. Track(base[f].tags, lib.edits[f].track.rating) \in TrackType
        BY <4>1, TrackFields, TrackTyped
      <4> QED BY <3>1, <4>2
    <3>2. CASE f \notin DOMAIN lib.edits
      BY <1>3, <3>2
    <3> QED BY <3>1, <3>2
  <2>2. under \in [DOMAIN base -> TrackType] /\ DOMAIN base \in SUBSET Files
    BY <1>0, <1>3, <2>1
  <2> QED BY <2>2, EntriesIs DEF Tracks
<1>7. tracks \in Tracks
  BY <1>0, <1>5, <1>6, OverTyped DEF Tracks
<1>8. Snapshot(lib) = Without(tracks, lib.excluded)
  BY <1>0 DEF Snapshot
<1> QED BY <1>7, <1>8, WithoutTyped DEF Tracks

LEMMA SaveLibraryKeeps == IInv /\ SaveLibrary => IInv'
<1> SUFFICES ASSUME IInv, SaveLibrary PROVE IInv'
  OBVIOUS
<1>1. /\ phase' = "closed" /\ saved' \in {Snapshot(lib), saved}
      /\ worker' = NoWorker /\ messages' = <<>>
      /\ UNCHANGED <<env, diskVars, watchVars, recorded, lib, indexing,
                     refreshPending, scan, user, history>>
  BY DEF SaveLibrary
<1>2. MonitorTyped'
  <2>1. messages' \in Seq(Messages)
    BY <1>1
  <2> QED BY <1>1, <2>1 DEF IInv, Typed, MonitorTyped, diskVars, watchVars
<1>3. LibraryTyped'
  <2>1. Snapshot(lib) \in Tracks
    BY SnapshotTyped DEF IInv, Typed, LibraryTyped
  <2> QED BY <1>1, <2>1 DEF IInv, Typed, LibraryTyped, history
<1>4. Sound(lib', worker', messages', scan')
  <2>1. PICK ms : ms = messages'
    OBVIOUS
  <2>2. DOMAIN ms = {}
    BY <1>1, <2>1
  <2>3. NoWorker.unposted = NoResult /\ NoWorker.pc \notin Running /\ NoWorker.pc # "files"
    BY DEF NoWorker, Running
  <2>4. Sound(lib, NoWorker, ms, scan)
    BY <2>2, <2>3 DEF IInv, Sound, Numbered, MailStamped, Protocol, MailOK
  <2> QED BY <1>1, <2>1, <2>4
<1> QED BY <1>1, <1>2, <1>3, <1>4 DEF IInv, Typed

LEMMA TakeUnpostedKeeps == IInv /\ TakeUnposted => IInv'
<1> SUFFICES ASSUME IInv, TakeUnposted PROVE IInv'
  OBVIOUS
<1>1. /\ MonitorTyped /\ LibraryTyped /\ messages \in Seq(Messages) /\ scan \in Nat
      /\ Sound(lib, worker, messages, scan) /\ lib \in Catalogue
      /\ worker \in Jobs \cup {NoWorker} /\ indexing \in BOOLEAN
      /\ refreshPending \in BOOLEAN
  BY DEF IInv, Typed, MonitorTyped, LibraryTyped
<1>2. /\ phase = "closing" /\ worker.unposted # NoResult
      /\ Apply(worker.unposted, [worker EXCEPT !.unposted = NoResult])
      /\ UNCHANGED <<monitorVars, phase, saved, user, history>>
  BY DEF TakeUnposted
<1>3. PICK r, w : r = worker.unposted /\ w = [worker EXCEPT !.unposted = NoResult]
  OBVIOUS
<1>4. worker \in Jobs /\ r \in Results /\ r.revision <= lib.revision
  BY <1>1, <1>2, <1>3, WorkerFields DEF Sound, Numbered
<1>5. /\ w \in Jobs /\ w.pc = worker.pc /\ w.unposted = NoResult
      /\ w.generation = worker.generation /\ w.revision = worker.revision
  BY <1>3, <1>4 DEF Jobs
<1>6. worker # NoWorker
  BY <1>4, JobFields
<1>7. Sound(lib, w, messages, scan)
  <2>1. Numbered(w, lib.revision, scan)
    BY <1>1, <1>5, <1>6 DEF Sound, Numbered
  <2>2. Protocol(w, messages, scan)
    BY <1>1, <1>5 DEF Sound, Protocol
  <2> QED BY <1>1, <2>1, <2>2 DEF Sound
<1>8. /\ lib' \in Catalogue /\ indexing' \in BOOLEAN
      /\ refreshPending' \in BOOLEAN /\ scan' \in Nat
      /\ worker' \in Jobs \cup {NoWorker}
      /\ Sound(lib', worker', messages, scan')
  BY <1>1, <1>2, <1>3, <1>4, <1>5, <1>7, ApplyEndsWell
<1>9. LibraryTyped'
  BY <1>1, <1>2, <1>8 DEF LibraryTyped, history
<1>10. MonitorTyped' /\ messages' = messages
  BY <1>1, <1>2 DEF MonitorTyped, monitorVars, diskVars, watchVars
<1> QED BY <1>2, <1>8, <1>9, <1>10 DEF IInv, Typed

-----------------------------------------------------------------------------
(* The initial states, the theorems.                                       *)

LEMMA EmptyCatalogueTyped ==
    /\ EmptyCatalogue \in Catalogue /\ Stamped(EmptyCatalogue)
    /\ EmptyCatalogue.revision = 0 /\ EmptyCatalogue.loaded = FALSE
    /\ EmptyCatalogue.files = {} /\ EmptyCatalogue.excluded = {}
    /\ EmptyCatalogue.removed = None /\ EmptyCatalogue.fileChanges = None
<1>1. /\ None \in Tracks /\ None \in Edits /\ None \in Notices /\ None \in Entries(Nat)
      /\ DOMAIN None = {}
  BY NothingIs DEF Tracks, Edits, Notices
<1>2. EmptyCatalogue \in Catalogue
  BY <1>1 DEF EmptyCatalogue, Catalogue
<1>3. /\ EmptyCatalogue.edits = None /\ EmptyCatalogue.fileChanges = None
      /\ EmptyCatalogue.removed = None /\ EmptyCatalogue.revision = 0
      /\ EmptyCatalogue.loaded = FALSE /\ EmptyCatalogue.files = {}
      /\ EmptyCatalogue.excluded = {}
  BY DEF EmptyCatalogue
<1>4. Stamped(EmptyCatalogue)
  BY <1>1, <1>3 DEF Stamped
<1> QED BY <1>2, <1>3, <1>4

\* The first scan: the directory is queued in an empty catalogue.
LEMMA FirstJob ==
    \E l \in Catalogue : /\ l = [EmptyCatalogue EXCEPT !.directory = TRUE]
                         /\ l.revision = 0 /\ l.loaded = FALSE /\ l.files = {}
<1>1. PICK l : l = [EmptyCatalogue EXCEPT !.directory = TRUE]
  OBVIOUS
<1>2. l \in Catalogue /\ l.revision = 0 /\ l.loaded = FALSE /\ l.files = {}
  BY <1>1, EmptyCatalogueTyped DEF Catalogue
<1> QED BY <1>1, <1>2

LEMMA InitTyped == Init => Typed
<1> SUFFICES ASSUME Init PROVE Typed
  OBVIOUS
<1>1. MonitorTyped
  <2>1. content \in [Files -> Nat]
    BY DEF Init, MonitorInit
  <2>2. env \subseteq Hazards
    BY MonitorAssumption DEF Init, MonitorInit
  <2> QED BY <2>1, <2>2 DEF Init, MonitorInit, MonitorTyped
<1>2. saved \in Tracks
  <2>1. PICK S \in SUBSET Files : saved \in [S -> [tags : 1..2, rating : {0}]]
    BY DEF Init, Libraries
  <2>2. [tags : 1..2, rating : {0}] \subseteq TrackType
    BY DEF TrackType
  <2>3. saved \in [S -> TrackType]
    BY <2>1, <2>2
  <2> QED BY <2>3, EntriesIs DEF Tracks
<1>3. lib \in Catalogue
  BY EmptyCatalogueTyped DEF Init
<1>4. worker \in Jobs
  <2>1. PICK l \in Catalogue : l = [EmptyCatalogue EXCEPT !.directory = TRUE]
    BY FirstJob
  <2>2. worker = Job(l, 1)
    BY <2>1 DEF Init
  <2> QED BY <2>2, JobYields
<1>5. rated \in Entries(Nat)
  BY NothingIs DEF Init
<1> QED BY <1>1, <1>2, <1>3, <1>4, <1>5 DEF Init, Typed, LibraryTyped

LEMMA InitEstablishes == Init => IInv
<1> SUFFICES ASSUME Init PROVE IInv
  OBVIOUS
<1>1. Typed
  BY InitTyped
<1>2. PICK l \in Catalogue : /\ l = [EmptyCatalogue EXCEPT !.directory = TRUE]
                             /\ l.revision = 0
  BY FirstJob
<1>3. PICK w : w = worker
  OBVIOUS
<1>4. /\ w.pc = "files" /\ w.generation = 1 /\ w.revision = 0 /\ w.unposted = NoResult
  <2>1. w = Job(l, 1)
    BY <1>2, <1>3 DEF Init
  <2>2. PICK j : j = Job(l, 1)
    OBVIOUS
  <2>3. /\ j.pc = "files" /\ j.generation = 1 /\ j.revision = l.revision
        /\ j.unposted = NoResult
    BY <2>2, JobYields
  <2> QED BY <1>2, <2>1, <2>2, <2>3
<1>5. PICK ms : ms = messages
  OBVIOUS
<1>6. DOMAIN ms = {}
  BY <1>5 DEF Init, MonitorInit
<1>7. lib = EmptyCatalogue /\ scan = 1
  BY DEF Init
<1>8. Numbered(w, 0, 1) /\ MailStamped(ms, 0) /\ Protocol(w, ms, 1)
  BY <1>4, <1>6 DEF Numbered, MailStamped, Protocol, MailOK, OnItsWay
<1>9. Sound(lib, w, ms, 1)
  BY <1>7, <1>8, EmptyCatalogueTyped DEF Sound
<1>10. Delivery(indexing, w, ms, 1)
  BY <1>4 DEF Delivery, Running
<1> QED BY <1>1, <1>3, <1>5, <1>7, <1>9, <1>10 DEF IInv

LEMMA StutterKeeps == IInv /\ UNCHANGED vars => IInv'
<1> SUFFICES ASSUME IInv, UNCHANGED vars PROVE IInv'
  OBVIOUS
<1>1. /\ UNCHANGED <<env, diskVars, watchVars, recorded, messages>>
      /\ UNCHANGED <<lib, indexing, refreshPending, scan, worker, phase, saved, user,
                     history>>
  BY DEF vars, monitorVars, libraryVars, diskVars, watchVars, history
<1>2. Typed'
  BY <1>1 DEF IInv, Typed, MonitorTyped, LibraryTyped, diskVars, watchVars, history
<1>3. Sound(lib', worker', messages', scan')
  BY <1>1 DEF IInv
<1>4. phase' = "open" /\ Avoids({"partial", "cancel"})' =>
          Delivery(indexing', worker', messages', scan')
  BY <1>1 DEF IInv, Avoids
<1> QED BY <1>2, <1>3, <1>4 DEF IInv

\* IInv is an invariant: the types, the stamps, what the window finds in its
\* queue of the scan, and who will clear the flag that makes scans wait.
THEOREM InductiveInvariant == Spec => []IInv
<1>1. Init => IInv
  BY InitEstablishes
<1>2. IInv /\ [Next]_vars => IInv'
  BY DirectoryWriteKeeps, WatchKeeps, BuildKeeps, ReceiveResultKeeps, ReceiveChangeKeeps,
     PollWorkersKeeps, UserCommandKeeps, CloseKeeps, TakeUnpostedKeeps, SaveLibraryKeeps,
     StutterKeeps
     DEF Next, Window, Shutdown
<1> QED BY <1>1, <1>2, PTL DEF Spec

\* The variables have their types, every stamp of an edit or a removal is a
\* revision the library has given out, and the worker belongs to the last scan
\* (RecordEdit, HandleMediaLibraryDirectoryChange, StartMediaLibraryRefresh).
THEOREM TypeCorrect == Spec => []TypeOK
<1>1. IInv => TypeOK
  <2> SUFFICES ASSUME IInv PROVE TypeOK
    OBVIOUS
  <2>1. MonitorTyped /\ LibraryTyped /\ lib \in Catalogue /\ Stamped(lib)
    BY DEF IInv, Typed, LibraryTyped, Sound
  <2>2. worker # NoWorker => worker.generation = scan
    BY DEF IInv, Sound, Numbered
  <2>3. /\ DOMAIN lib.items \subseteq Files /\ DOMAIN lib.persisted \subseteq Files
        /\ DOMAIN lib.edits \subseteq Files /\ DOMAIN lib.removed \subseteq Files
        /\ DOMAIN lib.tracks \subseteq Files
    BY <2>1, CatalogueFields, EntriesYields DEF Tracks, Edits
  <2>4. CatalogueTypeOK
    BY <2>1, <2>3, CatalogueFields DEF CatalogueTypeOK, Stamped
  <2> QED BY <2>1, <2>2, <2>4 DEF TypeOK, MonitorTyped, LibraryTyped
<1> QED BY <1>1, InductiveInvariant, PTL

\* While the flag that makes every later scan wait is set, a worker runs or the
\* complete result is in the queue, unless partial results are refused or scans
\* given up (DeliverBuildResult, PollMediaLibraryWorkers, ApplyMediaLibraryIndex).
THEOREM IndexingIsAlwaysOwned == Spec => []IndexingEnds
<1>1. IInv => IndexingEnds
  <2> SUFFICES ASSUME IInv, phase = "open", indexing, Avoids({"partial", "cancel"})
               PROVE  \/ worker # NoWorker
                      \/ \E i \in DOMAIN messages :
                            /\ messages[i].kind = "ready"
                            /\ messages[i].generation = scan
                            /\ messages[i].complete
    BY DEF IndexingEnds, IndexingIsOwned
  <2>1. worker.pc \in Running \/ worker.unposted # NoResult \/ OnItsWay(messages, scan, TRUE)
    BY DEF IInv, Delivery
  <2>2. NoWorker.pc \notin Running /\ NoWorker.unposted = NoResult
    BY DEF NoWorker, Running
  <2> QED BY <2>1, <2>2 DEF OnItsWay, Current
<1> QED BY <1>1, InductiveInvariant, PTL

-----------------------------------------------------------------------------
(* A track the user removed stays removed.                                 *)

\* What was found removed from l, it found after a scan of revision n saw O.
After(l, O, n) ==
    \A f \in O :
        /\ f \in DOMAIN l.removed => l.removed[f] > n
        /\ f \in DOMAIN l.fileChanges => l.fileChanges[f].revision > n

\* Without new files, only files that are gone are ever found removed.
Gone(l, w, ms, P) ==
    /\ \A f \in DOMAIN l.fileChanges : f \notin P /\ l.fileChanges[f].removed
    /\ DOMAIN l.removed \cap P = {}
    /\ w # NoWorker => w.missing \cap P = {}
    /\ w.unposted # NoResult => w.unposted.missing \cap P = {}
    /\ \A i \in DOMAIN ms :
          /\ ms[i].kind = "ready" => ms[i].missing \cap P = {}
          /\ ms[i].kind = "change" => /\ ms[i].action # "added"
                                      /\ ms[i].action = "removed" => ms[i].file \notin P

GoneRecords(rs, P, e) ==
    \A i \in DOMAIN rs :
        /\ rs[i][1] # "added"
        /\ rs[i][1] = "removed" => rs[i][2] \notin P
        /\ "modify" \notin e => rs[i][1] # "modified"

\* A result of the last scan that the window has not received.
Pending(r, w, ms, s) ==
    \/ r = w.unposted /\ r # NoResult
    \/ \E i \in DOMAIN ms : r = ms[i] /\ Current(r, s)

Ahead(l, w, ms, s) ==
    /\ w.pc \in Running => After(l, w.observed \cup w.todo, w.revision)
    /\ w.pc = "files" => w.missing = {}
    /\ \A r \in Results : Pending(r, w, ms, s) =>
          /\ After(l, r.observed, r.revision)
          /\ ~r.complete => r.missing = {}

\* Without modified files nothing is read before the library file is loaded.
Unmodified(l, w, ms) ==
    /\ l.files = {}
    /\ w.pc = "files" => w.files = {} /\ w.observed = {}
    /\ \A i \in DOMAIN ms : ms[i].kind = "change" => ms[i].action # "modified"

\* Without failed scans the first scan loads it.
Loading(l, idx, w, ms, s) ==
    ~l.loaded =>
        /\ idx
        /\ w # NoWorker => w.load
        /\ w.pc \in {"list", "read", "deliver", "done"} =>
              w.posted \/ w.unposted # NoResult
        /\ \A r \in Results : Pending(r, w, ms, s) => r.loads /\ ~r.failed

\* A partial result that a complete one may overtake has seen no file.
Blind(w, ms, s) ==
    /\ w.pc = "files" /\ w.load => w.files = {} /\ w.observed = {}
    /\ \A r \in Results : Pending(r, w, ms, s) /\ ~r.complete => r.observed = {}

Partials(l, w, ms, s, e) ==
    /\ "modify" \notin e => Unmodified(l, w, ms)
    /\ ~({"throw", "modify"} \subseteq e) => Blind(w, ms, s)
    /\ e \cap {"partial", "handoff"} = {} => w.unposted = NoResult

Standing(l, w, ms, s, P, e) ==
    Gone(l, w, ms, P) /\ Ahead(l, w, ms, s) /\ Partials(l, w, ms, s, e)

Removals(l, idx, w, ms, s, P, e) ==
    /\ Standing(l, w, ms, s, P, e)
    /\ "throw" \notin e => Loading(l, idx, w, ms, s)

\* A failed scan, modified files and a refused result do not come together.
Benign(e) == {"throw", "modify"} \subseteq e => e \cap {"partial", "handoff"} = {}

Forgotten ==
    phase = "closed" /\ Avoids({"unloaded", "unsaved"}) =>
        discarded \cap DOMAIN saved = {}

RInv ==
    /\ IInv
    /\ Benign(env)
    /\ Avoids({"create", "recreate"}) =>
          /\ Removals(lib, indexing, worker, messages, scan, present, env)
          /\ GoneRecords(recorded, present, env)
          /\ discarded \subseteq lib.excluded
          /\ Forgotten

LEMMA PendingFields ==
    ASSUME NEW w \in Jobs \cup {NoWorker}, NEW l, NEW ms \in Seq(Messages), NEW s,
           NEW n \in Nat, Numbered(w, n, s), MailStamped(ms, n),
           NEW r \in Results, Pending(r, w, ms, s)
    PROVE  r.revision \in Nat /\ r.revision <= n
<1>1. CASE r = w.unposted /\ r # NoResult
  BY <1>1, ResultFields DEF Numbered
<1>2. CASE \E i \in DOMAIN ms : r = ms[i] /\ Current(r, s)
  BY <1>2, ResultFields DEF MailStamped, Current
<1> QED BY <1>1, <1>2 DEF Pending

LEMMA AfterGrown ==
    ASSUME NEW l \in Catalogue, NEW a, Grown(l, a), NEW O, NEW n \in Nat,
           n <= l.revision, After(l, O, n)
    PROVE  After(a, O, n)
<1>1. /\ l.revision \in Nat /\ a.removed \in Entries(Nat) /\ a.fileChanges \in Notices
  BY CatalogueFields DEF Grown
<1>2. ASSUME NEW f \in O, f \in DOMAIN a.removed PROVE a.removed[f] > n
  <2>1. a.removed[f] \in Nat
    BY <1>1, <1>2, EntriesYields
  <2>2. CASE f \in DOMAIN l.removed /\ a.removed[f] = l.removed[f]
    BY <2>2 DEF After
  <2>3. CASE a.removed[f] > l.revision
    BY <1>1, <2>1, <2>3
  <2> QED BY <1>2, <2>2, <2>3 DEF Grown
<1>3. ASSUME NEW f \in O, f \in DOMAIN a.fileChanges PROVE a.fileChanges[f].revision > n
  <2>1. a.fileChanges[f] \in [revision : Nat, removed : BOOLEAN]
    BY <1>1, <1>3, EntriesYields DEF Notices
  <2>2. a.fileChanges[f].revision \in Nat
    BY <2>1
  <2>3. CASE f \in DOMAIN l.fileChanges /\ a.fileChanges[f] = l.fileChanges[f]
    BY <2>3 DEF After
  <2>4. CASE a.fileChanges[f].revision > l.revision
    BY <1>1, <2>2, <2>4
  <2> QED BY <1>3, <2>3, <2>4 DEF Grown
<1> QED BY <1>2, <1>3 DEF After

\* A handler finds at most a file that is gone removed, and queues files only
\* when they are modified.
LEMMA RemovalsGrow ==
    ASSUME NEW l \in Catalogue, NEW a, Grown(l, a), NEW idx \in BOOLEAN,
           NEW w \in Jobs \cup {NoWorker},
           NEW ms \in Seq(Messages), NEW s, NEW P, NEW e, Sound(l, w, ms, s),
           Removals(l, idx, w, ms, s, P, e),
           \A f \in DOMAIN a.fileChanges : f \notin P /\ a.fileChanges[f].removed,
           DOMAIN a.removed \cap P = {},
           "modify" \notin e => a.files = {}
    PROVE  Removals(a, idx, w, ms, s, P, e)
<1>1. /\ l.revision \in Nat /\ Numbered(w, l.revision, s) /\ MailStamped(ms, l.revision)
  BY CatalogueFields DEF Sound
<1>2. Gone(a, w, ms, P)
  BY DEF Removals, Standing, Gone
<1>3. Ahead(a, w, ms, s)
  <2>1. w.pc \in Running => After(a, w.observed \cup w.todo, w.revision)
    <3> SUFFICES ASSUME w.pc \in Running
                 PROVE  After(a, w.observed \cup w.todo, w.revision)
      OBVIOUS
    <3>1. w \in Jobs
      BY WorkerFields DEF Running
    <3>2. w.revision \in Nat /\ w.revision <= l.revision
      BY <1>1, <3>1, JobFields DEF Numbered
    <3> QED BY <3>2, AfterGrown DEF Removals, Standing, Ahead
  <2>2. ASSUME NEW r \in Results, Pending(r, w, ms, s)
        PROVE  After(a, r.observed, r.revision) /\ (~r.complete => r.missing = {})
    <3>1. r.revision \in Nat /\ r.revision <= l.revision
      BY <1>1, <2>2, PendingFields
    <3> QED BY <2>2, <3>1, AfterGrown DEF Removals, Standing, Ahead
  <2> QED BY <2>1, <2>2 DEF Removals, Standing, Ahead
<1>4. a.loaded = l.loaded
  BY DEF Grown
<1>5. Partials(a, w, ms, s, e)
  BY DEF Removals, Standing, Partials, Unmodified
<1>6. "throw" \notin e => Loading(a, idx, w, ms, s)
  BY <1>4 DEF Removals, Loading
<1> QED BY <1>2, <1>3, <1>5, <1>6 DEF Removals, Standing

\* A scan that starts has seen nothing, and loads the library only if no file
\* is queued.
LEMMA RemovalsAtStart ==
    ASSUME NEW l \in Catalogue, NEW ms \in Seq(Messages), NEW s \in Nat, NEW P, NEW e,
           Sound(l, NoWorker, ms, s), Removals(l, FALSE, NoWorker, ms, s, P, e),
           NEW a, a = [l EXCEPT !.files = {}, !.directory = FALSE, !.tracks = None],
           NEW j, j = Job(l, s + 1)
    PROVE  Removals(a, TRUE, j, ms, s + 1, P, e)
<1>1. /\ a.removed = l.removed /\ a.fileChanges = l.fileChanges /\ a.loaded = l.loaded
      /\ a.files = {}
  <2>1. Grown(l, a) /\ a.removed = l.removed /\ a.fileChanges = l.fileChanges
    BY RequestGrows
  <2>2. a.files = {}
    BY DEF Catalogue
  <2> QED BY <2>1, <2>2 DEF Grown
<1>2. /\ j \in Jobs /\ j.pc = "files" /\ j.unposted = NoResult
      /\ j.observed = {} /\ j.missing = {} /\ j.todo = {}
      /\ j.files = l.files /\ j.load = ~l.loaded
  <2>1. s + 1 \in Nat
    OBVIOUS
  <2> QED BY <2>1, JobYields
<1>3. \A r : ~Pending(r, j, ms, s + 1)
  <2>1. \A i \in DOMAIN ms : ~Current(ms[i], s + 1)
    <3>1. MailOK(ms, s)
      BY DEF Sound, Protocol
    <3> QED BY <3>1, NewScanHasNoMail
  <2> QED BY <1>2, <2>1 DEF Pending
<1>4. Gone(a, j, ms, P)
  BY <1>1, <1>2 DEF Removals, Standing, Gone
<1>5. Ahead(a, j, ms, s + 1)
  <2>1. After(a, {}, j.revision)
    BY DEF After
  <2> QED BY <1>2, <1>3, <2>1 DEF Ahead
<1>6. "throw" \notin e => l.loaded
  BY DEF Removals, Loading
<1>7. "modify" \notin e => l.files = {}
  BY DEF Removals, Standing, Partials, Unmodified
<1>8. "modify" \notin e => Unmodified(a, j, ms)
  BY <1>1, <1>2, <1>7 DEF Removals, Standing, Partials, Unmodified
<1>9. "throw" \notin e => Loading(a, TRUE, j, ms, s + 1)
  BY <1>1, <1>6 DEF Loading
<1>10. ~({"throw", "modify"} \subseteq e) => Blind(j, ms, s + 1)
  BY <1>2, <1>3, <1>6, <1>7 DEF Blind
<1>11. Partials(a, j, ms, s + 1, e)
  BY <1>2, <1>8, <1>10 DEF Partials
<1> QED BY <1>4, <1>5, <1>9, <1>11 DEF Removals, Standing

LEMMA RemovalsAtEnd ==
    ASSUME scan \in Nat,
           NEW l \in Catalogue, NEW idx \in BOOLEAN, NEW w \in Jobs \cup {NoWorker},
           NEW ms \in Seq(Messages), NEW P, NEW e, Ends(l, idx, w), Sound(l, w, ms, scan),
           Removals(l, idx, w, ms, scan, P, e)
    PROVE  /\ Removals(lib', indexing', worker', ms, scan', P, e)
           /\ lib'.excluded = l.excluded
<1>1. CASE lib' = l /\ indexing' = idx /\ worker' = w /\ scan' = scan
  BY <1>1
<1>2. CASE /\ lib' = [l EXCEPT !.files = {}, !.directory = FALSE, !.tracks = None]
           /\ indexing' = TRUE /\ scan' = scan + 1 /\ worker' = Job(l, scan + 1)
           /\ idx = FALSE /\ w = NoWorker
  <2>1. PICK a, j, s : a = lib' /\ j = worker' /\ s = scan
    OBVIOUS
  <2>2. /\ a = [l EXCEPT !.files = {}, !.directory = FALSE, !.tracks = None]
        /\ j = Job(l, s + 1) /\ s \in Nat
    BY <1>2, <2>1
  <2>3. Sound(l, NoWorker, ms, s) /\ Removals(l, FALSE, NoWorker, ms, s, P, e)
    BY <1>2, <2>1
  <2>4. Removals(a, TRUE, j, ms, s + 1, P, e)
    BY <2>2, <2>3, RemovalsAtStart
  <2>5. a.excluded = l.excluded
    BY <2>2, RequestGrows
  <2> QED BY <1>2, <2>1, <2>4, <2>5
<1>3. idx = FALSE \/ idx = TRUE
  OBVIOUS
<1> QED BY <1>1, <1>2, <1>3 DEF Ends, Refresh, Settle

\* A result that is applied excludes what was excluded: what the scan saw, it
\* saw before it was found removed.
LEMMA AppliedExcludes ==
    ASSUME NEW l \in Catalogue, NEW r \in Results, NEW a, a = Applied(l, r),
           \A f \in DOMAIN l.fileChanges : l.fileChanges[f].removed,
           After(l, r.observed, r.revision)
    PROVE  l.excluded \subseteq a.excluded
<1>1. PICK x : x = Exclusions(l, r)
  OBVIOUS
<1>2. a.excluded = x.excluded
  BY <1>1, AppliedYields
<1>3. \A f \in l.excluded \ x.excluded :
          \/ f \in DOMAIN l.fileChanges /\ ~l.fileChanges[f].removed
          \/ /\ f \in DOMAIN l.removed /\ l.removed[f] <= r.revision
             /\ f \in r.observed
  BY <1>1, ExclusionsYields
<1>4. r.revision \in Nat /\ l.removed \in Entries(Nat)
  BY ResultFields, CatalogueFields
<1>5. \A f \in DOMAIN l.removed : l.removed[f] \in Nat
  BY <1>4, EntriesYields
<1>6. ASSUME NEW f \in l.excluded \ x.excluded PROVE FALSE
  <2>1. f \in DOMAIN l.removed /\ l.removed[f] <= r.revision /\ f \in r.observed
    BY <1>3, <1>6
  <2>2. l.removed[f] > r.revision
    BY <2>1 DEF After
  <2> QED BY <1>4, <1>5, <2>1, <2>2
<1> QED BY <1>2, <1>6

\* It finds removed what it missed, at its own revision.
LEMMA AppliedAfter ==
    ASSUME NEW l \in Catalogue, NEW r \in Results, NEW a, a = Applied(l, r),
           NEW O, O \cap r.missing = {}, NEW n, After(l, O, n)
    PROVE  After(a, O, n)
<1>1. PICK x : x = Exclusions(l, r)
  OBVIOUS
<1>2. a.removed = x.removed /\ \E S : a.fileChanges = Without(l.fileChanges, S)
  BY <1>1, AppliedYields
<1>3. \A f \in DOMAIN x.removed :
          \/ f \in DOMAIN l.removed /\ x.removed[f] = l.removed[f]
          \/ /\ f \in DOMAIN l.fileChanges
             /\ x.removed[f] = l.fileChanges[f].revision
          \/ f \in r.missing
  BY <1>1, ExclusionsYields
<1>4. \A f \in O : f \in DOMAIN a.removed => a.removed[f] > n
  BY <1>2, <1>3 DEF After
<1>5. \A f \in O : f \in DOMAIN a.fileChanges => a.fileChanges[f].revision > n
  BY <1>2 DEF After, Without
<1> QED BY <1>4, <1>5 DEF After

\* What a result is when the window receives it: it is applied before what else
\* is on its way from the scan, or has nothing to do with it.
InTurn(r, l, w, P) ==
    /\ r.missing \cap P = {}
    /\ After(l, r.observed, r.revision)
    /\ ~r.complete => r.missing = {}
    /\ r.complete => w.pc \notin Running

LEMMA AppliedStands ==
    ASSUME NEW l \in Catalogue, NEW r \in Results, NEW a, a = Applied(l, r),
           NEW w \in Jobs \cup {NoWorker}, NEW ms \in Seq(Messages), NEW s, NEW P, NEW e,
           Standing(l, w, ms, s, P, e), InTurn(r, l, w, P),
           r.complete => \A q \in Results : Pending(q, w, ms, s) => q.observed = {}
    PROVE  Standing(a, w, ms, s, P, e) /\ l.excluded \subseteq a.excluded
<1>1. Gone(l, w, ms, P) /\ Ahead(l, w, ms, s) /\ Partials(l, w, ms, s, e)
  BY DEF Standing
<1>2. a.files = l.files /\ a.removed = Exclusions(l, r).removed
      /\ \E S : a.fileChanges = Without(l.fileChanges, S)
  BY AppliedYields
<1>3. DOMAIN a.fileChanges \subseteq DOMAIN l.fileChanges
      /\ \A f \in DOMAIN a.fileChanges : a.fileChanges[f] = l.fileChanges[f]
  BY <1>2 DEF Without
<1>4. DOMAIN a.removed \subseteq DOMAIN l.removed \cup DOMAIN l.fileChanges \cup r.missing
  BY <1>2, ExclusionsYields
<1>5. Gone(a, w, ms, P)
  <2>1. DOMAIN a.removed \cap P = {}
    BY <1>1, <1>4 DEF Gone, InTurn
  <2>2. \A f \in DOMAIN a.fileChanges : f \notin P /\ a.fileChanges[f].removed
    BY <1>1, <1>3 DEF Gone
  <2> QED BY <1>1, <2>1, <2>2 DEF Gone
<1>6. w.pc \in Running => After(a, w.observed \cup w.todo, w.revision)
  <2> SUFFICES ASSUME w.pc \in Running
               PROVE  After(a, w.observed \cup w.todo, w.revision)
    OBVIOUS
  <2>1. r.missing = {}
    BY DEF InTurn
  <2>2. (w.observed \cup w.todo) \cap r.missing = {}
    BY <2>1
  <2>3. After(l, w.observed \cup w.todo, w.revision)
    BY <1>1 DEF Ahead
  <2> QED BY <2>2, <2>3, AppliedAfter
<1>7. ASSUME NEW q \in Results, Pending(q, w, ms, s)
      PROVE  After(a, q.observed, q.revision)
  <2>1. q.observed \cap r.missing = {}
    BY <1>7 DEF InTurn
  <2>2. After(l, q.observed, q.revision)
    BY <1>1, <1>7 DEF Ahead
  <2> QED BY <2>1, <2>2, AppliedAfter
<1>8. Ahead(a, w, ms, s)
  BY <1>1, <1>6, <1>7 DEF Ahead
<1>9. Partials(a, w, ms, s, e)
  BY <1>1, <1>2 DEF Partials, Unmodified
<1>10. l.excluded \subseteq a.excluded
  <2>1. \A f \in DOMAIN l.fileChanges : l.fileChanges[f].removed
    BY <1>1 DEF Gone
  <2>2. After(l, r.observed, r.revision)
    BY DEF InTurn
  <2> QED BY <2>1, <2>2, AppliedExcludes
<1> QED BY <1>5, <1>8, <1>9, <1>10 DEF Standing

\* The first result of the first scan that is not failed loads the library.
LEMMA RemovalsApplied ==
    ASSUME scan \in Nat, refreshPending \in BOOLEAN, indexing \in BOOLEAN,
           lib \in Catalogue, NEW r \in Results, r.revision <= lib.revision,
           NEW w \in Jobs \cup {NoWorker}, NEW ms \in Seq(Messages), Apply(r, w),
           Sound(lib, w, ms, scan), NEW P, NEW e,
           Standing(lib, w, ms, scan, P, e),
           r.generation # scan /\ "throw" \notin e => Loading(lib, indexing, w, ms, scan),
           r.generation = scan =>
               /\ InTurn(r, lib, w, P)
               /\ r.complete => \A q \in Results : Pending(q, w, ms, scan) => q.observed = {}
               /\ "throw" \notin e /\ ~lib.loaded => r.loads /\ ~r.failed
    PROVE  /\ Removals(lib', indexing', worker', ms, scan', P, e)
           /\ lib.excluded \subseteq lib'.excluded
<1>1. PICK l, idx :
          /\ l = IF r.generation = scan /\ ~r.failed THEN Applied(lib, r) ELSE lib
          /\ idx = IF r.generation = scan THEN ~r.complete ELSE indexing
  OBVIOUS
<1>2. Ends(l, idx, w) /\ idx \in BOOLEAN
  BY <1>1, ResultFields DEF Apply, Ends
<1>3. l \in Catalogue /\ Sound(l, w, ms, scan)
  <2>1. CASE l = lib
    BY <2>1
  <2>2. CASE l = Applied(lib, r)
    <3>1. l \in Catalogue /\ l.revision = lib.revision
      BY <2>2, AppliedYields
    <3>2. Stamped(l)
      BY <2>2, AppliedStamped DEF Sound
    <3> QED BY <3>1, <3>2 DEF Sound
  <2> QED BY <1>1, <2>1, <2>2
<1>4. Standing(l, w, ms, scan, P, e) /\ lib.excluded \subseteq l.excluded
  <2>1. CASE l = lib
    BY <2>1
  <2>2. CASE l = Applied(lib, r) /\ r.generation = scan
    BY <2>2, AppliedStands
  <2> QED BY <1>1, <2>1, <2>2
<1>5. "throw" \notin e => Loading(l, idx, w, ms, scan)
  <2> SUFFICES ASSUME "throw" \notin e, ~l.loaded PROVE Loading(l, idx, w, ms, scan)
    BY DEF Loading
  <2>1. CASE r.generation # scan
    BY <1>1, <2>1
  <2>2. CASE r.generation = scan
    <3>1. CASE lib.loaded
      <4>1. l.loaded
        BY <1>1, <3>1, AppliedYields
      <4> QED BY <4>1
    <3>2. CASE ~lib.loaded
      <4>1. l = Applied(lib, r) /\ r.loads
        BY <1>1, <2>2, <3>2
      <4>2. l.loaded
        BY <4>1, AppliedYields
      <4> QED BY <4>2
    <3> QED BY <3>1, <3>2
  <2> QED BY <2>1, <2>2
<1>6. Removals(l, idx, w, ms, scan, P, e)
  BY <1>4, <1>5 DEF Removals
<1>7. Removals(lib', indexing', worker', ms, scan', P, e) /\ lib'.excluded = l.excluded
  BY <1>2, <1>3, <1>6, RemovalsAtEnd
<1> QED BY <1>4, <1>7

-----------------------------------------------------------------------------
(* The directory and its monitor.                                          *)

\* The environment keeps what RInv asks of it.
SameHazards(e, d) ==
    /\ d \subseteq e /\ e \ {"overflow"} \subseteq d

LEMMA HazardsStay ==
    ASSUME NEW e, NEW d, SameHazards(e, d)
    PROVE  /\ \A x : x # "overflow" => (x \in e <=> x \in d)
           /\ Benign(e) => Benign(d)
<1>1. \A x : x # "overflow" => (x \in e <=> x \in d)
  BY DEF SameHazards
<1>2. /\ "throw" \in e <=> "throw" \in d
      /\ "modify" \in e <=> "modify" \in d
      /\ "partial" \in e <=> "partial" \in d
      /\ "handoff" \in e <=> "handoff" \in d
  BY <1>1
<1>3. Benign(e) => Benign(d)
  BY <1>2 DEF Benign
<1> QED BY <1>1, <1>3

\* A notification that RInv allows.
Harmless(m, P, e) ==
    /\ m.kind = "change" /\ m.action # "added"
    /\ m.action = "removed" => m.file \notin P
    /\ "modify" \notin e => m.action # "modified"

\* Files only disappear, and harmless notifications are posted.
LEMMA RemovalsPosted ==
    ASSUME NEW l, NEW idx, NEW w, NEW ms \in Seq(Messages), NEW s \in Nat, NEW P, NEW Q,
           NEW e, NEW d, Removals(l, idx, w, ms, s, P, e), Q \subseteq P,
           SameHazards(e, d),
           NEW cs \in Seq(Changes \cup Rescans), \A k \in DOMAIN cs : Harmless(cs[k], Q, d),
           NEW all, all = ms \o cs
    PROVE  Removals(l, idx, w, all, s, Q, d)
<1>1. \A i \in DOMAIN all : \/ \E j \in DOMAIN ms : all[i] = ms[j]
                            \/ \E k \in DOMAIN cs : all[i] = cs[k]
  BY ChangesBehind
<1>2. \A i \in DOMAIN all : \/ \E j \in DOMAIN ms : all[i] = ms[j]
                            \/ Harmless(all[i], Q, d)
  BY <1>1
<1>3. /\ "throw" \in e <=> "throw" \in d
      /\ "modify" \in e <=> "modify" \in d
      /\ e \cap {"partial", "handoff"} = {} <=> d \cap {"partial", "handoff"} = {}
  BY HazardsStay
<1>4. Gone(l, w, ms, P) /\ Ahead(l, w, ms, s) /\ Partials(l, w, ms, s, e)
      /\ ("throw" \notin e => Loading(l, idx, w, ms, s))
  BY DEF Removals, Standing
<1>5. Gone(l, w, all, Q)
  <2>1. /\ \A f \in DOMAIN l.fileChanges : f \notin Q /\ l.fileChanges[f].removed
        /\ DOMAIN l.removed \cap Q = {}
        /\ w # NoWorker => w.missing \cap Q = {}
        /\ w.unposted # NoResult => w.unposted.missing \cap Q = {}
    BY <1>4 DEF Gone
  <2>2. ASSUME NEW i \in DOMAIN all
        PROVE  /\ all[i].kind = "ready" => all[i].missing \cap Q = {}
               /\ all[i].kind = "change" => /\ all[i].action # "added"
                                            /\ all[i].action = "removed" => all[i].file \notin Q
    <3>1. CASE \E j \in DOMAIN ms : all[i] = ms[j]
      BY <1>4, <3>1 DEF Gone
    <3>2. CASE Harmless(all[i], Q, d)
      BY <3>2 DEF Harmless
    <3> QED BY <1>2, <3>1, <3>2
  <2> QED BY <2>1, <2>2 DEF Gone
<1>6. \A q : Pending(q, w, all, s) => Pending(q, w, ms, s)
  BY <1>2 DEF Pending, Current, Harmless
<1>7. Ahead(l, w, all, s)
  BY <1>4, <1>6 DEF Ahead
<1>8. "modify" \notin d => Unmodified(l, w, all)
  BY <1>2, <1>3, <1>4 DEF Partials, Unmodified, Harmless
<1>9. ~({"throw", "modify"} \subseteq d) => Blind(w, all, s)
  BY <1>3, <1>4, <1>6 DEF Partials, Blind
<1>10. "throw" \notin d => Loading(l, idx, w, all, s)
  BY <1>3, <1>4, <1>6 DEF Loading
<1>11. Partials(l, w, all, s, d)
  BY <1>3, <1>4, <1>8, <1>9 DEF Partials
<1> QED BY <1>5, <1>7, <1>10, <1>11 DEF Removals, Standing

LEMMA DirectoryWriteLeaves == RInv /\ DirectoryWrite => RInv'
<1> SUFFICES ASSUME RInv, DirectoryWrite PROVE RInv'
  OBVIOUS
<1>1. IInv' /\ IInv
  BY DirectoryWriteKeeps DEF RInv
<1>2. UNCHANGED libraryVars /\ phase # "closed"
  BY DEF DirectoryWrite
<1>3. PICK f \in Files : CreateFile(f) \/ ModifyFile(f) \/ RemoveFile(f)
  BY DEF DirectoryWrite
<1>4. env' = env /\ messages' = messages
  BY <1>3 DEF CreateFile, ModifyFile, RemoveFile, Written
<1>5. ASSUME Avoids({"create", "recreate"})
      PROVE  /\ Removals(lib, indexing, worker, messages', scan, present', env')
             /\ GoneRecords(recorded', present', env')
  <2>1. /\ Removals(lib, indexing, worker, messages, scan, present, env)
        /\ GoneRecords(recorded, present, env)
    BY <1>5 DEF RInv
  <2>2. ~CreateFile(f)
    BY <1>5 DEF CreateFile, Avoids
  <2> DEFINE Wrote(c) ==
                 /\ present' \subseteq present
                 /\ recorded' \in {recorded, Append(recorded, <<c, f>>)}
                 /\ c # "added" /\ (c = "removed" => f \notin present')
                 /\ "modify" \notin env => c # "modified"
  <2>3. PICK c \in Actions : Wrote(c)
    <3>1. ASSUME ModifyFile(f) PROVE Wrote("modified")
      BY <3>1 DEF ModifyFile, Written
    <3>2. ASSUME RemoveFile(f) PROVE Wrote("removed")
      BY <3>2 DEF RemoveFile, Written
    <3> HIDE DEF Wrote
    <3>3. {"modified", "removed"} \subseteq Actions
      BY DEF Actions
    <3> QED BY <1>3, <2>2, <3>1, <3>2, <3>3
  <2>4. Removals(lib, indexing, worker, messages', scan, present', env')
    <3>1. messages \in Seq(Messages) /\ scan \in Nat
      BY <1>1 DEF IInv, Typed, MonitorTyped, LibraryTyped
    <3>2. <<>> \in Seq(Changes \cup Rescans) /\ messages = messages \o <<>>
      BY <3>1, NothingPosted
    <3>3. PICK cs \in Seq(Changes \cup Rescans) : cs = <<>>
      BY <3>2
    <3>6. DOMAIN cs = {}
      BY <3>3
    <3>4. SameHazards(env, env') /\ \A k \in DOMAIN cs : Harmless(cs[k], present', env')
      BY <1>4, <3>6 DEF SameHazards
    <3>5. messages' = messages \o cs
      BY <1>4, <3>2, <3>3
    <3> QED BY <2>1, <2>3, <3>1, <3>4, <3>5, RemovalsPosted
  <2>5. GoneRecords(recorded', present', env')
    <3>1. recorded \in Seq(Actions \X Files)
      BY <1>1 DEF IInv, Typed, MonitorTyped
    <3>2. CASE recorded' = recorded
      BY <1>4, <2>1, <2>3, <3>2 DEF GoneRecords
    <3>3. CASE recorded' = Append(recorded, <<c, f>>)
      <4>1. PICK rs : rs = recorded'
        OBVIOUS
      <4>2. \A i \in DOMAIN rs : \/ i \in DOMAIN recorded /\ rs[i] = recorded[i]
                                 \/ rs[i] = <<c, f>>
        BY <3>1, <3>3, <4>1
      <4>3. ASSUME NEW i \in DOMAIN rs
            PROVE  /\ rs[i][1] # "added"
                   /\ rs[i][1] = "removed" => rs[i][2] \notin present'
                   /\ "modify" \notin env => rs[i][1] # "modified"
        <5>1. CASE i \in DOMAIN recorded /\ rs[i] = recorded[i]
          BY <2>1, <2>3, <5>1 DEF GoneRecords
        <5>2. CASE rs[i] = <<c, f>>
          BY <2>3, <5>2
        <5> QED BY <4>2, <5>1, <5>2
      <4> QED BY <1>4, <4>1, <4>3 DEF GoneRecords
    <3> QED BY <2>3, <3>2, <3>3
  <2> QED BY <2>4, <2>5
<1>6. Avoids({"create", "recreate"})' => Avoids({"create", "recreate"})
  BY <1>4 DEF Avoids
<1>7. UNCHANGED <<lib, indexing, worker, scan, phase, saved, discarded>>
  BY <1>2 DEF libraryVars, history
<1>8. phase' # "closed" /\ Benign(env')
  BY <1>2, <1>4, <1>7 DEF RInv
<1>9. ASSUME Avoids({"create", "recreate"})'
      PROVE  /\ Removals(lib', indexing', worker', messages', scan', present', env')
             /\ GoneRecords(recorded', present', env')
             /\ discarded' \subseteq lib'.excluded
  <2>1. discarded \subseteq lib.excluded
    BY <1>6, <1>9 DEF RInv
  <2> QED BY <1>5, <1>6, <1>7, <1>9, <2>1
<1> QED BY <1>1, <1>8, <1>9 DEF RInv, Forgotten

LEMMA WatchLeaves == RInv /\ Watch => RInv'
<1> SUFFICES ASSUME RInv, Watch PROVE RInv'
  OBVIOUS
<1>1. IInv' /\ IInv
  BY WatchKeeps DEF RInv
<1>2. /\ messages \in Seq(Messages) /\ scan \in Nat /\ generation \in Nat
      /\ recorded \in Seq(Actions \X Files)
  BY <1>1 DEF IInv, Typed, MonitorTyped, LibraryTyped
<1>3. /\ UNCHANGED diskVars /\ UNCHANGED libraryVars /\ SameHazards(env, env')
      /\ RecordsKept
  BY DEF Watch, WatchStep, OpenWatch, AnnounceScan, ReadBatch, DropRecord, ReadOverflow,
         Rearm, RearmFails, SameHazards, RecordsKept
<1>4. /\ \A x : x # "overflow" => (x \in env <=> x \in env')
      /\ Benign(env')
  BY <1>3, HazardsStay DEF RInv
<1>5. present' = present
      /\ UNCHANGED <<lib, indexing, worker, scan, phase, saved, discarded>>
  BY <1>3 DEF diskVars, libraryVars, history
<1>6. /\ Avoids({"create", "recreate"})' => Avoids({"create", "recreate"})
      /\ Avoids({"unloaded", "unsaved"})' => Avoids({"unloaded", "unsaved"})
  BY <1>4 DEF Avoids
<1>7. ASSUME Avoids({"create", "recreate"})
      PROVE  \E cs \in Seq(Changes \cup Rescans) :
                 messages' = messages \o cs
                 /\ \A k \in DOMAIN cs : Harmless(cs[k], present', env')
  <2>0. GoneRecords(recorded, present, env)
    BY <1>7 DEF RInv
  <2>1. CASE messages' = messages
    <3>1. <<>> \in Seq(Changes \cup Rescans) /\ messages' = messages \o <<>>
      BY <1>2, <2>1, NothingPosted
    <3>2. PICK cs \in Seq(Changes \cup Rescans) : cs = <<>>
      BY <3>1
    <3>3. DOMAIN cs = {}
      BY <3>2
    <3> QED BY <3>1, <3>2, <3>3
  <2>2. CASE messages' = Append(messages, Rescan)
    <3>1. Rescan \in Changes \cup Rescans /\ Harmless(Rescan, present', env')
      <4>1. Rescan.kind = "change" /\ Rescan.action = "rescan"
        BY DEF Rescan
      <4> QED BY <1>2, <4>1, RescanIsMessage DEF Harmless
    <3>2. <<Rescan>> \in Seq(Changes \cup Rescans)
      BY <3>1
    <3>3. PICK cs \in Seq(Changes \cup Rescans) : cs = <<Rescan>>
      BY <3>2
    <3>4. Append(messages, Rescan) = messages \o cs /\ \A k \in DOMAIN cs : cs[k] = Rescan
      BY <1>2, <3>3
    <3> QED BY <2>2, <3>1, <3>4
  <2>3. CASE ReadBatch
    <3>1. PICK cs : cs = [i \in DOMAIN recorded |-> Change(recorded[i][1], recorded[i][2])]
      OBVIOUS
    <3>2. ASSUME NEW i \in DOMAIN recorded
          PROVE  /\ Change(recorded[i][1], recorded[i][2]) \in Changes \cup Rescans
                 /\ Harmless(Change(recorded[i][1], recorded[i][2]), present', env')
      <4>1. PICK c, f, m : c = recorded[i][1] /\ f = recorded[i][2] /\ m = Change(c, f)
        OBVIOUS
      <4>2. recorded[i] \in Actions \X Files
        BY <1>2
      <4>3. c \in Actions /\ f \in Files
        BY <4>1, <4>2
      <4>4. m \in Changes \cup Rescans /\ m.kind = "change" /\ m.action = c /\ m.file = f
        BY <1>2, <4>1, <4>3, ChangeIsMessage DEF Change
      <4>5. /\ c # "added" /\ (c = "removed" => f \notin present)
            /\ "modify" \notin env => c # "modified"
        BY <2>0, <4>1 DEF GoneRecords
      <4>6. "modify" \in env <=> "modify" \in env'
        BY <1>4
      <4>7. Harmless(m, present', env')
        BY <1>5, <4>4, <4>5, <4>6 DEF Harmless
      <4> QED BY <4>1, <4>4, <4>7
    <3>3. DOMAIN recorded = 1..Len(recorded) /\ Len(recorded) \in Nat
      BY <1>2
    <3>4. cs \in [1..Len(recorded) -> Changes \cup Rescans]
      BY <3>1, <3>2, <3>3
    <3>5. cs \in Seq(Changes \cup Rescans)
      BY <3>3, <3>4, SeqDef
    <3>6. \A k \in DOMAIN cs : Harmless(cs[k], present', env')
      BY <3>1, <3>2
    <3> QED BY <2>3, <3>1, <3>5, <3>6 DEF ReadBatch
  <2> QED BY <2>1, <2>2, <2>3
          DEF Watch, WatchStep, OpenWatch, AnnounceScan, DropRecord, ReadOverflow, Rearm,
              RearmFails, Notify
<1>8. ASSUME Avoids({"create", "recreate"})
      PROVE  /\ Removals(lib, indexing, worker, messages', scan, present, env')
             /\ GoneRecords(recorded', present, env')
  <2>1. /\ Removals(lib, indexing, worker, messages, scan, present, env)
        /\ GoneRecords(recorded, present, env)
    BY <1>8 DEF RInv
  <2>2. PICK cs \in Seq(Changes \cup Rescans) :
            messages' = messages \o cs
            /\ \A k \in DOMAIN cs : Harmless(cs[k], present', env')
    BY <1>7, <1>8
  <2>3. \A k \in DOMAIN cs : Harmless(cs[k], present, env')
    BY <1>5, <2>2
  <2>4. present \subseteq present
    OBVIOUS
  <2>5. Removals(lib, indexing, worker, messages', scan, present, env')
    BY <1>2, <1>3, <2>1, <2>2, <2>3, <2>4, RemovalsPosted
  <2>6. GoneRecords(recorded', present, env')
    <3>1. \A k \in DOMAIN recorded' :
              \E j \in DOMAIN recorded : recorded'[k] = recorded[j]
      BY <1>2, <1>3, RecordsKeep
    <3>2. "modify" \in env <=> "modify" \in env'
      BY <1>4
    <3>3. PICK rs : rs = recorded'
      OBVIOUS
    <3>4. \A k \in DOMAIN rs : \E j \in DOMAIN recorded : rs[k] = recorded[j]
      BY <3>1, <3>3
    <3>5. GoneRecords(rs, present, env')
      BY <2>1, <3>2, <3>4 DEF GoneRecords
    <3> QED BY <3>3, <3>5
  <2> QED BY <2>5, <2>6
<1>9. ASSUME Avoids({"create", "recreate"})'
      PROVE  /\ Removals(lib', indexing', worker', messages', scan', present', env')
             /\ GoneRecords(recorded', present', env')
             /\ discarded' \subseteq lib'.excluded
             /\ Forgotten'
  <2>1. /\ discarded \subseteq lib.excluded
        /\ Forgotten
    BY <1>6, <1>9 DEF RInv
  <2> QED BY <1>5, <1>6, <1>8, <1>9, <2>1 DEF Forgotten
<1> QED BY <1>1, <1>4, <1>9 DEF RInv

-----------------------------------------------------------------------------
(* The scan worker.                                                        *)

\* A step of the worker of the last scan.
LEMMA RemovalsBuilt ==
    ASSUME Typed, NEW w \in Jobs, worker \in Jobs,
           w.generation = worker.generation, w.revision = worker.revision,
           worker.generation = scan,
           Reading(w) \/ GivenUp(w) \/ \E r \in Results : Posting(w, r),
           Removals(lib, indexing, worker, messages, scan, present, env),
           NEW all, all = messages'
    PROVE  Removals(lib, indexing, w, all, scan, present, env)
<1>1. /\ messages \in Seq(Messages) /\ lib \in Catalogue /\ scan \in Nat
      /\ worker # NoWorker
  BY JobFields DEF Typed, MonitorTyped, LibraryTyped
<1>2. /\ Gone(lib, worker, messages, present) /\ Ahead(lib, worker, messages, scan)
      /\ Partials(lib, worker, messages, scan, env)
      /\ "throw" \notin env => Loading(lib, indexing, worker, messages, scan)
  BY DEF Removals, Standing
<1>3. CASE Reading(w) \/ GivenUp(w)
  <2>1. /\ all = messages /\ w.unposted = worker.unposted
        /\ w.missing = worker.missing \/ w.missing \cap present = {}
        /\ w.load = worker.load /\ w.posted = worker.posted
        /\ worker.pc \in Running
        /\ w.pc = "done" \/ Reading(w)
    BY <1>3 DEF Reading, GivenUp, Running
  <2>2. Gone(lib, w, all, present)
    BY <1>1, <1>2, <2>1 DEF Gone
  <2>3. \A q : Pending(q, w, all, scan) <=> Pending(q, worker, messages, scan)
    BY <2>1 DEF Pending
  <2>4. Ahead(lib, w, all, scan)
    <3>1. w.pc \in Running => After(lib, w.observed \cup w.todo, w.revision)
      <4> SUFFICES ASSUME w.pc \in Running
                   PROVE  After(lib, w.observed \cup w.todo, w.revision)
        OBVIOUS
      <4>1. w.observed \cup w.todo \subseteq worker.observed \cup worker.todo \cup present
        BY <2>1 DEF Reading, Running
      <4>2. After(lib, worker.observed \cup worker.todo, w.revision)
        BY <1>2, <2>1 DEF Ahead
      <4>3. \A f \in present : f \notin DOMAIN lib.removed /\ f \notin DOMAIN lib.fileChanges
        BY <1>2 DEF Gone
      <4> QED BY <4>1, <4>2, <4>3 DEF After
    <3>2. w.pc = "files" => w.missing = {}
      BY <1>2, <2>1 DEF Ahead, Reading
    <3> QED BY <1>2, <2>3, <3>1, <3>2 DEF Ahead
  <2>5. "modify" \notin env => Unmodified(lib, w, all)
    <3> SUFFICES ASSUME "modify" \notin env PROVE Unmodified(lib, w, all)
      OBVIOUS
    <3>1. Unmodified(lib, worker, messages)
      BY <1>2 DEF Partials
    <3>2. w.pc = "files" => w.files = {} /\ w.observed = {}
      BY <2>1, <3>1 DEF Unmodified, Reading
    <3> QED BY <2>1, <3>1, <3>2 DEF Unmodified
  <2>6. ~({"throw", "modify"} \subseteq env) => Blind(w, all, scan)
    <3> SUFFICES ASSUME ~({"throw", "modify"} \subseteq env) PROVE Blind(w, all, scan)
      OBVIOUS
    <3>1. Blind(worker, messages, scan)
      BY <1>2 DEF Partials
    <3>2. w.pc = "files" /\ w.load => w.files = {} /\ w.observed = {}
      BY <2>1, <3>1 DEF Blind, Reading
    <3> QED BY <2>1, <2>3, <3>1, <3>2 DEF Blind
  <2>7. "throw" \notin env => Loading(lib, indexing, w, all, scan)
    <3> SUFFICES ASSUME "throw" \notin env, ~lib.loaded
                 PROVE  Loading(lib, indexing, w, all, scan)
      BY DEF Loading
    <3>1. Loading(lib, indexing, worker, messages, scan)
      BY <1>2
    <3>2. worker.load
      BY <1>1, <3>1 DEF Loading
    <3>3. w.pc \in {"list", "read", "deliver", "done"} => worker.pc # "files"
      BY <1>3, <3>2 DEF Reading, GivenUp
    <3>4. worker.pc \in Running /\ (worker.pc # "files" => worker.pc \in {"list", "read", "deliver", "done"})
      BY <2>1 DEF Running
    <3> QED BY <2>1, <2>3, <3>1, <3>2, <3>3, <3>4 DEF Loading
  <2>8. Partials(lib, w, all, scan, env)
    BY <1>2, <2>1, <2>5, <2>6 DEF Partials
  <2> QED BY <2>2, <2>4, <2>7, <2>8 DEF Removals, Standing
<1>4. ASSUME NEW r \in Results, Posting(w, r)
      PROVE  Removals(lib, indexing, w, all, scan, present, env)
  <2>1. /\ r.observed = worker.observed /\ r.missing = worker.missing
        /\ r.revision = worker.revision /\ r.loads = worker.load
        /\ r.failed => "throw" \in env
        /\ w.observed = worker.observed /\ w.todo = worker.todo
        /\ w.missing = worker.missing /\ w.load = worker.load
        /\ worker.pc \in Running /\ w.pc \in {"list", "done"}
        /\ ~r.complete => worker.pc = "files" /\ worker.load
        /\ w.unposted # NoResult \/ w.posted
    BY <1>4, ResultFields DEF Posting, Sent, Running
  <2>2. /\ \A i \in DOMAIN all : all[i] = r \/ \E j \in DOMAIN messages : all[i] = messages[j]
        /\ w.unposted = r \/ w.unposted = worker.unposted
        /\ w.unposted = worker.unposted \/ env \cap {"partial", "handoff"} # {}
    <3>1. CASE all = messages
      BY <1>4, <3>1 DEF Posting, Sent
    <3>2. CASE all = Append(messages, r) /\ w.unposted = worker.unposted
      BY <1>1, <3>2
    <3> QED BY <1>4, <3>1, <3>2 DEF Posting, Sent
  <2>3. ASSUME NEW q \in Results, Pending(q, w, all, scan)
        PROVE  q = r \/ Pending(q, worker, messages, scan)
    BY <2>2, <2>3 DEF Pending
  <2>4. Gone(lib, w, all, present)
    <3>1. r.kind = "ready" /\ r.missing \cap present = {} /\ w.missing \cap present = {}
      BY <1>1, <1>2, <2>1, ResultFields DEF Gone
    <3>2. w.unposted # NoResult => w.unposted.missing \cap present = {}
      BY <1>2, <2>2, <3>1 DEF Gone
    <3>3. ASSUME NEW i \in DOMAIN all
          PROVE  /\ all[i].kind = "ready" => all[i].missing \cap present = {}
                 /\ all[i].kind = "change" =>
                       /\ all[i].action # "added"
                       /\ all[i].action = "removed" => all[i].file \notin present
      <4>1. CASE all[i] = r
        BY <3>1, <4>1
      <4>2. CASE \E j \in DOMAIN messages : all[i] = messages[j]
        BY <1>2, <4>2 DEF Gone
      <4> QED BY <2>2, <4>1, <4>2
    <3> QED BY <1>2, <3>1, <3>2, <3>3 DEF Gone
  <2>5. Ahead(lib, w, all, scan)
    <3>1. After(lib, worker.observed \cup worker.todo, worker.revision)
      BY <1>2, <2>1 DEF Ahead
    <3>2. After(lib, r.observed, r.revision)
      BY <2>1, <3>1 DEF After
    <3>3. ~r.complete => r.missing = {}
      BY <1>2, <2>1 DEF Ahead
    <3>4. ASSUME NEW q \in Results, Pending(q, w, all, scan)
          PROVE  After(lib, q.observed, q.revision) /\ (~q.complete => q.missing = {})
      BY <1>2, <2>3, <3>2, <3>3, <3>4 DEF Ahead
    <3>5. w.pc # "files" /\ After(lib, w.observed \cup w.todo, w.revision)
      BY <2>1, <3>1
    <3> QED BY <3>4, <3>5 DEF Ahead
  <2>6. "modify" \notin env => Unmodified(lib, w, all)
    <3> SUFFICES ASSUME "modify" \notin env PROVE Unmodified(lib, w, all)
      OBVIOUS
    <3>1. Unmodified(lib, worker, messages)
      BY <1>2 DEF Partials
    <3>2. r.kind # "change"
      BY ResultFields
    <3> QED BY <2>1, <2>2, <3>1, <3>2 DEF Unmodified
  <2>7. ~({"throw", "modify"} \subseteq env) => Blind(w, all, scan)
    <3> SUFFICES ASSUME ~({"throw", "modify"} \subseteq env) PROVE Blind(w, all, scan)
      OBVIOUS
    <3>1. Blind(worker, messages, scan)
      BY <1>2 DEF Partials
    <3>2. ~r.complete => r.observed = {}
      BY <2>1, <3>1 DEF Blind
    <3> QED BY <2>1, <2>3, <3>1, <3>2 DEF Blind
  <2>8. "throw" \notin env => Loading(lib, indexing, w, all, scan)
    <3> SUFFICES ASSUME "throw" \notin env, ~lib.loaded
                 PROVE  Loading(lib, indexing, w, all, scan)
      BY DEF Loading
    <3>1. Loading(lib, indexing, worker, messages, scan)
      BY <1>2
    <3>2. worker.load /\ indexing
      BY <1>1, <3>1 DEF Loading
    <3>3. r.loads /\ ~r.failed
      BY <2>1, <3>2
    <3>4. ASSUME NEW q \in Results, Pending(q, w, all, scan) PROVE q.loads /\ ~q.failed
      BY <2>3, <3>1, <3>3, <3>4 DEF Loading
    <3> QED BY <2>1, <3>2, <3>4 DEF Loading
  <2>9. Partials(lib, w, all, scan, env)
    BY <1>2, <2>2, <2>6, <2>7 DEF Partials
  <2> QED BY <2>4, <2>5, <2>8, <2>9 DEF Removals, Standing
<1> QED BY <1>3, <1>4

LEMMA BuildLeaves == RInv /\ Build => RInv'
<1> SUFFICES ASSUME RInv, Build PROVE RInv'
  OBVIOUS
<1>1. IInv' /\ IInv /\ Typed
  BY BuildKeeps DEF RInv, IInv
<1>2. PICK w \in Jobs :
          /\ worker' = w
          /\ w.generation = worker.generation /\ w.revision = worker.revision
          /\ Reading(w) \/ GivenUp(w) \/ \E r \in Results : Posting(w, r)
  BY <1>1, BuildYields
<1>3. /\ worker \in Jobs
      /\ UNCHANGED <<env, diskVars, watchVars, recorded, lib, indexing,
                     refreshPending, scan, phase, saved, user, history>>
  BY <1>1, BuildYields
<1>4. worker.generation = scan
  BY <1>1, <1>3, JobFields DEF IInv, Sound, Numbered
<1>5. UNCHANGED <<env, present, recorded, lib, indexing, scan, phase, saved, discarded>>
  BY <1>3 DEF diskVars, history
<1>6. Avoids({"create", "recreate"})' => Avoids({"create", "recreate"})
  BY <1>5 DEF Avoids
<1>7. ASSUME Avoids({"create", "recreate"})
      PROVE  Removals(lib, indexing, w, messages', scan, present, env)
  <2>1. Removals(lib, indexing, worker, messages, scan, present, env)
    BY <1>7 DEF RInv
  <2> QED BY <1>1, <1>2, <1>3, <1>4, <2>1, RemovalsBuilt
<1>8. ASSUME Avoids({"create", "recreate"})'
      PROVE  /\ Removals(lib', indexing', worker', messages', scan', present', env')
             /\ GoneRecords(recorded', present', env')
             /\ discarded' \subseteq lib'.excluded
             /\ Forgotten'
  <2>1. /\ GoneRecords(recorded, present, env) /\ discarded \subseteq lib.excluded
        /\ Forgotten
    BY <1>6, <1>8 DEF RInv
  <2> QED BY <1>2, <1>5, <1>6, <1>7, <1>8, <2>1 DEF Forgotten, Avoids
<1>9. Benign(env')
  BY <1>5 DEF RInv
<1> QED BY <1>1, <1>8, <1>9 DEF RInv

-----------------------------------------------------------------------------
(* The window.                                                             *)

LEMMA HandlerLeaves ==
    ASSUME RInv, IInv', UNCHANGED <<env, present, recorded, phase, saved, discarded>>,
           Avoids({"create", "recreate"}) =>
               /\ Removals(lib', indexing', worker', messages', scan', present, env)
               /\ lib.excluded \subseteq lib'.excluded
    PROVE  RInv'
<1>1. Avoids({"create", "recreate"})' => Avoids({"create", "recreate"})
  BY DEF Avoids
<1>2. ASSUME Avoids({"create", "recreate"})'
      PROVE  /\ Removals(lib', indexing', worker', messages', scan', present', env')
             /\ GoneRecords(recorded', present', env')
             /\ discarded' \subseteq lib'.excluded
             /\ Forgotten'
  <2>1. /\ GoneRecords(recorded, present, env) /\ discarded \subseteq lib.excluded
        /\ Forgotten
    BY <1>1, <1>2 DEF RInv
  <2> QED BY <1>1, <1>2, <2>1 DEF Forgotten, Avoids
<1>3. Benign(env')
  BY DEF RInv
<1> QED BY <1>2, <1>3 DEF RInv

LEMMA RemovalsTaken ==
    ASSUME NEW l, NEW idx, NEW w, NEW ms \in Seq(Messages), NEW i \in DOMAIN ms,
           NEW s \in Nat, MailOK(ms, s), NEW P, NEW e, Removals(l, idx, w, ms, s, P, e),
           NEW rest, rest = RemoveAt(ms, i)
    PROVE  Removals(l, idx, w, rest, s, P, e)
<1>1. Taken(ms, i, s, rest)
  BY TakenYields
<1>2. \A k \in DOMAIN rest : \E j \in DOMAIN ms : rest[k] = ms[j]
  BY <1>1 DEF Taken
<1>3. \A q : Pending(q, w, rest, s) => Pending(q, w, ms, s)
  BY <1>2 DEF Pending
<1>4. Gone(l, w, ms, P) /\ Ahead(l, w, ms, s) /\ Partials(l, w, ms, s, e)
      /\ ("throw" \notin e => Loading(l, idx, w, ms, s))
  BY DEF Removals, Standing
<1>5. Gone(l, w, rest, P)
  BY <1>2, <1>4 DEF Gone
<1>6. Ahead(l, w, rest, s)
  BY <1>3, <1>4 DEF Ahead
<1>7. Partials(l, w, rest, s, e)
  BY <1>2, <1>3, <1>4 DEF Partials, Unmodified, Blind
<1>8. "throw" \notin e => Loading(l, idx, w, rest, s)
  BY <1>3, <1>4 DEF Loading
<1> QED BY <1>5, <1>6, <1>7, <1>8 DEF Removals, Standing

\* A result is refused only where a partial one that is overtaken has seen no
\* file.
LEMMA RefusedAreBlind ==
    ASSUME NEW l, NEW w, NEW ms, NEW s, NEW e, Benign(e), Partials(l, w, ms, s, e),
           w.unposted # NoResult
    PROVE  Blind(w, ms, s)
BY DEF Benign, Partials

LEMMA ReceiveResultLeaves == RInv /\ ReceiveResult => RInv'
<1> SUFFICES ASSUME RInv, ReceiveResult PROVE RInv'
  OBVIOUS
<1>1. /\ IInv' /\ IInv /\ messages \in Seq(Messages) /\ scan \in Nat
      /\ Sound(lib, worker, messages, scan) /\ lib \in Catalogue
      /\ worker \in Jobs \cup {NoWorker} /\ indexing \in BOOLEAN
      /\ refreshPending \in BOOLEAN /\ Benign(env)
  BY ReceiveResultKeeps DEF RInv, IInv, Typed, MonitorTyped, LibraryTyped
<1>2. PICK i \in DOMAIN messages :
          /\ messages[i].kind = "ready"
          /\ \A j \in 1..(i - 1) : messages[j].kind # "ready"
          /\ messages' = RemoveAt(messages, i) /\ Apply(messages[i], worker)
  BY DEF ReceiveResult
<1>3. UNCHANGED <<env, present, recorded, phase, saved, discarded>>
  BY DEF ReceiveResult, diskVars, history
<1>4. PICK ms, r : ms = RemoveAt(messages, i) /\ r = messages[i]
  OBVIOUS
<1>5. ms \in Seq(Messages) /\ Sound(lib, worker, ms, scan)
  BY <1>1, <1>4, TakenKeeps
<1>6. r \in Results /\ r.revision <= lib.revision /\ r.kind = "ready"
  <2>1. r \in Messages
    BY <1>1, <1>4
  <2> QED BY <1>1, <1>2, <1>4, <2>1, ReadyIsResult DEF Sound, MailStamped
<1>7. /\ MailOK(messages, scan) /\ Protocol(worker, messages, scan)
      /\ Taken(messages, i, scan, ms)
  <2>1. MailOK(messages, scan) /\ Protocol(worker, messages, scan)
    BY <1>1 DEF Sound, Protocol
  <2> QED BY <1>1, <1>4, <2>1, TakenYields
<1>8. ASSUME Avoids({"create", "recreate"})
      PROVE  /\ Removals(lib', indexing', worker', messages', scan', present, env)
             /\ lib.excluded \subseteq lib'.excluded
  <2>1. Removals(lib, indexing, worker, messages, scan, present, env)
    BY <1>8 DEF RInv
  <2>2. Removals(lib, indexing, worker, ms, scan, present, env)
    BY <1>1, <1>4, <1>7, <2>1, RemovalsTaken
  <2>3. Standing(lib, worker, ms, scan, present, env)
        /\ ("throw" \notin env => Loading(lib, indexing, worker, ms, scan))
    BY <2>2 DEF Removals
  <2>4. /\ Gone(lib, worker, messages, present) /\ Ahead(lib, worker, messages, scan)
        /\ Partials(lib, worker, messages, scan, env)
        /\ "throw" \notin env => Loading(lib, indexing, worker, messages, scan)
    BY <2>1 DEF Removals, Standing
  <2>5. ASSUME r.generation = scan
        PROVE  /\ InTurn(r, lib, worker, present)
               /\ r.complete => \A q \in Results : Pending(q, worker, ms, scan) => q.observed = {}
               /\ "throw" \notin env /\ ~lib.loaded => r.loads /\ ~r.failed
    <3>1. Current(r, scan) /\ Pending(r, worker, messages, scan)
      BY <1>4, <1>6, <2>5 DEF Current, Pending
    <3>2. r.complete => OnItsWay(messages, scan, TRUE)
      BY <1>4, <1>6, <3>1, ResultFields DEF OnItsWay
    <3>3. InTurn(r, lib, worker, present)
      <4>1. r.missing \cap present = {}
        BY <1>4, <1>6, <2>4 DEF Gone
      <4>2. After(lib, r.observed, r.revision) /\ (~r.complete => r.missing = {})
        BY <1>6, <2>4, <3>1 DEF Ahead
      <4>3. r.complete => worker.pc \notin Running
        BY <1>7, <3>2 DEF Protocol
      <4> QED BY <4>1, <4>2, <4>3 DEF InTurn
    <3>4. ASSUME r.complete, NEW q \in Results, Pending(q, worker, ms, scan)
          PROVE  q.observed = {}
      <4>1. CASE q = worker.unposted /\ q # NoResult
        <5>1. ~q.complete
          BY <1>7, <3>2, <3>4, <4>1 DEF Protocol
        <5>2. Blind(worker, messages, scan)
          BY <1>1, <2>4, <4>1, RefusedAreBlind
        <5>3. Pending(q, worker, messages, scan)
          BY <4>1 DEF Pending
        <5> QED BY <5>1, <5>2, <5>3 DEF Blind
      <4>2. CASE \E k \in DOMAIN ms : q = ms[k] /\ Current(q, scan)
        <5>1. PICK j \in DOMAIN messages : q = messages[j]
          BY <1>7, <4>2 DEF Taken
        <5>2. Current(messages[j], scan) /\ Current(messages[i], scan)
          BY <1>4, <3>1, <4>2, <5>1
        <5>3. j \in Nat /\ i \in Nat /\ j >= 1
          BY <1>1
        <5>4. ~(j < i)
          BY <1>2, <5>2, <5>3 DEF Current
        <5>5. ~(i < j)
          BY <1>4, <1>7, <3>4, <5>2 DEF MailOK
        <5>6. q = r
          BY <1>4, <5>1, <5>3, <5>4, <5>5
        <5>7. OnItsWay(ms, scan, TRUE)
          BY <3>4, <4>2, <5>6, ResultFields DEF OnItsWay
        <5>8. ~OnItsWay(ms, scan, TRUE)
          BY <1>4, <1>7, <3>1, <3>4 DEF Taken
        <5> QED BY <5>7, <5>8
      <4> QED BY <3>4, <4>1, <4>2 DEF Pending
    <3>5. "throw" \notin env /\ ~lib.loaded => r.loads /\ ~r.failed
      BY <1>6, <2>4, <3>1 DEF Loading
    <3> QED BY <3>3, <3>4, <3>5
  <2>6. Apply(r, worker)
    BY <1>2, <1>4
  <2>7. /\ Removals(lib', indexing', worker', ms, scan', present, env)
        /\ lib.excluded \subseteq lib'.excluded
    BY <1>1, <1>5, <1>6, <2>3, <2>5, <2>6, RemovalsApplied
  <2> QED BY <1>2, <1>4, <2>7
<1> QED BY <1>1, <1>3, <1>8, HandlerLeaves

\* The worker of the last scan is reaped, or its partial result taken from it.
LEMMA RemovalsReaped ==
    ASSUME NEW l, NEW w \in Jobs, NEW v, v.pc = w.pc \/ v = NoWorker,
           v # NoWorker => /\ v.missing = w.missing /\ v.observed = w.observed
                           /\ v.todo = w.todo /\ v.revision = w.revision
                           /\ v.files = w.files /\ v.load = w.load,
           v.unposted = NoResult,
           NEW ms, NEW s, NEW P, NEW e, Standing(l, w, ms, s, P, e)
    PROVE  Standing(l, v, ms, s, P, e)
<1>1. /\ w # NoWorker /\ NoWorker.pc = "none" /\ "none" \notin Running
      /\ NoWorker.pc # "files"
  BY JobFields DEF NoWorker, Running
<1>2. \A q : Pending(q, v, ms, s) => Pending(q, w, ms, s)
  BY DEF Pending
<1>3. Gone(l, w, ms, P) /\ Ahead(l, w, ms, s) /\ Partials(l, w, ms, s, e)
  BY DEF Standing
<1>4. Gone(l, v, ms, P)
  BY <1>1, <1>3 DEF Gone
<1>5. Ahead(l, v, ms, s)
  BY <1>1, <1>2, <1>3 DEF Ahead
<1>6. Partials(l, v, ms, s, e)
  <2>1. "modify" \notin e => Unmodified(l, v, ms)
    BY <1>1, <1>3 DEF Partials, Unmodified
  <2>2. ~({"throw", "modify"} \subseteq e) => Blind(v, ms, s)
    BY <1>1, <1>2, <1>3 DEF Partials, Blind
  <2> QED BY <2>1, <2>2 DEF Partials
<1> QED BY <1>4, <1>5, <1>6 DEF Standing

\* The unposted result of the worker is received when it is reaped or taken.
LEMMA UnpostedInTurn ==
    ASSUME Typed, worker \in Jobs, Sound(lib, worker, messages, scan), Benign(env),
           Removals(lib, indexing, worker, messages, scan, present, env),
           NEW r \in Results, r = worker.unposted,
           NEW v, v.unposted = NoResult, v.pc \notin Running \/ worker.pc # "done"
    PROVE  /\ r.generation = scan /\ r.revision <= lib.revision
           /\ InTurn(r, lib, v, present)
           /\ r.complete => \A q \in Results : Pending(q, v, messages, scan) => q.observed = {}
           /\ "throw" \notin env /\ ~lib.loaded => r.loads /\ ~r.failed
<1>1. r # NoResult
  BY ResultFields
<1>2. /\ Gone(lib, worker, messages, present) /\ Ahead(lib, worker, messages, scan)
      /\ Partials(lib, worker, messages, scan, env)
      /\ "throw" \notin env => Loading(lib, indexing, worker, messages, scan)
  BY DEF Removals, Standing
<1>3. r.generation = scan /\ r.revision <= lib.revision
  BY <1>1 DEF Sound, Numbered
<1>4. Pending(r, worker, messages, scan)
  BY <1>1 DEF Pending
<1>5. r.complete => worker.pc = "done" /\ ~OnItsWay(messages, scan, TRUE)
  BY <1>1 DEF Sound, Protocol
<1>6. InTurn(r, lib, v, present)
  <2>1. r.missing \cap present = {}
    BY <1>1, <1>2 DEF Gone
  <2>2. After(lib, r.observed, r.revision) /\ (~r.complete => r.missing = {})
    BY <1>2, <1>4 DEF Ahead
  <2>3. r.complete => v.pc \notin Running
    BY <1>5
  <2> QED BY <2>1, <2>2, <2>3 DEF InTurn
<1>7. ASSUME r.complete, NEW q \in Results, Pending(q, v, messages, scan)
      PROVE  q.observed = {}
  <2>1. \E i \in DOMAIN messages : q = messages[i] /\ Current(q, scan)
    BY <1>7 DEF Pending
  <2>2. ~q.complete
    BY <1>5, <1>7, <2>1, ResultFields DEF OnItsWay
  <2>3. Blind(worker, messages, scan)
    BY <1>1, <1>2, RefusedAreBlind
  <2>4. Pending(q, worker, messages, scan)
    BY <2>1 DEF Pending
  <2> QED BY <2>2, <2>3, <2>4 DEF Blind
<1>8. "throw" \notin env /\ ~lib.loaded => r.loads /\ ~r.failed
  BY <1>2, <1>4 DEF Loading
<1> QED BY <1>3, <1>6, <1>7, <1>8

LEMMA PollWorkersLeaves == RInv /\ PollWorkers => RInv'
<1> SUFFICES ASSUME RInv, PollWorkers PROVE RInv'
  OBVIOUS
<1>1. /\ IInv' /\ IInv /\ Typed /\ messages \in Seq(Messages) /\ scan \in Nat
      /\ Sound(lib, worker, messages, scan) /\ lib \in Catalogue
      /\ worker \in Jobs \cup {NoWorker} /\ indexing \in BOOLEAN
      /\ refreshPending \in BOOLEAN /\ Benign(env)
  BY PollWorkersKeeps DEF RInv, IInv, Typed, MonitorTyped, LibraryTyped
<1>2. worker.pc = "done" /\ UNCHANGED <<monitorVars, phase, saved, user, history>>
  BY DEF PollWorkers
<1>3. UNCHANGED <<env, present, recorded, phase, saved, discarded>> /\ messages' = messages
  BY <1>2 DEF monitorVars, diskVars, history
<1>4. worker \in Jobs
  BY <1>1, <1>2, WorkerFields
<1>5. /\ NoWorker \in Jobs \cup {NoWorker} /\ NoWorker.unposted = NoResult
      /\ NoWorker.pc \notin Running /\ NoWorker.pc = "none"
  BY DEF NoWorker, Running
<1>6. Sound(lib, NoWorker, messages, scan)
  BY <1>1, <1>5 DEF Sound, Numbered, Protocol, Running
<1>7. ASSUME Avoids({"create", "recreate"})
      PROVE  /\ Removals(lib', indexing', worker', messages, scan', present, env)
             /\ lib.excluded \subseteq lib'.excluded
  <2>1. Removals(lib, indexing, worker, messages, scan, present, env)
    BY <1>7 DEF RInv
  <2>2. Standing(lib, NoWorker, messages, scan, present, env)
    BY <1>4, <1>5, <2>1, RemovalsReaped DEF Removals
  <2>3. CASE worker.unposted # NoResult
    <3>1. PICK r \in Results : r = worker.unposted
      BY <1>4, <2>3, JobFields
    <3>2. /\ r.generation = scan /\ r.revision <= lib.revision
          /\ InTurn(r, lib, NoWorker, present)
          /\ r.complete =>
                \A q \in Results : Pending(q, NoWorker, messages, scan) => q.observed = {}
          /\ "throw" \notin env /\ ~lib.loaded => r.loads /\ ~r.failed
      BY <1>1, <1>4, <1>5, <2>1, <3>1, UnpostedInTurn
    <3>3. Apply(r, NoWorker)
      BY <2>3, <3>1 DEF PollWorkers
    <3> QED BY <1>1, <1>5, <1>6, <2>2, <3>2, <3>3, RemovalsApplied
  <2>4. CASE worker.unposted = NoResult
    <3>1. PICK idx : idx = (indexing /\ (worker.posted \/ worker.generation # scan))
      OBVIOUS
    <3>2. Ends(lib, idx, NoWorker) /\ idx \in BOOLEAN
      BY <2>4, <3>1 DEF PollWorkers, Ends
    <3>3. "throw" \notin env => Loading(lib, idx, NoWorker, messages, scan)
      <4> SUFFICES ASSUME "throw" \notin env, ~lib.loaded
                   PROVE  Loading(lib, idx, NoWorker, messages, scan)
        BY DEF Loading
      <4>1. Loading(lib, indexing, worker, messages, scan)
        BY <2>1 DEF Removals
      <4>2. indexing /\ worker.posted
        BY <1>2, <2>4, <4>1 DEF Loading
      <4>3. \A q : Pending(q, NoWorker, messages, scan) => Pending(q, worker, messages, scan)
        BY <1>5 DEF Pending
      <4> QED BY <1>5, <3>1, <4>1, <4>2, <4>3 DEF Loading
    <3>4. Removals(lib, idx, NoWorker, messages, scan, present, env)
      BY <2>2, <3>3 DEF Removals
    <3>5. /\ Removals(lib', indexing', worker', messages, scan', present, env)
          /\ lib'.excluded = lib.excluded
      BY <1>1, <1>5, <1>6, <3>2, <3>4, RemovalsAtEnd
    <3> QED BY <3>5
  <2> QED BY <2>3, <2>4
<1> QED BY <1>1, <1>3, <1>7, HandlerLeaves

LEMMA TakeUnpostedLeaves == RInv /\ TakeUnposted => RInv'
<1> SUFFICES ASSUME RInv, TakeUnposted PROVE RInv'
  OBVIOUS
<1>1. /\ IInv' /\ IInv /\ Typed /\ messages \in Seq(Messages) /\ scan \in Nat
      /\ Sound(lib, worker, messages, scan) /\ lib \in Catalogue
      /\ worker \in Jobs \cup {NoWorker} /\ indexing \in BOOLEAN
      /\ refreshPending \in BOOLEAN /\ Benign(env)
  BY TakeUnpostedKeeps DEF RInv, IInv, Typed, MonitorTyped, LibraryTyped
<1>2. /\ worker.pc # "done" /\ worker.unposted # NoResult
      /\ Apply(worker.unposted, [worker EXCEPT !.unposted = NoResult])
      /\ UNCHANGED <<monitorVars, phase, saved, user, history>>
  BY DEF TakeUnposted
<1>3. UNCHANGED <<env, present, recorded, phase, saved, discarded>> /\ messages' = messages
  BY <1>2 DEF monitorVars, diskVars, history
<1>4. worker \in Jobs
  BY <1>1, <1>2, WorkerFields
<1>5. PICK r \in Results : r = worker.unposted
  BY <1>2, <1>4, JobFields
<1>6. PICK v : v = [worker EXCEPT !.unposted = NoResult]
  OBVIOUS
<1>7. /\ v \in Jobs /\ v.pc = worker.pc /\ v.unposted = NoResult
      /\ v.generation = worker.generation /\ v.revision = worker.revision
      /\ v.missing = worker.missing /\ v.observed = worker.observed
      /\ v.todo = worker.todo /\ v.files = worker.files /\ v.load = worker.load
  BY <1>4, <1>6 DEF Jobs
<1>8. Sound(lib, v, messages, scan)
  <2>1. worker # NoWorker
    BY <1>4, JobFields
  <2> QED BY <1>1, <1>7, <2>1 DEF Sound, Numbered, Protocol
<1>9. ASSUME Avoids({"create", "recreate"})
      PROVE  /\ Removals(lib', indexing', worker', messages, scan', present, env)
             /\ lib.excluded \subseteq lib'.excluded
  <2>1. Removals(lib, indexing, worker, messages, scan, present, env)
    BY <1>9 DEF RInv
  <2>2. Standing(lib, v, messages, scan, present, env)
    BY <1>4, <1>7, <2>1, RemovalsReaped DEF Removals
  <2>3. /\ r.generation = scan /\ r.revision <= lib.revision
        /\ InTurn(r, lib, v, present)
        /\ r.complete => \A q \in Results : Pending(q, v, messages, scan) => q.observed = {}
        /\ "throw" \notin env /\ ~lib.loaded => r.loads /\ ~r.failed
    BY <1>1, <1>2, <1>4, <1>5, <1>7, <2>1, UnpostedInTurn
  <2>4. Apply(r, v)
    BY <1>2, <1>5, <1>6
  <2> QED BY <1>1, <1>7, <1>8, <2>2, <2>3, <2>4, RemovalsApplied
<1> QED BY <1>1, <1>3, <1>9, HandlerLeaves

\* The handler changed the catalogue to a and ended.
LEMMA GrowingHandlerLeaves ==
    ASSUME RInv, IInv', UNCHANGED <<env, present, phase, saved>>, NEW a, Grown(lib, a),
           Ends(a, indexing, worker),
           Avoids({"create", "recreate"}) =>
               /\ GoneRecords(recorded', present, env)
               /\ Removals(lib, indexing, worker, messages', scan, present, env)
               /\ \A f \in DOMAIN a.fileChanges : f \notin present /\ a.fileChanges[f].removed
               /\ DOMAIN a.removed \cap present = {}
               /\ "modify" \notin env => a.files = {}
               /\ discarded' \subseteq a.excluded,
           Sound(lib, worker, messages', scan), phase # "closed"
    PROVE  RInv'
<1>1. /\ messages' \in Seq(Messages) /\ scan \in Nat /\ lib \in Catalogue
      /\ worker \in Jobs \cup {NoWorker} /\ indexing \in BOOLEAN
  BY DEF RInv, IInv, Typed, MonitorTyped, LibraryTyped
<1>2. PICK ms : ms = messages'
  OBVIOUS
<1>3. ms \in Seq(Messages) /\ Sound(lib, worker, ms, scan)
  BY <1>1, <1>2
<1>4. a \in Catalogue /\ Sound(a, worker, ms, scan)
  BY <1>1, <1>3, GrownIsSound DEF Grown
<1>5. ASSUME Avoids({"create", "recreate"})
      PROVE  /\ Removals(lib', indexing', worker', ms, scan', present, env)
             /\ lib'.excluded = a.excluded
  <2>1. Removals(lib, indexing, worker, ms, scan, present, env)
    BY <1>2, <1>5
  <2>2. Removals(a, indexing, worker, ms, scan, present, env)
    BY <1>1, <1>3, <1>5, <2>1, RemovalsGrow
  <2> QED BY <1>1, <1>3, <1>4, <2>2, RemovalsAtEnd
<1>6. Avoids({"create", "recreate"})' => Avoids({"create", "recreate"})
  BY DEF Avoids
<1>7. ASSUME Avoids({"create", "recreate"})'
      PROVE  /\ Removals(lib', indexing', worker', messages', scan', present', env')
             /\ GoneRecords(recorded', present', env')
             /\ discarded' \subseteq lib'.excluded
  BY <1>2, <1>5, <1>6, <1>7
<1>8. Benign(env') /\ phase' # "closed"
  BY DEF RInv
<1> QED BY <1>7, <1>8 DEF RInv, Forgotten

LEMMA ReceiveChangeLeaves == RInv /\ ReceiveChange => RInv'
<1> SUFFICES ASSUME RInv, ReceiveChange PROVE RInv'
  OBVIOUS
<1>1. /\ IInv' /\ IInv /\ messages \in Seq(Messages) /\ scan \in Nat
      /\ Sound(lib, worker, messages, scan) /\ lib \in Catalogue
  BY ReceiveChangeKeeps DEF RInv, IInv, Typed, MonitorTyped, LibraryTyped
<1>2. /\ phase = "open" /\ messages # <<>> /\ Head(messages).kind = "change"
      /\ messages' = Tail(messages) /\ HandleChange(Head(messages))
      /\ UNCHANGED <<env, present, recorded, phase, saved, discarded>>
  BY DEF ReceiveChange, diskVars, history
<1>3. 1 \in DOMAIN messages /\ Head(messages) = messages[1]
      /\ messages' = RemoveAt(messages, 1)
  BY <1>1, <1>2, TailIsTaken
<1>4. PICK m \in Messages : m = messages[1]
  BY <1>1, <1>3
<1>5. PICK a : /\ Grown(lib, a) /\ Ends(a, indexing, worker)
               /\ \/ a = lib \/ a = [lib EXCEPT !.directory = TRUE]
                  \/ m.action = "removed" /\ a = FileRemoved(lib, m.file)
                  \/ m.action = "added" /\ a = FileAdded(lib, m.file)
                  \/ m.action = "modified" /\ a = FileModified(lib, m.file)
  BY <1>1, <1>2, <1>3, <1>4, ChangeYields
<1>6. Sound(lib, worker, messages', scan)
  BY <1>1, <1>3, TakenKeeps
<1>7. ASSUME Avoids({"create", "recreate"})
      PROVE  /\ GoneRecords(recorded', present, env)
             /\ Removals(lib, indexing, worker, messages', scan, present, env)
             /\ \A f \in DOMAIN a.fileChanges : f \notin present /\ a.fileChanges[f].removed
             /\ DOMAIN a.removed \cap present = {}
             /\ "modify" \notin env => a.files = {}
             /\ discarded' \subseteq a.excluded
  <2>1. /\ Removals(lib, indexing, worker, messages, scan, present, env)
        /\ GoneRecords(recorded, present, env) /\ discarded \subseteq lib.excluded
    BY <1>7 DEF RInv
  <2>2. Gone(lib, worker, messages, present) /\ Partials(lib, worker, messages, scan, env)
    BY <2>1 DEF Removals, Standing
  <2>3. /\ m.action # "added"
        /\ m.action = "removed" => m.file \notin present
        /\ "modify" \notin env => lib.files = {} /\ m.action # "modified"
    BY <1>2, <1>3, <1>4, <2>2 DEF Gone, Partials, Unmodified
  <2>4. Removals(lib, indexing, worker, messages', scan, present, env)
    <3>1. MailOK(messages, scan)
      BY <1>1 DEF Sound, Protocol
    <3> QED BY <1>1, <1>3, <2>1, <3>1, RemovalsTaken
  <2>5. /\ \A f \in DOMAIN a.fileChanges : f \notin present /\ a.fileChanges[f].removed
        /\ DOMAIN a.removed \cap present = {}
        /\ "modify" \notin env => a.files = {}
        /\ lib.excluded \subseteq a.excluded
    <3>0. /\ \A f \in DOMAIN lib.fileChanges : f \notin present /\ lib.fileChanges[f].removed
          /\ DOMAIN lib.removed \cap present = {}
      BY <2>2 DEF Gone
    <3>1. CASE a = lib
      BY <2>3, <3>0, <3>1
    <3>2. CASE a = [lib EXCEPT !.directory = TRUE]
      <4>1. /\ a.excluded = lib.excluded /\ a.removed = lib.removed
            /\ a.fileChanges = lib.fileChanges /\ a.files \subseteq lib.files
        BY <1>1, <3>2, RequestGrows
      <4> QED BY <2>3, <3>0, <4>1
    <3>3. CASE m.action = "removed" /\ a = FileRemoved(lib, m.file)
      <4>1. m.file \in Files
        BY <1>2, <1>3, <1>4, <3>3, NotificationFields
      <4>2. /\ lib.excluded \subseteq a.excluded /\ a.files = lib.files
            /\ DOMAIN a.removed \subseteq DOMAIN lib.removed \cup {m.file}
            /\ \A g \in DOMAIN a.fileChanges :
                  \/ g = m.file /\ a.fileChanges[g].removed
                  \/ g \in DOMAIN lib.fileChanges /\ a.fileChanges[g] = lib.fileChanges[g]
        BY <1>1, <3>3, <4>1, FileRemovedGrows
      <4> QED BY <2>3, <3>0, <3>3, <4>2
    <3>4. CASE m.action = "modified" /\ a = FileModified(lib, m.file)
      <4>1. {m.file} \in SUBSET Files
        BY <1>2, <1>3, <1>4, <3>4, NotificationFields
      <4>2. a = [lib EXCEPT !.files = @ \cup {m.file}]
        BY <3>4 DEF FileModified
      <4>3. /\ a.excluded = lib.excluded /\ a.removed = lib.removed
            /\ a.fileChanges = lib.fileChanges
        BY <1>1, <4>1, <4>2, QueuedGrows
      <4> QED BY <2>3, <3>0, <3>4, <4>3
    <3> QED BY <1>5, <2>3, <3>1, <3>2, <3>3, <3>4
  <2> QED BY <1>2, <2>1, <2>4, <2>5
<1> QED BY <1>1, <1>2, <1>5, <1>6, <1>7, GrowingHandlerLeaves

-----------------------------------------------------------------------------
(* The user.                                                               *)

\* What a command of the user leaves of the catalogue: only the import of a
\* file takes a track out of the removed ones, and out of the discarded ones.
LEMMA CommandLeaves ==
    ASSUME Typed, UserCommand
    PROVE  \E a : /\ Grown(lib, a) /\ Ends(a, indexing, worker)
                  /\ a.fileChanges = lib.fileChanges
                  /\ DOMAIN a.removed \subseteq DOMAIN lib.removed
                  /\ a.files \subseteq lib.files
                  /\ discarded \subseteq lib.excluded => discarded' \subseteq a.excluded
<1>0. /\ lib \in Catalogue /\ user \in Nat /\ content \in [Files -> Nat]
  BY DEF Typed, MonitorTyped, LibraryTyped
<1>1. ASSUME NEW f \in Files, RateTrack(f)
      PROVE  \E a : /\ Grown(lib, a) /\ Ends(a, indexing, worker)
                    /\ a.fileChanges = lib.fileChanges
                    /\ DOMAIN a.removed \subseteq DOMAIN lib.removed
                    /\ a.files \subseteq lib.files
                    /\ discarded \subseteq lib.excluded => discarded' \subseteq a.excluded
  <2>1. f \in DOMAIN lib.items
    BY <1>0, <1>1, LiveYields DEF RateTrack
  <2>2. PICK r : r = user + 1
    OBVIOUS
  <2>3. r \in Nat
    BY <1>0, <2>2
  <2>4. PICK a : a = [lib EXCEPT !.items = Rerated(@, f, r), !.persisted = Rerated(@, f, r),
                                 !.tracks = Rerated(@, f, r),
                                 !.edits = RatingEdit(lib, f, r), !.revision = @ + 1]
    OBVIOUS
  <2>5. Grown(lib, a) /\ EditOnly(lib, a, {})
    BY <1>0, <2>1, <2>3, <2>4, RatedGrows
  <2>6. Ends(a, indexing, worker) /\ discarded' = discarded
    BY <1>1, <2>2, <2>4 DEF RateTrack, Ends
  <2> QED BY <2>5, <2>6 DEF EditOnly
<1>2. ASSUME NEW f \in Files, RemoveTrack(f)
      PROVE  \E a : /\ Grown(lib, a) /\ Ends(a, indexing, worker)
                    /\ a.fileChanges = lib.fileChanges
                    /\ DOMAIN a.removed \subseteq DOMAIN lib.removed
                    /\ a.files \subseteq lib.files
                    /\ discarded \subseteq lib.excluded => discarded' \subseteq a.excluded
  <2>1. PICK a : a = [lib EXCEPT !.excluded = @ \cup {f}, !.persisted = Without(@, {f})]
    OBVIOUS
  <2>2. Grown(lib, a) /\ a.excluded = lib.excluded \cup {f} /\ EditOnly(lib, a, {})
    BY <1>0, <2>1, DiscardedGrows
  <2>3. Ends(a, indexing, worker) /\ discarded' = discarded \cup {f}
    BY <1>2, <2>1 DEF RemoveTrack, Ends
  <2> QED BY <2>2, <2>3 DEF EditOnly
<1>3. ASSUME NEW f \in Files, AddTrack(f)
      PROVE  \E a : /\ Grown(lib, a) /\ Ends(a, indexing, worker)
                    /\ a.fileChanges = lib.fileChanges
                    /\ DOMAIN a.removed \subseteq DOMAIN lib.removed
                    /\ a.files \subseteq lib.files
                    /\ discarded \subseteq lib.excluded => discarded' \subseteq a.excluded
  <2>1. PICK t : t = IF f \in DOMAIN lib.items THEN lib.items[f] ELSE Track(content[f], 0)
    OBVIOUS
  <2>2. t \in TrackType
    <3>1. \A x \in DOMAIN lib.items : lib.items[x] \in TrackType
      <4>1. lib.items \in Tracks
        BY <1>0, CatalogueFields
      <4> QED BY <4>1, EntriesYields DEF Tracks
    <3>2. Track(content[f], 0) \in TrackType
      BY <1>0, TrackTyped
    <3> QED BY <2>1, <3>1, <3>2
  <2>3. PICK a : a = [lib EXCEPT
                         !.excluded = @ \ {f}, !.removed = Without(@, {f}),
                         !.items = Put(@, f, t),
                         !.persisted = Over(@, [x \in {f} |-> t]),
                         !.tracks = Over(@, [x \in {f} |-> t]),
                         !.edits = Put(@, f, [revision |-> lib.revision + 1,
                                              track |-> t, ratingOnly |-> FALSE]),
                         !.revision = @ + 1]
    OBVIOUS
  <2>4. Grown(lib, a) /\ EditOnly(lib, a, {f})
    BY <1>0, <2>2, <2>3, ImportedGrows
  <2>5. Ends(a, indexing, worker) /\ discarded' = discarded \ {f}
    BY <1>3, <2>1, <2>3 DEF AddTrack, Ends
  <2> QED BY <2>4, <2>5 DEF EditOnly
<1>4. ASSUME ShowLibrary \/ RefreshCommand \/ StopMonitoring \/ StartMonitoring
      PROVE  \E a : /\ Grown(lib, a) /\ Ends(a, indexing, worker)
                    /\ a.fileChanges = lib.fileChanges
                    /\ DOMAIN a.removed \subseteq DOMAIN lib.removed
                    /\ a.files \subseteq lib.files
                    /\ discarded \subseteq lib.excluded => discarded' \subseteq a.excluded
  <2>1. PICK a : /\ a = lib \/ a = [lib EXCEPT !.directory = TRUE]
                 /\ Ends(a, indexing, worker) /\ discarded' = discarded
    BY <1>4 DEF ShowLibrary, RefreshCommand, StopMonitoring, StartMonitoring, Ends, history
  <2>2. /\ Grown(lib, a) /\ a.excluded = lib.excluded /\ a.removed = lib.removed
        /\ a.fileChanges = lib.fileChanges /\ a.files \subseteq lib.files
    BY <1>0, <2>1, GrownReflexive, RequestGrows
  <2> QED BY <2>1, <2>2
<1> QED BY <1>1, <1>2, <1>3, <1>4 DEF UserCommand

LEMMA UserCommandLeaves == RInv /\ UserCommand => RInv'
<1> SUFFICES ASSUME RInv, UserCommand PROVE RInv'
  OBVIOUS
<1>1. /\ IInv' /\ IInv /\ Typed /\ Sound(lib, worker, messages, scan)
  BY UserCommandKeeps DEF RInv, IInv
<1>2. PICK a : /\ Grown(lib, a) /\ Ends(a, indexing, worker)
               /\ a.fileChanges = lib.fileChanges
               /\ DOMAIN a.removed \subseteq DOMAIN lib.removed
               /\ a.files \subseteq lib.files
               /\ discarded \subseteq lib.excluded => discarded' \subseteq a.excluded
  BY <1>1, CommandLeaves
<1>3. /\ UNCHANGED <<env, present, messages, phase, saved>>
      /\ recorded' \in {recorded, <<>>}
  BY <1>1, CommandYields DEF diskVars
<1>4. phase # "closed"
  BY DEF UserCommand, RateTrack, RemoveTrack, AddTrack, ShowLibrary, RefreshCommand,
         StopMonitoring, StartMonitoring, Command
<1>5. ASSUME Avoids({"create", "recreate"})
      PROVE  /\ GoneRecords(recorded', present, env)
             /\ Removals(lib, indexing, worker, messages', scan, present, env)
             /\ \A f \in DOMAIN a.fileChanges : f \notin present /\ a.fileChanges[f].removed
             /\ DOMAIN a.removed \cap present = {}
             /\ "modify" \notin env => a.files = {}
             /\ discarded' \subseteq a.excluded
  <2>1. /\ Removals(lib, indexing, worker, messages, scan, present, env)
        /\ GoneRecords(recorded, present, env) /\ discarded \subseteq lib.excluded
    BY <1>5 DEF RInv
  <2>2. Gone(lib, worker, messages, present) /\ Partials(lib, worker, messages, scan, env)
    BY <2>1 DEF Removals, Standing
  <2>3. GoneRecords(recorded', present, env)
    BY <1>3, <2>1 DEF GoneRecords
  <2>4. "modify" \notin env => a.files = {}
    BY <1>2, <2>2 DEF Partials, Unmodified
  <2>5. /\ \A f \in DOMAIN a.fileChanges : f \notin present /\ a.fileChanges[f].removed
        /\ DOMAIN a.removed \cap present = {}
    BY <1>2, <2>2 DEF Gone
  <2> QED BY <1>2, <1>3, <2>1, <2>3, <2>4, <2>5
<1>6. Sound(lib, worker, messages', scan)
  BY <1>1, <1>3
<1> QED BY <1>1, <1>2, <1>3, <1>4, <1>5, <1>6, GrowingHandlerLeaves

-----------------------------------------------------------------------------
(* The window is closed.                                                   *)

LEMMA CloseLeaves == RInv /\ Close => RInv'
<1> SUFFICES ASSUME RInv, Close PROVE RInv'
  OBVIOUS
<1>1. /\ phase' = "closing" /\ recorded' = <<>>
      /\ UNCHANGED <<env, present, messages, lib, indexing, scan, worker, saved, discarded>>
  BY DEF Close, StopMonitor, diskVars, history
<1>2. IInv'
  BY CloseKeeps DEF RInv
<1>3. GoneRecords(recorded', present', env')
  BY <1>1 DEF GoneRecords
<1>4. Avoids({"create", "recreate"})' => Avoids({"create", "recreate"})
  BY <1>1 DEF Avoids
<1>5. ASSUME Avoids({"create", "recreate"})'
      PROVE  /\ Removals(lib', indexing', worker', messages', scan', present', env')
             /\ discarded' \subseteq lib'.excluded
  BY <1>1, <1>4, <1>5 DEF RInv
<1>6. Benign(env') /\ phase' # "closed"
  BY <1>1 DEF RInv
<1> QED BY <1>2, <1>3, <1>5, <1>6 DEF RInv, Forgotten

\* The file that is written has no track the user removed: neither a published
\* one nor one of a file not loaded yet.
LEMMA SaveLibraryLeaves == RInv /\ SaveLibrary => RInv'
<1> SUFFICES ASSUME RInv, SaveLibrary PROVE RInv'
  OBVIOUS
<1>1. /\ worker' = NoWorker /\ messages' = <<>>
      /\ Avoids({"unloaded", "unsaved"}) => saved' = Snapshot(lib)
      /\ UNCHANGED <<env, present, recorded, lib, indexing, scan, discarded>>
  BY DEF SaveLibrary, SaveFails, Avoids, diskVars, history
<1>2. IInv'
  BY SaveLibraryKeeps DEF RInv
<1>3. Avoids({"create", "recreate"})' => Avoids({"create", "recreate"})
  BY <1>1 DEF Avoids
<1>4. DOMAIN Snapshot(lib) \cap lib.excluded = {}
  BY DEF Snapshot, Without
<1>5. ASSUME Avoids({"create", "recreate"})
      PROVE  /\ Removals(lib, indexing, worker', messages', scan, present, env)
             /\ GoneRecords(recorded, present, env)
             /\ discarded \subseteq lib.excluded
             /\ Avoids({"unloaded", "unsaved"}) => discarded \cap DOMAIN saved' = {}
  <2>1. /\ Removals(lib, indexing, worker, messages, scan, present, env)
        /\ GoneRecords(recorded, present, env) /\ discarded \subseteq lib.excluded
    BY <1>5 DEF RInv
  <2>2. PICK ms, w : ms = messages' /\ w = worker'
    OBVIOUS
  <2>3. /\ DOMAIN ms = {} /\ w = NoWorker /\ w.unposted = NoResult
        /\ w.pc \notin Running
        /\ w.pc \notin {"files", "list", "read", "deliver", "done"}
    BY <1>1, <2>2 DEF NoWorker, Running
  <2>4. \A r : ~Pending(r, w, ms, scan)
    BY <2>3 DEF Pending
  <2>5. Gone(lib, w, ms, present)
    BY <2>1, <2>3 DEF Removals, Standing, Gone
  <2>6. Ahead(lib, w, ms, scan)
    BY <2>3, <2>4 DEF Ahead
  <2>7. Partials(lib, w, ms, scan, env)
    BY <2>1, <2>3, <2>4 DEF Removals, Standing, Partials, Unmodified, Blind
  <2>8. "throw" \notin env => Loading(lib, indexing, w, ms, scan)
    BY <2>1, <2>3, <2>4 DEF Removals, Loading
  <2>9. Removals(lib, indexing, w, ms, scan, present, env)
    BY <2>5, <2>6, <2>7, <2>8 DEF Removals, Standing
  <2> QED BY <1>1, <1>4, <2>1, <2>2, <2>9
<1>6. Benign(env')
  BY <1>1 DEF RInv
<1>7. Avoids({"unloaded", "unsaved"})' => Avoids({"unloaded", "unsaved"})
  BY <1>1 DEF Avoids
<1> QED BY <1>1, <1>2, <1>3, <1>5, <1>6, <1>7 DEF RInv, Forgotten

-----------------------------------------------------------------------------
(* The initial states, the theorem.                                        *)

LEMMA InitRemovals ==
    ASSUME Benign(env), Init PROVE RInv
<1>1. /\ lib = EmptyCatalogue /\ indexing = TRUE /\ scan = 1 /\ phase = "open"
      /\ worker = Job([EmptyCatalogue EXCEPT !.directory = TRUE], 1)
      /\ discarded = {} /\ recorded = <<>> /\ messages = <<>> /\ env \in Environments
  BY DEF Init, MonitorInit
<1>2. PICK ms, w : ms = messages /\ w = worker
  OBVIOUS
<1>3. DOMAIN ms = {}
  BY <1>1, <1>2
<1>4. PICK l \in Catalogue : /\ l = [EmptyCatalogue EXCEPT !.directory = TRUE]
                             /\ l.revision = 0 /\ l.loaded = FALSE /\ l.files = {}
  BY FirstJob
<1>5. /\ w.pc = "files" /\ w.unposted = NoResult /\ w.revision = 0
      /\ w.observed = {} /\ w.missing = {} /\ w.todo = {} /\ w.files = {} /\ w.load = TRUE
  <2>1. w = Job(l, 1)
    BY <1>1, <1>2, <1>4
  <2>2. PICK j : j = Job(l, 1)
    OBVIOUS
  <2>3. /\ j.pc = "files" /\ j.unposted = NoResult /\ j.revision = l.revision
        /\ j.observed = {} /\ j.missing = {} /\ j.todo = {} /\ j.files = l.files
        /\ j.load = ~l.loaded
    BY <2>2, JobYields
  <2> QED BY <1>4, <2>1, <2>2, <2>3
<1>6. /\ lib.files = {} /\ DOMAIN lib.removed = {} /\ DOMAIN lib.fileChanges = {}
  BY <1>1, EmptyCatalogueTyped, NothingIs
<1>7. \A r : ~Pending(r, w, ms, 1)
  BY <1>3, <1>5 DEF Pending
<1>8. Gone(lib, w, ms, present)
  BY <1>3, <1>5, <1>6 DEF Gone
<1>9. Ahead(lib, w, ms, 1)
  BY <1>5, <1>6, <1>7 DEF Ahead, After
<1>10. Partials(lib, w, ms, 1, env)
  BY <1>3, <1>5, <1>6, <1>7 DEF Partials, Unmodified, Blind
<1>11. Loading(lib, TRUE, w, ms, 1)
  BY <1>5, <1>7 DEF Loading
<1>12. Removals(lib, indexing, worker, messages, scan, present, env)
  BY <1>1, <1>2, <1>8, <1>9, <1>10, <1>11 DEF Removals, Standing
<1>13. GoneRecords(recorded, present, env)
  BY <1>1 DEF GoneRecords
<1> QED BY <1>1, <1>12, <1>13, InitEstablishes DEF RInv, Forgotten

LEMMA StutterLeaves == RInv /\ UNCHANGED vars => RInv'
<1> SUFFICES ASSUME RInv, UNCHANGED vars PROVE RInv'
  OBVIOUS
<1>1. UNCHANGED <<env, present, recorded, messages, lib, indexing, scan, worker, phase,
                  saved, discarded>>
  BY DEF vars, monitorVars, libraryVars, diskVars, history
<1>2. IInv'
  BY StutterKeeps DEF RInv
<1>3. ASSUME Avoids({"create", "recreate"})
      PROVE  /\ Removals(lib', indexing', worker', messages', scan', present', env')
             /\ GoneRecords(recorded', present', env')
             /\ discarded' \subseteq lib'.excluded
             /\ Forgotten'
  BY <1>1, <1>3 DEF RInv, Forgotten, Avoids
<1>4. Benign(env') /\ (Avoids({"create", "recreate"})' => Avoids({"create", "recreate"}))
  BY <1>1 DEF RInv, Avoids
<1> QED BY <1>2, <1>3, <1>4 DEF RInv

\* Where no file is created or comes back, a track the user removed is neither
\* shown again by a scan that saw its file before nor written into the library
\* file, whatever scans, notifications and refused results came in between
\* (RemoveMediaLibraryTracksByIdentity, ApplyMediaLibraryIndex,
\* ShutdownMediaLibrary), unless the library file cannot be loaded or written;
\* not both a scan that fails and modified files come with a result that is
\* refused.
THEOREM RemovedTracksStayRemoved ==
    ASSUME \A e \in Environments : Benign(e)
    PROVE  Spec => []RemovalHolds
<1>1. Init => RInv
  BY InitRemovals DEF Init, MonitorInit
<1>2. RInv /\ [Next]_vars => RInv'
  BY DirectoryWriteLeaves, WatchLeaves, BuildLeaves, ReceiveResultLeaves,
     ReceiveChangeLeaves, PollWorkersLeaves, UserCommandLeaves, CloseLeaves,
     TakeUnpostedLeaves, SaveLibraryLeaves, StutterLeaves
     DEF Next, Window, Shutdown
<1>3. RInv => RemovalHolds
  BY DEF RInv, RemovalHolds, Live, Forgotten
<1> QED BY <1>1, <1>2, <1>3, PTL DEF Spec
=============================================================================
