-------------------------- MODULE PlaylistStoreProofs --------------------------
(***************************************************************************)
(* Proofs about PlaylistStore, for any number of lists, slots and edits,   *)
(* and every set of faults in which no recovery is refused and the program *)
(* does not crash between the two removals of Delete.                      *)
(***************************************************************************)
EXTENDS PlaylistStore, FiniteSetTheorems, WellFoundedInduction, TLAPS

\* The two faults left out are those in which the code loses what it promised:
\* finding 2 of the README, and the crash that leaves the .tmp of a deleted list.
Covered == "recover" \notin Faults /\ ~({"crash", "crash_delete"} \subseteq Faults)

-----------------------------------------------------------------------------
(* What a restart would find.                                              *)

Files == Contents \cup {NoFile}
Directory == [Slots -> Files]

\* Restored for every slot, of a directory f, t, g with marker m of which the
\* files of the slots del are being deleted.
Dest(m) == 0 .. Len(m) - 1
Moved(m) == {d \in Dest(m) : m[d + 1] # d}
Left(m) == {m[d + 1] : d \in Dest(m)} \ Dest(m)
Image(f, t, g, m, del) ==
    [s \in Slots |->
        IF s \in Moved(m) /\ g[s] # NoFile THEN g[s]
        ELSE IF s \in Left(m) THEN NoFile
        ELSE IF f[s] # NoFile \/ s \in del THEN f[s]
        ELSE t[s]]

Deleting == IF pc = "delete" THEN {entries[at].slot} ELSE {}
Found == Image(file, temp, stage, marker, Deleting)

\* The newest version of each list in an image.
VersionsOf(f) ==
    LET all == {f[s] : s \in Slots}
    IN  [l \in Lists |-> Max({None} \cup {c.version : c \in {d \in all : d.list = l}})]

Unique(f) == \A r, s \in Slots : r # s /\ f[r].list = f[s].list => f[r] = NoFile

-----------------------------------------------------------------------------
(* The inductive invariant.                                                *)

EntryType == [slot : Slots, content : Contents, dirty : BOOLEAN]

DirectoryTyped ==
    /\ file \in Directory /\ temp \in Directory /\ stage \in Directory
    /\ marker \in Seq(Slots) /\ Len(marker) <= MaxLists
    /\ IsInjective(marker)

MemoryTyped ==
    /\ entries \in Seq(EntryType) /\ Len(entries) <= MaxLists
    /\ pc \in {"down", "recover", "scan", "idle", "delete", "save", "rename",
               "stage", "flushed"}
    /\ caller \in {"load", "timer", "force", "compact"}
    /\ at \in 1 .. MaxLists + 1
    /\ saved \in [Lists -> Versions \cup {None}] /\ gone \subseteq Lists

\* The lists are in memory from the end of Load to the end of the program.
Up == pc \notin {"down", "scan"} /\ ~(pc = "recover" /\ caller = "load")

\* Since no recovery is refused, a marker in place is being worked off.
Control ==
    /\ marker # NoMarker => pc \in {"down", "recover"}
    /\ marker # NoMarker /\ Up => caller = "compact"
    /\ caller \in {"timer", "force"} => pc \in {"recover", "save", "rename"}
    /\ caller = "compact" => pc \in {"recover", "stage"}
    /\ pc \in {"save", "rename"} => caller \in {"timer", "force"}
    /\ pc = "stage" => caller = "compact"
    /\ ~Up => entries = <<>>

\* Each list in memory has an identity and a slot of its own.
Distinct(es) ==
    \A i, j \in DOMAIN es :
        i # j => /\ es[i].slot # es[j].slot
                 /\ es[i].content.list # es[j].content.list

\* What a restart would find is an older or equal version of what is in memory,
\* and an equal one of a list that is not dirty.
Covers(es, f) ==
    \A s \in Slots : f[s] # NoFile =>
        \E i \in DOMAIN es :
            /\ es[i].slot = s
            /\ es[i].content.list = f[s].list
            /\ es[i].content.version >= f[s].version
Clean(es, f, del) ==
    \A i \in DOMAIN es :
        es[i].dirty \/ es[i].slot \in del \/ f[es[i].slot] = es[i].content
Alive(es, g) == \A i \in DOMAIN es : es[i].content.list \notin g

Memory ==
    /\ Distinct(entries)
    /\ Up => Covers(entries, Found) /\ Clean(entries, Found, Deleting)
    /\ Alive(entries, gone)

\* While the lists are in memory a .tmp without its file is one being renamed,
\* deleted, or left to be cleaned by the compaction.
Orphans ==
    Up => \A s \in Slots :
        file[s] = NoFile /\ temp[s] # NoFile =>
            \/ s \in Left(marker)
            \/ pc \in {"rename", "delete"} /\ s = entries[at].slot

\* Between the two file operations of a save, and of a deletion.
Halfway ==
    /\ pc = "rename" =>
           /\ at \in DOMAIN entries /\ entries[at].dirty
           /\ temp[entries[at].slot] = entries[at].content
    /\ pc = "delete" => at \in DOMAIN entries /\ file[entries[at].slot] = NoFile

\* A flush starts with the first list.
\* A forced flush that has not failed leaves no dirty list behind it; a compaction
\* starts from clean lists, and is over when each has the slot of its place.
Progress ==
    /\ pc \notin {"save", "rename", "stage", "delete"} => at = 1
    /\ pc \in {"save", "rename"} /\ caller = "force" /\ ~failed =>
           \A i \in DOMAIN entries : i < at => ~entries[i].dirty
    /\ pc = "stage" =>
           \A i \in DOMAIN entries :
               /\ ~entries[i].dirty
               /\ i < at /\ entries[i].slot # i - 1 => stage[i - 1] = entries[i].content
    /\ pc = "flushed" \/ (pc = "recover" /\ caller = "compact") =>
           \A i \in DOMAIN entries : ~entries[i].dirty /\ entries[i].slot = i - 1

\* A published compaction has a file for each of its destinations.
Finishable ==
    \A d \in Dest(marker) :
        file[d] # NoFile \/ (d \in Moved(marker) /\ stage[d] # NoFile)

\* The promises: no list in two slots, no deleted list in any, and the saved
\* version of a list in one of them, not only in a .tmp whose rename may fail.
Kept ==
    /\ Unique(Found)
    /\ \A s \in Slots : Found[s].list \notin gone
    /\ \A l \in Lists : saved[l] # None =>
           \E s \in Slots :
               /\ Found[s].list = l /\ Found[s].version >= saved[l]
               /\ pc = "rename" /\ s = entries[at].slot => file[s] # NoFile

Typed == DirectoryTyped /\ MemoryTyped

Inductive ==
    /\ Typed
    /\ Control
    /\ Memory
    /\ Orphans
    /\ Halfway
    /\ Progress
    /\ Finishable
    /\ Kept

-----------------------------------------------------------------------------
(* Least elements.                                                         *)

\* A non-empty set of naturals has a least element.
LEMMA MinYields ==
    ASSUME NEW T, T \subseteq Nat, T # {}
    PROVE  Min(T) \in T /\ \A k \in T : Min(T) <= k
<1>1. PICK m \in T : \A y \in T : ~(<<y, m>> \in OpToRel(<, Nat))
  <2>1. IsWellFoundedOn(OpToRel(<, Nat), Nat)
    BY NatLessThanWellFounded
  <2> QED BY <2>1, WFMin, Zenon
<1>2. \A y \in T : ~(y < m)
  BY <1>1 DEF OpToRel
<1>3. \A y \in T : m <= y
  BY <1>2
<1> QED BY <1>3 DEF Min

\* The two sets Max is taken of.
LEMMA MaxYields ==
    ASSUME NEW v \in Int, v >= None
    PROVE  Max({None}) = None /\ Max({None, v}) = v /\ Max({v}) = v
<1>1. Max({None}) = None
  BY DEF Max, None
<1>2. Max({v}) = v
  BY DEF Max
<1>3. Max({None, v}) = v
  <2>1. \A x \in {None, v} : (\A y \in {None, v} : x >= y) <=> x = v
    BY DEF None
  <2> QED BY <2>1 DEF Max
<1> QED BY <1>1, <1>2, <1>3

-----------------------------------------------------------------------------
(* Lists of entries.                                                       *)

LEMMA RemoveAtYields ==
    ASSUME NEW S, NEW s \in Seq(S), NEW i \in DOMAIN s, NEW r, r = RemoveAt(s, i)
    PROVE  /\ r \in Seq(S) /\ Len(r) = Len(s) - 1
           /\ \A k \in 1 .. Len(r) : r[k] = IF k < i THEN s[k] ELSE s[k + 1]
<1>1. i \in 1 .. Len(s) /\ Len(s) \in Nat
  OBVIOUS
<1> DEFINE a == SubSeq(s, 1, i - 1)
           b == SubSeq(s, i + 1, Len(s))
<1>2. a \in Seq(S) /\ Len(a) = i - 1 /\ \A k \in 1 .. i - 1 : a[k] = s[k]
  BY <1>1
<1>3. b \in Seq(S) /\ Len(b) = Len(s) - i /\ \A k \in 1 .. Len(s) - i : b[k] = s[k + i]
  BY <1>1
<1>4. r = a \o b
  BY DEF RemoveAt
<1> HIDE DEF a, b
<1>5. r \in Seq(S) /\ Len(r) = Len(s) - 1
  BY <1>1, <1>2, <1>3, <1>4
<1>6. ASSUME NEW k \in 1 .. Len(s) - 1 PROVE r[k] = IF k < i THEN s[k] ELSE s[k + 1]
  <2>1. r[k] = IF k <= i - 1 THEN a[k] ELSE b[k - (i - 1)]
    BY <1>1, <1>2, <1>3, <1>4, SMTT(30)
  <2>2. CASE k < i
    BY <1>1, <1>2, <2>1, <2>2
  <2>3. CASE k >= i
    <3>1. k - (i - 1) \in 1 .. Len(s) - i /\ k - (i - 1) + i = k + 1
      BY <1>1, <2>3
    <3>2. b[k - (i - 1)] = s[k + 1]
      BY <1>3, <3>1
    <3> QED BY <1>1, <2>1, <2>3, <3>2
  <2> QED BY <1>1, <2>2, <2>3
<1> QED BY <1>5, <1>6

LEMMA AppendYields ==
    ASSUME NEW S, NEW s \in Seq(S), NEW e \in S, NEW r, r = s \o <<e>>
    PROVE  /\ r \in Seq(S) /\ Len(r) = Len(s) + 1
           /\ \A k \in 1 .. Len(r) : r[k] = IF k <= Len(s) THEN s[k] ELSE e
<1>1. Len(s) \in Nat
  OBVIOUS
<1>2. r \in Seq(S) /\ Len(r) = Len(s) + 1
  OBVIOUS
<1>3. ASSUME NEW k \in 1 .. Len(s) + 1 PROVE r[k] = IF k <= Len(s) THEN s[k] ELSE e
  <2>1. r[k] = IF k <= Len(s) THEN s[k] ELSE <<e>>[k - Len(s)]
    BY <1>1
  <2>2. k <= Len(s) \/ k - Len(s) = 1
    BY <1>1
  <2> QED BY <2>1, <2>2
<1> QED BY <1>2, <1>3

LEMMA InsertAtYields ==
    ASSUME NEW S, NEW s \in Seq(S), NEW i \in 1 .. Len(s) + 1, NEW e \in S,
           NEW r, r = InsertAt(s, i, e)
    PROVE  /\ r \in Seq(S) /\ Len(r) = Len(s) + 1
           /\ \A k \in 1 .. Len(r) :
                  r[k] = IF k < i THEN s[k] ELSE IF k = i THEN e ELSE s[k - 1]
<1>1. Len(s) \in Nat
  OBVIOUS
<1> DEFINE a == SubSeq(s, 1, i - 1)
           b == SubSeq(s, i, Len(s))
<1>2. a \in Seq(S) /\ Len(a) = i - 1 /\ \A k \in 1 .. i - 1 : a[k] = s[k]
  BY <1>1
<1>3. /\ b \in Seq(S) /\ Len(b) = Len(s) - i + 1
      /\ \A k \in 1 .. Len(s) - i + 1 : b[k] = s[k + (i - 1)]
  BY <1>1
<1>4. r = (a \o <<e>>) \o b
  BY DEF InsertAt
<1> HIDE DEF a, b
<1>5. PICK c : c = a \o <<e>>
  OBVIOUS
<1>6. /\ c \in Seq(S) /\ Len(c) = i
      /\ \A k \in 1 .. i : c[k] = IF k < i THEN s[k] ELSE e
  <2>1. /\ c \in Seq(S) /\ Len(c) = Len(a) + 1
        /\ \A k \in 1 .. Len(c) : c[k] = IF k <= Len(a) THEN a[k] ELSE e
    BY <1>2, <1>5, AppendYields
  <2>2. \A k \in 1 .. i : k <= Len(a) <=> k < i
    BY <1>1, <1>2
  <2> QED BY <1>1, <1>2, <2>1, <2>2
<1>9. r = c \o b
  BY <1>4, <1>5
<1>10. r \in Seq(S) /\ Len(r) = Len(s) + 1
  <2>1. b \in Seq(S) /\ c \in Seq(S)
    BY <1>3, <1>6
  <2>2. c \o b \in Seq(S)
    BY <2>1
  <2>3. Len(c \o b) = Len(c) + Len(b)
    BY <2>1
  <2> QED BY <1>1, <1>3, <1>6, <1>9, <2>2, <2>3
<1>7. ASSUME NEW k \in 1 .. Len(s) + 1
      PROVE  r[k] = IF k < i THEN s[k] ELSE IF k = i THEN e ELSE s[k - 1]
  <2>1. r[k] = IF k <= i THEN c[k] ELSE b[k - i]
    BY <1>1, <1>3, <1>6, <1>9, SMTT(30)
  <2>2. CASE k <= i
    BY <1>1, <1>6, <2>1, <2>2
  <2>3. CASE k > i
    <3>1. k - i \in 1 .. Len(s) - i + 1 /\ k - i + (i - 1) = k - 1
      BY <1>1, <2>3
    <3>2. b[k - i] = s[k - 1]
      BY <1>3, <3>1
    <3> QED BY <1>1, <2>1, <2>3, <3>2
  <2> QED BY <1>1, <2>2, <2>3
<1> QED BY <1>7, <1>10

\* Removing an entry keeps the others, each once.
LEMMA RemovedEntries ==
    ASSUME NEW es \in Seq(EntryType), Distinct(es), NEW i \in DOMAIN es,
           NEW r, r = RemoveAt(es, i)
    PROVE  /\ r \in Seq(EntryType) /\ Len(r) = Len(es) - 1 /\ Distinct(r)
           /\ \A k \in DOMAIN r : \E p \in DOMAIN es : p # i /\ r[k] = es[p]
           /\ \A p \in DOMAIN es : p # i => \E k \in DOMAIN r : r[k] = es[p]
<1>1. /\ r \in Seq(EntryType) /\ Len(r) = Len(es) - 1
      /\ \A k \in 1 .. Len(r) : r[k] = IF k < i THEN es[k] ELSE es[k + 1]
  BY RemoveAtYields, SMTT(30)
<1>2. /\ Len(es) \in Nat /\ DOMAIN es = 1 .. Len(es) /\ i \in 1 .. Len(es)
      /\ Len(r) \in Nat /\ DOMAIN r = 1 .. Len(r)
  BY <1>1
<1> DEFINE m(k) == IF k < i THEN k ELSE k + 1
<1>3. \A k \in DOMAIN r : m(k) \in DOMAIN es /\ m(k) # i /\ r[k] = es[m(k)]
  BY <1>1, <1>2
<1>4. \A k, q \in DOMAIN r : k # q => m(k) # m(q)
  BY <1>2
<1>5. Distinct(r)
  <2> SUFFICES ASSUME NEW k \in DOMAIN r, NEW q \in DOMAIN r, k # q
               PROVE  r[k].slot # r[q].slot /\ r[k].content.list # r[q].content.list
    BY DEF Distinct
  <2>1. m(k) \in DOMAIN es /\ m(q) \in DOMAIN es /\ m(k) # m(q)
        /\ r[k] = es[m(k)] /\ r[q] = es[m(q)]
    BY <1>3, <1>4
  <2> HIDE DEF m
  <2> QED BY <2>1 DEF Distinct
<1>6. \A k \in DOMAIN r : \E p \in DOMAIN es : p # i /\ r[k] = es[p]
  BY <1>3
<1>7. ASSUME NEW p \in DOMAIN es, p # i PROVE \E k \in DOMAIN r : r[k] = es[p]
  <2>1. CASE p < i
    <3>1. p \in DOMAIN r
      BY <1>1, <1>2, <2>1
    <3> QED BY <1>1, <1>2, <2>1, <3>1
  <2>2. CASE p > i
    <3>1. p - 1 \in DOMAIN r /\ ~(p - 1 < i) /\ p - 1 + 1 = p
      BY <1>1, <1>2, <2>2
    <3>2. r[p - 1] = es[p]
      BY <1>1, <1>2, <3>1
    <3> QED BY <3>1, <3>2
  <2> QED BY <1>2, <1>7, <2>1, <2>2
<1> QED BY <1>1, <1>5, <1>6, <1>7

\* Inserting an entry of another list and slot keeps the others.
LEMMA InsertedEntries ==
    ASSUME NEW es \in Seq(EntryType), Distinct(es), NEW i \in 1 .. Len(es) + 1,
           NEW e \in EntryType, NEW r, r = InsertAt(es, i, e),
           \A p \in DOMAIN es : /\ es[p].slot # e.slot
                                /\ es[p].content.list # e.content.list
    PROVE  /\ r \in Seq(EntryType) /\ Len(r) = Len(es) + 1 /\ Distinct(r)
           /\ \A k \in DOMAIN r : r[k] = e \/ \E p \in DOMAIN es : r[k] = es[p]
           /\ \E k \in DOMAIN r : r[k] = e
           /\ \A p \in DOMAIN es : \E k \in DOMAIN r : r[k] = es[p]
<1>1. /\ r \in Seq(EntryType) /\ Len(r) = Len(es) + 1
      /\ \A k \in 1 .. Len(r) :
             r[k] = IF k < i THEN es[k] ELSE IF k = i THEN e ELSE es[k - 1]
  BY InsertAtYields, SMTT(30)
<1>2. /\ Len(es) \in Nat /\ DOMAIN es = 1 .. Len(es)
      /\ Len(r) \in Nat /\ DOMAIN r = 1 .. Len(r)
  BY <1>1
<1> DEFINE m(k) == IF k < i THEN k ELSE k - 1
<1>3. \A k \in DOMAIN r : k # i => m(k) \in DOMAIN es /\ r[k] = es[m(k)]
  BY <1>1, <1>2
<1>4. \A k, q \in DOMAIN r : k # q /\ k # i /\ q # i => m(k) # m(q)
  BY <1>2
<1>5. i \in DOMAIN r /\ r[i] = e
  BY <1>1, <1>2
<1>6. Distinct(r)
  <2> SUFFICES ASSUME NEW k \in DOMAIN r, NEW q \in DOMAIN r, k # q
               PROVE  r[k].slot # r[q].slot /\ r[k].content.list # r[q].content.list
    BY DEF Distinct
  <2> HIDE DEF m
  <2>1. CASE k # i /\ q # i
    <3>1. /\ m(k) \in DOMAIN es /\ m(q) \in DOMAIN es /\ m(k) # m(q)
          /\ r[k] = es[m(k)] /\ r[q] = es[m(q)]
      BY <1>3, <1>4, <2>1
    <3> QED BY <3>1 DEF Distinct
  <2>2. CASE k = i
    BY <1>3, <1>5, <2>2
  <2>3. CASE q = i
    BY <1>3, <1>5, <2>3
  <2> QED BY <2>1, <2>2, <2>3
<1>7. \A k \in DOMAIN r : r[k] = e \/ \E p \in DOMAIN es : r[k] = es[p]
  BY <1>3, <1>5
<1>8. ASSUME NEW p \in DOMAIN es PROVE \E k \in DOMAIN r : r[k] = es[p]
  <2>1. CASE p < i
    BY <1>1, <1>2, <2>1
  <2>2. CASE p >= i
    <3>1. p + 1 \in DOMAIN r /\ ~(p + 1 < i) /\ p + 1 # i /\ p + 1 - 1 = p
      BY <1>1, <1>2, <2>2
    <3>2. r[p + 1] = es[p]
      BY <1>1, <1>2, <3>1
    <3> QED BY <3>1, <3>2
  <2> QED BY <1>2, <2>1, <2>2
<1> QED BY <1>1, <1>5, <1>6, <1>7, <1>8

-----------------------------------------------------------------------------
(* Images of the directory.                                                *)

LEMMA ContentFields ==
    /\ NoFile \notin Contents /\ NoFile.list \notin Lists /\ NoFile.list = 0
    /\ \A c \in Files : c.list \in Int /\ c.version \in Int /\ c.version >= None
    /\ \A c \in Contents : /\ c.list \in Lists /\ c.version \in Versions
                           /\ c.version >= 0 /\ c.list # 0
    /\ \A c \in Files : c # NoFile => c \in Contents
<1> USE MaxListsAssumption, MaxVersionAssumption
    DEF Files, Contents, NoFile, Lists, Versions, None
<1>1. NoFile \notin Contents /\ NoFile.list \notin Lists /\ NoFile.list = 0
  OBVIOUS
<1>2. \A c \in Contents : /\ c.list \in Lists /\ c.version \in Versions
                           /\ c.version >= 0 /\ c.list # 0
  OBVIOUS
<1>3. \A c \in Files : c.list \in Int /\ c.version \in Int /\ c.version >= None
  OBVIOUS
<1> QED BY <1>1, <1>2, <1>3

LEMMA ImageTyped ==
    ASSUME NEW f \in Directory, NEW t \in Directory, NEW g \in Directory,
           NEW m, NEW del
    PROVE  Image(f, t, g, m, del) \in Directory
BY DEF Image, Directory, Files

\* Without a marker a slot has its file or an orphan .tmp.
LEMMA ImagePlain ==
    ASSUME NEW f \in Directory, NEW t \in Directory, NEW g \in Directory, NEW del
    PROVE  /\ Moved(NoMarker) = {} /\ Left(NoMarker) = {} /\ Dest(NoMarker) = {}
           /\ \A s \in Slots : Image(f, t, g, NoMarker, del)[s] =
                  IF f[s] # NoFile \/ s \in del THEN f[s] ELSE t[s]
<1>1. Len(NoMarker) = 0
  BY DEF NoMarker
<1>2. Dest(NoMarker) = {}
  BY <1>1 DEF Dest
<1>3. Moved(NoMarker) = {} /\ Left(NoMarker) = {}
  BY <1>2 DEF Moved, Left
<1> QED BY <1>2, <1>3 DEF Image

LEMMA VersionFound ==
    ASSUME NEW f \in Directory, Unique(f), NEW s \in Slots, f[s] # NoFile
    PROVE  VersionsOf(f)[f[s].list] = f[s].version
<1> DEFINE all == {f[r] : r \in Slots}
           l == f[s].list
           vs == {c.version : c \in {d \in all : d.list = l}}
<1>1. f[s] \in Contents /\ l \in Lists /\ f[s].version \in Int /\ f[s].version >= None
  BY ContentFields DEF Directory
<1>2. \A r \in Slots : f[r].list = l => f[r] = f[s]
  BY ContentFields, <1>1 DEF Unique
<1>3. vs = {f[s].version}
  BY <1>2
<1>4. VersionsOf(f)[l] = Max({None} \cup vs)
  BY <1>1 DEF VersionsOf
<1>5. {None} \cup vs = {None, f[s].version}
  BY <1>3
<1> QED BY <1>1, <1>4, <1>5, MaxYields

LEMMA VersionAbsent ==
    ASSUME NEW f \in Directory, NEW l \in Lists, \A s \in Slots : f[s].list # l
    PROVE  VersionsOf(f)[l] = None
<1> DEFINE all == {f[r] : r \in Slots}
           vs == {c.version : c \in {d \in all : d.list = l}}
<1>1. {None} \cup vs = {None}
  OBVIOUS
<1>2. VersionsOf(f)[l] = Max({None} \cup vs)
  BY DEF VersionsOf
<1> QED BY <1>1, <1>2, MaxYields DEF None

\* Two images with the same versions of the same lists.
LEMMA VersionsSame ==
    ASSUME NEW f \in Directory, NEW g \in Directory, Unique(f), Unique(g),
           \A s \in Slots : f[s] # NoFile => \E r \in Slots : g[r] = f[s],
           \A s \in Slots : g[s] # NoFile => \E r \in Slots : f[r] = g[s]
    PROVE  VersionsOf(f) = VersionsOf(g)
<1>1. ASSUME NEW l \in Lists PROVE VersionsOf(f)[l] = VersionsOf(g)[l]
  <2>1. CASE \E s \in Slots : f[s].list = l
    <3>1. PICK s \in Slots : f[s].list = l
      BY <2>1
    <3>2. f[s] # NoFile
      BY <3>1, ContentFields
    <3>3. PICK r \in Slots : g[r] = f[s]
      BY <3>2
    <3> QED BY <3>1, <3>2, <3>3, VersionFound
  <2>2. CASE \A s \in Slots : f[s].list # l
    <3>1. \A s \in Slots : g[s].list # l
      BY <2>2, ContentFields
    <3> QED BY <2>2, <3>1, VersionAbsent
  <2> QED BY <2>1, <2>2
<1> QED BY <1>1 DEF VersionsOf

\* One slot changes, of a list that is in no other.
LEMMA VersionsUpdate ==
    ASSUME NEW f \in Directory, NEW g \in Directory, Unique(f), Unique(g),
           NEW s \in Slots, NEW l \in Lists,
           \A r \in Slots : r # s => g[r] = f[r] /\ f[r].list # l,
           f[s] = NoFile \/ f[s].list = l,
           g[s] = NoFile \/ g[s].list = l
    PROVE  VersionsOf(g) = [VersionsOf(f) EXCEPT ![l] = g[s].version]
<1>1. ASSUME NEW k \in Lists, k # l PROVE VersionsOf(g)[k] = VersionsOf(f)[k]
  <2>1. f[s].list # k /\ g[s].list # k
    BY <1>1, ContentFields
  <2>2. CASE \E r \in Slots : f[r].list = k
    <3>1. PICK r \in Slots : f[r].list = k
      BY <2>2
    <3>2. f[r] # NoFile /\ g[r] = f[r]
      BY <2>1, <3>1, ContentFields
    <3> QED BY <3>1, <3>2, VersionFound
  <2>3. CASE \A r \in Slots : f[r].list # k
    <3>1. \A r \in Slots : g[r].list # k
      BY <2>1, <2>3
    <3> QED BY <2>3, <3>1, VersionAbsent
  <2> QED BY <2>2, <2>3
<1>2. VersionsOf(g)[l] = g[s].version
  <2>1. CASE g[s] = NoFile
    <3>1. \A r \in Slots : g[r].list # l
      BY <2>1, ContentFields
    <3>2. NoFile.version = None
      BY DEF NoFile
    <3> QED BY <2>1, <3>1, <3>2, VersionAbsent
  <2>2. CASE g[s] # NoFile
    BY <2>2, VersionFound
  <2> QED BY <2>1, <2>2
<1> QED BY <1>1, <1>2 DEF VersionsOf

\* The model's words for the same sets.
LEMMA MarkerSets ==
    /\ Destinations = Dest(marker) /\ Displaced = Moved(marker)
    /\ OldSlots = Left(marker)
BY DEF Destinations, Dest, Displaced, Source, Moved, OldSlots, Left

\* A recovery that can finish stops at no destination.
LEMMA FoundIsRestored ==
    ASSUME Finishable PROVE \A s \in Slots : Found[s] = Restored(s)
<1>1. \A s : s \in Deleting <=> pc = "delete" /\ entries[at].slot = s
  BY DEF Deleting
<1>2. RecoveryCanFinish
  BY MarkerSets DEF Finishable, RecoveryCanFinish
<1>3. {d \in Displaced : stage[d] = NoFile /\ file[d] = NoFile} = {}
  BY MarkerSets DEF Finishable, Moved
<1>4. \A s : s \in Recovered <=> s \in Displaced /\ stage[s] # NoFile
  BY <1>3 DEF Recovered
<1> QED BY <1>1, <1>2, <1>4, MarkerSets DEF Found, Image, Restored

LEMMA RestoredIsFound ==
    ASSUME Finishable PROVE RestoredVersions = VersionsOf(Found)
BY FoundIsRestored DEF RestoredVersions, VersionsOf

\* Destinations and sources are slots.
LEMMA MarkerSlots ==
    ASSUME DirectoryTyped
    PROVE  /\ Dest(marker) \subseteq Slots /\ Left(marker) \subseteq Slots
           /\ Moved(marker) \subseteq Dest(marker) /\ Dest(marker) \subseteq Nat
<1>1. Len(marker) \in Nat /\ DOMAIN marker = 1 .. Len(marker)
  BY DEF DirectoryTyped
<1>2. Dest(marker) \subseteq Slots /\ Dest(marker) \subseteq Nat
  BY <1>1, MaxListsAssumption DEF DirectoryTyped, Dest, Slots
<1>3. \A d \in Dest(marker) : marker[d + 1] \in Slots
  BY <1>1 DEF DirectoryTyped, Dest
<1> QED BY <1>2, <1>3 DEF Left, Moved

\* The promises hold of the same image again.
LEMMA SamePromises ==
    ASSUME Kept, Found' = Found, saved' = saved, gone' \subseteq gone, pc' # "rename"
    PROVE  Kept'
BY DEF Kept, Unique

-----------------------------------------------------------------------------
(* Recovery.                                                               *)

\* A step of the recovery changes the directory and nothing else; what remains to
\* be shown of it is that a restart would find the same.
LEMMA RecoverInductive ==
    ASSUME Inductive, pc = "recover",
           UNCHANGED <<marker, entries, pc, flushVars, ghostVars>>,
           file' \in Directory, temp' \in Directory, stage' \in Directory,
           Found' = Found, Orphans', Finishable'
    PROVE  Inductive'
<1> USE DEF Inductive, flushVars, ghostVars
<1>1. Typed'
  BY DEF Typed, DirectoryTyped, MemoryTyped
<1>2. Up' = Up /\ Control'
  BY DEF Up, Control
<1>3. Deleting' = {} /\ Deleting = {}
  BY DEF Deleting
<1>4. Memory'
  BY <1>2, <1>3 DEF Memory
<1>5. Halfway' /\ Progress'
  BY DEF Halfway, Progress
<1>6. Kept'
  BY SamePromises
<1> QED BY <1>1, <1>2, <1>4, <1>5, <1>6

LEMMA RecoverMoveKeeps ==
    ASSUME Inductive, RecoverMove
    PROVE  Inductive' /\ Found' = Found /\ saved' = saved
<1>1. PICK d : /\ d = Min(Unfinished) /\ pc = "recover" /\ Unfinished # {}
               /\ stage[d] # NoFile
               /\ file' = [file EXCEPT ![d] = stage[d]]
               /\ stage' = [stage EXCEPT ![d] = NoFile]
               /\ UNCHANGED <<temp, marker, entries, pc, flushVars, ghostVars>>
  BY DEF RecoverMove
<1>2. DirectoryTyped
  BY DEF Inductive, Typed
<1>3. d \in Moved(marker) /\ d \in Dest(marker) /\ d \in Slots
  <2>1. Unfinished \subseteq Moved(marker)
    BY MarkerSets DEF Unfinished
  <2>2. d \in Unfinished
    BY <1>1, <1>2, <2>1, MarkerSlots, MinYields
  <2> QED BY <1>2, <2>1, <2>2, MarkerSlots
<1>4. file' \in Directory /\ temp' \in Directory /\ stage' \in Directory
  BY <1>1, <1>2, <1>3, ContentFields DEF DirectoryTyped, Directory, Files
<1>5. Found' = Found
  <2>1. Deleting' = {} /\ Deleting = {}
    BY <1>1 DEF Deleting
  <2>2. ASSUME NEW s \in Slots PROVE Found'[s] = Found[s]
    <3>1. CASE s = d
      <4>1. s \notin Left(marker)
        BY <1>3, <3>1 DEF Left
      <4> QED BY <1>1, <1>2, <1>3, <2>1, <3>1, <4>1
              DEF Found, Image, DirectoryTyped, Directory
    <3>2. CASE s # d
      <4>1. file'[s] = file[s] /\ stage'[s] = stage[s] /\ temp'[s] = temp[s]
        BY <1>1, <1>2, <3>2 DEF DirectoryTyped, Directory
      <4> QED BY <1>1, <2>1, <4>1 DEF Found, Image
    <3> QED BY <3>1, <3>2
  <2> QED BY <2>2 DEF Found, Image
<1>6. Orphans'
  BY <1>1, <1>2, <1>3 DEF Inductive, Orphans, Up, flushVars, DirectoryTyped, Directory
<1>7. Finishable'
  BY <1>1, <1>2, <1>3 DEF Inductive, Finishable, DirectoryTyped, Directory
<1> QED BY <1>1, <1>4, <1>5, <1>6, <1>7, RecoverInductive DEF ghostVars

\* No file of a destination is missing: the recovery never gives up.
LEMMA RecoverMissingNever ==
    ASSUME Inductive
    PROVE  ~RecoverMissing
<1> SUFFICES ASSUME RecoverMissing PROVE FALSE
  OBVIOUS
<1>1. DirectoryTyped /\ Finishable
  BY DEF Inductive, Typed
<1>2. CASE Unfinished # {}
  <2>1. Unfinished \subseteq Moved(marker)
    BY MarkerSets DEF Unfinished
  <2>2. Min(Unfinished) \in Unfinished
    BY <1>1, <1>2, <2>1, MarkerSlots, MinYields
  <2>3. stage[Min(Unfinished)] = NoFile
    BY <1>2 DEF RecoverMissing
  <2>4. file[Min(Unfinished)] = NoFile
    BY <2>2, <2>3 DEF Unfinished
  <2>5. Min(Unfinished) \in Dest(marker)
    BY <1>1, <2>1, <2>2, MarkerSlots
  <2> QED BY <1>1, <2>3, <2>4, <2>5 DEF Finishable
<1>3. CASE Unfinished = {}
  <2>1. PICK d \in Dest(marker) : file[d] = NoFile
    BY <1>3, MarkerSets DEF RecoverMissing, AllPresent
  <2>2. d \in Moved(marker)
    BY <1>1, <2>1 DEF Finishable
  <2>3. d \in Unfinished
    BY <2>1, <2>2, MarkerSets DEF Unfinished
  <2> QED BY <1>3, <2>3
<1> QED BY <1>2, <1>3

\* Nothing is unfinished: the destinations have their files, and no displaced one
\* a staged file.
LEMMA Settled ==
    ASSUME Unfinished = {}, AllPresent
    PROVE  /\ \A d \in Dest(marker) : file[d] # NoFile
           /\ \A d \in Moved(marker) : stage[d] = NoFile
BY MarkerSets DEF Unfinished, AllPresent

LEMMA RecoverDeleteOldKeeps ==
    ASSUME Inductive, RecoverDeleteOld
    PROVE  Inductive' /\ Found' = Found /\ saved' = saved
<1>1. PICK s \in Uncleaned :
          IF file[s] # NoFile
          THEN file' = [file EXCEPT ![s] = NoFile] /\ UNCHANGED temp
          ELSE temp' = [temp EXCEPT ![s] = NoFile] /\ UNCHANGED file
  BY DEF RecoverDeleteOld
<1>2. /\ pc = "recover" /\ Unfinished = {} /\ AllPresent
      /\ UNCHANGED <<stage, marker, entries, pc, flushVars, ghostVars>>
  BY DEF RecoverDeleteOld
<1>3. DirectoryTyped
  BY DEF Inductive, Typed
<1>4. s \in Left(marker) /\ s \in Slots /\ s \notin Dest(marker)
  <2>1. s \in Left(marker)
    BY MarkerSets DEF Uncleaned
  <2> QED BY <1>3, <2>1, MarkerSlots DEF Left
<1>5. file' \in Directory /\ temp' \in Directory /\ stage' \in Directory
  BY <1>1, <1>2, <1>3, <1>4 DEF DirectoryTyped, Directory, Files
<1>6. \A r \in Slots : r # s => file'[r] = file[r] /\ temp'[r] = temp[r]
  BY <1>1, <1>3, <1>4 DEF DirectoryTyped, Directory
<1>7. Found' = Found
  <2>1. Deleting' = {} /\ Deleting = {}
    BY <1>2 DEF Deleting
  <2>2. ASSUME NEW r \in Slots PROVE Found'[r] = Found[r]
    <3>1. CASE r = s
      <4>1. s \notin Moved(marker)
        BY <1>4 DEF Moved
      <4> QED BY <1>2, <1>4, <3>1, <4>1 DEF Found, Image
    <3>2. CASE r # s
      BY <1>2, <1>6, <2>1, <3>2 DEF Found, Image
    <3> QED BY <3>1, <3>2
  <2> QED BY <2>2 DEF Found, Image
<1>8. Orphans'
  BY <1>2, <1>4, <1>6 DEF Inductive, Orphans, Up, flushVars
<1>9. Finishable'
  <2>1. \A d \in Dest(marker) : d \in Slots /\ d # s
    BY <1>3, <1>4, MarkerSlots
  <2> QED BY <1>2, <1>6, <2>1 DEF Inductive, Finishable
<1> QED BY <1>2, <1>5, <1>7, <1>8, <1>9, RecoverInductive DEF ghostVars

LEMMA RecoverDeleteStageKeeps ==
    ASSUME Inductive, RecoverDeleteStage
    PROVE  Inductive' /\ Found' = Found /\ saved' = saved
<1>1. PICK d \in Unstaged : stage' = [stage EXCEPT ![d] = NoFile]
  BY DEF RecoverDeleteStage
<1>2. /\ pc = "recover" /\ Unfinished = {} /\ AllPresent
      /\ UNCHANGED <<file, temp, marker, entries, pc, flushVars, ghostVars>>
  BY DEF RecoverDeleteStage
<1>3. DirectoryTyped
  BY DEF Inductive, Typed
<1>4. /\ d \in Slots /\ d \notin Moved(marker)
      /\ \A e \in Dest(marker) : file[e] # NoFile
  BY <1>2, <1>3, Settled, MarkerSets, MarkerSlots DEF Unstaged
<1>5. file' \in Directory /\ temp' \in Directory /\ stage' \in Directory
  BY <1>1, <1>2, <1>3, <1>4 DEF DirectoryTyped, Directory, Files
<1>6. \A r \in Slots : r # d => stage'[r] = stage[r]
  BY <1>1, <1>3, <1>4 DEF DirectoryTyped, Directory
<1>7. Found' = Found
  <2>1. Deleting' = {} /\ Deleting = {}
    BY <1>2 DEF Deleting
  <2> QED BY <1>2, <1>4, <1>6, <2>1 DEF Found, Image
<1>8. Orphans'
  BY <1>2 DEF Inductive, Orphans, Up, flushVars
<1>9. Finishable'
  BY <1>2, <1>4 DEF Finishable
<1> QED BY <1>2, <1>5, <1>7, <1>8, <1>9, RecoverInductive DEF ghostVars

LEMMA RecoverDoneKeeps ==
    ASSUME Inductive, RecoverDone
    PROVE  Inductive' /\ Found' = Found /\ saved' = saved
<1>1. /\ pc = "recover" /\ Unfinished = {} /\ AllPresent
      /\ Uncleaned = {} /\ Unstaged = {} /\ marker' = NoMarker
      /\ UNCHANGED <<file, temp, stage, saved, gone, entries>>
  BY DEF RecoverDone, RecoverReturns, ghostVars
<1>2. /\ caller \in {"timer", "force"} =>
             pc' = "save" /\ caller' = caller /\ at' = at /\ failed' = failed
      /\ caller = "load" => pc' = "scan" /\ caller' = "load" /\ at' = 1
      /\ caller = "compact" => pc' = "flushed" /\ caller' = "load" /\ at' = 1
  BY DEF RecoverDone, RecoverReturns, Return, flushVars
<1>3. Typed
  BY DEF Inductive
<1>4. caller \in {"load", "timer", "force", "compact"}
  BY <1>3 DEF Typed, MemoryTyped
<1>5. Typed'
  <2>1. NoMarker \in Seq(Slots) /\ Len(NoMarker) = 0 /\ IsInjective(NoMarker)
    BY DEF NoMarker, IsInjective
  <2>2. DirectoryTyped'
    BY <1>1, <1>3, <2>1, MaxListsAssumption DEF Typed, DirectoryTyped
  <2> QED BY <1>1, <1>2, <1>3, <1>4, <2>2, MaxListsAssumption DEF Typed, MemoryTyped
<1>6. Deleting = {} /\ Deleting' = {}
  BY <1>1, <1>2, <1>4 DEF Deleting
<1>7. \A s \in Left(marker) : file[s] = NoFile /\ temp[s] = NoFile
  BY <1>1, MarkerSets DEF Uncleaned
<1>8. Found' = Found
  <2>1. \A s \in Moved(marker) : stage[s] = NoFile
    BY <1>1, Settled
  <2>2. Moved(marker') = {} /\ Left(marker') = {}
    BY <1>1, <1>3, ImagePlain DEF Typed, DirectoryTyped
  <2> QED BY <1>1, <1>6, <1>7, <2>1, <2>2 DEF Found, Image
<1>9. Control'
  BY <1>1, <1>2, <1>4 DEF Inductive, Control, Up
<1>10. Up' = Up
  BY <1>1, <1>2, <1>4 DEF Up
<1>11. Memory'
  BY <1>1, <1>6, <1>8, <1>10 DEF Inductive, Memory
<1>12. Orphans'
  <2>1. ASSUME NEW s \in Slots, Up, file[s] = NoFile, temp[s] # NoFile
        PROVE  FALSE
    BY <1>1, <1>7, <2>1 DEF Inductive, Orphans
  <2> QED BY <1>1, <1>10, <2>1 DEF Orphans
<1>13. Halfway'
  BY <1>2, <1>4 DEF Halfway
<1>14. Progress'
  <2>1. at = 1
    BY <1>1 DEF Inductive, Progress
  <2>2. \A i \in DOMAIN entries : ~(i < at)
    BY <1>3, <2>1 DEF Typed, MemoryTyped
  <2> QED BY <1>1, <1>2, <1>4, <2>1, <2>2 DEF Inductive, Progress
<1>15. Finishable'
  BY <1>1, <1>3, ImagePlain DEF Finishable, Typed, DirectoryTyped
<1>16. Kept'
  BY <1>1, <1>2, <1>4, <1>8, SamePromises DEF Inductive
<1> QED BY <1>1, <1>5, <1>8, <1>9, <1>11, <1>12, <1>13, <1>14, <1>15, <1>16
        DEF Inductive

-----------------------------------------------------------------------------
(* Start, crash and the end of the program.                                *)

LEMMA StartKeeps ==
    ASSUME Inductive, Start
    PROVE  Inductive' /\ Found' = Found /\ saved' = saved
<1>1. /\ pc = "down" /\ pc' = "recover"
      /\ UNCHANGED <<file, temp, stage, marker, entries, caller, at, saved, gone>>
  BY DEF Start, diskVars, flushVars, ghostVars
<1>2. caller = "load" /\ ~Up /\ ~Up'
  BY <1>1 DEF Inductive, Control, Typed, MemoryTyped, Up
<1>3. Typed'
  BY <1>1 DEF Inductive, Typed, DirectoryTyped, MemoryTyped
<1>4. Found' = Found
  BY <1>1 DEF Found, Deleting
<1>5. Control' /\ Memory' /\ Orphans'
  BY <1>1, <1>2 DEF Inductive, Control, Memory, Orphans
<1>6. Halfway' /\ Progress'
  BY <1>1, <1>2 DEF Inductive, Halfway, Progress
<1>7. Finishable'
  BY <1>1 DEF Inductive, Finishable
<1>8. Kept'
  BY <1>1, <1>4, SamePromises DEF Inductive
<1> QED BY <1>1, <1>3, <1>4, <1>5, <1>6, <1>7, <1>8 DEF Inductive

\* The end of the program, by a crash or after a flush: only the directory is left.
LEMMA DownInductive ==
    ASSUME Inductive, pc # "delete", pc' = "down", entries' = <<>>, caller' = "load",
           at' = 1, UNCHANGED <<diskVars, ghostVars>>
    PROVE  Inductive' /\ Found' = Found /\ saved' = saved
<1> USE DEF diskVars, ghostVars
<1>1. Typed'
  <2>1. <<>> \in Seq(EntryType) /\ Len(<<>>) = 0
    OBVIOUS
  <2> QED BY <2>1, MaxListsAssumption
          DEF Inductive, Typed, DirectoryTyped, MemoryTyped
<1>2. Found' = Found
  BY DEF Found, Deleting
<1>3. Control' /\ Orphans' /\ ~Up'
  BY DEF Inductive, Control, Orphans, Up
<1>4. Memory'
  BY <1>3 DEF Memory, Distinct, Alive
<1>5. Halfway' /\ Progress'
  BY DEF Halfway, Progress
<1>6. Finishable'
  BY DEF Inductive, Finishable
<1>7. Kept'
  BY <1>2, SamePromises DEF Inductive
<1> QED BY <1>1, <1>2, <1>3, <1>4, <1>5, <1>6, <1>7 DEF Inductive

LEMMA CrashKeeps ==
    ASSUME Covered, Inductive, Crash
    PROVE  Inductive' /\ Found' = Found /\ saved' = saved
<1>1. pc # "delete"
  BY DEF Covered, Crash
<1> QED BY <1>1, DownInductive DEF Crash, Return

LEMMA ExitKeeps ==
    ASSUME Inductive, Exit
    PROVE  Inductive' /\ Found' = Found /\ saved' = saved
<1>1. caller = "load" /\ at = 1
  BY DEF Exit, Inductive, Control, Typed, MemoryTyped, Progress
<1> QED BY <1>1, DownInductive DEF Exit, flushVars

\* The lists in memory and the directory stay as they are.
LEMMA IdleInductive ==
    ASSUME Inductive, UNCHANGED <<diskVars, entries, ghostVars>>, Up, Up',
           Control', Halfway', Progress', pc # "delete", pc' # "delete",
           at' \in 1 .. MaxLists + 1, caller' \in {"load", "timer", "force", "compact"},
           pc' \in {"recover", "idle", "save", "stage", "flushed"}, pc # "rename"
    PROVE  Inductive' /\ Found' = Found /\ saved' = saved
<1> USE DEF diskVars, ghostVars
<1>1. Typed'
  BY DEF Inductive, Typed, DirectoryTyped, MemoryTyped
<1>2. Deleting = {} /\ Deleting' = {}
  BY DEF Deleting
<1>3. Found' = Found
  BY <1>2 DEF Found
<1>4. Memory'
  BY <1>2, <1>3 DEF Inductive, Memory
<1>5. Orphans'
  BY DEF Inductive, Orphans
<1>6. Finishable'
  BY DEF Inductive, Finishable
<1>7. Kept'
  BY <1>3, SamePromises DEF Inductive
<1> QED BY <1>1, <1>3, <1>4, <1>5, <1>6, <1>7 DEF Inductive

LEMMA FlushKeeps ==
    ASSUME Inductive, Flush
    PROVE  Inductive' /\ Found' = Found /\ saved' = saved
<1>1. /\ pc = "idle" /\ pc' = "recover" /\ caller' \in {"timer", "force"}
      /\ at' = at /\ UNCHANGED <<diskVars, entries, ghostVars>>
  BY DEF Flush
<1>2. Up /\ Up' /\ marker = NoMarker /\ marker' = NoMarker
  BY <1>1 DEF Inductive, Control, Up, diskVars
<1>3. at = 1 /\ at \in 1 .. MaxLists + 1
  BY <1>1 DEF Inductive, Progress, Typed, MemoryTyped
<1>4. Control' /\ Halfway' /\ Progress'
  BY <1>1, <1>2, <1>3 DEF Control, Halfway, Progress
<1> QED BY <1>1, <1>2, <1>3, <1>4, IdleInductive

LEMMA ContinueKeeps ==
    ASSUME Inductive, Continue
    PROVE  Inductive' /\ Found' = Found /\ saved' = saved
<1>1. /\ pc = "flushed" /\ pc' = "idle" /\ at' = at /\ caller' = caller
      /\ UNCHANGED <<diskVars, entries, ghostVars>>
  BY DEF Continue, flushVars
<1>2. Up /\ Up' /\ marker = NoMarker /\ marker' = NoMarker
  BY <1>1 DEF Inductive, Control, Up, diskVars
<1>3. caller = "load" /\ at = 1 /\ at \in 1 .. MaxLists + 1
  BY <1>1 DEF Inductive, Control, Progress, Typed, MemoryTyped
<1>4. Control' /\ Halfway' /\ Progress'
  BY <1>1, <1>2, <1>3 DEF Control, Halfway, Progress
<1> QED BY <1>1, <1>2, <1>3, <1>4, IdleInductive

LEMMA SaveDoneKeeps ==
    ASSUME Inductive, SaveDone
    PROVE  Inductive' /\ Found' = Found /\ saved' = saved
<1>1. /\ pc = "save" /\ UNCHANGED <<diskVars, entries, ghostVars>>
      /\ caller = "force" => Dirty = {}
  BY DEF SaveDone
<1>2. /\ at' = 1
      /\ \/ pc' = "stage" /\ caller' = "compact" /\ Compacts
         \/ pc' = "flushed" /\ caller' = "load" /\ Compacts /\ ToStage = {}
         \/ pc' = "idle" /\ caller' = "load"
  BY DEF SaveDone, Return
<1>3. Up /\ Up' /\ marker = NoMarker /\ marker' = NoMarker
  BY <1>1, <1>2 DEF Inductive, Control, Up, diskVars
<1>4. entries \in Seq(EntryType) /\ 1 \in 1 .. MaxLists + 1 /\ at \in Nat
  BY MaxListsAssumption DEF Inductive, Typed, MemoryTyped
<1>5. Compacts => \A i \in DOMAIN entries : ~entries[i].dirty
  <2> SUFFICES ASSUME Compacts, NEW i \in DOMAIN entries PROVE ~entries[i].dirty
    OBVIOUS
  <2>1. CASE i < at
    BY <1>1, <2>1 DEF Compacts, Inductive, Progress
  <2>2. CASE i >= at
    BY <1>1, <1>4, <2>2 DEF Compacts, Dirty
  <2> QED BY <1>4, <2>1, <2>2
<1>6. Control' /\ Halfway'
  BY <1>1, <1>2, <1>3 DEF Control, Halfway
<1>7. Progress'
  <2>1. \A i \in DOMAIN entries : ~(i < 1)
    BY <1>4
  <2>2. ToStage = {} => \A i \in DOMAIN entries : entries[i].slot = i - 1
    BY DEF ToStage
  <2> QED BY <1>1, <1>2, <1>5, <2>1, <2>2 DEF Progress
<1> QED BY <1>1, <1>2, <1>3, <1>4, <1>6, <1>7, IdleInductive

-----------------------------------------------------------------------------
(* What the user does with the lists.                                      *)

\* While the lists are in memory and no compaction is published, the image is
\* that of the files, but for an orphan .tmp being renamed.
LEMMA FoundIsFile ==
    ASSUME Inductive, Up, marker = NoMarker
    PROVE  /\ \A s \in Slots :
                  Found[s] = IF file[s] # NoFile \/ s \in Deleting THEN file[s] ELSE temp[s]
           /\ \A s \in Slots :
                  file[s] # NoFile \/ temp[s] = NoFile \/ s \in Deleting
                      \/ (pc = "rename" /\ s = entries[at].slot)
           /\ pc # "rename" => \A s \in Slots : Found[s] = file[s]
<1>1. \A s \in Slots :
          Found[s] = IF file[s] # NoFile \/ s \in Deleting THEN file[s] ELSE temp[s]
  BY ImagePlain DEF Found, Inductive, Typed, DirectoryTyped
<1>2. Left(marker) = {}
  BY ImagePlain DEF Inductive, Typed, DirectoryTyped
<1>3. \A s \in Slots :
          file[s] # NoFile \/ temp[s] = NoFile \/ s \in Deleting
              \/ (pc = "rename" /\ s = entries[at].slot)
  BY <1>2 DEF Inductive, Orphans, Deleting
<1>4. pc # "rename" => \A s \in Slots : Found[s] = file[s]
  BY <1>1, <1>3
<1> QED BY <1>1, <1>3, <1>4

\* A list is found in its own slot, or not at all.
LEMMA OwnSlot ==
    ASSUME Inductive, Up, NEW i \in DOMAIN entries
    PROVE  /\ entries[i].slot \in Slots /\ entries[i].content \in Contents
           /\ \A s \in Slots : Found[s].list = entries[i].content.list =>
                                   s = entries[i].slot
           /\ \/ Found[entries[i].slot] = NoFile
              \/ /\ Found[entries[i].slot].list = entries[i].content.list
                 /\ Found[entries[i].slot].version <= entries[i].content.version
<1>1. entries[i] \in EntryType
  BY DEF Inductive, Typed, MemoryTyped
<1>2. entries[i].slot \in Slots /\ entries[i].content \in Contents
  BY <1>1 DEF EntryType
<1>3. Distinct(entries) /\ Covers(entries, Found)
  BY DEF Inductive, Memory
<1>4. ASSUME NEW s \in Slots, Found[s].list = entries[i].content.list
      PROVE  s = entries[i].slot
  <2>1. Found[s] # NoFile
    BY <1>2, <1>4, ContentFields
  <2>2. PICK j \in DOMAIN entries :
            entries[j].slot = s /\ entries[j].content.list = Found[s].list
    BY <1>3, <2>1 DEF Covers
  <2> QED BY <1>3, <1>4, <2>2 DEF Distinct
<1>5. ASSUME Found[entries[i].slot] # NoFile
      PROVE  /\ Found[entries[i].slot].list = entries[i].content.list
             /\ Found[entries[i].slot].version <= entries[i].content.version
  <2>1. PICK j \in DOMAIN entries :
            /\ entries[j].slot = entries[i].slot
            /\ entries[j].content.list = Found[entries[i].slot].list
            /\ entries[j].content.version >= Found[entries[i].slot].version
    BY <1>2, <1>3, <1>5 DEF Covers
  <2>2. i = j
    BY <1>3, <2>1 DEF Distinct
  <2>3. Found \in Directory
    BY ImageTyped DEF Found, Inductive, Typed, DirectoryTyped
  <2>4. Found[entries[i].slot].version \in Int /\ entries[i].content.version \in Int
    BY <1>2, <2>3, ContentFields DEF Directory, Files
  <2> QED BY <2>1, <2>2, <2>4
<1> QED BY <1>2, <1>4, <1>5

\* A change of the lists in memory alone.
LEMMA EditingInductive ==
    ASSUME Inductive, pc = "idle", UNCHANGED <<diskVars, pc, flushVars, saved>>,
           entries' \in Seq(EntryType), Len(entries') <= MaxLists,
           gone' \subseteq gone, Distinct(entries'), Covers(entries', Found),
           Clean(entries', Found, {}), Alive(entries', gone')
    PROVE  Inductive' /\ Found' = Found /\ saved' = saved
<1> USE DEF diskVars, flushVars
<1>1. Typed'
  BY DEF Inductive, Typed, DirectoryTyped, MemoryTyped
<1>2. Deleting = {} /\ Deleting' = {} /\ Up /\ Up'
  BY DEF Deleting, Up
<1>3. Found' = Found
  BY <1>2 DEF Found
<1>4. Control'
  BY <1>2 DEF Inductive, Control
<1>5. Memory'
  BY <1>2, <1>3 DEF Memory
<1>6. Orphans' /\ Halfway' /\ Progress' /\ Finishable'
  BY <1>2 DEF Inductive, Orphans, Halfway, Progress, Finishable
<1>7. Kept'
  BY <1>3, SamePromises DEF Inductive
<1> QED BY <1>1, <1>3, <1>4, <1>5, <1>6, <1>7 DEF Inductive

LEMMA Pigeons ==
    ASSUME NEW n \in Nat, NEW f \in [0 .. n -> 1 .. n]
    PROVE  \E s, r \in 0 .. n : s # r /\ f[s] = f[r]
<1> DEFINE S == 0 .. n
           T == 1 .. n
<1>1. /\ IsFiniteSet(S) /\ Cardinality(S) = n + 1
      /\ IsFiniteSet(T) /\ Cardinality(T) = n
  BY FS_Interval
<1>2. Cardinality(T) < Cardinality(S)
  BY <1>1
<1>3. f \in [S -> T]
  OBVIOUS
<1> HIDE DEF S, T
<1>4. \E x, y \in S : x # y /\ f[x] = f[y]
  BY <1>1, <1>2, <1>3, FS_PigeonHole, SMTT(60)
<1> QED BY <1>4 DEF S

\* One of the slots up to the number of the lists is free.
LEMMA SlotFree ==
    ASSUME MemoryTyped, Len(entries) < MaxLists
    PROVE  /\ NextOrdinarySlot \in Slots /\ NextOrdinarySlot \notin EntrySlots
<1>1. Len(entries) \in Nat /\ DOMAIN entries = 1 .. Len(entries)
  BY DEF MemoryTyped
<1> DEFINE n == Len(entries)
           free == (0 .. n) \ EntrySlots
<1>2. free # {}
  <2> SUFFICES ASSUME free = {} PROVE FALSE
    OBVIOUS
  <2>1. \A s \in 0 .. n : \E i \in 1 .. n : entries[i].slot = s
    BY <1>1 DEF EntrySlots
  <2>2. PICK f \in [0 .. n -> 1 .. n] : \A s \in 0 .. n : entries[f[s]].slot = s
    <3> DEFINE f == [s \in 0 .. n |-> CHOOSE i \in 1 .. n : entries[i].slot = s]
    <3>1. f \in [0 .. n -> 1 .. n] /\ \A s \in 0 .. n : entries[f[s]].slot = s
      BY <2>1
    <3> QED BY <3>1
  <2>3. \E s, r \in 0 .. n : s # r /\ f[s] = f[r]
    BY <1>1, <2>2, Pigeons
  <2> QED BY <2>2, <2>3
<1>3. free \subseteq Nat
  BY <1>1
<1>4. NextOrdinarySlot \in free
  BY <1>2, <1>3, MinYields DEF NextOrdinarySlot
<1> QED BY <1>1, <1>4, MaxListsAssumption DEF Slots

\* A new list has an identity that nothing else has.
LEMMA FreshYields ==
    ASSUME FreshLists # {}
    PROVE  /\ FreshList \in Lists /\ FreshList \notin EntryLists
           /\ saved[FreshList] = None /\ ~Traces(FreshList)
<1>1. FreshLists \subseteq Nat
  BY DEF FreshLists, Lists
<1>2. FreshList \in FreshLists
  BY <1>1, MinYields DEF FreshList
<1> QED BY <1>2 DEF FreshLists

LEMMA FreshTyped ==
    ASSUME FreshList \in Lists, NEW slot \in Slots
    PROVE  /\ FreshEntry(slot) \in EntryType /\ FreshEntry(slot).slot = slot
           /\ FreshEntry(slot).content.list = FreshList
           /\ FreshEntry(slot).dirty
<1>1. 0 \in Versions
  BY MaxVersionAssumption DEF Versions
<1> QED BY <1>1 DEF FreshEntry, Entry, EntryType, Contents

LEMMA NewListKeeps ==
    ASSUME Inductive, NewList
    PROVE  Inductive' /\ Found' = Found /\ saved' = saved
<1>1. PICK i \in 1 .. Len(entries) + 1 :
          entries' = InsertAt(entries, i, FreshEntry(NextOrdinarySlot))
  BY DEF NewList
<1>2. /\ pc = "idle" /\ Len(entries) < MaxLists /\ FreshLists # {}
      /\ gone' = gone \ {FreshList} /\ UNCHANGED <<diskVars, pc, flushVars, saved>>
  BY DEF NewList
<1>3. MemoryTyped /\ Distinct(entries) /\ Up
  BY <1>2 DEF Inductive, Typed, Memory, Up
<1>4. NextOrdinarySlot \in Slots /\ NextOrdinarySlot \notin EntrySlots
  BY <1>2, <1>3, SlotFree
<1>5. FreshList \in Lists /\ FreshList \notin EntryLists
  BY <1>2, FreshYields
<1> DEFINE e == FreshEntry(NextOrdinarySlot)
<1>6. /\ e \in EntryType /\ e.slot = NextOrdinarySlot /\ e.content.list = FreshList
      /\ e.dirty
  BY <1>4, <1>5, FreshTyped
<1> HIDE DEF e
<1>7. \A p \in DOMAIN entries : /\ entries[p].slot # e.slot
                                /\ entries[p].content.list # e.content.list
  BY <1>4, <1>5, <1>6 DEF EntrySlots, EntryLists
<1>8. entries \in Seq(EntryType) /\ entries' = InsertAt(entries, i, e)
  BY <1>1, <1>3 DEF MemoryTyped, e
<1>9. /\ entries' \in Seq(EntryType) /\ Len(entries') = Len(entries) + 1
      /\ Distinct(entries')
      /\ \A k \in DOMAIN entries' :
             entries'[k] = e \/ \E p \in DOMAIN entries : entries'[k] = entries[p]
      /\ \A p \in DOMAIN entries : \E k \in DOMAIN entries' : entries'[k] = entries[p]
  <2>1. Distinct(entries) /\ e \in EntryType
    BY <1>3, <1>6
  <2> QED BY <1>1, <1>7, <1>8, <2>1, InsertedEntries
<1>10. Len(entries') <= MaxLists
  BY <1>2, <1>3, <1>9, MaxListsAssumption DEF MemoryTyped
<1>11. Covers(entries', Found)
  <2>1. Covers(entries, Found)
    BY <1>3 DEF Inductive, Memory
  <2> QED BY <1>9, <2>1 DEF Covers
<1>12. Clean(entries', Found, {})
  <2>1. Clean(entries, Found, {})
    BY <1>2, <1>3 DEF Inductive, Memory, Deleting
  <2> QED BY <1>6, <1>9, <2>1 DEF Clean
<1>13. Alive(entries', gone')
  BY <1>2, <1>6, <1>9 DEF Inductive, Memory, Alive
<1>14. gone' \subseteq gone
  BY <1>2
<1> QED BY <1>2, <1>9, <1>10, <1>11, <1>12, <1>13, <1>14, EditingInductive

LEMMA EditKeeps ==
    ASSUME Inductive, Edit
    PROVE  Inductive' /\ Found' = Found /\ saved' = saved
<1>1. PICK i \in DOMAIN entries :
          /\ entries[i].content.version < MaxVersion
          /\ entries' = [entries EXCEPT ![i].content.version = @ + 1, ![i].dirty = TRUE]
  BY DEF Edit
<1>2. pc = "idle" /\ UNCHANGED <<diskVars, pc, flushVars, saved, gone>>
  BY DEF Edit, ghostVars
<1>3. entries \in Seq(EntryType) /\ Distinct(entries) /\ Up /\ Len(entries) <= MaxLists
  BY <1>2 DEF Inductive, Typed, MemoryTyped, Memory, Up
<1>4. /\ entries[i] \in EntryType /\ entries[i].content \in Contents
      /\ entries[i].content.version \in Nat
      /\ entries[i].content.version + 1 \in Versions
  <2>1. entries[i] \in EntryType
    BY <1>3
  <2>2. entries[i].content \in Contents /\ entries[i].content.version \in Versions
    BY <2>1 DEF EntryType, Contents
  <2> QED BY <1>1, <2>1, <2>2, MaxVersionAssumption DEF Versions
<1>5. /\ entries'[i].slot = entries[i].slot /\ entries'[i].dirty
      /\ entries'[i].content.list = entries[i].content.list
      /\ entries'[i].content.version = entries[i].content.version + 1
      /\ entries'[i] \in EntryType
  BY <1>1, <1>3, <1>4 DEF EntryType, Contents
<1>6. /\ DOMAIN entries' = DOMAIN entries /\ Len(entries') = Len(entries)
      /\ \A k \in DOMAIN entries : k # i => entries'[k] = entries[k]
  BY <1>1, <1>3
<1>7. entries' \in Seq(EntryType)
  <2>1. \A k \in DOMAIN entries : entries'[k] \in EntryType
    BY <1>3, <1>5, <1>6
  <2>2. entries' = [k \in DOMAIN entries |-> entries'[k]]
    BY <1>1
  <2>3. DOMAIN entries = 1 .. Len(entries) /\ Len(entries) \in Nat
    BY <1>3
  <2> QED BY <2>1, <2>2, <2>3
<1>8. \A k \in DOMAIN entries : /\ entries'[k].slot = entries[k].slot
                                /\ entries'[k].content.list = entries[k].content.list
  BY <1>5, <1>6
<1>9. Distinct(entries')
  BY <1>3, <1>6, <1>8 DEF Distinct
<1>10. Covers(entries', Found)
  <2>1. Covers(entries, Found)
    BY <1>3 DEF Inductive, Memory
  <2>2. Found \in Directory
    BY ImageTyped DEF Found, Inductive, Typed, DirectoryTyped
  <2>3. \A s \in Slots : Found[s].version \in Int
    BY <2>2, ContentFields DEF Directory, Files
  <2>4. ASSUME NEW s \in Slots, NEW k \in DOMAIN entries,
               entries[k].content.version >= Found[s].version
        PROVE  entries'[k].content.version >= Found[s].version
    BY <1>4, <1>5, <1>6, <2>3, <2>4
  <2> QED BY <1>6, <1>8, <2>1, <2>4 DEF Covers
<1>11. Clean(entries', Found, {})
  <2>1. Clean(entries, Found, {})
    BY <1>2, <1>3 DEF Inductive, Memory, Deleting
  <2> QED BY <1>5, <1>6, <2>1 DEF Clean
<1>12. Alive(entries', gone')
  BY <1>2, <1>6, <1>8 DEF Inductive, Memory, Alive
<1> QED BY <1>2, <1>3, <1>6, <1>7, <1>9, <1>10, <1>11, <1>12, EditingInductive

LEMMA ReorderListKeeps ==
    ASSUME Inductive, ReorderList
    PROVE  Inductive' /\ Found' = Found /\ saved' = saved
<1>1. PICK i \in DOMAIN entries, j \in DOMAIN entries :
          i # j /\ entries' = InsertAt(RemoveAt(entries, i), j, entries[i])
  BY DEF ReorderList
<1>2. pc = "idle" /\ UNCHANGED <<diskVars, pc, flushVars, saved, gone>>
  BY DEF ReorderList, ghostVars
<1>3. entries \in Seq(EntryType) /\ Distinct(entries) /\ Up /\ Len(entries) <= MaxLists
  BY <1>2 DEF Inductive, Typed, MemoryTyped, Memory, Up
<1>4. PICK r : r = RemoveAt(entries, i)
  OBVIOUS
<1>5. /\ r \in Seq(EntryType) /\ Len(r) = Len(entries) - 1 /\ Distinct(r)
      /\ \A k \in DOMAIN r : \E p \in DOMAIN entries : p # i /\ r[k] = entries[p]
      /\ \A p \in DOMAIN entries : p # i => \E k \in DOMAIN r : r[k] = entries[p]
  <2>1. i \in DOMAIN entries /\ entries \in Seq(EntryType) /\ Distinct(entries)
    BY <1>1, <1>3
  <2> QED BY <1>4, <2>1, RemovedEntries
<1>6. entries[i] \in EntryType /\ j \in 1 .. Len(r) + 1
  BY <1>1, <1>3, <1>5
<1>7. \A k \in DOMAIN r : /\ r[k].slot # entries[i].slot
                          /\ r[k].content.list # entries[i].content.list
  BY <1>1, <1>3, <1>5, SMTT(30) DEF Distinct
<1>8. entries' = InsertAt(r, j, entries[i])
  BY <1>1, <1>4
<1>9. /\ entries' \in Seq(EntryType) /\ Len(entries') = Len(r) + 1 /\ Distinct(entries')
      /\ \A k \in DOMAIN entries' :
             entries'[k] = entries[i] \/ \E p \in DOMAIN r : entries'[k] = r[p]
      /\ \E k \in DOMAIN entries' : entries'[k] = entries[i]
      /\ \A p \in DOMAIN r : \E k \in DOMAIN entries' : entries'[k] = r[p]
  BY <1>5, <1>6, <1>7, <1>8, InsertedEntries
<1>10. Len(entries') <= MaxLists
  BY <1>3, <1>5, <1>9
<1>11. /\ \A k \in DOMAIN entries' : \E p \in DOMAIN entries : entries'[k] = entries[p]
       /\ \A p \in DOMAIN entries : \E k \in DOMAIN entries' : entries'[k] = entries[p]
  BY <1>1, <1>5, <1>9, SMTT(30)
<1>12. Covers(entries', Found)
  <2>1. Covers(entries, Found)
    BY <1>3 DEF Inductive, Memory
  <2> QED BY <1>11, <2>1 DEF Covers
<1>13. Clean(entries', Found, {})
  <2>1. Clean(entries, Found, {})
    BY <1>2, <1>3 DEF Inductive, Memory, Deleting
  <2> QED BY <1>11, <2>1 DEF Clean
<1>14. Alive(entries', gone')
  BY <1>2, <1>11 DEF Inductive, Memory, Alive
<1> QED BY <1>2, <1>9, <1>10, <1>12, <1>13, <1>14, EditingInductive

\* The file is gone already: what goes with the .tmp is found no more.
LEMMA DeleteTempKeeps ==
    ASSUME Inductive, DeleteTemp
    PROVE  Inductive' /\ Found' = Found /\ saved' = saved
<1>1. /\ pc = "delete" /\ pc' = "idle" /\ caller' = "load" /\ at' = 1
      /\ temp' = [temp EXCEPT ![entries[at].slot] = NoFile]
      /\ entries' = RemoveAt(entries, at)
      /\ UNCHANGED <<file, stage, marker, saved>>
      /\ gone' \subseteq gone \cup {entries[at].content.list}
  BY DEF DeleteTemp, Return
<1>2. /\ marker = NoMarker /\ Up /\ Up' /\ Deleting = {entries[at].slot} /\ Deleting' = {}
      /\ at \in DOMAIN entries /\ file[entries[at].slot] = NoFile
  BY <1>1 DEF Inductive, Control, Halfway, Up, Deleting
<1>3. entries \in Seq(EntryType) /\ Distinct(entries) /\ Len(entries) <= MaxLists
  BY DEF Inductive, Typed, MemoryTyped, Memory
<1> DEFINE slot == entries[at].slot
           list == entries[at].content.list
<1>4. slot \in Slots /\ list \in Lists
  <2>1. entries[at] \in EntryType
    BY <1>2, <1>3
  <2> QED BY <2>1 DEF EntryType, Contents
<1>5. DirectoryTyped /\ temp' \in Directory
  BY <1>1, <1>4 DEF Inductive, Typed, DirectoryTyped, Directory, Files
<1>6. temp'[slot] = NoFile /\ \A s \in Slots : s # slot => temp'[s] = temp[s]
  BY <1>1, <1>4, <1>5 DEF DirectoryTyped, Directory
<1>7. \A s \in Slots : Found[s] = file[s] /\ (file[s] = NoFile /\ s # slot => temp[s] = NoFile)
  BY <1>1, <1>2, FoundIsFile
<1>8. Found' = Found
  <2>1. \A s \in Slots : Found'[s] = IF file[s] # NoFile THEN file[s] ELSE temp'[s]
    <3>1. Found' = Image(file, temp', stage, NoMarker, {})
      BY <1>1, <1>2 DEF Found
    <3> QED BY <1>5, <3>1, ImagePlain DEF DirectoryTyped
  <2>2. \A s \in Slots : Found'[s] = Found[s]
    BY <1>2, <1>6, <1>7, <2>1
  <2> QED BY <2>2 DEF Found, Image
<1>9. /\ entries' \in Seq(EntryType) /\ Len(entries') = Len(entries) - 1
      /\ Distinct(entries')
      /\ \A k \in DOMAIN entries' : \E p \in DOMAIN entries : p # at /\ entries'[k] = entries[p]
      /\ \A p \in DOMAIN entries : p # at => \E k \in DOMAIN entries' : entries'[k] = entries[p]
  BY <1>1, <1>2, <1>3, RemovedEntries
<1>10. \A s \in Slots : Found[s].list # list
  <2> SUFFICES ASSUME NEW s \in Slots, Found[s].list = list PROVE FALSE
    OBVIOUS
  <2>1. s = slot
    BY <1>2, OwnSlot
  <2> QED BY <1>2, <1>4, <1>7, <2>1, ContentFields
<1>11. Typed'
  BY <1>1, <1>3, <1>4, <1>5, <1>9, MaxListsAssumption
     DEF Inductive, Typed, DirectoryTyped, MemoryTyped
<1>12. Control'
  BY <1>1, <1>2 DEF Control
<1>13. Memory'
  <2>1. Covers(entries', Found)
    <3>1. Covers(entries, Found)
      BY <1>2 DEF Inductive, Memory
    <3>2. Found[slot] = NoFile
      BY <1>2, <1>4, <1>7
    <3> QED BY <1>9, <3>1, <3>2 DEF Covers
  <2>2. Clean(entries', Found, {})
    <3>1. Clean(entries, Found, {slot})
      BY <1>2 DEF Inductive, Memory
    <3>2. \A p \in DOMAIN entries : p # at => entries[p].slot # slot
      BY <1>2, <1>3 DEF Distinct
    <3> QED BY <1>9, <3>1, <3>2 DEF Clean
  <2>3. Alive(entries', gone')
    <3>1. \A p \in DOMAIN entries :
              p # at => entries[p].content.list # list /\ entries[p].content.list \notin gone
      BY <1>2, <1>3 DEF Distinct, Inductive, Memory, Alive
    <3> QED BY <1>1, <1>9, <3>1 DEF Alive
  <2> QED BY <1>2, <1>8, <1>9, <2>1, <2>2, <2>3 DEF Memory
<1>14. Orphans'
  BY <1>1, <1>2, <1>6, <1>7 DEF Orphans
<1>15. Halfway' /\ Progress'
  BY <1>1 DEF Halfway, Progress
<1>16. Finishable'
  BY <1>1, <1>2, <1>5, ImagePlain DEF Finishable, DirectoryTyped
<1>17. Kept'
  <2>1. Unique(Found') /\ \A s \in Slots : Found'[s].list \notin gone'
    BY <1>1, <1>8, <1>10 DEF Inductive, Kept, Unique
  <2>2. \A l \in Lists : saved'[l] # None =>
            \E s \in Slots : Found'[s].list = l /\ Found'[s].version >= saved'[l]
    BY <1>1, <1>8 DEF Inductive, Kept
  <2> QED BY <1>1, <2>1, <2>2 DEF Kept
<1> QED BY <1>1, <1>8, <1>11, <1>12, <1>13, <1>14, <1>15, <1>16, <1>17 DEF Inductive

-----------------------------------------------------------------------------
(* A compaction that is being staged.                                      *)

\* Without a marker the staged files are not looked at.
LEMMA StageInductive ==
    ASSUME Inductive, pc = "stage", stage' \in Directory,
           UNCHANGED <<file, temp, marker, entries, ghostVars>>,
           Control', Progress', pc' \in {"stage", "idle"}, at' \in 1 .. MaxLists + 1,
           caller' \in {"load", "timer", "force", "compact"}
    PROVE  Inductive' /\ Found' = Found /\ saved' = saved
<1> USE DEF ghostVars
<1>1. Typed'
  BY DEF Inductive, Typed, DirectoryTyped, MemoryTyped
<1>2. marker = NoMarker /\ Up /\ Up' /\ Deleting = {} /\ Deleting' = {}
  BY DEF Inductive, Control, Up, Deleting
<1>3. Moved(marker) = {} /\ Dest(marker) = {}
  BY <1>2, ImagePlain DEF Inductive, Typed, DirectoryTyped
<1>4. Found' = Found
  BY <1>2, <1>3 DEF Found, Image
<1>5. Memory'
  BY <1>2, <1>4 DEF Inductive, Memory
<1>6. Orphans' /\ Halfway' /\ Finishable'
  BY <1>2, <1>3 DEF Inductive, Orphans, Halfway, Finishable
<1>7. Kept'
  BY <1>4, SamePromises DEF Inductive
<1> QED BY <1>1, <1>4, <1>5, <1>6, <1>7 DEF Inductive

LEMMA WithoutStagedTyped ==
    ASSUME DirectoryTyped, NEW last
    PROVE  WithoutStaged(last) \in Directory
BY DEF WithoutStaged, DirectoryTyped, Directory, Files

LEMMA StageWriteKeeps ==
    ASSUME Inductive, StageWrite
    PROVE  Inductive' /\ Found' = Found /\ saved' = saved
<1>1. pc = "stage" /\ Unwritten # {} /\ UNCHANGED <<file, temp, marker, entries, ghostVars>>
  BY DEF StageWrite
<1>2. /\ entries \in Seq(EntryType) /\ Len(entries) <= MaxLists /\ DirectoryTyped
      /\ marker = NoMarker /\ caller = "compact" /\ at \in 1 .. MaxLists + 1
  BY <1>1 DEF Inductive, Typed, MemoryTyped, Control
<1>3. PICK i : i = Min(Unwritten)
  OBVIOUS
<1>4. /\ i \in DOMAIN entries /\ entries[i].slot # i - 1 /\ i >= at
      /\ \A k \in DOMAIN entries : entries[k].slot # k - 1 /\ k >= at => i <= k
  <2>1. Unwritten \subseteq Nat
    BY <1>2 DEF Unwritten, ToStage
  <2>2. i \in Unwritten /\ \A k \in Unwritten : i <= k
    BY <1>1, <1>3, <2>1, MinYields
  <2> QED BY <2>2 DEF Unwritten, ToStage
<1>5. i - 1 \in Slots /\ entries[i].content \in Contents /\ i + 1 \in 1 .. MaxLists + 1
  <2>1. entries[i] \in EntryType /\ i \in 1 .. MaxLists
    BY <1>2, <1>4, MaxListsAssumption
  <2> QED BY <2>1, MaxListsAssumption DEF Slots, EntryType
<1>6. CASE /\ stage' = [stage EXCEPT ![i - 1] = entries[i].content]
           /\ at' = i + 1 /\ UNCHANGED <<pc, caller, failed>>
  <2>1. stage' \in Directory
    BY <1>2, <1>5, <1>6 DEF DirectoryTyped, Directory, Files
  <2>2. Control'
    BY <1>1, <1>2, <1>6 DEF Control, Up
  <2>3. Progress'
    <3>1. \A k \in DOMAIN entries : ~entries[k].dirty
      BY <1>1 DEF Inductive, Progress
    <3>2. ASSUME NEW k \in DOMAIN entries, k < i + 1, entries[k].slot # k - 1
          PROVE  stage'[k - 1] = entries[k].content
      <4>1. k \in Nat /\ i \in Nat /\ k - 1 \in Slots
        BY <1>2, <1>4, <3>2, MaxListsAssumption DEF Slots
      <4>2. CASE k = i
        BY <1>2, <1>5, <1>6, <4>2 DEF DirectoryTyped, Directory
      <4>3. CASE k # i
        <5>1. k < i /\ k - 1 # i - 1
          BY <3>2, <4>1, <4>3
        <5>2. k < at
          BY <1>2, <1>4, <3>2, <4>1, <5>1
        <5>3. stage[k - 1] = entries[k].content
          BY <1>1, <3>2, <5>2 DEF Inductive, Progress
        <5> QED BY <1>2, <1>6, <4>1, <5>1, <5>3 DEF DirectoryTyped, Directory
      <4> QED BY <4>2, <4>3
    <3> QED BY <1>1, <1>6, <3>1, <3>2 DEF Progress
  <2>4. at' \in 1 .. MaxLists + 1 /\ caller' = "compact" /\ pc' = "stage"
    BY <1>1, <1>2, <1>5, <1>6
  <2> QED BY <1>1, <2>1, <2>2, <2>3, <2>4, StageInductive
<1>7. CASE stage' = WithoutStaged(i) /\ Return("idle")
  <2>1. stage' \in Directory
    BY <1>2, <1>7, WithoutStagedTyped
  <2>2. Control' /\ Progress'
    BY <1>1, <1>2, <1>7 DEF Control, Progress, Return, Up
  <2>3. pc' = "idle" /\ caller' = "load" /\ at' = 1 /\ 1 \in 1 .. MaxLists + 1
    BY <1>7, MaxListsAssumption DEF Return
  <2> QED BY <1>1, <2>1, <2>2, <2>3, StageInductive
<1> QED BY <1>3, <1>6, <1>7 DEF StageWrite

-----------------------------------------------------------------------------
(* The steps that change what a restart would find, one slot at a time.    *)

LEMMA SlotChanges ==
    ASSUME Inductive, Up, NEW i \in DOMAIN entries, NEW g \in Directory,
           \A s \in Slots : s # entries[i].slot => g[s] = Found[s],
           \/ g[entries[i].slot] = NoFile
           \/ g[entries[i].slot].list = entries[i].content.list
    PROVE  /\ Unique(g) /\ \A s \in Slots : g[s].list \notin gone
           /\ VersionsOf(g) = [VersionsOf(Found) EXCEPT
                                  ![entries[i].content.list] = g[entries[i].slot].version]
           /\ \A l \in Lists : l # entries[i].content.list /\ saved[l] # None =>
                  \E s \in Slots : /\ s # entries[i].slot
                                   /\ g[s].list = l /\ g[s].version >= saved[l]
<1> DEFINE slot == entries[i].slot
           list == entries[i].content.list
<1>1. /\ slot \in Slots /\ list \in Lists
      /\ \A s \in Slots : Found[s].list = list => s = slot
      /\ Found[slot] = NoFile \/ Found[slot].list = list
  BY OwnSlot, ContentFields
<1>2. Found \in Directory
  BY ImageTyped DEF Found, Inductive, Typed, DirectoryTyped
<1>3. /\ Unique(Found) /\ \A s \in Slots : Found[s].list \notin gone
      /\ list \notin gone /\ gone \subseteq Lists
  BY DEF Inductive, Kept, Memory, Alive, Typed, MemoryTyped
<1>4. \A s \in Slots : s # slot => g[s] = Found[s] /\ Found[s].list # list
  BY <1>1
<1>5. g[slot] = NoFile \/ g[slot].list = list
  OBVIOUS
<1> HIDE DEF slot, list
<1>6. Unique(g)
  <2> SUFFICES ASSUME NEW r \in Slots, NEW s \in Slots, r # s, g[r].list = g[s].list
               PROVE  g[r] = NoFile
    BY DEF Unique
  <2>1. \A c \in Files : c.list = 0 => c = NoFile
    BY ContentFields
  <2>2. g[r] \in Files /\ g[s] \in Files /\ NoFile.list = 0 /\ 0 \notin Lists
    BY ContentFields DEF Directory, Lists
  <2>3. CASE r = slot
    BY <1>1, <1>4, <1>5, <2>3
  <2>4. CASE s = slot
    BY <1>1, <1>4, <1>5, <2>1, <2>2, <2>4
  <2>5. CASE r # slot /\ s # slot
    BY <1>3, <1>4, <2>5 DEF Unique
  <2> QED BY <2>3, <2>4, <2>5
<1>7. \A s \in Slots : g[s].list \notin gone
  BY <1>3, <1>4, <1>5, ContentFields
<1>8. VersionsOf(g) = [VersionsOf(Found) EXCEPT ![list] = g[slot].version]
  BY <1>1, <1>2, <1>3, <1>4, <1>5, <1>6, VersionsUpdate
<1>9. ASSUME NEW l \in Lists, l # list, saved[l] # None
      PROVE  \E s \in Slots : s # slot /\ g[s].list = l /\ g[s].version >= saved[l]
  <2>1. PICK s \in Slots : Found[s].list = l /\ Found[s].version >= saved[l]
    BY <1>9 DEF Inductive, Kept
  <2>2. s # slot
    BY <1>1, <1>9, <2>1, ContentFields
  <2> QED BY <1>4, <2>1, <2>2
<1> QED BY <1>6, <1>7, <1>8, <1>9 DEF slot, list

\* What is found of a list in memory.
LEMMA OwnVersion ==
    ASSUME Inductive, Up, NEW i \in DOMAIN entries
    PROVE  VersionsOf(Found)[entries[i].content.list] = Found[entries[i].slot].version
<1>1. /\ entries[i].content.list \in Lists
      /\ \/ Found[entries[i].slot] = NoFile
         \/ Found[entries[i].slot].list = entries[i].content.list
  BY OwnSlot, ContentFields
<1>2. Found \in Directory
  BY ImageTyped DEF Found, Inductive, Typed, DirectoryTyped
<1>3. VersionsOf(Found) = [VersionsOf(Found) EXCEPT
                              ![entries[i].content.list] = Found[entries[i].slot].version]
  BY <1>1, <1>2, SlotChanges
<1> QED BY <1>1, <1>3 DEF VersionsOf

\* The file is removed; the .tmp, which Delete removes next, is not taken for it.
LEMMA DeleteFileKeeps ==
    ASSUME Inductive, DeleteFile
    PROVE  /\ Inductive'
           /\ \E l \in Lists : /\ VersionsOf(Found') = [VersionsOf(Found) EXCEPT ![l] = None]
                               /\ saved' = [saved EXCEPT ![l] = None]
<1>1. PICK i \in DOMAIN entries :
          /\ at' = i /\ file' = [file EXCEPT ![entries[i].slot] = NoFile]
          /\ saved' = [saved EXCEPT ![entries[i].content.list] = None]
  BY DEF DeleteFile
<1>2. /\ pc = "idle" /\ pc' = "delete"
      /\ UNCHANGED <<temp, stage, marker, entries, caller, failed, gone>>
  BY DEF DeleteFile
<1>3. /\ i \in DOMAIN entries /\ entries \in Seq(EntryType) /\ Len(entries) <= MaxLists
      /\ Distinct(entries) /\ marker = NoMarker /\ Up /\ Up' /\ DirectoryTyped
      /\ saved \in [Lists -> Versions \cup {None}]
  BY <1>1, <1>2 DEF Inductive, Typed, MemoryTyped, Memory, Control, Up
<1> DEFINE slot == entries[i].slot
           list == entries[i].content.list
<1>4. slot \in Slots /\ list \in Lists
  BY <1>3, OwnSlot, ContentFields
<1>5. Deleting = {} /\ Deleting' = {slot}
  BY <1>1, <1>2 DEF Deleting
<1> HIDE DEF slot, list
<1>6. /\ file' \in Directory /\ file'[slot] = NoFile
      /\ \A s \in Slots : s # slot => file'[s] = file[s]
  BY <1>1, <1>3, <1>4 DEF DirectoryTyped, Directory, Files, slot
<1>7. \A s \in Slots : Found[s] = file[s] /\ (file[s] # NoFile \/ temp[s] = NoFile)
  BY <1>2, <1>3, <1>5, FoundIsFile
<1>8. Found'[slot] = NoFile /\ \A s \in Slots : s # slot => Found'[s] = Found[s]
  <2>1. Found' = Image(file', temp, stage, NoMarker, {slot})
    BY <1>2, <1>3, <1>5 DEF Found
  <2>2. \A s \in Slots :
            Found'[s] = IF file'[s] # NoFile \/ s \in {slot} THEN file'[s] ELSE temp[s]
    BY <1>3, <1>6, <2>1, ImagePlain DEF DirectoryTyped
  <2> QED BY <1>4, <1>6, <1>7, <2>2
<1>9. Found' \in Directory
  BY <1>2, <1>3, <1>6, ImageTyped DEF Found, DirectoryTyped
<1>10. /\ Unique(Found') /\ \A s \in Slots : Found'[s].list \notin gone
       /\ VersionsOf(Found') = [VersionsOf(Found) EXCEPT ![list] = Found'[slot].version]
       /\ \A l \in Lists : l # list /\ saved[l] # None =>
              \E s \in Slots : /\ s # slot
                               /\ Found'[s].list = l /\ Found'[s].version >= saved[l]
  BY <1>3, <1>8, <1>9, SlotChanges DEF slot, list
<1>11. Typed'
  BY <1>1, <1>2, <1>3, <1>4, <1>6, MaxListsAssumption
     DEF Inductive, Typed, DirectoryTyped, MemoryTyped, list
<1>12. Control'
  BY <1>2, <1>3 DEF Inductive, Control
<1>13. Memory'
  <2>1. Covers(entries, Found) /\ Clean(entries, Found, {})
    BY <1>3, <1>5 DEF Inductive, Memory
  <2>2. Covers(entries, Found')
    BY <1>8, <2>1 DEF Covers
  <2>3. Clean(entries, Found', {slot})
    <3>1. \A k \in DOMAIN entries : entries[k].slot \in Slots
      BY <1>3, OwnSlot
    <3> QED BY <1>8, <2>1, <3>1 DEF Clean
  <2> QED BY <1>2, <1>5, <2>2, <2>3 DEF Inductive, Memory
<1>14. Orphans'
  BY <1>1, <1>2, <1>6, <1>7 DEF Orphans, slot
<1>15. Halfway' /\ Progress'
  BY <1>1, <1>2, <1>3, <1>6 DEF Halfway, Progress, slot
<1>16. Finishable'
  BY <1>2, <1>3, ImagePlain DEF Finishable, DirectoryTyped
<1>17. Kept'
  <2>1. \A l \in Lists : saved'[l] # None => l # list /\ saved'[l] = saved[l]
    BY <1>1, <1>3, <1>4 DEF list
  <2> QED BY <1>2, <1>10, <2>1 DEF Kept
<1>18. NoFile.version = None
  BY DEF NoFile
<1>19. Inductive'
  BY <1>11, <1>12, <1>13, <1>14, <1>15, <1>16, <1>17 DEF Inductive
<1> QED BY <1>1, <1>4, <1>8, <1>10, <1>18, <1>19 DEF list

\* The lists that are due are dirty, and a forced flush takes them in their order.
LEMMA DueYields ==
    ASSUME MemoryTyped, NEW i \in Due
    PROVE  /\ i \in DOMAIN entries /\ entries[i].dirty
           /\ caller = "force" => \A k \in DOMAIN entries :
                                      at <= k /\ k < i => ~entries[k].dirty
<1>1. /\ at \in Nat /\ Len(entries) \in Nat /\ DOMAIN entries = 1 .. Len(entries)
      /\ at >= 1
  BY DEF MemoryTyped
<1>2. Dirty \subseteq Nat
  BY <1>1 DEF Dirty
<1>3. \A k \in Dirty : k \in DOMAIN entries /\ entries[k].dirty
  BY <1>1 DEF Dirty
<1>4. CASE caller = "force" /\ Dirty # {}
  <2>1. i = Min(Dirty)
    BY <1>4 DEF Due
  <2>2. i \in Dirty /\ \A k \in Dirty : i <= k
    BY <1>2, <1>4, <2>1, MinYields
  <2>3. \A k \in DOMAIN entries : at <= k /\ k < i => ~entries[k].dirty
    <3> SUFFICES ASSUME NEW k \in DOMAIN entries, at <= k, k < i, entries[k].dirty
                 PROVE  FALSE
      OBVIOUS
    <3>1. k \in Dirty
      BY <1>1 DEF Dirty
    <3> QED BY <1>1, <1>2, <2>2, <3>1
  <2> QED BY <1>3, <2>2, <2>3
<1>5. CASE ~(caller = "force" /\ Dirty # {})
  <2>1. i \in Dirty
    BY <1>5 DEF Due
  <2> QED BY <1>3, <1>5, <2>1
<1> QED BY <1>4, <1>5

\* The .tmp is written: if the list has no file yet, a restart would take it for one.
LEMMA SaveWriteKeeps ==
    ASSUME Inductive, SaveWrite
    PROVE  /\ Inductive' /\ saved' = saved
           /\ \/ Found' = Found
              \/ \E l \in Lists, v \in Versions :
                    /\ v > VersionsOf(Found)[l]
                    /\ VersionsOf(Found') = [VersionsOf(Found) EXCEPT ![l] = v]
<1>1. PICK i \in Due :
          \/ /\ temp' = [temp EXCEPT ![entries[i].slot] = entries[i].content]
             /\ at' = i /\ pc' = "rename" /\ UNCHANGED failed
          \/ at' = i + 1 /\ failed' = TRUE /\ UNCHANGED <<temp, pc>>
  BY DEF SaveWrite
<1>2. pc = "save" /\ UNCHANGED <<file, stage, marker, entries, caller, saved, gone>>
  BY DEF SaveWrite, ghostVars
<1>3. /\ entries \in Seq(EntryType) /\ Len(entries) <= MaxLists /\ Distinct(entries)
      /\ marker = NoMarker /\ Up /\ Up' /\ DirectoryTyped /\ MemoryTyped
      /\ caller \in {"timer", "force"} /\ Deleting = {} /\ Deleting' = {}
  BY <1>1, <1>2 DEF Inductive, Typed, MemoryTyped, Memory, Control, Up, Deleting
<1>4. /\ i \in DOMAIN entries /\ entries[i].dirty
      /\ caller = "force" => \A k \in DOMAIN entries :
                                 at <= k /\ k < i => ~entries[k].dirty
  <2>1. i \in Due
    BY <1>1
  <2> QED BY <1>3, <2>1, DueYields
<1>5. i \in 1 .. MaxLists /\ i + 1 \in 1 .. MaxLists + 1 /\ at \in Nat
  BY <1>3, <1>4, MaxListsAssumption DEF MemoryTyped
<1>6. CASE at' = i + 1 /\ failed' = TRUE /\ UNCHANGED <<temp, pc>>
  <2>1. Control' /\ Halfway' /\ Progress'
    BY <1>2, <1>3, <1>6 DEF Control, Halfway, Progress
  <2>2. UNCHANGED <<diskVars, entries, ghostVars>>
    BY <1>2, <1>6 DEF diskVars, ghostVars
  <2>3. /\ at' \in 1 .. MaxLists + 1 /\ pc' = "save"
        /\ caller' \in {"load", "timer", "force", "compact"}
    BY <1>2, <1>3, <1>5, <1>6
  <2> QED BY <1>2, <1>3, <2>1, <2>2, <2>3, IdleInductive
<1>7. CASE /\ temp' = [temp EXCEPT ![entries[i].slot] = entries[i].content]
           /\ at' = i /\ pc' = "rename" /\ UNCHANGED failed
  <2> DEFINE slot == entries[i].slot
             content == entries[i].content
  <2>1. /\ slot \in Slots /\ content \in Contents
        /\ Found[slot] = NoFile \/ Found[slot].list = content.list
    BY <1>3, <1>4, OwnSlot
  <2> HIDE DEF slot, content
  <2>2. content.list \in Lists /\ content.version \in Versions /\ content.version >= 0
        /\ content # NoFile
    BY <2>1, ContentFields
  <2>3. /\ temp' \in Directory /\ temp'[slot] = content
        /\ \A s \in Slots : s # slot => temp'[s] = temp[s]
    BY <1>3, <1>7, <2>1 DEF DirectoryTyped, Directory, Files, slot, content
  <2>4. \A s \in Slots : Found[s] = file[s] /\ (file[s] # NoFile \/ temp[s] = NoFile)
    BY <1>2, <1>3, FoundIsFile
  <2>5. /\ Found'[slot] = IF file[slot] # NoFile THEN file[slot] ELSE content
        /\ \A s \in Slots : s # slot => Found'[s] = Found[s]
    <3>1. Found' = Image(file, temp', stage, NoMarker, {})
      BY <1>2, <1>3 DEF Found
    <3>2. \A s \in Slots : Found'[s] = IF file[s] # NoFile THEN file[s] ELSE temp'[s]
      BY <1>3, <2>3, <3>1, ImagePlain DEF DirectoryTyped
    <3> QED BY <2>1, <2>3, <2>4, <3>2
  <2>6. Found' \in Directory
    BY <1>2, <1>3, <2>3, ImageTyped DEF Found, DirectoryTyped
  <2>7. Found'[slot].list = content.list
    BY <2>1, <2>4, <2>5
  <2>8. /\ Unique(Found') /\ \A s \in Slots : Found'[s].list \notin gone
        /\ VersionsOf(Found') = [VersionsOf(Found) EXCEPT
                                    ![content.list] = Found'[slot].version]
        /\ \A l \in Lists : l # content.list /\ saved[l] # None =>
               \E s \in Slots : /\ s # slot
                                /\ Found'[s].list = l /\ Found'[s].version >= saved[l]
    BY <1>3, <1>4, <2>5, <2>6, <2>7, SlotChanges DEF slot, content
  <2>9. Typed'
    BY <1>2, <1>3, <1>5, <1>7, <2>3, MaxListsAssumption
       DEF Inductive, Typed, DirectoryTyped, MemoryTyped
  <2>10. Control'
    BY <1>2, <1>3, <1>7 DEF Inductive, Control
  <2>11. Memory'
    <3>1. Covers(entries, Found) /\ Clean(entries, Found, {})
      BY <1>3 DEF Inductive, Memory
    <3>2. Covers(entries, Found')
      <4> SUFFICES ASSUME NEW s \in Slots, Found'[s] # NoFile
                   PROVE  \E k \in DOMAIN entries :
                             /\ entries[k].slot = s
                             /\ entries[k].content.list = Found'[s].list
                             /\ entries[k].content.version >= Found'[s].version
        BY DEF Covers
      <4>1. CASE Found'[s] = Found[s]
        BY <3>1, <4>1 DEF Covers
      <4>2. CASE s = slot /\ Found'[s] = content
        BY <1>4, <2>2, <4>2 DEF slot, content, Versions
      <4> QED BY <2>4, <2>5, <4>1, <4>2
    <3>3. Clean(entries, Found', {})
      <4>1. \A k \in DOMAIN entries :
                entries[k].slot \in Slots /\ (entries[k].slot = slot => k = i)
        BY <1>3, <1>4, OwnSlot DEF Distinct, slot
      <4> QED BY <1>4, <2>5, <3>1, <4>1 DEF Clean
    <3> QED BY <1>2, <1>3, <3>2, <3>3 DEF Inductive, Memory
  <2>12. Orphans'
    BY <1>2, <1>7, <2>3, <2>4 DEF Orphans, slot
  <2>13. Halfway'
    BY <1>2, <1>4, <1>7, <2>3 DEF Halfway, slot, content
  <2>14. Progress'
    <3>1. caller = "force" /\ ~failed => \A k \in DOMAIN entries : k < i => ~entries[k].dirty
      <4>1. \A k \in DOMAIN entries : k \in Nat
        BY <1>3
      <4> QED BY <1>2, <1>4, <1>5, <4>1 DEF Inductive, Progress
    <3> QED BY <1>2, <1>7, <3>1 DEF Progress
  <2>15. Finishable'
    BY <1>2, <1>3, ImagePlain DEF Finishable, DirectoryTyped
  <2>16. Kept'
    <3>1. ASSUME NEW l \in Lists, saved[l] # None
          PROVE  \E s \in Slots :
                    /\ Found'[s].list = l /\ Found'[s].version >= saved[l]
                    /\ s = slot => file[s] # NoFile
      <4>1. CASE l # content.list
        BY <2>8, <3>1, <4>1
      <4>2. CASE l = content.list
        <5>1. PICK s \in Slots : Found[s].list = l /\ Found[s].version >= saved[l]
          BY <3>1 DEF Inductive, Kept
        <5>2. file[s] # NoFile /\ Found'[s] = Found[s]
          BY <2>4, <2>5, <3>1, <5>1, ContentFields
        <5> QED BY <5>1, <5>2
      <4> QED BY <4>1, <4>2
    <3>2. at' = i /\ entries' = entries /\ file' = file /\ saved' = saved /\ gone' = gone
      BY <1>2, <1>7
    <3> QED BY <2>8, <3>1, <3>2 DEF Kept, slot
  <2>17. Inductive'
    BY <2>9, <2>10, <2>11, <2>12, <2>13, <2>14, <2>15, <2>16 DEF Inductive
  <2>18. CASE file[slot] # NoFile
    <3>1. \A s \in Slots : Found'[s] = Found[s]
      BY <2>4, <2>5, <2>18
    <3>2. Found' = Found
      BY <3>1 DEF Found, Image
    <3> QED BY <1>2, <2>17, <3>2
  <2>19. CASE file[slot] = NoFile
    <3>1. Found'[slot].version = content.version
      BY <2>5, <2>19
    <3>2. VersionsOf(Found)[content.list] = None
      <4>1. VersionsOf(Found)[content.list] = Found[slot].version
        BY <1>3, <1>4, OwnVersion DEF slot, content
      <4> QED BY <2>1, <2>4, <2>19, <4>1 DEF NoFile
    <3>3. content.version > None
      BY <2>2, MaxVersionAssumption DEF None, Versions
    <3> QED BY <1>2, <2>2, <2>8, <2>17, <3>1, <3>2, <3>3
  <2> QED BY <2>18, <2>19
<1> QED BY <1>1, <1>6, <1>7

\* What the two outcomes of the rename have in common.
LEMMA SaveRenameBegins ==
    ASSUME Inductive, SaveRename
    PROVE  /\ pc = "rename" /\ pc' = "save" /\ at' = at + 1
           /\ UNCHANGED <<stage, marker, caller, gone>>
           /\ entries \in Seq(EntryType) /\ Len(entries) <= MaxLists /\ Distinct(entries)
           /\ at \in DOMAIN entries /\ at \in 1 .. MaxLists
           /\ entries[at] \in EntryType /\ entries[at].dirty
           /\ temp[entries[at].slot] = entries[at].content
           /\ temp' = [temp EXCEPT ![entries[at].slot] = NoFile]
           /\ temp' \in Directory /\ temp'[entries[at].slot] = NoFile
           /\ \A s \in Slots : s # entries[at].slot => temp'[s] = temp[s]
           /\ marker = NoMarker /\ Up /\ Up' /\ DirectoryTyped
           /\ caller \in {"timer", "force"} /\ Deleting = {} /\ Deleting' = {}
           /\ \A s \in Slots :
                  /\ Found[s] = IF file[s] # NoFile THEN file[s] ELSE temp[s]
                  /\ s # entries[at].slot => file[s] # NoFile \/ temp[s] = NoFile
           /\ file' \in Directory => \A s \in Slots :
                  Found'[s] = IF file'[s] # NoFile THEN file'[s] ELSE temp'[s]
<1>1. /\ pc = "rename" /\ pc' = "save" /\ at' = at + 1
      /\ UNCHANGED <<stage, marker, caller, gone>>
      /\ temp' = [temp EXCEPT ![entries[at].slot] = NoFile]
  BY DEF SaveRename
<1>2. /\ entries \in Seq(EntryType) /\ Len(entries) <= MaxLists /\ Distinct(entries)
      /\ at \in DOMAIN entries /\ entries[at].dirty /\ DirectoryTyped
      /\ temp[entries[at].slot] = entries[at].content
  BY <1>1 DEF Inductive, Typed, MemoryTyped, Memory, Halfway
<1>3. /\ marker = NoMarker /\ Up /\ Up' /\ caller \in {"timer", "force"}
      /\ Deleting = {} /\ Deleting' = {}
  BY <1>1 DEF Inductive, Control, Up, Deleting
<1>4. entries[at] \in EntryType /\ at \in 1 .. MaxLists
  BY <1>2, MaxListsAssumption
<1>5. entries[at].slot \in Slots
  BY <1>4 DEF EntryType
<1>6. /\ temp' \in Directory /\ temp'[entries[at].slot] = NoFile
      /\ \A s \in Slots : s # entries[at].slot => temp'[s] = temp[s]
  BY <1>1, <1>2, <1>5 DEF DirectoryTyped, Directory, Files
<1>7. \A s \in Slots : /\ Found[s] = IF file[s] # NoFile THEN file[s] ELSE temp[s]
                       /\ s # entries[at].slot => file[s] # NoFile \/ temp[s] = NoFile
  BY <1>3, FoundIsFile
<1>8. ASSUME file' \in Directory
      PROVE  \A s \in Slots : Found'[s] = IF file'[s] # NoFile THEN file'[s] ELSE temp'[s]
  <2>1. Found' = Image(file', temp', stage, NoMarker, {})
    BY <1>1, <1>3 DEF Found
  <2> QED BY <1>2, <1>6, <1>8, <2>1, ImagePlain DEF DirectoryTyped
<1> QED BY <1>1, <1>2, <1>3, <1>4, <1>6, <1>7, <1>8

\* The list is saved, in the version that is in memory.
SaveSucceeds ==
    /\ file' = [file EXCEPT ![entries[at].slot] = temp[entries[at].slot]]
    /\ entries' = [entries EXCEPT ![at].dirty = FALSE]
    /\ saved' = [saved EXCEPT ![entries[at].content.list] = entries[at].content.version]
    /\ UNCHANGED failed

LEMMA SaveSucceedsKeeps ==
    ASSUME Inductive, SaveRename, SaveSucceeds
    PROVE  /\ Inductive'
           /\ \E l \in Lists, v \in Versions :
                 /\ v >= VersionsOf(Found)[l]
                 /\ VersionsOf(Found') = [VersionsOf(Found) EXCEPT ![l] = v]
                 /\ saved' = [saved EXCEPT ![l] = v]
<1> DEFINE slot == entries[at].slot
           content == entries[at].content
<1>1. /\ pc = "rename" /\ pc' = "save" /\ at' = at + 1
      /\ UNCHANGED <<stage, marker, caller, gone>>
      /\ entries \in Seq(EntryType) /\ Len(entries) <= MaxLists /\ Distinct(entries)
      /\ at \in DOMAIN entries /\ at \in 1 .. MaxLists
      /\ entries[at] \in EntryType
      /\ temp[slot] = content
      /\ temp' \in Directory /\ temp'[slot] = NoFile
      /\ \A s \in Slots : s # slot => temp'[s] = temp[s]
      /\ marker = NoMarker /\ Up /\ Up' /\ DirectoryTyped
      /\ caller \in {"timer", "force"} /\ Deleting = {} /\ Deleting' = {}
      /\ \A s \in Slots : /\ Found[s] = IF file[s] # NoFile THEN file[s] ELSE temp[s]
                          /\ s # slot => file[s] # NoFile \/ temp[s] = NoFile
      /\ file' \in Directory => \A s \in Slots :
             Found'[s] = IF file'[s] # NoFile THEN file'[s] ELSE temp'[s]
  BY SaveRenameBegins
<1>2. /\ slot \in Slots /\ content \in Contents
      /\ Found[slot] = NoFile \/ /\ Found[slot].list = content.list
                                 /\ Found[slot].version <= content.version
  BY <1>1, OwnSlot
<1>3. VersionsOf(Found)[content.list] = Found[slot].version
  BY <1>1, OwnVersion
<1>4. /\ file' = [file EXCEPT ![slot] = temp[slot]]
      /\ entries' = [entries EXCEPT ![at].dirty = FALSE]
      /\ saved' = [saved EXCEPT ![content.list] = content.version]
      /\ UNCHANGED failed
  BY DEF SaveSucceeds
<1>5. /\ DOMAIN entries' = DOMAIN entries /\ Len(entries') = Len(entries)
      /\ entries' \in Seq(EntryType) /\ ~entries'[at].dirty
      /\ \A k \in DOMAIN entries :
             /\ entries'[k].slot = entries[k].slot /\ entries'[k].content = entries[k].content
             /\ k # at => entries'[k] = entries[k]
  <2>1. DOMAIN entries' = DOMAIN entries /\ Len(entries') = Len(entries)
    BY <1>1, <1>4
  <2>2. /\ entries'[at] \in EntryType /\ ~entries'[at].dirty
        /\ entries'[at].slot = entries[at].slot /\ entries'[at].content = entries[at].content
    BY <1>1, <1>4 DEF EntryType
  <2>3. \A k \in DOMAIN entries : k # at => entries'[k] = entries[k]
    BY <1>1, <1>4
  <2>4. \A k \in DOMAIN entries : entries'[k] \in EntryType
    BY <1>1, <2>2, <2>3
  <2>5. entries' = [k \in DOMAIN entries |-> entries'[k]]
    BY <1>4
  <2>6. DOMAIN entries = 1 .. Len(entries) /\ Len(entries) \in Nat
    BY <1>1
  <2>7. entries' \in Seq(EntryType)
    BY <2>4, <2>5, <2>6
  <2> QED BY <2>1, <2>2, <2>3, <2>7
<1>6. /\ content.list \in Lists /\ content.version \in Versions /\ content.version >= 0
      /\ content # NoFile
  BY <1>2, ContentFields
<1>7. /\ file' \in Directory /\ file'[slot] = content
      /\ \A s \in Slots : s # slot => file'[s] = file[s]
  BY <1>1, <1>2, <1>4 DEF DirectoryTyped, Directory, Files
<1>8. \A k \in DOMAIN entries : entries[k].slot = slot => k = at
  BY <1>1 DEF Distinct
<1>9. \A k \in DOMAIN entries : entries[k].slot \in Slots
  BY <1>1, OwnSlot
<1>10. Found'[slot] = content /\ \A s \in Slots : s # slot => Found'[s] = Found[s]
  BY <1>1, <1>2, <1>6, <1>7
<1>11. Found' \in Directory
  BY <1>1, <1>7, ImageTyped DEF Found, DirectoryTyped
<1>12. /\ Unique(Found') /\ \A s \in Slots : Found'[s].list \notin gone
       /\ VersionsOf(Found') = [VersionsOf(Found) EXCEPT
                                   ![content.list] = Found'[slot].version]
       /\ \A l \in Lists : l # content.list /\ saved[l] # None =>
              \E s \in Slots : /\ s # slot
                               /\ Found'[s].list = l /\ Found'[s].version >= saved[l]
  BY <1>1, <1>10, <1>11, SlotChanges
<1> HIDE DEF slot, content
<1>13. Typed'
  BY <1>1, <1>4, <1>5, <1>6, <1>7, MaxListsAssumption
     DEF Inductive, Typed, DirectoryTyped, MemoryTyped
<1>14. Control'
  BY <1>1 DEF Control
<1>15. Memory'
  <2>1. Covers(entries, Found) /\ Clean(entries, Found, {})
    BY <1>1 DEF Inductive, Memory
  <2>2. Distinct(entries')
    BY <1>1, <1>5 DEF Distinct
  <2>3. Covers(entries', Found')
    <3> SUFFICES ASSUME NEW s \in Slots, Found'[s] # NoFile
                 PROVE  \E k \in DOMAIN entries :
                           /\ entries[k].slot = s
                           /\ entries[k].content.list = Found'[s].list
                           /\ entries[k].content.version >= Found'[s].version
      BY <1>5 DEF Covers
    <3>1. CASE s # slot
      BY <1>10, <2>1, <3>1 DEF Covers
    <3>2. CASE s = slot
      BY <1>1, <1>6, <1>10, <3>2 DEF slot, content, Versions
    <3> QED BY <3>1, <3>2
  <2>4. Clean(entries', Found', {})
    BY <1>5, <1>8, <1>9, <1>10, <2>1 DEF Clean, slot, content
  <2>5. Alive(entries', gone)
    BY <1>5 DEF Inductive, Memory, Alive
  <2> QED BY <1>1, <2>2, <2>3, <2>4, <2>5 DEF Memory
<1>16. Orphans'
  BY <1>1, <1>6, <1>7 DEF Orphans
<1>17. Halfway'
  BY <1>1 DEF Halfway
<1>18. Progress'
  <2>1. ASSUME caller = "force", ~failed, NEW k \in DOMAIN entries, k < at + 1
        PROVE  ~entries'[k].dirty
    <3>1. k \in Nat /\ at \in Nat
      BY <1>1
    <3>2. k < at \/ k = at
      BY <2>1, <3>1
    <3>3. CASE k = at
      BY <1>5, <3>3
    <3>4. CASE k < at
      BY <1>1, <1>5, <2>1, <3>1, <3>4 DEF Inductive, Progress
    <3> QED BY <3>2, <3>3, <3>4
  <2> QED BY <1>1, <1>4, <1>5, <2>1 DEF Progress
<1>19. Finishable'
  BY <1>1, <1>7, ImagePlain DEF Finishable, DirectoryTyped
<1>20. Kept'
  <2>1. ASSUME NEW l \in Lists, saved'[l] # None
        PROVE  \E s \in Slots : Found'[s].list = l /\ Found'[s].version >= saved'[l]
    <3>1. saved \in [Lists -> Versions \cup {None}]
      BY DEF Inductive, Typed, MemoryTyped
    <3>2. CASE l # content.list
      <4>1. saved'[l] = saved[l]
        BY <1>4, <1>6, <3>1, <3>2
      <4> QED BY <1>12, <2>1, <3>2, <4>1
    <3>3. CASE l = content.list
      <4>1. saved'[l] = content.version
        BY <1>4, <1>6, <3>1, <3>3
      <4> QED BY <1>2, <1>6, <1>10, <3>3, <4>1 DEF Versions
    <3> QED BY <3>2, <3>3
  <2> QED BY <1>1, <1>12, <2>1 DEF Kept
<1>21. content.version >= VersionsOf(Found)[content.list]
  BY <1>2, <1>3, <1>6, MaxVersionAssumption DEF NoFile, None, Versions
<1>22. Inductive'
  BY <1>13, <1>14, <1>15, <1>16, <1>17, <1>18, <1>19, <1>20 DEF Inductive
<1> QED BY <1>4, <1>6, <1>10, <1>12, <1>21, <1>22

\* The .tmp is removed, and with it a version that was never acknowledged.
SaveFails == failed' = TRUE /\ UNCHANGED <<file, entries, saved>>

LEMMA SaveFailsKeeps ==
    ASSUME Inductive, SaveRename, SaveFails
    PROVE  /\ Inductive' /\ saved' = saved
           /\ \/ Found' = Found
              \/ \E l \in Lists :
                    /\ saved[l] = None
                    /\ VersionsOf(Found') = [VersionsOf(Found) EXCEPT ![l] = None]
<1> DEFINE slot == entries[at].slot
           content == entries[at].content
<1>1. /\ pc = "rename" /\ pc' = "save" /\ at' = at + 1
      /\ UNCHANGED <<stage, marker, caller, gone>>
      /\ entries \in Seq(EntryType) /\ Len(entries) <= MaxLists /\ Distinct(entries)
      /\ at \in DOMAIN entries /\ at \in 1 .. MaxLists
      /\ entries[at] \in EntryType /\ entries[at].dirty
      /\ temp[slot] = content
      /\ temp' \in Directory /\ temp'[slot] = NoFile
      /\ \A s \in Slots : s # slot => temp'[s] = temp[s]
      /\ marker = NoMarker /\ Up /\ Up' /\ DirectoryTyped
      /\ caller \in {"timer", "force"} /\ Deleting = {} /\ Deleting' = {}
      /\ \A s \in Slots : /\ Found[s] = IF file[s] # NoFile THEN file[s] ELSE temp[s]
                          /\ s # slot => file[s] # NoFile \/ temp[s] = NoFile
      /\ file' \in Directory => \A s \in Slots :
             Found'[s] = IF file'[s] # NoFile THEN file'[s] ELSE temp'[s]
  BY SaveRenameBegins
<1>2. /\ slot \in Slots /\ content \in Contents
      /\ \A s \in Slots : Found[s].list = content.list => s = slot
      /\ Found[slot] = NoFile \/ Found[slot].list = content.list
  BY <1>1, OwnSlot
<1>3. failed' = TRUE /\ UNCHANGED <<file, entries, saved>>
  BY DEF SaveFails
<1>4. content.list \in Lists /\ content # NoFile
  BY <1>2, ContentFields
<1>5. file' \in Directory
  BY <1>1, <1>3 DEF DirectoryTyped
<1>6. Found'[slot] = file[slot] /\ \A s \in Slots : s # slot => Found'[s] = Found[s]
  BY <1>1, <1>2, <1>3, <1>5
<1>7. Found' \in Directory
  BY <1>1, <1>5, ImageTyped DEF Found, DirectoryTyped
<1>8. file[slot] = NoFile \/ Found[slot] = file[slot]
  BY <1>1, <1>2
<1>9. /\ Unique(Found') /\ \A s \in Slots : Found'[s].list \notin gone
      /\ VersionsOf(Found') = [VersionsOf(Found) EXCEPT
                                  ![content.list] = Found'[slot].version]
      /\ \A l \in Lists : l # content.list /\ saved[l] # None =>
             \E s \in Slots : /\ s # slot
                              /\ Found'[s].list = l /\ Found'[s].version >= saved[l]
  <2>1. Found'[slot] = NoFile \/ Found'[slot].list = content.list
    BY <1>2, <1>6, <1>8
  <2> QED BY <1>1, <1>6, <1>7, <2>1, SlotChanges
<1>10. ASSUME saved[content.list] # None
       PROVE  /\ file[slot] # NoFile
              /\ Found[slot].list = content.list
              /\ Found[slot].version >= saved[content.list]
  <2>1. PICK s \in Slots :
            /\ Found[s].list = content.list /\ Found[s].version >= saved[content.list]
            /\ pc = "rename" /\ s = slot => file[s] # NoFile
    BY <1>4, <1>10 DEF Inductive, Kept
  <2>2. s = slot
    BY <1>2, <2>1
  <2> QED BY <1>1, <2>1, <2>2
<1> HIDE DEF slot, content
<1>11. Typed'
  BY <1>1, <1>3, <1>5, MaxListsAssumption
     DEF Inductive, Typed, DirectoryTyped, MemoryTyped
<1>12. Control'
  BY <1>1 DEF Control
<1>13. Memory'
  <2>1. Covers(entries, Found) /\ Clean(entries, Found, {})
    BY <1>1 DEF Inductive, Memory
  <2>2. Covers(entries, Found')
    BY <1>6, <1>8, <2>1 DEF Covers
  <2>3. Clean(entries, Found', {})
    <3>1. \A k \in DOMAIN entries :
              entries[k].slot \in Slots /\ (entries[k].slot = slot => k = at)
      BY <1>1, OwnSlot DEF Distinct, slot
    <3> QED BY <1>1, <1>6, <2>1, <3>1 DEF Clean
  <2> QED BY <1>1, <1>3, <2>2, <2>3 DEF Inductive, Memory
<1>14. Orphans'
  BY <1>1, <1>3 DEF Orphans
<1>15. Halfway' /\ Progress'
  BY <1>1, <1>3 DEF Halfway, Progress
<1>16. Finishable'
  BY <1>1, <1>3, ImagePlain DEF Finishable, DirectoryTyped
<1>17. Kept'
  <2>1. ASSUME NEW l \in Lists, saved[l] # None
        PROVE  \E s \in Slots : Found'[s].list = l /\ Found'[s].version >= saved[l]
    <3>1. CASE l # content.list
      BY <1>9, <2>1, <3>1
    <3>2. CASE l = content.list
      BY <1>2, <1>6, <1>8, <1>10, <2>1, <3>2
    <3> QED BY <3>1, <3>2
  <2> QED BY <1>1, <1>3, <1>9, <2>1 DEF Kept
<1>18. Inductive'
  BY <1>11, <1>12, <1>13, <1>14, <1>15, <1>16, <1>17 DEF Inductive
<1>19. CASE file[slot] # NoFile
  <2>1. \A s \in Slots : Found'[s] = Found[s]
    BY <1>6, <1>8, <1>19
  <2>2. Found' = Found
    BY <2>1 DEF Found, Image
  <2> QED BY <1>3, <1>18, <2>2
<1>20. CASE file[slot] = NoFile
  <2>1. saved[content.list] = None
    BY <1>10, <1>20
  <2>2. Found'[slot].version = None
    BY <1>6, <1>20 DEF NoFile
  <2> QED BY <1>3, <1>4, <1>9, <1>18, <2>1, <2>2
<1> QED BY <1>19, <1>20

-----------------------------------------------------------------------------
(* The publication of a compaction.                                        *)

Published ==
    /\ marker' = [i \in DOMAIN entries |-> entries[i].slot]
    /\ entries' = [i \in DOMAIN entries |-> [entries[i] EXCEPT !.slot = i - 1]]
    /\ pc' = "recover" /\ at' = 1 /\ UNCHANGED <<stage, caller, failed>>

\* With the marker each list is found in the slot of its position instead of its own.
LEMMA PublishedKeeps ==
    ASSUME Inductive, StagePublish, Published
    PROVE  /\ Inductive' /\ saved' = saved
           /\ VersionsOf(Found') = VersionsOf(Found)
<1>1. /\ pc = "stage" /\ pc' = "recover" /\ at' = 1 /\ Unwritten = {}
      /\ UNCHANGED <<file, temp, stage, saved, gone, caller>>
  BY DEF StagePublish, Published, ghostVars
<1>2. /\ entries \in Seq(EntryType) /\ Len(entries) <= MaxLists /\ Distinct(entries)
      /\ marker = NoMarker /\ caller = "compact" /\ DirectoryTyped /\ at \in Nat
      /\ Up /\ Up' /\ Deleting = {} /\ Deleting' = {}
  BY <1>1 DEF Inductive, Typed, MemoryTyped, Memory, Control, Up, Deleting
<1>3. Len(entries) \in Nat /\ DOMAIN entries = 1 .. Len(entries)
  BY <1>2
<1>4. \A i \in DOMAIN entries :
          /\ entries[i] \in EntryType /\ entries[i].slot \in Slots
          /\ entries[i].content \in Contents /\ entries[i].content # NoFile
          /\ i \in Nat /\ i - 1 \in Slots
  <2> SUFFICES ASSUME NEW i \in DOMAIN entries
               PROVE  /\ entries[i] \in EntryType /\ entries[i].slot \in Slots
                      /\ entries[i].content \in Contents /\ entries[i].content # NoFile
                      /\ i \in Nat /\ i - 1 \in Slots
    OBVIOUS
  <2>1. entries[i] \in EntryType
    BY <1>2
  <2>2. entries[i].slot \in Slots /\ entries[i].content \in Contents
    BY <2>1 DEF EntryType
  <2>3. i \in Nat /\ i - 1 \in Slots
    BY <1>2, <1>3, MaxListsAssumption DEF Slots
  <2> QED BY <2>1, <2>2, <2>3, ContentFields
<1>5. \A s \in Slots : Found[s] = file[s] /\ (file[s] # NoFile \/ temp[s] = NoFile)
  BY <1>1, <1>2, FoundIsFile
<1>6. \A i \in DOMAIN entries : /\ ~entries[i].dirty
                                /\ file[entries[i].slot] = entries[i].content
  <2>1. \A i \in DOMAIN entries : ~entries[i].dirty
    BY <1>1 DEF Inductive, Progress
  <2>2. Clean(entries, Found, {})
    BY <1>2 DEF Inductive, Memory
  <2> QED BY <1>4, <1>5, <2>1, <2>2 DEF Clean
<1>7. \A s \in Slots : file[s] # NoFile => \E i \in DOMAIN entries : entries[i].slot = s
  BY <1>2, <1>5 DEF Inductive, Memory, Covers
<1>8. \A i \in DOMAIN entries : entries[i].slot # i - 1 => stage[i - 1] = entries[i].content
  <2> SUFFICES ASSUME NEW i \in DOMAIN entries, entries[i].slot # i - 1
               PROVE  stage[i - 1] = entries[i].content
    OBVIOUS
  <2>1. ~(i >= at)
    BY <1>1 DEF Unwritten, ToStage
  <2>2. i < at
    BY <1>2, <1>4, <2>1
  <2> QED BY <1>1, <2>2 DEF Inductive, Progress
<1>9. /\ marker' = [i \in DOMAIN entries |-> entries[i].slot]
      /\ entries' = [i \in DOMAIN entries |-> [entries[i] EXCEPT !.slot = i - 1]]
  BY DEF Published
<1>10. /\ marker' \in Seq(Slots) /\ Len(marker') = Len(entries) /\ IsInjective(marker')
       /\ DOMAIN marker' = DOMAIN entries
       /\ \A i \in DOMAIN entries : marker'[i] = entries[i].slot
  <2>1. marker' \in Seq(Slots) /\ Len(marker') = Len(entries)
    BY <1>3, <1>4, <1>9
  <2>2. \A i \in DOMAIN entries : marker'[i] = entries[i].slot
    BY <1>9
  <2>3. IsInjective(marker')
    BY <1>2, <1>9, <2>2 DEF IsInjective, Distinct
  <2> QED BY <1>9, <2>1, <2>2, <2>3
<1>11. /\ DOMAIN entries' = DOMAIN entries /\ Len(entries') = Len(entries)
       /\ entries' \in Seq(EntryType)
       /\ \A i \in DOMAIN entries :
              /\ entries'[i].slot = i - 1 /\ entries'[i].content = entries[i].content
              /\ entries'[i].dirty = entries[i].dirty
  <2>1. \A i \in DOMAIN entries :
            /\ entries'[i] \in EntryType
            /\ entries'[i].slot = i - 1 /\ entries'[i].content = entries[i].content
            /\ entries'[i].dirty = entries[i].dirty
    BY <1>4, <1>9 DEF EntryType
  <2>2. entries' = [i \in 1 .. Len(entries) |-> entries'[i]]
    BY <1>3, <1>9
  <2>3. entries' \in Seq(EntryType)
    BY <1>3, <2>1, <2>2
  <2>4. DOMAIN entries' = DOMAIN entries /\ Len(entries') = Len(entries)
    BY <1>3, <2>2
  <2> QED BY <2>1, <2>3, <2>4
<1>12. \A d : d \in Dest(marker') <=> \E i \in DOMAIN entries : d = i - 1
  <2>1. Dest(marker') = 0 .. Len(entries) - 1
    BY <1>10 DEF Dest
  <2>2. ASSUME NEW d \in 0 .. Len(entries) - 1
        PROVE  \E i \in DOMAIN entries : d = i - 1
    <3>1. d + 1 \in DOMAIN entries /\ d = d + 1 - 1
      BY <1>3
    <3> QED BY <3>1
  <2>3. ASSUME NEW i \in DOMAIN entries PROVE i - 1 \in 0 .. Len(entries) - 1
    BY <1>3
  <2> QED BY <2>1, <2>2, <2>3
<1>13. /\ \A i \in DOMAIN entries : i - 1 \in Moved(marker') <=> entries[i].slot # i - 1
       /\ \A s : s \in Left(marker') <=> /\ \E i \in DOMAIN entries : s = entries[i].slot
                                         /\ s \notin Dest(marker')
  <2>1. \A i \in DOMAIN entries : marker'[i - 1 + 1] = entries[i].slot
    BY <1>4, <1>10
  <2> QED BY <1>12, <2>1 DEF Moved, Left
<1>14. Moved(marker') \subseteq Dest(marker')
  BY DEF Moved
<1>15. /\ \A i \in DOMAIN entries : Found'[i - 1] = entries[i].content
       /\ \A s \in Slots : s \notin Dest(marker') => Found'[s] = NoFile
  <2>1. Found' = Image(file, temp, stage, marker', {})
    BY <1>1, <1>2 DEF Found
  <2>2. ASSUME NEW i \in DOMAIN entries PROVE Found'[i - 1] = entries[i].content
    <3>1. i - 1 \in Slots /\ i - 1 \in Dest(marker') /\ i - 1 \notin Left(marker')
          /\ entries[i].content # NoFile
      BY <1>4, <1>12, <1>13
    <3>2. CASE entries[i].slot = i - 1
      <4>1. file[i - 1] = entries[i].content /\ i - 1 \notin Moved(marker')
        BY <1>6, <1>13, <3>2
      <4> QED BY <2>1, <3>1, <4>1 DEF Image
    <3>3. CASE entries[i].slot # i - 1
      <4>1. stage[i - 1] = entries[i].content /\ i - 1 \in Moved(marker')
        BY <1>8, <1>13, <3>3
      <4> QED BY <2>1, <3>1, <4>1 DEF Image
    <3> QED BY <3>2, <3>3
  <2>3. ASSUME NEW s \in Slots, s \notin Dest(marker') PROVE Found'[s] = NoFile
    <3>1. s \notin Moved(marker')
      BY <1>14, <2>3
    <3>2. CASE s \in Left(marker')
      BY <2>1, <3>1, <3>2 DEF Image
    <3>3. CASE s \notin Left(marker')
      <4>1. file[s] = NoFile /\ temp[s] = NoFile
        BY <1>5, <1>7, <1>13, <2>3, <3>3
      <4> QED BY <2>1, <3>1, <3>3, <4>1 DEF Image
    <3> QED BY <3>2, <3>3
  <2> QED BY <2>2, <2>3
<1>16. Found \in Directory /\ Found' \in Directory /\ Unique(Found)
  BY <1>1, <1>2, ImageTyped DEF Found, DirectoryTyped, Inductive, Kept
<1>17. Unique(Found')
  <2> SUFFICES ASSUME NEW r \in Slots, NEW s \in Slots, r # s,
                      Found'[r].list = Found'[s].list, Found'[r] # NoFile
               PROVE  FALSE
    BY DEF Unique
  <2>1. Found'[s] # NoFile
    BY <1>16, ContentFields DEF Directory
  <2>2. PICK i \in DOMAIN entries : r = i - 1 /\ Found'[r] = entries[i].content
    BY <1>12, <1>15
  <2>3. PICK j \in DOMAIN entries : s = j - 1 /\ Found'[s] = entries[j].content
    BY <1>12, <1>15, <2>1
  <2> QED BY <1>2, <2>2, <2>3 DEF Distinct
<1>18. VersionsOf(Found') = VersionsOf(Found)
  <2>1. \A s \in Slots : Found[s] # NoFile => \E r \in Slots : Found'[r] = Found[s]
    BY <1>4, <1>5, <1>6, <1>7, <1>15
  <2>2. \A s \in Slots : Found'[s] # NoFile => \E r \in Slots : Found[r] = Found'[s]
    BY <1>4, <1>5, <1>6, <1>12, <1>15
  <2> QED BY <1>16, <1>17, <2>1, <2>2, VersionsSame
<1>19. Typed'
  BY <1>1, <1>2, <1>10, <1>11, MaxListsAssumption
     DEF Inductive, Typed, DirectoryTyped, MemoryTyped
<1>20. Control'
  BY <1>1, <1>2 DEF Control
<1>21. Memory'
  <2>1. Distinct(entries')
    BY <1>2, <1>4, <1>11 DEF Distinct
  <2>2. Covers(entries', Found')
    <3> SUFFICES ASSUME NEW s \in Slots, Found'[s] # NoFile
                 PROVE  \E i \in DOMAIN entries :
                           /\ i - 1 = s /\ entries[i].content.list = Found'[s].list
                           /\ entries[i].content.version >= Found'[s].version
      BY <1>11 DEF Covers
    <3>1. PICK i \in DOMAIN entries : s = i - 1 /\ Found'[s] = entries[i].content
      BY <1>12, <1>15
    <3>2. entries[i].content.version \in Int
      BY <1>4, <3>1, ContentFields DEF Versions
    <3> QED BY <3>1, <3>2
  <2>3. Clean(entries', Found', {})
    BY <1>11, <1>15 DEF Clean
  <2>4. Alive(entries', gone)
    BY <1>11 DEF Inductive, Memory, Alive
  <2> QED BY <1>1, <1>2, <2>1, <2>2, <2>3, <2>4 DEF Memory
<1>22. Orphans'
  BY <1>1, <1>5 DEF Orphans
<1>23. Halfway'
  BY <1>1 DEF Halfway
<1>24. Progress'
  BY <1>1, <1>6, <1>11 DEF Progress
<1>25. Finishable'
  <2> SUFFICES ASSUME NEW d \in Dest(marker')
               PROVE  file[d] # NoFile \/ (d \in Moved(marker') /\ stage[d] # NoFile)
    BY <1>1 DEF Finishable
  <2>1. PICK i \in DOMAIN entries : d = i - 1
    BY <1>12
  <2> QED BY <1>4, <1>6, <1>8, <1>13, <2>1
<1>26. Kept'
  <2>1. ASSUME NEW s \in Slots PROVE Found'[s].list \notin gone
    <3>1. CASE s \in Dest(marker')
      BY <1>12, <1>15, <3>1 DEF Inductive, Memory, Alive
    <3>2. CASE s \notin Dest(marker')
      BY <1>15, <3>2, ContentFields DEF Inductive, Typed, MemoryTyped
    <3> QED BY <3>1, <3>2
  <2>2. ASSUME NEW l \in Lists, saved[l] # None
        PROVE  \E s \in Slots : Found'[s].list = l /\ Found'[s].version >= saved[l]
    <3>1. PICK s \in Slots : Found[s].list = l /\ Found[s].version >= saved[l]
      BY <2>2 DEF Inductive, Kept
    <3>2. file[s] # NoFile /\ Found[s] = file[s]
      BY <1>5, <3>1, ContentFields
    <3>3. PICK i \in DOMAIN entries : entries[i].slot = s
      BY <1>7, <3>2
    <3>4. i - 1 \in Slots /\ Found'[i - 1] = Found[s]
      BY <1>4, <1>6, <1>15, <3>2, <3>3
    <3> QED BY <3>1, <3>4
  <2> QED BY <1>1, <1>17, <2>1, <2>2 DEF Kept
<1> QED BY <1>1, <1>18, <1>19, <1>20, <1>21, <1>22, <1>23, <1>24, <1>25, <1>26
        DEF Inductive

\* A marker that cannot be put in place leaves everything as it was.
LEMMA UnpublishedKeeps ==
    ASSUME Inductive, StagePublish, ~Published
    PROVE  Inductive' /\ Found' = Found /\ saved' = saved
<1>1. /\ pc = "stage" /\ UNCHANGED <<file, temp, marker, entries, ghostVars>>
      /\ stage' = WithoutStaged(Len(entries)) /\ Return("idle")
  BY DEF StagePublish, Published
<1>2. marker = NoMarker /\ DirectoryTyped
  BY <1>1 DEF Inductive, Typed, Control
<1>3. stage' \in Directory
  BY <1>1, <1>2, WithoutStagedTyped
<1>4. Control' /\ Progress'
  BY <1>1, <1>2 DEF Control, Progress, Return, Up
<1>5. pc' = "idle" /\ caller' = "load" /\ at' = 1 /\ 1 \in 1 .. MaxLists + 1
  BY <1>1, MaxListsAssumption DEF Return
<1> QED BY <1>1, <1>3, <1>4, <1>5, StageInductive

-----------------------------------------------------------------------------
(* Load.                                                                   *)

\* Where a program starts, the image is what it takes over: all of it is relied on
\* from then on.
LEMMA ScanKeeps ==
    ASSUME Inductive, Scan
    PROVE  Inductive' /\ Found' = Found /\ saved' = VersionsOf(Found)
<1>1. /\ pc = "scan" /\ pc' = "idle" /\ caller' = "load" /\ at' = 1
      /\ UNCHANGED <<stage, marker>>
      /\ file' = [s \in Slots |-> IF file[s] = NoFile THEN temp[s] ELSE file[s]]
      /\ temp' = [s \in Slots |-> IF file[s] = NoFile THEN NoFile ELSE temp[s]]
  BY DEF Scan, Return
<1>2. /\ marker = NoMarker /\ ~Up /\ Up' /\ DirectoryTyped
      /\ Deleting = {} /\ Deleting' = {} /\ gone \subseteq Lists
      /\ saved \in [Lists -> Versions \cup {None}]
  BY <1>1 DEF Inductive, Typed, MemoryTyped, Control, Up, Deleting
<1>3. file' \in Directory /\ temp' \in Directory
  BY <1>1, <1>2 DEF DirectoryTyped, Directory, Files
<1>4. /\ \A s \in Slots : Found[s] = file'[s] /\ Found'[s] = file'[s]
      /\ \A s \in Slots : file'[s] = NoFile => temp'[s] = NoFile
  <2>1. \A s \in Slots : Found[s] = IF file[s] # NoFile THEN file[s] ELSE temp[s]
    BY <1>2, ImagePlain DEF Found, DirectoryTyped
  <2>2. \A s \in Slots : Found'[s] = IF file'[s] # NoFile THEN file'[s] ELSE temp'[s]
    <3>1. Found' = Image(file', temp', stage, NoMarker, {})
      BY <1>1, <1>2 DEF Found
    <3> QED BY <1>2, <1>3, <3>1, ImagePlain DEF DirectoryTyped
  <2>3. \A s \in Slots : /\ file'[s] = IF file[s] = NoFile THEN temp[s] ELSE file[s]
                         /\ temp'[s] = IF file[s] = NoFile THEN NoFile ELSE temp[s]
    BY <1>1
  <2> QED BY <2>1, <2>2, <2>3
<1>5. Found' = Found
  BY <1>4 DEF Found, Image
<1>6. Found \in Directory /\ Unique(Found) /\ \A s \in Slots : Found[s].list \notin gone
  BY <1>2, ImageTyped DEF Found, DirectoryTyped, Inductive, Kept
<1>7. saved' = VersionsOf(Found)
  <2> DEFINE Loaded(l) == {file'[s].version : s \in {r \in Slots : file'[r].list = l}}
  <2>1. saved' = [l \in Lists |-> IF Loaded(l) = {} THEN saved[l] ELSE Max(Loaded(l))]
    BY DEF Scan
  <2>2. ASSUME NEW l \in Lists PROVE saved'[l] = VersionsOf(Found)[l]
    <3>1. CASE \E s \in Slots : Found[s].list = l
      <4>1. PICK s \in Slots : Found[s].list = l
        BY <3>1
      <4>2. Found[s] # NoFile
        BY <4>1, ContentFields
      <4>3. \A r \in Slots : file'[r].list = l => r = s
        BY <1>4, <1>6, <4>1, <4>2 DEF Unique
      <4>4. Loaded(l) = {Found[s].version}
        BY <1>4, <4>1, <4>3
      <4>5. Found[s].version \in Int /\ Found[s].version >= None
        BY <1>6, ContentFields DEF Directory
      <4>6. saved'[l] = Max(Loaded(l))
        BY <2>1, <4>4
      <4> QED BY <1>6, <4>1, <4>2, <4>4, <4>5, <4>6, MaxYields, VersionFound
    <3>2. CASE \A s \in Slots : Found[s].list # l
      <4>1. Loaded(l) = {}
        BY <1>4, <3>2
      <4>2. saved[l] = None
        BY <3>2 DEF Inductive, Kept
      <4>3. saved'[l] = saved[l]
        BY <2>1, <4>1
      <4> QED BY <1>6, <3>2, <4>2, <4>3, VersionAbsent
    <3> QED BY <3>1, <3>2
  <2> QED BY <2>1, <2>2 DEF VersionsOf
<1>8. PICK slots \in BoundedSeq(Slots, MaxLists) :
          /\ InOrder(slots)
          /\ Range(slots) = {s \in Slots : file'[s] # NoFile}
          /\ IF slots = <<>>
             THEN /\ FreshLists # {}
                  /\ entries' = <<FreshEntry(0)>> /\ gone' = gone \ {FreshList}
             ELSE /\ entries' = [i \in DOMAIN slots |-> Entry(slots[i], file'[slots[i]], FALSE)]
                  /\ UNCHANGED gone
  BY DEF Scan
<1>9. PICK n \in 0 .. MaxLists : slots \in [1 .. n -> Slots]
  BY <1>8 DEF BoundedSeq, SeqOf
<1>10. /\ n \in Nat /\ DOMAIN slots = 1 .. n
       /\ \A i \in 1 .. n : slots[i] \in Slots /\ file'[slots[i]] # NoFile
       /\ \A s \in Slots : file'[s] # NoFile => \E i \in 1 .. n : slots[i] = s
       /\ \A i, j \in 1 .. n : i # j => slots[i] # slots[j]
  <2>1. n \in Nat /\ DOMAIN slots = 1 .. n
    BY <1>9, MaxListsAssumption
  <2>2. Range(slots) = {slots[i] : i \in 1 .. n}
    BY <2>1 DEF Range
  <2>3. \A i, j \in 1 .. n : i # j => slots[i] # slots[j]
    <3>1. \A i \in 1 .. n : slots[i] \in Int
      BY <1>9, MaxListsAssumption DEF Slots
    <3>2. \A i, j \in 1 .. n : i < j => slots[i] < slots[j]
      BY <1>8, <2>1 DEF InOrder
    <3> QED BY <2>1, <3>1, <3>2
  <2> QED BY <1>8, <1>9, <2>1, <2>2, <2>3
<1>11. /\ entries' \in Seq(EntryType) /\ Len(entries') <= MaxLists /\ gone' \subseteq gone
       /\ Distinct(entries') /\ Covers(entries', Found) /\ Clean(entries', Found, {})
       /\ Alive(entries', gone')
  <2>1. CASE slots = <<>>
    <3>1. FreshList \in Lists
      BY <1>8, <2>1, FreshYields
    <3>2. /\ FreshEntry(0) \in EntryType /\ FreshEntry(0).dirty
          /\ FreshEntry(0).content.list = FreshList
      <4>1. 0 \in Slots
        BY MaxListsAssumption DEF Slots
      <4> QED BY <3>1, <4>1, FreshTyped
    <3>3. /\ entries' \in Seq(EntryType) /\ Len(entries') = 1 /\ DOMAIN entries' = {1}
          /\ entries'[1] = FreshEntry(0) /\ gone' = gone \ {FreshList}
      <4>1. PICK e \in EntryType : e = FreshEntry(0)
        BY <3>2
      <4>2. entries' = <<e>> /\ gone' = gone \ {FreshList}
        BY <1>8, <2>1, <4>1
      <4>3. entries' \in Seq(EntryType) /\ Len(entries') = 1
        BY <4>1, <4>2
      <4>4. entries'[1] = e /\ DOMAIN entries' = {1}
        BY <4>2
      <4> QED BY <4>1, <4>2, <4>3, <4>4
    <3>4. n = 0 /\ \A s \in Slots : Found[s] = NoFile
      <4>1. n = 0
        BY <1>10, <2>1
      <4> QED BY <1>4, <1>10, <4>1
    <3> QED BY <3>2, <3>3, <3>4, MaxListsAssumption DEF Distinct, Covers, Clean, Alive
  <2>2. CASE slots # <<>>
    <3>1. /\ entries' = [i \in 1 .. n |-> Entry(slots[i], file'[slots[i]], FALSE)]
          /\ gone' = gone
      BY <1>8, <1>10, <2>2
    <3>2. \A i \in 1 .. n : /\ entries'[i].slot = slots[i]
                            /\ entries'[i].content = Found[slots[i]]
                            /\ Found[slots[i]] # NoFile
                            /\ entries'[i] \in EntryType
      <4> SUFFICES ASSUME NEW i \in 1 .. n
                   PROVE  /\ entries'[i].slot = slots[i]
                          /\ entries'[i].content = Found[slots[i]]
                          /\ Found[slots[i]] # NoFile
                          /\ entries'[i] \in EntryType
        OBVIOUS
      <4>1. slots[i] \in Slots /\ file'[slots[i]] = Found[slots[i]] /\ Found[slots[i]] # NoFile
        BY <1>4, <1>10
      <4>2. Found[slots[i]] \in Contents
        BY <1>6, <4>1, ContentFields DEF Directory
      <4>3. entries'[i] = [slot |-> slots[i], content |-> Found[slots[i]], dirty |-> FALSE]
        BY <3>1, <4>1 DEF Entry
      <4> QED BY <4>1, <4>2, <4>3 DEF EntryType
    <3>3. entries' \in Seq(EntryType) /\ Len(entries') = n /\ DOMAIN entries' = 1 .. n
      <4>1. entries' = [i \in 1 .. n |-> entries'[i]]
        BY <3>1
      <4> QED BY <1>10, <3>2, <4>1
    <3>4. Distinct(entries')
      <4> SUFFICES ASSUME NEW i \in 1 .. n, NEW j \in 1 .. n, i # j
                   PROVE  /\ entries'[i].slot # entries'[j].slot
                          /\ entries'[i].content.list # entries'[j].content.list
        BY <3>3 DEF Distinct
      <4>1. slots[i] # slots[j] /\ slots[i] \in Slots /\ slots[j] \in Slots
        BY <1>10
      <4> QED BY <1>6, <3>2, <4>1 DEF Unique
    <3>5. Covers(entries', Found)
      <4> SUFFICES ASSUME NEW s \in Slots, Found[s] # NoFile
                   PROVE  \E i \in 1 .. n :
                             /\ entries'[i].slot = s
                             /\ entries'[i].content.list = Found[s].list
                             /\ entries'[i].content.version >= Found[s].version
        BY <3>3 DEF Covers
      <4>1. PICK i \in 1 .. n : slots[i] = s
        BY <1>4, <1>10
      <4>2. Found[s].version \in Int
        BY <1>6, ContentFields DEF Directory
      <4> QED BY <3>2, <4>1, <4>2
    <3>6. Clean(entries', Found, {})
      BY <3>2, <3>3 DEF Clean
    <3>7. Alive(entries', gone')
      <4>1. \A i \in 1 .. n : Found[slots[i]].list \notin gone
        BY <1>6, <1>10
      <4> QED BY <3>1, <3>2, <3>3, <4>1 DEF Alive
    <3>8. n <= MaxLists
      BY <1>9, MaxListsAssumption
    <3> QED BY <3>1, <3>3, <3>4, <3>5, <3>6, <3>7, <3>8
  <2> QED BY <2>1, <2>2
<1>12. Typed'
  <2>1. \A l \in Lists : saved'[l] \in Versions \cup {None}
    <3> SUFFICES ASSUME NEW l \in Lists PROVE VersionsOf(Found)[l] \in Versions \cup {None}
      BY <1>7
    <3>1. CASE \E s \in Slots : Found[s].list = l
      <4>1. PICK s \in Slots : Found[s].list = l
        BY <3>1
      <4>2. Found[s] # NoFile
        BY <4>1, ContentFields
      <4>3. Found[s].version \in Versions
        BY <1>6, <4>2, ContentFields DEF Directory
      <4> QED BY <1>6, <4>1, <4>2, <4>3, VersionFound
    <3>2. CASE \A s \in Slots : Found[s].list # l
      BY <1>6, <3>2, VersionAbsent
    <3> QED BY <3>1, <3>2
  <2>2. saved' \in [Lists -> Versions \cup {None}]
    BY <1>7, <2>1 DEF VersionsOf
  <2> QED BY <1>1, <1>2, <1>3, <1>11, <2>2, MaxListsAssumption
          DEF Inductive, Typed, DirectoryTyped, MemoryTyped
<1>13. Control'
  BY <1>1, <1>2 DEF Control
<1>14. Memory'
  BY <1>2, <1>5, <1>11 DEF Memory
<1>15. Orphans' /\ Halfway' /\ Progress'
  BY <1>1, <1>4 DEF Orphans, Halfway, Progress
<1>16. Finishable'
  BY <1>1, <1>2, ImagePlain DEF Finishable, DirectoryTyped
<1>17. Kept'
  <2>1. ASSUME NEW l \in Lists, saved'[l] # None
        PROVE  \E s \in Slots : Found[s].list = l /\ Found[s].version >= saved'[l]
    <3>1. PICK s \in Slots : Found[s].list = l
      BY <1>6, <1>7, <2>1, VersionAbsent
    <3>2. Found[s] # NoFile
      BY <3>1, ContentFields
    <3>3. saved'[l] = Found[s].version /\ Found[s].version \in Int
      BY <1>6, <1>7, <3>1, <3>2, VersionFound, ContentFields DEF Directory
    <3> QED BY <3>1, <3>3
  <2> QED BY <1>1, <1>5, <1>6, <1>11, <2>1 DEF Kept
<1> QED BY <1>5, <1>7, <1>12, <1>13, <1>14, <1>15, <1>16, <1>17 DEF Inductive

-----------------------------------------------------------------------------
(* The invariant is inductive, and every step is one of the catalogue.     *)

LEMMA InitInductive ==
    ASSUME Init
    PROVE  Inductive /\ \A s \in Slots : Found[s] = NoFile
<1>1. /\ file = [s \in Slots |-> NoFile] /\ temp = file /\ stage = file
      /\ marker = NoMarker /\ entries = <<>> /\ pc = "down" /\ caller = "load" /\ at = 1
      /\ saved = [l \in Lists |-> None] /\ gone = {}
  BY DEF Init
<1>2. Typed
  <2>1. file \in Directory
    BY <1>1 DEF Directory, Files
  <2>2. marker \in Seq(Slots) /\ Len(marker) = 0 /\ IsInjective(marker)
    BY <1>1 DEF NoMarker, IsInjective
  <2>3. entries \in Seq(EntryType) /\ Len(entries) = 0
    BY <1>1
  <2> QED BY <1>1, <2>1, <2>2, <2>3, MaxListsAssumption DEF Typed, DirectoryTyped, MemoryTyped
<1>3. \A s \in Slots : Found[s] = NoFile
  BY <1>1, <1>2, ImagePlain DEF Found, Typed, DirectoryTyped
<1>4. ~Up /\ Control
  BY <1>1 DEF Up, Control
<1>5. Memory /\ Orphans /\ Halfway /\ Progress
  BY <1>1, <1>4 DEF Memory, Orphans, Halfway, Progress, Distinct, Alive
<1>6. Finishable
  BY <1>1, <1>2, ImagePlain DEF Finishable, Typed, DirectoryTyped
<1>7. Kept
  BY <1>1, <1>3 DEF Kept, Unique
<1> QED BY <1>2, <1>3, <1>4, <1>5, <1>6, <1>7 DEF Inductive

\* What a step does to the versions a restart would find, and to the promises.
CatalogueStep ==
    \/ VersionsOf(Found') = VersionsOf(Found) /\ saved' \in {saved, VersionsOf(Found)}
    \/ \E l \in Lists :
          /\ VersionsOf(Found') = [VersionsOf(Found) EXCEPT ![l] = None]
          /\ \/ saved' = [saved EXCEPT ![l] = None]
             \/ saved[l] = None /\ saved' = saved
    \/ \E l \in Lists, v \in Versions :
          /\ VersionsOf(Found') = [VersionsOf(Found) EXCEPT ![l] = v]
          /\ \/ v >= VersionsOf(Found)[l] /\ saved' = [saved EXCEPT ![l] = v]
             \/ v > VersionsOf(Found)[l] /\ saved' = saved

LEMMA NextKeeps ==
    ASSUME Covered, Inductive, Next
    PROVE  Inductive' /\ CatalogueStep
<1> USE DEF CatalogueStep
<1>1. CASE Start \/ Exit \/ Continue \/ Crash \/ Flush \/ SaveDone
  BY <1>1, StartKeeps, ExitKeeps, ContinueKeeps, CrashKeeps, FlushKeeps, SaveDoneKeeps
<1>2. CASE RecoverStep
  BY <1>2, RecoverMoveKeeps, RecoverMissingNever, RecoverDeleteOldKeeps,
     RecoverDeleteStageKeeps, RecoverDoneKeeps DEF RecoverStep
<1>3. CASE RecoverRefused
  BY <1>3 DEF RecoverRefused, Covered
<1>4. CASE Scan
  BY <1>4, ScanKeeps
<1>5. CASE NewList \/ Edit \/ ReorderList \/ DeleteTemp \/ StageWrite
  BY <1>5, NewListKeeps, EditKeeps, ReorderListKeeps, DeleteTempKeeps, StageWriteKeeps
<1>6. CASE DeleteFile
  BY <1>6, DeleteFileKeeps
<1>7. CASE SaveWrite
  BY <1>7, SaveWriteKeeps
<1>8. CASE SaveRename
  <2>1. SaveSucceeds \/ SaveFails
    BY <1>8 DEF SaveRename, SaveSucceeds, SaveFails
  <2>2. CASE SaveSucceeds
    BY <1>8, <2>2, SaveSucceedsKeeps
  <2>3. CASE SaveFails
    BY <1>8, <2>3, SaveFailsKeeps
  <2> QED BY <2>1, <2>2, <2>3
<1>9. CASE StagePublish
  BY <1>9, PublishedKeeps, UnpublishedKeeps
<1> QED BY <1>1, <1>2, <1>3, <1>4, <1>5, <1>6, <1>7, <1>8, <1>9 DEF Next

LEMMA StutterKeeps ==
    ASSUME Inductive, UNCHANGED vars
    PROVE  Inductive' /\ CatalogueStep
<1> USE DEF vars, diskVars, flushVars, ghostVars
<1>1. Found' = Found /\ Deleting' = Deleting /\ Up' = Up
  BY DEF Found, Deleting, Up
<1>2. Typed' /\ Control'
  BY <1>1 DEF Inductive, Typed, DirectoryTyped, MemoryTyped, Control
<1>3. Memory' /\ Orphans'
  BY <1>1 DEF Inductive, Memory, Orphans
<1>4. Halfway' /\ Progress' /\ Finishable'
  BY DEF Inductive, Halfway, Progress, Finishable
<1>5. Kept'
  BY <1>1 DEF Inductive, Kept
<1>6. CatalogueStep
  BY <1>1 DEF CatalogueStep
<1> QED BY <1>2, <1>3, <1>4, <1>5, <1>6 DEF Inductive

\* Each slot and list, each version of it, each orphan .tmp and staged file is
\* accounted for, whatever the sizes, as long as no recovery is refused and no
\* crash comes between the two removals of Delete.
THEOREM InductiveInvariant ==
    Covered => (Spec => []Inductive)
<1> SUFFICES ASSUME Covered PROVE Spec => []Inductive
  OBVIOUS
<1>1. Init => Inductive
  BY InitInductive
<1>2. Inductive /\ [Next]_vars => Inductive'
  BY NextKeeps, StutterKeeps
<1> QED BY <1>1, <1>2, PTL DEF Spec

-----------------------------------------------------------------------------
(* What follows from it.                                                   *)

FailedTyped == failed \in BOOLEAN

\* failed is only ever set to TRUE or FALSE.
LEMMA FailedBoolean == Spec => []FailedTyped
<1>1. Init => FailedTyped
  BY Zenon DEF Init, FailedTyped
<1>2. FailedTyped /\ [Next]_vars => FailedTyped'
  <2> SUFFICES ASSUME FailedTyped, [Next]_vars PROVE FailedTyped'
    OBVIOUS
  <2>1. failed' = failed \/ failed' = TRUE \/ failed' = FALSE
    BY Zenon
       DEF Next, RecoverStep, Start, RecoverMove, RecoverMissing, RecoverDeleteOld,
           RecoverDeleteStage, RecoverDone, RecoverRefused, RecoverReturns, Return, Scan,
           NewList, Edit, ReorderList, DeleteFile, DeleteTemp, Flush, SaveWrite, SaveRename,
           SaveDone, StageWrite, StagePublish, Exit, Continue, Crash, flushVars, vars
  <2> QED BY <2>1, Zenon DEF FailedTyped
<1> QED BY <1>1, <1>2, PTL DEF Spec

\* Every variable keeps its type; the marker names different slots, and no two lists
\* in memory have the same one (NextOrdinarySlot, StagePublish).
THEOREM TypeCorrect ==
    Covered => (Spec => []TypeOK)
<1> SUFFICES ASSUME Covered PROVE Spec => []TypeOK
  OBVIOUS
<1>1. Inductive /\ FailedTyped => TypeOK
  <2> SUFFICES ASSUME Inductive, FailedTyped PROVE TypeOK
    OBVIOUS
  <2>1. {file, temp, stage} \subseteq [Slots -> Contents \cup {NoFile}]
    BY DEF Inductive, Typed, DirectoryTyped, Directory, Files
  <2>2. marker \in BoundedSeq(Slots, MaxLists) /\ IsInjective(marker)
    <3>1. /\ marker \in Seq(Slots) /\ Len(marker) <= MaxLists /\ IsInjective(marker)
      BY DEF Inductive, Typed, DirectoryTyped
    <3>2. Len(marker) \in 0 .. MaxLists /\ marker \in [1 .. Len(marker) -> Slots]
      BY <3>1, MaxListsAssumption
    <3> QED BY <3>1, <3>2 DEF BoundedSeq, SeqOf
  <2>3. /\ Len(entries) <= MaxLists
        /\ \A i \in DOMAIN entries :
              entries[i] \in [slot : Slots, content : Contents, dirty : BOOLEAN]
        /\ \A i, j \in DOMAIN entries : i # j => entries[i].slot # entries[j].slot
    <3>1. entries \in Seq(EntryType) /\ Len(entries) <= MaxLists /\ Distinct(entries)
      BY DEF Inductive, Typed, MemoryTyped, Memory
    <3>2. \A i \in DOMAIN entries : entries[i] \in EntryType
      BY <3>1
    <3> QED BY <3>1, <3>2 DEF EntryType, Distinct
  <2>4. /\ pc \in {"down", "recover", "scan", "idle", "delete", "save", "rename",
                   "stage", "flushed"}
        /\ caller \in {"load", "timer", "force", "compact"}
        /\ at \in 1 .. MaxLists + 1
        /\ saved \in [Lists -> Versions \cup {None}] /\ gone \subseteq Lists
    BY DEF Inductive, Typed, MemoryTyped
  <2> QED BY <2>1, <2>2, <2>3, <2>4, Zenon DEF TypeOK, FailedTyped
<1> QED BY <1>1, InductiveInvariant, FailedBoolean, PTL

\* A restart at any moment finds no list in two slots, though a compaction copies
\* lists before it removes their old files (CompactSlots, RecoverCompaction).
THEOREM RestartFindsNoListTwice ==
    Covered => (Spec => []NoListTwice)
<1> SUFFICES ASSUME Covered PROVE Spec => []NoListTwice
  OBVIOUS
<1>1. Inductive => NoListTwice
  BY FoundIsRestored DEF Inductive, Kept, Unique, NoListTwice
<1> QED BY <1>1, InductiveInvariant, PTL

\* No deleted list is loaded again, whatever an interrupted save or compaction has left
\* of it (Delete, Load).
THEOREM DeletedListsStayDeleted ==
    Covered => (Spec => []DeletedStaysDeleted)
<1> SUFFICES ASSUME Covered PROVE Spec => []DeletedStaysDeleted
  OBVIOUS
<1>1. Inductive => DeletedStaysDeleted
  BY DEF Inductive, Memory, Alive, DeletedStaysDeleted, EntryLists
<1> QED BY <1>1, InductiveInvariant, PTL

\* When a forced flush reports success slot i holds the list at position i as it is in
\* memory, and no other slot holds anything (FlushDirty).
THEOREM ForcedFlushesAreExact ==
    Covered => (Spec => []ForcedFlushIsExact)
<1> SUFFICES ASSUME Covered PROVE Spec => []ForcedFlushIsExact
  OBVIOUS
<1>1. Inductive => ForcedFlushIsExact
  <2> SUFFICES ASSUME Inductive, pc = "flushed", NEW s \in Slots
               PROVE  Found[s] = IF s < Len(entries) THEN entries[s + 1].content ELSE NoFile
    BY FoundIsRestored DEF ForcedFlushIsExact, Inductive
  <2>1. /\ Up /\ Deleting = {} /\ entries \in Seq(EntryType) /\ s \in Nat
    BY DEF Up, Deleting, Inductive, Typed, MemoryTyped, Slots
  <2>2. /\ Covers(entries, Found) /\ Clean(entries, Found, {})
        /\ \A i \in DOMAIN entries : ~entries[i].dirty /\ entries[i].slot = i - 1
    BY <2>1 DEF Inductive, Memory, Progress
  <2>3. DOMAIN entries = 1 .. Len(entries) /\ Len(entries) \in Nat
    BY <2>1
  <2>4. CASE s < Len(entries)
    <3>1. PICK k \in DOMAIN entries : k = s + 1 /\ k - 1 = s
      BY <2>1, <2>3, <2>4
    <3>2. entries[k].slot = s /\ ~entries[k].dirty
      BY <2>2, <3>1
    <3>3. Found[s] = entries[k].content
      BY <2>2, <3>1, <3>2 DEF Clean
    <3> QED BY <2>4, <3>1, <3>3
  <2>5. CASE ~(s < Len(entries))
    <3>1. \A i \in DOMAIN entries : entries[i].slot # s
      BY <2>1, <2>2, <2>3, <2>5
    <3> QED BY <2>2, <2>5, <3>1 DEF Covers
  <2> QED BY <2>4, <2>5
<1> QED BY <1>1, InductiveInvariant, PTL

\* A list that was saved, or read at start-up, is found again by a restart at any
\* moment, in the saved version or a newer one (FlushDirty, RecoverCompaction).  The
\* exception of NoSavedListLost needs a refused recovery, which Covered leaves out.
THEOREM SavedListsAreKept ==
    Covered => (Spec => []NoSavedListLost)
<1> SUFFICES ASSUME Covered PROVE Spec => []NoSavedListLost
  OBVIOUS
<1>1. Inductive => NoSavedListLost
  <2> SUFFICES ASSUME Inductive, NEW l \in Lists
               PROVE  VersionsOf(Found)[l] >= saved[l]
    BY RestoredIsFound DEF NoSavedListLost, Inductive
  <2>1. Found \in Directory /\ Unique(Found)
    BY ImageTyped DEF Found, Inductive, Typed, DirectoryTyped, Kept
  <2>2. CASE \E s \in Slots : Found[s].list = l
    <3>1. PICK s \in Slots :
              Found[s].list = l /\ (saved[l] # None => Found[s].version >= saved[l])
      BY <2>2 DEF Inductive, Kept
    <3>2. Found[s] # NoFile
      BY <3>1, ContentFields
    <3>3. VersionsOf(Found)[l] = Found[s].version /\ Found[s].version >= None
      BY <2>1, <3>1, <3>2, VersionFound, ContentFields DEF Directory
    <3> QED BY <3>1, <3>3
  <2>3. CASE \A s \in Slots : Found[s].list # l
    <3>1. saved[l] = None
      BY <2>3 DEF Inductive, Kept
    <3> QED BY <2>1, <2>3, <3>1, VersionAbsent DEF None
  <2> QED BY <2>2, <2>3
<1> QED BY <1>1, InductiveInvariant, PTL

\* A published compaction has a file or a staged one for each of its destinations, so
\* that RecoverCompaction never refuses to go on.
THEOREM RecoveriesCanFinish ==
    Covered => (Spec => []RecoveryCanFinish)
<1> SUFFICES ASSUME Covered PROVE Spec => []RecoveryCanFinish
  OBVIOUS
<1>1. Inductive => RecoveryCanFinish
  BY MarkerSets DEF Inductive, Finishable, RecoveryCanFinish
<1> QED BY <1>1, InductiveInvariant, PTL

LEMMA RestoredIsFoundAfter == (Finishable => RestoredVersions = VersionsOf(Found))'
<1>1. Finishable => RestoredVersions = VersionsOf(Found)
  BY RestoredIsFound
<1> QED BY <1>1, PTL

\* The numbered files, the temporary ones and the compaction implement the catalogue:
\* what a restart would find changes only as the user asked for.
THEOREM StoreImplementsCatalogue ==
    Covered => (Spec => ImplementsCatalogue)
<1> SUFFICES ASSUME Covered PROVE Spec => ImplementsCatalogue
  OBVIOUS
<1>1. Init => Catalogue!Init
  <2> SUFFICES ASSUME Init PROVE Catalogue!Init
    OBVIOUS
  <2>1. Inductive /\ \A s \in Slots : Found[s] = NoFile
    BY InitInductive
  <2>2. Found \in Directory
    BY <2>1, ImageTyped DEF Found, Inductive, Typed, DirectoryTyped
  <2>3. \A l \in Lists : VersionsOf(Found)[l] = None
    BY <2>1, <2>2, ContentFields, VersionAbsent
  <2>4. VersionsOf(Found) = [l \in Lists |-> None]
    BY <2>3 DEF VersionsOf
  <2>5. {l \in Lists : saved[l] # None} = {}
    BY DEF Init
  <2>6. RestoredVersions = VersionsOf(Found)
    BY <2>1, RestoredIsFound DEF Inductive
  <2> QED BY <2>4, <2>5, <2>6 DEF Catalogue!Init, Catalogue!None, None
<1>2. Inductive /\ [Next]_vars => [Catalogue!Next]_(Catalogue!vars)
  <2> SUFFICES ASSUME Inductive, [Next]_vars PROVE [Catalogue!Next]_(Catalogue!vars)
    OBVIOUS
  <2>1. Inductive' /\ CatalogueStep
    BY NextKeeps, StutterKeeps
  <2>2. RestoredVersions = VersionsOf(Found)
    BY RestoredIsFound DEF Inductive
  <2>3. RestoredVersions' = VersionsOf(Found')
    <3>1. Finishable'
      BY <2>1 DEF Inductive
    <3> QED BY <3>1, RestoredIsFoundAfter DEF VersionsOf
  <2>4. saved \in [Lists -> Versions \cup {None}]
    BY DEF Inductive, Typed, MemoryTyped
  <2> DEFINE promised == {l \in Lists : saved[l] # None}
  <2>5. CASE VersionsOf(Found') = VersionsOf(Found) /\ saved' \in {saved, VersionsOf(Found)}
    <3>1. CASE saved' = saved
      BY <2>2, <2>3, <2>5, <3>1 DEF Catalogue!vars
    <3>2. CASE saved' = VersionsOf(Found)
      BY <2>2, <2>3, <2>5, <3>2 DEF Catalogue!Next, Catalogue!Open, Catalogue!None, None
    <3> QED BY <2>5, <3>1, <3>2
  <2>6. ASSUME NEW l \in Lists,
               VersionsOf(Found') = [VersionsOf(Found) EXCEPT ![l] = None],
               \/ saved' = [saved EXCEPT ![l] = None]
               \/ saved[l] = None /\ saved' = saved
        PROVE  Catalogue!Next
    <3>1. CASE saved' = [saved EXCEPT ![l] = None]
      <4>1. promised' = promised \ {l}
        BY <2>4, <3>1
      <4>2. Catalogue!Delete(l)
        BY <2>2, <2>3, <2>6, <4>1 DEF Catalogue!Delete, Catalogue!None, None
      <4> QED BY <4>2 DEF Catalogue!Next
    <3>2. CASE saved[l] = None /\ saved' = saved
      <4>1. Catalogue!Withdraw(l)
        BY <2>2, <2>3, <2>6, <3>2 DEF Catalogue!Withdraw, Catalogue!None, None
      <4> QED BY <4>1 DEF Catalogue!Next
    <3> QED BY <2>6, <3>1, <3>2
  <2>7. ASSUME NEW l \in Lists, NEW v \in Versions,
               VersionsOf(Found') = [VersionsOf(Found) EXCEPT ![l] = v],
               \/ v >= VersionsOf(Found)[l] /\ saved' = [saved EXCEPT ![l] = v]
               \/ v > VersionsOf(Found)[l] /\ saved' = saved
        PROVE  Catalogue!Next
    <3>1. CASE v >= VersionsOf(Found)[l] /\ saved' = [saved EXCEPT ![l] = v]
      <4>1. promised' = promised \cup {l}
        <5>1. v # None
          BY MaxVersionAssumption DEF Versions, None
        <5> QED BY <2>4, <3>1, <5>1
      <4>2. Catalogue!Commit(l, v)
        BY <2>2, <2>3, <2>7, <3>1, <4>1 DEF Catalogue!Commit
      <4> QED BY <4>2 DEF Catalogue!Next
    <3>2. CASE v > VersionsOf(Found)[l] /\ saved' = saved
      <4>1. Catalogue!Write(l, v)
        BY <2>2, <2>3, <2>7, <3>2 DEF Catalogue!Write
      <4> QED BY <4>1 DEF Catalogue!Next
    <3> QED BY <2>7, <3>1, <3>2
  <2> QED BY <2>1, <2>5, <2>6, <2>7 DEF CatalogueStep
<1> QED BY <1>1, <1>2, InductiveInvariant, PTL DEF Spec, ImplementsCatalogue, Catalogue!Spec

=============================================================================
