-------------------------- MODULE HttpCacheTaskProofs --------------------------
(***************************************************************************)
(* Proofs about HttpCacheTask, for any number of consumers, every length   *)
(* of the resource, every size of the window and every server.             *)
(***************************************************************************)
EXTENDS HttpCacheTask, WellFoundedInduction, TLAPS

-----------------------------------------------------------------------------
(* Types.                                                                  *)

Places == {"connect", "elect", "ready", "decide", "pump", "ending", "done"}

Disks == UNION {[S -> (0..2) \X Nat] : S \in SUBSET Nat}

Task ==
    [list : Seq(Consumers), pc : Places, start : 0..(Size - 1), request : 0..2,
     at : 0..Size, end : {None, Size}, entity : 0..2,
     covered : SUBSET (0..(Size - 1)), disk : Disks,
     total : (0..Size) \cup {None}, ranged : BOOLEAN, sequential : BOOLEAN,
     spool : Nat \cup {None}, restart : BOOLEAN, stopping : BOOLEAN,
     accepting : BOOLEAN, ready : BOOLEAN, shareable : BOOLEAN,
     owner : Consumers \cup {Nobody}, done : BOOLEAN,
     error : {"none", "canceled", "failed", "large"}, retries : 0..1]

Errors == {"none", "canceled", "failed", "large", "local", "lost", "eof"}

Calls == {"opening", "idle", "reading", "buffering"}

Consumer ==
    [pc : Calls \cup {"out", "closed"}, active : BOOLEAN, canceled : BOOLEAN,
     position : 0..Size, demand : (0..Size) \cup {None},
     error : Errors]

-----------------------------------------------------------------------------
(* The inductive invariant.                                                *)

\* A resource without a validator, and a live stream, is asked for once: there
\* is nothing to compare a second response with.
Plain == ~env.validated \/ env.kind = "live"

\* What is covered: the window of a live stream, the whole prefix of a response
\* that cannot be resumed.
CoverOK(t) ==
    /\ t.sequential => /\ env.kind = "live" /\ ~t.shareable
                       /\ t.covered = {p \in 0..(t.at - 1) : p >= t.at - Capacity}
    /\ Plain /\ ~t.sequential => t.covered = 0..(t.at - 1)
    /\ t.spool # None => t.ready /\ ~t.sequential

\* A request is for the entity that was opened, and only a resource with a
\* validator is asked for again.
RequestOK(t) ==
    /\ t.request # 0 => t.request = t.entity
    /\ t.pc = "pump" => t.request # 0
    /\ t.ranged \/ t.restart => ~Plain /\ ~Opening(t)
    /\ Plain /\ ~Opening(t) => t.pc # "connect"
    /\ Plain /\ t.pc \in {"elect", "ready", "decide"} /\ t.request = 0 =>
           t.total = t.at

\* Until a resource is opened nothing is known; then a file has a length, and a
\* live stream gets one at its end.
OpenOK(t) ==
    /\ Opening(t) =>
           /\ t.pc \in {"connect", "ending", "done"}
           /\ t.pc = "connect" =>
                 /\ t.start = 0 /\ t.at = 0 /\ t.covered = {} /\ t.total = None
                 /\ ~t.sequential /\ ~t.ready /\ ~t.shareable
    /\ env.kind = "file" /\ ~Opening(t) => t.total = Size /\ t.end = Size
    /\ env.kind = "live" =>
           /\ t.end = None
           /\ t.total # None => /\ t.total = t.at /\ t.request = 0
                                /\ t.pc \in {"decide", "ending", "done"}
    /\ t.ready => t.pc \notin {"elect", "ready"}
    /\ t.sequential /\ t.pc = "elect" => t.at = 0

\* The worker ends with an error that has a cause, or with everything.
EndOK(t) ==
    /\ t.error # "none" => t.pc \in {"ending", "done"}
    /\ t.done => t.pc = "done"
    /\ t.pc \in {"ending", "done"} /\ t.error = "none" =>
           /\ t.total # None
           /\ IF t.sequential THEN t.total = t.at
              ELSE \A p \in 0..(t.total - 1) : p \in t.covered
    /\ t.error = "canceled" => t.stopping

DiskOK(t) ==
    \A p \in t.covered :
        /\ DiskPosition(t, p) \in DOMAIN t.disk
        /\ t.disk[DiskPosition(t, p)] = <<t.entity, p>>

Distinct(list) == \A i, j \in DOMAIN list : list[i] = list[j] => i = j

\* Who is in the list is in a call or between two; who is not active was
\* canceled by its owner; a task that stops has nobody left.
LeasesOK(t, cl) ==
    /\ Distinct(t.list)
    /\ \A c \in Consumers : InList(t, c) <=> cl[c].pc \in Calls
    /\ \A c \in Consumers : InList(t, c) /\ ~cl[c].active => cl[c].canceled
    /\ \A c \in Consumers : cl[c].pc = "out" => cl[c].active
    /\ \A c \in Consumers : cl[c].error = "canceled" => cl[c].canceled
    /\ t.stopping => /\ ~t.accepting
                     /\ \A c \in Consumers : InList(t, c) => ~cl[c].active

\* A consumer that reads has opened the resource, alone if it is live.
ReadersOK(t, cl) ==
    /\ \A c \in Consumers :
          cl[c].pc \in {"idle", "reading", "buffering"} =>
              t.ready /\ (t.shareable \/ t.owner = c)
    /\ \A c \in Consumers : cl[c].pc = "buffering" => ~t.sequential

Forwards(t) == t.sequential /\ t.owner # Nobody /\ "rewind" \notin env.may

\* The window keeps what its owner has not read, with room for a buffer before
\* the transport reads one.
WindowOK(t, cl) ==
    Forwards(t) =>
        cl[t.owner].position >= t.at - (IF t.pc = "pump" THEN Capacity - 1
                                        ELSE Capacity)

\* Nothing fails without a cause, of its own or of the task.
Excused(t, error) ==
    \/ error \in {"none", "canceled"}
    \/ error = "large" /\ t.error = "large"
    \/ error = "local" /\ "local" \in env.may
    \/ error \in {"lost", "eof"} /\ "rewind" \in env.may

Blamed(t, cl) ==
    \/ faulty
    \/ /\ t.error # "failed"
       /\ t.error = "large" => Exceeds(t)
       /\ \A c \in Consumers : Excused(t, cl[c].error)

TaskOK(t) == CoverOK(t) /\ RequestOK(t) /\ OpenOK(t) /\ EndOK(t) /\ DiskOK(t)

ClientsOK(t, cl) == LeasesOK(t, cl) /\ ReadersOK(t, cl) /\ WindowOK(t, cl)

Typed ==
    /\ env \in Environments
    /\ entity \in 1..2
    /\ task \in Task
    /\ clients \in [Consumers -> Consumer]
    /\ faulty \in BOOLEAN

Inductive ==
    Typed /\ TaskOK(task) /\ ClientsOK(task, clients) /\ Blamed(task, clients)

-----------------------------------------------------------------------------
(* Least elements: what the model's Min and CHOOSE find.                   *)

LEMMA LeastNat ==
    ASSUME NEW T, T \subseteq Nat, T # {}
    PROVE  \E m \in T : \A k \in T : m <= k
<1>1. PICK m \in T : \A y \in T : ~(<<y, m>> \in OpToRel(<, Nat))
  <2>1. IsWellFoundedOn(OpToRel(<, Nat), Nat)
    BY NatLessThanWellFounded
  <2> QED BY <2>1, WFMin, Zenon
<1>2. \A y \in T : ~(y < m)
  BY <1>1 DEF OpToRel
<1> QED BY <1>2

LEMMA MinYields ==
    ASSUME NEW T, T \subseteq Nat, T # {}
    PROVE  Min(T) \in T
<1>1. \E m \in T : \A k \in T : m <= k
  BY LeastNat
<1> QED BY <1>1 DEF Min

LEMMA TaskFields ==
    ASSUME NEW t \in Task
    PROVE  /\ t.list \in Seq(Consumers) /\ t.pc \in Places
           /\ t.start \in 0..(Size - 1) /\ t.request \in 0..2
           /\ t.at \in 0..Size /\ t.end \in {None, Size}
           /\ t.entity \in 0..2 /\ t.covered \subseteq 0..(Size - 1)
           /\ t.disk \in Disks /\ t.total \in (0..Size) \cup {None}
           /\ t.owner \in Consumers \cup {Nobody}
           /\ t.error \in {"none", "canceled", "failed", "large"} /\ t.retries \in 0..1
BY DEF Task

LEMMA TaskFlags ==
    ASSUME NEW t \in Task
    PROVE  /\ t.ranged \in BOOLEAN /\ t.sequential \in BOOLEAN
           /\ t.spool \in Nat \cup {None} /\ t.restart \in BOOLEAN
           /\ t.stopping \in BOOLEAN /\ t.accepting \in BOOLEAN
           /\ t.ready \in BOOLEAN /\ t.shareable \in BOOLEAN
           /\ t.done \in BOOLEAN
BY DEF Task

LEMMA ConsumerFields ==
    ASSUME NEW k \in Consumer
    PROVE  /\ k.pc \in Calls \cup {"out", "closed"}
           /\ k.active \in BOOLEAN /\ k.canceled \in BOOLEAN
           /\ k.position \in 0..Size /\ k.demand \in (0..Size) \cup {None}
           /\ k.error \in Errors
BY DEF Consumer

LEMMA Numbers ==
    /\ Size \in Nat /\ Size > 0 /\ Capacity \in Nat /\ Capacity > 0
    /\ Consumers \subseteq Nat /\ 1 \in Consumers /\ Nobody \notin Consumers
    /\ None \notin Nat
BY CacheAssumption DEF None, Nobody

\* What is after a covered prefix is the first position that is not covered.
LEMMA AfterCoveredYields ==
    ASSUME NEW t \in Task, NEW p \in 0..Size
    PROVE  LET q == AfterCovered(t, p)
           IN  /\ q \in p..Size
               /\ q \notin t.covered
               /\ \A r \in p..(q - 1) : r \in t.covered
<1> DEFINE Free == {q \in p..Size : q \notin t.covered}
<1>1. Size \in Nat /\ p \in Nat /\ p <= Size /\ t.covered \subseteq 0..(Size - 1)
  BY Numbers, TaskFields
<1>2. Size \in Free /\ Free \subseteq Nat
  BY <1>1
<1>3. PICK m \in Free : \A k \in Free : m <= k
  <2> HIDE DEF Free
  <2> QED BY <1>2, LeastNat
<1>4. m \in p..(Size + p) /\ m \notin t.covered
  BY <1>1, <1>3
<1>5. \A r \in p..(m - 1) : r \in t.covered
  BY <1>1, <1>3
<1>6. \E q \in p..(Size + p) :
          q \notin t.covered /\ \A r \in p..(q - 1) : r \in t.covered
  BY <1>4, <1>5
<1> DEFINE q == AfterCovered(t, p)
<1>7. /\ q \in p..(Size + p) /\ q \notin t.covered
      /\ \A r \in p..(q - 1) : r \in t.covered
  BY <1>6 DEF AfterCovered
<1> HIDE DEF q
<1>8. q <= Size
  <2> SUFFICES ASSUME q > Size PROVE FALSE
    BY <1>1, <1>7
  <2>1. Size \in p..(q - 1)
    BY <1>1, <1>7
  <2>2. Size \in t.covered
    BY <1>7, <2>1
  <2> QED BY <1>1, <2>2
<1> QED BY <1>1, <1>7, <1>8 DEF q

\* The position a consumer waits for is inside the resource and missing.
LEMMA DemandYields ==
    ASSUME NEW t \in Task, NEW cl \in [Consumers -> Consumer]
    PROVE  LET d == Demand(t, cl)
           IN  d # None => /\ d \in 0..Size /\ d \notin t.covered
                           /\ t.total # None => d < t.total
<1> DEFINE active == ActiveIn(t, cl)
           players == {i \in active : Playback(t.list[i])}
           waiting == {i \in IF players # {} THEN players ELSE active :
                          LET d == cl[t.list[i]].demand
                          IN  /\ d # None /\ d \notin t.covered
                              /\ t.total # None => d < t.total}
<1>1. Demand(t, cl) = IF waiting = {} THEN None ELSE cl[t.list[Min(waiting)]].demand
  BY DEF Demand
<1>2. waiting \subseteq DOMAIN t.list
  BY DEF ActiveIn
<1>3. t.list \in Seq(Consumers)
  BY TaskFields
<1>4. DOMAIN t.list \subseteq Nat
  BY <1>3
<1>5. CASE waiting # {}
  <2> DEFINE i == Min(waiting)
  <2>1. i \in waiting
    BY <1>2, <1>4, <1>5, MinYields
  <2>2. i \in DOMAIN t.list /\ t.list[i] \in Consumers
    <3> HIDE DEF waiting, i
    <3> QED BY <1>2, <1>3, <2>1
  <2>3. cl[t.list[i]].demand \in (0..Size) \cup {None}
    BY <2>2, ConsumerFields
  <2> QED BY <1>1, <1>5, <2>1, <2>3
<1> QED BY <1>1, <1>5

-----------------------------------------------------------------------------
(* The list of consumers.                                                  *)

LEMMA RemoveAtYields ==
    ASSUME NEW S, NEW s \in Seq(S), NEW i \in DOMAIN s
    PROVE  LET r == RemoveAt(s, i)
           IN  /\ r \in Seq(S) /\ Len(r) = Len(s) - 1
               /\ \A k \in 1..Len(r) : r[k] = IF k < i THEN s[k] ELSE s[k + 1]
<1>1. i \in 1..Len(s) /\ Len(s) \in Nat
  OBVIOUS
<1> DEFINE a == SubSeq(s, 1, i - 1)
           b == SubSeq(s, i + 1, Len(s))
<1>2. /\ a \in Seq(S) /\ Len(a) = i - 1
      /\ \A k \in 1..(i - 1) : a[k] = s[k]
  BY <1>1
<1>3. /\ b \in Seq(S) /\ Len(b) = Len(s) - i
      /\ \A k \in 1..(Len(s) - i) : b[k] = s[k + i]
  BY <1>1
<1>4. RemoveAt(s, i) = a \o b
  BY DEF RemoveAt
<1> HIDE DEF a, b
<1>5. a \o b \in Seq(S) /\ Len(a \o b) = Len(s) - 1
  BY <1>1, <1>2, <1>3
<1>6. ASSUME NEW k \in 1..(Len(s) - 1)
      PROVE  (a \o b)[k] = IF k < i THEN s[k] ELSE s[k + 1]
  <2>1. (a \o b)[k] = IF k <= i - 1 THEN a[k] ELSE b[k - (i - 1)]
    BY <1>1, <1>2, <1>3, SMTT(30)
  <2>2. CASE k < i
    BY <1>1, <1>2, <2>1, <2>2
  <2>3. CASE k >= i
    <3>1. k - (i - 1) \in 1..(Len(s) - i) /\ k - (i - 1) + i = k + 1
      BY <1>1, <2>3
    <3>2. b[k - (i - 1)] = s[k + 1]
      BY <1>3, <3>1
    <3> QED BY <1>1, <2>1, <2>3, <3>2
  <2>4. k < i \/ k >= i
    BY <1>1
  <2> QED BY <2>2, <2>3, <2>4
<1> QED BY <1>4, <1>5, <1>6

\* Removing the only place of an element removes just that element.
LEMMA RemovedFrom ==
    ASSUME NEW S, NEW s \in Seq(S), NEW i \in DOMAIN s, Distinct(s)
    PROVE  LET r == RemoveAt(s, i)
           IN  /\ Distinct(r)
               /\ \A d \in S : (\E k \in DOMAIN r : r[k] = d) <=>
                                (\E k \in DOMAIN s : s[k] = d) /\ d # s[i]
<1> DEFINE r == RemoveAt(s, i)
<1>1. /\ r \in Seq(S) /\ Len(r) = Len(s) - 1
      /\ \A k \in 1..Len(r) : r[k] = IF k < i THEN s[k] ELSE s[k + 1]
  BY RemoveAtYields
<1> HIDE DEF r
<1>2. i \in 1..Len(s) /\ Len(s) \in Nat /\ DOMAIN r = 1..(Len(s) - 1)
      /\ DOMAIN s = 1..Len(s)
  BY <1>1
<1> DEFINE At(k) == IF k < i THEN k ELSE k + 1
<1>3. \A k \in DOMAIN r : At(k) \in DOMAIN s /\ At(k) # i /\ r[k] = s[At(k)]
  BY <1>1, <1>2
<1>4. \A j, k \in DOMAIN r : At(j) = At(k) => j = k
  BY <1>2
<1>5. \A m \in DOMAIN s : m # i => \E k \in DOMAIN r : At(k) = m
  <2> TAKE m \in DOMAIN s
  <2> HAVE m # i
  <2>1. CASE m < i
    <3>1. m \in DOMAIN r /\ At(m) = m
      BY <1>2, <2>1
    <3> QED BY <3>1
  <2>2. CASE m > i
    <3>1. m - 1 \in DOMAIN r /\ At(m - 1) = m
      BY <1>2, <2>2
    <3> QED BY <3>1
  <2> QED BY <1>2, <2>1, <2>2
<1> HIDE DEF At
<1>6. Distinct(r)
  BY <1>3, <1>4 DEF Distinct
<1>7. ASSUME NEW d \in S
      PROVE  (\E k \in DOMAIN r : r[k] = d) <=>
             (\E k \in DOMAIN s : s[k] = d) /\ d # s[i]
  BY <1>3, <1>5 DEF Distinct
<1> QED BY <1>6, <1>7 DEF r

LEMMA AppendedTo ==
    ASSUME NEW S, NEW s \in Seq(S), NEW c \in S, Distinct(s),
           ~\E i \in DOMAIN s : s[i] = c
    PROVE  LET r == Append(s, c)
           IN  /\ r \in Seq(S) /\ Distinct(r)
               /\ \A d \in S : (\E k \in DOMAIN r : r[k] = d) <=>
                                (\E k \in DOMAIN s : s[k] = d) \/ d = c
<1> DEFINE r == Append(s, c)
<1>1. /\ r \in Seq(S) /\ Len(r) = Len(s) + 1 /\ r[Len(s) + 1] = c
      /\ \A k \in 1..Len(s) : r[k] = s[k]
  OBVIOUS
<1> HIDE DEF r
<1>2. Len(s) \in Nat /\ DOMAIN r = 1..(Len(s) + 1) /\ DOMAIN s = 1..Len(s)
  BY <1>1
<1>3. \A k \in DOMAIN r : (k \in DOMAIN s /\ r[k] = s[k]) \/ k = Len(s) + 1
  BY <1>1, <1>2
<1>4. DOMAIN s \subseteq DOMAIN r /\ Len(s) + 1 \in DOMAIN r
  BY <1>2
<1>5. Distinct(r)
  BY <1>1, <1>3 DEF Distinct
<1>6. \A d \in S : (\E k \in DOMAIN r : r[k] = d) <=>
                    (\E k \in DOMAIN s : s[k] = d) \/ d = c
  BY <1>1, <1>2, <1>3, <1>4
<1> QED BY <1>1, <1>5, <1>6 DEF r

\* Who leaves is the only one that leaves, and the last one stops the task.
LEMMA LeftYields ==
    ASSUME NEW t \in Task, NEW cl, NEW c \in Consumers, InList(t, c),
           Distinct(t.list)
    PROVE  /\ Left(t, cl, c) \in Task /\ Distinct(Left(t, cl, c).list)
           /\ \A d \in Consumers : InList(Left(t, cl, c), d) <=>
                                    InList(t, d) /\ d # c
           /\ \/ /\ \E d \in Consumers : InList(t, d) /\ d # c /\ cl[d].active
                 /\ Left(t, cl, c).accepting = t.accepting
                 /\ Left(t, cl, c).stopping = t.stopping
              \/ /\ \A d \in Consumers : InList(t, d) /\ d # c => ~cl[d].active
                 /\ Left(t, cl, c).accepting = FALSE
                 /\ Left(t, cl, c).stopping = TRUE
<1> DEFINE i == CHOOSE i \in DOMAIN t.list : t.list[i] = c
           list == RemoveAt(t.list, i)
           remaining == \E k \in DOMAIN list : cl[list[k]].active
           r == Left(t, cl, c)
<1>1. t.list \in Seq(Consumers) /\ i \in DOMAIN t.list /\ t.list[i] = c
  BY TaskFields DEF InList
<1>2. r = [t EXCEPT !.list = list, !.accepting = @ /\ remaining,
                    !.stopping = @ \/ ~remaining]
  BY DEF Left
<1> HIDE DEF i
<1>3. list \in Seq(Consumers)
  BY <1>1, RemoveAtYields
<1>4. /\ Distinct(list)
      /\ \A d \in Consumers : (\E k \in DOMAIN list : list[k] = d) <=>
                (\E k \in DOMAIN t.list : t.list[k] = d) /\ d # t.list[i]
  BY <1>1, RemovedFrom
<1>5. \A d \in Consumers : (\E k \in DOMAIN list : list[k] = d) <=>
                            InList(t, d) /\ d # c
  BY <1>1, <1>4 DEF InList
<1>6. \A k \in DOMAIN list : list[k] \in Consumers
  BY <1>3
<1>7. remaining <=> \E d \in Consumers : InList(t, d) /\ d # c /\ cl[d].active
  BY <1>5, <1>6
<1>8. CASE remaining
  <2>1. t.accepting \in BOOLEAN /\ t.stopping \in BOOLEAN
    BY TaskFlags
  <2>2. r = [t EXCEPT !.list = list, !.accepting = t.accepting,
                      !.stopping = t.stopping]
    BY <1>2, <1>8, <2>1 DEF Task
  <2> HIDE DEF r, list, remaining
  <2>3. /\ r \in Task /\ r.list = list /\ r.accepting = t.accepting
        /\ r.stopping = t.stopping
    BY <1>3, <2>2 DEF Task
  <2> QED BY <1>4, <1>5, <1>7, <1>8, <2>3 DEF InList, r
<1>9. CASE ~remaining
  <2>1. r = [t EXCEPT !.list = list, !.accepting = FALSE, !.stopping = TRUE]
    BY <1>2, <1>9 DEF Task
  <2> HIDE DEF r, list, remaining
  <2>2. /\ r \in Task /\ r.list = list /\ r.accepting = FALSE
        /\ r.stopping = TRUE
    BY <1>3, <2>1 DEF Task
  <2>3. \A d \in Consumers : InList(t, d) /\ d # c => ~cl[d].active
    BY <1>7, <1>9
  <2> QED BY <1>4, <1>5, <2>2, <2>3 DEF InList, r
<1> QED BY <1>8, <1>9

LEMMA LeftSame ==
    ASSUME NEW t \in Task, NEW cl, NEW c
    PROVE  LET r == Left(t, cl, c)
           IN  /\ r.owner = t.owner /\ r.sequential = t.sequential
               /\ r.shareable = t.shareable /\ r.covered = t.covered
               /\ r.at = t.at /\ r.spool = t.spool /\ r.ready = t.ready
               /\ r.request = t.request /\ r.entity = t.entity
               /\ r.pc = t.pc /\ r.ranged = t.ranged
               /\ r.restart = t.restart /\ r.total = t.total
               /\ r.start = t.start /\ r.end = t.end /\ r.error = t.error
               /\ r.done = t.done /\ r.disk = t.disk
BY DEF Left, Task

-----------------------------------------------------------------------------
(* What the steps have in common.                                          *)

LEMMA InductiveFrom ==
    ASSUME Inductive, NEW t \in Task, NEW cl \in [Consumers -> Consumer],
           task' = t, clients' = cl, env' = env, entity' \in 1..2,
           faulty' \in BOOLEAN,
           TaskOK(t), ClientsOK(t, cl),
           faulty' \/ (~faulty /\ Blamed(t, cl))
    PROVE  Inductive'
<1>1. Typed'
  BY DEF Inductive, Typed
<1>2. TaskOK(task)'
  BY DEF TaskOK, CoverOK, RequestOK, OpenOK, EndOK, DiskOK, Plain, Opening,
         DiskPosition
<1>3. ClientsOK(task, clients)'
  BY DEF ClientsOK, LeasesOK, ReadersOK, WindowOK, Forwards, InList, Distinct
<1>4. Blamed(task, clients)'
  BY DEF Blamed, Excused, Exceeds
<1> QED BY <1>1, <1>2, <1>3, <1>4 DEF Inductive

\* A task that only differs in its list, its owner and whether it stops.
LEMMA SameTask ==
    ASSUME NEW t, NEW r, TaskOK(t), t.stopping => r.stopping,
           r.sequential = t.sequential, r.shareable = t.shareable,
           r.covered = t.covered, r.at = t.at, r.spool = t.spool,
           r.ready = t.ready, r.request = t.request, r.entity = t.entity,
           r.pc = t.pc, r.ranged = t.ranged, r.restart = t.restart,
           r.total = t.total, r.start = t.start, r.end = t.end,
           r.error = t.error, r.done = t.done, r.disk = t.disk
    PROVE  TaskOK(r)
BY DEF TaskOK, CoverOK, RequestOK, OpenOK, EndOK, DiskOK, Opening, DiskPosition

\* A step of the worker that the consumers do not notice.
LEMMA SameClients ==
    ASSUME NEW t \in Task, NEW r, NEW cl \in [Consumers -> Consumer],
           ClientsOK(t, cl),
           r.list = t.list, r.stopping = t.stopping, r.accepting = t.accepting,
           r.shareable = t.shareable, r.owner = t.owner,
           r.sequential = t.sequential, t.ready => r.ready, r.at = t.at \/ ~r.sequential,
           r.pc = "pump" => t.pc = "pump" \/ ~Forwards(r)
                            \/ cl[r.owner].position >= r.at - (Capacity - 1)
    PROVE  ClientsOK(r, cl)
<1>1. LeasesOK(r, cl) /\ ReadersOK(r, cl)
  BY DEF ClientsOK, LeasesOK, ReadersOK, InList
<1>2. WindowOK(r, cl)
  <2> SUFFICES ASSUME Forwards(r)
               PROVE  cl[r.owner].position >=
                          r.at - (IF r.pc = "pump" THEN Capacity - 1 ELSE Capacity)
    BY DEF WindowOK
  <2>1. t.owner \in Consumers /\ Forwards(t) /\ t.at \in Nat /\ r.at = t.at
    BY TaskFields, Numbers DEF Forwards
  <2>2. cl[t.owner].position \in Nat
    <3>1. cl[t.owner] \in Consumer
      BY <2>1
    <3>2. cl[t.owner].position \in 0..Size
      BY <3>1, ConsumerFields
    <3> QED BY <3>2
  <2>3. cl[t.owner].position >=
            t.at - (IF t.pc = "pump" THEN Capacity - 1 ELSE Capacity)
    BY <2>1 DEF ClientsOK, WindowOK
  <2> QED BY <2>1, <2>2, <2>3, Numbers
<1> QED BY <1>1, <1>2 DEF ClientsOK

\* What polling the callbacks makes of the consumers.
LEMMA PolledYields ==
    ASSUME NEW t, NEW cl \in [Consumers -> Consumer]
    PROVE  /\ Polled(t, cl) \in [Consumers -> Consumer]
           /\ \A c \in Consumers :
                 LET k == Polled(t, cl)[c]
                 IN  /\ k.pc = cl[c].pc /\ k.position = cl[c].position
                     /\ k.canceled = cl[c].canceled
                     /\ k.active => cl[c].active
                     /\ cl[c].active /\ ~k.active => cl[c].canceled /\ InList(t, c)
                     /\ \/ k.error = cl[c].error
                        \/ k.error = "canceled" /\ cl[c].canceled
<1> SUFFICES ASSUME NEW c \in Consumers
             PROVE  LET k == Polled(t, cl)[c]
                    IN  /\ k \in Consumer
                        /\ k.pc = cl[c].pc /\ k.position = cl[c].position
                        /\ k.canceled = cl[c].canceled
                        /\ k.active => cl[c].active
                        /\ cl[c].active /\ ~k.active =>
                               cl[c].canceled /\ InList(t, c)
                        /\ \/ k.error = cl[c].error
                           \/ k.error = "canceled" /\ cl[c].canceled
  BY DEF Polled
<1> DEFINE k == Polled(t, cl)[c]
<1>1. k = IF InList(t, c) /\ cl[c].active /\ cl[c].canceled
          THEN [cl[c] EXCEPT !.active = FALSE, !.error = "canceled"]
          ELSE cl[c]
  BY DEF Polled
<1>2. cl[c] \in Consumer
  OBVIOUS
<1> HIDE DEF k
<1>3. CASE InList(t, c) /\ cl[c].active /\ cl[c].canceled
  <2>1. k = [cl[c] EXCEPT !.active = FALSE, !.error = "canceled"]
    BY <1>1, <1>3
  <2>2. k \in Consumer /\ k.active = FALSE /\ k.error = "canceled"
        /\ k.pc = cl[c].pc /\ k.position = cl[c].position
        /\ k.canceled = cl[c].canceled
    BY <1>2, <2>1 DEF Consumer, Errors
  <2> QED BY <1>3, <2>2 DEF k
<1>4. CASE ~(InList(t, c) /\ cl[c].active /\ cl[c].canceled)
  BY <1>1, <1>2, <1>4 DEF k
<1> QED BY <1>3, <1>4

LEMMA PolledKeeps ==
    ASSUME NEW t, NEW cl \in [Consumers -> Consumer],
           ClientsOK(t, cl), Blamed(t, cl), t.owner \in Consumers \cup {Nobody}
    PROVE  ClientsOK(t, Polled(t, cl)) /\ Blamed(t, Polled(t, cl))
<1> DEFINE r == Polled(t, cl)
<1>1. \A c \in Consumers :
          /\ r[c].pc = cl[c].pc /\ r[c].position = cl[c].position
          /\ r[c].canceled = cl[c].canceled
          /\ r[c].active => cl[c].active
          /\ cl[c].active /\ ~r[c].active => cl[c].canceled /\ InList(t, c)
          /\ \/ r[c].error = cl[c].error
             \/ r[c].error = "canceled" /\ cl[c].canceled
  BY PolledYields
<1> HIDE DEF r
<1>2. LeasesOK(t, r)
  BY <1>1 DEF ClientsOK, LeasesOK, Calls
<1>3. ReadersOK(t, r)
  BY <1>1 DEF ClientsOK, ReadersOK
<1>4. WindowOK(t, r)
  BY <1>1 DEF ClientsOK, WindowOK, Forwards
<1>5. Blamed(t, r)
  BY <1>1 DEF Blamed, Excused
<1> QED BY <1>2, <1>3, <1>4, <1>5 DEF ClientsOK, r

\* The worker's guard stops the task when nobody is left.
LEMMA GuardedKeeps ==
    ASSUME NEW t \in Task, NEW cl \in [Consumers -> Consumer],
           TaskOK(t), ClientsOK(t, cl)
    PROVE  LET g == Guarded(t, cl)
           IN  /\ g \in Task /\ TaskOK(g) /\ ClientsOK(g, cl)
               /\ g.pc = t.pc /\ g.error = t.error /\ g.request = t.request
               /\ g.restart = t.restart /\ g.entity = t.entity
               /\ g.spool = t.spool
               /\ g.at = t.at /\ g.total = t.total /\ g.ready = t.ready
               /\ g.sequential = t.sequential /\ g.owner = t.owner
               /\ t.stopping => g.stopping
<1> DEFINE g == Guarded(t, cl)
           r == [t EXCEPT !.accepting = FALSE, !.stopping = TRUE]
<1>1. CASE \E c \in Consumers : InList(t, c) /\ cl[c].active
  <2>1. g = t
    BY <1>1 DEF Guarded
  <2> QED BY <2>1
<1>2. CASE ~\E c \in Consumers : InList(t, c) /\ cl[c].active
  <2>1. g = r
    BY <1>2 DEF Guarded
  <2>2. /\ r \in Task /\ r.list = t.list /\ r.stopping = TRUE
        /\ r.accepting = FALSE /\ r.owner = t.owner
        /\ r.sequential = t.sequential /\ r.shareable = t.shareable
        /\ r.covered = t.covered /\ r.at = t.at /\ r.spool = t.spool
        /\ r.ready = t.ready /\ r.request = t.request /\ r.entity = t.entity
        /\ r.pc = t.pc /\ r.ranged = t.ranged /\ r.restart = t.restart
        /\ r.total = t.total /\ r.start = t.start /\ r.end = t.end
        /\ r.error = t.error /\ r.done = t.done /\ r.disk = t.disk
    BY DEF Task
  <2> HIDE DEF g, r
  <2>3. TaskOK(r)
    BY <2>2, SameTask
  <2>4. LeasesOK(r, cl)
    BY <1>2, <2>2 DEF ClientsOK, LeasesOK, InList
  <2>5. ReadersOK(r, cl) /\ WindowOK(r, cl)
    BY <2>2 DEF ClientsOK, ReadersOK, WindowOK, Forwards
  <2>6. ClientsOK(r, cl)
    BY <2>4, <2>5 DEF ClientsOK
  <2> QED BY <2>1, <2>2, <2>3, <2>6 DEF g
<1> QED BY <1>1, <1>2

-----------------------------------------------------------------------------
(* The worker.                                                             *)

\* A request that fails is repeated after a seek, and ends the task otherwise.
LEMMA FailedYields ==
    ASSUME NEW t \in Task, NEW cl \in [Consumers -> Consumer],
           TaskOK(t), ClientsOK(t, cl), t.pc \in {"connect", "pump"},
           NEW result \in {"canceled", "failed", "large"},
           result = "canceled" => t.restart \/ GuardFails(t)
    PROVE  LET r == Failed(t, cl, result)
           IN  /\ r \in Task /\ TaskOK(r) /\ ClientsOK(r, cl)
               /\ t.error = "none" /\ r.error \in {"none", result}
               /\ r.at = t.at /\ r.spool = t.spool
<1> DEFINE g == Guarded(t, cl)
           r == Failed(t, cl, result)
<1>1. /\ g \in Task /\ TaskOK(g) /\ ClientsOK(g, cl)
      /\ g.pc = t.pc /\ g.error = t.error /\ g.entity = t.entity
      /\ g.restart = t.restart /\ g.at = t.at /\ g.spool = t.spool
      /\ t.stopping => g.stopping
  BY GuardedKeeps
<1>2. r = IF result = "canceled" /\ t.restart /\ ~Opening(t) /\ ~GuardFails(g)
          THEN [g EXCEPT !.request = 0, !.pc = "decide"]
          ELSE [g EXCEPT !.request = 0, !.error = result, !.pc = "ending"]
  BY DEF Failed
<1> HIDE DEF g, r
<1>3. t.error = "none" /\ ~g.done
  BY <1>1, TaskFields DEF TaskOK, EndOK
<1>4. t.restart => ~Plain /\ ~Opening(t)
  BY DEF TaskOK, RequestOK
<1>5. CASE result = "canceled" /\ t.restart /\ ~Opening(t) /\ ~GuardFails(g)
  <2>1. r = [g EXCEPT !.request = 0, !.pc = "decide"]
    BY <1>2, <1>5
  <2>2. /\ r \in Task /\ r.list = g.list /\ r.stopping = g.stopping
        /\ r.accepting = g.accepting /\ r.owner = g.owner
        /\ r.sequential = g.sequential /\ r.shareable = g.shareable
        /\ r.covered = g.covered /\ r.at = g.at /\ r.spool = g.spool
        /\ r.ready = g.ready /\ r.request = 0 /\ r.entity = g.entity
        /\ r.pc = "decide" /\ r.ranged = g.ranged /\ r.restart = g.restart
        /\ r.total = g.total /\ r.start = g.start /\ r.end = g.end
        /\ r.error = g.error /\ r.done = g.done /\ r.disk = g.disk
    <3>1. g \in Task /\ "decide" \in Places /\ "ending" \in Places
      BY <1>1 DEF Places
    <3>2. 0 \in 0..2
      OBVIOUS
    <3> QED BY <2>1, <3>1, <3>2 DEF Task
  <2>3. ~Plain /\ ~Opening(r)
    BY <1>1, <1>4, <1>5, <2>2 DEF Opening
  <2>4. CoverOK(r) /\ DiskOK(r)
    BY <1>1, <2>2 DEF TaskOK, CoverOK, DiskOK, DiskPosition
  <2>5. RequestOK(r) /\ OpenOK(r)
    BY <1>1, <2>2, <2>3 DEF TaskOK, RequestOK, OpenOK, Opening, Plain
  <2>6. EndOK(r)
    BY <1>1, <1>3, <2>2 DEF EndOK
  <2>7. ClientsOK(r, cl)
    BY <1>1, <2>2, SameClients
  <2> QED BY <1>1, <1>3, <2>2, <2>4, <2>5, <2>6, <2>7 DEF TaskOK, r
<1>6. CASE ~(result = "canceled" /\ t.restart /\ ~Opening(t) /\ ~GuardFails(g))
  <2>1. r = [g EXCEPT !.request = 0, !.error = result, !.pc = "ending"]
    BY <1>2, <1>6
  <2>2. /\ r \in Task /\ r.list = g.list /\ r.stopping = g.stopping
        /\ r.accepting = g.accepting /\ r.owner = g.owner
        /\ r.sequential = g.sequential /\ r.shareable = g.shareable
        /\ r.covered = g.covered /\ r.at = g.at /\ r.spool = g.spool
        /\ r.ready = g.ready /\ r.request = 0 /\ r.entity = g.entity
        /\ r.pc = "ending" /\ r.ranged = g.ranged /\ r.restart = g.restart
        /\ r.total = g.total /\ r.start = g.start /\ r.end = g.end
        /\ r.error = result /\ r.done = g.done /\ r.disk = g.disk
    <3>1. g \in Task /\ "decide" \in Places /\ "ending" \in Places
      BY <1>1 DEF Places
    <3>2. 0 \in 0..2
      OBVIOUS
    <3> QED BY <2>1, <3>1, <3>2 DEF Task
  <2>3. result = "canceled" => g.stopping
    <3>1. t.restart => g.stopping \/ result # "canceled"
      BY <1>1, <1>3, <1>4, <1>6 DEF GuardFails
    <3>2. ~t.restart => g.stopping \/ result # "canceled"
      BY <1>1, <1>3 DEF GuardFails
    <3> QED BY <3>1, <3>2
  <2>4. CoverOK(r) /\ DiskOK(r)
    BY <1>1, <2>2 DEF TaskOK, CoverOK, DiskOK, DiskPosition
  <2>5. RequestOK(r) /\ OpenOK(r)
    BY <1>1, <2>2 DEF TaskOK, RequestOK, OpenOK, Opening
  <2>6. EndOK(r)
    BY <1>1, <1>3, <2>2, <2>3 DEF EndOK
  <2>7. ClientsOK(r, cl)
    BY <1>1, <2>2, SameClients
  <2> QED BY <1>1, <1>3, <2>2, <2>4, <2>5, <2>6, <2>7 DEF TaskOK, r
<1> QED BY <1>5, <1>6

LEMMA CurrentOK ==
    ASSUME Inductive
    PROVE  /\ env \in Environments /\ EnvironmentOK(env) /\ entity \in 1..2
           /\ task \in Task /\ clients \in [Consumers -> Consumer]
           /\ faulty \in BOOLEAN
           /\ TaskOK(task) /\ ClientsOK(task, clients) /\ Blamed(task, clients)
           /\ task.owner \in Consumers \cup {Nobody}
BY CacheAssumption, TaskFields DEF Inductive, Typed

LEMMA PollCanceledKeeps ==
    ASSUME Inductive, PollCanceled
    PROVE  Inductive'
<1> DEFINE cl == Polled(task, clients)
           t == Guarded(task, cl)
<1>1. task' = t /\ clients' = cl /\ UNCHANGED <<env, entity, faulty>>
  BY DEF PollCanceled, WorkerStep
<1>2. cl \in [Consumers -> Consumer] /\ ClientsOK(task, cl) /\ Blamed(task, cl)
  BY CurrentOK, PolledYields, PolledKeeps
<1> HIDE DEF cl
<1>3. t \in Task /\ TaskOK(t) /\ ClientsOK(t, cl) /\ t.error = task.error
      /\ t.at = task.at /\ t.spool = task.spool
  BY <1>2, CurrentOK, GuardedKeeps
<1> HIDE DEF t
<1>4. faulty \/ Blamed(t, cl)
  BY <1>2, <1>3 DEF Blamed, Excused, Exceeds
<1> QED BY <1>1, <1>2, <1>3, <1>4, CurrentOK, InductiveFrom

\* A failed step of the transport, canceled or with a cause.
LEMMA FailKeeps ==
    ASSUME Inductive, NEW u \in Task, TaskOK(u), ClientsOK(u, clients),
           Blamed(u, clients), u.pc \in {"connect", "pump"},
           NEW result \in {"canceled", "failed", "large"},
           result = "large" => Exceeds(u),
           result = "canceled" => u.restart \/ GuardFails(u),
           Fail(u, result),
           faulty' = IF result = "failed" THEN TRUE ELSE faulty
    PROVE  Inductive'
<1> DEFINE cl == Polled(u, clients)
           t == Failed(u, cl, result)
<1>1. task' = t /\ clients' = cl /\ UNCHANGED <<env, entity>>
  BY DEF Fail, WorkerStep
<1>2. cl \in [Consumers -> Consumer] /\ ClientsOK(u, cl) /\ Blamed(u, cl)
  BY CurrentOK, PolledYields, PolledKeeps, TaskFields
<1> HIDE DEF cl
<1>3. t \in Task /\ TaskOK(t) /\ ClientsOK(t, cl)
      /\ u.error = "none" /\ t.error \in {"none", result}
      /\ t.at = u.at /\ t.spool = u.spool
  BY <1>2, FailedYields
<1> HIDE DEF t
<1>4. faulty' \/ (~faulty /\ Blamed(t, cl))
  BY <1>2, <1>3 DEF Blamed, Excused, Exceeds
<1> QED BY <1>1, <1>2, <1>3, <1>4, CurrentOK, InductiveFrom

LEMMA RequestCanceledKeeps ==
    ASSUME Inductive, RequestCanceled
    PROVE  Inductive'
BY CurrentOK, FailKeeps DEF RequestCanceled

LEMMA RequestFailsKeeps ==
    ASSUME Inductive, RequestFails
    PROVE  Inductive'
BY CurrentOK, FailKeeps DEF RequestFails

LEMMA WorkerFileFailsKeeps ==
    ASSUME Inductive, WorkerFileFails
    PROVE  Inductive'
BY CurrentOK, FailKeeps DEF WorkerFileFails

\* The fields of a response that is of the right entity.
LEMMA ResponseYields ==
    ASSUME NEW t \in Task, NEW partial \in BOOLEAN, entity \in 1..2,
           EnvironmentOK(env)
    PROVE  LET r == Response(t, partial)
           IN  /\ r \in Task /\ r.list = t.list /\ r.stopping = t.stopping
               /\ r.accepting = t.accepting /\ r.owner = t.owner
               /\ r.sequential = t.sequential /\ r.shareable = t.shareable
               /\ r.covered = t.covered /\ r.spool = t.spool
               /\ r.at = (IF partial THEN t.start ELSE 0)
               /\ r.ready = t.ready /\ r.request = entity /\ r.entity = t.entity
               /\ r.pc = t.pc /\ (r.ranged <=> partial /\ env.validated)
               /\ r.restart = t.restart
               /\ r.total = (IF env.kind = "file" THEN Size ELSE t.total)
               /\ r.start = t.start
               /\ r.end = (IF env.kind = "file" THEN Size ELSE None)
               /\ r.error = t.error /\ r.done = t.done /\ r.disk = t.disk
<1> DEFINE at == IF partial THEN t.start ELSE 0
           end == IF env.kind = "file" THEN Size ELSE None
           total == IF env.kind = "file" THEN Size ELSE t.total
           ranged == partial /\ env.validated
           r == Response(t, partial)
<1>1. r = [t EXCEPT !.request = entity, !.at = at, !.end = end,
                    !.total = total, !.ranged = ranged]
  BY DEF Response, Task
<1>2. /\ entity \in 0..2 /\ at \in 0..Size /\ end \in {None, Size}
      /\ total \in (0..Size) \cup {None} /\ ranged \in BOOLEAN
  BY TaskFields, Numbers DEF EnvironmentOK
<1>3. ranged <=> partial /\ env.validated
  OBVIOUS
<1> HIDE DEF at, end, total, ranged, r
<1>4. /\ r \in Task /\ r.list = t.list /\ r.stopping = t.stopping
      /\ r.accepting = t.accepting /\ r.owner = t.owner
      /\ r.sequential = t.sequential /\ r.shareable = t.shareable
      /\ r.covered = t.covered /\ r.spool = t.spool /\ r.at = at
      /\ r.ready = t.ready /\ r.request = entity /\ r.entity = t.entity
      /\ r.pc = t.pc /\ r.ranged = ranged /\ r.restart = t.restart
      /\ r.total = total /\ r.start = t.start /\ r.end = end
      /\ r.error = t.error /\ r.done = t.done /\ r.disk = t.disk
  BY <1>1, <1>2 DEF Task
<1> QED BY <1>3, <1>4 DEF at, end, total, r

\* A request that was repeated has its response.
LEMMA ReconnectedYields ==
    ASSUME NEW t \in Task, NEW cl \in [Consumers -> Consumer],
           TaskOK(t), ClientsOK(t, cl), t.pc = "connect", ~Opening(t),
           NEW partial \in BOOLEAN, entity \in 1..2, EnvironmentOK(env),
           env.validated => entity = t.entity
    PROVE  LET r == [Response(t, partial) EXCEPT !.pc = "decide"]
           IN  r \in Task /\ TaskOK(r) /\ ClientsOK(r, cl) /\ r.error = t.error
<1> DEFINE u == Response(t, partial)
           r == [u EXCEPT !.pc = "decide"]
<1>1. ~Plain
  BY DEF TaskOK, RequestOK
<1>2. env.kind = "file" /\ entity = t.entity /\ ~t.sequential
  BY <1>1 DEF EnvironmentOK, Plain, TaskOK, CoverOK
<1>3. /\ u \in Task /\ u.list = t.list /\ u.stopping = t.stopping
      /\ u.accepting = t.accepting /\ u.owner = t.owner
      /\ u.sequential = t.sequential /\ u.shareable = t.shareable
      /\ u.covered = t.covered /\ u.spool = t.spool
      /\ u.ready = t.ready /\ u.request = entity /\ u.entity = t.entity
      /\ u.restart = t.restart /\ u.total = Size /\ u.end = Size
      /\ u.error = t.error /\ u.done = t.done /\ u.disk = t.disk
  BY <1>2, ResponseYields
<1> HIDE DEF u
<1>4. /\ r \in Task /\ r.list = u.list /\ r.stopping = u.stopping
      /\ r.accepting = u.accepting /\ r.owner = u.owner
      /\ r.sequential = u.sequential /\ r.shareable = u.shareable
      /\ r.covered = u.covered /\ r.spool = u.spool
      /\ r.ready = u.ready /\ r.request = u.request /\ r.entity = u.entity
      /\ r.pc = "decide" /\ r.restart = u.restart
      /\ r.total = u.total /\ r.end = u.end
      /\ r.error = u.error /\ r.done = u.done /\ r.disk = u.disk
  <2>1. "decide" \in Places
    BY DEF Places
  <2> QED BY <1>3, <2>1 DEF Task
<1> HIDE DEF r
<1>5. CoverOK(r) /\ DiskOK(r)
  BY <1>1, <1>2, <1>3, <1>4 DEF TaskOK, CoverOK, DiskOK, DiskPosition
<1>6. RequestOK(r) /\ OpenOK(r)
  BY <1>1, <1>2, <1>3, <1>4 DEF RequestOK, OpenOK, Opening
<1>7. EndOK(r)
  BY <1>3, <1>4 DEF TaskOK, EndOK
<1>8. ClientsOK(r, cl)
  BY <1>2, <1>3, <1>4, SameClients
<1> QED BY <1>3, <1>4, <1>5, <1>6, <1>7, <1>8 DEF TaskOK, r, u

LEMMA FirstYields ==
    ASSUME NEW u \in Task, NEW v \in 0..2, NEW live \in BOOLEAN
    PROVE  LET o == [u EXCEPT !.entity = v, !.pc = "elect",
                              !.sequential = live]
           IN  /\ o \in Task /\ o.list = u.list /\ o.stopping = u.stopping
               /\ o.accepting = u.accepting /\ o.owner = u.owner
               /\ o.sequential = live /\ o.shareable = u.shareable
               /\ o.spool = u.spool /\ o.at = u.at
               /\ o.ready = u.ready /\ o.request = u.request /\ o.entity = v
               /\ o.pc = "elect" /\ o.ranged = u.ranged
               /\ o.restart = u.restart /\ o.total = u.total
               /\ o.end = u.end /\ o.error = u.error /\ o.done = u.done
<1>1. "elect" \in Places
  BY DEF Places
<1> QED BY <1>1 DEF Task

\* What the persistent cache has is of the entity that was opened, and a live
\* stream starts empty.
LEMMA OpenedYields ==
    ASSUME NEW t \in Task, NEW cl \in [Consumers -> Consumer],
           TaskOK(t), ClientsOK(t, cl), t.pc = "connect", Opening(t),
           NEW partial \in BOOLEAN, entity \in 1..2, EnvironmentOK(env),
           partial => env.kind = "file", SameEntity(t)
    PROVE  LET r == Loaded([Response(t, partial) EXCEPT
                               !.entity = entity, !.pc = "elect",
                               !.sequential = env.kind = "live"])
           IN  r \in Task /\ TaskOK(r) /\ ClientsOK(r, cl) /\ r.error = t.error
<1> DEFINE u == Response(t, partial)
           live == env.kind = "live"
           o == [u EXCEPT !.entity = entity, !.pc = "elect", !.sequential = live]
           S == IF env.validated /\ ~live THEN env.stored ELSE {}
           disk == [p \in S |-> <<entity, p>>]
           request == IF S = 0..(Size - 1) THEN 0 ELSE entity
           r == Loaded(o)
<1>1. /\ t.start = 0 /\ t.at = 0 /\ t.covered = {} /\ t.total = None
      /\ ~t.sequential /\ ~t.ready /\ ~t.shareable /\ ~t.restart /\ t.spool = None
      /\ t.error = "none" /\ ~t.done
  BY TaskFields DEF TaskOK, OpenOK, RequestOK, EndOK, CoverOK
<1>2. /\ u \in Task /\ u.list = t.list /\ u.stopping = t.stopping
      /\ u.accepting = t.accepting /\ u.owner = t.owner
      /\ u.sequential = t.sequential /\ u.shareable = t.shareable
      /\ u.spool = t.spool /\ u.at = 0
      /\ u.ready = t.ready /\ u.request = entity
      /\ (u.ranged <=> partial /\ env.validated) /\ u.restart = t.restart
      /\ u.total = (IF env.kind = "file" THEN Size ELSE None)
      /\ u.end = (IF env.kind = "file" THEN Size ELSE None)
      /\ u.error = t.error /\ u.done = t.done
  BY <1>1, ResponseYields
<1>3. live \in BOOLEAN /\ (~live => env.kind = "file") /\ (live => env.kind # "file")
  BY DEF EnvironmentOK
<1> HIDE DEF u
<1>4. /\ o \in Task /\ o.list = u.list /\ o.stopping = u.stopping
      /\ o.accepting = u.accepting /\ o.owner = u.owner
      /\ o.sequential = live /\ o.shareable = u.shareable
      /\ o.spool = u.spool /\ o.at = u.at
      /\ o.ready = u.ready /\ o.request = u.request /\ o.entity = entity
      /\ o.pc = "elect" /\ o.ranged = u.ranged /\ o.restart = u.restart
      /\ o.total = u.total /\ o.end = u.end
      /\ o.error = u.error /\ o.done = u.done
  <2>2. live \in BOOLEAN /\ entity \in 0..2 /\ u \in Task
    BY <1>2
  <2>3. PICK b \in BOOLEAN : b = live
    BY <2>2
  <2>4. o = [u EXCEPT !.entity = entity, !.pc = "elect", !.sequential = b]
    BY <2>3
  <2> HIDE DEF o, live
  <2>5. PICK v \in 0..2 : v = entity
    BY <2>2
  <2>6. o = [u EXCEPT !.entity = v, !.pc = "elect", !.sequential = b]
    BY <2>4, <2>5
  <2>7. o \in Task
    BY <2>2, <2>6, FirstYields
  <2>8. o.sequential = b
    BY <2>2, <2>6 DEF Task
  <2>9. /\ o.list = u.list /\ o.stopping = u.stopping
        /\ o.accepting = u.accepting /\ o.owner = u.owner
        /\ o.shareable = u.shareable
        /\ o.spool = u.spool /\ o.at = u.at
        /\ o.ready = u.ready /\ o.request = u.request /\ o.entity = v
        /\ o.pc = "elect" /\ o.ranged = u.ranged /\ o.restart = u.restart
        /\ o.total = u.total /\ o.end = u.end
        /\ o.error = u.error /\ o.done = u.done
    BY <2>2, <2>6 DEF Task
  <2> QED BY <2>3, <2>7, <2>8, <2>9, <2>5
<1> HIDE DEF o
<1>5. r = [o EXCEPT !.covered = S, !.disk = disk, !.request = request]
  <2>1. S = IF env.validated /\ ~o.sequential THEN env.stored ELSE {}
    BY <1>4
  <2>2. o.entity = entity /\ o.request = entity /\ o \in Task
    BY <1>2, <1>4
  <2>3. r = [o EXCEPT !.covered = S, !.disk = [p \in S |-> <<o.entity, p>>],
                      !.request = IF S = 0..(Size - 1) THEN 0 ELSE o.request]
    <3> HIDE DEF S
    <3> QED BY <2>1, <2>2 DEF Loaded, Task
  <2> QED BY <2>2, <2>3
<1>6. S \subseteq 0..(Size - 1) /\ (Plain => S = {})
  BY <1>3 DEF EnvironmentOK, Plain
<1>7. request \in {0, entity} /\ (S = {} => request = entity)
  <2>1. 0 \in 0..(Size - 1)
    BY Numbers
  <2> QED BY <2>1
<1>8. disk \in Disks
  <2>1. S \in SUBSET Nat
    BY <1>6, Numbers
  <2>2. disk \in [S -> (0..2) \X Nat]
    BY <2>1
  <2> QED BY <2>1, <2>2 DEF Disks
<1>9. DOMAIN disk = S /\ \A p \in S : disk[p] = <<entity, p>>
  OBVIOUS
<1> HIDE DEF S, disk, request, r
<1>10. /\ r \in Task /\ r.list = o.list /\ r.stopping = o.stopping
       /\ r.accepting = o.accepting /\ r.owner = o.owner
       /\ r.sequential = o.sequential /\ r.shareable = o.shareable
       /\ r.covered = S /\ r.spool = o.spool /\ r.at = o.at
       /\ r.ready = o.ready /\ r.request = request /\ r.entity = o.entity
       /\ r.pc = o.pc /\ r.ranged = o.ranged /\ r.restart = o.restart
       /\ r.total = o.total /\ r.end = o.end
       /\ r.error = o.error /\ r.done = o.done /\ r.disk = disk
  <2>1. request \in 0..2
    BY <1>7
  <2> QED BY <1>4, <1>5, <1>6, <1>8, <2>1 DEF Task
<1>11. r.at = 0 /\ r.sequential = live /\ r.pc = "elect" /\ r.entity = entity
       /\ r.ready = t.ready /\ r.shareable = t.shareable /\ r.owner = t.owner
       /\ r.list = t.list /\ r.stopping = t.stopping /\ r.accepting = t.accepting
  BY <1>2, <1>4, <1>10
<1>12. CoverOK(r)
  <2>1. 0..(0 - 1) = {} /\ {p \in 0..(0 - 1) : p >= 0 - Capacity} = {}
    BY Numbers
  <2>2. r.spool = None /\ ~r.shareable
    <3> HIDE DEF r, o, u
    <3> QED BY <1>1, <1>2, <1>4, <1>10
  <2>4. r.sequential <=> env.kind = "live"
    BY <1>4, <1>10
  <2>3. r.sequential => S = {}
    BY <1>6, <2>4 DEF Plain
  <2> QED BY <1>6, <1>10, <1>11, <2>1, <2>2, <2>3, <2>4 DEF CoverOK
<1>13. RequestOK(r)
  <2>1. r.ranged => ~Plain
    BY <1>2, <1>4, <1>10 DEF Plain
  <2>2. ~Opening(r) /\ ~r.restart
    BY <1>1, <1>2, <1>4, <1>10 DEF Opening
  <2>3. Plain => r.request = entity /\ r.request # 0
    BY <1>6, <1>7, <1>10
  <2> QED BY <1>7, <1>10, <1>11, <2>1, <2>2, <2>3 DEF RequestOK
<1>14. OpenOK(r)
  <2>1. ~Opening(r)
    BY <1>11 DEF Opening
  <2>2. r.total = (IF env.kind = "file" THEN Size ELSE None)
        /\ r.end = (IF env.kind = "file" THEN Size ELSE None)
    BY <1>2, <1>4, <1>10
  <2> QED BY <1>1, <1>11, <2>1, <2>2 DEF OpenOK
<1>15. EndOK(r)
  BY <1>1, <1>2, <1>4, <1>10 DEF EndOK
<1>16. DiskOK(r)
  <2>1. CASE live
    BY <1>6, <1>10, <2>1 DEF DiskOK, Plain
  <2>2. CASE ~live
    BY <1>9, <1>10, <1>11, <2>2 DEF DiskOK, DiskPosition
  <2> QED BY <2>1, <2>2
<1>17. ClientsOK(r, cl)
  <2>1. LeasesOK(r, cl)
    BY <1>11 DEF ClientsOK, LeasesOK, InList
  <2>2. ReadersOK(r, cl)
    BY <1>1, <1>11 DEF ClientsOK, ReadersOK
  <2>3. WindowOK(r, cl)
    <3> SUFFICES ASSUME Forwards(r)
                 PROVE  cl[r.owner].position >= 0 - Capacity
      BY <1>11 DEF WindowOK
    <3>1. r.owner \in Consumers
      BY <1>10, TaskFields DEF Forwards
    <3>2. cl[r.owner] \in Consumer
      BY <3>1
    <3>3. cl[r.owner].position \in 0..Size
      BY <3>2, ConsumerFields
    <3> QED BY <3>3, Numbers
  <2> QED BY <2>1, <2>2, <2>3 DEF ClientsOK
<1> QED BY <1>2, <1>4, <1>10, <1>12, <1>13, <1>14, <1>15, <1>16, <1>17
        DEF TaskOK, r, o, u

LEMMA ConnectedKeeps ==
    ASSUME Inductive, NEW partial \in BOOLEAN, Connected(partial)
    PROVE  Inductive'
<1>1. /\ task.pc = "connect" /\ (partial => env.kind = "file")
      /\ task \in Task /\ TaskOK(task) /\ ClientsOK(task, clients)
      /\ clients \in [Consumers -> Consumer] /\ Blamed(task, clients)
      /\ entity \in 1..2 /\ EnvironmentOK(env)
  BY CurrentOK DEF Connected
<1>2. CASE SameEntity(task) /\ Opening(task)
  <2> DEFINE r == Loaded([Response(task, partial) EXCEPT
                             !.entity = entity, !.pc = "elect",
                             !.sequential = env.kind = "live"])
  <2>1. task' = r /\ clients' = clients /\ UNCHANGED <<env, entity, faulty>>
    BY <1>2 DEF Connected, WorkerStep
  <2>2. r \in Task /\ TaskOK(r) /\ ClientsOK(r, clients) /\ r.error = task.error
    BY <1>1, <1>2, OpenedYields
  <2>3. Blamed(r, clients)
    BY <1>1, <2>2 DEF Blamed, Excused, TaskOK, EndOK
  <2> HIDE DEF r
  <2> QED BY <1>1, <2>1, <2>2, <2>3, CurrentOK, InductiveFrom DEF Blamed
<1>3. CASE SameEntity(task) /\ ~Opening(task)
  <2> DEFINE r == [Response(task, partial) EXCEPT !.pc = "decide"]
  <2>1. task' = r /\ clients' = clients /\ UNCHANGED <<env, entity, faulty>>
    BY <1>3 DEF Connected, WorkerStep
  <2>2. env.validated => entity = task.entity
    BY <1>3 DEF SameEntity
  <2>3. r \in Task /\ TaskOK(r) /\ ClientsOK(r, clients) /\ r.error = task.error
    BY <1>1, <1>3, <2>2, ReconnectedYields
  <2>4. Blamed(r, clients)
    BY <1>1, <2>3 DEF Blamed, Excused, TaskOK, EndOK
  <2> HIDE DEF r
  <2> QED BY <1>1, <2>1, <2>3, <2>4, CurrentOK, InductiveFrom DEF Blamed
<1>4. CASE ~SameEntity(task)
  BY <1>1, <1>4, FailKeeps DEF Connected
<1> QED BY <1>2, <1>3, <1>4

\* A step of the worker that leaves the consumers alone.
LEMMA WorkerKeeps ==
    ASSUME Inductive, NEW r \in Task, WorkerStep(r, clients),
           TaskOK(r), ClientsOK(r, clients), faulty' = faulty,
           r.error = task.error,
           \/ task.pc \notin {"ending", "done"}
           \/ r.at = task.at /\ r.spool = task.spool
    PROVE  Inductive'
<1>1. task' = r /\ clients' = clients /\ UNCHANGED <<env, entity>>
  BY DEF WorkerStep
<1>2. task.error = "large" => r.at = task.at /\ r.spool = task.spool
  BY CurrentOK DEF TaskOK, EndOK
<1>3. faulty' \/ (~faulty /\ Blamed(r, clients))
  BY <1>2, CurrentOK DEF Blamed, Excused, Exceeds
<1> QED BY <1>1, <1>3, CurrentOK, InductiveFrom

LEMMA ElectKeeps ==
    ASSUME Inductive, Elect
    PROVE  Inductive'
<1> DEFINE active == ActiveIn(task, clients)
           owner == IF ~task.sequential \/ active = {}
                    THEN Nobody ELSE task.list[Min(active)]
           shareable == ~task.sequential
           r == [task EXCEPT !.pc = "ready", !.shareable = shareable,
                             !.owner = owner]
<1>1. task \in Task /\ task.pc = "elect" /\ TaskOK(task)
      /\ ClientsOK(task, clients) /\ clients \in [Consumers -> Consumer]
  BY CurrentOK DEF Elect
<1>2. WorkerStep(r, clients) /\ faulty' = faulty
  BY DEF Elect
<1>3. owner \in Consumers \cup {Nobody}
  <2>1. CASE active # {}
    <3>1. task.list \in Seq(Consumers)
      BY <1>1, TaskFields
    <3>2. active \subseteq DOMAIN task.list /\ DOMAIN task.list \subseteq Nat
      BY <3>1 DEF ActiveIn
    <3>3. Min(active) \in DOMAIN task.list
      BY <2>1, <3>2, MinYields
    <3>4. task.list[Min(active)] \in Consumers
      <4> HIDE DEF active
      <4> QED BY <3>1, <3>3
    <3> QED BY <3>4
  <2> QED BY <2>1
<1>4. shareable \in BOOLEAN /\ "ready" \in Places
  BY DEF Places
<1>5. shareable <=> ~task.sequential
  OBVIOUS
<1> HIDE DEF owner, shareable
<1>6. /\ r \in Task /\ r.list = task.list /\ r.stopping = task.stopping
      /\ r.accepting = task.accepting /\ r.owner = owner
      /\ r.sequential = task.sequential /\ r.shareable = shareable
      /\ r.covered = task.covered /\ r.at = task.at /\ r.spool = task.spool
      /\ r.ready = task.ready /\ r.request = task.request
      /\ r.entity = task.entity /\ r.pc = "ready" /\ r.ranged = task.ranged
      /\ r.restart = task.restart /\ r.total = task.total
      /\ r.start = task.start /\ r.end = task.end /\ r.error = task.error
      /\ r.done = task.done /\ r.disk = task.disk
  BY <1>1, <1>3, <1>4 DEF Task
<1> HIDE DEF r
<1>7. ~task.ready /\ ~Opening(task) /\ task.error = "none" /\ ~task.done
      /\ (task.sequential => task.at = 0)
  BY <1>1, TaskFields DEF TaskOK, OpenOK, EndOK
<1>8. CoverOK(r) /\ DiskOK(r)
  BY <1>1, <1>5, <1>6 DEF TaskOK, CoverOK, DiskOK, DiskPosition
<1>9. RequestOK(r) /\ OpenOK(r) /\ EndOK(r)
  BY <1>1, <1>6, <1>7 DEF TaskOK, RequestOK, OpenOK, EndOK, Opening
<1>10. ClientsOK(r, clients)
  <2>1. LeasesOK(r, clients)
    BY <1>1, <1>6 DEF ClientsOK, LeasesOK, InList
  <2>2. ReadersOK(r, clients)
    BY <1>1, <1>6, <1>7 DEF ClientsOK, ReadersOK
  <2>3. WindowOK(r, clients)
    <3> SUFFICES ASSUME Forwards(r)
                 PROVE  clients[r.owner].position >= 0 - Capacity
      BY <1>6, <1>7 DEF WindowOK, Forwards
    <3>1. clients[r.owner] \in Consumer
      BY <1>1, <1>3, <1>6 DEF Forwards
    <3>2. clients[r.owner].position \in 0..Size
      BY <3>1, ConsumerFields
    <3> QED BY <3>2, Numbers
  <2> QED BY <2>1, <2>2, <2>3 DEF ClientsOK
<1>11. TaskOK(r)
  BY <1>8, <1>9 DEF TaskOK
<1> QED BY <1>2, <1>6, <1>7, <1>10, <1>11, WorkerKeeps DEF r

LEMMA PublishReadyKeeps ==
    ASSUME Inductive, PublishReady
    PROVE  Inductive'
<1> DEFINE r == [task EXCEPT !.pc = "decide", !.ready = TRUE]
<1>1. task \in Task /\ task.pc = "ready" /\ TaskOK(task)
      /\ ClientsOK(task, clients) /\ clients \in [Consumers -> Consumer]
  BY CurrentOK DEF PublishReady
<1>2. WorkerStep(r, clients) /\ faulty' = faulty
  BY DEF PublishReady
<1>3. "decide" \in Places
  BY DEF Places
<1>4. /\ r \in Task /\ r.list = task.list /\ r.stopping = task.stopping
      /\ r.accepting = task.accepting /\ r.owner = task.owner
      /\ r.sequential = task.sequential /\ r.shareable = task.shareable
      /\ r.covered = task.covered /\ r.at = task.at /\ r.spool = task.spool
      /\ r.ready = TRUE /\ r.request = task.request
      /\ r.entity = task.entity /\ r.pc = "decide" /\ r.ranged = task.ranged
      /\ r.restart = task.restart /\ r.total = task.total
      /\ r.start = task.start /\ r.end = task.end /\ r.error = task.error
      /\ r.done = task.done /\ r.disk = task.disk
  BY <1>1, <1>3 DEF Task
<1> HIDE DEF r
<1>5. ~Opening(task) /\ task.error = "none" /\ ~task.done
  BY <1>1, TaskFields DEF TaskOK, OpenOK, EndOK
<1>6. CoverOK(r) /\ DiskOK(r)
  BY <1>1, <1>4 DEF TaskOK, CoverOK, DiskOK, DiskPosition
<1>7. RequestOK(r) /\ OpenOK(r) /\ EndOK(r)
  BY <1>1, <1>4, <1>5 DEF TaskOK, RequestOK, OpenOK, EndOK, Opening
<1>8. ClientsOK(r, clients)
  BY <1>1, <1>4, SameClients
<1>9. TaskOK(r)
  BY <1>6, <1>7 DEF TaskOK
<1> QED BY <1>2, <1>4, <1>5, <1>8, <1>9, WorkerKeeps DEF r

\* A resource that cannot be resumed is never asked for again, and a new
\* request starts at a position that is missing.
LEMMA NextStartYields ==
    ASSUME NEW t \in Task, NEW cl \in [Consumers -> Consumer], TaskOK(t),
           t.pc = "decide", ~Complete(t), EnvironmentOK(env)
    PROVE  LET start == NextStart(t, cl)
           IN  /\ start = None => t.request # 0
               /\ start # None => ~Plain /\ start \in 0..(Size - 1)
<1> DEFINE demand == Demand(t, cl)
           missing == AfterCovered(t, 0)
           next == AfterCovered(t, t.at)
           start == NextStart(t, cl)
<1>1. start = IF ~Finite(t) THEN None
              ELSE IF demand # None
                      /\ (t.request = 0 \/ (t.ranged /\ OutOfReach(t, demand)))
                   THEN demand
              ELSE IF t.request = 0 \/ t.restart THEN missing
              ELSE IF t.ranged /\ next # t.at
                   THEN IF next = t.total THEN missing ELSE next
              ELSE None
  BY DEF NextStart
<1>2. demand # None => /\ demand \in 0..Size
                       /\ t.total # None => demand < t.total
  BY DemandYields
<1>3. t.at \in 0..Size /\ t.total \in (0..Size) \cup {None} /\ 0 \in 0..Size
      /\ Size \in Nat
  BY TaskFields, Numbers
<1>4. /\ missing \in 0..Size /\ missing \notin t.covered
      /\ \A r \in 0..(missing - 1) : r \in t.covered
  BY <1>3, AfterCoveredYields
<1>5. next \in t.at..Size
  BY <1>3, AfterCoveredYields
<1> HIDE DEF demand, missing, next, start
<1>6. CASE ~Finite(t)
  <2>1. t.request # 0
    BY <1>6 DEF Complete
  <2> QED BY <1>1, <1>6, <2>1 DEF start
<1>7. CASE Finite(t)
  <2>1. missing # t.total
    BY <1>7 DEF Complete, missing
  <2>2. start = None => t.request # 0
    BY <1>1, <1>4, <1>7, Numbers
  <2>3. ASSUME start # None PROVE ~Plain
    <3> SUFFICES ASSUME Plain PROVE FALSE
      OBVIOUS
    <3>1. ~t.ranged /\ ~t.restart
      BY DEF TaskOK, RequestOK
    <3>2. t.request = 0
      BY <1>1, <1>7, <2>3, <3>1
    <3>3. t.total = t.at /\ t.covered = 0..(t.at - 1)
      BY <1>7, <3>2 DEF TaskOK, RequestOK, CoverOK, Finite
    <3>4. missing >= t.at
      BY <1>3, <1>4, <3>3
    <3>5. ASSUME missing > t.at PROVE FALSE
      <4>1. t.at \in 0..(missing - 1)
        BY <1>3, <1>4, <3>5
      <4>2. t.at \in t.covered
        BY <1>4, <4>1
      <4> QED BY <1>3, <3>3, <4>2
    <3> QED BY <1>3, <1>4, <2>1, <3>3, <3>4, <3>5
  <2>4. ASSUME start # None PROVE start \in 0..(Size - 1)
    <3>1. ~Opening(t) /\ env.kind = "file" /\ t.total = Size
      BY <2>3, <2>4 DEF Plain, EnvironmentOK, TaskOK, OpenOK
    <3>2. missing \in 0..(Size - 1)
      BY <1>3, <1>4, <2>1, <3>1
    <3>3. demand # None => demand \in 0..(Size - 1)
      BY <1>2, <1>3, <3>1, Numbers
    <3>4. next # t.total => next \in 0..(Size - 1)
      BY <1>3, <1>5, <3>1
    <3> QED BY <1>1, <1>7, <2>4, <3>2, <3>3, <3>4
  <2> QED BY <2>2, <2>3, <2>4 DEF start
<1> QED BY <1>6, <1>7

\* The worker ends a task nobody needs, and a download that has everything.
LEMMA EndingYields ==
    ASSUME NEW t \in Task, NEW cl \in [Consumers -> Consumer], TaskOK(t),
           ClientsOK(t, cl), t.pc = "decide", EnvironmentOK(env)
    PROVE  /\ GuardFails(t) =>
                 LET r == [t EXCEPT !.error = "canceled", !.pc = "ending",
                                    !.request = 0]
                 IN  r \in Task /\ TaskOK(r) /\ ClientsOK(r, cl)
                     /\ r.error = "canceled"
           /\ ~GuardFails(t) /\ Complete(t) =>
                 LET r == [t EXCEPT !.pc = "ending"]
                 IN  r \in Task /\ TaskOK(r) /\ ClientsOK(r, cl)
                     /\ r.error = "none"
<1>1. t.error = "none" /\ ~t.done /\ ~Opening(t)
  BY TaskFields DEF TaskOK, EndOK, OpenOK
<1>2. "ending" \in Places
  BY DEF Places
<1>3. ASSUME GuardFails(t), NEW r,
             r = [t EXCEPT !.error = "canceled", !.pc = "ending", !.request = 0]
      PROVE  r \in Task /\ TaskOK(r) /\ ClientsOK(r, cl) /\ r.error = "canceled"
  <2>1. /\ r \in Task /\ r.list = t.list /\ r.stopping = t.stopping
        /\ r.accepting = t.accepting /\ r.owner = t.owner
        /\ r.sequential = t.sequential /\ r.shareable = t.shareable
        /\ r.covered = t.covered /\ r.at = t.at /\ r.spool = t.spool
        /\ r.ready = t.ready /\ r.request = 0 /\ r.entity = t.entity
        /\ r.pc = "ending" /\ r.ranged = t.ranged /\ r.restart = t.restart
        /\ r.total = t.total /\ r.start = t.start /\ r.end = t.end
        /\ r.error = "canceled" /\ r.done = t.done /\ r.disk = t.disk
    <3>1. r = [t EXCEPT !.error = "canceled", !.pc = "ending", !.request = 0]
      BY <1>3
    <3>2. "canceled" \in {"none", "canceled", "failed"} /\ 0 \in 0..2
      OBVIOUS
    <3> QED BY <1>2, <3>1, <3>2 DEF Task
  <2>2. r.stopping
    BY <1>1, <1>3, <2>1 DEF GuardFails
  <2>3. CoverOK(r) /\ DiskOK(r)
    BY <2>1 DEF TaskOK, CoverOK, DiskOK, DiskPosition
  <2>4. RequestOK(r) /\ OpenOK(r) /\ EndOK(r)
    BY <1>1, <2>1, <2>2 DEF TaskOK, RequestOK, OpenOK, EndOK, Opening
  <2>5. ClientsOK(r, cl)
    BY <2>1, SameClients
  <2> QED BY <2>1, <2>3, <2>4, <2>5 DEF TaskOK
<1>4. ASSUME Complete(t), NEW r, r = [t EXCEPT !.pc = "ending"]
      PROVE  r \in Task /\ TaskOK(r) /\ ClientsOK(r, cl) /\ r.error = "none"
  <2>1. /\ r \in Task /\ r.list = t.list /\ r.stopping = t.stopping
        /\ r.accepting = t.accepting /\ r.owner = t.owner
        /\ r.sequential = t.sequential /\ r.shareable = t.shareable
        /\ r.covered = t.covered /\ r.at = t.at /\ r.spool = t.spool
        /\ r.ready = t.ready /\ r.request = t.request /\ r.entity = t.entity
        /\ r.pc = "ending" /\ r.ranged = t.ranged /\ r.restart = t.restart
        /\ r.total = t.total /\ r.start = t.start /\ r.end = t.end
        /\ r.error = t.error /\ r.done = t.done /\ r.disk = t.disk
    BY <1>2, <1>4 DEF Task
  <2>2. t.total # None
        /\ IF t.sequential THEN t.total = t.at
           ELSE \A p \in 0..(t.total - 1) : p \in t.covered
    <3>1. CASE Finite(t)
      <4>1. AfterCovered(t, 0) = t.total /\ ~t.sequential /\ t.total # None
        BY <1>4, <3>1 DEF Complete, Finite
      <4>2. \A p \in 0..(t.total - 1) : p \in t.covered
        BY <4>1, AfterCoveredYields, Numbers
      <4> QED BY <4>1, <4>2
    <3>2. CASE ~Finite(t)
      <4>1. t.request = 0
        BY <1>4, <3>2 DEF Complete
      <4>2. env.kind # "file"
        BY <1>1, <3>2, Numbers DEF TaskOK, OpenOK, CoverOK, Finite, None
      <4>3. t.total = t.at
        BY <4>1, <4>2 DEF TaskOK, RequestOK, Plain, EnvironmentOK
      <4>4. t.at # None
        BY TaskFields, Numbers DEF None
      <4> QED BY <3>2, <4>3, <4>4 DEF Finite
    <3> QED BY <3>1, <3>2
  <2>3. CoverOK(r) /\ DiskOK(r)
    BY <2>1 DEF TaskOK, CoverOK, DiskOK, DiskPosition
  <2>4. RequestOK(r) /\ OpenOK(r)
    BY <1>1, <2>1 DEF TaskOK, RequestOK, OpenOK, Opening
  <2>5. EndOK(r)
    BY <1>1, <2>1, <2>2 DEF EndOK
  <2>6. ClientsOK(r, cl)
    BY <2>1, SameClients
  <2> QED BY <1>1, <2>1, <2>3, <2>4, <2>5, <2>6 DEF TaskOK
<1> QED BY <1>3, <1>4

\* What the worker goes on with, asking again or reading on, keeps the window.
LEMMA GoingOnYields ==
    ASSUME NEW t \in Task, NEW cl \in [Consumers -> Consumer], TaskOK(t),
           ClientsOK(t, cl), t.pc = "decide", EnvironmentOK(env), ~Complete(t),
           ~WindowFull(t, cl), NEW start, start = NextStart(t, cl)
    PROVE  /\ start # None =>
                 /\ Restarted(t, start) \in Task
                 /\ TaskOK(Restarted(t, start))
                 /\ ClientsOK(Restarted(t, start), cl)
                 /\ Restarted(t, start).error = t.error
           /\ start = None =>
                 LET r == [t EXCEPT !.pc = "pump", !.restart = FALSE]
                 IN  r \in Task /\ TaskOK(r) /\ ClientsOK(r, cl)
                     /\ r.error = t.error
<1>1. t.error = "none" /\ ~t.done /\ ~Opening(t)
  BY TaskFields DEF TaskOK, EndOK, OpenOK
<1>2. /\ start = None => t.request # 0
      /\ start # None => ~Plain /\ start \in 0..(Size - 1)
  BY NextStartYields
<1>3. "connect" \in Places /\ "pump" \in Places /\ 0 \in 0..2
  BY DEF Places
<1>4. ASSUME start # None, NEW r, r = Restarted(t, start)
      PROVE  r \in Task /\ TaskOK(r) /\ ClientsOK(r, cl) /\ r.error = t.error
  <2>1. r = [t EXCEPT !.pc = "connect", !.start = start, !.at = start,
                      !.request = 0, !.restart = FALSE]
    BY <1>4 DEF Restarted
  <2>2. start \in 0..(Size - 1) /\ start \in 0..Size
    BY <1>2, <1>4, Numbers
  <2>3. /\ r \in Task /\ r.list = t.list /\ r.stopping = t.stopping
        /\ r.accepting = t.accepting /\ r.owner = t.owner
        /\ r.sequential = t.sequential /\ r.shareable = t.shareable
        /\ r.covered = t.covered /\ r.spool = t.spool
        /\ r.ready = t.ready /\ r.request = 0 /\ r.entity = t.entity
        /\ r.pc = "connect" /\ r.ranged = t.ranged /\ ~r.restart
        /\ r.total = t.total /\ r.end = t.end
        /\ r.error = t.error /\ r.done = t.done /\ r.disk = t.disk
    BY <1>3, <2>1, <2>2, ZenonT(40) DEF Task
  <2>4. ~Plain /\ env.kind = "file" /\ ~t.sequential
    BY <1>2, <1>4 DEF Plain, EnvironmentOK, TaskOK, CoverOK
  <2>5. CoverOK(r) /\ DiskOK(r)
    BY <2>3, <2>4 DEF TaskOK, CoverOK, DiskOK, DiskPosition
  <2>6. RequestOK(r) /\ OpenOK(r) /\ EndOK(r)
    BY <1>1, <2>3, <2>4 DEF TaskOK, RequestOK, OpenOK, EndOK, Opening
  <2>7. ClientsOK(r, cl)
    BY <2>3, <2>4, SameClients
  <2> QED BY <2>3, <2>5, <2>6, <2>7 DEF TaskOK
<1>5. ASSUME start = None, NEW r,
             r = [t EXCEPT !.pc = "pump", !.restart = FALSE]
      PROVE  r \in Task /\ TaskOK(r) /\ ClientsOK(r, cl) /\ r.error = t.error
  <2>1. r = [t EXCEPT !.pc = "pump", !.restart = FALSE]
    BY <1>5
  <2>2. t.request # 0
    BY <1>2, <1>5
  <2>3. /\ r \in Task /\ r.list = t.list /\ r.stopping = t.stopping
        /\ r.accepting = t.accepting /\ r.owner = t.owner
        /\ r.sequential = t.sequential /\ r.shareable = t.shareable
        /\ r.covered = t.covered /\ r.at = t.at /\ r.spool = t.spool
        /\ r.ready = t.ready /\ r.request = t.request /\ r.entity = t.entity
        /\ r.pc = "pump" /\ r.ranged = t.ranged /\ ~r.restart
        /\ r.total = t.total /\ r.start = t.start /\ r.end = t.end
        /\ r.error = t.error /\ r.done = t.done /\ r.disk = t.disk
    BY <1>3, <2>1 DEF Task
  <2>4. CoverOK(r) /\ DiskOK(r)
    BY <2>3 DEF TaskOK, CoverOK, DiskOK, DiskPosition
  <2>5. RequestOK(r) /\ OpenOK(r) /\ EndOK(r)
    BY <1>1, <2>2, <2>3 DEF TaskOK, RequestOK, OpenOK, EndOK, Opening
  <2>6. ~Forwards(r) \/ cl[r.owner].position >= r.at - (Capacity - 1)
    <3> SUFFICES ASSUME Forwards(r)
                 PROVE  cl[r.owner].position >= r.at - (Capacity - 1)
      OBVIOUS
    <3>1. t.sequential /\ t.owner # Nobody /\ t.spool = None
      BY <2>3, TaskFlags DEF Forwards, TaskOK, CoverOK
    <3>2. ~(t.at - cl[t.owner].position > Capacity - 1)
      BY <3>1 DEF WindowFull, LivePosition
    <3>3. cl[t.owner] \in Consumer
      BY <3>1, TaskFields
    <3>4. cl[t.owner].position \in 0..Size /\ t.at \in 0..Size
      BY <3>3, ConsumerFields, TaskFields
    <3> QED BY <2>3, <3>2, <3>4, Numbers
  <2>7. ClientsOK(r, cl)
    BY <2>3, <2>6, SameClients
  <2> QED BY <2>3, <2>4, <2>5, <2>7 DEF TaskOK
<1> QED BY <1>4, <1>5

LEMMA DecideKeeps ==
    ASSUME Inductive, Decide
    PROVE  Inductive'
<1> DEFINE cl == Polled(task, clients)
           t == Guarded(task, cl)
           start == NextStart(t, cl)
           canceled == [t EXCEPT !.error = "canceled", !.pc = "ending",
                                 !.request = 0]
           ending == [t EXCEPT !.pc = "ending"]
           pump == [t EXCEPT !.pc = "pump", !.restart = FALSE]
<1>1. IF GuardFails(t) THEN WorkerStep(canceled, cl)
      ELSE /\ ~WindowFull(t, cl)
           /\ WorkerStep(IF Complete(t) THEN ending
                         ELSE IF start # None THEN Restarted(t, start)
                         ELSE pump, cl)
  BY DEF Decide
<1>2. faulty' = faulty /\ task.pc = "decide"
  BY DEF Decide
<1>3. cl \in [Consumers -> Consumer] /\ ClientsOK(task, cl) /\ Blamed(task, cl)
  BY CurrentOK, PolledYields, PolledKeeps
<1> HIDE DEF cl
<1>4. t \in Task /\ TaskOK(t) /\ ClientsOK(t, cl) /\ t.error = task.error
      /\ t.pc = "decide"
  BY <1>2, <1>3, CurrentOK, GuardedKeeps
<1>5. EnvironmentOK(env)
  BY CurrentOK
<1> HIDE DEF t
<1>6. ASSUME NEW r \in Task, WorkerStep(r, cl), TaskOK(r), ClientsOK(r, cl),
             r.error \in {"canceled", "none"} \/ r.error = task.error
      PROVE  Inductive'
  <2>1. task' = r /\ clients' = cl /\ UNCHANGED <<env, entity>>
    BY <1>6 DEF WorkerStep
  <2>2. r.error # "large" /\ task.error = "none"
    BY <1>2, <1>6, CurrentOK DEF TaskOK, EndOK
  <2>3. faulty' \/ (~faulty /\ Blamed(r, cl))
    BY <1>2, <1>3, <1>6, <2>2, CurrentOK DEF Blamed, Excused
  <2> QED BY <1>2, <1>3, <1>6, <2>1, <2>3, CurrentOK, InductiveFrom
<1>7. CASE GuardFails(t)
  <2>1. canceled \in Task /\ TaskOK(canceled) /\ ClientsOK(canceled, cl)
    BY <1>3, <1>4, <1>5, <1>7, EndingYields
  <2>2. canceled.error = "canceled"
    BY <1>4 DEF Task
  <2> HIDE DEF canceled
  <2> QED BY <1>1, <1>6, <1>7, <2>1, <2>2
<1>8. CASE ~GuardFails(t) /\ Complete(t)
  <2>1. ending \in Task /\ TaskOK(ending) /\ ClientsOK(ending, cl)
    BY <1>3, <1>4, <1>5, <1>8, EndingYields
  <2>2. ending.error = task.error
    BY <1>4 DEF Task
  <2> HIDE DEF ending
  <2> QED BY <1>1, <1>6, <1>8, <2>1, <2>2
<1>9. CASE ~GuardFails(t) /\ ~Complete(t) /\ start # None
  <2> DEFINE again == Restarted(t, start)
  <2>1. again \in Task /\ TaskOK(again) /\ ClientsOK(again, cl)
        /\ again.error = t.error
    BY <1>1, <1>3, <1>4, <1>5, <1>9, GoingOnYields
  <2>2. WorkerStep(again, cl)
    BY <1>1, <1>9
  <2> HIDE DEF again, start
  <2> QED BY <1>4, <1>6, <2>1, <2>2
<1>10. CASE ~GuardFails(t) /\ ~Complete(t) /\ start = None
  <2>1. pump \in Task /\ TaskOK(pump) /\ ClientsOK(pump, cl)
    BY <1>1, <1>3, <1>4, <1>5, <1>10, GoingOnYields
  <2>2. pump.error = task.error
    BY <1>4 DEF Task
  <2>3. WorkerStep(pump, cl)
    BY <1>1, <1>10
  <2> HIDE DEF pump
  <2> QED BY <1>6, <2>1, <2>2, <2>3
<1> QED BY <1>7, <1>8, <1>9, <1>10

LEMMA DivMod ==
    ASSUME NEW a \in Nat, NEW n \in Nat \ {0}
    PROVE  a \div n \in Int /\ a % n \in 0..(n - 1) /\ a = n * (a \div n) + (a % n)
<1>1. a % n \in 0..(n - 1)
  OBVIOUS
<1>2. a \div n \in Int
  OBVIOUS
<1>3. a = n * (a \div n) + (a % n)
  OBVIOUS
<1> QED BY <1>1, <1>2, <1>3

\* Two positions of one window have different places in the file.
LEMMA Residues ==
    ASSUME NEW a \in Nat, NEW b \in Nat, NEW n \in Nat \ {0}, a < b, b - a < n
    PROVE  a % n # b % n
<1> SUFFICES ASSUME a % n = b % n PROVE FALSE
  OBVIOUS
<1> DEFINE m == a % n
<1>1. PICK k \in Int : a = n * k + m
  BY DivMod
<1>2. PICK j \in Int : b = n * j + m
  BY DivMod
<1>3. m \in 0..(n - 1)
  BY DivMod
<1> HIDE DEF m
<1>4. b - a = n * j - n * k
  BY <1>1, <1>2, <1>3
<1>5. n * j - n * k = n * (j - k)
  OBVIOUS
<1>6. ASSUME NEW d \in Int, d >= 1 PROVE n * d >= n
  BY <1>6
<1>7. j - k < 1
  BY <1>4, <1>5, <1>6
<1>8. n * (j - k) <= 0
  BY <1>7
<1> QED BY <1>4, <1>5, <1>8

\* A buffer goes where no position that stays covered is kept.
LEMMA CachedYields ==
    ASSUME NEW t \in Task, TaskOK(t), t.pc = "pump", t.at < Size,
           EnvironmentOK(env)
    PROVE  LET at == t.at + 1
               oldest == IF t.sequential /\ at > Capacity THEN at - Capacity
                         ELSE 0
               covered == {p \in t.covered \cup {t.at} : p >= oldest}
               disk == Stored(t, t.request, t.at)
           IN  /\ at \in 0..Size /\ covered \subseteq 0..(Size - 1)
               /\ disk \in Disks
               /\ \A p \in covered : /\ DiskPosition(t, p) \in DOMAIN disk
                                     /\ disk[DiskPosition(t, p)] = <<t.entity, p>>
               /\ t.sequential =>
                      covered = {p \in 0..(at - 1) : p >= at - Capacity}
               /\ Plain /\ ~t.sequential => covered = 0..(at - 1)
<1> DEFINE at == t.at + 1
           oldest == IF t.sequential /\ at > Capacity THEN at - Capacity ELSE 0
           covered == {p \in t.covered \cup {t.at} : p >= oldest}
           d == DiskPosition(t, t.at)
           disk == Stored(t, t.request, t.at)
<1>1. /\ t.at \in Nat /\ at \in 0..Size /\ Size \in Nat /\ Capacity \in Nat
      /\ Capacity > 0 /\ t.covered \subseteq 0..(Size - 1)
      /\ t.request \in 0..2 /\ t.disk \in Disks
  BY TaskFields, Numbers
<1>2. t.request = t.entity
  BY DEF TaskOK, RequestOK
<1>3. oldest \in Nat
  BY <1>1
<1>4. covered \subseteq 0..(Size - 1)
  BY <1>1
<1>5. t.sequential => covered = {p \in 0..(at - 1) : p >= at - Capacity}
  <2> SUFFICES ASSUME t.sequential
               PROVE  covered = {p \in 0..(at - 1) : p >= at - Capacity}
    OBVIOUS
  <2>1. t.covered = {p \in 0..(t.at - 1) : p >= t.at - Capacity}
    BY DEF TaskOK, CoverOK
  <2> QED BY <1>1, <2>1
<1>6. Plain /\ ~t.sequential => covered = 0..(at - 1)
  <2> SUFFICES ASSUME Plain, ~t.sequential PROVE covered = 0..(at - 1)
    OBVIOUS
  <2>1. t.covered = 0..(t.at - 1)
    BY DEF TaskOK, CoverOK
  <2> QED BY <1>1, <2>1
<1>7. disk = [q \in DOMAIN t.disk \cup {d} |->
                 IF q = d THEN <<t.entity, t.at>> ELSE t.disk[q]]
  BY <1>2 DEF Stored
<1>8. d \in Nat
  <2>1. t.at \in Nat /\ Capacity \in Nat \ {0}
    BY <1>1
  <2>2. t.at % Capacity \in 0..(Capacity - 1)
    BY <2>1
  <2> QED BY <1>1, <2>2 DEF DiskPosition
<1>9. disk \in Disks
  <2>1. PICK S \in SUBSET Nat : t.disk \in [S -> (0..2) \X Nat]
    BY <1>1 DEF Disks
  <2>2. DOMAIN t.disk = S /\ S \cup {d} \in SUBSET Nat
    BY <1>8, <2>1
  <2>3. <<t.entity, t.at>> \in (0..2) \X Nat
    BY <1>1, <1>2
  <2> HIDE DEF d
  <2>4. disk \in [S \cup {d} -> (0..2) \X Nat]
    BY <1>7, <2>1, <2>2, <2>3
  <2> QED BY <2>2, <2>4 DEF Disks
<1>10. ASSUME NEW p \in covered
       PROVE  /\ DiskPosition(t, p) \in DOMAIN disk
              /\ disk[DiskPosition(t, p)] = <<t.entity, p>>
  <2>1. CASE p = t.at
    BY <1>7, <2>1
  <2>2. CASE p # t.at
    <3>1. p \in t.covered /\ p \in Nat
      BY <1>1, <2>2
    <3>2. /\ DiskPosition(t, p) \in DOMAIN t.disk
          /\ t.disk[DiskPosition(t, p)] = <<t.entity, p>>
      BY <3>1 DEF TaskOK, DiskOK
    <3>3. DiskPosition(t, p) # d
      <4>1. CASE t.sequential
        <5>1. p < t.at /\ t.at - p < Capacity
          BY <1>1, <1>5, <2>2, <4>1
        <5>2. p % Capacity # t.at % Capacity
          BY <1>1, <3>1, <5>1, Residues
        <5> QED BY <4>1, <5>2 DEF DiskPosition
      <4>2. CASE ~t.sequential
        BY <2>2, <4>2 DEF DiskPosition
      <4> QED BY <4>1, <4>2
    <3> HIDE DEF d, disk
    <3> QED BY <1>7, <3>2, <3>3
  <2> QED BY <2>1, <2>2
<1> QED BY <1>1, <1>4, <1>5, <1>6, <1>9, <1>10

LEMMA PumpDataKeeps ==
    ASSUME Inductive, PumpData
    PROVE  Inductive'
<1> DEFINE at == task.at + 1
           oldest == IF task.sequential /\ at > Capacity THEN at - Capacity
                     ELSE 0
           covered == {p \in task.covered \cup {task.at} : p >= oldest}
           disk == Stored(task, task.request, task.at)
           r == [Cached(task) EXCEPT !.pc = "decide"]
<1> SUFFICES ASSUME ~Exceeds(task) PROVE Inductive'
  BY CurrentOK, FailKeeps DEF PumpData
<1>1. /\ task \in Task /\ task.pc = "pump" /\ TaskOK(task) /\ task.at < Size
      /\ ClientsOK(task, clients) /\ clients \in [Consumers -> Consumer]
      /\ EnvironmentOK(env)
  BY CurrentOK DEF PumpData
<1>2. WorkerStep(r, clients) /\ faulty' = faulty
  BY DEF PumpData
<1>3. /\ at \in 0..Size /\ covered \subseteq 0..(Size - 1) /\ disk \in Disks
      /\ \A p \in covered : /\ DiskPosition(task, p) \in DOMAIN disk
                            /\ disk[DiskPosition(task, p)] = <<task.entity, p>>
      /\ task.sequential => covered = {p \in 0..(at - 1) : p >= at - Capacity}
      /\ Plain /\ ~task.sequential => covered = 0..(at - 1)
  BY <1>1, CachedYields
<1>4. r = [task EXCEPT !.disk = disk, !.at = at, !.covered = covered,
                       !.pc = "decide"]
  BY <1>1 DEF Cached, Task
<1>5. at = task.at + 1
  OBVIOUS
<1> HIDE DEF at, covered, disk, r
<1>6. "decide" \in Places
  BY DEF Places
<1>7. /\ r \in Task /\ r.list = task.list /\ r.stopping = task.stopping
      /\ r.accepting = task.accepting /\ r.owner = task.owner
      /\ r.sequential = task.sequential /\ r.shareable = task.shareable
      /\ r.covered = covered /\ r.at = at /\ r.spool = task.spool
      /\ r.ready = task.ready /\ r.request = task.request
      /\ r.entity = task.entity /\ r.pc = "decide" /\ r.ranged = task.ranged
      /\ r.restart = task.restart /\ r.total = task.total
      /\ r.start = task.start /\ r.end = task.end /\ r.error = task.error
      /\ r.done = task.done /\ r.disk = disk
  BY <1>1, <1>3, <1>4, <1>6 DEF Task
<1>8. /\ task.request # 0 /\ ~Opening(task) /\ task.error = "none" /\ ~task.done
      /\ (env.kind = "live" => task.total = None)
  BY <1>1, TaskFields DEF TaskOK, RequestOK, OpenOK, EndOK, Opening
<1>9. CoverOK(r)
  BY <1>1, <1>3, <1>7 DEF TaskOK, CoverOK
<1>10. DiskOK(r)
  BY <1>3, <1>7 DEF DiskOK, DiskPosition
<1>11. RequestOK(r) /\ OpenOK(r) /\ EndOK(r)
  BY <1>1, <1>7, <1>8 DEF TaskOK, RequestOK, OpenOK, EndOK, Opening
<1>12. ClientsOK(r, clients)
  <2>1. LeasesOK(r, clients) /\ ReadersOK(r, clients)
    BY <1>1, <1>7 DEF ClientsOK, LeasesOK, ReadersOK, InList
  <2>2. WindowOK(r, clients)
    <3> SUFFICES ASSUME Forwards(r)
                 PROVE  clients[r.owner].position >= r.at - Capacity
      BY <1>7 DEF WindowOK
    <3>1. clients[task.owner].position >= task.at - (Capacity - 1)
      BY <1>1, <1>7 DEF ClientsOK, WindowOK, Forwards
    <3>2. clients[r.owner] \in Consumer
      BY <1>1, <1>7, TaskFields DEF Forwards
    <3>3. clients[r.owner].position \in 0..Size /\ task.at \in 0..Size
      BY <1>1, <3>2, ConsumerFields, TaskFields
    <3> QED BY <1>5, <1>7, <3>1, <3>3, Numbers
  <2> QED BY <2>1, <2>2 DEF ClientsOK
<1>13. TaskOK(r)
  BY <1>9, <1>10, <1>11 DEF TaskOK
<1> QED BY <1>1, <1>2, <1>7, <1>12, <1>13, WorkerKeeps

LEMMA PumpEndKeeps ==
    ASSUME Inductive, PumpEnd
    PROVE  Inductive'
<1> DEFINE total == IF task.total = None THEN task.at ELSE task.total
           r == [task EXCEPT !.pc = "decide", !.request = 0, !.total = total]
<1>1. /\ task \in Task /\ task.pc = "pump" /\ TaskOK(task)
      /\ ClientsOK(task, clients) /\ clients \in [Consumers -> Consumer]
      /\ EnvironmentOK(env) /\ (task.end # None => task.at = task.end)
  BY CurrentOK DEF PumpEnd
<1>2. WorkerStep(r, clients) /\ faulty' = faulty
  BY <1>1 DEF PumpEnd, Task
<1>3. task.request # 0 /\ ~Opening(task) /\ task.error = "none" /\ ~task.done
  BY <1>1, TaskFields DEF TaskOK, RequestOK, OpenOK, EndOK, Opening
<1>4. total \in (0..Size) \cup {None} /\ total = task.at
  <2>1. CASE env.kind = "file"
    <3>1. task.total = Size /\ task.at = Size
      BY <1>1, <1>3, <2>1, Numbers DEF TaskOK, OpenOK, None
    <3> QED BY <3>1, Numbers DEF None
  <2>2. CASE env.kind = "live"
    BY <1>1, <1>3, <2>2, TaskFields DEF TaskOK, OpenOK
  <2> QED BY <1>1, <2>1, <2>2 DEF EnvironmentOK
<1>5. env.kind = "file" => total = Size
  BY <1>1, <1>3, Numbers DEF TaskOK, OpenOK, None
<1>6. "decide" \in Places /\ 0 \in 0..2
  BY DEF Places
<1> HIDE DEF total
<1>7. /\ r \in Task /\ r.list = task.list /\ r.stopping = task.stopping
      /\ r.accepting = task.accepting /\ r.owner = task.owner
      /\ r.sequential = task.sequential /\ r.shareable = task.shareable
      /\ r.covered = task.covered /\ r.at = task.at /\ r.spool = task.spool
      /\ r.ready = task.ready /\ r.request = 0
      /\ r.entity = task.entity /\ r.pc = "decide" /\ r.ranged = task.ranged
      /\ r.restart = task.restart /\ r.total = total
      /\ r.start = task.start /\ r.end = task.end /\ r.error = task.error
      /\ r.done = task.done /\ r.disk = task.disk
  BY <1>1, <1>4, <1>6 DEF Task
<1> HIDE DEF r
<1>8. CoverOK(r) /\ DiskOK(r)
  BY <1>1, <1>7 DEF TaskOK, CoverOK, DiskOK, DiskPosition
<1>9. RequestOK(r) /\ OpenOK(r) /\ EndOK(r)
  BY <1>1, <1>3, <1>4, <1>5, <1>7
     DEF TaskOK, RequestOK, OpenOK, EndOK, Opening
<1>10. ClientsOK(r, clients)
  BY <1>1, <1>7, SameClients
<1>11. TaskOK(r)
  BY <1>8, <1>9 DEF TaskOK
<1> QED BY <1>2, <1>7, <1>10, <1>11, WorkerKeeps DEF r

\* A response that breaks off is resumed once, and is a failure after that.
LEMMA PumpTruncatedKeeps ==
    ASSUME Inductive, PumpTruncated
    PROVE  Inductive'
<1> DEFINE resumable == task.ranged /\ ~task.sequential
           again == [task EXCEPT !.retries = 1]
           u == IF resumable THEN again ELSE task
           r == [u EXCEPT !.pc = "connect", !.start = u.at, !.request = 0]
<1>1. /\ task \in Task /\ task.pc = "pump" /\ TaskOK(task)
      /\ ClientsOK(task, clients) /\ clients \in [Consumers -> Consumer]
      /\ EnvironmentOK(env) /\ Blamed(task, clients) /\ task.at # task.end
  BY CurrentOK DEF PumpTruncated
<1>2. IF resumable /\ task.retries = 0
      THEN WorkerStep(r, clients) /\ faulty' = faulty
      ELSE Fail(u, "failed") /\ faulty' = TRUE
  BY DEF PumpTruncated
<1>3. /\ again \in Task /\ again.list = task.list
      /\ again.stopping = task.stopping /\ again.accepting = task.accepting
      /\ again.owner = task.owner /\ again.sequential = task.sequential
      /\ again.shareable = task.shareable /\ again.covered = task.covered
      /\ again.at = task.at /\ again.spool = task.spool
      /\ again.ready = task.ready /\ again.request = task.request
      /\ again.entity = task.entity /\ again.pc = task.pc
      /\ again.ranged = task.ranged /\ again.restart = task.restart
      /\ again.total = task.total /\ again.start = task.start
      /\ again.end = task.end /\ again.error = task.error
      /\ again.done = task.done /\ again.disk = task.disk
  BY <1>1 DEF Task
<1> HIDE DEF again
<1>4. TaskOK(again)
  BY <1>1, <1>3, SameTask
<1>5. ClientsOK(again, clients)
  BY <1>1, <1>3, SameClients
<1>6. u \in Task /\ TaskOK(u) /\ ClientsOK(u, clients) /\ Blamed(u, clients)
      /\ u.pc = "pump"
  BY <1>1, <1>3, <1>4, <1>5 DEF Blamed, Excused, Exceeds
<1>7. CASE ~(resumable /\ task.retries = 0)
  <2> HIDE DEF u
  <2> QED BY <1>2, <1>6, <1>7, FailKeeps
<1>8. CASE resumable /\ task.retries = 0
  <2>1. u = again
    BY <1>8
  <2>2. ~Plain /\ env.kind = "file" /\ ~Opening(task)
    BY <1>1, <1>8 DEF TaskOK, RequestOK, Plain, EnvironmentOK
  <2>3. task.at \in 0..Size /\ task.at # Size
    BY <1>1, <2>2, TaskFields DEF TaskOK, OpenOK
  <2>4. u.at \in 0..(Size - 1)
    BY <1>3, <2>1, <2>3, Numbers
  <2>5. "connect" \in Places /\ 0 \in 0..2
    BY DEF Places
  <2> HIDE DEF u
  <2>6. /\ r \in Task /\ r.list = u.list /\ r.stopping = u.stopping
        /\ r.accepting = u.accepting /\ r.owner = u.owner
        /\ r.sequential = u.sequential /\ r.shareable = u.shareable
        /\ r.covered = u.covered /\ r.at = u.at /\ r.spool = u.spool
        /\ r.ready = u.ready /\ r.request = 0
        /\ r.entity = u.entity /\ r.pc = "connect" /\ r.ranged = u.ranged
        /\ r.restart = u.restart /\ r.total = u.total
        /\ r.end = u.end /\ r.error = u.error
        /\ r.done = u.done /\ r.disk = u.disk
    BY <1>6, <2>4, <2>5 DEF Task
  <2> HIDE DEF r
  <2>7. ~Opening(u) /\ u.error = task.error
    BY <1>3, <2>1, <2>2 DEF Opening
  <2>8. CoverOK(r) /\ DiskOK(r)
    BY <1>6, <2>6 DEF TaskOK, CoverOK, DiskOK, DiskPosition
  <2>9. RequestOK(r) /\ OpenOK(r)
    BY <1>6, <2>2, <2>6, <2>7 DEF TaskOK, RequestOK, OpenOK, Opening
  <2>10. EndOK(r)
    BY <1>6, <2>6 DEF TaskOK, EndOK
  <2>11. ClientsOK(r, clients)
    BY <1>1, <1>6, <2>6, SameClients
  <2>12. TaskOK(r)
    BY <2>8, <2>9, <2>10 DEF TaskOK
  <2> QED BY <1>1, <1>2, <1>8, <2>6, <2>7, <2>11, <2>12, WorkerKeeps
<1> QED BY <1>7, <1>8

LEMMA EndWorkerKeeps ==
    ASSUME Inductive, EndWorker
    PROVE  Inductive'
<1> DEFINE r == [task EXCEPT !.pc = "done", !.request = 0, !.done = TRUE,
                             !.ready = TRUE]
<1>1. /\ task \in Task /\ task.pc = "ending" /\ TaskOK(task)
      /\ ClientsOK(task, clients) /\ clients \in [Consumers -> Consumer]
  BY CurrentOK DEF EndWorker
<1>2. WorkerStep(r, clients) /\ faulty' = faulty
  BY DEF EndWorker
<1>3. "done" \in Places /\ 0 \in 0..2 /\ TRUE \in BOOLEAN
  BY DEF Places
<1>4. /\ r \in Task /\ r.list = task.list /\ r.stopping = task.stopping
      /\ r.accepting = task.accepting /\ r.owner = task.owner
      /\ r.sequential = task.sequential /\ r.shareable = task.shareable
      /\ r.covered = task.covered /\ r.at = task.at /\ r.spool = task.spool
      /\ r.ready = TRUE /\ r.request = 0
      /\ r.entity = task.entity /\ r.pc = "done" /\ r.ranged = task.ranged
      /\ r.restart = task.restart /\ r.total = task.total
      /\ r.start = task.start /\ r.end = task.end /\ r.error = task.error
      /\ r.done = TRUE /\ r.disk = task.disk
  BY <1>1, <1>3 DEF Task
<1> HIDE DEF r
<1>5. CoverOK(r) /\ DiskOK(r)
  BY <1>1, <1>4 DEF TaskOK, CoverOK, DiskOK, DiskPosition
<1>6. RequestOK(r) /\ OpenOK(r) /\ EndOK(r)
  BY <1>1, <1>4 DEF TaskOK, RequestOK, OpenOK, EndOK, Opening
<1>7. ClientsOK(r, clients)
  BY <1>1, <1>4, SameClients
<1>8. TaskOK(r)
  BY <1>5, <1>6 DEF TaskOK
<1> QED BY <1>2, <1>4, <1>7, <1>8, WorkerKeeps DEF r

-----------------------------------------------------------------------------
(* The consumers.                                                          *)

\* What one consumer may become without a change of the task.
LEMMA OneClient ==
    ASSUME NEW t \in Task, NEW cl \in [Consumers -> Consumer], ClientsOK(t, cl),
           NEW c \in Consumers, NEW k \in Consumer,
           k.pc \in Calls <=> cl[c].pc \in Calls,
           k.pc # "out" \/ k.active,
           k.active => cl[c].active,
           cl[c].pc \in Calls /\ ~k.active => k.canceled,
           k.error = "canceled" => k.canceled,
           k.pc \in {"idle", "reading", "buffering"} =>
               t.ready /\ (t.shareable \/ t.owner = c),
           k.pc = "buffering" => ~t.sequential,
           k.position >= cl[c].position \/ ~Forwards(t)
    PROVE  ClientsOK(t, [cl EXCEPT ![c] = k])
<1> DEFINE r == [cl EXCEPT ![c] = k]
<1>1. /\ \A d \in Consumers : r[d] = IF d = c THEN k ELSE cl[d]
  OBVIOUS
<1> HIDE DEF r
<1>2. LeasesOK(t, r)
  BY <1>1 DEF ClientsOK, LeasesOK
<1>3. ReadersOK(t, r)
  BY <1>1 DEF ClientsOK, ReadersOK
<1>4. WindowOK(t, r)
  <2> SUFFICES ASSUME Forwards(t)
               PROVE  r[t.owner].position >=
                          t.at - (IF t.pc = "pump" THEN Capacity - 1 ELSE Capacity)
    BY DEF WindowOK
  <2>1. cl[t.owner].position >=
            t.at - (IF t.pc = "pump" THEN Capacity - 1 ELSE Capacity)
    BY DEF ClientsOK, WindowOK
  <2>2. t.owner \in Consumers
    BY TaskFields DEF Forwards
  <2>3. cl[t.owner] \in Consumer
    BY <2>2
  <2>4. /\ k.position \in 0..Size /\ cl[t.owner].position \in 0..Size
        /\ t.at \in 0..Size
    BY <2>3, ConsumerFields, TaskFields
  <2>5. CASE t.owner = c
    BY <1>1, <2>1, <2>2, <2>4, <2>5, Numbers
  <2>6. CASE t.owner # c
    BY <1>1, <2>1, <2>2, <2>6
  <2> QED BY <2>5, <2>6
<1> QED BY <1>2, <1>3, <1>4 DEF ClientsOK, r

\* A step of a consumer that leaves the transport alone.
LEMMA ClientKeeps ==
    ASSUME Inductive, NEW c \in Consumers, NEW r \in Task, NEW k \in Consumer,
           ClientStep(c, r, k), TaskOK(r),
           ClientsOK(r, [clients EXCEPT ![c] = k]), r.error = task.error,
           (r.at = task.at /\ r.spool = task.spool) \/ ~Exceeds(task),
           \/ k.error \in {"none", "canceled", clients[c].error}
           \/ Excused(task, k.error) \/ faulty
    PROVE  Inductive'
<1> DEFINE cl == [clients EXCEPT ![c] = k]
<1>1. task' = r /\ clients' = cl /\ UNCHANGED <<env, entity, faulty>>
  BY DEF ClientStep
<1>2. cl \in [Consumers -> Consumer]
  BY CurrentOK
<1>3. \A d \in Consumers : cl[d] = IF d = c THEN k ELSE clients[d]
  BY CurrentOK
<1> HIDE DEF cl
<1>4. faulty' \/ (~faulty /\ Blamed(r, cl))
  BY <1>1, <1>3, CurrentOK DEF Blamed, Excused, Exceeds
<1> QED BY <1>1, <1>2, <1>4, CurrentOK, InductiveFrom DEF cl

\* What Guard and Protect make of a call: it is canceled only when its owner
\* canceled it, and it fails only when the task did.
LEMMA CheckedYields ==
    ASSUME Inductive, NEW c \in Consumers, clients[c].pc \in Calls
    PROVE  LET k == Checked(c)
           IN  /\ k \in Consumer /\ InList(task, c)
               /\ k.pc = clients[c].pc /\ k.position = clients[c].position
               /\ k.canceled = clients[c].canceled
               /\ k.active => clients[c].active
               /\ ~k.active => k.canceled
               /\ k.error = "canceled" => k.canceled
               /\ \/ Excused(task, k.error) \/ faulty
                  \/ k.error = clients[c].error
               /\ k.error = "none" => /\ clients[c].error = "none"
                                      /\ task.error = "none"
<1> DEFINE s == clients[c]
           k == Checked(c)
<1>1. s \in Consumer /\ InList(task, c) /\ (~s.active => s.canceled)
      /\ (s.error = "canceled" => s.canceled)
      /\ (task.stopping => ~s.active)
  BY CurrentOK DEF ClientsOK, LeasesOK
<1>2. (task.error = "canceled" => task.stopping)
      /\ (task.error = "failed" => faulty)
      /\ task.error \in {"none", "canceled", "failed", "large"}
      /\ (faulty \/ Excused(task, task.error))
  BY CurrentOK, TaskFields DEF TaskOK, EndOK, Blamed, Excused
<1>3. k = IF s.active /\ s.canceled
          THEN [s EXCEPT !.active = FALSE, !.error = "canceled"]
          ELSE IF ~s.active \/ task.stopping THEN [s EXCEPT !.error = "canceled"]
          ELSE IF s.error # "none" THEN s
          ELSE [s EXCEPT !.error = task.error]
  BY DEF Checked
<1>4. "canceled" \in Errors
      /\ task.error \in Errors
  BY <1>2 DEF Errors
<1> HIDE DEF s, k
<1>5. CASE s.active /\ s.canceled
  <2>1. k = [s EXCEPT !.active = FALSE, !.error = "canceled"]
    BY <1>3, <1>5
  <2>2. k \in Consumer /\ k.pc = s.pc /\ k.position = s.position
        /\ k.canceled = s.canceled /\ k.active = FALSE /\ k.error = "canceled"
    BY <1>1, <1>4, <2>1 DEF Consumer
  <2> QED BY <1>1, <1>5, <2>2 DEF k, s, Excused
<1>6. CASE ~(s.active /\ s.canceled) /\ (~s.active \/ task.stopping)
  <2>1. k = [s EXCEPT !.error = "canceled"]
    BY <1>3, <1>6
  <2>2. k \in Consumer /\ k.pc = s.pc /\ k.position = s.position
        /\ k.canceled = s.canceled /\ k.active = s.active /\ k.error = "canceled"
    BY <1>1, <1>4, <2>1 DEF Consumer
  <2> QED BY <1>1, <1>6, <2>2 DEF k, s, Excused
<1>7. CASE ~(s.active /\ s.canceled) /\ s.active /\ ~task.stopping
           /\ s.error # "none"
  <2>1. k = s
    BY <1>3, <1>7
  <2> QED BY <1>1, <1>7, <2>1 DEF k, s
<1>8. CASE ~(s.active /\ s.canceled) /\ s.active /\ ~task.stopping
           /\ s.error = "none"
  <2>1. k = [s EXCEPT !.error = task.error]
    BY <1>3, <1>8
  <2>2. k \in Consumer /\ k.pc = s.pc /\ k.position = s.position
        /\ k.canceled = s.canceled /\ k.active = s.active
        /\ k.error = task.error
    BY <1>1, <1>4, <2>1 DEF Consumer
  <2> QED BY <1>1, <1>2, <1>8, <2>2 DEF k, s
<1> QED BY <1>5, <1>6, <1>7, <1>8

LEMMA ReturnedYields ==
    ASSUME NEW k \in Consumer,
           NEW error \in Errors
    PROVE  /\ Returned(k, error) \in Consumer
           /\ Returned(k, error).pc = "idle" /\ Returned(k, error).error = error
           /\ Returned(k, error).active = k.active
           /\ Returned(k, error).canceled = k.canceled
           /\ Returned(k, error).position = k.position
<1>1. None \in (0..Size) \cup {None} /\ "idle" \in Calls
  BY DEF Calls
<1> QED BY <1>1 DEF Returned, Consumer, Errors

\* Between two calls, and in one, a consumer has opened the resource.
LEMMA IdleReads ==
    ASSUME Inductive, NEW c \in Consumers,
           clients[c].pc \in {"idle", "reading", "buffering"}
    PROVE  task.ready /\ (task.shareable \/ task.owner = c)
BY CurrentOK DEF ClientsOK, ReadersOK

\* A call that ends with an error, whatever it waited for.
LEMMA ErrorKeeps ==
    ASSUME Inductive, NEW c \in Consumers, clients[c].pc \in Calls,
           clients[c].pc \in {"reading", "buffering"},
           Checked(c).error # "none",
           ClientStep(c, task, Returned(Checked(c), Checked(c).error))
    PROVE  Inductive'
<1> DEFINE k == Checked(c)
           r == Returned(k, k.error)
<1>1. /\ k \in Consumer /\ k.position = clients[c].position
      /\ k.canceled = clients[c].canceled
      /\ (k.active => clients[c].active) /\ (~k.active => k.canceled)
      /\ (k.error = "canceled" => k.canceled)
      /\ \/ Excused(task, k.error) \/ faulty
         \/ k.error = clients[c].error
      /\ task.ready /\ (task.shareable \/ task.owner = c)
  BY CheckedYields, IdleReads
<1>2. k.error # "none" /\ ClientStep(c, task, r)
  OBVIOUS
<1> HIDE DEF k
<1>3. k.error \in Errors
  BY <1>1, ConsumerFields
<1>4. /\ r \in Consumer /\ r.pc = "idle" /\ r.error = k.error
      /\ r.active = k.active /\ r.canceled = k.canceled
      /\ r.position = k.position
  BY <1>1, <1>3, ReturnedYields
<1> HIDE DEF r
<1>5. clients[c].position \in 0..Size
  BY <1>1, ConsumerFields
<1>6. r.pc \in Calls /\ r.pc # "out"
  BY <1>4 DEF Calls
<1>7. ClientsOK(task, [clients EXCEPT ![c] = r])
  <2>1. r.pc # "buffering" /\ r.pc # "reading" /\ r.error # "none"
        /\ r.position >= clients[c].position
    BY <1>1, <1>2, <1>4, <1>5
  <2>2. /\ r.active => clients[c].active
        /\ clients[c].pc \in Calls /\ ~r.active => r.canceled
        /\ r.error = "canceled" => r.canceled
    BY <1>1, <1>4
  <2> QED BY <1>1, <1>4, <1>6, <2>1, <2>2, CurrentOK, OneClient
<1> QED BY <1>1, <1>2, <1>4, <1>7, CurrentOK, ClientKeeps

LEMMA StartReadKeeps ==
    ASSUME Inductive, NEW c \in Consumers, StartRead(c)
    PROVE  Inductive'
<1> DEFINE s == clients[c]
           k == [s EXCEPT !.pc = "reading"]
<1>1. /\ s \in Consumer /\ s.pc = "idle" /\ s.error = "none"
      /\ ClientStep(c, task, k)
  BY CurrentOK DEF StartRead
<1>2. "reading" \in Calls /\ "idle" \in Calls /\ "reading" # "out"
  BY DEF Calls
<1>3. task.ready /\ (task.shareable \/ task.owner = c)
  BY <1>1, IdleReads
<1>4. (s.error = "canceled" => s.canceled)
      /\ (s.pc \in Calls /\ ~s.active => s.canceled)
  BY CurrentOK DEF ClientsOK, LeasesOK
<1> HIDE DEF s
<1>5. /\ k \in Consumer /\ k.pc = "reading" /\ k.error = s.error
      /\ k.active = s.active /\ k.canceled = s.canceled
      /\ k.position = s.position
  BY <1>1, <1>2 DEF Consumer
<1> HIDE DEF k
<1>6. s.position \in 0..Size
  BY <1>1, ConsumerFields
<1>7. ClientsOK(task, [clients EXCEPT ![c] = k])
  <2>1. /\ k.pc = "reading" /\ k.error = "none" /\ k.active = clients[c].active
        /\ k.position >= clients[c].position
    BY <1>1, <1>5, <1>6 DEF s
  <2>2. /\ clients[c].pc \in Calls /\ ~k.active => k.canceled
    BY <1>4, <1>5 DEF s
  <2>3. k.pc \in Calls /\ clients[c].pc \in Calls
    BY <1>1, <1>2, <1>5 DEF s
  <2> QED BY <1>2, <1>3, <1>5, <2>1, <2>2, <2>3, CurrentOK, OneClient
<1> QED BY <1>1, <1>5, <1>7, CurrentOK, ClientKeeps

LEMMA CancelKeeps ==
    ASSUME Inductive, NEW c \in Consumers, Cancel(c)
    PROVE  Inductive'
<1> DEFINE s == clients[c]
           k == [s EXCEPT !.canceled = TRUE]
<1>1. /\ s \in Consumer /\ s.pc \in Calls /\ clients' = [clients EXCEPT ![c] = k]
      /\ UNCHANGED <<env, entity, task, faulty>>
  BY CurrentOK DEF Cancel, Calls
<1>2. ClientStep(c, task, k)
  BY <1>1 DEF ClientStep
<1>3. s.pc \in {"idle", "reading", "buffering"} =>
          task.ready /\ (task.shareable \/ task.owner = c)
  BY IdleReads
<1>4. s.pc = "buffering" => ~task.sequential
  BY CurrentOK DEF ClientsOK, ReadersOK
<1> HIDE DEF s
<1>5. /\ k \in Consumer /\ k.pc = s.pc /\ k.error = s.error
      /\ k.active = s.active /\ k.canceled = TRUE
      /\ k.position = s.position
  BY <1>1 DEF Consumer
<1> HIDE DEF k
<1>6. s.position \in 0..Size
  BY <1>1, ConsumerFields
<1>7. k.pc # "out"
  BY <1>1, <1>5 DEF Calls
<1>8. ClientsOK(task, [clients EXCEPT ![c] = k])
  <2>1. /\ k.pc = clients[c].pc /\ k.error = clients[c].error
        /\ k.active = clients[c].active /\ k.canceled
        /\ k.position >= clients[c].position
    BY <1>1, <1>5, <1>6 DEF s
  <2> QED BY <1>3, <1>4, <1>5, <1>7, <2>1, CurrentOK, OneClient DEF s
<1> QED BY <1>2, <1>5, <1>8, CurrentOK, ClientKeeps DEF s

LEMMA BufferedKeeps ==
    ASSUME Inductive, NEW c \in Consumers, Buffered(c)
    PROVE  Inductive'
<1>1. clients[c].pc = "buffering" /\ clients[c].pc \in Calls
  BY DEF Buffered, Calls
<1>2. CASE Checked(c).error # "none"
  BY <1>1, <1>2, ErrorKeeps DEF Buffered
<1>3. CASE Checked(c).error = "none"
  <2> DEFINE u == Returned(Checked(c), "none")
             k == [u EXCEPT !.position = 0]
  <2>1. ClientStep(c, task, k)
    BY <1>3 DEF Buffered
  <2>2. /\ Checked(c) \in Consumer /\ (Checked(c).active => clients[c].active)
        /\ (~Checked(c).active => Checked(c).canceled)
    BY <1>1, CheckedYields
  <2>3. /\ u \in Consumer /\ u.pc = "idle" /\ u.error = "none"
        /\ u.active = Checked(c).active /\ u.canceled = Checked(c).canceled
    BY <2>2, ReturnedYields DEF Errors
  <2> HIDE DEF u
  <2>4. 0 \in 0..Size
    BY Numbers
  <2>5. /\ k \in Consumer /\ k.pc = "idle" /\ k.error = "none"
        /\ k.active = u.active /\ k.canceled = u.canceled
    BY <2>3, <2>4 DEF Consumer
  <2> HIDE DEF k
  <2>6. ~task.sequential /\ task.ready /\ (task.shareable \/ task.owner = c)
    BY <1>1, CurrentOK, IdleReads DEF ClientsOK, ReadersOK
  <2>7. k.pc \in Calls /\ k.pc # "out" /\ ~Forwards(task)
    BY <2>5, <2>6 DEF Calls, Forwards
  <2>8. ClientsOK(task, [clients EXCEPT ![c] = k])
    BY <1>1, <2>2, <2>3, <2>5, <2>6, <2>7, CurrentOK, OneClient
  <2> QED BY <2>1, <2>5, <2>8, CurrentOK, ClientKeeps
<1> QED BY <1>2, <1>3

LEMMA EntityChangesKeeps ==
    ASSUME Inductive, EntityChanges
    PROVE  Inductive'
BY CurrentOK, InductiveFrom DEF EntityChanges

LEMMA ReadCoveredKeeps ==
    ASSUME Inductive, NEW c \in Consumers, ReadCovered(c)
    PROVE  Inductive'
<1>1. clients[c].pc = "reading" /\ clients[c].pc \in Calls
  BY DEF ReadCovered, Calls
<1>2. CASE Checked(c).error # "none"
  BY <1>1, <1>2, ErrorKeeps DEF ReadCovered
<1>3. CASE Checked(c).error = "none"
  <2> DEFINE u == Returned(Checked(c), "none")
             position == IF AtEnd(c) THEN u.position ELSE u.position + 1
             k == [u EXCEPT !.position = position]
  <2>1. /\ Checked(c) \in Consumer /\ (Checked(c).active => clients[c].active)
        /\ (~Checked(c).active => Checked(c).canceled)
        /\ Checked(c).position = clients[c].position
    BY <1>1, CheckedYields
  <2>2. /\ u \in Consumer /\ u.pc = "idle" /\ u.error = "none"
        /\ u.active = Checked(c).active /\ u.canceled = Checked(c).canceled
        /\ u.position = clients[c].position
    BY <2>1, ReturnedYields DEF Errors
  <2>3. /\ ClientStep(c, task, [u EXCEPT !.position = IF AtEnd(c) THEN @ ELSE @ + 1])
        /\ AtEnd(c) \/ Checked(c).position \in task.covered
    BY <1>3 DEF ReadCovered
  <2> HIDE DEF u
  <2>4. ClientStep(c, task, k)
    BY <2>2, <2>3 DEF Consumer
  <2>5. position \in 0..Size /\ position >= clients[c].position
    <3>1. u.position \in 0..Size /\ task.covered \subseteq 0..(Size - 1)
          /\ Size \in Nat
      BY <2>2, CurrentOK, TaskFields, ConsumerFields, Numbers
    <3> QED BY <2>1, <2>2, <2>3, <3>1
  <2> HIDE DEF position
  <2>6. /\ k \in Consumer /\ k.pc = "idle" /\ k.error = "none"
        /\ k.active = u.active /\ k.canceled = u.canceled
        /\ k.position = position
    BY <2>2, <2>5 DEF Consumer
  <2> HIDE DEF k
  <2>7. task.ready /\ (task.shareable \/ task.owner = c)
    BY <1>1, IdleReads
  <2>8. k.pc \in Calls /\ k.pc # "out"
    BY <2>6 DEF Calls
  <2>9. ClientsOK(task, [clients EXCEPT ![c] = k])
    BY <1>1, <2>1, <2>2, <2>5, <2>6, <2>7, <2>8, CurrentOK, OneClient
  <2> QED BY <2>4, <2>6, <2>9, CurrentOK, ClientKeeps
<1> QED BY <1>2, <1>3

LEMMA ReadFailsKeeps ==
    ASSUME Inductive, NEW c \in Consumers, ReadFails(c)
    PROVE  Inductive'
<1> DEFINE s == clients[c]
           u == Returned(s, "local")
<1>1. /\ s \in Consumer /\ s.pc = "reading" /\ s.pc \in Calls
      /\ ClientStep(c, task, u) /\ "local" \in env.may
  BY CurrentOK DEF ReadFails, Calls
<1>2. task.ready /\ (task.shareable \/ task.owner = c)
  BY <1>1, IdleReads
<1>3. ~s.active => s.canceled
  BY <1>1, CurrentOK DEF ClientsOK, LeasesOK
<1>4. s.position \in 0..Size
  BY <1>1, ConsumerFields
<1>5. /\ u \in Consumer /\ u.pc = "idle" /\ u.error = "local"
      /\ u.active = s.active /\ u.canceled = s.canceled
      /\ u.position = s.position
  BY <1>1, ReturnedYields DEF Errors
<1> HIDE DEF u
<1>6. /\ u.pc \in Calls /\ u.pc # "out" /\ u.position >= s.position
      /\ Excused(task, u.error)
  BY <1>1, <1>4, <1>5 DEF Calls, Excused
<1>7. ClientsOK(task, [clients EXCEPT ![c] = u])
  BY <1>1, <1>2, <1>3, <1>5, <1>6, CurrentOK, OneClient
<1> QED BY <1>1, <1>5, <1>6, <1>7, CurrentOK, ClientKeeps

\* A read that has to wait never has to be given up: what its consumer has not
\* read is in the window, and the worker does not end before it has everything.
LEMMA NothingIsLost ==
    ASSUME Inductive, NEW c \in Consumers, clients[c].pc = "reading",
           task.error = "none", ~AtEnd(c),
           clients[c].position \notin task.covered
    PROVE  /\ task.sequential /\ clients[c].position < task.at =>
                  "rewind" \in env.may
           /\ ~(task.sequential /\ clients[c].position < task.at) => ~task.done
<1> DEFINE p == clients[c].position
<1>1. p \in 0..Size /\ task.at \in 0..Size /\ Size \in Nat /\ Capacity \in Nat
      /\ Capacity > 0
      /\ task.total \in (0..Size) \cup {None}
  BY CurrentOK, TaskFields, ConsumerFields, Numbers
<1>2. task.total # None => p < task.total
  BY <1>1, Numbers DEF AtEnd
<1>3. TaskOK(task) /\ ClientsOK(task, clients)
  BY CurrentOK
<1> HIDE DEF p
<1>4. ASSUME task.sequential, p < task.at, "rewind" \notin env.may
      PROVE  FALSE
  <2>1. task.owner = c /\ c # Nobody
    BY <1>3, <1>4, IdleReads, Numbers DEF TaskOK, CoverOK
  <2>2. p >= task.at - (IF task.pc = "pump" THEN Capacity - 1 ELSE Capacity)
    BY <1>3, <1>4, <2>1 DEF ClientsOK, WindowOK, Forwards, p
  <2>3. p \in {q \in 0..(task.at - 1) : q >= task.at - Capacity}
    BY <1>1, <1>4, <2>2
  <2> QED BY <1>3, <1>4, <2>3 DEF TaskOK, CoverOK, p
<1>5. ASSUME ~(task.sequential /\ p < task.at), task.done
      PROVE  FALSE
  <2>1. /\ task.total # None
        /\ IF task.sequential THEN task.total = task.at
           ELSE \A q \in 0..(task.total - 1) : q \in task.covered
    BY <1>3, <1>5 DEF TaskOK, EndOK
  <2>2. p < task.total /\ p \in 0..(task.total - 1)
    BY <1>1, <1>2, <2>1
  <2> QED BY <1>5, <2>1, <2>2 DEF p
<1> QED BY <1>4, <1>5 DEF p

LEMMA ReadMissingKeeps ==
    ASSUME Inductive, NEW c \in Consumers, ReadMissing(c)
    PROVE  Inductive'
<1> DEFINE s == clients[c]
           k == [s EXCEPT !.demand = s.position]
           wanted == Demand(task, [clients EXCEPT ![c] = k])
           apart == /\ ~task.sequential /\ task.ranged
                    /\ wanted # None /\ OutOfReach(task, wanted)
           r == [task EXCEPT !.restart = task.restart \/ apart]
<1>1. /\ s.pc = "reading" /\ Checked(c).error = "none" /\ ~AtEnd(c)
      /\ s.position \notin task.covered /\ s \in Consumer /\ s.pc \in Calls
  BY CurrentOK DEF ReadMissing, Calls
<1>2. s.error = "none" /\ task.error = "none"
  BY <1>1, CheckedYields
<1>3. s.position \in 0..Size
  BY <1>1, ConsumerFields
<1>4. /\ k \in Consumer /\ k.pc = "reading" /\ k.error = "none"
      /\ k.active = s.active /\ k.canceled = s.canceled
      /\ k.position = s.position
  <2> HIDE DEF s
  <2>1. s.position \in (0..Size) \cup {None}
    BY <1>3
  <2> QED BY <1>1, <1>2, <2>1 DEF Consumer
<1>5. IF task.sequential /\ k.position < task.at
      THEN ClientStep(c, task, Returned(k, "lost"))
      ELSE IF task.done THEN ClientStep(c, task, Returned(k, "eof"))
      ELSE ClientStep(c, r, k)
  BY CurrentOK DEF ReadMissing, Task
<1>6. /\ task.sequential /\ k.position < task.at => "rewind" \in env.may
      /\ ~(task.sequential /\ k.position < task.at) => ~task.done
  BY <1>1, <1>2, <1>4, NothingIsLost
<1>7. task.ready /\ (task.shareable \/ task.owner = c)
  BY <1>1, IdleReads
<1>8. s.pc \in Calls /\ ~s.active => s.canceled
  BY CurrentOK DEF ClientsOK, LeasesOK
<1> HIDE DEF k
<1>9. CASE task.sequential /\ k.position < task.at
  <2> DEFINE u == Returned(k, "lost")
  <2>1. /\ u \in Consumer /\ u.pc = "idle" /\ u.error = "lost"
        /\ u.active = k.active /\ u.canceled = k.canceled
        /\ u.position = k.position
    BY <1>4, ReturnedYields DEF Errors
  <2> HIDE DEF u
  <2>2. u.pc \in Calls /\ u.pc # "out"
    BY <2>1 DEF Calls
  <2>3. /\ u.position >= clients[c].position /\ u.active = clients[c].active
        /\ clients[c].pc \in Calls /\ ~u.active => u.canceled
    BY <1>3, <1>4, <1>8, <2>1
  <2>4. ClientsOK(task, [clients EXCEPT ![c] = u])
    BY <1>1, <1>7, <2>1, <2>2, <2>3, CurrentOK, OneClient
  <2>5. Excused(task, u.error)
    BY <1>6, <1>9, <2>1 DEF Excused
  <2> QED BY <1>5, <1>9, <2>1, <2>4, <2>5, CurrentOK, ClientKeeps DEF u
<1>10. CASE ~(task.sequential /\ k.position < task.at)
  <2>1. ClientStep(c, r, k)
    BY <1>5, <1>6, <1>10
  <2> DEFINE restart == task.restart \/ apart
  <2>2. restart \in BOOLEAN
    OBVIOUS
  <2>3. restart => ~Plain /\ ~Opening(task)
    BY CurrentOK DEF TaskOK, RequestOK
  <2>4. r = [task EXCEPT !.restart = restart]
    OBVIOUS
  <2> HIDE DEF restart, r
  <2>5. /\ r \in Task /\ r.list = task.list /\ r.stopping = task.stopping
        /\ r.accepting = task.accepting /\ r.owner = task.owner
        /\ r.sequential = task.sequential /\ r.shareable = task.shareable
        /\ r.covered = task.covered /\ r.at = task.at /\ r.spool = task.spool
        /\ r.ready = task.ready /\ r.request = task.request
        /\ r.entity = task.entity /\ r.pc = task.pc /\ r.ranged = task.ranged
        /\ r.restart = restart /\ r.total = task.total
        /\ r.start = task.start /\ r.end = task.end /\ r.error = task.error
        /\ r.done = task.done /\ r.disk = task.disk
    BY <2>2, <2>4, CurrentOK DEF Task
  <2>6. CoverOK(r) /\ OpenOK(r) /\ EndOK(r) /\ DiskOK(r)
    BY <2>5, CurrentOK
       DEF TaskOK, CoverOK, OpenOK, EndOK, DiskOK, DiskPosition, Opening
  <2>7. RequestOK(r)
    BY <2>3, <2>5, CurrentOK DEF TaskOK, RequestOK, Opening
  <2>8. TaskOK(r)
    BY <2>6, <2>7 DEF TaskOK
  <2>9. ClientsOK(r, clients)
    BY <2>5, CurrentOK, SameClients
  <2>10. /\ k.position >= clients[c].position /\ k.active = clients[c].active
         /\ clients[c].pc \in Calls /\ ~k.active => k.canceled
         /\ k.pc \in Calls /\ k.pc # "out"
    BY <1>1, <1>3, <1>4, <1>8
  <2>11. ClientsOK(r, [clients EXCEPT ![c] = k])
    BY <1>1, <1>4, <1>7, <2>5, <2>9, <2>10, CurrentOK, OneClient
  <2> QED BY <1>4, <2>1, <2>5, <2>8, <2>11, ClientKeeps
<1> QED BY <1>9, <1>10

LEMMA SeekKeeps ==
    ASSUME Inductive, NEW c \in Consumers, NEW p \in 0..Size, Seek(c, p)
    PROVE  Inductive'
<1> DEFINE s == clients[c]
           k == [s EXCEPT !.position = p, !.demand = None]
<1>1. /\ s \in Consumer /\ s.pc = "idle" /\ s.pc \in Calls
      /\ Checked(c).error = "none" /\ ClientStep(c, task, k)
      /\ task.sequential /\ p < s.position => "rewind" \in env.may
  BY CurrentOK DEF Seek, Calls
<1>2. s.error = "none"
  BY <1>1, CheckedYields
<1>3. s.pc \in Calls /\ ~s.active => s.canceled
  BY CurrentOK DEF ClientsOK, LeasesOK
<1>4. task.ready /\ (task.shareable \/ task.owner = c)
  BY <1>1, <1>2, IdleReads
<1>5. s.position \in 0..Size
  BY <1>1, ConsumerFields
<1> HIDE DEF s
<1>6. /\ k \in Consumer /\ k.pc = "idle" /\ k.error = "none"
      /\ k.active = s.active /\ k.canceled = s.canceled
      /\ k.position = p
  <2>1. None \in (0..Size) \cup {None}
    OBVIOUS
  <2> QED BY <1>1, <1>2, <2>1 DEF Consumer
<1> HIDE DEF k
<1>7. k.position >= s.position \/ ~Forwards(task)
  BY <1>1, <1>5, <1>6, Numbers DEF Forwards
<1>8. /\ k.pc \in Calls /\ k.pc # "out" /\ k.active = clients[c].active
      /\ clients[c].pc \in Calls /\ ~k.active => k.canceled
      /\ k.position >= clients[c].position \/ ~Forwards(task)
  BY <1>1, <1>3, <1>6, <1>7 DEF s
<1>9. ClientsOK(task, [clients EXCEPT ![c] = k])
  BY <1>1, <1>4, <1>6, <1>8, CurrentOK, OneClient DEF s
<1> QED BY <1>1, <1>6, <1>9, CurrentOK, ClientKeeps

\* A window that has not yet rolled is the whole beginning of the stream, each
\* position in its own place, and becomes a spool as it is.
LEMMA SpooledYields ==
    ASSUME NEW t \in Task, NEW cl \in [Consumers -> Consumer], TaskOK(t),
           ClientsOK(t, cl), CanSpool(t), t.ready, NEW limit \in Nat
    PROVE  LET spool == IF t.sequential THEN limit ELSE t.spool
               r == [t EXCEPT !.sequential = FALSE, !.spool = spool]
           IN  r \in Task /\ TaskOK(r) /\ ClientsOK(r, cl)
<1> DEFINE spool == IF t.sequential THEN limit ELSE t.spool
           r == [t EXCEPT !.sequential = FALSE, !.spool = spool]
<1>1. spool \in Nat \cup {None}
  BY TaskFlags
<1> HIDE DEF spool
<1>2. /\ r \in Task /\ r.list = t.list /\ r.stopping = t.stopping
      /\ r.accepting = t.accepting /\ r.owner = t.owner
      /\ r.sequential = FALSE /\ r.shareable = t.shareable
      /\ r.covered = t.covered /\ r.at = t.at /\ r.spool = spool
      /\ r.ready = t.ready /\ r.request = t.request
      /\ r.entity = t.entity /\ r.pc = t.pc /\ r.ranged = t.ranged
      /\ r.restart = t.restart /\ r.total = t.total
      /\ r.start = t.start /\ r.end = t.end /\ r.error = t.error
      /\ r.done = t.done /\ r.disk = t.disk
  BY <1>1 DEF Task
<1> HIDE DEF r
<1>3. /\ t.at \in 0..Size /\ Capacity \in Nat /\ Capacity > 0
      /\ Size \in Nat /\ t.covered \subseteq 0..(Size - 1)
  BY TaskFields, Numbers
<1>4. t.sequential => t.covered = 0..(t.at - 1)
  <2> SUFFICES ASSUME t.sequential PROVE t.covered = 0..(t.at - 1)
    OBVIOUS
  <2>1. t.covered = {p \in 0..(t.at - 1) : p >= t.at - Capacity}
        /\ t.at <= Capacity
    BY DEF TaskOK, CoverOK, CanSpool
  <2> QED BY <1>3, <2>1
<1>5. CoverOK(r)
  BY <1>2, <1>4 DEF TaskOK, CoverOK
<1>6. RequestOK(r) /\ OpenOK(r)
  BY <1>2 DEF TaskOK, RequestOK, OpenOK, Opening
<1>7. EndOK(r)
  BY <1>2, <1>4 DEF TaskOK, EndOK
<1>8. DiskOK(r)
  <2> SUFFICES ASSUME NEW p \in t.covered
               PROVE  p \in DOMAIN t.disk /\ t.disk[p] = <<t.entity, p>>
    BY <1>2 DEF DiskOK, DiskPosition
  <2>1. DiskPosition(t, p) \in DOMAIN t.disk
        /\ t.disk[DiskPosition(t, p)] = <<t.entity, p>>
    BY DEF TaskOK, DiskOK
  <2>2. CASE t.sequential
    <3>1. p \in 0..(Capacity - 1)
      BY <1>3, <1>4, <2>2 DEF CanSpool
    <3>2. p % Capacity = p
      BY <1>3, <3>1
    <3> QED BY <2>1, <2>2, <3>2 DEF DiskPosition
  <2>3. CASE ~t.sequential
    BY <2>1, <2>3 DEF DiskPosition
  <2> QED BY <2>2, <2>3
<1>9. TaskOK(r)
  BY <1>5, <1>6, <1>7, <1>8 DEF TaskOK
<1>10. ClientsOK(r, cl)
  <2>1. LeasesOK(r, cl) /\ ReadersOK(r, cl)
    BY <1>2 DEF ClientsOK, LeasesOK, ReadersOK, InList
  <2>2. WindowOK(r, cl)
    BY <1>2 DEF WindowOK, Forwards
  <2> QED BY <2>1, <2>2 DEF ClientsOK
<1> QED BY <1>2, <1>9, <1>10 DEF r, spool

LEMMA StartBufferingKeeps ==
    ASSUME Inductive, NEW c \in Consumers, NEW limit \in Nat,
           StartBuffering(c, limit)
    PROVE  Inductive'
<1> DEFINE s == clients[c]
           k == [s EXCEPT !.pc = "buffering"]
           spool == IF task.sequential THEN limit ELSE task.spool
           r == [task EXCEPT !.sequential = FALSE, !.spool = spool]
<1>1. /\ s \in Consumer /\ s.pc = "idle" /\ s.pc \in Calls
      /\ CanSpool(task) /\ ClientStep(c, r, k)
  BY CurrentOK DEF StartBuffering, Calls, Task
<1>2. s.pc \in Calls /\ ~s.active => s.canceled
  BY CurrentOK DEF ClientsOK, LeasesOK
<1>3. s.error = "canceled" => s.canceled
  BY CurrentOK DEF ClientsOK, LeasesOK
<1>4. task.ready /\ (task.shareable \/ task.owner = c)
  BY <1>1, IdleReads
<1>5. s.position \in 0..Size
  BY <1>1, ConsumerFields
<1> HIDE DEF s
<1>6. "buffering" \in Calls
  BY DEF Calls
<1>7. /\ k \in Consumer /\ k.pc = "buffering" /\ k.error = s.error
      /\ k.active = s.active /\ k.canceled = s.canceled
      /\ k.position = s.position
  BY <1>1, <1>6 DEF Consumer
<1> HIDE DEF k
<1>8. r \in Task /\ TaskOK(r) /\ ClientsOK(r, clients)
  BY <1>1, <1>4, CurrentOK, SpooledYields
<1>9. /\ r.sequential = FALSE /\ r.ready = task.ready /\ r.error = task.error
      /\ r.shareable = task.shareable /\ r.owner = task.owner
      /\ r.at = task.at /\ (~task.sequential => r.spool = task.spool)
  BY CurrentOK DEF Task
<1> HIDE DEF r
<1>10. /\ k.pc \in Calls /\ k.pc # "out" /\ k.active = clients[c].active
       /\ clients[c].pc \in Calls /\ ~k.active => k.canceled
       /\ k.error = "canceled" => k.canceled
       /\ k.position >= clients[c].position
  BY <1>1, <1>2, <1>3, <1>5, <1>6, <1>7 DEF s
<1>11. ClientsOK(r, [clients EXCEPT ![c] = k])
  BY <1>1, <1>4, <1>7, <1>8, <1>9, <1>10, CurrentOK, OneClient DEF s
<1>13. k.error = clients[c].error
  BY <1>7 DEF s
<1>12. (r.at = task.at /\ r.spool = task.spool) \/ ~Exceeds(task)
  BY <1>9, CurrentOK DEF Exceeds, TaskOK, CoverOK
<1> QED BY <1>1, <1>7, <1>8, <1>9, <1>11, <1>12, <1>13, ClientKeeps

\* The position of one consumer, and the window, do not change with the list.
LEMMA ListChanges ==
    ASSUME Inductive, NEW c \in Consumers, NEW k \in Consumer, NEW r \in Task,
           k.position = clients[c].position,
           k.pc \in {"opening", "closed"},
           r.ready = task.ready, r.shareable = task.shareable,
           r.owner = task.owner, r.sequential = task.sequential,
           r.at = task.at, r.pc = task.pc,
           LeasesOK(r, [clients EXCEPT ![c] = k])
    PROVE  ClientsOK(r, [clients EXCEPT ![c] = k])
<1> DEFINE cl == [clients EXCEPT ![c] = k]
<1>1. \A d \in Consumers : cl[d] = IF d = c THEN k ELSE clients[d]
  BY CurrentOK
<1> HIDE DEF cl
<1>2. ReadersOK(r, cl)
  BY <1>1, CurrentOK DEF ClientsOK, ReadersOK
<1>3. WindowOK(r, cl)
  BY <1>1, CurrentOK DEF ClientsOK, WindowOK, Forwards
<1> QED BY <1>2, <1>3 DEF ClientsOK, cl

LEMMA AttachKeeps ==
    ASSUME Inductive, NEW c \in Consumers, Attach(c)
    PROVE  Inductive'
<1> DEFINE s == clients[c]
           list == Append(task.list, c)
           r == [task EXCEPT !.list = list]
           opening == [s EXCEPT !.pc = "opening"]
           closed == [s EXCEPT !.pc = "closed", !.active = FALSE]
           accepted == /\ task.accepting /\ task.error = "none"
                       /\ task.ready => task.shareable
<1>1. /\ s \in Consumer /\ s.pc = "out"
      /\ IF accepted THEN ClientStep(c, r, opening) ELSE ClientStep(c, task, closed)
  BY CurrentOK DEF Attach, Task
<1>2. /\ LeasesOK(task, clients) /\ s.active /\ ~InList(task, c)
      /\ (s.error = "canceled" => s.canceled)
  BY <1>1, CurrentOK DEF ClientsOK, LeasesOK, Calls
<1> HIDE DEF s
<1>3. CASE accepted
  <2>1. task.list \in Seq(Consumers) /\ ~task.stopping /\ task.accepting
    BY <1>2, <1>3, CurrentOK, TaskFields DEF LeasesOK
  <2>2. /\ list \in Seq(Consumers) /\ Distinct(list)
        /\ \A d \in Consumers : (\E i \in DOMAIN list : list[i] = d) <=>
                                 InList(task, d) \/ d = c
    BY <1>2, <2>1, AppendedTo DEF LeasesOK, InList
  <2>3. ClientStep(c, r, opening)
    BY <1>1, <1>3
  <2> HIDE DEF list
  <2>4. /\ r \in Task /\ r.list = list /\ r.stopping = task.stopping
        /\ r.accepting = task.accepting /\ r.owner = task.owner
        /\ r.sequential = task.sequential /\ r.shareable = task.shareable
        /\ r.covered = task.covered /\ r.at = task.at /\ r.spool = task.spool
        /\ r.ready = task.ready /\ r.request = task.request
        /\ r.entity = task.entity /\ r.pc = task.pc /\ r.ranged = task.ranged
        /\ r.restart = task.restart /\ r.total = task.total
        /\ r.start = task.start /\ r.end = task.end /\ r.error = task.error
        /\ r.done = task.done /\ r.disk = task.disk
    BY <2>2, CurrentOK DEF Task
  <2> HIDE DEF r
  <2>5. TaskOK(r)
    BY <2>4, CurrentOK, SameTask
  <2>6. "opening" \in Calls
    BY DEF Calls
  <2>7. /\ opening \in Consumer /\ opening.pc = "opening"
        /\ opening.error = s.error /\ opening.active = s.active
        /\ opening.canceled = s.canceled /\ opening.position = s.position
    BY <1>1, <2>6 DEF Consumer
  <2> DEFINE cl == [clients EXCEPT ![c] = opening]
  <2> HIDE DEF opening
  <2>8. \A d \in Consumers : cl[d] = IF d = c THEN opening ELSE clients[d]
    BY CurrentOK
  <2>9. \A d \in Consumers : InList(r, d) <=> InList(task, d) \/ d = c
    BY <2>2, <2>4 DEF InList
  <2> HIDE DEF cl
  <2>10. LeasesOK(r, cl)
    <3>1. Distinct(r.list) /\ ~r.stopping
      BY <2>1, <2>2, <2>4
    <3>2. \A d \in Consumers : InList(r, d) <=> cl[d].pc \in Calls
      BY <1>2, <2>6, <2>7, <2>8, <2>9 DEF LeasesOK
    <3>3. \A d \in Consumers : InList(r, d) /\ ~cl[d].active => cl[d].canceled
      BY <1>2, <2>7, <2>8, <2>9 DEF LeasesOK
    <3>4. \A d \in Consumers : /\ cl[d].pc = "out" => cl[d].active
                               /\ cl[d].error = "canceled" => cl[d].canceled
      BY <1>2, <2>7, <2>8 DEF LeasesOK
    <3> QED BY <3>1, <3>2, <3>3, <3>4 DEF LeasesOK
  <2>11. ClientsOK(r, cl)
    BY <2>4, <2>7, <2>10, ListChanges DEF cl, s
  <2> QED BY <2>3, <2>4, <2>5, <2>7, <2>11, ClientKeeps DEF cl, s
<1>4. CASE ~accepted
  <2>1. /\ closed \in Consumer /\ closed.pc = "closed" /\ closed.active = FALSE
        /\ closed.error = s.error /\ closed.canceled = s.canceled
        /\ closed.position = s.position
    BY <1>1 DEF Consumer
  <2>2. ClientStep(c, task, closed)
    BY <1>1, <1>4
  <2> DEFINE cl == [clients EXCEPT ![c] = closed]
  <2> HIDE DEF closed
  <2>3. \A d \in Consumers : cl[d] = IF d = c THEN closed ELSE clients[d]
    BY CurrentOK
  <2> HIDE DEF cl
  <2>4. LeasesOK(task, cl)
    BY <1>2, <2>1, <2>3 DEF LeasesOK, Calls
  <2>5. ClientsOK(task, cl)
    BY <2>1, <2>4, CurrentOK, ListChanges DEF cl, s
  <2> QED BY <2>1, <2>2, <2>5, CurrentOK, ClientKeeps DEF cl, s
<1> QED BY <1>3, <1>4

\* A consumer that leaves takes only itself out of the list.
LEMMA LeftKeeps ==
    ASSUME Inductive, NEW c \in Consumers, InList(task, c), NEW k \in Consumer,
           k.pc = "closed", k.position = clients[c].position,
           k.error = "canceled" => k.canceled,
           \/ k.error \in {"none", "canceled", clients[c].error}
           \/ Excused(task, k.error) \/ faulty,
           ClientStep(c, Left(task, clients, c), k)
    PROVE  Inductive'
<1>1. LeasesOK(task, clients) /\ task \in Task /\ Distinct(task.list)
  BY CurrentOK DEF ClientsOK, LeasesOK
<1> DEFINE r == Left(task, clients, c)
<1>2. r \in Task /\ Distinct(r.list)
      /\ \A d \in Consumers : InList(r, d) <=> InList(task, d) /\ d # c
  BY <1>1, LeftYields
<1>3. \/ r.accepting = task.accepting /\ r.stopping = task.stopping
      \/ /\ \A d \in Consumers : InList(task, d) /\ d # c => ~clients[d].active
         /\ r.accepting = FALSE /\ r.stopping = TRUE
  BY <1>1, LeftYields
<1>4. ClientStep(c, r, k)
  OBVIOUS
<1>5. /\ r.owner = task.owner
      /\ r.sequential = task.sequential /\ r.shareable = task.shareable
      /\ r.covered = task.covered /\ r.at = task.at /\ r.spool = task.spool
      /\ r.ready = task.ready /\ r.request = task.request
      /\ r.entity = task.entity /\ r.pc = task.pc /\ r.ranged = task.ranged
      /\ r.restart = task.restart /\ r.total = task.total
      /\ r.start = task.start /\ r.end = task.end /\ r.error = task.error
      /\ r.done = task.done /\ r.disk = task.disk
  BY <1>1, LeftSame
<1> HIDE DEF r
<1>6. TaskOK(r)
  BY <1>3, <1>5, CurrentOK, SameTask
<1> DEFINE cl == [clients EXCEPT ![c] = k]
<1>7. \A d \in Consumers : cl[d] = IF d = c THEN k ELSE clients[d]
  BY CurrentOK
<1> HIDE DEF cl
<1>8. LeasesOK(r, cl)
  <2>1. r.stopping => /\ ~r.accepting
                      /\ \A d \in Consumers : InList(r, d) => ~cl[d].active
    BY <1>1, <1>2, <1>3, <1>7 DEF LeasesOK
  <2>2. \A d \in Consumers : InList(r, d) <=> cl[d].pc \in Calls
    BY <1>1, <1>2, <1>7 DEF LeasesOK, Calls
  <2>3. \A d \in Consumers : InList(r, d) /\ ~cl[d].active => cl[d].canceled
    BY <1>1, <1>2, <1>7 DEF LeasesOK
  <2>4. \A d \in Consumers : /\ cl[d].pc = "out" => cl[d].active
                             /\ cl[d].error = "canceled" => cl[d].canceled
    BY <1>1, <1>7 DEF LeasesOK
  <2> QED BY <1>2, <2>1, <2>2, <2>3, <2>4 DEF LeasesOK
<1>9. ClientsOK(r, cl)
  BY <1>2, <1>5, <1>8, ListChanges DEF cl
<1> QED BY <1>2, <1>4, <1>5, <1>6, <1>9, ClientKeeps DEF cl

LEMMA DetachKeeps ==
    ASSUME Inductive, NEW c \in Consumers, Detach(c)
    PROVE  Inductive'
<1> DEFINE s == clients[c]
           k == [s EXCEPT !.pc = "closed", !.active = FALSE]
<1>1. s \in Consumer /\ s.pc = "idle"
      /\ ClientStep(c, Left(task, clients, c), k)
  BY CurrentOK DEF Detach
<1>2. InList(task, c) /\ (s.error = "canceled" => s.canceled)
  BY <1>1, CurrentOK DEF ClientsOK, LeasesOK, Calls
<1> HIDE DEF s
<1>3. /\ k \in Consumer /\ k.pc = "closed" /\ k.error = s.error
      /\ k.canceled = s.canceled /\ k.position = s.position
  BY <1>1 DEF Consumer
<1> HIDE DEF k
<1> QED BY <1>1, <1>2, <1>3, LeftKeeps DEF s

LEMMA OpenedKeeps ==
    ASSUME Inductive, NEW c \in Consumers, Opened(c)
    PROVE  Inductive'
<1>1. clients[c].pc = "opening" /\ clients[c].pc \in Calls
  BY DEF Opened, Calls
<1> DEFINE s == Checked(c)
           u == Returned(s, "none")
           k == [s EXCEPT !.pc = "closed", !.active = FALSE]
<1>2. /\ s \in Consumer /\ InList(task, c) /\ (s.active => clients[c].active)
      /\ (~s.active => s.canceled) /\ s.position = clients[c].position
      /\ s.error = "canceled" => s.canceled
      /\ Excused(task, s.error) \/ faulty \/ s.error = clients[c].error
  BY <1>1, CheckedYields
<1>3. IF s.error = "none" /\ (task.shareable \/ task.owner = c)
      THEN ClientStep(c, task, u) /\ task.ready
      ELSE ClientStep(c, Left(task, clients, c), k)
  BY DEF Opened
<1> HIDE DEF s
<1>4. /\ u \in Consumer /\ u.pc = "idle" /\ u.error = "none"
      /\ u.active = s.active /\ u.canceled = s.canceled
      /\ u.position = clients[c].position
  BY <1>2, ReturnedYields DEF Errors
<1>5. /\ k \in Consumer /\ k.pc = "closed" /\ k.error = s.error
      /\ k.canceled = s.canceled /\ k.position = clients[c].position
  BY <1>2 DEF Consumer
<1>6. clients[c].position \in 0..Size
  BY CurrentOK, ConsumerFields
<1> HIDE DEF u, k
<1>7. CASE s.error = "none" /\ (task.shareable \/ task.owner = c)
  <2>1. u.pc \in Calls /\ u.pc # "out" /\ u.position >= clients[c].position
        /\ Excused(task, u.error)
    BY <1>4, <1>6 DEF Calls, Excused
  <2>2. ClientsOK(task, [clients EXCEPT ![c] = u])
    BY <1>1, <1>2, <1>3, <1>4, <1>7, <2>1, CurrentOK, OneClient
  <2> QED BY <1>3, <1>4, <1>7, <2>1, <2>2, CurrentOK, ClientKeeps
<1>8. CASE ~(s.error = "none" /\ (task.shareable \/ task.owner = c))
  BY <1>2, <1>3, <1>5, <1>8, LeftKeeps
<1> QED BY <1>7, <1>8

-----------------------------------------------------------------------------
(* The invariant and what follows from it.                                 *)

LEMMA InitInductive == Init => Inductive
<1> SUFFICES ASSUME Init PROVE Inductive
  OBVIOUS
<1>1. /\ task.list = <<1>> /\ task.pc = "connect" /\ task.start = 0
      /\ task.request = 0 /\ task.at = 0 /\ task.end = None /\ task.entity = 0
      /\ task.covered = {} /\ task.disk = <<>> /\ task.total = None
      /\ task.ranged = FALSE /\ task.sequential = FALSE /\ task.spool = None
      /\ task.restart = FALSE /\ task.stopping = FALSE /\ task.accepting = TRUE
      /\ task.ready = FALSE /\ task.shareable = FALSE /\ task.owner = Nobody
      /\ task.done = FALSE /\ task.error = "none" /\ task.retries = 0
  BY DEF Init, NewTask
<1>2. env \in Environments /\ entity \in 1..2 /\ faulty \in BOOLEAN
  <2>1. env \in Environments
    BY DEF Init
  <2>2. entity \in 1..2
    BY DEF Init
  <2>3. faulty \in BOOLEAN
    BY Zenon DEF Init
  <2> QED BY <2>1, <2>2, <2>3
<1>3. task \in Task
  <2>1. <<>> \in Disks
    <3>1. <<>> \in [{} -> (0..2) \X Nat] /\ {} \in SUBSET Nat
      OBVIOUS
    <3> QED BY <3>1 DEF Disks
  <2>2. <<1>> \in Seq(Consumers)
    BY Numbers
  <2>3. 0 \in 0..(Size - 1) /\ 0 \in 0..Size
    BY Numbers
  <2>4. task = NewTask
    BY DEF Init
  <2> QED BY <2>1, <2>2, <2>3, <2>4 DEF NewTask, Task, Places
<1>4. NewClient \in Consumer
  BY Numbers DEF NewClient, Consumer, Errors
<1>5. [NewClient EXCEPT !.pc = "opening"] \in Consumer
  BY <1>4 DEF Consumer, Calls
<1>6. clients \in [Consumers -> Consumer]
  BY <1>4, <1>5 DEF Init
<1>7. \A c \in Consumers :
          /\ clients[c].pc = (IF c = 1 THEN "opening" ELSE "out")
          /\ clients[c].active /\ clients[c].error = "none"
  BY DEF Init, NewClient
<1>8. Typed
  BY <1>2, <1>3, <1>6 DEF Typed
<1>9. TaskOK(task)
  BY <1>1, Numbers
     DEF TaskOK, CoverOK, RequestOK, OpenOK, EndOK, DiskOK, Opening
<1>10. ClientsOK(task, clients)
  <2>1. \A c \in Consumers : InList(task, c) <=> c = 1
    BY <1>1 DEF InList
  <2>2. LeasesOK(task, clients)
    BY <1>1, <1>7, <2>1 DEF LeasesOK, Distinct, Calls
  <2>3. ReadersOK(task, clients) /\ WindowOK(task, clients)
    BY <1>1, <1>7 DEF ReadersOK, WindowOK, Forwards
  <2> QED BY <2>2, <2>3 DEF ClientsOK
<1>11. Blamed(task, clients)
  BY <1>1, <1>7 DEF Blamed, Excused
<1> QED BY <1>8, <1>9, <1>10, <1>11 DEF Inductive

LEMMA WorkerInductive ==
    ASSUME Inductive, Worker
    PROVE  Inductive'
BY PollCanceledKeeps, RequestCanceledKeeps, RequestFailsKeeps,
   WorkerFileFailsKeeps, ConnectedKeeps,
   ElectKeeps, PublishReadyKeeps, DecideKeeps, PumpDataKeeps, PumpEndKeeps,
   PumpTruncatedKeeps, EndWorkerKeeps
   DEF Worker

LEMMA ClientInductive ==
    ASSUME Inductive, NEW c \in Consumers, Client(c)
    PROVE  Inductive'
BY AttachKeeps, DetachKeeps, StartReadKeeps, StartBufferingKeeps, CancelKeeps,
   SeekKeeps, OpenedKeeps, ReadCoveredKeeps, ReadFailsKeeps, ReadMissingKeeps,
   BufferedKeeps, CurrentOK
   DEF Client, Waiting, EnvironmentOK

LEMMA NextInductive == Inductive /\ [Next]_vars => Inductive'
<1> SUFFICES ASSUME Inductive, [Next]_vars PROVE Inductive'
  OBVIOUS
<1>1. CASE Worker
  BY <1>1, WorkerInductive
<1>2. ASSUME NEW c \in Consumers, Client(c) PROVE Inductive'
  BY <1>2, ClientInductive
<1>3. CASE EntityChanges
  BY <1>3, EntityChangesKeeps
<1>4. CASE UNCHANGED vars
  <2>1. task' = task /\ clients' = clients
        /\ UNCHANGED <<env, entity, faulty>>
    BY <1>4 DEF vars
  <2> QED BY <2>1, CurrentOK, InductiveFrom
<1> QED BY <1>1, <1>2, <1>3, <1>4 DEF Next

\* The state of the download always fits together: what is covered, where the
\* worker is, what the request is of and who is listed agree (CacheTask and
\* ClientState of http_stream.cpp).
THEOREM InductiveInvariant == Spec => []Inductive
<1>1. Init => Inductive
  BY InitInductive
<1>2. Inductive /\ [Next]_vars => Inductive'
  BY NextInductive
<1> QED BY <1>1, <1>2, PTL DEF Spec

\* Every field of the download and of its consumers stays in its range, and no
\* request is made behind the end of the resource.
THEOREM TypeCorrect == Spec => []TypeOK
<1>1. Inductive => TypeOK
  <2> SUFFICES ASSUME Inductive PROVE TypeOK
    OBVIOUS
  <2>1. \A c \in Consumers : clients[c] \in Consumer
    BY CurrentOK
  <2>2. \A c \in Consumers : /\ clients[c].position \in 0..Size
                             /\ clients[c].demand \in (0..Size) \cup {None}
    BY <2>1, ConsumerFields
  <2> QED BY <2>2, CurrentOK, TaskFields DEF TypeOK, Places, Positions
<1> QED BY <1>1, InductiveInvariant, PTL

\* A covered position of the temporary file holds that position of the entity
\* that was opened, for any length and window and however ranges, resumptions,
\* replacements and spooling interleave (CacheTask::Cache, DropBefore, Start).
THEOREM CacheHoldsTheResource == Spec => []CacheIsTheResource
<1>1. Inductive => CacheIsTheResource
  BY CurrentOK DEF TaskOK, DiskOK, CacheIsTheResource
<1> QED BY <1>1, InductiveInvariant, PTL

\* However many consumers share the download, only the owner of a call cancels
\* it (CacheTask::Guard, Active, Detach).
THEOREM OnlyOwnersCancel == Spec => []CanceledByOwner
<1>1. Inductive => CanceledByOwner
  BY CurrentOK DEF ClientsOK, LeasesOK, CanceledByOwner
<1> QED BY <1>1, InductiveInvariant, PTL

\* A call fails only after a request or the worker's file did, the resource was
\* replaced or a spool reached its limit, or for a cause of its own consumer:
\* neither the end of the worker nor the window makes one up (CacheTask::Read,
\* Protect, Pump).
THEOREM FailuresHaveACause == Spec => []FailsForCause
<1>1. Inductive => FailsForCause
  BY CurrentOK DEF Blamed, Excused, FailsForCause
<1> QED BY <1>1, InductiveInvariant, PTL

\* The window of a live stream, of any size, keeps what its owner has not read
\* (CacheTask::Prefetch, DropBefore).
THEOREM NothingUnreadIsDropped == Spec => []WindowHoldsUnread
<1>1. Inductive => WindowHoldsUnread
  <2> SUFFICES ASSUME Inductive, task.sequential, task.owner # Nobody,
                      "rewind" \notin env.may,
                      ~(clients[task.owner].position >= task.at)
               PROVE  clients[task.owner].position \in task.covered
    BY DEF WindowHoldsUnread
  <2> DEFINE p == clients[task.owner].position
  <2>1. clients[task.owner] \in Consumer
    BY CurrentOK
  <2>2. /\ p \in 0..Size /\ task.at \in 0..Size /\ Size \in Nat
        /\ Capacity \in Nat
    BY <2>1, CurrentOK, TaskFields, ConsumerFields, Numbers
  <2>3. p >= task.at - (IF task.pc = "pump" THEN Capacity - 1 ELSE Capacity)
    BY CurrentOK DEF ClientsOK, WindowOK, Forwards
  <2>4. task.covered = {q \in 0..(task.at - 1) : q >= task.at - Capacity}
    BY CurrentOK DEF TaskOK, CoverOK
  <2> QED BY <2>2, <2>3, <2>4
<1> QED BY <1>1, InductiveInvariant, PTL
=============================================================================
