--------------------- MODULE RandomPlaybackOrderProofs ---------------------
(***************************************************************************)
(* Proofs about RandomPlaybackOrder, for lists of any length.              *)
(***************************************************************************)
EXTENDS RandomPlaybackOrder, TLAPS

-----------------------------------------------------------------------------
(* The inductive invariant.                                                *)

PositionTyped ==
    /\ count \in Nat
    /\ playing \in Playable(count)
    /\ orderCount \in Nat
    /\ expected \in Playable(orderCount)
    /\ cursor \in -1 .. orderCount - 1
    /\ cursor = -1 => expected = NoRow

\* Rounds that could be the rounds of the order as it stands.
Usable(r) ==
    /\ r \in RoundsOf(orderCount)
    /\ NoRepeat(r, orderCount)
    /\ Different(r, orderCount)
    /\ r.current # NoRound /\ cursor >= 0 => r.current[cursor + 1] = expected

\* A job that has not been superseded works on the rounds in use; a first job finds
\* the order without rounds, and so the cursor where Prepare left it.
Current(w) ==
    /\ w.slot \in {"first", "previous", "next"}
    /\ w.count = orderCount
    /\ w.retained = rounds
    /\ w.slot = "first" =>
        /\ w.anchor = expected
        /\ cursor = IF expected = NoRow THEN -1 ELSE 0
        /\ w.retained = NoRounds

\* The work of one generation is in one place at a time.
OneOwner ==
    /\ job # NoJob => ~workCurrent /\ ~result.ready
    /\ workCurrent => work # NoJob /\ ~result.ready

Consistent ==
    /\ PositionTyped
    /\ Usable(rounds)
    /\ job # NoJob => Current(job)
    /\ workCurrent => Current(work)
    /\ result.ready => Usable(result.rounds)
    /\ OneOwner
    /\ PendingIsOwned

RequestsTyped == requests \in Seq(Requests)
Inductive == Consistent /\ RequestsTyped

-----------------------------------------------------------------------------
(* What the worker builds.                                                 *)

\* The rounds made of a job fit the retained ones they are joined with.
LEMMA BuiltRounds ==
    ASSUME NEW w, w.count \in Nat,
           w.slot \in {"first", "previous", "next"},
           w.retained \in RoundsOf(w.count),
           NoRepeat(w.retained, w.count), Different(w.retained, w.count),
           NEW r \in Built(w)
    PROVE  /\ r \in RoundsOf(w.count)
           /\ NoRepeat(r, w.count) /\ Different(r, w.count)
           /\ w.slot = "first" /\ w.anchor # NoRow => r.current[1] = w.anchor
           /\ w.slot # "first" => r.current = w.retained.current
<1> DEFINE n == w.count
<1> USE DEF RoundsOf, MaybeRound, NoRepeat, Different, Acceptable
<1>1. CASE w.slot = "first" /\ ThreeRounds(n)
  BY <1>1 DEF Built, FirstRound
<1>2. CASE w.slot = "first" /\ ~ThreeRounds(n)
  BY <1>2 DEF Built, FirstRound
<1>3. CASE w.slot = "previous"
  BY <1>3 DEF Built
<1>4. CASE w.slot = "next"
  BY <1>4 DEF Built
<1> QED BY <1>1, <1>2, <1>3, <1>4

-----------------------------------------------------------------------------
(* What the window thread's operations on the order preserve.              *)

\* A rebuilt order has no rounds and its worker starts from nothing.
LEMMA RebuildStep ==
    ASSUME NEW n \in Nat, NEW row \in Playable(n),
           Consistent, Rebuild(n, row), count' = n, playing' \in Playable(n)
    PROVE  Consistent'
<1> USE DEF Rebuild, Consistent, BumpGeneration
<1>1. PositionTyped'
  BY DEF PositionTyped, Playable, Rows, NoRow
<1>2. Usable(rounds)'
  BY <1>1 DEF Usable, PositionTyped, NoRounds, RoundsOf, MaybeRound, NoRepeat, Different
<1>3. (job # NoJob => Current(job))'
  BY DEF Current, Playable, Rows, NoRow, NoRounds
<1>4. (workCurrent => Current(work))' /\ (result.ready => Usable(result.rounds))'
  BY DEF NoResult
<1>5. OneOwner' /\ PendingIsOwned'
  BY DEF OneOwner, PendingIsOwned, NoResult, NoJob
<1> QED BY <1>1, <1>2, <1>3, <1>4, <1>5

\* The order may be left as it is when only the list changes.
LEMMA ListStep ==
    ASSUME Consistent, count' \in Nat, playing' \in Playable(count'),
           UNCHANGED <<orderCount, expected, cursor, rounds, pending, workVars>>
    PROVE  Consistent'
<1> QED BY DEF Consistent, workVars, PositionTyped, Usable, Current, OneOwner,
            PendingIsOwned

\* Prepare either rebuilds or does nothing.
LEMMA PrepareStep ==
    ASSUME NEW row \in Playable(count),
           Consistent, Prepare(row), count' = count, playing' = row
    PROVE  Consistent'
<1>1. count \in Nat
  BY DEF Consistent, PositionTyped
<1>2. CASE OutdatedFor(row)
  BY <1>1, <1>2, RebuildStep DEF Prepare
<1>3. CASE ~OutdatedFor(row)
  BY <1>1, <1>3, ListStep DEF Prepare, orderVars
<1> QED BY <1>2, <1>3

\* The rounds the order has after Collect are usable.
LEMMA CollectedUsable ==
    ASSUME Consistent
    PROVE  Usable(Collected.rounds)
<1> QED BY DEF Consistent, Collected

\* Taking the result over.
LEMMA CollectStep ==
    ASSUME Consistent, Collect, UNCHANGED listVars
    PROVE  Consistent'
<1> USE DEF Consistent, Collect, listVars
<1>1. PositionTyped'
  BY DEF PositionTyped
<1>2. Usable(rounds)'
  BY CollectedUsable DEF Usable
<1>3. (job # NoJob => Current(job))' /\ (workCurrent => Current(work))'
  BY DEF Current, OneOwner, Collected
<1>4. (result.ready => Usable(result.rounds))' /\ OneOwner' /\ PendingIsOwned'
  BY DEF NoResult, OneOwner, PendingIsOwned, Collected
<1> QED BY <1>1, <1>2, <1>3, <1>4

\* What a step of the cursor selects: a row of the list, and never the row the order
\* expects to be playing.
LEMMA SelectedRow ==
    ASSUME NEW next \in BOOLEAN,
           Consistent, PollReady, ~MustWait(next)
    PROVE  /\ Selected(next) \in Rows(count)
           /\ Selected(next) # expected
           /\ orderCount = count /\ playing = expected /\ count >= 2
           /\ ~Crosses(next) => /\ Moved(next) \in Rows(count)
                                /\ Selected(next) = Collected.rounds.current[Moved(next) + 1]
<1> DEFINE r == Collected.rounds
<1>1. orderCount = count /\ playing = expected /\ count >= 2
  BY DEF PollReady, OutdatedFor
<1>2. count \in Nat /\ cursor \in -1 .. count - 1
  BY <1>1 DEF Consistent, PositionTyped
<1>3. Usable(r)
  BY CollectedUsable
<1>4. r.current # NoRound /\ r.current \in Shuffles(count)
  BY <1>1, <1>3 DEF MustWait, Usable, RoundsOf, MaybeRound
<1>5. cursor >= 0 => r.current[cursor + 1] = expected
  BY <1>3, <1>4 DEF Usable
<1>6. cursor = -1 => expected = NoRow
  BY DEF Consistent, PositionTyped
<1>7. CASE Crosses(next) /\ next
  <2>1. r.next # NoRound /\ r.next \in Shuffles(count) /\ Selected(next) = r.next[1]
    BY <1>1, <1>3, <1>7 DEF MustWait, Neighbour, Usable, RoundsOf, MaybeRound, Selected
  <2>2. cursor = count - 1
    BY <1>2, <1>7 DEF Crosses, Stepped, Rows
  <2>3. r.current[count] # r.next[1]
    BY <1>1, <1>3, <1>4, <2>1 DEF Usable, NoRepeat
  <2>4. Selected(next) \in Rows(count)
    BY <1>1, <1>2, <2>1 DEF Shuffles
  <2>5. r.current[count] = expected
    BY <1>1, <1>2, <1>5, <2>2
  <2> QED BY <1>1, <1>7, <2>1, <2>3, <2>4, <2>5
<1>8. CASE Crosses(next) /\ ~next
  <2>1. r.previous # NoRound /\ r.previous \in Shuffles(count)
    BY <1>1, <1>3, <1>8 DEF MustWait, Neighbour, Usable, RoundsOf, MaybeRound
  <2>2. Selected(next) = r.previous[count]
    BY <1>8 DEF Selected, Neighbour
  <2>3. cursor \in {-1, 0}
    BY <1>2, <1>8 DEF Crosses, Stepped, Rows
  <2>4. r.previous[count] # r.current[1]
    BY <1>1, <1>3, <1>4, <2>1 DEF Usable, NoRepeat
  <2>5. Selected(next) \in Rows(count)
    BY <1>1, <1>2, <2>1, <2>2 DEF Shuffles
  <2> QED BY <1>1, <1>2, <1>5, <1>6, <1>8, <2>2, <2>3, <2>4, <2>5 DEF Rows, NoRow
<1>9. CASE ~Crosses(next)
  <2>1. Selected(next) = r.current[Moved(next) + 1]
    BY <1>9 DEF Selected
  <2>2. Moved(next) \in Rows(count) /\ Moved(next) # cursor
    BY <1>1, <1>2 DEF Moved, Stepped, Rows
  <2>3. Selected(next) \in Rows(count)
    BY <1>1, <1>2, <1>4, <2>1, <2>2 DEF Shuffles, Rows
  <2>4. CASE cursor = -1
    BY <1>1, <1>6, <1>9, <2>1, <2>2, <2>3, <2>4 DEF Rows, NoRow
  <2>5. CASE cursor # -1
    <3>1. cursor + 1 \in 1 .. count /\ Moved(next) + 1 \in 1 .. count
      BY <1>1, <1>2, <2>2, <2>5 DEF Rows
    <3>2. cursor + 1 # Moved(next) + 1
      BY <1>2, <2>2 DEF Rows
    <3>3. r.current[cursor + 1] # r.current[Moved(next) + 1]
      BY <1>4, <3>1, <3>2 DEF Shuffles
    <3> QED BY <1>1, <1>2, <1>5, <1>9, <2>1, <2>2, <2>3, <2>5, <3>3
  <2> QED BY <2>4, <2>5
<1> QED BY <1>7, <1>8, <1>9

\* The cursor moves within the round.
LEMMA AdvanceStep ==
    ASSUME NEW next \in BOOLEAN,
           Consistent, PollReady, ~MustWait(next), ~Crosses(next), Advance(next),
           count' = count, playing' \in {playing, Selected(next)}
    PROVE  Consistent'
<1> USE DEF Advance, MoveCursor
<1> DEFINE r == Collected.rounds
<1>1. /\ Selected(next) \in Rows(count) /\ orderCount = count /\ count >= 2
      /\ Moved(next) \in Rows(count) /\ Selected(next) = r.current[Moved(next) + 1]
  BY SelectedRow
<1>2. PositionTyped'
  BY <1>1 DEF Consistent, PositionTyped, Playable, Rows
<1>3. Usable(rounds)'
  BY <1>1, CollectedUsable DEF Usable
<1>4. (job # NoJob => Current(job))' /\ (workCurrent => Current(work))'
  BY DEF Consistent, Current, OneOwner, Collected, MustWait, NoRounds
<1>5. (result.ready => Usable(result.rounds))' /\ OneOwner' /\ PendingIsOwned'
  BY DEF Consistent, NoResult, OneOwner, PendingIsOwned, Collected
<1> QED BY <1>2, <1>3, <1>4, <1>5 DEF Consistent

\* The cursor leaves the round: the rounds roll and the freed slot is refilled.
LEMMA RotateStep ==
    ASSUME NEW next \in BOOLEAN,
           Consistent, PollReady, ~MustWait(next), Crosses(next), Rotate(next),
           count' = count, playing' \in {playing, Selected(next)}
    PROVE  Consistent'
<1> USE DEF Rotate, BumpGeneration
<1> DEFINE r == Collected.rounds
<1>1. /\ Selected(next) \in Rows(count) /\ orderCount = count /\ count >= 2
      /\ count \in Nat
  BY SelectedRow DEF Consistent, PositionTyped
<1>2. PositionTyped'
  BY <1>1 DEF Consistent, PositionTyped, Playable, Rows
<1>3. Usable(r)
  BY CollectedUsable
<1>4. Usable(rounds)'
  BY <1>1, <1>3 DEF Usable, RoundsOf, MaybeRound, NoRepeat, Different, Selected,
                    Neighbour
<1>5. (job # NoJob => Current(job))' /\ (workCurrent => Current(work))'
  BY DEF Current
<1>6. (result.ready => Usable(result.rounds))' /\ OneOwner' /\ PendingIsOwned'
  BY DEF NoResult, NoJob, OneOwner, PendingIsOwned
<1> QED BY <1>2, <1>4, <1>5, <1>6 DEF Consistent

-----------------------------------------------------------------------------
(* The worker.                                                             *)

\* Taking a job over changes its place only.
LEMMA TakeJobStep ==
    ASSUME Consistent, WorkerTakeJob
    PROVE  Consistent'
<1> USE DEF WorkerTakeJob, listVars, orderVars
<1>1. PositionTyped' /\ Usable(rounds)'
  BY DEF Consistent, PositionTyped, Usable
<1>2. (workCurrent => Current(work))' /\ (job # NoJob => Current(job))'
  BY DEF Consistent, Current
<1>3. (result.ready => Usable(result.rounds))' /\ OneOwner' /\ PendingIsOwned'
  BY DEF Consistent, Usable, OneOwner, PendingIsOwned
<1> QED BY <1>1, <1>2, <1>3 DEF Consistent

\* What is published belongs to the order as it is now.
LEMMA PublishStep ==
    ASSUME Consistent, WorkerPublish
    PROVE  Consistent'
<1> USE DEF WorkerPublish, listVars, orderVars, MayPublish, FailedResult
<1>1. PositionTyped' /\ Usable(rounds)'
  BY DEF Consistent, PositionTyped, Usable
<1>2. (workCurrent => Current(work))' /\ (job # NoJob => Current(job))'
  BY DEF Consistent, Current
<1>3. (result.ready => Usable(result.rounds))'
  <2>1. CASE ~workCurrent
    BY <2>1 DEF Consistent, Usable
  <2>2. CASE workCurrent /\ result' = FailedResult
    BY <2>2 DEF Usable, NoRounds, RoundsOf, MaybeRound, NoRepeat, Different
  <2>3. CASE workCurrent /\ result' # FailedResult
    <3>1. PICK r \in Built(work) : result' = [ready |-> TRUE, failed |-> FALSE, rounds |-> r]
      BY <2>3
    <3>2. Current(work) /\ Usable(rounds) /\ orderCount \in Nat
      BY <2>3 DEF Consistent, PositionTyped
    <3>3. /\ r \in RoundsOf(orderCount)
          /\ NoRepeat(r, orderCount) /\ Different(r, orderCount)
          /\ work.slot = "first" /\ work.anchor # NoRow => r.current[1] = work.anchor
          /\ work.slot # "first" => r.current = work.retained.current
      BY <3>1, <3>2, BuiltRounds DEF Current, Usable
    <3> QED BY <3>1, <3>2, <3>3 DEF Usable, Current
  <2> QED BY <2>1, <2>2, <2>3
<1>4. OneOwner' /\ PendingIsOwned'
  BY DEF Consistent, OneOwner, PendingIsOwned
<1> QED BY <1>1, <1>2, <1>3, <1>4 DEF Consistent

-----------------------------------------------------------------------------
(* The theorems.                                                           *)

\* Nothing has been prepared yet.
LEMMA InitConsistent == Init => Consistent
<1> SUFFICES ASSUME Init PROVE Consistent
  OBVIOUS
<1> USE CountsAssumption DEF Init
<1>1. PositionTyped
  BY DEF PositionTyped, Playable, Rows, NoRow
<1>2. Usable(rounds)
  BY DEF Usable, NoRounds, RoundsOf, MaybeRound, NoRepeat, Different
<1>3. (job # NoJob => Current(job)) /\ OneOwner /\ PendingIsOwned
  BY DEF OneOwner, PendingIsOwned, NoResult
<1> QED BY <1>1, <1>2, <1>3 DEF Consistent, NoResult

\* What is taken from the queue is a request, and what stays is a queue.
LEMMA HeadTyped ==
    ASSUME RequestsTyped, requests # <<>>
    PROVE  Head(requests) \in Requests /\ Tail(requests) \in Seq(Requests)
<1> QED BY DEF RequestsTyped

\* Every step of the window thread and of the worker preserves the invariant.
LEMMA ConsistentStep == Inductive /\ [Next]_vars => Consistent'
<1> SUFFICES ASSUME Consistent, RequestsTyped, [Next]_vars PROVE Consistent'
  BY DEF Inductive
<1> USE CountsAssumption DEF listVars
<1>0. count \in Nat /\ playing \in Playable(count)
  BY DEF Consistent, PositionTyped
<1>1. CASE PollNothing \/ Timer \/ Stop
         \/ (\E request \in Requests : Navigate(request))
  BY <1>0, <1>1, ListStep DEF PollNothing, Timer, Stop, Navigate, orderVars
<1>2. ASSUME NEW n \in Counts, PollSwitchList(n)
      PROVE  Consistent'
  <2>1. n \in Nat /\ playing' \in Playable(n)
    BY <1>2 DEF PollSwitchList, Playable, Rows, NoRow
  <2> QED BY <1>2, <2>1, RebuildStep DEF PollSwitchList
<1>3. CASE PollShortList
  <2>1. Prepare(playing) /\ count' = count
    BY <1>3 DEF PollShortList
  <2>2. CASE OutdatedFor(playing)
    <3>1. count < 2 /\ playing' \in Playable(count)
      BY <1>0, <1>3 DEF PollShortList, Playable, Rows
    <3> QED BY <1>0, <2>1, <2>2, <3>1, RebuildStep DEF Prepare
  <2>3. CASE ~OutdatedFor(playing)
    <3>1. playing' \in Playable(count')
      BY <1>0, <1>3 DEF PollShortList, Playable, Rows
    <3> QED BY <1>0, <2>1, <2>3, <3>1, ListStep DEF Prepare, orderVars
  <2> QED BY <2>2, <2>3
<1>4. CASE PollOutdated
  BY <1>0, <1>4, RebuildStep DEF PollOutdated
<1>5. CASE PollFailed \/ PollPending
  BY <1>5, CollectStep DEF PollFailed, PollPending
<1>6. CASE PollSelect \/ PollRefused
  <2>1. PICK next \in BOOLEAN :
           /\ ~MustWait(next) /\ playing' \in {playing, Selected(next)}
           /\ IF Crosses(next) THEN Rotate(next) ELSE Advance(next)
    <3>1. Head(requests).next \in BOOLEAN
      BY <1>6, HeadTyped DEF Requests, PollSelect, PollRefused, PollReady
    <3> QED BY <1>6, <3>1 DEF PollSelect, PollRefused
  <2> QED BY <1>6, <2>1, AdvanceStep, RotateStep DEF PollSelect, PollRefused
<1>7. ASSUME NEW row \in Rows(count), UserSelect(row)
      PROVE  Consistent'
  BY <1>7, PrepareStep DEF UserSelect, Playable
<1>8. ASSUME NEW n \in Counts, NEW row \in Playable(n), ListChanges(n, row)
      PROVE  Consistent'
  BY <1>8, ListStep DEF ListChanges
<1>9. ASSUME NEW reset \in BOOLEAN, SetRandomMode(reset)
      PROVE  Consistent'
  BY <1>0, <1>9, RebuildStep, PrepareStep DEF SetRandomMode
<1>10. CASE Preview
  <2>1. CASE OutdatedFor(playing)
    BY <1>0, <1>10, <2>1, RebuildStep DEF Preview
  <2>2. CASE ~OutdatedFor(playing)
    BY <1>0, <1>10, <2>2, ListStep, CollectStep DEF Preview, PreviewNext, orderVars
  <2> QED BY <2>1, <2>2
<1>11. CASE Worker
  BY <1>11, TakeJobStep, PublishStep DEF Worker
<1>12. CASE UNCHANGED vars
  BY <1>0, <1>12, ListStep DEF vars, orderVars
<1>13. [next |-> TRUE, natural |-> TRUE] \in Requests
       /\ \A next \in BOOLEAN : [next |-> next, natural |-> FALSE] \in Requests
  BY DEF Requests
<1> QED BY <1>1, <1>2, <1>3, <1>4, <1>5, <1>6, <1>7, <1>8, <1>9, <1>10, <1>11, <1>12,
           <1>13 DEF Next, Poll, UserCommand

\* The queue only ever holds requests.
LEMMA RequestsStep == RequestsTyped /\ [Next]_vars => RequestsTyped'
<1> SUFFICES ASSUME RequestsTyped, [Next]_vars PROVE RequestsTyped'
  OBVIOUS
<1> USE DEF RequestsTyped
<1>1. [next |-> TRUE, natural |-> TRUE] \in Requests
      /\ \A next \in BOOLEAN : [next |-> next, natural |-> FALSE] \in Requests
  BY DEF Requests
<1>2. <<>> \in Seq(Requests)
  OBVIOUS
<1>3. CASE Poll
  <2>1. CASE PollNothing \/ PollOutdated \/ PollPending
    BY <2>1 DEF PollNothing, PollOutdated, PollPending
  <2>2. CASE PollShortList \/ PollFailed \/ PollSelect \/ PollRefused
    BY <1>2, <2>2, HeadTyped DEF PollShortList, PollFailed, PollSelect, PollRefused,
                                 PollReady
  <2>3. ASSUME NEW n \in Counts, PollSwitchList(n)
        PROVE  RequestsTyped'
    BY <2>3, HeadTyped DEF PollSwitchList
  <2> QED BY <1>3, <2>1, <2>2, <2>3 DEF Poll
<1>4. CASE Timer \/ Worker
  BY <1>4 DEF Timer, Worker, WorkerTakeJob, WorkerPublish
<1>5. CASE UserCommand
  <2>1. ASSUME NEW request \in Requests, Navigate(request)
        PROVE  RequestsTyped'
    BY <2>1 DEF Navigate
  <2>2. CASE \/ Stop \/ Preview
             \/ \E row \in Rows(count) : UserSelect(row)
             \/ \E reset \in BOOLEAN : SetRandomMode(reset)
    BY <1>2, <2>2 DEF Stop, Preview, UserSelect, SetRandomMode
  <2>3. ASSUME NEW n \in Counts, NEW row \in Playable(n), ListChanges(n, row)
        PROVE  RequestsTyped'
    BY <2>3 DEF ListChanges
  <2> QED BY <1>1, <1>5, <2>1, <2>2, <2>3 DEF UserCommand
<1>6. CASE UNCHANGED vars
  BY <1>6 DEF vars
<1> QED BY <1>3, <1>4, <1>5, <1>6 DEF Next

\* The inductive invariant holds in every reachable state.
THEOREM InductiveInvariant == Spec => []Inductive
<1>1. Init => Inductive
  BY InitConsistent DEF Init, Inductive, RequestsTyped
<1>2. Inductive /\ [Next]_vars => Inductive'
  BY ConsistentStep, RequestsStep DEF Inductive
<1> QED BY <1>1, <1>2, PTL DEF Spec

\* For lists of any length, and whatever happens to them while the worker shuffles,
\* the rounds in use are permutations of the rows the order was prepared for.
THEOREM RoundsAlwaysFit == Spec => []RoundsFitOrder
<1>1. Inductive => RoundsFitOrder
  BY DEF Inductive, Consistent, Usable, RoundsFitOrder
<1> QED BY <1>1, InductiveInvariant, PTL

\* No rotation or refill ever puts the same row on both sides of a boundary.
THEOREM BoundariesNeverRepeat == Spec => []NoRepeatAcrossRounds
<1>1. Inductive => NoRepeatAcrossRounds
  BY DEF Inductive, Consistent, Usable, NoRepeatAcrossRounds
<1> QED BY <1>1, InductiveInvariant, PTL

\* From three rows on the retained rounds stay pairwise different.
THEOREM RoundsAlwaysDiffer == Spec => []RetainedRoundsDiffer
<1>1. Inductive => RetainedRoundsDiffer
  BY DEF Inductive, Consistent, Usable, RetainedRoundsDiffer
<1> QED BY <1>1, InductiveInvariant, PTL

\* The cursor never loses the row that is expected to be playing.
THEOREM CursorFollowsOrder == Spec => []CursorOnExpected
<1>1. Inductive => CursorOnExpected
  BY DEF Inductive, Consistent, Usable, CursorOnExpected
<1> QED BY <1>1, InductiveInvariant, PTL

\* An order never waits for a worker that has nothing to deliver.
THEOREM PendingHasOwner == Spec => []PendingIsOwned
<1>1. Inductive => PendingIsOwned
  BY DEF Inductive, Consistent
<1> QED BY <1>1, InductiveInvariant, PTL

\* Next and Previous never select the row that is playing, whichever of the two
\* edges of a round the cursor crosses and whichever round has been refilled.
THEOREM NavigationMoves == Spec => NoImmediateRepeat
<1>1. Inductive /\ [Next]_vars => [PollSelect => playing' # playing]_vars
  <2> SUFFICES ASSUME Inductive, PollSelect
               PROVE  playing' # playing
    OBVIOUS
  <2>1. PICK next \in BOOLEAN : ~MustWait(next) /\ playing' = Selected(next)
    <3>1. Head(requests).next \in BOOLEAN
      BY HeadTyped DEF Inductive, Requests, PollSelect, PollReady
    <3> QED BY <3>1 DEF PollSelect
  <2>2. PollReady
    BY DEF PollSelect
  <2> QED BY <2>1, <2>2, SelectedRow DEF Inductive
<1> QED BY <1>1, InductiveInvariant, PTL DEF Spec, NoImmediateRepeat

-----------------------------------------------------------------------------
(* The order and the player.                                               *)

\* Only a change of the list parts them: all that rebuilds the order or moves its
\* cursor takes the row that plays then.
LEMMA FollowsStep ==
    Consistent /\ OrderFollowsPlayer /\ [Next]_vars => OrderFollowsPlayer'
<1> SUFFICES ASSUME Consistent, OrderFollowsPlayer, [Next]_vars
             PROVE  OrderFollowsPlayer'
  OBVIOUS
<1> USE DEF OrderFollowsPlayer, listVars
<1>1. CASE PollNothing \/ PollFailed \/ PollPending
  BY <1>1 DEF PollNothing, PollFailed, PollPending, Collect, orderVars
<1>2. ASSUME NEW n \in Counts, PollSwitchList(n)
      PROVE  OrderFollowsPlayer'
  BY <1>2 DEF PollSwitchList, Rebuild
<1>3. CASE PollShortList
  <2>1. count' < 2
    BY <1>3 DEF PollShortList
  <2>2. count' \in Int
    BY <1>3 DEF Consistent, PositionTyped, PollShortList
  <2> QED BY <2>1, <2>2
<1>4. CASE PollOutdated
  BY <1>4 DEF PollOutdated, Rebuild
<1>5. CASE PollSelect
  <2>1. orderCount = count /\ count' = count
    BY <1>5 DEF PollSelect, PollReady, OutdatedFor
  <2>2. expected' = playing' /\ orderCount' = orderCount
    BY <1>5 DEF PollSelect, Rotate, Advance
  <2> QED BY <2>1, <2>2
<1>6. ASSUME NEW row \in Rows(count), UserSelect(row)
      PROVE  OrderFollowsPlayer'
  BY <1>6 DEF UserSelect, Prepare, OutdatedFor, Rebuild, orderVars
<1>7. ASSUME NEW n \in Counts, NEW row \in Playable(n), ListChanges(n, row)
      PROVE  OrderFollowsPlayer'
  BY <1>7 DEF ListChanges
<1>8. ASSUME NEW reset \in BOOLEAN, SetRandomMode(reset)
      PROVE  OrderFollowsPlayer'
  BY <1>8 DEF SetRandomMode, Prepare, Rebuild, OutdatedFor, orderVars
<1>9. CASE Preview
  BY <1>9 DEF Preview, PreviewNext, Rebuild, Collect, orderVars
<1>10. CASE Worker \/ Timer \/ Stop \/ UNCHANGED vars
  BY <1>10 DEF Worker, WorkerTakeJob, WorkerPublish, Timer, Stop, orderVars, vars
<1>11. ASSUME NEW request, Navigate(request)
       PROVE  OrderFollowsPlayer'
  BY <1>11 DEF Navigate, orderVars
<1>12. CASE PollRefused
  BY <1>12 DEF PollRefused
<1> QED BY <1>1, <1>2, <1>3, <1>4, <1>5, <1>6, <1>7, <1>8, <1>9, <1>10, <1>11,
           <1>12 DEF Next, Poll, UserCommand

\* The order and the player agree on the playing row as long as the list is left
\* alone, so that no command ever reshuffles without need.
THEOREM OrderFollows == Spec => []OrderFollowsPlayer
<1>1. Init => OrderFollowsPlayer
  BY DEF Init, OrderFollowsPlayer
<1>2. Inductive => Consistent
  BY DEF Inductive
<1> QED BY <1>1, <1>2, FollowsStep, InductiveInvariant, PTL DEF Spec

-----------------------------------------------------------------------------
(* The types.                                                              *)

WindowFlagsTyped == polling \in BOOLEAN /\ touched \in BOOLEAN

OrderFlagsTyped ==
    /\ revisionSeen \in BOOLEAN /\ pending \in BOOLEAN
    /\ failed \in BOOLEAN /\ result.failed \in BOOLEAN
    /\ workCurrent \in BOOLEAN

\* The flags of the window are only ever set to one of two values.
LEMMA WindowFlagsStep == WindowFlagsTyped /\ [Next]_vars => WindowFlagsTyped'
<1> SUFFICES ASSUME WindowFlagsTyped, [Next]_vars PROVE WindowFlagsTyped'
  OBVIOUS
<1> USE DEF WindowFlagsTyped
<1>1. CASE Poll
  BY <1>1 DEF Poll, PollNothing, PollSwitchList, PollShortList, PollOutdated,
     PollFailed, PollPending, PollSelect, PollRefused, Prepare, Rebuild
<1>2. CASE Timer \/ Worker
  BY <1>2 DEF Timer, Worker, WorkerTakeJob, WorkerPublish
<1>3. CASE UserCommand
  BY <1>3 DEF UserCommand, Navigate, UserSelect, ListChanges, SetRandomMode,
     Stop, Preview, Prepare, Rebuild
<1>4. CASE UNCHANGED vars
  BY <1>4 DEF vars
<1> QED BY <1>1, <1>2, <1>3, <1>4 DEF Next

\* So are those of the order, whether they are its own or the worker's.
LEMMA OrderFlagsStep == OrderFlagsTyped /\ [Next]_vars => OrderFlagsTyped'
<1> SUFFICES ASSUME OrderFlagsTyped, [Next]_vars PROVE OrderFlagsTyped'
  OBVIOUS
<1> USE DEF OrderFlagsTyped
<1>1. NoResult.failed \in BOOLEAN
  BY DEF NoResult
<1>2. Collected.failed \in BOOLEAN /\ Collected.pending \in BOOLEAN
  BY DEF Collected
<1>3. ASSUME NEW n, NEW row, Rebuild(n, row)
      PROVE  OrderFlagsTyped'
  <2>1. pending' \in BOOLEAN
    <3>1. pending' = (n >= 2)
      BY <1>3 DEF Rebuild
    <3>2. CASE n >= 2
      BY <3>1, <3>2
    <3>3. CASE ~(n >= 2)
      BY <3>1, <3>3
    <3> QED BY <3>2, <3>3
  <2>2. /\ revisionSeen' = TRUE /\ failed' = FALSE /\ result' = NoResult
        /\ workCurrent' = FALSE
    BY <1>3 DEF Rebuild, BumpGeneration
  <2> QED BY <1>1, <2>1, <2>2
<1>4. ASSUME NEW row, Prepare(row)
      PROVE  OrderFlagsTyped'
  BY <1>3, <1>4 DEF Prepare, orderVars, workVars
<1>5. CASE Collect
  BY <1>1, <1>2, <1>5 DEF Collect
<1>6. ASSUME NEW next, Rotate(next) \/ Advance(next)
      PROVE  OrderFlagsTyped'
  BY <1>1, <1>2, <1>6 DEF Rotate, Advance, BumpGeneration
<1>7. CASE Poll
  <2>1. CASE PollNothing
    BY <2>1 DEF PollNothing, orderVars, workVars
  <2> QED BY <1>3, <1>4, <1>5, <1>6, <1>7, <2>1 DEF Poll, PollSwitchList,
          PollShortList, PollOutdated, PollFailed, PollPending, PollSelect, PollRefused
<1>8. CASE Timer \/ WorkerTakeJob
  BY <1>8 DEF Timer, WorkerTakeJob, orderVars, workVars
<1>9. CASE WorkerPublish
  <2>1. result'.failed \in BOOLEAN
    <3>1. CASE result' = result
      BY <3>1
    <3>2. CASE result' = FailedResult
      BY <3>2 DEF FailedResult
    <3>3. ASSUME NEW r, result' = [ready |-> TRUE, failed |-> FALSE, rounds |-> r]
          PROVE  result'.failed \in BOOLEAN
      BY <3>3
    <3> QED BY <1>9, <3>1, <3>2, <3>3 DEF WorkerPublish
  <2>2. workCurrent' = FALSE /\ UNCHANGED orderVars
    BY <1>9 DEF WorkerPublish
  <2> QED BY <2>1, <2>2 DEF orderVars
<1>10. CASE UserCommand
  BY <1>3, <1>4, <1>5, <1>10 DEF UserCommand, Navigate, UserSelect, ListChanges,
     SetRandomMode, Stop, Preview, PreviewNext, orderVars, workVars
<1>11. CASE UNCHANGED vars
  BY <1>11 DEF vars, orderVars, workVars
<1> QED BY <1>7, <1>8, <1>9, <1>10, <1>11 DEF Next, Worker

\* The variables have their types, whatever the length of the list.
THEOREM TypeCorrect == Spec => []TypeOK
<1>1. Init => WindowFlagsTyped /\ OrderFlagsTyped
  <2>1. NoResult.failed = FALSE
    BY DEF NoResult
  <2> QED BY <2>1 DEF Init, WindowFlagsTyped, OrderFlagsTyped
<1>2. Inductive /\ WindowFlagsTyped /\ OrderFlagsTyped => TypeOK
  BY DEF Inductive, Consistent, PositionTyped, RequestsTyped, WindowFlagsTyped,
     OrderFlagsTyped, TypeOK
<1> QED BY <1>1, <1>2, WindowFlagsStep, OrderFlagsStep, InductiveInvariant, PTL
        DEF Spec
=============================================================================
