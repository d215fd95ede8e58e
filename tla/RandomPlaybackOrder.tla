------------------------ MODULE RandomPlaybackOrder ------------------------
(***************************************************************************)
(* Random playback: the order kept by RandomPlaybackOrder                  *)
(* (src/src/playlist/playback_order.cpp), the worker that shuffles its     *)
(* rounds, and the queue of navigation requests with which PlayerWindow    *)
(* uses it (src/src/ui/player_window.cpp).                                 *)
(*                                                                         *)
(* The window thread owns the cursor and never waits: it posts a job,      *)
(* polls for the result and leaves a request in its queue until the round  *)
(* it needs is there.  The worker takes a snapshot of the job, shuffles    *)
(* without the lock, and publishes only if generation has not moved.       *)
(*                                                                         *)
(* A round is a shuffle of all rows.  BuildRound is represented by the set *)
(* of the shuffles its acceptable() lets pass; which one comes out is the  *)
(* generator's choice.  A generation is only compared with the one a job   *)
(* was started with, so workCurrent stands for that comparison.  Playback  *)
(* itself is left out: a selected row becomes the playing row.             *)
(***************************************************************************)
EXTENDS Integers, Sequences

CONSTANTS
    Counts,            \* the numbers of rows a navigation list can have
    ThreeRoundLimit,   \* ThreeRoundLimit(): above it one shuffle is cycled
    AutoSwitch,        \* settings_.player.auto_switch_list
    MaxQueue           \* bound on the requests pressed ahead

ASSUME CountsAssumption == Counts \subseteq Nat
ASSUME LimitAssumption == ThreeRoundLimit \in Nat
ASSUME AutoSwitchAssumption == AutoSwitch \in BOOLEAN
ASSUME QueueAssumption == MaxQueue \in Nat

NoRow == -1
Rows(n) == 0 .. n - 1
Playable(n) == Rows(n) \cup {NoRow}

\* A complete permutation of the rows 0 .. n-1, and a round that is missing.
Shuffles(n) ==
    {f \in [1 .. n -> Rows(n)] : \A i, j \in 1 .. n : f[i] = f[j] => i = j}
NoRound == <<>>
NoRounds == [previous |-> NoRound, current |-> NoRound, next |-> NoRound]

VARIABLES
    \* PlayerWindow
    count,        \* NavigationTrackCount()
    playing,      \* NavigationPlayingRow()
    requests,     \* random_navigation_requests_
    polling,      \* the window thread is inside PollRandomNavigation
    touched,      \* ghost: the list or its playing row is not what the order has made it
    \* RandomPlaybackOrder, owned by the window thread
    revisionSeen, \* source_ and revision_ are those of the list
    orderCount,   \* State::count
    expected,     \* State::expected
    cursor,       \* State::position
    rounds,       \* State::rounds
    pending,      \* State::pending
    failed,       \* State::failed
    \* shared under State::mutex
    job,          \* State::job
    result,       \* State::result
    \* the worker
    work,         \* the job it took
    workCurrent   \* work.generation == generation

listVars == <<count, playing>>
orderVars == <<revisionSeen, orderCount, expected, cursor, rounds, pending, failed>>
workVars == <<job, result, work, workCurrent>>
vars == <<listVars, requests, polling, touched, orderVars, workVars>>

\* A job names the slot to refill, or "first" for a new order.
NoJob == [slot |-> "none", count |-> 0, anchor |-> NoRow, retained |-> NoRounds]
NoResult == [ready |-> FALSE, failed |-> FALSE, rounds |-> NoRounds]

Init ==
    /\ count \in Counts
    /\ playing \in Playable(count)
    /\ requests = <<>> /\ polling = FALSE /\ touched = TRUE
    /\ revisionSeen = FALSE
    /\ orderCount = 0 /\ expected = NoRow /\ cursor = -1
    /\ rounds = NoRounds /\ pending = FALSE /\ failed = FALSE
    /\ job = NoJob /\ result = NoResult /\ work = NoJob /\ workCurrent = FALSE

-----------------------------------------------------------------------------
(* BuildRound.                                                             *)

ThreeRounds(n) == n <= ThreeRoundLimit

\* acceptable() for a round of n rows: no row is repeated across a boundary, and
\* from three rows on the round differs from those that are retained.
MutantBoundaryUnchecked(n, round, left, right, other) ==
    n >= 3 => round \notin {left, right, other}
MutantOtherUnchecked(n, round, left, right, other) ==
    /\ left # NoRound => round[1] # left[n]
    /\ right # NoRound => round[n] # right[1]
    /\ n >= 3 => round \notin {left, right}
Acceptable(n, round, left, right, other) ==
    /\ left # NoRound => round[1] # left[n]
    /\ right # NoRound => round[n] # right[1]
    /\ n >= 3 => round \notin {left, right, other}

\* The first round starts with the row that is playing.
FirstRound(n, anchor) == {round \in Shuffles(n) : anchor # NoRow => round[1] = anchor}

\* The rounds the worker can make of a job w.
Built(w) ==
    LET n == w.count
        old == w.retained
    IN  IF w.slot = "first" /\ ThreeRounds(n)
        THEN {r \in [previous : Shuffles(n), current : FirstRound(n, w.anchor),
                     next : Shuffles(n)] :
                 /\ Acceptable(n, r.previous, NoRound, r.current, NoRound)
                 /\ Acceptable(n, r.next, r.current, NoRound, r.previous)}
        ELSE IF w.slot = "first"
        THEN [previous : {NoRound}, current : FirstRound(n, w.anchor), next : {NoRound}]
        ELSE IF w.slot = "previous"
        THEN {[previous |-> round, current |-> old.current, next |-> old.next] :
                 round \in {s \in Shuffles(n) :
                               Acceptable(n, s, NoRound, old.current, old.next)}}
        ELSE {[previous |-> old.previous, current |-> old.current, next |-> round] :
                 round \in {s \in Shuffles(n) :
                               Acceptable(n, s, old.current, NoRound, old.previous)}}

-----------------------------------------------------------------------------
(* The worker.                                                             *)

WorkerTakeJob ==
    /\ work = NoJob /\ job # NoJob
    /\ work' = job
    /\ workCurrent' = TRUE
    /\ job' = NoJob
    /\ UNCHANGED <<listVars, requests, polling, touched, orderVars, result>>

\* The shuffle is done, was canceled, or ran out of memory.
MutantPublishStale == TRUE
MayPublish == workCurrent

MutantFailureUnreported == NoResult
FailedResult == [ready |-> TRUE, failed |-> TRUE, rounds |-> NoRounds]

WorkerPublish ==
    /\ work # NoJob
    /\ work' = NoJob
    /\ workCurrent' = FALSE
    /\ IF MayPublish
       THEN \/ \E r \in Built(work) :
                  result' = [ready |-> TRUE, failed |-> FALSE, rounds |-> r]
            \/ result' = FailedResult
       ELSE UNCHANGED result
    /\ UNCHANGED <<listVars, requests, polling, touched, orderVars, job>>

-----------------------------------------------------------------------------
(* The order, as the window thread uses it.                                *)

\* Clear and Start(-1) for a list of n rows; Clear alone if there is nothing to
\* order.  Both bump generation, so whatever the worker holds is stale.
BumpGeneration == workCurrent' = FALSE

Rebuild(n, row) ==
    LET ordered == n >= 2 IN
    /\ revisionSeen' = TRUE
    /\ orderCount' = IF ordered THEN n ELSE 0
    /\ expected' = IF ordered THEN row ELSE NoRow
    /\ cursor' = IF ordered /\ row # NoRow THEN 0 ELSE -1
    /\ rounds' = NoRounds
    /\ pending' = ordered
    /\ failed' = FALSE
    /\ job' = IF ordered
              THEN [slot |-> "first", count |-> n, anchor |-> row, retained |-> NoRounds]
              ELSE NoJob
    /\ result' = NoResult
    /\ BumpGeneration
    /\ touched' = FALSE
    /\ UNCHANGED work

\* SetContext or Prepare finds that the order is not the one of this list.
OutdatedFor(row) ==
    \/ ~revisionSeen
    \/ count < 2 /\ orderCount # 0
    \/ count >= 2 /\ (orderCount # count \/ expected # row)

Prepare(row) ==
    IF OutdatedFor(row)
    THEN Rebuild(count, row)
    ELSE UNCHANGED <<orderVars, workVars, touched>>

\* Collect: the order with the result, if there is one, taken over.
Collected ==
    IF result.ready
    THEN [rounds |-> result.rounds, failed |-> result.failed, pending |-> FALSE]
    ELSE [rounds |-> rounds, failed |-> failed, pending |-> pending]

Collect ==
    /\ rounds' = Collected.rounds
    /\ failed' = Collected.failed
    /\ pending' = Collected.pending
    /\ result' = NoResult
    /\ UNCHANGED <<revisionSeen, orderCount, expected, cursor, job, work, workCurrent>>

AtEnd == count > 0 /\ orderCount = count /\ cursor = count - 1

\* Where one step takes the cursor: within the round, around a list that has a
\* single cycled round, or out of the round and into its neighbour.
Stepped(next) == cursor + (IF next THEN 1 ELSE -1)
Crosses(next) == Stepped(next) \notin Rows(count) /\ ThreeRounds(count)
Moved(next) ==
    IF Stepped(next) \in Rows(count) THEN Stepped(next)
    ELSE IF next THEN 0 ELSE count - 1

Neighbour(next) == IF next THEN Collected.rounds.next ELSE Collected.rounds.previous

\* TrySelect has to return pending: the round it needs is not built, or the round
\* freed by the last rotation is still being refilled.
MustWait(next) ==
    \/ Collected.rounds.current = NoRound
    \/ Crosses(next) /\ (Neighbour(next) = NoRound \/ Collected.pending)

\* The row TrySelect returns.
Selected(next) ==
    IF Crosses(next)
    THEN Neighbour(next)[IF next THEN 1 ELSE count]
    ELSE Collected.rounds.current[Moved(next) + 1]

\* TrySelect beyond the edge of the round: the rounds roll by one and the freed
\* slot is handed to the worker.
Rotate(next) ==
    LET r == Collected.rounds
        rolled == IF next
                  THEN [previous |-> r.current, current |-> r.next, next |-> NoRound]
                  ELSE [previous |-> NoRound, current |-> r.previous, next |-> r.current]
    IN  /\ rounds' = rolled
        /\ cursor' = IF next THEN 0 ELSE count - 1
        /\ expected' = Selected(next)
        /\ pending' = TRUE
        /\ failed' = Collected.failed
        /\ job' = [slot |-> IF next THEN "next" ELSE "previous", count |-> orderCount,
                   anchor |-> Selected(next), retained |-> rolled]
        /\ result' = NoResult
        /\ BumpGeneration
        /\ UNCHANGED <<revisionSeen, orderCount, work>>

\* TrySelect within the round.
MoveCursor(next) == cursor' = Moved(next)

Advance(next) ==
    /\ MoveCursor(next)
    /\ expected' = Selected(next)
    /\ rounds' = Collected.rounds
    /\ pending' = Collected.pending
    /\ failed' = Collected.failed
    /\ result' = NoResult
    /\ UNCHANGED <<revisionSeen, orderCount, job, work, workCurrent>>

-----------------------------------------------------------------------------
(* PollRandomNavigation, one queued request at a time.  Stop empties the   *)
(* queue; a request that selects a row makes it the playing row.           *)

SwitchesList(request) ==
    request.natural /\ AutoSwitch /\ (count <= 1 \/ (~OutdatedFor(playing) /\ AtEnd))

PollNothing ==
    /\ polling /\ requests = <<>>
    /\ polling' = FALSE
    /\ UNCHANGED <<listVars, requests, touched, orderVars, workVars>>

\* A natural end at the end of the round shows the next list, which has n rows, and
\* opens its first one.  While lyrics or tags are being saved SelectTrackFrom refuses
\* to: then the row that was marked in that list counts as the playing one.
PollSwitchList(n) ==
    /\ polling /\ requests # <<>>
    /\ SwitchesList(Head(requests))
    /\ requests' = Tail(requests)
    /\ count' = n
    /\ playing' \in Playable(n)
    /\ Rebuild(n, playing')
    /\ UNCHANGED polling

\* No row, or the only row once more, unless that is refused.
PollShortList ==
    /\ polling /\ requests # <<>>
    /\ count < 2
    /\ ~SwitchesList(Head(requests))
    /\ requests' = IF count = 0 /\ Head(requests).natural THEN <<>> ELSE Tail(requests)
    /\ playing' \in (IF count = 0 THEN {playing} ELSE {playing, 0})
    /\ Prepare(playing)
    /\ UNCHANGED <<count, polling>>

\* The order has to be built first: the request stays queued for the timer.
PollOutdated ==
    /\ polling /\ requests # <<>>
    /\ count >= 2 /\ OutdatedFor(playing)
    /\ Rebuild(count, playing)
    /\ polling' = FALSE
    /\ UNCHANGED <<listVars, requests>>

PollReady ==
    /\ polling /\ requests # <<>>
    /\ count >= 2 /\ ~OutdatedFor(playing)
    /\ ~SwitchesList(Head(requests))

\* A shuffle that failed is never replaced by another order.
PollFailed ==
    /\ PollReady
    /\ Collected.failed
    /\ Collect
    /\ requests' = IF Head(requests).natural THEN <<>> ELSE Tail(requests)
    /\ UNCHANGED <<listVars, polling, touched>>

PollPending ==
    /\ PollReady
    /\ ~Collected.failed
    /\ MustWait(Head(requests).next)
    /\ Collect
    /\ polling' = FALSE
    /\ UNCHANGED <<listVars, requests, touched>>

PollSelect ==
    /\ PollReady
    /\ ~Collected.failed
    /\ LET next == Head(requests).next IN
       /\ ~MustWait(next)
       /\ playing' = Selected(next)
       /\ IF Crosses(next) THEN Rotate(next) ELSE Advance(next)
    /\ requests' = Tail(requests)
    /\ UNCHANGED <<count, polling, touched>>

\* SelectTrackFrom opens nothing while lyrics or tags are being saved, after the order
\* has moved on and the request has been taken from the queue.
PollRefused ==
    /\ PollReady
    /\ ~Collected.failed
    /\ LET next == Head(requests).next IN
       /\ ~MustWait(next)
       /\ IF Crosses(next) THEN Rotate(next) ELSE Advance(next)
    /\ touched' = TRUE
    /\ requests' = Tail(requests)
    /\ UNCHANGED <<listVars, polling>>

-----------------------------------------------------------------------------
(* What the user and the timers do when the window thread is idle.         *)

\* Next and Previous, and the natural end of a track; an empty list takes none of
\* them, except that a natural end may leave it for the next list.
Navigate(request) ==
    /\ ~polling
    /\ count # 0 \/ (request.natural /\ AutoSwitch)
    /\ Len(requests) < MaxQueue
    /\ requests' = Append(requests, request)
    /\ polling' = TRUE
    /\ UNCHANGED <<listVars, touched, orderVars, workVars>>

\* kUiTimer polls the requests that had to wait.
Timer ==
    /\ ~polling /\ requests # <<>>
    /\ polling' = TRUE
    /\ UNCHANGED <<listVars, requests, touched, orderVars, workVars>>

\* Another row is opened directly.
UserSelect(row) ==
    /\ ~polling
    /\ row \in Rows(count)
    /\ playing' = row
    /\ requests' = <<>>
    /\ Prepare(row)
    /\ UNCHANGED <<count, polling>>

\* Rows are inserted, removed or sorted, or another list is displayed.
ListChanges(n, row) ==
    /\ ~polling
    /\ row \in Playable(n)
    /\ count' = n
    /\ playing' = row
    /\ revisionSeen' = FALSE
    /\ touched' = TRUE
    /\ UNCHANGED <<requests, polling, orderCount, expected, cursor, rounds, pending,
                   failed, workVars>>

\* SetPlaybackMode(4): the main menu reshuffles, the playlist's submenu does not.
SetRandomMode(reset) ==
    /\ ~polling
    /\ requests' = <<>>
    /\ IF reset THEN Rebuild(count, playing) ELSE Prepare(playing)
    /\ UNCHANGED <<listVars, polling>>

Stop ==
    /\ ~polling
    /\ requests' = <<>>
    /\ UNCHANGED <<listVars, polling, touched, orderVars, workVars>>

\* The network prefetch asks for the next row without moving the cursor.
MutantPreviewAdvances ==
    IF count < 2 \/ Collected.failed \/ MustWait(TRUE) \/ Crosses(TRUE) THEN Collect
    ELSE Advance(TRUE)
PreviewNext == IF count < 2 THEN UNCHANGED <<orderVars, workVars>> ELSE Collect

Preview ==
    /\ ~polling
    /\ IF OutdatedFor(playing)
       THEN Rebuild(count, playing)
       ELSE PreviewNext /\ UNCHANGED touched
    /\ UNCHANGED <<listVars, requests, polling>>

-----------------------------------------------------------------------------

Poll ==
    \/ PollNothing \/ PollShortList \/ PollOutdated
    \/ PollFailed \/ PollPending \/ PollSelect \/ PollRefused
    \/ \E n \in Counts : PollSwitchList(n)

Worker == WorkerTakeJob \/ WorkerPublish

UserCommand ==
    \/ \E next \in BOOLEAN : Navigate([next |-> next, natural |-> FALSE])
    \/ Navigate([next |-> TRUE, natural |-> TRUE])
    \/ \E row \in Rows(count) : UserSelect(row)
    \/ \E n \in Counts : \E row \in Playable(n) : ListChanges(n, row)
    \/ \E reset \in BOOLEAN : SetRandomMode(reset)
    \/ Stop \/ Preview

Next == Poll \/ Timer \/ Worker \/ UserCommand

Spec == Init /\ [][Next]_vars

\* The timer fires, the window thread finishes what it polls, a shuffle ends.
FairSpec == Spec /\ WF_vars(Poll) /\ WF_vars(Timer) /\ WF_vars(Worker)

-----------------------------------------------------------------------------

MaybeRound(n) == Shuffles(n) \cup {NoRound}
RoundsOf(n) == [previous : MaybeRound(n), current : MaybeRound(n), next : MaybeRound(n)]
Requests == [next : BOOLEAN, natural : BOOLEAN]

TypeOK ==
    /\ count \in Nat
    /\ playing \in Playable(count)
    /\ requests \in Seq(Requests)
    /\ polling \in BOOLEAN
    /\ touched \in BOOLEAN
    /\ revisionSeen \in BOOLEAN
    /\ orderCount \in Nat
    /\ expected \in Playable(orderCount)
    /\ cursor \in -1 .. orderCount - 1
    /\ pending \in BOOLEAN
    /\ failed \in BOOLEAN
    /\ workCurrent \in BOOLEAN

\* Whatever the list did while the worker was shuffling, the rounds in use are
\* complete permutations of the rows the order was prepared for.
RoundsFitOrder ==
    /\ rounds \in RoundsOf(orderCount)
    /\ result.ready => result.rounds \in RoundsOf(orderCount)

\* The last row of a round is not the first one of the next; rounds of three rows
\* or more are pairwise different.
NoRepeat(r, n) ==
    /\ r.previous # NoRound /\ r.current # NoRound => r.previous[n] # r.current[1]
    /\ r.current # NoRound /\ r.next # NoRound => r.current[n] # r.next[1]
Different(r, n) ==
    n >= 3 =>
        /\ r.previous # NoRound => r.previous \notin {r.current, r.next}
        /\ r.current # NoRound => r.current # r.next

\* No row is played twice in a row across the boundary of two rounds, also after any
\* number of rotations and refills in both directions.
NoRepeatAcrossRounds == NoRepeat(rounds, orderCount)

\* From three rows on the retained rounds are pairwise different, although each
\* refill only sees the rounds that were there when it was posted.
RetainedRoundsDiffer == Different(rounds, orderCount)

\* The cursor stands on the row the order expects to be playing.
CursorOnExpected ==
    rounds.current # NoRound /\ cursor >= 0 => rounds.current[cursor + 1] = expected

\* Unless the list was changed behind its back, the order and the player agree on
\* the playing row: navigation and previews never cause a needless reshuffle.
OrderFollowsPlayer ==
    ~touched /\ count >= 2 => orderCount = count /\ expected = playing

\* An order that waits is waiting for something: a job, the worker's current
\* work, or a result that has not been collected.
PendingIsOwned ==
    pending => job # NoJob \/ (work # NoJob /\ workCurrent) \/ result.ready

\* Navigation never selects the row that is already playing.
NoImmediateRepeat == [][PollSelect => playing' # playing]_vars

\* Every request is answered, unless the user never stops issuing commands.
RequestsAreAnswered == []<>(requests = <<>>) \/ []<><<UserCommand>>_vars

=============================================================================
