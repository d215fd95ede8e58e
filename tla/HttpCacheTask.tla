---------------------------- MODULE HttpCacheTask ----------------------------
(***************************************************************************)
(* CacheTask of src/src/audio/http_stream.cpp: one download of one URL and *)
(* the consumers that read it, the player, the prefetch and the download   *)
(* command.  The worker thread owns the transport: it opens the resource,  *)
(* then fills the gaps of a temporary file, first where a consumer waits.  *)
(* A consumer that waits elsewhere interrupts the request through          *)
(* `restart', and every consumer can be canceled or leave by itself.       *)
(*                                                                         *)
(* Positions count buffers, which is how much one read of the transport    *)
(* returns.  A file has a length and may be resumed; a live stream has     *)
(* none and is kept in a rolling window of Capacity buffers.               *)
(***************************************************************************)
EXTENDS Integers, Sequences, SequencesExt, FiniteSets

CONSTANTS
    Consumers,    \* the leases, 1 is the one that creates the task
    Size,         \* length of the file, and bound on a live stream
    Capacity,     \* live_capacity_
    Environments  \* the servers and events a behaviour may meet

\* kind: "file" or "live"; validated: the server sends a strong validator;
\* playback: the consumers that play, the others download; stored: the blocks
\* the persistent cache has of the resource; may: "fail", a request fails or its
\* response is refused, for one because the file is longer than file_limit_;
\* "truncate", it breaks off; "change", the resource is replaced; "cancel",
\* consumers are canceled; "rewind", a live stream is read again; "local", an
\* operation on the temporary file fails, and leaves what the file holds; seeks:
\* bound on seeks and spoolings; limits: how much a spool may hold.
EnvironmentOK(e) ==
    /\ e.kind \in {"file", "live"}
    /\ e.validated \in BOOLEAN
    /\ e.playback \subseteq Consumers
    /\ e.stored \subseteq 0..(Size - 1)
    /\ e.may \subseteq {"fail", "truncate", "change", "cancel", "rewind",
                        "local"}
    /\ e.seeks \in Nat /\ e.limits \subseteq Nat

ASSUME CacheAssumption ==
    /\ 1 \in Consumers /\ Consumers \subseteq Nat \ {0}
    /\ Size \in Nat \ {0} /\ Capacity \in Nat \ {0}
    /\ \A e \in Environments : EnvironmentOK(e)

VARIABLES
    env,     \* see EnvironmentOK
    entity,  \* version of the resource the server has, 1 or 2
    task,    \* CacheTask, see NewTask
    clients, \* the consumers, see NewClient
    faulty,  \* history: a request or the worker's file failed, or the resource
             \* was replaced
    user     \* number of seeks and spoolings so far

vars == <<env, entity, task, clients, faulty, user>>

None == -1
Nobody == 0

\* list: clients_; pc, start: what the worker does, and the offset it asks for;
\* request: the entity it is being sent, 0 for no request; at, end:
\* response_position_, response_end_; entity: the one that validator_ names;
\* disk: the temporary file; spool: spool_limit_; owner: live_client_; done:
\* worker_done_.
NewTask ==
    [list |-> <<1>>, pc |-> "connect", start |-> 0, request |-> 0, at |-> 0,
     end |-> None, entity |-> 0, covered |-> {}, disk |-> <<>>,
     total |-> None, ranged |-> FALSE, sequential |-> FALSE, spool |-> None,
     restart |-> FALSE, stopping |-> FALSE, accepting |-> TRUE,
     ready |-> FALSE, shareable |-> FALSE, owner |-> Nobody, done |-> FALSE,
     error |-> "none", retries |-> 0]

\* pc: the call that is in progress; canceled: what the callback answers.
NewClient ==
    [pc |-> "out", active |-> TRUE, canceled |-> FALSE, position |-> 0,
     demand |-> None, error |-> "none"]

Init ==
    /\ env \in Environments
    /\ entity = 1
    /\ task = NewTask
    /\ clients = [c \in Consumers |->
                     IF c = 1 THEN [NewClient EXCEPT !.pc = "opening"]
                     ELSE NewClient]
    /\ faulty = FALSE
    /\ user = 0

-----------------------------------------------------------------------------
(* Operators on the task t and the consumers cl.                           *)

Playback(c) == c \in env.playback
InList(t, c) == \E i \in DOMAIN t.list : t.list[i] = c

\* Active, for every consumer of the list.
Polled(t, cl) ==
    [c \in Consumers |->
        IF InList(t, c) /\ cl[c].active /\ cl[c].canceled
        THEN [cl[c] EXCEPT !.active = FALSE, !.error = "canceled"]
        ELSE cl[c]]

\* The worker's Guard: without an active consumer the task stops.
Guarded(t, cl) ==
    IF \E c \in Consumers : InList(t, c) /\ cl[c].active THEN t
    ELSE [t EXCEPT !.accepting = FALSE, !.stopping = TRUE]

GuardFails(t) == t.stopping \/ t.error # "none"

\* The first position from p on that is not covered.
AfterCovered(t, p) ==
    CHOOSE q \in p..(Size + p) :
        q \notin t.covered /\ \A r \in p..(q - 1) : r \in t.covered

\* Where the active consumers are in the list.
ActiveIn(t, cl) == {i \in DOMAIN t.list : cl[t.list[i]].active}

\* A foreground consumer that waits comes first; a download never makes the
\* worker seek while somebody plays.
Demand(t, cl) ==
    LET active == ActiveIn(t, cl)
        players == {i \in active : Playback(t.list[i])}
        waiting == {i \in IF players # {} THEN players ELSE active :
                       LET d == cl[t.list[i]].demand
                       IN  /\ d # None /\ d \notin t.covered
                           /\ t.total # None => d < t.total}
    IN  IF waiting = {} THEN None ELSE cl[t.list[Min(waiting)]].demand

\* How far a position may be from the response without a new request.
OutOfReach(t, p) == p < t.at \/ p > t.at + 1

LivePosition(t, cl) == IF t.owner = Nobody THEN 0 ELSE cl[t.owner].position

DiskPosition(t, p) == IF t.sequential THEN p % Capacity ELSE p

Stored(t, v, p) ==
    LET d == DiskPosition(t, p)
    IN  [q \in DOMAIN t.disk \cup {d} |-> IF q = d THEN <<v, p>> ELSE t.disk[q]]

\* Cache and DropBefore
Cached(t) ==
    LET at == t.at + 1
        oldest == IF t.sequential /\ at > Capacity THEN at - Capacity ELSE 0
    IN  [t EXCEPT !.disk = Stored(t, t.request, t.at), !.at = at,
                  !.covered = {p \in @ \cup {t.at} : p >= oldest}]

-----------------------------------------------------------------------------
(* The worker.                                                             *)

WorkerStep(t, cl) ==
    /\ task' = t
    /\ clients' = cl
    /\ UNCHANGED <<env, entity, user>>

Opening(t) == t.entity = 0

\* Mutant: an interrupted request ends the stream.
MutantNeverRestarted(t, cl, result) ==
    [t EXCEPT !.request = 0, !.error = result, !.pc = "ending"]

\* A request that fails: a seek interrupts just this request, anything else
\* is the end of the stream.
Failed(t, cl, result) ==
    LET g == Guarded(t, cl)
    IN  IF result = "canceled" /\ t.restart /\ ~Opening(t) /\ ~GuardFails(g)
        THEN [g EXCEPT !.request = 0, !.pc = "decide"]
        ELSE [g EXCEPT !.request = 0, !.error = result, !.pc = "ending"]

Fail(t, result) ==
    LET cl == Polled(t, clients)
    IN  WorkerStep(Failed(t, cl, result), cl)

\* The transport asks Canceled now and then while the worker waits in it.
PollCanceled ==
    /\ task.pc \in {"connect", "pump"}
    /\ LET cl == Polled(task, clients)
       IN  WorkerStep(Guarded(task, cl), cl)
    /\ UNCHANGED faulty

RequestCanceled ==
    /\ task.pc \in {"connect", "pump"}
    /\ task.restart \/ GuardFails(task)
    /\ Fail(task, "canceled")
    /\ UNCHANGED faulty

RequestFails ==
    /\ task.pc \in {"connect", "pump"}
    /\ "fail" \in env.may
    /\ Fail(task, "failed")
    /\ faulty' = TRUE

\* The temporary file cannot be made, or written.
WorkerFileFails ==
    /\ task.pc = "pump" \/ (task.pc = "connect" /\ Opening(task))
    /\ "local" \in env.may
    /\ Fail(task, "failed")
    /\ faulty' = TRUE

\* Mutant: the validator of a later response is not compared.
MutantAnyEntity(t) == TRUE

\* Without a validator only the start of the resource may be asked for, and
\* with one every response must be of the entity that was opened.
SameEntity(t) ==
    /\ t.start # 0 => env.validated
    /\ env.validated /\ ~Opening(t) => entity = t.entity

\* The fields every response sets, whole or from t.start on.
Response(t, partial) ==
    [t EXCEPT !.request = entity,
              !.at = IF partial THEN t.start ELSE 0,
              !.end = IF env.kind = "file" THEN Size ELSE None,
              !.total = IF env.kind = "file" THEN Size ELSE @,
              !.ranged = partial /\ env.validated]

\* What LoadPersistent finds in the cache is of the entity just opened.
Loaded(t) ==
    LET S == IF env.validated /\ ~t.sequential THEN env.stored ELSE {}
    IN  [t EXCEPT !.covered = S, !.disk = [p \in S |-> <<t.entity, p>>],
                  !.request = IF S = 0..(Size - 1) THEN 0 ELSE @]

\* Start has its response: 206 for a file that can be resumed, else 200.
Connected(partial) ==
    /\ task.pc = "connect"
    /\ ~GuardFails(task)
    /\ partial => env.kind = "file" /\ task.start < Size
    /\ IF SameEntity(task)
       THEN LET t == Response(task, partial)
                opened == [t EXCEPT !.entity = entity, !.pc = "elect",
                                    !.sequential = env.kind = "live"]
            IN  /\ WorkerStep(IF Opening(task) THEN Loaded(opened)
                              ELSE [t EXCEPT !.pc = "decide"], clients)
                /\ UNCHANGED faulty
       ELSE /\ Fail(task, "failed")
            /\ faulty' = TRUE

\* A live stream belongs to one consumer, a file can be shared.
Elect ==
    /\ task.pc = "elect"
    /\ LET active == ActiveIn(task, clients)
       IN  WorkerStep([task EXCEPT
                          !.pc = "ready",
                          !.shareable = ~task.sequential,
                          !.owner = IF ~task.sequential \/ active = {}
                                    THEN Nobody ELSE task.list[Min(active)]],
                      clients)
    /\ UNCHANGED faulty

PublishReady ==
    /\ task.pc = "ready"
    /\ WorkerStep([task EXCEPT !.pc = "decide", !.ready = TRUE], clients)
    /\ UNCHANGED faulty

\* Mutant: the worker reads one buffer too far ahead.
MutantWindowFullLate(t, cl) ==
    /\ t.sequential /\ t.spool = None
    /\ t.at - LivePosition(t, cl) > Capacity

\* The window must not be overrun before the consumer has read it.
WindowFull(t, cl) ==
    /\ t.sequential /\ t.spool = None
    /\ t.at - LivePosition(t, cl) > Capacity - 1

Finite(t) == ~t.sequential /\ t.total # None

\* Where the next request of a file has to start, None to go on with this one.
NextStart(t, cl) ==
    LET demand == Demand(t, cl)
        missing == AfterCovered(t, 0)
        next == AfterCovered(t, t.at)
    IN  IF ~Finite(t) THEN None
        ELSE IF demand # None
                /\ (t.request = 0 \/ (t.ranged /\ OutOfReach(t, demand)))
             THEN demand
        ELSE IF t.request = 0 \/ t.restart THEN missing
        ELSE IF t.ranged /\ next # t.at
             THEN IF next = t.total THEN missing ELSE next
        ELSE None

\* Mutant: the interruption is not taken back.
MutantStillRestarting(t, start) ==
    [t EXCEPT !.pc = "connect", !.start = start, !.at = start, !.request = 0]

Restarted(t, start) ==
    [t EXCEPT !.pc = "connect", !.start = start, !.at = start, !.request = 0,
              !.restart = FALSE]

\* Mutant: a range that reaches the end of the file is the last one.
MutantCompleteAtEnd(t) ==
    t.request = 0 /\ (Finite(t) => t.at = t.total)

Complete(t) ==
    IF Finite(t) THEN AfterCovered(t, 0) = t.total ELSE t.request = 0

\* One round of Prefetch, up to the call into the transport.
Decide ==
    /\ task.pc = "decide"
    /\ \E cl \in {Polled(task, clients)} :
       \E t \in {Guarded(task, cl)} :
       \E start \in {NextStart(t, cl)} :
           IF GuardFails(t)
           THEN WorkerStep([t EXCEPT !.error = "canceled", !.pc = "ending",
                                     !.request = 0], cl)
           ELSE /\ ~WindowFull(t, cl)
                /\ WorkerStep(
                      IF Complete(t) THEN [t EXCEPT !.pc = "ending"]
                      ELSE IF start # None THEN Restarted(t, start)
                      ELSE [t EXCEPT !.pc = "pump", !.restart = FALSE], cl)
    /\ UNCHANGED faulty

\* A buffer more is too much for a spool.
Exceeds(t) == t.spool # None /\ t.at >= t.spool

\* The transport has read a buffer.
PumpData ==
    /\ task.pc = "pump"
    /\ task.at < Size
    /\ IF Exceeds(task) THEN Fail(task, "large")
       ELSE WorkerStep([Cached(task) EXCEPT !.pc = "decide"], clients)
    /\ UNCHANGED faulty

\* The response is over; a live stream may end at any time.
PumpEnd ==
    /\ task.pc = "pump"
    /\ task.end # None => task.at = task.end
    /\ WorkerStep([task EXCEPT !.pc = "decide", !.request = 0,
                       !.total = IF @ = None THEN task.at ELSE @], clients)
    /\ UNCHANGED faulty

\* The response breaks off.  It is resumed once, if it can be.
PumpTruncated ==
    /\ task.pc = "pump"
    /\ "truncate" \in env.may
    /\ task.at # task.end
    /\ LET resumable == task.ranged /\ ~task.sequential
           t == IF resumable THEN [task EXCEPT !.retries = 1] ELSE task
       IN  IF resumable /\ task.retries = 0
           THEN /\ WorkerStep([t EXCEPT !.pc = "connect", !.start = t.at,
                                        !.request = 0], clients)
                /\ UNCHANGED faulty
           ELSE /\ Fail(t, "failed")
                /\ faulty' = TRUE

EndWorker ==
    /\ task.pc = "ending"
    /\ WorkerStep([task EXCEPT !.pc = "done", !.request = 0, !.done = TRUE,
                               !.ready = TRUE], clients)
    /\ UNCHANGED faulty

Worker ==
    \/ PollCanceled \/ RequestCanceled \/ RequestFails \/ WorkerFileFails
    \/ Connected(TRUE) \/ Connected(FALSE) \/ Elect \/ PublishReady
    \/ Decide \/ PumpData \/ PumpEnd \/ PumpTruncated \/ EndWorker

-----------------------------------------------------------------------------
(* The consumers.                                                          *)

ClientStep(c, t, client) ==
    /\ task' = t
    /\ clients' = [clients EXCEPT ![c] = client]
    /\ UNCHANGED <<env, entity, faulty>>

\* Guard(client) and the error that Protect keeps.
Checked(c) ==
    LET k == clients[c]
    IN  IF k.active /\ k.canceled
        THEN [k EXCEPT !.active = FALSE, !.error = "canceled"]
        ELSE IF ~k.active \/ task.stopping THEN [k EXCEPT !.error = "canceled"]
        ELSE IF k.error # "none" THEN k
        ELSE [k EXCEPT !.error = task.error]

Returned(k, error) == [k EXCEPT !.pc = "idle", !.demand = None, !.error = error]

Left(t, cl, c) ==
    LET list == RemoveAt(t.list, CHOOSE i \in DOMAIN t.list : t.list[i] = c)
        remaining == \E i \in DOMAIN list : cl[list[i]].active
    IN  [t EXCEPT !.list = list, !.accepting = @ /\ remaining,
                  !.stopping = @ \/ ~remaining]

Attach(c) ==
    /\ clients[c].pc = "out"
    /\ UNCHANGED user
    /\ IF task.accepting /\ task.error = "none" /\ (task.ready => task.shareable)
       THEN ClientStep(c, [task EXCEPT !.list = Append(@, c)],
                       [clients[c] EXCEPT !.pc = "opening"])
       ELSE ClientStep(c, task, [clients[c] EXCEPT !.pc = "closed",
                                                   !.active = FALSE])

\* Detach; a call of the same consumer is over before.
Detach(c) ==
    /\ clients[c].pc = "idle"
    /\ ClientStep(c, Left(task, clients, c),
                  [clients[c] EXCEPT !.pc = "closed", !.active = FALSE])
    /\ UNCHANGED user

\* WaitOpen: a consumer that fails leaves, and a second one of a live stream
\* opens one of its own.
Opened(c) ==
    /\ clients[c].pc = "opening"
    /\ LET k == Checked(c)
       IN  /\ k.error = "none" => task.ready
           /\ IF k.error = "none" /\ (task.shareable \/ task.owner = c)
              THEN ClientStep(c, task, Returned(k, "none"))
              ELSE ClientStep(c, Left(task, clients, c),
                              [k EXCEPT !.pc = "closed", !.active = FALSE])
    /\ UNCHANGED user

StartRead(c) ==
    /\ clients[c].pc = "idle" /\ clients[c].error = "none"
    /\ ClientStep(c, task, [clients[c] EXCEPT !.pc = "reading"])
    /\ UNCHANGED user

AtEnd(c) == task.total # None /\ clients[c].position >= task.total

\* Read finds its position in the temporary file, or the end of the resource.
ReadCovered(c) ==
    /\ clients[c].pc = "reading"
    /\ LET k == Checked(c)
       IN  IF k.error # "none" THEN ClientStep(c, task, Returned(k, k.error))
           ELSE /\ AtEnd(c) \/ k.position \in task.covered
                /\ ClientStep(c, task, [Returned(k, "none") EXCEPT
                                           !.position = IF AtEnd(c) THEN @
                                                        ELSE @ + 1])
    /\ UNCHANGED user

\* The temporary file cannot be read, which is this consumer's failure alone.
ReadFails(c) ==
    /\ clients[c].pc = "reading" /\ "local" \in env.may
    /\ Checked(c).error = "none"
    /\ ~AtEnd(c) /\ clients[c].position \in task.covered
    /\ ClientStep(c, task, Returned(clients[c], "local"))
    /\ UNCHANGED user

\* Read has to wait: it says where, and interrupts a request that is elsewhere.
ReadMissing(c) ==
    /\ clients[c].pc = "reading"
    /\ Checked(c).error = "none"
    /\ ~AtEnd(c) /\ clients[c].position \notin task.covered
    /\ LET k == [clients[c] EXCEPT !.demand = clients[c].position]
           wanted == Demand(task, [clients EXCEPT ![c] = k])
           apart == /\ ~task.sequential /\ task.ranged
                    /\ wanted # None /\ OutOfReach(task, wanted)
       IN  IF task.sequential /\ k.position < task.at
           THEN ClientStep(c, task, Returned(k, "lost"))
           ELSE IF task.done THEN ClientStep(c, task, Returned(k, "eof"))
           ELSE ClientStep(c, [task EXCEPT !.restart = @ \/ apart], k)
    /\ UNCHANGED user

Command == user < env.seeks /\ user' = user + 1

\* Seek; a live stream only has what its window holds.
Seek(c, p) ==
    /\ clients[c].pc = "idle"
    /\ Checked(c).error = "none"
    /\ p # clients[c].position
    /\ task.sequential /\ p < task.at => p \in task.covered
    /\ task.sequential /\ p < clients[c].position => "rewind" \in env.may
    /\ Command
    /\ ClientStep(c, task, [clients[c] EXCEPT !.position = p, !.demand = None])

CanSpool(t) == ~t.sequential \/ t.at <= Capacity

\* BufferToEnd; what is known to be longer than the limit is refused at once.
StartBuffering(c, limit) ==
    /\ clients[c].pc = "idle"
    /\ CanSpool(task)
    /\ task.total # None => task.total <= limit
    /\ Command
    /\ ClientStep(c, [task EXCEPT !.sequential = FALSE,
                                  !.spool = IF task.sequential THEN limit ELSE @],
                  [clients[c] EXCEPT !.pc = "buffering"])

Buffered(c) ==
    /\ clients[c].pc = "buffering"
    /\ LET k == Checked(c)
       IN  IF k.error # "none" THEN ClientStep(c, task, Returned(k, k.error))
           ELSE /\ task.done
                /\ ClientStep(c, task, [Returned(k, "none") EXCEPT
                                           !.position = 0])
    /\ UNCHANGED user

\* The owner of a consumer gives up, in the middle of a call or not.
Cancel(c) ==
    /\ "cancel" \in env.may
    /\ clients[c].pc \in {"opening", "idle", "reading", "buffering"}
    /\ ~clients[c].canceled
    /\ clients' = [clients EXCEPT ![c].canceled = TRUE]
    /\ UNCHANGED <<env, entity, task, faulty, user>>

Waiting(c) ==
    Opened(c) \/ ReadCovered(c) \/ ReadFails(c) \/ ReadMissing(c) \/ Buffered(c)

Client(c) ==
    \/ Attach(c) \/ Detach(c) \/ StartRead(c) \/ Cancel(c)
    \/ \E limit \in env.limits : StartBuffering(c, limit)
    \/ \E p \in 0..Size : Seek(c, p)
    \/ Waiting(c)

\* The server replaces the resource by another of the same length.
EntityChanges ==
    /\ "change" \in env.may
    /\ entity = 1
    /\ entity' = 2
    /\ UNCHANGED <<env, task, clients, faulty, user>>

Next == Worker \/ (\E c \in Consumers : Client(c)) \/ EntityChanges

\* The transport answers or times out in the end, and a waiting call polls.
Fairness == WF_vars(Worker) /\ \A c \in Consumers : WF_vars(Waiting(c))

Spec == Init /\ [][Next]_vars /\ Fairness

-----------------------------------------------------------------------------
(* Properties.                                                             *)

Positions == 0..Size

\* The variables have their types, and no request starts behind the end.
TypeOK ==
    /\ env \in Environments
    /\ task.covered \subseteq 0..(Size - 1)
    /\ task.at \in Positions
    /\ task.start \in 0..(Size - 1)
    /\ task.total \in Positions \cup {None}
    /\ task.owner \in Consumers \cup {Nobody}
    /\ task.pc \in {"connect", "elect", "ready", "decide", "pump", "ending",
                    "done"}
    /\ \A c \in Consumers :
          /\ clients[c].position \in Positions
          /\ clients[c].demand \in Positions \cup {None}

\* Whatever ranges were asked for, broken off and resumed, and though the
\* resource changed or the window was turned into a spool, the temporary file has
\* at every covered position that position of the entity that was opened.
CacheIsTheResource ==
    \A p \in task.covered :
        /\ DiskPosition(task, p) \in DOMAIN task.disk
        /\ task.disk[DiskPosition(task, p)] = <<task.entity, p>>

\* A call is only canceled by its own owner: not by the seek of another consumer,
\* by one that was canceled or by one that left.
CanceledByOwner ==
    \A c \in Consumers : clients[c].error = "canceled" => clients[c].canceled

\* Who shares a download fails only for a cause of the download or of its own.
\* Of the download: a request or the file of the worker failed, the resource
\* changed, or a live stream that somebody spools has reached the limit.  Of its
\* own: it was canceled, could not read the file, or read a live stream again.
\* In particular no missing range ends as an end of the file (Read, Prefetch).
FailsForCause ==
    \A c \in Consumers :
        \/ clients[c].error \in {"none", "canceled"} \/ faulty
        \/ clients[c].error = "large" /\ Exceeds(task)
        \/ clients[c].error = "local" /\ "local" \in env.may
        \/ clients[c].error \in {"lost", "eof"} /\ "rewind" \in env.may

\* A live stream read forwards never loses what its owner has not read.
WindowHoldsUnread ==
    LET c == task.owner
    IN  task.sequential /\ c # Nobody /\ "rewind" \notin env.may =>
            clients[c].position >= task.at
                \/ clients[c].position \in task.covered

\* A call that waits returns, with data or not, whoever else seeks, waits or
\* leaves.
CallsReturn ==
    \A c \in Consumers :
        clients[c].pc \in {"opening", "reading", "buffering"} ~>
            clients[c].pc \in {"idle", "closed"}
=============================================================================
