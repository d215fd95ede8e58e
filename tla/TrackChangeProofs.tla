-------------------------- MODULE TrackChangeProofs --------------------------
(***************************************************************************)
(* Proofs about TrackChange, for every list, every set of settings and any *)
(* number of commands.                                                     *)
(***************************************************************************)
EXTENDS TrackChange, FiniteSetTheorems, TLAPS

-----------------------------------------------------------------------------
(* The inductive invariant.                                                *)

\* The rows never outgrow the list at the start.
Bounded(p) ==
    /\ p.current <= Len(Rows)
    /\ p.row <= Len(p.list)
    /\ Len(p.list) <= Len(Rows)

\* Only overlapping outputs have engines in the background, at most two, all of
\* them stopped.
TailsOK(s, p) ==
    /\ Cardinality(DOMAIN p.tails) <= 2
    /\ s.fade # "overlap" => DOMAIN p.tails = {}
    /\ \A i \in DOMAIN p.tails : p.tails[i].state = "stopped"

\* An end is still owed an advance wherever the window may see one: while it
\* counts the track as active, or has a failure to skip.  A fade, which stops the
\* engine too, is neither.
EndsOK(p) ==
    /\ ~p.spurious
    /\ p.active /\ p.audio.state \in {"stopped", "failed"} => p.audio.ended
    /\ p.failed => /\ p.audio.ended /\ ~p.audio.fading /\ ~p.active
                   /\ p.audio.state \in {"stopped", "failed"}
    /\ p.audio.fading => ~p.active /\ p.audio.state = "stopped"

\* A change that waits for a fade is the one that was asked for, and the engine
\* it waits for does not play; one that waits for the gap has an engine that
\* stopped.
WaitOK(p) ==
    /\ p.wave # None => p.promised = p.wave /\ ~p.natural /\ p.audio.state = "stopped"
    /\ p.natural => p.audio.state = "stopped" /\ ~p.active /\ ~p.failed

PromiseOK(s, p) ==
    s.may \cap {"write", "close"} = {} => p.promised = None \/ Pending(p)

\* The player, and what every operator on it needs and keeps.
Sound(s, p) ==
    /\ p \in Player /\ Bounded(p)
    /\ TailsOK(s, p)
    /\ EndsOK(p)

OK(s, p) == Sound(s, p) /\ WaitOK(p) /\ PromiseOK(s, p)

\* A file is accessed only where the settings let it be written.
AccessOK ==
    /\ saving \in {"no", "save", "tails", "audio", "write"}
    /\ access \in Songs \cup {None} /\ resume \in Songs \cup {None}
    /\ saving \in {"tails", "audio", "write"} => "write" \in settings.may

\* The close begins a fade of its own and stops every timer.
Inductive ==
    /\ settings \in Settings
    /\ player \in Player /\ Bounded(player)
    /\ TailsOK(settings, player)
    /\ ~player.spurious
    /\ AccessOK
    /\ user \in 0..MaxUser
    /\ closing => saving = "no"
    /\ ~closing => OK(settings, player)

FlagsTyped == editor \in BOOLEAN /\ closing \in BOOLEAN

-----------------------------------------------------------------------------
(* Engines.                                                                *)

LEMMA EngineFields ==
    ASSUME NEW e \in Engine
    PROVE  /\ e.song \in Songs \cup {None}
           /\ e.state \in {"stopped", "opening", "playing", "paused", "failed"}
           /\ e.fading \in BOOLEAN /\ e.worker \in BOOLEAN /\ e.ended \in BOOLEAN
           /\ e.cancels \in BOOLEAN
BY DEF Engine

LEMMA EngineTypes ==
    ASSUME NEW e \in Engine
    PROVE  /\ Silent \in Engine
           /\ Fading(e).state = "stopped" /\ Canceled(e).state = "stopped"
           /\ Fading(e) \in Engine /\ Canceled(e) \in Engine
           /\ \A w \in BOOLEAN : [Canceled(e) EXCEPT !.worker = w] \in Engine
           /\ \A song \in Songs : Refused(e, song) \in Engine
BY DEF Engine, Silent, Fading, Canceled, Refused

LEMMA CanceledYields ==
    ASSUME NEW e \in Engine
    PROVE  Canceled(e).state = "stopped" /\ Canceled(e).fading = FALSE
BY DEF Canceled, Engine

LEMMA FadeCanceledYields ==
    ASSUME NEW e \in Engine
    PROVE  /\ FadeCanceled(e) \in Engine
           /\ FadeCanceled(e).state = "stopped" /\ FadeCanceled(e).fading = FALSE
           /\ FadeCanceled(e).ended =
                 (e.ended \/ e.state \in {"opening", "playing", "paused"})
<1>1. (e.ended \/ e.state \in {"opening", "playing", "paused"}) \in BOOLEAN
  OBVIOUS
<1> QED BY <1>1 DEF FadeCanceled, Engine

LEMMA RampOverYields ==
    ASSUME NEW e \in Engine
    PROVE  RampOver(e) \in Engine /\ RampOver(e).state = e.state
BY DEF RampOver, Engine

\* Stop leaves a stopped engine without a fade.
LEMMA StopEngineYields ==
    ASSUME NEW e \in Engine, NEW f \in StopEngine(e)
    PROVE  f \in Engine /\ f.state = "stopped" /\ ~f.fading
<1>1. PICK w \in {e.worker, FALSE} : f = [Canceled(e) EXCEPT !.worker = w]
  BY DEF StopEngine
<1>2. w \in BOOLEAN
  BY <1>1, EngineFields
<1>3. f \in Engine
  BY <1>1, <1>2, EngineTypes
<1>4. f.state = "stopped" /\ f.fading = FALSE
  BY <1>1 DEF Canceled, Engine
<1> QED BY <1>3, <1>4

\* Play leaves an engine with the song asked for; one that is not open has an
\* end nobody has acted on.
LEMMA PlayEngineYields ==
    ASSUME NEW e \in Engine, NEW song \in Songs, NEW f \in PlayEngine(e, song)
    PROVE  /\ f \in Engine
           /\ f.song = song /\ f.fading = FALSE
           /\ f.state \in {"stopped", "opening", "playing", "failed"}
           /\ f.state \in {"stopped", "failed"} => f.ended
<1>1. PICK g \in StopEngine(e) :
          f \in IF g.worker THEN {Refused(g, song)} ELSE Started(song, g.cancels)
  BY DEF PlayEngine
<1>2. g \in Engine /\ g.fading = FALSE
  BY StopEngineYields, EngineFields, Zenon
<1>3. CASE f = Refused(g, song)
  BY <1>2, <1>3 DEF Refused, Engine
<1>4. CASE f \in Started(song, g.cancels)
  <2>1. PICK state \in {"stopped", "opening", "playing", "failed"},
             worker \in BOOLEAN, cancels \in BOOLEAN :
             f = [song |-> song, state |-> state, fading |-> FALSE,
                  worker |-> worker, cancels |-> cancels,
                  ended |-> state \in {"failed", "stopped"}]
    BY <1>4 DEF Started
  <2>2. (state \in {"failed", "stopped"}) \in BOOLEAN
    OBVIOUS
  <2>3. f \in Engine
    BY <2>1, <2>2, Zenon DEF Engine
  <2>4. state \in {"stopped", "failed"} => f.ended
    BY <2>1
  <2> QED BY <2>1, <2>3, <2>4
<1> QED BY <1>1, <1>3, <1>4

-----------------------------------------------------------------------------
(* The engines in the background.                                          *)

LEMMA OutgoingFields ==
    ASSUME NEW t \in Outgoing
    PROVE  /\ DOMAIN t \subseteq Slots
           /\ \A i \in DOMAIN t : t[i] \in Engine
BY DEF Outgoing

LEMMA ThreeSlots == IsFiniteSet(Slots) /\ Cardinality(Slots) = 3
<1>1. 1 \in Int /\ 3 \in Int
  OBVIOUS
<1>2. IsFiniteSet(1..3) /\ Cardinality(1..3) = IF 1 > 3 THEN 0 ELSE 3 - 1 + 1
  BY <1>1, FS_Interval, Zenon
<1> QED BY <1>2 DEF Slots

LEMMA SlotsFinite ==
    ASSUME NEW S \in SUBSET Slots
    PROVE  IsFiniteSet(S) /\ Cardinality(S) \in Nat
<1>1. IsFiniteSet(Slots)
  BY ThreeSlots
<1> QED BY <1>1, FS_Subset, FS_CardinalityType

\* Polling removes engines and may cancel fades.
LEMMA PollFadingYields ==
    ASSUME NEW p \in Player, TailsOK(settings, p), NEW cancel \in BOOLEAN
    PROVE  \E t \in Outgoing : /\ PollFading(p, cancel) = [p EXCEPT !.tails = t]
                               /\ TailsOK(settings, [p EXCEPT !.tails = t])
<1> DEFINE Polled(i) == IF cancel THEN Canceled(p.tails[i]) ELSE p.tails[i]
           left == {i \in DOMAIN p.tails : ~Reaped(Polled(i))}
           t == [i \in left |-> Polled(i)]
<1>1. p.tails \in Outgoing
  BY DEF Player
<1>2. \A i \in DOMAIN p.tails : Polled(i) \in Engine /\ Polled(i).state = "stopped"
  BY <1>1, OutgoingFields, EngineTypes DEF TailsOK, Canceled, Engine
<1>3. left \in SUBSET Slots /\ left \subseteq DOMAIN p.tails
  BY <1>1, OutgoingFields
<1>4. t \in [left -> Engine]
  BY <1>2
<1>5. t \in Outgoing
  BY <1>3, <1>4 DEF Outgoing
<1>6. Cardinality(left) <= Cardinality(DOMAIN p.tails)
  BY <1>1, <1>3, OutgoingFields, SlotsFinite, FS_Subset
<1>7. Cardinality(left) \in Nat /\ Cardinality(DOMAIN p.tails) \in Nat
  BY <1>1, <1>3, OutgoingFields, SlotsFinite
<1>8. [p EXCEPT !.tails = t].tails = t
  BY DEF Player
<1>9. DOMAIN t = left /\ \A i \in left : t[i].state = "stopped"
  BY <1>2
<1> HIDE DEF t, left
<1>10. TailsOK(settings, [p EXCEPT !.tails = t])
  <2> DEFINE q == [p EXCEPT !.tails = t]
  <2>1. DOMAIN q.tails = left /\ \A i \in left : q.tails[i].state = "stopped"
    BY <1>8, <1>9
  <2> HIDE DEF q
  <2>2. Cardinality(left) <= 2
    BY <1>6, <1>7 DEF TailsOK
  <2>3. settings.fade # "overlap" => left = {}
    BY <1>3 DEF TailsOK
  <2>4. TailsOK(settings, q)
    BY <2>1, <2>2, <2>3 DEF TailsOK
  <2> QED BY <2>4 DEF q
<1>11. PollFading(p, cancel) = [p EXCEPT !.tails = t]
  BY DEF PollFading, t, left
<1> QED BY <1>5, <1>10, <1>11

\* A third engine is never retired, and an output that does not overlap has none.
LEMMA RetireYields ==
    ASSUME NEW p \in Player, TailsOK(settings, p), settings \in Settings
    PROVE  \/ Retire(p) = p
           \/ \E t \in Outgoing :
                 /\ Retire(p) = [p EXCEPT !.tails = t, !.audio = Silent]
                 /\ TailsOK(settings, [p EXCEPT !.tails = t, !.audio = Silent])
<1> SUFFICES ASSUME Overlaps(p)
             PROVE  \E t \in Outgoing :
                       /\ Retire(p) = [p EXCEPT !.tails = t, !.audio = Silent]
                       /\ TailsOK(settings, [p EXCEPT !.tails = t, !.audio = Silent])
  BY DEF Retire
<1> DEFINE S == DOMAIN p.tails
           new == CHOOSE i \in Slots : i \notin S
           t == [i \in S \cup {new} |-> IF i = new THEN Fading(p.audio) ELSE p.tails[i]]
<1>1. p.tails \in Outgoing /\ p.audio \in Engine
  BY DEF Player
<1>2. S \in SUBSET Slots /\ IsFiniteSet(S) /\ Cardinality(S) \in Nat
  BY <1>1, OutgoingFields, SlotsFinite
<1>3. Cardinality(Slots) = 3
  BY ThreeSlots
<1>4. Cardinality(S) < 2 /\ settings.fade = "overlap"
  BY TrackAssumption DEF Overlaps, CanFade, SettingsOK
<1>5. S # Slots
  BY <1>3, <1>4
<1>6. new \in Slots /\ new \notin S
  BY <1>2, <1>5
<1>7. Cardinality(S \cup {new}) = Cardinality(S) + 1
  BY <1>2, <1>6, FS_AddElement
<1>8. Fading(p.audio) \in Engine /\ Fading(p.audio).state = "stopped"
  BY <1>1, EngineTypes DEF Fading, Engine
<1>9. \A i \in S : p.tails[i] \in Engine /\ p.tails[i].state = "stopped"
  BY <1>1, OutgoingFields DEF TailsOK
<1>10. t \in [S \cup {new} -> Engine]
  BY <1>8, <1>9
<1>11. t \in Outgoing
  BY <1>2, <1>6, <1>10 DEF Outgoing
<1>12. DOMAIN t = S \cup {new} /\ \A i \in DOMAIN t : t[i].state = "stopped"
  BY <1>8, <1>9
<1>13. Retire(p) = [p EXCEPT !.tails = t, !.audio = Silent]
  BY DEF Retire
<1>14. [p EXCEPT !.tails = t, !.audio = Silent].tails = t
  BY DEF Player
<1> HIDE DEF t, new, S
<1>15. TailsOK(settings, [p EXCEPT !.tails = t, !.audio = Silent])
  BY <1>2, <1>4, <1>7, <1>12, <1>14 DEF TailsOK
<1> QED BY <1>11, <1>13, <1>15

-----------------------------------------------------------------------------
(* Changing tracks.                                                        *)

LEMMA PlayerFields ==
    ASSUME NEW p \in Player
    PROVE  /\ p.list \in Seq(Songs)
           /\ p.current \in Nat /\ p.row \in Nat
           /\ p.opened \in Songs \cup {None}
           /\ p.wave \in Songs \cup {None}
           /\ p.promised \in Songs \cup {None}
           /\ p.audio \in Engine
           /\ p.tails \in Outgoing
BY DEF Player

LEMMA PlayerFlags ==
    ASSUME NEW p \in Player
    PROVE  /\ p.sourceOpen \in BOOLEAN /\ p.active \in BOOLEAN
           /\ p.netOpen \in BOOLEAN /\ p.late \in BOOLEAN
           /\ p.natural \in BOOLEAN /\ p.failed \in BOOLEAN
           /\ p.spurious \in BOOLEAN
BY DEF Player

\* What has neither touched the list, the engines nor the debts of the window.
LEMMA SoundTransfer ==
    ASSUME NEW s, NEW p, Sound(s, p), NEW q \in Player,
           q.list = p.list, q.current <= Len(Rows), q.row <= Len(q.list),
           q.audio = p.audio, q.tails = p.tails, q.spurious = p.spurious,
           q.active => p.active, q.failed => p.failed
    PROVE  Sound(s, q)
BY DEF Sound, Bounded, TailsOK, EndsOK

LEMMA RequestedType ==
    ASSUME NEW p \in Player
    PROVE  /\ Requested(p) \in Songs \cup {None}
           /\ HasTrack(p) => p.current <= Len(p.list) /\ p.current # 0
BY PlayerFields DEF Requested, HasTrack

LEMMA CancelWaveYields ==
    ASSUME NEW s, NEW p, Sound(s, p)
    PROVE  /\ Sound(s, CancelWave(p))
           /\ CancelWave(p).wave = None
           /\ CancelWave(p).audio = p.audio
           /\ CancelWave(p).promised = p.promised
           /\ CancelWave(p).natural = p.natural
           /\ Requested(CancelWave(p)) = Requested(p)
<1> DEFINE q == CancelWave(p)
<1>1. p \in Player
  BY DEF Sound
<1>2. q \in Player
  BY <1>1 DEF CancelWave, Player
<1>3. /\ q.list = p.list /\ q.current = p.current /\ q.row = p.row
      /\ q.audio = p.audio /\ q.tails = p.tails /\ q.spurious = p.spurious
      /\ q.active = p.active /\ q.failed = p.failed
      /\ q.wave = None /\ q.promised = p.promised /\ q.natural = p.natural
      /\ q.opened = p.opened
  BY <1>1 DEF CancelWave, Player
<1> HIDE DEF q
<1>4. q.current <= Len(Rows) /\ q.row <= Len(q.list)
  BY <1>3 DEF Sound, Bounded
<1>5. Sound(s, q)
  BY <1>2, <1>3, <1>4, SoundTransfer
<1>6. Requested(q) = Requested(p)
  BY <1>3 DEF Requested, HasTrack
<1> QED BY <1>3, <1>5, <1>6 DEF q

\* A change that waits for a fade.
LEMMA WaitForYields ==
    ASSUME NEW p, Sound(settings, p), NEW song \in Songs,
           p.wave # None => p.audio.state = "stopped", ~p.natural,
           ~p.failed,
           p.wave = None => CanFade(p.audio)
    PROVE  /\ OK(settings, WaitFor(p, song))
           /\ WaitFor(p, song).promised = song
<1> DEFINE f == StartFade(p)
           r == WaitFor(p, song)
<1>1. p \in Player /\ song # None
  BY NoneAssumption DEF Sound
<1>2. /\ f \in Player
      /\ f.list = p.list /\ f.current = p.current /\ f.row = p.row
      /\ f.tails = p.tails /\ f.spurious = p.spurious
      /\ f.failed = p.failed /\ f.natural = p.natural
      /\ f.audio.state = "stopped"
      /\ \/ f.audio = p.audio /\ f.active = p.active
         \/ f.audio = Fading(p.audio) /\ ~f.active
  <2>1. CASE p.wave # None
    BY <1>1, <2>1 DEF StartFade
  <2>2. CASE p.wave = None
    <3>1. Fading(p.audio) \in Engine /\ Fading(p.audio).state = "stopped"
      BY <1>1, PlayerFields, EngineTypes
    <3>2. f = [p EXCEPT !.audio = Fading(p.audio), !.active = FALSE, !.late = FALSE]
      BY <2>2 DEF StartFade
    <3> QED BY <1>1, <3>1, <3>2, ZenonT(40) DEF Player
  <2> QED BY <2>1, <2>2
<1>3. r = [f EXCEPT !.wave = song, !.promised = song]
  BY DEF WaitFor
<1> HIDE DEF f
<1>4. /\ r \in Player
      /\ r.list = f.list /\ r.current = f.current /\ r.row = f.row
      /\ r.tails = f.tails /\ r.spurious = f.spurious
      /\ r.failed = f.failed /\ r.natural = f.natural
      /\ r.audio = f.audio /\ r.active = f.active
      /\ r.wave = song /\ r.promised = song
  BY <1>2, <1>3 DEF Player
<1> HIDE DEF r
<1>5. Bounded(r) /\ TailsOK(settings, r)
  BY <1>2, <1>4 DEF Bounded, TailsOK, Sound
<1>6. EndsOK(r)
  BY <1>2, <1>4 DEF EndsOK, Sound
<1>7. WaitOK(r) /\ PromiseOK(settings, r)
  BY <1>2, <1>4 DEF WaitOK, PromiseOK, Pending
<1> QED BY <1>4, <1>5, <1>6, <1>7 DEF OK, Sound, r

\* A player whose engine is about to be opened.
Openable(p) ==
    /\ p \in Player /\ Bounded(p)
    /\ TailsOK(settings, p)
    /\ p.wave = None /\ ~p.natural /\ ~p.failed /\ ~p.spurious

\* What opening a song makes of the player.
LEMMA OpenYields ==
    ASSUME NEW p, Openable(p), settings \in Settings, NEW song \in Songs,
           NEW r \in Open(p, song)
    PROVE  /\ OK(settings, r)
           /\ r.promised = None /\ r.audio.song = song
<1>1. p \in Player /\ p.audio \in Engine
  BY PlayerFields DEF Openable
<1>0. Bounded(p) /\ TailsOK(settings, p) /\ p.wave = None /\ ~p.natural
      /\ ~p.failed /\ ~p.spurious
  BY DEF Openable
<1> DEFINE q(e) == [p EXCEPT !.audio = e, !.promised = None]
<1>2. PICK e \in PlayEngine(p.audio, song) :
          r = CASE e.state \in {"failed", "stopped"} ->
                     [q(e) EXCEPT !.sourceOpen = FALSE, !.opened = None,
                                  !.active = FALSE, !.failed = settings.skip]
                [] e.state = "opening" ->
                     [q(e) EXCEPT !.opened = song, !.sourceOpen = FALSE,
                                  !.active = TRUE, !.netOpen = TRUE]
                [] e.state = "playing" ->
                     [q(e) EXCEPT !.opened = song, !.sourceOpen = TRUE,
                                  !.active = TRUE]
  BY DEF Open
<1>3. /\ e \in Engine /\ e.song = song /\ e.fading = FALSE
      /\ e.state \in {"stopped", "opening", "playing", "failed"}
      /\ e.state \in {"stopped", "failed"} => e.ended
  BY <1>1, PlayEngineYields, ZenonT(40)
<1>4. settings.skip \in BOOLEAN
  BY TrackAssumption DEF SettingsOK
<1>5. /\ q(e) \in Player
      /\ q(e).list = p.list /\ q(e).current = p.current /\ q(e).row = p.row
      /\ q(e).tails = p.tails /\ q(e).spurious = p.spurious
      /\ q(e).wave = None /\ q(e).natural = p.natural /\ q(e).failed = p.failed
      /\ q(e).promised = None /\ q(e).audio = e
  BY <1>0, <1>1, <1>3 DEF Player
<1> HIDE DEF q
<1>6. /\ r \in Player
      /\ r.list = p.list /\ r.current = p.current /\ r.row = p.row
      /\ r.tails = p.tails /\ r.spurious = p.spurious
      /\ r.wave = None /\ ~r.natural
      /\ r.promised = None /\ r.audio = e
      /\ r.active => e.state \in {"opening", "playing"}
      /\ r.failed => ~r.active /\ e.state \in {"failed", "stopped"}
  <2>1. CASE e.state \in {"failed", "stopped"}
    <3>1. r = [q(e) EXCEPT !.sourceOpen = FALSE, !.opened = None,
                           !.active = FALSE, !.failed = settings.skip]
      BY <1>2, <2>1
    <3> QED BY <1>0, <1>4, <1>5, <2>1, <3>1 DEF Player
  <2>2. CASE e.state = "opening"
    <3>1. r = [q(e) EXCEPT !.opened = song, !.sourceOpen = FALSE,
                           !.active = TRUE, !.netOpen = TRUE]
      BY <1>2, <2>2
    <3> QED BY <1>0, <1>5, <2>2, <3>1 DEF Player
  <2>3. CASE e.state = "playing"
    <3>1. r = [q(e) EXCEPT !.opened = song, !.sourceOpen = TRUE,
                           !.active = TRUE]
      BY <1>2, <2>3
    <3> QED BY <1>0, <1>5, <2>3, <3>1 DEF Player
  <2> QED BY <1>3, <2>1, <2>2, <2>3
<1>7. Sound(settings, r)
  BY <1>0, <1>3, <1>6 DEF Sound, Bounded, TailsOK, EndsOK
<1>8. WaitOK(r) /\ PromiseOK(settings, r)
  BY <1>6 DEF WaitOK, PromiseOK
<1> QED BY <1>3, <1>6, <1>7, <1>8 DEF OK

\* A call that polls the engines in the background with cancellation.
LEMMA PollFadingSound ==
    ASSUME NEW p, Sound(settings, p), NEW cancel \in BOOLEAN
    PROVE  LET q == PollFading(p, cancel)
           IN  /\ Sound(settings, q)
               /\ q.audio = p.audio /\ q.active = p.active
               /\ q.failed = p.failed /\ q.natural = p.natural
               /\ q.wave = p.wave /\ q.promised = p.promised
               /\ Requested(q) = Requested(p)
<1> DEFINE q == PollFading(p, cancel)
<1>1. p \in Player
  BY DEF Sound
<1>2. PICK t \in Outgoing : /\ q = [p EXCEPT !.tails = t]
                            /\ TailsOK(settings, [p EXCEPT !.tails = t])
  BY <1>1, PollFadingYields DEF Sound
<1>3. /\ q \in Player
      /\ q.list = p.list /\ q.current = p.current /\ q.row = p.row
      /\ q.spurious = p.spurious /\ q.opened = p.opened
      /\ q.audio = p.audio /\ q.active = p.active
      /\ q.failed = p.failed /\ q.natural = p.natural
      /\ q.wave = p.wave /\ q.promised = p.promised
  BY <1>1, <1>2 DEF Player
<1>4. TailsOK(settings, q)
  BY <1>2
<1> HIDE DEF q
<1>5. Sound(settings, q)
  BY <1>3, <1>4 DEF Sound, Bounded, EndsOK
<1>6. Requested(q) = Requested(p)
  BY <1>3 DEF Requested, HasTrack
<1> QED BY <1>3, <1>5, <1>6 DEF q

LEMMA RetireOpenable ==
    ASSUME NEW p, Openable(p), settings \in Settings
    PROVE  Openable(Retire(p))
<1> DEFINE q == Retire(p)
<1>1. p \in Player /\ Bounded(p) /\ TailsOK(settings, p)
  BY DEF Openable
<1>2. CASE q = p
  BY <1>2
<1>3. ASSUME NEW t \in Outgoing, q = [p EXCEPT !.tails = t, !.audio = Silent],
             TailsOK(settings, [p EXCEPT !.tails = t, !.audio = Silent])
      PROVE  Openable(q)
  <2>1. /\ q \in Player
        /\ q.list = p.list /\ q.current = p.current /\ q.row = p.row
        /\ q.spurious = p.spurious /\ q.wave = p.wave
        /\ q.failed = p.failed /\ q.natural = p.natural
    BY <1>1, <1>3, EngineTypes, PlayerFields DEF Player
  <2>2. TailsOK(settings, q)
    BY <1>3
  <2> HIDE DEF q
  <2> QED BY <2>1, <2>2 DEF Openable, Bounded
<1> QED BY <1>1, <1>2, <1>3, RetireYields

LEMMA PlayNowYields ==
    ASSUME NEW p, Sound(settings, p), settings \in Settings,
           p.wave # None => p.audio.state = "stopped",
           NEW deferred \in BOOLEAN,
           deferred => p.audio.state = "stopped" /\ ~p.active /\ p.wave = None,
           NEW r \in PlayNow(p, deferred)
    PROVE  /\ OK(settings, r)
           /\ p.wave # None /\ r.promised = None => r.audio.state = "stopped"
           /\ Requested(p) # None /\ r.promised = None =>
                 r.audio.song = Requested(p)
<1> DEFINE first == p.current = 0 /\ p.opened = None /\ p.list # <<>>
           q == [p EXCEPT !.netOpen = FALSE, !.natural = FALSE, !.failed = FALSE,
                          !.current = IF @ = 0 /\ p.opened = None /\ p.list # <<>>
                                      THEN 1 ELSE @]
           song == Requested(q)
           same == q.opened = song /\ (HasTrack(q) => q.row = q.current)
           a == [q EXCEPT !.row = IF HasTrack(q) THEN q.current ELSE @]
           s == PollFading(a, TRUE)
<1>1. p \in Player /\ Bounded(p) /\ p.list \in Seq(Songs)
  BY PlayerFields DEF Sound
<1>2. q \in Player
  BY <1>1 DEF Player
<1>3. /\ q.list = p.list /\ q.row = p.row /\ q.opened = p.opened
      /\ q.current = IF first THEN 1 ELSE p.current
      /\ q.audio = p.audio /\ q.tails = p.tails /\ q.spurious = p.spurious
      /\ q.active = p.active /\ q.failed = FALSE /\ q.natural = FALSE
      /\ q.wave = p.wave
  BY <1>1 DEF Player
<1>4. q.current <= Len(Rows) /\ q.row <= Len(q.list)
  BY <1>1, <1>3 DEF Bounded
<1>5. PlayNow(p, deferred) =
        IF song = None THEN {[CancelWave(q) EXCEPT !.promised = None]}
        ELSE IF deferred THEN {[a EXCEPT !.natural = TRUE, !.promised = song]}
        ELSE IF s.wave # None \/ (~same /\ WaitsForFade(s))
             THEN {WaitFor(s, song)}
        ELSE Open(IF same THEN s ELSE Retire(s), song)
  BY DEF PlayNow
<1>6. Requested(p) # None => song = Requested(p)
  BY <1>1, <1>3 DEF Requested, HasTrack
<1> HIDE DEF q
<1>7. Sound(settings, q)
  BY <1>2, <1>3, <1>4, SoundTransfer
<1>8. /\ a \in Player
      /\ a.list = q.list /\ a.current = q.current /\ a.opened = q.opened
      /\ a.row = IF HasTrack(q) THEN q.current ELSE q.row
      /\ a.audio = q.audio /\ a.tails = q.tails /\ a.spurious = q.spurious
      /\ a.active = q.active /\ a.failed = q.failed /\ a.natural = q.natural
      /\ a.wave = q.wave
  BY <1>2 DEF Player
<1>9. a.current <= Len(Rows) /\ a.row <= Len(a.list)
  BY <1>2, <1>4, <1>8, RequestedType
<1> HIDE DEF a
<1>10. Sound(settings, a)
  BY <1>7, <1>8, <1>9, SoundTransfer
<1>11. /\ Sound(settings, s)
       /\ s.audio = p.audio /\ s.active = p.active
       /\ s.failed = FALSE /\ s.natural = FALSE /\ s.wave = p.wave
  BY <1>3, <1>8, <1>10, PollFadingSound
<1>12. song \in Songs \cup {None}
  BY <1>2, RequestedType
<1> HIDE DEF s, song, same
<1>13. CASE song = None
  <2>1. r = [CancelWave(q) EXCEPT !.promised = None]
    BY <1>5, <1>13
  <2>2. Sound(settings, CancelWave(q)) /\ CancelWave(q) \in Player
    BY <1>7, CancelWaveYields DEF Sound
  <2> DEFINE c == CancelWave(q)
  <2>3. /\ r \in Player
        /\ r.list = c.list /\ r.current = c.current /\ r.row = c.row
        /\ r.audio = c.audio /\ r.tails = c.tails /\ r.spurious = c.spurious
        /\ r.active = c.active /\ r.failed = c.failed
        /\ r.wave = c.wave /\ r.natural = c.natural /\ r.promised = None
    BY <2>1, <2>2 DEF Player
  <2> HIDE DEF c
  <2>4. c.audio = p.audio /\ c.wave = None /\ c.natural = FALSE
    BY <1>3, <1>7, CancelWaveYields DEF c
  <2>5. r.current <= Len(Rows) /\ r.row <= Len(r.list)
    BY <2>2, <2>3 DEF Sound, Bounded, c
  <2>6. Sound(settings, r)
    BY <2>2, <2>3, <2>5, SoundTransfer DEF c
  <2>7. WaitOK(r) /\ PromiseOK(settings, r)
    BY <2>3, <2>4 DEF WaitOK, PromiseOK
  <2> QED BY <1>6, <1>13, <2>3, <2>4, <2>6, <2>7 DEF OK
<1>14. CASE song # None /\ deferred
  <2>1. r = [a EXCEPT !.natural = TRUE, !.promised = song]
    BY <1>5, <1>14
  <2>2. /\ r \in Player
        /\ r.list = a.list /\ r.current = a.current /\ r.row = a.row
        /\ r.audio = a.audio /\ r.tails = a.tails /\ r.spurious = a.spurious
        /\ r.active = a.active /\ r.failed = a.failed
        /\ r.wave = a.wave /\ r.natural = TRUE /\ r.promised = song
    BY <1>8, <1>12, <2>1 DEF Player
  <2>3. Sound(settings, r)
    BY <1>9, <1>10, <2>2, SoundTransfer
  <2>4. WaitOK(r) /\ PromiseOK(settings, r)
    BY <1>3, <1>8, <1>14, <2>2 DEF WaitOK, PromiseOK, Pending
  <2> QED BY <1>14, <2>2, <2>3, <2>4 DEF OK
<1>15. CASE song # None /\ ~deferred /\ (s.wave # None \/ (~same /\ WaitsForFade(s)))
  <2>1. r = WaitFor(s, song)
    BY <1>5, <1>15
  <2>2. s.wave = None => CanFade(s.audio)
    BY <1>15 DEF WaitsForFade
  <2>3. OK(settings, r) /\ r.promised = song
    BY <1>11, <1>12, <1>15, <2>1, <2>2, WaitForYields
  <2> QED BY <1>15, <2>3
<1>16. CASE song # None /\ ~deferred /\ ~(s.wave # None \/ (~same /\ WaitsForFade(s)))
  <2> DEFINE t == IF same THEN s ELSE Retire(s)
  <2>1. r \in Open(t, song) /\ s.wave = None
    BY <1>5, <1>16
  <2>2. Openable(s)
    BY <1>11, <2>1 DEF Openable, Sound, EndsOK
  <2>3. Openable(t)
    BY <2>2, RetireOpenable
  <2> HIDE DEF t
  <2>4. OK(settings, r) /\ r.promised = None /\ r.audio.song = song
    BY <1>12, <1>16, <2>1, <2>3, OpenYields
  <2> QED BY <1>6, <1>11, <2>1, <2>4
<1> QED BY <1>13, <1>14, <1>15, <1>16

LEMMA StopPlayerYields ==
    ASSUME NEW p, Sound(settings, p), saving = "no", NEW r \in StopPlayer(p)
    PROVE  OK(settings, r) /\ r.audio.state = "stopped"
<1> DEFINE c == CancelWave(p)
           d == [c EXCEPT !.netOpen = FALSE, !.active = FALSE,
                          !.sourceOpen = FALSE, !.natural = FALSE,
                          !.failed = FALSE, !.promised = None]
           q == PollFading(d, TRUE)
<1>1. Sound(settings, c) /\ c \in Player /\ c.wave = None
  BY CancelWaveYields DEF Sound
<1> HIDE DEF c
<1>2. /\ d \in Player
      /\ d.list = c.list /\ d.current = c.current /\ d.row = c.row
      /\ d.audio = c.audio /\ d.tails = c.tails /\ d.spurious = c.spurious
      /\ d.active = FALSE /\ d.failed = FALSE
      /\ d.wave = None /\ d.natural = FALSE /\ d.promised = None
  BY <1>1, ZenonT(40) DEF Player
<1> HIDE DEF d
<1>3. d.current <= Len(Rows) /\ d.row <= Len(d.list)
  BY <1>1, <1>2 DEF Sound, Bounded
<1>4. Sound(settings, d)
  BY <1>1, <1>2, <1>3, SoundTransfer
<1>5. /\ Sound(settings, q) /\ q.active = FALSE /\ q.failed = FALSE
      /\ q.wave = None /\ q.natural = FALSE /\ q.promised = None
  BY <1>2, <1>4, PollFadingSound
<1>6. PICK e \in IF CanFade(q.audio) THEN {Fading(q.audio)} ELSE StopEngine(q.audio) :
          r = [q EXCEPT !.audio = e]
  BY DEF StopPlayer, c, d
<1> HIDE DEF q
<1>7. q \in Player /\ q.audio \in Engine
  BY <1>5, PlayerFields DEF Sound
<1>8. e \in Engine /\ e.state = "stopped"
  BY <1>6, <1>7, EngineTypes, StopEngineYields
<1>9. /\ r \in Player
      /\ r.list = q.list /\ r.current = q.current /\ r.row = q.row
      /\ r.tails = q.tails /\ r.spurious = q.spurious
      /\ r.active = FALSE /\ r.failed = FALSE
      /\ r.wave = None /\ r.natural = FALSE /\ r.promised = None
      /\ r.audio = e
  BY <1>5, <1>6, <1>7, <1>8 DEF Player
<1>10. Sound(settings, r)
  BY <1>5, <1>8, <1>9 DEF Sound, Bounded, TailsOK, EndsOK
<1>11. WaitOK(r) /\ PromiseOK(settings, r)
  BY <1>9 DEF WaitOK, PromiseOK
<1> QED BY <1>8, <1>9, <1>10, <1>11 DEF OK

\* While a file is saved or written the player stays as it is.
LEMMA PlayCurrentYields ==
    ASSUME NEW p, OK(settings, p), settings \in Settings,
           NEW deferred \in BOOLEAN,
           deferred => p.audio.state = "stopped" /\ ~p.active /\ p.wave = None,
           NEW r \in PlayCurrent(p, deferred)
    PROVE  /\ OK(settings, r)
           /\ p.wave # None /\ r.promised = None => r.audio.state = "stopped"
<1>1. Sound(settings, p) /\ (p.wave # None => p.audio.state = "stopped")
  BY DEF OK, WaitOK
<1>2. CASE saving # "no"
  BY <1>1, <1>2 DEF PlayCurrent
<1>3. CASE saving = "no"
  BY <1>1, <1>3, PlayNowYields DEF PlayCurrent
<1> QED BY <1>2, <1>3

LEMMA SelectFromYields ==
    ASSUME NEW p, OK(settings, p), settings \in Settings,
           NEW i \in 1..Len(p.list), NEW deferred \in BOOLEAN,
           deferred => p.audio.state = "stopped" /\ ~p.active /\ p.wave = None,
           NEW r \in SelectFrom(p, i, deferred)
    PROVE  /\ OK(settings, r)
           /\ p.wave # None /\ r.promised = None => r.audio.state = "stopped"
<1>1. p \in Player /\ Bounded(p) /\ p.list \in Seq(Songs) /\ Sound(settings, p)
  BY PlayerFields DEF OK, Sound
<1>2. CASE saving # "no"
  BY <1>2 DEF SelectFrom, OK, WaitOK
<1>3. CASE saving = "no"
  <2> DEFINE q == [p EXCEPT !.failed = FALSE, !.current = i]
  <2>0. i \in Nat
    OBVIOUS
  <2>1. /\ q \in Player
        /\ q.list = p.list /\ q.current = i /\ q.row = p.row
        /\ q.audio = p.audio /\ q.tails = p.tails /\ q.spurious = p.spurious
        /\ q.active = p.active /\ q.failed = FALSE
        /\ q.wave = p.wave /\ q.natural = p.natural /\ q.promised = p.promised
    BY <1>1, <2>0 DEF Player
  <2>2. r \in PlayCurrent(q, deferred)
    BY <1>3 DEF SelectFrom
  <2> HIDE DEF q
  <2>3. q.current <= Len(Rows) /\ q.row <= Len(q.list)
    BY <1>1, <2>1 DEF Bounded
  <2>4. Sound(settings, q)
    BY <1>1, <2>1, <2>3, SoundTransfer
  <2>5. OK(settings, q)
    BY <2>1, <2>4 DEF OK, WaitOK, PromiseOK, Pending
  <2> QED BY <2>1, <2>2, <2>5, PlayCurrentYields
<1> QED BY <1>2, <1>3

\* The advance of an end that is owed one.
LEMMA AdvanceYields ==
    ASSUME NEW p, OK(settings, p), settings \in Settings,
           p.audio.ended, ~p.active, ~p.failed, ~p.natural,
           NEW deferred \in BOOLEAN,
           deferred => p.audio.state = "stopped" /\ p.wave = None,
           NEW r \in Advance(p, deferred)
    PROVE  /\ OK(settings, r)
           /\ p.wave # None /\ p.promised # None /\ r.promised = None =>
                 r.audio.state = "stopped"
<1> DEFINE e == [p.audio EXCEPT !.ended = FALSE]
           q == [p EXCEPT !.spurious = @ \/ ~p.audio.ended,
                          !.audio.ended = FALSE]
<1>1. p \in Player /\ p.audio \in Engine /\ Sound(settings, p) /\ ~p.spurious
  BY PlayerFields DEF OK, Sound, EndsOK
<1>2. e \in Engine /\ e.state = p.audio.state /\ e.fading = p.audio.fading
  BY <1>1 DEF Engine
<1>3. q = [p EXCEPT !.spurious = FALSE, !.audio = e]
  BY <1>1 DEF Player
<1> HIDE DEF e, q
<1>4. /\ q \in Player
      /\ q.list = p.list /\ q.current = p.current /\ q.row = p.row
      /\ q.tails = p.tails /\ q.spurious = FALSE
      /\ q.active = p.active /\ q.failed = p.failed
      /\ q.wave = p.wave /\ q.natural = p.natural /\ q.promised = p.promised
      /\ q.audio = e
  BY <1>1, <1>2, <1>3 DEF Player
<1>5. OK(settings, q)
  <2>1. Bounded(q) /\ TailsOK(settings, q)
    BY <1>1, <1>4 DEF Sound, Bounded, TailsOK
  <2>2. EndsOK(q)
    BY <1>1, <1>2, <1>4 DEF Sound, EndsOK
  <2>3. WaitOK(q) /\ PromiseOK(settings, q)
    BY <1>2, <1>4 DEF OK, WaitOK, PromiseOK, Pending
  <2> QED BY <1>4, <2>1, <2>2, <2>3 DEF OK, Sound
<1>6. deferred => q.audio.state = "stopped" /\ ~q.active /\ q.wave = None
  BY <1>2, <1>4
<1>7. p.wave # None => q.wave # None
  BY <1>4
<1>8. Sound(settings, q) /\ q.list \in Seq(Songs) /\ q.row \in Nat
  BY <1>5, PlayerFields DEF OK, Sound
<1>9. CASE r = q \/ r = p
  BY <1>2, <1>4, <1>5, <1>9
<1>10. CASE r \in StopPlayer(q)
  <2>1. CASE saving = "no"
    BY <1>8, <1>10, <2>1, StopPlayerYields
  <2>2. CASE saving # "no"
    BY <1>9, <1>10, <2>2 DEF StopPlayer
  <2> QED BY <2>1, <2>2
<1>11. CASE r \in PlayCurrent(q, deferred)
  BY <1>5, <1>6, <1>7, <1>11, PlayCurrentYields
<1>12. ASSUME NEW i \in 1..Len(q.list), r \in SelectFrom(q, i, deferred)
       PROVE  /\ OK(settings, r)
              /\ p.wave # None /\ p.promised # None /\ r.promised = None =>
                    r.audio.state = "stopped"
  BY <1>5, <1>6, <1>7, <1>12, SelectFromYields
<1>13. settings.mode \in 0..3
  BY TrackAssumption DEF SettingsOK
<1>14. [p EXCEPT !.natural = FALSE] = p
  BY <1>1 DEF Player
<1> DEFINE count == Len(p.list)
           next == p.row + 1
<1>15. r \in IF editor THEN {[p EXCEPT !.natural = FALSE]}
             ELSE IF count = 0
                  THEN IF settings.mode \in {1, 2} THEN PlayCurrent(q, deferred)
                       ELSE StopPlayer(q)
             ELSE CASE settings.mode = 0 -> StopPlayer(q)
                    [] settings.mode = 1 -> PlayCurrent(q, deferred)
                    [] settings.mode = 2 ->
                         IF next <= count THEN SelectFrom(q, next, deferred) ELSE {q}
                    [] settings.mode = 3 ->
                         SelectFrom(q, IF next <= count THEN next ELSE 1, deferred)
  BY DEF Advance, q
<1>16. count \in Nat /\ count = Len(q.list) /\ next \in 1..(count + 1)
  BY <1>1, <1>4, <1>8 DEF Sound, Bounded
<1> HIDE DEF count, next
<1>17. CASE editor \/ count = 0
  BY <1>9, <1>10, <1>11, <1>14, <1>15, <1>17
<1>18. CASE ~editor /\ count # 0
  <2>1. CASE settings.mode = 0
    BY <1>10, <1>15, <1>18, <2>1
  <2>2. CASE settings.mode = 1
    BY <1>11, <1>15, <1>18, <2>2
  <2>3. CASE settings.mode = 2
    <3>1. r = q \/ (next <= count /\ r \in SelectFrom(q, next, deferred))
      BY <1>15, <1>18, <2>3
    <3>2. next <= count => next \in 1..Len(q.list)
      BY <1>16
    <3> QED BY <1>9, <1>12, <3>1, <3>2
  <2>4. CASE settings.mode = 3
    <3> DEFINE i == IF next <= count THEN next ELSE 1
    <3>1. r \in SelectFrom(q, i, deferred)
      BY <1>15, <1>18, <2>4
    <3>2. i \in 1..Len(q.list)
      BY <1>16, <1>18
    <3> QED BY <1>12, <3>1, <3>2
  <2> QED BY <1>13, <2>1, <2>2, <2>3, <2>4
<1> QED BY <1>17, <1>18

-----------------------------------------------------------------------------
(* The window's timers.                                                    *)

\* A change that waited for its fade opens the song asked for, or nothing.
LEMMA PollWaveYields ==
    ASSUME NEW p, OK(settings, p), settings \in Settings, p.wave # None,
           NEW r \in PollWave(p)
    PROVE  /\ OK(settings, r)
           /\ r.promised = None /\ r.audio.state \in {"opening", "playing"} =>
                 r.audio.song = p.promised
<1> DEFINE q == CancelWave(p)
<1>1. p \in Player /\ Sound(settings, p) /\ p.promised = p.wave
      /\ ~p.natural /\ p.audio.state = "stopped"
  BY DEF OK, Sound, WaitOK
<1>2. /\ Sound(settings, q) /\ q \in Player /\ q.wave = None
      /\ q.audio = p.audio /\ q.natural = p.natural
      /\ Requested(q) = Requested(p)
  BY <1>1, CancelWaveYields DEF Sound
<1>3. \/ r = p
      \/ StillRequested(p) /\ saving = "no" /\ r \in PlayCurrent(q, FALSE)
      \/ r = [q EXCEPT !.promised = None]
  BY DEF PollWave
<1> HIDE DEF q
<1>4. CASE r = p
  BY <1>1, <1>4
<1>5. CASE StillRequested(p) /\ saving = "no" /\ r \in PlayCurrent(q, FALSE)
  <2>1. r \in PlayNow(q, FALSE) /\ Requested(q) = p.promised /\ p.promised # None
    BY <1>1, <1>2, <1>5 DEF PlayCurrent, StillRequested
  <2>2. /\ OK(settings, r)
        /\ Requested(q) # None /\ r.promised = None =>
              r.audio.song = Requested(q)
    BY <1>2, <2>1, PlayNowYields
  <2> QED BY <2>1, <2>2
<1>6. CASE r = [q EXCEPT !.promised = None]
  <2>1. /\ r \in Player
        /\ r.list = q.list /\ r.current = q.current /\ r.row = q.row
        /\ r.audio = q.audio /\ r.tails = q.tails /\ r.spurious = q.spurious
        /\ r.active = q.active /\ r.failed = q.failed
        /\ r.wave = q.wave /\ r.natural = q.natural /\ r.promised = None
    BY <1>2, <1>6 DEF Player
  <2>2. r.current <= Len(Rows) /\ r.row <= Len(r.list)
    BY <1>2, <2>1 DEF Sound, Bounded
  <2>3. Sound(settings, r)
    BY <1>2, <2>1, <2>2, SoundTransfer
  <2>4. WaitOK(r) /\ PromiseOK(settings, r)
    BY <1>1, <1>2, <2>1 DEF WaitOK, PromiseOK
  <2> QED BY <1>1, <1>2, <2>1, <2>3, <2>4 DEF OK
<1> QED BY <1>3, <1>4, <1>5, <1>6

\* A track that opened over the network counts as active.
LEMMA PollNetworkYields ==
    ASSUME NEW p, OK(settings, p)
    PROVE  /\ OK(settings, PollNetwork(p))
           /\ PollNetwork(p).wave = p.wave
<1> DEFINE r == PollNetwork(p)
<1>1. p \in Player /\ p.audio \in Engine
  BY PlayerFields DEF OK, Sound
<1> DEFINE opened == [p EXCEPT !.netOpen = FALSE, !.sourceOpen = TRUE, !.active = TRUE]
           closed == [p EXCEPT !.netOpen = FALSE]
           Same(q) ==
               /\ q.list = p.list /\ q.current = p.current /\ q.row = p.row
               /\ q.audio = p.audio /\ q.tails = p.tails /\ q.spurious = p.spurious
               /\ q.failed = p.failed /\ q.wave = p.wave /\ q.natural = p.natural
               /\ q.promised = p.promised
<1>2. opened \in Player /\ Same(opened)
  BY <1>1 DEF Player
<1>3. closed \in Player /\ Same(closed) /\ closed.active = p.active
  BY <1>1 DEF Player
<1>4. /\ r \in {p, opened, closed}
      /\ r = opened => p.audio.state \in {"playing", "paused"} \/ r \in {p, closed}
  BY DEF PollNetwork
<1> HIDE DEF r, opened, closed
<1>5. /\ r \in Player /\ Same(r)
      /\ r.active = p.active \/ r.audio.state \in {"playing", "paused"}
  BY <1>1, <1>2, <1>3, <1>4
<1>6. Bounded(r) /\ TailsOK(settings, r)
  BY <1>5 DEF OK, Sound, Bounded, TailsOK
<1>7. EndsOK(r)
  BY <1>5 DEF OK, Sound, EndsOK
<1>8. WaitOK(r) /\ PromiseOK(settings, r)
  BY <1>5 DEF OK, WaitOK, PromiseOK, Pending
<1> QED BY <1>5, <1>6, <1>7, <1>8 DEF OK, Sound, r

\* The window advances over an end that is owed one, and only then.
LEMMA ObserveYields ==
    ASSUME NEW p, OK(settings, p), settings \in Settings, p.wave = None,
           NEW r \in Observe(p)
    PROVE  OK(settings, r)
<1>1. /\ p \in Player /\ p.audio \in Engine /\ Sound(settings, p)
      /\ Bounded(p) /\ TailsOK(settings, p) /\ EndsOK(p)
  BY PlayerFields DEF OK, Sound
<1>2. settings.gap \in BOOLEAN /\ settings.skip \in BOOLEAN
  BY TrackAssumption DEF SettingsOK
<1>3. CASE p.active /\ p.audio.state = "stopped"
  <2> DEFINE q == [p EXCEPT !.active = FALSE, !.sourceOpen = FALSE]
  <2>1. /\ q \in Player
        /\ q.list = p.list /\ q.current = p.current /\ q.row = p.row
        /\ q.audio = p.audio /\ q.tails = p.tails /\ q.spurious = p.spurious
        /\ q.active = FALSE /\ q.failed = p.failed
        /\ q.wave = p.wave /\ q.natural = p.natural /\ q.promised = p.promised
    BY <1>1 DEF Player
  <2>2. r \in Advance(q, settings.gap)
    BY <1>3 DEF Observe
  <2> HIDE DEF q
  <2>3. q.current <= Len(Rows) /\ q.row <= Len(q.list)
    BY <1>1, <2>1 DEF Bounded
  <2>4. Sound(settings, q)
    BY <1>1, <2>1, <2>3, SoundTransfer
  <2>5. ~q.failed /\ ~q.natural /\ q.audio.ended
    BY <1>1, <1>3, <2>1 DEF EndsOK, OK, WaitOK
  <2>6. OK(settings, q)
    BY <2>1, <2>4, <2>5 DEF OK, WaitOK, PromiseOK, Pending
  <2> QED BY <1>2, <1>3, <2>1, <2>2, <2>5, <2>6, AdvanceYields
<1>4. CASE ~(p.active /\ p.audio.state = "stopped") /\ p.audio.state = "failed"
  <2> DEFINE failed == IF p.active THEN settings.skip ELSE p.failed
  <2>1. r = [p EXCEPT !.failed = failed, !.active = FALSE, !.sourceOpen = FALSE,
                      !.opened = None]
    BY <1>4 DEF Observe
  <2>2. failed \in BOOLEAN
    BY <1>1, <1>2, PlayerFlags
  <2>3. failed => p.active \/ p.failed
    OBVIOUS
  <2> HIDE DEF failed
  <2>4. /\ r \in Player
        /\ r.list = p.list /\ r.current = p.current /\ r.row = p.row
        /\ r.audio = p.audio /\ r.tails = p.tails /\ r.spurious = p.spurious
        /\ r.active = FALSE /\ r.failed = failed
        /\ r.wave = p.wave /\ r.natural = p.natural /\ r.promised = p.promised
    BY <1>1, <2>1, <2>2, ZenonT(40) DEF Player
  <2>5. Bounded(r) /\ TailsOK(settings, r)
    BY <1>1, <2>4 DEF Bounded, TailsOK
  <2>6. EndsOK(r)
    BY <1>1, <1>4, <2>3, <2>4 DEF EndsOK
  <2>7. WaitOK(r) /\ PromiseOK(settings, r)
    BY <1>4, <2>4 DEF OK, WaitOK, PromiseOK, Pending
  <2> QED BY <2>4, <2>5, <2>6, <2>7 DEF OK, Sound
<1>5. CASE ~(p.active /\ p.audio.state = "stopped") /\ p.audio.state # "failed"
  <2>1. r = [p EXCEPT !.active = p.audio.state # "stopped"]
    BY <1>5 DEF Observe
  <2>2. /\ r \in Player
        /\ r.list = p.list /\ r.current = p.current /\ r.row = p.row
        /\ r.audio = p.audio /\ r.tails = p.tails /\ r.spurious = p.spurious
        /\ r.active <=> p.audio.state # "stopped"
        /\ r.failed = p.failed
        /\ r.wave = p.wave /\ r.natural = p.natural /\ r.promised = p.promised
    BY <1>1, <2>1 DEF Player
  <2>3. Bounded(r) /\ TailsOK(settings, r)
    BY <1>1, <2>2 DEF Bounded, TailsOK
  <2>4. EndsOK(r)
    BY <1>1, <1>5, <2>2 DEF EndsOK
  <2>5. WaitOK(r) /\ PromiseOK(settings, r)
    BY <1>5, <2>2 DEF OK, WaitOK, PromiseOK, Pending
  <2> QED BY <2>2, <2>3, <2>4, <2>5 DEF OK, Sound
<1> QED BY <1>3, <1>4, <1>5

LEMMA OnTimerYields ==
    ASSUME NEW p, OK(settings, p), settings \in Settings, NEW due \in BOOLEAN,
           NEW r \in OnTimer(p, due)
    PROVE  /\ OK(settings, r)
           /\ /\ p.wave # None /\ p.promised # None /\ r.promised = None
              /\ r.audio.state \in {"opening", "playing"}
              => r.audio.song = p.promised
<1>1. p \in Player /\ Sound(settings, p)
  BY DEF OK, Sound
<1>2. CASE r = p
  BY <1>2
<1>3. CASE p.wave # None /\ r \in PollWave(p)
  BY <1>3, PollWaveYields
<1>4. CASE p.wave = None /\ p.natural /\ saving = "no"
           /\ r \in IF editor
                    THEN {[p EXCEPT !.natural = FALSE, !.promised = None]}
                    ELSE PlayCurrent([p EXCEPT !.natural = FALSE], FALSE)
  <2>1. CASE r = [p EXCEPT !.natural = FALSE, !.promised = None]
    <3>1. /\ r \in Player
          /\ r.list = p.list /\ r.current = p.current /\ r.row = p.row
          /\ r.audio = p.audio /\ r.tails = p.tails /\ r.spurious = p.spurious
          /\ r.active = p.active /\ r.failed = p.failed
          /\ r.wave = p.wave /\ r.natural = FALSE /\ r.promised = None
      BY <1>1, <2>1 DEF Player
    <3>2. r.current <= Len(Rows) /\ r.row <= Len(r.list)
      BY <1>1, <3>1 DEF Sound, Bounded
    <3>3. Sound(settings, r)
      BY <1>1, <3>1, <3>2, SoundTransfer
    <3>4. WaitOK(r) /\ PromiseOK(settings, r)
      BY <1>4, <3>1 DEF WaitOK, PromiseOK
    <3> QED BY <1>4, <3>3, <3>4 DEF OK
  <2>2. CASE r \in PlayCurrent([p EXCEPT !.natural = FALSE], FALSE)
    <3> DEFINE q == [p EXCEPT !.natural = FALSE]
    <3>1. /\ q \in Player
          /\ q.list = p.list /\ q.current = p.current /\ q.row = p.row
          /\ q.audio = p.audio /\ q.tails = p.tails /\ q.spurious = p.spurious
          /\ q.active = p.active /\ q.failed = p.failed /\ q.wave = p.wave
      BY <1>1 DEF Player
    <3>2. r \in PlayNow(q, FALSE)
      BY <1>4, <2>2 DEF PlayCurrent
    <3> HIDE DEF q
    <3>3. q.current <= Len(Rows) /\ q.row <= Len(q.list)
      BY <1>1, <3>1 DEF Sound, Bounded
    <3>4. Sound(settings, q)
      BY <1>1, <3>1, <3>3, SoundTransfer
    <3>5. q.wave = None
      BY <1>4, <3>1
    <3>6. OK(settings, r)
      BY <3>2, <3>4, <3>5, PlayNowYields
    <3> QED BY <1>4, <3>6
  <2> QED BY <1>4, <2>1, <2>2
<1>5. CASE p.wave = None /\ r \in Observe(PollNetwork(p))
  <2>1. OK(settings, PollNetwork(p)) /\ PollNetwork(p).wave = None
    BY <1>5, PollNetworkYields
  <2> QED BY <1>5, <2>1, ObserveYields
<1> QED BY <1>2, <1>3, <1>4, <1>5 DEF OnTimer

-----------------------------------------------------------------------------
(* The steps.                                                              *)

\* What WaveOpensRequested says of a step.
OpensRequested ==
    Carried /\ player.wave # None => player'.audio.song = player.promised

LEMMA InductiveFrom ==
    ASSUME Inductive, ~closing, UNCHANGED <<settings, closing>>,
           OK(settings, player'), AccessOK', user' \in 0..MaxUser
    PROVE  Inductive'
BY DEF Inductive, AccessOK, OK, Sound, EndsOK

LEMMA AccessKept ==
    ASSUME Inductive, UNCHANGED <<settings, saving, access, resume>>
    PROVE  AccessOK'
BY DEF Inductive, AccessOK

LEMMA CommandCounts ==
    ASSUME Inductive, Command
    PROVE  user' \in 0..MaxUser /\ user' # user /\ ~closing
<1>1. user \in Nat /\ MaxUser \in Nat /\ user < MaxUser /\ user' = user + 1
  BY TrackAssumption DEF Inductive, AccessOK, Command
<1>2. user' \in 0..MaxUser /\ user' # user
  BY <1>1
<1> QED BY <1>2 DEF Command

\* A step of the engine that the window has not yet observed.
LEMMA EngineStepKeeps ==
    ASSUME Inductive, NEW e \in Engine, EngineStep(e),
           ~closing =>
             /\ player.active /\ e.state \in {"stopped", "failed"} => e.ended
             /\ player.failed => /\ e.ended /\ ~e.fading
                                 /\ e.state \in {"stopped", "failed"}
             /\ e.fading => ~player.active /\ e.state = "stopped"
             /\ player.wave # None \/ player.natural => e.state = "stopped"
    PROVE  Inductive' /\ OpensRequested
<1> DEFINE r == player'
<1>1. player \in Player /\ r = [player EXCEPT !.audio = e]
      /\ UNCHANGED <<settings, saving, access, resume, editor, closing, user>>
  BY DEF Inductive, AccessOK, EngineStep
<1>2. /\ r \in Player
      /\ r.list = player.list /\ r.current = player.current /\ r.row = player.row
      /\ r.audio = e /\ r.tails = player.tails /\ r.spurious = player.spurious
      /\ r.active = player.active /\ r.failed = player.failed
      /\ r.wave = player.wave /\ r.natural = player.natural
      /\ r.promised = player.promised
  BY <1>1 DEF Player
<1> HIDE DEF r
<1>3. Bounded(r) /\ TailsOK(settings, r) /\ ~r.spurious
  BY <1>2 DEF Inductive, AccessOK, Bounded, TailsOK
<1>4. ASSUME ~closing PROVE OK(settings, r)
  <2>1. EndsOK(r)
    BY <1>2, <1>4 DEF Inductive, AccessOK, OK, Sound, EndsOK
  <2>2. WaitOK(r) /\ PromiseOK(settings, r)
    BY <1>2, <1>4 DEF Inductive, AccessOK, OK, WaitOK, PromiseOK, Pending
  <2> QED BY <1>2, <1>3, <2>1, <2>2 DEF OK, Sound
<1>5. Inductive'
  BY <1>1, <1>2, <1>3, <1>4 DEF Inductive, AccessOK, r
<1>6. OpensRequested
  BY <1>2 DEF OpensRequested, Carried, r
<1> QED BY <1>5, <1>6

LEMMA EnginesKeep ==
    ASSUME Inductive, Engines
    PROVE  Inductive' /\ OpensRequested
<1> DEFINE a == player.audio
<1>1. player \in Player /\ a \in Engine
  BY PlayerFields DEF Inductive, AccessOK
<1>2. ~closing => EndsOK(player) /\ WaitOK(player)
  BY DEF Inductive, AccessOK, OK, Sound
<1>3. /\ ~closing /\ a.fading => ~player.active /\ ~player.failed
                                /\ a.state = "stopped"
      /\ ~closing /\ (player.wave # None \/ player.natural) => a.state = "stopped"
      /\ ~closing /\ player.failed => a.state \in {"stopped", "failed"}
  BY <1>2 DEF EndsOK, WaitOK
<1>4. CASE EngineOpens
  <2> DEFINE e == [a EXCEPT !.state = "playing"]
  <2>1. e \in Engine /\ e.state = "playing" /\ e.fading = a.fading
        /\ a.state = "opening" /\ EngineStep(e)
    BY <1>1, <1>4 DEF EngineOpens, Engine
  <2> HIDE DEF e
  <2> QED BY <1>3, <2>1, EngineStepKeeps
<1>5. CASE EngineFails
  <2> DEFINE e == [a EXCEPT !.state = "failed", !.worker = FALSE, !.ended = TRUE]
  <2>1. e \in Engine /\ e.state = "failed" /\ e.fading = a.fading /\ e.ended
        /\ a.state \in {"opening", "playing", "paused"} /\ EngineStep(e)
    BY <1>1, <1>5 DEF EngineFails, Engine
  <2> HIDE DEF e
  <2> QED BY <1>3, <2>1, EngineStepKeeps
<1>6. CASE EngineEnds
  <2> DEFINE e == [a EXCEPT !.state = "stopped", !.worker = FALSE, !.ended = TRUE]
  <2>1. e \in Engine /\ e.state = "stopped" /\ e.fading = a.fading /\ e.ended
        /\ a.state = "playing" /\ EngineStep(e)
    BY <1>1, <1>6 DEF EngineEnds, Engine
  <2> HIDE DEF e
  <2> QED BY <1>3, <2>1, EngineStepKeeps
<1>7. CASE FadeEnds
  <2> DEFINE e == RampOver(a)
  <2>1. e \in Engine /\ e.state = a.state /\ e.fading = a.fading
        /\ e.ended = a.ended /\ EngineStep(e)
    BY <1>1, <1>7 DEF FadeEnds, RampOver, Engine
  <2> HIDE DEF e
  <2>2. ~closing =>
             /\ player.active /\ e.state \in {"stopped", "failed"} => e.ended
             /\ player.failed => /\ e.ended /\ ~e.fading
                                 /\ e.state \in {"stopped", "failed"}
             /\ e.fading => ~player.active /\ e.state = "stopped"
             /\ player.wave # None \/ player.natural => e.state = "stopped"
    BY <1>2, <2>1 DEF EndsOK, WaitOK
  <2> QED BY <2>1, <2>2, EngineStepKeeps
<1>9. CASE FadeCancels
  <2> DEFINE e == FadeCanceled(a)
  <2>1. e \in Engine /\ e.state = "stopped" /\ e.fading = FALSE
        /\ e.ended = (a.ended \/ a.state \in {"opening", "playing", "paused"})
        /\ a.state \in {"stopped", "opening", "playing", "paused", "failed"}
        /\ EngineStep(e)
    BY <1>1, <1>9, FadeCanceledYields DEF FadeCancels, Engine
  <2> HIDE DEF e
  <2>2. ~closing => /\ player.active => e.ended
                    /\ player.failed => e.ended
    BY <1>2, <2>1 DEF EndsOK
  <2> QED BY <2>1, <2>2, EngineStepKeeps
<1>8. CASE WorkerReturns
  <2> DEFINE e == [a EXCEPT !.worker = FALSE]
  <2>1. e \in Engine /\ e.state = a.state /\ e.fading = a.fading
        /\ e.ended = a.ended /\ EngineStep(e)
    BY <1>1, <1>8 DEF WorkerReturns, Engine
  <2> HIDE DEF e
  <2>2. ~closing =>
             /\ player.active /\ e.state \in {"stopped", "failed"} => e.ended
             /\ player.failed => /\ e.ended /\ ~e.fading
                                 /\ e.state \in {"stopped", "failed"}
             /\ e.fading => ~player.active /\ e.state = "stopped"
             /\ player.wave # None \/ player.natural => e.state = "stopped"
    BY <1>2, <2>1 DEF EndsOK, WaitOK
  <2> QED BY <2>1, <2>2, EngineStepKeeps
<1> QED BY <1>4, <1>5, <1>6, <1>7, <1>8, <1>9 DEF Engines

\* Engines in the background only leave or stop fading.
LEMMA TailsLeave ==
    ASSUME NEW s, NEW p, p \in Player, NEW t \in Outgoing,
           DOMAIN t \subseteq DOMAIN p.tails,
           \A i \in DOMAIN t : t[i].state = "stopped",
           TailsOK(s, p)
    PROVE  LET q == [p EXCEPT !.tails = t]
           IN  /\ q \in Player /\ TailsOK(s, q)
               /\ Bounded(p) => Bounded(q)
               /\ q.spurious = p.spurious
               /\ OK(s, p) => OK(s, q)
               /\ q.promised = p.promised /\ q.wave = p.wave
<1> DEFINE q == [p EXCEPT !.tails = t]
<1>1. /\ q \in Player
      /\ q.list = p.list /\ q.current = p.current /\ q.row = p.row
      /\ q.audio = p.audio /\ q.tails = t /\ q.spurious = p.spurious
      /\ q.active = p.active /\ q.failed = p.failed
      /\ q.wave = p.wave /\ q.natural = p.natural
      /\ q.promised = p.promised
  BY DEF Player
<1>2. p.tails \in Outgoing
  BY PlayerFields
<1>3. DOMAIN p.tails \in SUBSET Slots /\ DOMAIN t \in SUBSET Slots
  BY <1>2, OutgoingFields
<1>4. Cardinality(DOMAIN t) <= Cardinality(DOMAIN p.tails)
      /\ Cardinality(DOMAIN t) \in Nat /\ Cardinality(DOMAIN p.tails) \in Nat
  BY <1>3, SlotsFinite, FS_Subset
<1> HIDE DEF q
<1>5. TailsOK(s, q)
  <2>1. Cardinality(DOMAIN t) <= 2
    BY <1>4 DEF TailsOK
  <2>2. s.fade # "overlap" => DOMAIN t = {}
    BY DEF TailsOK
  <2> QED BY <1>1, <2>1, <2>2 DEF TailsOK
<1>6. Bounded(p) => Bounded(q)
  BY <1>1 DEF Bounded
<1>7. OK(s, p) => EndsOK(q) /\ WaitOK(q) /\ PromiseOK(s, q)
  BY <1>1 DEF OK, Sound, EndsOK, WaitOK, PromiseOK, Pending
<1> QED BY <1>1, <1>5, <1>6, <1>7 DEF OK, Sound, q

LEMMA NoTails == <<>> \in Outgoing /\ DOMAIN <<>> = {}
<1>1. <<>> \in [{} -> Engine]
  OBVIOUS
<1>2. {} \in SUBSET Slots
  OBVIOUS
<1> QED BY <1>1, <1>2, Zenon DEF Outgoing

LEMMA TailsStepKeeps ==
    ASSUME Inductive, NEW t \in Outgoing,
           DOMAIN t \subseteq DOMAIN player.tails,
           \A i \in DOMAIN t : t[i].state = "stopped",
           player' = [player EXCEPT !.tails = t],
           UNCHANGED <<settings, closing>>,
           AccessOK', closing => saving' = "no", user' \in 0..MaxUser
    PROVE  Inductive' /\ OpensRequested
<1> DEFINE q == [player EXCEPT !.tails = t]
<1>1. player \in Player /\ Bounded(player) /\ TailsOK(settings, player)
  BY DEF Inductive, AccessOK
<1>2. /\ q \in Player /\ TailsOK(settings, q)
      /\ Bounded(q) /\ q.spurious = player.spurious
      /\ OK(settings, player) => OK(settings, q)
      /\ q.promised = player.promised
  BY <1>1, TailsLeave
<1>3. player' = q
  OBVIOUS
<1> HIDE DEF q
<1>4. Inductive'
  BY <1>2, <1>3 DEF Inductive, AccessOK
<1>5. OpensRequested
  BY <1>2, <1>3 DEF OpensRequested, Carried
<1> QED BY <1>4, <1>5

LEMMA TailsKeep ==
    ASSUME Inductive, NEW i \in DOMAIN player.tails, TailEnds(i)
    PROVE  Inductive' /\ OpensRequested
<1> DEFINE e == CASE player.tails[i].cancels -> FadeCanceled(player.tails[i])
                  [] player.tails[i].fading /\ ~player.tails[i].cancels ->
                       RampOver(player.tails[i])
                  [] OTHER -> [player.tails[i] EXCEPT !.worker = FALSE]
           t == [player.tails EXCEPT ![i] = e]
<1>1. player \in Player /\ player.tails \in Outgoing /\ player.tails[i] \in Engine
      /\ player.tails[i].state = "stopped"
  BY PlayerFields, OutgoingFields DEF Inductive, AccessOK, TailsOK
<1>2. e \in Engine /\ e.state = "stopped"
  <2>1. CASE player.tails[i].cancels
    BY <1>1, <2>1, FadeCanceledYields
  <2>2. CASE player.tails[i].fading /\ ~player.tails[i].cancels
    BY <1>1, <2>2, RampOverYields
  <2>3. CASE ~player.tails[i].fading /\ ~player.tails[i].cancels
    BY <1>1, <2>3 DEF Engine
  <2> QED BY <2>1, <2>2, <2>3
<1>3. player' = [player EXCEPT !.tails = t]
      /\ UNCHANGED <<settings, saving, access, resume, editor, closing, user>>
  BY <1>1 DEF TailEnds, Player
<1> HIDE DEF e
<1>4. PICK S \in SUBSET Slots : player.tails \in [S -> Engine]
  BY <1>1 DEF Outgoing
<1>5. t \in [S -> Engine]
  BY <1>2, <1>4
<1>6. t \in Outgoing /\ DOMAIN t = DOMAIN player.tails
  BY <1>4, <1>5 DEF Outgoing
<1>7. \A k \in DOMAIN t : t[k].state = "stopped"
  BY <1>2 DEF Inductive, AccessOK, TailsOK
<1> HIDE DEF t
<1>8. AccessOK' /\ (closing => saving' = "no") /\ user' \in 0..MaxUser
  BY <1>3, AccessKept DEF Inductive
<1> QED BY <1>3, <1>6, <1>7, <1>8, TailsStepKeeps

LEMMA UiTimerKeeps ==
    ASSUME Inductive, UiTimer
    PROVE  Inductive' /\ OpensRequested
<1> DEFINE p == PollFading(player, FALSE)
<1>1. PICK due \in BOOLEAN : Handle(OnTimer(p, due))
  BY DEF UiTimer
<1>2. player' \in OnTimer(p, due)
      /\ UNCHANGED <<settings, saving, access, resume, editor, closing, user>>
  BY <1>1 DEF Handle
<1>3. player \in Player /\ TailsOK(settings, player) /\ settings \in Settings
  BY DEF Inductive, AccessOK
<1>4. PICK t \in Outgoing : /\ p = [player EXCEPT !.tails = t]
                            /\ TailsOK(settings, [player EXCEPT !.tails = t])
  BY <1>3, PollFadingYields
<1>5. /\ p \in Player /\ TailsOK(settings, p)
      /\ p.list = player.list /\ p.current = player.current
      /\ p.row = player.row /\ p.spurious = player.spurious
      /\ p.active = player.active /\ p.failed = player.failed
      /\ p.wave = player.wave /\ p.natural = player.natural
      /\ p.promised = player.promised /\ p.audio = player.audio
  BY <1>3, <1>4 DEF Player
<1> HIDE DEF p
<1>6. Bounded(p)
  BY <1>5 DEF Inductive, AccessOK, Bounded
<1>7. CASE closing
  <2>1. player' = p
    BY <1>2, <1>7 DEF OnTimer
  <2>2. Inductive'
    BY <1>2, <1>5, <1>6, <1>7, <2>1 DEF Inductive, AccessOK
  <2>3. OpensRequested
    BY <1>5, <2>1 DEF OpensRequested, Carried
  <2> QED BY <2>2, <2>3
<1>8. CASE ~closing
  <2>1. EndsOK(p) /\ WaitOK(p) /\ PromiseOK(settings, p)
    BY <1>5, <1>8 DEF Inductive, AccessOK, OK, Sound, EndsOK, WaitOK, PromiseOK, Pending
  <2>2. OK(settings, p)
    BY <1>5, <1>6, <2>1 DEF OK, Sound
  <2>3. /\ OK(settings, player')
        /\ /\ p.wave # None /\ p.promised # None /\ player'.promised = None
           /\ player'.audio.state \in {"opening", "playing"}
           => player'.audio.song = p.promised
    BY <1>2, <1>3, <2>2, OnTimerYields
  <2>4. Inductive'
    BY <1>2, <1>8, <2>3 DEF Inductive, AccessOK, OK, Sound, EndsOK
  <2>5. OpensRequested
    BY <1>5, <2>3 DEF OpensRequested, Carried
  <2> QED BY <2>4, <2>5
<1> QED BY <1>7, <1>8

LEMMA WaveTimerKeeps ==
    ASSUME Inductive, WaveTimer
    PROVE  Inductive' /\ OpensRequested
<1>1. player.wave # None /\ player' \in PollWave(player)
      /\ UNCHANGED <<settings, saving, access, resume, editor, closing, user>>
  BY DEF WaveTimer, Handle
<1>2. CASE closing
  <2>1. player' = player
    BY <1>1, <1>2 DEF PollWave
  <2> QED BY <1>1, <1>2, <2>1 DEF Inductive, AccessOK, OpensRequested, Carried
<1>3. CASE ~closing
  <2>1. OK(settings, player) /\ settings \in Settings
    BY <1>3 DEF Inductive, AccessOK
  <2>2. /\ OK(settings, player')
        /\ player'.promised = None /\ player'.audio.state \in {"opening", "playing"} =>
              player'.audio.song = player.promised
    BY <1>1, <2>1, PollWaveYields
  <2>3. Inductive'
    BY <1>1, <1>3, <2>2 DEF Inductive, AccessOK, OK, Sound, EndsOK
  <2> QED BY <2>2, <2>3 DEF OpensRequested, Carried
<1> QED BY <1>2, <1>3

LEMMA DeadlineKeeps ==
    ASSUME Inductive, Deadline
    PROVE  Inductive' /\ OpensRequested
<1> DEFINE r == player'
<1>1. player \in Player /\ r = [player EXCEPT !.late = TRUE]
      /\ UNCHANGED <<settings, saving, access, resume, editor, closing, user>>
  BY DEF Deadline, Handle, Inductive
<1>2. /\ r \in Player
      /\ r.list = player.list /\ r.current = player.current /\ r.row = player.row
      /\ r.audio = player.audio /\ r.tails = player.tails
      /\ r.spurious = player.spurious
      /\ r.active = player.active /\ r.failed = player.failed
      /\ r.wave = player.wave /\ r.natural = player.natural
      /\ r.promised = player.promised
  BY <1>1 DEF Player
<1> HIDE DEF r
<1>3. Bounded(r) /\ TailsOK(settings, r) /\ ~r.spurious
  BY <1>2 DEF Inductive, AccessOK, Bounded, TailsOK
<1>4. ~closing => EndsOK(r) /\ WaitOK(r) /\ PromiseOK(settings, r)
  BY <1>2 DEF Inductive, AccessOK, OK, Sound, EndsOK, WaitOK, PromiseOK, Pending
<1>5. ~closing => OK(settings, r)
  BY <1>2, <1>3, <1>4 DEF OK, Sound
<1>6. Inductive'
  BY <1>1, <1>2, <1>3, <1>5 DEF Inductive, AccessOK, r
<1>7. OpensRequested
  BY <1>2 DEF OpensRequested, Carried, r
<1> QED BY <1>6, <1>7

LEMMA FailedTimerKeeps ==
    ASSUME Inductive, FailedTimer
    PROVE  Inductive' /\ OpensRequested
<1> DEFINE q == [player EXCEPT !.failed = FALSE]
<1>1. player.failed /\ ~closing /\ player' \in Advance(q, FALSE)
      /\ UNCHANGED <<settings, saving, access, resume, editor, closing, user>>
  BY DEF FailedTimer, Handle
<1>2. OK(settings, player) /\ settings \in Settings /\ player \in Player
      /\ Sound(settings, player)
  BY <1>1 DEF Inductive, AccessOK, OK
<1>3. /\ q \in Player
      /\ q.list = player.list /\ q.current = player.current /\ q.row = player.row
      /\ q.audio = player.audio /\ q.tails = player.tails
      /\ q.spurious = player.spurious
      /\ q.active = player.active /\ q.failed = FALSE
      /\ q.wave = player.wave /\ q.natural = player.natural
      /\ q.promised = player.promised
  BY <1>2 DEF Player
<1> HIDE DEF q
<1>4. q.audio.ended /\ ~q.active /\ ~q.natural
  BY <1>1, <1>2, <1>3 DEF Sound, EndsOK, OK, WaitOK
<1>5. q.current <= Len(Rows) /\ q.row <= Len(q.list)
  BY <1>2, <1>3 DEF Sound, Bounded
<1>6. Sound(settings, q)
  BY <1>2, <1>3, <1>5, SoundTransfer
<1>7. OK(settings, q)
  BY <1>2, <1>3, <1>6 DEF OK, WaitOK, PromiseOK, Pending
<1>8. /\ OK(settings, player')
      /\ q.wave # None /\ q.promised # None /\ player'.promised = None =>
            player'.audio.state = "stopped"
  BY <1>1, <1>2, <1>3, <1>4, <1>7, AdvanceYields
<1>9. Inductive'
  BY <1>1, <1>8 DEF Inductive, AccessOK, OK, Sound, EndsOK
<1>10. OpensRequested
  BY <1>3, <1>8 DEF OpensRequested, Carried
<1> QED BY <1>9, <1>10

-----------------------------------------------------------------------------
(* The commands.                                                           *)

LEMMA PlayPauseKeeps ==
    ASSUME Inductive, PlayPause
    PROVE  Inductive'
<1>1. Command /\ UNCHANGED <<settings, saving, access, resume, editor, closing>>
  BY DEF PlayPause, Command
<1>2. user' \in 0..MaxUser /\ ~closing /\ settings \in Settings
      /\ OK(settings, player) /\ saving \in {"no", "save", "tails", "audio", "write"}
      /\ resume \in Songs \cup {None}
  BY <1>1, CommandCounts DEF Inductive, AccessOK
<1>3. player \in Player /\ player.audio \in Engine
  BY PlayerFields DEF Inductive, AccessOK
<1>4. ASSUME NEW state \in {"paused", "playing"},
             player.audio.state \in {"paused", "playing"},
             player' = [player EXCEPT !.audio.state = state]
      PROVE  OK(settings, player')
  <2> DEFINE e == [player.audio EXCEPT !.state = state]
             r == player'
  <2>1. e \in Engine /\ e.state = state /\ e.fading = player.audio.fading
        /\ e.ended = player.audio.ended
    BY <1>3, <1>4 DEF Engine
  <2>2. r = [player EXCEPT !.audio = e]
    BY <1>3, <1>4 DEF Player
  <2> HIDE DEF e
  <2>3. /\ r \in Player
        /\ r.list = player.list /\ r.current = player.current
        /\ r.row = player.row
        /\ r.audio = e /\ r.tails = player.tails
        /\ r.spurious = player.spurious
        /\ r.active = player.active /\ r.failed = player.failed
        /\ r.wave = player.wave /\ r.natural = player.natural
        /\ r.promised = player.promised
    BY <1>3, <2>1, <2>2 DEF Player
  <2> HIDE DEF r
  <2>4. Bounded(r) /\ TailsOK(settings, r)
    BY <1>2, <2>3 DEF OK, Sound, Bounded, TailsOK
  <2>5. EndsOK(r)
    BY <1>2, <1>4, <2>1, <2>3 DEF OK, Sound, EndsOK
  <2>6. WaitOK(r) /\ PromiseOK(settings, r)
    BY <1>2, <1>4, <2>3 DEF OK, WaitOK, PromiseOK, Pending
  <2> QED BY <2>3, <2>4, <2>5, <2>6 DEF OK, Sound, r
<1>5. ASSUME player' \in PlayCurrent(player, FALSE)
      PROVE  OK(settings, player')
  BY <1>2, <1>5, PlayCurrentYields
<1>6. OK(settings, player')
  BY <1>4, <1>5 DEF PlayPause
<1> QED BY <1>1, <1>2, <1>6, InductiveFrom, AccessKept

LEMMA RelativeKeeps ==
    ASSUME Inductive, NEW next \in BOOLEAN, Relative(next)
    PROVE  Inductive'
<1> DEFINE count == Len(player.list)
           row == player.row
           i == IF next THEN IF row + 1 <= count THEN row + 1 ELSE 1
                ELSE IF row > 1 THEN row - 1 ELSE count
<1>1. Command /\ UNCHANGED <<settings, saving, access, resume, editor, closing>>
  BY DEF Relative, Command
<1>2. user' \in 0..MaxUser /\ ~closing /\ settings \in Settings
      /\ OK(settings, player) /\ saving \in {"no", "save", "tails", "audio", "write"}
      /\ resume \in Songs \cup {None}
  BY <1>1, CommandCounts DEF Inductive, AccessOK
<1>3. player' \in IF count = 0 THEN {player} ELSE SelectFrom(player, i, FALSE)
  BY DEF Relative
<1>4. count \in Nat /\ row \in Nat /\ row <= count
  BY PlayerFields DEF Inductive, AccessOK, Bounded
<1>5. count # 0 => i \in 1..count
  BY <1>4
<1> HIDE DEF i
<1>6. CASE count = 0
  BY <1>1, <1>2, <1>3, <1>6, InductiveFrom, AccessKept
<1>7. CASE count # 0
  <2>1. OK(settings, player')
    BY <1>2, <1>3, <1>5, <1>7, SelectFromYields
  <2> QED BY <1>1, <1>2, <2>1, InductiveFrom, AccessKept
<1> QED BY <1>6, <1>7

LEMMA StopCommandKeeps ==
    ASSUME Inductive, StopCommand
    PROVE  Inductive'
<1>1. Command /\ player' \in StopPlayer(player)
      /\ UNCHANGED <<settings, saving, access, resume, editor, closing>>
  BY DEF StopCommand, Command
<1>2. user' \in 0..MaxUser /\ ~closing /\ settings \in Settings
      /\ OK(settings, player) /\ saving \in {"no", "save", "tails", "audio", "write"}
      /\ resume \in Songs \cup {None} /\ Sound(settings, player)
  BY <1>1, CommandCounts DEF Inductive, AccessOK, OK
<1>3. OK(settings, player')
  <2>1. CASE saving = "no"
    BY <1>1, <1>2, <2>1, StopPlayerYields
  <2>2. CASE saving # "no"
    BY <1>1, <1>2, <2>2 DEF StopPlayer
  <2> QED BY <2>1, <2>2
<1> QED BY <1>1, <1>2, <1>3, InductiveFrom, AccessKept

\* A row that is removed leaves a shorter list of the same songs.
LEMMA RemoveAtYields ==
    ASSUME NEW list \in Seq(Songs), NEW i \in DOMAIN list
    PROVE  RemoveAt(list, i) \in Seq(Songs) /\ Len(RemoveAt(list, i)) = Len(list) - 1
BY DEF RemoveAt

LEMMA RemoveRowKeeps ==
    ASSUME Inductive, NEW i \in DOMAIN player.list, RemoveRow(i)
    PROVE  Inductive'
<1> DEFINE Shift(k) == IF k = i THEN 0 ELSE IF k > i THEN k - 1 ELSE k
           r == player'
<1>1. Command /\ UNCHANGED <<settings, saving, access, resume, editor, closing>>
  BY DEF RemoveRow, Command
<1>2. user' \in 0..MaxUser /\ ~closing /\ settings \in Settings
      /\ OK(settings, player) /\ saving \in {"no", "save", "tails", "audio", "write"}
      /\ resume \in Songs \cup {None}
  BY <1>1, CommandCounts DEF Inductive, AccessOK
<1>3. player \in Player /\ Bounded(player) /\ player.list \in Seq(Songs)
      /\ player.row \in Nat /\ player.current \in Nat
  BY PlayerFields DEF Inductive, AccessOK
<1>4. r = [player EXCEPT !.list = RemoveAt(player.list, i),
                         !.row = Shift(player.row),
                         !.current = Shift(player.current)]
  BY <1>3 DEF RemoveRow, WithoutRow, Player
<1>5. i \in 1..Len(player.list) /\ Len(player.list) \in Nat
  BY <1>3
<1>6. \A k \in Nat : Shift(k) \in Nat /\ Shift(k) <= k
  BY <1>5
<1>7. Shift(player.row) <= Len(player.list) - 1
  BY <1>3, <1>5 DEF Bounded
<1> DEFINE list == RemoveAt(player.list, i)
<1>8. list \in Seq(Songs) /\ Len(list) = Len(player.list) - 1
  BY <1>3, RemoveAtYields
<1> HIDE DEF Shift, list
<1>9. /\ r \in Player
      /\ r.list = list /\ r.current = Shift(player.current)
      /\ r.row = Shift(player.row)
      /\ r.audio = player.audio /\ r.tails = player.tails
      /\ r.spurious = player.spurious
      /\ r.active = player.active /\ r.failed = player.failed
      /\ r.wave = player.wave /\ r.natural = player.natural
      /\ r.promised = player.promised
  BY <1>3, <1>4, <1>6, <1>8 DEF Player, list
<1> HIDE DEF r
<1>10. Len(Rows) \in Nat
  BY TrackAssumption
<1>11. Bounded(r)
  <2>1. Shift(player.current) \in Nat /\ Shift(player.current) <= player.current
    BY <1>3, <1>6
  <2>2. player.current <= Len(Rows) /\ Len(player.list) <= Len(Rows)
    BY <1>3 DEF Bounded
  <2>3. Shift(player.current) <= Len(Rows)
    BY <1>3, <1>10, <2>1, <2>2
  <2>4. Len(list) <= Len(Rows)
    BY <1>5, <1>8, <1>10, <2>2
  <2>5. Shift(player.row) <= Len(list)
    BY <1>7, <1>8
  <2> QED BY <1>9, <2>3, <2>4, <2>5 DEF Bounded
<1>12. TailsOK(settings, r) /\ EndsOK(r) /\ WaitOK(r) /\ PromiseOK(settings, r)
  BY <1>2, <1>9 DEF OK, Sound, TailsOK, EndsOK, WaitOK, PromiseOK, Pending
<1>13. OK(settings, r)
  BY <1>9, <1>11, <1>12 DEF OK, Sound
<1> QED BY <1>1, <1>2, <1>13, InductiveFrom, AccessKept DEF r

LEMMA BeginWriteKeeps ==
    ASSUME Inductive, NEW song \in Songs, BeginWrite(song)
    PROVE  Inductive'
<1>1. Command /\ UNCHANGED <<settings, player, resume, editor, closing>>
      /\ "write" \in settings.may /\ saving' = "tails" /\ access' = song
  BY DEF BeginWrite, Command
<1>2. user' \in 0..MaxUser /\ ~closing
  BY <1>1, CommandCounts
<1>3. OK(settings, player') /\ AccessOK'
  BY <1>1, <1>2 DEF Inductive, AccessOK
<1> QED BY <1>1, <1>2, <1>3, InductiveFrom

\* A canceled engine in the background stays until its worker is joined.
LEMMA StopTailKeeps ==
    ASSUME Inductive, NEW i \in DOMAIN player.tails, StopTail(i)
    PROVE  Inductive' /\ OpensRequested
<1> DEFINE e == Canceled(player.tails[i])
           t == IF player.tails[i].worker THEN [player.tails EXCEPT ![i] = e]
                ELSE [j \in DOMAIN player.tails \ {i} |-> player.tails[j]]
<1>1. player \in Player /\ player.tails \in Outgoing /\ player.tails[i] \in Engine
      /\ \A j \in DOMAIN player.tails : player.tails[j].state = "stopped"
  BY PlayerFields, OutgoingFields DEF Inductive, AccessOK, TailsOK
<1>2. e \in Engine /\ e.state = "stopped"
  BY <1>1, EngineTypes
<1>3. player' = [player EXCEPT !.tails = t]
      /\ UNCHANGED <<settings, saving, access, resume, editor, closing, user>>
  BY DEF StopTail
<1> HIDE DEF e
<1>4. PICK S \in SUBSET Slots : player.tails \in [S -> Engine]
  BY <1>1 DEF Outgoing
<1>5. t \in Outgoing /\ DOMAIN t \subseteq DOMAIN player.tails
      /\ \A k \in DOMAIN t : t[k].state = "stopped"
  <2>1. CASE player.tails[i].worker
    <3>1. t \in [S -> Engine]
      BY <1>2, <1>4, <2>1
    <3> QED BY <1>1, <1>2, <1>4, <2>1, <3>1 DEF Outgoing
  <2>2. CASE ~player.tails[i].worker
    <3>1. t \in [S \ {i} -> Engine] /\ S \ {i} \in SUBSET Slots
      BY <1>4, <2>2
    <3> QED BY <1>1, <1>4, <2>2, <3>1 DEF Outgoing
  <2> QED BY <2>1, <2>2
<1> HIDE DEF t
<1>6. AccessOK' /\ (closing => saving' = "no") /\ user' \in 0..MaxUser
  BY <1>3, AccessKept DEF Inductive
<1> QED BY <1>3, <1>5, <1>6, TailsStepKeeps

\* The opened track is stopped for the file access, and what it waited for dropped.
LEMMA StopOpenedKeeps ==
    ASSUME Inductive, StopOpened
    PROVE  Inductive' /\ OpensRequested
<1> DEFINE r == player'
<1>1. UNCHANGED <<settings, access, editor, closing, user>>
      /\ saving = "tails" /\ saving' \in {"audio", "write"}
  BY DEF StopOpened
<1>2. /\ user' \in 0..MaxUser /\ ~closing /\ settings \in Settings
      /\ OK(settings, player) /\ player \in Player /\ player.audio \in Engine
      /\ AccessOK /\ "write" \in settings.may
  BY <1>1, PlayerFields DEF Inductive, AccessOK
<1>3. AccessOK'
  BY <1>1, <1>2 DEF StopOpened, AccessOK
<1>4. ~Carried
  BY <1>1 DEF Carried
<1>5. CASE player.opened = access
  <2> DEFINE c == CancelWave(player)
             e == Canceled(c.audio)
  <2>1. Sound(settings, c) /\ c \in Player /\ c.wave = None
        /\ c.audio \in Engine
    BY <1>2, CancelWaveYields, PlayerFields DEF OK, Sound
  <2>2. e \in Engine /\ e.state = "stopped" /\ e.fading = FALSE
    BY <2>1, EngineTypes, CanceledYields
  <2>3. r = [c EXCEPT !.natural = FALSE, !.failed = FALSE,
                      !.active = FALSE, !.sourceOpen = FALSE, !.audio = e]
    BY <1>5, <2>1 DEF StopOpened, Player
  <2> HIDE DEF c, e
  <2>4. /\ r \in Player
        /\ r.list = c.list /\ r.current = c.current /\ r.row = c.row
        /\ r.audio = e /\ r.tails = c.tails /\ r.spurious = c.spurious
        /\ r.active = FALSE /\ r.failed = FALSE
        /\ r.wave = None /\ r.natural = FALSE
    BY <2>1, <2>2, <2>3 DEF Player
  <2> HIDE DEF r
  <2>5. Bounded(r) /\ TailsOK(settings, r) /\ EndsOK(r)
    BY <2>1, <2>2, <2>4 DEF Sound, Bounded, TailsOK, EndsOK
  <2>6. WaitOK(r) /\ PromiseOK(settings, r)
    BY <1>2, <2>4 DEF WaitOK, PromiseOK
  <2>7. OK(settings, r)
    BY <2>4, <2>5, <2>6 DEF OK, Sound
  <2> QED BY <1>1, <1>2, <1>3, <1>4, <2>7, InductiveFrom DEF OpensRequested, r
<1>6. CASE player.opened # access
  <2>1. OK(settings, player')
    BY <1>1, <1>2, <1>6 DEF StopOpened
  <2> QED BY <1>1, <1>2, <1>3, <1>4, <2>1, InductiveFrom DEF OpensRequested
<1> QED BY <1>5, <1>6

LEMMA JoinOpenedKeeps ==
    ASSUME Inductive, JoinOpened
    PROVE  Inductive' /\ OpensRequested
<1>1. UNCHANGED <<settings, player, access, resume, editor, closing, user>>
      /\ saving = "audio" /\ saving' = "write"
  BY DEF JoinOpened
<1>2. ~closing /\ OK(settings, player') /\ AccessOK' /\ user' \in 0..MaxUser
  BY <1>1 DEF Inductive, AccessOK
<1> QED BY <1>1, <1>2, InductiveFrom DEF OpensRequested, Carried

\* end_file_access resumes what it stopped.
LEMMA EndWriteKeeps ==
    ASSUME Inductive, EndWrite
    PROVE  Inductive'
<1>1. /\ UNCHANGED <<settings, access, editor, closing, user>> /\ saving = "write"
      /\ saving' = "no" /\ resume' = None
      /\ player' \in PlayNow(player, FALSE) \/ player' = player
  BY DEF EndWrite
<1>2. ~closing /\ settings \in Settings /\ OK(settings, player)
      /\ user' \in 0..MaxUser
  BY <1>1 DEF Inductive, AccessOK
<1>3. Sound(settings, player) /\ (player.wave # None => player.audio.state = "stopped")
  BY <1>2 DEF OK, WaitOK
<1>4. OK(settings, player') /\ AccessOK'
  BY <1>1, <1>2, <1>3, PlayNowYields DEF Inductive, AccessOK
<1> QED BY <1>1, <1>2, <1>4, InductiveFrom

LEMMA EndSaveKeeps ==
    ASSUME Inductive, EndSave
    PROVE  Inductive'
<1>1. UNCHANGED <<settings, player, access, resume, closing, user>> /\ saving = "save"
      /\ saving' = "no"
  BY DEF EndSave
<1>2. ~closing /\ OK(settings, player') /\ AccessOK' /\ user' \in 0..MaxUser
  BY <1>1 DEF Inductive, AccessOK
<1> QED BY <1>1, <1>2, InductiveFrom

\* A prompt to save, or an editor that opens.
LEMMA PromptKeeps ==
    ASSUME Inductive, OpenEditor \/ BeginSave
    PROVE  Inductive'
<1>1. Command /\ UNCHANGED <<settings, player, access, resume, closing>>
      /\ saving' \in {saving, "save"}
  BY DEF OpenEditor, BeginSave, Command
<1>2. user' \in 0..MaxUser /\ ~closing
  BY <1>1, CommandCounts
<1>3. OK(settings, player') /\ AccessOK'
  BY <1>1, <1>2 DEF Inductive, AccessOK
<1> QED BY <1>1, <1>2, <1>3, InductiveFrom

\* A close cancels a deferred change, and may then be refused.
LEMMA CloseKeeps ==
    ASSUME Inductive, Close
    PROVE  Inductive'
<1> DEFINE p == [CancelWave(player) EXCEPT !.failed = FALSE]
<1>1. Command /\ "close" \in settings.may /\ saving = "no"
      /\ UNCHANGED <<settings, saving, access, resume, editor>>
  BY DEF Close, Command
<1>2. user' \in 0..MaxUser /\ ~closing /\ settings \in Settings
      /\ OK(settings, player) /\ resume' \in Songs \cup {None}
  BY <1>1, CommandCounts DEF Inductive, AccessOK
<1> DEFINE c == CancelWave(player)
<1>3. /\ Sound(settings, c) /\ c \in Player /\ c.wave = None
      /\ c.audio = player.audio /\ c.natural = player.natural
  BY <1>2, CancelWaveYields DEF OK, Sound
<1>4. p = [c EXCEPT !.failed = FALSE]
  OBVIOUS
<1> HIDE DEF c
<1>5. /\ p \in Player
      /\ p.list = c.list /\ p.current = c.current /\ p.row = c.row
      /\ p.audio = c.audio /\ p.tails = c.tails /\ p.spurious = c.spurious
      /\ p.active = c.active /\ p.failed = FALSE
      /\ p.wave = None /\ p.natural = c.natural
  BY <1>3, <1>4 DEF Player
<1>6. \/ player' = p /\ closing' = closing
      \/ /\ closing' = TRUE
         /\ player' = [PollFading(p, TRUE) EXCEPT
                          !.audio = IF CanFade(@) THEN Fading(@) ELSE @]
  BY DEF Close
<1> HIDE DEF p
<1>7. p.current <= Len(Rows) /\ p.row <= Len(p.list)
  BY <1>3, <1>5 DEF Sound, Bounded
<1>8. Sound(settings, p)
  BY <1>3, <1>5, <1>7, SoundTransfer
<1>9. CASE player' = p /\ closing' = closing
  <2>1. p.natural => p.audio.state = "stopped" /\ ~p.active
    BY <1>2, <1>3, <1>5, <1>8 DEF OK, WaitOK, Sound, EndsOK, c, CancelWave, Player
  <2>2. WaitOK(p) /\ PromiseOK(settings, p)
    BY <1>1, <1>5, <2>1 DEF WaitOK, PromiseOK
  <2>3. OK(settings, player')
    BY <1>8, <1>9, <2>2 DEF OK
  <2> QED BY <1>1, <1>2, <1>9, <2>3, InductiveFrom, AccessKept
<1>10. CASE closing' = TRUE /\ player' = [PollFading(p, TRUE) EXCEPT
                               !.audio = IF CanFade(@) THEN Fading(@) ELSE @]
  <2> DEFINE q == PollFading(p, TRUE)
             e == IF CanFade(q.audio) THEN Fading(q.audio) ELSE q.audio
             r == player'
  <2>1. Sound(settings, q)
    BY <1>8, PollFadingSound
  <2>2. q \in Player /\ q.audio \in Engine
    BY <2>1, PlayerFields DEF Sound
  <2>3. e \in Engine
    BY <2>2, EngineTypes
  <2>4. r = [q EXCEPT !.audio = e]
    BY <1>10, <2>2 DEF Player
  <2> HIDE DEF q, e
  <2>5. /\ r \in Player
        /\ r.list = q.list /\ r.current = q.current /\ r.row = q.row
        /\ r.tails = q.tails /\ r.spurious = q.spurious
    BY <2>2, <2>3, <2>4 DEF Player
  <2> HIDE DEF r
  <2>6. Bounded(r) /\ TailsOK(settings, r) /\ ~r.spurious
    BY <2>1, <2>5 DEF Sound, Bounded, TailsOK, EndsOK
  <2> QED BY <1>1, <1>2, <1>10, <2>5, <2>6 DEF Inductive, AccessOK, r
<1> QED BY <1>6, <1>9, <1>10

-----------------------------------------------------------------------------
(* The specification.                                                      *)

LEMMA InitInductive ==
    ASSUME Init
    PROVE  Inductive /\ FlagsTyped
<1> DEFINE p == player
<1>1. settings \in Settings /\ AccessOK /\ saving = "no" /\ closing = FALSE
      /\ user = 0 /\ editor = FALSE
  BY DEF Init, AccessOK
<1>2. Rows \in Seq(Songs) /\ Len(Rows) \in Nat /\ user \in 0..MaxUser
  BY <1>1, TrackAssumption
<1>3. Silent \in Engine
  BY DEF Silent, Engine
<1>4. /\ p \in Player
      /\ p.list = Rows /\ p.current = 0 /\ p.row = 0
      /\ p.audio = Silent /\ p.tails = <<>> /\ p.spurious = FALSE
      /\ p.active = FALSE /\ p.failed = FALSE
      /\ p.wave = None /\ p.natural = FALSE /\ p.promised = None
  BY <1>2, <1>3, NoTails DEF Init, Player
<1> HIDE DEF p
<1>5. Bounded(p)
  BY <1>2, <1>4 DEF Bounded
<1>6. TailsOK(settings, p)
  BY <1>4, NoTails, FS_EmptySet DEF TailsOK
<1>7. EndsOK(p) /\ WaitOK(p) /\ PromiseOK(settings, p)
  BY <1>4 DEF EndsOK, WaitOK, PromiseOK, Silent
<1> QED BY <1>1, <1>2, <1>4, <1>5, <1>6, <1>7
        DEF Inductive, AccessOK, FlagsTyped, OK, Sound, EndsOK, p

LEMMA CommandIsNoTimer ==
    ASSUME Inductive, Command
    PROVE  OpensRequested
BY CommandCounts DEF OpensRequested, Carried

LEMMA StepKeeps ==
    ASSUME Inductive, Next
    PROVE  Inductive' /\ OpensRequested
<1>1. CASE Engines
  BY <1>1, EnginesKeep
<1>2. CASE Tails
  BY <1>2, TailsKeep DEF Tails
<1>3. CASE Timers
  BY <1>3, UiTimerKeeps, WaveTimerKeeps, DeadlineKeeps, FailedTimerKeeps DEF Timers
<1>4. CASE User
  <2>1. CASE PlayPause
    BY <2>1, PlayPauseKeeps, CommandIsNoTimer DEF PlayPause
  <2>2. ASSUME NEW next \in BOOLEAN, Relative(next)
        PROVE  Inductive' /\ OpensRequested
    BY <2>2, RelativeKeeps, CommandIsNoTimer DEF Relative
  <2>3. CASE StopCommand
    BY <2>3, StopCommandKeeps, CommandIsNoTimer DEF StopCommand
  <2>4. ASSUME NEW i \in DOMAIN player.list, RemoveRow(i)
        PROVE  Inductive' /\ OpensRequested
    BY <2>4, RemoveRowKeeps, CommandIsNoTimer DEF RemoveRow
  <2>5. ASSUME NEW song \in Songs, BeginWrite(song)
        PROVE  Inductive' /\ OpensRequested
    BY <2>5, BeginWriteKeeps, CommandIsNoTimer DEF BeginWrite
  <2>6. CASE OpenEditor \/ BeginSave
    BY <2>6, PromptKeeps, CommandIsNoTimer DEF OpenEditor, BeginSave
  <2>7. CASE Close
    BY <2>7, CloseKeeps, CommandIsNoTimer DEF Close
  <2> QED BY <1>4, <2>1, <2>2, <2>3, <2>4, <2>5, <2>6, <2>7 DEF User
<1>5. CASE EndSave
  BY <1>5, EndSaveKeeps DEF EndSave, OpensRequested, Carried
<1>6. CASE EndWrite
  BY <1>6, EndWriteKeeps DEF EndWrite, OpensRequested, Carried
<1>7. CASE Release
  BY <1>7, StopTailKeeps, StopOpenedKeeps, JoinOpenedKeeps DEF Release
<1> QED BY <1>1, <1>2, <1>3, <1>4, <1>5, <1>6, <1>7 DEF Next

LEMMA FlagsKeep ==
    ASSUME FlagsTyped, Next
    PROVE  FlagsTyped'
<1>1. CASE Engines
  BY <1>1 DEF Engines, EngineOpens, EngineFails, EngineEnds, FadeEnds,
              FadeCancels, WorkerReturns, EngineStep, FlagsTyped
<1>2. CASE Tails
  BY <1>2 DEF Tails, TailEnds, FlagsTyped
<1>3. CASE Timers
  BY <1>3 DEF Timers, UiTimer, WaveTimer, Deadline, FailedTimer, Handle, FlagsTyped
<1>4. CASE User
  BY <1>4 DEF User, PlayPause, Relative, StopCommand, RemoveRow, BeginWrite,
              OpenEditor, BeginSave, Close, FlagsTyped
<1>5. CASE EndSave \/ EndWrite \/ Release
  BY <1>5 DEF EndSave, EndWrite, Release, StopTail, StopOpened, JoinOpened, FlagsTyped
<1> QED BY <1>1, <1>2, <1>3, <1>4, <1>5 DEF Next

LEMMA StutterKeeps ==
    ASSUME Inductive, FlagsTyped, UNCHANGED vars
    PROVE  Inductive' /\ FlagsTyped' /\ OpensRequested
BY DEF Inductive, AccessOK, FlagsTyped, vars, OpensRequested, Carried

\* The strengthening every theorem below rests on: what the window counts as
\* playing has an end that is owed an advance, a deferred change is the one that
\* was asked for, and the engines in the background are two at most.
THEOREM InductiveInvariant == Spec => [](Inductive /\ FlagsTyped)
<1>1. Init => Inductive /\ FlagsTyped
  BY InitInductive
<1>2. Inductive /\ FlagsTyped /\ [Next]_vars => (Inductive /\ FlagsTyped)'
  BY StepKeeps, FlagsKeep, StutterKeeps
<1> QED BY <1>1, <1>2, PTL DEF Spec

\* The window, its engines and what it defers keep their shapes under every list
\* edit, track change and close.
THEOREM TypeCorrect == Spec => []TypeOK
<1>1. Inductive /\ FlagsTyped => TypeOK
  <2> SUFFICES ASSUME Inductive, FlagsTyped PROVE TypeOK
    OBVIOUS
  <2>1. player \in Player /\ Bounded(player) /\ Len(Rows) \in Nat
    BY TrackAssumption DEF Inductive, AccessOK
  <2>2. player.current \in 0..Len(Rows) /\ player.row \in 0..Len(player.list)
    BY <2>1, PlayerFields DEF Bounded
  <2>3. {player.opened, player.wave, player.promised} \subseteq Songs \cup {None}
    BY <2>1, PlayerFields
  <2>4. {player.sourceOpen, player.active, player.netOpen, player.late,
         player.natural, player.failed, player.spurious} \subseteq BOOLEAN
    BY <2>1, PlayerFlags
  <2>5. DOMAIN player.tails \subseteq Slots
        /\ \A i \in DOMAIN player.tails : player.tails[i] \in Engine
    BY <2>1, PlayerFields, OutgoingFields
  <2> QED BY <2>1, <2>2, <2>3, <2>4, <2>5, PlayerFields
          DEF TypeOK, Inductive, AccessOK, FlagsTyped
<1> QED BY <1>1, InductiveInvariant, PTL

\* However many tracks are changed and however long their engines take, the
\* window keeps at most three workers, and one when the output is shared.
THEOREM EnginesAreBounded == Spec => []EnginesBounded
<1>1. Inductive => EnginesBounded
  <2> SUFFICES ASSUME Inductive PROVE EnginesBounded
    OBVIOUS
  <2> DEFINE S == DOMAIN player.tails
             W == {i \in S : player.tails[i].worker}
  <2>1. player \in Player /\ TailsOK(settings, player) /\ player.tails \in Outgoing
    BY PlayerFields DEF Inductive, AccessOK
  <2>2. S \in SUBSET Slots /\ W \in SUBSET Slots /\ W \subseteq S
    BY <2>1, OutgoingFields
  <2>3. Cardinality(W) <= Cardinality(S) /\ Cardinality(W) \in Nat
        /\ Cardinality(S) \in Nat
    BY <2>2, SlotsFinite, FS_Subset
  <2>4. Cardinality(W) <= 2
    BY <2>1, <2>3 DEF TailsOK
  <2>5. settings.fade # "overlap" => Cardinality(W) = 0
    <3>1. settings.fade # "overlap" => W = {}
      BY <2>1 DEF TailsOK
    <3> QED BY <3>1, FS_EmptySet
  <2>6. Workers(player) = (IF player.audio.worker THEN 1 ELSE 0) + Cardinality(W)
    BY DEF Workers
  <2> HIDE DEF W, S
  <2>7. Workers(player) <= IF settings.fade = "overlap" THEN 3 ELSE 1
    BY <2>3, <2>4, <2>5, <2>6
  <2> QED BY <2>1, <2>7 DEF EnginesBounded, TailsOK
<1> QED BY <1>1, InductiveInvariant, PTL

\* The window never takes a stop, a fade, a track change or a released file for
\* the end of a track.
THEOREM EveryAdvanceIsEarned == Spec => []AdvanceIsEarned
<1>1. Inductive => AdvanceIsEarned
  BY DEF Inductive, AccessOK, AdvanceIsEarned
<1> QED BY <1>1, InductiveInvariant, PTL

\* A change that was put off for a fade or a gap is not forgotten.
THEOREM EveryRequestIsPending == Spec => []RequestIsPending
<1>1. Inductive => RequestIsPending
  BY DEF Inductive, AccessOK, RequestIsPending, DeferredIsPending, OK, PromiseOK
<1> QED BY <1>1, InductiveInvariant, PTL

\* Whatever rows are removed while an output fades, the window opens the song
\* that was asked for or none.
THEOREM EveryWaveOpensRequested == Spec => WaveOpensRequested
<1>1. Inductive /\ [Next]_vars =>
        [Carried /\ player.wave # None => player'.audio.song = player.promised]_vars
  BY StepKeeps DEF OpensRequested
<1> QED BY <1>1, InductiveInvariant, PTL DEF Spec, WaveOpensRequested
=============================================================================
