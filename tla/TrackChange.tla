----------------------------- MODULE TrackChange -----------------------------
(***************************************************************************)
(* How the player window changes tracks (src/src/ui/player_window.cpp):    *)
(* the engine it plays, the engines that still fade out, the changes it    *)
(* defers (until a shared output has faded, until the gap between tracks   *)
(* is over, until an error notice was shown), and the commands, list edits *)
(* and file accesses that come in between.  Play modes 0 to 3; the random  *)
(* mode is RandomPlaybackOrder.  An engine is reduced to what the window   *)
(* observes of AudioEngine: its state, whether its stop fade is pending,   *)
(* whether its worker can still be joined, and whether its fade worker is  *)
(* between the end of a ramp and the cancellation that follows it.         *)
(***************************************************************************)
EXTENDS Naturals, Sequences, SequencesExt, FiniteSets

CONSTANTS
    Songs,     \* the files of the list
    Rows,      \* the list at the start, a sequence of songs
    Settings,  \* the settings a behaviour may run under, see SettingsOK
    MaxUser    \* bound on commands and edits

\* mode: play_mode; fade: the outgoing track is cut off, its output is shared and
\* fades first (WaveOut, WASAPI), or it overlaps the next one (DirectSound); gap:
\* a track interval is set; skip: go on after a failure; network: tracks open
\* without the window waiting; may: what may happen besides commands.
SettingsOK(s) ==
    /\ s.mode \in 0..3
    /\ s.fade \in {"none", "serial", "overlap"}
    /\ {s.gap, s.skip, s.network} \subseteq BOOLEAN
    /\ s.may \subseteq {"remove", "write", "save", "close"}

ASSUME TrackAssumption ==
    /\ Rows \in Seq(Songs)
    /\ \A s \in Settings : SettingsOK(s)
    /\ MaxUser \in Nat

None == "none"
ASSUME NoneAssumption == None \notin Songs

VARIABLES
    settings, \* settings_, which do not change
    player,   \* the fields of the window and its engines, see Player
    saving,   \* "no", a "save" prompt is open, or a file is accessed: the window
              \* joins the "tails", then the "audio" engine, then comes the "write"
    access,   \* the file of the last access
    resume,   \* what begin_file_access stopped: a song, or None
    editor,   \* a lyric editor is open
    closing,  \* close_after_skin_window_fade_
    user      \* number of commands so far

vars == <<settings, player, saving, access, resume, editor, closing, user>>

\* cancels: the fade worker has released the lock and is going to cancel whatever
\* the engine plays by then.  ended (history): the track ended or failed by itself,
\* or such a cancellation cut it off, and nobody acted on it.  An engine of
\* fading_audio_ keeps its identity while others come and go.
Engine == [song : Songs \cup {None}, state : {"stopped", "opening", "playing",
           "paused", "failed"}, fading : BOOLEAN, worker : BOOLEAN,
           cancels : BOOLEAN, ended : BOOLEAN]
Slots == 1..3
Outgoing == UNION {[S -> Engine] : S \in SUBSET Slots}
Silent == [song |-> None, state |-> "stopped", fading |-> FALSE,
           worker |-> FALSE, cancels |-> FALSE, ended |-> FALSE]

\* current, row: current_ and the list's playing row, 0 for none; opened:
\* opened_track_; sourceOpen, active, netOpen: playback_source_open_,
\* playback_was_active_, network_open_pending_; wave, late:
\* pending_wave_track_change_ and its deadline; natural, failed:
\* pending_natural_play_, pending_failed_advance_; audio, tails: audio_ and
\* fading_audio_.  History: promised, the song of the change that is deferred;
\* spurious, an advance happened without an end.
Player ==
    [list : Seq(Songs), current : Nat, row : Nat, opened : Songs \cup {None},
     sourceOpen : BOOLEAN, active : BOOLEAN, netOpen : BOOLEAN,
     wave : Songs \cup {None}, late : BOOLEAN, natural : BOOLEAN,
     failed : BOOLEAN, audio : Engine, tails : Outgoing,
     promised : Songs \cup {None}, spurious : BOOLEAN]

Init ==
    /\ settings \in Settings
    /\ player = [list |-> Rows, current |-> 0, row |-> 0, opened |-> None,
                 sourceOpen |-> FALSE, active |-> FALSE, netOpen |-> FALSE,
                 wave |-> None, late |-> FALSE, natural |-> FALSE,
                 failed |-> FALSE, audio |-> Silent, tails |-> <<>>,
                 promised |-> None, spurious |-> FALSE]
    /\ saving = "no"
    /\ access = None
    /\ resume = None
    /\ editor = FALSE
    /\ closing = FALSE
    /\ user = 0

-----------------------------------------------------------------------------
(* The engine, as the window sees it.                                      *)

\* ShouldBeginRecoveredStopFade
CanFade(e) == settings.fade # "none" /\ e.state = "playing"
Fading(e) == [e EXCEPT !.state = "stopped", !.fading = TRUE]
Canceled(e) == [e EXCEPT !.state = "stopped", !.fading = FALSE,
                         !.ended = FALSE]

\* TryReapStopped
Reaped(e) == ~e.fading /\ e.state \in {"stopped", "failed"} /\ ~e.worker

\* Stop waits for the worker for a bounded time only.
StopEngine(e) == {[Canceled(e) EXCEPT !.worker = w] : w \in {e.worker, FALSE}}

Refused(e, song) == [e EXCEPT !.song = song, !.state = "failed", !.ended = TRUE]

\* A started track plays, fails, does not open in time, or is over at once.  A
\* cancellation that is due may come before the track, cut it off while Play
\* waits for it to open, or stay due.
Started(song, due) ==
    LET New(s, w, c) == [song |-> song, state |-> s, fading |-> FALSE,
                         worker |-> w, cancels |-> c,
                         ended |-> s \in {"failed", "stopped"}]
        Opened(c) == IF settings.network THEN {New("opening", TRUE, c)}
                     ELSE {New("playing", TRUE, c), New("failed", FALSE, c),
                           New("failed", TRUE, c), New("stopped", FALSE, c)}
    IN  Opened(FALSE) \cup IF ~due THEN {} ELSE
        Opened(TRUE) \cup IF settings.network THEN {} ELSE {New("stopped", TRUE, FALSE)}

\* Play rejects a song while the worker of the last one is still unwinding.
PlayEngine(e, song) ==
    UNION {IF f.worker THEN {Refused(f, song)} ELSE Started(song, f.cancels) :
           f \in StopEngine(e)}

\* The fade worker's ramp is over: it releases the lock and then calls RequestStop,
\* which is one step here: only its first stores concern the window, except that
\* StopFadePending is answered until the last one.
RampOver(e) == [e EXCEPT !.cancels = TRUE]
FadeCanceled(e) ==
    [e EXCEPT !.state = "stopped", !.fading = FALSE, !.cancels = FALSE,
              !.ended = @ \/ e.state \in {"opening", "playing", "paused"}]

-----------------------------------------------------------------------------
(* Changing tracks.  An operator takes the player before a call and yields  *)
(* the player after it, or the set of those the engines allow.              *)

\* PollFadingAudio: a canceled tail stays until its worker has returned.
PollFading(p, cancel) ==
    LET Polled(i) == IF cancel THEN Canceled(p.tails[i]) ELSE p.tails[i]
        left == {i \in DOMAIN p.tails : ~Reaped(Polled(i))}
    IN  [p EXCEPT !.tails = [i \in left |-> Polled(i)]]

CancelWave(p) == [p EXCEPT !.wave = None, !.late = FALSE]

HasTrack(p) == p.current \in DOMAIN p.list
Requested(p) == IF HasTrack(p) THEN p.list[p.current] ELSE p.opened

\* PrepareTrackChange, for a song that is not the one opened.  The outgoing
\* engine fades and the change waits for it, or it is retired to the tails and
\* a successor takes its place, unless two of them are still fading.
WaitsForFade(p) == settings.fade = "serial" /\ CanFade(p.audio)

\* Mutant: a third engine may fade in the background.
MutantOverlapsThree(p) ==
    /\ settings.fade # "serial" /\ CanFade(p.audio)
    /\ Cardinality(DOMAIN p.tails) <= 2

Overlaps(p) ==
    /\ settings.fade # "serial" /\ CanFade(p.audio)
    /\ Cardinality(DOMAIN p.tails) < 2

\* Mutant: the faded engine still counts as the one that was playing.
MutantFadeStaysActive(p) ==
    IF p.wave # None THEN p ELSE [p EXCEPT !.audio = Fading(@), !.late = FALSE]

StartFade(p) ==
    IF p.wave # None THEN p
    ELSE [p EXCEPT !.audio = Fading(@), !.active = FALSE, !.late = FALSE]

\* Mutant: the first request of several is the one that is kept.
MutantFirstRequest(p, song) ==
    [StartFade(p) EXCEPT !.wave = IF @ = None THEN song ELSE @,
                         !.promised = song]

WaitFor(p, song) == [StartFade(p) EXCEPT !.wave = song, !.promised = song]

Retire(p) ==
    IF Overlaps(p)
    THEN LET new == CHOOSE i \in Slots : i \notin DOMAIN p.tails
         IN  [p EXCEPT !.tails = [i \in DOMAIN @ \cup {new} |->
                                     IF i = new THEN Fading(p.audio) ELSE @[i]],
                       !.audio = Silent]
    ELSE p

\* The rest of PlayCurrent, with ShowAudioError on failure, and
\* CompletePlaybackOpen when the window waited for the decoder.
Open(p, song) ==
    {LET q == [p EXCEPT !.audio = e, !.promised = None]
     IN  CASE e.state \in {"failed", "stopped"} ->
                [q EXCEPT !.sourceOpen = FALSE, !.opened = None,
                          !.active = FALSE, !.failed = settings.skip]
           [] e.state = "opening" ->
                [q EXCEPT !.opened = song, !.sourceOpen = FALSE,
                          !.active = TRUE, !.netOpen = TRUE]
           [] e.state = "playing" ->
                [q EXCEPT !.opened = song, !.sourceOpen = TRUE,
                          !.active = TRUE]
     : e \in PlayEngine(p.audio, song)}

\* PlayCurrent after its guard; deferred: natural_completion_dispatch_.
PlayNow(p, deferred) ==
    LET q == [p EXCEPT !.netOpen = FALSE, !.natural = FALSE, !.failed = FALSE,
                       !.current = IF @ = 0 /\ p.opened = None /\ p.list # <<>>
                                   THEN 1 ELSE @]
        song == Requested(q)
        same == q.opened = song /\ (HasTrack(q) => q.row = q.current)
        r == [q EXCEPT !.row = IF HasTrack(q) THEN q.current ELSE @]
        s == PollFading(r, TRUE)
    IN  IF song = None THEN {[CancelWave(q) EXCEPT !.promised = None]}
        ELSE IF deferred THEN {[r EXCEPT !.natural = TRUE, !.promised = song]}
        ELSE IF s.wave # None \/ (~same /\ WaitsForFade(s))
             THEN {WaitFor(s, song)}
        ELSE Open(IF same THEN s ELSE Retire(s), song)

PlayCurrent(p, deferred) ==
    IF saving # "no" THEN {p} ELSE PlayNow(p, deferred)

\* SelectTrackFrom with start_playback.
SelectFrom(p, i, deferred) ==
    IF saving # "no" THEN {p}
    ELSE PlayCurrent([p EXCEPT !.failed = FALSE, !.current = i], deferred)

\* PlayerWindow::Stop, with StopWithFade.
StopPlayer(p) ==
    LET q == PollFading([CancelWave(p) EXCEPT
                            !.netOpen = FALSE, !.active = FALSE,
                            !.sourceOpen = FALSE, !.natural = FALSE,
                            !.failed = FALSE, !.promised = None], TRUE)
    IN  IF saving # "no" THEN {p}
        ELSE {[q EXCEPT !.audio = e] :
              e \in IF CanFade(q.audio) THEN {Fading(q.audio)}
                    ELSE StopEngine(q.audio)}

\* AdvanceAfterNaturalEnd
Advance(p, deferred) ==
    LET q == [p EXCEPT !.spurious = @ \/ ~p.audio.ended,
                       !.audio.ended = FALSE]
        count == Len(p.list)
        next == p.row + 1
    IN  IF editor THEN {[p EXCEPT !.natural = FALSE]}
        ELSE IF count = 0
             THEN IF settings.mode \in {1, 2} THEN PlayCurrent(q, deferred)
                  ELSE StopPlayer(q)
        ELSE CASE settings.mode = 0 -> StopPlayer(q)
               [] settings.mode = 1 -> PlayCurrent(q, deferred)
               [] settings.mode = 2 ->
                    IF next <= count THEN SelectFrom(q, next, deferred) ELSE {q}
               [] settings.mode = 3 ->
                    SelectFrom(q, IF next <= count THEN next ELSE 1, deferred)

\* Mutant: no deadline.
MutantReapedOnly(p) == Reaped(p.audio)

\* PollWaveTrackChange
FadeIsOver(p) == Reaped(p.audio) \/ p.late

\* Mutant: any song in the row will do.
MutantAnySong(p) == Requested(p) # None

StillRequested(p) == Requested(p) = p.wave

PollWave(p) ==
    LET q == CancelWave(p)
    IN  IF saving # "no" \/ closing \/ ~FadeIsOver(p) THEN {p}
        ELSE IF StillRequested(p) THEN PlayCurrent(q, FALSE)
        ELSE {[q EXCEPT !.promised = None]}

\* PollNetworkPlayback
PollNetwork(p) ==
    IF p.opened = None \/ ~p.netOpen \/ p.audio.state = "opening" THEN p
    ELSE IF p.audio.state \in {"playing", "paused"}
         THEN [p EXCEPT !.netOpen = FALSE, !.sourceOpen = TRUE, !.active = TRUE]
    ELSE [p EXCEPT !.netOpen = FALSE]

\* The end of the timer handler: the engine ended, failed, or goes on.
Observe(p) ==
    IF p.active /\ p.audio.state = "stopped"
    THEN Advance([p EXCEPT !.active = FALSE, !.sourceOpen = FALSE], settings.gap)
    ELSE IF p.audio.state = "failed"
         THEN {[p EXCEPT !.failed = IF p.active THEN settings.skip ELSE @,
                         !.active = FALSE, !.sourceOpen = FALSE,
                         !.opened = None]}
    ELSE {[p EXCEPT !.active = p.audio.state # "stopped"]}

\* WM_TIMER / kUiTimer, and every message that a playback state changed, after
\* PollFadingAudio.
OnTimer(p, due) ==
    IF saving # "no" \/ closing THEN {p}
    ELSE IF p.wave # None THEN PollWave(p)
    ELSE IF p.natural /\ due
         THEN IF editor
              THEN {[p EXCEPT !.natural = FALSE, !.promised = None]}
              ELSE PlayCurrent([p EXCEPT !.natural = FALSE], FALSE)
    ELSE Observe(PollNetwork(p))

-----------------------------------------------------------------------------
(* Actions of the engines.                                                 *)

EngineStep(e) ==
    /\ player' = [player EXCEPT !.audio = e]
    /\ UNCHANGED <<settings, saving, access, resume, editor, closing, user>>

EngineOpens ==
    /\ player.audio.state = "opening"
    /\ EngineStep([player.audio EXCEPT !.state = "playing"])

EngineFails ==
    /\ player.audio.state \in {"opening", "playing", "paused"}
    /\ EngineStep([player.audio EXCEPT !.state = "failed", !.worker = FALSE,
                                       !.ended = TRUE])

EngineEnds ==
    /\ player.audio.state = "playing"
    /\ EngineStep([player.audio EXCEPT !.state = "stopped", !.worker = FALSE,
                                       !.ended = TRUE])

\* The ramp of a stop fade reaches its end, and the lock is released.
FadeEnds ==
    /\ player.audio.fading
    /\ ~player.audio.cancels
    /\ EngineStep(RampOver(player.audio))

\* A Stop or a Play that came since then finds its own track canceled.
FadeCancels ==
    /\ player.audio.cancels
    /\ EngineStep(FadeCanceled(player.audio))

WorkerReturns ==
    /\ player.audio.worker
    /\ player.audio.state \in {"stopped", "failed"}
    /\ ~player.audio.fading
    /\ EngineStep([player.audio EXCEPT !.worker = FALSE])

\* A tail ends its ramp, its fade worker cancels it, or its worker returns.
TailEnds(i) ==
    /\ player' = [player EXCEPT !.tails[i] =
                     CASE @.cancels -> FadeCanceled(@)
                       [] @.fading /\ ~@.cancels -> RampOver(@)
                       [] OTHER -> [@ EXCEPT !.worker = FALSE]]
    /\ UNCHANGED <<settings, saving, access, resume, editor, closing, user>>

-----------------------------------------------------------------------------
(* Actions of the window's timers.                                         *)

\* A window thread that joins a worker handles no timer and no command.
Joining == saving \in {"tails", "audio"}

Handle(players) ==
    /\ ~Joining
    /\ player' \in players
    /\ UNCHANGED <<settings, saving, access, resume, editor, closing, user>>

UiTimer ==
    \E due \in BOOLEAN, polled \in {PollFading(player, FALSE)} :
        Handle(OnTimer(polled, due))

WaveTimer == player.wave # None /\ Handle(PollWave(player))

Deadline ==
    /\ player.wave # None
    /\ Handle({[player EXCEPT !.late = TRUE]})

\* kFailedAdvanceTimer
FailedTimer ==
    /\ player.failed
    /\ ~closing
    /\ Handle(Advance([player EXCEPT !.failed = FALSE], FALSE))

-----------------------------------------------------------------------------
(* Actions of the user.                                                    *)

Command ==
    /\ ~closing
    /\ ~Joining
    /\ user < MaxUser
    /\ user' = user + 1
    /\ UNCHANGED settings

\* kPlayPause
PlayPause ==
    /\ Command
    /\ saving # "write"
    /\ player' \in
           CASE player.audio.state = "playing" ->
                    {[player EXCEPT !.audio.state = "paused"]}
             [] player.audio.state = "paused" ->
                    {[player EXCEPT !.audio.state = "playing"]}
             [] OTHER -> PlayCurrent(player, FALSE)
    /\ UNCHANGED <<saving, access, resume, editor, closing>>

\* SelectRelative
Relative(next) ==
    /\ Command
    /\ saving # "write"
    /\ LET count == Len(player.list)
           row == player.row
           i == IF next THEN IF row + 1 <= count THEN row + 1 ELSE 1
                ELSE IF row > 1 THEN row - 1 ELSE count
       IN  player' \in IF count = 0 THEN {player}
                       ELSE SelectFrom(player, i, FALSE)
    /\ UNCHANGED <<saving, access, resume, editor, closing>>

StopCommand ==
    /\ Command
    /\ saving # "write"
    /\ player' \in StopPlayer(player)
    /\ UNCHANGED <<saving, access, resume, editor, closing>>

\* DeleteSelectedPlaylistRows with one row, which may be the playing one.
WithoutRow(p, i) ==
    LET Shift(k) == IF k = i THEN 0 ELSE IF k > i THEN k - 1 ELSE k
    IN  [p EXCEPT !.list = RemoveAt(@, i), !.row = Shift(@),
                  !.current = Shift(@)]

RemoveRow(i) ==
    /\ Command
    /\ "remove" \in settings.may
    /\ player' = WithoutRow(player, i)
    /\ UNCHANGED <<saving, access, resume, editor, closing>>

\* The lyric editor opens, or closes after a prompt that pumps messages.
OpenEditor ==
    /\ Command
    /\ "save" \in settings.may
    /\ ~editor
    /\ editor' = TRUE
    /\ UNCHANGED <<player, saving, access, resume, closing>>

BeginSave ==
    /\ Command
    /\ "save" \in settings.may
    /\ saving = "no"
    /\ saving' = "save"
    /\ UNCHANGED <<player, access, resume, editor, closing>>

EndSave ==
    /\ saving = "save"
    /\ saving' = "no"
    /\ editor' = FALSE
    /\ UNCHANGED <<settings, player, access, resume, closing, user>>

\* begin_file_access: every engine that may hold the file is stopped, and its
\* worker joined without a budget.  First the engines that fade.
BeginWrite(song) ==
    /\ Command
    /\ "write" \in settings.may
    /\ saving = "no"
    /\ saving' = "tails"
    /\ access' = song
    /\ UNCHANGED <<player, resume, editor, closing>>

\* StopAndWait of an outgoing engine (the order they fade in is not kept): it is
\* canceled, and given up once its worker has returned.
StopTail(i) ==
    /\ saving = "tails"
    /\ LET tails == player.tails
       IN  player' = [player EXCEPT !.tails =
                         IF tails[i].worker
                         THEN [tails EXCEPT ![i] = Canceled(tails[i])]
                         ELSE [j \in DOMAIN tails \ {i} |-> tails[j]]]
    /\ UNCHANGED <<settings, saving, access, resume, editor, closing, user>>

\* Then the engine of the opened track, when the file is its.
StopOpened ==
    /\ saving = "tails"
    /\ player.tails = <<>>
    /\ IF player.opened = access
       THEN /\ saving' = "audio"
            /\ resume' = IF player.audio.state \in {"playing", "paused"}
                         THEN access ELSE None
            /\ player' = [CancelWave(player) EXCEPT
                             !.natural = FALSE, !.failed = FALSE,
                             !.active = FALSE, !.sourceOpen = FALSE,
                             !.audio = Canceled(@)]
       ELSE /\ saving' = "write"
            /\ resume' = None
            /\ player' = player
    /\ UNCHANGED <<settings, access, editor, closing, user>>

JoinOpened ==
    /\ saving = "audio"
    /\ ~player.audio.worker
    /\ saving' = "write"
    /\ UNCHANGED <<settings, player, access, resume, editor, closing, user>>

\* end_file_access
EndWrite ==
    /\ saving = "write"
    /\ saving' = "no"
    /\ resume' = None
    /\ IF /\ resume # None
          /\ player.opened = resume /\ Requested(player) = resume
          /\ player.audio.state = "stopped"
       THEN player' \in PlayNow(player, FALSE)
       ELSE player' = player
    /\ UNCHANGED <<settings, access, editor, closing, user>>

\* WM_CLOSE: the state may not be saved, and then the window stays.
Close ==
    /\ Command
    /\ "close" \in settings.may
    /\ saving = "no"
    /\ LET p == [CancelWave(player) EXCEPT !.failed = FALSE]
       IN  \/ player' = p /\ UNCHANGED closing
           \/ /\ closing' = TRUE
              /\ player' = [PollFading(p, TRUE) EXCEPT
                               !.audio = IF CanFade(@) THEN Fading(@) ELSE @]
    /\ UNCHANGED <<saving, access, resume, editor>>

-----------------------------------------------------------------------------
Engines ==
    \/ EngineOpens \/ EngineFails \/ EngineEnds
    \/ FadeEnds \/ FadeCancels \/ WorkerReturns

Tails == \E i \in DOMAIN player.tails : TailEnds(i)

Timers == UiTimer \/ WaveTimer \/ Deadline \/ FailedTimer

User ==
    \/ PlayPause \/ Relative(TRUE) \/ Relative(FALSE) \/ StopCommand
    \/ \E i \in DOMAIN player.list : RemoveRow(i)
    \/ \E song \in Songs : BeginWrite(song)
    \/ OpenEditor \/ BeginSave \/ Close

\* What the window does to release a file, unless a worker keeps it waiting.
Release ==
    \/ \E i \in DOMAIN player.tails : StopTail(i)
    \/ StopOpened \/ JoinOpened

Next == Engines \/ Tails \/ Timers \/ User \/ EndSave \/ Release \/ EndWrite

\* The window's timers run, its clock passes every deadline, it goes on after a
\* join, and a prompt is answered; no engine has to do anything.
Fairness ==
    /\ WF_vars(UiTimer) /\ WF_vars(WaveTimer) /\ WF_vars(Deadline)
    /\ WF_vars(Release) /\ WF_vars(EndSave) /\ WF_vars(EndWrite)

Spec == Init /\ [][Next]_vars /\ Fairness

-----------------------------------------------------------------------------
(* Properties.                                                             *)

TypeOK ==
    /\ settings \in Settings
    /\ player.list \in Seq(Songs)
    /\ player.current \in 0..Len(Rows) /\ player.row \in 0..Len(player.list)
    /\ {player.opened, player.wave, player.promised} \subseteq Songs \cup {None}
    /\ {player.sourceOpen, player.active, player.netOpen, player.late,
        player.natural, player.failed, player.spurious} \subseteq BOOLEAN
    /\ player.audio \in Engine
    /\ DOMAIN player.tails \subseteq Slots
    /\ \A i \in DOMAIN player.tails : player.tails[i] \in Engine
    /\ saving \in {"no", "save", "tails", "audio", "write"}
    /\ access \in Songs \cup {None}
    /\ resume \in Songs \cup {None}
    /\ {editor, closing} \subseteq BOOLEAN
    /\ user \in 0..MaxUser

Workers(p) ==
    (IF p.audio.worker THEN 1 ELSE 0)
    + Cardinality({i \in DOMAIN p.tails : p.tails[i].worker})

\* However fast the user changes tracks and however long outgoing engines take,
\* a shared output has one worker and overlapping outputs at most three, and the
\* engines in the background are all fading or canceled.
EnginesBounded ==
    /\ Workers(player) <= IF settings.fade = "overlap" THEN 3 ELSE 1
    /\ \A i \in DOMAIN player.tails : player.tails[i].state = "stopped"

\* The window advances by itself only when the track it plays ended or failed by
\* itself, and once for each end: never for a stop, a fade, a track change or a
\* released file.  One exception is the code's own: a fade worker that cancels
\* late, after a Stop and a Play of its engine, cuts off the new track, and the
\* window takes that for its end (FadeCancels sets ended).
AdvanceIsEarned == ~player.spurious

\* The song the window shows as opened is the one its engine has, and the row it
\* marks holds that song, whatever rows were removed and engines replaced.
OpenedIsShown ==
    player.sourceOpen /\ player.audio.state \in {"playing", "paused"} =>
        /\ player.opened = player.audio.song
        /\ HasTrack(player) => player.list[player.current] = player.opened

Pending(p) == p.wave = p.promised \/ p.natural

\* A change that was put off is pending until it is made or overruled.
DeferredIsPending == player.promised # None /\ ~closing => Pending(player)

\* The same when no file is written and no close refused in between.
RequestIsPending ==
    settings.may \cap {"write", "close"} = {} => DeferredIsPending

Carried ==
    /\ user' = user /\ saving' = saving
    /\ player.promised # None /\ player'.promised = None
    /\ player'.audio.state \in {"opening", "playing"}

\* A change made later opens the song that was asked for.
DeferredOpensRequested ==
    [][Carried => player'.audio.song = player.promised]_vars

\* A change waiting for a fade opens the song that was asked for or nothing,
\* though the list is edited meanwhile.
WaveOpensRequested ==
    [][Carried /\ player.wave # None =>
           player'.audio.song = player.promised]_vars

Waiting == player.wave # None \/ player.natural

\* The window waits for a worker it has canceled.
Blocked ==
    \/ saving = "tails" /\ \E i \in DOMAIN player.tails : player.tails[i].worker
    \/ saving = "audio" /\ player.audio.worker

\* A change never waits for ever, whatever the outgoing engine does, unless a file
\* access is waiting for its worker for ever.
PendingChangeEnds == Waiting ~> ~Waiting \/ closing \/ []Blocked
=============================================================================
