---------------------------- MODULE AudioEngine ----------------------------
(***************************************************************************)
(* One AudioEngine object of src/src/audio/audio_engine.cpp and the three  *)
(* threads that share it:                                                  *)
(*                                                                         *)
(*   - the window thread (uiPc), which runs Play, Stop, StopAndWait,       *)
(*     Pause, Resume, Seek, BeginStopFade and RestoreAfterOutputRestart    *)
(*     one at a time;                                                      *)
(*   - the playback worker (workerPc), created by Play, which opens the    *)
(*     source and the output, plays, and tears both down;                  *)
(*   - the fade worker (fadePc), which ramps the gain and, when a ramp     *)
(*     ends, pauses the device, commits the delayed seek or stops.         *)
(*                                                                         *)
(* A block of code that runs under mutex_ is one action.  What the code    *)
(* does to the atomics WITHOUT the mutex is an action of its own, so the   *)
(* cancellation RequestStop is three actions (flags, locked part, stop     *)
(* fade flag) and can be interleaved with the other two threads.           *)
(* PublishOpened is the one locked block that is split in two, because it  *)
(* decides on stop_requested_, which RequestStop stores without the lock;  *)
(* while it is between its halves nobody else can enter a locked block.    *)
(*                                                                         *)
(* Abstractions.  Time: a wait with a budget may time out at any moment    *)
(* the awaited event is missing, a ramp may end at any moment.  Samples,   *)
(* metadata, DSP, visualisation, archives and lyrics are left out.  A      *)
(* revision number (seek_revision_) is only ever compared with the one a   *)
(* request was taken with, so takenIsLatest stands for that equality.      *)
(* fade_generation_ only makes the fade worker look again at fields it     *)
(* reads under the lock anyway, and is not represented.                    *)
(***************************************************************************)
EXTENDS Integers

CONSTANTS
    Backend,    \* the output the settings select for the tracks played
    FadeModes,  \* the bits of SoundFadeMode whose duration is not zero
    Duration    \* duration of a track in abstract milliseconds, 0 = lengthless

Backends == {"wave_out", "direct_sound", "wasapi", "kernel_streaming",
             "asio", "midi"}

ASSUME BackendAssumption == Backend \in Backends
ASSUME FadeModesAssumption == FadeModes \subseteq {"play", "pause", "seek", "stop"}
ASSUME DurationAssumption == Duration \in Nat

None == -1
Positions == 0 .. Duration
PlaybackState == {"stopped", "opening", "playing", "paused", "failed"}
FadeCompletion == {"none", "pause", "seek", "seek_resume", "stop"}

\* The outputs whose volume the fade worker can ramp.
SupportsFade(b) == b \in {"wave_out", "direct_sound", "wasapi"}
\* The outputs the window thread drives itself, through a shared handle.
SharedHandle == Backend \in {"wave_out", "direct_sound"}

VARIABLES
    state,            \* state_
    stopRequested,    \* stop_requested_
    backend,          \* backend_
    openComplete,     \* open_complete_
    openingSeek,      \* opening_seek_ms_
    openingPaused,    \* opening_paused_
    position,         \* position_ms_
    pendingSeek,      \* pending_seek_position_ms_
    seekRequest,      \* seek_request_ms_
    fadePending,      \* fade_pending_
    fadeCompletion,   \* fade_completion_
    fadeSeekTarget,   \* fade_seek_target_ms_
    gain,             \* transition_gain_ a ramp started from, or left: 0 or 1
    stopFadePending,  \* stop_fade_pending_
    registered,       \* device_ / direct_sound_buffer_ / completion_event_ # null
    handleOpen,       \* the native handle behind them is open
    running,          \* the native output is consuming samples
    workerPc,         \* the playback worker, "none" when worker_ is not joinable
    taken,            \* position of the SeekRequest the worker holds
    takenIsLatest,    \* its revision still equals seek_revision_
    previousState,    \* the worker's previous_state, read when it took a request
    timeline,         \* the worker's position_base_ms
    uiPc, uiOp,       \* the window thread: program counter and command
    fadePc,           \* the fade worker
    decoders,         \* ghost: playback workers that have not returned
    cancelsOwnTrack   \* ghost: the fade worker cancels the track it faded

seekVars   == <<pendingSeek, seekRequest, takenIsLatest>>
fadeVars   == <<fadePending, fadeCompletion, fadeSeekTarget, gain>>
openVars   == <<openComplete, openingSeek, openingPaused>>
deviceVars == <<registered, handleOpen, running>>
loopVars   == <<taken, previousState, timeline>>
uiVars     == <<uiPc, uiOp>>
ghostVars  == <<decoders, cancelsOwnTrack>>
vars == <<state, stopRequested, backend, position, stopFadePending, workerPc,
          fadePc, seekVars, fadeVars, openVars, deviceVars, loopVars, uiVars,
          ghostVars>>

WorkerStates == {"none", "opening", "opened", "publishing", "loop", "seek_reset",
                 "seek_fill", "pump", "clock", "failing", "closing", "revoked",
                 "exiting", "signalling", "exited"}
WorkerGone == {"none", "exited"}
UiStates == {"idle", "cancel_lock", "cancel_flag", "signal", "reap", "join",
             "start", "start_lock", "spawn", "wait", "set_error", "restore"}
UiOps == {"play", "restart", "stop", "stop_and_wait", "stop_async", "open_timeout"}
FadeStates == {"ramp", "cancel_flags", "cancel_lock", "cancel_flag"}

FlagsOK ==
    /\ stopRequested \in BOOLEAN
    /\ openComplete \in BOOLEAN
    /\ openingPaused \in BOOLEAN
    /\ fadePending \in BOOLEAN
    /\ stopFadePending \in BOOLEAN
    /\ registered \in BOOLEAN
    /\ handleOpen \in BOOLEAN
    /\ running \in BOOLEAN
    /\ takenIsLatest \in BOOLEAN
    /\ cancelsOwnTrack \in BOOLEAN

PositionsOK ==
    /\ openingSeek \in Positions \cup {None}
    /\ position \in Nat
    /\ Duration > 0 /\ Backend # "midi" => position <= Duration
    /\ pendingSeek \in Positions \cup {None}
    /\ seekRequest \in Positions \cup {None}
    /\ fadeSeekTarget \in Positions \cup {None}
    /\ taken \in Positions \cup {None}
    /\ timeline \in Positions

TypeOK ==
    /\ FlagsOK
    /\ PositionsOK
    /\ state \in PlaybackState
    /\ previousState \in PlaybackState
    /\ backend \in {"none", Backend}
    /\ fadeCompletion \in FadeCompletion
    /\ gain \in {0, 1}
    /\ workerPc \in WorkerStates
    /\ uiPc \in UiStates
    /\ uiOp \in UiOps
    /\ fadePc \in FadeStates
    /\ decoders \in Nat

\* A constructed engine: nothing opened, the fade worker waiting.
Init ==
    /\ state = "stopped" /\ stopRequested = TRUE /\ backend = "none"
    /\ openComplete = FALSE /\ openingSeek = None /\ openingPaused = FALSE
    /\ position = 0 /\ pendingSeek = None /\ seekRequest = None
    /\ fadePending = FALSE /\ fadeCompletion = "none" /\ fadeSeekTarget = None
    /\ gain = 1 /\ stopFadePending = FALSE
    /\ registered = FALSE /\ handleOpen = FALSE /\ running = FALSE
    /\ workerPc = "none" /\ taken = None /\ takenIsLatest = FALSE
    /\ previousState = "stopped" /\ timeline = 0
    /\ uiPc = "idle" /\ uiOp = "stop" /\ fadePc = "ramp"
    /\ decoders = 0 /\ cancelsOwnTrack = TRUE

\* mutex_ is held across steps only by a worker inside PublishOpened.
LockFree == workerPc # "publishing"

-----------------------------------------------------------------------------
(* Helpers the code calls with mutex_ held.                                *)

\* st is state_ as the caller has just left it.
QueueSeekLocked(st, target) ==
    IF st \in {"playing", "paused"} /\ Duration > 0
    THEN /\ pendingSeek' = target
         /\ seekRequest' = target
         /\ takenIsLatest' = FALSE
    ELSE UNCHANGED seekVars

CancelSeekLocked ==
    /\ pendingSeek' = None
    /\ seekRequest' = None
    /\ takenIsLatest' = FALSE

QueueFadeLocked(completion, target) ==
    /\ fadePending' = TRUE
    /\ fadeCompletion' = completion
    /\ fadeSeekTarget' = target

\* CompleteSeek for the request the worker holds.
MutantCompleteAnySeek ==
    IF pendingSeek # None
    THEN position' = taken /\ pendingSeek' = None
    ELSE UNCHANGED <<position, pendingSeek>>
CompleteSeek ==
    IF takenIsLatest /\ pendingSeek # None
    THEN /\ position' = taken
         /\ pendingSeek' = None
    ELSE UNCHANGED <<position, pendingSeek>>

\* A drag release interrupts an earlier seek fade and restores its gain.
MutantCancelSeekFadeKeepsGain ==
    /\ fadePending' = FALSE
    /\ fadeCompletion' = "none"
    /\ fadeSeekTarget' = None
    /\ UNCHANGED gain
CancelSeekFade ==
    /\ fadePending' = FALSE
    /\ fadeCompletion' = "none"
    /\ fadeSeekTarget' = None
    /\ gain' = 1

SetError ==
    /\ CancelSeekLocked
    /\ state' = "failed"
    /\ openComplete' = TRUE

-----------------------------------------------------------------------------
(* RequestStop, as its three interleavable parts.                          *)

RequestStopFlags ==
    /\ stopRequested' = TRUE
    /\ state' = "stopped"

RequestStopLocked ==
    /\ LockFree
    /\ CancelSeekLocked
    /\ fadePending' = FALSE
    /\ gain' = 1
    /\ UNCHANGED <<fadeCompletion, fadeSeekTarget>>

MutantStopFadeFlagKept == UNCHANGED stopFadePending
RequestStopDone == stopFadePending' = FALSE

-----------------------------------------------------------------------------
(* The window thread.  A command is started only when the previous one has *)
(* returned (uiPc = "idle").                                               *)

\* Stop, StopAndWait, StopAsync, and the Stop that every Play begins with.
UiRequestStop(op) ==
    /\ uiPc = "idle"
    /\ RequestStopFlags
    /\ uiPc' = "cancel_lock" /\ uiOp' = op
    /\ UNCHANGED <<backend, position, stopFadePending, workerPc, fadePc, seekVars,
                   fadeVars, openVars, deviceVars, loopVars, ghostVars>>

UiCancelLocked ==
    /\ uiPc = "cancel_lock"
    /\ RequestStopLocked
    /\ uiPc' = "cancel_flag"
    /\ UNCHANGED <<state, stopRequested, backend, position, stopFadePending,
                   workerPc, fadePc, openVars, deviceVars, loopVars, uiOp, ghostVars>>

UiCancelDone ==
    /\ uiPc = "cancel_flag"
    /\ RequestStopDone
    /\ uiPc' = CASE uiOp = "stop_async"   -> "idle"
                 [] uiOp = "open_timeout" -> "set_error"
                 [] OTHER                 -> "signal"
    /\ UNCHANGED <<state, stopRequested, backend, position, workerPc, fadePc, seekVars,
                   fadeVars, openVars, deviceVars, loopVars, uiOp, ghostVars>>

UiSignalOpenComplete ==
    /\ uiPc = "signal" /\ LockFree
    /\ openComplete' = TRUE
    /\ uiPc' = "reap"
    /\ UNCHANGED <<state, stopRequested, backend, position, stopFadePending, workerPc,
                   fadePc, seekVars, fadeVars, openingSeek, openingPaused, deviceVars,
                   loopVars, uiOp, ghostVars>>

\* ReapWorker with a budget: the wait ends because the worker has returned, or
\* because the budget is spent.
MutantReapWithoutBudget(joined) == joined /\ workerPc \in WorkerGone
ReapWorker(joined) == joined = (workerPc \in WorkerGone)

\* The reap of Stop and the stores after it.
UiReap(joined) ==
    /\ uiPc = "reap"
    /\ ReapWorker(joined)
    /\ workerPc' = IF joined THEN "none" ELSE workerPc
    /\ position' = 0
    /\ backend' = "none"
    /\ uiPc' = CASE uiOp \in {"play", "restart"} -> "start"
                 [] uiOp = "stop_and_wait" /\ ~joined -> "join"
                 [] OTHER -> "idle"
    /\ UNCHANGED <<state, stopRequested, stopFadePending, fadePc, seekVars, fadeVars,
                   openVars, deviceVars, loopVars, uiOp, ghostVars>>

\* StopAndWait: a worker the budget was too short for is joined without one.
UiJoin ==
    /\ uiPc = "join"
    /\ workerPc \in WorkerGone
    /\ workerPc' = "none"
    /\ uiPc' = "idle"
    /\ UNCHANGED <<state, stopRequested, backend, position, stopFadePending, fadePc,
                   seekVars, fadeVars, openVars, deviceVars, loopVars, uiOp, ghostVars>>

\* Play: a decoder that ignored the cancellation is never replaced.
MutantReplaceAnyWorker == TRUE
WorkerReplaceable == workerPc \in WorkerGone

UiRefusePlay ==
    /\ uiPc = "start" /\ LockFree
    /\ ~WorkerReplaceable
    /\ SetError
    /\ uiPc' = "idle"
    /\ UNCHANGED <<stopRequested, backend, position, stopFadePending, workerPc, fadePc,
                   fadeVars, openingSeek, openingPaused, deviceVars, loopVars, uiOp,
                   ghostVars>>

\* Play: the unlocked stores made once the old worker is joined.
UiPrepareOpen ==
    /\ uiPc = "start"
    /\ WorkerReplaceable
    /\ workerPc' = "none"
    /\ position' = 0
    /\ seekRequest' = None
    /\ stopRequested' = FALSE
    /\ state' = "opening"
    /\ backend' = "none"
    /\ uiPc' = "start_lock"
    /\ UNCHANGED <<stopFadePending, fadePc, pendingSeek, takenIsLatest, fadeVars,
                   openVars, deviceVars, loopVars, uiOp, ghostVars>>

UiResetOpen ==
    /\ uiPc = "start_lock" /\ LockFree
    /\ openComplete' = FALSE
    /\ openingSeek' = None
    /\ openingPaused' = FALSE
    /\ fadePending' = FALSE
    /\ gain' = IF "play" \in FadeModes THEN 0 ELSE 1
    /\ uiPc' = "spawn"
    /\ UNCHANGED <<state, stopRequested, backend, position, stopFadePending, workerPc,
                   fadePc, seekVars, fadeCompletion, fadeSeekTarget, deviceVars,
                   loopVars, uiOp, ghostVars>>

\* The thread starts; Play waits for the open unless the location is a network
\* stream or an archive member (async).
UiSpawn(async) ==
    /\ uiPc = "spawn"
    /\ workerPc' = "opening"
    /\ decoders' = decoders + 1
    /\ cancelsOwnTrack' = (fadePc = "ramp")
    /\ taken' = None /\ previousState' = "stopped" /\ timeline' = 0
    /\ uiPc' = IF ~async THEN "wait" ELSE IF uiOp = "restart" THEN "restore" ELSE "idle"
    /\ UNCHANGED <<state, stopRequested, backend, position, stopFadePending, fadePc,
                   seekVars, fadeVars, openVars, deviceVars, uiOp>>

UiSpawnFails ==
    /\ uiPc = "spawn" /\ LockFree
    /\ SetError
    /\ uiPc' = "idle"
    /\ UNCHANGED <<stopRequested, backend, position, stopFadePending, workerPc, fadePc,
                   fadeVars, openingSeek, openingPaused, deviceVars, loopVars, uiOp,
                   ghostVars>>

UiOpened ==
    /\ uiPc = "wait" /\ LockFree
    /\ openComplete
    /\ uiPc' = IF uiOp = "restart" /\ state \in {"playing", "paused"}
               THEN "restore" ELSE "idle"
    /\ UNCHANGED <<state, stopRequested, backend, position, stopFadePending, workerPc,
                   fadePc, seekVars, fadeVars, openVars, deviceVars, loopVars, uiOp,
                   ghostVars>>

\* kOpenWaitBudget is spent: RequestStop, then SetError, then a zero-wait reap.
UiOpenTimeout ==
    /\ uiPc = "wait" /\ LockFree
    /\ ~openComplete
    /\ RequestStopFlags
    /\ uiPc' = "cancel_lock" /\ uiOp' = "open_timeout"
    /\ UNCHANGED <<backend, position, stopFadePending, workerPc, fadePc, seekVars,
                   fadeVars, openVars, deviceVars, loopVars, ghostVars>>

UiOpenTimeoutError ==
    /\ uiPc = "set_error" /\ LockFree
    /\ SetError
    /\ workerPc' = IF workerPc \in WorkerGone THEN "none" ELSE workerPc
    /\ uiPc' = "idle"
    /\ UNCHANGED <<stopRequested, backend, position, stopFadePending, fadePc, fadeVars,
                   openingSeek, openingPaused, deviceVars, loopVars, uiOp, ghostVars>>

\* RestoreAfterOutputRestart, called by the code that has just restarted the track.
UiRestore(target, paused) ==
    /\ uiPc = "restore" /\ LockFree
    /\ uiPc' = "idle"
    /\ IF state = "opening"
       THEN /\ openingSeek' = target
            /\ openingPaused' = paused
            /\ UNCHANGED <<state, seekVars, running>>
       ELSE /\ UNCHANGED <<openingSeek, openingPaused>>
            /\ IF state \in {"playing", "paused"}
               THEN /\ QueueSeekLocked(state, target)
                    /\ state' = IF paused THEN "paused" ELSE "playing"
                    /\ running' = IF paused /\ SharedHandle /\ registered
                                  THEN FALSE ELSE running
               ELSE UNCHANGED <<state, seekVars, running>>
    /\ UNCHANGED <<stopRequested, backend, position, stopFadePending, workerPc, fadePc,
                   fadeVars, openComplete, registered, handleOpen, loopVars, uiOp,
                   ghostVars>>

\* TryReapStopped, polled for outgoing and finished tracks.
UiTryReapStopped ==
    /\ uiPc = "idle"
    /\ ~stopFadePending
    /\ state \in {"stopped", "failed"}
    /\ workerPc = "exited"
    /\ workerPc' = "none"
    /\ UNCHANGED <<state, stopRequested, backend, position, stopFadePending, fadePc,
                   seekVars, fadeVars, openVars, deviceVars, loopVars, uiVars, ghostVars>>

\* The native pause or restart is accepted: a shared handle has to be there,
\* the other outputs are switched by the worker that owns them.
OutputControllable == backend # "none" /\ (SharedHandle => registered)

UiPause ==
    /\ uiPc = "idle" /\ LockFree
    /\ state = "playing"
    /\ \/ /\ "pause" \in FadeModes /\ SupportsFade(backend)
          /\ state' = "paused"
          /\ QueueFadeLocked("pause", None)
          /\ UNCHANGED running
       \/ /\ ~("pause" \in FadeModes /\ SupportsFade(backend))
          /\ OutputControllable
          /\ state' = "paused"
          /\ running' = (running /\ ~SharedHandle)
          /\ UNCHANGED <<fadePending, fadeCompletion, fadeSeekTarget>>
    /\ UNCHANGED <<stopRequested, backend, position, stopFadePending, workerPc, fadePc,
                   seekVars, gain, openVars, registered, handleOpen, loopVars, uiVars,
                   ghostVars>>

UiResume ==
    /\ uiPc = "idle" /\ LockFree
    /\ state = "paused"
    /\ OutputControllable
    /\ state' = "playing"
    /\ running' = (running \/ SharedHandle)
    /\ IF "play" \in FadeModes /\ SupportsFade(backend)
       THEN gain' = 0 /\ QueueFadeLocked("none", None)
       ELSE gain' = 1 /\ UNCHANGED <<fadePending, fadeCompletion, fadeSeekTarget>>
    /\ UNCHANGED <<stopRequested, backend, position, stopFadePending, workerPc, fadePc,
                   seekVars, openVars, registered, handleOpen, loopVars, uiVars,
                   ghostVars>>

\* SeekImpl while the track is still opening.
UiSeekOpening(target) ==
    /\ uiPc = "idle" /\ LockFree
    /\ state = "opening"
    /\ openingSeek' = target
    /\ UNCHANGED <<state, stopRequested, backend, position, stopFadePending, workerPc,
                   fadePc, seekVars, fadeVars, openComplete, openingPaused, deviceVars,
                   loopVars, uiVars, ghostVars>>

\* SeekImpl on an open track.  Between its two locked blocks the state can only
\* leave {playing, paused}, which the second block checks again.
UiSeek(target, allowFade) ==
    /\ uiPc = "idle" /\ LockFree
    /\ state \in {"playing", "paused"}
    /\ IF allowFade /\ state = "playing" /\ "seek" \in FadeModes /\ SupportsFade(backend)
       THEN /\ QueueFadeLocked("seek", target)
            /\ UNCHANGED <<seekVars, gain>>
       ELSE /\ IF ~allowFade /\ fadePending /\ fadeCompletion \in {"seek", "seek_resume"}
               THEN CancelSeekFade
               ELSE UNCHANGED fadeVars
            /\ QueueSeekLocked(state, target)
    /\ UNCHANGED <<state, stopRequested, backend, position, stopFadePending, workerPc,
                   fadePc, openVars, deviceVars, loopVars, uiVars, ghostVars>>

UiBeginStopFade ==
    /\ uiPc = "idle" /\ LockFree
    /\ state = "playing" /\ "stop" \in FadeModes /\ SupportsFade(backend)
    /\ state' = "stopped"
    /\ stopFadePending' = TRUE
    /\ QueueFadeLocked("stop", None)
    /\ UNCHANGED <<stopRequested, backend, position, workerPc, fadePc, seekVars, gain,
                   openVars, deviceVars, loopVars, uiVars, ghostVars>>

-----------------------------------------------------------------------------
(* The playback worker: WaveOutWorker with the output it selected, or      *)
(* MidiWorker, inside PlaybackWorker.                                      *)

workerFrame == <<stopRequested, stopFadePending, fadePc, uiVars, cancelsOwnTrack>>

\* Source, processors and output are open and their handle is shared.
WorkerRegister ==
    /\ workerPc = "opening"
    /\ handleOpen' = TRUE
    /\ registered' = TRUE
    /\ running' = (Backend # "wasapi")
    /\ backend' = IF Backend = "midi" THEN backend ELSE Backend
    /\ workerPc' = "opened"
    /\ UNCHANGED <<workerFrame, state, position, seekVars, fadeVars, openVars,
                   loopVars, decoders>>

\* PublishOpened, first half: it has the lock and reads stop_requested_.
WorkerBeginPublish ==
    /\ workerPc = "opened"
    /\ IF stopRequested
       THEN openComplete' = TRUE /\ workerPc' = "closing"
       ELSE workerPc' = "publishing" /\ UNCHANGED openComplete
    /\ UNCHANGED <<workerFrame, state, backend, position, seekVars, fadeVars,
                   openingSeek, openingPaused, deviceVars, loopVars, decoders>>

\* PublishOpened, second half: everything it stores before it unlocks.
WorkerPublishOpened ==
    /\ workerPc = "publishing"
    /\ backend' = Backend
    /\ state' = IF openingPaused THEN "paused" ELSE "playing"
    /\ running' = (running /\ ~(openingPaused /\ SharedHandle))
    /\ IF openingSeek # None
       THEN QueueSeekLocked("playing", openingSeek)
       ELSE UNCHANGED seekVars
    /\ openingSeek' = None
    /\ openingPaused' = FALSE
    /\ IF "play" \in FadeModes /\ Backend # "midi"
       THEN QueueFadeLocked("none", None) /\ UNCHANGED gain
       ELSE gain' = 1 /\ UNCHANGED <<fadePending, fadeCompletion, fadeSeekTarget>>
    /\ openComplete' = TRUE
    /\ workerPc' = "loop"
    /\ UNCHANGED <<workerFrame, position, registered, handleOpen, loopVars, decoders>>

\* The head of the playback loop up to TakeSeekRequest.  The MIDI loop leaves
\* it for any state but playing and paused, and applies the one it finds.
WorkerTakeSeek ==
    /\ workerPc = "loop"
    /\ LET ends == \/ stopRequested
                   \/ Backend = "midi" /\ state \notin {"playing", "paused"}
       IN  IF ends
           THEN /\ workerPc' = "closing"
                /\ UNCHANGED <<seekRequest, takenIsLatest, taken, previousState, running>>
           ELSE /\ taken' = seekRequest
                /\ seekRequest' = None
                /\ takenIsLatest' = (seekRequest # None)
                /\ previousState' = IF seekRequest # None THEN state ELSE previousState
                /\ running' = IF Backend = "midi" THEN state = "playing" ELSE running
                /\ workerPc' = IF seekRequest # None THEN "seek_reset" ELSE "pump"
    /\ UNCHANGED <<workerFrame, state, backend, position, pendingSeek, fadeVars,
                   openVars, registered, handleOpen, timeline, decoders>>

\* The output is reset for the new timeline; a seek to the end ends the track.
WorkerResetOutput ==
    /\ workerPc = "seek_reset"
    /\ timeline' = taken
    /\ running' = CASE Backend = "midi"     -> running
                    [] Backend = "wave_out" -> previousState # "paused"
                    [] OTHER                -> FALSE
    /\ IF Backend # "midi" /\ taken >= Duration
       THEN /\ CompleteSeek
            /\ state' = "stopped"
            /\ workerPc' = "closing"
       ELSE /\ workerPc' = "seek_fill"
            /\ UNCHANGED <<state, position, pendingSeek>>
    /\ UNCHANGED <<workerFrame, backend, seekRequest, takenIsLatest, fadeVars, openVars,
                   registered, handleOpen, taken, previousState, decoders>>

\* The source has been repositioned and the buffers refilled: the output is put
\* into the state the worker read BEFORE the reset, and the request is answered.
WorkerFinishSeek ==
    /\ workerPc = "seek_fill"
    /\ running' = CASE Backend = "wave_out"      -> running /\ previousState # "paused"
                    [] Backend = "direct_sound"  -> running \/ previousState = "playing"
                    [] Backend \in {"kernel_streaming", "asio"} -> previousState # "paused"
                    [] OTHER                     -> running
    /\ CompleteSeek
    /\ workerPc' = "pump"
    /\ UNCHANGED <<workerFrame, state, backend, seekRequest, takenIsLatest, fadeVars,
                   openVars, registered, handleOpen, loopVars, decoders>>

\* The WASAPI output keeps rendering while a pause is still fading.
MutantPauseNotApplied == FALSE
SinkPaused == state = "paused" /\ ~(fadePending /\ fadeCompletion = "pause")

\* Outputs owned by the worker are switched to the current state; finished
\* buffers are recycled; a failure or a stop leaves the loop.
WorkerPump ==
    /\ workerPc = "pump"
    /\ running' = CASE Backend = "wasapi" -> ~SinkPaused
                    [] Backend \in {"kernel_streaming", "asio"} -> state # "paused"
                    [] OTHER -> running
    /\ workerPc' = IF Backend \in {"midi", "direct_sound"} \/
                      (state # "failed" /\ ~stopRequested) THEN "clock" ELSE "closing"
    /\ UNCHANGED <<workerFrame, state, backend, position, seekVars, fadeVars, openVars,
                   registered, handleOpen, loopVars, decoders>>

\* The output clock may run past the duration the decoder announced.
MutantUnboundedClock(p) == p
BoundPlaybackClock(p) == IF Duration > 0 /\ p > Duration THEN Duration ELSE p

WorkerPublishPosition ==
    /\ workerPc = "clock"
    /\ \E p \in timeline .. Duration + 1 :
          position' = IF Backend # "midi" THEN BoundPlaybackClock(p)
                      ELSE IF stopRequested THEN position ELSE p
    /\ workerPc' = "loop"
    /\ UNCHANGED <<workerFrame, state, backend, seekVars, fadeVars, openVars,
                   deviceVars, loopVars, decoders>>

\* The last sample has been played.  Only the MIDI loop decides it under the
\* lock, where a newer seek and a stop win over the end of the old timeline.
MutantEndBeatsSeek == Backend = "midi" => ~stopRequested
EndAccepted == Backend = "midi" => ~stopRequested /\ pendingSeek = None

WorkerEndOfTrack ==
    /\ workerPc = "clock"
    /\ EndAccepted
    /\ position' = IF Duration > 0 THEN Duration ELSE position
    /\ state' = "stopped"
    /\ workerPc' = "closing"
    /\ UNCHANGED <<workerFrame, backend, seekVars, fadeVars, openVars, deviceVars,
                   loopVars, decoders>>

\* A reader, processor or output operation fails, or returns because it was
\* canceled.  Both are found outside the lock, before SetError is entered.
WorkerOperation == {"opening", "opened", "seek_reset", "seek_fill", "pump", "clock"}

WorkerFails ==
    /\ workerPc \in WorkerOperation
    /\ workerPc' = "failing"
    /\ UNCHANGED <<workerFrame, state, backend, position, seekVars, fadeVars, openVars,
                   deviceVars, loopVars, decoders>>

WorkerGivesUp ==
    /\ workerPc \in WorkerOperation
    /\ stopRequested
    /\ workerPc' = IF handleOpen THEN "closing" ELSE "exiting"
    /\ UNCHANGED <<workerFrame, state, backend, position, seekVars, fadeVars, openVars,
                   deviceVars, loopVars, decoders>>

WorkerSetError ==
    /\ workerPc = "failing"
    /\ SetError
    /\ workerPc' = IF handleOpen THEN "closing" ELSE "exiting"
    /\ UNCHANGED <<workerFrame, backend, position, fadeVars, openingSeek, openingPaused,
                   deviceVars, loopVars, decoders>>

\* Tear-down, under the lock: no command may reach the handle any more.
MutantHandleNotRevoked == UNCHANGED registered
RevokeSharedHandle == registered' = FALSE

WorkerRevoke ==
    /\ workerPc = "closing"
    /\ RevokeSharedHandle
    /\ running' = FALSE
    /\ backend' = "none"
    /\ IF Backend = "midi"
       THEN /\ handleOpen' = FALSE
            /\ state' = IF stopRequested \/ state = "failed" THEN state ELSE "stopped"
            /\ workerPc' = "exiting"
       ELSE /\ workerPc' = "revoked"
            /\ UNCHANGED <<handleOpen, state>>
    /\ UNCHANGED <<workerFrame, position, seekVars, fadeVars, openVars, loopVars, decoders>>

MutantCleanupKeepsState == state
StateAfterCleanup == IF state = "failed" THEN state ELSE "stopped"

WorkerClose ==
    /\ workerPc = "revoked"
    /\ handleOpen' = FALSE
    /\ state' = StateAfterCleanup
    /\ workerPc' = "exiting"
    /\ UNCHANGED <<workerFrame, backend, position, seekVars, fadeVars, openVars,
                   registered, running, loopVars, decoders>>

\* The end of PlaybackWorker.
MutantExitKeepsSeek ==
    /\ workerPc = "exiting"
    /\ workerPc' = "signalling"
    /\ UNCHANGED <<workerFrame, state, backend, position, seekVars, fadeVars, openVars,
                   deviceVars, loopVars, decoders>>
WorkerCancelSeek ==
    /\ workerPc = "exiting"
    /\ CancelSeekLocked
    /\ workerPc' = "signalling"
    /\ UNCHANGED <<workerFrame, state, backend, position, fadeVars, openVars,
                   deviceVars, loopVars, decoders>>

WorkerExit ==
    /\ workerPc = "signalling"
    /\ openComplete' = TRUE
    /\ decoders' = decoders - 1
    /\ workerPc' = "exited"
    /\ UNCHANGED <<workerFrame, state, backend, position, seekVars, fadeVars,
                   openingSeek, openingPaused, deviceVars, loopVars>>

-----------------------------------------------------------------------------
(* The fade worker: the moment a ramp reaches its target.                  *)

fadeFrame == <<openVars, position, backend, registered, handleOpen, loopVars,
               workerPc, uiVars, decoders>>

FadeEnds(completion) ==
    /\ fadePc = "ramp" /\ LockFree
    /\ fadePending
    /\ fadeCompletion = completion

\* Play, resume and the second half of a seek: the gain is back at unity.
FadeInEnds ==
    /\ \/ FadeEnds("none")
       \/ FadeEnds("seek_resume")
    /\ fadePending' = FALSE /\ fadeCompletion' = "none" /\ fadeSeekTarget' = None
    /\ gain' = 1
    /\ UNCHANGED <<fadeFrame, state, stopRequested, stopFadePending, seekVars, running,
                   fadePc, cancelsOwnTrack>>

\* accepted: the output took the pause.  If it did not, the track plays on.
FadePauseEnds(accepted) ==
    /\ FadeEnds("pause")
    /\ accepted => \/ SharedHandle /\ backend = Backend /\ registered
                   \/ backend = "wasapi"
    /\ ~accepted => backend # "wasapi"
    /\ fadePending' = FALSE /\ fadeCompletion' = "none" /\ fadeSeekTarget' = None
    /\ state' = IF accepted THEN state ELSE "playing"
    /\ gain' = IF accepted THEN 0 ELSE 1
    /\ running' = (running /\ ~(accepted /\ SharedHandle))
    /\ UNCHANGED <<fadeFrame, stopRequested, stopFadePending, seekVars, fadePc,
                   cancelsOwnTrack>>

\* The delayed seek is queued and the same worker ramps the gain up again.
FadeSeekEnds ==
    /\ FadeEnds("seek")
    /\ QueueSeekLocked(state, fadeSeekTarget)
    /\ QueueFadeLocked("seek_resume", None)
    /\ gain' = 0
    /\ UNCHANGED <<fadeFrame, state, stopRequested, stopFadePending, running, fadePc,
                   cancelsOwnTrack>>

\* The lock is released before RequestStop, whose three parts follow.
FadeStopEnds ==
    /\ FadeEnds("stop")
    /\ fadePending' = FALSE /\ fadeCompletion' = "none" /\ fadeSeekTarget' = None
    /\ gain' = 0
    /\ fadePc' = "cancel_flags"
    /\ cancelsOwnTrack' = TRUE
    /\ UNCHANGED <<fadeFrame, state, stopRequested, stopFadePending, seekVars, running>>

FadeCancelFlags ==
    /\ fadePc = "cancel_flags"
    /\ RequestStopFlags
    /\ fadePc' = "cancel_lock"
    /\ UNCHANGED <<fadeFrame, stopFadePending, seekVars, fadeVars, running,
                   cancelsOwnTrack>>

FadeCancelLocked ==
    /\ fadePc = "cancel_lock"
    /\ RequestStopLocked
    /\ fadePc' = "cancel_flag"
    /\ UNCHANGED <<fadeFrame, state, stopRequested, stopFadePending, running,
                   cancelsOwnTrack>>

FadeCancelDone ==
    /\ fadePc = "cancel_flag"
    /\ RequestStopDone
    /\ fadePc' = "ramp"
    /\ UNCHANGED <<fadeFrame, state, stopRequested, seekVars, fadeVars, running,
                   cancelsOwnTrack>>

-----------------------------------------------------------------------------

\* A command in progress: what the window thread does without further input.
UiContinue ==
    \/ UiCancelLocked \/ UiCancelDone \/ UiSignalOpenComplete
    \/ \E joined \in BOOLEAN : UiReap(joined)
    \/ UiJoin
    \/ UiRefusePlay \/ UiPrepareOpen \/ UiResetOpen
    \/ \E async \in BOOLEAN : UiSpawn(async)
    \/ UiSpawnFails \/ UiOpened \/ UiOpenTimeout \/ UiOpenTimeoutError
    \/ \E target \in Positions, paused \in BOOLEAN : UiRestore(target, paused)

UiSeekCommand ==
    \E target \in Positions :
        \/ UiSeekOpening(target)
        \/ \E allowFade \in BOOLEAN : UiSeek(target, allowFade)

UiCommand ==
    \/ \E op \in {"play", "restart", "stop", "stop_and_wait", "stop_async"} : UiRequestStop(op)
    \/ UiTryReapStopped \/ UiPause \/ UiResume \/ UiSeekCommand \/ UiBeginStopFade

WorkerStep ==
    \/ WorkerRegister \/ WorkerBeginPublish \/ WorkerPublishOpened
    \/ WorkerTakeSeek \/ WorkerResetOutput \/ WorkerFinishSeek \/ WorkerPump
    \/ WorkerPublishPosition \/ WorkerEndOfTrack
    \/ WorkerFails \/ WorkerGivesUp \/ WorkerSetError
    \/ WorkerRevoke \/ WorkerClose \/ WorkerCancelSeek \/ WorkerExit

FadeStep ==
    \/ FadeInEnds
    \/ \E accepted \in BOOLEAN : FadePauseEnds(accepted)
    \/ FadeSeekEnds \/ FadeStopEnds
    \/ FadeCancelFlags \/ FadeCancelLocked \/ FadeCancelDone

Next == UiContinue \/ UiCommand \/ WorkerStep \/ FadeStep

Spec == Init /\ [][Next]_vars

\* The window thread runs its command as far as it can (all its waits but the
\* join of StopAndWait have a budget), and nobody can hold mutex_ for ever.
\* Nothing is assumed of the decoder: a reader may hang in any call.
UiFairness == WF_vars(UiContinue) /\ WF_vars(WorkerPublishOpened)
UiSpec == Spec /\ UiFairness

\* In addition the fade worker, which only waits for its own 10 ms steps, runs.
FadeSpec == UiSpec /\ WF_vars(FadeStep)

\* In addition the calls into the reader and the output return.
PlaybackSpec == FadeSpec /\ WF_vars(WorkerStep)

-----------------------------------------------------------------------------
(* Safety.                                                                 *)

\* At most one playback worker of an engine is running, whatever Play, Stop,
\* an open timeout and a reader that ignores cancellation do (Play refuses to
\* assign over a worker it could not reap).
OneDecoder == decoders <= 1

\* A command that finds a registered device or event handle under the lock can
\* use it: the worker registers after opening and revokes before closing.
RegisteredHandleIsOpen == registered => handleOpen

\* A seek the worker has still to take is the one the clock shows: no newer
\* request, cancellation or late acknowledgement separates the two fields.
RequestIsShown == seekRequest # None => pendingSeek = seekRequest

\* While stop_fade_pending_ is set somebody is going to clear it: the ramp is
\* still queued, or a RequestStop has not reached its last store.
StopFadeIsOwned ==
    stopFadePending => \/ fadePending /\ fadeCompletion = "stop"
                       \/ fadePc # "ramp"
                       \/ uiPc = "cancel_flag"

\* A track that is playing is heard: its gain is unity, or a ramp is pending
\* that ends at unity.
PlayingIsAudible ==
    state = "playing" /\ workerPc = "loop" =>
        \/ gain = 1 /\ ~fadePending
        \/ fadePending /\ fadeCompletion \in {"none", "seek", "seek_resume"}

\* Once the playback worker has returned the engine does not claim to play.
EndedTrackNotPlaying == workerPc \in WorkerGone => state \notin {"playing", "paused"}

\* A seek target is displayed only as long as a worker can still acknowledge it.
TargetCanBeAcknowledged == pendingSeek # None => workerPc \notin WorkerGone

\* When the fade worker carries out the cancellation of a finished stop fade, the
\* track it cancels is the one that was faded.
CancelsFadedTrackOnly == fadePc # "ramp" => cancelsOwnTrack

\* Between two rounds of its loop the worker leaves the output in the state the
\* engine shows: running when playing, stopped when paused and not fading.
OutputFollowsState ==
    workerPc = "loop" =>
        /\ state = "playing" => running
        /\ state = "paused" /\ ~(fadePending /\ fadeCompletion = "pause") => ~running

-----------------------------------------------------------------------------
(* Action properties.                                                      *)

\* When the worker answers a seek and the displayed target is released, the
\* position published is that target: the answer to an older request never
\* releases a newer one.
SeekAckIsLatest ==
    [][workerPc = "seek_fill" /\ workerPc' = "pump" /\ pendingSeek # None
       /\ pendingSeek' = None => position' = pendingSeek]_vars

\* A step that releases an accepted seek answers it, or belongs to a stop or a
\* failure.  (Of the MIDI loop only: see MCAudioOutputs.)
SeekHonoured ==
    pendingSeek # None /\ pendingSeek' = None =>
        \/ position' = pendingSeek
        \/ stopRequested
        \/ state' = "failed" \/ state = "failed"

-----------------------------------------------------------------------------
(* Liveness.                                                               *)

\* Every command returns to the window thread even when the reader hangs, but for
\* StopAndWait: the join it may end in has no budget, and returns once the worker
\* has, which a reader that hangs can put off for ever.
CommandsReturn ==
    /\ uiPc # "idle" ~> uiPc \in {"idle", "join"}
    /\ uiPc = "join" /\ workerPc \in WorkerGone ~> uiPc = "idle"

\* A stop fade always comes to an end, so that a closing window or a serial track
\* change which polls StopFadePending goes on.
StopFadeCompletes == stopFadePending ~> ~stopFadePending

\* An accepted seek is answered or given up, unless seeks never cease.
SeekIsAnswered ==
    \/ []<>(pendingSeek = None)
    \/ []<><<UiSeekCommand>>_vars
=============================================================================
