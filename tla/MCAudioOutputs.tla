--------------------------- MODULE MCAudioOutputs ---------------------------
(***************************************************************************)
(* Two engines whose worker owns its output, as one specification: `output' *)
(* says which instance of AudioEngine a behaviour belongs to, WASAPI with   *)
(* every fade or MIDI, which has none.                                      *)
(***************************************************************************)
EXTENDS Integers

VARIABLES
    state, stopRequested, backend, openComplete, openingSeek, openingPaused,
    position, pendingSeek, seekRequest, fadePending, fadeCompletion,
    fadeSeekTarget, gain, stopFadePending, registered, handleOpen, running,
    workerPc, taken, takenIsLatest, previousState, timeline, uiPc, uiOp, fadePc,
    decoders, cancelsOwnTrack, output

Wasapi == INSTANCE AudioEngine
              WITH Backend <- "wasapi",
                   FadeModes <- {"play", "pause", "seek", "stop"},
                   Duration <- 1
Midi   == INSTANCE AudioEngine
              WITH Backend <- "midi", FadeModes <- {}, Duration <- 2

vars == <<Wasapi!vars, output>>

Init ==
    \/ output = "wasapi" /\ Wasapi!Init
    \/ output = "midi" /\ Midi!Init

Next ==
    /\ \/ output = "wasapi" /\ Wasapi!Next
       \/ output = "midi" /\ Midi!Next
    /\ UNCHANGED output

\* The fairness of PlaybackSpec, for the part whose liveness is checked.
UiContinue == output = "wasapi" /\ Wasapi!UiContinue /\ UNCHANGED output
Published == output = "wasapi" /\ Wasapi!WorkerPublishOpened /\ UNCHANGED output
FadeStep == output = "wasapi" /\ Wasapi!FadeStep /\ UNCHANGED output
WorkerStep == output = "wasapi" /\ Wasapi!WorkerStep /\ UNCHANGED output

Spec ==
    /\ Init /\ [][Next]_vars
    /\ WF_vars(UiContinue) /\ WF_vars(Published)
    /\ WF_vars(FadeStep) /\ WF_vars(WorkerStep)

\* An output the worker owns follows a pause, through the fade, seek, resume or
\* stop that interrupts it (WasapiWorker polls what the window thread stores).
PauseReachesOutput ==
    output = "wasapi" /\ state = "paused" ~> (~running \/ state # "paused")

\* An accepted seek is only given up by a stop or a failure: in the MIDI loop the
\* natural end of the old timeline never discards it.
AcceptedSeekIsHonoured == [][output = "midi" => Midi!SeekHonoured]_vars
=============================================================================
