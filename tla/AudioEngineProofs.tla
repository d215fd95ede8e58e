------------------------- MODULE AudioEngineProofs -------------------------
(***************************************************************************)
(* Proofs about AudioEngine, for every output, every set of fades and      *)
(* every duration.                                                         *)
(***************************************************************************)
EXTENDS AudioEngine, TLAPS

-----------------------------------------------------------------------------
(* The inductive invariant.                                                *)

\* A worker that has not returned is the one worker_ stands for, and a thread is
\* only started when worker_ is empty.
WorkersCounted ==
    /\ decoders = IF workerPc \in WorkerGone THEN 0 ELSE 1
    /\ uiPc \in {"start_lock", "spawn"} => workerPc = "none"

\* The handle is revoked before it is closed.
HandleOwned ==
    /\ registered => handleOpen
    /\ workerPc = "revoked" => ~registered

\* The request slot, the displayed target and the request the worker holds agree.
SeekAgreed ==
    /\ seekRequest # None => pendingSeek = seekRequest
    /\ takenIsLatest => seekRequest = None
    /\ takenIsLatest /\ pendingSeek # None => taken = pendingSeek
    /\ workerPc \in {"seek_reset", "seek_fill"} => taken # None

\* From the locked part of a cancellation until the next track is spawned, no seek
\* and no ramp is left, and the canceled worker cannot publish any more.
CancelingPcs == {"cancel_lock", "cancel_flag", "signal", "reap", "start"}
CanceledPcs == {"cancel_flag", "signal", "reap", "start", "start_lock", "spawn"}
Canceled ==
    /\ uiPc \in CancelingPcs => stopRequested
    /\ uiPc \in CanceledPcs =>
        /\ workerPc # "publishing"
        /\ pendingSeek = None /\ seekRequest = None /\ ~takenIsLatest
        /\ ~fadePending
    /\ uiPc \in CanceledPcs \ {"cancel_flag"} => ~stopFadePending

\* A track that is being opened does not play, and nothing fades.
Active == state \in {"playing", "paused"}
OpeningIsQuiet ==
    \/ uiPc \in {"start_lock", "spawn"}
    \/ workerPc \in {"opening", "opened", "publishing"}
    => ~Active /\ ~fadePending /\ ~stopFadePending

\* While a stop fade is ramping the track counts as stopped.
StopFadeOwned ==
    /\ StopFadeIsOwned
    /\ fadePending /\ fadeCompletion = "stop" => ~Active

Control ==
    /\ WorkersCounted
    /\ HandleOwned
    /\ SeekAgreed
    /\ Canceled
    /\ OpeningIsQuiet
    /\ StopFadeOwned

Inductive == TypeOK /\ Control

-----------------------------------------------------------------------------
(* Preservation, part by part.                                              *)

\* No step of the window thread, the playback worker or the fade worker breaks one
\* of the six parts; the parts need each other, so they are preserved together.
LEMMA ControlStep ==
    ASSUME Control, [Next]_vars
    PROVE  Control'
<1> USE DEF Control, WorkersCounted, HandleOwned, SeekAgreed, Canceled,
         OpeningIsQuiet, StopFadeOwned, StopFadeIsOwned, CancelingPcs, CanceledPcs,
         WorkerGone, None, Active, seekVars, fadeVars, openVars, deviceVars,
         loopVars, uiVars, ghostVars, workerFrame, fadeFrame
<1>1. CASE UiContinue
  <2>1. CASE UiCancelLocked
    BY <2>1 DEF UiCancelLocked, RequestStopLocked, LockFree, CancelSeekLocked
  <2>2. CASE UiCancelDone BY <2>2 DEF UiCancelDone, RequestStopDone
  <2>3. CASE UiSignalOpenComplete BY <2>3 DEF UiSignalOpenComplete, LockFree
  <2>4. ASSUME NEW joined \in BOOLEAN, UiReap(joined)
        PROVE  Control'
    BY <2>4 DEF UiReap, ReapWorker
  <2>5. CASE UiRefusePlay
    BY <2>5 DEF UiRefusePlay, LockFree, WorkerReplaceable, SetError,
       CancelSeekLocked
  <2>6. CASE UiPrepareOpen BY <2>6 DEF UiPrepareOpen, WorkerReplaceable
  <2>7. CASE UiResetOpen BY <2>7 DEF UiResetOpen, LockFree
  <2>8. ASSUME NEW async \in BOOLEAN, UiSpawn(async)
        PROVE  Control'
    BY <2>8 DEF UiSpawn
  <2>9. CASE UiSpawnFails
    BY <2>9 DEF UiSpawnFails, LockFree, SetError, CancelSeekLocked
  <2>10. CASE UiOpened BY <2>10 DEF UiOpened, LockFree
  <2>11. CASE UiOpenTimeout BY <2>11 DEF UiOpenTimeout, LockFree, RequestStopFlags
  <2>12. CASE UiOpenTimeoutError
    BY <2>12 DEF UiOpenTimeoutError, LockFree, SetError, CancelSeekLocked
  <2>13. ASSUME NEW target \in Positions, NEW paused \in BOOLEAN,
                UiRestore(target, paused)
         PROVE  Control'
    BY <2>13 DEF UiRestore, LockFree, QueueSeekLocked, SharedHandle
  <2>14. CASE UiJoin BY <2>14 DEF UiJoin
  <2> QED BY <1>1, <2>1, <2>2, <2>3, <2>4, <2>5, <2>6, <2>7, <2>8, <2>9, <2>10,
          <2>11, <2>12, <2>13, <2>14 DEF UiContinue
<1>2. CASE UiCommand
  <2>1. ASSUME NEW op \in {"play", "restart", "stop", "stop_and_wait", "stop_async"},
               UiRequestStop(op)
        PROVE  Control'
    BY <2>1 DEF UiRequestStop, RequestStopFlags
  <2>2. CASE UiTryReapStopped BY <2>2 DEF UiTryReapStopped
  <2>3. CASE UiPause
    BY <2>3 DEF UiPause, LockFree, SupportsFade, QueueFadeLocked,
       OutputControllable, SharedHandle
  <2>4. CASE UiResume
    BY <2>4 DEF UiResume, LockFree, OutputControllable, SharedHandle, SupportsFade,
       QueueFadeLocked
  <2>5. ASSUME NEW target \in Positions, UiSeekOpening(target)
        PROVE  Control'
    BY <2>5 DEF UiSeekOpening, LockFree
  <2>6. ASSUME NEW target \in Positions, NEW allowFade \in BOOLEAN,
               UiSeek(target, allowFade)
        PROVE  Control'
    BY <2>6 DEF UiSeek, LockFree, SupportsFade, QueueFadeLocked, CancelSeekFade,
       QueueSeekLocked
  <2>7. CASE UiBeginStopFade
    BY <2>7 DEF UiBeginStopFade, LockFree, SupportsFade, QueueFadeLocked
  <2> QED BY <1>2, <2>1, <2>2, <2>3, <2>4, <2>5, <2>6, <2>7 DEF UiCommand,
        UiSeekCommand
<1>3. CASE WorkerStep
  <2>1. CASE WorkerRegister BY <2>1 DEF WorkerRegister
  <2>2. CASE WorkerBeginPublish BY <2>2 DEF WorkerBeginPublish
  <2>3. CASE WorkerPublishOpened
    BY <2>3 DEF WorkerPublishOpened, SharedHandle, QueueSeekLocked, QueueFadeLocked
  <2>4. CASE WorkerTakeSeek BY <2>4 DEF WorkerTakeSeek
  <2>5. CASE WorkerResetOutput BY <2>5 DEF WorkerResetOutput, CompleteSeek
  <2>6. CASE WorkerFinishSeek BY <2>6 DEF WorkerFinishSeek, CompleteSeek
  <2>7. CASE WorkerPump BY <2>7 DEF WorkerPump, SinkPaused
  <2>8. CASE WorkerPublishPosition
    BY <2>8 DEF WorkerPublishPosition, BoundPlaybackClock
  <2>9. CASE WorkerEndOfTrack BY <2>9 DEF WorkerEndOfTrack, EndAccepted
  <2>10. CASE WorkerFails BY <2>10 DEF WorkerFails, WorkerOperation
  <2>11. CASE WorkerGivesUp BY <2>11 DEF WorkerGivesUp, WorkerOperation
  <2>12. CASE WorkerSetError BY <2>12 DEF WorkerSetError, SetError, CancelSeekLocked
  <2>13. CASE WorkerRevoke BY <2>13 DEF WorkerRevoke, RevokeSharedHandle
  <2>14. CASE WorkerClose BY <2>14 DEF WorkerClose, StateAfterCleanup
  <2>15. CASE WorkerCancelSeek BY <2>15 DEF WorkerCancelSeek, CancelSeekLocked
  <2>16. CASE WorkerExit BY <2>16 DEF WorkerExit
  <2> QED BY <1>3, <2>1, <2>2, <2>3, <2>4, <2>5, <2>6, <2>7, <2>8, <2>9, <2>10,
          <2>11, <2>12, <2>13, <2>14, <2>15, <2>16 DEF WorkerStep
<1>4. CASE FadeStep
  <2>1. CASE FadeInEnds BY <2>1 DEF FadeInEnds, FadeEnds, LockFree
  <2>2. ASSUME NEW accepted \in BOOLEAN, FadePauseEnds(accepted)
        PROVE  Control'
    BY <2>2 DEF FadePauseEnds, FadeEnds, LockFree, SharedHandle
  <2>3. CASE FadeSeekEnds
    BY <2>3 DEF FadeSeekEnds, FadeEnds, LockFree, QueueSeekLocked, QueueFadeLocked
  <2>4. CASE FadeStopEnds BY <2>4 DEF FadeStopEnds, FadeEnds, LockFree
  <2>5. CASE FadeCancelFlags BY <2>5 DEF FadeCancelFlags, RequestStopFlags
  <2>6. CASE FadeCancelLocked
    BY <2>6 DEF FadeCancelLocked, RequestStopLocked, LockFree, CancelSeekLocked
  <2>7. CASE FadeCancelDone BY <2>7 DEF FadeCancelDone, RequestStopDone
  <2> QED BY <1>4, <2>1, <2>2, <2>3, <2>4, <2>5, <2>6, <2>7 DEF FadeStep
<1>5. CASE UNCHANGED vars BY <1>5 DEF vars
<1> QED BY <1>1, <1>2, <1>3, <1>4, <1>5 DEF Next

\* The Boolean fields stay Boolean.
LEMMA FlagsOKStep ==
    ASSUME FlagsOK, [Next]_vars
    PROVE  FlagsOK'
<1> USE DEF FlagsOK, seekVars, fadeVars, openVars, deviceVars, loopVars, uiVars,
         ghostVars, workerFrame, fadeFrame
<1>1. CASE UiContinue
  <2>1. CASE UiCancelLocked
    BY <2>1, Zenon DEF UiCancelLocked, RequestStopLocked, LockFree,
       CancelSeekLocked, None
  <2>2. CASE UiCancelDone BY <2>2, Zenon DEF UiCancelDone, RequestStopDone
  <2>3. CASE UiSignalOpenComplete BY <2>3, Zenon DEF UiSignalOpenComplete, LockFree
  <2>4. ASSUME NEW joined \in BOOLEAN, UiReap(joined)
        PROVE  FlagsOK'
    BY <2>4, Zenon DEF UiReap, ReapWorker, WorkerGone
  <2>5. CASE UiRefusePlay
    BY <2>5, Zenon DEF UiRefusePlay, LockFree, WorkerReplaceable, WorkerGone,
       SetError, CancelSeekLocked, None
  <2>6. CASE UiPrepareOpen
    BY <2>6, Zenon DEF UiPrepareOpen, WorkerReplaceable, WorkerGone, None
  <2>7. CASE UiResetOpen BY <2>7, Zenon DEF UiResetOpen, LockFree, None
  <2>8. ASSUME NEW async \in BOOLEAN, UiSpawn(async)
        PROVE  FlagsOK'
    BY <2>8, Zenon DEF UiSpawn, None
  <2>9. CASE UiSpawnFails
    BY <2>9, Zenon DEF UiSpawnFails, LockFree, SetError, CancelSeekLocked, None
  <2>10. CASE UiOpened BY <2>10, Zenon DEF UiOpened, LockFree
  <2>11. CASE UiOpenTimeout
    BY <2>11, Zenon DEF UiOpenTimeout, LockFree, RequestStopFlags
  <2>12. CASE UiOpenTimeoutError
    BY <2>12, Zenon DEF UiOpenTimeoutError, LockFree, SetError, CancelSeekLocked,
       None, WorkerGone
  <2>13. ASSUME NEW target \in Positions, NEW paused \in BOOLEAN,
                UiRestore(target, paused)
         PROVE  FlagsOK'
    BY <2>13, ZenonT(40) DEF UiRestore, LockFree, QueueSeekLocked, SharedHandle
  <2>14. CASE UiJoin BY <2>14 DEF UiJoin
  <2> QED BY <1>1, <2>1, <2>2, <2>3, <2>4, <2>5, <2>6, <2>7, <2>8, <2>9, <2>10,
          <2>11, <2>12, <2>13, <2>14 DEF UiContinue
<1>2. CASE UiCommand
  <2>1. ASSUME NEW op \in {"play", "restart", "stop", "stop_and_wait", "stop_async"},
               UiRequestStop(op)
        PROVE  FlagsOK'
    BY <2>1, Zenon DEF UiRequestStop, RequestStopFlags
  <2>2. CASE UiTryReapStopped BY <2>2, Zenon DEF UiTryReapStopped
  <2>3. CASE UiPause
    BY <2>3, Zenon DEF UiPause, LockFree, SupportsFade, QueueFadeLocked, None,
       OutputControllable, SharedHandle
  <2>4. CASE UiResume
    BY <2>4, Zenon DEF UiResume, LockFree, OutputControllable, SharedHandle,
       SupportsFade, QueueFadeLocked, None
  <2>5. ASSUME NEW target \in Positions, UiSeekOpening(target)
        PROVE  FlagsOK'
    BY <2>5, Zenon DEF UiSeekOpening, LockFree
  <2>6. ASSUME NEW target \in Positions, NEW allowFade \in BOOLEAN,
               UiSeek(target, allowFade)
        PROVE  FlagsOK'
    BY <2>6, Zenon DEF UiSeek, LockFree, SupportsFade, QueueFadeLocked,
       CancelSeekFade, None, QueueSeekLocked
  <2>7. CASE UiBeginStopFade
    BY <2>7, Zenon DEF UiBeginStopFade, LockFree, SupportsFade, QueueFadeLocked,
       None
  <2> QED BY <1>2, <2>1, <2>2, <2>3, <2>4, <2>5, <2>6, <2>7 DEF UiCommand,
        UiSeekCommand
<1>3. CASE WorkerStep
  <2>1. CASE WorkerRegister BY <2>1, Zenon DEF WorkerRegister
  <2>2. CASE WorkerBeginPublish BY <2>2, Zenon DEF WorkerBeginPublish
  <2>3. CASE WorkerPublishOpened
    BY <2>3, Zenon DEF WorkerPublishOpened, SharedHandle, None, QueueSeekLocked,
       QueueFadeLocked
  <2>4. CASE WorkerTakeSeek BY <2>4, Zenon DEF WorkerTakeSeek, None
  <2>5. CASE WorkerResetOutput
    BY <2>5, Zenon DEF WorkerResetOutput, CompleteSeek, None
  <2>6. CASE WorkerFinishSeek
    BY <2>6, Zenon DEF WorkerFinishSeek, CompleteSeek, None
  <2>7. CASE WorkerPump BY <2>7, Zenon DEF WorkerPump, SinkPaused
  <2>8. CASE WorkerPublishPosition
    BY <2>8, Zenon DEF WorkerPublishPosition, BoundPlaybackClock
  <2>9. CASE WorkerEndOfTrack BY <2>9, Zenon DEF WorkerEndOfTrack, EndAccepted, None
  <2>10. CASE WorkerFails BY <2>10, Zenon DEF WorkerFails, WorkerOperation
  <2>11. CASE WorkerGivesUp BY <2>11, Zenon DEF WorkerGivesUp, WorkerOperation
  <2>12. CASE WorkerSetError
    BY <2>12, Zenon DEF WorkerSetError, SetError, CancelSeekLocked, None
  <2>13. CASE WorkerRevoke BY <2>13, Zenon DEF WorkerRevoke, RevokeSharedHandle
  <2>14. CASE WorkerClose BY <2>14, Zenon DEF WorkerClose, StateAfterCleanup
  <2>15. CASE WorkerCancelSeek
    BY <2>15, Zenon DEF WorkerCancelSeek, CancelSeekLocked, None
  <2>16. CASE WorkerExit BY <2>16, Zenon DEF WorkerExit
  <2> QED BY <1>3, <2>1, <2>2, <2>3, <2>4, <2>5, <2>6, <2>7, <2>8, <2>9, <2>10,
          <2>11, <2>12, <2>13, <2>14, <2>15, <2>16 DEF WorkerStep
<1>4. CASE FadeStep
  <2>1. CASE FadeInEnds BY <2>1, Zenon DEF FadeInEnds, FadeEnds, LockFree, None
  <2>2. ASSUME NEW accepted \in BOOLEAN, FadePauseEnds(accepted)
        PROVE  FlagsOK'
    BY <2>2, Zenon DEF FadePauseEnds, FadeEnds, LockFree, SharedHandle, None
  <2>3. CASE FadeSeekEnds
    BY <2>3, Zenon DEF FadeSeekEnds, FadeEnds, LockFree, QueueSeekLocked,
       QueueFadeLocked, None
  <2>4. CASE FadeStopEnds BY <2>4, Zenon DEF FadeStopEnds, FadeEnds, LockFree, None
  <2>5. CASE FadeCancelFlags BY <2>5, Zenon DEF FadeCancelFlags, RequestStopFlags
  <2>6. CASE FadeCancelLocked
    BY <2>6, Zenon DEF FadeCancelLocked, RequestStopLocked, LockFree,
       CancelSeekLocked, None
  <2>7. CASE FadeCancelDone BY <2>7, Zenon DEF FadeCancelDone, RequestStopDone
  <2> QED BY <1>4, <2>1, <2>2, <2>3, <2>4, <2>5, <2>6, <2>7 DEF FadeStep
<1>5. CASE UNCHANGED vars BY <1>5 DEF vars
<1> QED BY <1>1, <1>2, <1>3, <1>4, <1>5 DEF Next

\* The other types: a seek taken by the worker is one that was requested, and the
\* published clock is bounded.
LEMMA TypeOKStep ==
    ASSUME TypeOK, WorkersCounted, SeekAgreed, FlagsOK', [Next]_vars
    PROVE  TypeOK'
<1> USE BackendAssumption, DurationAssumption
     DEF TypeOK, WorkersCounted, SeekAgreed, PositionsOK, WorkerGone, None,
         Positions, PlaybackState, FadeCompletion, WorkerStates, UiStates, UiOps,
         FadeStates, seekVars, fadeVars, openVars, deviceVars, loopVars, uiVars,
         ghostVars, workerFrame, fadeFrame
<1>1. CASE UiContinue
  <2>1. CASE UiCancelLocked
    BY <2>1 DEF UiCancelLocked, RequestStopLocked, LockFree, CancelSeekLocked
  <2>2. CASE UiCancelDone
    BY <2>2 DEF UiCancelDone, RequestStopDone
  <2>3. CASE UiSignalOpenComplete
    BY <2>3 DEF UiSignalOpenComplete, LockFree
  <2>4. ASSUME NEW joined \in BOOLEAN, UiReap(joined)
        PROVE  TypeOK'
    BY <2>4 DEF UiReap, ReapWorker
  <2>5. CASE UiRefusePlay
    BY <2>5 DEF UiRefusePlay, LockFree, WorkerReplaceable, SetError,
       CancelSeekLocked
  <2>6. CASE UiPrepareOpen
    BY <2>6 DEF UiPrepareOpen, WorkerReplaceable
  <2>7. CASE UiResetOpen
    BY <2>7 DEF UiResetOpen, LockFree
  <2>8. ASSUME NEW async \in BOOLEAN, UiSpawn(async)
        PROVE  TypeOK'
    BY <2>8 DEF UiSpawn
  <2>9. CASE UiSpawnFails
    BY <2>9 DEF UiSpawnFails, LockFree, SetError, CancelSeekLocked
  <2>10. CASE UiOpened
    BY <2>10 DEF UiOpened, LockFree
  <2>11. CASE UiOpenTimeout
    BY <2>11 DEF UiOpenTimeout, LockFree, RequestStopFlags
  <2>12. CASE UiOpenTimeoutError
    BY <2>12 DEF UiOpenTimeoutError, LockFree, SetError, CancelSeekLocked
  <2>13. ASSUME NEW target \in Positions, NEW paused \in BOOLEAN,
                UiRestore(target, paused)
         PROVE  TypeOK'
    <3> USE <2>13 DEF UiRestore
    <3>1. state' \in PlaybackState
      OBVIOUS
    <3>2. pendingSeek' \in Positions \cup {None} /\
         seekRequest' \in Positions \cup {None}
      BY DEF QueueSeekLocked
    <3>3. openingSeek' \in Positions \cup {None}
      OBVIOUS
    <3> QED BY <3>1, <3>2, <3>3
  <2>14. CASE UiJoin BY <2>14 DEF UiJoin
  <2> QED BY <1>1, <2>1, <2>2, <2>3, <2>4, <2>5, <2>6, <2>7, <2>8, <2>9, <2>10,
          <2>11, <2>12, <2>13, <2>14 DEF UiContinue
<1>2. CASE UiCommand
  <2>1. ASSUME NEW op \in {"play", "restart", "stop", "stop_and_wait", "stop_async"},
               UiRequestStop(op)
        PROVE  TypeOK'
    BY <2>1 DEF UiRequestStop, RequestStopFlags
  <2>2. CASE UiTryReapStopped
    BY <2>2 DEF UiTryReapStopped
  <2>3. CASE UiPause
    BY <2>3 DEF UiPause, LockFree, SupportsFade, QueueFadeLocked,
       OutputControllable, SharedHandle
  <2>4. CASE UiResume
    BY <2>4 DEF UiResume, LockFree, OutputControllable, SharedHandle, SupportsFade,
       QueueFadeLocked
  <2>5. ASSUME NEW target \in Positions, UiSeekOpening(target)
        PROVE  TypeOK'
    BY <2>5 DEF UiSeekOpening, LockFree
  <2>6. ASSUME NEW target \in Positions, NEW allowFade \in BOOLEAN,
               UiSeek(target, allowFade)
        PROVE  TypeOK'
    BY <2>6 DEF UiSeek, LockFree, SupportsFade, QueueFadeLocked, CancelSeekFade,
       QueueSeekLocked
  <2>7. CASE UiBeginStopFade
    BY <2>7 DEF UiBeginStopFade, LockFree, SupportsFade, QueueFadeLocked
  <2> QED BY <1>2, <2>1, <2>2, <2>3, <2>4, <2>5, <2>6, <2>7 DEF UiCommand,
        UiSeekCommand
<1>3. CASE WorkerStep
  <2>1. CASE WorkerRegister
    BY <2>1 DEF WorkerRegister
  <2>2. CASE WorkerBeginPublish
    BY <2>2 DEF WorkerBeginPublish
  <2>3. CASE WorkerPublishOpened
    BY <2>3 DEF WorkerPublishOpened, SharedHandle, QueueSeekLocked, QueueFadeLocked
  <2>4. CASE WorkerTakeSeek
    BY <2>4 DEF WorkerTakeSeek
  <2>5. CASE WorkerResetOutput
    BY <2>5 DEF WorkerResetOutput, CompleteSeek
  <2>6. CASE WorkerFinishSeek
    BY <2>6 DEF WorkerFinishSeek, CompleteSeek
  <2>7. CASE WorkerPump
    BY <2>7 DEF WorkerPump, SinkPaused
  <2>8. CASE WorkerPublishPosition
    BY <2>8 DEF WorkerPublishPosition, BoundPlaybackClock
  <2>9. CASE WorkerEndOfTrack
    BY <2>9 DEF WorkerEndOfTrack, EndAccepted
  <2>10. CASE WorkerFails
    BY <2>10 DEF WorkerFails, WorkerOperation
  <2>11. CASE WorkerGivesUp
    BY <2>11 DEF WorkerGivesUp, WorkerOperation
  <2>12. CASE WorkerSetError
    BY <2>12 DEF WorkerSetError, SetError, CancelSeekLocked
  <2>13. CASE WorkerRevoke
    BY <2>13 DEF WorkerRevoke, RevokeSharedHandle
  <2>14. CASE WorkerClose
    BY <2>14 DEF WorkerClose, StateAfterCleanup
  <2>15. CASE WorkerCancelSeek
    BY <2>15 DEF WorkerCancelSeek, CancelSeekLocked
  <2>16. CASE WorkerExit
    BY <2>16 DEF WorkerExit
  <2> QED BY <1>3, <2>1, <2>2, <2>3, <2>4, <2>5, <2>6, <2>7, <2>8, <2>9, <2>10,
          <2>11, <2>12, <2>13, <2>14, <2>15, <2>16 DEF WorkerStep
<1>4. CASE FadeStep
  <2>1. CASE FadeInEnds
    BY <2>1 DEF FadeInEnds, FadeEnds, LockFree
  <2>2. ASSUME NEW accepted \in BOOLEAN, FadePauseEnds(accepted)
        PROVE  TypeOK'
    BY <2>2 DEF FadePauseEnds, FadeEnds,
          LockFree, SharedHandle
  <2>3. CASE FadeSeekEnds
    BY <2>3 DEF FadeSeekEnds, FadeEnds, LockFree, QueueSeekLocked, QueueFadeLocked
  <2>4. CASE FadeStopEnds
    BY <2>4 DEF FadeStopEnds, FadeEnds, LockFree
  <2>5. CASE FadeCancelFlags
    BY <2>5 DEF FadeCancelFlags, RequestStopFlags
  <2>6. CASE FadeCancelLocked
    BY <2>6 DEF FadeCancelLocked, RequestStopLocked, LockFree, CancelSeekLocked
  <2>7. CASE FadeCancelDone
    BY <2>7 DEF FadeCancelDone, RequestStopDone
  <2> QED BY <1>4, <2>1, <2>2, <2>3, <2>4, <2>5, <2>6, <2>7 DEF FadeStep
<1>5. CASE UNCHANGED vars BY <1>5 DEF vars
<1> QED BY <1>1, <1>2, <1>3, <1>4, <1>5 DEF Next

-----------------------------------------------------------------------------
(* The theorems.                                                           *)

\* A constructed engine satisfies the inductive invariant.
LEMMA InitInductive == Init => Inductive
<1> SUFFICES ASSUME Init PROVE Inductive
  OBVIOUS
<1> USE DEF Init, None, WorkerGone
<1>1. FlagsOK
  BY Zenon DEF FlagsOK
<1>2. TypeOK
  BY <1>1, DurationAssumption
  DEF TypeOK, PositionsOK, Positions, PlaybackState, FadeCompletion, WorkerStates,
      UiStates, UiOps, FadeStates
<1>3. Control
  BY DEF Control, WorkersCounted, HandleOwned, SeekAgreed, Canceled, OpeningIsQuiet,
         StopFadeOwned, StopFadeIsOwned, CancelingPcs, CanceledPcs, Active
<1> QED BY <1>2, <1>3 DEF Inductive

\* Every step, and every stuttering step, preserves it.
LEMMA InductiveStep == Inductive /\ [Next]_vars => Inductive'
<1> SUFFICES ASSUME Inductive, [Next]_vars PROVE Inductive'
  OBVIOUS
<1>1. Control'
  BY ControlStep DEF Inductive
<1>2. FlagsOK'
  BY FlagsOKStep DEF Inductive, TypeOK
<1>3. TypeOK'
  BY <1>2, TypeOKStep DEF Inductive, Control
<1> QED BY <1>1, <1>3 DEF Inductive

\* The inductive invariant holds in every reachable state.
THEOREM InductiveInvariant == Spec => []Inductive
<1> QED BY InitInductive, InductiveStep, PTL DEF Spec

\* Every variable keeps its type; in particular no clock publishes a position past
\* the end of the track (BoundPlaybackClock).
THEOREM TypeCorrect == Spec => []TypeOK
<1>1. Inductive => TypeOK
  BY DEF Inductive
<1> QED BY <1>1, InductiveInvariant, PTL

\* Play never starts a second playback worker next to one that ignored a stop.
THEOREM AtMostOneDecoder == Spec => []OneDecoder
<1>1. Inductive => OneDecoder
  BY DEF Inductive, Control, WorkersCounted, OneDecoder
<1> QED BY <1>1, InductiveInvariant, PTL

\* A handle that commands can reach under the lock has not been closed.
THEOREM NoCommandOnClosedHandle == Spec => []RegisteredHandleIsOpen
<1>1. Inductive => RegisteredHandleIsOpen
  BY DEF Inductive, Control, HandleOwned, RegisteredHandleIsOpen
<1> QED BY <1>1, InductiveInvariant, PTL

\* The seek the worker takes next is the target the clock shows.
THEOREM PendingRequestIsShown == Spec => []RequestIsShown
<1>1. Inductive => RequestIsShown
  BY DEF Inductive, Control, SeekAgreed, RequestIsShown
<1> QED BY <1>1, InductiveInvariant, PTL

\* A pending stop fade is always on its way to the store that clears it.
THEOREM StopFadeHasOwner == Spec => []StopFadeIsOwned
<1>1. Inductive => StopFadeIsOwned
  BY DEF Inductive, Control, StopFadeOwned
<1> QED BY <1>1, InductiveInvariant, PTL

\* The answer to an older seek never releases the target of a newer one.
THEOREM OnlyLatestSeekIsAnswered == Spec => SeekAckIsLatest
<1>1. Inductive /\ [Next]_vars =>
        [workerPc = "seek_fill" /\ workerPc' = "pump" /\ pendingSeek # None
         /\ pendingSeek' = None => position' = pendingSeek]_vars
  <2> SUFFICES ASSUME Inductive, [Next]_vars,
                      workerPc = "seek_fill", workerPc' = "pump",
                      pendingSeek # None, pendingSeek' = None
               PROVE  position' = pendingSeek
    OBVIOUS
  <2>1. CASE WorkerStep
    <3>1. WorkerFinishSeek
      BY <2>1 DEF WorkerStep, WorkerRegister, workerFrame, uiVars, seekVars,
         fadeVars, openVars, loopVars, WorkerBeginPublish, deviceVars,
         WorkerPublishOpened, SharedHandle, None, QueueSeekLocked, QueueFadeLocked,
         WorkerTakeSeek, WorkerResetOutput, CompleteSeek, WorkerFinishSeek, WorkerPump,
         SinkPaused, WorkerPublishPosition, BoundPlaybackClock, WorkerEndOfTrack,
         EndAccepted, WorkerFails, WorkerOperation, WorkerGivesUp, WorkerSetError,
         SetError, CancelSeekLocked, WorkerRevoke, RevokeSharedHandle, WorkerClose,
         StateAfterCleanup, WorkerCancelSeek, WorkerExit
    <3> QED BY <3>1 DEF WorkerFinishSeek, CompleteSeek, Inductive, Control, SeekAgreed
  <2>2. workerPc' = workerPc \/ workerPc' \in {"none", "opening"} \/ WorkerStep
    <3>1. CASE UiContinue
      BY <3>1 DEF UiContinue, UiCancelLocked, RequestStopLocked, LockFree,
         CancelSeekLocked, None, openVars, deviceVars, loopVars, ghostVars,
         UiCancelDone, RequestStopDone, seekVars, fadeVars, UiSignalOpenComplete,
         UiReap, ReapWorker, WorkerGone, UiJoin, UiRefusePlay, WorkerReplaceable, SetError,
         UiPrepareOpen, UiResetOpen, UiSpawn, UiSpawnFails, UiOpened, UiOpenTimeout,
         RequestStopFlags, UiOpenTimeoutError, Positions, UiRestore, QueueSeekLocked,
         SharedHandle
    <3>2. CASE UiCommand
      BY <3>2 DEF UiCommand, UiRequestStop, RequestStopFlags, seekVars, fadeVars,
         openVars, deviceVars, loopVars, ghostVars, UiTryReapStopped, uiVars, UiPause,
         LockFree, SupportsFade, QueueFadeLocked, None, OutputControllable,
         SharedHandle, UiResume, UiSeekCommand, Positions, UiSeekOpening, UiSeek,
         CancelSeekFade, QueueSeekLocked, UiBeginStopFade
    <3>3. CASE FadeStep
      BY <3>3 DEF FadeStep, FadeInEnds, FadeEnds, LockFree, None, fadeFrame,
         openVars, loopVars, uiVars, seekVars, FadePauseEnds, SharedHandle,
         FadeSeekEnds, QueueSeekLocked, QueueFadeLocked, FadeStopEnds, FadeCancelFlags,
         RequestStopFlags, fadeVars, FadeCancelLocked, RequestStopLocked,
         CancelSeekLocked, FadeCancelDone, RequestStopDone
    <3>4. CASE UNCHANGED vars
      BY <3>4 DEF vars
    <3> QED BY <3>1, <3>2, <3>3, <3>4 DEF Next
  <2> QED BY <2>1, <2>2
<1> QED BY <1>1, InductiveInvariant, PTL DEF Spec, SeekAckIsLatest

-----------------------------------------------------------------------------
(* The end of a track.  A refused pause fade revives it (FadePauseEnds), and *)
(* MIDI leaves the state to whoever asked for the stop (WorkerRevoke): the   *)
(* hypothesis excludes exactly these two.                                    *)

NoRevival ==
    /\ Backend # "midi"
    /\ ~("pause" \in FadeModes /\ SupportsFade(Backend))

\* An output that is playing is open, so that giving up always tears it down and
\* passes WorkerClose, which settles the state.
PlaybackPcs == {"opened", "publishing", "loop", "seek_reset", "seek_fill", "pump",
                "clock"}
HandleHeld == workerPc \in PlaybackPcs => handleOpen

\* Without pause fades none is pending to set the state back to playing.
NoPauseFades == fadePending => fadeCompletion # "pause"

\* From the end of the tear-down until the next track is opened nothing plays, and
\* from the last cancellation of seeks on no target is left.
ReturningPcs == {"signalling"} \cup WorkerGone
EndedIsQuiet == workerPc \in {"exiting"} \cup ReturningPcs => ~Active
TargetOwned == workerPc \in ReturningPcs => pendingSeek = None

TrackEnd ==
    /\ HandleHeld
    /\ NoPauseFades
    /\ EndedIsQuiet
    /\ TargetOwned

\* No step of the three threads revives a track whose worker is returning.
LEMMA TrackEndStep ==
    ASSUME NoRevival, TypeOK, Control, TrackEnd, [Next]_vars
    PROVE  TrackEnd'
<1> USE DEF NoRevival, TypeOK, Control, WorkersCounted, Canceled, OpeningIsQuiet,
         CancelingPcs, CanceledPcs, TrackEnd, HandleHeld, EndedIsQuiet, TargetOwned,
         NoPauseFades, ReturningPcs, PlaybackPcs, WorkerGone, None, Active, seekVars,
         fadeVars, openVars, deviceVars, loopVars, uiVars, ghostVars, workerFrame,
         fadeFrame
<1>1. CASE UiContinue
  <2>1. CASE UiCancelLocked
    BY <2>1 DEF UiCancelLocked, RequestStopLocked, LockFree, CancelSeekLocked
  <2>2. CASE UiCancelDone BY <2>2 DEF UiCancelDone, RequestStopDone
  <2>3. CASE UiSignalOpenComplete BY <2>3 DEF UiSignalOpenComplete, LockFree
  <2>4. ASSUME NEW joined \in BOOLEAN, UiReap(joined)
        PROVE  TrackEnd'
    BY <2>4 DEF UiReap, ReapWorker
  <2>5. CASE UiRefusePlay
    BY <2>5 DEF UiRefusePlay, LockFree, WorkerReplaceable, SetError,
       CancelSeekLocked
  <2>6. CASE UiPrepareOpen BY <2>6 DEF UiPrepareOpen, WorkerReplaceable
  <2>7. CASE UiResetOpen BY <2>7 DEF UiResetOpen, LockFree
  <2>8. ASSUME NEW async \in BOOLEAN, UiSpawn(async)
        PROVE  TrackEnd'
    BY <2>8 DEF UiSpawn
  <2>9. CASE UiSpawnFails
    BY <2>9 DEF UiSpawnFails, LockFree, SetError, CancelSeekLocked
  <2>10. CASE UiOpened BY <2>10 DEF UiOpened, LockFree
  <2>11. CASE UiOpenTimeout BY <2>11 DEF UiOpenTimeout, LockFree, RequestStopFlags
  <2>12. CASE UiOpenTimeoutError
    BY <2>12 DEF UiOpenTimeoutError, LockFree, SetError, CancelSeekLocked
  <2>13. ASSUME NEW target \in Positions, NEW paused \in BOOLEAN,
                UiRestore(target, paused)
         PROVE  TrackEnd'
    BY <2>13 DEF UiRestore, LockFree, QueueSeekLocked, SharedHandle
  <2>14. CASE UiJoin BY <2>14 DEF UiJoin
  <2> QED BY <1>1, <2>1, <2>2, <2>3, <2>4, <2>5, <2>6, <2>7, <2>8, <2>9, <2>10,
          <2>11, <2>12, <2>13, <2>14 DEF UiContinue
<1>2. CASE UiCommand
  <2>1. ASSUME NEW op \in {"play", "restart", "stop", "stop_and_wait", "stop_async"},
               UiRequestStop(op)
        PROVE  TrackEnd'
    BY <2>1 DEF UiRequestStop, RequestStopFlags
  <2>2. CASE UiTryReapStopped BY <2>2 DEF UiTryReapStopped
  <2>3. CASE UiPause
    BY <2>3 DEF UiPause, LockFree, SupportsFade, QueueFadeLocked,
       OutputControllable, SharedHandle
  <2>4. CASE UiResume
    BY <2>4 DEF UiResume, LockFree, OutputControllable, SharedHandle, SupportsFade,
       QueueFadeLocked
  <2>5. ASSUME NEW target \in Positions, UiSeekOpening(target)
        PROVE  TrackEnd'
    BY <2>5 DEF UiSeekOpening, LockFree
  <2>6. ASSUME NEW target \in Positions, NEW allowFade \in BOOLEAN,
               UiSeek(target, allowFade)
        PROVE  TrackEnd'
    BY <2>6 DEF UiSeek, LockFree, SupportsFade, QueueFadeLocked, CancelSeekFade,
       QueueSeekLocked
  <2>7. CASE UiBeginStopFade
    BY <2>7 DEF UiBeginStopFade, LockFree, SupportsFade, QueueFadeLocked
  <2> QED BY <1>2, <2>1, <2>2, <2>3, <2>4, <2>5, <2>6, <2>7 DEF UiCommand,
        UiSeekCommand
<1>3. CASE WorkerStep
  <2>1. CASE WorkerRegister BY <2>1 DEF WorkerRegister
  <2>2. CASE WorkerBeginPublish BY <2>2 DEF WorkerBeginPublish
  <2>3. CASE WorkerPublishOpened
    BY <2>3 DEF WorkerPublishOpened, SharedHandle, QueueSeekLocked, QueueFadeLocked
  <2>4. CASE WorkerTakeSeek BY <2>4 DEF WorkerTakeSeek
  <2>5. CASE WorkerResetOutput BY <2>5 DEF WorkerResetOutput, CompleteSeek
  <2>6. CASE WorkerFinishSeek BY <2>6 DEF WorkerFinishSeek, CompleteSeek
  <2>7. CASE WorkerPump BY <2>7 DEF WorkerPump, SinkPaused
  <2>8. CASE WorkerPublishPosition
    BY <2>8 DEF WorkerPublishPosition, BoundPlaybackClock
  <2>9. CASE WorkerEndOfTrack BY <2>9 DEF WorkerEndOfTrack, EndAccepted
  <2>10. CASE WorkerFails BY <2>10 DEF WorkerFails, WorkerOperation
  <2>11. CASE WorkerGivesUp BY <2>11 DEF WorkerGivesUp, WorkerOperation
  <2>12. CASE WorkerSetError BY <2>12 DEF WorkerSetError, SetError, CancelSeekLocked
  <2>13. CASE WorkerRevoke BY <2>13 DEF WorkerRevoke, RevokeSharedHandle
  <2>14. CASE WorkerClose BY <2>14 DEF WorkerClose, StateAfterCleanup
  <2>15. CASE WorkerCancelSeek BY <2>15 DEF WorkerCancelSeek, CancelSeekLocked
  <2>16. CASE WorkerExit BY <2>16 DEF WorkerExit
  <2> QED BY <1>3, <2>1, <2>2, <2>3, <2>4, <2>5, <2>6, <2>7, <2>8, <2>9, <2>10,
          <2>11, <2>12, <2>13, <2>14, <2>15, <2>16 DEF WorkerStep
<1>4. CASE FadeStep
  <2>1. CASE FadeInEnds BY <2>1 DEF FadeInEnds, FadeEnds, LockFree
  <2>2. ASSUME NEW accepted \in BOOLEAN, FadePauseEnds(accepted)
        PROVE  TrackEnd'
    BY <2>2 DEF FadePauseEnds, FadeEnds, LockFree, SharedHandle
  <2>3. CASE FadeSeekEnds
    BY <2>3 DEF FadeSeekEnds, FadeEnds, LockFree, QueueSeekLocked, QueueFadeLocked
  <2>4. CASE FadeStopEnds BY <2>4 DEF FadeStopEnds, FadeEnds, LockFree
  <2>5. CASE FadeCancelFlags BY <2>5 DEF FadeCancelFlags, RequestStopFlags
  <2>6. CASE FadeCancelLocked
    BY <2>6 DEF FadeCancelLocked, RequestStopLocked, LockFree, CancelSeekLocked
  <2>7. CASE FadeCancelDone BY <2>7 DEF FadeCancelDone, RequestStopDone
  <2> QED BY <1>4, <2>1, <2>2, <2>3, <2>4, <2>5, <2>6, <2>7 DEF FadeStep
<1>5. CASE UNCHANGED vars BY <1>5 DEF vars
<1> QED BY <1>1, <1>2, <1>3, <1>4, <1>5 DEF Next

\* The end of a track holds in every reachable state.
LEMMA TrackEndHolds == NoRevival => (Spec => []TrackEnd)
<1> SUFFICES ASSUME NoRevival PROVE Spec => []TrackEnd
  OBVIOUS
<1>1. Init => TrackEnd
  BY DEF Init, TrackEnd, HandleHeld, NoPauseFades, EndedIsQuiet, TargetOwned,
         ReturningPcs, PlaybackPcs, WorkerGone, None, Active
<1>2. Inductive /\ TrackEnd /\ [Next]_vars => TrackEnd'
  BY TrackEndStep DEF Inductive
<1> QED BY <1>1, <1>2, InductiveInvariant, PTL DEF Spec

\* Once the playback worker has returned the engine does not claim to play, unless
\* a pause fade or the MIDI output may have set its state back.
THEOREM EndedTracksDoNotPlay == NoRevival => (Spec => []EndedTrackNotPlaying)
<1> SUFFICES ASSUME NoRevival PROVE Spec => []EndedTrackNotPlaying
  OBVIOUS
<1>1. TrackEnd => EndedTrackNotPlaying
  BY DEF TrackEnd, EndedIsQuiet, ReturningPcs, Active, EndedTrackNotPlaying
<1> QED BY <1>1, TrackEndHolds, PTL

\* Under the same hypothesis a displayed seek target has a worker that can answer
\* it: the two revivals are the only way to the target nobody acknowledges.
THEOREM TargetsHaveAWorker == NoRevival => (Spec => []TargetCanBeAcknowledged)
<1> SUFFICES ASSUME NoRevival PROVE Spec => []TargetCanBeAcknowledged
  OBVIOUS
<1>1. TrackEnd => TargetCanBeAcknowledged
  BY DEF TrackEnd, TargetOwned, ReturningPcs, TargetCanBeAcknowledged
<1> QED BY <1>1, TrackEndHolds, PTL

-----------------------------------------------------------------------------
(* What is heard.  Resume cancels a pause fade only by queueing a play fade  *)
(* over it, so the settings with the first and without the second are left   *)
(* out (there PlayingIsAudible is refuted).                                  *)

FadesPaired ==
    "pause" \in FadeModes /\ SupportsFade(Backend) => "play" \in FadeModes

\* Only an output whose volume can be ramped is faded into a pause.
PauseFadeChosen ==
    fadePending /\ fadeCompletion = "pause" =>
        "pause" \in FadeModes /\ SupportsFade(Backend)

Heard ==
    \/ gain = 1 /\ ~fadePending
    \/ fadePending /\ fadeCompletion \in {"none", "seek", "seek_resume"}

\* A track that a restart is about to set playing is heard as well, although it may
\* still be paused: RestoreAfterOutputRestart leaves the gain alone.
HeardWhilePlaying ==
    \/ state = "playing"
    \/ state = "paused" /\ uiPc \in {"wait", "restore"}
    => Heard

Audible == PauseFadeChosen /\ HeardWhilePlaying

\* No step silences a playing track without a ramp that ends at unity.
LEMMA AudibleStep ==
    ASSUME FadesPaired, TypeOK, Control, Audible, [Next]_vars
    PROVE  Audible'
<1> USE DEF FadesPaired, TypeOK, Control, OpeningIsQuiet, StopFadeOwned, Audible,
         PauseFadeChosen, HeardWhilePlaying, Heard, None, Active,
         seekVars, fadeVars, openVars, deviceVars, loopVars, uiVars, ghostVars,
         workerFrame, fadeFrame
<1>1. CASE UiContinue
  <2>1. CASE UiCancelLocked
    BY <2>1 DEF UiCancelLocked, RequestStopLocked, LockFree, CancelSeekLocked
  <2>2. CASE UiCancelDone BY <2>2 DEF UiCancelDone, RequestStopDone
  <2>3. CASE UiSignalOpenComplete BY <2>3 DEF UiSignalOpenComplete, LockFree
  <2>4. ASSUME NEW joined \in BOOLEAN, UiReap(joined)
        PROVE  Audible'
    BY <2>4 DEF UiReap, ReapWorker
  <2>5. CASE UiRefusePlay
    BY <2>5 DEF UiRefusePlay, LockFree, WorkerReplaceable, SetError,
       CancelSeekLocked
  <2>6. CASE UiPrepareOpen BY <2>6 DEF UiPrepareOpen, WorkerReplaceable
  <2>7. CASE UiResetOpen BY <2>7 DEF UiResetOpen, LockFree
  <2>8. ASSUME NEW async \in BOOLEAN, UiSpawn(async)
        PROVE  Audible'
    BY <2>8 DEF UiSpawn
  <2>9. CASE UiSpawnFails
    BY <2>9 DEF UiSpawnFails, LockFree, SetError, CancelSeekLocked
  <2>10. CASE UiOpened BY <2>10 DEF UiOpened, LockFree
  <2>11. CASE UiOpenTimeout BY <2>11 DEF UiOpenTimeout, LockFree, RequestStopFlags
  <2>12. CASE UiOpenTimeoutError
    BY <2>12 DEF UiOpenTimeoutError, LockFree, SetError, CancelSeekLocked
  <2>13. ASSUME NEW target \in Positions, NEW paused \in BOOLEAN,
                UiRestore(target, paused)
         PROVE  Audible'
    BY <2>13 DEF UiRestore, LockFree, QueueSeekLocked, SharedHandle
  <2>14. CASE UiJoin BY <2>14 DEF UiJoin
  <2> QED BY <1>1, <2>1, <2>2, <2>3, <2>4, <2>5, <2>6, <2>7, <2>8, <2>9, <2>10,
          <2>11, <2>12, <2>13, <2>14 DEF UiContinue
<1>2. CASE UiCommand
  <2>1. ASSUME NEW op \in {"play", "restart", "stop", "stop_and_wait", "stop_async"},
               UiRequestStop(op)
        PROVE  Audible'
    BY <2>1 DEF UiRequestStop, RequestStopFlags
  <2>2. CASE UiTryReapStopped BY <2>2 DEF UiTryReapStopped
  <2>3. CASE UiPause
    BY <2>3 DEF UiPause, LockFree, SupportsFade, QueueFadeLocked,
       OutputControllable, SharedHandle
  <2>4. CASE UiResume
    BY <2>4 DEF UiResume, OutputControllable, SupportsFade, QueueFadeLocked,
       FadeCompletion
  <2>5. ASSUME NEW target \in Positions, UiSeekOpening(target)
        PROVE  Audible'
    BY <2>5 DEF UiSeekOpening, LockFree
  <2>6. ASSUME NEW target \in Positions, NEW allowFade \in BOOLEAN,
               UiSeek(target, allowFade)
        PROVE  Audible'
    BY <2>6 DEF UiSeek, LockFree, SupportsFade, QueueFadeLocked, CancelSeekFade,
       QueueSeekLocked
  <2>7. CASE UiBeginStopFade
    BY <2>7 DEF UiBeginStopFade, LockFree, SupportsFade, QueueFadeLocked
  <2> QED BY <1>2, <2>1, <2>2, <2>3, <2>4, <2>5, <2>6, <2>7 DEF UiCommand,
        UiSeekCommand
<1>3. CASE WorkerStep
  <2>1. CASE WorkerRegister BY <2>1 DEF WorkerRegister
  <2>2. CASE WorkerBeginPublish BY <2>2 DEF WorkerBeginPublish
  <2>3. CASE WorkerPublishOpened
    BY <2>3 DEF WorkerPublishOpened, SharedHandle, QueueSeekLocked, QueueFadeLocked
  <2>4. CASE WorkerTakeSeek BY <2>4 DEF WorkerTakeSeek
  <2>5. CASE WorkerResetOutput BY <2>5 DEF WorkerResetOutput, CompleteSeek
  <2>6. CASE WorkerFinishSeek BY <2>6 DEF WorkerFinishSeek, CompleteSeek
  <2>7. CASE WorkerPump BY <2>7 DEF WorkerPump, SinkPaused
  <2>8. CASE WorkerPublishPosition
    BY <2>8 DEF WorkerPublishPosition, BoundPlaybackClock
  <2>9. CASE WorkerEndOfTrack BY <2>9 DEF WorkerEndOfTrack, EndAccepted
  <2>10. CASE WorkerFails BY <2>10 DEF WorkerFails, WorkerOperation
  <2>11. CASE WorkerGivesUp BY <2>11 DEF WorkerGivesUp, WorkerOperation
  <2>12. CASE WorkerSetError BY <2>12 DEF WorkerSetError, SetError, CancelSeekLocked
  <2>13. CASE WorkerRevoke BY <2>13 DEF WorkerRevoke, RevokeSharedHandle
  <2>14. CASE WorkerClose BY <2>14 DEF WorkerClose, StateAfterCleanup
  <2>15. CASE WorkerCancelSeek BY <2>15 DEF WorkerCancelSeek, CancelSeekLocked
  <2>16. CASE WorkerExit BY <2>16 DEF WorkerExit
  <2> QED BY <1>3, <2>1, <2>2, <2>3, <2>4, <2>5, <2>6, <2>7, <2>8, <2>9, <2>10,
          <2>11, <2>12, <2>13, <2>14, <2>15, <2>16 DEF WorkerStep
<1>4. CASE FadeStep
  <2>1. CASE FadeInEnds BY <2>1 DEF FadeInEnds, FadeEnds, LockFree
  <2>2. ASSUME NEW accepted \in BOOLEAN, FadePauseEnds(accepted)
        PROVE  Audible'
    BY <2>2 DEF FadePauseEnds, FadeEnds, LockFree, SharedHandle
  <2>3. CASE FadeSeekEnds
    BY <2>3 DEF FadeSeekEnds, FadeEnds, LockFree, QueueSeekLocked, QueueFadeLocked
  <2>4. CASE FadeStopEnds BY <2>4 DEF FadeStopEnds, FadeEnds, LockFree
  <2>5. CASE FadeCancelFlags BY <2>5 DEF FadeCancelFlags, RequestStopFlags
  <2>6. CASE FadeCancelLocked
    BY <2>6 DEF FadeCancelLocked, RequestStopLocked, LockFree, CancelSeekLocked
  <2>7. CASE FadeCancelDone BY <2>7 DEF FadeCancelDone, RequestStopDone
  <2> QED BY <1>4, <2>1, <2>2, <2>3, <2>4, <2>5, <2>6, <2>7 DEF FadeStep
<1>5. CASE UNCHANGED vars BY <1>5 DEF vars
<1> QED BY <1>1, <1>2, <1>3, <1>4, <1>5 DEF Next

\* A track that plays is heard or on its way to unity gain, with any output and
\* any fades except a pause fade without a play fade.
THEOREM PlayingTracksAreHeard == FadesPaired => (Spec => []PlayingIsAudible)
<1> SUFFICES ASSUME FadesPaired PROVE Spec => []PlayingIsAudible
  OBVIOUS
<1>1. Init => Audible
  BY DEF Init, Audible, PauseFadeChosen, HeardWhilePlaying, Heard
<1>2. Inductive /\ Audible /\ [Next]_vars => Audible'
  BY AudibleStep DEF Inductive
<1>3. Audible => PlayingIsAudible
  BY DEF Audible, HeardWhilePlaying, Heard, PlayingIsAudible
<1> QED BY <1>1, <1>2, <1>3, InductiveInvariant, PTL DEF Spec

-----------------------------------------------------------------------------
(* Seeks of the MIDI loop.                                                 *)

\* MIDI has no fades, so that only the window thread asks for a stop; a seek that
\* is accepted and neither stopped nor failed belongs to a track that is active,
\* and then the worker is still in the loop that will answer it.
AnsweringPcs == {"loop", "seek_reset", "seek_fill", "pump", "clock", "failing"}
MidiSeekOwned ==
    /\ ~fadePending /\ fadePc = "ramp"
    /\ ~stopRequested /\ Active => workerPc \in AnsweringPcs
    /\ pendingSeek # None /\ ~stopRequested /\ state # "failed" => Active

\* No step of the MIDI engine leaves an accepted seek without its worker.
LEMMA MidiStep ==
    ASSUME Backend = "midi", TypeOK, Control, MidiSeekOwned, [Next]_vars
    PROVE  MidiSeekOwned'
<1> USE DEF TypeOK, Control, WorkersCounted, Canceled, OpeningIsQuiet,
         CancelingPcs, CanceledPcs, MidiSeekOwned, AnsweringPcs, WorkerGone, None,
         Active, SupportsFade, seekVars, fadeVars, openVars, deviceVars, loopVars,
         uiVars, ghostVars, workerFrame, fadeFrame
<1>1. CASE UiContinue
  <2>1. CASE UiCancelLocked
    BY <2>1 DEF UiCancelLocked, RequestStopLocked, LockFree, CancelSeekLocked
  <2>2. CASE UiCancelDone BY <2>2 DEF UiCancelDone, RequestStopDone
  <2>3. CASE UiSignalOpenComplete BY <2>3 DEF UiSignalOpenComplete, LockFree
  <2>4. ASSUME NEW joined \in BOOLEAN, UiReap(joined)
        PROVE  MidiSeekOwned'
    BY <2>4 DEF UiReap, ReapWorker
  <2>5. CASE UiRefusePlay
    BY <2>5 DEF UiRefusePlay, LockFree, WorkerReplaceable, SetError,
       CancelSeekLocked
  <2>6. CASE UiPrepareOpen BY <2>6 DEF UiPrepareOpen, WorkerReplaceable
  <2>7. CASE UiResetOpen BY <2>7 DEF UiResetOpen, LockFree
  <2>8. ASSUME NEW async \in BOOLEAN, UiSpawn(async)
        PROVE  MidiSeekOwned'
    BY <2>8 DEF UiSpawn
  <2>9. CASE UiSpawnFails
    BY <2>9 DEF UiSpawnFails, LockFree, SetError, CancelSeekLocked
  <2>10. CASE UiOpened BY <2>10 DEF UiOpened, LockFree
  <2>11. CASE UiOpenTimeout BY <2>11 DEF UiOpenTimeout, LockFree, RequestStopFlags
  <2>12. CASE UiOpenTimeoutError
    BY <2>12 DEF UiOpenTimeoutError, LockFree, SetError, CancelSeekLocked
  <2>13. ASSUME NEW target \in Positions, NEW paused \in BOOLEAN,
                UiRestore(target, paused)
         PROVE  MidiSeekOwned'
    BY <2>13 DEF UiRestore, LockFree, QueueSeekLocked, SharedHandle
  <2>14. CASE UiJoin BY <2>14 DEF UiJoin
  <2> QED BY <1>1, <2>1, <2>2, <2>3, <2>4, <2>5, <2>6, <2>7, <2>8, <2>9, <2>10,
          <2>11, <2>12, <2>13, <2>14 DEF UiContinue
<1>2. CASE UiCommand
  <2>1. ASSUME NEW op \in {"play", "restart", "stop", "stop_and_wait", "stop_async"},
               UiRequestStop(op)
        PROVE  MidiSeekOwned'
    BY <2>1 DEF UiRequestStop, RequestStopFlags
  <2>2. CASE UiTryReapStopped BY <2>2 DEF UiTryReapStopped
  <2>3. CASE UiPause
    BY <2>3 DEF UiPause, LockFree, QueueFadeLocked,
       OutputControllable, SharedHandle
  <2>4. CASE UiResume
    BY <2>4 DEF UiResume, LockFree, OutputControllable, SharedHandle, SupportsFade,
       QueueFadeLocked
  <2>5. ASSUME NEW target \in Positions, UiSeekOpening(target)
        PROVE  MidiSeekOwned'
    BY <2>5 DEF UiSeekOpening, LockFree
  <2>6. ASSUME NEW target \in Positions, NEW allowFade \in BOOLEAN,
               UiSeek(target, allowFade)
        PROVE  MidiSeekOwned'
    BY <2>6 DEF UiSeek, LockFree, QueueFadeLocked, CancelSeekFade,
       QueueSeekLocked
  <2>7. CASE UiBeginStopFade
    BY <2>7 DEF UiBeginStopFade, LockFree, QueueFadeLocked
  <2> QED BY <1>2, <2>1, <2>2, <2>3, <2>4, <2>5, <2>6, <2>7 DEF UiCommand,
        UiSeekCommand
<1>3. CASE WorkerStep
  <2>1. CASE WorkerRegister BY <2>1 DEF WorkerRegister
  <2>2. CASE WorkerBeginPublish BY <2>2 DEF WorkerBeginPublish
  <2>3. CASE WorkerPublishOpened
    BY <2>3 DEF WorkerPublishOpened, SharedHandle, QueueSeekLocked, QueueFadeLocked
  <2>4. CASE WorkerTakeSeek BY <2>4 DEF WorkerTakeSeek
  <2>5. CASE WorkerResetOutput BY <2>5 DEF WorkerResetOutput, CompleteSeek
  <2>6. CASE WorkerFinishSeek BY <2>6 DEF WorkerFinishSeek, CompleteSeek
  <2>7. CASE WorkerPump BY <2>7 DEF WorkerPump, SinkPaused
  <2>8. CASE WorkerPublishPosition
    BY <2>8 DEF WorkerPublishPosition, BoundPlaybackClock
  <2>9. CASE WorkerEndOfTrack BY <2>9 DEF WorkerEndOfTrack, EndAccepted
  <2>10. CASE WorkerFails BY <2>10 DEF WorkerFails, WorkerOperation
  <2>11. CASE WorkerGivesUp BY <2>11 DEF WorkerGivesUp, WorkerOperation
  <2>12. CASE WorkerSetError BY <2>12 DEF WorkerSetError, SetError, CancelSeekLocked
  <2>13. CASE WorkerRevoke BY <2>13 DEF WorkerRevoke, RevokeSharedHandle
  <2>14. CASE WorkerClose BY <2>14 DEF WorkerClose, StateAfterCleanup
  <2>15. CASE WorkerCancelSeek BY <2>15 DEF WorkerCancelSeek, CancelSeekLocked
  <2>16. CASE WorkerExit BY <2>16 DEF WorkerExit
  <2> QED BY <1>3, <2>1, <2>2, <2>3, <2>4, <2>5, <2>6, <2>7, <2>8, <2>9, <2>10,
          <2>11, <2>12, <2>13, <2>14, <2>15, <2>16 DEF WorkerStep
<1>4. CASE FadeStep
  <2>1. CASE FadeInEnds BY <2>1 DEF FadeInEnds, FadeEnds, LockFree
  <2>2. ASSUME NEW accepted \in BOOLEAN, FadePauseEnds(accepted)
        PROVE  MidiSeekOwned'
    BY <2>2 DEF FadePauseEnds, FadeEnds, LockFree, SharedHandle
  <2>3. CASE FadeSeekEnds
    BY <2>3 DEF FadeSeekEnds, FadeEnds, LockFree, QueueSeekLocked, QueueFadeLocked
  <2>4. CASE FadeStopEnds BY <2>4 DEF FadeStopEnds, FadeEnds, LockFree
  <2>5. CASE FadeCancelFlags BY <2>5 DEF FadeCancelFlags, RequestStopFlags
  <2>6. CASE FadeCancelLocked
    BY <2>6 DEF FadeCancelLocked, RequestStopLocked, LockFree, CancelSeekLocked
  <2>7. CASE FadeCancelDone BY <2>7 DEF FadeCancelDone, RequestStopDone
  <2> QED BY <1>4, <2>1, <2>2, <2>3, <2>4, <2>5, <2>6, <2>7 DEF FadeStep
<1>5. CASE UNCHANGED vars BY <1>5 DEF vars
<1> QED BY <1>1, <1>2, <1>3, <1>4, <1>5 DEF Next

\* A step that releases a seek answers it, or belongs to a stop or a failure.
LEMMA MidiHonoursStep ==
    ASSUME Backend = "midi", Inductive, MidiSeekOwned, [Next]_vars
    PROVE  SeekHonoured
<1> USE DEF Inductive, Control, SeekAgreed, Canceled, CancelingPcs, CanceledPcs,
         MidiSeekOwned, AnsweringPcs, SeekHonoured, WorkerGone, None, Active, seekVars,
         fadeVars, openVars, deviceVars, loopVars, uiVars, ghostVars, workerFrame,
         fadeFrame
<1>1. CASE UiContinue
  <2>1. CASE UiCancelLocked
    BY <2>1 DEF UiCancelLocked, RequestStopLocked, LockFree, CancelSeekLocked
  <2>2. CASE UiCancelDone BY <2>2 DEF UiCancelDone, RequestStopDone
  <2>3. CASE UiSignalOpenComplete BY <2>3 DEF UiSignalOpenComplete, LockFree
  <2>4. ASSUME NEW joined \in BOOLEAN, UiReap(joined)
        PROVE  SeekHonoured
    BY <2>4 DEF UiReap, ReapWorker
  <2>5. CASE UiRefusePlay
    BY <2>5 DEF UiRefusePlay, LockFree, WorkerReplaceable, SetError,
       CancelSeekLocked
  <2>6. CASE UiPrepareOpen BY <2>6 DEF UiPrepareOpen, WorkerReplaceable
  <2>7. CASE UiResetOpen BY <2>7 DEF UiResetOpen, LockFree
  <2>8. ASSUME NEW async \in BOOLEAN, UiSpawn(async)
        PROVE  SeekHonoured
    BY <2>8 DEF UiSpawn
  <2>9. CASE UiSpawnFails
    BY <2>9 DEF UiSpawnFails, LockFree, SetError, CancelSeekLocked
  <2>10. CASE UiOpened BY <2>10 DEF UiOpened, LockFree
  <2>11. CASE UiOpenTimeout BY <2>11 DEF UiOpenTimeout, LockFree, RequestStopFlags
  <2>12. CASE UiOpenTimeoutError
    BY <2>12 DEF UiOpenTimeoutError, LockFree, SetError, CancelSeekLocked
  <2>13. ASSUME NEW target \in Positions, NEW paused \in BOOLEAN,
                UiRestore(target, paused)
         PROVE  SeekHonoured
    <3> target # None
      BY DurationAssumption DEF Positions
    <3> QED BY <2>13 DEF UiRestore, QueueSeekLocked
  <2>14. CASE UiJoin BY <2>14 DEF UiJoin
  <2> QED BY <1>1, <2>1, <2>2, <2>3, <2>4, <2>5, <2>6, <2>7, <2>8, <2>9, <2>10,
          <2>11, <2>12, <2>13, <2>14 DEF UiContinue
<1>2. CASE UiCommand
  <2>1. ASSUME NEW op \in {"play", "restart", "stop", "stop_and_wait", "stop_async"},
               UiRequestStop(op)
        PROVE  SeekHonoured
    BY <2>1 DEF UiRequestStop, RequestStopFlags
  <2>2. CASE UiTryReapStopped BY <2>2 DEF UiTryReapStopped
  <2>3. CASE UiPause
    BY <2>3 DEF UiPause, LockFree, SupportsFade, QueueFadeLocked,
       OutputControllable, SharedHandle
  <2>4. CASE UiResume
    BY <2>4 DEF UiResume, LockFree, OutputControllable, SharedHandle, SupportsFade,
       QueueFadeLocked
  <2>5. ASSUME NEW target \in Positions, UiSeekOpening(target)
        PROVE  SeekHonoured
    BY <2>5 DEF UiSeekOpening, LockFree
  <2>6. ASSUME NEW target \in Positions, NEW allowFade \in BOOLEAN,
               UiSeek(target, allowFade)
        PROVE  SeekHonoured
    <3> target # None
      BY DurationAssumption DEF Positions
    <3> QED BY <2>6 DEF UiSeek, QueueFadeLocked, CancelSeekFade, QueueSeekLocked
  <2>7. CASE UiBeginStopFade
    BY <2>7 DEF UiBeginStopFade, LockFree, SupportsFade, QueueFadeLocked
  <2> QED BY <1>2, <2>1, <2>2, <2>3, <2>4, <2>5, <2>6, <2>7 DEF UiCommand,
        UiSeekCommand
<1>3. CASE WorkerStep
  <2>1. CASE WorkerRegister BY <2>1 DEF WorkerRegister
  <2>2. CASE WorkerBeginPublish BY <2>2 DEF WorkerBeginPublish
  <2>3. CASE WorkerPublishOpened
    BY <2>3 DEF WorkerPublishOpened, SharedHandle, QueueSeekLocked, QueueFadeLocked
  <2>4. CASE WorkerTakeSeek BY <2>4 DEF WorkerTakeSeek
  <2>5. CASE WorkerResetOutput BY <2>5 DEF WorkerResetOutput, CompleteSeek
  <2>6. CASE WorkerFinishSeek BY <2>6 DEF WorkerFinishSeek, CompleteSeek
  <2>7. CASE WorkerPump BY <2>7 DEF WorkerPump, SinkPaused
  <2>8. CASE WorkerPublishPosition
    BY <2>8 DEF WorkerPublishPosition, BoundPlaybackClock
  <2>9. CASE WorkerEndOfTrack BY <2>9 DEF WorkerEndOfTrack, EndAccepted
  <2>10. CASE WorkerFails BY <2>10 DEF WorkerFails, WorkerOperation
  <2>11. CASE WorkerGivesUp BY <2>11 DEF WorkerGivesUp, WorkerOperation
  <2>12. CASE WorkerSetError BY <2>12 DEF WorkerSetError, SetError, CancelSeekLocked
  <2>13. CASE WorkerRevoke BY <2>13 DEF WorkerRevoke, RevokeSharedHandle
  <2>14. CASE WorkerClose BY <2>14 DEF WorkerClose, StateAfterCleanup
  <2>15. CASE WorkerCancelSeek BY <2>15 DEF WorkerCancelSeek, CancelSeekLocked
  <2>16. CASE WorkerExit BY <2>16 DEF WorkerExit
  <2> QED BY <1>3, <2>1, <2>2, <2>3, <2>4, <2>5, <2>6, <2>7, <2>8, <2>9, <2>10,
          <2>11, <2>12, <2>13, <2>14, <2>15, <2>16 DEF WorkerStep
<1>4. CASE FadeStep
  <2>1. CASE FadeInEnds BY <2>1 DEF FadeInEnds, FadeEnds, LockFree
  <2>2. ASSUME NEW accepted \in BOOLEAN, FadePauseEnds(accepted)
        PROVE  SeekHonoured
    BY <2>2 DEF FadePauseEnds, FadeEnds, LockFree, SharedHandle
  <2>3. CASE FadeSeekEnds
    BY <2>3 DEF FadeSeekEnds, FadeEnds, LockFree, QueueSeekLocked, QueueFadeLocked
  <2>4. CASE FadeStopEnds BY <2>4 DEF FadeStopEnds, FadeEnds, LockFree
  <2>5. CASE FadeCancelFlags BY <2>5 DEF FadeCancelFlags, RequestStopFlags
  <2>6. CASE FadeCancelLocked
    BY <2>6 DEF FadeCancelLocked, RequestStopLocked, LockFree, CancelSeekLocked
  <2>7. CASE FadeCancelDone BY <2>7 DEF FadeCancelDone, RequestStopDone
  <2> QED BY <1>4, <2>1, <2>2, <2>3, <2>4, <2>5, <2>6, <2>7 DEF FadeStep
<1>5. CASE UNCHANGED vars BY <1>5 DEF vars
<1> QED BY <1>1, <1>2, <1>3, <1>4, <1>5 DEF Next

\* The MIDI loop never lets the natural end of the old timeline discard a seek that
\* was accepted, however many positions the track has (AcceptedSeekIsHonoured in
\* MCAudioOutputs checks it for one).
THEOREM MidiSeeksAreHonoured == Backend = "midi" => (Spec => [][SeekHonoured]_vars)
<1> SUFFICES ASSUME Backend = "midi" PROVE Spec => [][SeekHonoured]_vars
  OBVIOUS
<1>1. Init => MidiSeekOwned
  BY DEF Init, MidiSeekOwned, Active, None
<1>2. Inductive /\ MidiSeekOwned /\ [Next]_vars => MidiSeekOwned'
  BY MidiStep DEF Inductive
<1>3. Inductive /\ MidiSeekOwned /\ [Next]_vars => [SeekHonoured]_vars
  BY MidiHonoursStep
<1> QED BY <1>1, <1>2, <1>3, InductiveInvariant, PTL DEF Spec

=============================================================================
