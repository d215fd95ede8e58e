SPECIFICATION Spec
PROPERTIES
    PauseReachesOutput
    AcceptedSeekIsHonoured
