CONSTANTS
    Backend = "wave_out"
    FadeModes <- PauseFadeOnly
    Duration = 1
SPECIFICATION Spec
INVARIANT
    TargetCanBeAcknowledged
