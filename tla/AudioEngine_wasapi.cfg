CONSTANTS
    Backend = "wasapi"
    FadeModes <- NoPauseFade
    Duration = 1
SPECIFICATION PlaybackSpec
INVARIANT
    EndedTrackNotPlaying
PROPERTY
    SeekIsAnswered
