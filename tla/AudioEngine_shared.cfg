CONSTANTS
    Backend = "wave_out"
    FadeModes <- AllFades
    Duration = 1
SPECIFICATION FadeSpec
INVARIANTS
    TypeOK
    OneDecoder
    RegisteredHandleIsOpen
    PlayingIsAudible
PROPERTIES
    SeekAckIsLatest
    CommandsReturn
    StopFadeCompletes
