CONSTANTS
    Sounds <- MCSounds
    Strays <- MCStrays
    Span = 5
    MaxCalls = 2
SPECIFICATION Spec
INVARIANTS
    TypeOK
    SoundFilesAreServed
    SilenceIsJustified
    IntactSegmentsLand
    KeepsTheMarkers
    KeepsTheColours
PROPERTY
    EveryCallEnds
CHECK_DEADLOCK FALSE
