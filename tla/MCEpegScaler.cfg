SPECIFICATION Spec
CONSTANTS
    Files <- MCFiles
    Sizes <- MCSizes
    BufferSize = 3
    SizeLimit = 9
    Word = 256
INVARIANTS
    NoPointerDangles
    EverythingIsReleased
    ScalesAsIfAside
    DeliversTheWholeFile
    LostForACause
PROPERTIES
    EveryCallEnds
