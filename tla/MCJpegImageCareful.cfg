SPECIFICATION CarefulSpec
CONSTANTS
    Sources <- MCSources
    Regions <- MCRegions
    Sizes   <- MCSizes
    Angles  <- MCAngles
PROPERTY
    ImplementsEagerImage
