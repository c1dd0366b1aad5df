SPECIFICATION Spec
CONSTANTS
    Sources <- MCSources
    Regions <- MCRegions
    Sizes   <- MCSizes
    Angles  <- MCAngles
INVARIANTS
    TypeOK
    PendingRectFits
    ShowsPartOfFrame
PROPERTIES
    RefusedCallKeepsPicture
    OrdersAreAppliedOnce
    GrayIsNeverForgotten
