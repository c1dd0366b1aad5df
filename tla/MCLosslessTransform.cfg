SPECIFICATION Spec
CONSTANTS
    DCTSIZE = 2
    Slack = 4
    TableBytes = 3
    Images <- MCImages
    Requests <- MCRequests
INVARIANTS
    ArraysSuffice
    MovesEverySample
    TooSmallForACause
    UnreadableForACause
