SPECIFICATION Spec
CONSTANTS
    MaxInt = 30000
    Repositories <- MCRepositories
    WritableFormats <- MCWritableFormats
    Requests <- FindingRequests
INVARIANT
    MirroringIsAppliedBeforeRotation
