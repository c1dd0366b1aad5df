SPECIFICATION Spec
CONSTANTS
    MaxInt = 30000
    Repositories <- MCRepositories
    WritableFormats <- MCWritableFormats
    Requests <- MCRequests
INVARIANTS
    ServedAsRequested
    BadRequestsAreExplained
    NotFoundIsExplained
    UnsupportedIsExplained
    ServerErrorsAreExplained
PROPERTY
    EveryRequestIsAnswered
