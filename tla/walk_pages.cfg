SPECIFICATION FairSpec
CONSTANTS
    Docs = {1, 2, 3, 4}
    PageSize = 2
    Workers = 2
    MaxEdits = 1
    MaxFaults = 1
INVARIANTS
    NoConcurrentAttempts
    OncePerWalk
    QuietPassComplete
PROPERTIES
    WalkEnds
    EveryDocumentAttempted
    DispatchKept
