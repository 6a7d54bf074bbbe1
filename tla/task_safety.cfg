SPECIFICATION Spec
CONSTANTS
    title = title
    correspondent = correspondent
    v1 = v1
    v2 = v2
    todo = todo
    failed = failed
    other = other
    scan = scan
    huge = huge
    ScalarFields = {title}
    ObjectFields = {correspondent}
    Values = {v1, v2}
    Nil = Nil
    Keep = Keep
    TagIDs = {todo, failed, other}
    Docs = {1}
    Files = {scan, huge}
    TooLargeFiles = {huge}
    TodoTag = todo
    FailedTag = failed
    FactsChoices <- MCFactsChoices
    InitialDocs <- MCInitialDocs
    RetriesMax = 1
    PollInterval = 1
    PruneAfter = 5
    PromptPolls = FALSE
    RetryCap = 2
    MaxEdits = 1
    MaxFaults = 1
    MaxCrashes = 1
INVARIANTS
    TypeOK
    NoLostUpdate
    NeverFailAfterApply
    ExhaustedBeforeFailed
    BackoffRespected
PROPERTIES
    DaemonClearsTodo
    PromiseKept
    DispatchServed
