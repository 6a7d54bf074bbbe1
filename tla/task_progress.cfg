SPECIFICATION FairSpec
CONSTANTS
    title = title
    correspondent = correspondent
    v1 = v1
    v2 = v2
    todo = todo
    failed = failed
    other = other
    scan = scan
    huge = huge
    ScalarFields = {title}
    ObjectFields = {correspondent}
    Values = {v1, v2}
    Nil = Nil
    Keep = Keep
    TagIDs = {todo, failed, other}
    Docs = {1}
    Files = {scan, huge}
    TooLargeFiles = {huge}
    TodoTag = todo
    FailedTag = failed
    FactsChoices <- MCOneFactsChoice
    InitialDocs <- MCOneInitialDoc
    RetriesMax = 1
    PollInterval = 1
    PruneAfter = 7
    PromptPolls = TRUE
    RetryCap = 3
    MaxEdits = 1
    MaxFaults = 1
    MaxCrashes = 1
INVARIANTS
    RetryLimit
PROPERTIES
    TodoEventuallyCleared
