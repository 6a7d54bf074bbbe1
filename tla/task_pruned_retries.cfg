SPECIFICATION Spec
CONSTANTS
    title = title
    correspondent = correspondent
    v1 = v1
    v2 = v2
    todo = todo
    failed = failed
    other = other
    scan = scan
    huge = huge
    ScalarFields = {title}
    ObjectFields = {correspondent}
    Values = {v1, v2}
    Nil = Nil
    Keep = Keep
    TagIDs = {todo, failed, other}
    Docs = {1}
    Files = {scan, huge}
    TooLargeFiles = {huge}
    TodoTag = todo
    FailedTag = failed
    FactsChoices <- MCOneFactsChoice
    InitialDocs <- MCOneInitialDoc
    RetriesMax = 8
    PollInterval = 1
    PruneAfter = 24
    PromptPolls = TRUE
    RetryCap = 9
    MaxEdits = 0
    MaxFaults = 0
    MaxCrashes = 0
INVARIANTS
    RetryLimit
