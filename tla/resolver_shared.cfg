SPECIFICATION FairSpec
CONSTANTS
    c1 = c1
    c2 = c2
    lower = lower
    upper = upper
    Callers = {c1, c2}
    Names = {lower, upper}
    Fold <- MCFold
    CanCreate = TRUE
    Unique = FALSE
    MaxObjects = 3
    MaxEdits = 2
    MaxFaults = 1
INVARIANTS
    TypeOK
    NoDuplicates
    StableIdentity
PROPERTIES
    CallsReturn
