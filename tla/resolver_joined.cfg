SPECIFICATION Spec
CONSTANTS
    c1 = c1
    c2 = c2
    lower = lower
    upper = upper
    Callers = {c1, c2}
    Names = {lower}
    Fold <- MCFold
    CanCreate = TRUE
    Unique = TRUE
    MaxObjects = 3
    MaxEdits = 0
    MaxFaults = 0
INVARIANTS
    CreateMeansFound
