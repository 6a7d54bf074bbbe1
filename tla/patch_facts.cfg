SPECIFICATION Spec
CONSTANTS
    todo = todo
    failed = failed
    ScalarFields = {title}
    ObjectFields = {correspondent, storage_path}
    Values = {v1, v2}
    Nil = Nil
    Keep = Keep
    TagIDs = {todo, failed, other}
INVARIANT PatchesReachFacts
