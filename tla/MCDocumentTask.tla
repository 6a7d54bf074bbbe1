--------------------------- MODULE MCDocumentTask ---------------------------
(* Small instances of DocumentTask for TLC. *)
EXTENDS DocumentTask

CONSTANTS title, correspondent, v1, v2, todo, failed, other, scan, huge

MCFacts(t, c, set, unset) ==
    [fields    |-> [f \in Fields |-> IF f = title THEN t ELSE c],
     setTags   |-> set, unsetTags |-> unset]

\* No facts; a title and a tag, and another one removed; a reference cleared
\* by facts that also ask for the daemon's own tags.
MCFactsChoices == {
    MCFacts(Keep, Keep, {}, {}),
    MCFacts(v2, v1, {other}, {failed}),
    MCFacts(v1, Nil, {todo, failed}, {other}) }

MCOneFactsChoice == { MCFacts(v2, v1, {other}, {failed}) }

MCDoc(tags) == [fields |-> [f \in Fields |-> v1], tags |-> tags, modified |-> 0, file |-> scan]

MCOneInitialDoc == { MCDoc({todo}) }

MCInitialDocs == { MCDoc(tags) : tags \in { {todo}, {todo, failed, other} } }
=============================================================================
