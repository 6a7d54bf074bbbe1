--------------------------- MODULE MCPatchBuilder ---------------------------
(* PatchBuilder for TLC: a document is cataloged with any facts, repeatedly. *)
EXTENDS PatchBuilder

CONSTANTS todo, failed

VARIABLE doc

Init == doc \in [fields : FieldValues, tags : SUBSET TagIDs]

Catalog(facts) ==
    LET patch == FactsPatch(doc, facts, todo, failed)
    IN  doc' = [fields |-> PatchedFields(doc, patch), tags |-> PatchedTags(doc, patch)]

Next == \E facts \in Facts : Catalog(facts)

Spec == Init /\ [][Next]_doc

\* Every patch takes the document to what the facts want (see ReachesFacts).
PatchesReachFacts == \A facts \in Facts : ReachesFacts(doc, facts, todo, failed)

\* No patch repeats what the document has (see OnlyChanges).
PatchesOnlyChange == \A facts \in Facts : OnlyChanges(doc, facts, todo, failed)
=============================================================================
