------------------------- MODULE MCPatchBuilderProofs -------------------------
(* A document that is cataloged again and again, with any facts.           *)
EXTENDS MCPatchBuilder, PatchBuilderProofs

\* However often the document is patched (Catalog), it stays one whose scalar
\* fields are not null and whose tags are known.
DocumentType == doc \in [fields : FieldValues, tags : SUBSET TagIDs]

\* A patched document is a document (build, and the server that serves the patch).
LEMMA CatalogKeepsType ==
    ASSUME DocumentType, NEW facts \in Facts, Catalog(facts)
    PROVE  DocumentType'
<1> DEFINE patch == FactsPatch(doc, facts, todo, failed)
<1>1. doc.fields \in FieldValues /\ doc.tags \in SUBSET TagIDs
  BY DEF DocumentType
<1>2. patch \in Patch
  BY <1>1, FactsPatchType
<1>3. /\ PatchedFields(doc, patch) \in FieldValues
      /\ PatchedTags(doc, patch) \in SUBSET TagIDs
  BY <1>1, <1>2, PatchedType
<1>4. doc' = [fields |-> PatchedFields(doc, patch), tags |-> PatchedTags(doc, patch)]
  BY DEF Catalog
<1>5. QED
  BY <1>3, <1>4 DEF DocumentType

\* Whatever was patched into the document before, the patch for any facts takes
\* it to what these want: no sequence of patches builds up a document of which
\* build leaves out a fact (setFacts, patchOptionalValue, build).
THEOREM PatchesAlwaysReachFacts == Spec => []PatchesReachFacts
<1>1. Init => DocumentType
  BY DEF Init, DocumentType
<1>2. DocumentType /\ [Next]_doc => DocumentType'
  <2> SUFFICES ASSUME DocumentType, [Next]_doc
               PROVE  DocumentType'
    OBVIOUS
  <2>1. ASSUME NEW facts \in Facts, Catalog(facts)
        PROVE  DocumentType'
    BY <2>1, CatalogKeepsType
  <2>2. CASE UNCHANGED doc
    BY <2>2 DEF DocumentType
  <2>3. QED
    BY <2>1, <2>2 DEF Next
<1>3. DocumentType => PatchesReachFacts
  <2> SUFFICES ASSUME DocumentType, NEW facts \in Facts
               PROVE  ReachesFacts(doc, facts, todo, failed)
    BY DEF PatchesReachFacts
  <2>1. doc.fields \in FieldValues
    BY DEF DocumentType
  <2>2. QED
    BY <2>1, PatchReachesFacts
<1>4. QED
  BY <1>1, <1>2, <1>3, PTL DEF Spec
=============================================================================
