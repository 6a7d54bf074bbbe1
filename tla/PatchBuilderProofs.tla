------------------------- MODULE PatchBuilderProofs -------------------------
(* What the patch builder does, for all documents and facts. *)
EXTENDS PatchBuilder, TLAPS

\* What is wanted of a field is in the patch or left out.
LEMMA OptionalFieldsType ==
    ASSUME NEW want \in FieldFacts, NEW current
    PROVE  [f \in Fields |-> patchOptionalValue(f, want[f], current[f])] \in FieldFacts
<1> DEFINE fields == [f \in Fields |-> patchOptionalValue(f, want[f], current[f])]
<1>1. ASSUME NEW f \in Fields
      PROVE  /\ fields[f] \in Values \cup {Nil, Keep}
             /\ f \in ScalarFields => fields[f] # Nil
  <2>1. want[f] \in Values \cup {Nil, Keep} /\ (f \in ScalarFields => want[f] # Nil)
    BY DEF FieldFacts
  <2>2. fields[f] \in {want[f], Keep}
    BY DEF patchOptionalValue
  <2>3. CASE fields[f] = Keep
    <3>1. Keep # Nil
      BY KeepIsNoValue
    <3>2. QED
      BY <2>3, <3>1
  <2>4. QED
    BY <2>1, <2>2, <2>3
<1>2. fields \in [Fields -> Values \cup {Nil, Keep}]
  BY <1>1
<1>3. \A f \in ScalarFields : fields[f] # Nil
  BY <1>1 DEF Fields
<1>4. QED
  BY <1>2, <1>3 DEF FieldFacts

\* Wanting nothing is a wish for fields.
LEMMA NothingWantedType == [f \in Fields |-> Keep] \in FieldFacts
<1>1. Keep # Nil
  BY KeepIsNoValue
<1>2. QED
  BY <1>1 DEF FieldFacts, Fields

\* The patch of an attempt is a patch.
LEMMA FactsPatchType ==
    ASSUME NEW doc, doc.fields \in FieldValues, doc.tags \in SUBSET TagIDs,
           NEW facts \in Facts, NEW todo, NEW failed
    PROVE  FactsPatch(doc, facts, todo, failed) \in Patch
<1>1. facts.fields \in FieldFacts
  BY DEF Facts
<1>2. FactsPatch(doc, facts, todo, failed).fields =
         [f \in Fields |-> patchOptionalValue(f, facts.fields[f], doc.fields[f])]
  BY DEF FactsPatch, build, unsetTag, setFacts, newPatchBuilder
<1>3. FactsPatch(doc, facts, todo, failed).fields \in FieldFacts
  BY <1>1, <1>2, OptionalFieldsType
<1>4. QED
  <2> HIDE DEF FieldFacts
  <2>1. QED
    BY <1>3 DEF FactsPatch, build, unsetTag, setFacts, newPatchBuilder, Facts, Patch

\* So is the one that marks a document failed.
LEMMA FailPatchType ==
    ASSUME NEW doc, doc.fields \in FieldValues, doc.tags \in SUBSET TagIDs,
           NEW todo, NEW failed \in TagIDs
    PROVE  FailPatch(doc, todo, failed) \in Patch
<1> DEFINE want == [f \in Fields |-> Keep]
<1>1. FailPatch(doc, todo, failed).fields =
         [f \in Fields |-> patchOptionalValue(f, want[f], doc.fields[f])]
  BY DEF FailPatch, build, setTag, unsetTag, newPatchBuilder
<1>2. FailPatch(doc, todo, failed).fields \in FieldFacts
  <2>1. want \in FieldFacts
    BY NothingWantedType
  <2>2. QED
    <3> HIDE DEF want
    <3>1. QED
      BY <1>1, <2>1, OptionalFieldsType
<1>3. QED
  BY <1>2 DEF FailPatch, build, setTag, unsetTag, newPatchBuilder, Patch

\* A patched document has fields and tags.
LEMMA PatchedType ==
    ASSUME NEW doc, doc.fields \in FieldValues, doc.tags \in SUBSET TagIDs,
           NEW patch \in Patch
    PROVE  /\ PatchedFields(doc, patch) \in FieldValues
           /\ PatchedTags(doc, patch) \in SUBSET TagIDs
<1>1. ASSUME NEW f \in Fields
      PROVE  /\ PatchedFields(doc, patch)[f] \in Values \cup {Nil}
             /\ f \in ScalarFields => PatchedFields(doc, patch)[f] # Nil
  <2>1. doc.fields[f] \in Values \cup {Nil} /\ (f \in ScalarFields => doc.fields[f] # Nil)
    BY DEF FieldValues
  <2>2. /\ patch.fields[f] \in Values \cup {Nil, Keep}
        /\ f \in ScalarFields => patch.fields[f] # Nil
    BY DEF Patch, FieldFacts
  <2>3. QED
    BY <2>1, <2>2 DEF PatchedFields
<1>2. PatchedFields(doc, patch) \in [Fields -> Values \cup {Nil}]
  BY <1>1 DEF PatchedFields
<1>3. PatchedFields(doc, patch) \in FieldValues
  BY <1>1, <1>2 DEF FieldValues, Fields
<1>4. QED
  BY <1>3 DEF PatchedTags, Patch

\* Serving the patch of an attempt leaves the document as the facts want it,
\* whatever build leaves out, and with neither of the daemon's own tags.
THEOREM PatchReachesFacts ==
    ASSUME NEW doc, doc.fields \in FieldValues, NEW facts \in Facts,
           NEW todo, NEW failed
    PROVE  ReachesFacts(doc, facts, todo, failed)
<1> DEFINE patch == FactsPatch(doc, facts, todo, failed)
<1>1. ASSUME NEW f \in Fields
      PROVE  PatchedFields(doc, patch)[f] =
                IF facts.fields[f] = Keep THEN doc.fields[f] ELSE facts.fields[f]
  BY DEF FactsPatch, build, unsetTag, setFacts, newPatchBuilder,
         patchOptionalValue, PatchedFields, Facts, FieldFacts, FieldValues
<1>2. PatchedFields(doc, patch) =
         WantedFields(doc, facts)
  BY <1>1 DEF PatchedFields, WantedFields
<1>3. PatchedTags(doc, patch) = WantedTags(doc, facts, todo, failed)
  BY DEF FactsPatch, build, unsetTag, setFacts, newPatchBuilder,
         PatchedTags, WantedTags
<1>4. QED
  BY <1>2, <1>3 DEF ReachesFacts

\* An empty patch, for which no request is made, means that the document is
\* already as the facts want it (patchDocument's early return).
THEOREM EmptyPatchMeansDone ==
    ASSUME NEW doc, doc.fields \in FieldValues, NEW facts \in Facts,
           NEW todo, NEW failed,
           IsEmptyPatch(FactsPatch(doc, facts, todo, failed))
    PROVE  /\ WantedTags(doc, facts, todo, failed) = doc.tags
           /\ \A f \in Fields :
                 facts.fields[f] = Keep \/ facts.fields[f] = doc.fields[f]
<1> DEFINE patch == FactsPatch(doc, facts, todo, failed)
<1>1. WantedTags(doc, facts, todo, failed) = doc.tags
  <2>1. PatchedTags(doc, patch) = doc.tags
    BY DEF IsEmptyPatch, PatchedTags
  <2>2. QED
    BY <2>1, PatchReachesFacts DEF ReachesFacts
<1>2. ASSUME NEW f \in Fields, facts.fields[f] # Keep
      PROVE  facts.fields[f] = doc.fields[f]
  <2>1. PatchedFields(doc, patch)[f] = doc.fields[f]
    BY DEF IsEmptyPatch, PatchedFields
  <2>2. PatchedFields(doc, patch)[f] = facts.fields[f]
    BY PatchReachesFacts, <1>2 DEF ReachesFacts, WantedFields
  <2>3. QED
    BY <2>1, <2>2
<1>3. QED
  BY <1>1, <1>2
=============================================================================
