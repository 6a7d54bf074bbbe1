-------------------------- MODULE CatalogingProofs --------------------------
(***************************************************************************)
(* DocumentTask implements Cataloging: every step of an attempt, of the    *)
(* users, the pruner or a restart is a step of Cataloging, or none.  In    *)
(* the same sense it implements Dispatch.                                  *)
(***************************************************************************)
EXTENDS DocumentTaskProofs

-----------------------------------------------------------------------------
(* The patch at hand is made of the document as listed.                    *)

PatchMade(d) ==
    Patching(d) =>
        \/ /\ job[d].mode = "apply"
           /\ \E facts \in FactsChoices :
                 job[d].patch = FactsPatch(job[d].listed, facts, TodoTag, FailedTag)
        \/ /\ job[d].mode = "fail"
           /\ job[d].patch = FailPatch(job[d].listed, TodoTag, FailedTag)

MadeInv == TypeOK /\ \A d \in Docs : PatchMade(d)

\* Nothing is claimed of an attempt without a patch.
LEMMA NoPatchStep ==
    ASSUME NEW d \in Docs, pc'[d] \notin {"checkDoc", "checkMeta", "patch"}
    PROVE  PatchMade(d)'
  BY DEF PatchMade, Patching

\* A failure is marked with the patch for that.
LEMMA FailingMade ==
    ASSUME TypeOK, NEW d \in Docs, NEW err, DoFailed(d, err)
    PROVE  PatchMade(d)'
<1>1. CASE pc'[d] = "save"
  BY <1>1, NoPatchStep
<1>2. CASE pc'[d] = "checkDoc"
  BY <1>2, DoFailedEffect DEF PatchMade, SameTask, failPatch
<1>3. QED
  BY <1>1, <1>2, DoFailedEffect

\* The steps of an attempt keep the patch they have, or make one.
LEMMA AttemptMade ==
    ASSUME TypeOK, NEW d \in Docs, PatchMade(d), Start(d) \/ Attempt(d)
    PROVE  PatchMade(d)'
<1>0. job[d] \in Job
  BY DEF TypeOK
<1>1. CASE Start(d) \/ LoadReady(d) \/ ResolveTags(d)
  BY <1>1, GotoEffect, NoPatchStep DEF Start, LoadReady, ResolveTags
<1>2. CASE LoadFails(d) \/ LoadSkips(d) \/ Save(d) \/ SaveFails(d)
  BY <1>2, GoIdleEffect, NoPatchStep DEF LoadFails, LoadSkips, Save, SaveFails
<1>3. CASE ResolveFails(d) \/ PatchDocument(d)
  BY <1>3, FinishEffect, NoPatchStep DEF ResolveFails, PatchDocument
<1>4. CASE SizeExceeded(d) \/ ExtractFails(d) \/ CheckFails(d) \/ PatchAnswerLost(d)
           \/ PatchFails(d)
  BY <1>4, FailingMade DEF SizeExceeded, ExtractFails, CheckFails, PatchAnswerLost,
     PatchFails
<1>5. CASE ExtractFacts(d)
  <2>1. PICK facts \in FactsChoices :
           patchDocument(d, "apply", applyPatch(d, facts), "none")
    BY <1>5 DEF ExtractFacts
  <2>2. CASE pc'[d] = "save"
    BY <2>2, NoPatchStep
  <2>3. CASE pc'[d] = "checkDoc"
    BY <2>1, <2>3, patchDocumentEffect DEF PatchMade, SameTask, applyPatch
  <2>4. QED
    BY <2>1, <2>2, <2>3, patchDocumentEffect
<1>6. CASE CheckDocument(d)
  <2> DEFINE same == Snapshot(docs[d]) = Snapshot(job[d].listed)
             j == [job[d] EXCEPT !.unchanged = same]
  <2>1. job'[d] = j /\ pc[d] = "checkDoc"
    BY <1>6, GotoEffect DEF CheckDocument
  <2>2. j.listed = job[d].listed /\ j.mode = job[d].mode /\ j.patch = job[d].patch
    BY <1>0 DEF Job
  <2>3. QED
    <3> HIDE DEF j, same
    <3>1. QED
      BY <2>1, <2>2 DEF PatchMade, Patching
<1>7. CASE CheckMetadata(d)
  <2>1. CASE DoFailed(d, "transient")
    BY <2>1, FailingMade
  <2>2. CASE Goto(d, "patch", job[d])
    BY <1>7, <2>2, GotoEffect DEF CheckMetadata, PatchMade, Patching
  <2>3. QED
    BY <1>7, <2>1, <2>2 DEF CheckMetadata
<1>8. QED
  BY <1>1, <1>2, <1>3, <1>4, <1>5, <1>6, <1>7 DEF Attempt

\* A patch at hand is one that applyFacts or markFailed makes.
LEMMA MadeInvariant == Spec => []MadeInv
<1>1. Init => MadeInv
  BY InitTypeOK DEF Init, MadeInv, PatchMade, Patching
<1>2. MadeInv /\ [Next]_vars => MadeInv'
  <2> SUFFICES ASSUME MadeInv, [Next]_vars
               PROVE  MadeInv'
    OBVIOUS
  <2> USE DEF MadeInv
  <2>1. ASSUME NEW d \in Docs, Start(d) \/ Attempt(d) \/ Environment(d)
        PROVE  MadeInv'
    <3>1. TypeOK'
      BY <2>1, AttemptTypeOK, EnvironmentTypeOK
    <3>2. PatchMade(d)'
      <4>1. CASE Environment(d)
        BY <4>1, EnvironmentEffect DEF PatchMade, Patching
      <4>2. QED
        BY <2>1, <4>1, AttemptMade
    <3>3. \A e \in Docs \ {d} : PatchMade(e)'
      BY <2>1, OthersSame DEF Same, PatchMade, Patching
    <3>4. QED
      BY <3>1, <3>2, <3>3
  <2>2. CASE Tick \/ Prune
    <3>1. UNCHANGED <<pc, job>>
      BY <2>2 DEF Tick, Prune
    <3>2. QED
      BY <2>2, <3>1, DaemonTypeOK DEF PatchMade, Patching
  <2>3. CASE Crash
    BY <2>3, DaemonTypeOK DEF Crash, PatchMade, Patching
  <2>4. CASE UNCHANGED vars
    BY <2>4 DEF vars, TypeOK, PatchMade, Patching
  <2>5. QED
    BY <2>1, <2>2, <2>3, <2>4 DEF Next
<1>3. QED
  BY <1>1, <1>2, PTL DEF Spec

-----------------------------------------------------------------------------
(* What the daemon believes a document to be.                              *)

\* The conflict check has seen the document unchanged, the PATCH is to come.
Window(d) == pc[d] = "patch" \/ (pc[d] = "checkMeta" /\ job[d].unchanged)

PromiseInv == ServerInv /\ TodoInv /\ MadeInv

\* After a passed check, that is the document as listed.
LEMMA BaseInWindow ==
    ASSUME TypeOK, NEW d \in Docs, ConflictInv(d), Window(d)
    PROVE  Base(d) = Seen(job[d].listed)
<1>1. CASE touched[d]
  BY <1>1 DEF Base, Window
<1>2. CASE ~touched[d]
  <2>1. job[d].listed.tags = docs[d].tags /\ job[d].listed.fields = docs[d].fields
    BY <1>2 DEF ConflictInv, CheckHolds, ListedKeepsUp, Window, Busy
  <2>2. QED
    BY <1>2, <2>1 DEF Base, Seen
<1>3. QED
  BY <1>1, <1>2

\* At other times it believes what is the case.
LEMMA BaseElsewhere ==
    ASSUME NEW d \in Docs, ~Window(d)
    PROVE  Base(d) = Seen(docs[d])
  BY DEF Base, Window

\* The same after a step that ends at another place.
LEMMA AwayStep ==
    ASSUME NEW d \in Docs, pc'[d] \notin {"checkMeta", "patch"}
    PROVE  Base(d)' = Seen(docs[d])'
  BY DEF Base

\* A change by others is noticed when it comes before the check, else not.
LEMMA ChangedBase ==
    ASSUME TypeOK, NEW d \in Docs, ConflictInv(d), Change(d)
    PROVE  /\ Window(d) => Base(d)' = Base(d)
           /\ ~Window(d) => Base(d) = Seen(docs[d]) /\ Base(d)' = Seen(docs[d])'
<1>1. UNCHANGED <<pc, job>> /\ touched'[d] = (pc[d] \in {"checkMeta", "patch"})
  BY ChangeEffect
<1>2. CASE Window(d)
  <2>1. Base(d)' = Seen(job[d].listed)
    BY <1>1, <1>2 DEF Base, Window
  <2>2. QED
    BY <1>2, <2>1, BaseInWindow
<1>3. CASE ~Window(d)
  BY <1>1, <1>3, BaseElsewhere DEF Base, Window
<1>4. QED
  BY <1>2, <1>3

-----------------------------------------------------------------------------
(* The steps of Cataloging.                                                *)

\* Where no document changes, the daemon has at most looked at some.
LEMMA LookStep ==
    ASSUME \A e \in Docs : /\ Seen(docs[e])' = Seen(docs[e])
                           /\ Base(e)' = Base(e) \/ Base(e)' = Seen(docs[e]),
           alive' = alive
    PROVE  Promise!Next
<1> DEFINE D == {e \in Docs : Base(e)' = Seen(docs[e])}
<1>1. D \in SUBSET Docs
  OBVIOUS
<1>2. Promise!Look(D)
  <2>1. [e \in Docs |-> Seen(docs[e])]' = [e \in Docs |-> Seen(docs[e])]
    OBVIOUS
  <2>2. \A e \in Docs : Base(e)' = IF e \in D THEN Seen(docs[e]) ELSE Base(e)
    OBVIOUS
  <2>3. QED
    BY <2>1, <2>2 DEF Promise!Look
<1>3. QED
  BY <1>1, <1>2 DEF Promise!Next

\* A document to be processed is written, the others are left alone.
LEMMA WriteStep ==
    ASSUME NEW d \in Docs, NEW fields, NEW tags,
           alive' = alive, alive[d], TodoTag \in Base(d).tags,
           Seen(docs[d])' = [fields |-> fields, tags |-> tags],
           Base(d)' = Seen(docs[d])',
           \A e \in Docs \ {d} : Seen(docs[e])' = Seen(docs[e]) /\ Base(e)' = Base(e)
    PROVE  Promise!Write(d, fields, tags)
<1>1. [e \in Docs |-> Seen(docs[e])]'
        = [[e \in Docs |-> Seen(docs[e])] EXCEPT ![d] = [fields |-> fields, tags |-> tags]]
  OBVIOUS
<1>2. [e \in Docs |-> Base(e)]'
        = [[e \in Docs |-> Base(e)] EXCEPT ![d] = [e \in Docs |-> Seen(docs[e])]'[d]]
  OBVIOUS
<1>3. QED
  BY <1>1, <1>2 DEF Promise!Write

\* What a PATCH with facts makes of the fields: those left out of it were
\* right in the document it was made of.
LEMMA FactsServed ==
    ASSUME NEW doc, NEW listed, NEW facts \in Facts
    PROVE  LET patch == FactsPatch(listed, facts, TodoTag, FailedTag)
               left  == {f \in Fields : facts.fields[f] # Keep /\ patch.fields[f] = Keep}
           IN  /\ left \in SUBSET {f \in Fields : facts.fields[f] = listed.fields[f]}
               /\ PatchedFields(doc, patch)
                    = [f \in Fields |-> IF facts.fields[f] = Keep \/ f \in left
                                        THEN doc.fields[f] ELSE facts.fields[f]]
               /\ patch.tags = WantedTags(listed, facts, TodoTag, FailedTag)
<1> DEFINE patch == FactsPatch(listed, facts, TodoTag, FailedTag)
           left  == {f \in Fields : facts.fields[f] # Keep /\ patch.fields[f] = Keep}
<1>1. ASSUME NEW f \in Fields
      PROVE  patch.fields[f] = patchOptionalValue(f, facts.fields[f], listed.fields[f])
  BY DEF FactsPatch, build, unsetTag, setFacts, newPatchBuilder
<1>2. patch.tags = WantedTags(listed, facts, TodoTag, FailedTag)
  BY DEF FactsPatch, build, unsetTag, setFacts, newPatchBuilder, WantedTags
<1>3. left \in SUBSET {f \in Fields : facts.fields[f] = listed.fields[f]}
  <2> HIDE DEF patch
  <2>1. QED
    BY <1>1 DEF patchOptionalValue
<1>4. PatchedFields(doc, patch)
        = [f \in Fields |-> IF facts.fields[f] = Keep \/ f \in left
                            THEN doc.fields[f] ELSE facts.fields[f]]
  <2> HIDE DEF patch
  <2>1. QED
    BY <1>1 DEF patchOptionalValue, PatchedFields
<1>5. QED
  BY <1>2, <1>3, <1>4

\* A failure mark leaves the fields alone.
LEMMA FailServed ==
    ASSUME NEW doc, doc.fields \in FieldValues, NEW listed
    PROVE  LET patch == FailPatch(listed, TodoTag, FailedTag)
           IN  /\ PatchedFields(doc, patch) = doc.fields
               /\ patch.tags = (listed.tags \ {TodoTag}) \cup {FailedTag}
<1> DEFINE patch == FailPatch(listed, TodoTag, FailedTag)
<1>1. \A f \in Fields : patch.fields[f] = Keep
  BY DEF FailPatch, build, setTag, unsetTag, newPatchBuilder, patchOptionalValue
<1>2. patch.tags = (listed.tags \ {TodoTag}) \cup {FailedTag}
  BY DEF FailPatch, build, setTag, unsetTag, newPatchBuilder
<1>3. PatchedFields(doc, patch) = doc.fields
  <2> HIDE DEF patch
  <2>1. QED
    BY <1>1 DEF PatchedFields, FieldValues
<1>4. QED
  BY <1>2, <1>3

\* A PATCH is a document being cataloged or marked failed.
LEMMA ServedStep ==
    ASSUME PromiseInv, NEW d \in Docs, PatchDocument(d) \/ PatchAnswerLost(d)
    PROVE  Promise!Next
<1> DEFINE listed == job[d].listed
           fields == PatchedFields(docs[d], job[d].patch)
           tags   == job[d].patch.tags
<1>0. /\ TypeOK /\ ConflictInv(d) /\ ListedTodo(d) /\ PatchSettles(d) /\ PatchMade(d)
      /\ docs[d].fields \in FieldValues
  BY DEF PromiseInv, ServerInv, TodoInv, MadeInv, TypeOK, Document
<1>1. pc[d] = "patch" /\ ServePatch(d)
  BY DEF PatchDocument, PatchAnswerLost
<1>2. Base(d) = Seen(listed) /\ TodoTag \in Base(d).tags
  BY <1>0, <1>1, BaseInWindow DEF Window, ListedTodo, Busy, Seen
<1>3. job[d].patch.tagsChanged
  BY <1>0, <1>1 DEF PatchSettles, PatchClears, Patching
<1>4. Seen(docs[d])' = [fields |-> fields, tags |-> tags]
  BY <1>0, <1>1, <1>3, SaveDocumentEffect DEF ServePatch, Seen, PatchedTags
<1>5. Base(d)' = Seen(docs[d])'
  BY <1>0, AwayStep, FinishEffect, DoFailedEffect DEF PatchDocument, PatchAnswerLost
<1>6. \A e \in Docs \ {d} : Seen(docs[e])' = Seen(docs[e]) /\ Base(e)' = Base(e)
  BY <1>0, OthersSame DEF Attempt, Same, Base
<1>7. Promise!Write(d, fields, tags)
  BY <1>1, <1>2, <1>4, <1>5, <1>6, WriteStep DEF ServePatch
<1>8. ASSUME NEW facts \in FactsChoices,
             job[d].patch = FactsPatch(listed, facts, TodoTag, FailedTag)
      PROVE  Promise!Next
  <2> DEFINE left == {f \in Fields :
                        facts.fields[f] # Keep /\ job[d].patch.fields[f] = Keep}
  <2>1. /\ left \in SUBSET {f \in Fields : facts.fields[f] = listed.fields[f]}
        /\ fields = [f \in Fields |-> IF facts.fields[f] = Keep \/ f \in left
                                      THEN docs[d].fields[f] ELSE facts.fields[f]]
        /\ tags = WantedTags(listed, facts, TodoTag, FailedTag)
    BY <1>8, FactsServed, FactsAssumption
  <2>2. Promise!Catalog(d, facts)
    <3> HIDE DEF left, listed, fields, tags
    <3>1. /\ [e \in Docs |-> Base(e)][d].fields = listed.fields
          /\ [e \in Docs |-> Base(e)][d].tags = listed.tags
          /\ [e \in Docs |-> Seen(docs[e])][d].fields = docs[d].fields
      BY <1>2 DEF Seen
    <3>2. tags = Promise!WantedTags([e \in Docs |-> Base(e)][d], facts, TodoTag, FailedTag)
      BY <2>1, <3>1 DEF WantedTags, Promise!WantedTags
    <3>3. QED
      BY <1>7, <2>1, <3>1, <3>2 DEF Promise!Catalog, Promise!Fields, Fields
  <2>3. QED
    BY <2>2 DEF Promise!Next
<1>9. ASSUME job[d].patch = FailPatch(listed, TodoTag, FailedTag)
      PROVE  Promise!Next
  <2>1. fields = docs[d].fields /\ tags = (listed.tags \ {TodoTag}) \cup {FailedTag}
    BY <1>0, <1>9, FailServed
  <2>2. Promise!MarkFailed(d)
    <3> HIDE DEF listed, fields, tags
    <3>1. /\ [e \in Docs |-> Base(e)][d].tags = listed.tags
          /\ [e \in Docs |-> Seen(docs[e])][d].fields = docs[d].fields
      BY <1>2 DEF Seen
    <3>2. QED
      BY <1>7, <2>1, <3>1 DEF Promise!MarkFailed
  <2>3. QED
    BY <2>2 DEF Promise!Next
<1>10. QED
  BY <1>0, <1>1, <1>8, <1>9 DEF PatchMade, Patching

\* Whatever else an attempt does, the daemon comes to see the document as it
\* is, or goes on believing what it believed.
LEMMA UnservedStep ==
    ASSUME TypeOK, NEW d \in Docs, Start(d) \/ Attempt(d),
           ~PatchDocument(d), ~PatchAnswerLost(d)
    PROVE  Promise!Next
<1>1. UNCHANGED <<docs, alive>>
  BY DEF Start, Attempt, LoadFails, LoadSkips, LoadReady, ResolveTags, ResolveFails,
     SizeExceeded, ExtractFails, ExtractFacts, CheckDocument, CheckMetadata, CheckFails,
     PatchFails, Save, SaveFails, server
<1>2. Base(d)' = Base(d) \/ Base(d)' = Seen(docs[d])
  <2>1. CASE Start(d) \/ LoadReady(d) \/ ResolveTags(d)
    BY <1>1, <2>1, AwayStep, GotoEffect DEF Start, LoadReady, ResolveTags
  <2>2. CASE LoadFails(d) \/ LoadSkips(d) \/ Save(d) \/ SaveFails(d)
    BY <1>1, <2>2, AwayStep, GoIdleEffect DEF LoadFails, LoadSkips, Save, SaveFails
  <2>3. CASE ResolveFails(d)
    BY <1>1, <2>3, AwayStep, FinishEffect DEF ResolveFails
  <2>4. CASE SizeExceeded(d) \/ ExtractFails(d) \/ CheckFails(d) \/ PatchFails(d)
    BY <1>1, <2>4, AwayStep, DoFailedEffect DEF SizeExceeded, ExtractFails, CheckFails,
       PatchFails
  <2>5. CASE ExtractFacts(d)
    BY <1>1, <2>5, AwayStep, patchDocumentEffect DEF ExtractFacts
  <2>6. CASE CheckDocument(d)
    <3>1. ~touched'[d]
      BY <2>6 DEF CheckDocument, TypeOK
    <3>2. QED
      BY <1>1, <3>1 DEF Base
  <2>7. CASE CheckMetadata(d)
    <3>1. CASE DoFailed(d, "transient")
      BY <1>1, <3>1, AwayStep, DoFailedEffect
    <3>2. CASE ~DoFailed(d, "transient")
      <4>1. /\ pc[d] = "checkMeta" /\ job[d].unchanged /\ Goto(d, "patch", job[d])
            /\ UNCHANGED touched
        BY <2>7, <3>2 DEF CheckMetadata, observers
      <4>2. QED
        BY <1>1, <4>1, GotoEffect DEF Base
    <3>3. QED
      BY <3>1, <3>2
  <2>8. QED
    BY <2>1, <2>2, <2>3, <2>4, <2>5, <2>6, <2>7 DEF Attempt
<1>3. \A e \in Docs \ {d} : Base(e)' = Base(e)
  BY OthersSame DEF Same, Base
<1>4. QED
  BY <1>1, <1>2, <1>3, LookStep

\* What users and the server do, with the daemon noticing or not.
LEMMA ChangeStep ==
    ASSUME PromiseInv, NEW d \in Docs, Environment(d)
    PROVE  Promise!Next
<1>0. TypeOK /\ TypeOK' /\ ConflictInv(d)
  BY EnvironmentTypeOK DEF PromiseInv, ServerInv
<1>1. /\ Change(d) /\ alive[d]
      /\ Window(d) => Base(d)' = Base(d)
      /\ ~Window(d) => Base(d) = Seen(docs[d]) /\ Base(d)' = Seen(docs[d])'
  <2>1. Change(d)
    BY DEF Environment, EditDocument, ReprocessDocument, DeleteDocument
  <2>2. QED
    BY <1>0, <2>1, ChangedBase DEF Change
<1>2. \A e \in Docs \ {d} : docs'[e] = docs[e] /\ Base(e)' = Base(e)
  BY <1>0, OthersSame DEF Same, Base
<1>3. CASE EditDocument(d)
  <2> DEFINE doc == Seen(docs'[d])
  <2>1. doc \in Promise!AnyDocument
    <3>1. docs'[d] \in Document
      BY <1>0 DEF TypeOK
    <3>2. QED
      BY <3>1 DEF Document, Seen, Promise!AnyDocument, Promise!FieldValues, FieldValues,
         Promise!Fields, Fields
  <2>2. Promise!UserChanges(d, doc)
    <3>1. [e \in Docs |-> Seen(docs[e])]'
            = [[e \in Docs |-> Seen(docs[e])] EXCEPT ![d] = doc]
      BY <1>2
    <3>2. CASE Window(d)
      <4>1. [e \in Docs |-> Base(e)]' = [e \in Docs |-> Base(e)]
        BY <1>1, <1>2, <3>2
      <4>2. QED
        BY <1>1, <1>3, <3>1, <4>1 DEF Promise!UserChanges, EditDocument
    <3>3. CASE ~Window(d)
      <4>1. [e \in Docs |-> Base(e)]' = [[e \in Docs |-> Base(e)] EXCEPT ![d] = doc]
        BY <1>1, <1>2, <3>3
      <4>2. QED
        BY <1>1, <1>3, <3>1, <4>1 DEF Promise!UserChanges, EditDocument
    <3>4. QED
      BY <3>2, <3>3
  <2>3. QED
    <3> HIDE DEF doc
    <3>1. QED
      BY <2>1, <2>2 DEF Promise!Next
<1>4. CASE ReprocessDocument(d)
  <2>1. Seen(docs[d])' = Seen(docs[d]) /\ alive' = alive
    BY <1>0, <1>4 DEF ReprocessDocument, Seen, TypeOK, Document
  <2>2. QED
    BY <1>1, <1>2, <2>1, LookStep
<1>5. CASE DeleteDocument(d)
  <2>1. docs' = docs /\ alive' = [alive EXCEPT ![d] = FALSE]
    BY <1>5 DEF DeleteDocument
  <2>2. [e \in Docs |-> Base(e)]' = [e \in Docs |-> Base(e)]
    BY <1>1, <1>2, <2>1
  <2>3. Promise!UserDeletes(d)
    BY <2>1, <2>2 DEF Promise!UserDeletes
  <2>4. QED
    BY <2>3 DEF Promise!Next
<1>6. QED
  BY <1>3, <1>4, <1>5 DEF Environment

\* The daemon does to the documents what Cataloging says, whatever users, the
\* pruner, failing requests and restarts do in between.
THEOREM CatalogingImplemented ==
    ASSUME TodoTag # FailedTag
    PROVE  Spec => PromiseKept
<1>1. Init => Promise!Init
  <2> SUFFICES ASSUME Init
               PROVE  Promise!Init
    OBVIOUS
  <2>1. TypeOK
    BY InitTypeOK
  <2>2. [d \in Docs |-> Seen(docs[d])] \in [Docs -> Promise!AnyDocument]
    BY <2>1 DEF TypeOK, Document, Seen, Promise!AnyDocument, Promise!FieldValues,
       FieldValues, Promise!Fields, Fields
  <2>3. [d \in Docs |-> Base(d)] = [d \in Docs |-> Seen(docs[d])]
    BY DEF Init, Base
  <2>4. QED
    BY <2>2, <2>3 DEF Init, Promise!Init
<1>2. PromiseInv /\ [Next]_vars => [Promise!Next]_(Promise!vars)
  <2> SUFFICES ASSUME PromiseInv, [Next]_vars
               PROVE  Promise!Next \/ UNCHANGED Promise!vars
    OBVIOUS
  <2>0. TypeOK
    BY DEF PromiseInv, ServerInv
  <2>1. CASE \E d \in Docs : Start(d) \/ Attempt(d) \/ Environment(d)
    BY <2>0, <2>1, ServedStep, UnservedStep, ChangeStep
  <2>2. CASE Tick \/ Prune
    BY <2>2, LookStep DEF Tick, Prune, server, observers, Base
  <2>3. CASE Crash
    BY <2>3, LookStep DEF Crash, server, Base
  <2>4. CASE UNCHANGED vars
    BY <2>4 DEF vars, Promise!vars, Base
  <2>5. QED
    BY <2>1, <2>2, <2>3, <2>4 DEF Next
<1>3. Spec => []PromiseInv
  BY ServerInvariant, TodoInvariant, MadeInvariant, PTL DEF PromiseInv
<1>4. QED
  BY <1>1, <1>2, <1>3, PTL DEF Spec, PromiseKept, Promise!Spec

-----------------------------------------------------------------------------
(* The contract with the walk.                                             *)

AtWork == [e \in Docs |-> IF pc[e] = "idle" THEN 0 ELSE 1]
ToDo == {e \in Docs : Tagged(e)}

\* A step about one document leaves the contract's view of the others alone.
LEMMA OthersDispatched ==
    ASSUME TypeOK, NEW d \in Docs, Start(d) \/ Attempt(d) \/ Environment(d)
    PROVE  \A e \in Docs \ {d} : AtWork'[e] = AtWork[e] /\ (Tagged(e)' <=> Tagged(e))
  BY OthersSame DEF Same, AtWork, Tagged

\* Only users make edits.
LEMMA AttemptEdits ==
    ASSUME TypeOK, NEW d \in Docs, Start(d) \/ Attempt(d)
    PROVE  used'.edits = used.edits
<1>1. ASSUME Fault
      PROVE  used'.edits = used.edits
  BY <1>1 DEF Fault, TypeOK
<1>2. CASE UNCHANGED used
  BY <1>2
<1>3. CASE LoadFails(d) \/ CheckFails(d) \/ PatchFails(d)
  BY <1>1, <1>3 DEF LoadFails, CheckFails, PatchFails, RequestFails
<1>4. CASE ResolveFails(d) \/ PatchAnswerLost(d) \/ SaveFails(d)
  BY <1>1, <1>4 DEF ResolveFails, PatchAnswerLost, SaveFails
<1>5. QED
  BY <1>2, <1>3, <1>4 DEF Start, Attempt, LoadSkips, LoadReady, ResolveTags,
     SizeExceeded, ExtractFails, ExtractFacts, CheckDocument, CheckMetadata,
     PatchDocument, Save

\* An attempt begins with the document being listed.
LEMMA StartBegins ==
    ASSUME TypeOK, NEW d \in Docs, Start(d)
    PROVE  Contract!Next
<1>1. /\ pc[d] = "idle" /\ pc'[d] = "load" /\ Tagged(d)
      /\ UNCHANGED <<docs, alive, used>>
  BY GotoEffect DEF Start, Tagged, server
<1>2. \A e \in Docs \ {d} : AtWork'[e] = AtWork[e]
  BY OthersDispatched
<1>3. ToDo' = ToDo
  BY <1>1 DEF ToDo, Tagged
<1>4. AtWork' = [e \in Docs |-> IF e \in {d} THEN 1 ELSE AtWork[e]]
  BY <1>1, <1>2 DEF AtWork
<1>5. {d} \subseteq ToDo /\ \A e \in {d} : AtWork[e] = 0
  BY <1>1 DEF ToDo, AtWork
<1>6. Contract!Begin({d})
  BY <1>1, <1>3, <1>4, <1>5 DEF Contract!Begin, AtWork, ToDo
<1>7. QED
  BY <1>6 DEF Contract!Next

\* An attempt that serves no PATCH ends, or goes on unnoticed.
LEMMA AttemptEnds ==
    ASSUME TypeOK, NEW d \in Docs, Attempt(d), ~PatchDocument(d), ~PatchAnswerLost(d)
    PROVE  Contract!Next \/ UNCHANGED Contract!vars
<1>1. UNCHANGED <<docs, alive>> /\ pc[d] # "idle"
  BY DEF Attempt, LoadFails, LoadSkips, LoadReady, ResolveTags, ResolveFails,
     SizeExceeded, ExtractFails, ExtractFacts, CheckDocument, CheckMetadata, CheckFails,
     PatchFails, Save, SaveFails, server
<1>2. ToDo' = ToDo /\ used'.edits = used.edits
  BY <1>1, AttemptEdits DEF ToDo, Tagged
<1>3. \A e \in Docs \ {d} : AtWork'[e] = AtWork[e]
  BY OthersDispatched
<1>4. CASE pc'[d] = "idle"
  <2>1. AtWork[d] = 1 /\ AtWork' = [AtWork EXCEPT ![d] = @ - 1]
    <3>1. AtWork[d] = 1 /\ AtWork'[d] = 0
      BY <1>1, <1>4 DEF AtWork
    <3>2. AtWork = [e \in Docs |-> AtWork[e]] /\ AtWork' = [e \in Docs |-> AtWork'[e]]
      BY DEF AtWork
    <3>3. QED
      BY <1>3, <3>1, <3>2
  <2>2. Contract!End(d)
    BY <1>2, <2>1 DEF Contract!End, AtWork, ToDo
  <2>3. QED
    BY <2>2 DEF Contract!Next
<1>5. CASE pc'[d] # "idle"
  <2>1. AtWork' = AtWork
    BY <1>1, <1>3, <1>5 DEF AtWork
  <2>2. QED
    BY <1>2, <2>1 DEF Contract!vars, AtWork, ToDo
<1>6. QED
  BY <1>4, <1>5

\* A PATCH that is served takes the tag away.
LEMMA PatchClearsTag ==
    ASSUME TodoInv, NEW d \in Docs, PatchDocument(d) \/ PatchAnswerLost(d)
    PROVE  Contract!Next
<1>0. TypeOK
  BY DEF TodoInv
<1>1. /\ docs'[d].tags = PatchedTags(docs[d], job[d].patch) /\ pc[d] = "patch"
      /\ pc'[d] # "idle"
  BY <1>0, SaveDocumentEffect, FinishEffect, DoFailedEffect
     DEF PatchDocument, PatchAnswerLost, ServePatch
<1>2. TodoTag \notin docs'[d].tags
  BY <1>1 DEF TodoInv, PatchSettles, Patching, PatchClears, PatchedTags
<1>3. \A e \in Docs \ {d} : AtWork'[e] = AtWork[e] /\ (Tagged(e)' <=> Tagged(e))
  BY <1>0, OthersDispatched DEF Attempt
<1>4. ToDo' = ToDo \ {d}
  BY <1>2, <1>3 DEF ToDo, Tagged
<1>5. AtWork' = AtWork /\ AtWork[d] > 0
  BY <1>1, <1>3 DEF AtWork
<1>6. used'.edits = used.edits
  BY <1>0, AttemptEdits DEF Attempt
<1>7. Contract!Clear(d)
  BY <1>4, <1>5, <1>6 DEF Contract!Clear, AtWork, ToDo
<1>8. QED
  BY <1>7 DEF Contract!Next

\* Users and server change a document, its tag perhaps.
LEMMA ChangeDispatched ==
    ASSUME TypeOK, NEW d \in Docs, Environment(d)
    PROVE  Contract!Next
<1>1. Change(d)
  BY DEF Environment, EditDocument, ReprocessDocument, DeleteDocument
<1>2. used'.edits = used.edits + 1 /\ UNCHANGED pc
  BY <1>1 DEF Change, TypeOK
<1>3. AtWork' = AtWork
  BY <1>2 DEF AtWork
<1>4. ToDo' \in {ToDo, ToDo \ {d}, ToDo \cup {d}}
  <2>1. \A e \in Docs \ {d} : Tagged(e)' <=> Tagged(e)
    BY OthersDispatched
  <2>2. CASE Tagged(d)'
    <3>1. ToDo' = ToDo \cup {d}
      BY <2>1, <2>2 DEF ToDo
    <3>2. QED
      BY <3>1
  <2>3. CASE ~Tagged(d)'
    <3>1. ToDo' = ToDo \ {d}
      BY <2>1, <2>3 DEF ToDo
    <3>2. QED
      BY <3>1
  <2>4. QED
    BY <2>2, <2>3
<1>5. Contract!UserChanges(d)
  BY <1>2, <1>3, <1>4 DEF Contract!UserChanges, AtWork, ToDo
<1>6. QED
  BY <1>5 DEF Contract!Next

\* A restart ends all attempts.
LEMMA CrashRestarts == TypeOK /\ Crash => Contract!Next
<1> SUFFICES ASSUME TypeOK, Crash
             PROVE  Contract!Next
  OBVIOUS
<1>1. /\ UNCHANGED <<docs, alive>> /\ used'.edits = used.edits
      /\ \A e \in Docs : pc'[e] = "idle"
  BY DEF Crash, server, TypeOK
<1>2. AtWork' = [e \in Docs |-> 0] /\ ToDo' = ToDo
  BY <1>1 DEF AtWork, ToDo, Tagged
<1>3. Contract!Restart
  BY <1>1, <1>2 DEF Contract!Restart, AtWork, ToDo
<1>4. QED
  BY <1>3 DEF Contract!Next

\* Attempts keep their side of the contract with the walk: whatever requests, retries,
\* lost answers, restarts and users do, none ever puts the todo tag on a document.
THEOREM ContractServed ==
    ASSUME TodoTag # FailedTag
    PROVE  Spec => DispatchServed
<1>1. Init => Contract!Init
  <2> SUFFICES ASSUME Init
               PROVE  Contract!Init
    OBVIOUS
  <2>1. AtWork = [e \in Docs |-> 0] /\ ToDo \in SUBSET Docs /\ used.edits = 0
    BY DEF Init, AtWork, ToDo
  <2>2. QED
    BY <2>1 DEF Contract!Init, AtWork, ToDo
<1>2. TodoInv /\ [Next]_vars => [Contract!Next]_(Contract!vars)
  <2> SUFFICES ASSUME TodoInv, [Next]_vars
               PROVE  Contract!Next \/ UNCHANGED Contract!vars
    OBVIOUS
  <2>0. TypeOK
    BY DEF TodoInv
  <2>1. CASE \E d \in Docs : Start(d) \/ Attempt(d) \/ Environment(d)
    BY <2>0, <2>1, StartBegins, AttemptEnds, PatchClearsTag, ChangeDispatched
  <2>2. CASE Tick \/ Prune
    BY <2>2 DEF Tick, Prune, server, Contract!vars, Tagged
  <2>3. CASE Crash
    BY <2>0, <2>3, CrashRestarts
  <2>4. CASE UNCHANGED vars
    BY <2>4 DEF vars, Contract!vars, Tagged
  <2>5. QED
    BY <2>1, <2>2, <2>3, <2>4 DEF Next
<1>3. QED
  BY <1>1, <1>2, TodoInvariant, PTL DEF Spec, DispatchServed, Contract!Spec
=============================================================================
