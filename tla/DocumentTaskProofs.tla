------------------------- MODULE DocumentTaskProofs -------------------------
(***************************************************************************)
(* Proofs about DocumentTask, for all documents, facts, bounds and delays. *)
(***************************************************************************)
EXTENDS DocumentTask, PatchBuilderProofs

-----------------------------------------------------------------------------
(* Types.                                                                  *)

\* What an attempt computes is a patch.
LEMMA PatchTypes ==
    ASSUME TypeOK, NEW d \in Docs, NEW facts \in FactsChoices
    PROVE  applyPatch(d, facts) \in Patch
<1>1. job[d].listed.fields \in FieldValues /\ job[d].listed.tags \in SUBSET TagIDs
  BY DEF TypeOK, Job, Document
<1>2. FactsPatch(job[d].listed, facts, TodoTag, FailedTag) \in Patch
  BY <1>1, FactsPatchType, FactsAssumption
<1>3. QED
  BY <1>2 DEF applyPatch

\* So is what marks a document failed.
LEMMA FailPatchTypes ==
    ASSUME TypeOK, NEW d \in Docs
    PROVE  failPatch(d) \in Patch
<1>1. job[d].listed.fields \in FieldValues /\ job[d].listed.tags \in SUBSET TagIDs
  BY DEF TypeOK, Job, Document
<1>2. QED
  BY <1>1, FailPatchType, TagAssumption DEF failPatch

\* The job for a listed document has its type.
LEMMA NewTaskType ==
    ASSUME NEW doc \in Document
    PROVE  newTask(doc) \in Job
<1>1. EmptyPatch \in Patch
  BY NothingWantedType DEF EmptyPatch, Patch
<1>2. 0 \in 0..RetryCap
  BY NumberAssumption
<1>3. doc.file \in Files
  BY DEF Document
<1>4. QED
  BY <1>1, <1>2, <1>3 DEF newTask, Job

\* So does the job of an idle daemon.
LEMMA NoTaskType == NoTask \in Job
<1>1. (CHOOSE v \in Values : TRUE) \in Values /\ (CHOOSE file \in Files : TRUE) \in Files
  BY NilIsNoValue, FilesAssumption
<1>2. NoDocument.fields \in FieldValues
  BY <1>1, NilIsNoValue DEF NoDocument, FieldValues, Fields
<1>3. NoDocument \in Document
  BY <1>1, <1>2 DEF NoDocument, Document
<1>4. QED
  BY <1>3, NewTaskType DEF NoTask

\* The operators the actions share keep the types of pc and job.
LEMMA GotoType ==
    ASSUME TypeOK, NEW d \in Docs, NEW label \in Busy \cup {"idle"}, NEW j \in Job,
           Goto(d, label, j)
    PROVE  pc' \in [Docs -> Busy \cup {"idle"}] /\ job' \in [Docs -> Job]
  BY DEF Goto, TypeOK

\* Ending an attempt keeps the types, the observers' included.
LEMMA GoIdleType ==
    ASSUME TypeOK, NEW d \in Docs, GoIdle(d)
    PROVE  /\ pc' \in [Docs -> Busy \cup {"idle"}] /\ job' \in [Docs -> Job]
           /\ applied' \in [Docs -> BOOLEAN] /\ touched' \in [Docs -> BOOLEAN]
  BY GotoType, NoTaskType DEF GoIdle, TypeOK

\* Going on to save a result keeps them.
LEMMA FinishType ==
    ASSUME TypeOK, NEW d \in Docs, NEW err \in {"none", "transient", "permanent"},
           Finish(d, err)
    PROVE  pc' \in [Docs -> Busy \cup {"idle"}] /\ job' \in [Docs -> Job]
<1>1. [job[d] EXCEPT !.err = err] \in Job
  BY DEF TypeOK, Job
<1>2. QED
  BY <1>1, GotoType DEF Finish, Busy

\* So does going on to the conflict check, or past it with an empty patch.
LEMMA patchDocumentType ==
    ASSUME TypeOK, NEW d \in Docs, NEW mode \in {"apply", "fail"}, NEW patch \in Patch,
           NEW err \in {"none", "transient", "permanent"},
           patchDocument(d, mode, patch, err)
    PROVE  pc' \in [Docs -> Busy \cup {"idle"}] /\ job' \in [Docs -> Job]
<1>1. ASSUME NEW j \in Job
      PROVE  [j EXCEPT !.mode = mode, !.patch = patch, !.err = err] \in Job
  BY DEF Job
<1>2. job[d] \in Job
  BY DEF TypeOK
<1>3. QED
  BY <1>1, <1>2, GotoType, FinishType DEF patchDocument, Busy

\* So does a failure, whether it is marked in Paperless or not.
LEMMA DoFailedType ==
    ASSUME TypeOK, NEW d \in Docs, NEW err \in {"transient", "permanent"},
           DoFailed(d, err)
    PROVE  pc' \in [Docs -> Busy \cup {"idle"}] /\ job' \in [Docs -> Job]
  BY FailPatchTypes, FinishType, patchDocumentType DEF DoFailed

\* A fault is counted.
LEMMA FaultType ==
    ASSUME TypeOK, NEW d \in Docs
    PROVE  /\ Fault => used' \in [edits : Nat, faults : Nat, crashes : Nat]
           /\ \A err : RequestFails(d, err) =>
                 used' \in [edits : Nat, faults : Nat, crashes : Nat]
  BY DEF Fault, RequestFails, TypeOK

\* The task of an attempt has a key.
LEMMA KeyType ==
    ASSUME TypeOK, NEW d \in Docs
    PROVE  KeyOf(d, job[d]) \in Key
  BY DEF TypeOK, Job, Document, Key, KeyOf

HistType == /\ DOMAIN hist \subseteq Key
            /\ \A k \in DOMAIN hist : hist[k] \in [failures : Nat, wait : Nat]

\* What the observer knows of a key is a number of failures and a delay.
LEMMA HistOfType ==
    ASSUME HistType, NEW key
    PROVE  HistOf(key) \in [failures : Nat, wait : Nat]
  BY DEF HistType, HistOf, NoFailures

\* A record to be saved is a record.
LEMMA SavedRecordType ==
    ASSUME NEW j \in Job
    PROVE  SavedRecord(j) \in Record
<1>1. j.retryCount \in Nat /\ RetryDelay(j.retryCount) \in Nat
  BY RetryDelayAssumption, NumberAssumption DEF Job
<1>2. QED
  BY <1>1 DEF SavedRecord, Record

\* Counting a failure keeps the observer's type.
LEMMA CountFailureType ==
    ASSUME TypeOK, NEW d \in Docs, NEW wait \in Nat, CountFailure(d, wait)
    PROVE  HistType'
<1> DEFINE key == KeyOf(d, job[d])
           n == HistOf(key).failures
           new == [failures |-> IF n > RetryCap THEN n ELSE n + 1, wait |-> wait]
<1>1. HistType
  BY DEF TypeOK, HistType
<1>2. new \in [failures : Nat, wait : Nat]
  BY <1>1, HistOfType
<1>3. CASE job[d].err = "none"
  BY <1>1, <1>3 DEF CountFailure, HistType
<1>4. CASE job[d].err # "none"
  <2>1. hist' = Upsert(hist, key, new)
    BY <1>4 DEF CountFailure
  <2>2. key \in Key
    BY KeyType
  <2>3. QED
    <3> HIDE DEF key, n, new
    <3>1. QED
      BY <1>1, <1>2, <2>1, <2>2 DEF HistType, Upsert
<1>5. QED
  BY <1>3, <1>4

\* A task whose metadata was read is a task.
LEMMA LoadedType ==
    ASSUME TypeOK, NEW d \in Docs
    PROVE  Loaded(d) \in Job
<1>1. docs[d].file \in Files /\ job[d] \in Job
  BY DEF TypeOK, Document
<1>2. QED
  BY <1>1 DEF Loaded, Job

\* A record read from the store, or a new one, is a record.
LEMMA RecordOfType ==
    ASSUME TypeOK, NEW key
    PROVE  RecordOf(key) \in Record
  BY DEF TypeOK, RecordOf, NewRecord, Record

\* A document is still a document when it was saved.
LEMMA SaveDocumentType ==
    ASSUME TypeOK, NEW d \in Docs, NEW fields \in FieldValues,
           NEW tags \in SUBSET TagIDs, SaveDocument(d, fields, tags)
    PROVE  docs' \in [Docs -> Document]
<1>1. docs[d].modified + 1 \in Nat /\ docs[d].file \in Files
  BY DEF TypeOK, Document
<1>2. QED
  BY <1>1 DEF TypeOK, Document, SaveDocument

\* All variables begin with their type.
LEMMA InitTypeOK ==
    ASSUME Init
    PROVE  TypeOK
<1>1. docs \in [Docs -> Document]
  BY DocsAssumption DEF Init
<1>2. job \in [Docs -> Job]
  BY NoTaskType DEF Init
<1>3. QED
  BY <1>1, <1>2 DEF Init, TypeOK, Busy

\* The daemon's, the server's and the users' steps for one document.
LEMMA AttemptTypeOK ==
    ASSUME TypeOK, NEW d \in Docs, Start(d) \/ Attempt(d)
    PROVE  TypeOK'
<1> USE DEF observers, server
<1>0. job[d] \in Job /\ docs[d] \in Document
  BY DEF TypeOK
<1>1. CASE Start(d)
  BY <1>0, <1>1, NewTaskType, GotoType DEF Start, TypeOK, Busy
<1>2. CASE LoadFails(d)
  BY <1>2, GoIdleType, FaultType DEF LoadFails, TypeOK
<1>3. CASE LoadSkips(d)
  BY <1>3, GoIdleType DEF LoadSkips, TypeOK
<1>4. CASE LoadReady(d)
  <2> DEFINE rec == RecordOf(KeyOf(d, Loaded(d)))
             j == [Loaded(d) EXCEPT !.retryCount = rec.retryCount]
  <2>1. rec.retryCount \in 0..RetryCap
    BY <1>4, RecordOfType, NumberAssumption DEF LoadReady, Record
  <2>2. j \in Job
    <3> HIDE DEF rec
    <3>1. QED
      BY <2>1, LoadedType DEF Job
  <2>3. Goto(d, "resolve", j)
    BY <1>4 DEF LoadReady
  <2>4. QED
    <3> HIDE DEF j
    <3>1. pc' \in [Docs -> Busy \cup {"idle"}] /\ job' \in [Docs -> Job]
      BY <2>2, <2>3, GotoType DEF Busy
    <3>2. QED
      BY <1>4, <3>1 DEF LoadReady, TypeOK
<1>5. CASE ResolveTags(d)
  BY <1>0, <1>5, GotoType DEF ResolveTags, TypeOK, Busy
<1>6. CASE ResolveFails(d)
  BY <1>6, FinishType, FaultType DEF ResolveFails, TypeOK
<1>7. CASE SizeExceeded(d)
  BY <1>7, DoFailedType DEF SizeExceeded, TypeOK
<1>8. CASE ExtractFails(d)
  BY <1>8, DoFailedType DEF ExtractFails, TypeOK
<1>9. CASE ExtractFacts(d)
  <2>1. pc' \in [Docs -> Busy \cup {"idle"}] /\ job' \in [Docs -> Job]
    BY <1>9, PatchTypes, patchDocumentType DEF ExtractFacts
  <2>2. QED
    BY <1>9, <2>1 DEF ExtractFacts, TypeOK
<1>10. CASE CheckDocument(d)
  <2> DEFINE same == Snapshot(docs[d]) = Snapshot(job[d].listed)
             j == [job[d] EXCEPT !.unchanged = same]
  <2>1. j \in Job
    <3> HIDE DEF same
    <3>1. same \in BOOLEAN
      BY DEF same
    <3>2. QED
      BY <1>0, <3>1 DEF Job
  <2>2. Goto(d, "checkMeta", j)
    BY <1>10 DEF CheckDocument
  <2>3. pc' \in [Docs -> Busy \cup {"idle"}] /\ job' \in [Docs -> Job]
    <3> HIDE DEF j
    <3>1. QED
      BY <2>1, <2>2, GotoType DEF Busy
  <2>4. QED
    BY <1>10, <2>3 DEF CheckDocument, TypeOK
<1>11. CASE CheckMetadata(d)
  <2>1. pc' \in [Docs -> Busy \cup {"idle"}] /\ job' \in [Docs -> Job]
    BY <1>0, <1>11, GotoType, DoFailedType DEF CheckMetadata, Busy
  <2>2. QED
    BY <1>11, <2>1 DEF CheckMetadata, TypeOK
<1>12. CASE CheckFails(d)
  <2>1. pc' \in [Docs -> Busy \cup {"idle"}] /\ job' \in [Docs -> Job]
    BY <1>12, DoFailedType DEF CheckFails
  <2>2. QED
    BY <1>12, <2>1, FaultType DEF CheckFails, TypeOK
<1>13. ASSUME ServePatch(d)
       PROVE  /\ docs' \in [Docs -> Document]
              /\ applied' \in [Docs -> BOOLEAN]
  <2>1. /\ PatchedFields(docs[d], job[d].patch) \in FieldValues
        /\ PatchedTags(docs[d], job[d].patch) \in SUBSET TagIDs
    BY <1>0, PatchedType DEF Document, Job
  <2>2. QED
    BY <1>13, <2>1, SaveDocumentType DEF ServePatch, TypeOK
<1>14. CASE PatchDocument(d)
  BY <1>13, <1>14, FinishType DEF PatchDocument, TypeOK, ServePatch
<1>15. CASE PatchAnswerLost(d)
  BY <1>13, <1>15, DoFailedType, FaultType DEF PatchAnswerLost, TypeOK, ServePatch
<1>16. CASE PatchFails(d)
  <2>1. pc' \in [Docs -> Busy \cup {"idle"}] /\ job' \in [Docs -> Job]
    BY <1>16, DoFailedType DEF PatchFails
  <2>2. QED
    BY <1>16, <2>1, FaultType DEF PatchFails, TypeOK
<1>17. CASE Save(d)
  <2>1. SavedRecord(job[d]) \in Record
    BY <1>0, SavedRecordType
  <2>2. HistType'
    BY <1>17, <2>1, CountFailureType DEF Save, Record
  <2>3. /\ DOMAIN store' \subseteq Key
        /\ \A k \in DOMAIN store' : store'[k] \in Record
    BY <1>17, <2>1, KeyType DEF Save, TypeOK, Upsert
  <2>4. QED
    BY <1>17, <2>2, <2>3, GoIdleType DEF Save, TypeOK, HistType
<1>18. CASE SaveFails(d)
  <2>1. HistType
    BY DEF TypeOK, HistType
  <2>2. HistOf(KeyOf(d, job[d])).wait \in Nat
    BY <2>1, HistOfType
  <2>3. HistType'
    BY <1>18, <2>2, CountFailureType DEF SaveFails
  <2>4. QED
    BY <1>18, <2>3, GoIdleType, FaultType DEF SaveFails, TypeOK, HistType
<1>19. QED
  BY <1>1, <1>2, <1>3, <1>4, <1>5, <1>6, <1>7, <1>8, <1>9, <1>10, <1>11,
     <1>12, <1>14, <1>15, <1>16, <1>17, <1>18 DEF Attempt

\* Users and the server keep the types.
LEMMA EnvironmentTypeOK ==
    ASSUME TypeOK, NEW d \in Docs, Environment(d)
    PROVE  TypeOK'
<1> USE DEF observers, server
<1>0. docs[d] \in Document
  BY DEF TypeOK
<1>1. CASE EditDocument(d)
  <2>1. docs' \in [Docs -> Document]
    <3>1. \A f \in Fields, v \in Values :
             [docs[d].fields EXCEPT ![f] = v] \in FieldValues
      <4>1. docs[d].fields \in FieldValues
        BY <1>0 DEF Document
      <4>2. QED
        BY <4>1, NilIsNoValue DEF FieldValues, Fields
    <3>2. QED
      BY <1>0, <1>1, <3>1, SaveDocumentType DEF EditDocument, Document
  <2>2. Change(d) /\ UNCHANGED alive
    BY <1>1 DEF EditDocument
  <2>3. QED
    BY <2>1, <2>2 DEF Change, TypeOK
<1>2. CASE ReprocessDocument(d)
  BY <1>0, <1>2 DEF ReprocessDocument, Change, TypeOK, Document
<1>3. CASE DeleteDocument(d)
  BY <1>3 DEF DeleteDocument, Change, TypeOK
<1>4. QED
  BY <1>1, <1>2, <1>3 DEF Environment

\* A record is still a record when time has passed.
LEMMA OlderType ==
    ASSUME NEW r \in Record
    PROVE  Older(r) \in Record
<1>1. r.retryCount \in Nat /\ r.wait \in Nat /\ r.age \in Nat /\ PruneAfter \in Nat
  BY NumberAssumption DEF Record
<1>2. Sooner(r.wait) \in Nat
  BY <1>1 DEF Sooner
<1>3. QED
  BY <1>1, <1>2 DEF Older, Record

\* Time, the pruner and restarts keep the types.
LEMMA DaemonTypeOK ==
    ASSUME TypeOK, Tick \/ Prune \/ Crash
    PROVE  TypeOK'
<1> USE DEF observers, server
<1>1. CASE Tick
  <2>1. \A k \in DOMAIN store' : store'[k] \in Record
    BY <1>1, OlderType DEF Tick, TypeOK
  <2>2. ASSUME NEW k \in DOMAIN hist
        PROVE  [failures |-> hist[k].failures, wait |-> Sooner(hist[k].wait)]
                  \in [failures : Nat, wait : Nat]
    <3>1. hist[k].failures \in Nat /\ hist[k].wait \in Nat
      BY DEF TypeOK
    <3>2. QED
      BY <3>1 DEF Sooner
  <2>3. QED
    BY <1>1, <2>1, <2>2 DEF Tick, TypeOK
<1>2. CASE Prune
  BY <1>2 DEF Prune, TypeOK
<1>3. CASE Crash
  BY <1>3, NoTaskType DEF Crash, TypeOK
<1>4. QED
  BY <1>1, <1>2, <1>3

\* Every variable keeps its type.
THEOREM TypeCorrect == Spec => []TypeOK
<1>1. Init => TypeOK
  BY InitTypeOK
<1>2. TypeOK /\ [Next]_vars => TypeOK'
  <2> SUFFICES ASSUME TypeOK, [Next]_vars
               PROVE  TypeOK'
    OBVIOUS
  <2>1. CASE \E d \in Docs : Start(d) \/ Attempt(d) \/ Environment(d)
    BY <2>1, AttemptTypeOK, EnvironmentTypeOK
  <2>2. CASE Tick \/ Prune \/ Crash
    BY <2>2, DaemonTypeOK
  <2>3. CASE UNCHANGED vars
    BY <2>3 DEF vars, TypeOK
  <2>4. QED
    BY <2>1, <2>2, <2>3 DEF Next
<1>3. QED
  BY <1>1, <1>2, PTL DEF Spec

-----------------------------------------------------------------------------
(* What the steps do to the document they are about, and to the others.    *)

\* A step about d leaves what is known of e as it is.
Same(e) == /\ docs'[e] = docs[e] /\ alive'[e] = alive[e]
           /\ pc'[e] = pc[e] /\ job'[e] = job[e]
           /\ applied'[e] = applied[e] /\ touched'[e] = touched[e]

\* Going on with an attempt leaves the other attempts alone.
LEMMA GotoEffect ==
    ASSUME TypeOK, NEW d \in Docs, NEW label, NEW j, Goto(d, label, j)
    PROVE  /\ pc'[d] = label /\ job'[d] = j
           /\ \A e \in Docs \ {d} : pc'[e] = pc[e] /\ job'[e] = job[e]
  BY DEF Goto, TypeOK

\* So does ending it.
LEMMA GoIdleEffect ==
    ASSUME TypeOK, NEW d \in Docs, GoIdle(d)
    PROVE  /\ pc'[d] = "idle" /\ ~applied'[d] /\ ~touched'[d]
           /\ \A e \in Docs \ {d} : /\ pc'[e] = pc[e] /\ job'[e] = job[e]
                                    /\ applied'[e] = applied[e]
                                    /\ touched'[e] = touched[e]
  BY GotoEffect DEF GoIdle, TypeOK

\* The task of an attempt: the same document version and retry count.
SameTask(d) == /\ job'[d].listed = job[d].listed /\ job'[d].file = job[d].file
               /\ job'[d].retryCount = job[d].retryCount

\* An attempt that goes on to save its result is still for the same task.
LEMMA FinishEffect ==
    ASSUME TypeOK, NEW d \in Docs, NEW err, Finish(d, err)
    PROVE  /\ pc'[d] = "save" /\ SameTask(d)
           /\ \A e \in Docs \ {d} : pc'[e] = pc[e] /\ job'[e] = job[e]
<1>1. job[d] \in Job
  BY DEF TypeOK
<1>2. QED
  BY <1>1, GotoEffect DEF Finish, SameTask, Job

\* With a patch it goes on to the conflict check, else it is finished.
LEMMA patchDocumentEffect ==
    ASSUME TypeOK, NEW d \in Docs, NEW mode, NEW patch, NEW err,
           patchDocument(d, mode, patch, err)
    PROVE  /\ SameTask(d)
           /\ pc'[d] = "save" \/ (/\ pc'[d] = "checkDoc" /\ job'[d].patch = patch
                                  /\ job'[d].mode = mode /\ job'[d].err = err)
           /\ \A e \in Docs \ {d} : pc'[e] = pc[e] /\ job'[e] = job[e]
<1>1. job[d] \in Job
  BY DEF TypeOK
<1>2. CASE IsEmptyPatch(patch)
  BY <1>2, FinishEffect DEF patchDocument
<1>3. CASE ~IsEmptyPatch(patch)
  <2> DEFINE j == [job[d] EXCEPT !.mode = mode, !.patch = patch, !.err = err]
  <2>1. Goto(d, "checkDoc", j)
    BY <1>3 DEF patchDocument
  <2>2. /\ j.listed = job[d].listed /\ j.file = job[d].file
        /\ j.retryCount = job[d].retryCount /\ j.mode = mode /\ j.err = err
        /\ j.patch = patch
    BY <1>1 DEF Job
  <2>3. QED
    <3> HIDE DEF j
    <3>1. pc'[d] = "checkDoc" /\ job'[d] = j
      BY <2>1, GotoEffect
    <3>2. \A e \in Docs \ {d} : pc'[e] = pc[e] /\ job'[e] = job[e]
      BY <2>1, GotoEffect
    <3>3. QED
      BY <2>2, <3>1, <3>2 DEF SameTask
<1>4. QED
  BY <1>2, <1>3

\* A failure ends with a result to be saved, or with the patch that marks it.
LEMMA DoFailedEffect ==
    ASSUME TypeOK, NEW d \in Docs, NEW err, DoFailed(d, err)
    PROVE  /\ SameTask(d)
           /\ pc'[d] = "save" \/ (/\ pc'[d] = "checkDoc"
                                  /\ job'[d].mode = "fail" /\ job'[d].err = err
                                  /\ job'[d].patch = failPatch(d)
                                  /\ lastRetry(d) \/ err = "permanent")
           /\ \A e \in Docs \ {d} : pc'[e] = pc[e] /\ job'[e] = job[e]
  BY FinishEffect, patchDocumentEffect DEF DoFailed

\* Saving a document concerns that document only.
LEMMA SaveDocumentEffect ==
    ASSUME TypeOK, NEW d \in Docs, NEW fields, NEW tags, SaveDocument(d, fields, tags)
    PROVE  /\ docs'[d].fields = fields /\ docs'[d].tags = tags
           /\ docs'[d].modified = docs[d].modified + 1
           /\ docs'[d].file = docs[d].file
           /\ \A e \in Docs \ {d} : docs'[e] = docs[e]
  BY DEF SaveDocument, TypeOK

\* So does a change by users or the server, which leaves the attempt alone.
LEMMA ChangeEffect ==
    ASSUME TypeOK, NEW d \in Docs, Change(d)
    PROVE  /\ touched'[d] = (pc[d] \in {"checkMeta", "patch"})
           /\ \A e \in Docs \ {d} : touched'[e] = touched[e]
           /\ UNCHANGED <<pc, job, store, hist, applied>>
  BY DEF Change, TypeOK

\* Documents only meet in the store and the observer's history.
LEMMA OthersSame ==
    ASSUME TypeOK, NEW d \in Docs, Start(d) \/ Attempt(d) \/ Environment(d)
    PROVE  \A e \in Docs \ {d} : Same(e)
<1> USE DEF observers, server, Same
<1>1. CASE Start(d)
  BY <1>1, GotoEffect DEF Start
<1>2. CASE LoadFails(d) \/ LoadSkips(d)
  BY <1>2, GoIdleEffect DEF LoadFails, LoadSkips
<1>3. CASE LoadReady(d) \/ ResolveTags(d)
  BY <1>3, GotoEffect DEF LoadReady, ResolveTags
<1>4. CASE ResolveFails(d)
  BY <1>4, FinishEffect DEF ResolveFails
<1>5. CASE SizeExceeded(d) \/ ExtractFails(d)
  BY <1>5, DoFailedEffect DEF SizeExceeded, ExtractFails
<1>6. CASE ExtractFacts(d)
  BY <1>6, patchDocumentEffect DEF ExtractFacts
<1>7. CASE CheckDocument(d)
  BY <1>7, GotoEffect DEF CheckDocument, TypeOK
<1>8. CASE CheckMetadata(d)
  BY <1>8, GotoEffect, DoFailedEffect DEF CheckMetadata
<1>9. CASE CheckFails(d) \/ PatchFails(d)
  BY <1>9, DoFailedEffect DEF CheckFails, PatchFails
<1>10. ASSUME ServePatch(d)
       PROVE  \A e \in Docs \ {d} : /\ docs'[e] = docs[e] /\ alive'[e] = alive[e]
                                    /\ applied'[e] = applied[e]
                                    /\ touched'[e] = touched[e]
  BY <1>10, SaveDocumentEffect DEF ServePatch, TypeOK
<1>11. CASE PatchDocument(d) \/ PatchAnswerLost(d)
  BY <1>10, <1>11, FinishEffect, DoFailedEffect DEF PatchDocument, PatchAnswerLost
<1>12. CASE Save(d) \/ SaveFails(d)
  BY <1>12, GoIdleEffect DEF Save, SaveFails
<1>13. CASE EditDocument(d)
  BY <1>13, ChangeEffect, SaveDocumentEffect DEF EditDocument
<1>14. CASE ReprocessDocument(d)
  BY <1>14, ChangeEffect DEF ReprocessDocument, TypeOK
<1>15. CASE DeleteDocument(d)
  BY <1>15, ChangeEffect DEF DeleteDocument, TypeOK
<1>16. QED
  BY <1>1, <1>2, <1>3, <1>4, <1>5, <1>6, <1>7, <1>8, <1>9, <1>11, <1>12,
     <1>13, <1>14, <1>15 DEF Attempt, Environment

-----------------------------------------------------------------------------
(* No lost updates, and no failure mark on a cataloged document.           *)

\* "modified" never falls behind what the attempt was listed with, and stands
\* for the tags and fields.
ListedKeepsUp(d) ==
    pc[d] \in Busy =>
        /\ job[d].listed.modified <= docs[d].modified
        /\ job[d].listed.modified = docs[d].modified =>
              /\ job[d].listed.tags = docs[d].tags
              /\ job[d].listed.fields = docs[d].fields

\* An attempt that changed the document is behind it.
AppliedIsNewer(d) ==
    applied[d] => /\ pc[d] \in Busy
                  /\ job[d].listed.modified < docs[d].modified

\* A passed check holds until somebody changes the document.
CheckHolds(d) ==
    /\ ~touched[d]
    /\ pc[d] = "patch" \/ (pc[d] = "checkMeta" /\ job[d].unchanged)
    => job[d].listed.modified = docs[d].modified

\* The check of a failure mark does not pass once facts were applied.
NoMarkAfterApply(d) ==
    applied[d] /\ job[d].mode = "fail" =>
        /\ pc[d] # "patch"
        /\ pc[d] = "checkMeta" => ~job[d].unchanged

ConflictInv(d) ==
    ListedKeepsUp(d) /\ AppliedIsNewer(d) /\ CheckHolds(d) /\ NoMarkAfterApply(d)

\* An attempt that is idle, or goes on without a check being passed, keeps it.
LEMMA UncheckedStep ==
    ASSUME TypeOK, NEW d \in Docs, ConflictInv(d),
           pc[d] \in Busy, pc'[d] \in Busy \ {"checkMeta", "patch"},
           SameTask(d), UNCHANGED <<docs, applied>>
    PROVE  ConflictInv(d)'
  BY DEF ConflictInv, ListedKeepsUp, AppliedIsNewer, CheckHolds,
         NoMarkAfterApply, SameTask

\* There is nothing to keep for an attempt that is over.
LEMMA IdleStep ==
    ASSUME TypeOK, NEW d \in Docs, pc'[d] = "idle", ~applied'[d]
    PROVE  ConflictInv(d)'
  BY DEF ConflictInv, ListedKeepsUp, AppliedIsNewer, CheckHolds,
         NoMarkAfterApply, Busy

\* A PATCH moves the document past the attempt.
LEMMA PatchStep ==
    ASSUME TypeOK, NEW d \in Docs, ConflictInv(d), pc[d] = "patch",
           ServePatch(d), SameTask(d), pc'[d] \in {"checkDoc", "save"}
    PROVE  ConflictInv(d)'
<1>1. docs'[d].modified = docs[d].modified + 1
  BY SaveDocumentEffect DEF ServePatch
<1>2. docs[d].modified \in Nat /\ job[d].listed.modified \in Nat
  BY DEF TypeOK, Document, Job
<1>3. job[d].listed.modified <= docs[d].modified
  BY DEF ConflictInv, ListedKeepsUp, Busy
<1>4. job'[d].listed.modified < docs'[d].modified
  BY <1>1, <1>2, <1>3 DEF SameTask
<1>5. job'[d].listed.modified \in Nat /\ docs'[d].modified \in Nat
  BY <1>1, <1>2 DEF SameTask
<1>6. ListedKeepsUp(d)'
  BY <1>4, <1>5 DEF ListedKeepsUp
<1>7. QED
  BY <1>4, <1>6 DEF ConflictInv, AppliedIsNewer, CheckHolds,
                    NoMarkAfterApply, Busy

\* The steps of an attempt keep what is known of its conflict check.
LEMMA AttemptConflictInv ==
    ASSUME TypeOK, NEW d \in Docs, ConflictInv(d), Start(d) \/ Attempt(d)
    PROVE  ConflictInv(d)'
<1> USE DEF observers, server
<1>0. /\ docs[d].modified \in Nat /\ job[d].listed.modified \in Nat
      /\ job[d] \in Job
  BY DEF TypeOK, Document, Job
<1>1. CASE Start(d)
  <2>1. pc'[d] = "load" /\ job'[d].listed = docs[d] /\ docs' = docs
    BY <1>1, GotoEffect DEF Start, newTask
  <2>2. ~applied[d] /\ applied' = applied
    BY <1>1 DEF Start, ConflictInv, AppliedIsNewer, Busy
  <2>3. QED
    BY <1>0, <2>1, <2>2 DEF ConflictInv, ListedKeepsUp, AppliedIsNewer,
                            CheckHolds, NoMarkAfterApply, TypeOK
<1>2. CASE LoadFails(d) \/ LoadSkips(d)
  BY <1>2, GoIdleEffect, IdleStep DEF LoadFails, LoadSkips
<1>3. CASE LoadReady(d)
  <2> DEFINE n == RecordOf(KeyOf(d, Loaded(d))).retryCount
             j == [Loaded(d) EXCEPT !.retryCount = n]
  <2>1. j.listed = job[d].listed
    BY <1>0 DEF Loaded, Job
  <2>2. pc'[d] = "resolve" /\ job'[d] = j
    BY <1>3, GotoEffect DEF LoadReady
  <2>3. pc[d] = "load" /\ UNCHANGED <<docs, applied>>
    BY <1>3 DEF LoadReady
  <2>4. QED
    <3> HIDE DEF j
    <3>1. QED
      BY <2>1, <2>2, <2>3 DEF ConflictInv, ListedKeepsUp, AppliedIsNewer,
                              CheckHolds, NoMarkAfterApply, Busy
<1>4. CASE ResolveTags(d)
  BY <1>4, GotoEffect, UncheckedStep DEF ResolveTags, SameTask, Busy
<1>5. CASE ResolveFails(d)
  BY <1>5, FinishEffect, UncheckedStep DEF ResolveFails, Busy
<1>6. CASE SizeExceeded(d) \/ ExtractFails(d)
  BY <1>6, DoFailedEffect, UncheckedStep DEF SizeExceeded, ExtractFails, Busy
<1>7. CASE ExtractFacts(d)
  BY <1>7, patchDocumentEffect, UncheckedStep DEF ExtractFacts, Busy
<1>8. CASE CheckDocument(d)
  <2> DEFINE same == Snapshot(docs[d]) = Snapshot(job[d].listed)
             j == [job[d] EXCEPT !.unchanged = same]
  <2>1. /\ j.listed = job[d].listed /\ j.mode = job[d].mode
        /\ j.unchanged = same
    BY <1>0 DEF Job
  <2>2. pc'[d] = "checkMeta" /\ job'[d] = j
    BY <1>8, GotoEffect DEF CheckDocument
  <2>3. pc[d] = "checkDoc" /\ UNCHANGED <<docs, applied>>
    BY <1>8 DEF CheckDocument
  <2>4. same => docs[d].modified = job[d].listed.modified
    BY DEF Snapshot
  <2>5. QED
    <3> HIDE DEF same, j
    <3>1. QED
      BY <1>0, <2>1, <2>2, <2>3, <2>4 DEF ConflictInv, ListedKeepsUp,
         AppliedIsNewer, CheckHolds, NoMarkAfterApply, Busy
<1>9. CASE CheckMetadata(d)
  <2>1. pc[d] = "checkMeta" /\ UNCHANGED <<docs, applied, touched>>
    BY <1>9 DEF CheckMetadata
  <2>2. CASE job[d].unchanged /\ docs[d].file = job[d].file
    <3>1. pc'[d] = "patch" /\ job'[d] = job[d]
      BY <1>9, <2>2, GotoEffect DEF CheckMetadata
    <3>2. QED
      BY <2>1, <2>2, <3>1 DEF ConflictInv, ListedKeepsUp, AppliedIsNewer,
                              CheckHolds, NoMarkAfterApply, Busy
  <2>3. CASE ~(job[d].unchanged /\ docs[d].file = job[d].file)
    <3>1. DoFailed(d, "transient")
      BY <1>9, <2>3 DEF CheckMetadata
    <3>2. QED
      BY <2>1, <3>1, DoFailedEffect, UncheckedStep DEF Busy
  <2>4. QED
    BY <2>2, <2>3
<1>10. CASE CheckFails(d) \/ PatchFails(d)
  BY <1>10, DoFailedEffect, UncheckedStep DEF CheckFails, PatchFails, Busy
<1>11. CASE PatchDocument(d)
  BY <1>11, FinishEffect, PatchStep DEF PatchDocument
<1>12. CASE PatchAnswerLost(d)
  BY <1>12, DoFailedEffect, PatchStep DEF PatchAnswerLost
<1>13. CASE Save(d) \/ SaveFails(d)
  BY <1>13, GoIdleEffect, IdleStep DEF Save, SaveFails
<1>14. QED
  BY <1>1, <1>2, <1>3, <1>4, <1>5, <1>6, <1>7, <1>8, <1>9, <1>10, <1>11,
     <1>12, <1>13 DEF Attempt

\* So do users and the server.
LEMMA EnvironmentConflictInv ==
    ASSUME TypeOK, NEW d \in Docs, ConflictInv(d), Environment(d)
    PROVE  ConflictInv(d)'
<1> USE DEF ConflictInv, ListedKeepsUp, AppliedIsNewer, CheckHolds, NoMarkAfterApply
<1>0. docs[d].modified \in Nat /\ job[d].listed.modified \in Nat
  BY DEF TypeOK, Document, Job
<1>1. CASE EditDocument(d)
  <2>1. Change(d) /\ docs'[d].modified = docs[d].modified + 1
    BY <1>1, SaveDocumentEffect DEF EditDocument
  <2>2. pc' = pc /\ job' = job /\ applied' = applied
    BY <2>1, ChangeEffect
  <2>3. pc[d] \in {"checkMeta", "patch"} => touched'[d]
    BY <2>1, ChangeEffect
  <2>4. ListedKeepsUp(d)' /\ AppliedIsNewer(d)'
    BY <1>0, <2>1, <2>2
  <2>5. CheckHolds(d)' /\ NoMarkAfterApply(d)'
    BY <2>2, <2>3
  <2>6. QED
    BY <2>4, <2>5
<1>2. CASE ReprocessDocument(d)
  <2>1. Change(d)
    BY <1>2 DEF ReprocessDocument
  <2>2. /\ docs'[d].modified = docs[d].modified
        /\ docs'[d].tags = docs[d].tags /\ docs'[d].fields = docs[d].fields
    BY <1>2 DEF ReprocessDocument, TypeOK, Document
  <2>3. QED
    BY <2>1, <2>2, ChangeEffect
<1>3. CASE DeleteDocument(d)
  BY <1>3, ChangeEffect DEF DeleteDocument
<1>4. QED
  BY <1>1, <1>2, <1>3 DEF Environment

\* The type invariant and the conflict invariant of every document.
ServerInv == TypeOK /\ \A d \in Docs : ConflictInv(d)

\* The invariant behind NoLostUpdate and NeverFailAfterApply.
LEMMA ServerInvariant == Spec => []ServerInv
<1>1. Init => ServerInv
  BY InitTypeOK DEF Init, ServerInv, ConflictInv, ListedKeepsUp,
     AppliedIsNewer, CheckHolds, NoMarkAfterApply, Busy
<1>2. ServerInv /\ [Next]_vars => ServerInv'
  <2> SUFFICES ASSUME ServerInv, [Next]_vars
               PROVE  ServerInv'
    OBVIOUS
  <2> USE DEF ServerInv
  <2>1. ASSUME NEW d \in Docs, Start(d) \/ Attempt(d) \/ Environment(d)
        PROVE  ServerInv'
    <3>1. TypeOK'
      BY <2>1, AttemptTypeOK, EnvironmentTypeOK
    <3>2. ConflictInv(d)'
      BY <2>1, AttemptConflictInv, EnvironmentConflictInv
    <3>3. ASSUME NEW e \in Docs \ {d}
          PROVE  ConflictInv(e)'
      <4>1. Same(e)
        BY <2>1, OthersSame
      <4>2. QED
        BY <4>1 DEF Same, ConflictInv, ListedKeepsUp, AppliedIsNewer,
                    CheckHolds, NoMarkAfterApply
    <3>4. QED
      BY <3>1, <3>2, <3>3
  <2>2. CASE Tick \/ Prune
    <3>1. UNCHANGED <<docs, pc, job, applied, touched>>
      BY <2>2 DEF Tick, Prune, server, observers
    <3>2. QED
      BY <2>2, <3>1, DaemonTypeOK DEF ConflictInv, ListedKeepsUp,
         AppliedIsNewer, CheckHolds, NoMarkAfterApply
  <2>3. CASE Crash
    BY <2>3, DaemonTypeOK, IdleStep DEF Crash
  <2>4. CASE UNCHANGED vars
    BY <2>4 DEF vars, TypeOK, ConflictInv, ListedKeepsUp, AppliedIsNewer,
                CheckHolds, NoMarkAfterApply
  <2>5. QED
    BY <2>1, <2>2, <2>3, <2>4 DEF Next
<1>3. QED
  BY <1>1, <1>2, PTL DEF Spec

\* Between CheckModified's GetDocument and the PATCH only changes made in that
\* very window go unnoticed: otherwise the PATCH finds the tags and fields the
\* patch was computed from (patchDocument).
THEOREM NoUpdateIsLost == Spec => []NoLostUpdate
<1>1. ServerInv => NoLostUpdate
  BY DEF ServerInv, ConflictInv, ListedKeepsUp, CheckHolds, NoLostUpdate, Busy
<1>2. QED
  BY <1>1, ServerInvariant, PTL

\* An attempt whose facts were applied does not go on to mark the document as
\* failed, whatever requests failed or were answered late (Do, markFailed).
THEOREM AppliedNeverMarkedFailed == Spec => []NeverFailAfterApply
<1>1. ServerInv => NeverFailAfterApply
  BY DEF ServerInv, ConflictInv, NoMarkAfterApply, NeverFailAfterApply
<1>2. QED
  BY <1>1, ServerInvariant, PTL

-----------------------------------------------------------------------------
(* Retry counts.                                                           *)

Loading == {"idle", "load"}

\* No record counts more failures than there were.
StoreCounts == \A k \in Key : RecordOf(k).retryCount <= HistOf(k).failures

\* Neither does the task of an attempt, whatever became of its record.
TaskCounts(d) ==
    pc[d] \notin Loading =>
        \A k \in Key : k = KeyOf(d, job[d]) =>
            job[d].retryCount <= HistOf(k).failures

MarkJustified(d) ==
    Patching(d) /\ job[d].mode = "fail" => job[d].err = "permanent" \/ lastRetry(d)

CountInv == TypeOK /\ StoreCounts
            /\ \A d \in Docs : TaskCounts(d) /\ MarkJustified(d)

\* Tasks of different documents have different keys.
LEMMA DifferentKeys ==
    ASSUME NEW d \in Docs, NEW e \in Docs \ {d}, NEW i, NEW j
    PROVE  KeyOf(d, i) # KeyOf(e, j)
  BY DEF KeyOf

\* An attempt that goes on with its task keeps the key.
LEMMA SameTaskKey ==
    ASSUME NEW d \in Docs, SameTask(d)
    PROVE  KeyOf(d, job'[d]) = KeyOf(d, job[d])
  BY DEF KeyOf, SameTask

\* What the observer does to the history of a key.
LEMMA HistEffect ==
    ASSUME TypeOK, NEW d \in Docs, NEW wait \in Nat, CountFailure(d, wait), NEW k \in Key
    PROVE  /\ k # KeyOf(d, job[d]) \/ job[d].err = "none" => HistOf(k)' = HistOf(k)
           /\ HistOf(k)'.failures \in Nat /\ HistOf(k).failures \in Nat
           /\ HistOf(k)'.failures >= HistOf(k).failures
           /\ HistOf(k)'.failures <= HistOf(k).failures + 1
           /\ k = KeyOf(d, job[d]) /\ job[d].err # "none" =>
                 /\ HistOf(k)'.wait = wait
                 /\ \/ HistOf(k)'.failures > RetryCap
                    \/ HistOf(k)'.failures = HistOf(k).failures + 1
<1> DEFINE key == KeyOf(d, job[d])
           n == HistOf(key).failures
           new == [failures |-> IF n > RetryCap THEN n ELSE n + 1, wait |-> wait]
<1>1. HistType /\ HistOf(k) \in [failures : Nat, wait : Nat] /\ n \in Nat
  BY HistOfType DEF TypeOK, HistType
<1>2. CASE job[d].err = "none"
  BY <1>1, <1>2 DEF CountFailure, HistOf
<1>3. CASE job[d].err # "none"
  <2>1. hist' = Upsert(hist, key, new)
    BY <1>3 DEF CountFailure
  <2>2. CASE k = key
    <3>1. HistOf(k)' = new
      <4> HIDE DEF new, key
      <4>1. QED
        BY <2>1, <2>2 DEF HistOf, Upsert
    <3>2. /\ new.wait = wait /\ new.failures \in Nat
          /\ new.failures >= n /\ new.failures <= n + 1
          /\ new.failures > RetryCap \/ new.failures = n + 1
      BY <1>1, NumberAssumption
    <3>3. n = HistOf(k).failures
      BY <2>2
    <3>4. QED
      <4> HIDE DEF new, n
      <4>1. QED
        BY <1>1, <1>3, <2>2, <3>1, <3>2, <3>3
  <2>3. CASE k # key
    <3>1. HistOf(k)' = HistOf(k)
      <4> HIDE DEF new, key
      <4>1. QED
        BY <2>1, <2>3 DEF HistOf, Upsert
    <3>2. QED
      BY <1>1, <2>3, <3>1
  <2>4. QED
    BY <2>2, <2>3
<1>4. QED
  BY <1>2, <1>3

\* What saving a result does to the record of a key.
LEMMA SaveEffect ==
    ASSUME TypeOK, NEW d \in Docs, Save(d), NEW k \in Key
    PROVE  /\ k # KeyOf(d, job[d]) =>
                 /\ RecordOf(k)' = RecordOf(k)
                 /\ k \in DOMAIN store' <=> k \in DOMAIN store
           /\ k = KeyOf(d, job[d]) =>
                 k \in DOMAIN store' /\ RecordOf(k)' = SavedRecord(job[d])
  BY DEF Save, Upsert, RecordOf

\* Steps of an attempt that touch neither the store nor the history.
LEMMA UncountedStep ==
    ASSUME CountInv, NEW d \in Docs, pc[d] \notin Loading, SameTask(d),
           UNCHANGED <<store, hist>>
    PROVE  StoreCounts' /\ TaskCounts(d)'
<1>1. StoreCounts'
  BY DEF CountInv, StoreCounts, RecordOf, HistOf
<1>2. ASSUME NEW k \in Key, k = KeyOf(d, job'[d])
      PROVE  job'[d].retryCount <= HistOf(k)'.failures
  <2>1. k = KeyOf(d, job[d]) /\ HistOf(k)' = HistOf(k)
    BY <1>2, SameTaskKey DEF HistOf
  <2>2. QED
    BY <2>1 DEF CountInv, TaskCounts, SameTask
<1>3. QED
  BY <1>1, <1>2 DEF TaskCounts

\* There is nothing to count for an attempt that is over.
LEMMA IdleCounts ==
    ASSUME NEW d \in Docs, pc'[d] \in Loading
    PROVE  TaskCounts(d)' /\ MarkJustified(d)'
  BY DEF TaskCounts, MarkJustified, Patching, Loading

\* A failure mark is only begun when it is due.
LEMMA MarkingStep ==
    ASSUME CountInv, NEW d \in Docs, NEW err, DoFailed(d, err)
    PROVE  MarkJustified(d)'
<1>1. TypeOK
  BY DEF CountInv
<1>2. QED
  BY <1>1, DoFailedEffect DEF MarkJustified, Patching, lastRetry, SameTask

\* A step without a failure mark needs no justification.
LEMMA UncountedMark ==
    ASSUME NEW d \in Docs, pc'[d] \notin {"checkDoc", "checkMeta", "patch"}
    PROVE  MarkJustified(d)'
  BY DEF MarkJustified, Patching

\* The steps of an attempt keep its counts and marks in order.
LEMMA AttemptCountInv ==
    ASSUME CountInv, NEW d \in Docs, Start(d) \/ Attempt(d)
    PROVE  StoreCounts' /\ TaskCounts(d)' /\ MarkJustified(d)'
<1> USE DEF observers, server
<1>0. TypeOK /\ StoreCounts /\ job[d] \in Job
  BY DEF CountInv, TypeOK
<1>1. ASSUME UNCHANGED <<store, hist>>
      PROVE  StoreCounts'
  BY <1>0, <1>1 DEF StoreCounts, RecordOf, HistOf
<1>2. CASE Start(d)
  BY <1>0, <1>1, <1>2, GotoEffect, IdleCounts DEF Start, Loading
<1>3. CASE LoadFails(d) \/ LoadSkips(d)
  BY <1>0, <1>1, <1>3, GoIdleEffect, IdleCounts DEF LoadFails, LoadSkips, Loading
<1>4. CASE LoadReady(d)
  <2> DEFINE key == KeyOf(d, Loaded(d))
             n == RecordOf(key).retryCount
             j == [Loaded(d) EXCEPT !.retryCount = n]
  <2>1. pc'[d] = "resolve" /\ job'[d] = j
    BY <1>0, <1>4, GotoEffect DEF LoadReady
  <2>2. j.retryCount = n /\ KeyOf(d, j) = key
    BY <1>0 DEF Loaded, Job, KeyOf
  <2>3. UNCHANGED <<store, hist>>
    BY <1>4 DEF LoadReady
  <2>4. TaskCounts(d)'
    <3> SUFFICES ASSUME NEW k \in Key, k = KeyOf(d, job'[d])
                 PROVE  job'[d].retryCount <= HistOf(k)'.failures
      BY DEF TaskCounts
    <3>1. k = key
      BY <2>1, <2>2
    <3>2. RecordOf(k).retryCount <= HistOf(k).failures
      BY <1>0 DEF StoreCounts
    <3>3. HistOf(k)' = HistOf(k)
      BY <2>3 DEF HistOf
    <3>4. job'[d].retryCount = RecordOf(k).retryCount
      BY <2>1, <2>2, <3>1
    <3>5. QED
      BY <3>2, <3>3, <3>4
  <2>5. QED
    BY <1>1, <2>1, <2>3, <2>4, UncountedMark
<1>5. CASE ResolveTags(d)
  BY <1>0, <1>5, GotoEffect, UncountedStep, UncountedMark DEF ResolveTags, SameTask, Loading
<1>6. CASE ResolveFails(d)
  BY <1>0, <1>6, FinishEffect, UncountedStep, UncountedMark DEF ResolveFails, Loading
<1>7. CASE SizeExceeded(d) \/ ExtractFails(d)
  BY <1>0, <1>7, DoFailedEffect, UncountedStep, MarkingStep
     DEF SizeExceeded, ExtractFails, Loading
<1>8. CASE ExtractFacts(d)
  <2>1. PICK facts \in FactsChoices :
           patchDocument(d, "apply", applyPatch(d, facts), "none")
    BY <1>8 DEF ExtractFacts
  <2>2. MarkJustified(d)'
    BY <1>0, <2>1, patchDocumentEffect DEF MarkJustified, Patching
  <2>3. QED
    BY <1>0, <1>8, <2>1, <2>2, patchDocumentEffect, UncountedStep
       DEF ExtractFacts, Loading
<1>9. CASE CheckDocument(d)
  <2> DEFINE same == Snapshot(docs[d]) = Snapshot(job[d].listed)
             j == [job[d] EXCEPT !.unchanged = same]
  <2>1. /\ j.listed = job[d].listed /\ j.mode = job[d].mode /\ j.file = job[d].file
        /\ j.err = job[d].err /\ j.retryCount = job[d].retryCount
    BY <1>0 DEF Job
  <2>2. pc'[d] = "checkMeta" /\ job'[d] = j
    BY <1>0, <1>9, GotoEffect DEF CheckDocument
  <2>3. pc[d] = "checkDoc" /\ UNCHANGED <<store, hist>>
    BY <1>9 DEF CheckDocument
  <2>4. QED
    <3> HIDE DEF same, j
    <3>1. SameTask(d)
      BY <2>1, <2>2 DEF SameTask
    <3>2. MarkJustified(d)'
      BY <2>1, <2>2, <2>3 DEF CountInv, MarkJustified, Patching, lastRetry
    <3>3. QED
      BY <2>3, <3>1, <3>2, UncountedStep DEF Loading
<1>10. CASE CheckMetadata(d)
  <2>1. pc[d] = "checkMeta" /\ UNCHANGED <<store, hist>>
    BY <1>10 DEF CheckMetadata
  <2>2. CASE job[d].unchanged /\ docs[d].file = job[d].file
    <3>1. pc'[d] = "patch" /\ job'[d] = job[d]
      BY <1>0, <1>10, <2>2, GotoEffect DEF CheckMetadata
    <3>2. MarkJustified(d)'
      BY <2>1, <3>1 DEF CountInv, MarkJustified, Patching, lastRetry
    <3>3. QED
      BY <2>1, <3>1, <3>2, UncountedStep DEF SameTask, Loading
  <2>3. CASE ~(job[d].unchanged /\ docs[d].file = job[d].file)
    <3>1. DoFailed(d, "transient")
      BY <1>10, <2>3 DEF CheckMetadata
    <3>2. QED
      BY <1>0, <2>1, <3>1, DoFailedEffect, UncountedStep, MarkingStep DEF Loading
  <2>4. QED
    BY <2>2, <2>3
<1>11. CASE CheckFails(d) \/ PatchFails(d)
  BY <1>0, <1>11, DoFailedEffect, UncountedStep, MarkingStep
     DEF CheckFails, PatchFails, Loading
<1>12. CASE PatchDocument(d)
  BY <1>0, <1>12, FinishEffect, UncountedStep, UncountedMark
     DEF PatchDocument, ServePatch, Loading
<1>13. CASE PatchAnswerLost(d)
  BY <1>0, <1>13, DoFailedEffect, UncountedStep, MarkingStep
     DEF PatchAnswerLost, ServePatch, Loading
<1>14. CASE Save(d)
  <2>1. TaskCounts(d)' /\ MarkJustified(d)'
    BY <1>0, <1>14, GoIdleEffect, IdleCounts DEF Save, Loading
  <2>2. SavedRecord(job[d]).wait \in Nat /\ CountFailure(d, SavedRecord(job[d]).wait)
    BY <1>0, <1>14, SavedRecordType DEF Save, Record
  <2>3. ASSUME NEW k \in Key
        PROVE  RecordOf(k)'.retryCount <= HistOf(k)'.failures
    <3>1. CASE k # KeyOf(d, job[d])
      BY <1>0, <1>14, <2>2, <3>1, HistEffect, SaveEffect DEF StoreCounts
    <3>2. CASE k = KeyOf(d, job[d])
      <4>1. job[d].retryCount <= HistOf(k).failures /\ job[d].retryCount \in 0..RetryCap
        BY <1>0, <1>14, <3>2 DEF CountInv, TaskCounts, Loading, Save, Job
      <4>2. RecordOf(k)' = SavedRecord(job[d])
        BY <1>0, <1>14, <3>2, SaveEffect
      <4>3. CASE job[d].err = "none"
        <5>1. RecordOf(k)'.retryCount = job[d].retryCount
          BY <4>2, <4>3 DEF SavedRecord
        <5>2. QED
          BY <1>0, <2>2, <4>1, <4>3, <5>1, HistEffect
      <4>4. CASE job[d].err # "none"
        <5>1. RecordOf(k)'.retryCount = job[d].retryCount + 1
          BY <4>2, <4>4 DEF SavedRecord
        <5>2. /\ HistOf(k)'.failures \in Nat /\ HistOf(k).failures \in Nat
              /\ \/ HistOf(k)'.failures > RetryCap
                 \/ HistOf(k)'.failures = HistOf(k).failures + 1
          BY <1>0, <2>2, <3>2, <4>4, HistEffect
        <5>3. QED
          BY <4>1, <5>1, <5>2, NumberAssumption
      <4>5. QED
        BY <4>3, <4>4
    <3>3. QED
      BY <3>1, <3>2
  <2>4. QED
    BY <2>1, <2>3 DEF StoreCounts
<1>15. CASE SaveFails(d)
  <2>1. TaskCounts(d)' /\ MarkJustified(d)'
    BY <1>0, <1>15, GoIdleEffect, IdleCounts DEF SaveFails, Loading
  <2>2. HistOf(KeyOf(d, job[d])).wait \in Nat
    BY <1>0, HistOfType DEF TypeOK, HistType
  <2>3. ASSUME NEW k \in Key
        PROVE  RecordOf(k)'.retryCount <= HistOf(k)'.failures
    <3>1. /\ HistOf(k)'.failures \in Nat /\ HistOf(k).failures \in Nat
          /\ HistOf(k)'.failures >= HistOf(k).failures
      BY <1>0, <1>15, <2>2, HistEffect DEF SaveFails
    <3>2. RecordOf(k)' = RecordOf(k) /\ RecordOf(k).retryCount \in Nat
      BY <1>0, <1>15, RecordOfType DEF SaveFails, RecordOf, Record
    <3>3. RecordOf(k).retryCount <= HistOf(k).failures
      BY <1>0 DEF StoreCounts
    <3>4. QED
      BY <3>1, <3>2, <3>3
  <2>4. QED
    BY <2>1, <2>3 DEF StoreCounts
<1>16. QED
  BY <1>2, <1>3, <1>4, <1>5, <1>6, <1>7, <1>8, <1>9, <1>10, <1>11, <1>12,
     <1>13, <1>14, <1>15 DEF Attempt

\* A step about a document leaves the records and the history of all others.
LEMMA OtherKeysSame ==
    ASSUME TypeOK, NEW d \in Docs, Start(d) \/ Attempt(d) \/ Environment(d),
           NEW k \in Key, k # KeyOf(d, job[d])
    PROVE  /\ HistOf(k)' = HistOf(k) /\ RecordOf(k)' = RecordOf(k)
           /\ k \in DOMAIN store' <=> k \in DOMAIN store
<1> USE DEF observers, server
<1>0. job[d] \in Job
  BY DEF TypeOK
<1>1. CASE Save(d)
  <2>1. SavedRecord(job[d]).wait \in Nat /\ CountFailure(d, SavedRecord(job[d]).wait)
    BY <1>0, <1>1, SavedRecordType DEF Save, Record
  <2>2. QED
    BY <1>1, <2>1, HistEffect, SaveEffect
<1>2. CASE SaveFails(d)
  <2>1. HistOf(KeyOf(d, job[d])).wait \in Nat
    BY HistOfType DEF TypeOK, HistType
  <2>2. QED
    BY <1>2, <2>1, HistEffect DEF SaveFails, RecordOf
<1>3. CASE UNCHANGED <<store, hist>>
  BY <1>3 DEF HistOf, RecordOf
<1>4. Save(d) \/ SaveFails(d) \/ UNCHANGED <<store, hist>>
  BY DEF Start, Attempt, Environment, LoadFails, LoadSkips, LoadReady,
         ResolveTags, ResolveFails, SizeExceeded, ExtractFails, ExtractFacts,
         CheckDocument, CheckMetadata, CheckFails, PatchDocument,
         PatchAnswerLost, PatchFails, ServePatch, EditDocument,
         ReprocessDocument, DeleteDocument, Change
<1>5. QED
  BY <1>1, <1>2, <1>3, <1>4

\* Users and the server leave the daemon alone.
LEMMA EnvironmentEffect ==
    ASSUME TypeOK, NEW d \in Docs, Environment(d)
    PROVE  UNCHANGED <<pc, job, store, hist>>
  BY ChangeEffect DEF Environment, EditDocument, ReprocessDocument, DeleteDocument

\* Time passes for records and history alike.
LEMMA TickEffect ==
    ASSUME TypeOK, Tick, NEW k \in Key
    PROVE  /\ RecordOf(k)'.retryCount = RecordOf(k).retryCount
           /\ HistOf(k)'.failures = HistOf(k).failures
           /\ HistOf(k)'.wait = Sooner(HistOf(k).wait)
           /\ k \in DOMAIN store' <=> k \in DOMAIN store
           /\ k \in DOMAIN store => store'[k] = Older(store[k])
<1>1. /\ DOMAIN store' = DOMAIN store /\ DOMAIN hist' = DOMAIN hist
      /\ k \in DOMAIN store => store'[k] = Older(store[k])
      /\ k \in DOMAIN hist => hist'[k] =
            [failures |-> hist[k].failures, wait |-> Sooner(hist[k].wait)]
  BY DEF Tick
<1>2. RecordOf(k)'.retryCount = RecordOf(k).retryCount
  BY <1>1 DEF RecordOf, NewRecord, Older
<1>3. /\ HistOf(k)'.failures = HistOf(k).failures
      /\ HistOf(k)'.wait = Sooner(HistOf(k).wait)
  BY <1>1 DEF HistOf, NoFailures, Sooner
<1>4. QED
  BY <1>1, <1>2, <1>3

\* The invariant behind ExhaustedBeforeFailed.
LEMMA CountInvariant == Spec => []CountInv
<1>1. Init => CountInv
  <2> SUFFICES ASSUME Init
               PROVE  CountInv
    OBVIOUS
  <2>1. StoreCounts
    BY DEF Init, StoreCounts, RecordOf, HistOf, NewRecord, NoFailures
  <2>2. ASSUME NEW d \in Docs
        PROVE  TaskCounts(d) /\ MarkJustified(d)
    BY DEF Init, TaskCounts, MarkJustified, Patching, Loading
  <2>3. QED
    BY <2>1, <2>2, InitTypeOK DEF CountInv
<1>2. CountInv /\ [Next]_vars => CountInv'
  <2> SUFFICES ASSUME CountInv, [Next]_vars
               PROVE  CountInv'
    OBVIOUS
  <2>0. TypeOK /\ StoreCounts
    BY DEF CountInv
  <2>1. ASSUME NEW d \in Docs, Start(d) \/ Attempt(d) \/ Environment(d)
        PROVE  CountInv'
    <3>1. TypeOK'
      BY <2>0, <2>1, AttemptTypeOK, EnvironmentTypeOK
    <3>2. StoreCounts' /\ TaskCounts(d)' /\ MarkJustified(d)'
      <4>1. CASE Environment(d)
        BY <2>0, <4>1, EnvironmentEffect DEF CountInv, StoreCounts, TaskCounts,
           MarkJustified, Patching, lastRetry, RecordOf, HistOf
      <4>2. QED
        BY <2>1, <4>1, AttemptCountInv
    <3>3. ASSUME NEW e \in Docs \ {d}
          PROVE  TaskCounts(e)' /\ MarkJustified(e)'
      <4>1. pc'[e] = pc[e] /\ job'[e] = job[e]
        BY <2>0, <2>1, OthersSame DEF Same
      <4>2. MarkJustified(e)'
        BY <4>1 DEF CountInv, MarkJustified, Patching, lastRetry
      <4>3. ASSUME NEW k \in Key, k = KeyOf(e, job[e])
            PROVE  HistOf(k)' = HistOf(k)
        BY <2>0, <2>1, <4>3, DifferentKeys, OtherKeysSame
      <4>4. TaskCounts(e)'
        BY <4>1, <4>3 DEF CountInv, TaskCounts, KeyOf
      <4>5. QED
        BY <4>2, <4>4
    <3>4. QED
      BY <3>1, <3>2, <3>3 DEF CountInv
  <2>2. CASE Tick
    <3>1. StoreCounts'
      BY <2>0, <2>2, TickEffect DEF StoreCounts
    <3>2. UNCHANGED <<pc, job>>
      BY <2>2 DEF Tick
    <3>3. ASSUME NEW d \in Docs
          PROVE  TaskCounts(d)' /\ MarkJustified(d)'
      <4>1. MarkJustified(d)'
        BY <3>2 DEF CountInv, MarkJustified, Patching, lastRetry
      <4>2. \A k \in Key : HistOf(k)'.failures = HistOf(k).failures
        BY <2>0, <2>2, TickEffect
      <4>3. TaskCounts(d)'
        BY <3>2, <4>2 DEF CountInv, TaskCounts, KeyOf
      <4>4. QED
        BY <4>1, <4>3
    <3>4. QED
      BY <2>0, <2>2, <3>1, <3>3, DaemonTypeOK DEF CountInv
  <2>3. CASE Prune
    <3>1. UNCHANGED <<pc, job, hist>>
      BY <2>3 DEF Prune, observers
    <3>2. ASSUME NEW k \in Key
          PROVE  RecordOf(k)'.retryCount <= HistOf(k)'.failures
      <4>1. RecordOf(k)' = RecordOf(k) \/ RecordOf(k)'.retryCount = 0
        BY <2>3 DEF Prune, RecordOf, NewRecord
      <4>2. HistOf(k)' = HistOf(k) /\ HistOf(k).failures \in Nat
        BY <2>0, <3>1, HistOfType DEF HistOf, TypeOK, HistType
      <4>3. QED
        BY <2>0, <4>1, <4>2 DEF StoreCounts
    <3>3. \A d \in Docs : TaskCounts(d)' /\ MarkJustified(d)'
      BY <3>1 DEF CountInv, TaskCounts, MarkJustified, Patching, lastRetry, HistOf
    <3>4. QED
      BY <2>0, <2>3, <3>2, <3>3, DaemonTypeOK DEF CountInv, StoreCounts
  <2>4. CASE Crash
    <3>1. StoreCounts'
      BY <2>4 DEF Crash, StoreCounts, RecordOf, HistOf, NewRecord, NoFailures
    <3>2. \A d \in Docs : pc'[d] = "idle"
      BY <2>4 DEF Crash
    <3>3. QED
      BY <2>0, <2>4, <3>1, <3>2, IdleCounts, DaemonTypeOK DEF CountInv, Loading
  <2>5. CASE UNCHANGED vars
    BY <2>5 DEF vars, CountInv, TypeOK, StoreCounts, TaskCounts, MarkJustified,
                Patching, lastRetry, RecordOf, HistOf
  <2>6. QED
    BY <2>1, <2>2, <2>3, <2>4, <2>5 DEF Next
<1>3. QED
  BY <1>1, <1>2, PTL DEF Spec

\* No document version is marked failed early: the error is permanent or there
\* were as many failures as retries are allowed (processDocumentInner, Do).
THEOREM MarkedOnlyWhenExhausted == Spec => []ExhaustedBeforeFailed
<1>1. CountInv => ExhaustedBeforeFailed
  <2> SUFFICES ASSUME CountInv, NEW d \in Docs, Patching(d), job[d].mode = "fail",
                      job[d].err # "permanent"
               PROVE  HistOf(KeyOf(d, job[d])).failures >= RetriesMax
    BY DEF ExhaustedBeforeFailed
  <2>1. job[d].retryCount >= RetriesMax
    BY DEF CountInv, MarkJustified, lastRetry
  <2>2. TypeOK /\ KeyOf(d, job[d]) \in Key
    BY KeyType DEF CountInv
  <2>3. job[d].retryCount <= HistOf(KeyOf(d, job[d])).failures
    BY <2>2 DEF CountInv, TaskCounts, Loading, Patching
  <2>4. HistOf(KeyOf(d, job[d])).failures \in Nat /\ job[d].retryCount \in Nat
    BY <2>2, HistOfType, NumberAssumption DEF TypeOK, HistType, Job
  <2>5. QED
    BY <2>1, <2>3, <2>4, NumberAssumption
<1>2. QED
  BY <1>1, CountInvariant, PTL

-----------------------------------------------------------------------------
(* The delay between attempts.                                             *)

\* No delay is longer than the pruner spares a record.
DelaysShort == \A c \in 0..RetryCap : RetryDelay(c) <= PruneAfter

\* While the observer waits so does the record, and it is too young to be
\* pruned before the wait is over.
WaitKept ==
    \A k \in Key : HistOf(k).wait > 0 =>
        /\ k \in DOMAIN store
        /\ store[k].wait = HistOf(k).wait
        /\ store[k].wait + store[k].age <= PruneAfter

DelayOver(d) ==
    pc[d] \notin Loading =>
        \A k \in Key : k = KeyOf(d, job[d]) => HistOf(k).wait = 0

BackoffInv == TypeOK /\ WaitKept /\ \A d \in Docs : DelayOver(d)

\* A delay that is over stays over while no failure is counted.
LEMMA UndelayedStep ==
    ASSUME BackoffInv, NEW d \in Docs, pc[d] \notin Loading, SameTask(d),
           UNCHANGED hist
    PROVE  DelayOver(d)'
<1>1. ASSUME NEW k \in Key, k = KeyOf(d, job'[d])
      PROVE  HistOf(k)'.wait = 0
  <2>1. k = KeyOf(d, job[d]) /\ HistOf(k)' = HistOf(k)
    BY <1>1, SameTaskKey DEF HistOf
  <2>2. QED
    BY <2>1 DEF BackoffInv, DelayOver
<1>2. QED
  BY <1>1 DEF DelayOver

\* There is no delay to respect for an attempt that is over.
LEMMA IdleDelay ==
    ASSUME NEW d \in Docs, pc'[d] \in Loading
    PROVE  DelayOver(d)'
  BY DEF DelayOver

\* The steps of an attempt do not begin before the delay is over.
LEMMA AttemptDelayOver ==
    ASSUME BackoffInv, NEW d \in Docs, Start(d) \/ Attempt(d)
    PROVE  DelayOver(d)'
<1> USE DEF observers, server
<1>0. TypeOK /\ WaitKept /\ job[d] \in Job
  BY DEF BackoffInv, TypeOK
<1>1. CASE Start(d)
  BY <1>0, <1>1, GotoEffect, IdleDelay DEF Start, Loading
<1>2. CASE LoadFails(d) \/ LoadSkips(d) \/ Save(d) \/ SaveFails(d)
  BY <1>0, <1>2, GoIdleEffect, IdleDelay
     DEF LoadFails, LoadSkips, Save, SaveFails, Loading
<1>3. CASE LoadReady(d)
  <2> DEFINE key == KeyOf(d, Loaded(d))
             j == [Loaded(d) EXCEPT !.retryCount = RecordOf(key).retryCount]
  <2>1. job'[d] = j /\ KeyOf(d, j) = key
    BY <1>0, <1>3, GotoEffect DEF LoadReady, Loaded, Job, KeyOf
  <2>2. RecordOf(key).wait = 0 /\ UNCHANGED hist
    BY <1>3 DEF LoadReady
  <2>3. ASSUME NEW k \in Key, k = key
        PROVE  HistOf(k)'.wait = 0
    <3>1. HistOf(k)' = HistOf(k) /\ HistOf(k).wait \in Nat
      BY <1>0, <2>2, HistOfType DEF HistOf, TypeOK, HistType
    <3>2. ~(HistOf(k).wait > 0)
      BY <1>0, <2>2, <2>3 DEF WaitKept, RecordOf
    <3>3. QED
      BY <3>1, <3>2
  <2>4. QED
    <3> HIDE DEF j, key
    <3>1. QED
      BY <2>1, <2>3 DEF DelayOver
<1>4. CASE ResolveTags(d)
  BY <1>0, <1>4, GotoEffect, UndelayedStep DEF ResolveTags, SameTask, Loading
<1>5. CASE ResolveFails(d)
  BY <1>0, <1>5, FinishEffect, UndelayedStep DEF ResolveFails, Loading
<1>6. CASE SizeExceeded(d) \/ ExtractFails(d)
  BY <1>0, <1>6, DoFailedEffect, UndelayedStep DEF SizeExceeded, ExtractFails, Loading
<1>7. CASE ExtractFacts(d)
  BY <1>0, <1>7, patchDocumentEffect, UndelayedStep DEF ExtractFacts, Loading
<1>8. CASE CheckDocument(d)
  <2>1. SameTask(d)
    BY <1>0, <1>8, GotoEffect DEF CheckDocument, SameTask, Job
  <2>2. QED
    BY <1>8, <2>1, UndelayedStep DEF CheckDocument, Loading
<1>9. CASE CheckMetadata(d)
  <2>1. SameTask(d)
    BY <1>0, <1>9, GotoEffect, DoFailedEffect DEF CheckMetadata, SameTask
  <2>2. QED
    BY <1>9, <2>1, UndelayedStep DEF CheckMetadata, Loading
<1>10. CASE CheckFails(d) \/ PatchFails(d)
  BY <1>0, <1>10, DoFailedEffect, UndelayedStep DEF CheckFails, PatchFails, Loading
<1>11. CASE PatchDocument(d)
  BY <1>0, <1>11, FinishEffect, UndelayedStep DEF PatchDocument, ServePatch, Loading
<1>12. CASE PatchAnswerLost(d)
  BY <1>0, <1>12, DoFailedEffect, UndelayedStep DEF PatchAnswerLost, ServePatch, Loading
<1>13. QED
  BY <1>1, <1>2, <1>3, <1>4, <1>5, <1>6, <1>7, <1>8, <1>9, <1>10, <1>11,
     <1>12 DEF Attempt

\* A failure that is counted leaves a record with the same delay.
LEMMA SaveWaitKept ==
    ASSUME DelaysShort, BackoffInv, NEW d \in Docs, Save(d) \/ SaveFails(d),
           NEW k \in Key, k = KeyOf(d, job[d]), HistOf(k)'.wait > 0
    PROVE  /\ k \in DOMAIN store'
           /\ store'[k].wait = HistOf(k)'.wait
           /\ store'[k].wait + store'[k].age <= PruneAfter
<1>0. TypeOK /\ job[d] \in Job
  BY DEF BackoffInv, TypeOK
<1>1. HistOf(k).wait = 0
  BY DEF BackoffInv, DelayOver, Loading, Save, SaveFails
<1>2. CASE Save(d)
  <2>1. SavedRecord(job[d]).wait \in Nat /\ CountFailure(d, SavedRecord(job[d]).wait)
    BY <1>0, <1>2, SavedRecordType DEF Save, Record
  <2>2. job[d].err # "none"
    BY <1>0, <1>1, <2>1, HistEffect
  <2>3. HistOf(k)'.wait = SavedRecord(job[d]).wait
    BY <1>0, <2>1, <2>2, HistEffect
  <2>4. k \in DOMAIN store' /\ store'[k] = SavedRecord(job[d])
    BY <1>2 DEF Save, Upsert
  <2>5. /\ SavedRecord(job[d]).wait = RetryDelay(job[d].retryCount)
        /\ SavedRecord(job[d]).age = 0
    BY <2>2 DEF SavedRecord
  <2>6. /\ RetryDelay(job[d].retryCount) <= PruneAfter
        /\ RetryDelay(job[d].retryCount) \in Nat
    BY <1>0, RetryDelayAssumption DEF DelaysShort, Job
  <2>7. QED
    BY <2>3, <2>4, <2>5, <2>6
<1>3. CASE SaveFails(d)
  <2>1. HistOf(KeyOf(d, job[d])).wait \in Nat
    BY <1>0, HistOfType DEF TypeOK, HistType
  <2>2. CountFailure(d, HistOf(KeyOf(d, job[d])).wait)
    BY <1>3 DEF SaveFails
  <2>3. HistOf(k)'.wait = HistOf(k).wait
    BY <1>0, <2>1, <2>2, HistEffect
  <2>4. QED
    BY <1>1, <2>3
<1>4. QED
  BY <1>2, <1>3

\* Time runs off the delay as fast as it adds to the record's age.
LEMMA TickWaitKept ==
    ASSUME BackoffInv, Tick
    PROVE  WaitKept'
<1> SUFFICES ASSUME NEW k \in Key, HistOf(k)'.wait > 0
             PROVE  /\ k \in DOMAIN store'
                    /\ store'[k].wait = HistOf(k)'.wait
                    /\ store'[k].wait + store'[k].age <= PruneAfter
  BY DEF WaitKept
<1>0. TypeOK /\ WaitKept
  BY DEF BackoffInv
<1>1. HistOf(k).wait \in Nat /\ HistOf(k)'.wait = Sooner(HistOf(k).wait)
  BY <1>0, TickEffect, HistOfType DEF TypeOK, HistType
<1>2. HistOf(k).wait > 0
  BY <1>1 DEF Sooner
<1>3. /\ k \in DOMAIN store /\ store[k].wait = HistOf(k).wait
      /\ store[k].wait + store[k].age <= PruneAfter
  BY <1>0, <1>2 DEF WaitKept
<1>4. store[k] \in Record /\ k \in DOMAIN store' /\ store'[k] = Older(store[k])
  BY <1>0, <1>3, TickEffect DEF TypeOK
<1>5. store[k].wait \in Nat /\ store[k].age \in Nat
  BY <1>4 DEF Record
<1>6. store'[k].wait = store[k].wait - 1 /\ HistOf(k)'.wait = HistOf(k).wait - 1
  BY <1>1, <1>2, <1>3, <1>4 DEF Older, Sooner
<1>7. store'[k].age <= store[k].age + 1 /\ store'[k].age \in Nat
  BY <1>4, <1>5 DEF Older
<1>8. QED
  BY <1>3, <1>4, <1>5, <1>6, <1>7, NumberAssumption

\* The invariant behind BackoffRespected.
LEMMA BackoffInvariant ==
    ASSUME DelaysShort
    PROVE  Spec => []BackoffInv
<1>1. Init => BackoffInv
  <2> SUFFICES ASSUME Init
               PROVE  BackoffInv
    OBVIOUS
  <2>1. WaitKept
    BY DEF Init, WaitKept, HistOf, NoFailures
  <2>2. \A d \in Docs : DelayOver(d)
    BY DEF Init, DelayOver, Loading
  <2>3. QED
    BY <2>1, <2>2, InitTypeOK DEF BackoffInv
<1>2. BackoffInv /\ [Next]_vars => BackoffInv'
  <2> SUFFICES ASSUME BackoffInv, [Next]_vars
               PROVE  BackoffInv'
    OBVIOUS
  <2>0. TypeOK /\ WaitKept
    BY DEF BackoffInv
  <2>1. ASSUME NEW d \in Docs, Start(d) \/ Attempt(d) \/ Environment(d)
        PROVE  BackoffInv'
    <3>1. TypeOK'
      BY <2>0, <2>1, AttemptTypeOK, EnvironmentTypeOK
    <3>2. DelayOver(d)'
      <4>1. CASE Environment(d)
        BY <2>0, <4>1, EnvironmentEffect DEF BackoffInv, DelayOver, HistOf
      <4>2. QED
        BY <2>1, <4>1, AttemptDelayOver
    <3>3. ASSUME NEW e \in Docs \ {d}
          PROVE  DelayOver(e)'
      <4>1. pc'[e] = pc[e] /\ job'[e] = job[e]
        BY <2>0, <2>1, OthersSame DEF Same
      <4>2. ASSUME NEW k \in Key, k = KeyOf(e, job[e])
            PROVE  HistOf(k)' = HistOf(k)
        BY <2>0, <2>1, <4>2, DifferentKeys, OtherKeysSame
      <4>3. QED
        BY <4>1, <4>2 DEF BackoffInv, DelayOver, KeyOf
    <3>4. WaitKept'
      <4> SUFFICES ASSUME NEW k \in Key, HistOf(k)'.wait > 0
                   PROVE  /\ k \in DOMAIN store'
                          /\ store'[k].wait = HistOf(k)'.wait
                          /\ store'[k].wait + store'[k].age <= PruneAfter
        BY DEF WaitKept
      <4>1. CASE k # KeyOf(d, job[d])
        <5>1. HistOf(k)' = HistOf(k) /\ RecordOf(k)' = RecordOf(k)
              /\ (k \in DOMAIN store' <=> k \in DOMAIN store)
          BY <2>0, <2>1, <4>1, OtherKeysSame
        <5>2. QED
          BY <2>0, <5>1 DEF WaitKept, RecordOf
      <4>2. CASE k = KeyOf(d, job[d]) /\ (Save(d) \/ SaveFails(d))
        BY <4>2, SaveWaitKept
      <4>3. CASE UNCHANGED <<store, hist>>
        BY <2>0, <4>3 DEF WaitKept, HistOf
      <4>4. Save(d) \/ SaveFails(d) \/ UNCHANGED <<store, hist>>
        BY <2>1 DEF Start, Attempt, Environment, LoadFails, LoadSkips, LoadReady,
           ResolveTags, ResolveFails, SizeExceeded, ExtractFails, ExtractFacts,
           CheckDocument, CheckMetadata, CheckFails, PatchDocument,
           PatchAnswerLost, PatchFails, ServePatch, EditDocument,
           ReprocessDocument, DeleteDocument, Change, observers
      <4>5. QED
        BY <4>1, <4>2, <4>3, <4>4
    <3>5. QED
      BY <3>1, <3>2, <3>3, <3>4 DEF BackoffInv
  <2>2. CASE Tick
    <3>1. UNCHANGED <<pc, job>>
      BY <2>2 DEF Tick
    <3>2. \A k \in Key : HistOf(k).wait = 0 => HistOf(k)'.wait = 0
      BY <2>0, <2>2, TickEffect DEF Sooner
    <3>3. \A d \in Docs : DelayOver(d)'
      BY <3>1, <3>2 DEF BackoffInv, DelayOver, KeyOf
    <3>4. QED
      BY <2>0, <2>2, <3>3, TickWaitKept, DaemonTypeOK DEF BackoffInv
  <2>3. CASE Prune
    <3>1. UNCHANGED <<pc, job, hist>>
      BY <2>3 DEF Prune, observers
    <3>2. ASSUME NEW k \in Key, HistOf(k).wait > 0
          PROVE  k \in DOMAIN store' /\ store'[k] = store[k]
      <4>1. /\ k \in DOMAIN store /\ store[k].wait = HistOf(k).wait
            /\ store[k].wait + store[k].age <= PruneAfter
        BY <2>0, <3>2 DEF WaitKept
      <4>2. store[k].wait \in Nat /\ store[k].age \in Nat
        BY <2>0, <4>1 DEF TypeOK, Record
      <4>3. ~Obsolete(store[k])
        BY <3>2, <4>1, <4>2, NumberAssumption DEF Obsolete
      <4>4. QED
        BY <2>3, <4>1, <4>3 DEF Prune
    <3>3. WaitKept'
      BY <2>0, <3>1, <3>2 DEF WaitKept, HistOf
    <3>4. \A d \in Docs : DelayOver(d)'
      BY <3>1 DEF BackoffInv, DelayOver, HistOf
    <3>5. QED
      BY <2>0, <2>3, <3>3, <3>4, DaemonTypeOK DEF BackoffInv
  <2>4. CASE Crash
    <3>1. WaitKept'
      BY <2>4 DEF Crash, WaitKept, HistOf, NoFailures
    <3>2. \A d \in Docs : pc'[d] = "idle"
      BY <2>4 DEF Crash
    <3>3. QED
      BY <2>0, <2>4, <3>1, <3>2, IdleDelay, DaemonTypeOK DEF BackoffInv, Loading
  <2>5. CASE UNCHANGED vars
    BY <2>5 DEF vars, BackoffInv, TypeOK, WaitKept, DelayOver, HistOf
  <2>6. QED
    BY <2>1, <2>2, <2>3, <2>4, <2>5 DEF Next
<1>3. QED
  BY <1>1, <1>2, PTL DEF Spec

\* As long as no delay is longer than the time records are kept for, no attempt
\* is made before the delay after the last failure is over: the pruner cannot
\* have deleted the record, although it does not look at RetryAfter (loadTask,
\* SaveResult, Prune).
THEOREM BackoffIsRespected ==
    ASSUME DelaysShort
    PROVE  Spec => []BackoffRespected
<1>1. BackoffInv => BackoffRespected
  BY KeyType DEF BackoffInv, DelayOver, Loading, Busy, BackoffRespected
<1>2. QED
  BY <1>1, BackoffInvariant, PTL

-----------------------------------------------------------------------------
(* What the daemon's own changes do to its two tags.                       *)

\* The patch at hand removes the todo tag and settles the failed tag.
PatchClears(j) == /\ j.patch.tagsChanged /\ TodoTag \notin j.patch.tags
                  /\ (FailedTag \in j.patch.tags) = (j.mode = "fail")

ListedTodo(d) == pc[d] \in Busy => TodoTag \in job[d].listed.tags

PatchSettles(d) == Patching(d) => PatchClears(job[d])

TodoInv == TypeOK /\ \A d \in Docs : ListedTodo(d) /\ PatchSettles(d)

\* The patch of an attempt removes the todo tag and does not set the failed tag.
LEMMA FactsPatchClears ==
    ASSUME NEW doc, TodoTag \in doc.tags, NEW facts
    PROVE  LET patch == FactsPatch(doc, facts, TodoTag, FailedTag)
           IN  /\ patch.tagsChanged /\ TodoTag \notin patch.tags
               /\ FailedTag \notin patch.tags
  BY DEF FactsPatch, build, unsetTag, setFacts, newPatchBuilder

\* The patch of a failure mark removes the todo tag and sets the failed tag.
LEMMA FailPatchClears ==
    ASSUME TodoTag # FailedTag, NEW doc, TodoTag \in doc.tags
    PROVE  LET patch == FailPatch(doc, TodoTag, FailedTag)
           IN  /\ patch.tagsChanged /\ TodoTag \notin patch.tags
               /\ FailedTag \in patch.tags
<1> DEFINE patch == FailPatch(doc, TodoTag, FailedTag)
<1>1. patch.tags = (doc.tags \ {TodoTag}) \cup {FailedTag}
  BY DEF FailPatch, build, setTag, unsetTag, newPatchBuilder
<1>2. patch.tagsChanged = (((doc.tags \ {TodoTag}) \cup {FailedTag}) # doc.tags)
  BY DEF FailPatch, build, setTag, unsetTag, newPatchBuilder
<1>3. TodoTag \notin (doc.tags \ {TodoTag}) \cup {FailedTag}
  OBVIOUS
<1>4. QED
  BY <1>1, <1>2, <1>3

\* Steps that end without a patch at hand.
LEMMA UnpatchedStep ==
    ASSUME NEW d \in Docs, ListedTodo(d), pc[d] \in Busy, SameTask(d),
           pc'[d] \notin {"checkDoc", "checkMeta", "patch"}
    PROVE  ListedTodo(d)' /\ PatchSettles(d)'
  BY DEF ListedTodo, PatchSettles, Patching, SameTask

\* A failure is marked, if at all, by such a patch.
LEMMA FailingStep ==
    ASSUME TodoTag # FailedTag, TypeOK, NEW d \in Docs, ListedTodo(d),
           pc[d] \in Busy, NEW err, DoFailed(d, err)
    PROVE  ListedTodo(d)' /\ PatchSettles(d)'
<1>1. /\ failPatch(d).tagsChanged /\ TodoTag \notin failPatch(d).tags
      /\ FailedTag \in failPatch(d).tags
  BY FailPatchClears DEF ListedTodo, failPatch
<1>2. QED
  BY <1>1, DoFailedEffect DEF ListedTodo, PatchSettles, PatchClears, Patching, SameTask

\* An attempt holds a document listed with the todo tag, and a patch that clears it.
LEMMA AttemptTodoInv ==
    ASSUME TodoTag # FailedTag, TypeOK, NEW d \in Docs, ListedTodo(d), PatchSettles(d),
           Start(d) \/ Attempt(d)
    PROVE  ListedTodo(d)' /\ PatchSettles(d)'
<1>0. job[d] \in Job
  BY DEF TypeOK
<1>1. CASE Start(d)
  <2>1. pc'[d] = "load" /\ job'[d].listed = docs[d] /\ TodoTag \in docs[d].tags
    BY <1>1, GotoEffect DEF Start, newTask
  <2>2. QED
    BY <2>1 DEF ListedTodo, PatchSettles, Patching
<1>2. CASE LoadFails(d) \/ LoadSkips(d) \/ Save(d) \/ SaveFails(d)
  <2>1. pc'[d] = "idle"
    BY <1>2, GoIdleEffect DEF LoadFails, LoadSkips, Save, SaveFails
  <2>2. QED
    BY <2>1 DEF ListedTodo, PatchSettles, Patching, Busy
<1>3. CASE LoadReady(d)
  <2> DEFINE n == RecordOf(KeyOf(d, Loaded(d))).retryCount
  <2>1. pc'[d] = "resolve" /\ job'[d] = [Loaded(d) EXCEPT !.retryCount = n]
    BY <1>3, GotoEffect DEF LoadReady
  <2>2. job'[d].listed = job[d].listed
    BY <1>0, <2>1 DEF Loaded, Job
  <2>3. pc[d] \in Busy
    BY <1>3 DEF LoadReady, Busy
  <2>4. QED
    <3> HIDE DEF n
    <3>1. TodoTag \in job'[d].listed.tags
      BY <2>2, <2>3 DEF ListedTodo
    <3>2. QED
      BY <2>1, <3>1 DEF ListedTodo, PatchSettles, Patching
<1>4. CASE ResolveTags(d)
  BY <1>4, GotoEffect, UnpatchedStep DEF ResolveTags, SameTask, Busy
<1>5. CASE ResolveFails(d)
  BY <1>5, FinishEffect, UnpatchedStep DEF ResolveFails, Busy
<1>6. CASE SizeExceeded(d) \/ ExtractFails(d) \/ CheckFails(d) \/ PatchFails(d)
  BY <1>6, FailingStep DEF SizeExceeded, ExtractFails, CheckFails, PatchFails, Busy
<1>7. CASE ExtractFacts(d)
  <2>1. PICK facts \in FactsChoices :
           patchDocument(d, "apply", applyPatch(d, facts), "none")
    BY <1>7 DEF ExtractFacts
  <2>2. TodoTag \in job[d].listed.tags
    BY <1>7 DEF ExtractFacts, ListedTodo, Busy
  <2>3. /\ applyPatch(d, facts).tagsChanged /\ TodoTag \notin applyPatch(d, facts).tags
        /\ FailedTag \notin applyPatch(d, facts).tags
    BY <2>2, FactsPatchClears DEF applyPatch
  <2>4. QED
    BY <2>1, <2>2, <2>3, patchDocumentEffect
       DEF ListedTodo, PatchSettles, PatchClears, Patching, SameTask
<1>8. CASE CheckDocument(d)
  <2> DEFINE same == Snapshot(docs[d]) = Snapshot(job[d].listed)
             j == [job[d] EXCEPT !.unchanged = same]
  <2>1. job'[d] = j /\ pc[d] = "checkDoc"
    BY <1>8, GotoEffect DEF CheckDocument
  <2>2. j.listed = job[d].listed /\ j.mode = job[d].mode /\ j.patch = job[d].patch
    BY <1>0 DEF Job
  <2>3. QED
    <3> HIDE DEF j, same
    <3>1. QED
      BY <2>1, <2>2 DEF ListedTodo, PatchSettles, PatchClears, Patching, Busy
<1>9. CASE CheckMetadata(d)
  <2>1. pc[d] = "checkMeta"
    BY <1>9 DEF CheckMetadata
  <2>2. CASE DoFailed(d, "transient")
    BY <2>1, <2>2, FailingStep DEF Busy
  <2>3. CASE Goto(d, "patch", job[d])
    BY <2>1, <2>3, GotoEffect DEF ListedTodo, PatchSettles, Patching, Busy
  <2>4. QED
    BY <1>9, <2>2, <2>3 DEF CheckMetadata
<1>10. CASE PatchDocument(d)
  BY <1>10, FinishEffect, UnpatchedStep DEF PatchDocument, Busy
<1>11. CASE PatchAnswerLost(d)
  BY <1>11, FailingStep DEF PatchAnswerLost, Busy
<1>12. QED
  BY <1>1, <1>2, <1>3, <1>4, <1>5, <1>6, <1>7, <1>8, <1>9, <1>10, <1>11 DEF Attempt

\* The invariant behind DaemonClearsTodo.
LEMMA TodoInvariant ==
    ASSUME TodoTag # FailedTag
    PROVE  Spec => []TodoInv
<1>1. Init => TodoInv
  BY InitTypeOK DEF Init, TodoInv, ListedTodo, PatchSettles, Patching, Busy
<1>2. TodoInv /\ [Next]_vars => TodoInv'
  <2> SUFFICES ASSUME TodoInv, [Next]_vars
               PROVE  TodoInv'
    OBVIOUS
  <2> USE DEF TodoInv
  <2>1. ASSUME NEW d \in Docs, Start(d) \/ Attempt(d) \/ Environment(d)
        PROVE  TodoInv'
    <3>1. TypeOK'
      BY <2>1, AttemptTypeOK, EnvironmentTypeOK
    <3>2. ListedTodo(d)' /\ PatchSettles(d)'
      <4>1. CASE Environment(d)
        BY <4>1, EnvironmentEffect DEF ListedTodo, PatchSettles, Patching
      <4>2. QED
        BY <2>1, <4>1, AttemptTodoInv
    <3>3. \A e \in Docs \ {d} : ListedTodo(e)' /\ PatchSettles(e)'
      BY <2>1, OthersSame DEF Same, ListedTodo, PatchSettles, Patching
    <3>4. QED
      BY <3>1, <3>2, <3>3
  <2>2. CASE Tick \/ Prune
    <3>1. UNCHANGED <<pc, job>>
      BY <2>2 DEF Tick, Prune
    <3>2. QED
      BY <2>2, <3>1, DaemonTypeOK DEF ListedTodo, PatchSettles, Patching
  <2>3. CASE Crash
    BY <2>3, DaemonTypeOK DEF Crash, ListedTodo, PatchSettles, Patching, Busy
  <2>4. CASE UNCHANGED vars
    BY <2>4 DEF vars, TypeOK, ListedTodo, PatchSettles, Patching
  <2>5. QED
    BY <2>1, <2>2, <2>3, <2>4 DEF Next
<1>3. QED
  BY <1>1, <1>2, PTL DEF Spec

\* Every change the daemon makes to a document removes the todo tag, and leaves
\* the failed tag exactly when the attempt gave up.
THEOREM TodoIsCleared ==
    ASSUME TodoTag # FailedTag
    PROVE  Spec => DaemonClearsTodo
<1> DEFINE Clears == \A d \in Docs :
             docs'[d] # docs[d] /\ used'.edits = used.edits =>
                /\ TodoTag \notin docs'[d].tags
                /\ (FailedTag \in docs'[d].tags) = (job[d].mode = "fail")
<1>1. TodoInv /\ [Next]_vars => [Clears]_vars
  <2> SUFFICES ASSUME TodoInv, [Next]_vars, NEW d \in Docs,
                      docs'[d] # docs[d], used'.edits = used.edits
               PROVE  /\ TodoTag \notin docs'[d].tags
                      /\ (FailedTag \in docs'[d].tags) = (job[d].mode = "fail")
    OBVIOUS
  <2>0. TypeOK /\ used.edits \in Nat
    BY DEF TodoInv, TypeOK
  <2>1. ~UNCHANGED vars /\ ~Tick /\ ~Prune /\ ~Crash
    BY DEF vars, Tick, Prune, Crash, server
  <2>2. PICK e \in Docs : Start(e) \/ Attempt(e) \/ Environment(e)
    BY <2>1 DEF Next
  <2>3. e = d
    BY <2>0, <2>2, OthersSame DEF Same
  <2>4. ~Environment(d)
    <3>1. ASSUME Change(d)
          PROVE  FALSE
      BY <2>0, <3>1 DEF Change, TypeOK
    <3>2. QED
      BY <3>1 DEF Environment, EditDocument, ReprocessDocument, DeleteDocument
  <2>5. PatchDocument(d) \/ PatchAnswerLost(d)
    BY <2>2, <2>3, <2>4 DEF Start, Attempt, LoadFails, LoadSkips, LoadReady,
       ResolveTags, ResolveFails, SizeExceeded, ExtractFails, ExtractFacts,
       CheckDocument, CheckMetadata, CheckFails, PatchFails, Save, SaveFails, server
  <2>6. docs'[d].tags = PatchedTags(docs[d], job[d].patch) /\ pc[d] = "patch"
    BY <2>0, <2>5, SaveDocumentEffect DEF PatchDocument, PatchAnswerLost, ServePatch
  <2>7. PatchClears(job[d])
    BY <2>6 DEF TodoInv, PatchSettles, Patching
  <2>8. QED
    BY <2>6, <2>7 DEF PatchClears, PatchedTags
<1>2. QED
  BY <1>1, TodoInvariant, PTL DEF Spec, DaemonClearsTodo
-----------------------------------------------------------------------------
(* The limit of retries.  The failures of a document version are weighed   *)
(* against the retry count at hand, the record's or the attempt's, and     *)
(* what the disturbances so far allow for: a series of retries each.       *)

Disturbances == used.faults + used.edits

Granted == (RetriesMax + 1) * Disturbances

SeriesLimit == \A k \in Key : HistOf(k).failures <= RetriesMax + Granted

\* A disturbance that no failure was counted for since: the retries may start
\* over, and be one more.
OneMore(d) == \A k \in Key : k[1] = d => HistOf(k).failures < Granted

\* A version that may yet come did not fail.
FutureUnfailed(d) ==
    \A k \in Key : k[1] = d /\ k[2] > docs[d].modified => HistOf(k).failures = 0

\* The record of a document to be processed counts its failures and is too
\* young to be pruned, or may be lost.
RecordCounts(d) ==
    pc[d] \in Loading /\ alive[d] /\ TodoTag \in docs[d].tags =>
        \A k \in Key : k = CurrentKey(d) =>
            \/ HistOf(k).failures <= Granted
            \/ /\ k \in DOMAIN store /\ store[k].age <= PruneAfter
               /\ HistOf(k).failures <= store[k].retryCount + Granted

\* The attempt counts the failures of its version, whatever becomes of the record.
SeriesCounts(d) ==
    pc[d] \notin Loading =>
        \A k \in Key : k = KeyOf(d, job[d]) =>
            HistOf(k).failures <= job[d].retryCount + Granted

\* If the document is another version meanwhile, that one may be retried.
NextSeries(d) ==
    pc[d] \notin Loading =>
        \A k \in Key : k = CurrentKey(d) /\ k # KeyOf(d, job[d]) =>
            HistOf(k).failures <= Granted

\* The document is not what the attempt was told.
Disturbed(d) ==
    /\ pc[d] \in Busy \ {"save"}
    /\ \/ ~alive[d] \/ docs[d] # job[d].listed
       \/ pc[d] # "load" /\ docs[d].file # job[d].file
       \/ pc[d] = "checkMeta" /\ ~job[d].unchanged

\* A failure beyond the last retry takes a disturbance.
BeyondLast(d) == pc[d] = "save" /\ job[d].err # "none" /\ lastRetry(d)

\* An attempt begins with applyFacts, for a document to be processed.
BeginsFresh(d) ==
    /\ pc[d] \in {"load", "resolve", "extract"} => job[d].mode = "apply"
    /\ pc[d] = "load" => TodoTag \in job[d].listed.tags

SeriesKept(d) ==
    /\ FutureUnfailed(d) /\ BeginsFresh(d)
    /\ RecordCounts(d) /\ SeriesCounts(d) /\ NextSeries(d)
    /\ Disturbed(d) \/ BeyondLast(d) => OneMore(d)

\* No record still waiting for its retry is old enough to be pruned.
RecordsKept ==
    \A k \in DOMAIN store :
        store[k].wait > 0 => store[k].wait + store[k].age <= PruneAfter

SeriesInv == RecordsKept /\ SeriesLimit /\ \A d \in Docs : SeriesKept(d)

\* Numbers.
LEMMA SeriesTypes ==
    ASSUME TypeOK
    PROVE  /\ Disturbances \in Nat /\ Granted \in Nat
           /\ \A k \in Key : HistOf(k).failures \in Nat
<1>1. Disturbances \in Nat
  BY DEF Disturbances, TypeOK
<1>2. (RetriesMax + 1) * Disturbances \in Nat
  BY <1>1, NumberAssumption
<1>3. \A k \in Key : HistOf(k).failures \in Nat
  BY HistOfType DEF TypeOK, HistType
<1>4. QED
  BY <1>1, <1>2, <1>3 DEF Granted

\* After a step they still are.
LEMMA SeriesTypesNext ==
    ASSUME TypeOK'
    PROVE  /\ Disturbances' \in Nat /\ Granted' \in Nat
           /\ \A k \in Key : HistOf(k)'.failures \in Nat
<1>1. Disturbances' \in Nat
  BY DEF Disturbances, TypeOK
<1>2. \A n \in Nat : (RetriesMax + 1) * n \in Nat
  BY NumberAssumption
<1>3. \A k \in Key : HistOf(k)'.failures \in Nat
  <2>1. \A k \in DOMAIN hist' : hist'[k] \in [failures : Nat, wait : Nat]
    BY DEF TypeOK
  <2>2. QED
    BY <2>1 DEF HistOf, NoFailures
<1>4. QED
  BY <1>1, <1>2, <1>3 DEF Granted

\* A disturbance allows for one more failure and a series of retries.
LEMMA DisturbanceGrants ==
    ASSUME TypeOK, Disturbances' = Disturbances + 1
    PROVE  Granted' = Granted + RetriesMax + 1
<1>1. Disturbances \in Nat /\ RetriesMax \in Nat
  BY SeriesTypes, NumberAssumption
<1>2. (RetriesMax + 1) * (Disturbances + 1) = (RetriesMax + 1) * Disturbances + RetriesMax + 1
  BY <1>1
<1>3. QED
  BY <1>2 DEF Granted

\* A fault disturbs.
LEMMA FaultDisturbs ==
    ASSUME TypeOK, Fault
    PROVE  Disturbances' = Disturbances + 1
  BY DEF Fault, TypeOK, Disturbances

\* So does a change of a document.
LEMMA ChangeDisturbs ==
    ASSUME TypeOK, NEW d \in Docs, Change(d)
    PROVE  Disturbances' = Disturbances + 1
  BY DEF Change, TypeOK, Disturbances

\* After a disturbance no failure is owed.
LEMMA DisturbancePays ==
    ASSUME TypeOK, TypeOK', SeriesLimit, Disturbances' = Disturbances + 1, NEW k \in Key
    PROVE  /\ HistOf(k)' = HistOf(k) => HistOf(k)'.failures < Granted'
           /\ HistOf(k)'.failures <= HistOf(k).failures + 1 =>
                 HistOf(k)'.failures <= Granted'
<1>1. Granted' = Granted + RetriesMax + 1 /\ Granted \in Nat /\ RetriesMax \in Nat
  BY DisturbanceGrants, SeriesTypes, NumberAssumption
<1>2. HistOf(k).failures <= RetriesMax + Granted /\ HistOf(k).failures \in Nat
  BY SeriesTypes DEF SeriesLimit
<1>3. HistOf(k)'.failures \in Nat
  BY SeriesTypesNext
<1>4. QED
  BY <1>1, <1>2, <1>3

\* An attempt that is disturbed may go on in any way.
LEMMA DisturbedStep ==
    ASSUME TypeOK, TypeOK', NEW d \in Docs, OneMore(d)', FutureUnfailed(d)', BeginsFresh(d)'
    PROVE  SeriesKept(d)'
<1>1. job'[d].retryCount \in Nat
  BY NumberAssumption DEF TypeOK, Job
<1>2. Granted' \in Nat /\ \A k \in Key : HistOf(k)'.failures \in Nat
  BY SeriesTypesNext
<1>3. \A k \in Key : k[1] = d => HistOf(k)'.failures < Granted'
  BY DEF OneMore
<1>4. RecordCounts(d)' /\ NextSeries(d)'
  BY <1>2, <1>3 DEF RecordCounts, NextSeries, CurrentKey
<1>5. SeriesCounts(d)'
  BY <1>1, <1>2, <1>3 DEF SeriesCounts, KeyOf
<1>6. QED
  BY <1>4, <1>5 DEF SeriesKept

\* An attempt that goes on with its task, without a disturbance, keeps the limit.
LEMMA GoesOnStep ==
    ASSUME NEW d \in Docs, SeriesKept(d), SameTask(d),
           pc[d] \notin Loading, pc'[d] \notin Loading, BeginsFresh(d)',
           UNCHANGED <<docs, alive, hist, used>>,
           Disturbed(d)' \/ BeyondLast(d)' => Disturbed(d) \/ BeyondLast(d)
    PROVE  SeriesKept(d)'
<1>1. KeyOf(d, job'[d]) = KeyOf(d, job[d])
  BY SameTaskKey
<1>2. Granted' = Granted /\ \A k \in Key : HistOf(k)' = HistOf(k)
  BY DEF Granted, Disturbances, HistOf
<1>3. FutureUnfailed(d)' /\ RecordCounts(d)'
  BY <1>2 DEF SeriesKept, FutureUnfailed, RecordCounts
<1>4. SeriesCounts(d)'
  BY <1>1, <1>2 DEF SeriesKept, SeriesCounts, SameTask
<1>5. NextSeries(d)'
  BY <1>1, <1>2 DEF SeriesKept, NextSeries, CurrentKey
<1>6. Disturbed(d)' \/ BeyondLast(d)' => OneMore(d)'
  BY <1>2 DEF SeriesKept, OneMore
<1>7. QED
  BY <1>3, <1>4, <1>5, <1>6 DEF SeriesKept

\* An empty patch leaves nothing to fail.
LEMMA EmptyPatchSucceeds ==
    ASSUME TypeOK, NEW d \in Docs, NEW mode, NEW patch, NEW err,
           patchDocument(d, mode, patch, err), pc'[d] = "save"
    PROVE  job'[d].err = "none"
<1>1. job[d] \in Job
  BY DEF TypeOK
<1>2. CASE IsEmptyPatch(patch)
  <2>1. job'[d] = [job[d] EXCEPT !.err = "none"]
    BY <1>2, GotoEffect DEF patchDocument, Finish
  <2>2. QED
    BY <1>1, <2>1 DEF Job
<1>3. CASE ~IsEmptyPatch(patch)
  BY <1>3, GotoEffect DEF patchDocument
<1>4. QED
  BY <1>2, <1>3

\* Giving up is a failure of applyFacts put off: a mark follows it.
LEMMA FailureMarks ==
    ASSUME TypeOK, NEW d \in Docs, NEW err, DoFailed(d, err), job[d].mode = "apply"
    PROVE  ~BeyondLast(d)'
<1>1. SameTask(d)
  BY DoFailedEffect
<1>2. lastRetry(d)' = lastRetry(d)
  BY <1>1 DEF lastRetry, SameTask
<1>3. CASE lastRetry(d) \/ err = "permanent"
  <2>1. patchDocument(d, "fail", failPatch(d), err)
    BY <1>3 DEF DoFailed
  <2>2. QED
    BY <2>1, EmptyPatchSucceeds DEF BeyondLast
<1>4. CASE ~lastRetry(d)
  BY <1>2, <1>4 DEF BeyondLast
<1>5. QED
  BY <1>3, <1>4

\* A failure of applyFacts, or one that a disturbance explains, keeps the limit.
LEMMA FailedStep ==
    ASSUME TypeOK, NEW d \in Docs, SeriesKept(d), NEW err, DoFailed(d, err),
           pc[d] \in Busy \ {"load", "save"}, UNCHANGED <<docs, alive, hist, used>>,
           job[d].mode = "apply" \/ Disturbed(d)
    PROVE  SeriesKept(d)'
<1>1. SameTask(d) /\ pc'[d] \in {"save", "checkDoc"}
  BY DoFailedEffect
<1>2. BeginsFresh(d)' /\ pc[d] \notin Loading /\ pc'[d] \notin Loading
  BY <1>1 DEF BeginsFresh, Loading, Busy
<1>3. Disturbed(d)' => Disturbed(d)
  BY <1>1 DEF Disturbed, SameTask
<1>4. BeyondLast(d)' => Disturbed(d)
  BY FailureMarks
<1>5. QED
  BY <1>1, <1>2, <1>3, <1>4, GoesOnStep

\* After a fault an attempt may go on in any way, unless it is counted.
LEMMA FaultStep ==
    ASSUME TypeOK, TypeOK', SeriesLimit, NEW d \in Docs, SeriesKept(d), Fault,
           docs'[d].modified >= docs[d].modified, UNCHANGED hist, BeginsFresh(d)'
    PROVE  SeriesKept(d)'
<1>1. Disturbances' = Disturbances + 1
  BY FaultDisturbs
<1>2. \A k \in Key : HistOf(k)' = HistOf(k)
  BY DEF HistOf
<1>3. OneMore(d)'
  BY <1>1, <1>2, DisturbancePays DEF OneMore
<1>4. docs[d].modified \in Nat /\ docs'[d].modified \in Nat
  BY DEF TypeOK, Document
<1>5. FutureUnfailed(d)'
  <2> SUFFICES ASSUME NEW k \in Key, k[1] = d, k[2] > docs'[d].modified
               PROVE  HistOf(k)'.failures = 0
    BY DEF FutureUnfailed
  <2>1. k[2] \in Nat
    BY DEF Key
  <2>2. k[2] > docs[d].modified
    BY <1>4, <2>1
  <2>3. QED
    BY <1>2, <2>2 DEF SeriesKept, FutureUnfailed
<1>6. QED
  BY <1>3, <1>5, DisturbedStep

\* Facts are tried first: only what was tried can be marked as failed.
LEMMA AttemptBeginsFresh ==
    ASSUME TypeOK, NEW d \in Docs, BeginsFresh(d), Start(d) \/ Attempt(d)
    PROVE  BeginsFresh(d)'
<1>0. job[d] \in Job
  BY DEF TypeOK
<1>1. CASE Start(d)
  BY <1>1, GotoEffect DEF Start, newTask, BeginsFresh
<1>2. CASE LoadReady(d)
  <2> DEFINE n == RecordOf(KeyOf(d, Loaded(d))).retryCount
             j == [Loaded(d) EXCEPT !.retryCount = n]
  <2>1. j.mode = job[d].mode
    BY <1>0 DEF Loaded, Job
  <2>2. pc[d] = "load" /\ pc'[d] = "resolve" /\ job'[d] = j
    BY <1>2, GotoEffect DEF LoadReady
  <2>3. QED
    <3> HIDE DEF j
    <3>1. QED
      BY <2>1, <2>2 DEF BeginsFresh
<1>3. CASE ResolveTags(d)
  BY <1>3, GotoEffect DEF ResolveTags, BeginsFresh
<1>4. CASE pc'[d] \notin {"load", "resolve", "extract"}
  BY <1>4 DEF BeginsFresh
<1>5. CASE LoadFails(d) \/ LoadSkips(d) \/ Save(d) \/ SaveFails(d)
  BY <1>4, <1>5, GoIdleEffect DEF LoadFails, LoadSkips, Save, SaveFails
<1>6. CASE ResolveFails(d) \/ PatchDocument(d)
  BY <1>4, <1>6, FinishEffect DEF ResolveFails, PatchDocument
<1>7. CASE SizeExceeded(d) \/ ExtractFails(d) \/ CheckFails(d) \/ PatchFails(d)
           \/ PatchAnswerLost(d)
  BY <1>4, <1>7, DoFailedEffect
     DEF SizeExceeded, ExtractFails, CheckFails, PatchFails, PatchAnswerLost
<1>8. CASE ExtractFacts(d)
  BY <1>4, <1>8, patchDocumentEffect DEF ExtractFacts
<1>9. CASE CheckDocument(d)
  BY <1>4, <1>9, GotoEffect DEF CheckDocument
<1>10. CASE CheckMetadata(d)
  BY <1>4, <1>10, GotoEffect, DoFailedEffect DEF CheckMetadata
<1>11. QED
  BY <1>1, <1>2, <1>3, <1>5, <1>6, <1>7, <1>8, <1>9, <1>10 DEF Attempt

\* The record loaded counts the failures of the version that is attempted,
\* unless the document was disturbed since it was listed.
LEMMA LoadStep ==
    ASSUME TypeOK, TypeOK', NEW d \in Docs, SeriesKept(d), BeginsFresh(d)', LoadReady(d)
    PROVE  SeriesKept(d)'
<1> USE DEF server, observers
<1> DEFINE key == KeyOf(d, Loaded(d))
           j == [Loaded(d) EXCEPT !.retryCount = RecordOf(key).retryCount]
<1>0. job[d] \in Job /\ docs[d].file \in Files
  BY DEF TypeOK, Document
<1>1. /\ j.retryCount = RecordOf(key).retryCount /\ j.listed = job[d].listed
      /\ j.file = docs[d].file /\ KeyOf(d, j) = key
  BY <1>0 DEF Loaded, Job, KeyOf
<1>2. pc'[d] = "resolve" /\ job'[d] = j
  BY GotoEffect DEF LoadReady
<1>3. /\ pc[d] = "load" /\ alive[d]
      /\ UNCHANGED <<docs, alive, store, used, hist>>
  BY DEF LoadReady
<1>4. Granted' = Granted /\ \A k \in Key : HistOf(k)' = HistOf(k)
  BY <1>3 DEF Granted, Disturbances, HistOf
<1>5. Granted \in Nat /\ \A k \in Key : HistOf(k).failures \in Nat
  BY SeriesTypes
<1> HIDE DEF j
<1>6. FutureUnfailed(d)'
  BY <1>3, <1>4 DEF SeriesKept, FutureUnfailed
<1>7. CASE docs[d] # job[d].listed
  <2>1. OneMore(d)
    BY <1>3, <1>7 DEF SeriesKept, Disturbed, Busy
  <2>2. OneMore(d)'
    BY <1>4, <2>1 DEF OneMore
  <2>3. QED
    BY <1>6, <2>2, DisturbedStep
<1>8. CASE docs[d] = job[d].listed
  <2>1. key = CurrentKey(d)
    BY <1>8, <1>0 DEF KeyOf, Loaded, CurrentKey, Job
  <2>2. TodoTag \in docs[d].tags
    BY <1>3, <1>8 DEF SeriesKept, BeginsFresh
  <2>3. SeriesCounts(d)'
    <3> SUFFICES ASSUME NEW k \in Key, k = key
                 PROVE  HistOf(k)'.failures <= RecordOf(k).retryCount + Granted'
      BY <1>1, <1>2 DEF SeriesCounts
    <3>1. \/ HistOf(k).failures <= Granted
          \/ /\ k \in DOMAIN store
             /\ HistOf(k).failures <= store[k].retryCount + Granted
      BY <1>3, <2>1, <2>2 DEF SeriesKept, RecordCounts, Loading
    <3>2. RecordOf(k).retryCount \in Nat
      BY RecordOfType DEF Record
    <3>3. k \in DOMAIN store => RecordOf(k) = store[k]
      BY DEF RecordOf
    <3>4. QED
      BY <1>4, <1>5, <3>1, <3>2, <3>3
  <2>4. NextSeries(d)'
    BY <1>1, <1>2, <1>3, <2>1 DEF NextSeries, CurrentKey
  <2>5. ~Disturbed(d)' /\ ~BeyondLast(d)'
    BY <1>1, <1>2, <1>3, <1>8 DEF Disturbed, BeyondLast
  <2>6. RecordCounts(d)'
    BY <1>2 DEF RecordCounts, Loading
  <2>7. QED
    BY <1>6, <2>3, <2>4, <2>5, <2>6 DEF SeriesKept
<1>9. QED
  BY <1>7, <1>8

\* A PATCH that is served makes a version that never failed.
LEMMA PatchedStep ==
    ASSUME TypeOK, TypeOK', NEW d \in Docs, SeriesKept(d), BeginsFresh(d)', PatchDocument(d)
    PROVE  SeriesKept(d)'
<1>0. docs[d].modified \in Nat /\ job[d] \in Job
  BY DEF TypeOK, Document
<1>1. /\ pc[d] = "patch" /\ UNCHANGED <<used, hist>> /\ Finish(d, "none")
      /\ docs'[d].modified = docs[d].modified + 1
  BY SaveDocumentEffect DEF PatchDocument, ServePatch
<1>2. pc'[d] = "save" /\ SameTask(d)
  BY <1>1, FinishEffect
<1>3. job'[d] = [job[d] EXCEPT !.err = "none"]
  BY <1>1, GotoEffect DEF Finish
<1>4. job'[d].err = "none"
  BY <1>0, <1>3 DEF Job
<1>5. Granted' = Granted /\ \A k \in Key : HistOf(k)' = HistOf(k)
  BY <1>1 DEF Granted, Disturbances, HistOf
<1>6. ASSUME NEW k \in Key, k[1] = d, k[2] > docs[d].modified
      PROVE  HistOf(k)'.failures = 0
  BY <1>5, <1>6 DEF SeriesKept, FutureUnfailed
<1>7. FutureUnfailed(d)'
  <2> SUFFICES ASSUME NEW k \in Key, k[1] = d, k[2] > docs'[d].modified
               PROVE  HistOf(k)'.failures = 0
    BY DEF FutureUnfailed
  <2>1. k[2] \in Nat
    BY DEF Key
  <2>2. k[2] > docs[d].modified
    BY <1>0, <1>1, <2>1
  <2>3. QED
    BY <1>6, <2>2
<1>8. NextSeries(d)'
  <2> SUFFICES ASSUME NEW k \in Key, k = CurrentKey(d)'
               PROVE  HistOf(k)'.failures <= Granted'
    BY DEF NextSeries
  <2>1. k[1] = d /\ k[2] = docs'[d].modified
    BY DEF CurrentKey
  <2>2. k[2] > docs[d].modified
    BY <1>0, <1>1, <2>1
  <2>3. HistOf(k)'.failures = 0
    BY <1>6, <2>1, <2>2
  <2>4. Granted' \in Nat
    BY SeriesTypesNext
  <2>5. QED
    BY <2>3, <2>4
<1>9. SeriesCounts(d)'
  <2>1. KeyOf(d, job'[d]) = KeyOf(d, job[d]) /\ pc[d] \notin Loading
    BY <1>1, <1>2, SameTaskKey DEF Loading
  <2>2. QED
    BY <1>2, <1>5, <2>1 DEF SeriesKept, SeriesCounts, SameTask
<1>10. RecordCounts(d)' /\ ~Disturbed(d)' /\ ~BeyondLast(d)'
  BY <1>2, <1>4 DEF RecordCounts, Disturbed, BeyondLast, Loading
<1>11. QED
  BY <1>7, <1>8, <1>9, <1>10 DEF SeriesKept

\* The versions to come are none that a failure is counted for.
LEMMA CountedStep ==
    ASSUME ServerInv, NEW d \in Docs, SeriesKept(d), pc[d] = "save", UNCHANGED docs,
           NEW wait \in Nat, CountFailure(d, wait)
    PROVE  FutureUnfailed(d)'
<1> SUFFICES ASSUME NEW k \in Key, k[1] = d, k[2] > docs[d].modified
             PROVE  HistOf(k)'.failures = 0
  BY DEF FutureUnfailed
<1>1. TypeOK /\ job[d].listed.modified <= docs[d].modified
  BY DEF ServerInv, ConflictInv, ListedKeepsUp, Busy
<1>2. /\ docs[d].modified \in Nat /\ job[d].listed.modified \in Nat
      /\ k[2] \in Nat
  BY <1>1 DEF TypeOK, Document, Job, Key
<1>3. k # KeyOf(d, job[d])
  <2>1. KeyOf(d, job[d])[2] = job[d].listed.modified
    BY DEF KeyOf
  <2>2. k[2] # job[d].listed.modified
    BY <1>1, <1>2
  <2>3. QED
    BY <2>1, <2>2
<1>4. HistOf(k)' = HistOf(k)
  BY <1>1, <1>3, HistEffect
<1>5. QED
  BY <1>4 DEF SeriesKept, FutureUnfailed

\* A saved result: the record counts what the attempt counted, and its failure.
LEMMA SaveStep ==
    ASSUME ServerInv, TypeOK', SeriesLimit, NEW d \in Docs, SeriesKept(d),
           BeginsFresh(d)', Save(d)
    PROVE  SeriesKept(d)' /\ SeriesLimit'
<1> DEFINE key == KeyOf(d, job[d])
           rec == SavedRecord(job[d])
<1>0. TypeOK /\ job[d] \in Job
  BY DEF ServerInv, TypeOK
<1>1. pc[d] = "save" /\ pc'[d] = "idle" /\ UNCHANGED <<docs, alive, used>>
  BY <1>0, GoIdleEffect DEF Save, server
<1>2. rec \in Record /\ CountFailure(d, rec.wait)
  BY <1>0, <1>1, SavedRecordType DEF Save
<1>3. rec.wait \in Nat
  BY <1>2 DEF Record
<1>4. Granted' = Granted /\ Granted \in Nat
  BY <1>0, <1>1, SeriesTypes DEF Granted, Disturbances
<1>5. job[d].retryCount \in Nat /\ RetriesMax \in Nat
  BY <1>0, NumberAssumption DEF Job
<1>6. ASSUME NEW k \in Key
      PROVE  /\ k # key => HistOf(k)' = HistOf(k)
             /\ job[d].err = "none" => HistOf(k)' = HistOf(k)
             /\ HistOf(k)'.failures <= HistOf(k).failures + 1
             /\ HistOf(k)'.failures \in Nat /\ HistOf(k).failures \in Nat
  BY <1>0, <1>2, <1>3, HistEffect
<1>7. rec.age = 0 /\ rec.retryCount =
        (IF job[d].err = "none" THEN job[d].retryCount ELSE job[d].retryCount + 1)
  BY DEF SavedRecord
<1>8. ASSUME NEW k \in Key, k = key
      PROVE  /\ k \in DOMAIN store' /\ store'[k] = rec
             /\ HistOf(k).failures <= job[d].retryCount + Granted
             /\ k[1] = d
  <2>1. k \in DOMAIN store' /\ store'[k] = rec
    BY <1>8 DEF Save, Upsert
  <2>2. QED
    BY <1>1, <1>8, <2>1 DEF SeriesKept, SeriesCounts, Loading, KeyOf
<1>9. job[d].err # "none" /\ job[d].retryCount >= RetriesMax => OneMore(d)
  BY <1>1 DEF SeriesKept, BeyondLast, lastRetry
<1> HIDE DEF key, rec
<1>10. SeriesLimit'
  <2> SUFFICES ASSUME NEW k \in Key
               PROVE  HistOf(k)'.failures <= RetriesMax + Granted
    BY <1>4 DEF SeriesLimit
  <2>1. CASE k # key \/ job[d].err = "none"
    BY <1>6, <2>1 DEF SeriesLimit
  <2>2. CASE k = key /\ job[d].err # "none" /\ job[d].retryCount >= RetriesMax
    <3>1. HistOf(k).failures < Granted
      BY <1>8, <1>9, <2>2 DEF OneMore
    <3>2. QED
      BY <1>4, <1>5, <1>6, <3>1
  <2>3. CASE k = key /\ ~(job[d].retryCount >= RetriesMax)
    <3>1. HistOf(k).failures <= job[d].retryCount + Granted
      BY <1>8, <2>3
    <3>2. QED
      BY <1>4, <1>5, <1>6, <2>3, <3>1
  <2>4. QED
    BY <2>1, <2>2, <2>3
<1>11. RecordCounts(d)'
  <2> SUFFICES ASSUME NEW k \in Key, k = CurrentKey(d)
               PROVE  \/ HistOf(k)'.failures <= Granted
                      \/ /\ k \in DOMAIN store' /\ store'[k].age <= PruneAfter
                         /\ HistOf(k)'.failures <= store'[k].retryCount + Granted
    BY <1>1, <1>4 DEF RecordCounts, CurrentKey
  <2>1. CASE k # key
    <3>1. HistOf(k).failures <= Granted
      BY <1>1, <2>1 DEF SeriesKept, NextSeries, Loading, key
    <3>2. QED
      BY <1>6, <2>1, <3>1
  <2>2. CASE k = key
    <3>1. /\ k \in DOMAIN store' /\ store'[k] = rec
          /\ HistOf(k).failures <= job[d].retryCount + Granted
      BY <1>8, <2>2
    <3>2. store'[k].age <= PruneAfter
      BY <1>7, <3>1, NumberAssumption
    <3>3. HistOf(k)'.failures <= store'[k].retryCount + Granted
      <4>1. CASE job[d].err = "none"
        BY <1>6, <1>7, <3>1, <4>1
      <4>2. CASE job[d].err # "none"
        BY <1>4, <1>5, <1>6, <1>7, <3>1, <4>2
      <4>3. QED
        BY <4>1, <4>2
    <3>4. QED
      BY <3>1, <3>2, <3>3
  <2>3. QED
    BY <2>1, <2>2
<1>12. FutureUnfailed(d)'
  BY <1>1, <1>2, <1>3, CountedStep
<1>13. SeriesCounts(d)' /\ NextSeries(d)' /\ ~Disturbed(d)' /\ ~BeyondLast(d)'
  BY <1>1 DEF SeriesCounts, NextSeries, Disturbed, BeyondLast, Loading, Busy
<1>14. QED
  BY <1>10, <1>11, <1>12, <1>13 DEF SeriesKept

\* A result that is not saved: the failure is counted, the record may be lost,
\* and the fault allows for both.
LEMMA SaveFailsStep ==
    ASSUME ServerInv, TypeOK', SeriesLimit, NEW d \in Docs, SeriesKept(d),
           BeginsFresh(d)', SaveFails(d)
    PROVE  SeriesKept(d)' /\ SeriesLimit'
<1>0. TypeOK
  BY DEF ServerInv
<1>1. pc[d] = "save" /\ pc'[d] = "idle" /\ UNCHANGED docs /\ Fault
  BY <1>0, GoIdleEffect DEF SaveFails, server
<1>2. Disturbances' = Disturbances + 1
  BY <1>0, <1>1, FaultDisturbs
<1> DEFINE wait == HistOf(KeyOf(d, job[d])).wait
<1>3. wait \in Nat /\ CountFailure(d, wait)
  BY <1>0, HistOfType DEF SaveFails, TypeOK, HistType
<1> HIDE DEF wait
<1>4. \A k \in Key : HistOf(k)'.failures <= HistOf(k).failures + 1
  BY <1>0, <1>3, HistEffect
<1>5. \A k \in Key : HistOf(k)'.failures <= Granted'
  BY <1>0, <1>2, <1>4, DisturbancePays
<1>6. SeriesLimit'
  <2>1. Granted' \in Nat /\ \A k \in Key : HistOf(k)'.failures \in Nat
    BY SeriesTypesNext
  <2>2. QED
    BY <1>5, <2>1, NumberAssumption DEF SeriesLimit
<1>7. RecordCounts(d)'
  BY <1>5 DEF RecordCounts
<1>8. FutureUnfailed(d)'
  BY <1>1, <1>3, CountedStep
<1>9. SeriesCounts(d)' /\ NextSeries(d)' /\ ~Disturbed(d)' /\ ~BeyondLast(d)'
  BY <1>1 DEF SeriesCounts, NextSeries, Disturbed, BeyondLast, Loading, Busy
<1>10. QED
  BY <1>6, <1>7, <1>8, <1>9 DEF SeriesKept

\* The limit does not shrink: only failures that are counted can exceed it.
LEMMA UncountedLimit ==
    ASSUME TypeOK, TypeOK', SeriesLimit, UNCHANGED hist,
           UNCHANGED Disturbances \/ Disturbances' = Disturbances + 1
    PROVE  SeriesLimit'
<1>1. Granted' >= Granted /\ Granted \in Nat /\ Granted' \in Nat /\ RetriesMax \in Nat
  BY SeriesTypes, SeriesTypesNext, DisturbanceGrants, NumberAssumption DEF Granted
<1>2. SUFFICES ASSUME NEW k \in Key
               PROVE  HistOf(k)'.failures <= RetriesMax + Granted'
  BY DEF SeriesLimit
<1>3. HistOf(k)' = HistOf(k) /\ HistOf(k).failures \in Nat
  BY SeriesTypes DEF HistOf
<1>4. HistOf(k).failures <= RetriesMax + Granted
  BY DEF SeriesLimit
<1>5. QED
  BY <1>1, <1>3, <1>4

\* The steps of an attempt keep the limit.
LEMMA AttemptSeries ==
    ASSUME ServerInv, TypeOK', SeriesLimit, NEW d \in Docs, SeriesKept(d),
           Start(d) \/ Attempt(d)
    PROVE  SeriesKept(d)' /\ SeriesLimit'
<1> USE DEF observers, server
<1>0. TypeOK /\ job[d] \in Job
  BY DEF ServerInv, TypeOK
<1>1. BeginsFresh(d)'
  BY <1>0, AttemptBeginsFresh DEF SeriesKept
<1>2. ASSUME UNCHANGED <<used, hist>>
      PROVE  SeriesLimit'
  BY <1>0, <1>2, UncountedLimit DEF Disturbances
<1>3. ASSUME Fault, UNCHANGED hist, docs'[d].modified >= docs[d].modified
      PROVE  SeriesKept(d)' /\ SeriesLimit'
  BY <1>0, <1>1, <1>3, FaultStep, FaultDisturbs, UncountedLimit
<1>4. docs[d].modified \in Nat /\ docs[d].modified >= docs[d].modified
  BY <1>0 DEF TypeOK, Document
<1>5. CASE Start(d)
  <2>1. /\ pc[d] = "idle" /\ pc'[d] = "load" /\ alive[d]
        /\ job'[d].listed = docs[d]
        /\ UNCHANGED <<docs, alive, store, used, hist>>
    BY <1>0, <1>5, GotoEffect DEF Start, newTask
  <2>2. Granted' = Granted /\ \A k \in Key : HistOf(k)' = HistOf(k)
    BY <2>1 DEF Granted, Disturbances, HistOf
  <2>3. FutureUnfailed(d)' /\ RecordCounts(d)'
    BY <2>1, <2>2 DEF SeriesKept, FutureUnfailed, RecordCounts, CurrentKey, Loading
  <2>4. SeriesCounts(d)' /\ NextSeries(d)' /\ ~Disturbed(d)' /\ ~BeyondLast(d)'
    BY <2>1 DEF SeriesCounts, NextSeries, Disturbed, BeyondLast, Loading
  <2>5. QED
    BY <1>1, <1>2, <2>1, <2>3, <2>4 DEF SeriesKept
<1>6. CASE LoadFails(d) \/ LoadSkips(d)
  <2>1. /\ pc[d] = "load" /\ pc'[d] = "idle"
        /\ UNCHANGED <<docs, alive, store, hist>>
    BY <1>0, <1>6, GoIdleEffect DEF LoadFails, LoadSkips
  <2>2. CASE Fault
    BY <1>3, <1>4, <2>1, <2>2
  <2>3. CASE UNCHANGED used
    <3>1. Granted' = Granted /\ \A k \in Key : HistOf(k)' = HistOf(k)
      BY <2>1, <2>3 DEF Granted, Disturbances, HistOf
    <3>2. FutureUnfailed(d)' /\ RecordCounts(d)'
      BY <2>1, <3>1 DEF SeriesKept, FutureUnfailed, RecordCounts, CurrentKey, Loading
    <3>3. SeriesCounts(d)' /\ NextSeries(d)' /\ ~Disturbed(d)' /\ ~BeyondLast(d)'
      BY <2>1 DEF SeriesCounts, NextSeries, Disturbed, BeyondLast, Loading, Busy
    <3>4. QED
      BY <1>1, <1>2, <2>1, <2>3, <3>2, <3>3 DEF SeriesKept
  <2>4. QED
    BY <1>6, <2>2, <2>3 DEF LoadFails, LoadSkips, RequestFails
<1>7. CASE LoadReady(d)
  BY <1>0, <1>1, <1>2, <1>7, LoadStep DEF LoadReady
<1>8. CASE ResolveTags(d)
  <2>1. pc[d] = "resolve" /\ pc'[d] = "extract" /\ job'[d] = job[d]
    BY <1>0, <1>8, GotoEffect DEF ResolveTags
  <2>2. UNCHANGED <<docs, alive, used, hist>>
    BY <1>8 DEF ResolveTags
  <2>3. Disturbed(d)' => Disturbed(d)
    BY <2>1, <2>2 DEF Disturbed, Busy
  <2>4. ~BeyondLast(d)' /\ SameTask(d) /\ pc[d] \notin Loading /\ pc'[d] \notin Loading
    BY <2>1 DEF BeyondLast, SameTask, Loading
  <2>5. QED
    BY <1>1, <1>2, <2>2, <2>3, <2>4, GoesOnStep
<1>9. CASE ResolveFails(d)
  BY <1>3, <1>4, <1>9 DEF ResolveFails
<1>10. CASE SizeExceeded(d) \/ ExtractFails(d)
  <2>1. /\ pc[d] = "extract" /\ job[d].mode = "apply"
        /\ UNCHANGED <<docs, alive, used, hist>>
    BY <1>10 DEF SizeExceeded, ExtractFails, SeriesKept, BeginsFresh
  <2>2. QED
    BY <1>0, <1>2, <1>10, <2>1, FailedStep DEF SizeExceeded, ExtractFails, Busy
<1>11. CASE ExtractFacts(d)
  <2>1. PICK facts \in FactsChoices :
           patchDocument(d, "apply", applyPatch(d, facts), "none")
    BY <1>11 DEF ExtractFacts
  <2>2. SameTask(d) /\ pc'[d] \in {"save", "checkDoc"}
    BY <1>0, <2>1, patchDocumentEffect
  <2>3. pc[d] = "extract" /\ UNCHANGED <<docs, alive, used, hist>>
    BY <1>11 DEF ExtractFacts
  <2>4. Disturbed(d)' => Disturbed(d)
    BY <2>2, <2>3 DEF Disturbed, SameTask, Busy
  <2>5. ~BeyondLast(d)'
    BY <1>0, <2>1, EmptyPatchSucceeds DEF BeyondLast
  <2>6. QED
    BY <1>1, <1>2, <2>2, <2>3, <2>4, <2>5, GoesOnStep DEF Loading
<1>12. CASE CheckDocument(d)
  <2> DEFINE same == Snapshot(docs[d]) = Snapshot(job[d].listed)
             j == [job[d] EXCEPT !.unchanged = same]
  <2>1. /\ j.listed = job[d].listed /\ j.file = job[d].file
        /\ j.retryCount = job[d].retryCount /\ j.unchanged = same
    BY <1>0 DEF Job
  <2>2. pc'[d] = "checkMeta" /\ job'[d] = j
    BY <1>0, <1>12, GotoEffect DEF CheckDocument
  <2>3. pc[d] = "checkDoc" /\ UNCHANGED <<docs, alive, used, hist>>
    BY <1>12 DEF CheckDocument
  <2>4. docs[d] = job[d].listed => same
    OBVIOUS
  <2> HIDE DEF j, same
  <2>5. SameTask(d)
    BY <2>1, <2>2 DEF SameTask
  <2>6. Disturbed(d)' => Disturbed(d)
    BY <2>1, <2>2, <2>3, <2>4 DEF Disturbed, Busy
  <2>7. ~BeyondLast(d)' /\ pc[d] \notin Loading /\ pc'[d] \notin Loading
    BY <2>2, <2>3 DEF BeyondLast, Loading
  <2>8. QED
    BY <1>1, <1>2, <2>3, <2>5, <2>6, <2>7, GoesOnStep
<1>13. CASE CheckMetadata(d)
  <2>1. pc[d] = "checkMeta" /\ UNCHANGED <<docs, alive, used, hist>>
    BY <1>13 DEF CheckMetadata
  <2>2. CASE job[d].unchanged /\ docs[d].file = job[d].file
    <3>1. pc'[d] = "patch" /\ job'[d] = job[d]
      BY <1>0, <1>13, <2>2, GotoEffect DEF CheckMetadata
    <3>2. Disturbed(d)' => Disturbed(d)
      BY <2>1, <3>1 DEF Disturbed, Busy
    <3>3. ~BeyondLast(d)' /\ SameTask(d) /\ pc[d] \notin Loading /\ pc'[d] \notin Loading
      BY <2>1, <3>1 DEF BeyondLast, SameTask, Loading
    <3>4. QED
      BY <1>1, <1>2, <2>1, <3>2, <3>3, GoesOnStep
  <2>3. CASE ~(job[d].unchanged /\ docs[d].file = job[d].file)
    <3>1. DoFailed(d, "transient") /\ Disturbed(d)
      BY <1>13, <2>1, <2>3 DEF CheckMetadata, Disturbed, Busy
    <3>2. QED
      BY <1>0, <1>2, <2>1, <3>1, FailedStep DEF Busy
  <2>4. QED
    BY <2>2, <2>3
<1>14. CASE CheckFails(d) \/ PatchFails(d)
  <2>1. /\ pc[d] \in {"checkDoc", "checkMeta", "patch"}
        /\ UNCHANGED <<docs, alive, hist>>
    BY <1>14 DEF CheckFails, PatchFails
  <2>2. PICK err \in {"permanent", "transient"} : RequestFails(d, err) /\ DoFailed(d, err)
    BY <1>14 DEF CheckFails, PatchFails
  <2>3. CASE Fault
    BY <1>3, <1>4, <2>1, <2>3
  <2>4. CASE ~alive[d] /\ UNCHANGED used
    <3>1. Disturbed(d)
      BY <2>1, <2>4 DEF Disturbed, Busy
    <3>2. QED
      BY <1>0, <1>2, <2>1, <2>2, <2>4, <3>1, FailedStep DEF Busy
  <2>5. QED
    BY <2>2, <2>3, <2>4 DEF RequestFails
<1>15. CASE PatchDocument(d)
  BY <1>0, <1>1, <1>2, <1>15, PatchedStep DEF PatchDocument, ServePatch
<1>16. CASE PatchAnswerLost(d)
  <2>1. docs'[d].modified = docs[d].modified + 1 /\ Fault /\ UNCHANGED hist
    BY <1>0, <1>16, SaveDocumentEffect DEF PatchAnswerLost, ServePatch
  <2>2. QED
    BY <1>3, <1>4, <2>1
<1>17. CASE Save(d)
  BY <1>0, <1>1, <1>17, SaveStep
<1>18. CASE SaveFails(d)
  BY <1>0, <1>1, <1>18, SaveFailsStep
<1>19. QED
  BY <1>5, <1>6, <1>7, <1>8, <1>9, <1>10, <1>11, <1>12, <1>13, <1>14, <1>15,
     <1>16, <1>17, <1>18 DEF Attempt

\* Users and the server disturb.
LEMMA EnvironmentSeries ==
    ASSUME TypeOK, TypeOK', SeriesLimit, NEW d \in Docs, SeriesKept(d), Environment(d)
    PROVE  SeriesKept(d)' /\ SeriesLimit'
<1>1. Change(d) /\ UNCHANGED <<pc, job, hist>>
  BY ChangeEffect DEF Environment, EditDocument, ReprocessDocument, DeleteDocument
<1>2. Disturbances' = Disturbances + 1
  BY <1>1, ChangeDisturbs
<1>3. \A k \in Key : HistOf(k)' = HistOf(k)
  BY <1>1 DEF HistOf
<1>4. OneMore(d)'
  BY <1>2, <1>3, DisturbancePays DEF OneMore
<1>5. /\ docs[d].modified \in Nat
      /\ \/ docs'[d].modified = docs[d].modified
         \/ docs'[d].modified = docs[d].modified + 1
  <2>1. docs[d] \in Document
    BY DEF TypeOK
  <2>2. CASE EditDocument(d)
    BY <2>1, <2>2, SaveDocumentEffect DEF EditDocument, Document
  <2>3. CASE ReprocessDocument(d)
    <3>1. PICK file : docs' = [docs EXCEPT ![d] = [docs[d] EXCEPT !.file = file]]
      BY <2>3 DEF ReprocessDocument
    <3>2. docs'[d] = [docs[d] EXCEPT !.file = file]
      BY <3>1 DEF TypeOK
    <3>3. QED
      BY <2>1, <3>2 DEF Document
  <2>4. CASE DeleteDocument(d)
    BY <2>1, <2>4 DEF DeleteDocument, Document
  <2>5. QED
    BY <2>2, <2>3, <2>4 DEF Environment
<1>6. FutureUnfailed(d)'
  <2> SUFFICES ASSUME NEW k \in Key, k[1] = d, k[2] > docs'[d].modified
               PROVE  HistOf(k)'.failures = 0
    BY DEF FutureUnfailed
  <2>1. k[2] \in Nat
    BY DEF Key
  <2>2. k[2] > docs[d].modified
    BY <1>5, <2>1
  <2>3. QED
    BY <1>3, <2>2 DEF SeriesKept, FutureUnfailed
<1>7. BeginsFresh(d)'
  BY <1>1 DEF SeriesKept, BeginsFresh
<1>8. SeriesLimit'
  BY <1>1, <1>2, UncountedLimit
<1>9. QED
  BY <1>4, <1>6, <1>7, <1>8, DisturbedStep

\* A step counts one disturbance, or none.
LEMMA StepDisturbs ==
    ASSUME TypeOK, NEW d \in Docs, Start(d) \/ Attempt(d) \/ Environment(d)
    PROVE  UNCHANGED Disturbances \/ Disturbances' = Disturbances + 1
<1>1. UNCHANGED used \/ Fault \/ Change(d)
  BY DEF Start, Attempt, Environment, LoadFails, LoadSkips, LoadReady,
         ResolveTags, ResolveFails, SizeExceeded, ExtractFails, ExtractFacts,
         CheckDocument, CheckMetadata, CheckFails, PatchDocument,
         PatchAnswerLost, PatchFails, Save, SaveFails, EditDocument,
         ReprocessDocument, DeleteDocument, RequestFails
<1>2. QED
  BY <1>1, FaultDisturbs, ChangeDisturbs DEF Disturbances

\* A step about one document leaves the retries of the others as they are.
LEMMA OthersSeries ==
    ASSUME TypeOK, TypeOK', NEW d \in Docs, Start(d) \/ Attempt(d) \/ Environment(d),
           NEW e \in Docs \ {d}, SeriesKept(e)
    PROVE  SeriesKept(e)'
<1>1. /\ docs'[e] = docs[e] /\ alive'[e] = alive[e]
      /\ pc'[e] = pc[e] /\ job'[e] = job[e]
  BY OthersSame DEF Same
<1>2. /\ Granted' >= Granted /\ Granted \in Nat /\ Granted' \in Nat
      /\ RetriesMax \in Nat /\ job[e].retryCount \in Nat
  <2>1. job[e].retryCount \in Nat
    BY NumberAssumption DEF TypeOK, Job
  <2>2. UNCHANGED Disturbances \/ Disturbances' = Disturbances + 1
    BY StepDisturbs
  <2>3. Granted' >= Granted
    BY <2>2, SeriesTypes, DisturbanceGrants, NumberAssumption DEF Granted
  <2>4. QED
    BY <2>1, <2>3, SeriesTypes, SeriesTypesNext, NumberAssumption
<1>3. ASSUME NEW k \in Key, k[1] = e
      PROVE  /\ HistOf(k)' = HistOf(k) /\ HistOf(k).failures \in Nat
             /\ k \in DOMAIN store => /\ k \in DOMAIN store' /\ store'[k] = store[k]
                                      /\ store[k].retryCount \in Nat
  <2>1. k # KeyOf(d, job[d])
    BY <1>3 DEF KeyOf
  <2>2. /\ HistOf(k)' = HistOf(k) /\ RecordOf(k)' = RecordOf(k)
        /\ k \in DOMAIN store' <=> k \in DOMAIN store
    BY <2>1, OtherKeysSame
  <2>3. k \in DOMAIN store => store[k].retryCount \in Nat
    BY DEF TypeOK, Record
  <2>4. QED
    BY <2>2, <2>3, SeriesTypes DEF RecordOf
<1>4. FutureUnfailed(e)' /\ BeginsFresh(e)'
  BY <1>1, <1>3 DEF SeriesKept, FutureUnfailed, BeginsFresh
<1>5. RecordCounts(e)'
  <2> SUFFICES ASSUME pc[e] \in Loading, alive[e], TodoTag \in docs[e].tags,
                      NEW k \in Key, k = CurrentKey(e)
               PROVE  \/ HistOf(k)'.failures <= Granted'
                      \/ /\ k \in DOMAIN store' /\ store'[k].age <= PruneAfter
                         /\ HistOf(k)'.failures <= store'[k].retryCount + Granted'
    BY <1>1 DEF RecordCounts, CurrentKey
  <2>1. k[1] = e
    BY DEF CurrentKey
  <2>2. \/ HistOf(k).failures <= Granted
        \/ /\ k \in DOMAIN store /\ store[k].age <= PruneAfter
           /\ HistOf(k).failures <= store[k].retryCount + Granted
    BY DEF SeriesKept, RecordCounts
  <2>3. QED
    BY <1>2, <1>3, <2>1, <2>2
<1>6. SeriesCounts(e)'
  <2> SUFFICES ASSUME pc[e] \notin Loading, NEW k \in Key, k = KeyOf(e, job[e])
               PROVE  HistOf(k)'.failures <= job[e].retryCount + Granted'
    BY <1>1 DEF SeriesCounts
  <2>1. k[1] = e
    BY DEF KeyOf
  <2>2. HistOf(k).failures <= job[e].retryCount + Granted
    BY DEF SeriesKept, SeriesCounts
  <2>3. QED
    BY <1>2, <1>3, <2>1, <2>2
<1>7. NextSeries(e)'
  <2> SUFFICES ASSUME pc[e] \notin Loading,
                      NEW k \in Key, k = CurrentKey(e), k # KeyOf(e, job[e])
               PROVE  HistOf(k)'.failures <= Granted'
    BY <1>1 DEF NextSeries, CurrentKey
  <2>1. k[1] = e
    BY DEF CurrentKey
  <2>2. HistOf(k).failures <= Granted
    BY DEF SeriesKept, NextSeries
  <2>3. QED
    BY <1>2, <1>3, <2>1, <2>2
<1>8. Disturbed(e)' \/ BeyondLast(e)' => OneMore(e)'
  <2>1. Disturbed(e)' \/ BeyondLast(e)' => Disturbed(e) \/ BeyondLast(e)
    BY <1>1 DEF Disturbed, BeyondLast, lastRetry
  <2>2. OneMore(e) => OneMore(e)'
    BY <1>2, <1>3 DEF OneMore
  <2>3. QED
    BY <2>1, <2>2 DEF SeriesKept
<1>9. QED
  BY <1>4, <1>5, <1>6, <1>7, <1>8 DEF SeriesKept

\* A record is saved with a delay that ends before it may be pruned.
LEMMA SaveRecordsKept ==
    ASSUME DelaysShort, TypeOK, RecordsKept,
           NEW d \in Docs, Start(d) \/ Attempt(d) \/ Environment(d)
    PROVE  RecordsKept'
<1>1. CASE Save(d)
  <2> SUFFICES ASSUME NEW k \in DOMAIN store', store'[k].wait > 0
               PROVE  store'[k].wait + store'[k].age <= PruneAfter
    BY DEF RecordsKept
  <2>1. store' = Upsert(store, KeyOf(d, job[d]), SavedRecord(job[d]))
    BY <1>1 DEF Save
  <2>2. CASE k # KeyOf(d, job[d])
    BY <2>1, <2>2 DEF Upsert, RecordsKept
  <2>3. CASE k = KeyOf(d, job[d])
    <3>1. store'[k] = SavedRecord(job[d])
      BY <2>1, <2>3 DEF Upsert
    <3>2. store'[k].wait = RetryDelay(job[d].retryCount) /\ store'[k].age = 0
      BY <3>1 DEF SavedRecord
    <3>3. job[d].retryCount \in 0..RetryCap
      BY DEF TypeOK, Job
    <3>4. /\ RetryDelay(job[d].retryCount) <= PruneAfter
          /\ RetryDelay(job[d].retryCount) \in Nat
      BY <3>3, RetryDelayAssumption DEF DelaysShort
    <3>5. QED
      BY <3>2, <3>4
  <2>4. QED
    BY <2>2, <2>3
<1>2. CASE UNCHANGED store
  BY <1>2 DEF RecordsKept
<1>3. Save(d) \/ UNCHANGED store
  BY DEF Start, Attempt, Environment, LoadFails, LoadSkips, LoadReady,
         ResolveTags, ResolveFails, SizeExceeded, ExtractFails, ExtractFacts,
         CheckDocument, CheckMetadata, CheckFails, PatchDocument,
         PatchAnswerLost, PatchFails, ServePatch, SaveFails, EditDocument,
         ReprocessDocument, DeleteDocument, Change, observers, server
<1>4. QED
  BY <1>1, <1>2, <1>3

\* Time passes: a record that is due is loaded before it has become too old.
LEMMA TickSeries ==
    ASSUME PromptPolls, TypeOK, SeriesInv, Tick
    PROVE  SeriesInv'
<1>1. /\ UNCHANGED <<docs, alive, pc, job, used>>
      /\ \A d \in Docs : ~Overdue(d)
  BY DEF Tick, server
<1>2. /\ Granted' = Granted
      /\ \A k \in Key : HistOf(k)'.failures = HistOf(k).failures
  BY <1>1, TickEffect DEF Granted, Disturbances
<1>3. SeriesLimit'
  BY <1>2 DEF SeriesInv, SeriesLimit
<1>4. ASSUME NEW k \in DOMAIN store
      PROVE  /\ k \in DOMAIN store'
             /\ store'[k].retryCount = store[k].retryCount
             /\ store'[k].wait = Sooner(store[k].wait)
             /\ store'[k].age <= store[k].age + 1 /\ store'[k].age \in Nat
             /\ store[k].wait \in Nat /\ store[k].age \in Nat
             /\ store[k].wait > 0 => store[k].wait + store[k].age <= PruneAfter
  <2>1. k \in Key /\ store[k] \in Record
    BY DEF TypeOK
  <2>2. k \in DOMAIN store' /\ store'[k] = Older(store[k])
    BY <2>1, TickEffect
  <2>3. store[k].wait \in Nat /\ store[k].age \in Nat
    BY <2>1 DEF Record
  <2>4. store'[k].age <= store[k].age + 1 /\ store'[k].age \in Nat
    BY <2>2, <2>3 DEF Older
  <2>5. /\ store'[k].retryCount = store[k].retryCount
        /\ store'[k].wait = Sooner(store[k].wait)
    BY <2>2 DEF Older
  <2>6. QED
    BY <2>2, <2>3, <2>4, <2>5 DEF SeriesInv, RecordsKept
<1>5. RecordsKept'
  <2> SUFFICES ASSUME NEW k \in DOMAIN store', store'[k].wait > 0
               PROVE  store'[k].wait + store'[k].age <= PruneAfter
    BY DEF RecordsKept
  <2>1. k \in DOMAIN store
    BY DEF Tick
  <2>2. store[k].wait > 0 /\ store'[k].wait = store[k].wait - 1
    BY <1>4, <2>1 DEF Sooner
  <2>3. QED
    BY <1>4, <2>1, <2>2, NumberAssumption
<1>6. ASSUME NEW d \in Docs
      PROVE  SeriesKept(d)'
  <2>1. SeriesKept(d)
    BY DEF SeriesInv
  <2>2. RecordCounts(d)'
    <3> SUFFICES ASSUME pc[d] \in Loading, alive[d], TodoTag \in docs[d].tags,
                        NEW k \in Key, k = CurrentKey(d),
                        ~(HistOf(k).failures <= Granted)
                 PROVE  /\ k \in DOMAIN store' /\ store'[k].age <= PruneAfter
                        /\ HistOf(k).failures <= store'[k].retryCount + Granted
      BY <1>1, <1>2 DEF RecordCounts, CurrentKey
    <3>1. /\ k \in DOMAIN store /\ store[k].age <= PruneAfter
          /\ HistOf(k).failures <= store[k].retryCount + Granted
      BY <2>1 DEF SeriesKept, RecordCounts
    <3>2. RecordOf(k) = store[k]
      BY <3>1 DEF RecordOf
    <3>3. store[k].wait = 0 => ~(store[k].age >= PruneAfter)
      BY <1>1, <3>2 DEF Overdue, Loading
    <3>4. store[k].age + 1 <= PruneAfter
      BY <1>4, <3>1, <3>3, NumberAssumption
    <3>5. QED
      BY <1>4, <3>1, <3>4, NumberAssumption
  <2>3. FutureUnfailed(d)' /\ BeginsFresh(d)' /\ SeriesCounts(d)' /\ NextSeries(d)'
    BY <1>1, <1>2, <2>1 DEF SeriesKept, FutureUnfailed, BeginsFresh, SeriesCounts,
                            NextSeries, CurrentKey, KeyOf
  <2>4. Disturbed(d)' \/ BeyondLast(d)' => OneMore(d)'
    BY <1>1, <1>2, <2>1 DEF SeriesKept, Disturbed, BeyondLast, lastRetry, OneMore
  <2>5. QED
    BY <2>2, <2>3, <2>4 DEF SeriesKept
<1>7. QED
  BY <1>3, <1>5, <1>6 DEF SeriesInv

\* The pruner deletes no record that still counts.
LEMMA PruneSeries ==
    ASSUME TypeOK, SeriesInv, Prune
    PROVE  SeriesInv'
<1>1. UNCHANGED <<docs, alive, pc, job, used, hist>>
  BY DEF Prune, server, observers
<1>2. Granted' = Granted /\ \A k \in Key : HistOf(k)' = HistOf(k)
  BY <1>1 DEF Granted, Disturbances, HistOf
<1>3. /\ DOMAIN store' = {k \in DOMAIN store : ~Obsolete(store[k])}
      /\ \A k \in DOMAIN store' : store'[k] = store[k]
  BY DEF Prune
<1>4. SeriesLimit' /\ RecordsKept'
  BY <1>2, <1>3 DEF SeriesInv, SeriesLimit, RecordsKept
<1>5. ASSUME NEW d \in Docs
      PROVE  SeriesKept(d)'
  <2>1. SeriesKept(d)
    BY DEF SeriesInv
  <2>2. RecordCounts(d)'
    <3> SUFFICES ASSUME pc[d] \in Loading, alive[d], TodoTag \in docs[d].tags,
                        NEW k \in Key, k = CurrentKey(d),
                        ~(HistOf(k).failures <= Granted)
                 PROVE  /\ k \in DOMAIN store' /\ store'[k].age <= PruneAfter
                        /\ HistOf(k).failures <= store'[k].retryCount + Granted
      BY <1>1, <1>2 DEF RecordCounts, CurrentKey
    <3>1. /\ k \in DOMAIN store /\ store[k].age <= PruneAfter
          /\ HistOf(k).failures <= store[k].retryCount + Granted
      BY <2>1 DEF SeriesKept, RecordCounts
    <3>2. store[k].age \in Nat
      BY <3>1 DEF TypeOK, Record
    <3>3. ~Obsolete(store[k])
      BY <3>1, <3>2, NumberAssumption DEF Obsolete
    <3>4. QED
      BY <1>3, <3>1, <3>3
  <2>3. FutureUnfailed(d)' /\ BeginsFresh(d)' /\ SeriesCounts(d)' /\ NextSeries(d)'
    BY <1>1, <1>2, <2>1 DEF SeriesKept, FutureUnfailed, BeginsFresh, SeriesCounts,
                            NextSeries, CurrentKey
  <2>4. Disturbed(d)' \/ BeyondLast(d)' => OneMore(d)'
    BY <1>1, <1>2, <2>1 DEF SeriesKept, Disturbed, BeyondLast, lastRetry, OneMore
  <2>5. QED
    BY <2>2, <2>3, <2>4 DEF SeriesKept
<1>6. QED
  BY <1>4, <1>5 DEF SeriesInv

\* Where nothing was attempted no failure is counted.
LEMMA UnattemptedSeries ==
    ASSUME TypeOK, DOMAIN store = {}, DOMAIN hist = {}, \A d \in Docs : pc[d] = "idle"
    PROVE  SeriesInv
<1>1. Granted \in Nat /\ \A k \in Key : HistOf(k).failures = 0
  BY SeriesTypes DEF HistOf, NoFailures
<1>2. SeriesLimit /\ RecordsKept
  BY <1>1, NumberAssumption DEF SeriesLimit, RecordsKept
<1>3. ASSUME NEW d \in Docs
      PROVE  SeriesKept(d)
  BY <1>1 DEF SeriesKept, FutureUnfailed, BeginsFresh, RecordCounts, SeriesCounts,
              NextSeries, Disturbed, BeyondLast, Loading, Busy
<1>4. QED
  BY <1>2, <1>3 DEF SeriesInv

\* A restart begins with nothing attempted.
LEMMA CrashSeries ==
    ASSUME TypeOK', Crash
    PROVE  SeriesInv'
<1>1. /\ DOMAIN store' = {} /\ DOMAIN hist' = {}
      /\ \A d \in Docs : pc'[d] = "idle"
  BY DEF Crash
<1>2. Granted' \in Nat /\ \A k \in Key : HistOf(k)'.failures = 0
  BY <1>1, SeriesTypesNext DEF HistOf, NoFailures
<1>3. SeriesLimit' /\ RecordsKept'
  BY <1>1, <1>2, NumberAssumption DEF SeriesLimit, RecordsKept
<1>4. ASSUME NEW d \in Docs
      PROVE  SeriesKept(d)'
  BY <1>1, <1>2 DEF SeriesKept, FutureUnfailed, BeginsFresh, RecordCounts, SeriesCounts,
              NextSeries, Disturbed, BeyondLast, Loading, Busy
<1>5. QED
  BY <1>3, <1>4 DEF SeriesInv

\* The invariant behind RetryLimit.
LEMMA SeriesInvariant ==
    ASSUME PromptPolls, DelaysShort
    PROVE  Spec => []SeriesInv
<1>1. Init => SeriesInv
  <2> SUFFICES ASSUME Init
               PROVE  SeriesInv
    OBVIOUS
  <2>1. DOMAIN store = {} /\ DOMAIN hist = {} /\ \A d \in Docs : pc[d] = "idle"
    BY DEF Init
  <2>2. QED
    BY <2>1, InitTypeOK, UnattemptedSeries
<1>2. ServerInv /\ ServerInv' /\ SeriesInv /\ [Next]_vars => SeriesInv'
  <2> SUFFICES ASSUME ServerInv, ServerInv', SeriesInv, [Next]_vars
               PROVE  SeriesInv'
    OBVIOUS
  <2>0. TypeOK /\ TypeOK'
    BY DEF ServerInv
  <2>1. ASSUME NEW d \in Docs, Start(d) \/ Attempt(d) \/ Environment(d)
        PROVE  SeriesInv'
    <3>1. RecordsKept'
      BY <2>0, <2>1, SaveRecordsKept DEF SeriesInv
    <3>2. SeriesKept(d)' /\ SeriesLimit'
      BY <2>0, <2>1, AttemptSeries, EnvironmentSeries DEF SeriesInv
    <3>3. \A e \in Docs \ {d} : SeriesKept(e)'
      BY <2>0, <2>1, OthersSeries DEF SeriesInv
    <3>4. QED
      BY <3>1, <3>2, <3>3 DEF SeriesInv
  <2>2. CASE Tick
    BY <2>0, <2>2, TickSeries
  <2>3. CASE Prune
    BY <2>0, <2>3, PruneSeries
  <2>4. CASE Crash
    BY <2>0, <2>4, CrashSeries
  <2>5. CASE UNCHANGED vars
    BY <2>5 DEF vars, SeriesInv, SeriesLimit, RecordsKept, SeriesKept,
       FutureUnfailed, BeginsFresh, RecordCounts, SeriesCounts, NextSeries,
       Disturbed, BeyondLast, OneMore, Granted, Disturbances, HistOf,
       CurrentKey, KeyOf, lastRetry
  <2>6. QED
    BY <2>1, <2>2, <2>3, <2>4, <2>5 DEF Next
<1>3. QED
  BY <1>1, <1>2, ServerInvariant, PTL DEF Spec

\* As long as due documents are polled before their records are old enough to be
\* pruned, and no delay is longer than records are kept for, a version of a
\* document fails once per retry, and by each disturbance once more and, the count
\* being lost, again once per retry (lastRetry, SaveResult, Prune).
THEOREM RetriesAreLimited ==
    ASSUME PromptPolls, DelaysShort
    PROVE  Spec => []RetryLimit
<1>1. TypeOK /\ SeriesInv => RetryLimit
  <2> SUFFICES ASSUME TypeOK, SeriesInv, NEW k \in DOMAIN hist
               PROVE  hist[k].failures <= RetriesMax + Granted
    BY DEF RetryLimit, Granted, Disturbances
  <2>1. k \in Key /\ HistOf(k) = hist[k]
    BY DEF TypeOK, HistOf
  <2>2. QED
    BY <2>1 DEF SeriesInv, SeriesLimit
<1>2. QED
  BY <1>1, SeriesInvariant, TypeCorrect, PTL
=============================================================================
