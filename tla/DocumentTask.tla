---------------------------- MODULE DocumentTask ----------------------------
(***************************************************************************)
(* One paperminer daemon cataloging documents: the steps of a processing   *)
(* attempt (internal/cataloger task.go, updater.go and workflow.go), the   *)
(* retry records in the store (internal/store), the pruner that deletes    *)
(* them (internal/core/storepruner.go), and the Paperless server with its  *)
(* users as the environment.                                               *)
(*                                                                         *)
(* An attempt is a sequence of requests to Paperless; users, the server    *)
(* and the pruner act between any two of them.  The walk over the          *)
(* documents gives each document at most one attempt at a time.            *)
(*                                                                         *)
(* Time is relative: a record carries how long its RetryAfter lies ahead   *)
(* ("wait") and how long ago it was updated ("age"); Tick lets one unit of *)
(* time pass for all of them.                                              *)
(***************************************************************************)
EXTENDS PatchBuilder

CONSTANTS
    Docs,           \* documents, by ID
    Files,          \* file versions of a document: text and checksums
    TooLargeFiles,  \* those exceeding --cataloger_file_size_max_bytes
    TodoTag,        \* the tag named by --cataloger_tag_todo
    FailedTag,      \* the tag named by --cataloger_tag_failed
    FactsChoices,   \* what extraction may find; one choice may be empty
    InitialDocs,    \* what a document may be when the daemon starts
    RetriesMax,     \* --cataloger_retries_max
    PollInterval,   \* --cataloger_poll_interval, in units of time
    PruneAfter,     \* records older than this are deleted (24 hours)
    PromptPolls,    \* TRUE: polls are frequent compared to PruneAfter
    RetryCap,       \* bound: attempts of a version with fewer failures only
    MaxEdits,       \* bound: changes made by users and the server
    MaxFaults,      \* bound: failing requests and store transactions
    MaxCrashes      \* bound: restarts of the daemon

ASSUME TagAssumption    == TodoTag \in TagIDs /\ FailedTag \in TagIDs
ASSUME FactsAssumption  == FactsChoices \subseteq Facts
ASSUME FilesAssumption  == TooLargeFiles \subseteq Files /\ Files # {}
ASSUME NumberAssumption ==
    /\ RetriesMax \in Nat /\ PollInterval \in Nat /\ PruneAfter \in Nat
    /\ RetryCap \in Nat /\ MaxEdits \in Nat /\ MaxFaults \in Nat
    /\ MaxCrashes \in Nat

\* The integer part of 1.5^n, as time.Duration(math.Pow(1.5, n)) has it.
Backoff(n) == (3 ^ n) \div (2 ^ n)

\* calcRetryDelay: the polling interval is taken as configured.
calcRetryDelay(count) == PollInterval * Backoff(1 + count)

\* The delay after a failed attempt that began with the given retry count.
RetryDelay(retryCount) == calcRetryDelay(1 + retryCount)

\* Powers and quotients of naturals are naturals.
ASSUME RetryDelayAssumption == \A c \in 0..RetryCap : RetryDelay(c) \in Nat

VARIABLES
    docs,     \* the documents on the server
    alive,    \* which of them are not deleted
    pc,       \* what the daemon does next for a document
    job,      \* the task and updater of a document's attempt
    store,    \* the records of type DocumentTask, by key
    used,     \* how much of the bounds on the environment is used up
    hist,     \* observer: failed attempts of each document version
    applied,  \* observer: facts reached the server in this attempt
    touched   \* observer: edited since the last conflict check read it

vars == <<docs, alive, pc, job, store, used, hist, applied, touched>>
server == <<docs, alive>>
observers == <<hist, applied, touched>>

-----------------------------------------------------------------------------
(* Types.                                                                  *)

Document == [fields : FieldValues, tags : SUBSET TagIDs, modified : Nat, file : Files]

ASSUME DocsAssumption == InitialDocs \subseteq Document

\* DocumentTask.Key: a version of a document.
Key == Docs \X Nat \X Files

Record == [retryCount : Nat, wait : Nat, age : Nat]

Busy == {"load", "resolve", "extract", "checkDoc", "checkMeta", "patch", "save"}

Job == [listed     : Document,              \* as listed by the walk
        file       : Files,                 \* metadata read by loadTask
        retryCount : 0..RetryCap,           \* of the record, when loaded
        mode       : {"apply", "fail"},     \* applyFacts or markFailed
        patch      : Patch,
        unchanged  : BOOLEAN,               \* GetDocument matched the snapshot
        err        : {"none", "transient", "permanent"}]

EmptyPatch == [fields |-> [f \in Fields |-> Keep], tagsChanged |-> FALSE, tags |-> {}]

newTask(doc) == [listed |-> doc, file |-> doc.file, retryCount |-> 0,
                 mode |-> "apply", patch |-> EmptyPatch,
                 unchanged |-> FALSE, err |-> "none"]

KeyOf(d, j) == <<d, j.listed.modified, j.file>>

\* The key a new attempt at the document would have.
CurrentKey(d) == <<d, docs[d].modified, docs[d].file>>

NewRecord == [retryCount |-> 0, wait |-> 0, age |-> 0]

\* Store.Get: the stored record, or a new one.
RecordOf(key) == IF key \in DOMAIN store THEN store[key] ELSE NewRecord

NoFailures == [failures |-> 0, wait |-> 0]

HistOf(key) == IF key \in DOMAIN hist THEN hist[key] ELSE NoFailures

Upsert(f, key, value) ==
    [k \in DOMAIN f \cup {key} |-> IF k = key THEN value ELSE f[k]]

-----------------------------------------------------------------------------
(* The daemon's side: one attempt at a document.                           *)

NoDocument == [fields |-> [f \in Fields |-> CHOOSE v \in Values : TRUE],
               tags |-> {}, modified |-> 0, file |-> CHOOSE file \in Files : TRUE]

NoTask == newTask(NoDocument)

Init ==
    /\ docs \in [Docs -> InitialDocs]
    /\ alive = [d \in Docs |-> TRUE]
    /\ pc = [d \in Docs |-> "idle"]
    /\ job = [d \in Docs |-> NoTask]
    /\ store = [k \in {} |-> NewRecord]
    /\ used = [edits |-> 0, faults |-> 0, crashes |-> 0]
    /\ hist = [k \in {} |-> NoFailures]
    /\ applied = [d \in Docs |-> FALSE]
    /\ touched = [d \in Docs |-> FALSE]

Goto(d, label, j) ==
    /\ pc' = [pc EXCEPT ![d] = label]
    /\ job' = [job EXCEPT ![d] = j]

\* The attempt is over without a result being saved.
GoIdle(d) ==
    /\ Goto(d, "idle", NoTask)
    /\ applied' = [applied EXCEPT ![d] = FALSE]
    /\ touched' = [touched EXCEPT ![d] = FALSE]

\* A request or transaction fails without the document being at fault.
Fault ==
    /\ used.faults < MaxFaults
    /\ used' = [used EXCEPT !.faults = @ + 1]

\* A request about a document fails: it is gone (404), or anything else.
RequestFails(d, err) ==
    \/ ~alive[d] /\ err = "permanent" /\ UNCHANGED used
    \/ Fault /\ err = "transient"

\* updater.Do returned: its error is what the attempt's record will show.
Finish(d, err) == Goto(d, "save", [job[d] EXCEPT !.err = err])

\* A plausible bug: the conflict check is forgotten.
patchDocumentUnchecked(d, mode, patch, err) ==
    IF IsEmptyPatch(patch)
    THEN Finish(d, "none")
    ELSE Goto(d, "patch",
              [job[d] EXCEPT !.mode = mode, !.patch = patch, !.err = err])

\* patchDocument: nothing to do for an empty patch, else the conflict check.
patchDocument(d, mode, patch, err) ==
    IF IsEmptyPatch(patch)
    THEN Finish(d, "none")
    ELSE Goto(d, "checkDoc",
              [job[d] EXCEPT !.mode = mode, !.patch = patch, !.err = err])

\* The patches of applyFacts and markFailed, from the document as listed.
applyPatch(d, facts) == FactsPatch(job[d].listed, facts, TodoTag, FailedTag)
failPatch(d) == FailPatch(job[d].listed, TodoTag, FailedTag)

\* A plausible bug: one retry too many.
lastRetryLate(d) == job[d].retryCount > RetriesMax

\* processDocumentInner: no attempt follows this one.
lastRetry(d) == job[d].retryCount >= RetriesMax

\* A plausible bug: the retry counter is not looked at.
DoImpatiently(d, err) ==
    IF job[d].mode = "apply"
    THEN patchDocument(d, "fail", failPatch(d), err)
    ELSE Finish(d, err)

\* Do: applyFacts failed, and the last or a permanent failure is marked in
\* Paperless; the result of markFailed is the result of the attempt.
DoFailed(d, err) ==
    IF job[d].mode = "apply" /\ (lastRetry(d) \/ err = "permanent")
    THEN patchDocument(d, "fail", failPatch(d), err)
    ELSE Finish(d, err)

\* The walk lists a document carrying the todo tag and queues its processing.
Start(d) ==
    /\ pc[d] = "idle" /\ alive[d] /\ TodoTag \in docs[d].tags
    /\ Goto(d, "load", newTask(docs[d]))
    /\ UNCHANGED <<server, store, used, observers>>

\* loadTask: the metadata or the record cannot be read.
LoadFails(d) ==
    /\ pc[d] = "load"
    /\ \E err \in {"permanent", "transient"} : RequestFails(d, err)
    /\ GoIdle(d)
    /\ UNCHANGED <<server, store, hist>>

\* The task as the metadata read now makes it.
Loaded(d) == [job[d] EXCEPT !.file = docs[d].file]

\* loadTask: RetryAfter lies ahead.
LoadSkips(d) ==
    /\ pc[d] = "load" /\ alive[d]
    /\ RecordOf(KeyOf(d, Loaded(d))).wait > 0
    /\ GoIdle(d)
    /\ UNCHANGED <<server, store, used, hist>>

\* loadTask: no record, or one that may be retried.
LoadReady(d) ==
    LET rec == RecordOf(KeyOf(d, Loaded(d)))
    IN  /\ pc[d] = "load" /\ alive[d]
        /\ rec.wait = 0
        /\ rec.retryCount <= RetryCap
        /\ Goto(d, "resolve", [Loaded(d) EXCEPT !.retryCount = rec.retryCount])
        /\ UNCHANGED <<server, store, used, observers>>

\* newUpdater: the todo and the failed tag are looked up or created.
ResolveTags(d) ==
    /\ pc[d] = "resolve"
    /\ Goto(d, "extract", job[d])
    /\ UNCHANGED <<server, store, used, observers>>

\* newUpdater fails before there is an updater to mark the document failed.
ResolveFails(d) ==
    /\ pc[d] = "resolve"
    /\ Fault
    /\ Finish(d, "transient")
    /\ UNCHANGED <<server, store, observers>>

\* checkSize: the metadata's sizes exceed the limit.
SizeExceeded(d) ==
    /\ pc[d] = "extract" /\ job[d].file \in TooLargeFiles
    /\ DoFailed(d, "permanent")
    /\ UNCHANGED <<server, store, used, observers>>

\* getFacts or setFacts fails: a plugin, a download, the timeout, a name that
\* cannot be resolved.  A download of a missing file is a permanent error.
ExtractFails(d) ==
    /\ pc[d] = "extract" /\ job[d].file \notin TooLargeFiles
    /\ \E err \in {"transient", "permanent"} : DoFailed(d, err)
    /\ UNCHANGED <<server, store, used, observers>>

\* Facts, or none, are turned into a patch that also removes both tags.
ExtractFacts(d) ==
    /\ pc[d] = "extract" /\ job[d].file \notin TooLargeFiles /\ alive[d]
    /\ \E facts \in FactsChoices :
           patchDocument(d, "apply", applyPatch(d, facts), "none")
    /\ UNCHANGED <<server, store, used, observers>>

\* A plausible bug: "modified" is left out like the tags are.
SnapshotWithoutModified(doc) ==
    [file |-> doc.file, fields |-> [f \in ScalarFields |-> doc.fields[f]]]

\* docSnapshot, as far as GetDocument fills it in; tags and references are
\* not part of it.
Snapshot(doc) ==
    [modified |-> doc.modified, file |-> doc.file,
     fields |-> [f \in ScalarFields |-> doc.fields[f]]]

\* CheckModified: the document is read again.
CheckDocument(d) ==
    /\ pc[d] = "checkDoc" /\ alive[d]
    /\ Goto(d, "checkMeta", [job[d] EXCEPT
             !.unchanged = Snapshot(docs[d]) = Snapshot(job[d].listed)])
    /\ touched' = [touched EXCEPT ![d] = FALSE]
    /\ UNCHANGED <<server, store, used, hist, applied>>

\* CheckModified: the metadata is read again and the snapshots are compared.
CheckMetadata(d) ==
    /\ pc[d] = "checkMeta" /\ alive[d]
    /\ IF job[d].unchanged /\ docs[d].file = job[d].file
       THEN Goto(d, "patch", job[d])
       ELSE DoFailed(d, "transient")
    /\ UNCHANGED <<server, store, used, observers>>

\* CheckModified: one of the two requests fails.
CheckFails(d) ==
    /\ pc[d] \in {"checkDoc", "checkMeta"}
    /\ \E err \in {"permanent", "transient"} :
           RequestFails(d, err) /\ DoFailed(d, err)
    /\ UNCHANGED <<server, store, observers>>

\* Every change of a document updates "modified" (external).
SaveDocument(d, fields, tags) ==
    docs' = [docs EXCEPT ![d] = [fields |-> fields, tags |-> tags,
                                 modified |-> docs[d].modified + 1,
                                 file |-> docs[d].file]]

\* The server carries out a PATCH request (external).
ServePatch(d) ==
    /\ alive[d]
    /\ SaveDocument(d, PatchedFields(docs[d], job[d].patch),
                       PatchedTags(docs[d], job[d].patch))
    /\ applied' = [applied EXCEPT ![d] = @ \/ job[d].mode = "apply"]
    /\ UNCHANGED <<alive, hist, touched>>

\* PatchDocument succeeds.
PatchDocument(d) ==
    /\ pc[d] = "patch"
    /\ ServePatch(d)
    /\ Finish(d, "none")
    /\ UNCHANGED <<store, used>>

\* PatchDocument takes effect, but its answer is lost.
PatchAnswerLost(d) ==
    /\ pc[d] = "patch"
    /\ ServePatch(d)
    /\ Fault
    /\ DoFailed(d, "transient")
    /\ UNCHANGED store

\* PatchDocument fails without effect.
PatchFails(d) ==
    /\ pc[d] = "patch"
    /\ \E err \in {"permanent", "transient"} :
           RequestFails(d, err) /\ DoFailed(d, err)
    /\ UNCHANGED <<server, store, observers>>

\* Plausible bugs: counting down, and not counting at all.
SavedRecordCountingDown(j) ==
    [retryCount |-> j.retryCount - (IF j.err = "none" THEN 0 ELSE 1),
     wait |-> IF j.err = "none" THEN 0 ELSE RetryDelay(j.retryCount), age |-> 0]
SavedRecordUncounted(j) ==
    [retryCount |-> j.retryCount,
     wait |-> IF j.err = "none" THEN 0 ELSE RetryDelay(j.retryCount), age |-> 0]

\* SaveResult: a failure is counted and postpones the next attempt.
SavedRecord(j) ==
    IF j.err = "none"
    THEN [retryCount |-> j.retryCount, wait |-> 0, age |-> 0]
    ELSE [retryCount |-> j.retryCount + 1, wait |-> RetryDelay(j.retryCount), age |-> 0]

\* The observer counts a failed attempt (up to the first beyond the bound).
CountFailure(d, wait) ==
    LET key == KeyOf(d, job[d])
        n   == HistOf(key).failures
    IN  IF job[d].err = "none"
        THEN hist' = hist
        ELSE hist' = Upsert(hist, key,
                 [failures |-> IF n > RetryCap THEN n ELSE n + 1, wait |-> wait])

\* SaveResult: the record is inserted or replaced, whatever happened to it
\* since it was loaded.
Save(d) ==
    /\ pc[d] = "save"
    /\ store' = Upsert(store, KeyOf(d, job[d]), SavedRecord(job[d]))
    /\ CountFailure(d, SavedRecord(job[d]).wait)
    /\ GoIdle(d)
    /\ UNCHANGED <<server, used>>

\* SaveResult: the transaction fails.
SaveFails(d) ==
    /\ pc[d] = "save"
    /\ Fault
    /\ CountFailure(d, HistOf(KeyOf(d, job[d])).wait)
    /\ GoIdle(d)
    /\ UNCHANGED <<server, store>>

Attempt(d) ==
    \/ LoadFails(d) \/ LoadSkips(d) \/ LoadReady(d)
    \/ ResolveTags(d) \/ ResolveFails(d)
    \/ SizeExceeded(d) \/ ExtractFails(d) \/ ExtractFacts(d)
    \/ CheckDocument(d) \/ CheckMetadata(d) \/ CheckFails(d)
    \/ PatchDocument(d) \/ PatchAnswerLost(d) \/ PatchFails(d)
    \/ Save(d) \/ SaveFails(d)

-----------------------------------------------------------------------------
(* Time, the pruner and restarts.                                          *)

Sooner(n) == IF n = 0 THEN 0 ELSE n - 1

Older(r) == [retryCount |-> r.retryCount, wait |-> Sooner(r.wait),
             age |-> IF r.age > PruneAfter THEN r.age ELSE r.age + 1]

\* The document may be attempted, and its record is as old as it may get.
Overdue(d) ==
    LET rec == RecordOf(CurrentKey(d))
    IN  /\ alive[d] /\ TodoTag \in docs[d].tags /\ pc[d] \in {"idle", "load"}
        /\ rec.wait = 0 /\ rec.age >= PruneAfter

\* A unit of time passes.  With PromptPolls a document is listed and loaded
\* before its record, once due, has become old enough to be pruned: a poll
\* comes at least every hour or so, the pruner waits for 24 hours.
Tick ==
    /\ PromptPolls => \A d \in Docs : ~Overdue(d)
    /\ store' = [k \in DOMAIN store |-> Older(store[k])]
    /\ hist' = [k \in DOMAIN hist |->
                 [failures |-> hist[k].failures, wait |-> Sooner(hist[k].wait)]]
    /\ UNCHANGED <<server, pc, job, used, applied, touched>>

\* A plausible bug: the time of the last update is taken for its creation,
\* so that records still waiting for their retry are deleted as well.
ObsoleteEarly(r) == r.age > 0

\* RecordUpdated is older than PruneAfter.
Obsolete(r) == r.age > PruneAfter

\* store.Prune: one transaction deletes every obsolete record.
Prune ==
    /\ \E k \in DOMAIN store : Obsolete(store[k])
    /\ store' = [k \in {key \in DOMAIN store : ~Obsolete(store[key])} |-> store[k]]
    /\ UNCHANGED <<server, pc, job, used, observers>>

\* The daemon is restarted: attempts are cut off wherever they are, and the
\* store, in a temporary directory, is empty again.  The observer starts over.
Crash ==
    /\ used.crashes < MaxCrashes
    /\ used' = [used EXCEPT !.crashes = @ + 1]
    /\ pc' = [d \in Docs |-> "idle"]
    /\ job' = [d \in Docs |-> NoTask]
    /\ store' = [k \in {} |-> NewRecord]
    /\ hist' = [k \in {} |-> NoFailures]
    /\ applied' = [d \in Docs |-> FALSE]
    /\ touched' = [d \in Docs |-> FALSE]
    /\ UNCHANGED server

-----------------------------------------------------------------------------
(* The server's side (external): what users and the server do to documents.*)

Change(d) ==
    /\ alive[d]
    /\ used.edits < MaxEdits
    /\ used' = [used EXCEPT !.edits = @ + 1]
    /\ touched' = [touched EXCEPT ![d] = pc[d] \in {"checkMeta", "patch"}]
    /\ UNCHANGED <<pc, job, store, hist, applied>>

\* A user changes the tags or a field; every edit updates "modified".
EditDocument(d) ==
    /\ Change(d)
    /\ UNCHANGED alive
    /\ \/ \E tags \in SUBSET TagIDs \ {docs[d].tags} :
             SaveDocument(d, docs[d].fields, tags)
       \/ \E f \in Fields : \E v \in Values \ {docs[d].fields[f]} :
             SaveDocument(d, [docs[d].fields EXCEPT ![f] = v], docs[d].tags)

\* The archive file and the text are made anew; "modified" is not updated.
ReprocessDocument(d) ==
    /\ Change(d)
    /\ UNCHANGED alive
    /\ \E file \in Files \ {docs[d].file} :
          docs' = [docs EXCEPT ![d] = [docs[d] EXCEPT !.file = file]]

DeleteDocument(d) ==
    /\ Change(d)
    /\ UNCHANGED docs
    /\ alive' = [alive EXCEPT ![d] = FALSE]

Environment(d) == EditDocument(d) \/ ReprocessDocument(d) \/ DeleteDocument(d)

-----------------------------------------------------------------------------
Next ==
    \/ \E d \in Docs : Start(d) \/ Attempt(d) \/ Environment(d)
    \/ Tick \/ Prune \/ Crash

Spec == Init /\ [][Next]_vars

\* The poller keeps listing documents, an attempt goes on until it is over
\* and time passes.  Nothing is assumed of users, faults and restarts (which
\* the bounds make finitely many) and of the pruner.
Fairness ==
    /\ \A d \in Docs : WF_vars(Start(d)) /\ WF_vars(Attempt(d))
    /\ WF_vars(Tick)

FairSpec == Spec /\ Fairness

-----------------------------------------------------------------------------
(* Properties.                                                             *)

\* Every variable has its type.
TypeOK ==
    /\ docs \in [Docs -> Document]
    /\ alive \in [Docs -> BOOLEAN]
    /\ pc \in [Docs -> Busy \cup {"idle"}]
    /\ job \in [Docs -> Job]
    /\ DOMAIN store \subseteq Key
    /\ \A k \in DOMAIN store : store[k] \in Record
    /\ used \in [edits : Nat, faults : Nat, crashes : Nat]
    /\ DOMAIN hist \subseteq Key
    /\ \A k \in DOMAIN hist : hist[k] \in [failures : Nat, wait : Nat]
    /\ applied \in [Docs -> BOOLEAN]
    /\ touched \in [Docs -> BOOLEAN]

Patching(d) == pc[d] \in {"checkDoc", "checkMeta", "patch"}

\* A PATCH that replaces the tags or fields of a document is only sent while
\* the document is what the patch was computed from, unless it was changed in
\* the window the conflict check leaves open, after its GetDocument.  The
\* snapshot the check compares holds neither tags nor references: it is
\* "modified" that stands for them (CheckModified, patchDocument).
NoLostUpdate ==
    \A d \in Docs : pc[d] = "patch" /\ ~touched[d] =>
        /\ docs[d].tags = job[d].listed.tags
        /\ docs[d].fields = job[d].listed.fields

\* An attempt whose facts reached the server never goes on to tag the document
\* as failed, not even when the answer to its last PATCH was lost: the conflict
\* check takes the daemon's own change for a concurrent one (Do, markFailed).
NeverFailAfterApply ==
    \A d \in Docs : applied[d] /\ job[d].mode = "fail" => pc[d] # "patch"

\* A document is only marked failed for an error that is permanent, or after
\* all retries of this version of it: the counter read back from the store
\* never runs ahead of the failures that happened, whatever is pruned, lost or
\* changed in between (lastRetry in processDocumentInner, SaveResult).
ExhaustedBeforeFailed ==
    \A d \in Docs : Patching(d) /\ job[d].mode = "fail" =>
        \/ job[d].err = "permanent"
        \/ HistOf(KeyOf(d, job[d])).failures >= RetriesMax

\* No attempt is made before the delay after the previous failure of the same
\* document version is over: the record saying so outlives the delay, although
\* the pruner deletes records by the time of their last update (loadTask,
\* Prune).  It needs delays no longer than PruneAfter.
BackoffRespected ==
    \A d \in Docs : pc[d] \in Busy \ {"load"} =>
        HistOf(KeyOf(d, job[d])).wait = 0

\* "Maximum number of retries for processing a document": a version of a
\* document fails once per retry.  Each disturbance, a failing request or a change
\* of the document, allows for one failure more and may cost the count, so
\* that the retries start over: the record may be pruned while the file is
\* another one or an attempt goes on whose result is then not saved (loadTask,
\* SaveResult, Prune).
RetryLimit ==
    \A k \in DOMAIN hist :
        hist[k].failures <=
            RetriesMax + (RetriesMax + 1) * (used.faults + used.edits)

\* Whatever the daemon changes loses the todo tag in the same request, so that
\* no document is processed twice, and has the failed tag afterwards exactly
\* when the attempt gave up, whatever tags the facts ask for (applyFacts,
\* markFailed).
DaemonClearsTodo ==
    [][\A d \in Docs :
         docs'[d] # docs[d] /\ used'.edits = used.edits =>
                /\ TodoTag \notin docs'[d].tags
                /\ (FailedTag \in docs'[d].tags) = (job[d].mode = "fail")]_vars

\* A document to be processed is cataloged, marked failed or deleted in the
\* end, provided that requests fail and users interfere finitely often.
TodoEventuallyCleared ==
    \A d \in Docs :
        (alive[d] /\ TodoTag \in docs[d].tags)
            ~> ~(alive[d] /\ TodoTag \in docs[d].tags)

-----------------------------------------------------------------------------
(* The promise kept.                                                       *)

\* What Cataloging knows of a document.
Seen(doc) == [fields |-> doc.fields, tags |-> doc.tags]

\* Between the conflict check's look at a document and the PATCH the daemon
\* believes it to be as it was listed, and at other times nothing.
Base(d) ==
    IF touched[d] /\ (pc[d] = "patch" \/ (pc[d] = "checkMeta" /\ job[d].unchanged))
    THEN Seen(job[d].listed)
    ELSE Seen(docs[d])

Promise == INSTANCE Cataloging WITH
               docs <- [d \in Docs |-> Seen(docs[d])],
               base <- [d \in Docs |-> Base(d)]

\* All those requests, retries, lost answers and restarts amount to documents
\* being cataloged or marked failed in one step each, once for every time they
\* are given the todo tag, and from what they were unless a user was quicker
\* than the check could see (processDocument and all it calls).
PromiseKept == Promise!Spec

-----------------------------------------------------------------------------
(* The contract with the walk.                                             *)

Tagged(d) == alive[d] /\ TodoTag \in docs[d].tags

Contract == INSTANCE Dispatch WITH
                tagged <- {d \in Docs : Tagged(d)},
                busy <- [d \in Docs |-> IF pc[d] = "idle" THEN 0 ELSE 1],
                edits <- used.edits

\* The attempts keep their side: none ever puts the todo tag on a document, not
\* even one a user has just taken it from while a PATCH that replaces all tags
\* was on its way.  The walk relies on it to come to an end (applyFacts,
\* markFailed).
DispatchServed == Contract!Spec
=============================================================================
