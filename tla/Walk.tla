-------------------------------- MODULE Walk --------------------------------
(***************************************************************************)
(* The walk over the documents to be processed                             *)
(* (internal/cataloger/walk.go): the documents with the todo tag are       *)
(* listed page by page, each one not seen before is handed to a pool of    *)
(* workers, and the listing is repeated until nothing new turns up, for    *)
(* the workers, users and the server change what the pages hold meanwhile. *)
(*                                                                         *)
(* The poller starts one walk after the other.  What an attempt does to a  *)
(* document is in DocumentTask; here it ends with the todo tag removed, or *)
(* still there after a failure.                                            *)
(***************************************************************************)
EXTENDS Naturals, FiniteSets

CONSTANTS
    Docs,        \* documents, by ID
    PageSize,    \* documents on a page of the listing
    Workers,     \* GOMAXPROCS
    MaxEdits,    \* bound: tags added and removed by users
    MaxFaults    \* bound: failing requests

ASSUME WalkDocs    == Docs \subseteq Nat /\ IsFiniteSet(Docs)
ASSUME WalkNumbers == PageSize \in Nat \ {0} /\ Workers \in Nat \ {0}
                      /\ MaxEdits \in Nat /\ MaxFaults \in Nat

VARIABLES
    tagged,    \* the documents with the todo tag, on the server
    walk,      \* where the walk is
    seen,      \* documents seen by this walk
    running,   \* how many workers are busy with a document
    used,      \* how much of the bounds is used up
    attempts,  \* observer: attempts at a document in this walk
    steady,    \* observer: documents tagged since this pass began
    shrunk     \* observer: a tag was removed since this pass began

vars == <<tagged, walk, seen, running, used, attempts, steady, shrunk>>
observers == <<attempts, steady, shrunk>>

Walks == [phase  : {"idle", "request", "page", "wait"},
          page   : Nat,            \* number of the page to request, or at hand
          items  : SUBSET Docs,    \* the page's documents not yet handled
          more   : BOOLEAN,        \* the page has a successor
          found  : BOOLEAN,        \* this pass found a new document
          failed : BOOLEAN]        \* listing documents failed

Idle == [phase |-> "idle", page |-> 1, items |-> {}, more |-> FALSE,
         found |-> FALSE, failed |-> FALSE]

Init ==
    /\ tagged \in SUBSET Docs
    /\ walk = Idle
    /\ seen = {}
    /\ running = [d \in Docs |-> 0]
    /\ used = [edits |-> 0, faults |-> 0]
    /\ attempts = [d \in Docs |-> 0]
    /\ steady = {}
    /\ shrunk = FALSE

Fault ==
    /\ used.faults < MaxFaults
    /\ used' = [used EXCEPT !.faults = @ + 1]

-----------------------------------------------------------------------------
(* The listing: ListAllDocuments (external) and its callback.              *)

\* Documents are ordered by ID.
Rank(d) == Cardinality({e \in tagged : e <= d})

Page(n) == {d \in tagged : Rank(d) > (n - 1) * PageSize /\ Rank(d) <= n * PageSize}

\* A new pass begins on the first page.
StartPass(w) ==
    /\ walk' = [w EXCEPT !.phase = "request", !.page = 1, !.found = FALSE]
    /\ steady' = tagged
    /\ shrunk' = FALSE

\* A plausible bug: what was seen is remembered from walk to walk.
SeenAtStartKept == seen
SeenAtStart == {}

\* The poller calls processDocuments, and the todo tag is found.
StartWalk ==
    /\ walk.phase = "idle"
    /\ StartPass(Idle)
    /\ seen' = SeenAtStart
    /\ attempts' = [d \in Docs |-> 0]
    /\ UNCHANGED <<tagged, running, used>>

\* The todo tag cannot be resolved; the poller goes on.
WalkFails ==
    /\ walk.phase = "idle"
    /\ Fault
    /\ UNCHANGED <<tagged, walk, seen, running, observers>>

\* A page is received.
ReceivePage ==
    /\ walk.phase = "request"
    /\ walk.page = 1 \/ Page(walk.page) # {}
    /\ walk' = [walk EXCEPT !.phase = "page", !.items = Page(walk.page),
                            !.more = Cardinality(tagged) > walk.page * PageSize]
    /\ UNCHANGED <<tagged, seen, running, used, observers>>

\* The request fails, or the page no longer exists.
ListFails ==
    /\ walk.phase = "request"
    /\ \/ walk.page > 1 /\ Page(walk.page) = {} /\ UNCHANGED used
       \/ Fault
    /\ walk' = [walk EXCEPT !.phase = "wait", !.failed = TRUE]
    /\ UNCHANGED <<tagged, seen, running, observers>>

\* The callback is called for the next document of the page.
Listed(d) ==
    /\ walk.phase = "page"
    /\ d \in walk.items
    /\ \A e \in walk.items : d <= e

\* A plausible bug: the rest of the listing is taken for seen, too.
AfterSeenStop(d) == [walk EXCEPT !.items = {}, !.more = FALSE]
AfterSeen(d)     == [walk EXCEPT !.items = @ \ {d}]

SkipSeen(d) ==
    /\ Listed(d)
    /\ d \in seen
    /\ walk' = AfterSeen(d)
    /\ UNCHANGED <<tagged, seen, running, used, observers>>

\* A plausible bug: seen is not updated.
MarkSeenNot(d) == seen
MarkSeen(d)    == seen \cup {d}

BusyWorkers == {d \in Docs : running[d] > 0}

\* tasks.Go, which waits for a free worker.
Process(d) ==
    /\ Listed(d)
    /\ d \notin seen
    /\ Cardinality(BusyWorkers) < Workers
    /\ walk' = [walk EXCEPT !.items = @ \ {d}, !.found = TRUE]
    /\ seen' = MarkSeen(d)
    /\ running' = [running EXCEPT ![d] = @ + 1]
    /\ attempts' = [attempts EXCEPT ![d] = @ + 1]
    /\ UNCHANGED <<tagged, used, steady, shrunk>>

NextPage ==
    /\ walk.phase = "page" /\ walk.items = {} /\ walk.more
    /\ walk' = [walk EXCEPT !.phase = "request", !.page = @ + 1]
    /\ UNCHANGED <<tagged, seen, running, used, observers>>

\* A plausible bug: found is declared outside the loop.
LoopAgainForever == walk.found \/ seen # {}
LoopAgain == walk.found

\* The listing is over: repeat it, or leave the loop.
EndPass ==
    /\ walk.phase = "page" /\ walk.items = {} /\ ~walk.more
    /\ IF LoopAgain
       THEN StartPass(walk)
       ELSE /\ walk' = [walk EXCEPT !.phase = "wait"]
            /\ UNCHANGED <<steady, shrunk>>
    /\ UNCHANGED <<tagged, seen, running, used, attempts>>

\* A plausible bug: the walk does not wait for its workers.
TasksDoneOrNot == TRUE
TasksDone == BusyWorkers = {}

\* tasks.Wait, also after an error.
EndWalk ==
    /\ walk.phase = "wait"
    /\ TasksDone
    /\ walk' = Idle
    /\ UNCHANGED <<tagged, seen, running, used, observers>>

-----------------------------------------------------------------------------
(* Workers and users.                                                      *)

Untag(d) ==
    /\ tagged' = tagged \ {d}
    /\ steady' = steady \ {d}
    /\ shrunk' = (shrunk \/ d \in tagged)

\* process returns; the document has been cataloged or not.
Finish(d) ==
    /\ running[d] > 0
    /\ running' = [running EXCEPT ![d] = @ - 1]
    /\ Untag(d) \/ UNCHANGED <<tagged, steady, shrunk>>
    /\ UNCHANGED <<walk, seen, used, attempts>>

Edit ==
    /\ used.edits < MaxEdits
    /\ used' = [used EXCEPT !.edits = @ + 1]
    /\ UNCHANGED <<walk, seen, running, attempts>>

UserTags(d) ==
    /\ Edit
    /\ d \notin tagged
    /\ tagged' = tagged \cup {d}
    /\ UNCHANGED <<steady, shrunk>>

UserUntags(d) ==
    /\ Edit
    /\ d \in tagged
    /\ Untag(d)

-----------------------------------------------------------------------------
WalkStep ==
    \/ StartWalk \/ ReceivePage \/ ListFails \/ NextPage \/ EndPass \/ EndWalk
    \/ \E d \in Docs : SkipSeen(d) \/ Process(d)

Next ==
    \/ WalkStep \/ WalkFails
    \/ \E d \in Docs : Finish(d) \/ UserTags(d) \/ UserUntags(d)

Spec == Init /\ [][Next]_vars

\* The poller walks again and again, requests are answered, and every attempt
\* comes to an end: its requests do and extracting facts has a timeout.
FairSpec == Spec /\ WF_vars(WalkStep) /\ \A d \in Docs : WF_vars(Finish(d))

-----------------------------------------------------------------------------
(* Properties.                                                             *)

\* Every variable has its type.
TypeOK ==
    /\ tagged \in SUBSET Docs
    /\ walk \in Walks
    /\ seen \in SUBSET Docs
    /\ running \in [Docs -> Nat]
    /\ used \in [edits : Nat, faults : Nat]
    /\ attempts \in [Docs -> Nat]
    /\ steady \in SUBSET Docs
    /\ shrunk \in BOOLEAN

\* No two workers, of one walk or of successive ones, are busy with the same
\* document, although every pass lists what is still being processed and a
\* walk may be cut short by an error (seen, tasks.Wait).  DocumentTask builds
\* on it: loading and saving a retry record is not one transaction.
NoConcurrentAttempts == \A d \in Docs : running[d] <= 1

\* A walk attempts a document once: neither a failure that leaves the tag nor
\* a shift of the pages makes it attempt the document again (seen).
OncePerWalk == \A d \in Docs : attempts[d] <= 1

\* A walk that comes to its regular end has seen every document that kept its
\* tag since the last listing began, unless something lost its tag meanwhile
\* and moved others to pages already read ("Repeat the process until no new
\* documents are found").
QuietPassComplete ==
    walk.phase = "wait" /\ ~walk.failed /\ ~shrunk => steady \subseteq seen

\* A walk ends, although a listing that finds a new document is repeated.
WalkEnds == (walk.phase # "idle") ~> (walk.phase = "idle")

\* Every document with the tag is attempted, and attempted again by a later
\* walk while it keeps the tag.
EveryDocumentAttempted ==
    \A d \in Docs : d \in tagged ~> (running[d] > 0 \/ d \notin tagged)

-----------------------------------------------------------------------------
(* The contract with the attempts.                                         *)

\* A document of the page at hand that was not seen before waits for a worker:
\* its attempt has begun, with the document as listed.
Waiting(d) == walk.phase = "page" /\ d \in walk.items \ seen

Contract == INSTANCE Dispatch WITH
                busy <- [d \in Docs |-> running[d] + (IF Waiting(d) THEN 1 ELSE 0)],
                edits <- used.edits

\* The walk keeps its side: from the moment a document is listed until its
\* attempt has ended it is not listed for another one, whatever becomes of its
\* tag, the page, the pass or the walk meanwhile, so that no attempt works with
\* a document as it was before another attempt (walkDocuments).
DispatchKept == Contract!Spec
=============================================================================
