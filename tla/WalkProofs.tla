----------------------------- MODULE WalkProofs -----------------------------
(***************************************************************************)
(* Proofs about the walk over the documents.                               *)
(***************************************************************************)
EXTENDS Walk, FiniteSetTheorems, TLAPS

-----------------------------------------------------------------------------
(* Types.                                                                  *)

\* A page holds documents with the tag.
LEMMA PageType == ASSUME NEW n \in Nat PROVE Page(n) \subseteq tagged
BY Zenon DEF Page

\* What the steps of a walk make of its record.
LEMMA WalkTypes ==
    ASSUME NEW w \in Walks
    PROVE  /\ [w EXCEPT !.phase = "wait"] \in Walks
           /\ [w EXCEPT !.phase = "wait", !.failed = TRUE] \in Walks
           /\ [w EXCEPT !.phase = "request", !.page = 1, !.found = FALSE] \in Walks
           /\ \A n \in Nat : [w EXCEPT !.phase = "request", !.page = n] \in Walks
           /\ \A items \in SUBSET Docs : \A more \in BOOLEAN :
                 [w EXCEPT !.phase = "page", !.items = items, !.more = more] \in Walks
           /\ \A items \in SUBSET Docs : [w EXCEPT !.items = items] \in Walks
           /\ \A items \in SUBSET Docs :
                 [w EXCEPT !.items = items, !.found = TRUE] \in Walks
           /\ w.page + 1 \in Nat
           /\ w.items \in SUBSET Docs
<1>1. [w EXCEPT !.phase = "wait"] \in Walks
  BY DEF Walks
<1>2. [w EXCEPT !.phase = "wait", !.failed = TRUE] \in Walks
  BY DEF Walks
<1>3. [w EXCEPT !.phase = "request", !.page = 1, !.found = FALSE] \in Walks
  BY DEF Walks
<1>4. ASSUME NEW n \in Nat PROVE [w EXCEPT !.phase = "request", !.page = n] \in Walks
  BY DEF Walks
<1>5. ASSUME NEW items \in SUBSET Docs, NEW more \in BOOLEAN
      PROVE  [w EXCEPT !.phase = "page", !.items = items, !.more = more] \in Walks
  BY DEF Walks
<1>6. ASSUME NEW items \in SUBSET Docs
      PROVE  /\ [w EXCEPT !.items = items] \in Walks
             /\ [w EXCEPT !.items = items, !.found = TRUE] \in Walks
  BY DEF Walks
<1>7. w.page + 1 \in Nat /\ w.items \in SUBSET Docs
  BY DEF Walks
<1> QED
  BY <1>1, <1>2, <1>3, <1>4, <1>5, <1>6, <1>7

\* All variables begin with their type.
LEMMA TypeInit == Init => TypeOK
<1>1. Idle \in Walks
  BY DEF Idle, Walks
<1>2. ASSUME Init PROVE TypeOK
  BY <1>1, <1>2 DEF Init, TypeOK
<1> QED
  BY <1>2

\* Every step keeps the types.
LEMMA TypeNext == TypeOK /\ [Next]_vars => TypeOK'
<1> SUFFICES ASSUME TypeOK, [Next]_vars PROVE TypeOK'
    OBVIOUS
<1> USE DEF TypeOK, observers
<1>1. CASE StartWalk
  <2>1. walk' \in Walks
      BY <1>1 DEF StartWalk, StartPass, Idle, Walks
  <2> QED BY <1>1, <2>1 DEF StartWalk, StartPass, SeenAtStart
<1>2. CASE WalkFails
  BY <1>2 DEF WalkFails, Fault
<1>3. CASE ReceivePage
  <2>1. walk.page \in Nat
      BY DEF Walks
  <2>2. Page(walk.page) \in SUBSET Docs
      BY <2>1, PageType
  <2> DEFINE more == Cardinality(tagged) > walk.page * PageSize
  <2>4. more \in BOOLEAN
      OBVIOUS
  <2>5. walk' = [walk EXCEPT !.phase = "page", !.items = Page(walk.page), !.more = more]
      BY <1>3 DEF ReceivePage
  <2> HIDE DEF more
  <2>3. walk' \in Walks
      BY <2>2, <2>4, <2>5, WalkTypes
  <2> QED BY <1>3, <2>3 DEF ReceivePage
<1>4. CASE ListFails
  <2>1. walk' \in Walks
      BY <1>4, WalkTypes DEF ListFails
  <2>2. used' \in [edits : Nat, faults : Nat]
      BY <1>4 DEF ListFails, Fault
  <2> QED BY <1>4, <2>1, <2>2 DEF ListFails
<1>5. CASE NextPage
  <2>1. walk.page + 1 \in Nat
      BY WalkTypes
  <2>2. walk' \in Walks
      BY <1>5, <2>1, WalkTypes DEF NextPage
  <2> QED BY <1>5, <2>2 DEF NextPage
<1>6. CASE EndPass
  <2>1. walk' \in Walks
      BY <1>6, WalkTypes DEF EndPass, StartPass
  <2>2. steady' \in SUBSET Docs /\ shrunk' \in BOOLEAN
      BY <1>6 DEF EndPass, StartPass
  <2> QED BY <1>6, <2>1, <2>2 DEF EndPass
<1>7. CASE EndWalk
  BY <1>7 DEF EndWalk, Idle, Walks
<1>8. ASSUME NEW d \in Docs, SkipSeen(d) PROVE TypeOK'
  <2>1. walk.items \ {d} \in SUBSET Docs
      BY WalkTypes
  <2>2. walk' \in Walks
      BY <1>8, <2>1, WalkTypes DEF SkipSeen, AfterSeen
  <2> QED BY <1>8, <2>2 DEF SkipSeen
<1>9. ASSUME NEW d \in Docs, Process(d) PROVE TypeOK'
  <2>1. walk.items \ {d} \in SUBSET Docs
      BY WalkTypes
  <2>3. walk' \in Walks
      BY <1>9, <2>1, WalkTypes DEF Process
  <2>2. running' \in [Docs -> Nat] /\ attempts' \in [Docs -> Nat]
      BY <1>9 DEF Process
  <2> QED BY <1>9, <2>2, <2>3 DEF Process, MarkSeen
<1>10. ASSUME NEW d \in Docs, Finish(d) PROVE TypeOK'
  <2>1. running' \in [Docs -> Nat]
      BY <1>10 DEF Finish
  <2>2. /\ tagged' \in SUBSET Docs
        /\ steady' \in SUBSET Docs
        /\ shrunk' \in BOOLEAN
      BY <1>10 DEF Finish, Untag
  <2> QED BY <1>10, <2>1, <2>2 DEF Finish
<1>11. ASSUME NEW d \in Docs, UserTags(d) \/ UserUntags(d) PROVE TypeOK'
  <2>1. used' \in [edits : Nat, faults : Nat]
      BY <1>11 DEF UserTags, UserUntags, Edit
  <2> QED BY <1>11, <2>1 DEF UserTags, UserUntags, Edit, Untag
<1>12. CASE UNCHANGED vars
  BY <1>12 DEF vars
<1> QED
  BY <1>1, <1>2, <1>3, <1>4, <1>5, <1>6, <1>7, <1>8, <1>9, <1>10, <1>11, <1>12
  DEF Next, WalkStep

\* Every variable keeps its type.
THEOREM WalkTypeCorrect == Spec => []TypeOK
BY TypeInit, TypeNext, PTL DEF Spec

-----------------------------------------------------------------------------
(* Workers.  What a worker is busy with was seen by the walk that is under *)
(* way: a new walk forgets what was seen, but only when nobody is busy.    *)

WorkersInv ==
    /\ seen \in SUBSET Docs
    /\ running \in [Docs -> {0, 1}]
    /\ attempts \in [Docs -> {0, 1}]
    /\ \A d \in Docs : running[d] = 1 => d \in seen /\ walk.phase # "idle"
    /\ \A d \in Docs : attempts[d] = 1 => d \in seen

\* Nobody is busy at the beginning.
LEMMA WorkersInit == Init => WorkersInv
BY DEF Init, WorkersInv

\* Where neither the workers nor what was seen changes, only entering "idle"
\* matters.
LEMMA WorkersNext == TypeOK /\ WorkersInv /\ [Next]_vars => WorkersInv'
<1> SUFFICES ASSUME TypeOK, WorkersInv, [Next]_vars PROVE WorkersInv'
    OBVIOUS
<1> USE DEF WorkersInv, observers
<1>1. CASE StartWalk
  <2>1. \A d \in Docs : running[d] = 0
      BY <1>1 DEF StartWalk
  <2>2. /\ seen' = {}
        /\ running' = running
        /\ attempts' = [d \in Docs |-> 0]
      BY <1>1 DEF StartWalk, SeenAtStart
  <2> QED BY <2>1, <2>2
<1>2. CASE WalkFails
  BY <1>2 DEF WalkFails
<1>3. CASE ReceivePage
  BY <1>3 DEF ReceivePage
<1>4. CASE ListFails
  BY <1>4 DEF ListFails
<1>5. CASE NextPage
  BY <1>5 DEF NextPage
<1>6. CASE EndPass
  <2>1. walk'.phase \in {"request", "wait"} \/ walk'.phase = walk.phase
      BY <1>6 DEF EndPass, StartPass, TypeOK, Walks
  <2>2. walk.phase = "page"
      BY <1>6 DEF EndPass
  <2>3. UNCHANGED <<seen, running, attempts>>
      BY <1>6 DEF EndPass
  <2> QED BY <2>1, <2>2, <2>3
<1>7. CASE EndWalk
  <2>1. \A d \in Docs : ~ running[d] > 0
      BY <1>7 DEF EndWalk, TasksDone, BusyWorkers
  <2>2. \A d \in Docs : running[d] # 1
      BY <2>1
  <2>3. UNCHANGED <<seen, running, attempts>>
      BY <1>7 DEF EndWalk
  <2> QED BY <2>2, <2>3
<1>8. ASSUME NEW d \in Docs, SkipSeen(d) PROVE WorkersInv'
  BY <1>8 DEF SkipSeen, Listed, AfterSeen
<1>9. ASSUME NEW d \in Docs, Process(d) PROVE WorkersInv'
  <2>1. /\ d \notin seen
        /\ walk.phase = "page"
        /\ walk'.phase = walk.phase
        /\ seen' = seen \cup {d}
        /\ running' = [running EXCEPT ![d] = @ + 1]
        /\ attempts' = [attempts EXCEPT ![d] = @ + 1]
      BY <1>9 DEF Process, Listed, MarkSeen
  <2>2. running[d] = 0 /\ attempts[d] = 0
      BY <2>1
  <2>3. running' \in [Docs -> {0, 1}] /\ attempts' \in [Docs -> {0, 1}]
      BY <2>1, <2>2
  <2> QED BY <2>1, <2>3
<1>10. ASSUME NEW d \in Docs, Finish(d) PROVE WorkersInv'
  <2>1. /\ running[d] > 0
        /\ running' = [running EXCEPT ![d] = @ - 1]
        /\ UNCHANGED <<walk, seen, attempts>>
      BY <1>10 DEF Finish
  <2>2. running[d] = 1
      BY <2>1
  <2>3. running' \in [Docs -> {0, 1}] /\ \A e \in Docs : running'[e] = 1 => running[e] = 1
      BY <2>1, <2>2
  <2> QED BY <2>1, <2>3
<1>11. ASSUME NEW d \in Docs, UserTags(d) \/ UserUntags(d) PROVE WorkersInv'
  BY <1>11 DEF UserTags, UserUntags, Edit
<1>12. CASE UNCHANGED vars
  BY <1>12 DEF vars
<1> QED
  BY <1>1, <1>2, <1>3, <1>4, <1>5, <1>6, <1>7, <1>8, <1>9, <1>10, <1>11, <1>12
  DEF Next, WalkStep

\* No document is ever in the hands of two workers, however many documents and
\* workers there are and wherever a walk is cut short.  DocumentTask relies on
\* it when it gives every document one attempt at a time.
THEOREM AttemptsNeverOverlap == Spec => []NoConcurrentAttempts
<1>1. WorkersInv => NoConcurrentAttempts
  BY DEF WorkersInv, NoConcurrentAttempts
<1> QED
  BY <1>1, TypeInit, TypeNext, WorkersInit, WorkersNext, PTL DEF Spec

\* No walk attempts a document twice, whatever the pages show of it.
THEOREM AttemptedOncePerWalk == Spec => []OncePerWalk
<1>1. WorkersInv => OncePerWalk
  BY DEF WorkersInv, OncePerWalk
<1> QED
  BY <1>1, TypeInit, TypeNext, WorkersInit, WorkersNext, PTL DEF Spec

-----------------------------------------------------------------------------
(* A pass.  While no document loses its tag, documents only move to later  *)
(* pages, so that none gets from a page to be read onto one read before.   *)

\* What a pass has behind it was seen: the pages up to the one at hand and, when
\* that is the last one, all documents there were when the pass began.
PassInv ==
    /\ steady \subseteq tagged
    /\ ~shrunk =>
        /\ walk.phase = "request" =>
              \A d \in steady : Rank(d) <= (walk.page - 1) * PageSize => d \in seen
        /\ walk.phase = "page" =>
              \A d \in steady : Rank(d) <= walk.page * PageSize \/ ~walk.more =>
                  d \in seen \cup walk.items
        /\ walk.phase = "wait" /\ ~walk.failed => steady \subseteq seen

\* The documents of the listing up to one of them.
UpTo(d, docs) == {e \in docs : e <= d}

\* A document has a place in the listing, which only a removal brings forward.
LEMMA RankBounds ==
    ASSUME TypeOK
    PROVE  /\ Cardinality(tagged) \in Nat
           /\ \A d \in tagged : Rank(d) \in Nat /\ Rank(d) >= 1
                                /\ Rank(d) <= Cardinality(tagged)
<1>1. IsFiniteSet(tagged)
  BY FS_Subset, WalkDocs DEF TypeOK
<1>2. Cardinality(tagged) \in Nat
  BY <1>1, FS_CardinalityType
<1>3. ASSUME NEW d \in tagged
      PROVE  Rank(d) \in Nat /\ Rank(d) >= 1 /\ Rank(d) <= Cardinality(tagged)
  <2>1. UpTo(d, tagged) \in SUBSET tagged /\ Rank(d) = Cardinality(UpTo(d, tagged))
    BY DEF UpTo, Rank
  <2>2. IsFiniteSet(UpTo(d, tagged)) /\ Cardinality(UpTo(d, tagged)) <= Cardinality(tagged)
    BY <1>1, <2>1, FS_Subset
  <2>3. d \in UpTo(d, tagged)
    BY WalkDocs DEF UpTo, TypeOK
  <2>4. Cardinality(UpTo(d, tagged)) \in Nat /\ Cardinality(UpTo(d, tagged)) # 0
    BY <2>2, <2>3, FS_CardinalityType, FS_EmptySet
  <2>5. QED
    BY <2>1, <2>2, <2>4
<1>4. QED
  BY <1>2, <1>3

\* What is tagged meanwhile moves a document on.
LEMMA RankGrows ==
    ASSUME TypeOK, TypeOK', tagged \subseteq tagged', NEW d \in tagged
    PROVE  Rank(d) <= Rank(d)' /\ Rank(d) \in Nat /\ Rank(d)' \in Nat
<1>1. IsFiniteSet(tagged')
  BY FS_Subset, WalkDocs DEF TypeOK
<1>2. UpTo(d, tagged) \in SUBSET UpTo(d, tagged') /\ UpTo(d, tagged') \in SUBSET tagged'
  BY DEF UpTo
<1>3. IsFiniteSet(UpTo(d, tagged'))
  BY <1>1, <1>2, FS_Subset
<1>4. /\ IsFiniteSet(UpTo(d, tagged))
      /\ Cardinality(UpTo(d, tagged)) <= Cardinality(UpTo(d, tagged'))
  BY <1>2, <1>3, FS_Subset
<1>5. Cardinality(UpTo(d, tagged)) \in Nat /\ Cardinality(UpTo(d, tagged')) \in Nat
  BY <1>3, <1>4, FS_CardinalityType
<1>6. Rank(d) = Cardinality(UpTo(d, tagged)) /\ Rank(d)' = Cardinality(UpTo(d, tagged'))
  BY DEF Rank, UpTo
<1>7. QED
  BY <1>4, <1>5, <1>6

\* The products of page numbers and size that mark where pages end.
LEMMA PageEnds ==
    ASSUME TypeOK
    PROVE  /\ walk.page \in Nat
           /\ (walk.page - 1) * PageSize \in Int /\ walk.page * PageSize \in Int
<1>1. walk.page \in Nat /\ PageSize \in Int
  BY WalkNumbers DEF TypeOK, Walks
<1>2. \A n \in Int : n * PageSize \in Int
  BY <1>1
<1>3. walk.page - 1 \in Int /\ walk.page \in Int
  BY <1>1
<1>4. QED
  BY <1>1, <1>2, <1>3

\* A pass begins with no page behind it.
LEMMA PassBegins ==
    ASSUME TypeOK, TypeOK', NEW w \in Walks, StartPass(w), UNCHANGED tagged
    PROVE  PassInv'
<1>1. /\ walk'.phase = "request" /\ walk'.page = 1
      /\ steady' = tagged /\ tagged' = tagged
  BY DEF StartPass, Walks
<1>2. \A d \in tagged : Rank(d)' = Rank(d) /\ Rank(d) \in Nat /\ Rank(d) >= 1
  BY <1>1, RankBounds DEF Rank
<1>3. (walk'.page - 1) * PageSize = 0
  BY <1>1, WalkNumbers
<1>4. \A d \in steady' : ~(Rank(d)' <= (walk'.page - 1) * PageSize)
  BY <1>1, <1>2, <1>3
<1>5. QED
  BY <1>1, <1>4 DEF PassInv

\* Every document so far is on a page read before or on the one received.
LEMMA PassReceives ==
    ASSUME TypeOK, TypeOK', PassInv, ReceivePage
    PROVE  PassInv'
<1> DEFINE before == (walk.page - 1) * PageSize
           end == walk.page * PageSize
<1>1. walk \in Walks /\ before \in Int /\ end \in Int
  BY PageEnds DEF TypeOK
<1>2. /\ walk.phase = "request" /\ walk'.phase = "page" /\ walk'.page = walk.page
      /\ walk'.items = Page(walk.page)
      /\ ~walk'.more => ~(Cardinality(tagged) > end)
      /\ UNCHANGED <<tagged, seen, steady, shrunk>>
  BY <1>1 DEF ReceivePage, Walks, observers
<1> HIDE DEF before, end
<1>3. ASSUME ~shrunk, NEW d \in steady, Rank(d) <= end \/ ~walk'.more
      PROVE  d \in seen \cup walk'.items
  <2>1. d \in tagged
    BY DEF PassInv
  <2>2. Rank(d) \in Nat /\ Rank(d) <= Cardinality(tagged) /\ Cardinality(tagged) \in Nat
    BY <2>1, RankBounds
  <2>3. Rank(d) <= end
    BY <1>1, <1>2, <1>3, <2>2
  <2>4. CASE Rank(d) <= before
    BY <1>2, <1>3, <2>4 DEF PassInv, before
  <2>5. CASE ~(Rank(d) <= before)
    <3>1. Rank(d) > before
      BY <1>1, <2>2, <2>5
    <3>2. d \in Page(walk.page)
      BY <2>1, <2>3, <3>1 DEF Page, before, end
    <3>3. QED
      BY <1>2, <3>2
  <2>6. QED
    BY <2>4, <2>5
<1>4. \A d \in steady' : Rank(d)' = Rank(d)
  BY <1>2 DEF Rank
<1>5. steady' \subseteq tagged'
  BY <1>2 DEF PassInv
<1>6. walk'.page * PageSize = end
  BY <1>2 DEF end
<1>7. QED
  BY <1>2, <1>3, <1>4, <1>5, <1>6 DEF PassInv

\* Documents are moved on to later pages by what is tagged meanwhile.
LEMMA PassMoves ==
    ASSUME TypeOK, TypeOK', PassInv, UNCHANGED <<walk, seen>>,
           \/ tagged \subseteq tagged' /\ UNCHANGED <<steady, shrunk>>
           \/ \E d \in Docs : Untag(d)
    PROVE  PassInv'
<1>1. CASE tagged \subseteq tagged' /\ UNCHANGED <<steady, shrunk>>
  <2>1. steady \subseteq tagged /\ steady' \subseteq tagged'
    BY <1>1 DEF PassInv
  <2>2. /\ (walk.page - 1) * PageSize \in Int /\ walk.page * PageSize \in Int
    BY PageEnds
  <2>3. \A d \in steady : Rank(d) <= Rank(d)' /\ Rank(d) \in Nat /\ Rank(d)' \in Nat
    BY <1>1, <2>1, RankGrows
  <2>4. \A d \in steady :
          /\ Rank(d)' <= (walk.page - 1) * PageSize => Rank(d) <= (walk.page - 1) * PageSize
          /\ Rank(d)' <= walk.page * PageSize => Rank(d) <= walk.page * PageSize
    BY <2>2, <2>3
  <2>5. QED
    BY <1>1, <2>1, <2>4 DEF PassInv
<1>2. ASSUME NEW d \in Docs, Untag(d)
      PROVE  PassInv'
  <2>1. CASE d \in tagged
    BY <1>2, <2>1 DEF PassInv, Untag
  <2>2. CASE d \notin tagged
    <3>1. tagged' = tagged /\ steady' = steady /\ shrunk' = shrunk
      BY <1>2, <2>2 DEF PassInv, Untag, TypeOK
    <3>2. QED
      BY <1>1, <3>1
  <2>3. QED
    BY <2>1, <2>2
<1>3. QED
  BY <1>1, <1>2

\* Every step keeps what a pass has behind it seen.
LEMMA PassNext == TypeOK /\ TypeOK' /\ PassInv /\ [Next]_vars => PassInv'
<1> SUFFICES ASSUME TypeOK, TypeOK', PassInv, [Next]_vars
             PROVE  PassInv'
  OBVIOUS
<1> USE DEF observers
<1>0. walk \in Walks
  BY DEF TypeOK
<1>1. CASE StartWalk
  <2>1. Idle \in Walks
    BY DEF Idle, Walks
  <2>2. QED
    BY <1>1, <2>1, PassBegins DEF StartWalk
<1>2. CASE ReceivePage
  BY <1>2, PassReceives
<1>3. CASE ListFails
  <2>1. /\ walk'.phase = "wait" /\ walk'.failed
        /\ UNCHANGED <<tagged, steady>>
    BY <1>0, <1>3 DEF ListFails, Walks
  <2>2. QED
    BY <2>1 DEF PassInv
<1>4. CASE NextPage
  <2>1. /\ walk.phase = "page" /\ walk.items = {} /\ walk'.phase = "request"
        /\ walk'.page = walk.page + 1 /\ UNCHANGED <<tagged, seen, steady, shrunk>>
    BY <1>0, <1>4 DEF NextPage, Walks
  <2>2. walk'.page - 1 = walk.page
    BY <1>0, <2>1 DEF Walks
  <2>3. \A d \in steady : Rank(d)' = Rank(d)
    BY <2>1 DEF Rank
  <2>4. QED
    BY <2>1, <2>2, <2>3 DEF PassInv
<1>5. CASE EndPass
  <2>1. CASE LoopAgain
    BY <1>0, <1>5, <2>1, PassBegins DEF EndPass
  <2>2. CASE ~LoopAgain
    <3>1. /\ walk.phase = "page" /\ walk.items = {} /\ ~walk.more
          /\ walk'.phase = "wait" /\ UNCHANGED <<tagged, seen, steady, shrunk>>
      BY <1>0, <1>5, <2>2 DEF EndPass, Walks
    <3>2. QED
      BY <3>1 DEF PassInv
  <2>3. QED
    BY <2>1, <2>2
<1>6. CASE EndWalk
  BY <1>6 DEF EndWalk, Idle, PassInv
<1>7. ASSUME NEW d \in Docs, SkipSeen(d) \/ Process(d)
      PROVE  PassInv'
  <2>1. /\ walk.phase = "page" /\ walk'.phase = "page" /\ walk'.page = walk.page
        /\ walk'.more = walk.more
        /\ walk'.items = walk.items \ {d}
        /\ seen' = seen \cup {d}
        /\ UNCHANGED <<tagged, steady, shrunk>>
    BY <1>0, <1>7 DEF SkipSeen, Process, Listed, AfterSeen, MarkSeen, Walks
  <2>2. \A e \in steady : Rank(e)' = Rank(e)
    BY <2>1 DEF Rank
  <2>3. seen \cup walk.items \subseteq seen' \cup walk'.items
    BY <2>1
  <2>4. QED
    BY <2>1, <2>2, <2>3 DEF PassInv
<1>8. CASE WalkFails \/ UNCHANGED vars
  BY <1>8, PassMoves DEF WalkFails, vars
<1>9. ASSUME NEW d \in Docs, Finish(d) \/ UserTags(d) \/ UserUntags(d)
      PROVE  PassInv'
  BY <1>9, PassMoves DEF Finish, UserTags, UserUntags, Edit
<1>10. QED
  BY <1>1, <1>2, <1>3, <1>4, <1>5, <1>6, <1>7, <1>8, <1>9 DEF Next, WalkStep

\* A walk that ends without an error and without a document losing its tag in
\* the last pass has seen all there were when that pass began, however many are on a
\* page and whatever is tagged meanwhile (walkDocuments).
THEOREM QuietPassSeesAll == Spec => []QuietPassComplete
<1>1. Init => PassInv
  BY DEF Init, PassInv, Idle
<1>2. PassInv => QuietPassComplete
  BY DEF PassInv, QuietPassComplete
<1>3. QED
  BY <1>1, <1>2, TypeInit, TypeNext, PassNext, PTL DEF Spec

-----------------------------------------------------------------------------
(* The contract with the attempts.  A document is busy while it waits for  *)
(* a worker or while one works on it, never both.                          *)

BusyNow == [d \in Docs |-> running[d] + (IF Waiting(d) THEN 1 ELSE 0)]

\* A state of Walk in which the workers are right is one of Dispatch with
\* every document idle, waiting or in work.
LEMMA BusyValues ==
    ASSUME TypeOK, WorkersInv, NEW d \in Docs
    PROVE  /\ BusyNow[d] = running[d] + (IF Waiting(d) THEN 1 ELSE 0)
           /\ Waiting(d) => running[d] = 0
           /\ running[d] \in {0, 1}
           /\ BusyNow[d] \in {0, 1}
<1>1. Waiting(d) => running[d] = 0
  BY DEF Waiting, WorkersInv
<1> QED
  BY <1>1 DEF BusyNow, WorkersInv

\* Nothing is busy at the beginning.
LEMMA ContractInit == Init => Contract!Init
<1> SUFFICES ASSUME Init PROVE Contract!Init
    OBVIOUS
<1>1. \A d \in Docs : ~ Waiting(d)
  BY DEF Init, Idle, Waiting
<1>2. [d \in Docs |-> running[d] + (IF Waiting(d) THEN 1 ELSE 0)] = [d \in Docs |-> 0]
  BY <1>1 DEF Init
<1> QED
  BY <1>2 DEF Init, Contract!Init

\* A step that changes neither the tags nor who is busy is none of Dispatch.
LEMMA ContractStutters ==
    ASSUME tagged' = tagged, used'.edits = used.edits, running' = running,
           \A d \in Docs : Waiting(d)' = Waiting(d)
    PROVE  UNCHANGED Contract!vars
BY DEF Contract!vars

\* Documents that are received and were not seen have their attempts begun.
LEMMA ReceiveBegins ==
    TypeOK /\ WorkersInv /\ ReceivePage => Contract!Next
<1> SUFFICES ASSUME TypeOK, WorkersInv, ReceivePage PROVE Contract!Next
    OBVIOUS
<1> DEFINE new == Page(walk.page) \ seen
<1>1. /\ walk.phase = "request" /\ walk'.phase = "page"
      /\ walk'.items = Page(walk.page)
      /\ UNCHANGED <<tagged, seen, running, used>>
  BY DEF ReceivePage, TypeOK, Walks, observers
<1>2. new \subseteq tagged /\ new \in SUBSET Docs
  BY PageType DEF TypeOK, Walks
<1>3. \A d \in new : running[d] = 0
  BY <1>2 DEF WorkersInv
<1>4. \A d \in Docs : ~ Waiting(d) /\ (Waiting(d)' <=> d \in new)
  BY <1>1 DEF Waiting
<1> HIDE DEF new
<1>5. \A d \in new : BusyNow[d] = 0
  BY <1>2, <1>3, <1>4, BusyValues
<1>6. BusyNow' = [d \in Docs |-> IF d \in new THEN 1 ELSE BusyNow[d]]
  <2>1. \A d \in Docs : BusyNow[d] = running[d]
      BY <1>4, BusyValues DEF WorkersInv
  <2>2. BusyNow' = [d \in Docs |-> running[d] + (IF d \in new THEN 1 ELSE 0)]
      BY <1>1, <1>4 DEF BusyNow
  <2> QED BY <2>1, <2>2, <1>2, <1>3 DEF WorkersInv
<1>7. Contract!Begin(new)
  BY <1>1, <1>2, <1>5, <1>6 DEF Contract!Begin, BusyNow
<1> QED
  BY <1>2, <1>7, Zenon DEF Contract!Next, Contract!Begin

\* The end of the work on a document is the end of its attempt.
LEMMA FinishEnds ==
    ASSUME TypeOK, WorkersInv, NEW d \in Docs, Finish(d)
    PROVE  Contract!Next
<1>1. /\ running[d] = 1
      /\ running' = [running EXCEPT ![d] = 0]
      /\ UNCHANGED <<walk, seen, used>>
      /\ tagged' \in {tagged, tagged \ {d}}
  <2>1. running[d] > 0 /\ running[d] \in {0, 1}
      BY DEF Finish, WorkersInv
  <2>2. running[d] = 1
      BY <2>1
  <2>3. running' = [running EXCEPT ![d] = 0]
      BY <2>2 DEF Finish
  <2>4. UNCHANGED <<walk, seen, used>> /\ tagged' \in {tagged, tagged \ {d}}
      BY DEF Finish, Untag
  <2> QED BY <2>2, <2>3, <2>4
<1>2. \A e \in Docs : Waiting(e)' = Waiting(e)
  BY <1>1 DEF Waiting
<1>3. BusyNow[d] = 1 /\ ~ Waiting(d)
  BY <1>1, BusyValues
<1>4. BusyNow' = [BusyNow EXCEPT ![d] = @ - 1]
  <2>1. BusyNow' = [e \in Docs |-> IF e = d THEN 0 ELSE BusyNow[e]]
      BY <1>1, <1>2, <1>3 DEF BusyNow, TypeOK
  <2>2. BusyNow = [e \in Docs |-> BusyNow[e]]
      BY DEF BusyNow
  <2> QED BY <2>1, <2>2, <1>3
<1>5. Contract!End(d)
  BY <1>1, <1>3, <1>4 DEF Contract!End, BusyNow
<1> QED
  BY <1>5 DEF Contract!Next

\* Users change documents one at a time.
LEMMA UsersChange ==
    ASSUME TypeOK, NEW d \in Docs, UserTags(d) \/ UserUntags(d)
    PROVE  Contract!Next
<1>1. /\ used'.edits = used.edits + 1
      /\ UNCHANGED <<walk, seen, running>>
      /\ tagged' \in {tagged, tagged \ {d}, tagged \cup {d}}
  BY DEF UserTags, UserUntags, Edit, Untag, TypeOK
<1>2. \A e \in Docs : Waiting(e)' = Waiting(e)
  BY <1>1 DEF Waiting
<1>3. BusyNow' = BusyNow
  BY <1>1, <1>2 DEF BusyNow
<1>4. Contract!UserChanges(d)
  BY <1>1, <1>3 DEF Contract!UserChanges, BusyNow
<1> QED
  BY <1>4 DEF Contract!Next

\* Every step of the walk, its workers and the users is one of Dispatch.
LEMMA ContractNext ==
    TypeOK /\ WorkersInv /\ [Next]_vars => [Contract!Next]_(Contract!vars)
<1> SUFFICES ASSUME TypeOK, WorkersInv, [Next]_vars
             PROVE  Contract!Next \/ UNCHANGED Contract!vars
    OBVIOUS
<1> USE DEF observers
<1>1. CASE StartWalk
  BY <1>1, ContractStutters DEF StartWalk, StartPass, Idle, Waiting
<1>2. CASE WalkFails
  BY <1>2, ContractStutters DEF WalkFails, Fault, Waiting, TypeOK
<1>3. CASE ReceivePage
  BY <1>3, ReceiveBegins
<1>4. CASE ListFails
  <2>1. used'.edits = used.edits
      BY <1>4 DEF ListFails, Fault, TypeOK
  <2>2. walk.phase = "request" /\ walk'.phase = "wait"
      BY <1>4 DEF ListFails, TypeOK, Walks
  <2> QED BY <1>4, <2>1, <2>2, ContractStutters DEF ListFails, Waiting
<1>5. CASE NextPage
  <2>1. walk.items = {} /\ walk'.phase = "request"
      BY <1>5 DEF NextPage, TypeOK, Walks
  <2> QED BY <1>5, <2>1, ContractStutters DEF NextPage, Waiting
<1>6. CASE EndPass
  <2>1. walk.items = {} /\ walk'.phase \in {"request", "wait"}
      BY <1>6 DEF EndPass, StartPass, TypeOK, Walks
  <2> QED BY <1>6, <2>1, ContractStutters DEF EndPass, Waiting
<1>7. CASE EndWalk
  BY <1>7, ContractStutters DEF EndWalk, Idle, Waiting
<1>8. ASSUME NEW d \in Docs, SkipSeen(d) PROVE UNCHANGED Contract!vars
  <2>1. /\ walk'.phase = walk.phase /\ walk'.items = walk.items \ {d}
        /\ d \in seen
      BY <1>8 DEF SkipSeen, AfterSeen, TypeOK, Walks
  <2> QED BY <1>8, <2>1, ContractStutters DEF SkipSeen, Waiting
<1>9. ASSUME NEW d \in Docs, Process(d) PROVE UNCHANGED Contract!vars
  <2>1. /\ walk.phase = "page" /\ d \in walk.items /\ d \notin seen
        /\ walk'.phase = "page" /\ walk'.items = walk.items \ {d}
        /\ seen' = seen \cup {d}
        /\ running' = [running EXCEPT ![d] = @ + 1]
        /\ UNCHANGED <<tagged, used>>
      BY <1>9 DEF Process, Listed, MarkSeen, TypeOK, Walks
  <2>2. \A e \in Docs : Waiting(e)' <=> Waiting(e) /\ e # d
      BY <2>1 DEF Waiting
  <2>3. Waiting(d)
      BY <2>1 DEF Waiting
  <2>4. running \in [Docs -> Nat]
      BY DEF TypeOK
  <2>5. BusyNow' = BusyNow
      BY <2>1, <2>2, <2>3, <2>4 DEF BusyNow
  <2> QED BY <2>1, <2>5 DEF Contract!vars, BusyNow
<1>10. ASSUME NEW d \in Docs, Finish(d) PROVE Contract!Next
  BY <1>10, FinishEnds
<1>11. ASSUME NEW d \in Docs, UserTags(d) \/ UserUntags(d) PROVE Contract!Next
  BY <1>11, UsersChange
<1>12. CASE UNCHANGED vars
  BY <1>12, ContractStutters DEF vars, Waiting
<1> QED
  BY <1>1, <1>2, <1>3, <1>4, <1>5, <1>6, <1>7, <1>8, <1>9, <1>10, <1>11, <1>12
  DEF Next, WalkStep

\* The walk keeps its side of the contract with the attempts: whatever pages show,
\* whoever changes tags and wherever a walk is cut short, an attempt only begins
\* for a document with the todo tag that no other attempt is under way for,
\* waiting for a worker included.
THEOREM ContractKept == Spec => DispatchKept
<1> QED
  BY ContractInit, ContractNext, TypeInit, TypeNext, WorkersInit, WorkersNext, PTL
  DEF Spec, DispatchKept, Contract!Spec
=============================================================================
