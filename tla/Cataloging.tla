----------------------------- MODULE Cataloging -----------------------------
(***************************************************************************)
(* What paperminer promises to do to the documents of a Paperless server:  *)
(* each document with the todo tag is cataloged or marked failed, in one   *)
(* step, as if the daemon had read and written it at the same moment.      *)
(*                                                                         *)
(* There is one exception.  Paperless has no conditional requests, and a   *)
(* user may change a document after the daemon's last look at it.  What    *)
(* the daemon then believes the document to be, "base", is out of date,    *)
(* and the tags it writes are made from that.                              *)
(***************************************************************************)
EXTENDS PatchBuilder

CONSTANTS
    Docs,           \* documents, by ID
    TodoTag,        \* documents to be processed have this tag
    FailedTag,      \* documents that could not be processed get this one
    FactsChoices    \* what can be found out about a document

VARIABLES
    docs,     \* fields and tags of the documents
    alive,    \* which of them are not deleted
    base      \* what the daemon believes them to be

vars == <<docs, alive, base>>

AnyDocument == [fields : FieldValues, tags : SUBSET TagIDs]

Init ==
    /\ docs \in [Docs -> AnyDocument]
    /\ alive = [d \in Docs |-> TRUE]
    /\ base = docs

\* A document to be processed is written, and the daemon knows what it wrote.
Write(d, fields, tags) ==
    /\ alive[d]
    /\ TodoTag \in base[d].tags
    /\ docs' = [docs EXCEPT ![d] = [fields |-> fields, tags |-> tags]]
    /\ base' = [base EXCEPT ![d] = docs'[d]]
    /\ UNCHANGED alive

\* The fields the facts name are set; those believed to be right already may
\* be left out.
Catalog(d, facts) ==
    \E left \in SUBSET {f \in Fields : facts.fields[f] = base[d].fields[f]} :
        Write(d,
              [f \in Fields |-> IF facts.fields[f] = Keep \/ f \in left
                                THEN docs[d].fields[f] ELSE facts.fields[f]],
              WantedTags(base[d], facts, TodoTag, FailedTag))

\* Nothing but the tags tells of a failure.
MarkFailed(d) ==
    Write(d, docs[d].fields, (base[d].tags \ {TodoTag}) \cup {FailedTag})

\* The daemon looks at documents again.
Look(D) ==
    /\ base' = [d \in Docs |-> IF d \in D THEN docs[d] ELSE base[d]]
    /\ UNCHANGED <<docs, alive>>

\* A user changes a document, and the daemon notices or does not.
UserChanges(d, doc) ==
    /\ alive[d]
    /\ docs' = [docs EXCEPT ![d] = doc]
    /\ base' = [base EXCEPT ![d] = doc] \/ UNCHANGED base
    /\ UNCHANGED alive

UserDeletes(d) ==
    /\ alive' = [alive EXCEPT ![d] = FALSE]
    /\ UNCHANGED <<docs, base>>

Next ==
    \/ \E D \in SUBSET Docs : Look(D)
    \/ \E d \in Docs :
          \/ \E facts \in FactsChoices : Catalog(d, facts)
          \/ MarkFailed(d)
          \/ UserDeletes(d)
          \/ \E doc \in AnyDocument : UserChanges(d, doc)

Spec == Init /\ [][Next]_vars
=============================================================================
