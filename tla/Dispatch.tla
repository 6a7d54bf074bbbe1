------------------------------ MODULE Dispatch ------------------------------
(***************************************************************************)
(* The contract between the walk, which decides when a document is         *)
(* attempted, and the attempts.  It is what Walk and DocumentTask take for *)
(* granted of each other, and both implement it.                           *)
(*                                                                         *)
(* An attempt begins when its document is listed (the document as listed   *)
(* is all it knows of it), waits for a worker, and ends.  An attempt only  *)
(* begins for a document that has the todo tag and no attempt under way.   *)
(* Attempts take the todo tag away and never give it; users do both.       *)
(***************************************************************************)
EXTENDS Naturals

CONSTANT Docs    \* documents, by ID

VARIABLES
    tagged,   \* the documents with the todo tag
    busy,     \* how many attempts are under way for every document
    edits     \* how often users changed a document

vars == <<tagged, busy, edits>>

Init ==
    /\ tagged \in SUBSET Docs
    /\ busy = [d \in Docs |-> 0]
    /\ edits = 0

\* The documents D are listed together.
Begin(D) ==
    /\ D \subseteq tagged
    /\ \A d \in D : busy[d] = 0
    /\ busy' = [d \in Docs |-> IF d \in D THEN 1 ELSE busy[d]]
    /\ UNCHANGED <<tagged, edits>>

\* The todo tag goes while the attempt is still under way.
Clear(d) ==
    /\ busy[d] > 0
    /\ tagged' = tagged \ {d}
    /\ UNCHANGED <<busy, edits>>

\* The attempt ends, which is when the todo tag goes, if it does.
End(d) ==
    /\ busy[d] > 0
    /\ busy' = [busy EXCEPT ![d] = @ - 1]
    /\ tagged' \in {tagged, tagged \ {d}}
    /\ UNCHANGED edits

\* A user adds or removes the tag, deletes the document or changes something
\* else about it.
UserChanges(d) ==
    /\ edits' = edits + 1
    /\ tagged' \in {tagged, tagged \ {d}, tagged \cup {d}}
    /\ UNCHANGED busy

\* The daemon is restarted.
Restart ==
    /\ busy' = [d \in Docs |-> 0]
    /\ UNCHANGED <<tagged, edits>>

Next ==
    \/ \E D \in SUBSET Docs : Begin(D)
    \/ \E d \in Docs : Clear(d) \/ End(d) \/ UserChanges(d)
    \/ Restart

Spec == Init /\ [][Next]_vars
=============================================================================
