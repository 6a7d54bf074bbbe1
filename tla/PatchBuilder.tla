---------------------------- MODULE PatchBuilder ----------------------------
(***************************************************************************)
(* How paperminer turns the facts of a document into the PATCH request it  *)
(* sends to Paperless (internal/cataloger/patchbuilder.go).  The module    *)
(* has no state: the operators are what a patchBuilder does to the         *)
(* document it was created from.                                           *)
(*                                                                         *)
(* A document is a record with at least                                    *)
(*   fields : FieldValues   tags : SUBSET TagIDs                           *)
(* and the facts about it are a record of Facts,                           *)
(* where Keep is an absent fact and Nil the empty name that clears a       *)
(* reference.  A name stands for the ID it resolves to: resolving it may   *)
(* fail, which the user of this module models.                             *)
(***************************************************************************)
EXTENDS Naturals

CONSTANTS
    ScalarFields,   \* created and title: compared by value
    ObjectFields,   \* correspondent, document type, storage path: *int64
    Values,         \* titles, times and object IDs
    Nil,            \* a null reference
    Keep,           \* "not in the patch", "no such fact"
    TagIDs          \* the IDs of all tags

ASSUME KeepIsNoValue == Keep \notin Values \cup {Nil}
ASSUME NilIsNoValue == Nil \notin Values /\ Values # {}
ASSUME FieldKindsDisjoint == ScalarFields \cap ObjectFields = {}

Fields == ScalarFields \cup ObjectFields

\* Only a reference can be null.
FieldValues == { v \in [Fields -> Values \cup {Nil}] :
                   \A f \in ScalarFields : v[f] # Nil }
FieldFacts  == { v \in [Fields -> Values \cup {Nil, Keep}] :
                   \A f \in ScalarFields : v[f] # Nil }

Facts == [fields : FieldFacts, setTags : SUBSET TagIDs, unsetTags : SUBSET TagIDs]

Patch == [fields : FieldFacts, tagsChanged : BOOLEAN, tags : SUBSET TagIDs]

-----------------------------------------------------------------------------
(* The builder.                                                            *)

\* A new builder wants nothing but the tags the document has.
newPatchBuilder(doc) ==
    [doc |-> doc, want |-> [f \in Fields |-> Keep], tags |-> doc.tags]

setTag(b, tag)   == [b EXCEPT !.tags = @ \cup {tag}]
unsetTag(b, tag) == [b EXCEPT !.tags = @ \ {tag}]

\* The tags to set come first, then the ones to unset.
setFacts(b, facts) ==
    [b EXCEPT !.want = facts.fields,
              !.tags = (@ \cup facts.setTags) \ facts.unsetTags]

\* A plausible bug: a fact that clears a reference is taken for an absent one.
patchOptionalValueIgnoringNil(f, value, current) ==
    IF value \in {Keep, Nil, current} THEN Keep ELSE value

\* The optional value is left out when it equals the current one.  References
\* are pointers and the comparison is of pointers: the builder's and the
\* document's are equal only when both are nil.
patchOptionalValue(f, value, current) ==
    IF \/ value = Keep
       \/ f \in ScalarFields /\ value = current
       \/ f \in ObjectFields /\ value = Nil /\ current = Nil
    THEN Keep
    ELSE value

\* Only what differs from the document goes into the patch.
build(b) ==
    [fields      |-> [f \in Fields |->
                        patchOptionalValue(f, b.want[f], b.doc.fields[f])],
     tagsChanged |-> b.tags # b.doc.tags,
     tags        |-> b.tags]

IsEmptyPatch(patch) ==
    ~patch.tagsChanged /\ \A f \in Fields : patch.fields[f] = Keep

\* A plausible bug: the facts have the last word on the daemon's own tags.
FactsPatchFactsLast(doc, facts, todo, failed) ==
    build(setFacts(unsetTag(unsetTag(newPatchBuilder(doc), todo), failed), facts))

\* applyFacts: the facts first, then neither of the daemon's own tags.
FactsPatch(doc, facts, todo, failed) ==
    build(unsetTag(unsetTag(setFacts(newPatchBuilder(doc), facts), todo), failed))

\* markFailed: the failed tag instead of the todo tag.
FailPatch(doc, todo, failed) ==
    build(setTag(unsetTag(newPatchBuilder(doc), todo), failed))

-----------------------------------------------------------------------------
(* The Paperless server, as far as the patch is concerned (external).      *)

\* PATCH replaces the fields that are present and keeps the others.
PatchedFields(doc, patch) ==
    [f \in Fields |->
        IF patch.fields[f] = Keep THEN doc.fields[f] ELSE patch.fields[f]]

PatchedTags(doc, patch) ==
    IF patch.tagsChanged THEN patch.tags ELSE doc.tags

-----------------------------------------------------------------------------
(* Properties of the patches made for one document and what is known of it.*)

\* The tags a cataloged document is to have.
WantedTags(doc, facts, todo, failed) ==
    ((doc.tags \cup facts.setTags) \ facts.unsetTags) \ {todo, failed}

WantedFields(doc, facts) ==
    [f \in Fields |-> IF facts.fields[f] = Keep
                      THEN doc.fields[f] ELSE facts.fields[f]]

\* Serving the patch of an attempt leaves the document with every field the
\* facts name set to what they say, every other field and tag as it was, the
\* facts' tags set and unset, and neither of the daemon's own tags, although
\* build leaves out whatever it finds unchanged (setFacts, build).
ReachesFacts(doc, facts, todo, failed) ==
    LET patch == FactsPatch(doc, facts, todo, failed)
    IN  /\ PatchedFields(doc, patch) = WantedFields(doc, facts)
        /\ PatchedTags(doc, patch) = WantedTags(doc, facts, todo, failed)

\* "Build returns changed fields": nothing is sent that the document already
\* has (build).
OnlyChanges(doc, facts, todo, failed) ==
    LET patch == FactsPatch(doc, facts, todo, failed)
    IN  \A f \in Fields : patch.fields[f] # Keep => patch.fields[f] # doc.fields[f]
=============================================================================
