------------------------------ MODULE Resolver ------------------------------
(***************************************************************************)
(* Finding and creating named objects on the Paperless server              *)
(* (internal/objectresolver): one Resolver, that is, one kind of object.   *)
(*                                                                         *)
(* The walk's workers resolve names concurrently.  Calls for the same name *)
(* share a flight (golang.org/x/sync/singleflight): the first call leads   *)
(* it, calls that come before it is over only wait for its result.  A name *)
(* is looked up ignoring case, but flights are told apart by its exact     *)
(* spelling.                                                               *)
(***************************************************************************)
EXTENDS Naturals, FiniteSets

CONSTANTS
    Callers,     \* goroutines resolving names
    Names,       \* spellings of names
    Fold,        \* what a spelling is, ignoring case
    CanCreate,   \* FALSE: ErrCreateUnsupported (users, groups, storage paths)
    Unique,      \* TRUE: names are unique, as they are in memory (memProvider)
    MaxObjects,  \* bound: objects ever made on the server
    MaxEdits,    \* bound: objects added and deleted by users
    MaxFaults    \* bound: failing requests

ASSUME FoldAssumption == DOMAIN Fold = Names
ASSUME NamesAssumption == Names # {}
ASSUME ResolverNumbers ==
    CanCreate \in BOOLEAN /\ Unique \in BOOLEAN /\ MaxObjects \in Nat /\ MaxEdits \in Nat /\ MaxFaults \in Nat

VARIABLES
    objects,   \* names of the objects on the server, by ID
    calls,     \* what every caller is doing
    flights,   \* the flights, by the caller that leads them
    used,      \* how much of the bounds is used up, and IDs given out
    made,      \* observer: IDs of the objects the resolver made and named
    answers    \* observer: IDs ever returned for a name, ignoring case

vars == <<objects, calls, flights, used, made, answers>>

IDs == 1..MaxObjects

Results == [kind : {"found"}, id : IDs] \cup
           [kind : {"none", "notFound", "ambiguous", "error"}]

Ops == {"GetByName", "GetOrCreateByName"}

\* A caller waits for the flight of the caller "leader", or has its result.
Calls == [state : {"idle", "waiting", "returned"}, op : Ops, leader : Callers,
          result : Results]

\* A flight carries the answer to its last request until it acts on it.
Flights == [phase : {"none", "list", "listed", "create", "relist", "relisted"},
            op : Ops, name : Names, matches : SUBSET IDs]

Failed(kind) == [kind |-> kind]
Found(id)    == [kind |-> "found", id |-> id]

NoCall(c) == [state |-> "idle", op |-> "GetByName", leader |-> c, result |-> Failed("none")]
NoFlight  == [phase |-> "none", op |-> "GetByName", name |-> CHOOSE n \in Names : TRUE,
              matches |-> {}]

Init ==
    /\ objects = [id \in {} |-> CHOOSE n \in Names : TRUE]
    /\ calls = [c \in Callers |-> NoCall(c)]
    /\ flights = [c \in Callers |-> NoFlight]
    /\ used = [ids |-> 0, edits |-> 0, deleted |-> 0, faults |-> 0]
    /\ made = {}
    /\ answers = [n \in {Fold[name] : name \in Names} |-> {}]

-----------------------------------------------------------------------------
(* The server (external).                                                  *)

\* Name.EqualsIgnoringCase
Matching(name) == {id \in DOMAIN objects : Fold[objects[id]] = Fold[name]}

Taken(name) == \E id \in DOMAIN objects : objects[id] = name

AddObject(name) ==
    /\ used.ids < MaxObjects
    /\ Unique => ~Taken(name)
    /\ objects' = [id \in DOMAIN objects \cup {used.ids + 1} |->
                      IF id \in DOMAIN objects THEN objects[id] ELSE name]

\* A user adds an object, deletes one, or gives it another name.
UserAdds(name) ==
    /\ used.edits < MaxEdits
    /\ AddObject(name)
    /\ used' = [used EXCEPT !.edits = @ + 1, !.ids = @ + 1]
    /\ UNCHANGED <<calls, flights, made, answers>>

UserDeletes(id) ==
    /\ used.edits < MaxEdits
    /\ objects' = [i \in DOMAIN objects \ {id} |-> objects[i]]
    /\ used' = [used EXCEPT !.edits = @ + 1, !.deleted = @ + 1]
    /\ UNCHANGED <<calls, flights, made, answers>>

\* Like a deletion, it leaves the name to others, unless only the case changes.
UserRenames(id, name) ==
    /\ used.edits < MaxEdits
    /\ Unique => ~Taken(name)
    /\ objects' = [objects EXCEPT ![id] = name]
    /\ used' = [used EXCEPT !.edits = @ + 1,
                            !.deleted = IF Fold[objects[id]] = Fold[name] THEN @ ELSE @ + 1]
    /\ made' = made \ {id}
    /\ UNCHANGED <<calls, flights, answers>>

-----------------------------------------------------------------------------
(* once: singleflight.Group.Do.                                            *)

\* A plausible bug: no call is ever shared.
FlightsNever(op, name) == {}

\* The flight a call joins, if there is one.
FlightsFor(op, name) ==
    {l \in Callers : flights[l].phase # "none" /\ flights[l].name = name}

\* GetByName and GetOrCreateByName.
Call(c, op, name) ==
    /\ calls[c].state = "idle"
    /\ \/ /\ FlightsFor(op, name) = {}
          /\ calls' = [calls EXCEPT ![c] = [NoCall(c) EXCEPT !.state = "waiting", !.op = op]]
          /\ flights' = [flights EXCEPT ![c] = [phase |-> "list", op |-> op,
                                                name |-> name, matches |-> {}]]
       \/ \E l \in FlightsFor(op, name) :
             /\ calls' = [calls EXCEPT ![c] =
                    [NoCall(c) EXCEPT !.state = "waiting", !.op = op, !.leader = l]]
             /\ UNCHANGED flights
    /\ UNCHANGED <<objects, used, made, answers>>

\* A plausible bug: only the call that led the flight gets the result.
WaitersLeaderOnly(l) == {l}

Waiters(l) == {c \in Callers : calls[c].state = "waiting" /\ calls[c].leader = l}

\* The flight of l is over; everyone waiting for it has its result.
Land(l, result) ==
    /\ flights' = [flights EXCEPT ![l] = NoFlight]
    /\ calls' = [c \in Callers |->
                   IF c \in Waiters(l)
                   THEN [calls[c] EXCEPT !.state = "returned", !.result = result]
                   ELSE calls[c]]
    /\ answers' = IF result.kind = "found"
                  THEN [answers EXCEPT ![Fold[flights[l].name]] = @ \cup {result.id}]
                  ELSE answers

Return(c) ==
    /\ calls[c].state = "returned"
    /\ calls' = [calls EXCEPT ![c] = NoCall(c)]
    /\ UNCHANGED <<objects, flights, used, made, answers>>

-----------------------------------------------------------------------------
(* The function that runs in a flight.                                     *)

Fault ==
    /\ used.faults < MaxFaults
    /\ used' = [used EXCEPT !.faults = @ + 1]

\* listByName: the server answers.
List(l) ==
    /\ flights[l].phase \in {"list", "relist"}
    /\ flights' = [flights EXCEPT
            ![l].phase = IF @ = "list" THEN "listed" ELSE "relisted",
            ![l].matches = Matching(flights[l].name)]
    /\ UNCHANGED <<objects, calls, used, made, answers>>

\* Plausible bugs: the zero object for no match, and the first of several.
getFirstOfNone(matches) ==
    IF Cardinality(matches) > 1 THEN {Failed("ambiguous")}
    ELSE {Found(id) : id \in IF matches = {} THEN {0} ELSE matches}
getFirstOfMany(matches) ==
    IF matches = {} THEN {Failed("notFound")} ELSE {Found(id) : id \in matches}

getFirst(matches) ==
    CASE matches = {}              -> {Failed("notFound")}
      [] Cardinality(matches) > 1  -> {Failed("ambiguous")}
      [] Cardinality(matches) = 1  -> {Found(id) : id \in matches}

\* getByName returns: nothing was found by GetOrCreateByName's first lookup.
Missing(l) ==
    /\ flights[l].phase = "listed"
    /\ flights[l].op = "GetOrCreateByName"
    /\ Failed("notFound") \in getFirst(flights[l].matches)
    /\ flights' = [flights EXCEPT ![l].phase = "create"]
    /\ UNCHANGED <<objects, calls, used, made, answers>>

\* getByName returns, and so does the flight.
Decide(l) ==
    /\ flights[l].phase \in {"listed", "relisted"}
    /\ \E result \in getFirst(flights[l].matches) :
          /\ ~ /\ flights[l].phase = "listed"
               /\ flights[l].op = "GetOrCreateByName"
               /\ result.kind = "notFound"
          /\ Land(l, result)
    /\ UNCHANGED <<objects, used, made>>

\* create succeeds.
Create(l) ==
    /\ flights[l].phase = "create"
    /\ CanCreate
    /\ AddObject(flights[l].name)
    /\ made' = made \cup {used.ids + 1}
    /\ used' = [used EXCEPT !.ids = @ + 1]
    /\ flights' = [flights EXCEPT ![l].phase = "relist"]
    /\ UNCHANGED <<calls, answers>>

\* create succeeds, but its answer is lost.
CreateAnswerLost(l) ==
    /\ flights[l].phase = "create"
    /\ CanCreate
    /\ AddObject(flights[l].name)
    /\ made' = made \cup {used.ids + 1}
    /\ used.faults < MaxFaults
    /\ used' = [used EXCEPT !.ids = @ + 1, !.faults = @ + 1]
    /\ Land(l, Failed("error"))

\* create is not supported, or rejected for a name that is taken by now (an
\* owner's names are unique; the bound on objects is taken for the same).
CreateRejected(l) ==
    /\ flights[l].phase = "create"
    /\ \/ ~CanCreate
       \/ Taken(flights[l].name)
       \/ used.ids = MaxObjects
    /\ Land(l, Failed("error"))
    /\ UNCHANGED <<objects, used, made>>

\* A request fails.
RequestFails(l) ==
    /\ flights[l].phase \in {"list", "create", "relist"}
    /\ Fault
    /\ Land(l, Failed("error"))
    /\ UNCHANGED <<objects, made>>

Flight(l) ==
    \/ List(l) \/ Missing(l) \/ Decide(l)
    \/ Create(l) \/ CreateAnswerLost(l) \/ CreateRejected(l) \/ RequestFails(l)

-----------------------------------------------------------------------------
Next ==
    \/ \E c \in Callers : \/ \E op \in Ops, name \in Names : Call(c, op, name)
                          \/ Return(c)
                          \/ Flight(c)
    \/ \E name \in Names : UserAdds(name)
    \/ \E id \in DOMAIN objects :
          UserDeletes(id) \/ \E name \in Names \ {objects[id]} : UserRenames(id, name)

Spec == Init /\ [][Next]_vars

\* Every request is answered or fails.  Nobody has to call.
FairSpec == Spec /\ \A c \in Callers : WF_vars(Flight(c)) /\ WF_vars(Return(c))

-----------------------------------------------------------------------------
(* Properties.                                                             *)

\* Every variable has its type.
TypeOK ==
    /\ DOMAIN objects \subseteq IDs
    /\ \A id \in DOMAIN objects : objects[id] \in Names
    /\ calls \in [Callers -> Calls]
    /\ flights \in [Callers -> Flights]
    /\ used \in [ids : 0..MaxObjects, edits : Nat, deleted : Nat, faults : Nat]
    /\ made \subseteq IDs
    /\ answers \in [{Fold[name] : name \in Names} -> SUBSET IDs]

\* However many workers ask for a name at once, with either operation, and
\* whether or not the answer to a creation is lost, the daemon makes one object
\* of that name: between the lookup that finds nothing and the creation no
\* other flight of the name creates it (once, GetOrCreateByName).
NoDuplicates ==
    \A i, j \in made \cap DOMAIN objects : objects[i] = objects[j] => i = j

\* Unless somebody deletes objects, all lookups of a name ever answered, the
\* poller's of the todo tag and those of all attempts, name the same object:
\* a name that fits several is an error, never an arbitrary choice (getFirst).
\* Each deletion lets one more object stand for the name.
StableIdentity ==
    \A n \in DOMAIN answers : Cardinality(answers[n]) <= 1 + used.deleted

\* Everyone who waits for a flight gets its result, also those who joined it
\* under another operation (once).
CallsReturn ==
    \A c \in Callers : calls[c].state = "waiting" ~> calls[c].state = "returned"

\* "GetOrCreateByName should have created an object": where objects can be
\* created and no request fails, it does not report that there is none.
CreateMeansFound ==
    \A c \in Callers :
        calls[c].state = "returned" /\ calls[c].op = "GetOrCreateByName" =>
            calls[c].result.kind # "notFound"
=============================================================================
