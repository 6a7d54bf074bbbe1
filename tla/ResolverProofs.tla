--------------------------- MODULE ResolverProofs ---------------------------
(***************************************************************************)
(* Proofs about Resolver, for all callers, names, ways to ignore their     *)
(* case, and bounds, whether or not names are unique.                      *)
(***************************************************************************)
EXTENDS Resolver, FiniteSetTheorems, TLAPS

-----------------------------------------------------------------------------
(* The inductive invariants.                                               *)

\* No two flights of one spelling are under way.
OneFlightPerName ==
    \A k, l \in Callers :
        /\ flights[k].phase # "none"
        /\ flights[l].phase # "none"
        /\ flights[k].name = flights[l].name
        => k = l

\* IDs are given out in order.
IDsInOrder ==
    \A id \in DOMAIN objects \cup made : id <= used.ids

\* From its lookup that finds nothing up to its creation, a flight knows that
\* the resolver has made no object of its name that is still there.
NothingMadeYet ==
    \A l \in Callers :
        \/ flights[l].phase = "create"
        \/ flights[l].phase = "listed" /\ flights[l].matches = {}
        => \A id \in made \cap DOMAIN objects : objects[id] # flights[l].name

DuplicatesInv ==
    TypeOK /\ OneFlightPerName /\ IDsInOrder /\ NothingMadeYet /\ NoDuplicates

\* Who leads a flight that is under way waits for it.
LeadersWait ==
    \A l \in Callers :
        flights[l].phase # "none" => calls[l].state = "waiting" /\ calls[l].leader = l

\* A flight has seen that only one object fits the name.
GoesTo(l, id, n) ==
    /\ flights[l].phase \in {"listed", "relisted"}
    /\ flights[l].matches = {id}
    /\ Fold[flights[l].name] = n

\* The IDs a name has been answered with, and those it is going to be.
Answered(n) == answers[n] \cup {id \in IDs : \E l \in Callers : GoesTo(l, id, n)}

\* One of them still stands for the name.
Standing(n) == \E id \in Answered(n) \cap DOMAIN objects : Fold[objects[id]] = n

\* A deletion has paid for every one of them but one that stands for the name.
Paid ==
    \A n \in DOMAIN answers :
        Cardinality(Answered(n)) <= used.deleted + IF Standing(n) THEN 1 ELSE 0

IdentityInv == TypeOK /\ LeadersWait /\ Paid

-----------------------------------------------------------------------------
(* Types.                                                                  *)

\* There are finitely many IDs, so matches can be counted.
LEMMA MatchesAreFinite ==
    ASSUME NEW matches \in SUBSET IDs
    PROVE  /\ IsFiniteSet(matches)
           /\ Cardinality(matches) \in Nat
           /\ Cardinality(matches) = 0 <=> matches = {}
<1>1. IsFiniteSet(IDs)
  BY FS_Interval, ResolverNumbers DEF IDs
<1>2. IsFiniteSet(matches)
  BY <1>1, FS_Subset
<1>3. QED
  BY <1>2, FS_CardinalityType, FS_EmptySet

\* The answer to a lookup names the only match, or says why there is none.
LEMMA getFirstAnswers ==
    ASSUME NEW matches \in SUBSET IDs, NEW result \in getFirst(matches)
    PROVE  /\ result \in Results
           /\ result.kind = "found" => result.id \in IDs /\ matches = {result.id}
           /\ result.kind = "notFound" => matches = {}
<1>1. CASE matches = {}
  BY <1>1 DEF getFirst, Failed, Results
<1>2. CASE matches # {} /\ Cardinality(matches) > 1
  <2>1. getFirst(matches) = {Failed("ambiguous")}
    <3>1. Cardinality(matches) # 1
      BY <1>2, MatchesAreFinite
    <3>2. QED
      BY <1>2, <3>1 DEF getFirst
  <2>2. QED
    BY <2>1 DEF Failed, Results
<1>3. CASE matches # {} /\ ~(Cardinality(matches) > 1)
  <2>1. Cardinality(matches) = 1
    BY <1>3, MatchesAreFinite
  <2>2. PICK only : matches = {only}
    BY <2>1, MatchesAreFinite, FS_Singleton
  <2>3. getFirst(matches) = {Found(only)}
    BY <1>3, <2>1, <2>2 DEF getFirst
  <2>4. result = [kind |-> "found", id |-> only] /\ only \in IDs
    BY <2>2, <2>3 DEF Found
  <2>5. QED
    BY <2>2, <2>4 DEF Results
<1>4. QED
  BY <1>1, <1>2, <1>3

\* Records the actions put into the variables have their types.
LEMMA FailedType == \A kind \in {"none", "notFound", "ambiguous", "error"} :
                        Failed(kind) \in Results
  BY DEF Failed, Results

\* A caller that does not wait has a call of the right type.
LEMMA NoCallType == \A c \in Callers : NoCall(c) \in Calls
  BY FailedType DEF NoCall, Calls, Ops

\* A caller that leads no flight has a flight of the right type.
LEMMA NoFlightType == NoFlight \in Flights
  BY NamesAssumption DEF NoFlight, Flights, Ops

\* So do calls that change twice at once, and the counts.
LEMMA CallsChange ==
    ASSUME NEW call \in Calls, NEW op \in Ops, NEW leader \in Callers, NEW result \in Results,
           NEW state \in {"idle", "waiting", "returned"}
    PROVE  /\ [call EXCEPT !.state = state, !.result = result] \in Calls
           /\ [call EXCEPT !.state = state, !.op = op] \in Calls
           /\ [call EXCEPT !.state = state, !.op = op, !.leader = leader] \in Calls
<1>1. [call EXCEPT !.state = state] \in Calls
  BY DEF Calls
<1>2. [call EXCEPT !.state = state, !.op = op] \in Calls
  BY <1>1 DEF Calls
<1>3. [call EXCEPT !.state = state, !.result = result] \in Calls
  BY <1>1 DEF Calls
<1>4. [call EXCEPT !.state = state, !.op = op, !.leader = leader] \in Calls
  BY <1>2 DEF Calls
<1>5. QED
  BY <1>2, <1>3, <1>4

Counts == [ids : 0..MaxObjects, edits : Nat, deleted : Nat, faults : Nat]

\* Counting keeps the type of the counters.
LEMMA CountsChange ==
    ASSUME NEW counts \in Counts, NEW i \in 0..MaxObjects, NEW n \in Nat, NEW m \in Nat
    PROVE  /\ [counts EXCEPT !.ids = i, !.faults = n] \in Counts
           /\ [counts EXCEPT !.edits = n, !.ids = i] \in Counts
           /\ [counts EXCEPT !.edits = n, !.deleted = m] \in Counts
<1>1. [counts EXCEPT !.ids = i] \in Counts /\ [counts EXCEPT !.edits = n] \in Counts
  BY DEF Counts
<1>2. [counts EXCEPT !.ids = i, !.faults = n] \in Counts
  BY <1>1 DEF Counts
<1>3. [counts EXCEPT !.edits = n, !.ids = i] \in Counts
  BY <1>1 DEF Counts
<1>4. [counts EXCEPT !.edits = n, !.deleted = m] \in Counts
  BY <1>1 DEF Counts
<1>5. QED
  BY <1>2, <1>3, <1>4

\* Ending a flight keeps the types.
LEMMA LandType ==
    ASSUME TypeOK, NEW l \in Callers, NEW result \in Results, Land(l, result)
    PROVE  /\ calls' \in [Callers -> Calls]
           /\ flights' \in [Callers -> Flights]
           /\ answers' \in [{Fold[name] : name \in Names} -> SUBSET IDs]
<1>1. calls' \in [Callers -> Calls]
  <2>1. \A c \in Callers :
           [calls[c] EXCEPT !.state = "returned", !.result = result] \in Calls
    BY CallsChange DEF TypeOK, Ops
  <2>2. QED
    BY <2>1 DEF Land, TypeOK
<1>2. flights' \in [Callers -> Flights]
  BY NoFlightType DEF Land, TypeOK
<1>3. result.kind = "found" => result.id \in IDs
  BY DEF Results
<1>4. answers' \in [{Fold[name] : name \in Names} -> SUBSET IDs]
  BY <1>3 DEF Land, TypeOK
<1>5. QED
  BY <1>1, <1>2, <1>4

\* A new object gets the next ID and the name it was asked for.
LEMMA AddObjectType ==
    ASSUME TypeOK, NEW name \in Names, AddObject(name)
    PROVE  /\ used.ids + 1 \in IDs /\ used.ids + 1 \in 0..MaxObjects
           /\ DOMAIN objects' = DOMAIN objects \cup {used.ids + 1}
           /\ \A id \in DOMAIN objects : objects'[id] = objects[id]
           /\ used.ids + 1 \notin DOMAIN objects => objects'[used.ids + 1] = name
           /\ \A id \in DOMAIN objects' : objects'[id] \in Names
  BY ResolverNumbers DEF TypeOK, AddObject, IDs

\* The counters are numbers that can be counted further.
LEMMA UsedType ==
    ASSUME TypeOK
    PROVE  /\ used \in Counts
           /\ used.ids \in 0..MaxObjects
           /\ used.edits \in Nat /\ used.deleted \in Nat /\ used.faults \in Nat
           /\ used.edits + 1 \in Nat /\ used.deleted + 1 \in Nat /\ used.faults + 1 \in Nat
  BY DEF TypeOK, Counts

\* Objects, there or made and deleted, are compared by their IDs.
LEMMA IDsAreNumbers ==
    ASSUME TypeOK
    PROVE  \A id \in DOMAIN objects \cup made : id \in Nat
<1>1. DOMAIN objects \cup made \subseteq IDs
  BY DEF TypeOK
<1>2. \A id \in IDs : id \in Nat
  BY ResolverNumbers DEF IDs
<1>3. QED
  BY <1>1, <1>2

\* The initial state is typed.
LEMMA InitType == Init => TypeOK
<1> SUFFICES ASSUME Init
             PROVE  TypeOK
  OBVIOUS
<1>1. DOMAIN objects = {}
  BY DEF Init
<1>2. calls \in [Callers -> Calls] /\ flights \in [Callers -> Flights]
  BY NoCallType, NoFlightType DEF Init
<1>3. used \in [ids : 0..MaxObjects, edits : Nat, deleted : Nat, faults : Nat]
  BY ResolverNumbers DEF Init
<1>4. made \subseteq IDs /\ answers \in [{Fold[name] : name \in Names} -> SUBSET IDs]
  BY DEF Init
<1>5. QED
  BY <1>1, <1>2, <1>3, <1>4 DEF TypeOK

\* Every step keeps the types.
LEMMA NextType == TypeOK /\ [Next]_vars => TypeOK'
<1> SUFFICES ASSUME TypeOK, [Next]_vars
             PROVE  TypeOK'
  OBVIOUS
<1>1. ASSUME NEW c \in Callers, NEW op \in Ops, NEW name \in Names, Call(c, op, name)
      PROVE  TypeOK'
  <2>1. \A l \in Callers :
           [NoCall(c) EXCEPT !.state = "waiting", !.op = op, !.leader = l] \in Calls
    BY NoCallType, CallsChange, FailedType
  <2>2. [NoCall(c) EXCEPT !.state = "waiting", !.op = op] \in Calls
    BY NoCallType, CallsChange, FailedType
  <2>3. [phase |-> "list", op |-> op, name |-> name, matches |-> {}] \in Flights
    BY DEF Flights
  <2>4. QED
    BY <1>1, <2>1, <2>2, <2>3 DEF Call, FlightsFor, TypeOK
<1>2. ASSUME NEW c \in Callers, Return(c)
      PROVE  TypeOK'
  BY <1>2, NoCallType DEF Return, TypeOK
<1>3. ASSUME NEW l \in Callers, List(l)
      PROVE  TypeOK'
  <2>1. Matching(flights[l].name) \in SUBSET IDs
    BY DEF Matching, TypeOK
  <2>2. [flights[l] EXCEPT !.phase = IF @ = "list" THEN "listed" ELSE "relisted",
                           !.matches = Matching(flights[l].name)] \in Flights
    BY <2>1 DEF TypeOK, Flights
  <2>3. QED
    BY <1>3, <2>2 DEF List, TypeOK
<1>4. ASSUME NEW l \in Callers, Missing(l)
      PROVE  TypeOK'
  <2>1. [flights[l] EXCEPT !.phase = "create"] \in Flights
    BY DEF TypeOK, Flights
  <2>2. QED
    BY <1>4, <2>1 DEF Missing, TypeOK
<1>5. ASSUME NEW l \in Callers, Decide(l)
      PROVE  TypeOK'
  <2>1. PICK result \in getFirst(flights[l].matches) : Land(l, result)
    BY <1>5 DEF Decide
  <2>2. flights[l].matches \in SUBSET IDs
    BY DEF TypeOK, Flights
  <2>3. result \in Results
    BY <2>1, <2>2, getFirstAnswers
  <2>4. QED
    BY <1>5, <2>1, <2>3, LandType DEF Decide, TypeOK
<1>6. ASSUME NEW l \in Callers, Create(l)
      PROVE  TypeOK'
  <2>1. flights[l].name \in Names
    BY DEF TypeOK, Flights
  <2>2. [flights[l] EXCEPT !.phase = "relist"] \in Flights
    BY DEF TypeOK, Flights
  <2>3. /\ used.ids + 1 \in IDs
        /\ DOMAIN objects' = DOMAIN objects \cup {used.ids + 1}
        /\ \A id \in DOMAIN objects' : objects'[id] \in Names
    BY <1>6, <2>1, AddObjectType DEF Create
  <2>4. used' \in Counts
    BY <1>6, <2>3, UsedType DEF Create, IDs, Counts
  <2>5. flights' \in [Callers -> Flights]
    BY <1>6, <2>2 DEF Create, TypeOK, Counts
  <2>6. QED
    BY <1>6, <2>3, <2>4, <2>5 DEF Create, TypeOK, Counts
<1>7. ASSUME NEW l \in Callers, CreateAnswerLost(l)
      PROVE  TypeOK'
  <2>1. flights[l].name \in Names
    BY DEF TypeOK, Flights
  <2>2. /\ used.ids + 1 \in IDs
        /\ DOMAIN objects' = DOMAIN objects \cup {used.ids + 1}
        /\ \A id \in DOMAIN objects' : objects'[id] \in Names
    BY <1>7, <2>1, AddObjectType DEF CreateAnswerLost
  <2>3. used.ids + 1 \in 0..MaxObjects
    BY <1>7, <2>1, AddObjectType DEF CreateAnswerLost
  <2>4. used' \in Counts
    BY <1>7, <2>3, UsedType, CountsChange DEF CreateAnswerLost
  <2>5. QED
    BY <1>7, <2>2, <2>4, FailedType, LandType DEF CreateAnswerLost, TypeOK, Counts
<1>8. ASSUME NEW l \in Callers, CreateRejected(l)
      PROVE  TypeOK'
  BY <1>8, FailedType, LandType DEF CreateRejected, TypeOK
<1>9. ASSUME NEW l \in Callers, RequestFails(l)
      PROVE  TypeOK'
  <2>1. used' \in Counts
    BY <1>9, UsedType DEF RequestFails, Fault, Counts
  <2>2. QED
    BY <1>9, <2>1, FailedType, LandType DEF RequestFails, TypeOK, Counts
<1>10. ASSUME NEW name \in Names, UserAdds(name)
       PROVE  TypeOK'
  <2>1. /\ used.ids + 1 \in IDs
        /\ DOMAIN objects' = DOMAIN objects \cup {used.ids + 1}
        /\ \A id \in DOMAIN objects' : objects'[id] \in Names
    BY <1>10, AddObjectType DEF UserAdds
  <2>2. used.ids + 1 \in 0..MaxObjects
    BY <1>10, AddObjectType DEF UserAdds
  <2>3. used' \in Counts
    BY <1>10, <2>2, UsedType, CountsChange DEF UserAdds
  <2>4. QED
    BY <1>10, <2>1, <2>3 DEF UserAdds, TypeOK, Counts
<1>11. ASSUME NEW id \in DOMAIN objects, UserDeletes(id)
       PROVE  TypeOK'
  <2>1. used' \in Counts
    BY <1>11, UsedType, CountsChange DEF UserDeletes
  <2>2. QED
    BY <1>11, <2>1 DEF UserDeletes, TypeOK, Counts
<1>12. ASSUME NEW id \in DOMAIN objects, NEW name \in Names, UserRenames(id, name)
       PROVE  TypeOK'
  <2>1. used' \in Counts
    BY <1>12, UsedType, CountsChange DEF UserRenames
  <2>2. DOMAIN objects' = DOMAIN objects /\ \A i \in DOMAIN objects' : objects'[i] \in Names
    BY <1>12 DEF UserRenames, TypeOK, Counts
  <2>3. QED
    BY <1>12, <2>1, <2>2 DEF UserRenames, TypeOK, Counts
<1>13. CASE UNCHANGED vars
  BY <1>13 DEF vars, TypeOK
<1>14. QED
  BY <1>1, <1>2, <1>3, <1>4, <1>5, <1>6, <1>7, <1>8, <1>9, <1>10, <1>11, <1>12, <1>13
     DEF Next, Flight

\* Resolver's variables have their types in every state.
THEOREM ResolverTypes == Spec => []TypeOK
  BY InitType, NextType, PTL DEF Spec

-----------------------------------------------------------------------------
(* One object per name.                                                    *)

\* A flight that lands is over, and the others go on as they were.
LEMMA LandFlights ==
    ASSUME TypeOK, NEW l \in Callers, NEW result, Land(l, result)
    PROVE  /\ flights'[l].phase = "none"
           /\ \A k \in Callers \ {l} : flights'[k] = flights[k]
  BY DEF Land, NoFlight, TypeOK

\* Landing keeps what is known of the flights that are under way.
LEMMA LandKeeps ==
    ASSUME TypeOK, OneFlightPerName, NEW l \in Callers, NEW result, Land(l, result)
    PROVE  OneFlightPerName'
  BY LandFlights DEF OneFlightPerName

\* A flight that has landed makes nothing any more (Land).
LEMMA LandKnows ==
    ASSUME DuplicatesInv, NEW l \in Callers, NEW result, Land(l, result),
           UNCHANGED <<objects, made>>
    PROVE  NothingMadeYet'
<1>1. \A k \in Callers :
         \/ flights'[k].phase = "none"
         \/ flights'[k] = flights[k]
  BY LandFlights DEF DuplicatesInv
<1>2. QED
  BY <1>1 DEF NothingMadeYet, DuplicatesInv

\* What a flight does between its requests leaves its name alone.
LEMMA FlightGoesOn ==
    ASSUME TypeOK, OneFlightPerName, NEW l \in Callers, flights[l].phase # "none",
           \A k \in Callers \ {l} : flights'[k] = flights[k],
           flights'[l].name = flights[l].name
    PROVE  OneFlightPerName'
  BY DEF OneFlightPerName

\* A flight that creates makes the first object of its name.
LEMMA FirstOfItsName ==
    ASSUME DuplicatesInv, NEW l \in Callers, flights[l].phase = "create",
           AddObject(flights[l].name), made' = made \cup {used.ids + 1},
           used'.ids = used.ids + 1,
           \A k \in Callers \ {l} : flights'[k] = flights[k],
           flights'[l].phase \notin {"listed", "create"}
    PROVE  IDsInOrder' /\ NothingMadeYet' /\ NoDuplicates'
<1> DEFINE new == used.ids + 1
<1>1. flights[l].name \in Names
  BY DEF DuplicatesInv, TypeOK, Flights
<1>2. new \notin DOMAIN objects \cup made /\ used.ids \in Nat
  BY UsedType DEF DuplicatesInv, IDsInOrder
<1>3. /\ DOMAIN objects' = DOMAIN objects \cup {new}
      /\ \A id \in DOMAIN objects : objects'[id] = objects[id]
      /\ objects'[new] = flights[l].name
  BY <1>1, <1>2, AddObjectType DEF DuplicatesInv
<1>4. IDsInOrder'
  <2>1. \A id \in DOMAIN objects \cup made : id \in Nat /\ id <= used.ids
    BY IDsAreNumbers DEF DuplicatesInv, IDsInOrder
  <2>2. QED
    BY <1>2, <1>3, <2>1 DEF IDsInOrder
<1>5. NoDuplicates'
  <2>1. \A id \in made \cap DOMAIN objects : objects[id] # flights[l].name
    BY DEF DuplicatesInv, NothingMadeYet
  <2>2. made' \cap DOMAIN objects' = (made \cap DOMAIN objects) \cup {new}
    BY <1>2, <1>3
  <2>3. QED
    BY <1>3, <2>1, <2>2 DEF DuplicatesInv, NoDuplicates
<1>6. NothingMadeYet'
  <2> SUFFICES ASSUME NEW k \in Callers,
                      \/ flights'[k].phase = "create"
                      \/ flights'[k].phase = "listed" /\ flights'[k].matches = {},
                      NEW id \in made' \cap DOMAIN objects'
               PROVE  objects'[id] # flights'[k].name
    BY DEF NothingMadeYet
  <2>1. k # l /\ flights'[k] = flights[k]
    OBVIOUS
  <2>2. flights[k].name # flights[l].name
    BY <2>1 DEF DuplicatesInv, OneFlightPerName
  <2>3. CASE id = new
    BY <1>3, <2>1, <2>2, <2>3
  <2>4. CASE id # new
    BY <1>3, <2>1, <2>4 DEF DuplicatesInv, NothingMadeYet
  <2>5. QED
    BY <2>3, <2>4
<1>7. QED
  BY <1>4, <1>5, <1>6

\* The invariant holds when the daemon starts.
LEMMA InitDuplicates == Init => DuplicatesInv
<1> SUFFICES ASSUME Init
             PROVE  DuplicatesInv
  OBVIOUS
<1>1. DOMAIN objects = {} /\ made = {}
  BY DEF Init
<1>2. \A l \in Callers : flights[l].phase = "none"
  BY DEF Init, NoFlight
<1>3. QED
  BY <1>1, <1>2, InitType
     DEF DuplicatesInv, OneFlightPerName, IDsInOrder, NothingMadeYet, NoDuplicates

\* Every step keeps it.
LEMMA NextDuplicates == DuplicatesInv /\ [Next]_vars => DuplicatesInv'
<1> SUFFICES ASSUME DuplicatesInv, [Next]_vars
             PROVE  OneFlightPerName' /\ IDsInOrder' /\ NothingMadeYet' /\ NoDuplicates'
  BY NextType DEF DuplicatesInv
<1>t. TypeOK /\ OneFlightPerName /\ IDsInOrder /\ NothingMadeYet /\ NoDuplicates
  BY DEF DuplicatesInv
<1>1. ASSUME NEW c \in Callers, NEW op \in Ops, NEW name \in Names, Call(c, op, name)
      PROVE  OneFlightPerName' /\ IDsInOrder' /\ NothingMadeYet' /\ NoDuplicates'
  <2>1. IDsInOrder' /\ NoDuplicates'
    BY <1>1, <1>t DEF Call, IDsInOrder, NoDuplicates
  <2>2. CASE UNCHANGED flights
    BY <1>1, <1>t, <2>1, <2>2 DEF Call, OneFlightPerName, NothingMadeYet
  <2>3. CASE /\ FlightsFor(op, name) = {}
             /\ flights' = [flights EXCEPT ![c] = [phase |-> "list", op |-> op,
                                                   name |-> name, matches |-> {}]]
    <3>1. /\ flights'[c].phase = "list" /\ flights'[c].name = name
          /\ \A k \in Callers \ {c} : flights'[k] = flights[k]
      BY <2>3, <1>t DEF TypeOK
    <3>2. \A k \in Callers : flights[k].phase # "none" => flights[k].name # name
      BY <2>3 DEF FlightsFor
    <3>3. OneFlightPerName'
      BY <1>t, <3>1, <3>2 DEF OneFlightPerName
    <3>4. NothingMadeYet'
      BY <1>1, <1>t, <3>1 DEF Call, NothingMadeYet
    <3>5. QED
      BY <2>1, <3>3, <3>4
  <2>4. QED
    BY <1>1, <2>2, <2>3 DEF Call
<1>2. ASSUME NEW c \in Callers, Return(c)
      PROVE  OneFlightPerName' /\ IDsInOrder' /\ NothingMadeYet' /\ NoDuplicates'
  BY <1>2, <1>t DEF Return, OneFlightPerName, IDsInOrder, NothingMadeYet, NoDuplicates
<1>3. ASSUME NEW l \in Callers, List(l)
      PROVE  OneFlightPerName' /\ IDsInOrder' /\ NothingMadeYet' /\ NoDuplicates'
  <2>1. /\ flights[l].phase # "none" /\ flights'[l].phase # "create"
        /\ flights'[l].name = flights[l].name /\ flights'[l].matches = Matching(flights[l].name)
        /\ \A k \in Callers \ {l} : flights'[k] = flights[k]
    BY <1>3, <1>t DEF List, TypeOK, Flights
  <2>2. OneFlightPerName'
    BY <1>t, <2>1, FlightGoesOn
  <2>3. \A id \in DOMAIN objects :
           Matching(flights[l].name) = {} => objects[id] # flights[l].name
    BY DEF Matching
  <2>4. NothingMadeYet'
    <3> SUFFICES ASSUME NEW k \in Callers,
                        \/ flights'[k].phase = "create"
                        \/ flights'[k].phase = "listed" /\ flights'[k].matches = {},
                        NEW id \in made \cap DOMAIN objects
                 PROVE  objects[id] # flights'[k].name
      BY <1>3 DEF List, NothingMadeYet
    <3>1. CASE k = l
      BY <2>1, <2>3, <3>1
    <3>2. CASE k # l
      BY <1>t, <2>1, <3>2 DEF NothingMadeYet
    <3>3. QED
      BY <3>1, <3>2
  <2>5. QED
    BY <1>3, <1>t, <2>2, <2>4 DEF List, IDsInOrder, NoDuplicates
<1>4. ASSUME NEW l \in Callers, Missing(l)
      PROVE  OneFlightPerName' /\ IDsInOrder' /\ NothingMadeYet' /\ NoDuplicates'
  <2>1. /\ flights[l].phase = "listed"
        /\ flights'[l].name = flights[l].name
        /\ \A k \in Callers \ {l} : flights'[k] = flights[k]
    BY <1>4, <1>t DEF Missing, TypeOK, Flights
  <2>2. flights[l].matches = {}
    <3>1. flights[l].matches \in SUBSET IDs
      BY <1>t DEF TypeOK, Flights
    <3>2. QED
      BY <1>4, <3>1, getFirstAnswers DEF Missing, Failed
  <2>3. OneFlightPerName'
    BY <1>t, <2>1, FlightGoesOn
  <2>4. NothingMadeYet'
    BY <1>4, <1>t, <2>1, <2>2 DEF Missing, NothingMadeYet
  <2>5. QED
    BY <1>4, <1>t, <2>3, <2>4 DEF Missing, IDsInOrder, NoDuplicates
<1>5. ASSUME NEW l \in Callers, NEW result, Land(l, result), UNCHANGED <<objects, made>>,
             used'.ids = used.ids
      PROVE  OneFlightPerName' /\ IDsInOrder' /\ NothingMadeYet' /\ NoDuplicates'
  <2>1. OneFlightPerName' /\ NothingMadeYet'
    BY <1>5, <1>t, LandKeeps, LandKnows
  <2>2. QED
    BY <1>5, <1>t, <2>1 DEF IDsInOrder, NoDuplicates
<1>6. ASSUME NEW l \in Callers, Create(l)
      PROVE  OneFlightPerName' /\ IDsInOrder' /\ NothingMadeYet' /\ NoDuplicates'
  <2>1. /\ flights[l].phase = "create" /\ flights'[l].phase = "relist"
        /\ flights'[l].name = flights[l].name
        /\ \A k \in Callers \ {l} : flights'[k] = flights[k]
    BY <1>6, <1>t DEF Create, TypeOK, Flights
  <2>2. used'.ids = used.ids + 1
    BY <1>6, <1>t, UsedType DEF Create, Counts
  <2>3. IDsInOrder' /\ NothingMadeYet' /\ NoDuplicates'
    BY <1>6, <2>1, <2>2, FirstOfItsName DEF Create
  <2>4. QED
    BY <1>t, <2>1, <2>3, FlightGoesOn
<1>7. ASSUME NEW l \in Callers, CreateAnswerLost(l)
      PROVE  OneFlightPerName' /\ IDsInOrder' /\ NothingMadeYet' /\ NoDuplicates'
  <2>1. /\ flights[l].phase = "create" /\ flights'[l].phase = "none"
        /\ \A k \in Callers \ {l} : flights'[k] = flights[k]
    BY <1>7, <1>t, LandFlights DEF CreateAnswerLost
  <2>2. used'.ids = used.ids + 1
    BY <1>7, <1>t, UsedType DEF CreateAnswerLost, Counts
  <2>3. IDsInOrder' /\ NothingMadeYet' /\ NoDuplicates'
    BY <1>7, <2>1, <2>2, FirstOfItsName DEF CreateAnswerLost
  <2>4. QED
    BY <1>7, <1>t, <2>3, LandKeeps DEF CreateAnswerLost
<1>8. ASSUME NEW name \in Names, UserAdds(name)
      PROVE  OneFlightPerName' /\ IDsInOrder' /\ NothingMadeYet' /\ NoDuplicates'
  <2>1. used'.ids = used.ids + 1 /\ used.ids \in Nat
    BY <1>8, <1>t, UsedType DEF UserAdds, Counts
  <2>2. /\ DOMAIN objects' = DOMAIN objects \cup {used.ids + 1}
        /\ \A id \in DOMAIN objects : objects'[id] = objects[id]
    BY <1>8, <1>t, AddObjectType DEF UserAdds
  <2>3. \A id \in DOMAIN objects \cup made : id \in Nat /\ id <= used.ids
    BY <1>t, IDsAreNumbers DEF IDsInOrder
  <2>4. made' \cap DOMAIN objects' = made \cap DOMAIN objects
    BY <1>8, <2>1, <2>2, <2>3 DEF UserAdds
  <2>5. IDsInOrder'
    BY <1>8, <2>1, <2>2, <2>3 DEF UserAdds, IDsInOrder
  <2>6. NothingMadeYet' /\ NoDuplicates'
    BY <1>8, <1>t, <2>2, <2>4 DEF UserAdds, NothingMadeYet, NoDuplicates
  <2>7. QED
    BY <1>8, <1>t, <2>5, <2>6 DEF UserAdds, OneFlightPerName
<1>9. ASSUME NEW id \in DOMAIN objects, UserDeletes(id)
      PROVE  OneFlightPerName' /\ IDsInOrder' /\ NothingMadeYet' /\ NoDuplicates'
  <2>1. used'.ids = used.ids
    BY <1>9, <1>t, UsedType DEF UserDeletes, Counts
  <2>2. /\ DOMAIN objects' \subseteq DOMAIN objects
        /\ \A i \in DOMAIN objects' : objects'[i] = objects[i]
    BY <1>9 DEF UserDeletes
  <2>3. NothingMadeYet' /\ NoDuplicates'
    BY <1>9, <1>t, <2>2 DEF UserDeletes, NothingMadeYet, NoDuplicates
  <2>4. QED
    BY <1>9, <1>t, <2>1, <2>2, <2>3 DEF UserDeletes, OneFlightPerName, IDsInOrder
<1>10. ASSUME NEW id \in DOMAIN objects, NEW name \in Names, UserRenames(id, name)
       PROVE  OneFlightPerName' /\ IDsInOrder' /\ NothingMadeYet' /\ NoDuplicates'
  <2>1. used'.ids = used.ids
    BY <1>10, <1>t, UsedType DEF UserRenames, Counts
  <2>2. /\ DOMAIN objects' = DOMAIN objects /\ made' = made \ {id}
        /\ \A i \in made' \cap DOMAIN objects' : objects'[i] = objects[i]
    BY <1>10 DEF UserRenames
  <2>3. NothingMadeYet' /\ NoDuplicates'
    BY <1>10, <1>t, <2>2 DEF UserRenames, NothingMadeYet, NoDuplicates
  <2>4. QED
    BY <1>10, <1>t, <2>1, <2>2, <2>3 DEF UserRenames, OneFlightPerName, IDsInOrder
<1>11. CASE UNCHANGED vars
  BY <1>11, <1>t DEF vars, OneFlightPerName, IDsInOrder, NothingMadeYet, NoDuplicates
<1>12. ASSUME NEW l \in Callers, Decide(l) \/ CreateRejected(l) \/ RequestFails(l)
       PROVE  OneFlightPerName' /\ IDsInOrder' /\ NothingMadeYet' /\ NoDuplicates'
  <2>1. used'.ids = used.ids
    BY <1>12, <1>t, UsedType DEF Decide, CreateRejected, RequestFails, Fault, Counts
  <2>2. PICK result : Land(l, result)
    BY <1>12 DEF Decide, CreateRejected, RequestFails
  <2>3. QED
    BY <1>12, <1>5, <2>1, <2>2 DEF Decide, CreateRejected, RequestFails
<1>13. QED
  BY <1>1, <1>2, <1>3, <1>4, <1>6, <1>7, <1>8, <1>9, <1>10, <1>11, <1>12 DEF Next, Flight

\* However many workers ask for a name at once and whatever answers are lost,
\* the resolver makes one object of it: it makes a second one only when the
\* first has been deleted or renamed.
THEOREM OneObjectPerName == Spec => []NoDuplicates
<1>1. DuplicatesInv => NoDuplicates
  BY DEF DuplicatesInv
<1>2. QED
  BY <1>1, InitDuplicates, NextDuplicates, PTL DEF Spec

-----------------------------------------------------------------------------
(* One identity per name.                                                  *)

\* Landing returns to the leader, and to nobody who leads another flight.
LEMMA LandReturns ==
    ASSUME TypeOK, LeadersWait, NEW l \in Callers, NEW result, Land(l, result)
    PROVE  LeadersWait'
<1>1. \A k \in Callers \ {l} :
         flights[k].phase # "none" => flights'[k] = flights[k] /\ calls'[k] = calls[k]
  BY LandFlights DEF Land, Waiters, LeadersWait
<1>2. flights'[l].phase = "none"
  BY LandFlights
<1>3. \A k \in Callers \ {l} : flights'[k] = flights[k]
  BY LandFlights
<1>4. QED
  BY <1>1, <1>2, <1>3 DEF LeadersWait

\* Every step keeps the leaders waiting.
LEMMA NextLeadersWait == TypeOK /\ LeadersWait /\ [Next]_vars => LeadersWait'
<1> SUFFICES ASSUME TypeOK, LeadersWait, [Next]_vars
             PROVE  LeadersWait'
  OBVIOUS
<1>1. ASSUME NEW c \in Callers, NEW op \in Ops, NEW name \in Names, Call(c, op, name)
      PROVE  LeadersWait'
  <2>1. flights[c].phase = "none"
    BY <1>1 DEF Call, LeadersWait
  <2>2. \A k \in Callers \ {c} : calls'[k] = calls[k] /\ flights'[k] = flights[k]
    BY <1>1 DEF Call, TypeOK
  <2>3. CASE UNCHANGED flights
    BY <2>1, <2>2, <2>3 DEF LeadersWait
  <2>4. CASE calls' = [calls EXCEPT ![c] = [NoCall(c) EXCEPT !.state = "waiting", !.op = op]]
    <3>1. calls'[c].state = "waiting" /\ calls'[c].leader = c
      BY <2>4 DEF TypeOK, NoCall
    <3>2. QED
      BY <2>2, <3>1 DEF LeadersWait
  <2>5. QED
    BY <1>1, <2>3, <2>4 DEF Call
<1>2. ASSUME NEW c \in Callers, Return(c)
      PROVE  LeadersWait'
  BY <1>2 DEF Return, LeadersWait, TypeOK
<1>3. ASSUME NEW l \in Callers, List(l) \/ Missing(l) \/ Create(l)
      PROVE  LeadersWait'
  <2>1. calls' = calls /\ flights[l].phase # "none"
    BY <1>3 DEF List, Missing, Create
  <2>2. \A k \in Callers \ {l} : flights'[k] = flights[k]
    BY <1>3 DEF List, Missing, Create, TypeOK
  <2>3. QED
    BY <2>1, <2>2 DEF LeadersWait
<1>4. ASSUME NEW l \in Callers,
             Decide(l) \/ CreateAnswerLost(l) \/ CreateRejected(l) \/ RequestFails(l)
      PROVE  LeadersWait'
  BY <1>4, LandReturns DEF Decide, CreateAnswerLost, CreateRejected, RequestFails
<1>5. ASSUME UNCHANGED <<calls, flights>>
      PROVE  LeadersWait'
  BY <1>5 DEF LeadersWait
<1>6. QED
  BY <1>1, <1>2, <1>3, <1>4, <1>5
     DEF Next, Flight, UserAdds, UserDeletes, UserRenames, vars

\* What a name is answered with can be counted.
LEMMA AnsweredIDs ==
    ASSUME TypeOK, NEW n \in DOMAIN answers
    PROVE  Answered(n) \in SUBSET IDs
  BY DEF TypeOK, Answered

\* As long as the answers stay the same, the price is paid: when no object
\* stops standing for its name, or when that is counted as a deletion.
LEMMA PaidKept ==
    ASSUME TypeOK, Paid, TypeOK', DOMAIN answers' = DOMAIN answers,
           \A n \in DOMAIN answers : Answered(n)' = Answered(n),
           \/ /\ used'.deleted = used.deleted
              /\ \A n \in DOMAIN answers : Standing(n) => Standing(n)'
           \/ used'.deleted = used.deleted + 1
    PROVE  Paid'
<1> SUFFICES ASSUME NEW n \in DOMAIN answers
             PROVE  Cardinality(Answered(n)) <= used'.deleted + IF Standing(n)' THEN 1 ELSE 0
  BY DEF Paid
<1>1. Cardinality(Answered(n)) \in Nat
  BY AnsweredIDs, MatchesAreFinite
<1>2. used.deleted \in Nat
  BY UsedType
<1>3. Cardinality(Answered(n)) <= used.deleted + IF Standing(n) THEN 1 ELSE 0
  BY DEF Paid
<1>4. QED
  BY <1>1, <1>2, <1>3

\* The answers stay the same when no flight changes where it goes.
LEMMA SameAnswers ==
    ASSUME answers' = answers,
           \A l \in Callers, id \in IDs, n \in DOMAIN answers : GoesTo(l, id, n)' <=> GoesTo(l, id, n)
    PROVE  \A n \in DOMAIN answers : Answered(n)' = Answered(n)
  BY DEF Answered

\* Objects that stand for a name go on doing so when they keep their names.
LEMMA StillStanding ==
    ASSUME DOMAIN objects \subseteq DOMAIN objects',
           \A id \in DOMAIN objects : Fold[objects'[id]] = Fold[objects[id]],
           \A n \in DOMAIN answers : Answered(n)' = Answered(n)
    PROVE  \A n \in DOMAIN answers : Standing(n) => Standing(n)'
<1>1. ASSUME NEW n \in DOMAIN answers, Standing(n)
      PROVE  \E id \in Answered(n) \cap DOMAIN objects' : Fold[objects'[id]] = n
  BY <1>1 DEF Standing
<1>2. QED
  BY <1>1 DEF Standing

\* A lookup that finds one object adds it to the answers only if no other
\* stands for the name.
LEMMA ListPaid ==
    ASSUME IdentityInv, TypeOK', NEW l \in Callers, List(l)
    PROVE  Paid'
<1> SUFFICES ASSUME NEW n \in DOMAIN answers
             PROVE  Cardinality(Answered(n)') <= used.deleted + IF Standing(n)' THEN 1 ELSE 0
  BY DEF List, Paid
<1> DEFINE name == flights[l].name
<1>1. /\ flights[l].phase \notin {"listed", "relisted"}
      /\ flights'[l].phase \in {"listed", "relisted"}
      /\ flights'[l].name = name
      /\ flights'[l].matches = Matching(name)
      /\ \A k \in Callers \ {l} : flights'[k] = flights[k]
  BY DEF List, IdentityInv, TypeOK, Flights
<1>2. answers' = answers /\ objects' = objects
  BY DEF List
<1>3. \A k \in Callers \ {l}, id \in IDs : GoesTo(k, id, n)' <=> GoesTo(k, id, n)
  BY <1>1 DEF GoesTo
<1>4. \A id \in IDs : GoesTo(l, id, n)' <=> Matching(name) = {id} /\ Fold[name] = n
  BY <1>1 DEF GoesTo
<1>5. \A id \in IDs : ~GoesTo(l, id, n)
  BY <1>1 DEF GoesTo
<1>6. /\ used.deleted \in Nat
      /\ Answered(n) \in SUBSET IDs
      /\ Cardinality(Answered(n)) \in Nat
      /\ Cardinality(Answered(n)) <= used.deleted + IF Standing(n) THEN 1 ELSE 0
  BY UsedType, AnsweredIDs, MatchesAreFinite DEF IdentityInv, Paid
<1>7. CASE Answered(n)' = Answered(n)
  <2>1. Standing(n)' <=> Standing(n)
    BY <1>2, <1>7 DEF Standing
  <2>2. QED
    BY <1>6, <1>7, <2>1
<1>8. CASE Answered(n)' # Answered(n)
  <2>1. PICK id \in IDs : Matching(name) = {id} /\ Fold[name] = n
    BY <1>2, <1>3, <1>4, <1>5, <1>8 DEF Answered
  <2>2. Answered(n)' = Answered(n) \cup {id}
    BY <1>2, <1>3, <1>4, <1>5, <2>1 DEF Answered
  <2>3. id \notin Answered(n)
    BY <1>8, <2>2
  <2>4. id \in DOMAIN objects /\ Fold[objects[id]] = n
    BY <2>1 DEF Matching
  <2>5. ~Standing(n)
    BY <2>1, <2>3 DEF Standing, Matching
  <2>6. Standing(n)'
    BY <1>2, <2>2, <2>4 DEF Standing
  <2>7. Cardinality(Answered(n)') = Cardinality(Answered(n)) + 1
    BY <1>6, <2>2, <2>3, MatchesAreFinite, FS_AddElement
  <2>8. QED
    BY <1>6, <2>5, <2>6, <2>7
<1>9. QED
  BY <1>7, <1>8

\* A flight that lands with an object has been going to it.
LEMMA DecidePaid ==
    ASSUME IdentityInv, TypeOK', NEW l \in Callers, Decide(l)
    PROVE  Paid'
<1> DEFINE name == flights[l].name
<1>1. PICK result \in getFirst(flights[l].matches) : Land(l, result)
  BY DEF Decide
<1>2. flights[l].matches \in SUBSET IDs /\ name \in Names
  BY DEF IdentityInv, TypeOK, Flights
<1>3. /\ flights'[l].phase = "none"
      /\ \A k \in Callers \ {l} : flights'[k] = flights[k]
  BY <1>1, LandFlights DEF IdentityInv
<1>4. \A k \in Callers \ {l}, id \in IDs, n \in DOMAIN answers :
         GoesTo(k, id, n)' <=> GoesTo(k, id, n)
  BY <1>3 DEF GoesTo
<1>5. \A id \in IDs, n \in DOMAIN answers : ~GoesTo(l, id, n)'
  BY <1>3 DEF GoesTo
<1>6. \A n \in DOMAIN answers : Answered(n)' = Answered(n)
  <2>1. CASE result.kind = "found"
    <3>1. result.id \in IDs /\ flights[l].matches = {result.id}
      BY <1>2, <2>1, getFirstAnswers
    <3>2. \A id \in IDs, n \in DOMAIN answers :
             GoesTo(l, id, n) <=> id = result.id /\ n = Fold[name]
      <4>1. flights[l].phase \in {"listed", "relisted"}
        BY DEF Decide
      <4>2. \A id : {result.id} = {id} <=> id = result.id
        OBVIOUS
      <4>3. QED
        BY <3>1, <4>1, <4>2 DEF GoesTo
    <3>3. answers' = [answers EXCEPT ![Fold[name]] = @ \cup {result.id}]
      BY <1>1, <2>1 DEF Land
    <3>4. \A n \in DOMAIN answers :
             answers'[n] = IF n = Fold[name] THEN answers[n] \cup {result.id} ELSE answers[n]
      BY <3>3 DEF IdentityInv, TypeOK
    <3>5. \A id \in IDs, n \in DOMAIN answers :
             /\ (\E k \in Callers : GoesTo(k, id, n)')
                   <=> \E k \in Callers \ {l} : GoesTo(k, id, n)
             /\ (\E k \in Callers : GoesTo(k, id, n))
                   <=> \/ \E k \in Callers \ {l} : GoesTo(k, id, n)
                       \/ id = result.id /\ n = Fold[name]
      BY <1>4, <1>5, <3>2
    <3>6. ASSUME NEW n \in DOMAIN answers
          PROVE  Answered(n)' = Answered(n)
      <4> DEFINE others == {id \in IDs : \E k \in Callers \ {l} : GoesTo(k, id, n)}
                 its    == IF n = Fold[name] THEN {result.id} ELSE {}
      <4>1. Answered(n)' = answers'[n] \cup others
        BY <3>5 DEF Answered
      <4>2. Answered(n) = answers[n] \cup others \cup its
        BY <3>1, <3>5 DEF Answered
      <4>3. answers'[n] = answers[n] \cup its
        BY <3>4
      <4>4. QED
        BY <4>1, <4>2, <4>3
    <3>7. QED
      BY <3>6
  <2>2. CASE result.kind # "found"
    <3>1. \A id \in IDs : flights[l].matches # {id}
      <4> SUFFICES ASSUME NEW id \in IDs, flights[l].matches = {id}
                   PROVE  FALSE
        OBVIOUS
      <4>1. Cardinality({id}) = 1
        BY FS_Singleton
      <4>2. getFirst({id}) = {Found(id)}
        BY <4>1 DEF getFirst
      <4>3. QED
        BY <2>2, <4>2 DEF Found
    <3>2. \A id \in IDs, n \in DOMAIN answers : ~GoesTo(l, id, n)
      BY <3>1 DEF GoesTo
    <3>3. answers' = answers
      BY <1>1, <2>2 DEF Land
    <3>4. QED
      BY <1>4, <1>5, <3>2, <3>3, SameAnswers
  <2>3. QED
    BY <2>1, <2>2
<1>7. DOMAIN answers' = DOMAIN answers
  BY DEF IdentityInv, TypeOK
<1>8. objects' = objects /\ used' = used
  BY DEF Decide
<1>9. \A n \in DOMAIN answers : Standing(n) => Standing(n)'
  BY <1>6, <1>8, StillStanding
<1>10. QED
  BY <1>6, <1>7, <1>8, <1>9, PaidKept DEF IdentityInv

\* What a flight does without going to an object pays as well.
LEMMA NotGoingPaid ==
    ASSUME IdentityInv, TypeOK', answers' = answers, NEW l \in Callers,
           flights[l].phase \notin {"listed", "relisted"} \/ flights[l].matches = {},
           flights'[l].phase \notin {"listed", "relisted"} \/ flights'[l].matches = {},
           \A k \in Callers \ {l} : flights'[k] = flights[k],
           DOMAIN objects \subseteq DOMAIN objects',
           \A id \in DOMAIN objects : objects'[id] = objects[id],
           used'.deleted = used.deleted
    PROVE  Paid'
<1>1. \A k \in Callers, id \in IDs, n \in DOMAIN answers : GoesTo(k, id, n)' <=> GoesTo(k, id, n)
  BY DEF GoesTo
<1>2. \A n \in DOMAIN answers : Answered(n)' = Answered(n)
  BY <1>1, SameAnswers
<1>3. \A n \in DOMAIN answers : Standing(n) => Standing(n)'
  BY <1>2, StillStanding
<1>4. QED
  BY <1>2, <1>3, PaidKept DEF IdentityInv

\* So does what users do to the objects.
LEMMA UserPaid ==
    ASSUME IdentityInv, TypeOK', UNCHANGED <<answers, flights>>,
           \/ /\ used'.deleted = used.deleted
              /\ DOMAIN objects \subseteq DOMAIN objects'
              /\ \A id \in DOMAIN objects : Fold[objects'[id]] = Fold[objects[id]]
           \/ used'.deleted = used.deleted + 1
    PROVE  Paid'
<1>1. \A k \in Callers, id \in IDs, n \in DOMAIN answers : GoesTo(k, id, n)' <=> GoesTo(k, id, n)
  BY DEF GoesTo
<1>2. \A n \in DOMAIN answers : Answered(n)' = Answered(n)
  BY <1>1, SameAnswers
<1>3. \/ /\ used'.deleted = used.deleted
         /\ \A n \in DOMAIN answers : Standing(n) => Standing(n)'
      \/ used'.deleted = used.deleted + 1
  BY <1>2, StillStanding
<1>4. QED
  BY <1>2, <1>3, PaidKept DEF IdentityInv

\* Nobody has called and nothing was answered at the beginning.
LEMMA InitIdentity == Init => IdentityInv
<1> SUFFICES ASSUME Init
             PROVE  LeadersWait /\ Paid
  BY InitType DEF IdentityInv
<1>1. \A l \in Callers : flights[l].phase = "none"
  BY DEF Init, NoFlight
<1>2. \A n \in DOMAIN answers : Answered(n) = {}
  BY <1>1 DEF Init, Answered, GoesTo
<1>3. used.deleted = 0
  BY DEF Init
<1>4. Cardinality({}) = 0
  BY FS_EmptySet
<1>5. Paid
  BY <1>2, <1>3, <1>4 DEF Paid
<1>6. QED
  BY <1>1, <1>5 DEF LeadersWait

\* Every step pays for a further answer with a deletion.
LEMMA NextIdentity == IdentityInv /\ [Next]_vars => IdentityInv'
<1> SUFFICES ASSUME IdentityInv, [Next]_vars
             PROVE  Paid'
  BY NextType, NextLeadersWait DEF IdentityInv
<1>t. TypeOK /\ LeadersWait /\ TypeOK'
  BY NextType DEF IdentityInv
<1>1. ASSUME NEW c \in Callers, NEW op \in Ops, NEW name \in Names, Call(c, op, name)
      PROVE  Paid'
  <2>1. flights[c].phase = "none"
    BY <1>1, <1>t DEF Call, LeadersWait
  <2>2. flights'[c].phase \in {"none", "list"}
    <3>1. CASE UNCHANGED flights
      BY <2>1, <3>1
    <3>2. CASE flights' = [flights EXCEPT ![c] = [phase |-> "list", op |-> op,
                                                  name |-> name, matches |-> {}]]
      BY <1>t, <3>2 DEF TypeOK
    <3>3. QED
      BY <1>1, <3>1, <3>2 DEF Call
  <2>3. \A k \in Callers \ {c} : flights'[k] = flights[k]
    BY <1>1, <1>t DEF Call, TypeOK
  <2>4. UNCHANGED <<objects, used, answers>>
    BY <1>1 DEF Call
  <2>5. QED
    BY <1>t, <2>1, <2>2, <2>3, <2>4, NotGoingPaid
<1>2. ASSUME NEW l \in Callers, List(l)
      PROVE  Paid'
  BY <1>2, <1>t, ListPaid
<1>3. ASSUME NEW l \in Callers, Missing(l)
      PROVE  Paid'
  <2>1. flights[l].matches \in SUBSET IDs
    BY <1>t DEF TypeOK, Flights
  <2>2. flights[l].matches = {}
    BY <1>3, <2>1, getFirstAnswers DEF Missing, Failed
  <2>3. /\ flights'[l].phase = "create"
        /\ \A k \in Callers \ {l} : flights'[k] = flights[k]
    BY <1>3, <1>t DEF Missing, TypeOK, Flights
  <2>4. UNCHANGED <<objects, used, answers>>
    BY <1>3 DEF Missing
  <2>5. QED
    BY <1>t, <2>2, <2>3, <2>4, NotGoingPaid
<1>4. ASSUME NEW l \in Callers, Decide(l)
      PROVE  Paid'
  BY <1>4, <1>t, DecidePaid
<1>5. ASSUME NEW l \in Callers, Create(l)
      PROVE  Paid'
  <2>1. /\ flights[l].phase = "create" /\ flights'[l].phase = "relist"
        /\ \A k \in Callers \ {l} : flights'[k] = flights[k]
    BY <1>5, <1>t DEF Create, TypeOK, Flights
  <2>2. flights[l].name \in Names
    BY <1>t DEF TypeOK, Flights
  <2>3. /\ DOMAIN objects \subseteq DOMAIN objects'
        /\ \A id \in DOMAIN objects : objects'[id] = objects[id]
    BY <1>5, <1>t, <2>2, AddObjectType DEF Create
  <2>4. used'.deleted = used.deleted /\ answers' = answers
    BY <1>5, <1>t, UsedType DEF Create, Counts
  <2>5. QED
    BY <1>t, <2>1, <2>3, <2>4, NotGoingPaid
<1>6. ASSUME NEW l \in Callers, CreateAnswerLost(l)
      PROVE  Paid'
  <2>1. flights[l].phase = "create" /\ Land(l, Failed("error"))
    BY <1>6 DEF CreateAnswerLost
  <2>2. /\ flights'[l].phase = "none"
        /\ \A k \in Callers \ {l} : flights'[k] = flights[k]
    BY <1>t, <2>1, LandFlights
  <2>3. flights[l].name \in Names
    BY <1>t DEF TypeOK, Flights
  <2>4. /\ DOMAIN objects \subseteq DOMAIN objects'
        /\ \A id \in DOMAIN objects : objects'[id] = objects[id]
    BY <1>6, <1>t, <2>3, AddObjectType DEF CreateAnswerLost
  <2>5. used'.deleted = used.deleted
    BY <1>6, <1>t, UsedType DEF CreateAnswerLost, Counts
  <2>6. answers' = answers
    BY <2>1 DEF Land, Failed
  <2>7. QED
    BY <1>t, <2>1, <2>2, <2>4, <2>5, <2>6, NotGoingPaid
<1>7. ASSUME NEW l \in Callers, CreateRejected(l) \/ RequestFails(l)
      PROVE  Paid'
  <2>1. flights[l].phase \in {"list", "create", "relist"} /\ Land(l, Failed("error"))
    BY <1>7 DEF CreateRejected, RequestFails
  <2>2. /\ flights'[l].phase = "none"
        /\ \A k \in Callers \ {l} : flights'[k] = flights[k]
    BY <1>t, <2>1, LandFlights
  <2>3. objects' = objects
    BY <1>7 DEF CreateRejected, RequestFails
  <2>4. used'.deleted = used.deleted
    BY <1>7, <1>t, UsedType DEF CreateRejected, RequestFails, Fault, Counts
  <2>5. answers' = answers
    BY <2>1 DEF Land, Failed
  <2>6. QED
    BY <1>t, <2>1, <2>2, <2>3, <2>4, <2>5, NotGoingPaid
<1>8. ASSUME NEW name \in Names, UserAdds(name)
      PROVE  Paid'
  <2>1. used'.deleted = used.deleted
    BY <1>8, <1>t, UsedType DEF UserAdds, Counts
  <2>2. /\ DOMAIN objects \subseteq DOMAIN objects'
        /\ \A id \in DOMAIN objects : objects'[id] = objects[id]
    BY <1>8, <1>t, AddObjectType DEF UserAdds
  <2>3. QED
    BY <1>8, <1>t, <2>1, <2>2, UserPaid DEF UserAdds
<1>9. ASSUME NEW id \in DOMAIN objects, UserDeletes(id)
      PROVE  Paid'
  <2>1. used'.deleted = used.deleted + 1
    BY <1>9, <1>t, UsedType DEF UserDeletes, Counts
  <2>2. QED
    BY <1>9, <1>t, <2>1, UserPaid DEF UserDeletes
<1>10. ASSUME NEW id \in DOMAIN objects, NEW name \in Names, UserRenames(id, name)
       PROVE  Paid'
  <2>1. used'.deleted = IF Fold[objects[id]] = Fold[name] THEN used.deleted ELSE used.deleted + 1
    BY <1>10, <1>t, UsedType DEF UserRenames, Counts
  <2>2. DOMAIN objects' = DOMAIN objects /\ objects' = [objects EXCEPT ![id] = name]
    BY <1>10 DEF UserRenames
  <2>3. Fold[objects[id]] = Fold[name] =>
           \A i \in DOMAIN objects : Fold[objects'[i]] = Fold[objects[i]]
    BY <2>2
  <2>4. QED
    BY <1>10, <1>t, <2>1, <2>2, <2>3, UserPaid DEF UserRenames
<1>11. ASSUME UNCHANGED vars \/ \E c \in Callers : Return(c)
       PROVE  Paid'
  <2>1. UNCHANGED <<objects, used, answers, flights>>
    BY <1>11 DEF Return, vars
  <2>2. QED
    BY <1>t, <2>1, UserPaid
<1>12. QED
  BY <1>1, <1>2, <1>3, <1>4, <1>5, <1>6, <1>7, <1>8, <1>9, <1>10, <1>11 DEF Next, Flight

\* Unless somebody deletes objects or renames them, all lookups of a name ever
\* answered name the same object, and every deletion lets in one more at most:
\* workers with stale lookups in hand do not add to them.
THEOREM OneIdentityPerName == Spec => []StableIdentity
<1>1. IdentityInv => StableIdentity
  <2> SUFFICES ASSUME IdentityInv, NEW n \in DOMAIN answers
               PROVE  Cardinality(answers[n]) <= 1 + used.deleted
    BY DEF StableIdentity
  <2>1. answers[n] \subseteq Answered(n)
    BY DEF Answered
  <2>2. Answered(n) \in SUBSET IDs
    BY AnsweredIDs DEF IdentityInv
  <2>3. /\ Cardinality(answers[n]) \in Nat /\ Cardinality(Answered(n)) \in Nat
        /\ Cardinality(answers[n]) <= Cardinality(Answered(n))
    BY <2>1, <2>2, MatchesAreFinite, FS_Subset
  <2>4. used.deleted \in Nat
    BY UsedType DEF IdentityInv
  <2>5. Cardinality(Answered(n)) <= used.deleted + IF Standing(n) THEN 1 ELSE 0
    BY DEF IdentityInv, Paid
  <2>6. QED
    BY <2>3, <2>4, <2>5
<1>2. QED
  BY <1>1, InitIdentity, NextIdentity, PTL DEF Spec

=============================================================================
