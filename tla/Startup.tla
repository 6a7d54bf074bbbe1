------------------------------ MODULE Startup -------------------------------
(***************************************************************************)
(* What Program.Run does before it starts the error group                  *)
(* (internal/core/program.go): it validates the workflows, builds a        *)
(* client, opens the store in a temporary directory                        *)
(* (internal/core/store.go) and finds the IDs of the users and groups that *)
(* the configuration grants rights on new objects, by their names          *)
(* (internal/objectresolver/all.go).                                       *)
(*                                                                         *)
(* The names are looked up one by one.  Meanwhile the server's             *)
(* administrator may rename accounts; any step may fail.  Program goes on  *)
(* from here, and decides when the context is cancelled.                   *)
(***************************************************************************)
EXTENDS Naturals, FiniteSets, Sequences

CONSTANTS
    AccountNames,  \* spellings of names of users and groups
    Fold,          \* what a spelling is, ignoring case
    Directories,   \* users and groups the server may have at first
    Me,            \* ID of the authenticated user
    Owner,         \* name of the owner of new objects, or Nobody
    Nobody,        \* no name was given
    Principals,    \* names that get a right, by right and kind
    MaxFaults,     \* bound: failures
    MaxRenames     \* bound: accounts renamed during the startup

Rights == {"view", "change"}
Kinds == {"users", "groups"}

Account == [kind : Kinds, id : Nat, name : AccountNames]

ASSUME FoldAssumption == DOMAIN Fold = AccountNames
ASSUME DirectoriesAssumption ==
    /\ Directories \subseteq SUBSET Account
    /\ \A d \in Directories : IsFiniteSet(d)
ASSUME ConfigurationAssumption ==
    /\ Owner \in AccountNames \cup {Nobody}
    /\ Nobody \notin AccountNames
    /\ Me \in Nat
    /\ \A r \in Rights, k \in Kinds : Principals[r][k] \in Seq(AccountNames)
ASSUME StartupNumbers == MaxFaults \in Nat /\ MaxRenames \in Nat

VARIABLES
    main,       \* how far Run has come
    env,        \* what the workflows have been provided with
    dir,        \* the temporary directory of the store
    looked,     \* how many names have been looked up
    granted,    \* IDs that are to get a right on new objects
    accounts,   \* users and groups, on the server
    result,     \* Run's error
    used,       \* how much of the bounds is used up
    named       \* observer: accounts by all names they had since the start

serverVars == <<accounts, named>>
permissionVars == <<looked, granted>>
startupVars == <<main, env, dir, permissionVars, serverVars, result, used>>

StartupInit ==
    /\ main = "validate"
    /\ env = {}
    /\ dir = "none"
    /\ looked = 0
    /\ granted = {}
    /\ accounts \in Directories
    /\ result = "none"
    /\ used = [requests |-> 0, faults |-> 0, renames |-> 0]
    /\ named = accounts

Fault ==
    /\ used.faults < MaxFaults
    /\ used' = [used EXCEPT !.faults = @ + 1]

-----------------------------------------------------------------------------
(* Validation and the client.                                              *)

\* The workflows are validated; the cataloger instantiates its plugins.
Validate ==
    /\ main = "validate"
    /\ main' = "client"
    /\ env' = env \cup {"facters"}
    /\ UNCHANGED <<dir, permissionVars, serverVars, result, used>>

\* A workflow asks for an early exit, which is no error.
EarlyExit ==
    /\ main = "validate"
    /\ main' = "returned"
    /\ UNCHANGED <<env, dir, permissionVars, serverVars, result, used>>

BuildClient ==
    /\ main = "client"
    /\ main' = "mkdir"
    /\ UNCHANGED <<env, dir, permissionVars, serverVars, result, used>>

Abort ==
    /\ main' = "returned"
    /\ result' = "error"
    /\ UNCHANGED <<env, dir, permissionVars, serverVars>>

\* A plugin cannot be instantiated, the client's flags are bad, or there is no
\* place for a temporary directory.
StartupFails ==
    /\ main \in {"validate", "client", "mkdir"}
    /\ Fault
    /\ Abort

-----------------------------------------------------------------------------
(* openDefaultStore.                                                       *)

MakeDir ==
    /\ main = "mkdir"
    /\ main' = "open"
    /\ dir' = "made"
    /\ UNCHANGED <<env, permissionVars, serverVars, result, used>>

\* The file is opened and indexed, or that fails; either way the directory is
\* removed next, for the file stays usable while it is open.
OpenStore ==
    /\ main = "open"
    /\ main' = "remove"
    /\ \/ UNCHANGED <<result, used>>
       \/ Fault /\ result' = "error"
    /\ UNCHANGED <<env, dir, permissionVars, serverVars>>

\* A plausible bug: the directory is only removed when the store was opened.
DirAfterRemovalUnlessFailed == IF result = "error" THEN dir ELSE "none"
DirAfterRemoval == "none"

\* os.RemoveAll, deferred.
RemoveDir ==
    /\ main = "remove"
    /\ dir' = DirAfterRemoval
    /\ main' = IF result = "error" THEN "returned" ELSE "resolve"
    /\ UNCHANGED <<env, permissionVars, serverVars, result, used>>

\* The directory stays, and Run fails although the store is open.
RemoveFails ==
    /\ main = "remove"
    /\ Fault
    /\ dir' = "stuck"
    /\ main' = "returned"
    /\ result' = "error"
    /\ UNCHANGED <<env, permissionVars, serverVars>>

-----------------------------------------------------------------------------
(* NewObjectResolvers.                                                     *)

LookupsFor(right, kind) ==
    LET names == Principals[right][kind]
    IN  [i \in DOMAIN names |-> [right |-> right, kind |-> kind, name |-> names[i]]]

\* A plausible bug: a copy of the line above it is not adapted.
LookupsCopied ==
    <<[right |-> "owner", kind |-> "users", name |-> Owner]>>
    \o LookupsFor("view", "users") \o LookupsFor("view", "groups")
    \o LookupsFor("change", "users") \o LookupsFor("view", "groups")

\* resolveOwner and resolvePermissions, in this order.
Lookups ==
    <<[right |-> "owner", kind |-> "users", name |-> Owner]>>
    \o LookupsFor("view", "users") \o LookupsFor("view", "groups")
    \o LookupsFor("change", "users") \o LookupsFor("change", "groups")

Upcoming == Lookups[looked + 1]

\* Username.EqualsIgnoringCase, or GetCurrentUser.
Matching(lookup) ==
    IF lookup.name = Nobody
    THEN {a \in accounts : a.kind = "users" /\ a.id = Me}
    ELSE {a \in accounts : a.kind = lookup.kind /\ Fold[a.name] = Fold[lookup.name]}

\* One name is looked up, and its ID added to those that get the right.
LookUp ==
    /\ main = "resolve" /\ looked < Len(Lookups)
    /\ Cardinality(Matching(Upcoming)) = 1
    /\ granted' = granted \cup
          {[right |-> Upcoming.right, kind |-> Upcoming.kind, id |-> a.id] : a \in Matching(Upcoming)}
    /\ looked' = looked + 1
    /\ UNCHANGED <<main, env, dir, serverVars, result, used>>

\* ErrNotFound, ErrAmbiguous, or the request fails.
LookUpFails ==
    /\ main = "resolve" /\ looked < Len(Lookups)
    /\ \/ Cardinality(Matching(Upcoming)) # 1 /\ UNCHANGED used
       \/ Fault
    /\ Abort

\* All requests fail once the context is cancelled.
LookUpCancelled ==
    /\ main = "resolve" /\ looked < Len(Lookups)
    /\ Abort
    /\ UNCHANGED used

\* The administrator renames a user or a group while names are looked up.
\* Names are unique, but not ignoring case.
RenameAccount(a, name) ==
    /\ main = "resolve" /\ looked < Len(Lookups)
    /\ used.renames < MaxRenames
    /\ used' = [used EXCEPT !.renames = @ + 1]
    /\ \A b \in accounts : b.kind = a.kind => b.name # name
    /\ accounts' = (accounts \ {a}) \cup {[a EXCEPT !.name = name]}
    /\ named' = named \cup accounts'
    /\ UNCHANGED <<main, env, dir, permissionVars, result>>

-----------------------------------------------------------------------------
(* Properties.                                                             *)

\* The IDs that get a right.
Granted(right, kind) == {g.id : g \in {h \in granted : h.right = right /\ h.kind = kind}}

\* Those who went by a name, at some time.
Called(kind, name) ==
    {a.id : a \in {b \in named : b.kind = kind /\ Fold[b.name] = Fold[name]}}

Configured(right, kind) == {Principals[right][kind][i] : i \in DOMAIN Principals[right][kind]}

\* Before any object can be created with them, the rights on new objects are
\* complete and no wider than configured, although they are put together by
\* many requests: whoever gets one was called, during the startup, by a name
\* configured for just this right and kind, every configured name has someone,
\* and a name that fits several accounts has stopped the startup
\* (resolveOwner, resolvePermissions).
PermissionsAsNamed ==
    "resolvers" \in env =>
        /\ Cardinality(Granted("owner", "users")) = 1
        /\ Granted("owner", "users") \subseteq
              IF Owner = Nobody THEN {Me} ELSE Called("users", Owner)
        /\ \A r \in Rights, k \in Kinds :
              /\ Granted(r, k) \subseteq UNION {Called(k, n) : n \in Configured(r, k)}
              /\ \A n \in Configured(r, k) :
                    /\ Granted(r, k) \cap Called(k, n) # {}
                    /\ used.renames = 0 => Cardinality(Called(k, n)) = 1

\* However the startup ends, no directory with a store in it is left behind
\* unless it could not be removed: also not when the store in it could not be
\* opened, and not while the program runs (openDefaultStore).
StoreDirRemoved == dir = "made" => main \in {"open", "remove"}
=============================================================================
