--------------------------- MODULE ProgramProofs ----------------------------
(***************************************************************************)
(* Proofs about Program, with its Poller and its Startup, for any number   *)
(* of workflows, delays, accounts, configured rights and bounds.           *)
(***************************************************************************)
EXTENDS Program, FiniteSetTheorems, SequenceTheorems, TLAPS

-----------------------------------------------------------------------------
(* The inductive invariants.                                               *)

Stages == {"validate", "client", "mkdir", "open", "remove", "resolve", "wait", "returned"}

Counts == [requests : Nat, faults : Nat, renames : Nat]

\* Every variable of the loops and of the group has its type.
ProgramTypes ==
    /\ pollers \in [Workflows -> Loop]
    /\ cancelled \in BOOLEAN
    /\ main \in Stages
    /\ result \in {"none", "error"}
    /\ used \in Counts
    /\ http \in {"off", "listen", "ready", "serve", "drain", "done"}
    /\ watcher \in {"off", "wait", "shutdown", "done"}
    /\ receiver \in {"off", "wait", "start", "done"}
    /\ open \in Nat

TokenTypes ==
    notify \in [Notified -> BOOLEAN] /\ unserved \in [Notified -> BOOLEAN]

\* A notification no poll has served lies in the channel.
TokenInv == \A w \in Notified : unserved[w] => notify[w]

\* Workflows, server and receiver exist once the startup is over, the workflows
\* only when the receiver was told to start them.
StagesInv ==
    /\ main \notin {"wait", "returned"} => receiver = "off"
    /\ main = "wait" => receiver # "off"
    /\ receiver = "off" <=> http = "off"
    /\ receiver \in {"off", "wait"} => \A w \in Workflows : pollers[w].phase = "new"
    /\ main = "returned" /\ receiver # "off" => GroupDone

\* The environment fills up on the way there.
EnvInv ==
    /\ main \in {"client", "mkdir", "open", "remove", "resolve"} => "facters" \in env
    /\ receiver # "off" => {"facters", "client", "store", "resolvers"} \subseteq env

\* If nothing failed there is an error only when the startup was cancelled or
\* could not resolve a name, or when the receiver was cancelled; no workflow
\* runs then, or ever will.
ErrorInv ==
    result # "none" /\ used.faults = 0 =>
        \/ main = "returned" /\ receiver = "off"
        \/ receiver = "done" /\ \A w \in Workflows : pollers[w].phase = "new"

LifeInv == ProgramTypes /\ StagesInv /\ EnvInv /\ ErrorInv

\* An account was meant by a configured name when it was looked up.
MeantBy(g, lookup) ==
    /\ g.right = lookup.right /\ g.kind = lookup.kind
    /\ IF lookup.name = Nobody THEN g.id = Me ELSE g.id \in Called(lookup.kind, lookup.name)

\* There is one owner, and one account goes by a name.
OneOwner == \E id : Granted("owner", "users") = {id}

OneCalled(lookup) == \E id : Called(lookup.kind, lookup.name) = {id}

\* The names looked up so far have their accounts, and nobody else has a right.
GrantedInv ==
    /\ looked \in 0..Len(Lookups)
    /\ \A g \in granted : \E i \in 1..looked : MeantBy(g, Lookups[i])
    /\ \A i \in 1..looked : \E g \in granted : MeantBy(g, Lookups[i])
    /\ looked = 0 => granted = {}
    /\ looked > 0 => OneOwner

\* The accounts are among those named, and are all of those if none was renamed.
NamedInv ==
    /\ IsFiniteSet(accounts)
    /\ accounts \subseteq named
    /\ used.renames = 0 =>
          /\ named = accounts
          /\ \A i \in 1..looked : Lookups[i].name # Nobody => OneCalled(Lookups[i])

\* The resolvers are there when all names have been looked up.
ResolversInv ==
    "resolvers" \in env => looked = Len(Lookups) /\ main \in {"wait", "returned"}

PermissionsInv == GrantedInv /\ NamedInv /\ ResolversInv

-----------------------------------------------------------------------------
(* Steps.                                                                  *)

\* One step of a loop, or of all of them.
LoopStep ==
    \/ \E w \in Workflows :
          \/ receiver = "start" /\ StartPolling(w)
          \/ PollReturns(w) \/ TakeNotification(w) \/ Sleep(w) \/ TimerFires(w) \/ StopPolling(w)
    \/ Tick

\* Whatever the program does, its loops only ever take their own steps.
LEMMA LoopsStepAlone ==
    ASSUME [Next]_vars
    PROVE  UNCHANGED <<pollers, notify, unserved>> \/ NotifyPostConsume \/ LoopStep
<1>1. CASE Main \/ NoStart \/ PrepareFails \/ Rename \/ Signal
  BY <1>1 DEF Main, Prepare, StartGroup, Return, NoStart, PrepareFails, Rename, Signal, pollerVars
<1>2. CASE Http \/ ListenFails \/ ServeFails \/ Watcher \/ ReceiverCancelled \/ Request
  BY <1>2 DEF Http, Listen, Ready, ServerClosed, ServeReturns, ListenFails, ServeFails, Watcher,
              BeginShutdown, EndShutdown, ReceiverCancelled, Request, pollerVars
<1>3. CASE Receiver
  BY <1>3 DEF Receiver, ReceiverReturns, StartWorkflow, LoopStep, pollerVars
<1>4. CASE HandleRequest \/ Time \/ \E w \in Workflows : WorkflowStops(w) \/ WorkflowPolls(w)
  BY <1>4 DEF HandleRequest, Time, WorkflowStops, WorkflowPolls, LoopStep
<1>5. CASE UNCHANGED vars
  BY <1>5 DEF vars, pollerVars
<1>6. QED
  BY <1>1, <1>2, <1>3, <1>4, <1>5 DEF Next

-----------------------------------------------------------------------------
(* Notifications.                                                          *)

\* A loop takes the token only to begin a poll.
LEMMA LoopsKeepTokens ==
    ASSUME TokenTypes, TokenInv, LoopStep
    PROVE  TokenTypes' /\ TokenInv'
<1>1. ASSUME NEW w \in Workflows, BeginPoll(w), UNCHANGED notify
      PROVE  TokenTypes' /\ TokenInv'
  BY <1>1 DEF BeginPoll, TokenTypes, TokenInv
<1>2. ASSUME NEW w \in Workflows, StartPolling(w) \/ Sleep(w) \/ TimerFires(w)
      PROVE  TokenTypes' /\ TokenInv'
  <2>1. notify' = notify /\ (unserved' = unserved \/ BeginPoll(w))
    BY <1>2 DEF StartPolling, Sleep, TimerFires
  <2>2. QED
    BY <1>1, <2>1 DEF TokenTypes, TokenInv
<1>3. ASSUME NEW w \in Workflows, PollReturns(w) \/ StopPolling(w) \/ Tick
      PROVE  UNCHANGED <<notify, unserved>>
  BY <1>3 DEF PollReturns, StopPolling, Tick
<1>4. ASSUME NEW w \in Workflows, TakeNotification(w)
      PROVE  TokenTypes' /\ TokenInv'
  BY <1>4 DEF TakeNotification, BeginPoll, TokenTypes, TokenInv
<1>5. CASE Tick
  BY <1>5 DEF Tick, TokenTypes, TokenInv
<1>6. CASE UNCHANGED <<notify, unserved>>
  BY <1>6 DEF TokenTypes, TokenInv
<1>7. QED
  BY <1>2, <1>3, <1>4, <1>5, <1>6 DEF LoopStep

\* No token is in a channel and no loop runs at the beginning.
LEMMA InitTokens == Init => TokenTypes /\ TokenInv
  BY DEF Init, PollerInit, TokenTypes, TokenInv

\* Every step keeps the tokens of the notifications nobody has served.
LEMMA NextTokens == TokenTypes /\ TokenInv /\ [Next]_vars => TokenTypes' /\ TokenInv'
<1> SUFFICES ASSUME TokenTypes, TokenInv, [Next]_vars
             PROVE  TokenTypes' /\ TokenInv'
  OBVIOUS
<1>1. CASE UNCHANGED <<pollers, notify, unserved>>
  BY <1>1 DEF TokenTypes, TokenInv
<1>2. CASE NotifyPostConsume
  BY <1>2 DEF NotifyPostConsume, HasToken, TokenTypes, TokenInv
<1>3. CASE LoopStep
  BY <1>3, LoopsKeepTokens
<1>4. QED
  BY <1>1, <1>2, <1>3, LoopsStepAlone

\* No loop ever sleeps through a notification that came while it was polling, or
\* between its two selects.
THEOREM NotificationsWakeLoops == Spec => []NoLostWakeup
<1>1. TokenTypes /\ TokenInv => NoLostWakeup
  BY DEF TokenInv, NoLostWakeup
<1>2. QED
  BY <1>1, InitTokens, NextTokens, PTL DEF Spec

-----------------------------------------------------------------------------
(* The store's directory.                                                  *)

\* The directory exists only from its creation to its removal, whatever fails.
THEOREM StoreDirsRemoved == Spec => []StoreDirRemoved
<1>1. Init => StoreDirRemoved
  BY DEF Init, StartupInit, StoreDirRemoved
<1>2. StoreDirRemoved /\ [Next]_vars => StoreDirRemoved'
  <2> SUFFICES ASSUME StoreDirRemoved, [Next]_vars
               PROVE  StoreDirRemoved'
    OBVIOUS
  <2>1. CASE Prepare
    BY <2>1 DEF Prepare, Validate, BuildClient, MakeDir, OpenStore, RemoveDir, LookUp,
                DirAfterRemoval, StoreDirRemoved
  <2>2. CASE PrepareFails
    BY <2>2 DEF PrepareFails, StartupFails, RemoveFails, LookUpFails, LookUpCancelled, Abort,
                StoreDirRemoved
  <2>3. CASE NoStart \/ Rename \/ StartGroup \/ Return
    BY <2>3 DEF NoStart, EarlyExit, Rename, RenameAccount, StartGroup, Return, prepared,
                StoreDirRemoved
  <2>4. CASE UNCHANGED <<main, dir>>
    BY <2>4 DEF StoreDirRemoved
  <2>5. QED
    BY <2>1, <2>2, <2>3, <2>4
       DEF Next, Main, Signal, Http, Listen, Ready, ServerClosed, ServeReturns, ListenFails,
           ServeFails, Watcher, BeginShutdown, EndShutdown, Receiver, ReceiverReturns,
           StartWorkflow, ReceiverCancelled, Request, HandleRequest, WorkflowStops,
           WorkflowPolls, Time, vars, programVars, startupVars, prepared
<1>3. QED
  BY <1>1, <1>2, PTL DEF Spec

-----------------------------------------------------------------------------
(* Types.                                                                  *)

\* A delay is a number, whatever its jitter.
LEMMA DelayType ==
    ASSUME NEW w \in Workflows, NEW delay \in nextDelay(w)
    PROVE  delay \in Int
<1>1. Interval[w] \in Nat /\ MinDelay[w] \in Nat /\ MaxDelay[w] \in Nat
  BY DelayAssumption
<1>2. Clamped(w) \in Int
  BY <1>1 DEF Clamped
<1>3. PICK j \in Jitters : delay = Clamped(w) + (Clamped(w) * j) \div 100
  BY DEF nextDelay
<1>4. j \in Int
  BY DelayAssumption
<1>5. Clamped(w) * j \in Int
  BY <1>2, <1>4
<1>6. (Clamped(w) * j) \div 100 \in Int
  BY <1>5
<1>7. QED
  BY <1>2, <1>3, <1>6

\* A new loop is a loop in whichever phase it is begun.
LEMMA NewLoopType ==
    \A phase \in {"new", "poll", "check", "sleep", "stopped"} :
        [NewLoop EXCEPT !.phase = phase] \in Loop
  BY DEF NewLoop, Loop

\* A loop's own steps keep the loops' types.
LEMMA LoopsType ==
    ASSUME pollers \in [Workflows -> Loop], LoopStep
    PROVE  pollers' \in [Workflows -> Loop]
<1>1. ASSUME NEW w \in Workflows, NEW phase \in {"poll", "check", "stopped"}, GoTo(w, phase)
      PROVE  pollers' \in [Workflows -> Loop]
  BY <1>1, NewLoopType DEF GoTo
<1>2. ASSUME NEW w \in Workflows,
             \/ StartPolling(w) \/ PollReturns(w) \/ TakeNotification(w)
             \/ TimerFires(w) \/ StopPolling(w)
      PROVE  pollers' \in [Workflows -> Loop]
  BY <1>1, <1>2 DEF StartPolling, PollReturns, TakeNotification, TimerFires, StopPolling, BeginPoll
<1>3. ASSUME NEW w \in Workflows, Sleep(w)
      PROVE  pollers' \in [Workflows -> Loop]
  <2>1. PICK delay \in nextDelay(w) :
           IF delay > 0
           THEN pollers' = [pollers EXCEPT ![w] =
                               [phase |-> "sleep", delay |-> delay, left |-> delay]]
           ELSE BeginPoll(w)
    BY <1>3 DEF Sleep
  <2>2. delay \in Int
    BY <2>1, DelayType
  <2>3. CASE delay > 0
    <3>1. [phase |-> "sleep", delay |-> delay, left |-> delay] \in Loop
      BY <2>2, <2>3 DEF Loop
    <3>2. QED
      BY <2>1, <2>3, <3>1
  <2>4. CASE ~(delay > 0)
    BY <1>1, <2>1, <2>4 DEF BeginPoll
  <2>5. QED
    BY <2>3, <2>4
<1>4. CASE Tick
  <2>1. ASSUME NEW w \in Workflows, pollers[w].phase = "sleep"
        PROVE  [pollers[w] EXCEPT !.left = @ - 1] \in Loop
    <3>1. pollers[w].left \in Nat /\ pollers[w].left > 0
      BY <1>4, <2>1 DEF Tick, Loop
    <3>2. QED
      BY <3>1 DEF Loop
  <2>2. QED
    BY <1>4, <2>1 DEF Tick
<1>5. QED
  BY <1>2, <1>3, <1>4 DEF LoopStep

\* So do all steps.
LEMMA NextLoopsType ==
    ASSUME pollers \in [Workflows -> Loop], [Next]_vars
    PROVE  pollers' \in [Workflows -> Loop]
  BY LoopsStepAlone, LoopsType DEF NotifyPostConsume

\* Counting a failure, a request or a renaming keeps the counts.
LEMMA CountsType ==
    ASSUME used \in Counts
    PROVE  /\ used.requests \in Nat /\ used.faults \in Nat /\ used.renames \in Nat
           /\ [used EXCEPT !.requests = @ + 1] \in Counts
           /\ [used EXCEPT !.faults = @ + 1] \in Counts
           /\ [used EXCEPT !.renames = @ + 1] \in Counts
  BY DEF Counts

\* A fault is counted, and nothing else is.
LEMMA FaultCounts ==
    ASSUME used \in Counts, Fault
    PROVE  /\ used' \in Counts
           /\ used'.faults = used.faults + 1 /\ used'.faults > 0
           /\ used'.renames = used.renames
  BY CountsType DEF Fault, Counts

\* Nothing runs at the beginning, so that all variables have their types.
LEMMA InitProgramTypes == Init => ProgramTypes
<1> SUFFICES ASSUME Init
             PROVE  ProgramTypes
  OBVIOUS
<1>1. NewLoop \in Loop
  BY DEF NewLoop, Loop
<1>2. used \in Counts
  BY DEF Init, StartupInit, Counts
<1>3. QED
  BY <1>1, <1>2 DEF Init, PollerInit, StartupInit, ProgramTypes, Stages

\* Every step keeps the types.
LEMMA NextProgramTypes == ProgramTypes /\ [Next]_vars => ProgramTypes'
<1> SUFFICES ASSUME ProgramTypes, [Next]_vars
             PROVE  /\ cancelled' \in BOOLEAN /\ main' \in Stages
                    /\ result' \in {"none", "error"} /\ used' \in Counts
                    /\ http' \in {"off", "listen", "ready", "serve", "drain", "done"}
                    /\ watcher' \in {"off", "wait", "shutdown", "done"}
                    /\ receiver' \in {"off", "wait", "start", "done"}
                    /\ open' \in Nat
  BY NextLoopsType DEF ProgramTypes
<1>t. /\ used \in Counts /\ cancelled \in BOOLEAN /\ main \in Stages
      /\ result \in {"none", "error"}
      /\ http \in {"off", "listen", "ready", "serve", "drain", "done"}
      /\ watcher \in {"off", "wait", "shutdown", "done"}
      /\ receiver \in {"off", "wait", "start", "done"}
      /\ open \in Nat
  BY DEF ProgramTypes
<1> DEFINE Typed == /\ cancelled' \in BOOLEAN /\ main' \in Stages
                    /\ result' \in {"none", "error"} /\ used' \in Counts
                    /\ http' \in {"off", "listen", "ready", "serve", "drain", "done"}
                    /\ watcher' \in {"off", "wait", "shutdown", "done"}
                    /\ receiver' \in {"off", "wait", "start", "done"}
                    /\ open' \in Nat
<1>1. CASE Prepare
  <2>1. used' \in Counts
    BY <1>1, <1>t, FaultCounts DEF Prepare, Validate, BuildClient, MakeDir, OpenStore,
                                   RemoveDir, LookUp
  <2>2. QED
    BY <1>1, <1>t, <2>1 DEF Prepare, Validate, BuildClient, MakeDir, OpenStore, RemoveDir, LookUp,
                            pollerVars, groupVars, Stages
<1>2. CASE PrepareFails
  <2>1. used' \in Counts
    BY <1>2, <1>t, FaultCounts DEF PrepareFails, StartupFails, RemoveFails, LookUpFails,
                                   LookUpCancelled
  <2>2. QED
    BY <1>2, <1>t, <2>1 DEF PrepareFails, StartupFails, RemoveFails, LookUpFails,
                            LookUpCancelled, Abort, pollerVars, groupVars, Stages
<1>3. CASE NoStart \/ Rename
  BY <1>3, <1>t, CountsType DEF NoStart, EarlyExit, Rename, RenameAccount, pollerVars, groupVars,
                                Stages
<1>4. CASE StartGroup \/ Return \/ Signal
  BY <1>4, <1>t DEF StartGroup, Return, Signal, pollerVars, programVars, startupVars, groupVars,
                    Stages
<1>5. CASE Http \/ Receiver \/ BeginShutdown
  BY <1>5, <1>t DEF Http, Listen, Ready, ServerClosed, ServeReturns, Receiver, ReceiverReturns,
                    StartWorkflow, StartPolling, BeginShutdown, pollerVars, programVars,
                    startupVars, groupVars
<1>6. CASE ListenFails \/ ServeFails \/ ReceiverCancelled
  BY <1>6, <1>t, FaultCounts DEF ListenFails, ServeFails, ReceiverCancelled, Report
<1>7. CASE EndShutdown
  BY <1>7, <1>t, FaultCounts DEF EndShutdown, pollerVars
<1>8. CASE Request
  BY <1>8, <1>t, CountsType DEF Request, pollerVars
<1>9. CASE HandleRequest
  BY <1>9, <1>t DEF HandleRequest, NotifyPostConsume
<1>10. ASSUME NEW w \in Workflows, WorkflowStops(w) \/ WorkflowPolls(w)
       PROVE  Typed
  BY <1>10, <1>t DEF WorkflowStops, StopPolling, StopError, WorkflowPolls, PollReturns,
                     TakeNotification, Sleep, TimerFires, programVars, startupVars, groupVars
<1>11. CASE Time
  BY <1>11, <1>t DEF Time, Tick, programVars, startupVars, groupVars
<1>12. CASE UNCHANGED vars
  BY <1>12, <1>t DEF vars, pollerVars, programVars, startupVars, groupVars
<1>13. QED
  BY <1>1, <1>2, <1>3, <1>4, <1>5, <1>6, <1>7, <1>8, <1>9, <1>10, <1>11, <1>12
     DEF Next, Main, Watcher

-----------------------------------------------------------------------------
(* The program's life.                                                     *)

\* What steps of a loop do to its phase: it leaves "new" only when it is started,
\* and is over once it has stopped.
LEMMA LoopPhases ==
    ASSUME pollers \in [Workflows -> Loop], LoopStep, NEW w \in Workflows
    PROVE  /\ receiver # "start" /\ pollers[w].phase = "new" => pollers'[w].phase = "new"
           /\ pollers[w].phase = "stopped" => pollers'[w].phase = "stopped"
           /\ pollers[w].phase # "new" => pollers'[w].phase # "new"
<1>1. ASSUME NEW v \in Workflows, NEW phase, GoTo(v, phase)
      PROVE  pollers'[v].phase = phase /\ \A u \in Workflows \ {v} : pollers'[u] = pollers[u]
  <2>1. [NewLoop EXCEPT !.phase = phase].phase = phase
    BY DEF NewLoop
  <2>2. pollers' = [pollers EXCEPT ![v] = [NewLoop EXCEPT !.phase = phase]]
    BY <1>1 DEF GoTo
  <2>3. QED
    BY <2>1, <2>2
<1>2. ASSUME NEW v \in Workflows, receiver = "start" /\ StartPolling(v)
      PROVE  /\ pollers[v].phase = "new"
             /\ pollers'[v].phase = "poll" /\ \A u \in Workflows \ {v} : pollers'[u] = pollers[u]
  BY <1>1, <1>2 DEF StartPolling, BeginPoll
<1>3. ASSUME NEW v \in Workflows,
             PollReturns(v) \/ TakeNotification(v) \/ TimerFires(v) \/ StopPolling(v)
      PROVE  /\ pollers[v].phase \notin {"new", "stopped"}
             /\ pollers'[v].phase # "new" /\ \A u \in Workflows \ {v} : pollers'[u] = pollers[u]
  <2>1. pollers[v].phase \notin {"new", "stopped"}
    BY <1>3 DEF PollReturns, TakeNotification, TimerFires, StopPolling
  <2>2. PICK phase \in {"poll", "check", "stopped"} : GoTo(v, phase)
    BY <1>3 DEF PollReturns, TakeNotification, TimerFires, StopPolling, BeginPoll
  <2>3. QED
    BY <1>1, <2>1, <2>2
<1>4. ASSUME NEW v \in Workflows, Sleep(v)
      PROVE  /\ pollers[v].phase \notin {"new", "stopped"}
             /\ pollers'[v].phase # "new" /\ \A u \in Workflows \ {v} : pollers'[u] = pollers[u]
  <2>1. pollers[v].phase = "check"
    BY <1>4 DEF Sleep
  <2>2. PICK delay \in nextDelay(v) :
           \/ pollers' = [pollers EXCEPT ![v] =
                             [phase |-> "sleep", delay |-> delay, left |-> delay]]
           \/ BeginPoll(v)
    BY <1>4 DEF Sleep
  <2>3. CASE pollers' = [pollers EXCEPT ![v] =
                            [phase |-> "sleep", delay |-> delay, left |-> delay]]
    BY <2>1, <2>3
  <2>4. CASE BeginPoll(v)
    BY <1>1, <2>1, <2>4 DEF BeginPoll
  <2>5. QED
    BY <2>2, <2>3, <2>4
<1>5. CASE Tick
  <2>1. pollers[w] \in Loop
    OBVIOUS
  <2>2. pollers'[w] = pollers[w] \/ pollers'[w] = [pollers[w] EXCEPT !.left = @ - 1]
    BY <1>5 DEF Tick
  <2>3. pollers'[w].phase = pollers[w].phase
    BY <2>1, <2>2 DEF Loop
  <2>4. QED
    BY <2>3
<1>6. QED
  BY <1>2, <1>3, <1>4, <1>5 DEF LoopStep

\* So a stage at which no workflow runs lasts until the receiver starts them.
LEMMA LoopsStayPut ==
    ASSUME ProgramTypes, LoopStep \/ UNCHANGED pollers
    PROVE  /\ receiver # "start" /\ (\A w \in Workflows : pollers[w].phase = "new")
                 => \A w \in Workflows : pollers'[w].phase = "new"
           /\ receiver # "start" /\ (\A w \in Workflows : pollers[w].phase \in {"new", "stopped"})
                 => \A w \in Workflows : pollers'[w].phase \in {"new", "stopped"}
<1>1. CASE LoopStep
  BY <1>1, LoopPhases DEF ProgramTypes
<1>2. CASE UNCHANGED pollers
  BY <1>2
<1>3. QED
  BY <1>1, <1>2

\* Nothing runs at the beginning that would need an environment.
LEMMA InitLife == Init => LifeInv
<1> SUFFICES ASSUME Init
             PROVE  StagesInv /\ EnvInv /\ ErrorInv
  BY InitProgramTypes DEF LifeInv
<1>1. \A w \in Workflows : pollers[w].phase = "new"
  BY DEF Init, PollerInit, NewLoop
<1>2. main = "validate" /\ receiver = "off" /\ http = "off" /\ result = "none"
  BY DEF Init, StartupInit
<1>3. QED
  BY <1>1, <1>2 DEF StagesInv, EnvInv, ErrorInv

\* Every step keeps the stages, the environment and the error in line.
LEMMA NextLife == LifeInv /\ [Next]_vars => LifeInv'
<1> SUFFICES ASSUME LifeInv, [Next]_vars
             PROVE  StagesInv' /\ EnvInv' /\ ErrorInv'
  BY NextProgramTypes DEF LifeInv
<1>t. ProgramTypes /\ StagesInv /\ EnvInv /\ ErrorInv
  BY DEF LifeInv
<1>u. used \in Counts
  BY <1>t DEF ProgramTypes
<1>1. CASE Prepare
  <2>1. UNCHANGED <<pollers, http, receiver>> /\ main \notin {"wait", "returned"}
    BY <1>1 DEF Prepare, Validate, BuildClient, MakeDir, OpenStore, RemoveDir, LookUp,
                pollerVars, groupVars
  <2>2. main' # "wait" /\ receiver = "off" /\ http = "off"
    BY <1>1, <1>t, <2>1 DEF Prepare, Validate, BuildClient, MakeDir, OpenStore, RemoveDir, LookUp,
                            StagesInv
  <2>3. StagesInv'
    BY <1>t, <2>1, <2>2 DEF StagesInv
  <2>4. EnvInv'
    BY <1>1, <1>t, <2>1, <2>2 DEF Prepare, Validate, BuildClient, MakeDir, OpenStore, RemoveDir,
                                  LookUp, EnvInv
  <2>5. result # "none" => used.faults # 0
    BY <1>t, <2>1, <2>2 DEF ErrorInv
  <2>6. result' # "none" => used'.faults # 0
    BY <1>1, <1>u, <2>5, FaultCounts DEF Prepare, Validate, BuildClient, MakeDir, OpenStore,
                                         RemoveDir, LookUp
  <2>7. QED
    BY <2>3, <2>4, <2>6 DEF ErrorInv
<1>2. CASE PrepareFails \/ NoStart
  <2>1. UNCHANGED <<pollers, http, receiver>> /\ main \notin {"wait", "returned"}
    BY <1>2 DEF PrepareFails, StartupFails, RemoveFails, LookUpFails, LookUpCancelled,
                NoStart, EarlyExit, pollerVars, groupVars
  <2>2. main' = "returned" /\ env' = env
    BY <1>2 DEF PrepareFails, StartupFails, RemoveFails, LookUpFails, LookUpCancelled, Abort,
                NoStart, EarlyExit
  <2>3. receiver = "off"
    BY <1>t, <2>1 DEF StagesInv
  <2>4. QED
    BY <1>t, <2>1, <2>2, <2>3 DEF StagesInv, EnvInv, ErrorInv
<1>3. CASE Rename
  <2>1. UNCHANGED <<pollers, http, receiver, main, env, result>>
    BY <1>3 DEF Rename, RenameAccount, pollerVars, groupVars
  <2>2. used'.faults = used.faults
    BY <1>3, <1>u, CountsType DEF Rename, RenameAccount, Counts
  <2>3. QED
    BY <1>t, <2>1, <2>2 DEF StagesInv, EnvInv, ErrorInv, GroupDone
<1>4. CASE StartGroup
  <2>1. /\ UNCHANGED <<pollers, result, used>> /\ main = "resolve" /\ main' = "wait"
        /\ http' = "listen" /\ receiver' = "wait" /\ env' = EnvComplete
    BY <1>4 DEF StartGroup, pollerVars
  <2>2. receiver = "off" /\ "facters" \in env
    BY <1>t, <2>1 DEF StagesInv, EnvInv
  <2>3. QED
    BY <1>t, <2>1, <2>2 DEF StagesInv, EnvInv, EnvComplete, ErrorInv
<1>5. CASE Return
  <2>1. /\ UNCHANGED <<pollers, result, used, env, http, receiver>>
        /\ main' = "returned" /\ GroupDone
    BY <1>5 DEF Return, prepared, groupVars
  <2>2. QED
    BY <1>t, <2>1 DEF StagesInv, EnvInv, ErrorInv, GroupDone
<1>6. CASE Signal \/ Watcher \/ Request \/ HandleRequest
  <2>1. UNCHANGED <<pollers, main, env, result, http, receiver>>
    BY <1>6 DEF Signal, Watcher, BeginShutdown, EndShutdown, Request, HandleRequest,
                NotifyPostConsume, prepared, pollerVars, programVars, startupVars, groupVars
  <2>2. used'.faults = used.faults \/ Fault
    BY <1>6, <1>u, CountsType DEF Signal, Watcher, BeginShutdown, EndShutdown, Request,
                                  HandleRequest, Counts, programVars, startupVars
  <2>3. used'.faults = 0 => used.faults = 0
    BY <1>u, <2>2, FaultCounts
  <2>4. QED
    BY <1>t, <2>1, <2>3 DEF StagesInv, EnvInv, ErrorInv, GroupDone
<1>7. CASE Listen \/ Ready \/ ServerClosed \/ ServeReturns
  <2>1. /\ UNCHANGED <<pollers, main, env, result, used>>
        /\ http \notin {"off", "done"} /\ http' # "off"
        /\ \/ receiver' = receiver
           \/ receiver = "wait" /\ receiver' = "start"
    BY <1>7 DEF Listen, Ready, ServerClosed, ServeReturns, prepared, pollerVars
  <2>2. main = "wait" /\ receiver # "off"
    BY <1>t, <2>1 DEF StagesInv, GroupDone, ProgramTypes, Stages
  <2>3. result # "none" /\ used.faults = 0 => receiver = "done"
    BY <1>t, <2>2 DEF ErrorInv
  <2>4. QED
    BY <1>t, <2>1, <2>2, <2>3 DEF StagesInv, EnvInv, ErrorInv
<1>8. CASE ListenFails \/ ServeFails
  <2>1. /\ UNCHANGED <<pollers, main, env, receiver>> /\ http \notin {"off", "done"}
        /\ http' = "done" /\ Fault
    BY <1>8 DEF ListenFails, ServeFails, prepared
  <2>2. used'.faults # 0
    BY <1>u, <2>1, FaultCounts
  <2>3. main = "wait" /\ receiver # "off"
    BY <1>t, <2>1 DEF StagesInv, GroupDone, ProgramTypes, Stages
  <2>4. QED
    BY <1>t, <2>1, <2>2, <2>3 DEF StagesInv, EnvInv, ErrorInv
<1>9. CASE ReceiverCancelled
  <2>1. /\ UNCHANGED <<pollers, main, env, http>> /\ receiver = "wait" /\ receiver' = "done"
    BY <1>9 DEF ReceiverCancelled, prepared
  <2>2. main = "wait" /\ http # "off" /\ \A w \in Workflows : pollers[w].phase = "new"
    BY <1>t, <2>1 DEF StagesInv, GroupDone, ProgramTypes, Stages
  <2>3. QED
    BY <1>t, <2>1, <2>2 DEF StagesInv, EnvInv, ErrorInv
<1>10. CASE ReceiverReturns
  <2>1. /\ UNCHANGED <<pollers, main, env, http, result, used>>
        /\ receiver = "start" /\ receiver' = "done"
    BY <1>10 DEF ReceiverReturns, prepared, pollerVars
  <2>2. main = "wait" /\ http # "off"
    BY <1>t, <2>1 DEF StagesInv, GroupDone, ProgramTypes, Stages
  <2>3. result # "none" => used.faults # 0
    BY <1>t, <2>1, <2>2 DEF ErrorInv
  <2>4. QED
    BY <1>t, <2>1, <2>2, <2>3 DEF StagesInv, EnvInv, ErrorInv
<1>11. ASSUME LoopStep, UNCHANGED <<main, env, http, receiver, used>>,
              result' = result
       PROVE  StagesInv' /\ EnvInv' /\ ErrorInv'
  BY <1>11, <1>t, LoopsStayPut DEF StagesInv, EnvInv, ErrorInv, GroupDone
<1>12. ASSUME NEW w \in Workflows, StartWorkflow(w) \/ WorkflowStops(w) \/ WorkflowPolls(w) \/ Time
       PROVE  StagesInv' /\ EnvInv' /\ ErrorInv'
  <2>1. LoopStep
    BY <1>12 DEF StartWorkflow, WorkflowStops, WorkflowPolls, Time, LoopStep
  <2>2. UNCHANGED <<main, env, http, receiver, used>> /\ result' = result
    BY <1>12 DEF StartWorkflow, WorkflowStops, StopError, WorkflowPolls, Time, prepared,
                 programVars, startupVars, groupVars
  <2>3. QED
    BY <1>11, <2>1, <2>2
<1>13. CASE Time
  <2>1. LoopStep /\ UNCHANGED <<main, env, http, receiver, used, result>>
    BY <1>13 DEF Time, LoopStep, programVars, startupVars, groupVars
  <2>2. QED
    BY <1>11, <2>1
<1>14. CASE UNCHANGED vars
  BY <1>14, <1>t DEF vars, pollerVars, programVars, startupVars, groupVars,
                     StagesInv, EnvInv, ErrorInv, GroupDone
<1>15. QED
  BY <1>1, <1>2, <1>3, <1>4, <1>5, <1>6, <1>7, <1>8, <1>9, <1>10, <1>12, <1>13, <1>14
     DEF Next, Main, Http, Receiver

\* The invariant holds in all states.
LEMMA Life == Spec => []LifeInv
  BY InitLife, NextLife, PTL DEF Spec

\* No workflow ever asks the environment for something that is not there yet.
THEOREM EnvironmentReady == Spec => []EnvReadyForPolls
<1>1. LifeInv => EnvReadyForPolls
  BY DEF LifeInv, StagesInv, EnvInv, EnvReadyForPolls, AsksFor
<1>2. QED
  BY <1>1, Life, PTL

\* When Run has returned, however that came about, no workflow runs and the server
\* does not listen, and neither ever will.
THEOREM NothingOutlivesRun == Spec => []NothingRunsAfterReturn
<1>1. LifeInv => NothingRunsAfterReturn
  BY DEF LifeInv, StagesInv, GroupDone, NothingRunsAfterReturn
<1>2. QED
  BY <1>1, Life, PTL

\* A program that came as far as starting its workflows ends without an error
\* unless something failed.
THEOREM StartedEndsClean == Spec => []CleanExit
<1>1. LifeInv => CleanExit
  BY DEF LifeInv, StagesInv, ErrorInv, Started, CleanExit
<1>2. QED
  BY <1>1, Life, PTL

-----------------------------------------------------------------------------
(* The names that are looked up.                                           *)

Lookup == [right : Rights \cup {"owner"}, kind : Kinds, name : AccountNames \cup {Nobody}]

OwnerLookup == [right |-> "owner", kind |-> "users", name |-> Owner]

ConfiguredLookup == {l \in Lookup : l.right \in Rights /\ l.name \in Configured(l.right, l.kind)}

LookupOf(r, k, n) == [right |-> r, kind |-> k, name |-> n]

LookupsOf(r, k) == {LookupOf(r, k, n) : n \in Configured(r, k)}

\* Such lookups begin with the owner's, go on with configured names, and have
\* those in "all" among them.
OwnerFirst(s, all) ==
    /\ s \in Seq(Lookup)
    /\ Len(s) >= 1
    /\ s[1] = OwnerLookup
    /\ \A i \in 2..Len(s) : s[i] \in ConfiguredLookup
    /\ \A l \in all : \E i \in 1..Len(s) : s[i] = l

\* The lookups for one right and kind are those of its configured names.
LEMMA LookupsForNames ==
    ASSUME NEW r \in Rights, NEW k \in Kinds
    PROVE  /\ LookupsFor(r, k) \in Seq(ConfiguredLookup)
           /\ \A l \in LookupsOf(r, k) : \E i \in 1..Len(LookupsFor(r, k)) : LookupsFor(r, k)[i] = l
<1> DEFINE names == Principals[r][k]
           lookups == LookupsFor(r, k)
<1>1. names \in Seq(AccountNames)
  BY ConfigurationAssumption
<1>2. Len(names) \in Nat /\ DOMAIN names = 1..Len(names)
  BY <1>1, LenProperties
<1>3. lookups = [i \in 1..Len(names) |-> LookupOf(r, k, names[i])]
  BY <1>2 DEF LookupsFor, LookupOf
<1>4. \A i \in 1..Len(names) : LookupOf(r, k, names[i]) \in ConfiguredLookup
  <2> SUFFICES ASSUME NEW i \in 1..Len(names)
               PROVE  LookupOf(r, k, names[i]) \in ConfiguredLookup
    OBVIOUS
  <2>1. names[i] \in AccountNames
    BY <1>1, ElementOfSeq
  <2>2. names[i] \in Configured(r, k)
    BY <1>2 DEF Configured
  <2>3. QED
    BY <2>1, <2>2 DEF LookupOf, ConfiguredLookup, Lookup
<1>5. lookups \in [1..Len(names) -> ConfiguredLookup]
  BY <1>3, <1>4
<1>6. lookups \in Seq(ConfiguredLookup) /\ Len(lookups) = Len(names)
  BY <1>2, <1>5, SeqDef
<1>7. \A n \in Configured(r, k) : \E i \in 1..Len(names) : names[i] = n
  BY <1>2 DEF Configured
<1>8. QED
  BY <1>3, <1>6, <1>7 DEF LookupsOf

\* A configured name is somebody's.
LEMMA NobodyConfigured ==
    ASSUME NEW r \in Rights, NEW k \in Kinds
    PROVE  Nobody \notin Configured(r, k)
<1>1. Principals[r][k] \in Seq(AccountNames) /\ Nobody \notin AccountNames
  BY ConfigurationAssumption
<1>2. \A i \in DOMAIN Principals[r][k] : Principals[r][k][i] \in AccountNames
  BY <1>1, LenProperties, ElementOfSeq
<1>3. QED
  BY <1>1, <1>2 DEF Configured

\* Going on with configured names.
LEMMA GoOn ==
    ASSUME NEW s, NEW all, OwnerFirst(s, all),
           NEW t \in Seq(ConfiguredLookup), NEW more,
           \A l \in more : \E i \in 1..Len(t) : t[i] = l
    PROVE  OwnerFirst(s \o t, all \cup more)
<1>1. s \in Seq(Lookup) /\ t \in Seq(Lookup)
  <2>1. ConfiguredLookup \subseteq Lookup
    BY DEF ConfiguredLookup
  <2>2. QED
    BY <2>1, SeqMonotonic DEF OwnerFirst
<1>2. /\ s \o t \in Seq(Lookup)
      /\ Len(s) \in Nat /\ Len(t) \in Nat
      /\ Len(s \o t) = Len(s) + Len(t)
      /\ \A i \in 1..Len(s) + Len(t) :
            (s \o t)[i] = IF i <= Len(s) THEN s[i] ELSE t[i - Len(s)]
  BY <1>1, ConcatProperties, LenProperties
<1>3. Len(s) >= 1
  BY DEF OwnerFirst
<1>4. (s \o t)[1] = OwnerLookup
  BY <1>2, <1>3 DEF OwnerFirst
<1>5. ASSUME NEW i \in 2..Len(s \o t)
      PROVE  (s \o t)[i] \in ConfiguredLookup
  <2>1. CASE i <= Len(s)
    BY <1>2, <1>5, <2>1 DEF OwnerFirst
  <2>2. CASE ~(i <= Len(s))
    <3>1. i - Len(s) \in 1..Len(t) /\ i \in 1..Len(s) + Len(t)
      BY <1>2, <2>2
    <3>2. (s \o t)[i] = t[i - Len(s)]
      BY <1>2, <2>2, <3>1
    <3>3. QED
      BY <3>1, <3>2, ElementOfSeq
  <2>3. QED
    BY <2>1, <2>2
<1>6. ASSUME NEW l \in all
      PROVE  \E i \in 1..Len(s \o t) : (s \o t)[i] = l
  <2>1. PICK i \in 1..Len(s) : s[i] = l
    BY DEF OwnerFirst
  <2>2. i \in 1..Len(s \o t) /\ (s \o t)[i] = l
    BY <1>2, <2>1
  <2>3. QED
    BY <2>2
<1>7. ASSUME NEW l \in more
      PROVE  \E i \in 1..Len(s \o t) : (s \o t)[i] = l
  <2>1. PICK i \in 1..Len(t) : t[i] = l
    OBVIOUS
  <2>2. Len(s) + i \in 1..Len(s) + Len(t) /\ ~(Len(s) + i <= Len(s)) /\ (Len(s) + i) - Len(s) = i
    BY <1>2
  <2>3. (s \o t)[Len(s) + i] = l
    BY <1>2, <2>1, <2>2
  <2>4. QED
    BY <1>2, <2>2, <2>3
<1>8. Len(s \o t) >= 1
  BY <1>2, <1>3
<1>9. QED
  BY <1>2, <1>4, <1>5, <1>6, <1>7, <1>8 DEF OwnerFirst

\* All configured names are looked up, after the owner.
LEMMA LookupsComplete ==
    /\ OwnerFirst(Lookups, {})
    /\ \A r \in Rights, k \in Kinds : \A n \in Configured(r, k) :
          \E i \in 1..Len(Lookups) : Lookups[i] = LookupOf(r, k, n)
<1> DEFINE s0 == <<OwnerLookup>>
           s1 == s0 \o LookupsFor("view", "users")
           s2 == s1 \o LookupsFor("view", "groups")
           s3 == s2 \o LookupsFor("change", "users")
           s4 == s3 \o LookupsFor("change", "groups")
           a1 == LookupsOf("view", "users")
           a2 == a1 \cup LookupsOf("view", "groups")
           a3 == a2 \cup LookupsOf("change", "users")
           a4 == a3 \cup LookupsOf("change", "groups")
<1>1. OwnerFirst(s0, {})
  <2>1. OwnerLookup \in Lookup
    BY ConfigurationAssumption DEF OwnerLookup, Lookup, Kinds
  <2>2. s0 \in Seq(Lookup) /\ Len(s0) = 1 /\ s0[1] = OwnerLookup
    BY <2>1
  <2>3. 2..Len(s0) = {}
    BY <2>2
  <2>4. QED
    BY <2>2, <2>3 DEF OwnerFirst
<1>2. {"view", "change"} = Rights /\ {"users", "groups"} = Kinds
  BY DEF Rights, Kinds
<1>3. OwnerFirst(s1, {} \cup a1)
  BY <1>1, <1>2, LookupsForNames, GoOn
<1>4. OwnerFirst(s1, a1)
  BY <1>3
<1>5. OwnerFirst(s2, a2)
  BY <1>2, <1>4, LookupsForNames, GoOn
<1>6. OwnerFirst(s3, a3)
  BY <1>2, <1>5, LookupsForNames, GoOn
<1>7. OwnerFirst(s4, a4)
  BY <1>2, <1>6, LookupsForNames, GoOn
<1>8. s4 = Lookups
  BY DEF Lookups, OwnerLookup
<1>9. \A r \in Rights, k \in Kinds : \A n \in Configured(r, k) : LookupOf(r, k, n) \in a4
  BY DEF Rights, Kinds, LookupsOf
<1>10. OwnerFirst(Lookups, a4)
  BY <1>7, <1>8
<1>11. QED
  BY <1>9, <1>10 DEF OwnerFirst

-----------------------------------------------------------------------------
(* Rights on new objects.                                                  *)

\* There is a first look-up, the owner's; the others are of a user or a group (Lookups).
LEMMA LookupNumbers ==
    /\ Len(Lookups) \in Nat /\ Len(Lookups) >= 1
    /\ Lookups[1] = OwnerLookup
    /\ \A i \in 1..Len(Lookups) : i # 1 => Lookups[i] \in ConfiguredLookup
<1>1. OwnerFirst(Lookups, {})
  BY LookupsComplete
<1>2. Len(Lookups) \in Nat
  BY <1>1, LenProperties DEF OwnerFirst
<1>3. \A i \in 1..Len(Lookups) : i # 1 => i \in 2..Len(Lookups)
  BY <1>2
<1>4. QED
  BY <1>1, <1>2, <1>3 DEF OwnerFirst

\* Only the first lookup is the owner's.
LEMMA OwnerOnlyFirst ==
    \A i \in 1..Len(Lookups) : Lookups[i].right = "owner" <=> i = 1
  BY LookupNumbers DEF ConfiguredLookup, OwnerLookup, Rights

\* Whom a name means stays meant, however accounts are renamed.
LEMMA StillMeant ==
    ASSUME named \subseteq named', NEW g, NEW lookup, MeantBy(g, lookup)
    PROVE  MeantBy(g, lookup)'
<1>1. \A kind, name : Called(kind, name) \subseteq Called(kind, name)'
  BY DEF Called
<1>2. QED
  BY <1>1 DEF MeantBy

\* Nobody was looked up at the beginning.
LEMMA InitPermissions == Init => PermissionsInv
<1> SUFFICES ASSUME Init
             PROVE  PermissionsInv
  OBVIOUS
<1>1. looked = 0 /\ granted = {} /\ env = {} /\ named = accounts /\ accounts \in Directories
  BY DEF Init, StartupInit
<1>2. 1..looked = {} /\ looked \in 0..Len(Lookups) /\ ~(looked > 0)
  BY <1>1, LookupNumbers
<1>3. IsFiniteSet(accounts)
  BY <1>1, DirectoriesAssumption
<1>4. QED
  BY <1>1, <1>2, <1>3 DEF PermissionsInv, GrantedInv, NamedInv, ResolversInv

\* A lookup that succeeds adds the one account it means.
LEMMA LookUpGrants ==
    ASSUME PermissionsInv, used \in Counts, LookUp
    PROVE  PermissionsInv'
<1> DEFINE i == looked + 1
           lookup == Lookups[i]
<1>1. /\ UNCHANGED <<main, env, accounts, named, used>>
      /\ main = "resolve" /\ looked < Len(Lookups) /\ looked' = i
      /\ Cardinality(Matching(lookup)) = 1
      /\ granted' = granted \cup
            {[right |-> lookup.right, kind |-> lookup.kind, id |-> a.id] : a \in Matching(lookup)}
  BY DEF LookUp, serverVars, Upcoming
<1>2. /\ looked \in Nat /\ i \in 1..Len(Lookups) /\ looked' \in 0..Len(Lookups)
      /\ 1..looked' = 1..looked \cup {i}
  BY <1>1, LookupNumbers DEF PermissionsInv, GrantedInv
<1>3. PICK a : Matching(lookup) = {a}
  <2>1. Matching(lookup) \subseteq accounts
    BY DEF Matching
  <2>2. IsFiniteSet(Matching(lookup))
    BY <2>1, FS_Subset DEF PermissionsInv, NamedInv
  <2>3. QED
    BY <1>1, <2>2, FS_Singleton
<1> DEFINE new == [right |-> lookup.right, kind |-> lookup.kind, id |-> a.id]
<1>4. granted' = granted \cup {new}
  BY <1>1, <1>3
<1>5. a \in accounts /\ a \in named
  BY <1>3 DEF Matching, PermissionsInv, NamedInv
<1>6. MeantBy(new, lookup)
  <2>1. CASE lookup.name = Nobody
    <3>1. a.id = Me
      BY <1>3, <2>1 DEF Matching
    <3>2. QED
      BY <2>1, <3>1 DEF MeantBy
  <2>2. CASE lookup.name # Nobody
    <3>1. a.kind = lookup.kind /\ Fold[a.name] = Fold[lookup.name]
      BY <1>3, <2>2 DEF Matching
    <3>2. a.id \in Called(lookup.kind, lookup.name)
      BY <1>5, <3>1 DEF Called
    <3>3. QED
      BY <2>2, <3>2 DEF MeantBy
  <2>3. QED
    BY <2>1, <2>2
<1>7. \A g, l : MeantBy(g, l) => MeantBy(g, l)'
  BY <1>1, StillMeant
<1> HIDE DEF new, lookup
<1>8. \A g \in granted' : \E j \in 1..looked' : MeantBy(g, Lookups[j])'
  BY <1>2, <1>4, <1>6, <1>7 DEF PermissionsInv, GrantedInv, lookup
<1>9. \A j \in 1..looked' : \E g \in granted' : MeantBy(g, Lookups[j])'
  BY <1>2, <1>4, <1>6, <1>7 DEF PermissionsInv, GrantedInv, lookup
<1>10. OneOwner'
  <2>1. CASE looked = 0
    <3>1. granted' = {new}
      BY <1>4, <2>1 DEF PermissionsInv, GrantedInv
    <3>2. new.right = "owner" /\ new.kind = "users"
      BY <2>1, LookupNumbers DEF new, lookup, OwnerLookup
    <3>3. {h \in granted' : h.right = "owner" /\ h.kind = "users"} = {new}
      BY <3>1, <3>2
    <3>4. Granted("owner", "users")' = {new.id}
      BY <3>3 DEF Granted
    <3>5. QED
      BY <3>4 DEF OneOwner
  <2>2. CASE looked > 0
    <3>1. i # 1
      BY <1>2, <2>2
    <3>2. new.right # "owner"
      BY <1>2, <3>1, OwnerOnlyFirst DEF new, lookup
    <3>3. {h \in granted' : h.right = "owner" /\ h.kind = "users"}
             = {h \in granted : h.right = "owner" /\ h.kind = "users"}
      BY <1>4, <3>2
    <3>4. Granted("owner", "users")' = Granted("owner", "users")
      BY <3>3 DEF Granted
    <3>5. OneOwner
      BY <2>2 DEF PermissionsInv, GrantedInv
    <3>6. QED
      BY <3>4, <3>5 DEF OneOwner
  <2>3. QED
    BY <1>2, <2>1, <2>2
<1>11. GrantedInv'
  BY <1>2, <1>8, <1>9, <1>10 DEF GrantedInv
<1>12. \A l : OneCalled(l)' <=> OneCalled(l)
  BY <1>1 DEF OneCalled, Called
<1>13. used.renames = 0 /\ lookup.name # Nobody => OneCalled(lookup)
  <2> SUFFICES ASSUME used.renames = 0, lookup.name # Nobody
               PROVE  OneCalled(lookup)
    OBVIOUS
  <2>1. named = accounts
    BY DEF PermissionsInv, NamedInv
  <2>2. {b \in named : b.kind = lookup.kind /\ Fold[b.name] = Fold[lookup.name]} = {a}
    BY <1>3, <2>1 DEF Matching, lookup
  <2>3. Called(lookup.kind, lookup.name) = {a.id}
    BY <2>2 DEF Called
  <2>4. QED
    BY <2>3 DEF OneCalled
<1>14. NamedInv'
  <2>1. used.renames = 0 => \A j \in 1..looked' : Lookups[j].name # Nobody => OneCalled(Lookups[j])
    BY <1>2, <1>13 DEF PermissionsInv, NamedInv, lookup
  <2>2. used.renames = 0 => \A j \in 1..looked' : Lookups[j].name # Nobody => OneCalled(Lookups[j])'
    BY <1>12, <2>1
  <2>3. IsFiniteSet(accounts) /\ accounts \subseteq named /\ (used.renames = 0 => named = accounts)
    BY DEF PermissionsInv, NamedInv
  <2>4. IsFiniteSet(accounts') /\ accounts' \subseteq named'
        /\ (used'.renames = 0 => named' = accounts')
    BY <1>1, <2>3
  <2>5. QED
    BY <1>1, <2>2, <2>4 DEF NamedInv
<1>15. ResolversInv'
  BY <1>1 DEF PermissionsInv, ResolversInv
<1>16. QED
  BY <1>11, <1>14, <1>15 DEF PermissionsInv

\* Renaming an account takes nothing from whoever was meant by a name.
LEMMA RenamesKeep ==
    ASSUME PermissionsInv, used \in Counts, NEW a, NEW name, RenameAccount(a, name)
    PROVE  PermissionsInv'
<1>1. /\ UNCHANGED <<main, env, looked, granted>> /\ main = "resolve"
      /\ accounts' = (accounts \ {a}) \cup {[a EXCEPT !.name = name]}
      /\ named' = named \cup accounts'
  BY DEF RenameAccount, permissionVars
<1>2. used'.renames # 0
  BY CountsType DEF RenameAccount, Counts
<1>3. \A g, l : MeantBy(g, l) => MeantBy(g, l)'
  BY <1>1, StillMeant
<1>4. GrantedInv'
  <2>1. Granted("owner", "users")' = Granted("owner", "users")
    BY <1>1 DEF Granted
  <2>2. OneOwner' <=> OneOwner
    BY <2>1 DEF OneOwner
  <2>3. QED
    BY <1>1, <1>3, <2>2 DEF PermissionsInv, GrantedInv
<1>5. NamedInv'
  <2>1. IsFiniteSet(accounts')
    BY <1>1, FS_RemoveElement, FS_AddElement DEF PermissionsInv, NamedInv
  <2>2. QED
    BY <1>1, <1>2, <2>1 DEF NamedInv
<1>6. QED
  BY <1>1, <1>4, <1>5 DEF PermissionsInv, ResolversInv

\* Steps that leave the accounts and the lookups alone keep the invariant.
LEMMA OthersKeep ==
    ASSUME PermissionsInv, UNCHANGED <<looked, granted, accounts, named>>,
           used'.renames = used.renames,
           "resolvers" \in env' => looked = Len(Lookups) /\ main' \in {"wait", "returned"}
    PROVE  PermissionsInv'
<1>1. GrantedInv'
  BY DEF PermissionsInv, GrantedInv, MeantBy, Called, OneOwner, Granted
<1>2. NamedInv'
  BY DEF PermissionsInv, NamedInv, OneCalled, Called
<1>3. QED
  BY <1>1, <1>2 DEF PermissionsInv, ResolversInv

\* Every step keeps the rights in line with the names.
LEMMA NextPermissions == PermissionsInv /\ ProgramTypes /\ [Next]_vars => PermissionsInv'
<1> SUFFICES ASSUME PermissionsInv, ProgramTypes, [Next]_vars
             PROVE  PermissionsInv'
  OBVIOUS
<1>u. used \in Counts
  BY DEF ProgramTypes
<1>v. "resolvers" \in env => looked = Len(Lookups) /\ main \in {"wait", "returned"}
  BY DEF PermissionsInv, ResolversInv
<1>1. CASE Prepare
  <2>1. CASE LookUp
    BY <1>u, <2>1, LookUpGrants
  <2>2. CASE Validate \/ BuildClient \/ MakeDir \/ OpenStore \/ RemoveDir
    <3>1. used'.renames = used.renames
      BY <1>u, <2>2, FaultCounts DEF Validate, BuildClient, MakeDir, OpenStore, RemoveDir
    <3>2. /\ UNCHANGED <<looked, granted, accounts, named>>
          /\ main \notin {"wait", "returned"}
          /\ "resolvers" \in env' => "resolvers" \in env
      BY <2>2 DEF Validate, BuildClient, MakeDir, OpenStore, RemoveDir, permissionVars, serverVars
    <3>3. QED
      BY <1>v, <3>1, <3>2, OthersKeep
  <2>3. QED
    BY <1>1, <2>1, <2>2 DEF Prepare
<1>2. CASE PrepareFails \/ NoStart
  <2>1. used'.renames = used.renames
    BY <1>2, <1>u, FaultCounts DEF PrepareFails, StartupFails, RemoveFails, LookUpFails,
                                   LookUpCancelled, NoStart, EarlyExit
  <2>2. UNCHANGED <<looked, granted, accounts, named, env>> /\ main \notin {"wait", "returned"}
    BY <1>2 DEF PrepareFails, StartupFails, RemoveFails, LookUpFails, LookUpCancelled, Abort,
                NoStart, EarlyExit, permissionVars, serverVars
  <2>3. QED
    BY <1>v, <2>1, <2>2, OthersKeep
<1>3. CASE Rename
  <2>1. PICK a \in accounts, name \in AccountNames : RenameAccount(a, name)
    BY <1>3 DEF Rename
  <2>2. QED
    BY <1>u, <2>1, RenamesKeep
<1>4. CASE StartGroup \/ Return
  <2>1. /\ UNCHANGED <<looked, granted, accounts, named, used>>
        /\ main' \in {"wait", "returned"}
        /\ env' = env \/ looked = Len(Lookups)
    BY <1>4 DEF StartGroup, Return, prepared, permissionVars, serverVars
  <2>2. QED
    BY <1>v, <2>1, OthersKeep
<1>5. ASSUME UNCHANGED <<looked, granted, accounts, named, env, main>>,
             used'.renames = used.renames
      PROVE  PermissionsInv'
  BY <1>5, <1>v, OthersKeep
<1>6. CASE Signal \/ Http \/ Receiver \/ ReceiverCancelled \/ HandleRequest \/ Time
  BY <1>5, <1>6 DEF Signal, Http, Listen, Ready, ServerClosed, ServeReturns, Receiver,
                    ReceiverReturns, StartWorkflow, ReceiverCancelled, HandleRequest, Time,
                    prepared, programVars, startupVars, permissionVars, serverVars
<1>7. CASE ListenFails \/ ServeFails \/ Watcher \/ Request
  <2>1. used'.renames = used.renames
    BY <1>7, <1>u, FaultCounts, CountsType DEF ListenFails, ServeFails, Watcher, BeginShutdown,
                                               EndShutdown, Request, Counts
  <2>2. UNCHANGED <<looked, granted, accounts, named, env, main>>
    BY <1>7 DEF ListenFails, ServeFails, Watcher, BeginShutdown, EndShutdown, Request,
                prepared, permissionVars, serverVars
  <2>3. QED
    BY <1>5, <2>1, <2>2
<1>8. ASSUME NEW w \in Workflows, WorkflowStops(w) \/ WorkflowPolls(w)
      PROVE  PermissionsInv'
  BY <1>5, <1>8 DEF WorkflowStops, WorkflowPolls, prepared, programVars, startupVars,
                    permissionVars, serverVars
<1>9. CASE UNCHANGED vars
  BY <1>5, <1>9 DEF vars, programVars, startupVars, permissionVars, serverVars
<1>10. QED
  BY <1>1, <1>2, <1>3, <1>4, <1>6, <1>7, <1>8, <1>9 DEF Next, Main

\* Before anything can be created with them, the rights on new objects are complete
\* and no wider than the names in the configuration, for any such names and accounts
\* and however these are renamed meanwhile.
THEOREM RightsAsNamed == Spec => []PermissionsAsNamed
<1>1. PermissionsInv => PermissionsAsNamed
  <2> SUFFICES ASSUME PermissionsInv, "resolvers" \in env
               PROVE  PermissionsAsNamed
    BY DEF PermissionsAsNamed
  <2>1. /\ looked = Len(Lookups) /\ looked > 0
        /\ \A g \in granted : \E i \in 1..Len(Lookups) : MeantBy(g, Lookups[i])
        /\ \A i \in 1..Len(Lookups) : \E g \in granted : MeantBy(g, Lookups[i])
        /\ OneOwner
        /\ used.renames = 0 =>
              \A i \in 1..Len(Lookups) : Lookups[i].name # Nobody => OneCalled(Lookups[i])
    BY LookupNumbers DEF PermissionsInv, GrantedInv, NamedInv, ResolversInv
  <2>2. Cardinality(Granted("owner", "users")) = 1
    BY <2>1, FS_Singleton DEF OneOwner
  <2>3. Granted("owner", "users") \subseteq IF Owner = Nobody THEN {Me} ELSE Called("users", Owner)
    <3> SUFFICES ASSUME NEW g \in granted, g.right = "owner", g.kind = "users"
                 PROVE  g.id \in IF Owner = Nobody THEN {Me} ELSE Called("users", Owner)
      BY DEF Granted
    <3>1. PICK i \in 1..Len(Lookups) : MeantBy(g, Lookups[i])
      BY <2>1
    <3>2. Lookups[i] = OwnerLookup
      BY <3>1, OwnerOnlyFirst, LookupNumbers DEF MeantBy
    <3>3. QED
      BY <3>1, <3>2 DEF MeantBy, OwnerLookup
  <2>4. ASSUME NEW r \in Rights, NEW k \in Kinds
        PROVE  Granted(r, k) \subseteq UNION {Called(k, n) : n \in Configured(r, k)}
    <3> SUFFICES ASSUME NEW g \in granted, g.right = r, g.kind = k
                 PROVE  g.id \in UNION {Called(k, n) : n \in Configured(r, k)}
      BY DEF Granted
    <3>1. PICK i \in 1..Len(Lookups) : MeantBy(g, Lookups[i])
      BY <2>1
    <3>2. Lookups[i].right = r /\ Lookups[i].kind = k
      BY <3>1 DEF MeantBy
    <3>3. Lookups[i] \in ConfiguredLookup
      BY <3>2, OwnerOnlyFirst, LookupNumbers DEF Rights
    <3>4. Lookups[i].name \in Configured(r, k) /\ Lookups[i].name # Nobody
      <4>1. Lookups[i].name \in Configured(r, k)
        BY <3>2, <3>3 DEF ConfiguredLookup
      <4>2. QED
        BY <4>1, NobodyConfigured
    <3>5. g.id \in Called(k, Lookups[i].name)
      BY <3>1, <3>2, <3>4 DEF MeantBy
    <3>6. QED
      BY <3>4, <3>5
  <2>5. ASSUME NEW r \in Rights, NEW k \in Kinds, NEW n \in Configured(r, k)
        PROVE  /\ Granted(r, k) \cap Called(k, n) # {}
               /\ used.renames = 0 => Cardinality(Called(k, n)) = 1
    <3>1. PICK i \in 1..Len(Lookups) : Lookups[i] = LookupOf(r, k, n)
      BY LookupsComplete
    <3>2. PICK g \in granted : MeantBy(g, Lookups[i])
      BY <2>1
    <3>3. n # Nobody
      BY NobodyConfigured
    <3>4. g.right = r /\ g.kind = k /\ g.id \in Called(k, n)
      BY <3>1, <3>2, <3>3 DEF MeantBy, LookupOf
    <3>5. g.id \in Granted(r, k)
      BY <3>4 DEF Granted
    <3>6. used.renames = 0 => \E id : Called(k, n) = {id}
      <4>1. Lookups[i].kind = k /\ Lookups[i].name = n
        BY <3>1 DEF LookupOf
      <4>2. used.renames = 0 => OneCalled(Lookups[i])
        BY <2>1, <3>3, <4>1
      <4>3. QED
        BY <4>1, <4>2 DEF OneCalled
    <3>7. QED
      BY <3>4, <3>5, <3>6, FS_Singleton
  <2>6. QED
    BY <2>2, <2>3, <2>4, <2>5 DEF PermissionsAsNamed
<1>2. Init => PermissionsInv /\ ProgramTypes
  BY InitPermissions, InitProgramTypes
<1>3. PermissionsInv /\ ProgramTypes /\ [Next]_vars => (PermissionsInv /\ ProgramTypes)'
  BY NextPermissions, NextProgramTypes
<1>4. QED
  BY <1>1, <1>2, <1>3, PTL DEF Spec

=============================================================================
