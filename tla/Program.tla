------------------------------ MODULE Program -------------------------------
(***************************************************************************)
(* The life of the program (internal/core/program.go): Run prepares the    *)
(* environment of the workflows (see Startup), starts the HTTP server      *)
(* (internal/httpsrv) and, once that is ready, the workflows, all in one   *)
(* errgroup, and returns when all of them have.  A signal cancels their    *)
(* context, and so does the first of them to fail.                         *)
(*                                                                         *)
(* Goroutines: Run itself ("main"), the server ("http") and the goroutine  *)
(* it starts to shut it down ("watcher"), the one that waits for the       *)
(* server and starts the workflows ("receiver"), and a polling loop for    *)
(* every workflow.                                                         *)
(***************************************************************************)
EXTENDS Poller, Startup

CONSTANT
    MaxRequests   \* bound: HTTP requests

ASSUME ProgramNumbers == MaxRequests \in Nat

VARIABLES
    http,      \* ListenAndServe
    watcher,   \* its shutdown goroutine
    receiver,  \* the goroutine waiting for readiness
    open       \* HTTP requests being handled

groupVars == <<http, watcher, receiver, open>>
programVars == <<startupVars, groupVars>>
vars == <<pollerVars, programVars>>

\* What the startup leaves behind.
prepared == <<env, dir, permissionVars, serverVars>>

Init ==
    /\ PollerInit
    /\ StartupInit
    /\ http = "off"
    /\ watcher = "off"
    /\ receiver = "off"
    /\ open = 0

-----------------------------------------------------------------------------
(* Run.                                                                    *)

\* The startup, step by step.  Its requests need a context that is not cancelled.
Prepare ==
    /\ \/ Validate \/ BuildClient \/ MakeDir \/ OpenStore \/ RemoveDir
       \/ ~cancelled /\ LookUp
    /\ UNCHANGED <<pollerVars, groupVars>>

PrepareFails ==
    /\ \/ StartupFails \/ RemoveFails \/ LookUpFails
       \/ cancelled /\ LookUpCancelled
    /\ UNCHANGED <<pollerVars, groupVars>>

NoStart == EarlyExit /\ UNCHANGED <<pollerVars, groupVars>>

Rename ==
    /\ \E a \in accounts, name \in AccountNames : RenameAccount(a, name)
    /\ UNCHANGED <<pollerVars, groupVars>>

\* A plausible bug: the resolvers are left for later.
EnvCompleteLater == env \cup {"client", "store"}
EnvComplete == env \cup {"client", "store", "resolvers"}

\* The environment is complete; server and receiver are started.
StartGroup ==
    /\ main = "resolve" /\ looked = Len(Lookups)
    /\ env' = EnvComplete
    /\ main' = "wait"
    /\ http' = "listen"
    /\ receiver' = "wait"
    /\ UNCHANGED <<pollerVars, watcher, open, dir, permissionVars, serverVars, result, used>>

\* A plausible bug: a group without a context.
ReportUncancelled(error) ==
    /\ result' = IF result = "none" THEN error ELSE result
    /\ UNCHANGED cancelled

\* A goroutine of the group returns an error: the first one counts.
Report(error) ==
    /\ result' = IF result = "none" THEN error ELSE result
    /\ cancelled' = TRUE

\* A plausible bug: the workflows are not part of the group.
GroupDoneButWorkflows == http = "done" /\ receiver = "done"
GroupDone ==
    /\ http = "done" /\ receiver = "done"
    /\ \A w \in Workflows : pollers[w].phase \in {"new", "stopped"}

\* g.Wait; the context is cancelled, too.
Return ==
    /\ main = "wait"
    /\ GroupDone
    /\ main' = "returned"
    /\ cancelled' = TRUE
    /\ UNCHANGED <<pollers, notify, unserved, prepared, groupVars, result, used>>

\* SIGINT or SIGTERM.
Signal ==
    /\ ~cancelled
    /\ cancelled' = TRUE
    /\ UNCHANGED <<pollers, notify, unserved, programVars>>

-----------------------------------------------------------------------------
(* ListenAndServe.                                                         *)

Listen ==
    /\ http = "listen"
    /\ http' = "ready"
    /\ watcher' = "wait"
    /\ UNCHANGED <<pollerVars, main, prepared, receiver, open, result, used>>

\* The address cannot be listened on.
ListenFails ==
    /\ http = "listen"
    /\ Fault
    /\ http' = "done"
    /\ Report("error")
    /\ UNCHANGED <<pollers, notify, unserved, main, prepared, watcher, receiver, open>>

\* ReadyCh <- addr meets <-httpReadyCh; the receiver starts the workflows.
Ready ==
    /\ http = "ready" /\ receiver = "wait"
    /\ http' = "serve"
    /\ receiver' = "start"
    /\ UNCHANGED <<pollerVars, main, prepared, watcher, open, result, used>>

\* The receiver finds the context cancelled.
ReceiverCancelled ==
    /\ receiver = "wait"
    /\ cancelled
    /\ receiver' = "done"
    /\ Report("error")
    /\ UNCHANGED <<pollers, notify, unserved, main, prepared, http, watcher, open, used>>

\* g.Go for one workflow.
StartWorkflow(w) ==
    /\ receiver = "start"
    /\ StartPolling(w)
    /\ UNCHANGED programVars

ReceiverReturns ==
    /\ receiver = "start"
    /\ \A w \in Workflows : pollers[w].phase # "new"
    /\ receiver' = "done"
    /\ UNCHANGED <<pollerVars, main, prepared, http, watcher, open, result, used>>

\* A request arrives; it is handled at some later time.
Request ==
    /\ http = "serve" /\ watcher = "wait"
    /\ used.requests < MaxRequests
    /\ used' = [used EXCEPT !.requests = @ + 1]
    /\ open' = open + 1
    /\ UNCHANGED <<pollerVars, main, prepared, http, watcher, receiver, result>>

\* POST /notify/post-consume
HandleRequest ==
    /\ open > 0
    /\ open' = open - 1
    /\ NotifyPostConsume
    /\ UNCHANGED <<main, prepared, http, watcher, receiver, result, used>>

\* srv.Shutdown is called.
BeginShutdown ==
    /\ watcher = "wait"
    /\ cancelled
    /\ watcher' = "shutdown"
    /\ UNCHANGED <<pollerVars, main, prepared, http, receiver, open, result, used>>

\* Every request is handled, or the timeout for that is over.
EndShutdown ==
    /\ watcher = "shutdown"
    /\ \/ open = 0 /\ UNCHANGED used
       \/ open > 0 /\ Fault
    /\ watcher' = "done"
    /\ UNCHANGED <<pollerVars, main, prepared, http, receiver, open, result>>

\* srv.Serve returns ErrServerClosed, at once when it was shut down before.
ServerClosed ==
    /\ http = "serve"
    /\ watcher \in {"shutdown", "done"}
    /\ http' = "drain"
    /\ UNCHANGED <<pollerVars, main, prepared, watcher, receiver, open, result, used>>

\* srv.Serve fails.
ServeFails ==
    /\ http = "serve"
    /\ Fault
    /\ http' = "done"
    /\ Report("error")
    /\ UNCHANGED <<pollers, notify, unserved, main, prepared, watcher, receiver, open>>

\* <-shutdownDone
ServeReturns ==
    /\ http = "drain"
    /\ watcher = "done"
    /\ http' = "done"
    /\ UNCHANGED <<pollerVars, main, prepared, watcher, receiver, open, result, used>>

-----------------------------------------------------------------------------
\* A plausible bug: being cancelled is an error of the workflow.
StopErrorCancelled == "error"

\* Poll: being cancelled is no error.
StopError == "none"

\* The workflow's Run returns.
WorkflowStops(w) ==
    /\ StopPolling(w)
    /\ result' = IF result = "none" THEN StopError ELSE result
    /\ UNCHANGED <<main, prepared, http, watcher, receiver, open, used>>

WorkflowPolls(w) ==
    /\ PollReturns(w) \/ TakeNotification(w) \/ Sleep(w) \/ TimerFires(w)
    /\ UNCHANGED programVars

Time == Tick /\ UNCHANGED programVars

Main == Prepare \/ StartGroup \/ Return
Http == Listen \/ Ready \/ ServerClosed \/ ServeReturns
Watcher == BeginShutdown \/ EndShutdown
Receiver == ReceiverReturns \/ \E w \in Workflows : StartWorkflow(w)

Next ==
    \/ Main \/ NoStart \/ PrepareFails \/ Rename \/ Signal
    \/ Http \/ ListenFails \/ ServeFails
    \/ Watcher \/ Receiver \/ ReceiverCancelled
    \/ Request \/ HandleRequest
    \/ \E w \in Workflows : WorkflowStops(w) \/ WorkflowPolls(w)
    \/ Time

Spec == Init /\ [][Next]_vars

\* Every goroutine that can go on does: a poll returns when its walk ends (see
\* Walk) and a request is handled.  Signals, failures and requests need not
\* happen.
Fairness ==
    /\ WF_vars(Main \/ PrepareFails) /\ WF_vars(Http) /\ WF_vars(Watcher)
    /\ WF_vars(Receiver \/ ReceiverCancelled) /\ WF_vars(HandleRequest)
    /\ WF_vars(Time)
    /\ \A w \in Workflows : WF_vars(WorkflowPolls(w)) /\ WF_vars(WorkflowStops(w))

FairSpec == Spec /\ Fairness

\* What a workflow's polls ask for; the environment panics if it is not there.
AsksFor(w) ==
    IF w \in Notified THEN {"facters", "client", "store", "resolvers"} ELSE {"store"}

-----------------------------------------------------------------------------
(* Properties.                                                             *)

\* The receiver has got word from the server.
Started == receiver = "start" \/ \E w \in Workflows : pollers[w].phase # "new"

\* No workflow runs before all its polls ask for is there: asking the environment
\* earlier would panic (Run, workflowEnvBase).
EnvReadyForPolls ==
    \A w \in Workflows : pollers[w].phase # "new" => AsksFor(w) \subseteq env

\* When Run returns, no workflow is using the store and no request can still
\* reach one through an open listener (Run, ListenAndServe).
NothingRunsAfterReturn ==
    main = "returned" =>
        /\ \A w \in Workflows : pollers[w].phase \in {"new", "stopped"}
        /\ http \in {"off", "done"}

\* A program that got as far as starting its workflows and is then told to stop
\* ends without an error, unless something failed (Poll, ListenAndServe).
CleanExit ==
    main = "returned" /\ Started /\ used.faults = 0 => result = "none"

\* Once the workflows are being started, a signal or a failure ends the program,
\* and so does a server that could not listen: no goroutine of the group waits
\* forever for another (Run, ListenAndServe).
StartedThenStops ==
    /\ (Started /\ (cancelled \/ result = "error")) ~> (main = "returned")
    /\ (http = "done") ~> (main = "returned")

\* A loop polls again and again until it is cancelled (poll).
KeepsPolling ==
    \A w \in Workflows : (pollers[w].phase # "new") ~> (pollers[w].phase = "poll" \/ cancelled)

\* "The HTTP server is stopped when the provided context is canceled": at any
\* time, also before the server reported to be ready (ListenAndServe).
CancelStopsServer ==
    (cancelled /\ http # "off") ~> (http = "done")
=============================================================================
