------------------------------- MODULE Poller -------------------------------
(***************************************************************************)
(* The polling loops of the workflows (internal/poller) and the channel    *)
(* through which the cataloger is told of new documents.  Every workflow's *)
(* Run is such a loop; the module Program starts and stops them.           *)
(*                                                                         *)
(* A loop polls, looks whether it was cancelled or notified meanwhile, and *)
(* else sleeps until its timer fires, it is notified or cancelled.  Where  *)
(* several of these are ready, select takes any of them.                   *)
(***************************************************************************)
EXTENDS Integers

CONSTANTS
    Workflows,   \* the workflows of the program
    Notified,    \* those that are NotificationReceivers: the cataloger
    Interval,    \* what NextDelay returns, for every workflow
    MinDelay,    \* MinDelay, for every workflow
    MaxDelay,    \* MaxDelay, for every workflow; 0 for none
    Jitters      \* distortions of a delay, in percent

ASSUME NotifiedAssumption == Notified \subseteq Workflows
ASSUME DelayAssumption ==
    /\ Interval \in [Workflows -> Nat]
    /\ MinDelay \in [Workflows -> Nat]
    /\ MaxDelay \in [Workflows -> Nat]
    /\ Jitters \subseteq -50..50

VARIABLES
    pollers,    \* the loop of every workflow
    notify,     \* the token in the channel of a notified workflow
    cancelled,  \* the loops' context is cancelled
    unserved    \* observer: notified, and no poll began since

pollerVars == <<pollers, notify, cancelled, unserved>>

Loop == [phase : {"new", "poll", "check", "sleep", "stopped"},
         delay : Int,    \* of the current sleep
         left  : Nat]    \* until its timer fires

NewLoop == [phase |-> "new", delay |-> 0, left |-> 0]

PollerInit ==
    /\ pollers = [w \in Workflows |-> NewLoop]
    /\ notify = [w \in Notified |-> FALSE]
    /\ cancelled = FALSE
    /\ unserved = [w \in Notified |-> FALSE]

-----------------------------------------------------------------------------
Clamped(w) ==
    LET delay == Interval[w]
    IN  IF delay < MinDelay[w] THEN MinDelay[w]
        ELSE IF MaxDelay[w] # 0 /\ delay > MaxDelay[w] THEN MaxDelay[w]
        ELSE delay

\* The delay is distorted after it was brought within the bounds.
nextDelay(w) == {Clamped(w) + (Clamped(w) * j) \div 100 : j \in Jitters}

GoTo(w, phase) == pollers' = [pollers EXCEPT ![w] = [NewLoop EXCEPT !.phase = phase]]

\* opts.Poll is called: it will see whatever was there when it begins.
BeginPoll(w) ==
    /\ GoTo(w, "poll")
    /\ unserved' = [n \in Notified |-> IF n = w THEN FALSE ELSE unserved[n]]

StartPolling(w) ==
    /\ pollers[w].phase = "new"
    /\ BeginPoll(w)
    /\ UNCHANGED <<notify, cancelled>>

PollReturns(w) ==
    /\ pollers[w].phase = "poll"
    /\ GoTo(w, "check")
    /\ UNCHANGED <<notify, cancelled, unserved>>

\* <-opts.Notify, in either select
TakeNotification(w) ==
    /\ pollers[w].phase \in {"check", "sleep"}
    /\ w \in Notified /\ notify[w]
    /\ notify' = [notify EXCEPT ![w] = FALSE]
    /\ BeginPoll(w)
    /\ UNCHANGED cancelled

\* <-ctx.Done(), in either select
StopPolling(w) ==
    /\ pollers[w].phase \in {"check", "sleep"}
    /\ cancelled
    /\ GoTo(w, "stopped")
    /\ UNCHANGED <<notify, cancelled, unserved>>

\* Neither is ready: the timer is set.
Sleep(w) ==
    /\ pollers[w].phase = "check"
    /\ ~cancelled
    /\ w \in Notified => ~notify[w]
    /\ \E delay \in nextDelay(w) :
          IF delay > 0
          THEN /\ pollers' = [pollers EXCEPT ![w] =
                      [phase |-> "sleep", delay |-> delay, left |-> delay]]
               /\ UNCHANGED unserved
          ELSE BeginPoll(w)
    /\ UNCHANGED <<notify, cancelled>>

\* A plausible bug: the timer is stopped when it is set, not after the wait.
TimerDueNever(w) == FALSE
TimerDue(w) == pollers[w].left = 0

\* The timer fires.  A timer that was stopped has nothing left to deliver.
TimerFires(w) ==
    /\ pollers[w].phase = "sleep"
    /\ TimerDue(w)
    /\ BeginPoll(w)
    /\ UNCHANGED <<notify, cancelled>>

PollerStep(w) ==
    \/ PollReturns(w) \/ TakeNotification(w) \/ StopPolling(w)
    \/ Sleep(w) \/ TimerFires(w)

\* Time passes for those asleep, but not past the next timer.
Tick ==
    /\ \E w \in Workflows : pollers[w].phase = "sleep"
    /\ \A w \in Workflows : pollers[w].phase = "sleep" => pollers[w].left > 0
    /\ pollers' = [w \in Workflows |->
                     IF pollers[w].phase = "sleep"
                     THEN [pollers[w] EXCEPT !.left = @ - 1] ELSE pollers[w]]
    /\ UNCHANGED <<notify, cancelled, unserved>>

\* A plausible bug: without a buffer, the message is dropped unless the loop
\* is just then receiving.
HasTokenUnbuffered(w) == notify[w] \/ pollers[w].phase = "sleep"

\* The channel holds one message, and one is sent unless there is one.
HasToken(w) == TRUE

NotifyPostConsume ==
    /\ notify' = [w \in Notified |-> HasToken(w)]
    /\ unserved' = [w \in Notified |-> TRUE]
    /\ UNCHANGED <<pollers, cancelled>>

-----------------------------------------------------------------------------
\* A loop does not sleep through a notification: one that came after the last
\* poll began, while it was polling or between the two selects, still lies in
\* the channel and ends the sleep at once (NotifyPostConsume, poll).
NoLostWakeup ==
    \A w \in Notified : unserved[w] /\ pollers[w].phase = "sleep" => notify[w]

\* "bounded to [%s..%s]": the time to wait between polls is within its bounds.
DelayWithinBounds ==
    \A w \in Workflows : pollers[w].phase = "sleep" /\ MaxDelay[w] # 0 =>
        pollers[w].delay \in MinDelay[w]..MaxDelay[w]
=============================================================================
