------------------------------ MODULE Harness -------------------------------
(***************************************************************************)
(* The event-driven harness of bb-core (src/crates/bb-core/src/harness):   *)
(* Harness::run and wind_down_all (harness.rs), the subscription tasks and *)
(* the per-actor mutex (builder.rs), the broadcast bus (bus.rs) and the    *)
(* feed tasks (feed.rs).                                                   *)
(*                                                                         *)
(* Processes: the task that runs Harness::run ("main"), one task per feed  *)
(* and one task per subscription.  The runtime is multi-threaded, so a     *)
(* step is what a task does between two points at which another task can   *)
(* see or change what it reads: each branch of run's biased select! is     *)
(* polled in a step of its own, and so are a subscription's poll of its    *)
(* cancellation token, its recv, its wait for the mutex, its handler, and  *)
(* the two calls that report a fatal error.                                *)
(*                                                                         *)
(* An event is its position in its stream (1, 2, ...).  A poll that finds  *)
(* nothing and leaves the task parked is not a step of a subscription;     *)
(* main has an explicit "parked" state, from which it polls again from the *)
(* first branch.  A handler error that is not fatal only logs, so          *)
(* HandlerReturns stands for Ok and for it.                                *)
(***************************************************************************)
EXTENDS Naturals, Sequences

CONSTANTS
  N,          \* number of actors, in registration order 1..N
  Feeds,      \* the wired feeds
  Streams,    \* the event types (one broadcast channel each)
  FeedStream, \* the event type a feed publishes
  Subs,       \* the subscriptions
  SubActor,   \* the actor of a subscription
  SubStream,  \* the event type of a subscription
  Critical,   \* the subscriptions made with sub_critical (fatal_on_lag)
  Capacity,   \* retained events of a broadcast channel
  MaxEvents,  \* bound: how many events are published on each stream
  Free,       \* nobody holds an actor's mutex
  Run         \* main holds it (init and wind_down)

Actors == 1..N

ASSUME HarnessAssumption ==
  /\ N \in Nat
  /\ FeedStream \in [Feeds -> Streams]
  /\ SubActor \in [Subs -> Actors]
  /\ SubStream \in [Subs -> Streams]
  /\ Critical \subseteq Subs
  /\ Capacity \in Nat \ {0}
  /\ MaxEvents \in [Streams -> Nat]
  /\ Free \notin Subs /\ Run \notin Subs /\ Free # Run

VARIABLES
  main,       \* program counter of Harness::run
  idx,        \* the actor run's loops are at
  reason,     \* the WindDownReason (or BindError), once decided
  shutdown,   \* the shutdown CancellationToken
  signal,     \* an OS signal has arrived
  failures,   \* the actor_failure channel
  feed,       \* state of each feed's task
  sent,       \* events published so far, per stream
  sub,        \* program counter of each subscription task
  cursor,     \* position of each receiver: the last event it took or skipped
  subCancel,  \* the per-actor sub_cancel token
  lock,       \* holder of each actor's mutex
  inited,     \* outcome of each actor's init
  woundDown,  \* completed wind_down calls per actor
  handled     \* history: events handed to on_event, per subscription

mainVars == <<main, idx, reason>>
busVars  == <<feed, sent>>
subVars  == <<sub, cursor, handled>>
lifeVars == <<inited, woundDown>>
vars == <<mainVars, shutdown, signal, failures, busVars, subVars, subCancel, lock, lifeVars>>

Reasons == {"Signal", "InputsClosed", "ActorFailed", "FeedFailed"}

MainStates == {"bind", "init", "initializing", "spawnFeeds", "pollFailures", "pollStop",
               "pollFeeds", "parked", "cancelSubs", "await", "windingDown", "returned"}
FeedStates == {"unspawned", "running", "ok", "err", "joined"}
SubStates == {"select", "recv", "locking", "handling", "failing", "stopping", "done"}

TypeOK ==
  /\ main \in MainStates
  /\ idx \in 1..(N + 1)
  /\ reason \in Reasons \cup {"none", "BindError"}
  /\ shutdown \in BOOLEAN
  /\ signal \in BOOLEAN
  /\ failures \in Seq(Actors)
  /\ feed \in [Feeds -> FeedStates]
  /\ sent \in [Streams -> Nat]
  /\ sub \in [Subs -> SubStates]
  /\ cursor \in [Subs -> Nat]
  /\ subCancel \in [Actors -> BOOLEAN]
  /\ lock \in [Actors -> Subs \cup {Free, Run}]
  /\ inited \in [Actors -> {"new", "ready", "failed"}]
  /\ woundDown \in [Actors -> Nat]
  /\ handled \in [Subs -> Seq(Nat)]

Init ==
  /\ main = "bind" /\ idx = 1 /\ reason = "none"
  /\ shutdown = FALSE /\ signal = FALSE /\ failures = <<>>
  /\ feed = [f \in Feeds |-> "unspawned"]
  /\ sent = [e \in Streams |-> 0]
  /\ sub = [s \in Subs |-> "select"]
  /\ cursor = [s \in Subs |-> 0]
  /\ subCancel = [a \in Actors |-> FALSE]
  /\ lock = [a \in Actors |-> Free]
  /\ inited = [a \in Actors |-> "new"]
  /\ woundDown = [a \in Actors |-> 0]
  /\ handled = [s \in Subs |-> <<>>]

SubsOf(a) == {s \in Subs : SubActor[s] = a}

-----------------------------------------------------------------------------
(* Harness::run: status bind, init, feeds.                                 *)

\* The status listener is bound before any init; a failed bind returns at
\* once through `?`, with neither init nor wind_down.
BindStatus ==
  /\ main = "bind"
  /\ \/ main' = "init" /\ UNCHANGED reason
     \/ main' = "returned" /\ reason' = "BindError"
  /\ UNCHANGED <<idx, shutdown, signal, failures, busVars, subVars, subCancel, lock, lifeVars>>

InitBegin ==
  /\ main = "init" /\ idx <= N
  /\ lock[idx] = Free
  /\ lock' = [lock EXCEPT ![idx] = Run]
  /\ main' = "initializing"
  /\ UNCHANGED <<idx, reason, shutdown, signal, failures, busVars, subVars, subCancel, lifeVars>>

InitOk ==
  /\ main = "initializing"
  /\ inited' = [inited EXCEPT ![idx] = "ready"]
  /\ lock' = [lock EXCEPT ![idx] = Free]
  /\ idx' = idx + 1 /\ main' = "init"
  /\ UNCHANGED <<reason, shutdown, signal, failures, busVars, subVars, subCancel, woundDown>>

\* `break reason` followed by wind_down_all's shutdown.cancel().
Decide(r) ==
  /\ reason' = r
  /\ shutdown' = TRUE
  /\ main' = "cancelSubs" /\ idx' = 1

\* A failing init goes straight to wind_down_all with ActorFailed: the inits
\* of the actors after it are never called.  Faulty variants: run returns the
\* error itself, or logs it and goes on.
InitErrReturns == main' = "returned" /\ reason' = "ActorFailed" /\ UNCHANGED <<idx, shutdown>>
InitErrIgnored == main' = "init" /\ idx' = idx + 1 /\ UNCHANGED <<reason, shutdown>>
OnInitErr == Decide("ActorFailed")

InitErr ==
  /\ main = "initializing"
  /\ inited' = [inited EXCEPT ![idx] = "failed"]
  /\ lock' = [lock EXCEPT ![idx] = Free]
  /\ OnInitErr
  /\ UNCHANGED <<signal, failures, busVars, subVars, subCancel, woundDown>>

InitDone ==
  /\ main = "init" /\ idx > N
  /\ main' = "spawnFeeds"
  /\ UNCHANGED <<idx, reason, shutdown, signal, failures, busVars, subVars, subCancel, lock, lifeVars>>

\* Feeds start after the last init; faulty variant: while inits still run.
StartEarly == main \in {"init", "spawnFeeds"}
StartTime == main = "spawnFeeds"

SpawnFeed(f) ==
  /\ StartTime /\ feed[f] = "unspawned"
  /\ feed' = [feed EXCEPT ![f] = "running"]
  /\ UNCHANGED <<mainVars, shutdown, signal, failures, sent, subVars, subCancel, lock, lifeVars>>

-----------------------------------------------------------------------------
(* Feed tasks and the bus.                                                 *)

\* A receiver lives as long as its task.
Listening(e) == \E s \in Subs : SubStream[s] = e /\ sub[s] # "done"

\* With no receiver left, broadcast::send returns Err and stores nothing; the
\* feed ignores it.  A feed need not have seen the shutdown token yet.
Publish(f) ==
  LET e == FeedStream[f]
  IN  /\ feed[f] = "running"
      /\ Listening(e)
      /\ sent[e] < MaxEvents[e]
      /\ sent' = [sent EXCEPT ![e] = @ + 1]
      /\ UNCHANGED <<mainVars, shutdown, signal, failures, feed, subVars, subCancel, lock, lifeVars>>

\* run returns: Ok when cancelled or when its input has ended, Err on failure.
FeedExit(f, outcome) ==
  /\ feed[f] = "running"
  /\ feed' = [feed EXCEPT ![f] = outcome]
  /\ UNCHANGED <<mainVars, shutdown, signal, failures, sent, subVars, subCancel, lock, lifeVars>>

\* Only the select loop listens; the handler is dropped with it.
SignalArrives ==
  /\ ~signal
  /\ main \in {"pollFailures", "pollStop", "pollFeeds", "parked"}
  /\ signal' = TRUE
  /\ UNCHANGED <<mainVars, shutdown, failures, busVars, subVars, subCancel, lock, lifeVars>>

-----------------------------------------------------------------------------
(* The select loop of Harness::run.                                        *)

\* The top of the loop: the feeds are looked at before the select!, so when the
\* last one has been joined run stops whatever the other branches and the bus
\* still hold.
Loop(feeds) ==
  \/ (\A f \in Feeds : feeds[f] = "joined") /\ Decide("InputsClosed")
  \/ /\ \E f \in Feeds : feeds[f] # "joined"
     /\ main' = "pollFailures"
     /\ UNCHANGED <<idx, reason, shutdown>>

FeedsSpawned ==
  /\ main = "spawnFeeds" /\ \A f \in Feeds : feed[f] # "unspawned"
  /\ Loop(feed)
  /\ UNCHANGED <<signal, failures, busVars, subVars, subCancel, lock, lifeVars>>

\* The failure channel is the first branch of the biased select!, ahead of
\* the token the failing subscription cancels next.
PollFailures ==
  /\ main = "pollFailures"
  /\ \/ /\ failures # <<>>
        /\ failures' = Tail(failures)
        /\ Decide("ActorFailed")
     \/ /\ failures = <<>>
        /\ main' = "pollStop"
        /\ UNCHANGED <<idx, reason, shutdown, failures>>
  /\ UNCHANGED <<signal, busVars, subVars, subCancel, lock, lifeVars>>

\* The second and the third branch, shutdown.cancelled() and the OS signal,
\* give the same reason.
PollStop ==
  /\ main = "pollStop"
  /\ \/ (shutdown \/ signal) /\ Decide("Signal")
     \/ ~shutdown /\ ~signal /\ main' = "pollFeeds" /\ UNCHANGED <<idx, reason, shutdown>>
  /\ UNCHANGED <<signal, failures, busVars, subVars, subCancel, lock, lifeVars>>

Finished(f) == feed[f] \in {"ok", "err"}

PollFeeds ==
  /\ main = "pollFeeds"
  /\ \/ \E f \in Feeds :
          /\ Finished(f)
          /\ feed' = [feed EXCEPT ![f] = "joined"]
          /\ \/ feed[f] = "ok" /\ Loop(feed')
             \/ feed[f] = "err" /\ Decide("FeedFailed")
     \/ /\ \A f \in Feeds : ~Finished(f)
        /\ main' = "parked"
        /\ UNCHANGED <<idx, reason, shutdown, feed>>
  /\ UNCHANGED <<signal, failures, sent, subVars, subCancel, lock, lifeVars>>

\* Any branch that becomes ready wakes the task, which polls from the first.
Wake ==
  /\ main = "parked"
  /\ failures # <<>> \/ shutdown \/ signal \/ \E f \in Feeds : Finished(f)
  /\ main' = "pollFailures"
  /\ UNCHANGED <<idx, reason, shutdown, signal, failures, busVars, subVars, subCancel, lock, lifeVars>>

-----------------------------------------------------------------------------
(* wind_down_all.                                                          *)

\* Faulty variant: one actor too many.
ActorLeftOffByOne == idx <= N + 1
ActorLeft == idx <= N

CancelSubs ==
  /\ main = "cancelSubs" /\ ActorLeft
  /\ subCancel' = [a \in Actors |-> a = idx \/ subCancel[a]]
  /\ idx' = idx + 1
  /\ UNCHANGED <<main, reason, shutdown, signal, failures, busVars, subVars, lock, lifeVars>>

SubsCancelled ==
  /\ main = "cancelSubs" /\ idx > N
  /\ main' = "await" /\ idx' = 1
  /\ UNCHANGED <<reason, shutdown, signal, failures, busVars, subVars, subCancel, lock, lifeVars>>

\* Faulty variant: wait only for handlers that are running.
SubsIdle(a) == \A s \in SubsOf(a) : sub[s] # "handling"

Drained(a) == \A s \in SubsOf(a) : sub[s] = "done"

WindDownBegin ==
  /\ main = "await" /\ idx <= N
  /\ Drained(idx)
  /\ lock[idx] = Free
  /\ lock' = [lock EXCEPT ![idx] = Run]
  /\ main' = "windingDown"
  /\ UNCHANGED <<idx, reason, shutdown, signal, failures, busVars, subVars, subCancel, lifeVars>>

\* An Err from wind_down is only logged.
WindDownEnd ==
  /\ main = "windingDown"
  /\ woundDown' = [woundDown EXCEPT ![idx] = @ + 1]
  /\ lock' = [lock EXCEPT ![idx] = Free]
  /\ main' = "await" /\ idx' = idx + 1
  /\ UNCHANGED <<reason, shutdown, signal, failures, busVars, subVars, subCancel, inited>>

Return ==
  /\ main = "await" /\ idx > N
  /\ main' = "returned"
  /\ UNCHANGED <<idx, reason, shutdown, signal, failures, busVars, subVars, subCancel, lock, lifeVars>>

-----------------------------------------------------------------------------
(* A subscription task: SubscriptionFactory::new.                          *)

\* run owns the bus, so the channels close only once it has returned and no
\* feed task still holds a sender.
Closed(e) == main = "returned" /\ \A f \in Feeds : FeedStream[f] = e => feed[f] # "running"

\* First branch of the biased select!: the actor's own cancellation token.
PollCancel(s) ==
  /\ sub[s] = "select"
  /\ \/ subCancel[SubActor[s]] /\ sub' = [sub EXCEPT ![s] = "done"]
     \/ /\ ~subCancel[SubActor[s]]
        /\ cursor[s] < sent[SubStream[s]]
        /\ sub' = [sub EXCEPT ![s] = "recv"]
     \/ /\ ~subCancel[SubActor[s]]
        /\ cursor[s] = sent[SubStream[s]] /\ Closed(SubStream[s])
        /\ sub' = [sub EXCEPT ![s] = "done"]
  /\ UNCHANGED <<mainVars, shutdown, signal, failures, busVars, cursor, handled, subCancel, lock, lifeVars>>

Lagging(s) == cursor[s] + Capacity < sent[SubStream[s]]

\* Faulty variants: a lag is tolerated on every subscription, or stops the run
\* without a report.
AfterLagTolerant(s) == "select"
AfterLagSilent(s) == IF s \in Critical THEN "stopping" ELSE "select"
AfterLag(s) == IF s \in Critical THEN "failing" ELSE "select"

\* Lagged: the receiver jumps to the oldest retained event; fatal only for a
\* critical subscription.
RecvLagged(s) ==
  /\ sub[s] = "recv" /\ Lagging(s)
  /\ cursor' = [cursor EXCEPT ![s] = sent[SubStream[s]] - Capacity]
  /\ sub' = [sub EXCEPT ![s] = AfterLag(s)]
  /\ UNCHANGED <<mainVars, shutdown, signal, failures, busVars, handled, subCancel, lock, lifeVars>>

RecvEvent(s) ==
  /\ sub[s] = "recv" /\ ~Lagging(s)
  /\ cursor' = [cursor EXCEPT ![s] = @ + 1]
  /\ sub' = [sub EXCEPT ![s] = "locking"]
  /\ UNCHANGED <<mainVars, shutdown, signal, failures, busVars, handled, subCancel, lock, lifeVars>>

\* Faulty variant: the handler does not wait for the mutex.
ActorAlways(a) == TRUE
ActorFree(a) == lock[a] = Free

HandlerBegin(s) ==
  /\ sub[s] = "locking"
  /\ ActorFree(SubActor[s])
  /\ lock' = [lock EXCEPT ![SubActor[s]] = s]
  /\ sub' = [sub EXCEPT ![s] = "handling"]
  /\ handled' = [handled EXCEPT ![s] = Append(@, cursor[s])]
  /\ UNCHANGED <<mainVars, shutdown, signal, failures, busVars, cursor, subCancel, lifeVars>>

\* Ok, or an error that is not fatal.  Faulty variant: any error ends the task.
ResumeOrQuit == {"select", "done"}
Resume == {"select"}

HandlerReturns(s) ==
  /\ sub[s] = "handling"
  /\ \E pc \in Resume : sub' = [sub EXCEPT ![s] = pc]
  /\ lock' = [lock EXCEPT ![SubActor[s]] = Free]
  /\ UNCHANGED <<mainVars, shutdown, signal, failures, busVars, cursor, handled, subCancel, lifeVars>>

HandlerFatal(s) ==
  /\ sub[s] = "handling"
  /\ sub' = [sub EXCEPT ![s] = "failing"]
  /\ UNCHANGED <<mainVars, shutdown, signal, failures, busVars, cursor, handled, subCancel, lock, lifeVars>>

\* The failure is on the channel before the token is cancelled.
ReportFailure(s) ==
  /\ sub[s] = "failing"
  /\ failures' = Append(failures, SubActor[s])
  /\ sub' = [sub EXCEPT ![s] = "stopping"]
  /\ UNCHANGED <<mainVars, shutdown, signal, busVars, cursor, handled, subCancel, lock, lifeVars>>

\* request_shutdown(), then break; a handler's guard is dropped by the break.
\* Faulty variant: the guard outlives the task.
KeepGuard(s) == lock
DropGuard(s) == IF lock[SubActor[s]] = s THEN [lock EXCEPT ![SubActor[s]] = Free] ELSE lock

StopAfterFailure(s) ==
  /\ sub[s] = "stopping"
  /\ shutdown' = TRUE
  /\ sub' = [sub EXCEPT ![s] = "done"]
  /\ lock' = DropGuard(s)
  /\ UNCHANGED <<mainVars, signal, failures, busVars, cursor, handled, subCancel, lifeVars>>

\* ActorContext::request_shutdown, from a handler or from init.
RequestShutdown(a) ==
  /\ ~shutdown
  /\ \/ main = "initializing" /\ idx = a
     \/ \E s \in SubsOf(a) : sub[s] = "handling"
  /\ shutdown' = TRUE
  /\ UNCHANGED <<mainVars, signal, failures, busVars, subVars, subCancel, lock, lifeVars>>

-----------------------------------------------------------------------------

\* The process is over: run has returned and no task is left.
Terminated ==
  /\ main = "returned"
  /\ \A s \in Subs : sub[s] = "done"
  /\ \A f \in Feeds : feed[f] # "running"
  /\ UNCHANGED vars

MainStep ==
  \/ BindStatus \/ InitBegin \/ InitOk \/ InitErr \/ InitDone
  \/ \E f \in Feeds : SpawnFeed(f)
  \/ FeedsSpawned
  \/ PollFailures \/ PollStop \/ PollFeeds \/ Wake
  \/ CancelSubs \/ SubsCancelled \/ WindDownBegin \/ WindDownEnd \/ Return

SubStep(s) ==
  \/ PollCancel(s) \/ RecvLagged(s) \/ RecvEvent(s) \/ HandlerBegin(s)
  \/ HandlerReturns(s) \/ HandlerFatal(s) \/ ReportFailure(s) \/ StopAfterFailure(s)

FeedStep(f) == Publish(f) \/ FeedExit(f, "ok") \/ FeedExit(f, "err")

Next ==
  \/ MainStep
  \/ \E s \in Subs : SubStep(s)
  \/ \E f \in Feeds : FeedStep(f)
  \/ \E a \in Actors : RequestShutdown(a)
  \/ SignalArrives
  \/ Terminated

Spec == Init /\ [][Next]_vars

\* The runtime keeps scheduling run and every subscription task, and handlers,
\* inits and wind_downs return.  Nothing is assumed of feeds, signals or
\* actors that ask for a shutdown.
Fairness == WF_vars(MainStep) /\ \A s \in Subs : WF_vars(SubStep(s))

FairSpec == Spec /\ Fairness

-----------------------------------------------------------------------------
(* Properties.                                                             *)

\* A critical subscription hands its actor every event of its stream from the
\* first on, in order and without a gap, whatever the bus overwrote
\* (builder.rs:110-113, "a missed fill or lifecycle update leaves position
\* tracking permanently wrong").
CriticalContiguous ==
  \A s \in Critical : \A i \in DOMAIN handled[s] : handled[s][i] = i

\* A critical subscription that has ended without handling all it was past
\* has made the whole run stop and its failure is on record: events are never
\* dropped silently, and one already taken off the channel is always handled
\* before the task ends (harness.rs:208-218, "drain handler tasks").
LossIsReported ==
  \A s \in Critical :
    sub[s] = "done" /\ Len(handled[s]) < cursor[s] =>
      shutdown /\ (failures # <<>> \/ reason = "ActorFailed")

\* Once an actor's wind_down has begun, none of its subscription tasks is left
\* to touch it, though other actors may still be handling events
\* (actor.rs:95, "after all subscriptions have been cancelled").
WindDownExclusive ==
  \A a \in Actors :
    woundDown[a] > 0 \/ (main = "windingDown" /\ idx = a) => Drained(a)

\* The mutex: at most one of init, wind_down and the handlers of one actor is
\* in progress (actor.rs:10-12).
Exclusive ==
  \A a \in Actors :
    /\ \A s1, s2 \in SubsOf(a) : sub[s1] = "handling" /\ sub[s2] = "handling" => s1 = s2
    /\ main \in {"initializing", "windingDown"} /\ idx = a =>
         \A s \in SubsOf(a) : sub[s] # "handling"

\* No actor handles an event before every actor's init has succeeded: an
\* actor's orders cannot race another one's start-up (harness.rs:4-8).
ReadyBeforeEvents ==
  (\E s \in Subs : cursor[s] > 0) => \A a \in Actors : inited[a] = "ready"

\* wind_down runs exactly once per actor, in registration order, on every way
\* out of run except the failed status bind (actor.rs:6-7, ARCHITECTURE.md:139).
WindDownOnce ==
  /\ \A a, b \in Actors : a <= b => 1 >= woundDown[a] /\ woundDown[a] >= woundDown[b]
  /\ main = "returned" /\ reason # "BindError" => \A a \in Actors : woundDown[a] = 1

\* Whatever stops a run - a token, an OS signal, a reported failure - the run
\* gets through wind_down_all and returns: no task is waited for that waits
\* for something else.
ShutdownCompletes ==
  (shutdown \/ signal \/ failures # <<>> \/ \A f \in Feeds : Finished(f)) ~> main = "returned"

\* A critical subscription that falls behind by more than the channel holds
\* takes the harness down, also when it is waiting for its actor's mutex
\* (builder.rs:110-113).
LagStopsRun ==
  \A s \in Critical : Lagging(s) ~> main = "returned"

\* Every event published on a stream reaches the handler of each critical
\* subscription unless the run ends.
EveryEventHandled ==
  \A s \in Critical : \A n \in 1..MaxEvents[SubStream[s]] :
    sent[SubStream[s]] >= n ~> (Len(handled[s]) >= n \/ main = "returned")

\* The harness implements the actor lifecycle it documents.
Phase(a) ==
  IF woundDown[a] > 0 THEN "down"
  ELSE IF main = "windingDown" /\ idx = a THEN "windingDown"
  ELSE IF main = "initializing" /\ idx = a THEN "initialising"
  ELSE inited[a]

Lifecycle == INSTANCE ActorLifecycle WITH
  Events <- UNION {1..MaxEvents[e] : e \in Streams},
  phase <- [a \in Actors |-> Phase(a)],
  busy  <- [a \in Actors |-> IF lock[a] = Run THEN Free ELSE lock[a]]

ImplementsLifecycle == Lifecycle!Spec
=============================================================================
