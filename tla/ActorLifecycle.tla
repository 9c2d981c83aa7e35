--------------------------- MODULE ActorLifecycle ---------------------------
(***************************************************************************)
(* What the harness promises the author of an actor, with no tasks,        *)
(* channels, tokens or mutexes in it (actor.rs, lines 3-12 and 86-103):    *)
(* actors are initialised one after the other, every handler call is       *)
(* exclusive, no event is handled before every actor is ready, an event    *)
(* stream is handled in publication order, a critical one without a gap,   *)
(* and wind_down is the last thing that happens to an actor, in            *)
(* registration order.  The module Harness is shown to implement it.       *)
(***************************************************************************)
EXTENDS Naturals, Sequences

CONSTANTS
  N,          \* the number of registered actors; actor a is the a-th one wired
  Subs,       \* the subscriptions (one per .sub / .sub_critical call)
  SubActor,   \* the actor each subscription belongs to
  Critical,   \* the subscriptions made with .sub_critical
  Events,     \* the positions of a stream (Nat, or an initial part of it for TLC)
  Free        \* "nobody": the value of busy[a] when no handler of a runs

VARIABLES
  phase,      \* where each actor is in its life
  busy,       \* the subscription whose handler has the actor, or Free
  handled     \* per subscription, the events handed to on_event, in order

vars == <<phase, busy, handled>>

Actors == 1..N

Phases == {"new", "initialising", "ready", "failed", "windingDown", "down"}

Init ==
  /\ phase = [a \in Actors |-> "new"]
  /\ busy = [a \in Actors |-> Free]
  /\ handled = [s \in Subs |-> <<>>]

BeginInit(a) ==
  /\ phase[a] = "new"
  /\ \A b \in Actors : b < a => phase[b] = "ready"
  /\ phase' = [phase EXCEPT ![a] = "initialising"]
  /\ UNCHANGED <<busy, handled>>

EndInit(a) ==
  /\ phase[a] = "initialising"
  /\ \E r \in {"ready", "failed"} : phase' = [phase EXCEPT ![a] = r]
  /\ UNCHANGED <<busy, handled>>

\* The events of a subscription arrive in publication order; a critical
\* subscription skips none of them.
InOrder(s, n) ==
  LET seen == handled[s]
      last == IF seen = <<>> THEN 0 ELSE seen[Len(seen)]
  IN  /\ n > last
      /\ s \in Critical => n = last + 1

BeginEvent(s, n) ==
  /\ \A b \in Actors : phase[b] \notin {"new", "initialising", "failed"}
  /\ phase[SubActor[s]] = "ready"
  /\ busy[SubActor[s]] = Free
  /\ InOrder(s, n)
  /\ handled' = [handled EXCEPT ![s] = Append(@, n)]
  /\ busy' = [busy EXCEPT ![SubActor[s]] = s]
  /\ UNCHANGED phase

EndEvent(s) ==
  /\ busy[SubActor[s]] = s
  /\ busy' = [busy EXCEPT ![SubActor[s]] = Free]
  /\ UNCHANGED <<phase, handled>>

\* Also for an actor whose init failed or was never called: wind_down_all
\* visits every actor that was wired.
BeginWindDown(a) ==
  /\ phase[a] \in {"new", "ready", "failed"}
  /\ busy[a] = Free
  /\ \A b \in Actors : b < a => phase[b] = "down"
  /\ phase' = [phase EXCEPT ![a] = "windingDown"]
  /\ UNCHANGED <<busy, handled>>

EndWindDown(a) ==
  /\ phase[a] = "windingDown"
  /\ phase' = [phase EXCEPT ![a] = "down"]
  /\ UNCHANGED <<busy, handled>>

Next ==
  \/ \E a \in Actors : BeginInit(a) \/ EndInit(a) \/ BeginWindDown(a) \/ EndWindDown(a)
  \/ \E s \in Subs : EndEvent(s) \/ \E n \in Events : BeginEvent(s, n)

Spec == Init /\ [][Next]_vars
=============================================================================
