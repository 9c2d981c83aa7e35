----------------------------- MODULE OrderCalls -----------------------------
(***************************************************************************)
(* What an order call of the Broker trait (src/crates/bb-core/src/         *)
(* broker.rs) comes to.  A call takes a batch, here the set of the keys of *)
(* its entries, and has a set of outcomes:                                 *)
(*   told    the entries whose result says success                         *)
(*   gone    the entries whose old order no longer rests                   *)
(*   taken   the entries whose new order the venue has taken               *)
(*   named   the entries whose result carries the venue's order id         *)
(* An outer Err counts as a call that is told nothing and does nothing.    *)
(***************************************************************************)
EXTENDS FiniteSets

Outcome(told, gone, taken, named) ==
  [told |-> told, gone |-> gone, taken |-> taken, named |-> named]

\* The trait's default amend_orders: the results of the cancels are dropped.
CancelThenPlace(cancels, places) ==
  {[p EXCEPT !.gone = c.gone] : c \in cancels, p \in places}

\* Two calls for two parts of a batch.
Joined(first, second) ==
  {Outcome(x.told \cup y.told, x.gone \cup y.gone, x.taken \cup y.taken, x.named \cup y.named) :
     x \in first, y \in second}
=============================================================================
