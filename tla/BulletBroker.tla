---------------------------- MODULE BulletBroker ----------------------------
(***************************************************************************)
(* The order calls of Bullet (src/crates/exchanges/bullet/src/broker.rs).  *)
(* A batch is one transaction.  An HTTP error leaves open whether it has   *)
(* been committed; every entry is then reported as failed.                 *)
(* Ids are numeric, as ClientIdIssuer makes them, so that every entry is   *)
(* sent; prices and quantities are left out.                               *)
(***************************************************************************)
EXTENDS OrderCalls

\* Success is reported for every order of a committed transaction; only the
\* orders the venue has accepted are echoed with their ids.
PlaceOrders(batch) ==
  {Outcome(batch, {}, taken, taken) : taken \in SUBSET batch}
  \cup {Outcome({}, {}, taken, {}) : taken \in {{}, batch}}

CancelOrders(batch) ==
  {Outcome(batch, batch, {}, {}), Outcome({}, {}, {}, {}), Outcome({}, batch, {}, {})}

\* The results carry no order id.
AmendOrders(batch) ==
  {Outcome(batch, batch, batch, {}), Outcome({}, {}, {}, {}), Outcome({}, batch, batch, {})}

\* What cancel_all_orders answers, and which of the resting orders are gone.
CancelAllOrders(resting) ==
  {[ok |-> TRUE, gone |-> resting]} \cup [ok : {FALSE}, gone : {{}, resting}]

\* get_open_orders reports client ids.
OpenOrdersCarryClientIds == TRUE
=============================================================================
