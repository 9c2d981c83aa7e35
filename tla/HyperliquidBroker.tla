------------------------- MODULE HyperliquidBroker --------------------------
(***************************************************************************)
(* The order calls of Hyperliquid (src/crates/exchanges/hyperliquid/src/   *)
(* broker.rs).  Entries of a batch succeed one by one.  byOid is the set   *)
(* of the keys whose orders are known by a numeric order id; the others    *)
(* are addressed by client id.                                             *)
(***************************************************************************)
EXTENDS OrderCalls, Naturals

\* One status an order: an error is final, a missing status or an HTTP error is
\* not, and an order may be accepted without an id (WaitingForFill).
PlaceOrders(batch) ==
  LET reached(f, step) == {k \in batch : f[k] >= step}
  IN  {Outcome(reached(f, 2), {}, reached(f, 1), reached(f, 3)) : f \in [batch -> 0..3]}

\* One call by order id and one by client id.  A response counts as success for
\* all of its entries: neither the statuses in it nor a refusal is looked at.
CancelOrders(batch, byOid) ==
  {Outcome(x \cup y, gone, {}, {}) :
     x \in {{}, batch \cap byOid}, y \in {{}, batch \ byOid}, gone \in SUBSET batch}

Modify(batch) ==
  {[o EXCEPT !.gone = o.taken] : o \in PlaceOrders(batch)}

\* What cannot be modified by order id is cancelled and placed.
AmendOrders(batch, byOid) ==
  LET rest == batch \ byOid
  IN  Joined(Modify(batch \cap byOid), CancelThenPlace(CancelOrders(rest, {}), PlaceOrders(rest)))

\* The open orders are read and cancelled by order id, whatever comes of it.
CancelAllOrders(resting) ==
  [ok : {TRUE}, gone : SUBSET resting] \cup {[ok |-> FALSE, gone |-> {}]}

OpenOrdersCarryClientIds == FALSE
=============================================================================
