----------------------------- MODULE OrderVenue -----------------------------
(***************************************************************************)
(* External: a venue as a quoting strategy sees it.  Orders are known by   *)
(* the client ids they were placed with and rest at a quote (a side, or a  *)
(* rung of a side).  They fill piece by piece and end on their own or when *)
(* they are cancelled.  The venue's events reach the actor in two channels *)
(* whose order is open: trades, and reports that an order is open or has   *)
(* ended (OrderLifecycle).                                                 *)
(*                                                                         *)
(* A client id that nothing refers to any more is as good as a new one and *)
(* is used again, so that a few for every quote are enough.                *)
(***************************************************************************)
EXTENDS Integers, FiniteSets, FiniteSetsExt

CONSTANTS
  Quotes,       \* where a strategy quotes
  Ids,          \* the client ids of a quote are its pairs with these
  Size          \* order size, in units of the smallest fill

ASSUME OrderVenueAssumption ==
  /\ Size \in Nat \ {0}
  /\ IsFiniteSet(Ids)

\* The calls of a strategy's broker.
Calls == INSTANCE Broker

Cids == Quotes \X Ids
At(c) == c[1]

VARIABLES
  order,    \* what still rests of the order of a client id
  queued,   \* of the order's fills, what has not been handled as trades
  reports   \* <<cid, "open" or "ended">> that have not been handled

venue == <<order, queued, reports>>

VenueTypeOK ==
  /\ order \in [Cids -> 0..Size] /\ queued \in [Cids -> 0..Size]
  /\ reports \subseteq Cids \X {"open", "ended"}

Resting == {c \in Cids : order[c] > 0}
Unheard(c) == queued[c] > 0 \/ \E what \in {"open", "ended"} : <<c, what>> \in reports

\* The client ids that can be issued while a strategy holds some, and one each
\* for some quotes.
Unused(held) == {c \in Cids \ (held \cup Resting) : ~Unheard(c)}
CanIssue(quotes, held) == \A q \in quotes : \E c \in Unused(held) : At(c) = q
Issue(quotes, held) == [q \in quotes |-> CHOOSE c \in Unused(held) : At(c) = q]

Sum(cids, amount) == MapThenSumSet(LAMBDA c : amount[c], cids)

-----------------------------------------------------------------------------
(* The venue between two calls of a handler: its orders and reports.       *)

Now == [order |-> order, reports |-> reports]

\* The orders of some client ids have ended.
Ended(v, cids) ==
  [order |-> [c \in Cids |-> IF c \in cids THEN 0 ELSE v.order[c]],
   reports |-> v.reports \cup {<<c, "ended">> : c \in {d \in cids : v.order[d] > 0}}]

\* The venue has taken new orders.
Taken(v, cids) ==
  [order |-> [c \in Cids |-> IF c \in cids THEN Size ELSE v.order[c]],
   reports |-> v.reports \cup {<<c, "open">> : c \in cids}]

\* It may report orders that it has not taken.
Rejected(v, cids) ==
  [order |-> v.order, reports |-> v.reports \cup {<<c, "ended">> : c \in cids}]

Becomes(v) == order' = v.order /\ reports' = v.reports /\ queued' = queued

-----------------------------------------------------------------------------

Fill(c) ==
  /\ \E qty \in 1..order[c] :
       /\ order' = [order EXCEPT ![c] = @ - qty]
       /\ queued' = [queued EXCEPT ![c] = @ + qty]
       /\ reports' = IF qty = order[c] THEN reports \cup {<<c, "ended">>} ELSE reports

VenueEnds(c) ==
  /\ c \in Resting
  /\ Becomes(Ended(Now, {c}))

\* Events are lost in an interruption of the stream.
LoseEvents ==
  /\ \E lost \in SUBSET Cids, kept \in SUBSET reports :
       /\ queued' = [c \in Cids |-> IF c \in lost THEN 0 ELSE queued[c]]
       /\ reports' = kept
       /\ queued' # queued \/ kept # reports
  /\ UNCHANGED order
=============================================================================
