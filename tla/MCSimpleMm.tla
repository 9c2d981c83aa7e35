----------------------------- MODULE MCSimpleMm -----------------------------
(***************************************************************************)
(* The run explores two scopes, chosen at the start.                       *)
(*   "orderly": no order goes loose and no event is lost; sells fill in    *)
(*     full.                                                               *)
(*   "faulty": whatever goes wrong, with quotes on the side of the bid.    *)
(***************************************************************************)
EXTENDS SimpleMm

CONSTANT MaxEvents   \* bound: reports, and orders with trades, that are queued

VARIABLE scope

MCQuotes == {1, -1}

\* None, or more than the limit on either side.
MCInherited == {0, 3, -3}

\* A report of an order that no slot holds changes nothing but itself, and an
\* order id is not used at Bullet: such reports are handled first.
Idle == {r \in reports : r[1] \notin HeldCids \/ (exchange = "bullet" /\ r[2] = "open")}

InScope ==
  /\ Cardinality({c \in Cids : queued[c] > 0}) + Cardinality(reports) <= MaxEvents
  /\ life # "down"
  /\ CASE scope = "orderly" -> loose = {} /\ ~skewed /\ (dryRun \/ Resting = {} \/ life = "running")
       [] scope = "faulty" -> ~dryRun /\ HeldCids \cup Resting \subseteq On(1, Cids)

InScopeStep ==
  scope = "orderly" => \A c \in On(-1, Resting) : order'[c] \in {0, Size}

MCInit == Init /\ scope \in {"orderly", "faulty"} /\ InScope
MCNext ==
  /\ InScope
  /\ IF Idle # {} /\ life = "running" THEN \E r \in Idle : HandleReport(r[1], r[2]) ELSE Next
  /\ InScopeStep
  /\ UNCHANGED scope
MCSpec == MCInit /\ [][MCNext]_<<vars, scope>>
=============================================================================
