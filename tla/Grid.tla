-------------------------------- MODULE Grid --------------------------------
(***************************************************************************)
(* The static grid actor (src/crates/strategies/grid/src/strategy.rs,      *)
(* grid.rs) with the venue its orders rest at.                             *)
(*                                                                         *)
(* Handlers are atomic (module Harness).  The venue is external: resting   *)
(* orders fill piece by piece, may be cancelled by the venue with or       *)
(* without a report, and their trades reach the actor in order.  A report  *)
(* of a cancellation is of another stream and may be handled before trades *)
(* of its order; those of different orders change different levels and are *)
(* kept in a set.  An order is identified by its client id, for which the  *)
(* code falls back on the venue's id.  Prices are abstracted to what       *)
(* would_cross asks: between which levels the market is.  The trend filter *)
(* may trip and clear at any tick.  Buy is 1 and Sell is -1.               *)
(*                                                                         *)
(* Assumed of the event stream: until the broker reports a permanent       *)
(* disconnect every fill reaches the actor as one trade.  A reconnect gap  *)
(* may lose trades, and at Hyperliquid repeat them, for good: the grid     *)
(* does not take the reconcile signal (FundingArb has such streams).       *)
(***************************************************************************)
EXTENDS Integers, Sequences, FiniteSets, FiniteSetsExt

CONSTANTS
  NumLevels,    \* num_levels
  Size,         \* order_size, in units of the smallest fill
  MaxPosition,  \* max_position
  TrendFilter,  \* whether trend_filter is configured
  MaxOrders,    \* bound: client ids issued
  MaxQueue,     \* bound: trades not yet handled
  MaxLost       \* bound: placements reported as failed that were not

ASSUME GridAssumption ==
  /\ NumLevels \in Nat /\ NumLevels >= 2
  /\ Size \in Nat \ {0} /\ MaxPosition \in Nat
  /\ TrendFilter \in BOOLEAN 
  /\ {MaxOrders, MaxQueue, MaxLost} \subseteq Nat

VARIABLES
  phase,        \* the actor's life: "new", "running", "refused" or "down"
  anchor,       \* how many levels are at or below the anchor price
  levels,       \* GridState.levels
  paused,       \* GridState.paused
  net,          \* inventory.net_position
  issued,       \* client ids issued
  orders,       \* external: the venue's record of each order
  position,     \* external: the account's position at the venue
  trades,       \* Trade events not yet handled
  cancels,      \* orders with an OrderLifecycle(Cancelled or Rejected) event not yet handled
  disconnected, \* the broker reports a permanent disconnect
  shutdown,     \* the actor has requested a shutdown
  lost,         \* history: placements reported as failed that were not
  raced,        \* history: a level was taken off an order that was not settled
  start         \* history: the position at the start

gridVars == <<anchor, levels, paused, net, issued>>
venueVars == <<orders, position, trades, cancels>>
flags == <<disconnected, shutdown>>
vars == <<phase, gridVars, venueVars, flags, lost, raced, start>>

Levels == 1..NumLevels
Cids == 1..MaxOrders
Buy == 1
Sell == -1

Larger(m, n) == IF m > n THEN m ELSE n

NoOrder == [level |-> 0, side |-> 0, left |-> 0]
Dormant == [state |-> "dormant", side |-> 0, cid |-> 0, filled |-> 0]

Resting == {c \in Cids : orders[c].left > 0}

TypeOK ==
  /\ phase \in {"new", "running", "refused", "down"}
  /\ anchor \in 0..NumLevels
  /\ levels \in [Levels -> [state : {"dormant", "pending", "active"}, side : {Buy, Sell, 0},
                            cid : 0..issued, filled : 0..(Size - 1)]]
  /\ \A l \in Levels : /\ (levels[l].state = "active") = (levels[l].cid # 0)
                       /\ (levels[l].state = "dormant") = (levels[l].side = 0)
  /\ {paused, disconnected, shutdown, raced} \subseteq BOOLEAN
  /\ {net, position, start} \subseteq Int /\ issued \in 0..MaxOrders /\ lost \in 0..MaxLost
  /\ orders \in [Cids -> [level : Levels \cup {0}, side : {Buy, Sell, 0}, left : 0..Size]]
  /\ trades \in Seq([cid : Cids, qty : Int])
  /\ cancels \subseteq Cids

Init ==
  /\ phase = "new" /\ anchor \in 0..NumLevels
  /\ levels = [l \in Levels |-> Dormant]
  /\ paused = FALSE /\ net = 0 /\ issued = 0
  /\ orders = [c \in Cids |-> NoOrder]
  /\ position \in {0, 1} /\ start = position
  /\ trades = <<>> /\ cancels = {}
  /\ disconnected = FALSE /\ shutdown = FALSE
  /\ lost = 0 /\ raced = FALSE

-----------------------------------------------------------------------------
(* grid.rs: operations on the levels, here called ls.                      *)

InitialSide(l) == IF l <= anchor THEN Buy ELSE Sell

Pending(s) == [Dormant EXCEPT !.state = "pending", !.side = s]

ComputeLevels == [l \in Levels |-> Pending(InitialSide(l))]

\* A level without a live order waits for a new one, which keeps filled_qty.
Requeue(level) == [level EXCEPT !.state = "pending", !.cid = 0]

\* Only a dormant neighbour is armed.  Faulty variant: any is.
RearmableAlways(ls, l) == l \in Levels
Rearmable(ls, l) == l \in Levels /\ ls[l].state = "dormant"

RearmAdjacent(ls, l, side) ==
  LET target == l + side
  IN  IF Rearmable(ls, target) THEN [ls EXCEPT ![target] = Pending(-side)] ELSE ls

\* Faulty variant: a filled order is not complete yet.
CompleteBeyond(filled) == filled > Size
Complete(filled) == filled >= Size

RecordFill(l, qty) ==
  LET filled == levels[l].filled + qty
  IN  IF Complete(filled)
      THEN RearmAdjacent([levels EXCEPT ![l] = Dormant], l, levels[l].side)
      ELSE [levels EXCEPT ![l].filled = filled]

Resume(ls) ==
  [l \in Levels |-> IF ls[l].state = "dormant" THEN Pending(InitialSide(l)) ELSE ls[l]]

\* What is still open at the active levels of a side.  Faulty variant: the
\* orders that rest already are forgotten.
RemainingNone(ls, side) == 0
ActiveRemaining(ls, side) ==
  MapThenSumSet(LAMBDA l : Larger(Size - ls[l].filled, 0),
                {l \in Levels : ls[l].state = "active" /\ ls[l].side = side})

-----------------------------------------------------------------------------
(* place_pending_orders.                                                   *)

\* With the market above the first m levels, a PostOnly order would cross.
Crosses(side, l, m) == IF side = Buy THEN l > m ELSE l <= m

\* The levels of ls that get an order, decided one after the other against the
\* position that results if all of them fill.
Chosen(ls, n, m) ==
  LET wanted(l) == ls[l].state = "pending" /\ ~Crosses(ls[l].side, l, m)
      step[l \in 0..NumLevels] ==
        IF l = 0 THEN [long |-> n + ActiveRemaining(ls, Buy),
                       short |-> n - ActiveRemaining(ls, Sell), chosen |-> {}]
        ELSE LET p == step[l - 1]
             IN  IF wanted(l) /\ ls[l].side = Buy /\ p.long + Size <= MaxPosition
                 THEN [p EXCEPT !.long = @ + Size, !.chosen = @ \cup {l}]
                 ELSE IF wanted(l) /\ ls[l].side = Sell /\ p.short - Size >= -MaxPosition
                 THEN [p EXCEPT !.short = @ - Size, !.chosen = @ \cup {l}]
                 ELSE p
  IN  step[NumLevels].chosen

CidOf(chosen, l) == issued + Cardinality({k \in chosen : k <= l})

\* The venue accepts some of the batch; whatever it is said to have refused it
\* may have taken all the same.
PlacePending(ls, n) ==
  \E m \in 0..NumLevels :
    LET chosen == Chosen(ls, n, m)
    IN  /\ issued' = issued + Cardinality(chosen) /\ issued' <= MaxOrders
        /\ \E told \in SUBSET chosen : \E taken \in {told, chosen} :
             /\ taken # told => lost < MaxLost
             /\ lost' = IF taken = told THEN lost ELSE lost + 1
             /\ levels' = [l \in Levels |->
                             IF l \in told
                             THEN [ls[l] EXCEPT !.state = "active", !.cid = CidOf(chosen, l)]
                             ELSE ls[l]]
             /\ orders' = [c \in Cids |->
                             IF \E l \in taken : c = CidOf(chosen, l)
                             THEN LET l == CHOOSE l \in taken : c = CidOf(chosen, l)
                                  IN  [level |-> l, side |-> ls[l].side, left |-> Size]
                             ELSE orders[c]]

NothingPlaced(ls) == levels' = ls /\ UNCHANGED <<orders, issued, lost>>

-----------------------------------------------------------------------------
(* cancel_all_orders and the trend filter.                                 *)

\* An order whose trades have not all been handled.
Unsettled(c) == \E i \in DOMAIN trades : trades[i].cid = c

AllCancelled == [c \in Cids |-> [orders[c] EXCEPT !.left = 0]]

\* cancel_all_orders, whose failure is ignored here.
CancelAll ==
  \/ orders' = AllCancelled /\ cancels' = cancels \cup Resting
  \/ UNCHANGED <<orders, cancels>>

\* suspend_all.  Faulty variant: levels with an order wait for its Cancelled event.
SuspendWaiting(ls) == [l \in Levels |-> IF ls[l].state = "active" THEN ls[l] ELSE Dormant]
Suspend(ls) == [l \in Levels |-> Dormant]

-----------------------------------------------------------------------------
(* Actor::init and wind_down.                                              *)

\* Of the calls init makes any may fail.  Orders of an earlier session are
\* gone once cancel_all_orders has succeeded.  The trend filter cannot trip
\* here: its two averages start from the same sample.
Start ==
  /\ phase = "new"
  /\ phase' = "running"
  /\ net' = position
  /\ PlacePending(ComputeLevels, position)
  /\ UNCHANGED <<anchor, paused, position, trades, cancels, flags, raced, start>>

Refuse ==
  /\ phase = "new"
  /\ phase' = "refused"
  /\ UNCHANGED <<gridVars, venueVars, flags, lost, raced, start>>

WindDown ==
  /\ phase = "running"
  /\ phase' = "down"
  /\ CancelAll
  /\ UNCHANGED <<gridVars, position, trades, flags, lost, raced, start>>

-----------------------------------------------------------------------------
(* EventHandler<Trade>, <OrderLifecycle> and <Tick>.                       *)

Holders(c) == {l \in Levels : levels[l].state = "active" /\ levels[l].cid = c}

\* Faulty variant: only fills of a level are counted.
CountedIfHeld(c) == Holders(c) # {}
Counted(c) == TRUE

HandleTrade ==
  /\ phase = "running" /\ trades # <<>>
  /\ LET t == Head(trades)
         total == IF Counted(t.cid) THEN net + t.qty ELSE net
     IN  /\ net' = total
         /\ \/ Holders(t.cid) = {} /\ NothingPlaced(levels)
            \/ \E l \in Holders(t.cid) :
                 PlacePending(RecordFill(l, t.qty * levels[l].side), total)
  /\ trades' = Tail(trades)
  /\ UNCHANGED <<phase, anchor, paused, position, cancels, flags, raced, start>>

\* A level comes off order c too early if it has counted a part of it, or will.
TooEarly(l) == levels[l].filled # 0 \/ Unsettled(levels[l].cid)

HandleCancelled(c) ==
  /\ phase = "running" /\ c \in cancels
  /\ cancels' = cancels \ {c}
  /\ levels' = [l \in Levels |-> IF l \in Holders(c) THEN Requeue(levels[l]) ELSE levels[l]]
  /\ raced' = (raced \/ \E l \in Holders(c) : TooEarly(l))
  /\ UNCHANGED <<phase, anchor, paused, net, issued, orders, position, trades, flags, lost, start>>

\* reconcile_missing_orders against get_open_orders.  Faulty variant: whatever
\* has an id passes for live.
LiveIfKnown(c) == c # 0
Live(c) == c \in Resting
Missing == {l \in Levels : levels[l].state = "active" /\ ~Live(levels[l].cid)}
Reconciled(ls) == [l \in Levels |-> IF l \in Missing THEN Requeue(ls[l]) ELSE ls[l]]

TickSuspends ==
  /\ TrendFilter /\ ~paused
  /\ paused' = TRUE
  /\ CancelAll
  /\ levels' = Suspend(levels)
  /\ raced' = (raced \/ trades # <<>> \/ orders' # AllCancelled)
  /\ UNCHANGED <<issued, lost>>

TickPaused == paused /\ UNCHANGED <<paused, levels, issued, orders, cancels, lost, raced>>

\* The filter is clear, or clears at this tick.
Unpaused == IF paused THEN Resume(levels) ELSE levels

TickPlaces ==
  /\ paused' = FALSE /\ UNCHANGED cancels
  /\ raced' = (raced \/ \E l \in Missing : TooEarly(l))
  /\ PlacePending(Reconciled(Unpaused), net)

\* get_open_orders fails.
TickFails ==
  /\ paused' = FALSE
  /\ NothingPlaced(Unpaused)
  /\ UNCHANGED <<cancels, raced>>

TickBegins ==
  /\ phase = "running" /\ ~disconnected
  /\ UNCHANGED <<phase, anchor, net, position, trades, flags, start>>

Tick == TickBegins /\ (TickSuspends \/ TickPaused \/ TickPlaces \/ TickFails)

\* A tick all of whose calls are answered.
TickWorks == TickBegins /\ TickPlaces

TickDisconnected ==
  /\ phase = "running" /\ disconnected
  /\ shutdown' = TRUE
  /\ UNCHANGED <<phase, gridVars, venueVars, disconnected, lost, raced, start>>

-----------------------------------------------------------------------------
(* The venue.                                                              *)

\* Nothing is reported any more once the broker's stream has ended; until then
\* every trade is (see above).
Fill(c) ==
  /\ Len(trades) < MaxQueue
  /\ \E qty \in 1..orders[c].left :
       /\ orders' = [orders EXCEPT ![c].left = @ - qty]
       /\ position' = position + orders[c].side * qty
       /\ trades' = IF disconnected THEN trades
                    ELSE Append(trades, [cid |-> c, qty |-> orders[c].side * qty])
  /\ UNCHANGED <<phase, gridVars, cancels, flags, lost, raced, start>>

\* A cancellation the actor did not ask for, or a late rejection, which may
\* go unreported.
VenueCancel(c) ==
  /\ c \in Resting
  /\ orders' = [orders EXCEPT ![c].left = 0]
  /\ cancels' \in IF disconnected THEN {cancels} ELSE {cancels, cancels \cup {c}}
  /\ UNCHANGED <<phase, gridVars, position, trades, flags, lost, raced, start>>

Disconnect ==
  /\ phase = "running" /\ ~disconnected
  /\ disconnected' = TRUE
  /\ UNCHANGED <<phase, gridVars, venueVars, shutdown, lost, raced, start>>

-----------------------------------------------------------------------------

Next ==
  \/ Start \/ Refuse \/ WindDown
  \/ HandleTrade \/ (\E c \in Cids : HandleCancelled(c)) \/ Tick \/ TickDisconnected
  \/ (\E c \in Cids : Fill(c) \/ VenueCancel(c)) \/ Disconnect

Spec == Init /\ [][Next]_vars

\* The tick feed keeps ticking, and not all REST calls of all ticks fail.
FairSpec == Spec /\ WF_vars(TickWorks)

-----------------------------------------------------------------------------
(* Properties.                                                             *)

QueuedQty ==
  LET sum[i \in 0..Len(trades)] == IF i = 0 THEN 0 ELSE sum[i - 1] + trades[i].qty
  IN  sum[Len(trades)]

\* Every fill is counted once, also one for an order that its level has been
\* taken off, or that no level ever held (strategy.rs:395 records before it
\* looks for the level).
InventoryExact == phase = "running" /\ ~disconnected => net + QueuedQty = position

\* The two ways in which the grid loses track of an order: a level is taken off
\* it before all of its trades are counted, or it was reported as refused.
OnTrack == phase = "running" /\ ~disconnected /\ ~raced /\ lost = 0

\* An order that rests is the one that its level holds, with its side and what is
\* left of it, so that no level has two (grid.rs:6-10).
RestingIsTracked ==
  OnTrack =>
    \A c \in Resting :
      LET o == orders[c]
          l == levels[o.level]
          queued == Cardinality({i \in DOMAIN trades : trades[i].cid = c})
      IN  /\ l.state = "active" /\ l.cid = c /\ l.side = o.side
          /\ queued = 0 => l.filled + o.left = Size

\* Whatever of the resting orders fills, in whatever order, the position stays
\* within max_position, or where it was at the start (config.rs:52 "Hard
\* inventory cap").
RestingOf(side) ==
  MapThenSumSet(LAMBDA c : orders[c].left, {c \in Resting : orders[c].side = side})

WorstCaseCapped ==
  OnTrack =>
    /\ position + RestingOf(Buy) <= Larger(MaxPosition, start)
    /\ position - RestingOf(Sell) >= -Larger(MaxPosition, -start)

\* A suspended grid places nothing, whatever is still reported to it of the
\* orders it has cancelled (README.md of the crate: "pauses new placement").
PausedIsQuiet ==
  [][paused /\ paused' => Resting' \subseteq Resting]_vars

\* A level does not wait for ever for an order that is gone, even when nothing
\* told it so (strategy.rs:214-216); Spent is the bound on client ids.
Spent == issued + NumLevels > MaxOrders

DeadOrderNoticed ==
  \A l \in Levels :
    (levels[l].state = "active" /\ levels[l].cid \notin Resting)
      ~> (levels[l].cid \in Resting \cup {0} \/ phase # "running" \/ disconnected \/ Spent)

\* Stated by grid.rs:6-8: at any time at most one of {buy, sell} rests at a
\* level, and none at a dormant one.
DormantIsEmpty ==
  phase = "running" => \A c \in Resting : levels[orders[c].level].state # "dormant"
=============================================================================
