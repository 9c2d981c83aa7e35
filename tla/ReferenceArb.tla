---------------------------- MODULE ReferenceArb ----------------------------
(***************************************************************************)
(* The reference-price arbitrage actor (src/crates/strategies/             *)
(* reference-arb/src/strategy.rs) with the venue it trades on.             *)
(*                                                                         *)
(* Handlers are atomic: the harness's mutex gives each the actor (module   *)
(* Harness).  Trades and order updates are separate event streams, so the  *)
(* actor sees each in order and the two in any interleaving.  The venue is *)
(* external: an immediate-or-cancel order executes some time after it was  *)
(* submitted, for all, part or nothing of its size in one or two trades,   *)
(* and ends "filled" or "cancelled" (a rejection by the matching engine is *)
(* handled like the latter).  Updates that are not terminal are ignored by *)
(* the actor and left out.                                                 *)
(*                                                                         *)
(* Prices are abstracted to the spread class an evaluation sees; one that  *)
(* finds no mid or a stale reference does nothing and is not a step.  Buy  *)
(* is 1 and Sell is -1.                                                    *)
(*                                                                         *)
(* Assumed of the event streams: until the broker reports a permanent      *)
(* disconnect every fill reaches the actor as one trade.  A reconnect gap  *)
(* may lose reports, and at Hyperliquid repeat trades: the actor does not  *)
(* take the reconcile signal (FundingArb has such streams).                *)
(***************************************************************************)
EXTENDS Integers, Sequences, FiniteSets

CONSTANTS
  Size,           \* order_size, in units of the smallest fill
  MaxPosition,    \* max_position
  EntryThreshold, ExitThreshold, StopLoss,  \* in bps
  Spreads,        \* the spreads an evaluation may see
  Persistence,    \* persistence_ticks
  MaxHold,        \* max_hold_ticks
  MaxOrders,      \* bound: client ids issued
  MaxLost         \* bound: placements reported as failed that were not

ASSUME ArbAssumption ==
  /\ Size \in Nat \ {0} /\ MaxPosition \in Nat /\ MaxPosition >= Size
  /\ {EntryThreshold, ExitThreshold, StopLoss} \subseteq Int
  /\ ExitThreshold < EntryThreshold /\ EntryThreshold < StopLoss
  /\ Spreads \subseteq Int
  /\ Persistence \in Nat \ {0} /\ MaxHold \in Nat /\ {MaxOrders, MaxLost} \subseteq Nat

VARIABLES
  phase,        \* the actor's life: "new", "running", "refused" or "down"
  dryRun,       \* config.dry_run
  kind,         \* ArbState: "flat", "entering", "holding" or "exiting"
  side,         \* its side or entry_side, 0 in Flat
  cid,          \* client id of the order in flight, 0 when there is none
  ticks,        \* ticks or ticks_at_exit
  streak,       \* pending_signal_streak, signed by pending_signal_side
  net,          \* inventory.net_position
  issued,       \* client ids issued
  orders,       \* external: the venue's record of each order
  position,     \* external: the account's position at the venue
  trades,       \* Trade events not yet handled
  updates,      \* OrderLifecycle events not yet handled
  disconnected, \* the broker reports a permanent disconnect
  shutdown,     \* the actor has requested a shutdown
  heldFor,      \* history: ticks handled in Holding since the position was entered
  overtaken     \* history: an order's end was handled before one of its trades

arbVars == <<kind, side, cid, ticks, streak, net, issued>>
venueVars == <<orders, position, trades, updates>>
restVars == <<dryRun, disconnected, shutdown>>
historyVars == <<heldFor, overtaken>>
vars == <<phase, arbVars, venueVars, restVars, historyVars>>

Cids == 1..MaxOrders
Sides == {1, -1}
Abs(n) == IF n < 0 THEN -n ELSE n
Sign(n) == IF n > 0 THEN 1 ELSE IF n < 0 THEN -1 ELSE 0
Least(m, n) == IF m < n THEN m ELSE n

NoOrder == [side |-> 0, qty |-> 0, closing |-> FALSE, reduce |-> FALSE,
            lost |-> FALSE, status |-> "none"]

TypeOK ==
  /\ phase \in {"new", "running", "refused", "down"}
  /\ {dryRun, disconnected, shutdown, overtaken} \subseteq BOOLEAN
  /\ kind \in {"flat", "entering", "holding", "exiting"}
  /\ side \in Sides \cup {0} /\ (kind = "flat") = (side = 0)
  /\ cid \in 0..issued /\ (kind \in {"entering", "exiting"}) = (cid # 0)
  /\ ticks \in 0..MaxHold /\ heldFor \in 0..MaxHold
  /\ streak \in -Persistence..Persistence
  /\ net \in Int /\ position \in Int
  /\ issued \in 0..MaxOrders
  /\ orders \in [Cids -> [side : Sides \cup {0}, qty : Nat, closing : BOOLEAN, reduce : BOOLEAN,
                          lost : BOOLEAN, status : {"none", "submitted", "done"}]]
  /\ trades \in Seq([cid : Cids, qty : Int])
  /\ updates \in Seq([cid : Cids, status : {"filled", "cancelled"}])

Init ==
  /\ phase = "new" /\ dryRun \in BOOLEAN
  /\ kind = "flat" /\ side = 0 /\ cid = 0 /\ ticks = 0 /\ streak = 0
  /\ net = 0 /\ issued = 0
  /\ orders = [c \in Cids |-> NoOrder]
  /\ position \in {0, Size}
  /\ trades = <<>> /\ updates = <<>>
  /\ disconnected = FALSE /\ shutdown = FALSE
  /\ heldFor = 0 /\ overtaken = FALSE

-----------------------------------------------------------------------------
(* Placing an order.                                                       *)

\* "lost": the placement is reported as failed although the order goes through
\* (exchanges/bullet/src/broker.rs:278-286).  The actor cannot tell it from
\* "refused".
Outcomes == {"accepted", "refused", "lost"}

\* Exits are reduce-only.  Faulty variant: they are not.
NotReduceOnly == FALSE
ReduceOnly == TRUE

Lost == {c \in Cids : orders[c].lost}

Place(s, q, closing, outcome) ==
  /\ issued < MaxOrders
  /\ outcome = "lost" => Cardinality(Lost) < MaxLost
  /\ issued' = issued + 1
  /\ orders' = IF outcome = "refused" THEN orders
               ELSE [orders EXCEPT ![issued + 1] =
                       [side |-> s, qty |-> q, closing |-> closing,
                        reduce |-> closing /\ ReduceOnly,
                        lost |-> outcome = "lost", status |-> "submitted"]]

ToFlat == kind' = "flat" /\ side' = 0 /\ cid' = 0 /\ ticks' = 0 /\ streak' = 0

\* place_exit, in a handler that has set the hold counter to t: close what the
\* tracker reports, or go flat when it reports nothing.  A refused exit leaves
\* the state for a later tick to retry.
PlaceExit(t) ==
  \/ net = 0 /\ ToFlat /\ UNCHANGED <<net, issued, orders>>
  \/ net # 0 /\ dryRun /\ ToFlat /\ net' = 0 /\ UNCHANGED <<issued, orders>>
  \/ /\ net # 0 /\ ~dryRun
     /\ UNCHANGED <<net, streak>>
     /\ \E outcome \in Outcomes :
          /\ Place(-Sign(net), Abs(net), TRUE, outcome)
          /\ IF outcome = "accepted"
             THEN /\ kind' = "exiting" /\ side' = Sign(net) /\ cid' = issued'
                  /\ ticks' = IF kind = "holding" THEN t ELSE 0
             ELSE UNCHANGED <<kind, side, cid>> /\ ticks' = t

-----------------------------------------------------------------------------
(* Actor::init and wind_down.                                              *)

\* A position at the venue makes init fail.
Start ==
  /\ phase = "new"
  /\ phase' = IF position = 0 THEN "running" ELSE "refused"
  /\ UNCHANGED <<arbVars, venueVars, restVars, historyVars>>

\* The harness may wind the actor down between any two handlers.
WindDown ==
  /\ phase = "running"
  /\ phase' = "down"
  /\ \/ net # 0 /\ PlaceExit(ticks)
     \/ net = 0 /\ UNCHANGED <<arbVars, orders>>
  /\ UNCHANGED <<position, trades, updates, restVars, historyVars>>

-----------------------------------------------------------------------------
(* EventHandler<BookUpdate> and EventHandler<ReferencePriceUpdate>.        *)

DesiredSide(s) ==
  IF s >= EntryThreshold THEN -1 ELSE IF s <= -EntryThreshold THEN 1 ELSE 0

\* The persistence filter; it saturates at Persistence here, the code's at
\* u32::MAX.  Faulty variant: it does not.
StreakPlain(s) ==
  IF DesiredSide(s) # 0 /\ Sign(streak) = DesiredSide(s) THEN streak + DesiredSide(s)
  ELSE DesiredSide(s)
Streak(s) ==
  IF DesiredSide(s) # 0 /\ Sign(streak) = DesiredSide(s)
  THEN DesiredSide(s) * Least(Abs(streak) + 1, Persistence)
  ELSE DesiredSide(s)

Ready(s) == DesiredSide(s) # 0 /\ Abs(Streak(s)) >= Persistence

EntryFits == Abs(net) + Size <= MaxPosition

Observe(s) ==
  /\ phase = "running" /\ kind = "flat"
  /\ ~Ready(s) \/ ~EntryFits
  /\ streak' = Streak(s)
  /\ UNCHANGED <<phase, kind, side, cid, ticks, net, issued, venueVars, restVars, historyVars>>

EnterPaper(s) ==
  /\ phase = "running" /\ kind = "flat" /\ dryRun
  /\ Ready(s) /\ EntryFits
  /\ net' = net + DesiredSide(s) * Size
  /\ kind' = "holding" /\ side' = DesiredSide(s)
  /\ ticks' = 0 /\ streak' = 0 /\ heldFor' = 0
  /\ UNCHANGED <<phase, cid, issued, venueVars, restVars, overtaken>>

\* Any failure to place goes back to Flat with a new streak.
Enter(s) ==
  /\ phase = "running" /\ kind = "flat" /\ ~dryRun
  /\ Ready(s) /\ EntryFits
  /\ \E outcome \in Outcomes :
       /\ Place(DesiredSide(s), Size, FALSE, outcome)
       /\ IF outcome = "accepted"
          THEN kind' = "entering" /\ side' = DesiredSide(s) /\ cid' = issued'
          ELSE UNCHANGED <<kind, side, cid>>
  /\ streak' = 0
  /\ UNCHANGED <<phase, ticks, net, position, trades, updates, restVars, historyVars>>

TakeProfit(s) == IF side = -1 THEN s <= ExitThreshold ELSE s >= -ExitThreshold
StopLossHit(s) == IF side = -1 THEN s >= StopLoss ELSE s <= -StopLoss

Exit(s) ==
  /\ phase = "running" /\ kind = "holding"
  /\ TakeProfit(s) \/ StopLossHit(s)
  /\ PlaceExit(ticks)
  /\ UNCHANGED <<phase, position, trades, updates, restVars, historyVars>>

-----------------------------------------------------------------------------
(* EventHandler<Trade>, <OrderLifecycle> and <Tick>.                       *)

\* Faulty variants: a trade is counted only for the order in flight; any trade
\* is taken for one of it.
CountedIfCurrent(c) == c = cid
Counted(c) == TRUE
AnyCurrent(c) == cid # 0
Current(c) == cid # 0 /\ c = cid

\* Whether an exit is complete.  Faulty variant: its first trade completes it.
ClosedByAnyTrade(total) == TRUE
Closed(total) == total = 0

HandleTrade ==
  /\ phase = "running" /\ trades # <<>>
  /\ LET t == Head(trades)
         total == IF Counted(t.cid) THEN net + t.qty ELSE net
     IN  /\ net' = total
         /\ \/ /\ Current(t.cid) /\ kind = "entering"
               /\ kind' = "holding" /\ cid' = 0 /\ ticks' = 0 /\ heldFor' = 0
               /\ UNCHANGED <<side, streak>>
            \/ /\ Current(t.cid) /\ kind = "exiting" /\ Closed(total)
               /\ ToFlat /\ UNCHANGED heldFor
            \/ /\ ~Current(t.cid) \/ (kind = "exiting" /\ ~Closed(total))
               /\ UNCHANGED <<kind, side, cid, ticks, streak, heldFor>>
  /\ trades' = Tail(trades)
  /\ UNCHANGED <<phase, issued, orders, position, updates, restVars, overtaken>>

\* A failed exit resumes the hold.  Faulty variant: with a fresh counter.
FreshTicks == 0
ResumedTicks == ticks

\* The terminal statuses the handler reacts to.  Faulty variant: an entry
\* without a fill is left to its trades.
EndsWithFill == {}
EndsOrder == {"cancelled"}

HandleUpdate ==
  /\ phase = "running" /\ updates # <<>>
  /\ LET u == Head(updates)
         ended == Current(u.cid) /\ u.status \in EndsOrder
     IN  \/ ended /\ kind = "entering" /\ net = 0 /\ ToFlat /\ UNCHANGED heldFor
         \/ /\ ended /\ kind = "entering" /\ net # 0
            /\ kind' = "holding" /\ cid' = 0 /\ ticks' = 0 /\ heldFor' = 0
            /\ UNCHANGED <<side, streak>>
         \/ /\ ended /\ kind = "exiting"
            /\ kind' = "holding" /\ cid' = 0 /\ ticks' = ResumedTicks
            /\ UNCHANGED <<side, streak, heldFor>>
         \/ ~ended /\ UNCHANGED <<kind, side, cid, ticks, streak, heldFor>>
  /\ updates' = Tail(updates)
  /\ overtaken' = (overtaken \/ \E i \in DOMAIN trades : trades[i].cid = Head(updates).cid)
  /\ UNCHANGED <<phase, net, issued, orders, position, trades, restVars>>

\* Outside Holding a tick only logs.  The counter is saturated at MaxHold.
Tick ==
  /\ phase = "running" /\ ~disconnected /\ kind = "holding"
  /\ LET t == Least(ticks + 1, MaxHold)
     IN  IF t >= MaxHold THEN PlaceExit(t)
         ELSE ticks' = t /\ UNCHANGED <<kind, side, cid, streak, net, issued, orders>>
  /\ heldFor' = Least(heldFor + 1, MaxHold)
  /\ UNCHANGED <<phase, position, trades, updates, restVars, overtaken>>

TickDisconnected ==
  /\ phase = "running" /\ disconnected
  /\ shutdown' = TRUE
  /\ UNCHANGED <<phase, arbVars, venueVars, dryRun, disconnected, historyVars>>

-----------------------------------------------------------------------------
(* The venue.                                                              *)

\* A reduce-only order fills no more than the position it is against.
Fillable(o) ==
  IF o.reduce THEN IF Sign(position) = -o.side THEN Least(o.qty, Abs(position)) ELSE 0
  ELSE o.qty

\* The trades a fill of f is reported in.
Parts(f) ==
  IF f = 0 THEN {<<>>} ELSE IF f = 1 THEN {<<1>>} ELSE {<<f>>, <<1, f - 1>>}

Reported(c, parts) ==
  [i \in DOMAIN parts |-> [cid |-> c, qty |-> orders[c].side * parts[i]]]

\* Nothing is reported any more once the broker's stream has ended.
Execute(c) ==
  LET o == orders[c]
  IN  /\ o.status = "submitted"
      /\ orders' = [orders EXCEPT ![c].status = "done"]
      /\ \E f \in 0..Fillable(o) :
           /\ position' = position + o.side * f
           /\ IF disconnected THEN UNCHANGED <<trades, updates>>
              ELSE /\ \E p \in Parts(f) : trades' = trades \o Reported(c, p)
                   /\ updates' = Append(updates, [cid |-> c,
                                   status |-> IF f = o.qty THEN "filled" ELSE "cancelled"])
      /\ UNCHANGED <<phase, arbVars, restVars, historyVars>>

Disconnect ==
  /\ phase = "running" /\ ~disconnected
  /\ disconnected' = TRUE
  /\ UNCHANGED <<phase, arbVars, venueVars, dryRun, shutdown, historyVars>>

-----------------------------------------------------------------------------

Evaluate == \E s \in Spreads : Observe(s) \/ EnterPaper(s) \/ Enter(s) \/ Exit(s)

Next ==
  \/ Start \/ WindDown \/ Evaluate
  \/ HandleTrade \/ HandleUpdate \/ Tick \/ TickDisconnected
  \/ (\E c \in Cids : Execute(c)) \/ Disconnect

Spec == Init /\ [][Next]_vars

\* The venue works off what was submitted and the harness hands over what has
\* arrived; nothing is assumed of prices, ticks and placements.
FairSpec ==
  /\ Spec
  /\ \A c \in Cids : WF_vars(Execute(c))
  /\ WF_vars(HandleTrade) /\ WF_vars(HandleUpdate)

-----------------------------------------------------------------------------
(* Properties.                                                             *)

QueuedQty ==
  LET sum[i \in 0..Len(trades)] == IF i = 0 THEN 0 ELSE sum[i - 1] + trades[i].qty
  IN  sum[Len(trades)]

\* The tracker is never wrong, only late: with the trades still queued it makes
\* up the account's position, whichever order they belong to, in whatever state
\* they are handled (strategy.rs:580 records before it asks whose fill it is).
InventoryExact ==
  phase = "running" /\ ~dryRun /\ ~disconnected => net + QueuedQty = position

\* The actor is flat when it says so, unless an order's end was handled before a
\* trade of the same order or a placement was reported as failed though it was
\* not (strategy.rs:266 "Flat should have pos~0").
FlatUnlessOvertaken ==
  phase = "running" /\ ~dryRun /\ ~disconnected /\ ~overtaken /\ Lost = {} /\ kind = "flat"
    => net = 0

\* While it runs the actor has one order at the venue at most, so that it is not
\* adding to a position it does not know of; this needs every failure it is told
\* of to be one (strategy.rs:18 "At most one open order at a time").
OneLiveOrder ==
  phase = "running" /\ Lost = {} => Cardinality({c \in Cids : orders[c].status = "submitted"}) <= 1

\* An order meant to close never leaves the account with more exposure, even
\* when it is placed from a tracker that is behind, or twice, by a wind-down
\* during an exit (strategy.rs:361-448, reduce_only).
ExitNeverGrows ==
  [][\A c \in Cids : orders[c].closing /\ orders[c].status = "submitted" /\ orders'[c].status = "done"
       => Abs(position') <= Abs(position)]_vars

\* max_hold_ticks bounds the ticks spent in Holding over all failed exits: at
\* the last of them the actor tries to exit (strategy.rs:61-63, 668-671).
HoldBounded ==
  [][Tick /\ heldFor + 1 >= MaxHold => issued' > issued \/ kind' = "flat"]_vars

\* An entry does not hang: its trades or its cancellation settle it.
EntryResolves ==
  kind = "entering" ~> kind # "entering" \/ phase # "running" \/ disconnected

\* Neither does an exit (strategy.rs:635-636 "the Trade event for the final fill
\* drives the state transition, so nothing is needed here").
ExitResolves ==
  kind = "exiting" ~> kind # "exiting" \/ phase # "running" \/ disconnected
=============================================================================
