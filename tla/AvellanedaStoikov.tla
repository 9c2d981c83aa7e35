------------------------- MODULE AvellanedaStoikov --------------------------
(***************************************************************************)
(* The Avellaneda-Stoikov market maker (src/crates/strategies/             *)
(* avellaneda-stoikov/src/strategy.rs): a ladder of quotes that is amended *)
(* as the price moves and reconciled with the venue's open orders.         *)
(*                                                                         *)
(* A quote is a rung, a side (1 or -1) and a level.  Prices, volatility    *)
(* and time are left out: what the diff of the ladder asks for at a rung   *)
(* is free within what the code allows, and so is whether a refresh is     *)
(* throttled, has a stale reference price, or is due to reconcile.  Orders *)
(* have a price and size the venue's increments do not round to zero.      *)
(* Handlers are atomic (module Harness); what the venue does between two   *)
(* calls of a handler it may as well do before the first.                  *)
(***************************************************************************)
EXTENDS OrderVenue

CONSTANT
  MaxPosition   \* max_position

ASSUME AvellanedaStoikovAssumption ==
  /\ \A q \in Quotes : q[1] \in {1, -1}
  /\ MaxPosition \in Nat \ {0}

VARIABLES
  life,         \* the actor: "new", "running" or "down"
  exchange,     \* config.exchange
  slot,         \* the slot of a rung: cid of its order, whether its oid is known
  net,          \* inventory.net_position
  signal,       \* the broker's one-shot reconcile signal
  dead,         \* Broker::is_disconnected
  shutdown,     \* the actor has requested a shutdown
  loose         \* history: resting orders that the actor was bound to lose

vars == <<venue, life, exchange, slot, net, signal, dead, shutdown, loose>>

SideOf(q) == q[1]

NoSlot == [cid |-> <<>>, oid |-> FALSE]
Held(q) == slot[q] # NoSlot
HeldCids == {slot[q].cid : q \in {r \in Quotes : Held(r)}}

TypeOK ==
  /\ VenueTypeOK
  /\ life \in {"new", "running", "down"} /\ exchange \in Calls!Exchanges
  /\ {signal, dead, shutdown} \subseteq BOOLEAN /\ net \in Int
  /\ slot \in [Quotes -> {NoSlot} \cup [cid : Cids, oid : BOOLEAN]]
  /\ \A c \in HeldCids : slot[At(c)].cid = c
  /\ loose \subseteq Resting

\* An order of an earlier session may rest.
Init ==
  /\ \E earlier \in {{}, {CHOOSE c \in Cids : TRUE}} :
       order = [c \in Cids |-> IF c \in earlier THEN Size ELSE 0]
  /\ queued = [c \in Cids |-> 0] /\ reports = {}
  /\ life = "new" /\ exchange \in Calls!Exchanges
  /\ slot = [q \in Quotes |-> NoSlot] /\ net = 0
  /\ signal = FALSE /\ dead = FALSE /\ shutdown = FALSE /\ loose = {}

-----------------------------------------------------------------------------
(* Actor::init and wind_down.                                              *)

\* The tracker is seeded with the venue's position, which may exceed the limit.
Start ==
  /\ life = "new"
  /\ \E c \in Calls!CancelAllOrders(exchange, Resting) :
       /\ Becomes(Ended(Now, c.gone))
       /\ loose' = Resting \ c.gone
       /\ \/ c.ok /\ life' = "running" /\ net' \in {0, MaxPosition, -2 * MaxPosition}
          \/ life' = "down" /\ UNCHANGED net
  /\ UNCHANGED <<exchange, slot, signal, dead, shutdown>>

WindDown ==
  /\ life = "running" /\ life' = "down"
  /\ \E c \in Calls!CancelAllOrders(exchange, Resting) :
       Becomes(Ended(Now, c.gone)) /\ loose' = loose \ c.gone
  /\ UNCHANGED <<exchange, slot, net, signal, dead, shutdown>>

-----------------------------------------------------------------------------
(* reconcile_orders and refresh_quotes.                                    *)

CanQuote(q) == SideOf(q) * net < MaxPosition

\* What the diff may ask for: a rung that the inventory allows is kept, amended
\* when its price has moved, or cancelled when it has come to cross the book;
\* one without an order is placed unless it would cross.
Plans ==
  {plan \in [Quotes -> {"keep", "amend", "cancel", "place", "none"}] :
     \A q \in Quotes :
       IF Held(q) THEN plan[q] \in IF CanQuote(q) THEN {"keep", "amend", "cancel"} ELSE {"cancel"}
       ELSE plan[q] \in IF CanQuote(q) THEN {"place", "none"} ELSE {"none"}}

OldCids(quotes) == {slot[q].cid : q \in quotes}

\* The ladder after the calls: a refused cancel or amend keeps its slot.  Faulty
\* variant: the new order's slot is taken up all the same.
AfterCallsEager(c, a, p, cid) ==
  [q \in Quotes |-> IF q \in DOMAIN cid THEN [cid |-> cid[q], oid |-> q \in p.named]
                    ELSE IF q \in c.told THEN NoSlot ELSE slot[q]]
AfterCalls(c, a, p, cid) ==
  [q \in Quotes |-> IF q \in a.told \cup p.told
                    THEN [cid |-> cid[q], oid |-> q \in a.named \cup p.named]
                    ELSE IF q \in c.told THEN NoSlot ELSE slot[q]]

\* A phantom is dropped: a slot whose order id is known and is not live.
Retained(kept, live) ==
  [q \in Quotes |-> IF kept[q].oid /\ kept[q].cid \notin live THEN NoSlot ELSE kept[q]]

\* Live orders that no slot claims, by order id or by client id.  Faulty variant:
\* a slot of the rung claims them.
OrphansOfEmptyRungs(slots, live) == {c \in live : slots[At(c)] = NoSlot}
Orphans(slots, live) ==
  {c \in live : LET s == slots[At(c)]
                IN  ~(s.cid = c /\ (s.oid \/ Calls!OpenOrdersCarryClientIds(exchange)))}

\* Reconciliation with get_open_orders: the ladder and the venue after it.  When
\* the read fails nothing comes of it; orphans may survive their cancel.
Reconciliations(kept, v, answered) ==
  LET live == {c \in Cids : v.order[c] > 0}
      slots == Retained(kept, live)
      orphans == Orphans(slots, live)
      swept == {[slots |-> slots, v |-> Ended(v, o.gone)] :
                  o \in {x \in Calls!CancelOrders(exchange, orphans, orphans) :
                           answered => x.gone = orphans}}
  IN  IF answered THEN swept ELSE swept \cup {[slots |-> kept, v |-> v]}

\* An answer that reports what it was asked for, and reports it truly.
Good(o, batch) == o.told = batch /\ o.told = o.gone \cup o.taken

Reconciled(kept, v, answered) ==
  IF signal \/ answered THEN Reconciliations(kept, v, answered)
  ELSE {[slots |-> kept, v |-> v]} \cup Reconciliations(kept, v, FALSE)

\* The cancels, amends and places have been answered with c, a and p, where cid
\* are the client ids of the new orders.
Concluded(answered, c, a, p, cid) ==
  LET new(quotes) == {cid[q] : q \in quotes}
      kept == AfterCalls(c, a, p, cid)
      v == Taken(Ended(Now, OldCids(c.gone \cup a.gone)), new(a.taken \cup p.taken))
      strays == OldCids((c.told \ c.gone) \cup (a.told \ a.gone))
                \cup new((a.taken \ a.told) \cup (p.taken \ p.told))
  IN  \E r \in Reconciled(kept, v, answered),
         rejected \in {{}, new((a.told \ a.taken) \cup (p.told \ p.taken))} :
        /\ Becomes(Rejected(r.v, rejected))
        /\ slot' = r.slots
        /\ loose' = {d \in loose \cup strays : r.v.order[d] > 0}

\* A refresh that has something to do; answered if all its calls succeed and it
\* reconciles.  Otherwise it reconciles on the signal or when due.
RefreshQuotes(answered) ==
  \E plan \in Plans :
    LET asked(what) == {q \in Quotes : plan[q] = what}
        byOid(quotes) == {q \in quotes : slot[q].oid}
        cancels == asked("cancel")
        amends == asked("amend")
        places == asked("place")
        good(outcomes, batch) == {o \in outcomes : answered => Good(o, batch)}
    IN  /\ cancels \cup amends \cup places # {}
        /\ CanIssue(amends \cup places, HeldCids)
        /\ \E c \in good(Calls!CancelOrders(exchange, cancels, byOid(cancels)), cancels),
              a \in good(Calls!AmendOrders(exchange, amends, byOid(amends)), amends),
              p \in good(Calls!PlaceOrders(exchange, places), places) :
             Concluded(answered, c, a, p, Issue(amends \cup places, HeldCids))
        /\ signal' = FALSE

-----------------------------------------------------------------------------
(* The event handlers.                                                     *)

\* EventHandler<BookUpdate> and, in fair-value mode, <ReferencePriceUpdate>.
HandlePrice ==
  /\ life = "running" /\ RefreshQuotes(FALSE)
  /\ UNCHANGED <<life, exchange, net, dead, shutdown>>

Tick ==
  /\ life = "running"
  /\ \/ dead /\ shutdown' = TRUE /\ UNCHANGED <<venue, slot, signal, loose>>
     \/ ~dead /\ RefreshQuotes(FALSE) /\ UNCHANGED shutdown
  /\ UNCHANGED <<life, exchange, net, dead>>

\* Any trade drops the slot of its order, of which the rest may still rest.
HandleTrade(c) ==
  /\ life = "running"
  /\ \E qty \in 1..queued[c] :
       queued' = [queued EXCEPT ![c] = @ - qty] /\ net' = net + SideOf(At(c)) * qty
  /\ slot' = [q \in Quotes |-> IF slot[q].cid = c THEN NoSlot ELSE slot[q]]
  /\ loose' = IF c \in HeldCids \cap Resting THEN loose \cup {c} ELSE loose
  /\ UNCHANGED <<order, reports, life, exchange, signal, dead, shutdown>>

\* Faulty variants: whatever the slot of its rung holds.
DropsRung(q, c) == q = At(c)
Drops(q, c) == slot[q].cid = c
LearnsByRung(q, c) == q = At(c)
Learns(q, c) == slot[q].cid = c

HandleReport(c, what) ==
  /\ life = "running" /\ <<c, what>> \in reports
  /\ reports' = reports \ {<<c, what>>}
  /\ slot' = [q \in Quotes |->
                IF what = "ended" THEN IF Drops(q, c) THEN NoSlot ELSE slot[q]
                ELSE IF Learns(q, c) THEN [cid |-> slot[q].cid, oid |-> TRUE] ELSE slot[q]]
  /\ UNCHANGED <<order, queued, life, exchange, net, signal, dead, shutdown, loose>>

-----------------------------------------------------------------------------
(* The venue.                                                              *)

VenueFills(c) ==
  /\ Fill(c)
  /\ loose' = {d \in loose : order'[d] > 0}
  /\ UNCHANGED <<life, exchange, slot, net, signal, dead, shutdown>>

VenueCancels(c) ==
  /\ VenueEnds(c)
  /\ loose' = loose \ {c}
  /\ UNCHANGED <<life, exchange, slot, net, signal, dead, shutdown>>

\* The stream is interrupted; it comes back, or it is dead.
Gap ==
  /\ life = "running" /\ ~dead /\ LoseEvents
  /\ signal' = TRUE /\ dead' \in BOOLEAN
  /\ UNCHANGED <<life, exchange, slot, net, shutdown, loose>>

Next ==
  \/ Start \/ WindDown \/ HandlePrice \/ Tick
  \/ \E c \in Cids : \/ HandleTrade(c) \/ HandleReport(c, "open") \/ HandleReport(c, "ended")
                     \/ VenueFills(c) \/ VenueCancels(c)
  \/ Gap

Spec == Init /\ [][Next]_vars

\* Queued events are handled.  Reconciliation is due again and again
\* (reconcile_interval_secs), the price keeps moving, and now and then the venue
\* answers all calls of a refresh.  An actor whose broker is dead is wound down.
AnsweredRefresh ==
  life = "running" /\ RefreshQuotes(TRUE) /\ UNCHANGED <<life, exchange, net, dead, shutdown>>

Fairness ==
  /\ \A c \in Cids : /\ WF_vars(HandleTrade(c))
                      /\ \A what \in {"open", "ended"} : WF_vars(HandleReport(c, what))
  /\ SF_vars(AnsweredRefresh)
  /\ WF_vars(dead /\ Tick) /\ WF_vars(shutdown /\ WindDown)

FairSpec == Spec /\ Fairness

-----------------------------------------------------------------------------
(* Properties.                                                             *)

Untracked(c) == c \in Resting /\ slot[At(c)].cid # c

\* Every order that rests is held by the slot of its rung, or was lost in one of
\* the known ways (loose): a call answered otherwise than it was done, and a
\* trade that leaves a remainder (strategy.rs:785).  Refused calls, lost events
\* and reconciliation lose none.
RestingIsTracked ==
  life = "running" => \A c \in Cids : Untracked(c) => c \in loose

\* Orders that the actor has lost are found and cancelled: again and again it
\* runs with none (strategy.rs:488 "catches orphan orders that accumulated
\* quietly").
OrphansFound ==
  []<>(life = "running" => \A c \in Cids : ~Untracked(c))
=============================================================================
