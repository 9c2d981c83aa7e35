------------------------------ MODULE SimpleMm ------------------------------
(***************************************************************************)
(* The simple market maker (src/crates/strategies/simple-mm/src/           *)
(* strategy.rs): one quote a side, cancelled and placed again when the     *)
(* price has drifted.                                                      *)
(*                                                                         *)
(* Prices are left out: whether a quote would cross the book or has        *)
(* drifted is free at every refresh, and so is whether one is due.         *)
(* Handlers are atomic (module Harness); what the venue does between two   *)
(* calls of a handler it may as well do before the first.                  *)
(***************************************************************************)
EXTENDS OrderVenue

CONSTANTS
  MaxPosition,  \* max_position
  Inherited     \* the positions an earlier session or another may have left

ASSUME SimpleMmAssumption ==
  /\ Quotes = {1, -1}          \* a buy and a sell
  /\ MaxPosition \in Nat /\ Size <= MaxPosition
  /\ Inherited \subseteq Int  \* no limit: the start does not look at it

VARIABLES
  life,         \* the actor: "new", "running" or "down"
  exchange,     \* config.exchange
  dryRun,       \* config.dry_run
  slot,         \* bid and ask: cid of the quote, whether its order id is known
  net,          \* inventory.net_position
  dead,         \* Broker::is_disconnected
  shutdown,     \* the actor has requested a shutdown
  position,     \* external: the position at the venue
  loose,        \* history: orders that rest although a call was answered otherwise
  excess,       \* history: what the limit did not cover of a side when it was
                \* last quoted, or at the start
  skewed        \* history: trades were lost, or counted twice at the start

vars == <<venue, life, exchange, dryRun, slot, net, dead, shutdown, position, loose, excess, skewed>>

Sides == Quotes

NoSlot == [cid |-> <<>>, oid |-> FALSE]
Held(s) == slot[s] # NoSlot
HeldCids == {slot[s].cid : s \in {q \in Sides : Held(q)}}

TypeOK ==
  /\ VenueTypeOK
  /\ life \in {"new", "running", "down"} /\ exchange \in Calls!Exchanges
  /\ {dryRun, dead, shutdown, skewed} \subseteq BOOLEAN
  /\ slot \in [Sides -> {NoSlot} \cup [cid : Cids, oid : BOOLEAN]]
  /\ \A c \in HeldCids : Held(At(c)) /\ slot[At(c)].cid = c
  /\ {net, position} \subseteq Int /\ loose \subseteq Resting /\ excess \in [Sides -> Nat]

\* An order of an earlier session may rest.
Init ==
  /\ \E earlier \in {{}, {CHOOSE c \in Cids : TRUE}} :
       order = [c \in Cids |-> IF c \in earlier THEN Size ELSE 0]
  /\ queued = [c \in Cids |-> 0] /\ reports = {}
  /\ life = "new" /\ exchange \in Calls!Exchanges /\ dryRun \in BOOLEAN
  /\ slot = [s \in Sides |-> NoSlot] /\ net = 0
  /\ dead = FALSE /\ shutdown = FALSE
  /\ position \in Inherited
  /\ loose = {} /\ excess = [s \in Sides |-> 0] /\ skewed = FALSE

On(s, cids) == {c \in cids : At(c) = s}

-----------------------------------------------------------------------------
(* Actor::init and wind_down.                                              *)

\* What is held on a side beyond max_position.
Beyond(s) == IF s * position > MaxPosition THEN s * position - MaxPosition ELSE 0

\* The tracker is seeded with the position, whatever it is, while fills of the
\* earlier session may still be queued.  Faulty variant: it starts from nothing.
NotSeeded == 0
Seeded == position

StartLive ==
  \E c \in Calls!CancelAllOrders(exchange, Resting) :
    LET v == Ended(Now, c.gone)
    IN  /\ Becomes(v)
        /\ \/ /\ c.ok /\ life' = "running" /\ net' = Seeded
              /\ loose' = Resting \ c.gone
              /\ excess' = [s \in Sides |-> Sum(On(s, loose'), v.order) + Beyond(s)]
              /\ skewed' = (\E d \in Cids : queued[d] > 0)
           \/ life' = "down" /\ loose' = Resting \ c.gone /\ UNCHANGED <<net, excess, skewed>>

Start ==
  /\ life = "new"
  /\ \/ ~dryRun /\ StartLive
     \/ dryRun /\ life' = "running" /\ UNCHANGED <<venue, net, loose, excess, skewed>>
  /\ UNCHANGED <<exchange, dryRun, slot, dead, shutdown, position>>

WindDown ==
  /\ life = "running" /\ life' = "down"
  /\ \/ ~dryRun /\ \E c \in Calls!CancelAllOrders(exchange, Resting) :
          Becomes(Ended(Now, c.gone)) /\ loose' = loose \ c.gone
     \/ dryRun /\ UNCHANGED <<venue, loose>>
  /\ UNCHANGED <<exchange, dryRun, slot, net, dead, shutdown, position, excess, skewed>>

-----------------------------------------------------------------------------
(* refresh_quotes.                                                         *)

\* Faulty variant: the order's own size is forgotten.
CanQuoteBelow(s) == s * net < MaxPosition
CanQuote(s) == s * net + Size <= MaxPosition

\* The slots after the cancels.  Faulty variant: a refused cancel clears too.
ClearedAll(cancels, told) == [s \in Sides |-> IF s \in cancels THEN NoSlot ELSE slot[s]]
Cleared(cancels, told) == [s \in Sides |-> IF s \in told THEN NoSlot ELSE slot[s]]

PaperRefresh(cancels, places) ==
  LET cid == Issue(places, HeldCids)
  IN  /\ slot' = [s \in Sides |->
                    IF s \in places THEN [cid |-> cid[s], oid |-> FALSE]
                    ELSE IF s \in cancels THEN NoSlot ELSE slot[s]]
      /\ UNCHANGED <<venue, loose, excess>>

\* The cancels and the places have been answered with c and p.
Answered(cancels, c, places, p) ==
  LET cleared == Cleared(cancels, c.told)
      cid == Issue(places, HeldCids)
      cancelled == Ended(Now, {slot[s].cid : s \in c.gone})
      strays == {d \in loose \cup {slot[s].cid : s \in c.told \ c.gone} : cancelled.order[d] > 0}
  IN  /\ \E rejected \in {{}, p.told \ p.taken} :
           Becomes(Rejected(Taken(cancelled, {cid[s] : s \in p.taken}), {cid[s] : s \in rejected}))
      /\ slot' = [s \in Sides |->
                    IF s \in p.told THEN [cid |-> cid[s], oid |-> s \in p.named] ELSE cleared[s]]
      /\ loose' = strays \cup {cid[s] : s \in p.taken \ p.told}
      /\ excess' = [s \in Sides |->
                      IF s \in places THEN Sum(On(s, Cids), queued) + Sum(On(s, strays), order)
                      ELSE excess[s]]

LiveRefresh(cancels, wanted) ==
  \E c \in Calls!CancelOrders(exchange, cancels, {s \in cancels : slot[s].oid}) :
    LET places == {s \in wanted : Cleared(cancels, c.told)[s] = NoSlot}
    IN  \E p \in Calls!PlaceOrders(exchange, places) : Answered(cancels, c, places, p)

\* A quote is wanted on some of the sides that the inventory allows (the others
\* would cross), and is renewed where it is missing or has drifted.
Refresh ==
  \E quotable \in SUBSET {s \in Sides : CanQuote(s)} :
  \E drifted \in SUBSET {s \in quotable : Held(s)} :
    LET wanted == {s \in quotable : Held(s) => s \in drifted}
        cancels == {s \in Sides : Held(s) /\ (s \notin quotable \/ s \in wanted)}
    IN  /\ CanIssue(wanted, HeldCids)
        /\ IF dryRun THEN PaperRefresh(cancels, wanted) ELSE LiveRefresh(cancels, wanted)

-----------------------------------------------------------------------------
(* EventHandler<BookUpdate>, <Tick>, <Trade> and <OrderLifecycle>.         *)

BookUpdate ==
  /\ life = "running" /\ Refresh
  /\ UNCHANGED <<life, exchange, dryRun, net, dead, shutdown, position, skewed>>

Tick ==
  /\ life = "running"
  /\ \/ dead /\ shutdown' = TRUE /\ UNCHANGED <<venue, slot, loose, excess>>
     \/ ~dead /\ Refresh /\ UNCHANGED shutdown
  /\ UNCHANGED <<life, exchange, dryRun, net, dead, position, skewed>>

HandleTrade(c) ==
  /\ life = "running"
  /\ \E qty \in 1..queued[c] :
       /\ queued' = [queued EXCEPT ![c] = @ - qty]
       /\ net' = net + At(c) * qty
  /\ UNCHANGED <<order, reports, life, exchange, dryRun, slot, dead, shutdown, position, loose,
                 excess, skewed>>

\* The slots a report of c clears, and the slots that learn their order id.
\* Faulty variants: the slot of its side, whatever it holds.
ClearsSide(s, c) == s = At(c)
Clears(s, c) == slot[s].cid = c
LearnsBySide(s, c) == s = At(c)
Learns(s, c) == slot[s].cid = c

HandleReport(c, what) ==
  /\ life = "running" /\ <<c, what>> \in reports
  /\ reports' = reports \ {<<c, what>>}
  /\ slot' = [s \in Sides |->
                IF what = "ended" /\ Clears(s, c) THEN NoSlot
                ELSE IF Learns(s, c) THEN [cid |-> slot[s].cid, oid |-> TRUE] ELSE slot[s]]
  /\ UNCHANGED <<order, queued, life, exchange, dryRun, net, dead, shutdown, position, loose,
                 excess, skewed>>

-----------------------------------------------------------------------------
(* The venue.                                                              *)

VenueFills(c) ==
  /\ Fill(c)
  /\ position' = position + At(c) * (order[c] - order'[c])
  /\ loose' = {d \in loose : order'[d] > 0}
  /\ UNCHANGED <<life, exchange, dryRun, slot, net, dead, shutdown, excess, skewed>>

VenueCancels(c) ==
  /\ VenueEnds(c)
  /\ loose' = loose \ {c}
  /\ UNCHANGED <<life, exchange, dryRun, slot, net, dead, shutdown, position, excess, skewed>>

\* The stream is interrupted, for a while or for good.
Gap ==
  /\ ~skewed /\ skewed' = TRUE /\ ~dead /\ life = "running"
  /\ LoseEvents
  /\ dead' \in BOOLEAN
  /\ UNCHANGED <<life, exchange, dryRun, slot, net, shutdown, position, loose, excess>>

Next ==
  \/ Start \/ WindDown \/ BookUpdate \/ Tick
  \/ \E c \in Cids : \/ HandleTrade(c) \/ HandleReport(c, "open") \/ HandleReport(c, "ended")
                     \/ VenueFills(c) \/ VenueCancels(c)
  \/ Gap

Spec == Init /\ [][Next]_vars

-----------------------------------------------------------------------------
(* Properties.                                                             *)

\* Every order that rests is held by the slot of its side, through refused
\* cancels, partial fills, lost events and trades and reports in any order
\* (strategy.rs:225 "a rejected cancel leaves the slot intact", 343), unless a
\* call was answered with success and did nothing, or with failure and did
\* something.
RestingIsTracked ==
  life = "running" /\ ~dryRun =>
    \A c \in Resting : c \in loose \/ slot[At(c)].cid = c

\* The position that results if all resting orders of a side fill exceeds
\* max_position by no more than what the limit could not cover when the side was
\* last quoted: fills that were still queued, and loose orders (strategy.rs:86-95
\* can_quote).  Until a side is quoted it is what was inherited beyond
\* max_position (272-279: the position is taken over unchecked), and a side that
\* holds so much is not quoted.
WorstCaseCapped ==
  life = "running" /\ ~dryRun /\ ~skewed =>
    \A s \in Sides : s * position + Sum(On(s, Cids), order) <= MaxPosition + excess[s]
=============================================================================
