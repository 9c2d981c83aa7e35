----------------------------- MODULE FundingArb -----------------------------
(***************************************************************************)
(* The funding-rate arbitrage actor (src/crates/strategies/funding-arb/    *)
(* src/{strategy,state}.rs) with its accounts at two venues: short where   *)
(* the funding is high, long where it is low.                              *)
(*                                                                         *)
(* Handlers are atomic (module Harness).  A handler awaits several calls   *)
(* of a venue; what the venue does of its own accord between two of them   *)
(* it may as well do before the first.  The exception is an order that was *)
(* reported as failed and arrives after the handler has looked: it rests   *)
(* out of the reach of cancel_all (field late).                            *)
(*                                                                         *)
(* The venues are external: an accepted market order executes for some or  *)
(* all of its size and is reported as one trade; a PostOnly order rests    *)
(* and fills piece by piece or is dropped; a reduce-only order fills no    *)
(* more than the position.  1 is long or a buy, -1 short or a sell.        *)
(* Prices are left out: they decide only whether an order fills, which is  *)
(* free here.                                                              *)
(*                                                                         *)
(* The event stream of a venue is what either adapter makes of it; the     *)
(* actor may run at any two.  An interruption withholds the fills it meets *)
(* and those still on the wire.  The reconnect delivers them, or the       *)
(* latest of them, and at Hyperliquid, whose muxer does not deduplicate,   *)
(* also fills that were delivered before (hyperliquid/connection.rs:256;   *)
(* bullet/connection.rs:225-240 drops those by their trade_id).  The       *)
(* reconcile signal is tied to none of this: the Bullet muxer raises it    *)
(* when the interruption begins (bullet/connection.rs:249-254), the        *)
(* Hyperliquid one after a silence, whatever it stands for, and not at all *)
(* for a short interruption (hyperliquid/connection.rs:200-233).           *)
(***************************************************************************)
EXTENDS Integers, Sequences, SequencesExt

CONSTANTS
  Size,                    \* order_size, in units of the smallest fill
  MaxDelta,                \* max_delta_imbalance
  EntryThreshold, ExitThreshold, MaxRate,
  Rates,                   \* the funding rates a venue may report
  MaxEntries,              \* bound: times the actor enters
  Window,                  \* fills a reconnect may deliver once more
  MaxGaps,                 \* bound: interruptions of the event streams
  MaxForeign               \* bound: fills of others on the same wallet

ASSUME FundingAssumption ==
  /\ Size \in Nat \ {0} /\ MaxDelta \in Nat
  /\ {EntryThreshold, ExitThreshold, MaxRate} \subseteq Int
  /\ ExitThreshold < EntryThreshold /\ Rates \subseteq Int
  /\ {Window, MaxEntries, MaxGaps, MaxForeign} \subseteq Nat

Exchanges == {"a", "b"}

VARIABLES
  life,       \* the actor: "new", "running" or "down"
  passive,    \* config.order_mode is Passive: PostOnly orders, else Market
  phase,      \* ArbPhase
  leg,        \* entry_side of the venue's leg, 0 without legs
  rate,       \* rate_a and rate_b
  hasRate,    \* has_rate_a and has_rate_b
  elapsed,    \* the time the phase may last (phase_timeout_secs) or must
              \* (min_flat_hold_secs) has passed
  net,        \* inventory[ex].net_position
  signal,     \* the broker's one-shot reconcile signal
  shutdown,   \* the actor has requested a shutdown
  account,    \* external, at a venue: position, rests (orders), trades (not yet
              \* handled, in order), missed (how many of the last of them an
              \* interrupted stream withholds), again (those a reconnect may
              \* deliver once more) and link ("up", "gap" or "dead")
  entries, gaps, foreign,  \* bounds
  untracked,  \* history: position the tracker is not meant to know of
  skewed,     \* history: fills were lost with the stream, or are counted twice
  astray      \* history: one of the causes listed at PhaseTellsPosition

arbVars == <<phase, leg, elapsed>>
rates == <<rate, hasRate>>
counters == <<entries, gaps, foreign>>
history == <<untracked, skewed, astray>>
vars == <<life, passive, arbVars, rates, net, signal, shutdown, account, counters, history>>

Magnitude(n) == IF n < 0 THEN -n ELSE n
Lesser(a, b) == IF a < b THEN a ELSE b
SignOf(n) == IF n > 0 THEN 1 ELSE IF n < 0 THEN -1 ELSE 0
Pair(x, y) == [ex \in Exchanges |-> IF ex = "a" THEN x ELSE y]

Trade == [own : BOOLEAN, qty : Int]
Order == [dir : {-1, 1}, left : Nat \ {0}, reduce : BOOLEAN, late : BOOLEAN]

TypeOK ==
  /\ life \in {"new", "running", "down"} /\ phase \in {"flat", "entering", "active", "exiting"}
  /\ {passive, elapsed, shutdown, astray} \subseteq BOOLEAN
  /\ leg \in [Exchanges -> {-1, 0, 1}] /\ leg["a"] = -leg["b"]
  /\ (phase = "flat") = (leg["a"] = 0)
  /\ rate \in [Exchanges -> Rates \cup {0}] /\ hasRate \in [Exchanges -> BOOLEAN]
  /\ {net, untracked} \subseteq [Exchanges -> Int]
  /\ {signal, skewed} \subseteq [Exchanges -> BOOLEAN]
  /\ entries \in 0..MaxEntries /\ gaps \in 0..MaxGaps /\ foreign \in 0..MaxForeign
  /\ \A ex \in Exchanges :
       /\ account[ex].position \in Int /\ account[ex].link \in {"up", "gap", "dead"}
       /\ account[ex].rests \in Seq(Order)
       /\ account[ex].trades \in Seq(Trade) /\ account[ex].again \in Seq(Trade)
       /\ account[ex].missed \in 0..Len(account[ex].trades)
       /\ account[ex].link = "up" => account[ex].missed = 0

Init ==
  /\ life = "new" /\ passive \in BOOLEAN
  /\ phase = "flat" /\ leg = Pair(0, 0) /\ elapsed = TRUE
  /\ rate = Pair(0, 0) /\ hasRate = Pair(FALSE, FALSE)
  /\ net = Pair(0, 0)
  /\ signal = Pair(FALSE, FALSE) /\ shutdown = FALSE
  /\ \E p \in {0, Size + 1} :
       /\ account = [ex \in Exchanges |-> [position |-> IF ex = "a" THEN p ELSE 0, link |-> "up",
                                            rests |-> <<>>, trades |-> <<>>, missed |-> 0, again |-> <<>>]]
       /\ untracked = Pair(p, 0) /\ astray = (p # 0)
  /\ entries = 0 /\ gaps = 0 /\ foreign = 0
  /\ skewed = Pair(FALSE, FALSE)

-----------------------------------------------------------------------------
(* The venue: operators on one account a.                                  *)

\* The fills a reconnect looks back on.
Recent(q) == SubSeq(q, Len(q) - Lesser(Len(q), Window) + 1, Len(q))

\* Own or foreign fill of a signed quantity.
Filled(a, own, qty) ==
  LET t == [own |-> own, qty |-> qty]
  IN  IF qty = 0 THEN a
      ELSE IF a.link = "up"
      THEN [a EXCEPT !.position = @ + qty, !.trades = Append(@, t), !.again = Recent(Append(@, t))]
      ELSE [a EXCEPT !.position = @ + qty, !.trades = Append(@, t), !.missed = @ + 1]

\* How much of an order can fill.
Fillable(a, dir, left, reduce) ==
  IF ~reduce THEN left
  ELSE IF a.position * dir < 0 THEN Lesser(left, Magnitude(a.position)) ELSE 0

Resting(a, dir, left, reduce, late) ==
  [a EXCEPT !.rests = Append(@, [dir |-> dir, left |-> left, reduce |-> reduce, late |-> late])]

\* place_orders with one order (make_order): what the caller is told, and the
\* account.  An order reported as failed may have been executed all the same.
PlaceOutcomes(a, dir, qty, reduce) ==
  LET done == IF passive THEN {Resting(a, dir, qty, reduce, FALSE)}
              ELSE {Filled(a, TRUE, dir * x) : x \in 0..Fillable(a, dir, qty, reduce)}
  IN  [told : BOOLEAN, acct : done]
      \cup [told : {FALSE}, acct : {a, Resting(a, dir, qty, reduce, TRUE)}]

\* The orders out of the reach of cancel_all.
Late(rests) ==
  LET kept[i \in 0..Len(rests)] ==
        IF i = 0 THEN <<>>
        ELSE IF rests[i].late THEN Append(kept[i - 1], rests[i]) ELSE kept[i - 1]
  IN  kept[Len(rests)]

CancelOutcomes(a) == {a, [a EXCEPT !.rests = Late(@)]}

\* Whether a leg with position p is clean, by the answers of get_positions and
\* of place_orders.  Faulty variant: the latter is not looked at.
CleanOnceRead(p, answer) == answer # "unread" /\ Magnitude(p) <= Size
CleanLeg(p, answer) ==
  /\ answer # "unread" /\ Magnitude(p) <= Size
  /\ p # 0 => answer = "accepted"

\* cancel_all_orders, whose failure is ignored, get_positions, and a reduce-only
\* market order for at most order_size.  A clean leg is loose when it hides an
\* order that rests on, or a position that the accepted order has not closed.
Flattened(a, answer, acct) ==
  LET clean == CleanLeg(a.position, answer)
      left == answer = "accepted" /\ acct.position # 0
  IN  [clean |-> clean, loose |-> clean /\ (acct.rests # <<>> \/ left), acct |-> acct]

FlattenLeg(a) ==
  LET closes == [answer : {"refused", "accepted"}, size : 0..Lesser(Magnitude(a.position), Size)]
  IN  UNION {{Flattened(a, "unread", c)}
             \cup {Flattened(a, close.answer, Filled(c, TRUE, -SignOf(a.position) * close.size)) :
                     close \in closes} : c \in CancelOutcomes(a)}

-----------------------------------------------------------------------------
(* ArbState.                                                               *)

Transition(p) == phase' = p /\ elapsed' = FALSE

\* Faulty variant: the legs are kept.
GoFlatWithLegs == UNCHANGED leg /\ Transition("flat")
GoFlat == leg' = Pair(0, 0) /\ Transition("flat")

AbsRateSpread(r) == Magnitude(r["a"] - r["b"])

RatesSane(r) == \A ex \in Exchanges : Magnitude(r[ex]) < MaxRate

\* (short, long): short the leg with the higher funding.
PickSides(r) == IF r["a"] > r["b"] THEN Pair(-1, 1) ELSE Pair(1, -1)

AtTarget(n, ex) == n[ex] * leg[ex] >= Size
BothLegsFullyEntered(n) == \A ex \in Exchanges : AtTarget(n, ex)

BothLegsFlat(n) == \A ex \in Exchanges : n[ex] = 0

NetDelta(n) == n["a"] + n["b"]

-----------------------------------------------------------------------------
(* enter, exit and emergency_flatten.                                      *)

\* The tracker still has something of an earlier cycle before it.
Unsettled == \E ex \in Exchanges : net[ex] # 0 \/ account[ex].trades # <<>>

\* Both legs are placed at the same time; unless both are accepted both are
\* flattened, and the phase is left only if both are clean.
Enter(r) ==
  LET sides == PickSides(r)
      placed(ex) == PlaceOutcomes(account[ex], sides[ex], Size, FALSE)
  IN  /\ entries < MaxEntries /\ entries' = entries + 1
      /\ \E pa \in placed("a"), pb \in placed("b") :
           \/ /\ pa.told /\ pb.told
              /\ account' = Pair(pa.acct, pb.acct)
              /\ leg' = sides /\ Transition("entering")
              /\ astray' = (astray \/ Unsettled)
              /\ UNCHANGED shutdown
           \/ /\ ~(pa.told /\ pb.told)
              /\ \E fa \in FlattenLeg(pa.acct), fb \in FlattenLeg(pb.acct) :
                   /\ account' = Pair(fa.acct, fb.acct)
                   /\ astray' = (astray \/ Unsettled \/ fa.loose \/ fb.loose)
                   /\ IF fa.clean /\ fb.clean
                      THEN GoFlat /\ UNCHANGED shutdown
                      ELSE leg' = sides /\ Transition("entering") /\ shutdown' = TRUE

\* The answers are not looked at.  The position to close is the tracker's.
Exit(n) ==
  LET closed(ex) == IF n[ex] = 0 THEN {account[ex]}
                    ELSE {o.acct : o \in PlaceOutcomes(account[ex], -SignOf(n[ex]),
                                                       Magnitude(n[ex]), TRUE)}
  IN  /\ Transition("exiting")
      /\ \E a \in closed("a"), b \in closed("b") : account' = Pair(a, b)
      /\ UNCHANGED <<leg, shutdown>>

\* Flat whatever came of it, with a shutdown requested when a leg is not clean.
EmergencyFlatten(was) ==
  \E fa \in FlattenLeg(account["a"]), fb \in FlattenLeg(account["b"]) :
    /\ account' = Pair(fa.acct, fb.acct)
    /\ shutdown' = (shutdown \/ ~fa.clean \/ ~fb.clean)
    /\ astray' = (was \/ fa.loose \/ fb.loose)
    /\ GoFlat

-----------------------------------------------------------------------------
(* Actor::init and wind_down.                                              *)

CancelAtBoth ==
  \E a \in CancelOutcomes(account["a"]), b \in CancelOutcomes(account["b"]) :
    account' = Pair(a, b)

\* The positions are not read: what is there at the start stays unknown.
Start ==
  /\ life = "new" /\ life' = "running"
  /\ CancelAtBoth
  /\ UNCHANGED <<passive, arbVars, rates, net, signal, shutdown, counters, history>>

WindDown ==
  /\ life = "running" /\ life' = "down"
  /\ \/ phase = "flat" /\ CancelAtBoth /\ UNCHANGED <<arbVars, shutdown, astray>>
     \/ phase # "flat" /\ EmergencyFlatten(astray)
  /\ UNCHANGED <<passive, rates, net, signal, counters, untracked, skewed>>

-----------------------------------------------------------------------------
(* EventHandler<MarkPriceUpdate>, <Trade> and <Tick>.                      *)

CanEnter(r, has) ==
  /\ phase = "flat" /\ elapsed
  /\ \A ex \in Exchanges : has[ex]
  /\ AbsRateSpread(r) > EntryThreshold /\ RatesSane(r)

\* An update without a funding rate leaves the rate as it is.  Any update sets
\* the mark price, so that a venue with a rate has one.
HandleMarkPrice(ex) ==
  /\ life = "running"
  /\ \/ UNCHANGED rates
     \/ hasRate' = [hasRate EXCEPT ![ex] = TRUE] /\ \E f \in Rates : rate' = [rate EXCEPT ![ex] = f]
  /\ \/ CanEnter(rate', hasRate') /\ Enter(rate')
     \/ ~CanEnter(rate', hasRate') /\ UNCHANGED <<arbVars, account, shutdown, entries, astray>>
  /\ UNCHANGED <<life, passive, net, signal, gaps, foreign, untracked, skewed>>

\* Only fills of own client ids count.  Faulty variant: all do.
CountsAlways(t) == TRUE
Counts(t) == t.own

HandleTrade(ex) ==
  /\ life = "running" /\ Len(account[ex].trades) > account[ex].missed
  /\ LET t == Head(account[ex].trades)
     IN  net' = IF Counts(t) THEN [net EXCEPT ![ex] = @ + t.qty] ELSE net
  /\ account' = [account EXCEPT ![ex].trades = Tail(@)]
  /\ UNCHANGED <<life, passive, arbVars, rates, signal, shutdown, counters, history>>

\* On their way to the tracker, the withheld ones too.
OwnTrades(ex) == {i \in DOMAIN account[ex].trades : account[ex].trades[i].own}

\* seed_from_position.
Seed(ex) == account[ex].position

\* The signals of both venues are taken; get_positions answers for some.  Faulty
\* variant: no answer passes for no position.
NoAnswerIsFlat(answered) ==
  [ex \in Exchanges |-> IF ex \in answered THEN Seed(ex) ELSE IF signal[ex] THEN 0 ELSE net[ex]]
Reconciled(answered) == [ex \in Exchanges |-> IF ex \in answered THEN Seed(ex) ELSE net[ex]]

NoteReconciled(answered) ==
  /\ untracked' = [ex \in Exchanges |-> IF ex \in answered THEN 0 ELSE untracked[ex]]
  /\ skewed' = [ex \in Exchanges |-> IF ex \in answered THEN OwnTrades(ex) # {} ELSE skewed[ex]]

AstrayBy(answered) ==
  astray \/ \E ex \in answered : OwnTrades(ex) # {} \/ untracked[ex] # 0

\* Faulty variant: only an exit times out.
TimedOutExiting == elapsed /\ phase = "exiting"
TimedOut == elapsed /\ phase \in {"entering", "exiting"}

StayInPhase == UNCHANGED <<arbVars, account, shutdown>>

PhaseMachine(n, was) ==
  \/ TimedOut /\ EmergencyFlatten(was)
  \/ ~TimedOut /\ phase = "flat" /\ StayInPhase /\ astray' = was
  \/ /\ ~TimedOut /\ phase = "entering" /\ astray' = was
     /\ \/ BothLegsFullyEntered(n) /\ Transition("active") /\ UNCHANGED <<leg, account, shutdown>>
        \/ ~BothLegsFullyEntered(n) /\ StayInPhase
  \/ /\ phase = "active" /\ Magnitude(NetDelta(n)) > MaxDelta
     /\ EmergencyFlatten(was)
  \/ /\ phase = "active" /\ Magnitude(NetDelta(n)) <= MaxDelta /\ astray' = was
     /\ \/ AbsRateSpread(rate) < ExitThreshold /\ Exit(n)
        \/ AbsRateSpread(rate) >= ExitThreshold /\ StayInPhase
  \/ /\ ~TimedOut /\ phase = "exiting" /\ astray' = was
     /\ \/ BothLegsFlat(n) /\ GoFlat /\ UNCHANGED <<account, shutdown>>
        \/ ~BothLegsFlat(n) /\ StayInPhase

Dead == \E ex \in Exchanges : account[ex].link = "dead"

Tick ==
  /\ life = "running" /\ ~Dead
  /\ \E answered \in SUBSET {ex \in Exchanges : signal[ex]} :
       /\ net' = Reconciled(answered)
       /\ NoteReconciled(answered)
       /\ PhaseMachine(net', AstrayBy(answered))
  /\ signal' = Pair(FALSE, FALSE)
  /\ UNCHANGED <<life, passive, rates, counters>>

TickDisconnected ==
  /\ life = "running" /\ Dead
  /\ shutdown' = TRUE
  /\ UNCHANGED <<life, passive, arbVars, rates, net, signal, account, counters, history>>

-----------------------------------------------------------------------------
(* The venues.                                                             *)

Fill(ex) ==
  /\ \E i \in DOMAIN account[ex].rests :
       LET o == account[ex].rests[i]
       IN  \E qty \in 1..Fillable(account[ex], o.dir, o.left, o.reduce) :
             LET rests == IF qty = o.left THEN RemoveAt(account[ex].rests, i)
                          ELSE [account[ex].rests EXCEPT ![i].left = @ - qty]
             IN  account' = [account EXCEPT ![ex] = [Filled(@, TRUE, o.dir * qty) EXCEPT !.rests = rests]]
  /\ UNCHANGED <<life, passive, arbVars, rates, net, signal, shutdown, counters, history>>

\* An order is rejected late, or never arrives.
VenueDrop(ex) ==
  /\ \E i \in DOMAIN account[ex].rests :
       account' = [account EXCEPT ![ex].rests = RemoveAt(@, i)]
  /\ UNCHANGED <<life, passive, arbVars, rates, net, signal, shutdown, counters, history>>

\* The wallet is shared with other strategies and manual orders.
ForeignFill(ex) ==
  /\ foreign < MaxForeign /\ foreign' = foreign + 1
  /\ \E qty \in {-1, 1} :
       /\ account' = [account EXCEPT ![ex] = Filled(@, FALSE, qty)]
       /\ untracked' = [untracked EXCEPT ![ex] = @ + qty]
  /\ astray' = TRUE
  /\ UNCHANGED <<life, passive, arbVars, rates, net, signal, shutdown, entries, gaps, skewed>>

\* The event stream is interrupted, and what is on the wire is not delivered
\* before it is up again.
LinkLost(ex) ==
  /\ gaps < MaxGaps /\ gaps' = gaps + 1
  /\ account[ex].link = "up"
  /\ \E m \in 0..Len(account[ex].trades) :
       account' = [account EXCEPT ![ex].link = "gap", ![ex].missed = m,
                                  ![ex].again = SubSeq(@, 1, Len(@) - m)]
  /\ UNCHANGED <<life, passive, arbVars, rates, net, signal, shutdown, entries, foreign, history>>

\* The oldest of the withheld fills is out of what a reconnect delivers, and
\* so is everything before it.
Forgotten(ex) ==
  /\ account[ex].missed > 0
  /\ account' = [account EXCEPT ![ex].trades = RemoveAt(@, Len(@) - account[ex].missed + 1),
                                ![ex].missed = @ - 1, ![ex].again = <<>>]
  /\ skewed' = [skewed EXCEPT ![ex] = TRUE]
  /\ UNCHANGED <<life, passive, arbVars, rates, net, signal, shutdown, counters, untracked, astray>>

\* The stream is up again and delivers the withheld fills, the last k of those
\* delivered before them once more.
Reconnect(ex) ==
  LET a == account[ex]
      arrived == Len(a.trades) - a.missed
  IN  /\ a.link = "gap"
      /\ \E k \in 0..Len(a.again) :
           LET replay == SubSeq(a.again, Len(a.again) - k + 1, Len(a.again))
                         \o SubSeq(a.trades, arrived + 1, Len(a.trades))
           IN  /\ account' = [account EXCEPT
                                 ![ex] = [a EXCEPT !.link = "up", !.missed = 0,
                                                   !.trades = SubSeq(a.trades, 1, arrived) \o replay,
                                                   !.again = Recent(replay)]]
               /\ skewed' = [skewed EXCEPT ![ex] = @ \/ k > 0]
               /\ astray' = (astray \/ k > 0)
      /\ UNCHANGED <<life, passive, arbVars, rates, net, signal, shutdown, counters, untracked>>

\* The muxer raises the reconcile signal: an interruption begins, or there was
\* nothing to read for a while.
FlagReconcile(ex) ==
  /\ account[ex].link # "dead"
  /\ signal' = [signal EXCEPT ![ex] = TRUE]
  /\ UNCHANGED <<life, passive, arbVars, rates, net, shutdown, account, counters, history>>

\* The adapter gives the stream up.
FlagDisconnected(ex) ==
  /\ account[ex].link = "gap"
  /\ account' = [account EXCEPT ![ex].link = "dead"]
  /\ UNCHANGED <<life, passive, arbVars, rates, net, signal, shutdown, counters, history>>

TimePasses ==
  /\ ~elapsed /\ elapsed' = TRUE
  /\ UNCHANGED <<life, passive, phase, leg, rates, net, signal, shutdown, account, counters, history>>

-----------------------------------------------------------------------------

Step ==
  \/ (\E ex \in Exchanges : HandleMarkPrice(ex) \/ HandleTrade(ex)) \/ Tick \/ TickDisconnected
  \/ (\E ex \in Exchanges : Fill(ex) \/ VenueDrop(ex) \/ ForeignFill(ex)
                            \/ LinkLost(ex) \/ Forgotten(ex) \/ Reconnect(ex)
                            \/ FlagReconcile(ex) \/ FlagDisconnected(ex))
  \/ TimePasses

Next == Start \/ Step \/ WindDown

Spec == Init /\ [][Next]_vars

\* The tick feed keeps ticking, the clock runs, and the harness winds the actor
\* down once it has asked for it.
Fairness ==
  /\ WF_vars(Tick \/ TickDisconnected) /\ WF_vars(TimePasses)
  /\ WF_vars(shutdown /\ WindDown)

FairSpec == Spec /\ Fairness

-----------------------------------------------------------------------------
(* Properties.                                                             *)

OwnQueued(ex) ==
  LET t == account[ex].trades
      sum[i \in 0..Len(t)] == IF i = 0 THEN 0 ELSE sum[i - 1] + (IF t[i].own THEN t[i].qty ELSE 0)
  IN  sum[Len(t)]

\* The tracker and the trades on their way to it, those an interrupted stream
\* withholds included, add up to the position, in spite of fills of others
\* (strategy.rs:488 "canonical source of position changes").  A reconnect that
\* does not deliver every withheld fill, or one a second time, breaks this; a
\* reconciliation with no own trade on its way mends it (556-595), and one that
\* reads a position whose trades are yet to come, queued or in the interruption
\* that raised the signal, breaks it.
TrackerExact ==
  \A ex \in Exchanges :
    life = "running" /\ ~skewed[ex] =>
      net[ex] + OwnQueued(ex) = account[ex].position - untracked[ex]

\* The phase tells what is held and what rests at the venues: no new cycle starts
\* on top of an old one (strategy.rs:183-186, 348-349), and an active arb holds
\* both legs in full.  It holds until
\*   - cancel_all_orders fails, or the order for a clean leg is not filled in
\*     full, and the leg passes for flat (loose);
\*   - an entry starts with the tracker still behind (Unsettled), or it is
\*     re-seeded while trades that the position contains are queued, or withheld
\*     by an interrupted stream (AstrayBy);
\*   - a reconnect delivers a fill a second time;
\*   - an order reported as failed arrives later (late);
\*   - others trade on the wallet;
\* and while the actor has not asked for a shutdown, which stands for
\* "manual intervention required".
Explained(ex) ==
  LET a == account[ex]
      held == a.position * leg[ex]
      resting == {a.rests[i] : i \in DOMAIN a.rests}
  IN  CASE phase = "flat" -> a.position = 0 /\ resting = {}
        [] phase = "active" -> held = Size /\ resting = {}
        [] phase = "entering" -> /\ held >= 0
                                 /\ \A o \in resting : o.dir = leg[ex] /\ held + o.left <= Size
                                 /\ Len(a.rests) <= 1 /\ held <= Size
        [] phase = "exiting" -> held \in 0..Size /\ \A o \in resting : o.reduce

PhaseTellsPosition ==
  life = "running" /\ ~astray /\ ~shutdown => \A ex \in Exchanges : Explained(ex)

\* Neither entering nor exiting lasts for ever, whatever is refused or lost
\* (config.rs:38 "Timeout for Entering/Exiting phases before emergency flatten").
PhaseEnds ==
  phase \in {"entering", "exiting"} ~> phase \in {"flat", "active"} \/ life = "down"
=============================================================================
