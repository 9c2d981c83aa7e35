# Formal models of bullet-bots

bullet-bots is a Rust engine for event-driven trading bots. `bb-core` holds the
harness (actors, event bus, feeds, clock, helpers), `exchanges/*` adapt venues
to it, `strategies/*` are the actors, and `bb-bot` wires one strategy to its
feeds and brokers. This directory models its core in TLA+: TLC checks the
models on small instances and TLAPS proves theorems about them for every value
of their constants. Paths below are relative to `src/crates/`.

    tlc -workers 2 -config <file>.cfg <module>.tla      one run of PROJECT.json
    tlapm <module>Proofs.tla                            the proofs about a module

`PROJECT.json` lists the components, the runs, for each property a faulty
variant of the model that breaks it, the source lines of each definition, the
findings, the hazards and the theorems.

## 1. The system

| Part | State | Operations | Talks to |
|---|---|---|---|
| Harness run loop (`bb-core/src/harness/harness.rs`) | shutdown token, failure channel, set of feeds, one mutex and one cancel token per actor | init of every actor, spawn of feeds, the biased `select!`, wind-down | actors (calls), feeds and subscriptions (tasks), OS signals |
| Subscriptions (`harness/builder.rs`) | a receiver of one broadcast channel | receive, lag, lock the actor, call its handler, report a fatal error | bus, actors, failure channel |
| Bus and feeds (`harness/bus.rs`, `feed.rs`) | a bounded broadcast channel per event type | publish, `MpscFeed` forwarding, end | adapters, subscriptions |
| Connection health (`health.rs`) | `disconnected`, `reconcile_pending` | raise, take | muxers, brokers, strategies |
| Bullet adapter (`exchanges/bullet/src/connection.rs`) | one muxer task, `RecentIds`, four channels | read the socket, deduplicate, send, flag a reconnect or the end | managed WebSocket, feeds, health |
| Hyperliquid adapter (`exchanges/hyperliquid/src/connection.rs`) | one muxer task with a silence timer | the same without deduplication | SDK stream, feeds, health |
| Brokers (`broker.rs`, `exchanges/*/src/broker.rs`) | a REST client | place, cancel, amend, query | strategies, venue |
| reference-arb (`strategies/reference-arb`) | state machine Flat / Entering / Holding / Exiting, tracker, signal streak | enter, exit, hold timeout, events | one broker, a reference price |
| grid (`strategies/grid`) | a state per level, tracker, trend filter | place, refill, reconcile, suspend, resume | one broker |
| funding-arb (`strategies/funding-arb`) | two legs, two trackers, two funding rates, phase Flat / Entering / Active / Exiting | enter both legs, exit, flatten, reconcile with positions | two brokers |
| simple-mm (`strategies/simple-mm`) | one quote slot a side, tracker | cancel and place what has drifted | one broker |
| avellaneda-stoikov (`strategies/avellaneda-stoikov`) | a ladder of quote slots, tracker, volatility estimate | diff the ladder, amend, reconcile with open orders | one broker, a reference price |
| Inventory tracker, client ids, tick feed, status API, `bb-bot` | position and average price; a counter; none | record a fill; next id; tick; serve; wire | all |

What is hard: every subscription, every feed, `run` and the muxers are tasks of
a multi-threaded runtime; a broadcast channel overwrites what a slow receiver
has not read; trades and order updates are separate streams, so a strategy may
see them in either order; a reconnect loses, replays and delays events; a
placement may be reported as failed although it was not; and shutdown races all
of this. What makes each part correct:

- Harness: handlers of one actor never overlap; nothing is handled before every
  actor is ready; wind-down comes last, once, after every subscription of the
  actor has ended; a critical stream is handed over without a gap or the run
  stops and says so; every run that should stop does.
- Adapters: one Trade per execution, none swallowed; order events never wait
  for market data; a dead venue can be told from a quiet one; a gap is
  announced so that a resync covers it.
- Strategies: the tracker is late but never wrong; the number of live orders
  and the exposure they can lead to stay bounded whatever the interleaving;
  closing orders only close; no state waits for ever for an event that does not
  come.
- Two legs: a phase says what is held at both venues, after refused calls,
  calls whose outcome is unknown, and interrupted streams.
- Quotes: no order rests that no slot holds, or it is found again.

## 2. Modules

| Module | Models | Used by |
|---|---|---|
| `ActorLifecycle` | what the harness promises the author of an actor | `Harness` (refinement) |
| `Harness` | run loop, subscriptions, bus, feeds, wind-down | `MCHarness`, `HarnessProofs` |
| `BulletMuxer` | the Bullet adapter from the socket to the bus | `MCBulletMuxer`, `BulletResync`, `BulletMuxerProofs` |
| `BulletResync` | the muxer with a strategy that resyncs on the signal | `MCBulletResync` |
| `HyperliquidMuxer` | the Hyperliquid muxer | its own cfg |
| `ReferenceArb` | the reference-arb actor and the venue | `MCReferenceArb`, `ReferenceArbProofs` |
| `Grid` | the grid actor and the venue | `MCGrid`, `GridProofs` |
| `FundingArb` | the funding-arb actor and its accounts at two venues | `MCFundingArb`, `FundingArbProofs` |
| `Inventory` | the inventory tracker with prices and profit | `MCFundingArb` |
| `OrderCalls`, `BulletBroker`, `HyperliquidBroker`, `Broker` | what order calls answer and what they leave at the venue; `Broker` chooses by exchange | `OrderVenue` |
| `OrderVenue` | a venue as a quoting strategy sees it: orders, trades, reports | the two below |
| `SimpleMm` | the simple-mm actor with brokers and venue | `MCSimpleMm`, `SimpleMmProofs` |
| `AvellanedaStoikov` | the avellaneda-stoikov actor with brokers and venue | `MCAvellanedaStoikov`, `AvellanedaStoikovProofs` |
| `SumProofs` | no code: lemmas about totals over finite sets and sums along sequences | `ReferenceArbProofs`, `SimpleMmProofs`, `GridProofs`, `FundingArbProofs` |

### Harness

`main` is the program counter of `Harness::run`; `pollFailures`, `pollStop` and
`pollFeeds` are the branches of its biased `select!`, polled one after the other
because the tasks they listen to run on other threads. `sub[s]` is the program
counter of a subscription task: `select`, `recv`, `locking`, `handling`,
`failing`, `stopping`, `done`. An event is its position in its stream, so a
broadcast channel is the number of events `sent` and a receiver is its
`cursor`; it lags when the cursor is more than `Capacity` behind. `lock` is the
actors' mutexes. Which subscriptions are critical is the constant `Critical`,
as the wiring in `bb-bot/src/main.rs` decides it. `MaxEvents` bounds what is
published.

Not modelled: a panic in a handler (the release profile aborts) and the status
server after its listener is bound.

### ActorLifecycle

One phase per actor, who is in its handler, and what each subscription has
handled; no task, channel, token or lock. `Harness` implements it under the
mapping at its end: the phase follows from `main`, `idx`, `inited` and
`woundDown`, and `busy` is the mutex unless `run` holds it.

### BulletMuxer, BulletResync, HyperliquidMuxer

A frame is its number in the venue's history and, for a fill, stands for its
`trade_id`. `wire` is what the managed WebSocket has not handed over: frames in
order, a `reconnecting` mark in place of what was lost, the last few frames
again after a reconnect (at most `Window`, those missed in the gap among them),
the end. The muxer takes one message at a
time; a fill goes through `RecentIds` (`seen`, `Cap` ids) to the Trade channel
and every frame to the OrderLifecycle channel; `IsFill` are the frames of which
`order_update_to_trade` makes a Trade, which leaves out a fill that does not
parse (`convert.rs:79-93`); market data is sent with
`try_send` and dropped when its channel is full. `MpscFeed` forwards each
channel to the bus. In `BulletResync` a strategy takes the reconcile signal and
queries the venue at once. `HyperliquidMuxer` has no announced reconnect: a
silence longer than a threshold stands for one.

### ReferenceArb

`kind`, `side`, `cid` and `ticks` are `ArbState`; `net` is the tracker; `streak`
is the persistence filter with the sign of its side. Prices are the spread in
basis points that an evaluation sees, any member of `Spreads`; an evaluation
without a mid or with a stale reference does nothing and is no step. An order
executes some time after it was submitted, for all, part or nothing, is
reported in one or two trades and ends "filled" or "cancelled"; `trades` and
`updates` are separate queues. Placing has three outcomes: accepted, refused,
and *lost*, a failure reported for an order that goes through
(`exchanges/bullet/src/broker.rs:278-286`). `PlaceExit` is `place_exit`, the
last part of four handlers; it is inside their actions.

Assumed: a book with both sides once one has arrived; until the permanent
disconnect every fill reaches the actor as one trade and every end of an order as
an update (the actor never takes the reconcile signal, so a reconnect gap that
loses reports, or at Hyperliquid repeats trades, is a hazard without a property);
after it nothing is reported any more.

### Grid

`levels` is `GridState.levels` (state, side, client id, filled quantity),
`anchor` is where the market was at the start as a number of levels, and a tick
or a trade sees the market at any place among the levels, which is what
`would_cross` asks. Orders are PostOnly and rest; they fill piece by piece in
`Fill`, vanish in `VenueCancel` with or without a report. A tick with working
REST calls is `TickWorks`: reconcile, resume or suspend, place. The trend
filter may trip or clear at any tick, but not at init, where both averages start
from the same sample.

Assumed: REST open orders are current, client ids are always reported,
reports of cancellations of different orders commute. Until the permanent
disconnect every fill reaches the actor as one trade: no trade is lost in a
reconnect gap, and none is repeated after one. The grid never takes the reconcile
signal, and nothing would mend its tracker; what the adapters lose and repeat is
shown in `BulletMuxer` and `HyperliquidMuxer`, and `FundingArb` has such streams.

### FundingArb, Inventory

`phase` and `leg` are `ArbState` (`leg` has the sign of the leg's side), `rate`
and `hasRate` its funding rates, `net` the two trackers, `elapsed` whether the
time of the phase is up (`phase_timeout_secs`, `min_flat_hold_secs`).
`account[ex]` is a venue: the position, the orders that rest, the trades that
have not been handled, and the event stream (below). A handler's calls are made
in their order: `Enter` places both legs and flattens both unless both were
accepted, `EmergencyFlatten` goes flat whatever came of it. A call may be
refused, or reported as failed and be executed now or later (`late`: beyond the
reach of the cancel that follows). A `Tick` takes both signals and seeds the
trackers from `get_positions`, of which either may fail.

The stream of a venue does what either adapter does; an actor may run at any two.
`LinkLost` interrupts it: the fills on the wire and those that follow are withheld
(`missed` counts them at the end of `trades`). `Reconnect` delivers them, and up
to `Window` fills of before them once more (`again`), since the Hyperliquid muxer
does not deduplicate; what a replay window no longer holds is lost first
(`Forgotten`). `FlagReconcile` raises the signal at any time, because the two
adapters tie it to different things: the start of an interruption, a silence, or
nothing. `FlagDisconnected` gives the stream up. So a position can be read while
fills that it contains are withheld, and their trades come later. `Inventory` has `record_fill` with average entry price and
realized profit; money is in units of `1/Unit`.

Assumed: a position that is read contains every fill the venue has executed.

### OrderCalls, brokers, OrderVenue

A call is asked for a batch and has a set of outcomes: what the caller is
*told*, which old orders are *gone*, which new ones are *taken*, and whose
result is *named* with an order id. At Bullet a batch is one transaction that
may be committed although it is reported as failed; at Hyperliquid the entries
of a batch fail one by one, what cannot be modified by order id is cancelled and
placed (the trait's default amend), and a cancel counts as done whatever is
answered. `OrderVenue` is external: orders known by their client ids fill piece
by piece, and trades and reports reach the actor in two channels whose order is
open. A client id that nothing refers to any more is used again, so that a few
ids per quote stand for any number.

### SimpleMm

`slot[s]` is the bid and the ask. A refresh cancels what has drifted, crosses
or is no longer allowed, clears the slots whose cancel was answered with
success, and places where the slot is empty. Prices are free: whether a quote
drifts or crosses is chosen at each refresh. `loose` is history: orders that
rest although a call was answered otherwise than it went. The account starts
with any position of `Inherited`, which the start takes over unchecked
(`strategy.rs:272-279`), and perhaps with an order of an earlier session. `excess`
is history: what the limit could not cover of a side when it was last quoted
(queued fills, loose orders), or at the start (loose orders, and the inherited
position beyond the limit).

### AvellanedaStoikov

`slot[q]` is the slot of a rung (side and level). A refresh chooses a plan that
the diff of the ladder may come to (keep, amend, cancel, place), makes the three
calls, and reconciles on the broker's signal or when due: a slot whose order id
is known and not live is dropped, a live order that no slot claims is cancelled.
A trade of any size drops the slot of its order. Prices, volatility and the
throttle are free choices.

## 3. Runs

All runs finish; state counts are of distinct states.

| Run | Asks | Bounds and why they are enough |
|---|---|---|
| `harness_contention` (226 000) | `CriticalContiguous`, `LossIsReported`, `Exclusive`, `LagStopsRun` | one actor, a critical and an ordinary subscription on two feeds; a channel of one event and three events, the least that can lag with an event in hand while the other subscription holds the actor; every signal, request, failure and feed end |
| `harness_lifecycle` (65 000) | `WindDownExclusive`, `ReadyBeforeEvents`, `WindDownOnce`, the refinement, two liveness properties | two actors on one feed: the least with an order among actors; a channel of one event and two events |
| `bullet_muxer` (98 000) | `OneTradePerFill`, `EveryFillCounted`, `EndIsFlagged`, `TransitionsReachBus` | see below |
| `gap_resynced`, `hl_one_trade` | two statements the adapters do not keep | one reconnect, one or two frames |
| `reference_arb` (455 000) | six properties of the actor and the venue | three orders (entry, exit, one retry or a second entry), sizes of two units so that every fill can be partial, one false failure |
| `exit_resolves` | a statement the actor does not keep | two orders |
| `grid` (160 000) | five properties of grid and venue | two levels, three orders of two units, two queued trades, one false failure |
| `grid_dormant` | a statement the grid does not keep | the same without a false failure |
| `funding_arb` (263 000) | `TrackerExact`, `PhaseTellsPosition`, `PhaseEnds`, also through an interrupted stream, and `InventoryAddsUp` of the tracker | legs of two units, so that each can fill in part; a spread below, between and above the thresholds, and insane; two entries, so that a second cycle starts on what the first left; one fill of another's; one trade queued a venue; one interruption, at venue a, with one entry, two trades queued or withheld and one delivered before it that may come again: enough for one fill before and one in the gap, a re-seed at any moment of it, and a leg that the tracker takes for filled while half of it rests |
| `simple_mm` (468 000) | `RestingIsTracked`, `WorstCaseCapped` | orders of two units, limit of two; nothing inherited, or three units on either side; two client ids a side, an order and its replacement; two queued events |
| `avellaneda_stoikov` (85 000) | `RestingIsTracked`, `OrphansFound` | a rung a side; orders of two units, so that a trade can leave a remainder; two client ids a rung |

Some runs explore two or three scopes, chosen by a variable of the MC module, so that
one run stays small and still reaches both ends. `MCBulletMuxer`: "replay" has
only order frames and three reconnects, with a window of two frames and a
memory of three ids, the smallest where a late frame pushes a newer id out of
the memory; "streams" has market data, the final disconnect and the token with
two frames. `MCGrid`: "tracked" ends where the grid loses track of an order,
"astray" explores what happens after one such event on two levels.
`MCFundingArb`: "orderly" ends where the actor goes astray or asks for a
shutdown, "astray" has one entry with market orders and what others do around it,
and "streams" has PostOnly orders, which can rest through it, and an interrupted
stream, also where the actor is astray on the way in; it ends where an order of
venue b is filled in part. Only venue a has interruptions and signals: the two
venues differ by nothing else. `MCSimpleMm`: "orderly" quotes both sides and ends where an order
goes loose or events are lost, "faulty" quotes one side and has all of it.
`MCAvellanedaStoikov`: "ladder" has two rungs and ends where events are lost,
"faulty" has one rung with everything, under fairness; there the actor starts so
short that it never sells. Where a report concerns no slot it only goes away, and
the two MC modules of quoting handle it first.

Deadlock is checked in the runs of `Harness`. The others switch it off: the
bounds on orders and frames end them, and so does a wind-down.

### What the properties say

- `CriticalContiguous`, `LossIsReported`: a critical subscription hands over the
  initial part of its stream, and when it stops short the run is stopped and
  the reason is on record. A lag can hit while the task waits for the mutex with
  an event in hand: that event is handled, and the next receive is the one that
  stops the run.
- `WindDownOnce`, `ReadyBeforeEvents`, `WindDownExclusive`, `Exclusive` and
  `ImplementsLifecycle`: the order in which things happen to an actor.
- `ShutdownCompletes`, `LagStopsRun`, `EveryEventHandled`: no task waits for one
  that waits for it, on any of the ways out.
- `OneTradePerFill`: needs `Cap >= 2 * Window - 1`, not only `Cap >= Window`,
  since late replays are remembered after newer ids. The code's 8 192 against
  a small window has ample room.
- `EveryFillCounted`, `EndIsFlagged`: deduplication swallows no fill, and a feed
  that ends by itself has published what was read, at a venue that is flagged.
- `TransitionsReachBus`: needs no fairness of the market-data feeds, so a slow
  consumer of books cannot hold up orders.
- `InventoryExact`: the tracker plus the trades still queued is the position,
  in whatever state an event is handled and whoever's order it is about.
- `FlatUnlessOvertaken`: "Flat" means flat, with the conditions that this takes:
  a cancellation that overtakes a fill breaks them.
- `OneLiveOrder`, `ExitNeverGrows`, `HoldBounded`, `EntryResolves`: exposure and
  time of reference-arb are bounded, retries included.
- `RestingIsTracked`, `WorstCaseCapped` of the grid: while it has not lost track
  of an order, every resting order is the one its level holds and all fills
  together stay within the cap. `OnTrack` names the two ways to lose track.
- `PausedIsQuiet`, `DeadOrderNoticed`: a suspended grid places nothing, and no
  level waits for ever for an order that is gone.
- `TrackerExact`: tracker plus queued and withheld trades is the position at each
  venue, also after a reconciliation. `skewed` records the exceptions, and nothing
  else breaks it: a withheld fill that is never delivered, one that is delivered a
  second time, and a reconciliation that reads a position whose trades are still
  queued or withheld, and counts them twice. A reconciliation with nothing on its
  way mends all three.
- `PhaseTellsPosition`: the phase says what both legs hold and what rests, and an
  active arb is hedged in full. `astray` records the causes that break it, listed
  at the property; each is one of the hazards. An interruption alone is not one: a
  fill that comes late or never leaves the phase right, a tracker that is seeded
  in the middle of it, or fed a fill twice, does not.
- `PhaseEnds`: neither Entering nor Exiting lasts for ever.
- `InventoryAddsUp`: realized profit and average entry price account for the
  cash flow of every sequence of up to three fills, from a fresh tracker or a
  seeded one; flips and partial closes included.
- `RestingIsTracked` of the market makers: an order rests untracked only if a
  call was answered otherwise than it went or, with Avellaneda-Stoikov, after a
  trade of a part of it. In `loose` and nowhere else is the difference between
  "told" and "done", so refused calls, lost or reordered events, phantoms and
  orphans lose none.
- `WorstCaseCapped` of simple-mm: if all resting orders of a side filled, the
  position would exceed `max_position` by no more than what the limit could not
  cover when the side was last quoted; before that, by no more than what was
  inherited beyond it. A side inherited beyond the limit is not quoted until the
  position has come back.
- `OrphansFound`: again and again no order is untracked.

### Fairness

- `Harness`: weak fairness of `run` and of every subscription task (the runtime
  polls ready tasks; handlers, inits and wind-downs are assumed to return). None
  of feeds, signals or shutdown requests.
- `BulletMuxer`: weak fairness of the muxer and of the two order feeds, none of
  market data or the venue.
- `ReferenceArb`: weak fairness of the venue's execution of an immediate order
  and of handling what has arrived. None of prices, ticks or placements.
- `FundingArb`: weak fairness of ticks, of the clock that ends a phase's time, and
  of the wind-down once a shutdown was requested. None of venues or rates: the
  tick feed ticks and the harness winds down whatever they do.
- `AvellanedaStoikov`: weak fairness of handling what is queued, of the tick that
  notices a dead broker and of the wind-down it asks for; strong fairness of a
  refresh that reconciles and is answered (`AnsweredRefresh`). This says that
  reconciliation is on (`reconcile_interval_secs > 0`), that the price keeps
  moving, since a refresh with nothing to do returns before it reconciles
  (strategy.rs:402), and that the venue answers now and then. With a price that
  stands still an orphan is not found.
- `Grid`: weak fairness of a tick whose REST calls succeed. The tick feed keeps
  ticking; if no tick ever finds the venue reachable nothing can be promised.

## 4. Proofs

The theorems hold for every value of the constants that the named assumptions
(`HarnessAssumption`, `MuxerAssumption`, `ArbAssumption`, `GridAssumption`,
`FundingAssumption`, `OrderVenueAssumption`, `SimpleMmAssumption`,
`AvellanedaStoikovAssumption`) allow: any number of actors, feeds and subscriptions, any history and number of
reconnects, any ladder or number of levels, sizes, thresholds, bounds. The
assumptions give the constants their types and say what the code's
configuration checks demand; `OrderVenueAssumption` adds that the client ids
are finitely many. One theorem has a hypothesis of its own (`OneTrade`, below).

### Harness

`HarnessProofs`:

| Theorem | Says | Strengthening |
|---|---|---|
| `TypeCorrect` | `TypeOK` | `IdxInv`: during an init or a wind-down `idx` is a real actor |
| `MutualExclusion` | `Exclusive` | `LockInv`: whoever runs code of an actor holds its mutex |
| `WindDownIsExclusive` | `WindDownExclusive` | inductive with the types: a task that is done stays done |
| `CriticalStreams` | `CriticalContiguous` | `StreamInv`: what was handled is what the cursor is past, but for an event carried to the mutex |
| `NoSilentLoss` | `LossIsReported` | `LossInv`: a failing task has reported before it stops the run, and `run` forgets neither a report nor the token |
| `NoEarlyEvent` | `ReadyBeforeEvents` | `StartInv`: while actors are initialised no feed exists; `CursorInv`: no receiver is ahead of its channel |
| `WoundDownOnce` | `WindDownOnce` | `DownInv`: when `wind_down_all` is at `idx`, the actors before it have been wound down once, and no other |
| `LifecycleRefined` | `ImplementsLifecycle` | all of these, and `LastInv`: what was handled last is not after the cursor |

A frame lemma per process says which variables its steps leave alone, so that
each invariant is preserved by a few actions' argument. The refinement maps
each of `run`'s steps, each step of a subscription and each step of a feed to
an action of `ActorLifecycle` or to a stutter; only where a handler begins or
returns, and at the ends of an init, of the start-up and of a wind-down, does
the abstract state change.

### Bullet adapter

`BulletMuxerProofs`:

| Theorem | Says | Strengthening |
|---|---|---|
| `TypeCorrect` | `TypeOK` | a frame on the wire is one the venue has produced |
| `NoFillSwallowed` | `EveryFillCounted` | `TradeInv`: what `RecentIds` remembers is on the bus or on its way, and so is every fill that was read |
| `EndFlagged` | `EndIsFlagged` | `EndInv`: the muxer flags the venue before it drops its senders; `TradeInv` and, for transitions, `MovesInv` |
| `OneTrade` | `OneTradePerFill`, if `2 * Window <= Cap + 1` | `WireInv`, `SeenInv` |

`OneTrade` is about a memory that forgets. Its hypothesis relates the capacity
of `RecentIds` to what one reconnect may replay: without it TLC finds a
duplicate on a small instance, and with the code's 8 192 ids it allows replays
of 4 096 frames. The argument: frames on the wire, and what was read, are out of
order by less than `Window` (`WireInv`), hence so is what is remembered
(`SeenInv`); an id that leaves a full memory of `2 * Window - 1` ids has, by a
pigeonhole argument, one that is at least `Window` newer beside it, so the
forgotten fill can never be replayed again.

### Reference-price arbitrage

`ReferenceArbProofs`:

| Theorem | Says | Strengthening |
|---|---|---|
| `TypeCorrect` | `TypeOK` | inductive; an order id is on record exactly in Entering and Exiting |
| `HoldIsBounded` | `HoldBounded` | `HoldInv`: `ticks` equals the history counter in Holding and Exiting |
| `ExitReduces` | `ExitNeverGrows` | `ReduceInv`: every closing order at the venue is reduce-only |
| `OneOrder` | `OneLiveOrder` | `RecordInv`: reports are about finished orders, unissued ids have no order; `OwnInv`: a submitted order is the one on record |
| `TrackerIsExact` | `InventoryExact` | `BookInv`: nothing is queued or counted before the start |
| `FlatMeansFlat` | `FlatUnlessOvertaken` | `CycleInv` |

`OrderSteps` is the frame: every step leaves the venue's record alone, adds the
actor's own order to it, or executes one. `RecordInv` is needed because letting
go of an order on a report is right only if the order is finished by then.
`CycleInv` says of each state of a tame run (nothing overtaken, nothing lost)
what is queued and how it is signed: in Entering only trades of the entry, in
Exiting those of the entry before those of the exit, and never more of the exit
than the tracker and the queue leave. Without the last part a late fill of the
entry could be mistaken for what the exit closed.

### Grid

`GridProofs`:

| Theorem | Says | Strengthening |
|---|---|---|
| `TypeCorrect` | `TypeOK` | `IInv` |
| `TrackerIsExact` | `InventoryExact` | `IInv` |
| `SuspendedIsQuiet` | `PausedIsQuiet` | `IInv`: every level of a suspended grid is dormant |
| `NoOrderLost` | `RestingIsTracked` | `TrackInv` |
| `WorstCaseHolds` | `WorstCaseCapped` | `CapInv`, `TrackInv` |

`IInv` adds to the types `RecordInv` (trades have the sign of their order,
cancellations are about orders of which nothing rests, unissued ids have no
order), `HeldBy` (the order a level holds is of that level and side) and
`NewInv`. Without `RecordInv` a trade could count against a level, and
`filled` would leave its type.

`TrackInv` holds while the grid is on track (`OnTrack`). It says of each active
level that what it has counted, what is on its way and what rests make up its
order (`Whole`), and of each order that rests or has trades on their way that
its level holds it (`Owned`). `RestingIsTracked` alone is not inductive: a
level may be taken off an order with trades queued.

The cap takes an inequality over all levels and all orders at once, `Committed`:
what rests of a side and what is queued is at most what its levels count as
still open (`ActiveRemaining`). It is proved by splitting the queue by the
order of each trade (`AlongByOwner` of `SumProofs`) and comparing level by
level. `ChosenBound` says of the loop in `place_pending_orders`, a recursive
function over the levels, that whatever it chooses of a side fits within
`max_position` with all that is open there, by a least counterexample among its
rounds. `BatchCapped` puts the two together for a placement. `CapInv` is the
property itself, in a form with one side: the other steps only let orders
shrink, or turn what rests into position.

### Funding arbitrage

`FundingArbProofs`:

| Theorem | Says | Strengthening |
|---|---|---|
| `TypeCorrect` | `TypeOK` | `TypeInv` |
| `TrackerIsExact` | `TrackerExact` | `TrackInv`: the same at any time of the run |
| `PhaseTells` | `PhaseTellsPosition` | `CycleInv`: while nothing has led the arb astray and no shutdown was asked for, each leg is in its phase |

The one inductive invariant `IInv` is their conjunction, with `FreshInv` (an
actor that has not started is flat). It rests on two ideas.

`Served(a, b)` is what any of the actor's calls, or a fill of its orders, may
make of an account: what it does to the position is on its way to the tracker,
withheld if the stream is interrupted. Placing, cancelling, flattening and filling each
have a lemma that says so, and `ServedAgain` chains them; from `Served` alone
the tracker stays exact, whatever was refused, lost or executed all the same.

`LegIs` says of one leg what its phase allows it to hold, to have at rest and to
have on its way to the tracker. The last part is why `PhaseTellsPosition` is not
inductive: the phase machine decides on the tracker, so "entered" and "flat" are
right only if the tracker cannot run ahead of the position. On the way in all
that is queued is on the side of the leg, so that a tracker that has reached
`order_size` has nothing left to hear (`EnteredFull`); on the way out all that
is queued is on the other side (`ExitedFlat`). `Driven` is what a step of the
actor does to both legs, for the tracker as it was or as `get_positions` has just
re-seeded it; `EnterDrives`, `ExitDrives`, `FlattenDrives`, `CancelDrives` and
`StayDrives` show it for the parts of the phase machine, and each action of the
model then takes one lemma. Steps of a venue concern one account and are
one-leg lemmas (`LegRestFills`, `LegHandled`, `LegDropped`, `LegForgotten`). Of an
interruption `LegForgotten` is the one that matters: a fill that is lost leaves
the tracker behind, never ahead, so that a phase may last too long but not end
too early. What is delivered twice, or read early, can put it ahead, and is where
`PhaseTellsPosition` ends.

`PhaseTells` covers the runs its property covers: `astray` records the causes
listed at `PhaseTellsPosition`, and behind one of them nothing is claimed.

### Market makers

`SimpleMmProofs` and `AvellanedaStoikovProofs` each begin with what they need of
the brokers and of the venue:

| Theorem | Says | Strengthening |
|---|---|---|
| `SimpleMmProofs!NoOrderLost` | `RestingIsTracked` | `SlotInv`: a slot holds a client id of its own side; `Sound` |
| `SimpleMmProofs!TypeCorrect` | `TypeOK` | the same, loose orders rest, and `excess` is a number |
| `SimpleMmProofs!WorstCaseHolds` | `WorstCaseCapped` | `CapInv`: the tracker, which was seeded with whatever was there, and what is queued make up the position |
| `AvellanedaStoikovProofs!TypeCorrect` | `TypeOK` | `Ladder`: a slot holds a client id of its own rung; `Sound`; loose orders rest |
| `AvellanedaStoikovProofs!NoOrderLost` | `RestingIsTracked` | the same |

`Sound` says of the venue that an end is reported only of an order of which
nothing rests, and that no more than an order's size fills. Without it a report
could clear the slot of an order that rests, or an issued client id could still
have an end on its way. Each operator of `OrderVenue` that makes one venue from
another (`Ended`, `Taken`, `Rejected`) has a lemma that it keeps `Sound`, so the
three calls of a refresh are three lemma citations. All that is used of the
brokers is that an outcome speaks of nothing that was not asked (`CancelAnswers`,
`AmendAnswers`, `PlaceAnswers`, `CancelAllAnswers`): the theorems do not depend
on which faults they have. The cap of simple-mm follows each step's effect on the
totals of what rests and what is queued of a side.

### Sums

`SumProofs` proves what these theorems need of the library's folds: the total of
a function over a finite set unfolds, changes with one value, grows with each,
and splits (`TotalUnfold`, `TotalChange`, `TotalGrows`, `TotalPlus`), and the
sum along a sequence follows its head, its tail and what is appended (`Flow...`,
`Along...`, `AlongRemoved` for an element taken out of the middle). A fold is a recursive function in the form of a `CHOOSE`, and the
library's induction theorems cannot be used, so existence and every such fact
come from a least counterexample: a smallest subset or number for which the fact
fails (`LeastSubset`, `LeastNumber`).

### Model-checked only

- All liveness and what depends on ENABLED: `ShutdownCompletes`, `LagStopsRun`,
  `EveryEventHandled`, `TransitionsReachBus`, `EntryResolves`, `DeadOrderNoticed`,
  `PhaseEnds`, `OrphansFound`. The prover has neither.
- `InventoryAddsUp` is about what a fold of `record_fill` over a sequence of fills
  computes, an induction over data, with average prices that are whole numbers
  of the instance's `Unit` only. Every other invariant of a run is proved.
- The runs that end in a counterexample (`BulletResync`, `HyperliquidMuxer`).

## 5. Disagreements between the code and what is said of it

Each is the counterexample of one run; `PROJECT.json` quotes the lines.

1. `gap_resynced`: the reconcile signal comes at the start of a gap; a strategy
   that resyncs at once misses what happens in the rest of it.
2. `hl_one_trade`: a replayed Hyperliquid fill becomes a second Trade.
3. `exit_resolves`: an exit sized before the entry was fully counted leaves
   reference-arb in Exiting for ever.
4. `grid_dormant`: `filled_qty` survives into the next order at a level.

Noted while reading, without a run of their own:

- Harness. A run can end with `InputsClosed` while published events are
  unhandled, though `actor.rs:77` says "there's nothing more to handle": the
  check is for feeds that are left (`harness.rs:139`). A fatal handler error can
  be reported as `Signal`, against the test at `testing.rs:417`: the failure and
  the token are polled at different times (`harness.rs:144-150`). When one init
  fails, the inits after it never run though `actor.rs:90` says "called exactly
  once", and their wind-downs do. A failed status bind returns without a
  wind-down.
- Brokers. `broker.rs:61` says of `success = false` that the venue rejected the
  order, where the Bullet broker also uses it for an unknown outcome. Hyperliquid
  counts any response to a cancel as success (`hyperliquid/src/broker.rs:253`), so
  that simple-mm's "a rejected cancel leaves the slot intact" (strategy.rs:225)
  does not come into play there. A Hyperliquid reconnect shorter than the silence
  threshold is never flagged.
- reference-arb. A cancellation that overtakes a partial fill leaves it in Flat
  with a position (strategy.rs:650), where strategy.rs:266 says "Flat should have
  pos≈0"; `FlatUnlessOvertaken` states the condition.
- funding-arb. In `Passive` mode a PostOnly order is priced from the opposite
  touch plus slippage, where config.rs:11 says "at the near touch". The emergency
  flatten closes up to `order_size` of a larger position of others, where
  strategy.rs:302 says it "isn't disturbed". After a flatten that failed the phase
  is Flat, so that `wind_down` only cancels (strategy.rs:403) though a position is
  held.
- simple-mm never takes the reconcile signal.
- avellaneda-stoikov. A failed call does not trigger a reconciliation
  (`let _ = any_failure`, strategy.rs:515), where strategy.rs:487 says "Triggered
  on any batch failure". A slot without an order id is kept whatever is live
  (`None => true`, strategy.rs:534), where strategy.rs:498 says it is "matched by
  `client_id` instead": a phantom whose id never came stays until an amend or a
  cancel of it succeeds.

## 6. Not modelled, and why

- Pricing and volatility of avellaneda-stoikov (`model.rs`, `volatility.rs`):
  floating-point arithmetic, out of TLC's reach. A ladder is any set of rungs,
  and the diff may come to anything the inventory allows.
- Prices of quotes and orders in general, but for the tracker's: what depends on
  them (crossing, drifting, filling) is a free choice.
- REST encoding, rounding to increments, client-id hashing, balances and order
  book queries: data without later state.
- Keys, delegates and configuration: start-up I/O.
- The Binance feed: a source of arbitrary prices; strategies see it stale or not.
- The status server after its listener is bound, `bb-bot` (wiring), and the test
  doubles.
- A crash of the process: nothing is persisted, and a restart is the start of an
  actor at venues where orders of an earlier session rest (`Start` of the
  strategies).

`PROJECT.json` says so per component.

## 7. Plan

1. `AdapterAndActor`: `BulletMuxer` composed with the strategy's view (trades
   and updates as its two queues), so that what the strategies assume of their
   events is what the adapter guarantees.
2. `AvellanedaStoikov` with a phantom whose order id never came: the property
   that a slot does not stay occupied by an order that is gone.
