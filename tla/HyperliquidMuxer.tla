-------------------------- MODULE HyperliquidMuxer --------------------------
(***************************************************************************)
(* The Hyperliquid adapter's muxer task (src/crates/exchanges/hyperliquid/ *)
(* src/connection.rs): messages of a stream that reconnects on its own are *)
(* turned into Trade and OrderLifecycle events, and a silence longer than  *)
(* HL_WS_QUIET_THRESHOLD stands for the reconnect nobody announces.  The   *)
(* MpscFeed tasks behind the channels are those of BulletMuxer.            *)
(*                                                                         *)
(* The venue is external.  It reports each execution in a UserFills        *)
(* message and the order's new state in an OrderUpdates message; after a   *)
(* reconnect it may replay recent ones (events.rs:42-43).                  *)
(***************************************************************************)
EXTENDS Naturals, Sequences

CONSTANTS
  MaxFills,   \* bound: executions at the venue
  MaxDrops,   \* bound: reconnects
  MaxWire,    \* bound: messages in flight that the venue adds to
  Window      \* executions replayed after a reconnect, at most

Fills == 1..MaxFills

VARIABLES
  fills,      \* executions so far
  drops,      \* reconnects so far
  conn,       \* the SDK's connection: "up", "down" or "gone"
  wire,       \* ws_rx
  silent,     \* more than the threshold has passed since last_msg_at
  mux,        \* "recv" or "ended"
  trades,     \* what was sent on the Trade channel
  updates,    \* what was sent on the OrderLifecycle channel
  pending,    \* ConnectionHealth.reconcile_pending
  disconnected \* ConnectionHealth.disconnected

venueVars == <<fills, drops, conn>>
vars == <<venueVars, wire, silent, mux, trades, updates, pending, disconnected>>

Init ==
  /\ fills = 0 /\ drops = 0 /\ conn = "up" /\ wire = <<>> /\ silent = FALSE
  /\ mux = "recv" /\ trades = <<>> /\ updates = <<>>
  /\ pending = FALSE /\ disconnected = FALSE

Message(kind, n) == [kind |-> kind, n |-> n]

\* The two messages about an execution, in the order the streams bring them.
Reports(n) == {<<Message("fill", n), Message("order", n)>>, <<Message("order", n), Message("fill", n)>>}

Execution ==
  /\ fills < MaxFills /\ Len(wire) < MaxWire
  /\ fills' = fills + 1
  /\ \/ conn = "up" /\ \E r \in Reports(fills') : wire' = wire \o r
     \/ conn # "up" /\ UNCHANGED wire
  /\ UNCHANGED <<drops, conn, silent, mux, trades, updates, pending, disconnected>>

\* Mids, books and asset contexts: they only end a silence here.
MarketData ==
  /\ conn = "up" /\ wire = <<>>
  /\ wire' = <<Message("market", 0)>>
  /\ UNCHANGED <<venueVars, silent, mux, trades, updates, pending, disconnected>>

Drop ==
  /\ conn = "up" /\ drops < MaxDrops
  /\ conn' = "down" /\ drops' = drops + 1
  /\ UNCHANGED <<fills, wire, silent, mux, trades, updates, pending, disconnected>>

Reconnect ==
  /\ conn = "down" /\ conn' = "up"
  /\ \E w \in 0..Window :
       /\ w <= fills
       /\ wire' = wire \o [i \in 1..w |-> Message("fill", fills - w + i)]
  /\ UNCHANGED <<fills, drops, silent, mux, trades, updates, pending, disconnected>>

\* The SDK gives up and drops the sending side of ws_rx.
GiveUp ==
  /\ conn = "down" /\ conn' = "gone"
  /\ UNCHANGED <<fills, drops, wire, silent, mux, trades, updates, pending, disconnected>>

TimePasses ==
  /\ ~silent /\ silent' = TRUE
  /\ UNCHANGED <<venueVars, wire, mux, trades, updates, pending, disconnected>>

-----------------------------------------------------------------------------
(* muxer_loop.                                                             *)

\* timeout(HL_WS_QUIET_THRESHOLD, recv) elapses.
Quiet ==
  /\ mux = "recv" /\ silent /\ wire = <<>> /\ conn # "gone"
  /\ pending' = TRUE /\ silent' = FALSE
  /\ UNCHANGED <<venueVars, wire, mux, trades, updates, disconnected>>

Closed ==
  /\ mux = "recv" /\ wire = <<>> /\ conn = "gone"
  /\ disconnected' = TRUE /\ mux' = "ended"
  /\ UNCHANGED <<venueVars, wire, silent, trades, updates, pending>>

\* A message after a gap flags a reconcile before it is handled.  Nothing
\* looks at the fill's tid.
Receive ==
  /\ mux = "recv" /\ wire # <<>>
  /\ LET m == Head(wire)
     IN  /\ trades' = IF m.kind = "fill" THEN Append(trades, m.n) ELSE trades
         /\ updates' = IF m.kind = "order" THEN Append(updates, m.n) ELSE updates
  /\ pending' = (pending \/ silent) /\ silent' = FALSE
  /\ wire' = Tail(wire)
  /\ UNCHANGED <<venueVars, mux, disconnected>>

TakeReconcile ==
  /\ pending /\ pending' = FALSE
  /\ UNCHANGED <<venueVars, wire, silent, mux, trades, updates, disconnected>>

Next ==
  \/ Execution \/ MarketData \/ Drop \/ Reconnect \/ GiveUp \/ TimePasses
  \/ Quiet \/ Closed \/ Receive \/ TakeReconcile

Spec == Init /\ [][Next]_vars

-----------------------------------------------------------------------------

\* Stated by connection.rs:6 ("Message::UserFills -> Trade (one per
\* execution)") and events.rs:5-7: an execution gives rise to one Trade.
OneTradePerExecution ==
  \A i, j \in DOMAIN trades : trades[i] = trades[j] => i = j
=============================================================================
