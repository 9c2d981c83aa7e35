---------------------------- MODULE BulletMuxer -----------------------------
(***************************************************************************)
(* The Bullet adapter's streaming side (src/crates/exchanges/bullet/src/   *)
(* connection.rs, convert.rs): the muxer task that turns the messages of   *)
(* one managed WebSocket into typed channels, the MpscFeed tasks that      *)
(* forward those to the event bus, and the ConnectionHealth flags it       *)
(* shares with the broker.                                                 *)
(*                                                                         *)
(* The venue and the managed WebSocket are external: a socket hands over   *)
(* the order frames in the order the venue produced them, loses what is    *)
(* produced while it is down, announces Reconnecting before it subscribes  *)
(* again (CONTRIBUTING-EXCHANGES.md) and then replays at most the last     *)
(* Window frames ("a reconnect replays only a small recent window").       *)
(* A frame is its number in the venue's history, which for a fill also     *)
(* stands for its sequencer trade_id.                                      *)
(***************************************************************************)
EXTENDS Naturals, Sequences, FiniteSets

CONSTANTS
  MaxFrames,    \* bound: order frames the venue produces
  MaxBooks,     \* bound: market-data messages
  MaxDrops,     \* bound: lost connections
  MaxWire,      \* bound: messages in flight that the venue adds to
  IsFill,       \* the frames of which order_update_to_trade makes a Trade: TradeFill
                \* updates, but for those that do not parse (convert.rs:79-93)
  OrderOf,      \* the order a frame is about
  Window,       \* frames replayed after a reconnect, at most
  Cap,          \* MAX_SEEN_TRADE_IDS
  BookCapacity  \* BOOK_CHANNEL_CAPACITY / MARK_CHANNEL_CAPACITY

Frames == 1..MaxFrames
Streams == {"Trade", "OrderLifecycle", "BookUpdate"}

ASSUME MuxerAssumption ==
  /\ MaxFrames \in Nat /\ MaxBooks \in Nat /\ MaxDrops \in Nat /\ MaxWire \in Nat
  /\ IsFill \subseteq Frames
  /\ DOMAIN OrderOf = Frames
  /\ Window \in Nat /\ Cap \in Nat \ {0} /\ BookCapacity \in Nat \ {0}

VARIABLES
  log,        \* how many order frames the venue has produced
  books,      \* how many market-data messages it has sent
  drops,      \* how often the connection was lost
  conn,       \* the socket: "up", "down" or "gone"
  wire,       \* what the managed WebSocket has not handed to the muxer yet
  mux,        \* program counter of muxer_loop
  current,    \* the frame it is at
  seen,       \* RecentIds: remembered fills, oldest first
  queue,      \* the mpsc channel of each stream
  feed,       \* the MpscFeed task of each stream
  published,  \* history: the frames each feed has put on the bus
  cancelled,  \* the harness's shutdown token
  pending,    \* ConnectionHealth.reconcile_pending
  disconnected, \* ConnectionHealth.disconnected
  read        \* history: the frames the muxer has read

venueVars == <<log, books, drops, conn>>
muxVars == <<mux, current, seen>>
busVars == <<queue, feed, published, cancelled>>
vars == <<venueVars, wire, muxVars, busVars, pending, disconnected, read>>

Event(type, n) == [type |-> type, n |-> n]
Events == [type : {"frame", "book", "reconnecting", "disconnected", "ended"}, n : Frames \cup {0}]
Elems(q) == {q[i] : i \in DOMAIN q}

TypeOK ==
  /\ log \in 0..MaxFrames /\ books \in 0..MaxBooks /\ drops \in 0..MaxDrops
  /\ conn \in {"up", "down", "gone"}
  /\ wire \in Seq(Events)
  /\ mux \in {"recv", "lifecycle", "ended"}
  /\ current \in Frames \cup {0}
  /\ seen \in Seq(Frames) /\ Len(seen) <= Cap
  /\ queue \in [Streams -> Seq(Frames \cup {0})]
  /\ feed \in [Streams -> {"running", "ended"}]
  /\ published \in [Streams -> SUBSET (Frames \cup {0})]
  /\ cancelled \in BOOLEAN /\ pending \in BOOLEAN /\ disconnected \in BOOLEAN
  /\ read \subseteq Frames

Init ==
  /\ log = 0 /\ books = 0 /\ drops = 0 /\ conn = "up" /\ wire = <<>>
  /\ mux = "recv" /\ current = 0 /\ seen = <<>>
  /\ queue = [s \in Streams |-> <<>>]
  /\ feed = [s \in Streams |-> "running"]
  /\ published = [s \in Streams |-> {}]
  /\ cancelled = FALSE /\ pending = FALSE /\ disconnected = FALSE
  /\ read = {}

-----------------------------------------------------------------------------
(* The venue and the managed WebSocket.                                    *)

VenueFrame ==
  /\ log < MaxFrames /\ Len(wire) < MaxWire
  /\ log' = log + 1
  /\ wire' = IF conn = "up" THEN Append(wire, Event("frame", log + 1)) ELSE wire
  /\ UNCHANGED <<books, drops, conn, muxVars, busVars, pending, disconnected, read>>

VenueBook ==
  /\ conn = "up" /\ books < MaxBooks /\ Len(wire) < MaxWire
  /\ books' = books + 1
  /\ wire' = Append(wire, Event("book", 0))
  /\ UNCHANGED <<log, drops, conn, muxVars, busVars, pending, disconnected, read>>

\* Messages still in flight may be lost with the connection.
Drop ==
  /\ conn = "up" /\ drops < MaxDrops
  /\ conn' = "down" /\ drops' = drops + 1
  /\ \E k \in 0..Len(wire) :
       wire' = Append(SubSeq(wire, 1, k), Event("reconnecting", 0))
  /\ UNCHANGED <<log, books, muxVars, busVars, pending, disconnected, read>>

Reconnect ==
  /\ conn = "down"
  /\ conn' = "up"
  /\ \E w \in 0..Window :
       /\ w <= log
       /\ wire' = wire \o [i \in 1..w |-> Event("frame", log - w + i)]
  /\ UNCHANGED <<log, books, drops, muxVars, busVars, pending, disconnected, read>>

GiveUp ==
  /\ conn = "down"
  /\ conn' = "gone"
  /\ \E last \in {"disconnected", "ended"} : wire' = Append(wire, Event(last, 0))
  /\ UNCHANGED <<log, books, drops, muxVars, busVars, pending, disconnected, read>>

-----------------------------------------------------------------------------
(* muxer_loop.                                                             *)

\* What a fill is recognised by.  Faulty variant: the order it belongs to.
FillKeyOrder(n) == OrderOf[n]
FillKey(n) == n

\* RecentIds::insert of an id that is not in the set.  Faulty variant: the
\* newest id is evicted, or none is.
RememberAll(ids, id) == Append(ids, id)
RememberEvictNewest(ids, id) == IF Len(ids) < Cap THEN Append(ids, id) ELSE ids
Remember(ids, id) ==
  LET all == Append(ids, id) IN IF Len(all) > Cap THEN Tail(all) ELSE all

\* A send to a feed that has been cancelled fails, and the error is ignored.
Send(s, n) == IF feed[s] = "running" THEN [queue EXCEPT ![s] = Append(@, n)] ELSE queue

Arrived(type) == mux = "recv" /\ wire # <<>> /\ Head(wire).type = type

\* OrderUpdate, first half: a fill not seen before is sent as a Trade.
RecvFrame ==
  /\ Arrived("frame")
  /\ LET n == Head(wire).n
         new == n \in IsFill /\ FillKey(n) \notin Elems(seen)
     IN  /\ current' = n
         /\ read' = read \cup {n}
         /\ seen' = IF new THEN Remember(seen, FillKey(n)) ELSE seen
         /\ queue' = IF new THEN Send("Trade", n) ELSE queue
  /\ mux' = "lifecycle" /\ wire' = Tail(wire)
  /\ UNCHANGED <<venueVars, feed, published, cancelled, pending, disconnected>>

\* Second half: every frame, replayed or not, is a status transition.
SendLifecycle ==
  /\ mux = "lifecycle"
  /\ queue' = Send("OrderLifecycle", current)
  /\ mux' = "recv" /\ current' = 0
  /\ UNCHANGED <<venueVars, wire, seen, feed, published, cancelled, pending, disconnected, read>>

Room == Len(queue["BookUpdate"]) < BookCapacity

\* try_send never waits.  Faulty variant: send().await, which waits for room.
AwaitsRoom == Room \/ feed["BookUpdate"] = "ended"
Immediate == TRUE

\* A full channel drops the newest message.
RecvBook ==
  /\ Arrived("book") /\ Immediate
  /\ queue' = IF Room THEN Send("BookUpdate", 0) ELSE queue
  /\ wire' = Tail(wire)
  /\ UNCHANGED <<venueVars, muxVars, feed, published, cancelled, pending, disconnected, read>>

RecvReconnecting ==
  /\ Arrived("reconnecting")
  /\ pending' = TRUE
  /\ wire' = Tail(wire)
  /\ UNCHANGED <<venueVars, muxVars, busVars, disconnected, read>>

\* Disconnected, or None from recv.  Faulty variant: the end of the stream is
\* not flagged.
FlagIfTold(type) == disconnected \/ type = "disconnected"
Flag(type) == TRUE

RecvLast ==
  /\ \E type \in {"disconnected", "ended"} : Arrived(type) /\ disconnected' = Flag(type)
  /\ mux' = "ended"
  /\ wire' = Tail(wire)
  /\ UNCHANGED <<venueVars, current, seen, busVars, pending, read>>

-----------------------------------------------------------------------------
(* MpscFeed::run, the shutdown token and the strategy's side of the flags. *)

FeedForwards(s) ==
  /\ feed[s] = "running" /\ ~cancelled
  /\ queue[s] # <<>>
  /\ published' = [published EXCEPT ![s] = @ \cup {Head(queue[s])}]
  /\ queue' = [queue EXCEPT ![s] = Tail(@)]
  /\ UNCHANGED <<venueVars, wire, muxVars, feed, cancelled, pending, disconnected, read>>

\* Cancelled, or the channel is empty and the muxer has dropped its sender.
FeedEnds(s) ==
  /\ feed[s] = "running"
  /\ cancelled \/ (queue[s] = <<>> /\ mux = "ended")
  /\ feed' = [feed EXCEPT ![s] = "ended"]
  /\ queue' = [queue EXCEPT ![s] = <<>>]
  /\ UNCHANGED <<venueVars, wire, muxVars, published, cancelled, pending, disconnected, read>>

Cancel ==
  /\ ~cancelled
  /\ cancelled' = TRUE
  /\ UNCHANGED <<venueVars, wire, muxVars, queue, feed, published, pending, disconnected, read>>

\* take_reconcile_signal, from a strategy.
TakeReconcile ==
  /\ pending
  /\ pending' = FALSE
  /\ UNCHANGED <<venueVars, wire, muxVars, busVars, disconnected, read>>

-----------------------------------------------------------------------------

Venue == VenueFrame \/ VenueBook \/ Drop \/ Reconnect \/ GiveUp
Mux == RecvFrame \/ SendLifecycle \/ RecvBook \/ RecvReconnecting \/ RecvLast
Forward(s) == FeedForwards(s) \/ FeedEnds(s)

Next == Venue \/ Mux \/ (\E s \in Streams : Forward(s)) \/ Cancel \/ TakeReconcile

Spec == Init /\ [][Next]_vars

\* The runtime schedules the muxer and the two order feeds.  The market-data
\* feed is left without fairness: nothing about orders may wait for it.
FairSpec == Spec /\ WF_vars(Mux) /\ \A s \in {"Trade", "OrderLifecycle"} : WF_vars(Forward(s))

-----------------------------------------------------------------------------

\* A fill reaches the bus at most once, whatever reconnects replay and in
\* whatever order they bring late frames in, although RecentIds forgets its
\* oldest ids (connection.rs:189-193).  Late frames of a replay are remembered
\* after newer ones, so this takes Cap >= 2 * Window - 1, not just Window.
OneTradePerFill ==
  LET queued == queue["Trade"]
  IN  /\ \A i, j \in DOMAIN queued : queued[i] = queued[j] => i = j
      /\ Elems(queued) \cap published["Trade"] = {}

\* Deduplication never swallows a fill: each one the muxer has read is on the
\* bus or on its way to it (connection.rs:31-34, "missing a fill ...
\* permanently corrupts position tracking").
EveryFillCounted ==
  feed["Trade"] = "running" =>
    read \cap IsFill \subseteq published["Trade"] \cup Elems(queue["Trade"])

\* A feed of the adapter ends by itself only once the venue is flagged as
\* disconnected and everything it was sent is on the bus: a strategy that is
\* still running can tell a dead venue from a quiet one (broker.rs:42-47).
EndIsFlagged ==
  ~cancelled =>
    /\ \A s \in Streams : feed[s] = "ended" => disconnected
    /\ feed["Trade"] = "ended" => read \cap IsFill \subseteq published["Trade"]
    /\ feed["OrderLifecycle"] = "ended" => read \subseteq published["OrderLifecycle"]

\* A status transition that reached the socket is published, however slow the
\* consumers of market data are: no full channel ever holds up the orders.
TransitionsReachBus ==
  \A n \in Frames :
    (\E i \in DOMAIN wire : wire[i] = Event("frame", n))
      ~> (n \in published["OrderLifecycle"] \/ cancelled \/ conn # "up")
=============================================================================
