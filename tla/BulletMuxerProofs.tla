-------------------------- MODULE BulletMuxerProofs --------------------------
(***************************************************************************)
(* Proofs about BulletMuxer, for any history of the venue, any number of   *)
(* reconnects, any replay window and any capacity of the channels.         *)
(*                                                                         *)
(* Most parts are inductive as soon as each fill that RecentIds remembers  *)
(* is known to be on the bus or on its way.  That RecentIds forgets no     *)
(* fill that can still come back needs more: a bound on how far the frames *)
(* on the wire, read and remembered, are out of order (WireInv, SeenInv)   *)
(* and a pigeonhole argument at the moment an id is forgotten.             *)
(***************************************************************************)
EXTENDS BulletMuxer, Integers, FiniteSetTheorems, SequenceTheorems, TLAPS

\* The venue and the socket leave the adapter's own state alone.
LEMMA VenueFrameLemma ==
  ASSUME Venue
  PROVE  UNCHANGED <<mux, current, seen, queue, feed, published, cancelled, pending, disconnected,
                     read>>
  BY DEF Venue, VenueFrame, VenueBook, Drop, Reconnect, GiveUp, muxVars, busVars

LEMMA MuxFrame ==
  ASSUME Mux
  PROVE  UNCHANGED <<log, books, drops, conn, feed, published, cancelled>>
  BY DEF Mux, RecvFrame, SendLifecycle, RecvBook, RecvReconnecting, RecvLast, venueVars, busVars

LEMMA ForwardFrame ==
  ASSUME NEW s \in Streams, Forward(s)
  PROVE  UNCHANGED <<log, books, drops, conn, wire, mux, current, seen, cancelled, pending,
                     disconnected, read>>
  BY DEF Forward, FeedForwards, FeedEnds, venueVars, muxVars

\* Cancel and TakeReconcile each write one flag.
LEMMA FlagFrame ==
  ASSUME Cancel \/ TakeReconcile
  PROVE  /\ UNCHANGED <<log, books, drops, conn, wire, mux, current, seen, queue, feed, published,
                        disconnected, read>>
         /\ cancelled' \in {cancelled, TRUE} /\ pending' \in {pending, FALSE}
  BY DEF Cancel, TakeReconcile, venueVars, muxVars, busVars

-----------------------------------------------------------------------------
(* Sequences.                                                              *)

LEMMA ElemsAppend ==
  ASSUME NEW S, NEW q \in Seq(S), NEW x \in S
  PROVE  Elems(Append(q, x)) = Elems(q) \cup {x}
<1>1. /\ DOMAIN Append(q, x) = DOMAIN q \cup {Len(q) + 1} /\ Len(q) \in Nat /\ DOMAIN q = 1..Len(q)
      /\ Append(q, x)[Len(q) + 1] = x
      /\ \A i \in DOMAIN q : Append(q, x)[i] = q[i]
  OBVIOUS
<1>2. QED  BY <1>1 DEF Elems

LEMMA ElemsTail ==
  ASSUME NEW S, NEW q \in Seq(S), q # <<>>
  PROVE  Elems(q) = {Head(q)} \cup Elems(Tail(q))
<1>1. /\ Len(q) \in Nat /\ Len(q) >= 1 /\ Head(q) = q[1]
      /\ DOMAIN Tail(q) = 1..(Len(q) - 1)
      /\ \A i \in 1..(Len(q) - 1) : Tail(q)[i] = q[i + 1]
  OBVIOUS
<1>2. ASSUME NEW i \in DOMAIN q PROVE q[i] \in {Head(q)} \cup Elems(Tail(q))
  <2>1. CASE i = 1  BY <1>1, <2>1
  <2>2. CASE i # 1
    <3>1. i - 1 \in 1..(Len(q) - 1) /\ Tail(q)[i - 1] = q[i]
      BY <1>1, <2>2
    <3>2. QED  BY <1>1, <3>1 DEF Elems
  <2>3. QED  BY <2>1, <2>2
<1>3. Head(q) \in Elems(q)
  BY <1>1 DEF Elems
<1>4. Elems(Tail(q)) \subseteq Elems(q)
  BY <1>1 DEF Elems
<1>5. QED  BY <1>2, <1>3, <1>4 DEF Elems

LEMMA ElemsType ==
  ASSUME NEW S, NEW q \in Seq(S)
  PROVE  Elems(q) \subseteq S
  BY DEF Elems

\* The messages of two pieces of the wire, one after the other.
LEMMA Joined ==
  ASSUME NEW p \in Seq(Events), NEW q \in Seq(Events)
  PROVE  /\ p \o q \in Seq(Events) /\ Len(p \o q) = Len(p) + Len(q)
         /\ \A i \in 1..Len(p) : (p \o q)[i] = p[i]
         /\ \A i \in 1..Len(q) : (p \o q)[Len(p) + i] = q[i]
         /\ \A i \in DOMAIN (p \o q) : i \in 1..Len(p) \/ \E k \in 1..Len(q) : i = Len(p) + k
<1>1. /\ Len(p) \in Nat /\ Len(q) \in Nat
      /\ p \o q \in Seq(Events) /\ Len(p \o q) = Len(p) + Len(q)
      /\ \A i \in 1..(Len(p) + Len(q)) :
            (p \o q)[i] = IF i <= Len(p) THEN p[i] ELSE q[i - Len(p)]
  BY ConcatProperties
<1>2. ASSUME NEW i \in 1..Len(q) PROVE (p \o q)[Len(p) + i] = q[i]
  BY <1>1
<1>3. ASSUME NEW i \in DOMAIN (p \o q), i \notin 1..Len(p)
      PROVE  \E k \in 1..Len(q) : i = Len(p) + k
  <2>1. i - Len(p) \in 1..Len(q) /\ i = Len(p) + (i - Len(p))
    BY <1>1, <1>3
  <2>2. QED  BY <2>1
<1>4. \A i \in DOMAIN (p \o q) : i \in 1..Len(p) \/ \E k \in 1..Len(q) : i = Len(p) + k
  BY <1>3
<1>5. ASSUME NEW i \in 1..Len(p) PROVE (p \o q)[i] = p[i]
  BY <1>1
<1>6. QED  BY <1>1, <1>2, <1>4, <1>5, Zenon

-----------------------------------------------------------------------------
(* Types.                                                                  *)

LEMMA EventsType ==
  /\ \A n \in Frames : Event("frame", n) \in Events
  /\ \A t \in {"book", "reconnecting", "disconnected", "ended"} : Event(t, 0) \in Events
  BY DEF Event, Events

\* A frame on the wire is one that the venue has produced.
WireTyped == \A i \in DOMAIN wire : wire[i].type = "frame" => wire[i].n \in 1..log

TypeInv == TypeOK /\ WireTyped

\* What a reconnect appends to the wire.
Replayed(w) == [i \in 1..w |-> Event("frame", log - w + i)]

LEMMA ReplayedType ==
  ASSUME TypeInv, NEW w \in 0..Window, w <= log
  PROVE  /\ Replayed(w) \in Seq(Events) /\ Len(Replayed(w)) = w
         /\ \A i \in 1..w : /\ Replayed(w)[i] = Event("frame", log - w + i)
                            /\ log - w + i \in 1..log
<1>1. log \in 0..MaxFrames /\ w \in Nat /\ MaxFrames \in Nat
  BY MuxerAssumption DEF TypeInv, TypeOK
<1>2. \A i \in 1..w : log - w + i \in 1..log /\ log - w + i \in Frames
  BY <1>1 DEF Frames
<1>3. QED  BY <1>1, <1>2, EventsType DEF Replayed

LEMMA TypeVenueStep ==
  ASSUME TypeInv, Venue
  PROVE  TypeInv'
<1> USE MuxerAssumption, EventsType DEF TypeInv, TypeOK, WireTyped
<1>0. wire \in Seq(Events) /\ log \in Nat
  OBVIOUS
<1>1. /\ log' \in 0..MaxFrames /\ books' \in 0..MaxBooks /\ drops' \in 0..MaxDrops
      /\ conn' \in {"up", "down", "gone"} /\ log' >= log
  BY SMTT(30) DEF Venue, VenueFrame, VenueBook, Drop, Reconnect, GiveUp
<1>2. ASSUME NEW e \in Events, e.type = "frame" => e.n \in 1..log', wire' = Append(wire, e)
      PROVE  wire' \in Seq(Events) /\ WireTyped'
  BY <1>0, <1>1, <1>2, SMTT(30)
<1>3. wire' \in Seq(Events) /\ WireTyped'
  <2>1. CASE VenueFrame
    <3>1. CASE wire' = wire  BY <1>0, <1>1, <3>1, SMTT(30)
    <3>2. CASE wire' = Append(wire, Event("frame", log + 1))
      <4>1. Event("frame", log + 1) \in Events /\ log' = log + 1
        BY <2>1 DEF VenueFrame, Frames
      <4>2. QED  BY <1>0, <1>2, <3>2, <4>1, SMTT(30) DEF Event
    <3>3. QED  BY <2>1, <3>1, <3>2 DEF VenueFrame
  <2>2. CASE VenueBook
    BY <1>2, <2>2 DEF VenueBook, Event
  <2>3. CASE Drop
    <3>1. PICK k \in 0..Len(wire) : wire' = Append(SubSeq(wire, 1, k), Event("reconnecting", 0))
      BY <2>3 DEF Drop
    <3>2. /\ SubSeq(wire, 1, k) \in Seq(Events) /\ Len(SubSeq(wire, 1, k)) = k
          /\ \A i \in 1..k : SubSeq(wire, 1, k)[i] = wire[i] /\ i \in DOMAIN wire
      BY <1>0
    <3> DEFINE cut == SubSeq(wire, 1, k)
    <3>3. Event("reconnecting", 0) \in Events /\ Event("reconnecting", 0).type # "frame"
      BY DEF Event
    <3>4. \A i \in DOMAIN cut : cut[i].type = "frame" => cut[i].n \in 1..log'
      BY <1>1, <3>2, SMTT(30)
    <3> HIDE DEF cut
    <3>5. cut \in Seq(Events) /\ wire' = Append(cut, Event("reconnecting", 0))
      BY <3>1, <3>2 DEF cut
    <3>6. QED  BY <3>3, <3>4, <3>5
  <2>4. CASE Reconnect
    <3>1. PICK w \in 0..Window : w <= log /\ wire' = wire \o Replayed(w)
      BY <2>4 DEF Reconnect, Replayed
    <3>2. /\ Replayed(w) \in Seq(Events) /\ Len(Replayed(w)) = w
          /\ \A i \in 1..w : Replayed(w)[i] = Event("frame", log - w + i) /\ log - w + i \in 1..log
      BY <3>1, ReplayedType
    <3>3. ASSUME NEW i \in DOMAIN wire', wire'[i].type = "frame" PROVE wire'[i].n \in 1..log'
      <4>1. CASE i \in 1..Len(wire)
        <5>1. wire'[i] = wire[i]
          BY <1>0, <3>1, <3>2, <4>1, Joined
        <5>2. QED  BY <1>0, <1>1, <3>3, <4>1, <5>1
      <4>2. ASSUME NEW k \in 1..w, i = Len(wire) + k PROVE wire'[i].n \in 1..log'
        <5>1. wire'[i] = Replayed(w)[k]
          BY <1>0, <3>1, <3>2, <4>2, Joined, SMTT(30)
        <5>2. QED  BY <1>1, <3>2, <5>1, SMTT(30) DEF Event
      <4>3. \A j \in DOMAIN (wire \o Replayed(w)) :
                j \in 1..Len(wire) \/ \E k \in 1..Len(Replayed(w)) : j = Len(wire) + k
        BY <1>0, <3>2, Joined
      <4>4. QED  BY <3>1, <3>2, <3>3, <4>1, <4>2, <4>3
    <3>4. wire' \in Seq(Events)
      BY <1>0, <3>1, <3>2, Joined
    <3>5. QED  BY <3>3, <3>4
  <2>5. CASE GiveUp
    BY <1>2, <2>5 DEF GiveUp, Event
  <2>6. QED  BY <2>1, <2>2, <2>3, <2>4, <2>5 DEF Venue
<1>4. QED
  BY <1>1, <1>3, VenueFrameLemma

LEMMA RememberType ==
  ASSUME MuxerAssumption, NEW ids \in Seq(Frames), Len(ids) <= Cap, NEW n \in Frames
  PROVE  /\ Remember(ids, n) \in Seq(Frames) /\ Len(Remember(ids, n)) <= Cap
         /\ Elems(Remember(ids, n)) \subseteq Elems(ids) \cup {n}
<1> DEFINE all == Append(ids, n)
<1>1. all \in Seq(Frames) /\ all # <<>> /\ Len(all) = Len(ids) + 1 /\ Elems(all) = Elems(ids) \cup {n}
  BY ElemsAppend
<1>2. Tail(all) \in Seq(Frames) /\ Len(Tail(all)) = Len(ids) /\ Elems(Tail(all)) \subseteq Elems(all)
  <2> HIDE DEF all
  <2>1. Tail(all) \in Seq(Frames) /\ Len(Tail(all)) = Len(all) - 1 /\ Len(ids) \in Nat
    BY <1>1
  <2>2. Elems(all) = {Head(all)} \cup Elems(Tail(all))
    BY <1>1, ElemsTail
  <2>3. QED  BY <1>1, <2>1, <2>2
<1>3. Cap \in Nat /\ Len(ids) \in Nat
  BY DEF MuxerAssumption
<1> HIDE DEF all
<1>4. QED  BY <1>1, <1>2, <1>3 DEF Remember, all

LEMMA SendType ==
  ASSUME TypeInv, NEW s \in Streams, NEW n \in Frames \cup {0}
  PROVE  Send(s, n) \in [Streams -> Seq(Frames \cup {0})]
  BY DEF TypeInv, TypeOK, Send

\* The message at the head of the wire.
LEMMA HeadType ==
  ASSUME TypeInv, NEW t, Arrived(t)
  PROVE  /\ Head(wire) \in Events /\ Head(wire) = wire[1] /\ Tail(wire) \in Seq(Events)
         /\ t = "frame" => Head(wire).n \in 1..log /\ Head(wire).n \in Frames
         /\ DOMAIN Tail(wire) = 1..(Len(wire) - 1) /\ Len(wire) \in Nat \ {0}
         /\ \A i \in DOMAIN Tail(wire) : Tail(wire)[i] = wire[i + 1] /\ i + 1 \in DOMAIN wire
<1>1. wire \in Seq(Events) /\ wire # <<>>
  BY DEF Arrived, TypeInv, TypeOK
<1>2. t = "frame" => Head(wire).n \in 1..log
  BY <1>1 DEF Arrived, TypeInv, WireTyped
<1>3. 1..log \subseteq Frames
  BY MuxerAssumption DEF TypeInv, TypeOK, Frames
<1>4. QED  BY <1>1, <1>2, <1>3

LEMMA TypeMuxStep ==
  ASSUME TypeInv, Mux
  PROVE  TypeInv'
<1> USE MuxerAssumption, MuxFrame DEF TypeInv, TypeOK, WireTyped, Streams
<1>1. ASSUME NEW t, Arrived(t), wire' = Tail(wire)
      PROVE  wire' \in Seq(Events) /\ WireTyped'
  BY <1>1, HeadType
<1>2. CASE RecvFrame
  <2> DEFINE n == Head(wire).n
  <2>1. n \in Frames
    BY <1>2, HeadType DEF RecvFrame
  <2>2. seen' \in Seq(Frames) /\ Len(seen') <= Cap
    BY <1>2, <2>1, RememberType DEF RecvFrame, FillKey
  <2>3. queue' \in [Streams -> Seq(Frames \cup {0})]
    BY <1>2, <2>1, SendType DEF RecvFrame
  <2>4. current' \in Frames \cup {0} /\ read' \subseteq Frames /\ mux' = "lifecycle"
    BY <1>2, <2>1 DEF RecvFrame
  <2>5. wire' \in Seq(Events) /\ WireTyped'
    BY <1>1, <1>2 DEF RecvFrame
  <2>6. UNCHANGED <<pending, disconnected>>
    BY <1>2 DEF RecvFrame
  <2>7. QED  BY <2>2, <2>3, <2>4, <2>5, <2>6
<1>3. CASE SendLifecycle
  <2>1. queue' \in [Streams -> Seq(Frames \cup {0})]
    BY <1>3, SendType DEF SendLifecycle
  <2>2. QED  BY <1>3, <2>1 DEF SendLifecycle
<1>4. CASE RecvBook
  <2>1. queue' \in [Streams -> Seq(Frames \cup {0})]
    BY <1>4, SendType DEF RecvBook
  <2>2. wire' \in Seq(Events) /\ WireTyped'
    BY <1>1, <1>4 DEF RecvBook
  <2>3. QED  BY <1>4, <2>1, <2>2 DEF RecvBook, muxVars
<1>5. CASE RecvReconnecting
  <2>1. wire' \in Seq(Events) /\ WireTyped'
    BY <1>1, <1>5 DEF RecvReconnecting
  <2>2. QED  BY <1>5, <2>1 DEF RecvReconnecting, muxVars, busVars
<1>6. CASE RecvLast
  <2>1. wire' \in Seq(Events) /\ WireTyped'
    BY <1>1, <1>6 DEF RecvLast
  <2>2. disconnected' = TRUE /\ mux' = "ended" /\ UNCHANGED <<current, seen, queue, pending, read>>
    BY <1>6 DEF RecvLast, Flag, busVars
  <2>3. QED  BY <2>1, <2>2
<1>7. QED  BY <1>2, <1>3, <1>4, <1>5, <1>6 DEF Mux

LEMMA TypeStep == TypeInv /\ [Next]_vars => TypeInv'
<1> SUFFICES ASSUME TypeInv, [Next]_vars PROVE TypeInv'
  OBVIOUS
<1>1. CASE Venue  BY <1>1, TypeVenueStep
<1>2. CASE Mux    BY <1>2, TypeMuxStep
<1>3. ASSUME NEW s \in Streams, Forward(s) PROVE TypeInv'
  <2>1. /\ queue' \in [Streams -> Seq(Frames \cup {0})] /\ feed' \in [Streams -> {"running", "ended"}]
        /\ published' \in [Streams -> SUBSET (Frames \cup {0})]
    <3> USE DEF TypeInv, TypeOK
    <3>1. CASE FeedForwards(s)
      <4>1. Head(queue[s]) \in Frames \cup {0} /\ Tail(queue[s]) \in Seq(Frames \cup {0})
        BY <3>1 DEF FeedForwards
      <4>2. QED  BY <3>1, <4>1 DEF FeedForwards
    <3>2. CASE FeedEnds(s)      BY <3>2 DEF FeedEnds
    <3>3. QED  BY <1>3, <3>1, <3>2 DEF Forward
  <2>2. QED  BY <1>3, <2>1, ForwardFrame DEF TypeInv, TypeOK, WireTyped
<1>4. CASE Cancel \/ TakeReconcile
  BY <1>4, FlagFrame DEF TypeInv, TypeOK, WireTyped
<1>5. CASE UNCHANGED vars
  BY <1>5 DEF vars, venueVars, muxVars, busVars, TypeInv, TypeOK, WireTyped
<1>6. QED  BY <1>1, <1>2, <1>3, <1>4, <1>5 DEF Next

LEMMA TypeInvHolds == Spec => []TypeInv
<1>1. Init => TypeInv
  <2> SUFFICES ASSUME Init PROVE TypeInv
    OBVIOUS
  <2>1. \A S : <<>> \in Seq(S) /\ Len(<<>>) = 0 /\ DOMAIN <<>> = {}
    OBVIOUS
  <2>2. 0 \in 0..MaxFrames /\ 0 \in 0..MaxBooks /\ 0 \in 0..MaxDrops /\ 0 <= Cap
    BY MuxerAssumption
  <2>3. /\ queue \in [Streams -> Seq(Frames \cup {0})]
        /\ published \in [Streams -> SUBSET (Frames \cup {0})]
        /\ feed \in [Streams -> {"running", "ended"}]
    BY <2>1 DEF Init
  <2>4. TypeOK
    BY <2>1, <2>2, <2>3 DEF Init, TypeOK
  <2>5. WireTyped
    BY <2>1 DEF Init, WireTyped
  <2>6. QED  BY <2>4, <2>5 DEF TypeInv
<1>2. QED
  BY <1>1, TypeStep, PTL DEF Spec

\* Every variable keeps its type; RecentIds never outgrows its capacity.
THEOREM TypeCorrect == Spec => []TypeOK
<1>1. TypeInv => TypeOK
  BY DEF TypeInv
<1>2. QED
  BY <1>1, TypeInvHolds, PTL

-----------------------------------------------------------------------------
(* Deduplication swallows no fill.                                         *)

Trades == published["Trade"] \cup Elems(queue["Trade"])

\* What is on its way to the bus has been read, and a fill that has been read,
\* or is remembered, is on its way.
TradeInv ==
  /\ Trades \subseteq read
  /\ feed["Trade"] = "running" => Elems(seen) \cup (read \cap IsFill) \subseteq Trades

\* The two ways in which a frame is read.
LEMMA FrameRead ==
  ASSUME TypeInv, RecvFrame
  PROVE  \E n \in Frames :
           /\ n = wire[1].n /\ wire[1].type = "frame" /\ read' = read \cup {n}
           /\ \/ n \in IsFill /\ n \notin Elems(seen) /\ seen' = Remember(seen, n) /\ queue' = Send("Trade", n)
              \/ (n \in IsFill => n \in Elems(seen)) /\ UNCHANGED <<seen, queue>>
<1>1. Head(wire).n \in Frames /\ Head(wire) = wire[1]
  BY HeadType DEF RecvFrame
<1>2. wire[1].type = "frame"
  BY <1>1 DEF RecvFrame, Arrived
<1>3. QED  BY <1>1, <1>2 DEF RecvFrame, FillKey

LEMMA SendTrade ==
  ASSUME TypeInv, NEW n \in Frames
  PROVE  IF feed["Trade"] = "running"
         THEN /\ Send("Trade", n)["Trade"] = Append(queue["Trade"], n)
              /\ Elems(Send("Trade", n)["Trade"]) = Elems(queue["Trade"]) \cup {n}
         ELSE Send("Trade", n) = queue
<1>1. queue["Trade"] \in Seq(Frames \cup {0}) /\ "Trade" \in Streams /\ queue \in [Streams -> Seq(Frames \cup {0})]
  BY DEF TypeInv, TypeOK, Streams
<1>2. Elems(Append(queue["Trade"], n)) = Elems(queue["Trade"]) \cup {n}
  BY <1>1, ElemsAppend
<1>3. QED  BY <1>1, <1>2 DEF Send

\* Steps of the muxer other than RecvFrame leave trades alone.
LEMMA OtherMuxSteps ==
  ASSUME TypeInv, Mux, ~RecvFrame
  PROVE  UNCHANGED <<seen, read, queue["Trade"]>>
<1> USE DEF TypeInv, TypeOK, Streams
<1>1. CASE SendLifecycle    BY <1>1 DEF SendLifecycle, Send
<1>2. CASE RecvBook         BY <1>2 DEF RecvBook, Send, muxVars
<1>3. CASE RecvReconnecting BY <1>3 DEF RecvReconnecting, muxVars, busVars
<1>4. CASE RecvLast         BY <1>4 DEF RecvLast, busVars
<1>5. QED  BY <1>1, <1>2, <1>3, <1>4 DEF Mux

\* What the feed of the trades does to them.
LEMMA TradeFeedStep ==
  ASSUME TypeInv, NEW s \in Streams, Forward(s)
  PROVE  \/ UNCHANGED <<published["Trade"], queue["Trade"], feed["Trade"]>>
         \/ /\ feed' = feed /\ queue["Trade"] # <<>> /\ queue'["Trade"] = Tail(queue["Trade"])
            /\ published'["Trade"] = published["Trade"] \cup {Head(queue["Trade"])}
         \/ feed'["Trade"] = "ended" /\ queue'["Trade"] = <<>> /\ published' = published
  BY DEF Forward, FeedForwards, FeedEnds, TypeInv, TypeOK, Streams

LEMMA TradeStep == TypeInv /\ TradeInv /\ [Next]_vars => TradeInv'
<1> SUFFICES ASSUME TypeInv, TradeInv, [Next]_vars PROVE TradeInv'
  OBVIOUS
<1>1. CASE RecvFrame
  <2>1. PICK n \in Frames :
          /\ read' = read \cup {n}
          /\ \/ n \in IsFill /\ n \notin Elems(seen) /\ seen' = Remember(seen, n) /\ queue' = Send("Trade", n)
             \/ (n \in IsFill => n \in Elems(seen)) /\ UNCHANGED <<seen, queue>>
    BY <1>1, FrameRead
  <2>2. UNCHANGED <<feed, published>>
    BY <1>1, MuxFrame DEF Mux
  <2>3. CASE seen' = Remember(seen, n) /\ queue' = Send("Trade", n)
    <3>1. Elems(seen') \subseteq Elems(seen) \cup {n}
      BY <2>3, RememberType, MuxerAssumption DEF TypeInv, TypeOK
    <3>2. CASE feed["Trade"] = "running"
      <4>1. Elems(queue'["Trade"]) = Elems(queue["Trade"]) \cup {n}
        BY <2>3, <3>2, SendTrade
      <4>2. Trades' = Trades \cup {n}
        BY <2>2, <4>1 DEF Trades
      <4>3. QED  BY <2>1, <2>2, <3>1, <4>2 DEF TradeInv
    <3>3. CASE feed["Trade"] # "running"
      <4>1. Trades' = Trades
        BY <2>2, <2>3, <3>3, SendTrade DEF Trades
      <4>2. QED  BY <2>1, <2>2, <3>3, <4>1 DEF TradeInv
    <3>4. QED  BY <3>2, <3>3
  <2>4. CASE (n \in IsFill => n \in Elems(seen)) /\ UNCHANGED <<seen, queue>>
    <3>1. Trades' = Trades
      BY <2>2, <2>4 DEF Trades
    <3>2. QED  BY <2>1, <2>2, <2>4, <3>1 DEF TradeInv
  <2>5. QED  BY <2>1, <2>3, <2>4
<1>2. ASSUME NEW s \in Streams, Forward(s) PROVE TradeInv'
  <2>1. CASE UNCHANGED <<published["Trade"], queue["Trade"], feed["Trade"]>>
    BY <1>2, <2>1, ForwardFrame DEF TradeInv, Trades
  <2>2. CASE /\ feed' = feed /\ queue["Trade"] # <<>> /\ queue'["Trade"] = Tail(queue["Trade"])
             /\ published'["Trade"] = published["Trade"] \cup {Head(queue["Trade"])}
    <3>1. queue["Trade"] \in Seq(Frames \cup {0})
      BY DEF TypeInv, TypeOK, Streams
    <3>2. Elems(queue["Trade"]) = {Head(queue["Trade"])} \cup Elems(queue'["Trade"])
      BY <2>2, <3>1, ElemsTail
    <3>3. Trades' = Trades
      BY <2>2, <3>2 DEF Trades
    <3>4. QED  BY <1>2, <2>2, <3>3, ForwardFrame DEF TradeInv
  <2>3. CASE feed'["Trade"] = "ended" /\ queue'["Trade"] = <<>> /\ published' = published
    <3>1. Trades' \subseteq Trades
      BY <2>3 DEF Trades, Elems
    <3>2. QED  BY <1>2, <2>3, <3>1, ForwardFrame DEF TradeInv
  <2>4. QED  BY <1>2, <2>1, <2>2, <2>3, TradeFeedStep
<1>3. CASE UNCHANGED <<seen, read, queue["Trade"], published, feed>>
  BY <1>3 DEF TradeInv, Trades
<1>4. QED
  BY <1>1, <1>2, <1>3, OtherMuxSteps, MuxFrame, VenueFrameLemma, FlagFrame
     DEF Next, vars, muxVars, busVars

LEMMA TradeInvHolds == Spec => []TradeInv
<1>1. Init => TradeInv
  BY DEF Init, TradeInv, Trades, Elems, Streams
<1>2. QED
  BY <1>1, TradeStep, TypeInvHolds, PTL DEF Spec

\* Every fill the muxer has read is on the bus or on its way to it, whatever
\* RecentIds remembers or forgets.
THEOREM NoFillSwallowed == Spec => []EveryFillCounted
<1>1. TradeInv => EveryFillCounted
  BY DEF TradeInv, Trades, EveryFillCounted
<1>2. QED
  BY <1>1, TradeInvHolds, PTL

-----------------------------------------------------------------------------
(* The end of the stream.                                                  *)

\* The frames whose status transition is on the bus or on its way to it, the
\* one that the muxer is busy with among them.
Moves ==
  published["OrderLifecycle"] \cup Elems(queue["OrderLifecycle"])
    \cup (IF mux = "lifecycle" THEN {current} ELSE {})

MovesInv == feed["OrderLifecycle"] = "running" => read \subseteq Moves

LEMMA SendMove ==
  ASSUME TypeInv, SendLifecycle, feed["OrderLifecycle"] = "running"
  PROVE  Elems(queue'["OrderLifecycle"]) = Elems(queue["OrderLifecycle"]) \cup {current}
<1>1. /\ queue \in [Streams -> Seq(Frames \cup {0})] /\ "OrderLifecycle" \in Streams
      /\ current \in Frames \cup {0}
  BY DEF TypeInv, TypeOK, Streams
<1>2. queue'["OrderLifecycle"] = Append(queue["OrderLifecycle"], current)
  BY <1>1 DEF SendLifecycle, Send
<1>3. QED  BY <1>1, <1>2, ElemsAppend

\* Steps of the muxer that leave the transitions alone.
LEMMA MoveLeft ==
  ASSUME TypeInv, RecvBook \/ RecvReconnecting \/ RecvLast
  PROVE  /\ mux = "recv" /\ mux' # "lifecycle"
         /\ UNCHANGED <<read, feed, published, queue["OrderLifecycle"]>>
<1> USE DEF TypeInv, TypeOK, Streams, Arrived
<1>1. CASE RecvBook         BY <1>1 DEF RecvBook, Send, muxVars
<1>2. CASE RecvReconnecting BY <1>2 DEF RecvReconnecting, muxVars, busVars
<1>3. CASE RecvLast         BY <1>3 DEF RecvLast, busVars
<1>4. QED  BY <1>1, <1>2, <1>3

\* What the feed of the transitions does to them.
LEMMA MoveFeedStep ==
  ASSUME TypeInv, NEW s \in Streams, Forward(s)
  PROVE  \/ UNCHANGED <<published["OrderLifecycle"], queue["OrderLifecycle"], feed["OrderLifecycle"]>>
         \/ /\ feed' = feed /\ queue["OrderLifecycle"] # <<>>
            /\ queue'["OrderLifecycle"] = Tail(queue["OrderLifecycle"])
            /\ published'["OrderLifecycle"] =
                 published["OrderLifecycle"] \cup {Head(queue["OrderLifecycle"])}
         \/ feed'["OrderLifecycle"] = "ended"
  BY DEF Forward, FeedForwards, FeedEnds, TypeInv, TypeOK, Streams

LEMMA MovesStep == TypeInv /\ MovesInv /\ [Next]_vars => MovesInv'
<1> SUFFICES ASSUME TypeInv, MovesInv, [Next]_vars, feed'["OrderLifecycle"] = "running"
             PROVE  read' \subseteq Moves'
  BY DEF MovesInv
<1>1. CASE RecvFrame
  <2>1. PICK n \in Frames : read' = read \cup {n} /\ current' = n /\ n = Head(wire).n
    BY <1>1, HeadType DEF RecvFrame
  <2>2. UNCHANGED <<feed, published, queue["OrderLifecycle"]>> /\ mux = "recv" /\ mux' = "lifecycle"
    BY <1>1 DEF RecvFrame, Arrived, Send, TypeInv, TypeOK, Streams
  <2>3. QED  BY <2>1, <2>2 DEF MovesInv, Moves
<1>2. CASE SendLifecycle
  <2>1. UNCHANGED <<feed, published, read>> /\ mux = "lifecycle" /\ mux' = "recv"
    BY <1>2 DEF SendLifecycle
  <2>2. Elems(queue'["OrderLifecycle"]) = Elems(queue["OrderLifecycle"]) \cup {current}
    BY <1>2, <2>1, SendMove
  <2>3. QED  BY <2>1, <2>2 DEF MovesInv, Moves
<1>3. CASE RecvBook \/ RecvReconnecting \/ RecvLast
  BY <1>3, MoveLeft DEF MovesInv, Moves
<1>4. ASSUME NEW s \in Streams, Forward(s) PROVE read' \subseteq Moves'
  <2>1. UNCHANGED <<mux, current, read>>
    BY <1>4, ForwardFrame
  <2>2. CASE UNCHANGED <<published["OrderLifecycle"], queue["OrderLifecycle"], feed["OrderLifecycle"]>>
    BY <2>1, <2>2 DEF MovesInv, Moves
  <2>3. CASE /\ feed' = feed /\ queue["OrderLifecycle"] # <<>>
             /\ queue'["OrderLifecycle"] = Tail(queue["OrderLifecycle"])
             /\ published'["OrderLifecycle"] =
                  published["OrderLifecycle"] \cup {Head(queue["OrderLifecycle"])}
    <3>1. queue["OrderLifecycle"] \in Seq(Frames \cup {0})
      BY DEF TypeInv, TypeOK, Streams
    <3>2. Elems(queue["OrderLifecycle"]) =
            {Head(queue["OrderLifecycle"])} \cup Elems(queue'["OrderLifecycle"])
      BY <2>3, <3>1, ElemsTail
    <3>3. QED  BY <2>1, <2>3, <3>2 DEF MovesInv, Moves
  <2>4. QED  BY <1>4, <2>2, <2>3, MoveFeedStep
<1>5. CASE UNCHANGED <<mux, current, read, queue, published, feed>>
  BY <1>5 DEF MovesInv, Moves
<1>6. QED
  BY <1>1, <1>2, <1>3, <1>4, <1>5, VenueFrameLemma, FlagFrame DEF Next, Mux, vars, muxVars, busVars

\* The muxer has flagged the venue before it drops its senders, a feed ends by
\* itself only then, and what was read is published by then.
EndInv ==
  /\ mux = "ended" => disconnected
  /\ ~cancelled =>
       /\ \A s \in Streams : feed[s] = "ended" => mux = "ended"
       /\ feed["Trade"] = "ended" => read \cap IsFill \subseteq published["Trade"]
       /\ feed["OrderLifecycle"] = "ended" => read \subseteq published["OrderLifecycle"]

\* A muxer that has ended reads nothing more.
LEMMA MuxEnds ==
  ASSUME Mux, TypeInv
  PROVE  /\ mux # "ended" /\ UNCHANGED <<feed, published, cancelled>>
         /\ \/ mux' = "ended" /\ disconnected'
            \/ mux' # "ended" /\ disconnected' = disconnected
<1> USE DEF TypeInv, TypeOK, Arrived
<1>1. CASE RecvFrame        BY <1>1 DEF RecvFrame
<1>2. CASE SendLifecycle    BY <1>2 DEF SendLifecycle
<1>3. CASE RecvBook         BY <1>3 DEF RecvBook, muxVars
<1>4. CASE RecvReconnecting BY <1>4 DEF RecvReconnecting, muxVars, busVars
<1>5. CASE RecvLast         BY <1>5 DEF RecvLast, Flag, busVars
<1>6. QED  BY <1>1, <1>2, <1>3, <1>4, <1>5 DEF Mux

\* A feed that is not cancelled ends with nothing left to publish.
LEMMA FeedEnded ==
  ASSUME TypeInv, TradeInv, MovesInv, NEW s \in Streams, FeedEnds(s), ~cancelled
  PROVE  /\ mux = "ended" /\ feed' = [feed EXCEPT ![s] = "ended"] /\ published' = published
         /\ s = "Trade" => read \cap IsFill \subseteq published["Trade"]
         /\ s = "OrderLifecycle" => read \subseteq published["OrderLifecycle"]
<1>1. /\ mux = "ended" /\ queue[s] = <<>> /\ feed[s] = "running" /\ published' = published
      /\ feed' = [feed EXCEPT ![s] = "ended"]
  BY DEF FeedEnds
<1>2. Elems(queue[s]) = {}
  BY <1>1 DEF Elems
<1>3. QED  BY <1>1, <1>2 DEF TradeInv, Trades, MovesInv, Moves

\* No feed of the adapter ends by itself before the venue is flagged and what the
\* muxer has read is on the bus.
THEOREM EndFlagged == Spec => []EndIsFlagged
<1>1. Init => EndInv /\ MovesInv
  BY DEF Init, EndInv, MovesInv, Streams
<1>2. TypeInv /\ TradeInv /\ MovesInv /\ EndInv /\ [Next]_vars => EndInv'
  <2> SUFFICES ASSUME TypeInv, TradeInv, MovesInv, EndInv, [Next]_vars PROVE EndInv'
    OBVIOUS
  <2> USE DEF EndInv
  <2>1. CASE Mux
    <3>1. ~cancelled => \A s \in Streams : feed[s] # "ended"
      BY <2>1, MuxEnds
    <3>2. QED  BY <2>1, <3>1, MuxEnds DEF Streams
  <2>2. ASSUME NEW s \in Streams, Forward(s) PROVE EndInv'
    <3>0. UNCHANGED <<mux, disconnected, cancelled, read>>
      BY <2>2, ForwardFrame
    <3>1. CASE FeedForwards(s)
      <4>1. /\ feed' = feed /\ published["Trade"] \subseteq published'["Trade"]
            /\ published["OrderLifecycle"] \subseteq published'["OrderLifecycle"]
        BY <3>1 DEF FeedForwards, TypeInv, TypeOK, Streams
      <4>2. QED  BY <3>0, <4>1
    <3>2. CASE FeedEnds(s) /\ ~cancelled
      <4>1. \A z \in Streams : z # s => feed'[z] = feed[z]
        BY <3>2, FeedEnded DEF TypeInv, TypeOK
      <4>2. QED  BY <3>0, <3>2, <4>1, FeedEnded DEF Streams
    <3>3. CASE cancelled
      BY <3>0, <3>3
    <3>4. QED  BY <2>2, <3>1, <3>2, <3>3 DEF Forward
  <2>3. CASE UNCHANGED <<mux, disconnected, feed, published, read>> /\ (cancelled' = cancelled \/ cancelled')
    BY <2>3
  <2>4. QED
    BY <2>1, <2>2, <2>3, VenueFrameLemma, FlagFrame DEF Next, vars, muxVars, busVars
<1>3. EndInv => EndIsFlagged
  BY DEF EndInv, EndIsFlagged
<1>4. QED
  BY <1>1, <1>2, <1>3, TypeInvHolds, TradeInvHolds, MovesStep, PTL DEF Spec

-----------------------------------------------------------------------------
(* Nothing is traded twice.                                                *)

\* The frames on the wire and what has been read are out of order by less than
\* a window: a frame comes after none that is Window or more ahead of it.
WireInv ==
  /\ read \subseteq 1..log
  /\ \A j \in DOMAIN wire : wire[j].type = "frame" =>
       /\ \A m \in read : m < wire[j].n + Window
       /\ \A i \in DOMAIN wire :
            i < j /\ wire[i].type = "frame" => wire[i].n < wire[j].n + Window

\* The venue keeps an initial part of the wire and adds frames that are all
\* less than a window behind.
LEMMA WireExtended ==
  ASSUME TypeInv, WireInv, TypeInv', read' = read, log' >= log,
         NEW l \in Nat, l <= Len(wire), \A i \in 1..l : wire'[i] = wire[i],
         \A j \in DOMAIN wire' : j > l /\ wire'[j].type = "frame" =>
           /\ \A m \in 1..log : m < wire'[j].n + Window
           /\ \A i \in DOMAIN wire' :
                l < i /\ i < j /\ wire'[i].type = "frame" => wire'[i].n < wire'[j].n + Window
  PROVE  WireInv'
<1>1. /\ wire \in Seq(Events) /\ wire' \in Seq(Events) /\ log \in Nat /\ log' \in Nat
      /\ \A i \in DOMAIN wire : wire[i].type = "frame" => wire[i].n \in 1..log
  BY DEF TypeInv, TypeOK, WireTyped
<1>2. read' \subseteq 1..log'
  BY <1>1 DEF WireInv
<1>3. \A i \in 1..l : i \in DOMAIN wire
  BY <1>1
<1>4. ASSUME NEW j \in DOMAIN wire', wire'[j].type = "frame"
      PROVE  \A m \in read' : m < wire'[j].n + Window
  <2>1. CASE j <= l
    <3>1. j \in DOMAIN wire /\ wire'[j] = wire[j]
      BY <1>1, <1>3, <2>1
    <3>2. QED  BY <1>4, <3>1 DEF WireInv
  <2>2. CASE j > l
    BY <1>4, <2>2 DEF WireInv
  <2>3. QED  BY <1>1, <2>1, <2>2
<1>5. ASSUME NEW j \in DOMAIN wire', wire'[j].type = "frame",
             NEW i \in DOMAIN wire', i < j, wire'[i].type = "frame"
      PROVE  wire'[i].n < wire'[j].n + Window
  <2>1. CASE j <= l
    <3>1. i \in DOMAIN wire /\ j \in DOMAIN wire /\ wire'[i] = wire[i] /\ wire'[j] = wire[j]
      BY <1>1, <1>3, <1>5, <2>1
    <3>2. QED  BY <1>5, <3>1 DEF WireInv
  <2>2. CASE j > l /\ i <= l
    <3>1. i \in DOMAIN wire /\ wire'[i] = wire[i]
      BY <1>1, <1>3, <2>2
    <3>2. wire'[i].n \in 1..log
      BY <1>1, <1>5, <3>1
    <3>3. QED  BY <1>5, <2>2, <3>2
  <2>3. CASE j > l /\ i > l
    BY <1>5, <2>3
  <2>4. QED  BY <1>1, <2>1, <2>2, <2>3
<1>6. QED  BY <1>2, <1>4, <1>5 DEF WireInv

LEMMA WireVenueStep ==
  ASSUME TypeInv, TypeInv', WireInv, Venue
  PROVE  WireInv'
<1>0. /\ wire \in Seq(Events) /\ log \in Nat /\ Len(wire) \in Nat /\ Window \in Nat /\ read' = read
      /\ log' \in Nat
  BY MuxerAssumption, VenueFrameLemma DEF TypeInv, TypeOK
<1>1. ASSUME log' >= log, NEW e \in Events, wire' = Append(wire, e),
             e.type = "frame" => e.n = log + 1
      PROVE  WireInv'
  <2>1. /\ Len(wire) <= Len(wire) /\ \A i \in 1..Len(wire) : wire'[i] = wire[i]
        /\ DOMAIN wire' = 1..(Len(wire) + 1) /\ wire'[Len(wire) + 1] = e
    BY <1>0, <1>1
  <2>2. ASSUME NEW j \in DOMAIN wire', j > Len(wire), wire'[j].type = "frame"
        PROVE  /\ \A m \in 1..log : m < wire'[j].n + Window
               /\ \A i \in DOMAIN wire' : ~(Len(wire) < i /\ i < j)
    <3>1. j = Len(wire) + 1
      BY <1>0, <2>1, <2>2
    <3>2. wire'[j].n = log + 1
      BY <1>1, <2>1, <2>2, <3>1
    <3>3. QED  BY <1>0, <2>1, <3>1, <3>2
  <2>3. QED  BY <1>0, <1>1, <2>1, <2>2, WireExtended
<1>2. CASE VenueFrame
  <2>1. log' = log + 1
    BY <1>2 DEF VenueFrame
  <2>2. CASE wire' = Append(wire, Event("frame", log + 1))
    <3>1. Event("frame", log + 1) \in Events /\ Event("frame", log + 1).n = log + 1
      BY <1>2, EventsType, MuxerAssumption DEF VenueFrame, Frames, Event, TypeInv, TypeOK
    <3>2. QED  BY <1>0, <1>1, <2>1, <2>2, <3>1
  <2>3. CASE wire' = wire
    <3>1. /\ Len(wire) <= Len(wire) /\ \A i \in 1..Len(wire) : wire'[i] = wire[i]
          /\ \A j \in DOMAIN wire' : ~(j > Len(wire))
      BY <1>0, <2>3
    <3>2. QED  BY <1>0, <2>1, <3>1, WireExtended
  <2>4. QED  BY <1>2, <2>2, <2>3 DEF VenueFrame
<1>3. CASE VenueBook
  <2>1. log' = log /\ wire' = Append(wire, Event("book", 0)) /\ Event("book", 0).type # "frame"
    BY <1>3 DEF VenueBook, Event
  <2>2. QED  BY <1>0, <1>1, <2>1, EventsType
<1>4. CASE Drop
  <2>1. PICK k \in 0..Len(wire) : wire' = Append(SubSeq(wire, 1, k), Event("reconnecting", 0))
    BY <1>4 DEF Drop
  <2>2. /\ SubSeq(wire, 1, k) \in Seq(Events) /\ Len(SubSeq(wire, 1, k)) = k /\ k \in Nat
        /\ \A i \in 1..k : SubSeq(wire, 1, k)[i] = wire[i]
    BY <1>0
  <2>3. /\ \A i \in 1..k : wire'[i] = wire[i]
        /\ DOMAIN wire' = 1..(k + 1) /\ wire'[k + 1] = Event("reconnecting", 0)
    BY <2>1, <2>2
  <2>4. \A j \in DOMAIN wire' : j > k => j = k + 1
    BY <2>2, <2>3
  <2>5. \A j \in DOMAIN wire' : j > k => wire'[j].type # "frame"
    BY <2>3, <2>4 DEF Event
  <2>6. log' = log /\ k <= Len(wire)
    BY <1>0, <1>4 DEF Drop
  <2>7. QED  BY <1>0, <2>2, <2>3, <2>5, <2>6, WireExtended
<1>5. CASE Reconnect
  <2>1. PICK w \in 0..Window : w <= log /\ wire' = wire \o Replayed(w)
    BY <1>5 DEF Reconnect, Replayed
  <2>2. /\ Replayed(w) \in Seq(Events) /\ Len(Replayed(w)) = w /\ w \in Nat /\ w <= Window
        /\ \A i \in 1..w : Replayed(w)[i] = Event("frame", log - w + i)
    BY <1>0, <2>1, ReplayedType
  <2>8. LET both == wire \o Replayed(w)
        IN  /\ both \in Seq(Events) /\ Len(both) = Len(wire) + Len(Replayed(w))
            /\ \A i \in 1..Len(wire) : both[i] = wire[i]
            /\ \A i \in 1..Len(Replayed(w)) : both[Len(wire) + i] = Replayed(w)[i]
    BY <1>0, <2>2, Joined
  <2>3. /\ \A i \in 1..Len(wire) : wire'[i] = wire[i]
        /\ \A i \in 1..w : wire'[Len(wire) + i] = Replayed(w)[i]
        /\ DOMAIN wire' = 1..(Len(wire) + w)
    BY <2>1, <2>2, <2>8
  <2>4. ASSUME NEW j \in DOMAIN wire', j > Len(wire)
        PROVE  wire'[j].n = log - w + (j - Len(wire)) /\ j - Len(wire) \in 1..w
    <3>1. j - Len(wire) \in 1..w /\ j = Len(wire) + (j - Len(wire))
      BY <1>0, <2>2, <2>3, <2>4
    <3>2. wire'[j] = Event("frame", log - w + (j - Len(wire)))
      BY <2>2, <2>3, <3>1
    <3>3. QED  BY <3>1, <3>2 DEF Event
  <2>5. \A j \in DOMAIN wire' : j > Len(wire) =>
          /\ \A m \in 1..log : m < wire'[j].n + Window
          /\ \A i \in DOMAIN wire' : Len(wire) < i /\ i < j => wire'[i].n < wire'[j].n + Window
    <3>1. SUFFICES ASSUME NEW j \in DOMAIN wire', j > Len(wire)
                   PROVE  /\ \A m \in 1..log : m < wire'[j].n + Window
                          /\ \A i \in DOMAIN wire' :
                               Len(wire) < i /\ i < j => wire'[i].n < wire'[j].n + Window
      OBVIOUS
    <3>2. j \in Nat /\ wire'[j].n = log - w + (j - Len(wire)) /\ j - Len(wire) \in 1..w
      BY <2>3, <2>4, <3>1
    <3>3. \A m \in 1..log : m < wire'[j].n + Window
      BY <1>0, <2>2, <3>2
    <3>4. ASSUME NEW i \in DOMAIN wire', Len(wire) < i, i < j PROVE wire'[i].n < wire'[j].n + Window
      <4>1. i \in Nat /\ wire'[i].n = log - w + (i - Len(wire))
        BY <2>3, <2>4, <3>4
      <4>2. QED  BY <1>0, <2>2, <3>2, <3>4, <4>1, SMTT(30)
    <3>5. QED  BY <3>3, <3>4
  <2>6. log' = log
    BY <1>5 DEF Reconnect
  <2>7. QED  BY <1>0, <2>3, <2>5, <2>6, WireExtended
<1>6. CASE GiveUp
  <2>1. PICK last \in {"disconnected", "ended"} : wire' = Append(wire, Event(last, 0))
    BY <1>6 DEF GiveUp
  <2>2. log' = log /\ Event(last, 0) \in Events /\ Event(last, 0).type # "frame"
    BY <1>6, EventsType DEF GiveUp, Event
  <2>3. QED  BY <1>0, <1>1, <2>1, <2>2
<1>7. QED  BY <1>2, <1>3, <1>4, <1>5, <1>6 DEF Venue

LEMMA WireMuxStep ==
  ASSUME TypeInv, WireInv, Mux
  PROVE  WireInv'
<1>0. log' = log /\ log \in Nat /\ wire \in Seq(Events)
  BY MuxFrame, MuxerAssumption DEF TypeInv, TypeOK
<1>1. CASE SendLifecycle
  BY <1>0, <1>1 DEF SendLifecycle, WireInv
<1>2. ASSUME NEW t, Arrived(t), wire' = Tail(wire),
             read' = read \/ (t = "frame" /\ read' = read \cup {Head(wire).n})
      PROVE  WireInv'
  <2>1. /\ t = "frame" => Head(wire).n \in 1..log
        /\ Head(wire) = wire[1] /\ Len(wire) \in Nat \ {0} /\ 1 \in DOMAIN wire
        /\ DOMAIN wire' = 1..(Len(wire) - 1)
        /\ \A i \in DOMAIN wire' : wire'[i] = wire[i + 1] /\ i + 1 \in DOMAIN wire
    BY <1>0, <1>2, HeadType
  <2>2. read' \subseteq 1..log
    BY <1>2, <2>1 DEF WireInv
  <2>3. ASSUME NEW j \in DOMAIN wire', wire'[j].type = "frame", NEW m \in read'
        PROVE  m < wire'[j].n + Window
    <3>1. CASE m \in read
      BY <2>1, <2>3, <3>1 DEF WireInv
    <3>2. CASE t = "frame" /\ m = Head(wire).n
      <4>1. wire[1].type = "frame" /\ m = wire[1].n
        BY <1>2, <2>1, <3>2 DEF Arrived
      <4>2. j + 1 \in DOMAIN wire /\ 1 < j + 1 /\ wire'[j] = wire[j + 1]
        BY <2>1, <2>3
      <4>3. QED  BY <2>1, <2>3, <4>1, <4>2 DEF WireInv
    <3>3. QED  BY <1>2, <2>3, <3>1, <3>2
  <2>4. ASSUME NEW j \in DOMAIN wire', wire'[j].type = "frame",
               NEW i \in DOMAIN wire', i < j, wire'[i].type = "frame"
        PROVE  wire'[i].n < wire'[j].n + Window
    <3>1. i + 1 < j + 1
      BY <2>1, <2>4
    <3>2. QED  BY <2>1, <2>4, <3>1 DEF WireInv
  <2>5. QED  BY <1>0, <2>2, <2>3, <2>4 DEF WireInv
<1>3. CASE RecvFrame        BY <1>2, <1>3 DEF RecvFrame
<1>4. CASE RecvBook         BY <1>2, <1>4 DEF RecvBook
<1>5. CASE RecvReconnecting BY <1>2, <1>5 DEF RecvReconnecting
<1>6. CASE RecvLast         BY <1>2, <1>6 DEF RecvLast
<1>7. QED  BY <1>1, <1>3, <1>4, <1>5, <1>6 DEF Mux

LEMMA WireInvHolds == Spec => []WireInv
<1>1. Init => WireInv
  BY DEF Init, WireInv
<1>2. TypeInv /\ TypeInv' /\ WireInv /\ [Next]_vars => WireInv'
  <2>1. UNCHANGED <<log, wire, read>> /\ WireInv => WireInv'
    BY DEF WireInv
  <2>2. QED
    BY <2>1, WireVenueStep, WireMuxStep, ForwardFrame, FlagFrame
       DEF Next, vars, venueVars, muxVars, busVars
<1>3. QED
  BY <1>1, <1>2, TypeInvHolds, PTL DEF Spec

\* A sequence of ids without repetition in which none comes after an id that is
\* Window or more ahead of it.
Ordered(q) == \A i, j \in DOMAIN q : i < j => q[i] # q[j] /\ q[i] < q[j] + Window

\* Of more ids than the capacity, one is at least Window ahead of the first:
\* fewer than 2 * Window - 1 others lie within Window of it.
LEMMA Crowd ==
  ASSUME MuxerAssumption, 2 * Window <= Cap + 1,
         NEW q \in Seq(Frames), Len(q) = Cap + 1, Ordered(q)
  PROVE  \E j \in DOMAIN q : q[j] >= q[1] + Window
<1>1. /\ Cap \in Nat \ {0} /\ Window \in Nat /\ DOMAIN q = 1..(Cap + 1) /\ 1 \in DOMAIN q
      /\ \A j \in DOMAIN q : q[j] \in Nat
  BY DEF MuxerAssumption, Frames
<1> SUFFICES ASSUME \A j \in DOMAIN q : q[j] < q[1] + Window PROVE FALSE
  BY <1>1
<1> DEFINE S == 2..(Cap + 1)
           T == 1..(2 * Window - 2)
           place(x) == IF x < q[1] THEN x - q[1] + Window ELSE x - q[1] + Window - 1
           f == [j \in S |-> place(q[j])]
<1>2. ASSUME NEW j \in S PROVE q[j] \in Nat /\ q[j] # q[1] /\ place(q[j]) \in T
  <2>1. j \in DOMAIN q /\ 1 < j
    BY <1>1
  <2>2. q[1] # q[j] /\ q[1] < q[j] + Window
    BY <1>1, <2>1 DEF Ordered
  <2>3. q[1] \in Nat /\ q[j] \in Nat /\ q[j] < q[1] + Window
    BY <1>1, <2>1
  <2>4. QED  BY <1>1, <2>2, <2>3, SMTT(30)
<1>3. f \in [S -> T]
  BY <1>2
<1>4. IsFiniteSet(S) /\ Cardinality(S) = Cap
  BY <1>1, FS_Interval
<1>5. IsFiniteSet(T) /\ Cardinality(T) < Cap
  <2>1. 1 \in Int /\ 2 * Window - 2 \in Int
    BY <1>1
  <2>2. IsFiniteSet(T) /\ Cardinality(T) = IF 1 > 2 * Window - 2 THEN 0 ELSE 2 * Window - 2 - 1 + 1
    <3> HIDE DEF T
    <3>1. T = 1..(2 * Window - 2)
      BY DEF T
    <3>2. QED  BY <2>1, <3>1, FS_Interval
  <2>3. (IF 1 > 2 * Window - 2 THEN 0 ELSE 2 * Window - 2 - 1 + 1) < Cap
    BY <1>1
  <2>4. QED  BY <2>2, <2>3
<1>6. \E x, y \in S : x # y /\ f[x] = f[y]
  <2> HIDE DEF f, S, T
  <2>1. Cardinality(T) < Cardinality(S)
    BY <1>4, <1>5
  <2>2. QED  BY <1>3, <1>4, <1>5, <2>1, FS_PigeonHole
<1>7. PICK x \in S, y \in S : x # y /\ f[x] = f[y]
  BY <1>6
<1>8. place(q[x]) = place(q[y])
  BY <1>7
<1>9. q[x] = q[y]
  <2>1. q[1] \in Nat /\ q[x] \in Nat /\ q[y] \in Nat /\ q[x] # q[1] /\ q[y] # q[1]
    BY <1>1, <1>2
  <2>2. QED  BY <1>1, <1>8, <2>1, SMTT(30)
<1>10. x \in DOMAIN q /\ y \in DOMAIN q /\ (x < y \/ y < x)
  BY <1>1, <1>7
<1>11. QED  BY <1>9, <1>10 DEF Ordered

\* RecentIds holds fills that have been read, in an order that is off by less
\* than a window, and a fill it has forgotten is too old to be replayed.
SeenInv ==
  /\ Elems(seen) \subseteq read
  /\ Ordered(seen)
  /\ \A n \in read \cap IsFill : n \in Elems(seen) \/ \E m \in read : m >= n + Window

\* A fill that is not remembered when its frame is read has never been read.
LEMMA NewFill ==
  ASSUME TypeInv, WireInv, SeenInv, NEW n \in Frames, wire # <<>>,
         wire[1].type = "frame", n = wire[1].n, n \in IsFill, n \notin Elems(seen)
  PROVE  n \notin read /\ \A m \in read : m < n + Window
<1>1. 1 \in DOMAIN wire
  BY DEF TypeInv, TypeOK
<1>2. \A m \in read : m < n + Window
  BY <1>1 DEF WireInv
<1>3. ASSUME n \in read PROVE FALSE
  <2>1. PICK m \in read : m >= n + Window
    BY <1>3 DEF SeenInv
  <2>2. m \in Nat /\ n \in Nat /\ Window \in Nat
    BY MuxerAssumption DEF TypeInv, TypeOK, Frames
  <2>3. QED  BY <1>2, <2>1, <2>2
<1>4. QED  BY <1>2, <1>3

LEMMA SeenStep ==
  ASSUME 2 * Window <= Cap + 1, TypeInv, WireInv, SeenInv, [Next]_vars
  PROVE  SeenInv'
<1>1. CASE RecvFrame
  <2>1. PICK n \in Frames :
          /\ n = wire[1].n /\ wire[1].type = "frame" /\ read' = read \cup {n}
          /\ \/ n \in IsFill /\ n \notin Elems(seen) /\ seen' = Remember(seen, n) /\ queue' = Send("Trade", n)
             \/ (n \in IsFill => n \in Elems(seen)) /\ UNCHANGED <<seen, queue>>
    BY <1>1, FrameRead
  <2>2. CASE (n \in IsFill => n \in Elems(seen)) /\ UNCHANGED seen
    <3>1. Elems(seen') = Elems(seen)
      BY <2>2
    <3>2. QED  BY <2>1, <2>2, <3>1 DEF SeenInv
  <2>3. CASE n \in IsFill /\ n \notin Elems(seen) /\ seen' = Remember(seen, n)
    <3> DEFINE all == Append(seen, n)
    <3>1. /\ seen \in Seq(Frames) /\ Len(seen) \in Nat /\ Len(seen) <= Cap /\ Cap \in Nat /\ Window \in Nat
          /\ DOMAIN seen = 1..Len(seen)
      BY MuxerAssumption DEF TypeInv, TypeOK
    <3>2. \A m \in read : m < n + Window
      BY <1>1, <2>1, <2>3, NewFill DEF RecvFrame, Arrived
    <3>3. /\ all \in Seq(Frames) /\ all # <<>> /\ Len(all) = Len(seen) + 1 /\ DOMAIN all = 1..(Len(seen) + 1)
          /\ \A i \in 1..Len(seen) : all[i] = seen[i]
          /\ all[Len(seen) + 1] = n
          /\ Elems(all) = Elems(seen) \cup {n}
      BY <3>1, ElemsAppend
    <3> HIDE DEF all
    <3>4. Ordered(all)
      <4> SUFFICES ASSUME NEW i \in DOMAIN all, NEW j \in DOMAIN all, i < j
                   PROVE  all[i] # all[j] /\ all[i] < all[j] + Window
        BY DEF Ordered
      <4>1. i \in DOMAIN seen /\ all[i] = seen[i]
        BY <3>1, <3>3
      <4>2. CASE j \in DOMAIN seen
        BY <3>1, <3>3, <4>1, <4>2 DEF SeenInv, Ordered
      <4>3. CASE j = Len(seen) + 1
        <5>1. seen[i] \in Elems(seen)
          BY <4>1 DEF Elems
        <5>2. seen[i] \in read /\ seen[i] # n
          BY <2>3, <5>1 DEF SeenInv
        <5>3. QED  BY <3>2, <3>3, <4>1, <4>3, <5>2
      <4>4. QED  BY <3>1, <3>3, <4>2, <4>3
    <3>5. \A c \in Elems(all) : c \in read'
      BY <2>1, <3>3 DEF SeenInv
    <3>6. \A m \in read' \cap IsFill : m \in Elems(all) \/ \E k \in read' : k >= m + Window
      BY <2>1, <3>3 DEF SeenInv
    <3>7. CASE seen' = all
      BY <3>4, <3>5, <3>6, <3>7 DEF SeenInv
    <3>8. CASE Len(all) > Cap /\ seen' = Tail(all)
      <4>1. Len(all) = Cap + 1
        BY <3>1, <3>3, <3>8
      <4>2. PICK j \in DOMAIN all : all[j] >= all[1] + Window
        BY <3>3, <3>4, <4>1, Crowd, MuxerAssumption
      <4>3. all[j] \in read' /\ Head(all) = all[1]
        BY <3>3, <3>5 DEF Elems
      <4>4. Elems(all) = {Head(all)} \cup Elems(seen')
        BY <3>3, <3>8, ElemsTail
      <4>5. Elems(seen') \subseteq read'
        BY <3>5, <4>4
      <4>6. \A m \in read' \cap IsFill : m \in Elems(seen') \/ \E k \in read' : k >= m + Window
        BY <3>6, <4>2, <4>3, <4>4
      <4>7. /\ DOMAIN seen' = 1..Len(seen)
            /\ \A i \in DOMAIN seen' : seen'[i] = all[i + 1] /\ i + 1 \in DOMAIN all
        BY <3>1, <3>3, <3>8
      <4>8. Ordered(seen')
        <5> SUFFICES ASSUME NEW i \in DOMAIN seen', NEW k \in DOMAIN seen', i < k
                     PROVE  seen'[i] # seen'[k] /\ seen'[i] < seen'[k] + Window
          BY DEF Ordered
        <5>1. i + 1 < k + 1
          BY <3>1, <4>7
        <5>2. QED  BY <3>4, <4>7, <5>1 DEF Ordered
      <4>9. QED  BY <4>5, <4>6, <4>8 DEF SeenInv
    <3>9. QED  BY <2>3, <3>7, <3>8 DEF Remember, all
  <2>4. QED  BY <2>1, <2>2, <2>3
<1>2. CASE UNCHANGED <<seen, read>>
  <2>1. Elems(seen') = Elems(seen) /\ (Ordered(seen) => Ordered(seen'))
    BY <1>2
  <2>2. QED  BY <1>2, <2>1 DEF SeenInv
<1>3. QED
  BY <1>1, <1>2, OtherMuxSteps, VenueFrameLemma, ForwardFrame, FlagFrame DEF Next, vars, muxVars

\* The trades on their way are without repetition and not on the bus yet.
LEMMA OnceStep ==
  ASSUME TypeInv, WireInv, SeenInv, TradeInv, OneTradePerFill, [Next]_vars
  PROVE  OneTradePerFill'
<1> DEFINE queued == queue["Trade"]
           done == published["Trade"]
<1>0. queued \in Seq(Frames \cup {0}) /\ Len(queued) \in Nat /\ DOMAIN queued = 1..Len(queued)
  BY DEF TypeInv, TypeOK, Streams
<1>1. CASE UNCHANGED <<queued, done>>
  BY <1>1 DEF OneTradePerFill
<1>2. CASE RecvFrame
  <2>1. PICK n \in Frames :
          /\ n = wire[1].n /\ wire[1].type = "frame" /\ read' = read \cup {n}
          /\ \/ n \in IsFill /\ n \notin Elems(seen) /\ seen' = Remember(seen, n) /\ queue' = Send("Trade", n)
             \/ (n \in IsFill => n \in Elems(seen)) /\ UNCHANGED <<seen, queue>>
    BY <1>2, FrameRead
  <2>2. UNCHANGED <<feed, published>>
    BY <1>2, MuxFrame DEF Mux
  <2>3. CASE n \in IsFill /\ n \notin Elems(seen) /\ queue' = Send("Trade", n) /\ feed["Trade"] = "running"
    <3>1. n \notin Elems(queued) /\ n \notin done
      BY <1>2, <2>1, <2>3, NewFill DEF TradeInv, Trades, RecvFrame, Arrived
    <3>2. queued' = Append(queued, n) /\ Elems(queued') = Elems(queued) \cup {n}
      BY <2>3, SendTrade
    <3>3. /\ DOMAIN queued' = 1..(Len(queued) + 1) /\ queued'[Len(queued) + 1] = n
          /\ \A i \in 1..Len(queued) : queued'[i] = queued[i] /\ queued[i] \in Elems(queued)
      BY <1>0, <3>2 DEF Elems
    <3>4. ASSUME NEW i \in DOMAIN queued', NEW j \in DOMAIN queued', queued'[i] = queued'[j] PROVE i = j
      <4>1. CASE i \in DOMAIN queued /\ j \in DOMAIN queued
        BY <1>0, <3>3, <3>4, <4>1 DEF OneTradePerFill
      <4>2. QED  BY <1>0, <3>1, <3>3, <3>4, <4>1
    <3>5. Elems(queued') \cap done' = {}
      BY <2>2, <3>1, <3>2 DEF OneTradePerFill
    <3>6. QED  BY <3>4, <3>5 DEF OneTradePerFill
  <2>4. CASE UNCHANGED queue
    BY <1>1, <2>2, <2>4
  <2>5. QED  BY <2>1, <2>3, <2>4, SendTrade
<1>3. ASSUME NEW s \in Streams, Forward(s) PROVE OneTradePerFill'
  <2>1. CASE queued # <<>> /\ queued' = Tail(queued) /\ done' = done \cup {Head(queued)}
    <3>1. Elems(queued) = {Head(queued)} \cup Elems(queued')
      BY <1>0, <2>1, ElemsTail
    <3>2. /\ DOMAIN queued' = 1..(Len(queued) - 1) /\ Head(queued) = queued[1] /\ Len(queued) >= 1
          /\ \A i \in DOMAIN queued' : queued'[i] = queued[i + 1] /\ i + 1 \in DOMAIN queued
      BY <1>0, <2>1
    <3>3. ASSUME NEW i \in DOMAIN queued', NEW j \in DOMAIN queued', queued'[i] = queued'[j] PROVE i = j
      <4>1. i + 1 = j + 1
        BY <3>2, <3>3 DEF OneTradePerFill
      <4>2. QED  BY <1>0, <3>2, <4>1
    <3>4. Head(queued) \notin Elems(queued')
      <4>1. ASSUME NEW i \in DOMAIN queued', queued'[i] = Head(queued) PROVE FALSE
        <5>1. i + 1 = 1
          BY <1>0, <3>2, <4>1 DEF OneTradePerFill
        <5>2. QED  BY <1>0, <3>2, <5>1
      <4>2. QED  BY <4>1 DEF Elems
    <3>5. Elems(queued') \cap done' = {}
      BY <2>1, <3>1, <3>4 DEF OneTradePerFill
    <3>6. QED  BY <3>3, <3>5 DEF OneTradePerFill
  <2>2. CASE queued' = <<>>
    BY <2>2 DEF OneTradePerFill, Elems
  <2>3. QED  BY <1>1, <1>3, <2>1, <2>2, TradeFeedStep
<1>4. QED
  BY <1>1, <1>2, <1>3, OtherMuxSteps, MuxFrame, VenueFrameLemma, FlagFrame
     DEF Next, vars, busVars

\* A fill reaches the bus at most once, however often the connection is lost and
\* whatever is replayed, as long as RecentIds holds twice the replay window less
\* one (connection.rs:38-40: MAX_SEEN_TRADE_IDS is 8192, and "a reconnect replays
\* only a small recent window").
THEOREM OneTrade ==
  ASSUME 2 * Window <= Cap + 1
  PROVE  Spec => []OneTradePerFill
<1>1. Init => SeenInv /\ OneTradePerFill
  BY DEF Init, SeenInv, Ordered, OneTradePerFill, Elems, Streams
<1>2. TypeInv /\ WireInv /\ SeenInv /\ [Next]_vars => SeenInv'
  BY SeenStep
<1>3. TypeInv /\ WireInv /\ SeenInv /\ TradeInv /\ OneTradePerFill /\ [Next]_vars => OneTradePerFill'
  BY OnceStep
<1>4. QED
  BY <1>1, <1>2, <1>3, TypeInvHolds, WireInvHolds, TradeInvHolds, PTL DEF Spec
=============================================================================
