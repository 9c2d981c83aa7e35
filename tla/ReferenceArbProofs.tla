------------------------- MODULE ReferenceArbProofs -------------------------
(***************************************************************************)
(* Proofs about ReferenceArb, for any sizes, thresholds and bounds.        *)
(*                                                                         *)
(* The venue's record changes in two ways only, by Place and by Execute;   *)
(* a lemma about each says how, and every part of the inductive invariant  *)
(* is preserved for a reason that needs no more than that.  The last two   *)
(* sections follow the tracker: with the trades on their way it makes up   *)
(* the position, and a cycle through Entering, Holding and Exiting ends    *)
(* with nothing held (CycleInv).                                           *)
(***************************************************************************)
EXTENDS ReferenceArb, SumProofs, FiniteSetTheorems, SequenceTheorems, TLAPS

OrderRecord == [side : Sides \cup {0}, qty : Nat, closing : BOOLEAN, reduce : BOOLEAN,
                lost : BOOLEAN, status : {"none", "submitted", "done"}]
TradeEvent == [cid : Cids, qty : Int]
UpdateEvent == [cid : Cids, status : {"filled", "cancelled"}]

\* The parts of the type invariant: the actor's state, the venue's and the rest.
ArbTyped ==
  /\ kind \in {"flat", "entering", "holding", "exiting"}
  /\ side \in Sides \cup {0} /\ (kind = "flat" <=> side = 0)
  /\ cid \in 0..issued /\ (kind \in {"entering", "exiting"} <=> cid # 0)
  /\ ticks \in 0..MaxHold
  /\ streak \in -Persistence..Persistence
  /\ net \in Int /\ issued \in 0..MaxOrders

VenueTyped ==
  /\ position \in Int
  /\ orders \in [Cids -> OrderRecord]
  /\ trades \in Seq(TradeEvent) /\ updates \in Seq(UpdateEvent)

RestTyped ==
  /\ phase \in {"new", "running", "refused", "down"} /\ heldFor \in 0..MaxHold
  /\ dryRun \in BOOLEAN /\ disconnected \in BOOLEAN /\ shutdown \in BOOLEAN /\ overtaken \in BOOLEAN

LEMMA TypeSplit == TypeOK <=> ArbTyped /\ VenueTyped /\ RestTyped
  BY DEF TypeOK, ArbTyped, VenueTyped, RestTyped, OrderRecord, TradeEvent, UpdateEvent

LEMMA TypeSplitNext == (ArbTyped /\ VenueTyped /\ RestTyped)' => TypeOK'
  BY TypeSplit, PTL

-----------------------------------------------------------------------------
(* What placing and executing an order do.                                 *)

\* The provers want to be told.
LEMMA SignNeg == -(-1) = 1
<1>1. -1 \in Int /\ -1 + 1 = 0
  OBVIOUS
<1>2. \A i \in Int : i + 1 = 0 => -i = 1
  OBVIOUS
<1> QED
  BY <1>1, <1>2

LEMMA SignTyped ==
  ASSUME NEW n \in Int, n # 0
  PROVE  Sign(n) \in Sides /\ -Sign(n) \in Sides /\ Abs(n) \in Nat
<1>1. CASE n > 0
  BY <1>1 DEF Sign, Abs, Sides
<1>2. CASE n < 0
  <2>1. Sign(n) = -1 /\ Abs(n) = -n
    BY <1>2 DEF Sign, Abs
  <2>2. -n \in Nat
    BY <1>2
  <2> QED
    BY <2>1, <2>2, SignNeg DEF Sides
<1> QED
  BY <1>1, <1>2

\* Place uses up one client id and writes to that order's record at most.
LEMMA PlaceEffect ==
  ASSUME ArbTyped, VenueTyped,
         NEW s \in Sides \cup {0}, NEW q \in Nat, NEW closing \in BOOLEAN, NEW outcome \in Outcomes,
         Place(s, q, closing, outcome)
  PROVE  /\ issued' = issued + 1 /\ issued' \in Cids
         /\ orders' \in [Cids -> OrderRecord]
         /\ \A c \in Cids : c # issued' => orders'[c] = orders[c]
         /\ \/ outcome = "refused" /\ orders' = orders
            \/ /\ outcome # "refused"
               /\ orders'[issued'].status = "submitted"
               /\ orders'[issued'].lost = (outcome = "lost")
               /\ orders'[issued'].closing = closing
               /\ orders'[issued'].reduce = closing
               /\ orders'[issued'].side = s /\ orders'[issued'].qty = q
<1>1. issued' = issued + 1 /\ issued' \in Cids
  BY ArbAssumption DEF Place, ArbTyped, Cids
<1>2. CASE outcome = "refused"
  BY <1>1, <1>2 DEF Place, VenueTyped
<1>3. CASE outcome # "refused"
  <2> DEFINE new == [side |-> s, qty |-> q, closing |-> closing, reduce |-> closing /\ ReduceOnly,
                     lost |-> outcome = "lost", status |-> "submitted"]
  <2>1. orders' = [orders EXCEPT ![issued'] = new]
    BY <1>1, <1>3 DEF Place
  <2>2. new \in OrderRecord
    BY DEF OrderRecord
  <2>3. new.status = "submitted" /\ new.lost = (outcome = "lost") /\ new.closing = closing
        /\ new.reduce = closing /\ new.side = s /\ new.qty = q
    BY DEF ReduceOnly
  <2> HIDE DEF new
  <2>4. orders'[issued'] = new /\ \A c \in Cids : c # issued' => orders'[c] = orders[c]
    BY <1>1, <2>1 DEF VenueTyped
  <2>5. orders' \in [Cids -> OrderRecord]
    BY <1>1, <2>1, <2>2 DEF VenueTyped
  <2> QED
    BY <1>1, <1>3, <2>3, <2>4, <2>5
<1> QED
  BY <1>2, <1>3

\* What an exit does to the actor: nothing to close, a paper exit, or an order.
LEMMA ExitEffect ==
  ASSUME ArbTyped, VenueTyped, NEW t \in 0..MaxHold, PlaceExit(t)
  PROVE  \/ ToFlat /\ net' \in Int /\ UNCHANGED <<issued, orders>>
         \/ /\ UNCHANGED <<net, streak>>
            /\ \E outcome \in Outcomes :
                 /\ Place(-Sign(net), Abs(net), TRUE, outcome)
                 /\ -Sign(net) \in Sides /\ Sign(net) \in Sides /\ Abs(net) \in Nat
                 /\ \/ /\ outcome = "accepted" /\ kind' = "exiting" /\ side' = Sign(net)
                       /\ cid' = issued' /\ ticks' = IF kind = "holding" THEN t ELSE 0
                    \/ outcome # "accepted" /\ UNCHANGED <<kind, side, cid>> /\ ticks' = t
<1>1. CASE net = 0 /\ ToFlat /\ UNCHANGED <<net, issued, orders>>
  BY <1>1 DEF ArbTyped
<1>2. CASE net # 0 /\ dryRun /\ ToFlat /\ net' = 0 /\ UNCHANGED <<issued, orders>>
  BY <1>2
<1>3. ASSUME net # 0, UNCHANGED <<net, streak>>, NEW outcome \in Outcomes,
             Place(-Sign(net), Abs(net), TRUE, outcome),
             IF outcome = "accepted"
             THEN /\ kind' = "exiting" /\ side' = Sign(net) /\ cid' = issued'
                  /\ ticks' = IF kind = "holding" THEN t ELSE 0
             ELSE UNCHANGED <<kind, side, cid>> /\ ticks' = t
      PROVE  \E o \in Outcomes :
                 /\ Place(-Sign(net), Abs(net), TRUE, o)
                 /\ -Sign(net) \in Sides /\ Sign(net) \in Sides /\ Abs(net) \in Nat
                 /\ \/ /\ o = "accepted" /\ kind' = "exiting" /\ side' = Sign(net)
                       /\ cid' = issued' /\ ticks' = IF kind = "holding" THEN t ELSE 0
                    \/ o # "accepted" /\ UNCHANGED <<kind, side, cid>> /\ ticks' = t
  <2>1. -Sign(net) \in Sides /\ Sign(net) \in Sides /\ Abs(net) \in Nat
    <3>1. net \in Int /\ net # 0
      BY <1>3 DEF ArbTyped
    <3> QED
      BY <3>1, SignTyped
  <2> QED
    BY <1>3, <2>1
<1> QED
  BY <1>1, <1>2, <1>3 DEF PlaceExit

\* Execute ends one submitted order, and what it reports is about that order.
LEMMA ExecuteEffect ==
  ASSUME VenueTyped, NEW c \in Cids, Execute(c)
  PROVE  /\ orders[c].status = "submitted"
         /\ orders' = [orders EXCEPT ![c].status = "done"]
         /\ \E f \in 0..Fillable(orders[c]) : position' = position + orders[c].side * f
         /\ trades' \in Seq(TradeEvent) /\ updates' \in Seq(UpdateEvent)
         /\ \A i \in DOMAIN trades' : trades'[i].cid = c \/ \E j \in DOMAIN trades : trades'[i] = trades[j]
         /\ \A i \in DOMAIN updates' : updates'[i].cid = c \/ \E j \in DOMAIN updates : updates'[i] = updates[j]
         /\ UNCHANGED <<phase, arbVars, restVars, historyVars>>
<1> USE DEF VenueTyped
<1>1. PICK f \in 0..Fillable(orders[c]) :
        /\ position' = position + orders[c].side * f
        /\ IF disconnected THEN UNCHANGED <<trades, updates>>
           ELSE /\ \E p \in Parts(f) : trades' = trades \o Reported(c, p)
                /\ updates' = Append(updates, [cid |-> c,
                                status |-> IF f = orders[c].qty THEN "filled" ELSE "cancelled"])
  BY DEF Execute
<1>2. f \in Nat
  BY DEF OrderRecord, Fillable, Least, Abs
<1>3. CASE disconnected
  BY <1>1, <1>3 DEF Execute
<1>4. CASE ~disconnected
  <2>1. PICK p \in Parts(f) : trades' = trades \o Reported(c, p)
    BY <1>1, <1>4
  <2>2. p \in Seq(Int)
    <3>1. p \in {<<>>, <<1>>, <<f>>, <<1, f - 1>>}
      BY DEF Parts
    <3>2. \A a, b \in Int : {<<>>, <<1>>, <<a>>, <<1, b>>} \subseteq Seq(Int)
      OBVIOUS
    <3>3. f \in Int /\ f - 1 \in Int
      BY <1>2
    <3> QED
      BY <3>1, <3>2, <3>3
  <2>3. orders[c].side \in {0, 1, -1}
    BY DEF OrderRecord, Sides
  <2>4. \A i \in DOMAIN p : [cid |-> c, qty |-> orders[c].side * p[i]] \in TradeEvent
    BY <2>2, <2>3 DEF TradeEvent
  <2>5. /\ Reported(c, p) \in Seq(TradeEvent)
        /\ \A i \in DOMAIN Reported(c, p) : Reported(c, p)[i].cid = c
    <3>1. DOMAIN p = 1..Len(p) /\ Len(p) \in Nat
      BY <2>2
    <3>2. /\ Reported(c, p) \in [1..Len(p) -> TradeEvent]
          /\ \A i \in 1..Len(p) : Reported(c, p)[i].cid = c
      BY <2>4, <3>1 DEF Reported
    <3>3. \A n \in Nat : \A g \in [1..n -> TradeEvent] : g \in Seq(TradeEvent)
      BY SeqDef
    <3> QED
      BY <3>1, <3>2, <3>3
  <2>6. trades' \in Seq(TradeEvent)
    BY <2>1, <2>5
  <2>7. \A i \in DOMAIN trades' : trades'[i].cid = c \/ \E j \in DOMAIN trades : trades'[i] = trades[j]
    <3>1. trades \in Seq(TradeEvent)
      OBVIOUS
    <3>2. ASSUME NEW r \in Seq(TradeEvent), NEW q \in Seq(TradeEvent), NEW i \in DOMAIN (q \o r)
          PROVE  (q \o r)[i] \in {q[j] : j \in DOMAIN q} \cup {r[j] : j \in DOMAIN r}
      <4>1. CASE i <= Len(q)
        BY <4>1
      <4>2. CASE i > Len(q)
        BY <4>2, SMTT(30)
      <4> QED
        BY <4>1, <4>2
    <3>3. \A i \in DOMAIN trades' :
            trades'[i] \in {trades[j] : j \in DOMAIN trades}
                            \cup {Reported(c, p)[j] : j \in DOMAIN Reported(c, p)}
      BY <2>1, <2>5, <3>1, <3>2
    <3> QED
      BY <2>5, <3>3
  <2> DEFINE u == [cid |-> c, status |-> IF f = orders[c].qty THEN "filled" ELSE "cancelled"]
  <2>8. u \in UpdateEvent /\ u.cid = c
    BY DEF UpdateEvent
  <2>9. updates' = Append(updates, u)
    BY <1>1, <1>4
  <2> HIDE DEF u
  <2>10. updates' \in Seq(UpdateEvent)
    BY <2>8, <2>9
  <2>11. \A i \in DOMAIN updates' : updates'[i].cid = c \/ \E j \in DOMAIN updates : updates'[i] = updates[j]
    BY <2>8, <2>9
  <2> QED
    BY <1>1, <2>6, <2>7, <2>10, <2>11 DEF Execute
<1> QED
  BY <1>3, <1>4

-----------------------------------------------------------------------------
(* Types.                                                                  *)

LEMMA InitTyped == Init => TypeOK
<1> SUFFICES ASSUME Init PROVE ArbTyped /\ VenueTyped /\ RestTyped
  BY TypeSplit
<1>1. ArbTyped
  BY ArbAssumption DEF Init, ArbTyped
<1>2. VenueTyped
  <2>1. NoOrder \in OrderRecord
    BY DEF NoOrder, OrderRecord
  <2>2. position \in Int
    BY ArbAssumption DEF Init
  <2> QED
    BY <2>1, <2>2 DEF Init, VenueTyped
<1>3. RestTyped
  <2>1. heldFor \in 0..MaxHold
    BY ArbAssumption DEF Init
  <2> QED
    BY <2>1, Zenon DEF Init, RestTyped
<1> QED
  BY <1>1, <1>2, <1>3

\* Whatever it ends in, an exit leaves the actor's state and the orders typed.
LEMMA ExitTyped ==
  ASSUME ArbTyped, VenueTyped, NEW t \in 0..MaxHold, PlaceExit(t)
  PROVE  ArbTyped' /\ orders' \in [Cids -> OrderRecord]
<1>1. CASE ToFlat /\ net' \in Int /\ UNCHANGED <<issued, orders>>
  BY <1>1, ArbAssumption DEF ToFlat, ArbTyped, VenueTyped
<1>2. ASSUME UNCHANGED <<net, streak>>, NEW outcome \in Outcomes,
             Place(-Sign(net), Abs(net), TRUE, outcome),
             -Sign(net) \in Sides /\ Sign(net) \in Sides /\ Abs(net) \in Nat,
             \/ /\ outcome = "accepted" /\ kind' = "exiting" /\ side' = Sign(net)
                /\ cid' = issued' /\ ticks' = IF kind = "holding" THEN t ELSE 0
             \/ outcome # "accepted" /\ UNCHANGED <<kind, side, cid>> /\ ticks' = t
      PROVE  ArbTyped' /\ orders' \in [Cids -> OrderRecord]
  <2>1. issued' = issued + 1 /\ issued' \in Cids /\ orders' \in [Cids -> OrderRecord]
    BY <1>2, PlaceEffect
  <2>2. issued' \in 1..MaxOrders /\ issued' \in 0..MaxOrders /\ ticks' \in 0..MaxHold
    BY <1>2, <2>1, ArbAssumption DEF Cids
  <2>3. net' \in Int /\ streak' \in -Persistence..Persistence
    BY <1>2 DEF ArbTyped
  <2>4. CASE outcome = "accepted"
    BY <1>2, <2>1, <2>2, <2>3, <2>4 DEF ArbTyped, Sides
  <2>5. CASE outcome # "accepted"
    BY <1>2, <2>1, <2>2, <2>3, <2>5 DEF ArbTyped
  <2> QED
    BY <2>1, <2>4, <2>5
<1> QED
  BY <1>1, <1>2, ExitEffect

\* The signal streak stays within the persistence it is compared with.
LEMMA StreakTyped ==
  ASSUME ArbTyped, NEW s \in Spreads
  PROVE  DesiredSide(s) \in Sides \cup {0} /\ Streak(s) \in -Persistence..Persistence
<1> DEFINE d == DesiredSide(s)
<1>1. d \in Sides \cup {0}
  BY DEF DesiredSide, Sides
<1>2. d \in -Persistence..Persistence /\ (d = 1 \/ d = 0 \/ d + 1 = 0)
  BY <1>1, ArbAssumption DEF Sides
<1>3. Least(Abs(streak) + 1, Persistence) \in 0..Persistence
  BY ArbAssumption DEF ArbTyped, Abs, Least
<1> HIDE DEF d
<1>4. \A m \in 0..Persistence : d * m \in -Persistence..Persistence
  <2>1. CASE d = 1
    BY <2>1, ArbAssumption
  <2>2. CASE d = 0
    BY <2>2, ArbAssumption
  <2>3. CASE d = -1
    <3>1. \A m \in 0..Persistence : -1 * m = -m
      BY ArbAssumption
    <3> QED
      BY <2>3, <3>1, ArbAssumption
  <2> QED
    BY <1>1, <2>1, <2>2, <2>3 DEF Sides
<1> QED
  BY <1>1, <1>2, <1>3, <1>4 DEF Streak, d

\* A trade or an update that is handled leaves its queue.
LEMMA QueueTyped ==
  ASSUME VenueTyped
  PROVE  /\ trades # <<>> => Head(trades) \in TradeEvent /\ Tail(trades) \in Seq(TradeEvent)
         /\ updates # <<>> => Head(updates) \in UpdateEvent /\ Tail(updates) \in Seq(UpdateEvent)
  BY DEF VenueTyped

LEMMA TypeStep ==
  ASSUME TypeOK, [Next]_vars
  PROVE  TypeOK'
<1> SUFFICES ArbTyped' /\ VenueTyped' /\ RestTyped'
  BY TypeSplitNext
<1> USE DEF arbVars, venueVars, restVars, historyVars
<1>0. ArbTyped /\ VenueTyped /\ RestTyped
  BY TypeSplit
<1>1. CASE Start
  BY <1>0, <1>1 DEF Start, ArbTyped, VenueTyped, RestTyped
<1>2. CASE WindDown
  <2>1. ArbTyped' /\ orders' \in [Cids -> OrderRecord]
    <3>1. CASE PlaceExit(ticks)
      BY <1>0, <3>1, ExitTyped DEF ArbTyped
    <3>2. CASE UNCHANGED <<arbVars, orders>>
      BY <1>0, <3>2 DEF ArbTyped, VenueTyped
    <3> QED
      BY <1>2, <3>1, <3>2 DEF WindDown
  <2> QED
    BY <1>0, <1>2, <2>1 DEF WindDown, VenueTyped, RestTyped
<1>3. ASSUME NEW s \in Spreads, Observe(s)
      PROVE  ArbTyped' /\ VenueTyped' /\ RestTyped'
  BY <1>0, <1>3, StreakTyped DEF Observe, ArbTyped, VenueTyped, RestTyped
<1>4. ASSUME NEW s \in Spreads, EnterPaper(s)
      PROVE  ArbTyped' /\ VenueTyped' /\ RestTyped'
  <2>1. ArbTyped'
    <3>1. DesiredSide(s) \in Sides /\ Size \in Nat
      BY <1>0, <1>4, StreakTyped, ArbAssumption DEF EnterPaper, Ready
    <3>2. net' \in Int
      BY <1>0, <1>4, <3>1 DEF EnterPaper, ArbTyped, Sides
    <3> QED
      BY <1>0, <1>4, <3>1, <3>2, ArbAssumption DEF EnterPaper, ArbTyped, Sides
  <2> QED
    BY <1>0, <1>4, <2>1, ArbAssumption DEF EnterPaper, VenueTyped, RestTyped
<1>5. ASSUME NEW s \in Spreads, Enter(s)
      PROVE  ArbTyped' /\ VenueTyped' /\ RestTyped'
  <2>1. DesiredSide(s) \in Sides /\ Size \in Nat
    BY <1>0, <1>5, StreakTyped, ArbAssumption DEF Enter, Ready
  <2>2. PICK outcome \in Outcomes :
          /\ Place(DesiredSide(s), Size, FALSE, outcome)
          /\ IF outcome = "accepted"
             THEN kind' = "entering" /\ side' = DesiredSide(s) /\ cid' = issued'
             ELSE UNCHANGED <<kind, side, cid>>
    BY <1>5 DEF Enter
  <2>3. issued' = issued + 1 /\ issued' \in Cids /\ orders' \in [Cids -> OrderRecord]
    BY <1>0, <2>1, <2>2, PlaceEffect
  <2>4. issued' \in 1..MaxOrders /\ issued' \in 0..MaxOrders /\ streak' \in -Persistence..Persistence
    BY <1>5, <2>3, ArbAssumption DEF Enter, Cids
  <2>5. ArbTyped'
    BY <1>0, <1>5, <2>1, <2>2, <2>3, <2>4 DEF Enter, ArbTyped, Sides
  <2> QED
    BY <1>0, <1>5, <2>3, <2>5 DEF Enter, VenueTyped, RestTyped
<1>6. ASSUME NEW s \in Spreads, Exit(s)
      PROVE  ArbTyped' /\ VenueTyped' /\ RestTyped'
  <2>1. ArbTyped' /\ orders' \in [Cids -> OrderRecord]
    BY <1>0, <1>6, ExitTyped DEF Exit, ArbTyped
  <2> QED
    BY <1>0, <1>6, <2>1 DEF Exit, VenueTyped, RestTyped
<1>7. CASE HandleTrade
  <2>1. Head(trades) \in TradeEvent /\ Tail(trades) \in Seq(TradeEvent)
    BY <1>0, <1>7, QueueTyped DEF HandleTrade
  <2>2. net' \in Int
    BY <1>0, <1>7, <2>1 DEF HandleTrade, Counted, ArbTyped, TradeEvent
  <2>3. 0 \in 0..MaxHold /\ 0 \in -Persistence..Persistence /\ 0 \in 0..issued /\ issued' = issued
    BY <1>0, <1>7, ArbAssumption DEF HandleTrade, ArbTyped
  <2>4. ASSUME kind = "entering", kind' = "holding", cid' = 0, ticks' = 0, UNCHANGED <<side, streak>>
        PROVE  ArbTyped'
    BY <1>0, <2>2, <2>3, <2>4, ArbAssumption DEF ArbTyped
  <2>5. ASSUME ToFlat PROVE ArbTyped'
    BY <1>0, <2>2, <2>3, <2>5, ArbAssumption DEF ToFlat, ArbTyped
  <2>6. ASSUME UNCHANGED <<kind, side, cid, ticks, streak>> PROVE ArbTyped'
    BY <1>0, <2>2, <2>3, <2>6, ArbAssumption DEF ArbTyped
  <2>7. ArbTyped'
    BY <1>7, <2>4, <2>5, <2>6 DEF HandleTrade
  <2>8. heldFor' \in 0..MaxHold
    BY <1>0, <1>7, <2>3 DEF HandleTrade, RestTyped
  <2>9. VenueTyped'
    BY <1>0, <1>7, <2>1 DEF HandleTrade, VenueTyped
  <2> QED
    BY <1>0, <1>7, <2>7, <2>8, <2>9 DEF HandleTrade, RestTyped
<1>8. CASE HandleUpdate
  <2>1. Tail(updates) \in Seq(UpdateEvent)
    BY <1>0, <1>8, QueueTyped DEF HandleUpdate
  <2>2. /\ 0 \in 0..MaxHold /\ 0 \in -Persistence..Persistence /\ 0 \in 0..issued
        /\ UNCHANGED <<net, issued>>
    BY <1>0, <1>8, ArbAssumption DEF HandleUpdate, ArbTyped
  <2>3. ASSUME ToFlat PROVE ArbTyped'
    BY <1>0, <2>2, <2>3, ArbAssumption DEF ToFlat, ArbTyped
  <2>4. ASSUME kind \in {"entering", "exiting"}, kind' = "holding", cid' = 0,
               ticks' \in {0, ticks}, UNCHANGED <<side, streak>>
        PROVE  ArbTyped'
    BY <1>0, <2>2, <2>4, ArbAssumption DEF ArbTyped
  <2>5. ASSUME UNCHANGED <<kind, side, cid, ticks, streak>> PROVE ArbTyped'
    BY <1>0, <2>2, <2>5, ArbAssumption DEF ArbTyped
  <2>6. ArbTyped'
    BY <1>8, <2>3, <2>4, <2>5 DEF HandleUpdate, ResumedTicks
  <2>7. overtaken' \in BOOLEAN
    BY <1>8 DEF HandleUpdate
  <2>8. heldFor' \in 0..MaxHold
    BY <1>0, <1>8, <2>2 DEF HandleUpdate, RestTyped
  <2> QED
    BY <1>0, <1>8, <2>1, <2>6, <2>7, <2>8 DEF HandleUpdate, VenueTyped, RestTyped
<1>9. CASE Tick
  <2>1. Least(ticks + 1, MaxHold) \in 0..MaxHold /\ Least(heldFor + 1, MaxHold) \in 0..MaxHold
    BY <1>0, ArbAssumption DEF ArbTyped, RestTyped, Least
  <2>2. ArbTyped' /\ orders' \in [Cids -> OrderRecord]
    <3>1. CASE PlaceExit(Least(ticks + 1, MaxHold))
      BY <1>0, <2>1, <3>1, ExitTyped
    <3>2. CASE /\ ticks' = Least(ticks + 1, MaxHold)
               /\ UNCHANGED <<kind, side, cid, streak, net, issued, orders>>
      BY <1>0, <2>1, <3>2 DEF ArbTyped, VenueTyped
    <3> QED
      BY <1>9, <3>1, <3>2 DEF Tick
  <2> QED
    BY <1>0, <1>9, <2>1, <2>2 DEF Tick, VenueTyped, RestTyped
<1>10. CASE TickDisconnected
  BY <1>0, <1>10 DEF TickDisconnected, ArbTyped, VenueTyped, RestTyped
<1>11. ASSUME NEW c \in Cids, Execute(c)
       PROVE  ArbTyped' /\ VenueTyped' /\ RestTyped'
  <2>1. /\ orders' = [orders EXCEPT ![c].status = "done"]
        /\ \E f \in 0..Fillable(orders[c]) : position' = position + orders[c].side * f
        /\ trades' \in Seq(TradeEvent) /\ updates' \in Seq(UpdateEvent)
        /\ UNCHANGED <<phase, arbVars, restVars, historyVars>>
    BY <1>0, <1>11, ExecuteEffect
  <2>2. orders' \in [Cids -> OrderRecord]
    BY <1>0, <2>1, ZenonT(30) DEF VenueTyped, OrderRecord
  <2>3. position' \in Int
    <3>1. PICK f \in 0..Fillable(orders[c]) : position' = position + orders[c].side * f
      BY <2>1
    <3>2. f \in Int
      OBVIOUS
    <3>3. position \in Int /\ orders[c].side \in Int
      BY <1>0 DEF VenueTyped, OrderRecord, Sides
    <3> QED
      BY <3>1, <3>2, <3>3
  <2> QED
    BY <1>0, <2>1, <2>2, <2>3 DEF ArbTyped, VenueTyped, RestTyped
<1>12. CASE Disconnect
  BY <1>0, <1>12 DEF Disconnect, ArbTyped, VenueTyped, RestTyped
<1>13. CASE UNCHANGED vars
  BY <1>0, <1>13 DEF vars, ArbTyped, VenueTyped, RestTyped
<1> QED
  BY <1>1, <1>2, <1>3, <1>4, <1>5, <1>6, <1>7, <1>8, <1>9, <1>10, <1>11, <1>12, <1>13
     DEF Next, Evaluate

\* The types of the actor's state and of the venue's, for any sizes,
\* thresholds and bounds: in particular the actor has an order's id on record
\* exactly while it is entering or exiting.
THEOREM TypeCorrect == Spec => []TypeOK
<1> QED
  BY InitTyped, TypeStep, PTL DEF Spec

-----------------------------------------------------------------------------
(* How long a position is held.                                            *)

\* ticks is what the history variable counts: no path into or out of an exit
\* resets or advances one without the other.
HoldInv ==
  /\ phase = "new" => kind = "flat"
  /\ phase = "running" /\ kind \in {"holding", "exiting"} => ticks = heldFor

LEMMA HoldStep ==
  ASSUME TypeOK, HoldInv, [Next]_vars
  PROVE  HoldInv'
<1> USE DEF HoldInv, arbVars, historyVars
<1>0. ArbTyped /\ VenueTyped /\ RestTyped
  BY TypeSplit
<1>1. CASE Start
  BY <1>1 DEF Start
<1>2. CASE WindDown
  BY <1>2 DEF WindDown
<1>3. ASSUME NEW s \in Spreads, Observe(s) \/ EnterPaper(s) \/ Enter(s)
      PROVE  HoldInv'
  BY <1>3 DEF Observe, EnterPaper, Enter
<1>4. ASSUME NEW s \in Spreads, Exit(s)
      PROVE  HoldInv'
  BY <1>0, <1>4, ExitEffect DEF Exit, ToFlat, ArbTyped
<1>5. CASE HandleTrade
  BY <1>5 DEF HandleTrade, ToFlat
<1>6. CASE HandleUpdate
  BY <1>6 DEF HandleUpdate, ToFlat, ResumedTicks
<1>7. CASE Tick
  <2>1. Least(ticks + 1, MaxHold) \in 0..MaxHold /\ ticks = heldFor
    BY <1>0, <1>7, ArbAssumption DEF Tick, ArbTyped, Least
  <2> QED
    BY <1>0, <1>7, <2>1, ExitEffect DEF Tick, ToFlat
<1>8. CASE TickDisconnected
  BY <1>8 DEF TickDisconnected
<1>9. ASSUME NEW c \in Cids, Execute(c)
      PROVE  HoldInv'
  BY <1>9 DEF Execute
<1>10. CASE Disconnect
  BY <1>10 DEF Disconnect
<1>11. CASE UNCHANGED vars
  BY <1>11 DEF vars
<1> QED
  BY <1>1, <1>2, <1>3, <1>4, <1>5, <1>6, <1>7, <1>8, <1>9, <1>10, <1>11 DEF Next, Evaluate

\* A position is held for max_hold_ticks at most before the actor tries to
\* leave it, however often exits fail (strategy.rs:668-671).
THEOREM HoldIsBounded == Spec => HoldBounded
<1>1. Init => HoldInv
  BY DEF Init, HoldInv
<1>2. TypeOK /\ HoldInv /\ Tick /\ heldFor + 1 >= MaxHold => issued' > issued \/ kind' = "flat"
  <2> SUFFICES ASSUME TypeOK, HoldInv, Tick, heldFor + 1 >= MaxHold
               PROVE  issued' > issued \/ kind' = "flat"
    OBVIOUS
  <2>1. ArbTyped /\ VenueTyped
    BY TypeSplit
  <2>2. ticks = heldFor /\ ticks \in Nat
    BY <2>1, ArbAssumption DEF Tick, HoldInv, ArbTyped
  <2>3. Least(ticks + 1, MaxHold) = MaxHold /\ MaxHold \in 0..MaxHold
    BY <2>2, ArbAssumption DEF Least
  <2>4. PlaceExit(MaxHold)
    BY <2>2, <2>3, ArbAssumption DEF Tick
  <2>5. CASE ToFlat
    BY <2>5 DEF ToFlat
  <2>6. ASSUME NEW outcome \in Outcomes, Place(-Sign(net), Abs(net), TRUE, outcome)
        PROVE  issued' > issued
    BY <2>1, <2>6 DEF Place, ArbTyped
  <2> QED
    BY <2>1, <2>3, <2>4, <2>5, <2>6, ExitEffect
<1>3. TypeOK /\ HoldInv /\ [Next]_vars
        => [Tick /\ heldFor + 1 >= MaxHold => issued' > issued \/ kind' = "flat"]_vars
  BY <1>2
<1> QED
  BY <1>1, <1>3, TypeCorrect, HoldStep, PTL DEF Spec, HoldBounded

-----------------------------------------------------------------------------
(* What a step does to the venue's record, whoever takes it.               *)

\* Placing with an outcome, as the record shows it.
Placed(outcome) ==
  /\ issued' = issued + 1 /\ issued' \in Cids /\ outcome \in Outcomes
  /\ \A c \in Cids : c # issued' => orders'[c] = orders[c]
  /\ \/ outcome = "refused" /\ orders' = orders
     \/ /\ outcome # "refused"
        /\ orders'[issued'].status = "submitted"
        /\ orders'[issued'].lost = (outcome = "lost")
        /\ orders'[issued'].closing => orders'[issued'].reduce

\* The actor places from Flat or Holding, when it has no order in flight, or on
\* its way out; the order it takes for its own is the one that was accepted.
PlacedByActor ==
  \E outcome \in Outcomes :
    /\ Placed(outcome)
    /\ UNCHANGED <<trades, updates>>
    /\ phase = "running" /\ phase' \in {"running", "down"}
    /\ phase' = "running" => /\ cid = 0
                             /\ cid' = IF outcome = "accepted" THEN issued' ELSE cid

\* Nothing happens to the orders; the actor may let go of its own when the event
\* at the head of a queue is about it.
OrdersLeft ==
  /\ UNCHANGED <<orders, issued>>
  /\ phase' # phase => phase' # "running" \/ phase = "new"
  /\ phase' = "new" => phase = "new"
  /\ \/ trades' = trades \/ (trades # <<>> /\ trades' = Tail(trades))
  /\ \/ updates' = updates \/ (updates # <<>> /\ updates' = Tail(updates))
  /\ \/ cid' = cid \/ phase' # "running" \/ cid = 0
     \/ trades # <<>> /\ cid = Head(trades).cid
     \/ updates # <<>> /\ cid = Head(updates).cid
  /\ cid' = cid \/ cid' = 0

\* A wind-down or an exit, seen from the record.
LEMMA ExitOrders ==
  ASSUME TypeOK, NEW t \in 0..MaxHold, PlaceExit(t), UNCHANGED <<trades, updates>>,
         phase = "running", phase' \in {"running", "down"}, phase' = "running" => cid = 0
  PROVE  OrdersLeft \/ PlacedByActor
<1>0. ArbTyped /\ VenueTyped
  BY TypeSplit
<1>1. CASE ToFlat /\ UNCHANGED <<issued, orders>>
  BY <1>1 DEF ToFlat, OrdersLeft
<1>2. ASSUME NEW outcome \in Outcomes, Place(-Sign(net), Abs(net), TRUE, outcome),
             -Sign(net) \in Sides /\ Sign(net) \in Sides /\ Abs(net) \in Nat,
             \/ outcome = "accepted" /\ cid' = issued'
             \/ outcome # "accepted" /\ cid' = cid
      PROVE  PlacedByActor
  <2>1. Placed(outcome)
    BY <1>0, <1>2, PlaceEffect, Zenon DEF Placed
  <2> QED
    BY <1>2, <2>1 DEF PlacedByActor
<1> QED
  BY <1>0, <1>1, <1>2, ExitEffect

\* Every step leaves the record, adds an order of the actor's or executes one.
LEMMA OrderSteps ==
  ASSUME TypeOK, [Next]_vars
  PROVE  OrdersLeft \/ PlacedByActor \/ \E c \in Cids : Execute(c)
<1> USE DEF arbVars, venueVars
<1>0. ArbTyped /\ VenueTyped
  BY TypeSplit
<1>1. CASE Start
  BY <1>1 DEF Start, OrdersLeft
<1>2. CASE WindDown
  <2>1. CASE PlaceExit(ticks)
    BY <1>0, <1>2, <2>1, ExitOrders DEF WindDown, ArbTyped
  <2>2. CASE UNCHANGED <<arbVars, orders>>
    BY <1>2, <2>2 DEF WindDown, OrdersLeft
  <2> QED
    BY <1>2, <2>1, <2>2 DEF WindDown
<1>3. ASSUME NEW s \in Spreads, Observe(s) \/ EnterPaper(s)
      PROVE  OrdersLeft
  BY <1>3 DEF Observe, EnterPaper, OrdersLeft
<1>4. ASSUME NEW s \in Spreads, Enter(s)
      PROVE  PlacedByActor
  <2>1. PICK outcome \in Outcomes :
          /\ Place(DesiredSide(s), Size, FALSE, outcome)
          /\ IF outcome = "accepted"
             THEN kind' = "entering" /\ side' = DesiredSide(s) /\ cid' = issued'
             ELSE UNCHANGED <<kind, side, cid>>
    BY <1>4 DEF Enter
  <2>2. Placed(outcome)
    BY <1>0, <2>1, StreakTyped, PlaceEffect, ArbAssumption, Zenon DEF Placed
  <2>3. cid = 0
    BY <1>0, <1>4 DEF Enter, ArbTyped
  <2> QED
    BY <1>4, <2>1, <2>2, <2>3 DEF Enter, PlacedByActor
<1>5. ASSUME NEW s \in Spreads, Exit(s)
      PROVE  OrdersLeft \/ PlacedByActor
  BY <1>0, <1>5, ExitOrders DEF Exit, ArbTyped
<1>6. CASE HandleTrade
  BY <1>6 DEF HandleTrade, ToFlat, Current, OrdersLeft
<1>7. CASE HandleUpdate
  BY <1>7 DEF HandleUpdate, ToFlat, Current, OrdersLeft
<1>8. CASE Tick
  <2>1. Least(ticks + 1, MaxHold) \in 0..MaxHold /\ cid = 0
    BY <1>0, <1>8, ArbAssumption DEF Tick, ArbTyped, Least
  <2>2. CASE PlaceExit(Least(ticks + 1, MaxHold))
    BY <1>8, <2>1, <2>2, ExitOrders DEF Tick
  <2>3. CASE UNCHANGED <<kind, side, cid, streak, net, issued, orders>>
    BY <1>8, <2>3 DEF Tick, OrdersLeft
  <2> QED
    BY <1>8, <2>2, <2>3 DEF Tick
<1>9. CASE TickDisconnected
  BY <1>9 DEF TickDisconnected, OrdersLeft
<1>10. CASE Disconnect
  BY <1>10 DEF Disconnect, OrdersLeft
<1>11. CASE UNCHANGED vars
  BY <1>11 DEF vars, OrdersLeft
<1> QED
  BY <1>1, <1>2, <1>3, <1>4, <1>5, <1>6, <1>7, <1>8, <1>9, <1>10, <1>11 DEF Next, Evaluate

-----------------------------------------------------------------------------
(* Closing orders.                                                         *)

ReduceInv == \A c \in Cids : orders[c].closing => orders[c].reduce

LEMMA ReduceStep ==
  ASSUME TypeOK, ReduceInv, [Next]_vars
  PROVE  ReduceInv'
<1>0. VenueTyped
  BY TypeSplit
<1>1. CASE OrdersLeft
  BY <1>1 DEF OrdersLeft, ReduceInv
<1>2. CASE PlacedByActor
  BY <1>2 DEF PlacedByActor, Placed, ReduceInv
<1>3. ASSUME NEW c \in Cids, Execute(c)
      PROVE  ReduceInv'
  <2>1. orders' = [orders EXCEPT ![c].status = "done"]
    BY <1>0, <1>3, ExecuteEffect
  <2> QED
    BY <1>0, <2>1 DEF ReduceInv, VenueTyped, OrderRecord
<1> QED
  BY <1>1, <1>2, <1>3, OrderSteps

\* What a reduce-only order fills brings the account closer to flat.
LEMMA ReducingFill ==
  ASSUME NEW p \in Int, NEW d \in Sides, NEW f \in Nat, f <= Abs(p), Sign(p) = -d
  PROVE  Abs(p + d * f) <= Abs(p)
<1>1. CASE d = 1
  <2>1. p < 0
    <3>1. -d # 0 /\ -d # 1
      BY <1>1
    <3> QED
      BY <3>1 DEF Sign
  <2>2. f <= -p /\ Abs(p) = -p
    BY <2>1 DEF Abs
  <2>3. p + d * f = p + f
    BY <1>1
  <2> QED
    BY <2>1, <2>2, <2>3 DEF Abs
<1>2. CASE d = -1
  <2>1. p > 0
    <3>1. -1 \in Int /\ -1 + 1 = 0 /\ \A i \in Int : i + 1 = 0 => -i = 1
      OBVIOUS
    <3>2. -d = 1
      BY <1>2, <3>1
    <3> QED
      BY <3>2 DEF Sign
  <2>2. f <= p /\ Abs(p) = p
    BY <2>1 DEF Abs
  <2>3. p + d * f = p - f
    <3>1. -1 \in Int /\ -1 + 1 = 0 /\ \A i \in Int : i + 1 = 0 => i * f = 0 - f
      OBVIOUS
    <3>2. d * f = 0 - f
      BY <1>2, <3>1
    <3> QED
      BY <3>2
  <2> QED
    BY <2>1, <2>2, <2>3 DEF Abs
<1> QED
  BY <1>1, <1>2 DEF Sides

\* An order meant to close is reduce-only, so executing it never leaves the
\* account with more exposure, even when the tracker it was sized from is behind
\* or another closing order is working (strategy.rs:361-448).
THEOREM ExitReduces == Spec => ExitNeverGrows
<1> DEFINE Closes(c) == orders[c].closing /\ orders[c].status = "submitted" /\ orders'[c].status = "done"
<1>1. Init => ReduceInv
  BY DEF Init, ReduceInv, NoOrder
<1>2. ASSUME TypeOK, ReduceInv, [Next]_vars, NEW c \in Cids, Closes(c)
      PROVE  Abs(position') <= Abs(position)
  <2>0. VenueTyped
    BY <1>2, TypeSplit
  <2>1. ~OrdersLeft /\ ~PlacedByActor
    BY <1>2 DEF OrdersLeft, PlacedByActor, Placed
  <2>2. PICK d \in Cids : Execute(d)
    BY <1>2, <2>1, OrderSteps
  <2>3. /\ orders' = [orders EXCEPT ![d].status = "done"]
        /\ \E f \in 0..Fillable(orders[d]) : position' = position + orders[d].side * f
    BY <2>0, <2>2, ExecuteEffect
  <2>4. d = c
    BY <1>2, <2>0, <2>3 DEF VenueTyped
  <2>5. PICK f \in 0..Fillable(orders[c]) : position' = position + orders[c].side * f
    BY <2>3, <2>4
  <2>6. orders[c] \in OrderRecord /\ orders[c].reduce /\ position \in Int
    BY <1>2, <2>0 DEF ReduceInv, VenueTyped
  <2>7. orders[c].side \in Sides \cup {0} /\ orders[c].qty \in Nat
    BY <2>6 DEF OrderRecord
  <2>8. Abs(position) \in Nat
    BY <2>6 DEF Abs
  <2>9. CASE Sign(position) = -orders[c].side
    <3>1. f \in Nat /\ f <= Abs(position)
      BY <2>5, <2>6, <2>7, <2>8, <2>9 DEF Fillable, Least
    <3>2. CASE orders[c].side = 0
      <4>1. orders[c].side * f = 0
        BY <3>1, <3>2
      <4> QED
        BY <2>5, <2>6, <2>8, <4>1
    <3>3. CASE orders[c].side \in Sides
      BY <2>5, <2>6, <2>9, <3>1, <3>3, ReducingFill
    <3> QED
      BY <2>7, <3>2, <3>3
  <2>10. CASE Sign(position) # -orders[c].side
    <3>1. f = 0
      BY <2>5, <2>6, <2>10 DEF Fillable
    <3>2. orders[c].side \in Int
      BY <2>7 DEF Sides
    <3>3. orders[c].side * f = 0
      BY <3>1, <3>2
    <3> QED
      BY <2>5, <2>6, <2>8, <3>3
  <2> QED
    BY <2>9, <2>10
<1>3. TypeOK /\ ReduceInv /\ [Next]_vars
        => [\A c \in Cids : Closes(c) => Abs(position') <= Abs(position)]_vars
  BY <1>2
<1> QED
  BY <1>1, <1>3, TypeCorrect, ReduceStep, PTL DEF Spec, ExitNeverGrows

-----------------------------------------------------------------------------
(* One order at a time.                                                    *)

\* The venue knows of no order that was not placed, and reports of an order only
\* once it is done.
RecordInv ==
  /\ phase = "new" => issued = 0
  /\ \A c \in Cids : c > issued => orders[c] = NoOrder
  /\ \A i \in DOMAIN trades : orders[trades[i].cid].status = "done"
  /\ \A i \in DOMAIN updates : orders[updates[i].cid].status = "done"

\* An order that is still at the venue is the actor's own.
OwnInv ==
  phase = "running" /\ Lost = {} => \A c \in Cids : orders[c].status = "submitted" => c = cid

LEMMA ReportedCids ==
  ASSUME VenueTyped
  PROVE  /\ \A i \in DOMAIN trades : trades[i].cid \in Cids
         /\ \A i \in DOMAIN updates : updates[i].cid \in Cids
<1>1. /\ \A i \in DOMAIN trades : trades[i] \in TradeEvent
      /\ \A i \in DOMAIN updates : updates[i] \in UpdateEvent
  BY DEF VenueTyped
<1> QED
  BY <1>1 DEF TradeEvent, UpdateEvent

LEMMA RecordStep ==
  ASSUME TypeOK, RecordInv, [Next]_vars
  PROVE  RecordInv'
<1>0. ArbTyped /\ VenueTyped
  BY TypeSplit
<1>1. CASE OrdersLeft
  <2>1. \A i \in DOMAIN trades' : \E j \in DOMAIN trades : trades'[i] = trades[j]
    <3>1. ASSUME trades # <<>>, trades' = Tail(trades), NEW i \in DOMAIN trades'
          PROVE  i + 1 \in DOMAIN trades /\ trades'[i] = trades[i + 1]
      BY <1>0, <3>1 DEF VenueTyped
    <3> QED
      BY <1>1, <3>1 DEF OrdersLeft
  <2>2. \A i \in DOMAIN updates' : \E j \in DOMAIN updates : updates'[i] = updates[j]
    <3>1. ASSUME updates # <<>>, updates' = Tail(updates), NEW i \in DOMAIN updates'
          PROVE  i + 1 \in DOMAIN updates /\ updates'[i] = updates[i + 1]
      BY <1>0, <3>1 DEF VenueTyped
    <3> QED
      BY <1>1, <3>1 DEF OrdersLeft
  <2>3. phase' = "new" => phase = "new"
    BY <1>1 DEF OrdersLeft
  <2> QED
    BY <1>1, <2>1, <2>2, <2>3 DEF OrdersLeft, RecordInv
<1>2. CASE PlacedByActor
  <2>1. PICK outcome \in Outcomes : Placed(outcome)
    BY <1>2 DEF PlacedByActor
  <2>2. UNCHANGED <<trades, updates>> /\ phase' # "new"
    BY <1>2 DEF PlacedByActor
  <2>3. issued \in Nat /\ issued' > issued /\ \A c \in Cids : c > issued' => c > issued /\ c # issued'
    BY <1>0, <2>1, ArbAssumption DEF ArbTyped, Placed, Cids
  <2>4. \A c \in Cids : orders[c].status = "done" => c # issued'
    BY <2>1, <2>3 DEF RecordInv, NoOrder, Placed
  <2>5. /\ \A i \in DOMAIN trades : trades[i].cid \in Cids
        /\ \A i \in DOMAIN updates : updates[i].cid \in Cids
    BY <1>0, ReportedCids
  <2> QED
    BY <2>1, <2>2, <2>3, <2>4, <2>5 DEF RecordInv, Placed
<1>3. ASSUME NEW c \in Cids, Execute(c)
      PROVE  RecordInv'
  <2>1. /\ orders[c].status = "submitted"
        /\ orders' = [orders EXCEPT ![c].status = "done"]
        /\ \A i \in DOMAIN trades' : trades'[i].cid = c \/ \E j \in DOMAIN trades : trades'[i] = trades[j]
        /\ \A i \in DOMAIN updates' : updates'[i].cid = c \/ \E j \in DOMAIN updates : updates'[i] = updates[j]
        /\ phase' = phase /\ issued' = issued
    BY <1>0, <1>3, ExecuteEffect DEF arbVars
  <2>2. orders'[c].status = "done" /\ \A d \in Cids : d # c => orders'[d] = orders[d]
    BY <1>0, <2>1 DEF VenueTyped, OrderRecord
  <2>3. c <= issued
    BY <1>0, <2>1, ArbAssumption DEF RecordInv, NoOrder, ArbTyped, Cids
  <2>4. /\ \A i \in DOMAIN trades : trades[i].cid \in Cids
        /\ \A i \in DOMAIN updates : updates[i].cid \in Cids
    BY <1>0, ReportedCids
  <2>5. \A d \in Cids : d > issued => d # c
    BY <1>0, <2>3, ArbAssumption DEF ArbTyped, Cids
  <2> QED
    BY <2>1, <2>2, <2>4, <2>5 DEF RecordInv
<1> QED
  BY <1>1, <1>2, <1>3, OrderSteps

LEMMA OwnStep ==
  ASSUME TypeOK, RecordInv, OwnInv, [Next]_vars
  PROVE  OwnInv'
<1>0. ArbTyped /\ VenueTyped
  BY TypeSplit
<1>1. CASE OrdersLeft
  <2>1. CASE phase = "new"
    BY <1>0, <1>1, <2>1, ArbAssumption DEF OrdersLeft, OwnInv, RecordInv, NoOrder, ArbTyped, Cids
  <2>2. CASE phase # "new" /\ phase' = "running"
    <3>1. phase = "running" /\ Lost' = Lost
      BY <1>1, <2>2 DEF OrdersLeft, Lost
    <3>2. CASE cid' = cid \/ cid = 0
      BY <1>1, <3>1, <3>2 DEF OrdersLeft, OwnInv, Cids
    <3>3. CASE trades # <<>> /\ cid = Head(trades).cid
      <4>1. 1 \in DOMAIN trades /\ Head(trades) = trades[1]
        BY <1>0, <3>3 DEF VenueTyped
      <4> QED
        BY <1>1, <3>1, <3>3, <4>1 DEF OrdersLeft, OwnInv, RecordInv
    <3>4. CASE updates # <<>> /\ cid = Head(updates).cid
      <4>1. 1 \in DOMAIN updates /\ Head(updates) = updates[1]
        BY <1>0, <3>4 DEF VenueTyped
      <4> QED
        BY <1>1, <3>1, <3>4, <4>1 DEF OrdersLeft, OwnInv, RecordInv
    <3> QED
      BY <1>1, <2>2, <3>2, <3>3, <3>4 DEF OrdersLeft
  <2>3. CASE phase' # "running"
    BY <2>3 DEF OwnInv
  <2> QED
    BY <2>1, <2>2, <2>3
<1>2. CASE PlacedByActor
  <2>1. PICK outcome \in Outcomes :
          /\ Placed(outcome)
          /\ phase = "running"
          /\ phase' = "running" => cid = 0 /\ cid' = IF outcome = "accepted" THEN issued' ELSE cid
    BY <1>2 DEF PlacedByActor
  <2> SUFFICES ASSUME phase' = "running", Lost' = {}, NEW c \in Cids, orders'[c].status = "submitted"
               PROVE  c = cid'
    BY DEF OwnInv
  <2>2. orders[issued'] = NoOrder /\ issued' \in Cids
    BY <1>0, <2>1, ArbAssumption DEF Placed, RecordInv, ArbTyped, Cids
  <2>3. Lost = {}
    <3>1. ASSUME NEW d \in Cids PROVE ~orders[d].lost
      <4>1. CASE d = issued'
        BY <2>2, <4>1 DEF NoOrder
      <4>2. CASE d # issued'
        <5>1. orders'[d] = orders[d]
          BY <2>1, <4>2 DEF Placed
        <5> QED
          BY <5>1 DEF Lost
      <4> QED
        BY <4>1, <4>2
    <3> QED
      BY <3>1 DEF Lost
  <2>4. c = issued'
    <3>1. SUFFICES ASSUME c # issued' PROVE FALSE
      OBVIOUS
    <3>2. orders'[c] = orders[c]
      BY <2>1, <3>1 DEF Placed
    <3>3. c = cid /\ cid = 0
      BY <2>1, <2>3, <3>2 DEF OwnInv
    <3> QED
      BY <3>3 DEF Cids
  <2>5. outcome # "refused"
    BY <2>1, <2>2, <2>4 DEF Placed, NoOrder
  <2>6. outcome # "lost"
    BY <2>1, <2>2, <2>5 DEF Placed, Lost
  <2> QED
    BY <2>1, <2>4, <2>5, <2>6 DEF Outcomes
<1>3. ASSUME NEW c \in Cids, Execute(c)
      PROVE  OwnInv'
  <2>1. orders' = [orders EXCEPT ![c].status = "done"] /\ phase' = phase /\ cid' = cid
    BY <1>0, <1>3, ExecuteEffect DEF arbVars
  <2>2. /\ \A d \in Cids : orders'[d].lost = orders[d].lost
        /\ \A d \in Cids : orders'[d].status = "submitted" => orders[d].status = "submitted"
    BY <1>0, <2>1 DEF VenueTyped, OrderRecord
  <2>3. Lost' = Lost
    BY <2>2 DEF Lost
  <2> QED
    BY <2>1, <2>2, <2>3 DEF OwnInv
<1> QED
  BY <1>1, <1>2, <1>3, OrderSteps

\* The actor never has two orders at the venue while it runs, if every placement
\* it is told has failed did fail (strategy.rs:18 "At most one open order at a
\* time").
THEOREM OneOrder == Spec => []OneLiveOrder
<1>1. Init => RecordInv /\ OwnInv
  BY DEF Init, RecordInv, OwnInv, NoOrder
<1>2. OwnInv => OneLiveOrder
  <2> SUFFICES ASSUME OwnInv, phase = "running", Lost = {}
               PROVE  Cardinality({c \in Cids : orders[c].status = "submitted"}) <= 1
    BY DEF OneLiveOrder
  <2> DEFINE live == {c \in Cids : orders[c].status = "submitted"}
  <2>1. live = {} \/ live = {cid}
    BY DEF OwnInv
  <2>2. Cardinality({}) = 0 /\ Cardinality({cid}) = 1
    BY FS_EmptySet, FS_Singleton
  <2> HIDE DEF live
  <2>3. Cardinality(live) <= 1
    BY <2>1, <2>2
  <2> QED
    BY <2>3 DEF live
<1> QED
  BY <1>1, <1>2, TypeCorrect, RecordStep, OwnStep, PTL DEF Spec

-----------------------------------------------------------------------------
(* The tracker.                                                            *)

LEMMA QueuedIsFlow == QueuedQty = Flow(trades)
BY DEF QueuedQty, Flow

\* The queue of trades adds up, and gives its head away.
LEMMA QueueFlow ==
  ASSUME VenueTyped
  PROVE  /\ Flow(trades) \in Int
         /\ trades = <<>> => Flow(trades) = 0
         /\ (\A i \in DOMAIN trades : trades[i].qty <= 0) => Flow(trades) <= 0
         /\ (\A i \in DOMAIN trades : trades[i].qty >= 0) => Flow(trades) >= 0
         /\ trades # <<>> => /\ Flow(trades) = Head(trades).qty + Flow(Tail(trades))
                             /\ Head(trades).qty \in Int
<1>1. trades \in Seq(TradeEvent) /\ \A t \in TradeEvent : t.qty \in Int
  BY DEF VenueTyped, TradeEvent
<1>2. trades # <<>> => Head(trades) \in TradeEvent
  BY <1>1
<1> QED
  BY <1>1, <1>2, FlowType, FlowTail

\* The trades that f of an order is reported in.
Reports(c, f) ==
  /\ Flow(trades') = Flow(trades) + orders[c].side * f
  /\ \A i \in DOMAIN trades : i \in DOMAIN trades' /\ trades'[i] = trades[i]
  /\ \A i \in DOMAIN trades' : \/ i \in DOMAIN trades
                               \/ /\ trades'[i].cid = c /\ \A j \in DOMAIN trades : j < i
                                  /\ \E m \in Nat \ {0} : trades'[i].qty = orders[c].side * m

\* One trade more.
LEMMA ReportsOne ==
  ASSUME NEW q \in Seq(TradeEvent), NEW c \in Cids, NEW d \in Int, NEW m \in Nat \ {0}
  PROVE  LET e == [cid |-> c, qty |-> d * m]
             r == Append(q, e)
         IN  /\ r \in Seq(TradeEvent) /\ Flow(r) = Flow(q) + d * m
             /\ \A i \in DOMAIN q : i \in DOMAIN r /\ r[i] = q[i]
             /\ \A i \in DOMAIN r : i \in DOMAIN q \/ (r[i] = e /\ \A j \in DOMAIN q : j < i)
<1> DEFINE e == [cid |-> c, qty |-> d * m]
           r == Append(q, e)
<1>1. e \in TradeEvent /\ e.qty = d * m
  BY DEF TradeEvent
<1>2. \A t \in TradeEvent : t.qty \in Int
  BY DEF TradeEvent
<1> HIDE DEF e
<1>3. r \in Seq(TradeEvent) /\ DOMAIN r = 1..(Len(q) + 1) /\ r[Len(q) + 1] = e
      /\ DOMAIN q = 1..Len(q) /\ Len(q) \in Nat /\ \A i \in 1..Len(q) : r[i] = q[i]
  BY <1>1
<1>4. Flow(r) = Flow(q) + e.qty
  BY <1>1, <1>2, FlowAppend
<1> HIDE DEF r
<1>5. \A i \in DOMAIN r : i \in DOMAIN q \/ (r[i] = e /\ \A j \in DOMAIN q : j < i)
  BY <1>3
<1> QED
  BY <1>1, <1>3, <1>4, <1>5 DEF e, r

\* Executing an order moves what is reported.
LEMMA ExecuteReports ==
  ASSUME VenueTyped, NEW c \in Cids, Execute(c), ~disconnected
  PROVE  \E f \in 0..orders[c].qty : position' = position + orders[c].side * f /\ Reports(c, f)
<1>1. PICK f \in 0..Fillable(orders[c]) :
        /\ position' = position + orders[c].side * f
        /\ \E p \in Parts(f) : trades' = trades \o Reported(c, p)
  BY DEF Execute
<1>2. PICK p \in Parts(f) : trades' = trades \o Reported(c, p)
  BY <1>1
<1>3. trades \in Seq(TradeEvent) /\ orders[c] \in OrderRecord /\ position \in Int
  BY DEF VenueTyped
<1>4. orders[c].qty \in Nat /\ orders[c].side \in Int
  BY <1>3 DEF OrderRecord, Sides
<1>5. f \in 0..orders[c].qty
  BY <1>3, <1>4 DEF Fillable, Least, Abs
<1>6. Flow(trades) \in Int
  BY QueueFlow
<1> DEFINE d == orders[c].side
           e(m) == [cid |-> c, qty |-> d * m]
<1>7. CASE f = 0
  <2>1. p = <<>>
    BY <1>2, <1>7 DEF Parts
  <2>2. Reported(c, p) = <<>>
    BY <2>1 DEF Reported
  <2>3. trades' = trades /\ d * f = 0
    BY <1>2, <1>3, <1>4, <1>7, <2>2
  <2>4. Reports(c, f)
    BY <1>6, <2>3 DEF Reports
  <2> QED
    BY <1>1, <1>5, <2>4
<1>8. CASE f # 0 /\ p = <<f>>
  <2>1. Reported(c, p) = <<e(f)>>
    BY <1>8 DEF Reported
  <2>2. trades' = Append(trades, e(f))
    BY <1>2, <1>3, <2>1
  <2>3. f \in Nat \ {0}
    BY <1>5, <1>8
  <2>4. Reports(c, f)
    <3>1. /\ Flow(trades') = Flow(trades) + d * f
          /\ \A i \in DOMAIN trades : i \in DOMAIN trades' /\ trades'[i] = trades[i]
          /\ \A i \in DOMAIN trades' : i \in DOMAIN trades \/ (trades'[i] = e(f) /\ \A j \in DOMAIN trades : j < i)
      BY <1>3, <1>4, <2>2, <2>3, ReportsOne
    <3>2. e(f).cid = c /\ e(f).qty = d * f
      OBVIOUS
    <3> QED
      BY <2>3, <3>1, <3>2 DEF Reports
  <2> QED
    BY <1>1, <1>5, <2>4
<1>9. CASE f > 1 /\ p = <<1, f - 1>>
  <2>1. Reported(c, p) = <<e(1), e(f - 1)>>
    BY <1>9 DEF Reported
  <2> DEFINE q == Append(trades, e(1))
  <2>2. trades' = Append(q, e(f - 1))
    <3>1. e(1) \in TradeEvent /\ e(f - 1) \in TradeEvent
      BY <1>4, <1>5 DEF TradeEvent
    <3> HIDE DEF e
    <3> QED
      BY <1>2, <1>3, <2>1, <3>1
  <2>3. f - 1 \in Nat \ {0} /\ 1 \in Nat \ {0}
    BY <1>5, <1>9
  <2>4. /\ q \in Seq(TradeEvent) /\ Flow(q) = Flow(trades) + d * 1
        /\ \A i \in DOMAIN trades : i \in DOMAIN q /\ q[i] = trades[i]
        /\ \A i \in DOMAIN q : i \in DOMAIN trades \/ (q[i] = e(1) /\ \A j \in DOMAIN trades : j < i)
    BY <1>3, <1>4, <2>3, ReportsOne
  <2> HIDE DEF q
  <2>5. /\ Flow(trades') = Flow(q) + d * (f - 1)
        /\ \A i \in DOMAIN q : i \in DOMAIN trades' /\ trades'[i] = q[i]
        /\ \A i \in DOMAIN trades' : i \in DOMAIN q \/ (trades'[i] = e(f - 1) /\ \A j \in DOMAIN q : j < i)
    BY <1>4, <2>2, <2>3, <2>4, ReportsOne
  <2>6. d * 1 + d * (f - 1) = d * f
    <3>1. d = 1 \/ d = -1 \/ d = 0
      BY <1>3 DEF OrderRecord, Sides
    <3>2. f \in Int
      BY <1>5
    <3> HIDE DEF d
    <3> QED
      BY <3>1, <3>2
  <2>7. Reports(c, f)
    <3>1. Flow(trades') = Flow(trades) + d * f
      <4>1. d * 1 \in Int /\ d * (f - 1) \in Int
        BY <1>4, <1>5
      <4> QED
        BY <1>6, <2>4, <2>5, <2>6, <4>1
    <3>2. /\ e(1).cid = c /\ e(1).qty = d * 1
          /\ e(f - 1).cid = c /\ e(f - 1).qty = d * (f - 1)
      OBVIOUS
    <3> HIDE DEF e
    <3>3. ASSUME NEW i \in DOMAIN trades', i \notin DOMAIN trades
          PROVE  /\ trades'[i].cid = c /\ \A j \in DOMAIN trades : j < i
                 /\ \E m \in Nat \ {0} : trades'[i].qty = d * m
      <4>1. CASE i \in DOMAIN q
        BY <2>3, <2>4, <2>5, <3>2, <3>3, <4>1
      <4>2. CASE i \notin DOMAIN q
        BY <2>3, <2>4, <2>5, <3>2, <4>2
      <4> QED
        BY <4>1, <4>2
    <3>4. \A i \in DOMAIN trades : i \in DOMAIN trades' /\ trades'[i] = trades[i]
      BY <2>4, <2>5
    <3> QED
      BY <3>1, <3>3, <3>4 DEF Reports
  <2> QED
    BY <1>1, <1>5, <2>7
<1> QED
  BY <1>2, <1>5, <1>7, <1>8, <1>9 DEF Parts

\* Before the start nothing is counted or queued.
NewInv == phase = "new" => net = 0 /\ trades = <<>> /\ kind = "flat"

BookInv == NewInv /\ InventoryExact

\* The tracker and what makes it up are left alone, but in a dry run.
TrackerKept ==
  /\ UNCHANGED <<trades, position, dryRun>> /\ (disconnected => disconnected')
  /\ ~dryRun /\ phase' = "running" => net' = net /\ phase = "running"
  /\ phase' = "new" => phase = "new" /\ net' = net /\ kind' = kind

\* They are by most steps.
LEMMA TrackerLeft ==
  ASSUME TypeOK, [Next]_vars, ~Start, ~HandleTrade, \A c \in Cids : ~Execute(c)
  PROVE  TrackerKept
<1> USE DEF arbVars, venueVars, restVars, TrackerKept
<1>1. ASSUME NEW t, PlaceExit(t), ~dryRun PROVE net' = net
  BY <1>1 DEF PlaceExit
<1>2. CASE WindDown
  BY <1>1, <1>2 DEF WindDown
<1>3. ASSUME NEW s \in Spreads, Observe(s) PROVE TrackerKept
  BY <1>3 DEF Observe
<1>31. ASSUME NEW s \in Spreads, EnterPaper(s) PROVE TrackerKept
  BY <1>31 DEF EnterPaper
<1>32. ASSUME NEW s \in Spreads, Enter(s) PROVE TrackerKept
  BY <1>32 DEF Enter
<1>4. ASSUME NEW s \in Spreads, Exit(s) PROVE TrackerKept
  BY <1>1, <1>4 DEF Exit
<1>5. CASE HandleUpdate
  BY <1>5 DEF HandleUpdate
<1>6. CASE Tick
  BY <1>1, <1>6 DEF Tick
<1>7. CASE TickDisconnected \/ Disconnect \/ UNCHANGED vars
  BY <1>7 DEF TickDisconnected, Disconnect, vars
<1> QED
  BY <1>2, <1>3, <1>31, <1>32, <1>4, <1>5, <1>6, <1>7, Zenon DEF Next, Evaluate

LEMMA BookStep ==
  ASSUME TypeOK, RecordInv, BookInv, [Next]_vars
  PROVE  BookInv'
<1>0. ArbTyped /\ VenueTyped
  BY TypeSplit
<1>1. CASE Start
  <2>1. /\ UNCHANGED <<net, trades, position>> /\ phase' # "new" /\ phase = "new"
        /\ phase' = "running" => position = 0
    BY <1>1 DEF Start, arbVars, venueVars
  <2>2. net = 0 /\ trades = <<>>
    BY <2>1 DEF BookInv, NewInv
  <2>3. Flow(trades) = 0 /\ Flow(trades') = Flow(trades)
    BY <1>0, <2>1, <2>2, QueueFlow
  <2>4. QueuedQty' = Flow(trades')
    BY DEF QueuedQty, Flow
  <2> QED
    BY <2>1, <2>2, <2>3, <2>4 DEF BookInv, NewInv, InventoryExact
<1>2. CASE HandleTrade
  <2>1. /\ phase = "running" /\ phase' = phase /\ trades # <<>> /\ trades' = Tail(trades)
        /\ net' = net + Head(trades).qty /\ UNCHANGED <<position, dryRun, disconnected>>
    BY <1>2 DEF HandleTrade, Counted, restVars
  <2>2. Flow(trades) = Head(trades).qty + Flow(trades') /\ Head(trades).qty \in Int
    BY <1>0, <2>1, QueueFlow
  <2>3. Flow(trades') \in Int /\ net \in Int
    <3>1. trades' \in Seq(TradeEvent)
      BY <1>0, <2>1 DEF VenueTyped
    <3>2. \A t \in TradeEvent : t.qty \in Int
      BY DEF TradeEvent
    <3> QED
      BY <1>0, <3>1, <3>2, FlowType DEF ArbTyped
  <2>4. QueuedQty' = Flow(trades') /\ QueuedQty = Flow(trades)
    BY DEF QueuedQty, Flow
  <2> QED
    BY <2>1, <2>2, <2>3, <2>4 DEF BookInv, NewInv, InventoryExact
<1>3. ASSUME NEW c \in Cids, Execute(c) PROVE BookInv'
  <2>1. orders[c].status = "submitted" /\ UNCHANGED <<phase, net, dryRun, disconnected>>
    BY <1>3 DEF Execute, arbVars, restVars
  <2>2. phase # "new"
    BY <1>0, <2>1, ArbAssumption DEF RecordInv, NoOrder, Cids
  <2>3. CASE disconnected
    BY <2>1, <2>2, <2>3 DEF BookInv, NewInv, InventoryExact
  <2>4. CASE ~disconnected
    <3>1. PICK f \in 0..orders[c].qty : position' = position + orders[c].side * f /\ Reports(c, f)
      BY <1>0, <1>3, <2>4, ExecuteReports
    <3>2. Flow(trades') = Flow(trades) + orders[c].side * f
      BY <3>1 DEF Reports
    <3>3. Flow(trades) \in Int /\ net \in Int /\ position \in Int
      BY <1>0, QueueFlow DEF ArbTyped, VenueTyped
    <3>4. orders[c].side * f \in Int
      <4>1. orders[c] \in OrderRecord
        BY <1>0 DEF VenueTyped
      <4>2. orders[c].side \in Int /\ orders[c].qty \in Nat
        BY <4>1 DEF OrderRecord, Sides
      <4> QED
        BY <4>2
    <3>5. QueuedQty' = Flow(trades') /\ QueuedQty = Flow(trades)
      BY DEF QueuedQty, Flow
    <3> QED
      BY <2>1, <2>2, <3>1, <3>2, <3>3, <3>4, <3>5 DEF BookInv, NewInv, InventoryExact
  <2> QED
    BY <2>3, <2>4
<1>4. CASE ~Start /\ ~HandleTrade /\ \A c \in Cids : ~Execute(c)
  <2>1. TrackerKept
    BY <1>4, TrackerLeft
  <2>2. QueuedQty' = QueuedQty
    BY <2>1 DEF QueuedQty, TrackerKept
  <2> QED
    BY <2>1, <2>2 DEF BookInv, NewInv, InventoryExact, TrackerKept
<1> QED
  BY <1>1, <1>2, <1>3, <1>4

\* The tracker and the trades on their way to it make up the position at every
\* moment of a live run (strategy.rs:580): for any sizes and thresholds, with any
\* number of orders, refused, lost and partly filled ones included.
THEOREM TrackerIsExact == Spec => []InventoryExact
<1>1. Init => RecordInv /\ BookInv
  BY DEF Init, RecordInv, NoOrder, BookInv, NewInv, InventoryExact
<1>2. BookInv => InventoryExact
  BY DEF BookInv
<1> QED
  BY <1>1, <1>2, TypeCorrect, RecordStep, BookStep, PTL DEF Spec

-----------------------------------------------------------------------------
(* From flat to flat.                                                      *)

\* An amount as it counts in the direction of a side.
With(s, x) == IF s = 1 THEN x ELSE -x

Away(c) == orders[c].status = "submitted"

\* A live run in which no end has overtaken a trade and no placement went unheard.
Tame == phase = "running" /\ ~dryRun /\ ~disconnected /\ ~overtaken /\ Lost = {}

\* What is queued is of the entry.
EnteringInv ==
  /\ net = 0
  /\ \A i \in DOMAIN trades : trades[i].cid = cid /\ With(side, trades[i].qty) > 0
  /\ Away(cid) => orders[cid].side = side

HoldingInv ==
  /\ With(side, net) > 0
  /\ \A i \in DOMAIN trades : With(side, trades[i].qty) > 0

\* What is queued of the entry comes before what is queued of the exit, and the
\* exit takes no more than both leave.
ExitingInv ==
  /\ With(side, net) > 0
  /\ \A i \in DOMAIN trades : IF trades[i].cid = cid THEN With(side, trades[i].qty) < 0
                                                     ELSE With(side, trades[i].qty) > 0
  /\ \A i, j \in DOMAIN trades : i < j /\ trades[i].cid = cid => trades[j].cid = cid
  /\ With(side, net + Flow(trades)) >= IF Away(cid) THEN orders[cid].qty ELSE 0
  /\ Away(cid) => orders[cid].side = -side

CycleInv ==
  Tame => /\ kind = "flat" => net = 0 /\ trades = <<>>
          /\ kind = "entering" => EnteringInv
          /\ kind = "holding" => HoldingInv
          /\ kind = "exiting" => ExitingInv

\* No lost placement is forgotten.
LEMMA LostStays ==
  ASSUME TypeOK, RecordInv, [Next]_vars
  PROVE  Lost \subseteq Lost'
<1>0. ArbTyped /\ VenueTyped
  BY TypeSplit
<1>1. CASE OrdersLeft
  BY <1>1 DEF OrdersLeft, Lost
<1>2. CASE PlacedByActor
  <2>1. PICK outcome \in Outcomes : Placed(outcome)
    BY <1>2 DEF PlacedByActor
  <2>2. orders[issued'] = NoOrder
    BY <1>0, <2>1, ArbAssumption DEF Placed, RecordInv, ArbTyped, Cids
  <2>3. ASSUME NEW c \in Cids, orders[c].lost PROVE orders'[c].lost
    <3>1. c # issued'
      BY <2>2, <2>3 DEF NoOrder
    <3> QED
      BY <2>1, <2>3, <3>1 DEF Placed
  <2> QED
    BY <2>3 DEF Lost
<1>3. ASSUME NEW c \in Cids, Execute(c)
      PROVE  Lost \subseteq Lost'
  <2>1. orders' = [orders EXCEPT ![c].status = "done"]
    BY <1>0, <1>3, ExecuteEffect
  <2>2. \A d \in Cids : orders'[d].lost = orders[d].lost
    BY <1>0, <2>1 DEF VenueTyped, OrderRecord
  <2> QED
    BY <2>2 DEF Lost
<1> QED
  BY <1>1, <1>2, <1>3, OrderSteps

LEMMA CycleSame ==
  ASSUME CycleInv, UNCHANGED <<phase, dryRun, overtaken, disconnected, orders, kind, side, cid, net, trades>>
  PROVE  CycleInv'
BY DEF CycleInv, Tame, Lost, EnteringInv, HoldingInv, ExitingInv, Away, With

\* An entry that is accepted is the only thing that goes on.
LEMMA EnterCycle ==
  ASSUME TypeOK, CycleInv, NEW s \in Spreads, Enter(s), Lost \subseteq Lost'
  PROVE  CycleInv'
<1>0. ArbTyped /\ VenueTyped
  BY TypeSplit
<1> SUFFICES ASSUME Tame' PROVE CycleInv'
  BY DEF CycleInv
<1>1. PICK outcome \in Outcomes :
          /\ Place(DesiredSide(s), Size, FALSE, outcome)
          /\ IF outcome = "accepted"
             THEN kind' = "entering" /\ side' = DesiredSide(s) /\ cid' = issued'
             ELSE UNCHANGED <<kind, side, cid>>
  BY DEF Enter
<1>2. DesiredSide(s) \in Sides \cup {0} /\ Size \in Nat /\ FALSE \in BOOLEAN
  BY <1>0, StreakTyped, ArbAssumption
<1>3. /\ issued' \in Cids
      /\ \/ outcome = "refused" /\ orders' = orders
         \/ /\ outcome # "refused" /\ orders'[issued'].lost = (outcome = "lost")
            /\ orders'[issued'].side = DesiredSide(s)
  BY <1>0, <1>1, <1>2, PlaceEffect
<1>4. outcome # "lost"
  BY <1>3 DEF Tame, Lost
<1>5. Tame /\ kind = "flat" /\ UNCHANGED <<net, trades>>
  BY DEF Enter, Tame, restVars, historyVars
<1>6. net = 0 /\ trades = <<>>
  BY <1>5 DEF CycleInv
<1>7. CASE outcome = "accepted"
  <2>1. /\ kind' = "entering" /\ net' = 0 /\ trades' = <<>>
        /\ side' = DesiredSide(s) /\ cid' = issued' /\ orders'[cid'].side = side'
    BY <1>1, <1>3, <1>5, <1>6, <1>7
  <2>2. EnteringInv'
    BY <2>1 DEF EnteringInv
  <2> QED
    BY <2>1, <2>2 DEF CycleInv
<1>8. CASE outcome = "refused"
  <2>1. kind' = "flat" /\ net' = 0 /\ trades' = <<>>
    BY <1>1, <1>5, <1>6, <1>8
  <2> QED
    BY <2>1 DEF CycleInv
<1> QED
  BY <1>4, <1>7, <1>8 DEF Outcomes

\* An exit asks for what the tracker has, and no more is queued against it.
LEMMA ExitCycle ==
  ASSUME TypeOK, RecordInv, CycleInv, Lost \subseteq Lost', kind = "holding",
         NEW t \in 0..MaxHold, PlaceExit(t), UNCHANGED <<phase, dryRun, overtaken, disconnected, trades>>
  PROVE  CycleInv'
<1>0. ArbTyped /\ VenueTyped
  BY TypeSplit
<1> SUFFICES ASSUME Tame' PROVE CycleInv'
  BY DEF CycleInv
<1>1. Tame /\ HoldingInv
  BY DEF Tame, CycleInv
<1>2. net # 0 /\ ~dryRun /\ net \in Int /\ side \in Sides
  BY <1>0, <1>1 DEF HoldingInv, With, Tame, ArbTyped
<1>3. UNCHANGED net
  BY <1>2 DEF PlaceExit
<1>4. PICK outcome \in Outcomes :
          /\ Place(-Sign(net), Abs(net), TRUE, outcome)
          /\ IF outcome = "accepted"
             THEN kind' = "exiting" /\ side' = Sign(net) /\ cid' = issued'
             ELSE UNCHANGED <<kind, side, cid>>
  BY <1>2 DEF PlaceExit
<1>5. -Sign(net) \in Sides \cup {0} /\ Abs(net) \in Nat /\ TRUE \in BOOLEAN
  BY <1>2, SignTyped
<1>6. /\ issued' = issued + 1 /\ issued' \in Cids
      /\ \/ outcome = "refused" /\ orders' = orders
         \/ /\ outcome # "refused" /\ orders'[issued'].lost = (outcome = "lost")
            /\ orders'[issued'].side = -Sign(net) /\ orders'[issued'].qty = Abs(net)
  BY <1>0, <1>4, <1>5, PlaceEffect
<1>7. outcome # "lost"
  BY <1>6 DEF Tame, Lost
<1>8. CASE outcome = "refused"
  BY <1>3, <1>4, <1>6, <1>8, CycleSame
<1>9. CASE outcome = "accepted"
  <2>1. Sign(net) = side /\ Abs(net) = With(side, net)
    BY <1>1, <1>2 DEF HoldingInv, With, Sign, Abs, Sides
  <2>2. /\ kind' = "exiting" /\ side' = side /\ cid' = issued' /\ net' = net /\ trades' = trades
        /\ orders'[cid'].side = -side /\ orders'[cid'].qty = With(side, net)
    BY <1>3, <1>4, <1>6, <1>9, <2>1
  <2>3. \A i \in DOMAIN trades : trades[i].cid # cid'
    <3>1. orders[issued'].status # "done"
      BY <1>0, <1>6, ArbAssumption DEF RecordInv, NoOrder, ArbTyped, Cids
    <3> QED
      BY <2>2, <3>1 DEF RecordInv
  <2>4. With(side, net + Flow(trades)) >= With(side, net)
    <3>0. \A i \in DOMAIN trades : trades[i].qty \in Int
      <4>1. \A i \in DOMAIN trades : trades[i] \in TradeEvent
        BY <1>0 DEF VenueTyped
      <4> QED
        BY <4>1 DEF TradeEvent
    <3>1. CASE side = 1
      <4>1. \A i \in DOMAIN trades : trades[i].qty >= 0
        BY <1>1, <3>0, <3>1 DEF HoldingInv, With
      <4>2. Flow(trades) >= 0 /\ Flow(trades) \in Int
        BY <1>0, <4>1, QueueFlow
      <4> QED
        BY <1>2, <3>1, <4>2 DEF With
    <3>2. CASE side = -1
      <4>1. \A i \in DOMAIN trades : trades[i].qty <= 0
        BY <1>1, <3>0, <3>2 DEF HoldingInv, With
      <4>2. Flow(trades) <= 0 /\ Flow(trades) \in Int
        BY <1>0, <4>1, QueueFlow
      <4> QED
        BY <1>2, <3>2, <4>2 DEF With
    <3> QED
      BY <1>2, <3>1, <3>2 DEF Sides
  <2>5. With(side, net + Flow(trades)) >= 0
    <3>1. Flow(trades) \in Int /\ With(side, net) > 0
      BY <1>0, <1>1, QueueFlow DEF HoldingInv
    <3> QED
      BY <1>2, <2>4, <3>1 DEF With
  <2>6. ExitingInv'
    BY <1>1, <2>2, <2>3, <2>4, <2>5 DEF ExitingInv, HoldingInv
  <2> QED
    BY <2>2, <2>6 DEF CycleInv
<1> QED
  BY <1>7, <1>8, <1>9 DEF Outcomes

\* The next of the queue, whatever it is of, leads on in the cycle.
LEMMA TradeCycle ==
  ASSUME TypeOK, CycleInv, HandleTrade
  PROVE  CycleInv'
<1>0. ArbTyped /\ VenueTyped
  BY TypeSplit
<1> SUFFICES ASSUME Tame' PROVE CycleInv'
  BY DEF CycleInv
<1> DEFINE h == Head(trades)
<1>1. /\ Tame /\ UNCHANGED <<phase, dryRun, overtaken, disconnected, orders>> /\ trades # <<>>
      /\ trades' = Tail(trades) /\ net' = net + h.qty
      /\ \/ /\ Current(h.cid) /\ kind = "entering" /\ kind' = "holding" /\ side' = side
         \/ /\ Current(h.cid) /\ kind = "exiting" /\ net' = 0 /\ kind' = "flat"
         \/ /\ ~Current(h.cid) \/ (kind = "exiting" /\ net' # 0)
            /\ UNCHANGED <<kind, side, cid>>
  BY DEF HandleTrade, Tame, Counted, Closed, restVars, ToFlat, Lost
<1>2. /\ 1 \in DOMAIN trades /\ h = trades[1] /\ DOMAIN trades = 1..Len(trades) /\ Len(trades) \in Nat
      /\ DOMAIN trades' = 1..(Len(trades) - 1)
      /\ \A i \in DOMAIN trades' : i + 1 \in DOMAIN trades /\ 1 < i + 1 /\ trades'[i] = trades[i + 1]
      /\ trades' \in Seq(TradeEvent)
  BY <1>0, <1>1 DEF VenueTyped
<1>3. /\ Flow(trades) = h.qty + Flow(trades') /\ h.qty \in Int /\ Flow(trades') \in Int
      /\ net \in Int /\ side \in Sides \cup {0} /\ h.cid \in Cids
      /\ \A i \in DOMAIN trades : trades[i].qty \in Int
  <2>1. Flow(trades) = h.qty + Flow(trades') /\ h.qty \in Int
    BY <1>0, <1>1, QueueFlow
  <2>2. \A t \in TradeEvent : t.qty \in Int /\ t.cid \in Cids
    BY DEF TradeEvent
  <2>3. Flow(trades') \in Int
    BY <1>2, <2>2, FlowType
  <2>4. \A i \in DOMAIN trades : trades[i] \in TradeEvent
    BY <1>0 DEF VenueTyped
  <2> QED
    BY <1>0, <1>2, <2>1, <2>2, <2>3, <2>4 DEF ArbTyped
<1> HIDE DEF h
<1>4. kind # "flat"
  BY <1>1 DEF CycleInv
<1>5. CASE kind = "entering"
  <2>1. EnteringInv /\ side \in Sides
    BY <1>0, <1>1, <1>5 DEF CycleInv, ArbTyped
  <2>2. h.cid = cid /\ Current(h.cid)
    BY <1>0, <1>2, <1>5, <2>1 DEF EnteringInv, Current, ArbTyped
  <2>3. kind' = "holding" /\ side' = side
    BY <1>1, <1>5, <2>2
  <2>4. net' = h.qty
    BY <1>1, <1>3, <2>1 DEF EnteringInv
  <2>5. HoldingInv'
    BY <1>2, <2>1, <2>3, <2>4 DEF EnteringInv, HoldingInv, With
  <2> QED
    BY <2>3, <2>5 DEF CycleInv
<1>6. CASE kind = "holding"
  <2>1. HoldingInv /\ side \in Sides
    BY <1>0, <1>1, <1>6 DEF CycleInv, ArbTyped
  <2>2. kind' = "holding" /\ side' = side
    BY <1>1, <1>6
  <2>3. With(side, net') > 0
    BY <1>1, <1>2, <1>3, <2>1, SMTT(30) DEF HoldingInv, With
  <2>4. HoldingInv'
    BY <1>2, <2>1, <2>2, <2>3 DEF HoldingInv, With
  <2> QED
    BY <2>2, <2>4 DEF CycleInv
<1>7. CASE kind = "exiting"
  <2>1. ExitingInv /\ side \in Sides
    BY <1>0, <1>1, <1>7 DEF CycleInv, ArbTyped
  <2>2. Flow(trades') = Flow(trades) - h.qty /\ net' + Flow(trades') = net + Flow(trades)
    BY <1>1, <1>3
  <2>3. With(side, net' + Flow(trades')) >= IF Away(cid) THEN orders[cid].qty ELSE 0
    BY <2>1, <2>2 DEF ExitingInv
  <2>4. /\ \A i \in DOMAIN trades' : IF trades'[i].cid = cid THEN With(side, trades'[i].qty) < 0
                                                          ELSE With(side, trades'[i].qty) > 0
        /\ \A i, j \in DOMAIN trades' : i < j /\ trades'[i].cid = cid => trades'[j].cid = cid
    BY <1>2, <2>1 DEF ExitingInv
  <2>5. With(side, net' + Flow(trades')) >= 0
    <3>1. orders[cid].qty >= 0
      <4>1. cid \in Cids
        BY <1>0, <1>7, ArbAssumption DEF ArbTyped, Cids
      <4>2. orders[cid] \in OrderRecord
        BY <1>0, <4>1 DEF VenueTyped
      <4> QED
        BY <4>2 DEF OrderRecord
    <3>2. With(side, net' + Flow(trades')) \in Int
      BY <1>1, <1>3 DEF With
    <3>3. orders[cid].qty \in Nat
      <4>1. cid \in Cids
        BY <1>0, <1>7, ArbAssumption DEF ArbTyped, Cids
      <4>2. orders[cid] \in OrderRecord
        BY <1>0, <4>1 DEF VenueTyped
      <4> QED
        BY <4>2 DEF OrderRecord
    <3> QED
      BY <2>3, <3>1, <3>2, <3>3
  <2>6. CASE h.cid = cid
    <3>1. \A i \in DOMAIN trades' : trades'[i].cid = cid /\ With(side, trades'[i].qty) < 0
      BY <1>2, <2>1, <2>4, <2>6 DEF ExitingInv
    <3>2. With(side, Flow(trades')) <= 0 /\ (With(side, Flow(trades')) = 0 => trades' = <<>>)
      <4>0. \A i \in DOMAIN trades' : trades'[i] \in TradeEvent
        BY <1>2
      <4>1. /\ \A t \in TradeEvent : t.qty \in Int
            /\ \A i \in DOMAIN trades' : trades'[i] \in TradeEvent
        BY <4>0 DEF TradeEvent
      <4>2. ASSUME NEW q \in Seq(TradeEvent),
                   \A i \in DOMAIN q : With(side, q[i].qty) < 0 /\ q[i].qty \in Int
            PROVE  With(side, Flow(q)) <= 0
        <5>1. CASE side = 1
          <6>1. \A i \in DOMAIN q : q[i].qty <= 0
            BY <4>2, <5>1 DEF With
          <6> QED
            BY <4>1, <5>1, <6>1, FlowType DEF With
        <5>2. CASE side = -1
          <6>1. \A i \in DOMAIN q : q[i].qty >= 0
            BY <4>2, <5>2 DEF With
          <6>2. Flow(q) >= 0 /\ Flow(q) \in Int
            BY <4>1, <6>1, FlowType
          <6> QED
            BY <5>2, <6>2 DEF With
        <5> QED
          BY <2>1, <5>1, <5>2 DEF Sides
      <4>3. \A i \in DOMAIN trades' : With(side, trades'[i].qty) < 0 /\ trades'[i].qty \in Int
        BY <3>1, <4>1
      <4>4. With(side, Flow(trades')) <= 0
        BY <1>2, <4>2, <4>3
      <4>5. ASSUME trades' # <<>> PROVE With(side, Flow(trades')) < 0
        <5> DEFINE g == Head(trades')
                   r == Tail(trades')
        <5>1. /\ g = trades'[1] /\ 1 \in DOMAIN trades' /\ r \in Seq(TradeEvent)
              /\ \A i \in DOMAIN r : i + 1 \in DOMAIN trades' /\ r[i] = trades'[i + 1]
          BY <1>2, <4>5
        <5>2. Flow(trades') = g.qty + Flow(r)
          BY <1>2, <4>1, <4>5, FlowTail
        <5> HIDE DEF g, r
        <5>3. With(side, Flow(r)) <= 0
          BY <4>2, <4>3, <5>1
        <5>4. Flow(r) \in Int /\ g.qty \in Int /\ With(side, g.qty) < 0
          BY <4>1, <4>3, <5>1, FlowType
        <5> QED
          BY <5>2, <5>3, <5>4 DEF With
      <4> QED
        BY <1>3, <4>4, <4>5 DEF With
    <3>3. With(side, net') >= 0 /\ (net' = 0 => trades' = <<>>)
      <4>1. net' \in Int
        BY <1>1, <1>3
      <4>2. With(side, Flow(trades')) <= 0
        BY <3>2
      <4>3. With(side, net') >= 0 /\ (net' = 0 => With(side, Flow(trades')) = 0)
        <5>1. ASSUME NEW n \in Int, NEW f \in Int, NEW s \in {1, -1},
                     With(s, n + f) >= 0, With(s, f) <= 0
              PROVE  With(s, n) >= 0 /\ (n = 0 => With(s, f) = 0)
          <6>1. CASE s = 1
            BY <5>1, <6>1 DEF With
          <6>2. CASE s = -1
            <7>1. -(n + f) >= 0 /\ -f <= 0
              BY <5>1, <6>2 DEF With
            <7>2. -n >= 0 /\ (n = 0 => -f = 0)
              BY <7>1
            <7> QED
              BY <6>2, <7>2 DEF With
          <6> QED
            BY <6>1, <6>2
        <5>2. side \in {1, -1}
          BY <2>1 DEF Sides
        <5> QED
          BY <1>3, <2>5, <4>1, <4>2, <5>1, <5>2
      <4> QED
        BY <3>2, <4>3
    <3>4. CASE net' = 0
      <4>1. kind' = "flat"
        BY <1>0, <1>1, <1>7, <2>6, <3>4 DEF Current, ArbTyped
      <4> QED
        BY <3>3, <3>4, <4>1 DEF CycleInv
    <3>5. CASE net' # 0
      <4>1. UNCHANGED <<kind, side, cid>>
        BY <1>1, <1>7, <3>5
      <4>2. With(side, net') > 0
        BY <1>1, <1>3, <3>3, <3>5 DEF With
      <4>3. ExitingInv'
        BY <1>1, <2>1, <2>3, <2>4, <4>1, <4>2 DEF ExitingInv, Away
      <4> QED
        BY <1>7, <4>1, <4>3 DEF CycleInv
    <3> QED
      BY <3>4, <3>5
  <2>7. CASE h.cid # cid
    <3>1. UNCHANGED <<kind, side, cid>>
      BY <1>1, <2>7 DEF Current
    <3>2. With(side, net') > 0
      <4>1. With(side, h.qty) > 0 /\ With(side, net) > 0
        BY <1>2, <2>1, <2>7 DEF ExitingInv
      <4> QED
        BY <1>1, <1>3, <4>1 DEF With
    <3>3. ExitingInv'
      BY <1>1, <2>1, <2>3, <2>4, <3>1, <3>2 DEF ExitingInv, Away
    <3> QED
      BY <1>7, <3>1, <3>3 DEF CycleInv
  <2> QED
    BY <2>6, <2>7
<1> QED
  BY <1>0, <1>4, <1>5, <1>6, <1>7 DEF ArbTyped

\* An end that has not overtaken its trades finds none of them queued.
LEMMA UpdateCycle ==
  ASSUME TypeOK, RecordInv, CycleInv, HandleUpdate
  PROVE  CycleInv'
<1>0. ArbTyped /\ VenueTyped
  BY TypeSplit
<1> SUFFICES ASSUME Tame' PROVE CycleInv'
  BY DEF CycleInv
<1> DEFINE u == Head(updates)
<1>1. /\ Tame /\ UNCHANGED <<phase, dryRun, disconnected, orders, net, trades>>
      /\ \A i \in DOMAIN trades : trades[i].cid # u.cid
      /\ overtaken' = overtaken
      /\ \/ /\ Current(u.cid) /\ kind = "entering" /\ net = 0 /\ kind' = "flat"
         \/ Current(u.cid) /\ kind = "entering" /\ net # 0
         \/ Current(u.cid) /\ kind = "exiting" /\ kind' = "holding" /\ side' = side
         \/ UNCHANGED <<kind, side, cid>>
  <2>1. /\ UNCHANGED <<phase, net, orders, trades, dryRun, disconnected>>
        /\ overtaken' = (overtaken \/ \E i \in DOMAIN trades : trades[i].cid = u.cid)
    BY DEF HandleUpdate, restVars
  <2>2. overtaken \in BOOLEAN /\ ~overtaken'
    BY TypeSplit DEF RestTyped, Tame
  <2>3. ~overtaken /\ \A i \in DOMAIN trades : trades[i].cid # u.cid
    BY <2>1, <2>2, Zenon
  <2>4. Tame /\ overtaken' = overtaken
    BY <2>1, <2>2, <2>3 DEF Tame, Lost
  <2>5. \/ /\ Current(u.cid) /\ kind = "entering" /\ net = 0 /\ kind' = "flat"
        \/ Current(u.cid) /\ kind = "entering" /\ net # 0
        \/ Current(u.cid) /\ kind = "exiting" /\ kind' = "holding" /\ side' = side
        \/ UNCHANGED <<kind, side, cid>>
    BY DEF HandleUpdate, ToFlat
  <2> QED
    BY <2>1, <2>3, <2>4, <2>5
<1> HIDE DEF u
<1>2. CASE Current(u.cid) /\ kind = "entering"
  <2>1. net = 0 /\ \A i \in DOMAIN trades : trades[i].cid = cid
    BY <1>1, <1>2 DEF CycleInv, EnteringInv
  <2>2. trades = <<>>
    <3>1. trades # <<>> => 1 \in DOMAIN trades
      BY <1>0 DEF VenueTyped
    <3> QED
      BY <1>1, <1>2, <2>1, <3>1 DEF Current
  <2>3. CASE kind' = "flat"
    BY <1>1, <2>1, <2>2, <2>3 DEF CycleInv
  <2>4. CASE UNCHANGED <<kind, side, cid>>
    BY <1>1, <2>4, CycleSame
  <2> QED
    BY <1>1, <1>2, <2>1, <2>3, <2>4
<1>3. CASE Current(u.cid) /\ kind = "exiting" /\ kind' = "holding" /\ side' = side
  <2>1. ExitingInv
    BY <1>1, <1>3 DEF CycleInv
  <2>2. HoldingInv'
    BY <1>1, <1>3, <2>1 DEF ExitingInv, HoldingInv, Current
  <2> QED
    BY <1>3, <2>2 DEF CycleInv
<1>4. CASE UNCHANGED <<kind, side, cid>>
  BY <1>1, <1>4, CycleSame
<1> QED
  BY <1>1, <1>2, <1>3, <1>4

\* The venue executes the actor's order, and what it reports is queued last.
LEMMA ExecuteCycle ==
  ASSUME TypeOK, RecordInv, OwnInv, CycleInv, NEW c \in Cids, Execute(c), Lost \subseteq Lost'
  PROVE  CycleInv'
<1>0. ArbTyped /\ VenueTyped
  BY TypeSplit
<1> SUFFICES ASSUME Tame' PROVE CycleInv'
  BY DEF CycleInv
<1>1. /\ Tame /\ UNCHANGED <<kind, side, cid, net>> /\ Away(c)
  BY DEF Execute, Tame, arbVars, restVars, historyVars, Away
<1>2. c = cid /\ kind \in {"entering", "exiting"}
  <2>1. c = cid
    BY <1>1 DEF OwnInv, Tame, Away
  <2>2. cid # 0
    BY <2>1 DEF Cids
  <2> QED
    BY <1>0, <2>1, <2>2 DEF ArbTyped
<1>3. PICK f \in 0..orders[c].qty : position' = position + orders[c].side * f /\ Reports(c, f)
  BY <1>0, <1>1, ExecuteReports DEF Tame
<1>4. ~Away(c)'
  <2>1. orders' = [orders EXCEPT ![c].status = "done"]
    BY <1>0, ExecuteEffect
  <2>2. orders'[c].status = "done"
    BY <1>0, <2>1 DEF VenueTyped, OrderRecord
  <2> QED
    BY <2>2 DEF Away
<1>5. orders[c].qty \in Nat /\ f \in Nat /\ f <= orders[c].qty /\ Flow(trades) \in Int /\ net \in Int
      /\ side \in Sides
  <2>1. orders[c] \in OrderRecord
    BY <1>0 DEF VenueTyped
  <2>2. orders[c].qty \in Nat
    BY <2>1 DEF OrderRecord
  <2> QED
    BY <1>0, <1>2, <2>2, QueueFlow DEF ArbTyped
<1>6. /\ Flow(trades') = Flow(trades) + orders[c].side * f
      /\ \A i \in DOMAIN trades : i \in DOMAIN trades' /\ trades'[i] = trades[i]
      /\ \A i \in DOMAIN trades' : \/ i \in DOMAIN trades
                                   \/ /\ trades'[i].cid = c /\ \A j \in DOMAIN trades : j < i
                                      /\ \E m \in Nat \ {0} : trades'[i].qty = orders[c].side * m
  BY <1>3 DEF Reports
<1>7. CASE kind = "entering"
  <2>1. EnteringInv /\ orders[c].side = side
    BY <1>1, <1>2, <1>7 DEF CycleInv, EnteringInv
  <2>2. \A m \in Nat \ {0} : With(side, side * m) > 0
    BY <1>5 DEF With, Sides
  <2>3. \A i \in DOMAIN trades' : trades'[i].cid = cid /\ With(side, trades'[i].qty) > 0
    BY <1>2, <1>6, <2>1, <2>2 DEF EnteringInv
  <2>4. EnteringInv'
    BY <1>1, <1>2, <1>4, <2>1, <2>3 DEF EnteringInv
  <2> QED
    BY <1>1, <1>7, <2>4 DEF CycleInv
<1>8. CASE kind = "exiting"
  <2>1. /\ ExitingInv /\ orders[c].side = -side
        /\ With(side, net + Flow(trades)) >= orders[c].qty
    BY <1>1, <1>2, <1>8 DEF CycleInv, ExitingInv
  <2>2. \A m \in Nat \ {0} : With(side, (-side) * m) < 0
    <3>1. CASE side = 1
      BY <3>1 DEF With
    <3>2. CASE side = -1
      <4>1. -(-1) = 1
        BY SignNeg
      <4> QED
        BY <3>2, <4>1 DEF With
    <3> QED
      BY <1>5, <3>1, <3>2 DEF Sides
  <2>3. \A i \in DOMAIN trades' : IF trades'[i].cid = cid THEN With(side, trades'[i].qty) < 0
                                                       ELSE With(side, trades'[i].qty) > 0
    BY <1>2, <1>6, <2>1, <2>2 DEF ExitingInv
  <2>4. \A i, j \in DOMAIN trades' : i < j /\ trades'[i].cid = cid => trades'[j].cid = cid
    <3> SUFFICES ASSUME NEW i \in DOMAIN trades', NEW j \in DOMAIN trades', i < j, trades'[i].cid = cid,
                        j \in DOMAIN trades
                 PROVE  trades'[j].cid = cid
      BY <1>2, <1>6
    <3>1. DOMAIN trades = 1..Len(trades) /\ Len(trades) \in Nat /\ DOMAIN trades' \subseteq Nat
      <4>1. trades' \in Seq(TradeEvent)
        BY <1>0, ExecuteEffect
      <4> QED
        BY <1>0, <4>1 DEF VenueTyped
    <3>2. i \in DOMAIN trades
      BY <1>6, <3>1
    <3> QED
      BY <1>6, <2>1, <3>2 DEF ExitingInv
  <2>5. With(side, net + Flow(trades')) >= 0
    <3>1. CASE side = 1
      <4>1. Flow(trades') = Flow(trades) - f
        BY <1>5, <1>6, <2>1, <3>1
      <4> QED
        BY <1>5, <2>1, <3>1, <4>1 DEF With
    <3>2. CASE side = -1
      <4>1. -(-1) = 1
        BY SignNeg
      <4>2. Flow(trades') = Flow(trades) + f
        BY <1>5, <1>6, <2>1, <3>2, <4>1
      <4> QED
        BY <1>5, <2>1, <3>2, <4>2 DEF With
    <3> QED
      BY <1>5, <3>1, <3>2 DEF Sides
  <2>6. ExitingInv'
    BY <1>1, <1>2, <1>4, <2>1, <2>3, <2>4, <2>5 DEF ExitingInv
  <2> QED
    BY <1>1, <1>8, <2>6 DEF CycleInv
<1> QED
  BY <1>2, <1>7, <1>8

LEMMA CycleStep ==
  ASSUME TypeOK, RecordInv, OwnInv, BookInv, CycleInv, [Next]_vars
  PROVE  CycleInv'
<1>0. ArbTyped /\ VenueTyped /\ Lost \subseteq Lost'
  BY TypeSplit, LostStays
<1> USE DEF arbVars, venueVars, restVars, historyVars
<1>1. CASE Start
  <2>1. phase = "new" /\ UNCHANGED <<kind, net, trades>>
    BY <1>1 DEF Start
  <2>2. kind' = "flat" /\ net' = 0 /\ trades' = <<>>
    BY <2>1 DEF BookInv, NewInv
  <2> QED
    BY <2>2 DEF CycleInv
<1>2. CASE WindDown
  BY <1>2 DEF WindDown, CycleInv, Tame
<1>3. ASSUME NEW s \in Spreads, Observe(s) PROVE CycleInv'
  BY <1>3, CycleSame DEF Observe
<1>4. ASSUME NEW s \in Spreads, EnterPaper(s) PROVE CycleInv'
  BY <1>4 DEF EnterPaper, CycleInv, Tame
<1>5. ASSUME NEW s \in Spreads, Enter(s) PROVE CycleInv'
  BY <1>0, <1>5, EnterCycle
<1>6. ASSUME NEW s \in Spreads, Exit(s) PROVE CycleInv'
  BY <1>0, <1>6, ExitCycle DEF Exit, ArbTyped
<1>7. CASE HandleTrade
  BY <1>7, TradeCycle
<1>8. CASE HandleUpdate
  BY <1>8, UpdateCycle
<1>9. CASE Tick
  <2>1. Least(ticks + 1, MaxHold) \in 0..MaxHold
    BY <1>0, ArbAssumption DEF ArbTyped, Least
  <2>2. CASE PlaceExit(Least(ticks + 1, MaxHold))
    BY <1>0, <1>9, <2>1, <2>2, ExitCycle DEF Tick
  <2>3. CASE UNCHANGED <<kind, side, cid, streak, net, issued, orders>>
    BY <1>9, <2>3, CycleSame DEF Tick
  <2> QED
    BY <1>9, <2>2, <2>3 DEF Tick
<1>10. CASE TickDisconnected
  BY <1>10, CycleSame DEF TickDisconnected
<1>11. ASSUME NEW c \in Cids, Execute(c) PROVE CycleInv'
  BY <1>0, <1>11, ExecuteCycle
<1>12. CASE Disconnect
  BY <1>12 DEF Disconnect, CycleInv, Tame
<1>13. CASE UNCHANGED vars
  BY <1>13, CycleSame DEF vars
<1> QED
  BY <1>1, <1>2, <1>3, <1>4, <1>5, <1>6, <1>7, <1>8, <1>9, <1>10, <1>11, <1>12, <1>13
     DEF Next, Evaluate

\* Flat means flat (strategy.rs:266), if no end overtakes a trade of its order and
\* no placement that is reported as failed went through: for any sizes and
\* thresholds, however orders are filled in parts and exits fail.
THEOREM FlatMeansFlat == Spec => []FlatUnlessOvertaken
<1>1. Init => RecordInv /\ OwnInv /\ BookInv /\ CycleInv
  BY DEF Init, RecordInv, NoOrder, OwnInv, BookInv, NewInv, InventoryExact, CycleInv, Tame
<1>2. CycleInv => FlatUnlessOvertaken
  BY DEF CycleInv, Tame, FlatUnlessOvertaken
<1> QED
  BY <1>1, <1>2, TypeCorrect, RecordStep, OwnStep, BookStep, CycleStep, PTL DEF Spec
=============================================================================
