--------------------------- MODULE FundingArbProofs ---------------------------
EXTENDS FundingArb, SumProofs, SequenceTheorems

(***************************************************************************)
(* Theorems about the funding-rate arbitrage (FundingArb), with proofs: for *)
(* every size, every set of rates and every number of entries, gaps and     *)
(* trades of others,                                                        *)
(*   TypeCorrect      the legs are on opposite sides, or on none;           *)
(*   TrackerIsExact   the tracker is the position but for what is coming;   *)
(*   PhaseTells       the phase tells what is held and what rests.          *)
(* All three follow from one inductive invariant, IInv. Two facts carry it. *)
(* What the actor's calls and its orders' fills do to a position is on its  *)
(* way to the tracker, through every interruption (Served). And a leg of    *)
(* the arb is in its phase for what the tracker says of it, not only for    *)
(* what is held (LegIs): the phase machine decides on the tracker, so what  *)
(* is still queued has to be on the side the phase is waiting for.          *)
(***************************************************************************)

Links == {"up", "gap", "dead"}
Account ==
  {a \in [position : Int, link : Links, rests : Seq(Order), trades : Seq(Trade), missed : Nat,
          again : Seq(Trade)] :
     a.missed <= Len(a.trades) /\ (a.link = "up" => a.missed = 0)}

-----------------------------------------------------------------------------
(* What the own trades of a queue add up to.                               *)

OwnQty(t) == IF t.own THEN t.qty ELSE 0
OwnQtys(q) == [i \in 1..Len(q) |-> OwnQty(q[i])]

OwnFlow(q) ==
  LET sum[i \in 0..Len(q)] == IF i = 0 THEN 0 ELSE sum[i - 1] + (IF q[i].own THEN q[i].qty ELSE 0)
  IN  sum[Len(q)]

\* What the model says is queued for the tracker is the flow of the queue.
LEMMA QueuedIsFlow == ASSUME NEW ex PROVE OwnQueued(ex) = OwnFlow(account[ex].trades)
BY DEF OwnQueued, OwnFlow

\* The queue's sum is one along its own quantities.
LEMMA OwnAlong ==
  ASSUME NEW q, Len(q) \in Nat
  PROVE  OwnFlow(q) = Along(OwnQtys(q), Len(q))
<1> DEFINE n == Len(q)
           P(f) == f = [i \in 0..n |-> IF i = 0 THEN 0
                                       ELSE f[i - 1] + (IF q[i].own THEN q[i].qty ELSE 0)]
           g == CHOOSE f : P(f)
<1>1. ASSUME NEW f PROVE P(f) <=> Runs(f, OwnQtys(q), n)
  <2>1. ASSUME NEW i \in 0..n
        PROVE  (IF i = 0 THEN 0 ELSE f[i - 1] + (IF q[i].own THEN q[i].qty ELSE 0))
                 = (IF i = 0 THEN 0 ELSE f[i - 1] + OwnQtys(q)[i])
    BY DEF OwnQtys, OwnQty
  <2>2. [i \in 0..n |-> IF i = 0 THEN 0 ELSE f[i - 1] + (IF q[i].own THEN q[i].qty ELSE 0)]
          = [i \in 0..n |-> IF i = 0 THEN 0 ELSE f[i - 1] + OwnQtys(q)[i]]
    BY <2>1
  <2>3. QED  BY <2>2 DEF Runs
<1>2. OwnFlow(q) = g[n]
  BY DEF OwnFlow
<1> HIDE DEF n
<1>3. P(g)
  <2>1. PICK f : Runs(f, OwnQtys(q), n)
    BY RunsExist DEF n
  <2>2. P(f)
    BY <1>1, <2>1
  <2> HIDE DEF P
  <2>3. QED  BY <2>2
<1> HIDE DEF P, g
<1>4. Runs(g, OwnQtys(q), n)
  BY <1>1, <1>3
<1>5. Along(OwnQtys(q), n) = g[n]
  BY <1>4, AlongRuns DEF n
<1>6. QED  BY <1>2, <1>5 DEF n

\* Queues and their entries.
LEMMA QueueType ==
  ASSUME NEW q \in Seq(Trade)
  PROVE  /\ Len(q) \in Nat /\ DOMAIN q = 1..Len(q)
         /\ \A i \in 1..Len(q) : /\ q[i] \in Trade /\ q[i].own \in BOOLEAN /\ q[i].qty \in Int
                                 /\ OwnQtys(q)[i] = OwnQty(q[i]) /\ OwnQty(q[i]) \in Int
         /\ OwnFlow(q) = Along(OwnQtys(q), Len(q)) /\ OwnFlow(q) \in Int
<1>1. Len(q) \in Nat /\ DOMAIN q = 1..Len(q) /\ \A i \in 1..Len(q) : q[i] \in Trade
  OBVIOUS
<1>2. \A i \in 1..Len(q) : q[i].own \in BOOLEAN /\ q[i].qty \in Int
  BY <1>1 DEF Trade
<1>3. \A i \in 1..Len(q) : OwnQtys(q)[i] = OwnQty(q[i]) /\ OwnQty(q[i]) \in Int
  BY <1>2 DEF OwnQtys, OwnQty
<1>4. OwnFlow(q) = Along(OwnQtys(q), Len(q))
  BY <1>1, OwnAlong
<1>5. Along(OwnQtys(q), Len(q)) \in Int
  BY <1>1, <1>3, AlongType
<1>6. QED  BY <1>1, <1>2, <1>3, <1>4, <1>5

\* Without own trades it is zero.
LEMMA NoOwnFlow ==
  ASSUME NEW q \in Seq(Trade), \A i \in DOMAIN q : ~q[i].own
  PROVE  OwnFlow(q) = 0
<1>1. \A i \in 1..Len(q) : OwnQtys(q)[i] = 0
  BY QueueType DEF OwnQty
<1>2. Along(OwnQtys(q), Len(q)) <= 0 /\ Along(OwnQtys(q), Len(q)) >= 0
  BY <1>1, QueueType, AlongType, SMTT(30)
<1>3. QED  BY <1>2, QueueType

\* The head of a queue goes first.
LEMMA OwnTail ==
  ASSUME NEW q \in Seq(Trade), q # <<>>
  PROVE  /\ Head(q) \in Trade /\ Tail(q) \in Seq(Trade)
         /\ OwnFlow(q) = OwnQty(Head(q)) + OwnFlow(Tail(q))
         /\ \A i \in DOMAIN Tail(q) : i + 1 \in DOMAIN q /\ Tail(q)[i] = q[i + 1]
<1> DEFINE n == Len(q) - 1
<1>1. /\ n \in Nat /\ Len(q) = n + 1 /\ Len(Tail(q)) = n /\ Tail(q) \in Seq(Trade)
      /\ \A i \in 1..n : Tail(q)[i] = q[i + 1]
      /\ Head(q) = q[1] /\ Head(q) \in Trade
  OBVIOUS
<1> HIDE DEF n
<1>2. OwnFlow(q) = Along(OwnQtys(q), n + 1) /\ OwnFlow(Tail(q)) = Along(OwnQtys(Tail(q)), n)
  BY <1>1, QueueType
<1>3. \A i \in 1..(n + 1) : OwnQtys(q)[i] = OwnQty(q[i]) /\ OwnQtys(q)[i] \in Int
  BY <1>1, QueueType
<1>4. \A i \in 1..n : OwnQtys(Tail(q))[i] = OwnQtys(q)[i + 1]
  BY <1>1 DEF OwnQtys
<1>5. Along(OwnQtys(q), n + 1) = OwnQtys(q)[1] + Along(OwnQtys(Tail(q)), n)
  BY <1>1, <1>3, <1>4, AlongTail
<1>6. OwnQtys(q)[1] = OwnQty(Head(q))
  BY <1>1, <1>3
<1>7. QED  BY <1>1, <1>2, <1>5, <1>6, QueueType

\* A new trade goes last.
LEMMA OwnAppend ==
  ASSUME NEW q \in Seq(Trade), NEW t \in Trade
  PROVE  /\ Append(q, t) \in Seq(Trade)
         /\ OwnFlow(Append(q, t)) = OwnFlow(q) + OwnQty(t)
         /\ \A i \in DOMAIN Append(q, t) : Append(q, t)[i] = t \/ (i \in DOMAIN q /\ Append(q, t)[i] = q[i])
<1> DEFINE n == Len(q)
           r == Append(q, t)
<1>1. /\ n \in Nat /\ n + 1 \in Nat /\ n + 1 # 0 /\ (n + 1) - 1 = n /\ r \in Seq(Trade)
      /\ Len(r) = n + 1 /\ r[n + 1] = t /\ \A i \in 1..n : r[i] = q[i]
  OBVIOUS
<1> HIDE DEF r
<1>2. OwnFlow(q) = Along(OwnQtys(q), n) /\ OwnFlow(r) = Along(OwnQtys(r), n + 1)
  BY <1>1, QueueType
<1> HIDE DEF n
<1>3. Along(OwnQtys(r), n + 1) = Along(OwnQtys(r), n) + OwnQtys(r)[n + 1]
  BY <1>1, AlongStep
<1>4. \A i \in 1..n : OwnQtys(r)[i] = OwnQtys(q)[i]
  BY <1>1 DEF OwnQtys, n
<1>5. Along(OwnQtys(r), n) = Along(OwnQtys(q), n)
  BY <1>1, <1>4, AlongSame
<1>6. OwnQtys(r)[n + 1] = OwnQty(t)
  BY <1>1 DEF OwnQtys
<1>7. ASSUME NEW i \in DOMAIN r PROVE r[i] = t \/ (i \in DOMAIN q /\ r[i] = q[i])
  <2>1. DOMAIN r = 1..(n + 1) /\ DOMAIN q = 1..n
    BY <1>1 DEF n
  <2>2. CASE i = n + 1
    BY <1>1, <2>2
  <2>3. CASE i # n + 1
    <3>1. i \in 1..n
      BY <1>1, <2>1, <2>3
    <3> QED BY <1>1, <2>1, <3>1
  <2> QED BY <2>2, <2>3
<1>8. QED  BY <1>1, <1>2, <1>3, <1>5, <1>6, <1>7 DEF r

\* The trades of a queue are all own ones, of one side.
OneSided(q, s) == \A i \in DOMAIN q : q[i].own /\ q[i].qty * s > 0

\* Such trades add up to something of that side, unless there are none.
LEMMA OneSidedFlow ==
  ASSUME NEW q \in Seq(Trade), NEW s \in {-1, 1}, OneSided(q, s)
  PROVE  OwnFlow(q) * s >= 0 /\ (OwnFlow(q) * s <= 0 => q = <<>>)
<1> DEFINE n == Len(q)
           a == [i \in 1..n |-> OwnQtys(q)[i] * s]
<1>1. n \in Nat /\ \A i \in 1..n : OwnQtys(q)[i] \in Int /\ OwnQtys(q)[i] * s > 0
  BY QueueType DEF OneSided, OwnQty
<1>2. \A i \in 1..n : a[i] \in Int /\ a[i] > 0 /\ a[i] >= 0
  <2>1. CASE s = 1
    BY <1>1, <2>1
  <2>2. CASE s = -1
    BY <1>1, <2>2
  <2> QED BY <2>1, <2>2
<1>3. Along(a, n) = OwnFlow(q) * s
  <2>1. OwnFlow(q) = Along(OwnQtys(q), n) /\ OwnFlow(q) \in Int
    BY QueueType
  <2>2. CASE s = 1
    <3>1. \A i \in 1..n : a[i] = OwnQtys(q)[i]
      BY <1>1, <2>2
    <3>2. Along(a, n) = Along(OwnQtys(q), n)
      BY <1>1, <3>1, AlongSame
    <3> QED BY <2>1, <2>2, <3>2
  <2>3. CASE s = -1
    <3>1. a = [i \in 1..n |-> -OwnQtys(q)[i]]
      BY <1>1, <2>3
    <3>2. Along([i \in 1..n |-> -OwnQtys(q)[i]], n) = -Along(OwnQtys(q), n)
      BY <1>1, AlongNegated
    <3> HIDE DEF a
    <3> QED BY <2>1, <2>3, <3>1, <3>2
  <2> QED BY <2>2, <2>3
<1>4. Along(a, n) >= 0
  BY <1>1, <1>2, AlongType
<1>5. ASSUME q # <<>> PROVE Along(a, n) > 0
  <2>1. 1 \in 1..n
    BY <1>5
  <2>2. a[1] \in Int /\ a[1] > 0
    BY <1>2, <2>1
  <2> HIDE DEF a, n
  <2>3. Along(a, n) >= a[1]
    BY <1>1, <1>2, <2>1, AlongMember
  <2>4. Along(a, n) \in Int
    BY <1>1, <1>2, AlongType
  <2> QED BY <2>2, <2>3, <2>4
<1>6. Along(a, n) \in Int
  BY <1>1, <1>2, AlongType
<1> HIDE DEF a, n
<1> QED BY <1>3, <1>4, <1>5, <1>6

-----------------------------------------------------------------------------
(* The venue.                                                              *)

\* The fields of an account, and what its queue adds up to.
LEMMA AccountFields ==
  ASSUME NEW a \in Account
  PROVE  /\ a.position \in Int /\ a.link \in Links
         /\ a.rests \in Seq(Order) /\ a.trades \in Seq(Trade) /\ a.again \in Seq(Trade)
         /\ Len(a.trades) \in Nat /\ a.missed \in Nat /\ a.missed <= Len(a.trades)
         /\ a.link = "up" => a.missed = 0
         /\ OwnFlow(a.trades) \in Int
BY QueueType DEF Account

\* An account is made of its fields.
LEMMA AccountMade ==
  ASSUME NEW position \in Int, NEW link \in Links, NEW rests \in Seq(Order),
         NEW trades \in Seq(Trade), NEW missed \in Nat, NEW again \in Seq(Trade),
         missed <= Len(trades), link = "up" => missed = 0
  PROVE  [position |-> position, link |-> link, rests |-> rests, trades |-> trades,
          missed |-> missed, again |-> again] \in Account
BY DEF Account

\* An account whose stream is interrupted.
LEMMA AccountCut ==
  ASSUME NEW a \in Account, NEW missed, NEW again
  PROVE  [[[a EXCEPT !.link = "gap"] EXCEPT !.missed = missed] EXCEPT !.again = again]
           = [position |-> a.position, link |-> "gap", rests |-> a.rests, trades |-> a.trades,
              missed |-> missed, again |-> again]
<1> DEFINE b == [a EXCEPT !.link = "gap"]
           c == [b EXCEPT !.missed = missed]
<1>1. b = [position |-> a.position, link |-> "gap", rests |-> a.rests, trades |-> a.trades,
           missed |-> a.missed, again |-> a.again]
  BY DEF Account
<1> HIDE DEF b
<1>2. c = [position |-> a.position, link |-> "gap", rests |-> a.rests, trades |-> a.trades,
           missed |-> missed, again |-> a.again]
  BY <1>1
<1> HIDE DEF c
<1>3. [c EXCEPT !.again = again]
        = [position |-> a.position, link |-> "gap", rests |-> a.rests, trades |-> a.trades,
           missed |-> missed, again |-> again]
  BY <1>2
<1> QED BY <1>3 DEF b, c

\* The fields of an order.
LEMMA OrderFields ==
  ASSUME NEW o \in Order
  PROVE  /\ o.dir \in {-1, 1} /\ o.left \in Nat /\ o.left > 0
         /\ o.reduce \in BOOLEAN /\ o.late \in BOOLEAN
BY DEF Order

\* The position without the own trades that are still queued.
Handled(a) == a.position - OwnFlow(a.trades)

OwnOnly(q) == \A i \in DOMAIN q : q[i].own

\* What the calls of the actor, and the fills of its orders, leave of an account:
\* what they do to the position is on its way to the tracker.
Served(a, b) ==
  /\ b \in Account /\ Handled(b) = Handled(a)
  /\ OwnOnly(a.trades) => OwnOnly(b.trades)

\* One call or fill after another.
LEMMA ServedAgain ==
  ASSUME NEW a, NEW b, NEW c, Served(a, b), Served(b, c)
  PROVE  Served(a, c)
BY DEF Served

\* The last part of a queue.
LEMMA RecentType == ASSUME NEW q \in Seq(Trade) PROVE Recent(q) \in Seq(Trade)
<1> DEFINE n == Len(q)
           m == n - Lesser(n, Window) + 1
<1>1. n \in Nat /\ m \in Nat /\ 1 <= m
  BY FundingAssumption DEF Lesser
<1>2. \A i \in m..n : q[i] \in Trade
  BY <1>1
<1> HIDE DEF m
<1>3. SubSeq(q, m, n) \in Seq(Trade)
  BY <1>1, <1>2
<1> QED BY <1>3 DEF Recent, m

\* A fill, whether the stream is up or not.
LEMMA FilledEffect ==
  ASSUME NEW a \in Account, NEW own \in BOOLEAN, NEW qty \in Int, NEW b, b = Filled(a, own, qty)
  PROVE  /\ b \in Account /\ b.rests = a.rests
         /\ b.position = a.position + qty
         /\ Handled(b) = Handled(a) + (IF own THEN 0 ELSE qty)
         /\ OwnOnly(a.trades) /\ own => OwnOnly(b.trades)
         /\ b.trades = IF qty # 0 THEN Append(a.trades, [own |-> own, qty |-> qty]) ELSE a.trades
<1> DEFINE t == [own |-> own, qty |-> qty]
           trades == Append(a.trades, t)
<1>1. /\ a.position \in Int /\ a.link \in Links /\ a.rests \in Seq(Order)
      /\ a.trades \in Seq(Trade) /\ a.again \in Seq(Trade) /\ OwnFlow(a.trades) \in Int
      /\ Len(a.trades) \in Nat /\ a.missed \in Nat /\ a.missed <= Len(a.trades)
      /\ a.link = "up" => a.missed = 0
  BY AccountFields
<1>2. t \in Trade /\ t.own = own /\ t.qty = qty
  BY DEF Trade
<1>3. CASE qty = 0
  <2>1. b = a
    BY <1>3 DEF Filled
  <2>2. Handled(a) \in Int /\ (IF own THEN 0 ELSE qty) = 0 /\ a.position = a.position + qty
    BY <1>1, <1>3 DEF Handled
  <2> QED BY <1>3, <2>1, <2>2
<1>4. CASE qty # 0
  <2>1. /\ trades \in Seq(Trade) /\ OwnFlow(trades) = OwnFlow(a.trades) + OwnQty(t)
        /\ Len(trades) = Len(a.trades) + 1
        /\ \A i \in DOMAIN trades : trades[i] = t \/ (i \in DOMAIN a.trades /\ trades[i] = a.trades[i])
    <3> HIDE DEF t
    <3> QED BY <1>1, <1>2, OwnAppend
  <2>2. \E missed \in Nat, again \in Seq(Trade) :
          /\ missed <= Len(trades) /\ (a.link = "up" => missed = 0)
          /\ b = [position |-> a.position + qty, link |-> a.link, rests |-> a.rests,
                  trades |-> trades, missed |-> missed, again |-> again]
    <3>1. CASE a.link = "up"
      <4>1. b = [a EXCEPT !.position = @ + qty, !.trades = Append(@, t),
                          !.again = Recent(Append(@, t))]
        BY <1>4, <3>1 DEF Filled
      <4> DEFINE again == Recent(Append(a.again, t))
      <4>2. again \in Seq(Trade)
        <5> HIDE DEF t
        <5>1. Append(a.again, t) \in Seq(Trade)
          BY <1>1, <1>2
        <5> QED BY <5>1, RecentType
      <4>3. b = [position |-> a.position + qty, link |-> a.link, rests |-> a.rests,
                 trades |-> trades, missed |-> a.missed, again |-> again]
        BY <4>1 DEF Account
      <4> HIDE DEF again, trades, t
      <4> QED BY <1>1, <2>1, <4>2, <4>3, SMTT(30)
    <3>2. CASE a.link # "up"
      <4>1. b = [a EXCEPT !.position = @ + qty, !.trades = Append(@, t), !.missed = @ + 1]
        BY <1>4, <3>2 DEF Filled
      <4>2. b = [position |-> a.position + qty, link |-> a.link, rests |-> a.rests,
                 trades |-> trades, missed |-> a.missed + 1, again |-> a.again]
        BY <4>1 DEF Account
      <4> HIDE DEF trades, t
      <4> QED BY <1>1, <2>1, <3>2, <4>2, SMTT(30)
    <3> QED BY <3>1, <3>2
  <2>3. PICK missed \in Nat : \E again \in Seq(Trade) :
          /\ missed <= Len(trades) /\ (a.link = "up" => missed = 0)
          /\ b = [position |-> a.position + qty, link |-> a.link, rests |-> a.rests,
                  trades |-> trades, missed |-> missed, again |-> again]
    BY <2>2
  <2>4. PICK again \in Seq(Trade) :
          /\ missed <= Len(trades) /\ (a.link = "up" => missed = 0)
          /\ b = [position |-> a.position + qty, link |-> a.link, rests |-> a.rests,
                  trades |-> trades, missed |-> missed, again |-> again]
    BY <2>3
  <2> HIDE DEF trades, t
  <2>5. b.position = a.position + qty /\ b.rests = a.rests /\ b.trades = trades
    BY <2>4
  <2>6. a.position + qty \in Int
    BY <1>1
  <2>7. b \in Account
    BY <1>1, <2>1, <2>4, <2>6, AccountMade, SMTT(30)
  <2>8. Handled(b) = Handled(a) + (IF own THEN 0 ELSE qty)
    BY <1>1, <1>2, <2>1, <2>5 DEF Handled, OwnQty
  <2>9. OwnOnly(a.trades) /\ own => OwnOnly(b.trades)
    BY <1>2, <2>1, <2>5 DEF OwnOnly
  <2> QED BY <1>4, <2>5, <2>7, <2>8, <2>9 DEF trades, t
<1> QED BY <1>3, <1>4

\* A fill of the actor's own.
LEMMA ServedFill ==
  ASSUME NEW a \in Account, NEW qty \in Int
  PROVE  /\ Served(a, Filled(a, TRUE, qty))
         /\ Filled(a, TRUE, qty).position = a.position + qty /\ Filled(a, TRUE, qty).rests = a.rests
         /\ \A s \in {-1, 1} :
              OneSided(a.trades, s) /\ qty * s >= 0 => OneSided(Filled(a, TRUE, qty).trades, s)
<1> DEFINE b == Filled(a, TRUE, qty)
           t == [own |-> TRUE, qty |-> qty]
<1>1. Handled(a) \in Int
  BY AccountFields DEF Handled
<1>2. b = Filled(a, TRUE, qty) /\ TRUE \in BOOLEAN
  OBVIOUS
<1> HIDE DEF b
<1>3. /\ b \in Account /\ b.position = a.position + qty /\ b.rests = a.rests
      /\ Handled(b) = Handled(a) + (IF TRUE THEN 0 ELSE qty)
      /\ OwnOnly(a.trades) /\ TRUE => OwnOnly(b.trades)
      /\ b.trades = IF qty # 0 THEN Append(a.trades, t) ELSE a.trades
  BY <1>2, FilledEffect, ZenonT(30)
<1>4. Handled(b) = Handled(a)
  BY <1>1, <1>3
<1>5. OwnOnly(a.trades) => OwnOnly(b.trades)
  BY <1>3
<1>6. Served(a, b)
  BY <1>3, <1>4, <1>5 DEF Served
<1>7. ASSUME NEW s \in {-1, 1}, OneSided(a.trades, s), qty * s >= 0
      PROVE  OneSided(b.trades, s)
  <2>1. CASE b.trades = a.trades
    BY <1>7, <2>1
  <2>2. CASE b.trades = Append(a.trades, t) /\ qty # 0
    <3>1. t \in Trade /\ t.own /\ t.qty = qty
      BY DEF Trade
    <3>2. qty * s > 0
      BY <1>7, <2>2
    <3> HIDE DEF t
    <3>3. \A i \in DOMAIN b.trades :
            b.trades[i] = t \/ (i \in DOMAIN a.trades /\ b.trades[i] = a.trades[i])
      BY <2>2, <3>1, AccountFields, OwnAppend
    <3> QED BY <1>7, <3>1, <3>2, <3>3 DEF OneSided
  <2> QED BY <1>3, <2>1, <2>2
<1> QED BY <1>2, <1>3, <1>6, <1>7

\* What becomes of the resting orders is not queued.
LEMMA ServedRests ==
  ASSUME NEW a \in Account, NEW rests \in Seq(Order)
  PROVE  LET b == [a EXCEPT !.rests = rests]
         IN  /\ Served(a, b) /\ b.position = a.position /\ b.rests = rests /\ b.trades = a.trades
<1> DEFINE b == [a EXCEPT !.rests = rests]
<1>1. /\ b.position = a.position /\ b.rests = rests /\ b.trades = a.trades
      /\ b \in Account
  BY DEF Account
<1> HIDE DEF b
<1>2. Served(a, b)
  BY <1>1 DEF Served, Handled
<1> QED BY <1>1, <1>2 DEF b

\* The partial results of Late.
Keeps(f, rests, n) ==
  f = [i \in 0..n |-> IF i = 0 THEN <<>>
                      ELSE IF rests[i].late THEN Append(f[i - 1], rests[i]) ELSE f[i - 1]]

\* There are such partial results, up to every length.
LEMMA KeepsExist ==
  ASSUME NEW r, NEW n \in Nat
  PROVE  \E f : Keeps(f, r, n)
<1> DEFINE bad == {j \in Nat : ~\E f : Keeps(f, r, j)}
<1> SUFFICES ASSUME n \in bad PROVE FALSE
  OBVIOUS
<1>1. PICK j \in bad : \A i \in bad : ~(i < j)
  <2>1. bad \in SUBSET Nat /\ bad # {}
    OBVIOUS
  <2> HIDE DEF bad
  <2>2. QED  BY <2>1, LeastNumber
<1>2. CASE j = 0
  <2>1. Keeps([i \in 0..0 |-> <<>>], r, 0)
    BY DEF Keeps
  <2>2. QED  BY <1>1, <1>2, <2>1
<1>3. CASE j # 0
  <2>1. j \in Nat /\ j - 1 \in Nat /\ j - 1 < j
    BY <1>1, <1>3
  <2>2. PICK f : Keeps(f, r, j - 1)
    BY <1>1, <2>1
  <2> DEFINE next(h, i) == IF i = 0 THEN <<>>
                           ELSE IF r[i].late THEN Append(h[i - 1], r[i]) ELSE h[i - 1]
             g == [i \in 0..j |-> IF i = j THEN next(f, j) ELSE f[i]]
  <2>3. ASSUME NEW i \in 0..j
        PROVE  g[i] = next(g, i)
    <3>1. CASE i = j
      <4>1. j - 1 \in 0..j /\ j - 1 # j
        BY <2>1
      <4>2. g[j - 1] = f[j - 1]
        BY <4>1
      <4>3. g[i] = next(f, j)
        BY <3>1
      <4> HIDE DEF g
      <4>4. QED  BY <1>3, <3>1, <4>2, <4>3
    <3>2. CASE i # j
      <4>1. i \in 0..(j - 1) /\ (i # 0 => i - 1 \in 0..j /\ i - 1 # j)
        BY <2>1, <3>2
      <4>2. f[i] = next(f, i)
        BY <2>2, <4>1 DEF Keeps
      <4>3. g[i] = f[i] /\ (i # 0 => g[i - 1] = f[i - 1])
        BY <3>2, <4>1
      <4> HIDE DEF g
      <4>4. QED  BY <4>2, <4>3
    <3>3. QED  BY <3>1, <3>2
  <2>4. g = [i \in 0..j |-> next(g, i)]
    <3>1. g = [i \in 0..j |-> g[i]]
      OBVIOUS
    <3> HIDE DEF g, next
    <3>2. QED  BY <2>3, <3>1
  <2> HIDE DEF g
  <2>5. Keeps(g, r, j)
    BY <2>4 DEF Keeps
  <2>6. QED  BY <1>1, <2>5
<1>4. QED  BY <1>2, <1>3

\* What cancel_all cannot reach are orders, and none when there are none.
LEMMA LateType ==
  ASSUME NEW r \in Seq(Order)
  PROVE  Late(r) \in Seq(Order) /\ (r = <<>> => Late(r) = <<>>)
<1> DEFINE n == Len(r)
           g == CHOOSE f : Keeps(f, r, n)
<1>1. n \in Nat /\ \A i \in 1..n : r[i] \in Order
  OBVIOUS
<1>2. Late(r) = g[n]
  BY DEF Late, Keeps
<1>3. Keeps(g, r, n)
  <2> HIDE DEF n
  <2>1. \E f : Keeps(f, r, n)
    BY <1>1, KeepsExist
  <2> QED BY <2>1
<1> HIDE DEF g
<1>4. g[0] = <<>>
  BY <1>1, <1>3 DEF Keeps
<1>5. g[n] \in Seq(Order)
  <2> DEFINE bad == {i \in 0..n : g[i] \notin Seq(Order)}
  <2> SUFFICES ASSUME n \in bad PROVE FALSE
    BY <1>1
  <2>1. PICK j \in bad : \A i \in bad : ~(i < j)
    <3>1. bad \in SUBSET Nat /\ bad # {}
      OBVIOUS
    <3> HIDE DEF bad
    <3>2. QED  BY <3>1, LeastNumber
  <2>2. j \in 0..n /\ g[j] \notin Seq(Order)
    BY <2>1
  <2>3. j # 0
    <3>1. <<>> \in Seq(Order)
      OBVIOUS
    <3> QED BY <1>4, <2>2, <3>1
  <2>4. j - 1 \in 0..n /\ j - 1 < j /\ j \in 1..n
    BY <1>1, <2>2, <2>3
  <2>5. g[j - 1] \in Seq(Order)
    BY <2>1, <2>4
  <2>6. g[j] = IF r[j].late THEN Append(g[j - 1], r[j]) ELSE g[j - 1]
    BY <1>3, <2>2, <2>3 DEF Keeps
  <2> QED BY <1>1, <2>2, <2>4, <2>5, <2>6
<1> QED BY <1>2, <1>4, <1>5

\* Any entry of a sequence may be taken out.
LEMMA RemoveAtEffect ==
  ASSUME NEW T, NEW r \in Seq(T), NEW i \in DOMAIN r
  PROVE  /\ RemoveAt(r, i) \in Seq(T) /\ Len(RemoveAt(r, i)) = Len(r) - 1
         /\ \A j \in DOMAIN RemoveAt(r, i) : \E k \in DOMAIN r : RemoveAt(r, i)[j] = r[k]
         /\ \A j \in 1..(Len(r) - 1) : RemoveAt(r, i)[j] = IF j < i THEN r[j] ELSE r[j + 1]
<1> DEFINE n == Len(r)
           u == SubSeq(r, 1, i - 1)
           v == SubSeq(r, i + 1, n)
<1>1. n \in Nat /\ DOMAIN r = 1..n /\ i \in 1..n
  OBVIOUS
<1>2. u \in Seq(T) /\ Len(u) = i - 1 /\ \A j \in 1..(i - 1) : u[j] = r[j]
  BY <1>1
<1>3. v \in Seq(T) /\ Len(v) = n - i /\ \A j \in 1..(n - i) : v[j] = r[i + j]
  BY <1>1
<1>4. RemoveAt(r, i) = u \o v
  BY DEF RemoveAt
<1> HIDE DEF n, u, v
<1>5. /\ u \o v \in Seq(T) /\ Len(u \o v) = n - 1
      /\ \A j \in 1..(n - 1) : (u \o v)[j] = IF j <= i - 1 THEN u[j] ELSE v[j - (i - 1)]
  <2>1. /\ u \o v \in Seq(T) /\ Len(u \o v) = Len(u) + Len(v)
        /\ \A j \in 1..(Len(u) + Len(v)) :
             (u \o v)[j] = IF j <= Len(u) THEN u[j] ELSE v[j - Len(u)]
    BY <1>2, <1>3, ConcatProperties
  <2>2. Len(u) = i - 1 /\ Len(u) + Len(v) = n - 1
    BY <1>1, <1>2, <1>3
  <2> QED BY <2>1, <2>2
<1>7. ASSUME NEW j \in 1..(n - 1)
      PROVE  /\ \E k \in 1..n : (u \o v)[j] = r[k]
             /\ (u \o v)[j] = IF j < i THEN r[j] ELSE r[j + 1]
  <2>1. CASE j <= i - 1
    <3>1. j \in 1..(i - 1) /\ j \in 1..n /\ j < i
      BY <1>1, <2>1
    <3>2. (u \o v)[j] = r[j]
      BY <1>2, <1>5, <2>1, <3>1
    <3> QED BY <3>1, <3>2
  <2>2. CASE ~(j <= i - 1)
    <3>1. j - (i - 1) \in 1..(n - i) /\ i + (j - (i - 1)) = j + 1 /\ j + 1 \in 1..n /\ ~(j < i)
      BY <1>1, <2>2
    <3>2. (u \o v)[j] = r[j + 1]
      BY <1>3, <1>5, <2>2, <3>1
    <3> QED BY <3>1, <3>2
  <2> QED BY <2>1, <2>2
<1>8. DOMAIN (u \o v) = 1..(n - 1)
  BY <1>5
<1> QED BY <1>1, <1>4, <1>5, <1>7, <1>8 DEF n

\* A trade taken out of a queue.
LEMMA OwnRemoved ==
  ASSUME NEW q \in Seq(Trade), NEW i \in DOMAIN q
  PROVE  /\ RemoveAt(q, i) \in Seq(Trade) /\ OwnFlow(RemoveAt(q, i)) \in Int /\ OwnQty(q[i]) \in Int
         /\ Len(RemoveAt(q, i)) = Len(q) - 1
         /\ OwnFlow(RemoveAt(q, i)) = OwnFlow(q) - OwnQty(q[i])
         /\ \A j \in DOMAIN RemoveAt(q, i) : \E k \in DOMAIN q : RemoveAt(q, i)[j] = q[k]
<1> DEFINE r == RemoveAt(q, i)
           n == Len(r)
<1>1. /\ r \in Seq(Trade) /\ Len(r) = Len(q) - 1
      /\ \A j \in DOMAIN r : \E k \in DOMAIN q : r[j] = q[k]
      /\ \A j \in 1..(Len(q) - 1) : r[j] = IF j < i THEN q[j] ELSE q[j + 1]
  BY RemoveAtEffect
<1> HIDE DEF r
<1>2. Len(q) \in Nat /\ n \in Nat /\ n + 1 = Len(q) /\ DOMAIN q = 1..(n + 1) /\ i \in 1..(n + 1)
  BY <1>1, QueueType
<1>3. /\ OwnFlow(q) = Along(OwnQtys(q), n + 1) /\ OwnFlow(r) = Along(OwnQtys(r), n)
      /\ \A j \in 1..(n + 1) : OwnQtys(q)[j] = OwnQty(q[j]) /\ OwnQtys(q)[j] \in Int
      /\ \A j \in 1..n : OwnQtys(r)[j] = OwnQty(r[j])
      /\ OwnFlow(r) \in Int
  BY <1>1, <1>2, QueueType
<1>4. \A j \in 1..n : OwnQtys(r)[j] = IF j < i THEN OwnQtys(q)[j] ELSE OwnQtys(q)[j + 1]
  <2> SUFFICES ASSUME NEW j \in 1..n
               PROVE  OwnQtys(r)[j] = IF j < i THEN OwnQtys(q)[j] ELSE OwnQtys(q)[j + 1]
    OBVIOUS
  <2>1. j \in 1..(n + 1) /\ j + 1 \in 1..(n + 1) /\ j \in 1..(Len(q) - 1)
    BY <1>2
  <2>2. OwnQtys(r)[j] = OwnQty(r[j]) /\ r[j] = IF j < i THEN q[j] ELSE q[j + 1]
    BY <1>1, <1>3, <2>1
  <2> QED BY <1>3, <2>1, <2>2
<1> HIDE DEF n
<1>5. Along(OwnQtys(r), n) = Along(OwnQtys(q), n + 1) - OwnQtys(q)[i]
  BY <1>2, <1>3, <1>4, AlongRemoved
<1> QED BY <1>1, <1>2, <1>3, <1>5 DEF r

\* An order that comes to rest.
LEMMA RestingEffect ==
  ASSUME NEW a \in Account, NEW dir \in {-1, 1}, NEW left \in Nat \ {0}, NEW reduce \in BOOLEAN,
         NEW late \in BOOLEAN, NEW b, b = Resting(a, dir, left, reduce, late)
  PROVE  /\ Served(a, b) /\ b.position = a.position /\ b.trades = a.trades
         /\ b.rests = Append(a.rests, [dir |-> dir, left |-> left, reduce |-> reduce, late |-> late])
<1> DEFINE o == [dir |-> dir, left |-> left, reduce |-> reduce, late |-> late]
           rests == Append(a.rests, o)
<1>1. o \in Order
  BY DEF Order
<1> HIDE DEF o
<1>2. rests \in Seq(Order)
  BY <1>1, AccountFields
<1>3. b = [a EXCEPT !.rests = rests]
  BY DEF Resting, o
<1> HIDE DEF rests
<1>4. Served(a, b) /\ b.position = a.position /\ b.rests = rests /\ b.trades = a.trades
  BY <1>2, <1>3, ServedRests
<1> QED BY <1>4 DEF rests, o

\* A reduce-only order fills no more than the position.
LEMMA FillableBound ==
  ASSUME NEW a \in Account, NEW dir \in {-1, 1}, NEW left \in Nat, NEW reduce \in BOOLEAN
  PROVE  /\ Fillable(a, dir, left, reduce) \in 0..left
         /\ reduce /\ a.position * dir <= 0 => Fillable(a, dir, left, reduce) <= -(a.position * dir)
<1>1. a.position \in Int
  BY AccountFields
<1>2. CASE dir = 1
  BY <1>1, <1>2 DEF Fillable, Lesser, Magnitude
<1>3. CASE dir = -1
  BY <1>1, <1>3 DEF Fillable, Lesser, Magnitude
<1> QED BY <1>2, <1>3

\* What an order that is placed may come to.
LEMMA PlaceCases ==
  ASSUME NEW a \in Account, NEW dir \in {-1, 1}, NEW qty \in Nat \ {0}, NEW reduce \in BOOLEAN,
         NEW o \in PlaceOutcomes(a, dir, qty, reduce)
  PROVE  /\ o.told \in BOOLEAN
         /\ \/ o.acct = Resting(a, dir, qty, reduce, FALSE)
            \/ \E x \in 0..Fillable(a, dir, qty, reduce) : o.acct = Filled(a, TRUE, dir * x)
            \/ ~o.told /\ o.acct \in {a, Resting(a, dir, qty, reduce, TRUE)}
<1> DEFINE filled == {Filled(a, TRUE, dir * x) : x \in 0..Fillable(a, dir, qty, reduce)}
           done == IF passive THEN {Resting(a, dir, qty, reduce, FALSE)} ELSE filled
           others == {a, Resting(a, dir, qty, reduce, TRUE)}
<1>1. o \in [told : BOOLEAN, acct : done] \/ o \in [told : {FALSE}, acct : others]
  BY DEF PlaceOutcomes
<1>2. CASE o \in [told : BOOLEAN, acct : done]
  <2>1. o.told \in BOOLEAN /\ o.acct \in done
    BY <1>2
  <2>2. o.acct = Resting(a, dir, qty, reduce, FALSE) \/ o.acct \in filled
    BY <2>1
  <2> QED BY <2>1, <2>2
<1>3. CASE o \in [told : {FALSE}, acct : others]
  <2> HIDE DEF others
  <2>1. o.told = FALSE /\ o.acct \in others
    BY <1>3
  <2> QED BY <2>1 DEF others
<1> QED BY <1>1, <1>2, <1>3

\* Placing an order serves the account (place_order, rest or fill at once).
LEMMA ServedPlace ==
  ASSUME NEW a \in Account, NEW dir \in {-1, 1}, NEW qty \in Nat \ {0}, NEW reduce \in BOOLEAN,
         NEW o \in PlaceOutcomes(a, dir, qty, reduce)
  PROVE  Served(a, o.acct)
<1>1. CASE \E late \in BOOLEAN : o.acct = Resting(a, dir, qty, reduce, late)
  <2>1. PICK late \in BOOLEAN : o.acct = Resting(a, dir, qty, reduce, late)
    BY <1>1
  <2> DEFINE b == o.acct
  <2>2. b = Resting(a, dir, qty, reduce, late)
    BY <2>1
  <2> HIDE DEF b
  <2>3. Served(a, b)
    BY <2>2, RestingEffect
  <2> QED BY <2>3 DEF b
<1>2. CASE \E x \in 0..Fillable(a, dir, qty, reduce) : o.acct = Filled(a, TRUE, dir * x)
  <2>1. PICK x \in 0..Fillable(a, dir, qty, reduce) : o.acct = Filled(a, TRUE, dir * x)
    BY <1>2
  <2>2. x \in Int
    BY FillableBound
  <2>3. dir * x \in Int
    BY <2>2
  <2> QED BY <2>1, <2>3, ServedFill
<1>3. CASE o.acct = a
  BY <1>3 DEF Served
<1>4. TRUE \in BOOLEAN /\ FALSE \in BOOLEAN
  OBVIOUS
<1>5. \/ o.acct = Resting(a, dir, qty, reduce, FALSE)
      \/ \E x \in 0..Fillable(a, dir, qty, reduce) : o.acct = Filled(a, TRUE, dir * x)
      \/ o.acct \in {a, Resting(a, dir, qty, reduce, TRUE)}
  BY PlaceCases, Zenon
<1> QED BY <1>1, <1>2, <1>3, <1>4, <1>5

\* An order that rests, and one that has filled, with what it leaves.
OrderRests(a, b, dir, qty, reduce) ==
  /\ b.position = a.position /\ b.trades = a.trades
  /\ \E r \in Order : /\ b.rests = Append(a.rests, r)
                      /\ r.dir = dir /\ r.left = qty /\ r.reduce = reduce
OrderFills(a, b, dir, qty) ==
  \E moved \in Int : b = Filled(a, TRUE, moved) /\ moved * dir \in 0..qty

\* The same without the calls: an order is not there, rests, or has filled.
LEMMA Placed ==
  ASSUME NEW a \in Account, NEW dir \in {-1, 1}, NEW qty \in Nat \ {0}, NEW reduce \in BOOLEAN,
         NEW o \in PlaceOutcomes(a, dir, qty, reduce)
  PROVE  o.acct = a \/ OrderRests(a, o.acct, dir, qty, reduce) \/ OrderFills(a, o.acct, dir, qty)
<1>1. ASSUME NEW late \in BOOLEAN, o.acct = Resting(a, dir, qty, reduce, late)
      PROVE  OrderRests(a, o.acct, dir, qty, reduce)
  <2> DEFINE b == o.acct
             r == [dir |-> dir, left |-> qty, reduce |-> reduce, late |-> late]
  <2>2. b = Resting(a, dir, qty, reduce, late)
    BY <1>1
  <2> HIDE DEF b
  <2>3. b.position = a.position /\ b.trades = a.trades /\ b.rests = Append(a.rests, r)
    BY <2>2, RestingEffect
  <2>4. r \in Order /\ r.dir = dir /\ r.left = qty /\ r.reduce = reduce
    BY DEF Order
  <2> HIDE DEF r
  <2>5. OrderRests(a, b, dir, qty, reduce)
    BY <2>3, <2>4 DEF OrderRests
  <2> QED BY <2>5 DEF b
<1>2. ASSUME NEW x \in 0..Fillable(a, dir, qty, reduce), o.acct = Filled(a, TRUE, dir * x)
      PROVE  OrderFills(a, o.acct, dir, qty)
  <2>2. x \in 0..qty
    BY FillableBound
  <2>3. dir * x \in Int /\ (dir * x) * dir = x
    <3>1. CASE dir = 1
      BY <2>2, <3>1
    <3>2. CASE dir = -1
      BY <2>2, <3>2
    <3> QED BY <3>1, <3>2
  <2> QED BY <1>2, <2>2, <2>3 DEF OrderFills
<1>3. TRUE \in BOOLEAN /\ FALSE \in BOOLEAN
  OBVIOUS
<1>4. \/ o.acct = Resting(a, dir, qty, reduce, FALSE)
      \/ \E x \in 0..Fillable(a, dir, qty, reduce) : o.acct = Filled(a, TRUE, dir * x)
      \/ o.acct \in {a, Resting(a, dir, qty, reduce, TRUE)}
  BY PlaceCases, Zenon
<1> QED BY <1>1, <1>2, <1>3, <1>4

\* So does cancelling all orders, which leaves the position as it was.
LEMMA ServedCancel ==
  ASSUME NEW a \in Account, NEW b \in CancelOutcomes(a)
  PROVE  /\ Served(a, b) /\ b.position = a.position /\ b.trades = a.trades
         /\ a.rests = <<>> => b.rests = <<>>
<1>1. Late(a.rests) \in Seq(Order) /\ (a.rests = <<>> => Late(a.rests) = <<>>)
  BY AccountFields, LateType
<1>2. CASE b = a
  BY <1>2 DEF Served
<1>3. CASE b # a
  <2>1. b = [a EXCEPT !.rests = Late(a.rests)]
    BY <1>3 DEF CancelOutcomes
  <2> QED BY <1>1, <2>1, ServedRests
<1> QED BY <1>2, <1>3

\* A leg that passes for flat and hides nothing is flat.
LegFlat(a) == a.position = 0 /\ a.rests = <<>>

\* Flattening a leg (flatten_filled_leg): it serves the account, and what passes for
\* clean and hides nothing is flat.
LEMMA FlattenEffect ==
  ASSUME NEW a \in Account, NEW f \in FlattenLeg(a)
  PROVE  /\ f.clean \in BOOLEAN /\ f.loose \in BOOLEAN /\ Served(a, f.acct)
         /\ f.clean /\ ~f.loose => LegFlat(f.acct)
<1> DEFINE sizes == 0..Lesser(Magnitude(a.position), Size)
           sold(c, x) == Filled(c, TRUE, -SignOf(a.position) * x)
<1>1. PICK c \in CancelOutcomes(a) :
        \/ f = Flattened(a, "unread", c)
        \/ \E answer \in {"refused", "accepted"}, x \in sizes : f = Flattened(a, answer, sold(c, x))
  <2> DEFINE closes == [answer : {"refused", "accepted"}, size : sizes]
             all(c) == {Flattened(a, "unread", c)} \cup
                       {Flattened(a, close.answer, sold(c, close.size)) : close \in closes}
  <2>1. f \in UNION {all(c) : c \in CancelOutcomes(a)}
    BY DEF FlattenLeg
  <2> HIDE DEF all
  <2>2. PICK c \in CancelOutcomes(a) : f \in all(c)
    BY <2>1
  <2> HIDE DEF sold, sizes
  <2>3. f = Flattened(a, "unread", c) \/ \E close \in closes : f = Flattened(a, close.answer, sold(c, close.size))
    BY <2>2 DEF all
  <2> QED BY <2>3
<1>2. /\ Served(a, c) /\ c.position = a.position /\ c.trades = a.trades /\ c \in Account
      /\ a.position \in Int
  BY ServedCancel, AccountFields DEF Served
<1>3. CASE f = Flattened(a, "unread", c)
  <2>1. CleanLeg(a.position, "unread") = FALSE
    BY DEF CleanLeg
  <2>2. f.clean = FALSE /\ f.acct = c /\ f.loose = FALSE
    BY <1>3, <2>1 DEF Flattened
  <2> QED BY <1>2, <2>1, <2>2
<1>4. CASE \E answer \in {"refused", "accepted"}, x \in sizes : f = Flattened(a, answer, sold(c, x))
  <2>1. PICK answer \in {"refused", "accepted"}, x \in sizes : f = Flattened(a, answer, sold(c, x))
    BY <1>4
  <2> DEFINE b == sold(c, x)
             clean == CleanLeg(a.position, answer)
             qty == -SignOf(a.position) * x
  <2>2. /\ x \in Int /\ 0 <= x /\ x <= Magnitude(a.position)
        /\ SignOf(a.position) \in Int /\ -SignOf(a.position) \in Int /\ qty \in Int
    BY <1>2, FundingAssumption DEF Lesser, Magnitude, SignOf
  <2>3. Served(a, b)
    BY <1>2, <2>2, ServedFill, ServedAgain
  <2>4. /\ f.clean = clean /\ f.acct = b
        /\ f.loose = (clean /\ (b.rests # <<>> \/ (answer = "accepted" /\ b.position # 0)))
    BY <2>1 DEF Flattened
  <2>5. clean \in BOOLEAN
    BY DEF CleanLeg
  <2>6. ASSUME f.clean, ~f.loose PROVE LegFlat(b)
    <3>1. b.rests = <<>> /\ ~(answer = "accepted" /\ b.position # 0)
      BY <2>4, <2>6
    <3>2. b.position = a.position + qty
      <4>1. Filled(c, TRUE, qty).position = c.position + qty
        BY <1>2, <2>2, ServedFill
      <4> QED BY <1>2, <4>1
    <3>3. CASE answer = "accepted"
      BY <3>1, <3>3 DEF LegFlat
    <3>4. CASE answer = "refused"
      <4>1. a.position = 0
        BY <2>4, <2>6, <3>4 DEF CleanLeg
      <4>2. x = 0
        BY <2>2, <4>1 DEF Magnitude
      <4>3. qty = 0
        BY <2>2, <4>2
      <4> HIDE DEF b, qty
      <4> QED BY <3>1, <3>2, <4>1, <4>3 DEF LegFlat
    <3> QED BY <3>3, <3>4
  <2> HIDE DEF b, clean
  <2> QED BY <2>3, <2>4, <2>5, <2>6
<1> QED BY <1>1, <1>3, <1>4

-----------------------------------------------------------------------------
(* One leg: account a of a venue where the arb is on side s, and n of the  *)
(* tracker.                                                                *)

\* On the way in: what is held and what rests are together no more than the size,
\* and the tracker lags behind.
LegEntering(a, s, n) ==
  /\ a.position * s \in 0..Size
  /\ OneSided(a.trades, s) /\ n * s + OwnFlow(a.trades) * s <= a.position * s
  /\ Len(a.rests) <= 1
  /\ \A i \in DOMAIN a.rests : /\ a.rests[i].dir = s /\ ~a.rests[i].reduce
                               /\ a.position * s + a.rests[i].left <= Size

\* The tracker and the position agree, and nothing is on its way.
LegActive(a, s, n) ==
  a.position * s = Size /\ n * s = Size /\ a.rests = <<>> /\ a.trades = <<>>

\* On the way out: the only order is for what is held.
LegExiting(a, s, n) ==
  /\ a.position * s \in 0..Size
  /\ OneSided(a.trades, -s) /\ n * s + OwnFlow(a.trades) * s >= a.position * s
  /\ Len(a.rests) <= 1
  /\ \A i \in DOMAIN a.rests : /\ a.rests[i].dir = -s /\ a.rests[i].reduce
                               /\ a.rests[i].left = a.position * s

\* Products with a side.
LEMMA Signs ==
  ASSUME NEW s \in {-1, 1}
  PROVE  /\ s \in Int /\ -s \in {-1, 1} /\ s * s = 1 /\ -(-s) = s
         /\ \A x \in Int : /\ x * s \in Int /\ x * (-s) = -(x * s) /\ s * x = x * s
                           /\ (x * s = 0) <=> (x = 0)
         /\ \A x, y \in Int : (x + y) * s = x * s + y * s
<1>1. s \in Int /\ -s \in {-1, 1} /\ s * s = 1 /\ -(-s) = s
  OBVIOUS
<1>2. ASSUME NEW x \in Int
      PROVE  /\ x * s \in Int /\ x * (-s) = -(x * s) /\ s * x = x * s
             /\ (x * s = 0) <=> (x = 0)
  <2>1. CASE s = 1
    BY <2>1
  <2>2. CASE s = -1
    <3>1. x * s = -x /\ s * x = -x
      BY <2>2
    <3>2. x * (-s) = -(x * s)
      BY <2>2
    <3> QED BY <3>1, <3>2
  <2> QED BY <2>1, <2>2
<1>3. ASSUME NEW x \in Int, NEW y \in Int
      PROVE  (x + y) * s = x * s + y * s
  <2>1. CASE s = 1
    BY <2>1
  <2>2. CASE s = -1
    BY <2>2
  <2> QED BY <2>1, <2>2
<1> QED BY <1>1, <1>2, <1>3

\* Both sides of an empty queue.
LEMMA EmptyQueue ==
  ASSUME NEW s
  PROVE  /\ <<>> \in Seq(Trade) /\ OneSided(<<>>, s) /\ OwnOnly(<<>>) /\ OwnFlow(<<>>) = 0
<1>1. <<>> \in Seq(Trade) /\ \A i \in DOMAIN <<>> : FALSE
  OBVIOUS
<1>2. OwnFlow(<<>>) = 0
  BY <1>1, NoOwnFlow
<1> QED BY <1>1, <1>2 DEF OneSided, OwnOnly

\* An own fill of a leg, on whichever side.
LegFilled(a, b, s, qty) ==
  /\ Served(a, b) /\ b.rests = a.rests
  /\ b.position * s = a.position * s + qty * s
  /\ (OneSided(a.trades, s) /\ qty * s >= 0) => OneSided(b.trades, s)
  /\ (OneSided(a.trades, -s) /\ qty * s <= 0) => OneSided(b.trades, -s)
  /\ \/ OwnFlow(b.trades) * s = OwnFlow(a.trades) * s
     \/ OwnFlow(b.trades) * s = OwnFlow(a.trades) * s + qty * s

\* A fill at once does that, on either side.
LEMMA LegFill ==
  ASSUME NEW a \in Account, NEW s \in {-1, 1}, NEW qty \in Int,
         NEW b, b = Filled(a, TRUE, qty)
  PROVE  LegFilled(a, b, s, qty)
<1>1. /\ Served(a, b) /\ b.position = a.position + qty /\ b.rests = a.rests
      /\ \A u \in {-1, 1} : OneSided(a.trades, u) /\ qty * u >= 0 => OneSided(b.trades, u)
  BY ServedFill
<1>2. /\ a.position \in Int /\ OwnFlow(a.trades) \in Int /\ a.trades \in Seq(Trade) /\ b \in Account
      /\ b.position \in Int /\ OwnFlow(b.trades) \in Int
  BY <1>1, AccountFields DEF Served
<1>3. qty * (-s) = -(qty * s) /\ qty * s \in Int /\ -s \in {-1, 1}
  BY Signs
<1>4. qty * s <= 0 => qty * (-s) >= 0
  BY <1>3
<1>5. OwnFlow(b.trades) = OwnFlow(a.trades) \/ OwnFlow(b.trades) = OwnFlow(a.trades) + qty
  <2> DEFINE t == [own |-> TRUE, qty |-> qty]
  <2>1. b.trades = a.trades \/ b.trades = Append(a.trades, t)
    <3>1. TRUE \in BOOLEAN
      OBVIOUS
    <3>2. b.trades = IF qty # 0 THEN Append(a.trades, t) ELSE a.trades
      BY <3>1, FilledEffect
    <3> QED BY <3>2
  <2>2. t \in Trade /\ OwnQty(t) = qty
    BY DEF Trade, OwnQty
  <2> HIDE DEF t
  <2>3. OwnFlow(Append(a.trades, t)) = OwnFlow(a.trades) + qty
    BY <1>2, <2>2, OwnAppend
  <2> QED BY <2>1, <2>3
<1>6. b.position * s = a.position * s + qty * s
  BY <1>1, <1>2, Signs
<1>7. OwnFlow(b.trades) * s = OwnFlow(a.trades) * s \/ OwnFlow(b.trades) * s = OwnFlow(a.trades) * s + qty * s
  BY <1>2, <1>5, Signs
<1> QED BY <1>1, <1>2, <1>3, <1>4, <1>6, <1>7 DEF LegFilled

\* What an entry order makes of a flat leg.
LEMMA EnterPlaced ==
  ASSUME NEW a \in Account, LegFlat(a), a.trades = <<>>, NEW s \in {-1, 1},
         NEW no \in BOOLEAN, ~no, NEW o \in PlaceOutcomes(a, s, Size, no)
  PROVE  LegEntering(o.acct, s, 0)
<1> DEFINE b == o.acct
<1>1. Size \in Nat /\ Size \in Nat \ {0} /\ a.position = 0 /\ a.rests = <<>>
  BY FundingAssumption DEF LegFlat
<1>2. 0 * s = 0 /\ s \in Int
  BY Signs
<1>3. OwnFlow(a.trades) = 0 /\ OneSided(a.trades, s) /\ OwnFlow(a.trades) * s = 0 /\ a.position * s = 0
  BY <1>1, <1>2, EmptyQueue
<1>4. b = a \/ OrderRests(a, b, s, Size, no) \/ OrderFills(a, b, s, Size)
  BY <1>1, Placed
<1> HIDE DEF b
<1>5. CASE b = a
  <2>1. b.position = 0 /\ b.rests = <<>> /\ b.trades = a.trades
    BY <1>1, <1>5
  <2> QED BY <1>1, <1>2, <1>3, <2>1 DEF LegEntering, b
<1>6. CASE OrderRests(a, b, s, Size, no)
  <2>1. b.position = 0 /\ b.trades = a.trades
    BY <1>1, <1>6 DEF OrderRests
  <2>2. PICK r \in Order : b.rests = Append(<<>>, r) /\ r.dir = s /\ r.left = Size /\ r.reduce = no
    BY <1>1, <1>6 DEF OrderRests
  <2>3. Len(b.rests) = 1 /\ \A i \in DOMAIN b.rests : b.rests[i] = r
    BY <2>2
  <2> QED BY <1>1, <1>2, <1>3, <2>1, <2>2, <2>3 DEF LegEntering, b
<1>7. CASE OrderFills(a, b, s, Size)
  <2>1. PICK moved \in Int : b = Filled(a, TRUE, moved) /\ moved * s \in 0..Size
    BY <1>7 DEF OrderFills
  <2>2. LegFilled(a, b, s, moved)
    BY <2>1, LegFill
  <2> DEFINE x == moved * s
             flow == OwnFlow(b.trades) * s
  <2>3. x \in 0..Size
    BY <2>1
  <2>4. b.position * s = 0 + x /\ (flow = 0 \/ flow = 0 + x) /\ b.rests = <<>>
    BY <1>1, <1>3, <2>2, Zenon DEF LegFilled
  <2>5. OneSided(b.trades, s)
    BY <1>3, <2>2, <2>3 DEF LegFilled
  <2>6. Len(b.rests) <= 1 /\ \A i \in DOMAIN b.rests : FALSE
    BY <2>4
  <2> HIDE DEF x, flow
  <2>7. b.position * s \in 0..Size /\ 0 * s + flow <= b.position * s
    BY <1>1, <1>2, <2>3, <2>4
  <2> QED BY <2>5, <2>6, <2>7 DEF LegEntering, b, flow
<1> QED BY <1>4, <1>5, <1>6, <1>7 DEF b

\* What the exit order makes of an active leg, whatever is said of it.
LEMMA ExitPlaced ==
  ASSUME NEW a \in Account, NEW s \in {-1, 1}, NEW n \in Int, LegActive(a, s, n),
         NEW yes \in BOOLEAN, yes, NEW o \in PlaceOutcomes(a, -SignOf(n), Magnitude(n), yes)
  PROVE  LegExiting(o.acct, s, n) /\ Served(a, o.acct)
<1> DEFINE b == o.acct
<1>1. /\ Size \in Nat /\ Size \in Nat \ {0} /\ a.rests = <<>> /\ a.trades = <<>>
      /\ a.position * s = Size /\ n * s = Size /\ a.position \in Int
  BY FundingAssumption, AccountFields DEF LegActive
<1>2. -SignOf(n) = -s /\ Magnitude(n) = Size /\ -s \in {-1, 1}
  <2>1. CASE s = 1
    BY <1>1, <2>1 DEF SignOf, Magnitude
  <2>2. CASE s # 1
    <3>1. n * s = -n /\ -s = 1
      BY <2>2
    <3>2. n = -Size /\ n < 0
      BY <1>1, <3>1
    <3>3. SignOf(n) = -1 /\ Magnitude(n) = -n
      BY <3>2 DEF SignOf, Magnitude
    <3>4. SignOf(n) = s
      BY <2>2, <3>3
    <3> QED BY <1>1, <3>1, <3>2, <3>3, <3>4
  <2> QED BY <2>1, <2>2
<1>3. OwnFlow(a.trades) = 0 /\ OneSided(a.trades, -s) /\ OwnFlow(a.trades) * s = 0
  BY <1>1, EmptyQueue, Signs
<1>4. (b = a \/ OrderRests(a, b, -s, Size, yes) \/ OrderFills(a, b, -s, Size)) /\ Served(a, b)
  <2>1. o \in PlaceOutcomes(a, -s, Size, yes)
    BY <1>2
  <2> QED BY <1>1, <1>2, <2>1, Placed, ServedPlace
<1> HIDE DEF b
<1>5. CASE b = a
  <2>1. /\ b.position * s = Size /\ b.trades = a.trades
        /\ Len(b.rests) <= 1 /\ \A i \in DOMAIN b.rests : FALSE
    BY <1>1, <1>5
  <2> QED BY <1>1, <1>3, <1>4, <2>1 DEF LegExiting, b
<1>6. CASE OrderRests(a, b, -s, Size, yes)
  <2>1. b.position = a.position /\ b.trades = a.trades
    BY <1>1, <1>6 DEF OrderRests
  <2>2. PICK r \in Order : b.rests = Append(<<>>, r) /\ r.dir = -s /\ r.left = Size /\ r.reduce = yes
    BY <1>1, <1>6 DEF OrderRests
  <2>3. Len(b.rests) = 1 /\ \A i \in DOMAIN b.rests : b.rests[i] = r
    BY <2>2
  <2>4. b.position * s = Size /\ Size \in 0..Size /\ n * s + OwnFlow(b.trades) * s >= b.position * s
    BY <1>1, <1>3, <2>1
  <2>5. OneSided(b.trades, -s) /\ r.reduce /\ r.left = b.position * s
    BY <1>3, <2>1, <2>2, <2>4
  <2>6. \A i \in DOMAIN b.rests : /\ b.rests[i].dir = -s /\ b.rests[i].reduce
                                  /\ b.rests[i].left = b.position * s
    BY <2>2, <2>3, <2>5
  <2>7. Len(b.rests) <= 1
    BY <2>3
  <2>8. LegExiting(b, s, n)
    BY <2>4, <2>5, <2>6, <2>7 DEF LegExiting
  <2> QED BY <1>4, <2>8 DEF b
<1>7. CASE OrderFills(a, b, -s, Size)
  <2>1. PICK moved \in Int : b = Filled(a, TRUE, moved) /\ moved * (-s) \in 0..Size
    BY <1>7 DEF OrderFills
  <2>2. LegFilled(a, b, s, moved)
    BY <2>1, LegFill
  <2> DEFINE x == moved * s
             flow == OwnFlow(b.trades) * s
  <2>3. x \in Int /\ -Size <= x /\ x <= 0
    BY <1>1, <2>1, Signs
  <2>4. b.position * s = Size + x /\ (flow = 0 \/ flow = 0 + x) /\ b.rests = <<>>
    BY <1>1, <1>3, <2>2, Zenon DEF LegFilled
  <2>5. OneSided(b.trades, -s)
    BY <1>3, <2>2, <2>3 DEF LegFilled
  <2>6. Len(b.rests) <= 1 /\ \A i \in DOMAIN b.rests : FALSE
    BY <2>4
  <2> HIDE DEF x, flow
  <2>7. b.position * s \in 0..Size /\ n * s + flow >= b.position * s
    BY <1>1, <2>3, <2>4
  <2> QED BY <1>4, <2>5, <2>6, <2>7 DEF LegExiting, flow, b
<1> QED BY <1>4, <1>5, <1>6, <1>7 DEF b
\* A leg with its order and its position.
LEMMA LegNumbers ==
  ASSUME NEW a \in Account, NEW s \in {-1, 1}
  PROVE  /\ a.position \in Int /\ a.position * s \in Int /\ (a.position * s = 0 => a.position = 0)
         /\ OwnFlow(a.trades) \in Int /\ OwnFlow(a.trades) * s \in Int
         /\ OwnFlow(a.trades) * (-s) = -(OwnFlow(a.trades) * s) /\ -s \in {-1, 1}
         /\ (OwnFlow(a.trades) * s = 0 => OwnFlow(a.trades) = 0)
         /\ Len(a.rests) \in Nat /\ DOMAIN a.rests = 1..Len(a.rests) /\ (Len(a.rests) = 0 => a.rests = <<>>)
         /\ \A i \in DOMAIN a.rests : a.rests[i] \in Order /\ a.rests[i].left \in Nat /\ a.rests[i].left > 0
<1>1. a.position \in Int /\ OwnFlow(a.trades) \in Int /\ a.rests \in Seq(Order)
  BY AccountFields
<1>2. \A i \in DOMAIN a.rests : a.rests[i] \in Order
  BY <1>1
<1>3. /\ Len(a.rests) \in Nat /\ DOMAIN a.rests = 1..Len(a.rests)
      /\ (Len(a.rests) = 0 => a.rests = <<>>)
  BY <1>1
<1>4. /\ a.position * s \in Int /\ (a.position * s = 0 => a.position = 0)
      /\ OwnFlow(a.trades) * s \in Int /\ OwnFlow(a.trades) * (-s) = -(OwnFlow(a.trades) * s)
      /\ (OwnFlow(a.trades) * s = 0 => OwnFlow(a.trades) = 0) /\ -s \in {-1, 1}
  BY <1>1, Signs
<1> QED BY <1>1, <1>2, <1>3, <1>4, OrderFields

\* A leg on the way in is done when the tracker says so.
LEMMA EnteredFull ==
  ASSUME NEW a \in Account, NEW s \in {-1, 1}, NEW n \in Int, LegEntering(a, s, n), n * s >= Size
  PROVE  LegActive(a, s, n)
<1> DEFINE held == a.position * s
           seen == n * s
           flow == OwnFlow(a.trades) * s
<1>1. /\ held \in Int /\ flow \in Int /\ OwnFlow(a.trades) \in Int /\ seen \in Int
      /\ Size \in Nat /\ a.trades \in Seq(Trade)
  BY LegNumbers, AccountFields, Signs, FundingAssumption
<1>2. held \in 0..Size /\ seen + flow <= held /\ seen >= Size /\ OneSided(a.trades, s)
  BY DEF LegEntering
<1>3. flow >= 0 /\ (flow <= 0 => a.trades = <<>>)
  BY <1>1, <1>2, OneSidedFlow
<1>4. \A i \in DOMAIN a.rests : held + a.rests[i].left <= Size
  BY DEF LegEntering
<1>5. Len(a.rests) \in Nat /\ DOMAIN a.rests = 1..Len(a.rests) /\ (Len(a.rests) = 0 => a.rests = <<>>)
  BY LegNumbers
<1>6. \A i \in DOMAIN a.rests : a.rests[i].left \in Nat /\ a.rests[i].left > 0
  BY LegNumbers
<1> HIDE DEF held, seen, flow
<1>7. held = Size /\ seen = Size /\ flow <= 0
  BY <1>1, <1>2, <1>3
<1>8. DOMAIN a.rests = {}
  BY <1>1, <1>4, <1>6, <1>7
<1>9. a.rests = <<>>
  <2>1. 1 \notin 1..Len(a.rests)
    BY <1>5, <1>8
  <2> QED BY <1>5, <2>1
<1> QED BY <1>3, <1>7, <1>9 DEF LegActive, held, seen

\* A leg on the way out is flat when the tracker says so.
LEMMA ExitedFlat ==
  ASSUME NEW a \in Account, NEW s \in {-1, 1}, LegExiting(a, s, 0)
  PROVE  LegFlat(a)
<1> DEFINE held == a.position * s
           flow == OwnFlow(a.trades) * s
<1>1. /\ held \in Int /\ flow \in Int /\ OwnFlow(a.trades) \in Int /\ -s \in {-1, 1}
      /\ (held = 0 => a.position = 0) /\ OwnFlow(a.trades) * (-s) = -flow
      /\ Size \in Nat /\ a.trades \in Seq(Trade) /\ 0 * s = 0
  BY LegNumbers, AccountFields, Signs, FundingAssumption
<1>2. held \in 0..Size /\ 0 * s + flow >= held /\ OneSided(a.trades, -s)
  BY DEF LegExiting
<1>3. OwnFlow(a.trades) * (-s) >= 0
  BY <1>1, <1>2, OneSidedFlow
<1>4. \A i \in DOMAIN a.rests : a.rests[i].left = held
  BY DEF LegExiting
<1>5. Len(a.rests) \in Nat /\ DOMAIN a.rests = 1..Len(a.rests) /\ (Len(a.rests) = 0 => a.rests = <<>>)
  BY LegNumbers
<1>6. \A i \in DOMAIN a.rests : a.rests[i].left \in Nat /\ a.rests[i].left > 0
  BY LegNumbers
<1> HIDE DEF held, flow
<1>7. held = 0
  BY <1>1, <1>2, <1>3
<1>8. DOMAIN a.rests = {}
  BY <1>4, <1>6, <1>7
<1>9. a.rests = <<>>
  <2>1. 1 \notin 1..Len(a.rests)
    BY <1>5, <1>8
  <2> QED BY <1>5, <2>1
<1> QED BY <1>1, <1>7, <1>9 DEF LegFlat

-----------------------------------------------------------------------------
(* The leg in each phase.                                                  *)

LegIs(p, a, s, n) ==
  /\ OwnOnly(a.trades)
  /\ p = "flat" => LegFlat(a)
  /\ p = "entering" => LegEntering(a, s, n)
  /\ p = "active" => LegActive(a, s, n)
  /\ p = "exiting" => LegExiting(a, s, n)

\* What the stream does not deliver yet does not matter.
LEMMA LegOf ==
  ASSUME NEW p, NEW a, NEW b, NEW s, NEW n, LegIs(p, a, s, n),
         b.position = a.position, b.rests = a.rests, b.trades = a.trades
  PROVE  LegIs(p, b, s, n)
<1>1. /\ OwnOnly(b.trades)
      /\ p = "flat" => LegFlat(b)
      /\ p = "active" => LegActive(b, s, n)
  BY DEF LegIs, LegFlat, LegActive
<1>2. ASSUME p = "entering"
      PROVE  LegEntering(b, s, n)
  <2>1. LegEntering(a, s, n)
    BY <1>2 DEF LegIs
  <2> QED BY <2>1 DEF LegEntering
<1>3. ASSUME p = "exiting"
      PROVE  LegExiting(b, s, n)
  <2>1. LegExiting(a, s, n)
    BY <1>3 DEF LegIs
  <2> QED BY <2>1 DEF LegExiting
<1> QED BY <1>1, <1>2, <1>3 DEF LegIs

\* The legs are on a side unless the arb is flat.
Sided(p, s) == p = "flat" \/ s \in {-1, 1}

\* A tracker that is seeded from the position, with nothing queued, knows the leg.
LEMMA LegSeeded ==
  ASSUME NEW p, NEW a \in Account, NEW s, Sided(p, s), NEW n \in Int, LegIs(p, a, s, n),
         a.trades = <<>>
  PROVE  LegIs(p, a, s, a.position)
<1>1. CASE s \in {-1, 1}
  <2>1. OwnFlow(a.trades) * s = 0 /\ a.position * s \in Int
    BY <1>1, EmptyQueue, LegNumbers, Signs
  <2>2. a.position * s + OwnFlow(a.trades) * s = a.position * s
    BY <2>1
  <2>3. ASSUME p = "entering"
        PROVE  LegEntering(a, s, a.position)
    <3>1. LegEntering(a, s, n)
      BY <2>3 DEF LegIs
    <3> QED BY <2>1, <2>2, <3>1 DEF LegEntering
  <2>4. ASSUME p = "exiting"
        PROVE  LegExiting(a, s, a.position)
    <3>1. LegExiting(a, s, n)
      BY <2>4 DEF LegIs
    <3> QED BY <2>1, <2>2, <3>1 DEF LegExiting
  <2>5. p = "active" => LegActive(a, s, a.position)
    BY DEF LegIs, LegActive
  <2> QED BY <2>3, <2>4, <2>5 DEF LegIs
<1>2. CASE p = "flat"
  BY <1>2 DEF LegIs
<1> QED BY <1>1, <1>2 DEF Sided

\* Dropping an order leaves the leg in its phase.
LEMMA LegDropped ==
  ASSUME NEW p, NEW a \in Account, NEW s, NEW n, LegIs(p, a, s, n),
         NEW i \in DOMAIN a.rests, NEW b, b.rests = RemoveAt(a.rests, i),
         b.position = a.position, b.trades = a.trades
  PROVE  LegIs(p, b, s, n)
<1>1. a.rests \in Seq(Order) /\ Len(a.rests) \in Nat /\ a.rests # <<>>
  BY AccountFields
<1>2. /\ Len(b.rests) = Len(a.rests) - 1
      /\ \A j \in DOMAIN b.rests : \E k \in DOMAIN a.rests : b.rests[j] = a.rests[k]
  BY <1>1, RemoveAtEffect
<1>3. p # "flat" /\ p # "active"
  BY <1>1 DEF LegIs, LegFlat, LegActive
<1>4. ASSUME p = "entering"
      PROVE  LegEntering(b, s, n)
  <2>1. LegEntering(a, s, n)
    BY <1>4 DEF LegIs
  <2>2. Len(b.rests) <= 1
    BY <1>1, <1>2, <2>1 DEF LegEntering
  <2>3. \A j \in DOMAIN b.rests : /\ b.rests[j].dir = s /\ ~b.rests[j].reduce
                                  /\ b.position * s + b.rests[j].left <= Size
    BY <1>2, <2>1 DEF LegEntering
  <2> QED BY <2>1, <2>2, <2>3 DEF LegEntering
<1>5. ASSUME p = "exiting"
      PROVE  LegExiting(b, s, n)
  <2>1. LegExiting(a, s, n)
    BY <1>5 DEF LegIs
  <2>2. Len(b.rests) <= 1
    BY <1>1, <1>2, <2>1 DEF LegExiting
  <2>3. \A j \in DOMAIN b.rests : /\ b.rests[j].dir = -s /\ b.rests[j].reduce
                                  /\ b.rests[j].left = b.position * s
    BY <1>2, <2>1 DEF LegExiting
  <2> QED BY <2>1, <2>2, <2>3 DEF LegExiting
<1> QED BY <1>3, <1>4, <1>5 DEF LegIs
\* One trade.
LEMMA TradeFields ==
  ASSUME NEW t \in Trade
  PROVE  /\ t.own \in BOOLEAN /\ t.qty \in Int /\ OwnQty(t) \in Int
         /\ OwnQty(t) = IF t.own THEN t.qty ELSE 0
BY DEF Trade, OwnQty

\* A trade that is handled leaves the leg in its phase.
LEMMA LegHandled ==
  ASSUME NEW p, NEW a \in Account, NEW s, Sided(p, s), NEW n \in Int, LegIs(p, a, s, n),
         a.trades # <<>>,
         NEW b, b.position = a.position, b.rests = a.rests, b.trades = Tail(a.trades)
  PROVE  LegIs(p, b, s, n + OwnQty(Head(a.trades)))
<1> DEFINE q == OwnQty(Head(a.trades))
<1>1. a.trades \in Seq(Trade) /\ OwnFlow(a.trades) \in Int
  BY AccountFields
<1>2. /\ Head(a.trades) \in Trade /\ b.trades \in Seq(Trade)
      /\ OwnFlow(a.trades) = q + OwnFlow(b.trades)
      /\ \A i \in DOMAIN b.trades : i + 1 \in DOMAIN a.trades /\ b.trades[i] = a.trades[i + 1]
  BY <1>1, OwnTail
<1>3. q \in Int /\ OwnFlow(b.trades) \in Int
  <2>1. OwnFlow(b.trades) \in Int
    BY <1>2, QueueType
  <2> QED BY <1>2, <2>1, TradeFields
<1>4. OwnOnly(b.trades)
  BY <1>2 DEF LegIs, OwnOnly
<1>5. p = "flat" => LegFlat(b)
  BY DEF LegIs, LegFlat
<1>6. p # "active"
  BY DEF LegIs, LegActive
<1> HIDE DEF q
<1>7. ASSUME NEW u \in {-1, 1}, OneSided(a.trades, u)
      PROVE  OneSided(b.trades, u)
  BY <1>2, <1>7 DEF OneSided
<1>8. ASSUME s \in {-1, 1}
      PROVE  (n + q) * s + OwnFlow(b.trades) * s = n * s + OwnFlow(a.trades) * s
  <2>1. /\ (n + q) * s = n * s + q * s /\ n * s \in Int /\ q * s \in Int /\ OwnFlow(b.trades) * s \in Int
        /\ (q + OwnFlow(b.trades)) * s = q * s + OwnFlow(b.trades) * s
    BY <1>3, <1>8, Signs
  <2> QED BY <1>2, <2>1
<1>9. ASSUME p = "entering"
      PROVE  LegEntering(b, s, n + q)
  <2>1. LegEntering(a, s, n) /\ s \in {-1, 1}
    BY <1>9 DEF LegIs, Sided
  <2>2. OneSided(b.trades, s)
    BY <1>7, <2>1 DEF LegEntering
  <2>3. (n + q) * s + OwnFlow(b.trades) * s <= b.position * s
    BY <1>8, <2>1 DEF LegEntering
  <2> QED BY <2>1, <2>2, <2>3 DEF LegEntering
<1>10. ASSUME p = "exiting"
       PROVE  LegExiting(b, s, n + q)
  <2>1. LegExiting(a, s, n) /\ s \in {-1, 1} /\ -s \in {-1, 1}
    BY <1>10, Signs DEF LegIs, Sided
  <2>2. OneSided(b.trades, -s)
    BY <1>7, <2>1 DEF LegExiting
  <2>3. (n + q) * s + OwnFlow(b.trades) * s >= b.position * s
    BY <1>8, <2>1 DEF LegExiting
  <2> QED BY <2>1, <2>2, <2>3 DEF LegExiting
<1> QED BY <1>4, <1>5, <1>6, <1>9, <1>10 DEF LegIs, q

\* A withheld trade that is not delivered leaves the leg in its phase: the tracker
\* lags behind for good.
LEMMA LegForgotten ==
  ASSUME NEW p, NEW a \in Account, NEW s, Sided(p, s), NEW n \in Int, LegIs(p, a, s, n),
         NEW i \in DOMAIN a.trades,
         NEW b, b.position = a.position, b.rests = a.rests, b.trades = RemoveAt(a.trades, i)
  PROVE  LegIs(p, b, s, n)
<1>1. a.trades \in Seq(Trade) /\ a.trades # <<>> /\ OwnFlow(a.trades) \in Int /\ a.position \in Int
  BY AccountFields
<1>2. /\ b.trades \in Seq(Trade) /\ OwnFlow(b.trades) \in Int /\ OwnQty(a.trades[i]) \in Int
      /\ OwnFlow(b.trades) = OwnFlow(a.trades) - OwnQty(a.trades[i])
      /\ \A j \in DOMAIN b.trades : \E k \in DOMAIN a.trades : b.trades[j] = a.trades[k]
  <2> DEFINE q == a.trades
  <2>1. q \in Seq(Trade) /\ i \in DOMAIN q /\ b.trades = RemoveAt(q, i)
    BY <1>1
  <2> HIDE DEF q
  <2>2. /\ RemoveAt(q, i) \in Seq(Trade) /\ OwnFlow(RemoveAt(q, i)) \in Int /\ OwnQty(q[i]) \in Int
        /\ OwnFlow(RemoveAt(q, i)) = OwnFlow(q) - OwnQty(q[i])
        /\ \A j \in DOMAIN RemoveAt(q, i) : \E k \in DOMAIN q : RemoveAt(q, i)[j] = q[k]
    BY <2>1, OwnRemoved
  <2> QED BY <2>1, <2>2 DEF q
<1>3. OwnOnly(b.trades)
  BY <1>2 DEF LegIs, OwnOnly
<1>4. p = "flat" => LegFlat(b)
  BY DEF LegIs, LegFlat
<1>5. p # "active"
  BY <1>1 DEF LegIs, LegActive
<1>6. ASSUME NEW u \in {-1, 1}, OneSided(a.trades, u)
      PROVE  OneSided(b.trades, u) /\ OwnQty(a.trades[i]) * u > 0
  <2>1. a.trades[i].own /\ a.trades[i].qty * u > 0
    BY <1>6 DEF OneSided
  <2>2. OwnQty(a.trades[i]) = a.trades[i].qty
    BY <2>1 DEF OwnQty
  <2> QED BY <1>2, <1>6, <2>1, <2>2 DEF OneSided
<1>7. ASSUME s \in {-1, 1}
      PROVE  /\ OwnFlow(a.trades) * s = OwnFlow(b.trades) * s + OwnQty(a.trades[i]) * s
             /\ OwnFlow(b.trades) * s \in Int /\ OwnQty(a.trades[i]) * s \in Int
             /\ OwnQty(a.trades[i]) * (-s) = -(OwnQty(a.trades[i]) * s)
             /\ n * s \in Int /\ a.position * s \in Int
  <2>1. OwnFlow(a.trades) = OwnFlow(b.trades) + OwnQty(a.trades[i])
    BY <1>1, <1>2
  <2> QED BY <1>1, <1>2, <1>7, <2>1, Signs
<1>8. ASSUME p = "entering"
      PROVE  LegEntering(b, s, n)
  <2>1. LegEntering(a, s, n) /\ s \in {-1, 1}
    BY <1>8 DEF LegIs, Sided
  <2>2. OneSided(b.trades, s) /\ OwnQty(a.trades[i]) * s > 0
    BY <1>6, <2>1 DEF LegEntering
  <2>3. n * s + OwnFlow(a.trades) * s <= a.position * s
    BY <2>1 DEF LegEntering
  <2>4. n * s + OwnFlow(b.trades) * s <= b.position * s
    <3> DEFINE x == n * s
               y == OwnFlow(b.trades) * s
               z == OwnQty(a.trades[i]) * s
               h == a.position * s
    <3>1. x \in Int /\ y \in Int /\ z \in Int /\ h \in Int /\ x + (y + z) <= h /\ z > 0
      BY <1>7, <2>1, <2>2, <2>3
    <3> HIDE DEF x, y, z, h
    <3>2. x + y <= h
      BY <3>1
    <3> QED BY <3>2 DEF x, y, h
  <2> QED BY <2>1, <2>2, <2>4 DEF LegEntering
<1>9. ASSUME p = "exiting"
      PROVE  LegExiting(b, s, n)
  <2>1. LegExiting(a, s, n) /\ s \in {-1, 1} /\ -s \in {-1, 1}
    BY <1>9, Signs DEF LegIs, Sided
  <2>2. OneSided(b.trades, -s) /\ OwnQty(a.trades[i]) * (-s) > 0
    BY <1>6, <2>1 DEF LegExiting
  <2>3. n * s + OwnFlow(a.trades) * s >= a.position * s
    BY <2>1 DEF LegExiting
  <2>4. n * s + OwnFlow(b.trades) * s >= b.position * s
    <3> DEFINE x == n * s
               y == OwnFlow(b.trades) * s
               z == OwnQty(a.trades[i]) * s
               h == a.position * s
    <3>1. x \in Int /\ y \in Int /\ z \in Int /\ h \in Int /\ x + (y + z) >= h /\ -z > 0
      BY <1>7, <2>1, <2>2, <2>3
    <3> HIDE DEF x, y, z, h
    <3>2. x + y >= h
      BY <3>1
    <3> QED BY <3>2 DEF x, y, h
  <2> QED BY <2>1, <2>2, <2>4 DEF LegExiting
<1> QED BY <1>3, <1>4, <1>5, <1>8, <1>9 DEF LegIs

\* What is left of the resting orders when one of them fills for qty.
RestsAfter(rests, i, qty) ==
  IF qty = rests[i].left THEN RemoveAt(rests, i) ELSE [rests EXCEPT ![i].left = @ - qty]

\* What is left are orders, no more than before, and of a single one what did not fill.
LEMMA RestsLeft ==
  ASSUME NEW r \in Seq(Order), NEW i \in DOMAIN r, NEW qty \in 1..r[i].left
  PROVE  /\ RestsAfter(r, i, qty) \in Seq(Order) /\ Len(RestsAfter(r, i, qty)) <= Len(r)
         /\ Len(r) <= 1 => \A j \in DOMAIN RestsAfter(r, i, qty) :
              /\ RestsAfter(r, i, qty)[j].dir = r[i].dir
              /\ RestsAfter(r, i, qty)[j].reduce = r[i].reduce
              /\ RestsAfter(r, i, qty)[j].left = r[i].left - qty
<1> DEFINE t == RestsAfter(r, i, qty)
<1>1. /\ r[i] \in Order /\ r[i].left \in Nat /\ Len(r) \in Nat /\ DOMAIN r = 1..Len(r) /\ qty \in Nat
  BY OrderFields
<1>2. CASE qty = r[i].left
  <2>1. t = RemoveAt(r, i)
    BY <1>2 DEF RestsAfter
  <2>2. t \in Seq(Order) /\ Len(t) = Len(r) - 1
    BY <2>1, RemoveAtEffect
  <2>3. Len(r) <= 1 => DOMAIN t = {}
    BY <1>1, <2>2
  <2> QED BY <1>1, <2>2, <2>3
<1>3. CASE qty # r[i].left
  <2> DEFINE o == [r[i] EXCEPT !.left = @ - qty]
  <2>1. /\ o \in Order /\ o.dir = r[i].dir /\ o.reduce = r[i].reduce /\ o.left = r[i].left - qty
    BY <1>1, <1>3, SMTT(30) DEF Order
  <2>2. t = [r EXCEPT ![i] = o]
    BY <1>3 DEF RestsAfter
  <2> HIDE DEF o, t
  <2>3. t \in Seq(Order) /\ Len(t) = Len(r)
    BY <2>1, <2>2, ExceptSeq
  <2>4. ASSUME Len(r) <= 1, NEW j \in DOMAIN t
        PROVE  t[j] = o
    <3>1. j = i
      BY <1>1, <2>3, <2>4
    <3> QED BY <2>2, <3>1
  <2> QED BY <1>1, <2>1, <2>3, <2>4 DEF t
<1> QED BY <1>2, <1>3

\* An order of the leg that fills, in part or in full, leaves the leg in its phase.
LEMMA LegRestFills ==
  ASSUME NEW p, NEW a \in Account, NEW s, Sided(p, s), NEW n \in Int, LegIs(p, a, s, n),
         NEW i \in DOMAIN a.rests,
         NEW qty \in 1..Fillable(a, a.rests[i].dir, a.rests[i].left, a.rests[i].reduce),
         NEW b, b = [Filled(a, TRUE, a.rests[i].dir * qty) EXCEPT !.rests = RestsAfter(a.rests, i, qty)]
  PROVE  LegIs(p, b, s, n)
<1> DEFINE o == a.rests[i]
           moved == o.dir * qty
           c == Filled(a, TRUE, moved)
<1>1. /\ o.dir \in {-1, 1} /\ o.left \in Nat /\ o.reduce \in BOOLEAN /\ a.rests \in Seq(Order)
      /\ Len(a.rests) \in Nat /\ DOMAIN a.rests = 1..Len(a.rests)
  BY AccountFields, OrderFields
<1>2. qty \in 1..o.left /\ qty \in Int
  <2> DEFINE most == Fillable(a, o.dir, o.left, o.reduce)
  <2>1. most \in 0..o.left
    BY <1>1, FillableBound
  <2>2. qty \in 1..most
    OBVIOUS
  <2> HIDE DEF most
  <2> QED BY <1>1, <2>1, <2>2
<1>3. moved \in Int /\ moved * o.dir = qty
  <2>1. CASE o.dir = 1
    BY <1>2, <2>1
  <2>2. CASE o.dir = -1
    BY <1>2, <2>2
  <2> QED BY <1>1, <2>1, <2>2
<1>4. Served(a, c) /\ c \in Account
  BY <1>3, ServedFill DEF Served
<1>5. RestsAfter(a.rests, i, qty) \in Seq(Order)
  BY <1>1, <1>2, RestsLeft
<1>6. b.position = c.position /\ b.trades = c.trades /\ b.rests = RestsAfter(a.rests, i, qty)
  BY <1>4, <1>5, ServedRests
<1>7. OwnOnly(b.trades)
  BY <1>4, <1>6 DEF LegIs, Served
<1>8. p # "flat" /\ p # "active" /\ s \in {-1, 1}
  BY <1>1 DEF LegIs, LegFlat, LegActive, Sided
<1>9. LegFilled(a, c, s, moved)
  BY <1>3, <1>8, LegFill
<1>10. ASSUME p = "entering"
       PROVE  LegEntering(b, s, n)
  <2>1. LegEntering(a, s, n)
    BY <1>10 DEF LegIs
  <2> DEFINE held == a.position * s
             flow == OwnFlow(b.trades) * s
             was == OwnFlow(a.trades) * s
             seen == n * s
  <2>2. o.dir = s /\ ~o.reduce /\ held + o.left <= Size
    BY <2>1 DEF LegEntering
  <2>3. /\ held \in Int /\ was \in Int /\ seen \in Int /\ Size \in Nat
    BY <1>8, LegNumbers, Signs, FundingAssumption
  <2>4. moved * s = qty
    BY <1>3, <2>2
  <2>5. b.position * s = held + qty /\ (flow = was \/ flow = was + qty)
    BY <1>6, <1>9, <2>4 DEF LegFilled
  <2>6. OneSided(b.trades, s)
    <3>1. OneSided(a.trades, s)
      BY <2>1 DEF LegEntering
    <3>2. (OneSided(a.trades, s) /\ moved * s >= 0) => OneSided(c.trades, s)
      BY <1>9 DEF LegFilled
    <3> HIDE DEF moved, c
    <3>3. moved * s >= 0
      BY <1>2, <2>4
    <3> QED BY <1>6, <3>1, <3>2, <3>3
  <2>7. held \in 0..Size /\ seen + was <= held
    BY <2>1 DEF LegEntering
  <2>8. Len(a.rests) <= 1
    BY <2>1 DEF LegEntering
  <2>9. Len(b.rests) <= 1
    BY <1>1, <1>2, <1>5, <1>6, <2>8, RestsLeft
  <2>10. \A j \in DOMAIN b.rests : /\ b.rests[j].dir = s /\ ~b.rests[j].reduce
                                   /\ b.rests[j].left = o.left - qty
    BY <1>1, <1>2, <1>6, <2>2, <2>8, RestsLeft
  <2> HIDE DEF held, flow, was, seen, o, moved
  <2>11. held + qty \in 0..Size /\ seen + flow <= held + qty /\ held + qty + (o.left - qty) <= Size
    BY <1>1, <1>2, <2>2, <2>3, <2>5, <2>7, SMTT(30)
  <2>12. b.position * s \in 0..Size /\ seen + flow <= b.position * s
    BY <2>5, <2>11
  <2>13. \A j \in DOMAIN b.rests : /\ b.rests[j].dir = s /\ ~b.rests[j].reduce
                                   /\ b.position * s + b.rests[j].left <= Size
    BY <2>5, <2>10, <2>11
  <2> QED BY <2>6, <2>9, <2>12, <2>13 DEF LegEntering, seen, flow
<1>11. ASSUME p = "exiting"
       PROVE  LegExiting(b, s, n)
  <2>1. LegExiting(a, s, n)
    BY <1>11 DEF LegIs
  <2> DEFINE held == a.position * s
             flow == OwnFlow(b.trades) * s
             was == OwnFlow(a.trades) * s
             seen == n * s
  <2>2. o.dir = -s /\ o.reduce /\ o.left = held
    BY <2>1 DEF LegExiting
  <2>3. /\ held \in Int /\ was \in Int /\ seen \in Int /\ Size \in Nat
    BY <1>8, LegNumbers, Signs, FundingAssumption
  <2>4. moved * s = -qty
    <3>1. moved * (-s) = qty
      BY <1>3, <2>2
    <3>2. moved * (-s) = -(moved * s) /\ moved * s \in Int
      BY <1>3, <1>8, Signs
    <3> QED BY <1>2, <3>1, <3>2
  <2>5. b.position * s = held + (-qty) /\ (flow = was \/ flow = was + (-qty))
    BY <1>6, <1>9, <2>4 DEF LegFilled
  <2>6. OneSided(b.trades, -s)
    <3>1. OneSided(a.trades, -s)
      BY <2>1 DEF LegExiting
    <3>2. (OneSided(a.trades, -s) /\ moved * s <= 0) => OneSided(c.trades, -s)
      BY <1>9 DEF LegFilled
    <3> HIDE DEF moved, c
    <3>3. moved * s <= 0
      BY <1>2, <2>4
    <3> QED BY <1>6, <3>1, <3>2, <3>3
  <2>7. held \in 0..Size /\ seen + was >= held
    BY <2>1 DEF LegExiting
  <2>8. Len(a.rests) <= 1
    BY <2>1 DEF LegExiting
  <2>9. Len(b.rests) <= 1
    BY <1>1, <1>2, <1>5, <1>6, <2>8, RestsLeft
  <2>10. \A j \in DOMAIN b.rests : /\ b.rests[j].dir = -s /\ b.rests[j].reduce
                                   /\ b.rests[j].left = o.left - qty
    BY <1>1, <1>2, <1>6, <2>2, <2>8, RestsLeft
  <2> HIDE DEF held, flow, was, seen, o, moved
  <2>11. held + (-qty) \in 0..Size /\ seen + flow >= held + (-qty) /\ o.left - qty = held + (-qty)
    BY <1>1, <1>2, <2>2, <2>3, <2>5, <2>7
  <2>12. b.position * s \in 0..Size /\ seen + flow >= b.position * s
    BY <2>5, <2>11
  <2>13. \A j \in DOMAIN b.rests : /\ b.rests[j].dir = -s /\ b.rests[j].reduce
                                   /\ b.rests[j].left = b.position * s
    BY <2>5, <2>10, <2>11
  <2> QED BY <2>6, <2>9, <2>12, <2>13 DEF LegExiting, seen, flow
<1> QED BY <1>7, <1>8, <1>10, <1>11 DEF LegIs
-----------------------------------------------------------------------------
(* The invariant.                                                          *)

FlagsOK ==
  /\ life \in {"new", "running", "down"}
  /\ passive \in BOOLEAN /\ elapsed \in BOOLEAN /\ shutdown \in BOOLEAN /\ astray \in BOOLEAN
ArbOK ==
  /\ phase \in {"flat", "entering", "active", "exiting"}
  /\ leg \in [Exchanges -> {-1, 0, 1}] /\ leg["a"] = -leg["b"]
  /\ (phase = "flat") = (leg["a"] = 0)
RatesOK == rate \in [Exchanges -> Rates \cup {0}] /\ hasRate \in [Exchanges -> BOOLEAN]
BooksOK ==
  /\ net \in [Exchanges -> Int] /\ untracked \in [Exchanges -> Int]
  /\ signal \in [Exchanges -> BOOLEAN] /\ skewed \in [Exchanges -> BOOLEAN]
CountersOK == entries \in 0..MaxEntries /\ gaps \in 0..MaxGaps /\ foreign \in 0..MaxForeign

TypeInv ==
  FlagsOK /\ ArbOK /\ RatesOK /\ BooksOK /\ CountersOK /\ account \in [Exchanges -> Account]

\* What the tracker holds is the position without what is coming and what it is
\* not meant to know of, unless fills were lost or are counted twice.
TrackLeg(a, n, unknown, lost) == ~lost => n = Handled(a) - unknown
TrackInv ==
  \A ex \in Exchanges : TrackLeg(account[ex], net[ex], untracked[ex], skewed[ex])

\* Both legs are in the phase.
LegsAre(p, acct, l, n) == \A ex \in Exchanges : LegIs(p, acct[ex], l[ex], n[ex])
CycleInv == ~astray /\ ~shutdown => LegsAre(phase, account, leg, net)

FreshInv == life = "new" => phase = "flat"

IInv == TypeInv /\ TrackInv /\ CycleInv /\ FreshInv

\* The two venues.
LEMMA Venues == Exchanges = {"a", "b"} /\ "a" \in Exchanges /\ "b" \in Exchanges
BY DEF Exchanges

\* A value for each.
LEMMA Pairs ==
  ASSUME NEW S, NEW x \in S, NEW y \in S
  PROVE  /\ Pair(x, y) \in [Exchanges -> S] /\ Pair(x, y)["a"] = x /\ Pair(x, y)["b"] = y
BY DEF Pair, Exchanges

\* An account that is served keeps the tracker exact.
LEMMA ServedTracks ==
  ASSUME NEW a, NEW b, NEW n, NEW unknown, NEW lost,
         TrackLeg(a, n, unknown, lost), Served(a, b)
  PROVE  TrackLeg(b, n, unknown, lost)
BY DEF TrackLeg, Served

\* Outside the flat phase both legs have a side.
LEMMA LegsSided ==
  ASSUME ArbOK, NEW ex \in Exchanges
  PROVE  Sided(phase, leg[ex]) /\ leg[ex] \in {-1, 0, 1}
<1>1. leg["a"] \in {-1, 0, 1} /\ leg["b"] \in {-1, 0, 1}
  BY Venues DEF ArbOK
<1>2. CASE leg["b"] = 0
  BY <1>1, <1>2 DEF ArbOK, Sided
<1>3. CASE leg["b"] # 0
  <2>1. leg["a"] # 0
    BY <1>1, <1>3 DEF ArbOK
  <2> QED BY <1>1, <1>3, <2>1, Venues DEF Sided
<1> QED BY <1>2, <1>3

\* What a step of the actor does to the accounts and to the phase, for a tracker n;
\* was stands for the causes that lie behind it.
Driven(n, was) ==
  /\ ArbOK' /\ elapsed' \in BOOLEAN /\ shutdown' \in BOOLEAN /\ astray' \in BOOLEAN
  /\ account' \in [Exchanges -> Account]
  /\ \A ex \in Exchanges : Served(account[ex], account'[ex])
  /\ (was => astray') /\ (shutdown => shutdown')
  /\ LegsAre(phase, account, leg, n) /\ ~astray' /\ ~shutdown' => LegsAre(phase', account', leg', n)

\* Both accounts at once.
LEMMA BothServed ==
  ASSUME account \in [Exchanges -> Account], NEW x, NEW y,
         Served(account["a"], x), Served(account["b"], y), account' = Pair(x, y)
  PROVE  /\ account' \in [Exchanges -> Account] /\ account'["a"] = x /\ account'["b"] = y
         /\ \A ex \in Exchanges : Served(account[ex], account'[ex])
<1>1. x \in Account /\ y \in Account
  BY DEF Served
<1>2. account' \in [Exchanges -> Account] /\ account'["a"] = x /\ account'["b"] = y
  BY <1>1, Pairs
<1> QED BY <1>2, Venues

\* Going flat.
LEMMA WentFlat ==
  ASSUME GoFlat
  PROVE  ArbOK' /\ elapsed' \in BOOLEAN /\ phase' = "flat"
<1>1. phase' = "flat" /\ leg' = Pair(0, 0) /\ elapsed' = FALSE
  BY DEF GoFlat, Transition
<1>2. leg' \in [Exchanges -> {-1, 0, 1}] /\ leg'["a"] = 0 /\ leg'["b"] = 0
  BY <1>1, Pairs
<1>3. leg'["a"] = -leg'["b"]
  <2>1. \A x, z \in Int : x = 0 /\ x = z => x = -z
    OBVIOUS
  <2>2. leg'["a"] \in Int /\ leg'["b"] \in Int /\ leg'["a"] = leg'["b"]
    BY <1>2
  <2> QED BY <1>2, <2>1, <2>2, Zenon
<1>4. (phase' = "flat") = (leg'["a"] = 0)
  BY <1>1, <1>2
<1>5. phase' \in {"flat", "entering", "active", "exiting"} /\ elapsed' \in BOOLEAN
  BY <1>1
<1> QED BY <1>1, <1>2, <1>3, <1>4, <1>5 DEF ArbOK

\* Flattening both legs (emergency_flatten): a leg that is not clean shuts the arb
\* down, and one that hides something leads it astray.
LEMMA FlattenDrives ==
  ASSUME TypeInv, NEW n, NEW was \in BOOLEAN, EmergencyFlatten(was)
  PROVE  Driven(n, was)
<1>1. account["a"] \in Account /\ account["b"] \in Account /\ shutdown \in BOOLEAN
  BY Venues DEF TypeInv, FlagsOK
<1>2. PICK fa \in FlattenLeg(account["a"]), fb \in FlattenLeg(account["b"]) :
        /\ account' = Pair(fa.acct, fb.acct)
        /\ shutdown' = (shutdown \/ ~fa.clean \/ ~fb.clean)
        /\ astray' = (was \/ fa.loose \/ fb.loose)
        /\ GoFlat
  BY DEF EmergencyFlatten
<1>3. /\ fa.clean \in BOOLEAN /\ fa.loose \in BOOLEAN /\ Served(account["a"], fa.acct)
      /\ fa.clean /\ ~fa.loose => LegFlat(fa.acct)
      /\ fb.clean \in BOOLEAN /\ fb.loose \in BOOLEAN /\ Served(account["b"], fb.acct)
      /\ fb.clean /\ ~fb.loose => LegFlat(fb.acct)
  BY <1>1, FlattenEffect
<1>4. /\ account' \in [Exchanges -> Account]
      /\ account'["a"] = fa.acct /\ account'["b"] = fb.acct
      /\ \A ex \in Exchanges : Served(account[ex], account'[ex])
  BY <1>2, <1>3, BothServed DEF TypeInv
<1>5. ArbOK' /\ elapsed' \in BOOLEAN /\ phase' = "flat"
  BY <1>2, WentFlat
<1>6. /\ shutdown' \in BOOLEAN /\ astray' \in BOOLEAN /\ (was => astray') /\ (shutdown => shutdown')
  BY <1>1, <1>2, <1>3
<1>7. ASSUME LegsAre(phase, account, leg, n), ~astray', ~shutdown'
      PROVE  LegsAre(phase', account', leg', n)
  <2>1. LegFlat(account'["a"]) /\ LegFlat(account'["b"])
    BY <1>2, <1>3, <1>4, <1>7
  <2>2. \A ex \in Exchanges : OwnOnly(account'[ex].trades)
    BY <1>4, <1>7 DEF LegsAre, LegIs, Served
  <2> QED BY <1>5, <2>1, <2>2, Venues DEF LegsAre, LegIs
<1> QED BY <1>4, <1>5, <1>6, <1>7 DEF Driven

\* Being on a side, on the way in.
LEMMA TookSides ==
  ASSUME NEW r, leg' = PickSides(r), Transition("entering")
  PROVE  /\ ArbOK' /\ elapsed' \in BOOLEAN /\ phase' = "entering"
         /\ \A ex \in Exchanges : leg'[ex] \in {-1, 1}
<1>1. PICK y : y = -1
  OBVIOUS
<1>2. phase' = "entering" /\ elapsed' = FALSE
  BY DEF Transition
<1>3. leg' = Pair(y, 1) \/ leg' = Pair(1, y)
  BY <1>1 DEF PickSides
<1>4. y \in {-1, 0, 1} /\ 1 \in {-1, 0, 1} /\ -y = 1 /\ -1 = y /\ y # 0
  <2>1. y \in Int /\ y + 1 = 0
    BY <1>1
  <2>2. -y = 1
    BY <2>1
  <2>3. y \in {-1, 0, 1} /\ 1 \in {-1, 0, 1} /\ -1 = y /\ y # 0
    BY <1>1
  <2> QED BY <2>2, <2>3
<1>5. /\ leg' \in [Exchanges -> {-1, 0, 1}]
      /\ (leg'["a"] = y /\ leg'["b"] = 1) \/ (leg'["a"] = 1 /\ leg'["b"] = y)
  <2> DEFINE S == {-1, 0, 1}
  <2>0. y \in S /\ 1 \in S
    BY <1>4
  <2> HIDE DEF S
  <2>1. CASE leg' = Pair(y, 1)
    <3>1. Pair(y, 1) \in [Exchanges -> S] /\ Pair(y, 1)["a"] = y /\ Pair(y, 1)["b"] = 1
      BY <2>0, Pairs
    <3> QED BY <2>1, <3>1 DEF S
  <2>2. CASE leg' = Pair(1, y)
    <3>1. Pair(1, y) \in [Exchanges -> S] /\ Pair(1, y)["a"] = 1 /\ Pair(1, y)["b"] = y
      BY <2>0, Pairs
    <3> QED BY <2>2, <3>1 DEF S
  <2> QED BY <1>3, <2>1, <2>2
<1>6. leg'["a"] = -leg'["b"] /\ leg'["a"] # 0
  BY <1>4, <1>5
<1>7. \A ex \in Exchanges : leg'[ex] \in {-1, 1}
  BY <1>1, <1>5, Venues
<1>8. ArbOK'
  BY <1>2, <1>5, <1>6 DEF ArbOK
<1> QED BY <1>2, <1>7, <1>8

\* An entry, from a flat arb.
LEMMA EnterDrives ==
  ASSUME TypeInv, phase = "flat", NEW r, Enter(r)
  PROVE  Driven(net, astray) /\ entries' \in 0..MaxEntries
<1> DEFINE sides == PickSides(r)
<1>1. /\ account["a"] \in Account /\ account["b"] \in Account
      /\ shutdown \in BOOLEAN /\ astray \in BOOLEAN /\ entries \in 0..MaxEntries
      /\ Size \in Nat \ {0} /\ MaxEntries \in Nat
  BY Venues, FundingAssumption DEF TypeInv, FlagsOK, CountersOK
<1>2. entries' \in 0..MaxEntries
  BY <1>1 DEF Enter
<1>3. PICK no \in BOOLEAN : no = FALSE
  OBVIOUS
<1>4. PICK pa \in PlaceOutcomes(account["a"], sides["a"], Size, no),
           pb \in PlaceOutcomes(account["b"], sides["b"], Size, no) :
        \/ /\ pa.told /\ pb.told
           /\ account' = Pair(pa.acct, pb.acct)
           /\ leg' = sides /\ Transition("entering")
           /\ astray' = (astray \/ Unsettled)
           /\ UNCHANGED shutdown
        \/ /\ ~(pa.told /\ pb.told)
           /\ \E fa \in FlattenLeg(pa.acct), fb \in FlattenLeg(pb.acct) :
                /\ account' = Pair(fa.acct, fb.acct)
                /\ astray' = (astray \/ Unsettled \/ fa.loose \/ fb.loose)
                /\ IF fa.clean /\ fb.clean
                   THEN GoFlat /\ UNCHANGED shutdown
                   ELSE leg' = sides /\ Transition("entering") /\ shutdown' = TRUE
  BY <1>3 DEF Enter
<1>5. sides["a"] \in {-1, 1} /\ sides["b"] \in {-1, 1}
  BY Pairs DEF PickSides
<1>6. /\ Served(account["a"], pa.acct) /\ Served(account["b"], pb.acct)
      /\ pa.acct \in Account /\ pb.acct \in Account
  BY <1>1, <1>5, ServedPlace DEF Served
<1>7. CASE /\ pa.told /\ pb.told
           /\ account' = Pair(pa.acct, pb.acct)
           /\ leg' = sides /\ Transition("entering")
           /\ astray' = (astray \/ Unsettled)
           /\ UNCHANGED shutdown
  <2>1. /\ account' \in [Exchanges -> Account]
        /\ account'["a"] = pa.acct /\ account'["b"] = pb.acct
        /\ \A ex \in Exchanges : Served(account[ex], account'[ex])
    BY <1>6, <1>7, BothServed DEF TypeInv
  <2>2. ArbOK' /\ elapsed' \in BOOLEAN /\ phase' = "entering"
    BY <1>7, TookSides
  <2>3. shutdown' \in BOOLEAN /\ astray' \in BOOLEAN /\ (astray => astray') /\ (shutdown => shutdown')
    BY <1>1, <1>7 DEF Unsettled
  <2>4. ASSUME LegsAre(phase, account, leg, net), ~astray', ~shutdown'
        PROVE  LegsAre(phase', account', leg', net)
    <3>1. /\ net["a"] = 0 /\ net["b"] = 0
          /\ account["a"].trades = <<>> /\ account["b"].trades = <<>>
      BY <1>7, <2>4, Venues DEF Unsettled
    <3>2. LegFlat(account["a"]) /\ LegFlat(account["b"])
      BY <2>4, Venues DEF LegsAre, LegIs
    <3>3. LegEntering(pa.acct, sides["a"], 0) /\ LegEntering(pb.acct, sides["b"], 0)
      BY <1>1, <1>3, <1>5, <3>1, <3>2, EnterPlaced
    <3>4. \A ex \in Exchanges : OwnOnly(account'[ex].trades)
      BY <2>1, <2>4 DEF LegsAre, LegIs, Served
    <3> QED BY <1>7, <2>1, <2>2, <3>1, <3>3, <3>4, Venues DEF LegsAre, LegIs
  <2> QED BY <1>2, <2>1, <2>2, <2>3, <2>4 DEF Driven
<1>8. CASE /\ ~(pa.told /\ pb.told)
           /\ \E fa \in FlattenLeg(pa.acct), fb \in FlattenLeg(pb.acct) :
                /\ account' = Pair(fa.acct, fb.acct)
                /\ astray' = (astray \/ Unsettled \/ fa.loose \/ fb.loose)
                /\ IF fa.clean /\ fb.clean
                   THEN GoFlat /\ UNCHANGED shutdown
                   ELSE leg' = sides /\ Transition("entering") /\ shutdown' = TRUE
  <2>1. PICK fa \in FlattenLeg(pa.acct), fb \in FlattenLeg(pb.acct) :
          /\ account' = Pair(fa.acct, fb.acct)
          /\ astray' = (astray \/ Unsettled \/ fa.loose \/ fb.loose)
          /\ IF fa.clean /\ fb.clean
             THEN GoFlat /\ UNCHANGED shutdown
             ELSE leg' = sides /\ Transition("entering") /\ shutdown' = TRUE
    BY <1>8
  <2>2. /\ fa.clean \in BOOLEAN /\ fa.loose \in BOOLEAN /\ Served(pa.acct, fa.acct)
        /\ fa.clean /\ ~fa.loose => LegFlat(fa.acct)
        /\ fb.clean \in BOOLEAN /\ fb.loose \in BOOLEAN /\ Served(pb.acct, fb.acct)
        /\ fb.clean /\ ~fb.loose => LegFlat(fb.acct)
    BY <1>6, FlattenEffect
  <2>3. Served(account["a"], fa.acct) /\ Served(account["b"], fb.acct)
    BY <1>6, <2>2, ServedAgain
  <2>4. /\ account' \in [Exchanges -> Account]
        /\ account'["a"] = fa.acct /\ account'["b"] = fb.acct
        /\ \A ex \in Exchanges : Served(account[ex], account'[ex])
    BY <2>1, <2>3, BothServed DEF TypeInv
  <2>5. CASE fa.clean /\ fb.clean
    <3>1. ArbOK' /\ elapsed' \in BOOLEAN /\ phase' = "flat"
      BY <2>1, <2>5, WentFlat
    <3>2. shutdown' \in BOOLEAN /\ astray' \in BOOLEAN /\ (astray => astray') /\ (shutdown => shutdown')
      BY <1>1, <2>1, <2>2, <2>5 DEF Unsettled
    <3>3. ASSUME LegsAre(phase, account, leg, net), ~astray', ~shutdown'
          PROVE  LegsAre(phase', account', leg', net)
      <4>1. LegFlat(account'["a"]) /\ LegFlat(account'["b"])
        BY <2>1, <2>2, <2>4, <2>5, <3>3
      <4>2. \A ex \in Exchanges : OwnOnly(account'[ex].trades)
        BY <2>4, <3>3 DEF LegsAre, LegIs, Served
      <4> QED BY <3>1, <4>1, <4>2, Venues DEF LegsAre, LegIs
    <3> QED BY <1>2, <2>4, <3>1, <3>2, <3>3 DEF Driven
  <2>6. CASE ~(fa.clean /\ fb.clean)
    <3>1. ArbOK' /\ elapsed' \in BOOLEAN
      BY <2>1, <2>6, TookSides
    <3>2. shutdown' = TRUE
      BY <2>1, <2>6
    <3>3. astray' \in BOOLEAN /\ (astray => astray')
      BY <1>1, <2>1, <2>2 DEF Unsettled
    <3> QED BY <1>2, <2>4, <3>1, <3>2, <3>3 DEF Driven
  <2> QED BY <2>5, <2>6
<1> QED BY <1>4, <1>7, <1>8
\* One leg of an exit.
LEMMA ExitLeg ==
  ASSUME NEW a \in Account, NEW s \in {-1, 1}, NEW m \in Int, NEW yes \in BOOLEAN, yes,
         NEW b \in IF m = 0 THEN {a}
                   ELSE {o.acct : o \in PlaceOutcomes(a, -SignOf(m), Magnitude(m), yes)}
  PROVE  Served(a, b) /\ (LegActive(a, s, m) => LegExiting(b, s, m))
<1>1. CASE m = 0
  <2>1. b = a
    BY <1>1
  <2>2. Served(a, a)
    BY DEF Served
  <2>3. 0 * s = 0 /\ Size # 0
    BY Signs, FundingAssumption
  <2>4. ~LegActive(a, s, m)
    BY <1>1, <2>3 DEF LegActive
  <2> QED BY <2>1, <2>2, <2>4
<1>2. CASE m # 0
  <2>1. PICK o \in PlaceOutcomes(a, -SignOf(m), Magnitude(m), yes) : b = o.acct
    BY <1>2
  <2>2. SignOf(m) \in {-1, 1} /\ Magnitude(m) \in Nat \ {0}
    BY <1>2 DEF SignOf, Magnitude
  <2>3. -SignOf(m) \in {-1, 1}
    BY <2>2, Signs
  <2>4. Served(a, b)
    BY <2>1, <2>2, <2>3, ServedPlace
  <2>5. LegActive(a, s, m) => LegExiting(b, s, m)
    BY <2>1, ExitPlaced
  <2> QED BY <2>4, <2>5
<1> QED BY <1>1, <1>2

\* An exit, from an active arb (exit): each leg is closed by what its tracker says.
LEMMA ExitDrives ==
  ASSUME TypeInv, phase = "active", NEW n \in [Exchanges -> Int], NEW was \in BOOLEAN,
         Exit(n), astray' = was
  PROVE  Driven(n, was)
<1>1. PICK yes \in BOOLEAN : yes = TRUE
  OBVIOUS
<1> DEFINE closed(ex) == IF n[ex] = 0 THEN {account[ex]}
                         ELSE {o.acct : o \in PlaceOutcomes(account[ex], -SignOf(n[ex]),
                                                            Magnitude(n[ex]), yes)}
<1>2. PICK x \in closed("a"), y \in closed("b") : account' = Pair(x, y)
  BY <1>1 DEF Exit
<1>3. /\ account["a"] \in Account /\ account["b"] \in Account
      /\ n["a"] \in Int /\ n["b"] \in Int /\ shutdown \in BOOLEAN
  BY Venues DEF TypeInv, FlagsOK
<1>4. leg["a"] \in {-1, 1} /\ leg["b"] \in {-1, 1}
  BY LegsSided, Venues DEF Sided, TypeInv
<1>5. /\ Served(account["a"], x) /\ (LegActive(account["a"], leg["a"], n["a"]) => LegExiting(x, leg["a"], n["a"]))
      /\ Served(account["b"], y) /\ (LegActive(account["b"], leg["b"], n["b"]) => LegExiting(y, leg["b"], n["b"]))
  BY <1>1, <1>3, <1>4, ExitLeg
<1>6. /\ account' \in [Exchanges -> Account]
      /\ account'["a"] = x /\ account'["b"] = y
      /\ \A ex \in Exchanges : Served(account[ex], account'[ex])
  BY <1>2, <1>5, BothServed DEF TypeInv
<1>7. phase' = "exiting" /\ elapsed' = FALSE /\ leg' = leg /\ shutdown' = shutdown
  BY DEF Exit, Transition
<1>8. ArbOK'
  BY <1>7 DEF TypeInv, ArbOK
<1>9. ASSUME LegsAre(phase, account, leg, n)
      PROVE  LegsAre(phase', account', leg', n)
  <2>1. LegActive(account["a"], leg["a"], n["a"]) /\ LegActive(account["b"], leg["b"], n["b"])
    BY <1>9, Venues DEF LegsAre, LegIs
  <2>2. \A ex \in Exchanges : OwnOnly(account'[ex].trades)
    BY <1>6, <1>9 DEF LegsAre, LegIs, Served
  <2> QED BY <1>5, <1>6, <1>7, <2>1, <2>2, Venues DEF LegsAre, LegIs
<1> QED BY <1>3, <1>6, <1>7, <1>8, <1>9 DEF Driven

\* A step that leaves the accounts alone.
LEMMA StayDrives ==
  ASSUME TypeInv, NEW n, NEW was \in BOOLEAN, StayInPhase, astray' = was
  PROVE  Driven(n, was)
<1>1. /\ phase' = phase /\ leg' = leg /\ elapsed' = elapsed /\ account' = account
      /\ shutdown' = shutdown
  BY DEF StayInPhase, arbVars
<1>2. ArbOK' /\ elapsed' \in BOOLEAN /\ shutdown' \in BOOLEAN /\ account' \in [Exchanges -> Account]
  BY <1>1 DEF TypeInv, ArbOK, FlagsOK
<1>3. \A ex \in Exchanges : Served(account[ex], account'[ex])
  BY <1>1 DEF Served, TypeInv
<1> QED BY <1>1, <1>2, <1>3 DEF Driven

\* The phase machine, on a tracker n.
LEMMA PhaseDrives ==
  ASSUME TypeInv, NEW n \in [Exchanges -> Int], NEW was \in BOOLEAN, PhaseMachine(n, was)
  PROVE  Driven(n, was)
<1>1. CASE EmergencyFlatten(was)
  BY <1>1, FlattenDrives
<1>2. CASE StayInPhase /\ astray' = was
  BY <1>2, StayDrives
<1>3. CASE phase = "active" /\ Exit(n) /\ astray' = was
  BY <1>3, ExitDrives
<1>4. CASE /\ phase = "entering" /\ BothLegsFullyEntered(n) /\ Transition("active")
           /\ UNCHANGED <<leg, account, shutdown>> /\ astray' = was
  <2>1. /\ phase' = "active" /\ elapsed' = FALSE /\ leg' = leg /\ account' = account
        /\ shutdown' = shutdown
    BY <1>4 DEF Transition
  <2>2. ArbOK' /\ elapsed' \in BOOLEAN /\ shutdown' \in BOOLEAN /\ account' \in [Exchanges -> Account]
    BY <1>4, <2>1 DEF TypeInv, ArbOK, FlagsOK
  <2>3. \A ex \in Exchanges : Served(account[ex], account'[ex])
    BY <2>1 DEF Served, TypeInv
  <2>4. ASSUME LegsAre(phase, account, leg, n), NEW ex \in Exchanges
        PROVE  LegIs(phase', account'[ex], leg'[ex], n[ex])
    <3>1. LegEntering(account[ex], leg[ex], n[ex]) /\ OwnOnly(account[ex].trades)
      BY <1>4, <2>4 DEF LegsAre, LegIs
    <3>2. n[ex] * leg[ex] >= Size
      BY <1>4 DEF BothLegsFullyEntered, AtTarget
    <3>3. leg[ex] \in {-1, 1} /\ n[ex] \in Int /\ account[ex] \in Account
      BY <1>4, LegsSided DEF Sided, TypeInv
    <3>4. LegActive(account[ex], leg[ex], n[ex])
      BY <3>1, <3>2, <3>3, EnteredFull
    <3> QED BY <2>1, <3>1, <3>4 DEF LegIs
  <2> QED BY <1>4, <2>1, <2>2, <2>3, <2>4 DEF Driven, LegsAre
<1>5. CASE /\ phase = "exiting" /\ BothLegsFlat(n) /\ GoFlat /\ UNCHANGED <<account, shutdown>>
           /\ astray' = was
  <2>1. ArbOK' /\ elapsed' \in BOOLEAN /\ phase' = "flat"
    BY <1>5, WentFlat
  <2>2. /\ account' = account /\ shutdown' = shutdown /\ shutdown' \in BOOLEAN
        /\ account' \in [Exchanges -> Account]
    BY <1>5 DEF TypeInv, FlagsOK
  <2>3. \A ex \in Exchanges : Served(account[ex], account'[ex])
    BY <2>2 DEF Served, TypeInv
  <2>4. ASSUME LegsAre(phase, account, leg, n), NEW ex \in Exchanges
        PROVE  LegIs(phase', account'[ex], leg'[ex], n[ex])
    <3>1. LegExiting(account[ex], leg[ex], n[ex]) /\ OwnOnly(account[ex].trades)
      BY <1>5, <2>4 DEF LegsAre, LegIs
    <3>2. n[ex] = 0
      BY <1>5 DEF BothLegsFlat
    <3>3. leg[ex] \in {-1, 1} /\ account[ex] \in Account
      BY <1>5, LegsSided DEF Sided, TypeInv
    <3>4. LegFlat(account[ex])
      BY <3>1, <3>2, <3>3, ExitedFlat
    <3> QED BY <2>1, <2>2, <3>1, <3>4 DEF LegIs
  <2> QED BY <1>5, <2>1, <2>2, <2>3, <2>4 DEF Driven, LegsAre
<1> QED BY <1>1, <1>2, <1>3, <1>4, <1>5 DEF PhaseMachine
-----------------------------------------------------------------------------
(* Every step preserves the invariant.                                     *)

\* The initial states.
LEMMA InitInv == Init => IInv
<1> SUFFICES ASSUME Init
             PROVE  IInv
  OBVIOUS
<1>1. PICK p \in {0, Size + 1} :
        /\ account = [ex \in Exchanges |-> [position |-> IF ex = "a" THEN p ELSE 0, link |-> "up",
                                             rests |-> <<>>, trades |-> <<>>, missed |-> 0, again |-> <<>>]]
        /\ untracked = Pair(p, 0) /\ astray = (p # 0)
  BY DEF Init
<1>2. p \in Int /\ 0 \in Int
  BY FundingAssumption
<1>3. /\ life = "new" /\ passive \in BOOLEAN /\ phase = "flat" /\ leg = Pair(0, 0) /\ elapsed = TRUE
      /\ rate = Pair(0, 0) /\ hasRate = Pair(FALSE, FALSE) /\ net = Pair(0, 0)
      /\ signal = Pair(FALSE, FALSE) /\ shutdown = FALSE
      /\ entries = 0 /\ gaps = 0 /\ foreign = 0 /\ skewed = Pair(FALSE, FALSE)
  BY DEF Init
<1>4. FlagsOK
  BY <1>1, <1>3 DEF FlagsOK
<1>5. ArbOK
  <2>1. leg \in [Exchanges -> {-1, 0, 1}] /\ leg["a"] = 0 /\ leg["b"] = 0
    BY <1>3, Pairs
  <2>2. leg["a"] = -leg["b"]
    <3>1. \A x, z \in Int : x = 0 /\ x = z => x = -z
      OBVIOUS
    <3>2. leg["a"] \in Int /\ leg["b"] \in Int /\ leg["a"] = leg["b"]
      BY <2>1
    <3> QED BY <2>1, <3>1, <3>2, Zenon
  <2>3. (phase = "flat") = (leg["a"] = 0)
    BY <1>3, <2>1
  <2> QED BY <1>3, <2>1, <2>2, <2>3 DEF ArbOK
<1>6. RatesOK
  BY <1>3, Pairs DEF RatesOK
<1>7. /\ BooksOK
      /\ untracked["a"] = p /\ untracked["b"] = 0 /\ net["a"] = 0 /\ net["b"] = 0
  <2>1. untracked \in [Exchanges -> Int] /\ untracked["a"] = p /\ untracked["b"] = 0
    <3>1. /\ Pair(p, 0) \in [Exchanges -> Int] /\ Pair(p, 0)["a"] = p /\ Pair(p, 0)["b"] = 0
      <4> DEFINE S == Int
      <4>1. p \in S /\ 0 \in S
        BY <1>2
      <4> HIDE DEF S
      <4>2. Pair(p, 0) \in [Exchanges -> S] /\ Pair(p, 0)["a"] = p /\ Pair(p, 0)["b"] = 0
        BY <4>1, Pairs
      <4> QED BY <4>2 DEF S
    <3> QED BY <1>1, <3>1, Zenon
  <2>2. net \in [Exchanges -> Int] /\ net["a"] = 0 /\ net["b"] = 0
    BY <1>2, <1>3, Pairs
  <2>3. signal \in [Exchanges -> BOOLEAN] /\ skewed \in [Exchanges -> BOOLEAN]
    BY <1>3, Pairs
  <2> QED BY <2>1, <2>2, <2>3 DEF BooksOK
<1>8. CountersOK
  BY <1>3, FundingAssumption DEF CountersOK
<1>9. <<>> \in Seq(Order) /\ <<>> \in Seq(Trade) /\ OwnFlow(<<>>) = 0 /\ OwnOnly(<<>>)
  BY EmptyQueue
<1>10. \A ex \in Exchanges : account[ex] \in Account
  <2> SUFFICES ASSUME NEW ex \in Exchanges
               PROVE  account[ex] \in Account
    OBVIOUS
  <2> DEFINE held == IF ex = "a" THEN p ELSE 0
  <2>1. held \in Int /\ "up" \in Links /\ 0 \in Nat /\ 0 <= Len(<<>>)
    BY <1>2 DEF Links
  <2>2. account[ex] = [position |-> held, link |-> "up", rests |-> <<>>, trades |-> <<>>,
                       missed |-> 0, again |-> <<>>]
    BY <1>1
  <2> HIDE DEF held
  <2>3. [position |-> held, link |-> "up", rests |-> <<>>, trades |-> <<>>,
         missed |-> 0, again |-> <<>>] \in Account
    BY <1>9, <2>1, SMTT(30) DEF Account
  <2> QED BY <2>2, <2>3
<1>11. account \in [Exchanges -> Account]
  BY <1>1, <1>10
<1>12. /\ account["a"].position = p /\ account["b"].position = 0
       /\ \A ex \in Exchanges : account[ex].rests = <<>> /\ account[ex].trades = <<>>
  BY <1>1, Venues
<1>13. TrackInv
  <2>1. Handled(account["a"]) = p /\ Handled(account["b"]) = 0
    BY <1>2, <1>9, <1>12, Venues DEF Handled
  <2> QED BY <1>2, <1>7, <1>12, <2>1, Venues DEF TrackInv, TrackLeg
<1>14. CycleInv
  BY <1>1, <1>3, <1>9, <1>12, Venues DEF CycleInv, LegsAre, LegIs, LegFlat
<1>15. FreshInv
  BY <1>3 DEF FreshInv
<1> QED BY <1>4, <1>5, <1>6, <1>7, <1>8, <1>11, <1>13, <1>14, <1>15 DEF IInv, TypeInv

\* What a step does that is driven by the tracker as it is.
LEMMA DrivenKeeps ==
  ASSUME IInv, Driven(net, astray), UNCHANGED <<net, untracked, skewed>>
  PROVE  TrackInv' /\ CycleInv' /\ ArbOK' /\ account' \in [Exchanges -> Account]
<1>1. TrackInv'
  <2> SUFFICES ASSUME NEW ex \in Exchanges
               PROVE  TrackLeg(account'[ex], net'[ex], untracked'[ex], skewed'[ex])
    BY DEF TrackInv
  <2>1. TrackLeg(account[ex], net[ex], untracked[ex], skewed[ex])
    BY DEF IInv, TrackInv
  <2>2. Served(account[ex], account'[ex])
    BY DEF Driven
  <2>3. TrackLeg(account'[ex], net[ex], untracked[ex], skewed[ex])
    BY <2>1, <2>2, ServedTracks
  <2> QED BY <2>3
<1>2. CycleInv'
  BY DEF Driven, IInv, CycleInv
<1> QED BY <1>1, <1>2 DEF Driven

\* The venues' state is the account of one venue, as long as the rest stays.
LEMMA OneAccount ==
  ASSUME TypeInv, NEW ex \in Exchanges, NEW b \in Account, account' = [account EXCEPT ![ex] = b]
  PROVE  /\ account' \in [Exchanges -> Account] /\ account'[ex] = b
         /\ \A e \in Exchanges : e # ex => account'[e] = account[e]
BY DEF TypeInv

\* Cancelling all orders, of a flat arb.
LEMMA CancelDrives ==
  ASSUME TypeInv, phase = "flat", CancelAtBoth, UNCHANGED <<arbVars, shutdown, astray>>
  PROVE  Driven(net, astray)
<1>1. PICK a \in CancelOutcomes(account["a"]), b \in CancelOutcomes(account["b"]) :
        account' = Pair(a, b)
  BY DEF CancelAtBoth
<1>2. account["a"] \in Account /\ account["b"] \in Account
  BY Venues DEF TypeInv
<1>3. /\ Served(account["a"], a) /\ a.position = account["a"].position
      /\ account["a"].rests = <<>> => a.rests = <<>>
      /\ Served(account["b"], b) /\ b.position = account["b"].position
      /\ account["b"].rests = <<>> => b.rests = <<>>
  BY <1>2, ServedCancel
<1>4. /\ account' \in [Exchanges -> Account] /\ account'["a"] = a /\ account'["b"] = b
      /\ \A ex \in Exchanges : Served(account[ex], account'[ex])
  BY <1>1, <1>3, BothServed DEF TypeInv
<1>5. /\ phase' = phase /\ leg' = leg /\ elapsed' = elapsed /\ shutdown' = shutdown /\ astray' = astray
  BY DEF arbVars
<1>6. ArbOK' /\ elapsed' \in BOOLEAN /\ shutdown' \in BOOLEAN /\ astray' \in BOOLEAN
  BY <1>5 DEF TypeInv, ArbOK, FlagsOK
<1>7. ASSUME LegsAre(phase, account, leg, net), NEW ex \in Exchanges
      PROVE  LegIs(phase', account'[ex], leg'[ex], net[ex])
  <2>1. LegFlat(account[ex]) /\ OwnOnly(account[ex].trades)
    BY <1>7 DEF LegsAre, LegIs
  <2>2. LegFlat(account'[ex])
    BY <1>3, <1>4, <2>1, Venues DEF LegFlat
  <2>3. OwnOnly(account'[ex].trades)
    BY <1>4, <2>1 DEF Served
  <2> QED BY <1>5, <2>2, <2>3 DEF LegIs
<1> QED BY <1>4, <1>5, <1>6, <1>7 DEF Driven, LegsAre

\* Starting (Actor::init): the orders at both venues are cancelled, of a flat arb.
LEMMA StartInv == ASSUME IInv, Start PROVE IInv'
<1>1. /\ life = "new" /\ life' = "running" /\ phase = "flat" /\ CancelAtBoth
      /\ UNCHANGED <<passive, arbVars, rates, net, signal, shutdown, counters, untracked, skewed, astray>>
  BY DEF Start, IInv, FreshInv, history
<1>2. Driven(net, astray)
  BY <1>1, CancelDrives DEF IInv
<1>3. TrackInv' /\ CycleInv' /\ ArbOK' /\ account' \in [Exchanges -> Account]
  BY <1>1, <1>2, DrivenKeeps
<1>4. FlagsOK' /\ RatesOK' /\ BooksOK' /\ CountersOK'
  BY <1>1, <1>2 DEF Driven, IInv, TypeInv, FlagsOK, RatesOK, BooksOK, CountersOK, rates, counters
<1> QED BY <1>1, <1>3, <1>4 DEF IInv, TypeInv, FreshInv

\* The wind-down (Actor::wind_down): a flat arb cancels, any other flattens.
LEMMA WindDownInv == ASSUME IInv, WindDown PROVE IInv'
<1>1. life' = "down" /\ passive' = passive /\ UNCHANGED <<rates, net, signal, counters, untracked, skewed>>
  BY DEF WindDown
<1>2. Driven(net, astray)
  <2>1. CASE EmergencyFlatten(astray)
    BY <2>1, FlattenDrives DEF IInv, TypeInv, FlagsOK
  <2>2. CASE phase = "flat" /\ CancelAtBoth /\ UNCHANGED <<arbVars, shutdown, astray>>
    BY <2>2, CancelDrives DEF IInv
  <2> QED BY <2>1, <2>2 DEF WindDown
<1>3. TrackInv' /\ CycleInv' /\ ArbOK' /\ account' \in [Exchanges -> Account]
  BY <1>1, <1>2, DrivenKeeps
<1>4. FlagsOK' /\ RatesOK' /\ BooksOK' /\ CountersOK'
  BY <1>1, <1>2 DEF Driven, IInv, TypeInv, FlagsOK, RatesOK, BooksOK, CountersOK, rates, counters
<1> QED BY <1>1, <1>3, <1>4 DEF IInv, TypeInv, FreshInv

\* A mark price (EventHandler<MarkPrice>): a flat arb may enter on it.
LEMMA MarkPriceInv ==
  ASSUME IInv, NEW ex \in Exchanges, HandleMarkPrice(ex)
  PROVE  IInv'
<1>1. /\ life = "running" /\ life' = life /\ passive' = passive
      /\ UNCHANGED <<net, signal, gaps, foreign, untracked, skewed>>
  BY DEF HandleMarkPrice
<1>2. RatesOK'
  <2>1. RatesOK
    BY DEF IInv, TypeInv
  <2>2. CASE UNCHANGED rates
    BY <2>1, <2>2 DEF RatesOK, rates
  <2>3. CASE hasRate' = [hasRate EXCEPT ![ex] = TRUE] /\ \E f \in Rates : rate' = [rate EXCEPT ![ex] = f]
    BY <2>1, <2>3 DEF RatesOK
  <2> QED BY <2>2, <2>3 DEF HandleMarkPrice
<1>3. Driven(net, astray) /\ entries' \in 0..MaxEntries
  <2>1. CASE phase = "flat" /\ Enter(rate')
    BY <2>1, EnterDrives DEF IInv
  <2>2. CASE UNCHANGED <<arbVars, account, shutdown, entries, astray>>
    BY <2>2, StayDrives DEF StayInPhase, IInv, TypeInv, FlagsOK, CountersOK
  <2> QED BY <2>1, <2>2 DEF HandleMarkPrice, CanEnter
<1>4. TrackInv' /\ CycleInv' /\ ArbOK' /\ account' \in [Exchanges -> Account]
  BY <1>1, <1>3, DrivenKeeps
<1>5. FlagsOK' /\ BooksOK' /\ CountersOK'
  BY <1>1, <1>3 DEF Driven, IInv, TypeInv, FlagsOK, BooksOK, CountersOK
<1> QED BY <1>1, <1>2, <1>4, <1>5 DEF IInv, TypeInv, FreshInv

\* A trade that is handled (EventHandler<Trade>): it leaves the queue, and the tracker
\* takes it up if it is the actor's own.
LEMMA TradeInv ==
  ASSUME IInv, NEW ex \in Exchanges, HandleTrade(ex)
  PROVE  IInv'
<1> DEFINE a == account[ex]
           t == Head(a.trades)
           b == [a EXCEPT !.trades = Tail(@)]
<1>1. /\ a \in Account /\ a.trades \in Seq(Trade) /\ a.trades # <<>> /\ OwnFlow(a.trades) \in Int
      /\ a.position \in Int
  <2>1. a \in Account /\ Len(a.trades) > a.missed
    BY DEF IInv, TypeInv, HandleTrade
  <2> HIDE DEF a
  <2>2. /\ a.trades \in Seq(Trade) /\ OwnFlow(a.trades) \in Int /\ a.position \in Int
        /\ a.missed \in Nat /\ Len(a.trades) \in Nat
    BY <2>1, AccountFields
  <2> QED BY <2>1, <2>2
<1>2. /\ t \in Trade /\ Tail(a.trades) \in Seq(Trade)
      /\ OwnFlow(a.trades) = OwnQty(t) + OwnFlow(Tail(a.trades))
      /\ t.own \in BOOLEAN /\ t.qty \in Int /\ OwnQty(t) \in Int
      /\ OwnQty(t) = IF t.own THEN t.qty ELSE 0
  BY <1>1, OwnTail, TradeFields
<1>3. /\ b \in Account /\ b.position = a.position /\ b.rests = a.rests
      /\ b.trades = Tail(a.trades)
  <2>1. Len(a.trades) > a.missed
    BY DEF HandleTrade
  <2> HIDE DEF a
  <2>2. /\ a.missed \in Nat /\ Len(Tail(a.trades)) = Len(a.trades) - 1 /\ Len(a.trades) \in Nat
        /\ a.link = "up" => a.missed = 0
    BY <1>1, AccountFields
  <2>3. a.missed <= Len(Tail(a.trades))
    BY <2>1, <2>2
  <2> QED BY <1>1, <1>2, <2>2, <2>3 DEF Account
<1>4. account' = [account EXCEPT ![ex] = b]
  BY DEF HandleTrade
<1>5. /\ UNCHANGED <<life, passive, arbVars, rates, signal, shutdown, counters, history>>
      /\ net' = IF t.own THEN [net EXCEPT ![ex] = @ + t.qty] ELSE net
  BY DEF HandleTrade, Counts
<1>6. net \in [Exchanges -> Int]
  BY DEF IInv, TypeInv, BooksOK
<1>7. /\ net' \in [Exchanges -> Int] /\ net'[ex] = net[ex] + OwnQty(t)
      /\ \A e \in Exchanges : e # ex => net'[e] = net[e]
  <2>1. CASE t.own
    BY <1>2, <1>5, <1>6, <2>1
  <2>2. CASE ~t.own
    BY <1>2, <1>5, <1>6, <2>2
  <2> QED BY <1>2, <2>1, <2>2
<1> HIDE DEF a, b, t
<1>8. /\ account' \in [Exchanges -> Account] /\ account'[ex] = b
      /\ \A e \in Exchanges : e # ex => account'[e] = account[e]
  BY <1>3, <1>4, OneAccount DEF IInv
<1>9. TrackInv'
  <2>1. ASSUME NEW e \in Exchanges, e # ex
        PROVE  TrackLeg(account'[e], net'[e], untracked'[e], skewed'[e])
    BY <1>5, <1>7, <1>8, <2>1 DEF IInv, TrackInv, history
  <2>2. TrackLeg(a, net[ex], untracked[ex], skewed[ex])
    BY DEF IInv, TrackInv, a
  <2>3. Handled(b) = Handled(a) + OwnQty(t) /\ Handled(a) \in Int
    <3>1. OwnFlow(b.trades) \in Int
      BY <1>3, AccountFields
    <3> QED BY <1>1, <1>2, <1>3, <3>1 DEF Handled
  <2>4. untracked[ex] \in Int /\ net[ex] \in Int
    BY DEF IInv, TypeInv, BooksOK
  <2>5. TrackLeg(b, net[ex] + OwnQty(t), untracked[ex], skewed[ex])
    BY <1>2, <1>3, <2>2, <2>3, <2>4 DEF TrackLeg
  <2>6. TrackLeg(account'[ex], net'[ex], untracked'[ex], skewed'[ex])
    BY <1>5, <1>7, <1>8, <2>5 DEF history
  <2> QED BY <2>1, <2>6 DEF TrackInv
<1>10. CycleInv'
  <2> SUFFICES ASSUME ~astray, ~shutdown, NEW e \in Exchanges
               PROVE  LegIs(phase, account'[e], leg[e], net'[e])
    BY <1>5 DEF CycleInv, LegsAre, arbVars, history
  <2>1. LegIs(phase, account[e], leg[e], net[e])
    BY DEF IInv, CycleInv, LegsAre
  <2>2. CASE e # ex
    BY <1>7, <1>8, <2>1, <2>2
  <2>3. CASE e = ex
    <3>1. LegIs(phase, a, leg[ex], net[ex]) /\ Sided(phase, leg[ex]) /\ net[ex] \in Int
      BY <1>6, <2>1, <2>3, LegsSided DEF a, IInv, TypeInv
    <3>2. LegIs(phase, b, leg[ex], net[ex] + OwnQty(t))
      BY <1>1, <1>3, <3>1, LegHandled DEF t
    <3> QED BY <1>7, <1>8, <2>3, <3>2
  <2> QED BY <2>2, <2>3
<1>11. FlagsOK' /\ ArbOK' /\ RatesOK' /\ BooksOK' /\ CountersOK' /\ FreshInv'
  BY <1>5, <1>7 DEF IInv, TypeInv, FlagsOK, ArbOK, RatesOK, BooksOK, CountersOK, FreshInv,
                    arbVars, rates, counters, history
<1> QED BY <1>8, <1>9, <1>10, <1>11 DEF IInv, TypeInv
\* A tick, with the positions that were read.
LEMMA TickInv == ASSUME IInv, Tick PROVE IInv'
<1>1. PICK answered \in SUBSET {ex \in Exchanges : signal[ex]} :
        /\ net' = Reconciled(answered)
        /\ NoteReconciled(answered)
        /\ PhaseMachine(net', AstrayBy(answered))
  BY DEF Tick
<1>2. /\ life = "running" /\ life' = life /\ passive' = passive /\ signal' = Pair(FALSE, FALSE)
      /\ UNCHANGED <<rates, counters>>
  BY DEF Tick
<1>3. /\ net \in [Exchanges -> Int] /\ untracked \in [Exchanges -> Int] /\ skewed \in [Exchanges -> BOOLEAN]
      /\ \A ex \in Exchanges : /\ account[ex] \in Account /\ account[ex].position \in Int
                               /\ account[ex].trades \in Seq(Trade)
  BY AccountFields DEF IInv, TypeInv, BooksOK
<1>4. /\ net' \in [Exchanges -> Int]
      /\ \A ex \in Exchanges : net'[ex] = IF ex \in answered THEN account[ex].position ELSE net[ex]
  BY <1>1, <1>3 DEF Reconciled, Seed
<1>5. /\ untracked' \in [Exchanges -> Int] /\ skewed' \in [Exchanges -> BOOLEAN]
      /\ \A ex \in Exchanges :
           /\ untracked'[ex] = IF ex \in answered THEN 0 ELSE untracked[ex]
           /\ skewed'[ex] = IF ex \in answered THEN OwnTrades(ex) # {} ELSE skewed[ex]
  <2>1. /\ untracked' = [ex \in Exchanges |-> IF ex \in answered THEN 0 ELSE untracked[ex]]
        /\ skewed' = [ex \in Exchanges |-> IF ex \in answered THEN OwnTrades(ex) # {} ELSE skewed[ex]]
    BY <1>1 DEF NoteReconciled
  <2>2. \A ex \in Exchanges :
          /\ (IF ex \in answered THEN 0 ELSE untracked[ex]) \in Int
          /\ (IF ex \in answered THEN OwnTrades(ex) # {} ELSE skewed[ex]) \in BOOLEAN
    <3> SUFFICES ASSUME NEW ex \in Exchanges
                 PROVE  /\ (IF ex \in answered THEN 0 ELSE untracked[ex]) \in Int
                        /\ (IF ex \in answered THEN OwnTrades(ex) # {} ELSE skewed[ex]) \in BOOLEAN
      OBVIOUS
    <3>1. CASE ex \in answered
      BY <3>1
    <3>2. CASE ex \notin answered
      BY <1>3, <3>2
    <3> QED BY <3>1, <3>2
  <2> QED BY <2>1, <2>2
<1>6. signal' \in [Exchanges -> BOOLEAN]
  BY <1>2, Pairs
<1> DEFINE was == AstrayBy(answered)
<1>7. was \in BOOLEAN
  BY DEF AstrayBy, IInv, TypeInv, FlagsOK
<1> DEFINE n == net'
<1>8. n \in [Exchanges -> Int] /\ PhaseMachine(n, was)
  BY <1>1, <1>4
<1> HIDE DEF n, was
<1>9. Driven(n, was)
  BY <1>7, <1>8, PhaseDrives DEF IInv
<1>10. TrackInv'
  <2> SUFFICES ASSUME NEW ex \in Exchanges
               PROVE  TrackLeg(account'[ex], net'[ex], untracked'[ex], skewed'[ex])
    BY DEF TrackInv
  <2>1. TrackLeg(account[ex], net[ex], untracked[ex], skewed[ex]) /\ Served(account[ex], account'[ex])
    BY <1>9 DEF IInv, TrackInv, Driven
  <2>2. TrackLeg(account[ex], net'[ex], untracked'[ex], skewed'[ex])
    <3>1. CASE ex \notin answered
      BY <1>4, <1>5, <2>1, <3>1
    <3>2. CASE ex \in answered /\ ~skewed'[ex]
      <4>1. \A i \in DOMAIN account[ex].trades : ~account[ex].trades[i].own
        BY <1>5, <3>2 DEF OwnTrades
      <4>2. OwnFlow(account[ex].trades) = 0
        BY <1>3, <4>1, NoOwnFlow
      <4>3. Handled(account[ex]) = account[ex].position
        BY <1>3, <4>2 DEF Handled
      <4> QED BY <1>3, <1>4, <1>5, <3>2, <4>1, <4>3 DEF TrackLeg
    <3>3. CASE skewed'[ex]
      BY <3>3 DEF TrackLeg
    <3> QED BY <3>1, <3>2, <3>3
  <2> QED BY <2>1, <2>2, ServedTracks
<1>11. CycleInv'
  <2> SUFFICES ASSUME ~astray', ~shutdown'
               PROVE  LegsAre(phase', account', leg', n)
    BY DEF CycleInv, n
  <2>1. ~was /\ ~shutdown
    BY <1>7, <1>9 DEF Driven
  <2>2. ~astray /\ \A ex \in answered : OwnTrades(ex) = {}
    BY <2>1 DEF was, AstrayBy
  <2>3. ASSUME NEW ex \in Exchanges
        PROVE  LegIs(phase, account[ex], leg[ex], n[ex])
    <3>1. LegIs(phase, account[ex], leg[ex], net[ex]) /\ Sided(phase, leg[ex]) /\ net[ex] \in Int
      BY <1>3, <2>1, <2>2, LegsSided DEF IInv, CycleInv, LegsAre, TypeInv
    <3>2. CASE ex \in answered
      <4>1. \A i \in DOMAIN account[ex].trades : FALSE
        BY <2>2, <3>1, <3>2 DEF OwnTrades, LegIs, OwnOnly
      <4>2. account[ex].trades = <<>>
        <5>1. Len(account[ex].trades) = 0
          <6>1. Len(account[ex].trades) \in Nat /\ 1 \notin 1..Len(account[ex].trades)
            <7>1. /\ Len(account[ex].trades) \in Nat
                  /\ DOMAIN account[ex].trades = 1..Len(account[ex].trades)
              BY <1>3, QueueType
            <7> QED BY <4>1, <7>1
          <6> QED BY <6>1
        <5> QED BY <1>3, <5>1
      <4> QED BY <1>3, <1>4, <3>1, <3>2, <4>2, LegSeeded DEF n
    <3>3. CASE ex \notin answered
      BY <1>4, <3>1, <3>3 DEF n
    <3> QED BY <3>2, <3>3
  <2>4. LegsAre(phase, account, leg, n)
    BY <2>3 DEF LegsAre
  <2> QED BY <1>9, <2>4 DEF Driven
<1>12. FlagsOK' /\ ArbOK' /\ RatesOK' /\ BooksOK' /\ CountersOK' /\ FreshInv' /\ account' \in [Exchanges -> Account]
  BY <1>2, <1>4, <1>5, <1>6, <1>9 DEF Driven, IInv, TypeInv, FlagsOK, RatesOK, BooksOK, CountersOK,
     FreshInv, rates, counters
<1> QED BY <1>10, <1>11, <1>12 DEF IInv, TypeInv

\* An account on its own changes, as far as its leg and its tracker are concerned.
LEMMA AccountMoves ==
  ASSUME IInv, NEW ex \in Exchanges, NEW b, Served(account[ex], b),
         account' = [account EXCEPT ![ex] = b],
         ~astray /\ ~shutdown => LegIs(phase, b, leg[ex], net[ex]), CountersOK',
         UNCHANGED <<life, passive, arbVars, rates, net, signal, shutdown, history>>
  PROVE  IInv'
<1>1. /\ account' \in [Exchanges -> Account] /\ account'[ex] = b
      /\ \A e \in Exchanges : e # ex => account'[e] = account[e]
  BY OneAccount DEF IInv, Served
<1>2. TrackInv'
  <2>1. TrackLeg(b, net[ex], untracked[ex], skewed[ex])
    BY ServedTracks DEF IInv, TrackInv
  <2> QED BY <1>1, <2>1 DEF IInv, TrackInv, history
<1>3. CycleInv'
  <2> SUFFICES ASSUME ~astray, ~shutdown, NEW e \in Exchanges
               PROVE  LegIs(phase, account'[e], leg[e], net[e])
    BY DEF CycleInv, LegsAre, arbVars, history
  <2> QED BY <1>1 DEF IInv, CycleInv, LegsAre
<1>4. FlagsOK' /\ ArbOK' /\ RatesOK' /\ BooksOK' /\ FreshInv'
  BY DEF IInv, TypeInv, FlagsOK, ArbOK, RatesOK, BooksOK, FreshInv, arbVars, rates, history
<1> QED BY <1>1, <1>2, <1>3, <1>4 DEF IInv, TypeInv

\* An order that rests fills, in part or in full.
LEMMA FillInv ==
  ASSUME IInv, NEW ex \in Exchanges, Fill(ex)
  PROVE  IInv'
<1> DEFINE a == account[ex]
<1>1. PICK i \in DOMAIN a.rests :
        \E qty \in 1..Fillable(a, a.rests[i].dir, a.rests[i].left, a.rests[i].reduce) :
          account' = [account EXCEPT ![ex] = [Filled(@, TRUE, a.rests[i].dir * qty)
                                               EXCEPT !.rests = RestsAfter(a.rests, i, qty)]]
  BY DEF Fill, RestsAfter
<1>2. PICK qty \in 1..Fillable(a, a.rests[i].dir, a.rests[i].left, a.rests[i].reduce) :
        account' = [account EXCEPT ![ex] = [Filled(@, TRUE, a.rests[i].dir * qty)
                                             EXCEPT !.rests = RestsAfter(a.rests, i, qty)]]
  BY <1>1
<1> DEFINE c == Filled(a, TRUE, a.rests[i].dir * qty)
           b == [c EXCEPT !.rests = RestsAfter(a.rests, i, qty)]
<1>3. account' = [account EXCEPT ![ex] = b]
  BY <1>2 DEF IInv, TypeInv
<1>4. a \in Account /\ a.rests \in Seq(Order)
  BY AccountFields DEF IInv, TypeInv
<1> HIDE DEF a
<1>5. Served(a, b)
  <2>1. a.rests[i] \in Order
    BY <1>4
  <2>2. /\ a.rests[i].dir \in {-1, 1} /\ a.rests[i].left \in Nat /\ a.rests[i].reduce \in BOOLEAN
    BY <2>1, OrderFields
  <2> DEFINE most == Fillable(a, a.rests[i].dir, a.rests[i].left, a.rests[i].reduce)
  <2>3. most \in 0..a.rests[i].left
    BY <1>4, <2>2, FillableBound
  <2>4. qty \in 1..most
    OBVIOUS
  <2> HIDE DEF most
  <2>5. qty \in 1..a.rests[i].left /\ qty \in Int
    BY <2>2, <2>3, <2>4
  <2>6. a.rests[i].dir * qty \in Int
    BY <2>2, <2>5
  <2>7. Served(a, c) /\ c \in Account
    BY <1>4, <2>6, ServedFill DEF Served
  <2>8. RestsAfter(a.rests, i, qty) \in Seq(Order)
    BY <1>4, <2>5, RestsLeft
  <2> HIDE DEF c
  <2>9. Served(c, b)
    BY <2>7, <2>8, ServedRests
  <2> QED BY <2>7, <2>9, ServedAgain
<1>6. ~astray /\ ~shutdown => LegIs(phase, b, leg[ex], net[ex])
  <2> SUFFICES ASSUME ~astray, ~shutdown
               PROVE  LegIs(phase, b, leg[ex], net[ex])
    OBVIOUS
  <2>1. LegIs(phase, a, leg[ex], net[ex]) /\ Sided(phase, leg[ex]) /\ net[ex] \in Int
    BY LegsSided DEF a, IInv, CycleInv, LegsAre, TypeInv, BooksOK
  <2> QED BY <1>4, <2>1, LegRestFills
<1>7. UNCHANGED <<life, passive, arbVars, rates, net, signal, shutdown, history>> /\ CountersOK'
  BY DEF Fill, IInv, TypeInv, CountersOK, counters
<1> HIDE DEF b
<1> QED BY <1>3, <1>5, <1>6, <1>7, AccountMoves DEF a

\* The venue drops an order that rests.
LEMMA VenueDropInv ==
  ASSUME IInv, NEW ex \in Exchanges, VenueDrop(ex)
  PROVE  IInv'
<1> DEFINE a == account[ex]
<1>1. PICK i \in DOMAIN a.rests : account' = [account EXCEPT ![ex].rests = RemoveAt(@, i)]
  BY DEF VenueDrop
<1> DEFINE b == [a EXCEPT !.rests = RemoveAt(a.rests, i)]
<1>2. account' = [account EXCEPT ![ex] = b]
  BY <1>1 DEF IInv, TypeInv
<1>3. a \in Account /\ a.rests \in Seq(Order)
  BY AccountFields DEF IInv, TypeInv
<1>4. RemoveAt(a.rests, i) \in Seq(Order)
  BY <1>3, RemoveAtEffect
<1>5. /\ Served(a, b) /\ b.position = a.position /\ b.rests = RemoveAt(a.rests, i)
      /\ b.trades = a.trades
  BY <1>3, <1>4, ServedRests
<1> HIDE DEF b
<1>6. ~astray /\ ~shutdown => LegIs(phase, b, leg[ex], net[ex])
  <2> SUFFICES ASSUME ~astray, ~shutdown
               PROVE  LegIs(phase, b, leg[ex], net[ex])
    OBVIOUS
  <2>1. LegIs(phase, a, leg[ex], net[ex])
    BY DEF IInv, CycleInv, LegsAre
  <2> QED BY <1>3, <1>5, <2>1, LegDropped
<1>7. UNCHANGED <<life, passive, arbVars, rates, net, signal, shutdown, history>> /\ CountersOK'
  BY DEF VenueDrop, IInv, TypeInv, CountersOK, counters
<1> QED BY <1>2, <1>5, <1>6, <1>7, AccountMoves

\* Somebody else trades on the account.
LEMMA ForeignFillInv ==
  ASSUME IInv, NEW ex \in Exchanges, ForeignFill(ex)
  PROVE  IInv'
<1> DEFINE a == account[ex]
<1>1. PICK qty \in {-1, 1} :
        /\ account' = [account EXCEPT ![ex] = Filled(@, FALSE, qty)]
        /\ untracked' = [untracked EXCEPT ![ex] = @ + qty]
  BY DEF ForeignFill
<1>2. PICK own \in BOOLEAN : own = FALSE
  OBVIOUS
<1> DEFINE b == Filled(a, own, qty)
<1>3. account' = [account EXCEPT ![ex] = b]
  BY <1>1, <1>2 DEF IInv, TypeInv
<1>4. a \in Account /\ qty \in Int
  BY DEF IInv, TypeInv
<1> HIDE DEF a
<1>5. b \in Account /\ Handled(b) = Handled(a) + (IF own THEN 0 ELSE qty)
  <2>1. b = Filled(a, own, qty)
    OBVIOUS
  <2> HIDE DEF b
  <2> QED BY <1>4, <2>1, FilledEffect
<1> HIDE DEF b
<1>6. /\ account' \in [Exchanges -> Account] /\ account'[ex] = b
      /\ \A e \in Exchanges : e # ex => account'[e] = account[e]
  BY <1>3, <1>5, OneAccount DEF IInv
<1>7. /\ foreign < MaxForeign /\ foreign' = foreign + 1 /\ astray' = TRUE
      /\ UNCHANGED <<life, passive, arbVars, rates, net, signal, shutdown, entries, gaps, skewed>>
  BY DEF ForeignFill
<1>8. /\ untracked \in [Exchanges -> Int] /\ net \in [Exchanges -> Int]
  BY DEF IInv, TypeInv, BooksOK
<1>9. /\ untracked' \in [Exchanges -> Int] /\ untracked'[ex] = untracked[ex] + qty
      /\ \A e \in Exchanges : e # ex => untracked'[e] = untracked[e]
  BY <1>1, <1>4, <1>8
<1>10. TrackInv'
  <2>1. TrackLeg(a, net[ex], untracked[ex], skewed[ex])
    BY DEF a, IInv, TrackInv
  <2>2. Handled(a) \in Int
    BY <1>4, AccountFields DEF Handled
  <2>3. TrackLeg(b, net[ex], untracked[ex] + qty, skewed[ex])
    BY <1>2, <1>4, <1>5, <1>8, <2>1, <2>2 DEF TrackLeg
  <2> QED BY <1>6, <1>7, <1>9, <2>3 DEF IInv, TrackInv
<1>11. CycleInv'
  BY <1>7 DEF CycleInv
<1>12. foreign' \in 0..MaxForeign
  BY <1>7, FundingAssumption DEF IInv, TypeInv, CountersOK
<1>13. FlagsOK' /\ ArbOK' /\ RatesOK' /\ BooksOK' /\ CountersOK' /\ FreshInv'
  BY <1>7, <1>9, <1>12 DEF IInv, TypeInv, FlagsOK, ArbOK, RatesOK, BooksOK, CountersOK, FreshInv,
         arbVars, rates
<1> QED BY <1>6, <1>10, <1>11, <1>13 DEF IInv, TypeInv

\* What a stream withholds does not change an account for its leg and its tracker.
LEMMA OnlyStream ==
  ASSUME NEW a \in Account, NEW b \in Account,
         b.position = a.position, b.rests = a.rests, b.trades = a.trades
  PROVE  Served(a, b) /\ \A p, s, n : LegIs(p, a, s, n) => LegIs(p, b, s, n)
<1>1. Served(a, b)
  BY DEF Served, Handled
<1>2. ASSUME NEW p, NEW s, NEW n, LegIs(p, a, s, n)
      PROVE  LegIs(p, b, s, n)
  BY <1>2, LegOf
<1> QED BY <1>1, <1>2

\* A stream is interrupted.
LEMMA LinkLostInv ==
  ASSUME IInv, NEW ex \in Exchanges, LinkLost(ex)
  PROVE  IInv'
<1> DEFINE a == account[ex]
<1>1. PICK m \in 0..Len(a.trades) :
        account' = [account EXCEPT ![ex].link = "gap", ![ex].missed = m,
                                   ![ex].again = SubSeq(@, 1, Len(@) - m)]
  BY DEF LinkLost
<1> DEFINE again == SubSeq(a.again, 1, Len(a.again) - m)
           b == [position |-> a.position, link |-> "gap", rests |-> a.rests, trades |-> a.trades,
                 missed |-> m, again |-> again]
<1>2. a \in Account
  BY DEF IInv, TypeInv
<1>3. account' = [account EXCEPT ![ex] = b]
  <2>1. account \in [Exchanges -> Account]
    BY DEF IInv, TypeInv
  <2>2. b = [[[a EXCEPT !.link = "gap"] EXCEPT !.missed = m] EXCEPT !.again = again]
    <3> HIDE DEF again, a
    <3> QED BY <1>2, AccountCut
  <2>3. account' = [account EXCEPT ![ex] = [[[a EXCEPT !.link = "gap"] EXCEPT !.missed = m]
                                              EXCEPT !.again = again]]
    BY <1>1, <2>1
  <2> QED BY <2>2, <2>3
<1> HIDE DEF a
<1>4. /\ a.position \in Int /\ a.rests \in Seq(Order) /\ a.trades \in Seq(Trade)
      /\ a.again \in Seq(Trade) /\ Len(a.trades) \in Nat
  BY <1>2, AccountFields
<1>5. again \in Seq(Trade)
  <2>1. m \in Nat /\ Len(a.again) \in Nat
    BY <1>4
  <2>2. \A i \in 1..(Len(a.again) - m) : a.again[i] \in Trade
    BY <1>4, <2>1
  <2> QED BY <2>1, <2>2
<1>6. b \in Account
  <2>1. "gap" \in Links /\ m \in Nat /\ m <= Len(a.trades) /\ "gap" # "up"
    BY <1>4 DEF Links
  <2> HIDE DEF again
  <2> QED BY <1>4, <1>5, <2>1, AccountMade
<1>7. b.position = a.position /\ b.rests = a.rests /\ b.trades = a.trades
  OBVIOUS
<1> HIDE DEF b
<1>8. Served(a, b) /\ \A p, s, n : LegIs(p, a, s, n) => LegIs(p, b, s, n)
  BY <1>2, <1>6, <1>7, OnlyStream
<1>9. ~astray /\ ~shutdown => LegIs(phase, b, leg[ex], net[ex])
  BY <1>8 DEF IInv, CycleInv, LegsAre, a
<1>10. /\ UNCHANGED <<life, passive, arbVars, rates, net, signal, shutdown, history>>
       /\ CountersOK'
  BY FundingAssumption, SMTT(30) DEF LinkLost, IInv, TypeInv, CountersOK
<1> QED BY <1>3, <1>8, <1>9, <1>10, AccountMoves DEF a

\* The adapter gives a stream up.
LEMMA DisconnectedInv ==
  ASSUME IInv, NEW ex \in Exchanges, FlagDisconnected(ex)
  PROVE  IInv'
<1> DEFINE a == account[ex]
           b == [a EXCEPT !.link = "dead"]
<1>1. a \in Account
  BY DEF IInv, TypeInv
<1>2. account' = [account EXCEPT ![ex] = b]
  BY DEF FlagDisconnected, IInv, TypeInv
<1> HIDE DEF a
<1>3. b \in Account /\ b.position = a.position /\ b.rests = a.rests /\ b.trades = a.trades
  BY <1>1 DEF Account, Links
<1> HIDE DEF b
<1>4. Served(a, b) /\ \A p, s, n : LegIs(p, a, s, n) => LegIs(p, b, s, n)
  BY <1>1, <1>3, OnlyStream
<1>5. ~astray /\ ~shutdown => LegIs(phase, b, leg[ex], net[ex])
  BY <1>4 DEF IInv, CycleInv, LegsAre, a
<1>6. UNCHANGED <<life, passive, arbVars, rates, net, signal, shutdown, history>> /\ CountersOK'
  BY DEF FlagDisconnected, IInv, TypeInv, CountersOK, counters
<1> QED BY <1>2, <1>4, <1>5, <1>6, AccountMoves DEF a

\* The accounts change where the tracker is no longer exact.
LEMMA SkewedMoves ==
  ASSUME IInv, NEW ex \in Exchanges, NEW b \in Account, account' = [account EXCEPT ![ex] = b],
         skewed' = [skewed EXCEPT ![ex] = TRUE], astray' \in BOOLEAN, astray => astray',
         ~astray' /\ ~shutdown => LegIs(phase, b, leg[ex], net[ex]),
         UNCHANGED <<life, passive, arbVars, rates, net, signal, shutdown, counters, untracked>>
  PROVE  IInv'
<1>1. /\ account' \in [Exchanges -> Account] /\ account'[ex] = b
      /\ \A e \in Exchanges : e # ex => account'[e] = account[e]
  BY OneAccount DEF IInv
<1>2. /\ skewed' \in [Exchanges -> BOOLEAN] /\ skewed'[ex]
      /\ \A e \in Exchanges : e # ex => skewed'[e] = skewed[e]
  BY DEF IInv, TypeInv, BooksOK
<1>3. TrackInv'
  BY <1>1, <1>2 DEF IInv, TrackInv, TrackLeg
<1>4. CycleInv'
  <2> SUFFICES ASSUME ~astray', ~shutdown, NEW e \in Exchanges
               PROVE  LegIs(phase, account'[e], leg[e], net[e])
    BY DEF CycleInv, LegsAre, arbVars
  <2> QED BY <1>1 DEF IInv, CycleInv, LegsAre
<1>5. FlagsOK' /\ ArbOK' /\ RatesOK' /\ BooksOK' /\ CountersOK' /\ FreshInv'
  BY <1>2 DEF IInv, TypeInv, FlagsOK, ArbOK, RatesOK, BooksOK, CountersOK, FreshInv,
         arbVars, rates, counters
<1> QED BY <1>1, <1>3, <1>4, <1>5 DEF IInv, TypeInv

\* A withheld fill is out of what the reconnect delivers.
LEMMA ForgottenInv ==
  ASSUME IInv, NEW ex \in Exchanges, Forgotten(ex)
  PROVE  IInv'
<1> DEFINE a == account[ex]
           i == Len(a.trades) - a.missed + 1
           trades == RemoveAt(a.trades, i)
           b == [position |-> a.position, link |-> a.link, rests |-> a.rests, trades |-> trades,
                 missed |-> a.missed - 1, again |-> <<>>]
<1>1. a \in Account /\ a.missed > 0
  BY DEF IInv, TypeInv, Forgotten
<1>2. account' = [account EXCEPT ![ex] = b]
  BY <1>1 DEF Forgotten, Account, IInv, TypeInv
<1> HIDE DEF a
<1>3. /\ a.position \in Int /\ a.link \in Links /\ a.rests \in Seq(Order) /\ a.trades \in Seq(Trade)
      /\ Len(a.trades) \in Nat /\ a.missed \in Nat /\ a.missed <= Len(a.trades)
      /\ a.link = "up" => a.missed = 0
  BY <1>1, AccountFields
<1>4. i \in DOMAIN a.trades
  <2>1. i \in 1..Len(a.trades)
    BY <1>1, <1>3
  <2> QED BY <1>3, <2>1
<1> HIDE DEF i
<1>5. trades \in Seq(Trade) /\ Len(trades) = Len(a.trades) - 1
  BY <1>3, <1>4, OwnRemoved
<1>6. b \in Account
  <2> DEFINE missed == a.missed - 1
  <2>1. missed \in Nat /\ missed <= Len(trades) /\ (a.link = "up" => missed = 0)
    BY <1>1, <1>3, <1>5
  <2>2. <<>> \in Seq(Trade)
    BY EmptyQueue
  <2> HIDE DEF missed, trades
  <2>3. [position |-> a.position, link |-> a.link, rests |-> a.rests, trades |-> trades,
         missed |-> missed, again |-> <<>>] \in Account
    BY <1>3, <1>5, <2>1, <2>2, AccountMade
  <2> QED BY <2>3 DEF missed
<1>7. b.position = a.position /\ b.rests = a.rests /\ b.trades = RemoveAt(a.trades, i)
  OBVIOUS
<1> HIDE DEF b, trades
<1>8. ~astray /\ ~shutdown => LegIs(phase, b, leg[ex], net[ex])
  <2> SUFFICES ASSUME ~astray, ~shutdown
               PROVE  LegIs(phase, b, leg[ex], net[ex])
    OBVIOUS
  <2>1. LegIs(phase, a, leg[ex], net[ex]) /\ Sided(phase, leg[ex]) /\ net[ex] \in Int
    BY LegsSided DEF a, IInv, CycleInv, LegsAre, TypeInv, BooksOK
  <2> QED BY <1>1, <1>4, <1>7, <2>1, LegForgotten
<1>9. /\ skewed' = [skewed EXCEPT ![ex] = TRUE] /\ astray' = astray
      /\ UNCHANGED <<life, passive, arbVars, rates, net, signal, shutdown, counters, untracked>>
  BY DEF Forgotten
<1>10. astray' \in BOOLEAN
  BY <1>9 DEF IInv, TypeInv, FlagsOK
<1> QED BY <1>2, <1>6, <1>8, <1>9, <1>10, SkewedMoves

\* A queue in two parts is the queue.
LEMMA QueueParts ==
  ASSUME NEW q \in Seq(Trade), NEW m \in 0..Len(q)
  PROVE  /\ SubSeq(q, 1, m) \in Seq(Trade) /\ SubSeq(q, m + 1, Len(q)) \in Seq(Trade)
         /\ SubSeq(q, 1, m) \o SubSeq(q, m + 1, Len(q)) = q
<1> DEFINE n == Len(q)
           u == SubSeq(q, 1, m)
           v == SubSeq(q, m + 1, n)
<1>1. n \in Nat /\ m \in Nat /\ m <= n
  OBVIOUS
<1>2. u \in Seq(Trade) /\ Len(u) = m /\ \A i \in 1..m : u[i] = q[i]
  <2>1. \A i \in 1..m : q[i] \in Trade
    BY <1>1
  <2> QED BY <1>1, <2>1
<1>3. v \in Seq(Trade) /\ Len(v) = n - m /\ \A i \in 1..(n - m) : v[i] = q[m + i]
  <2>1. \A i \in (m + 1)..n : q[i] \in Trade
    BY <1>1
  <2> QED BY <1>1, <2>1
<1> HIDE DEF u, v
<1>4. /\ u \o v \in Seq(Trade) /\ Len(u \o v) = n
      /\ \A i \in 1..n : (u \o v)[i] = IF i <= m THEN u[i] ELSE v[i - m]
  <2>1. /\ u \o v \in Seq(Trade) /\ Len(u \o v) = Len(u) + Len(v)
        /\ \A i \in 1..(Len(u) + Len(v)) : (u \o v)[i] = IF i <= Len(u) THEN u[i] ELSE v[i - Len(u)]
    BY <1>2, <1>3, ConcatProperties
  <2>2. Len(u) = m /\ Len(u) + Len(v) = n
    BY <1>1, <1>2, <1>3
  <2> QED BY <2>1, <2>2
<1>5. \A i \in 1..n : (u \o v)[i] = q[i]
  <2> SUFFICES ASSUME NEW i \in 1..n
               PROVE  (u \o v)[i] = q[i]
    OBVIOUS
  <2>1. CASE i <= m
    BY <1>1, <1>2, <1>4, <2>1
  <2>2. CASE ~(i <= m)
    <3>1. i - m \in 1..(n - m) /\ m + (i - m) = i
      BY <1>1, <2>2
    <3> QED BY <1>3, <1>4, <2>2, <3>1
  <2> QED BY <2>1, <2>2
<1>6. Len(q) = n
  OBVIOUS
<1> HIDE DEF n
<1>7. u \o v = q
  BY <1>4, <1>5, <1>6, SeqEqual
<1> QED BY <1>2, <1>3, <1>7 DEF u, v, n

\* The stream is up again: with k = 0 it goes on where it was interrupted.
LEMMA ReconnectInv ==
  ASSUME IInv, NEW ex \in Exchanges, Reconnect(ex)
  PROVE  IInv'
<1> DEFINE a == account[ex]
           arrived == Len(a.trades) - a.missed
           first == SubSeq(a.trades, 1, arrived)
           rest == SubSeq(a.trades, arrived + 1, Len(a.trades))
           old(k) == SubSeq(a.again, Len(a.again) - k + 1, Len(a.again))
           b(k) == [a EXCEPT !.link = "up", !.missed = 0, !.trades = first \o (old(k) \o rest),
                             !.again = Recent(old(k) \o rest)]
<1>1. PICK k \in 0..Len(a.again) :
        /\ account' = [account EXCEPT ![ex] = b(k)]
        /\ skewed' = [skewed EXCEPT ![ex] = @ \/ k > 0]
        /\ astray' = (astray \/ k > 0)
  BY DEF Reconnect
<1>2. a \in Account
  BY DEF IInv, TypeInv
<1>3. UNCHANGED <<life, passive, arbVars, rates, net, signal, shutdown, counters, untracked>>
  BY DEF Reconnect
<1>4. skewed \in [Exchanges -> BOOLEAN] /\ astray \in BOOLEAN
  BY DEF IInv, TypeInv, BooksOK, FlagsOK
<1> HIDE DEF a
<1>5. /\ a.position \in Int /\ a.rests \in Seq(Order) /\ a.trades \in Seq(Trade)
      /\ a.again \in Seq(Trade) /\ Len(a.trades) \in Nat /\ arrived \in 0..Len(a.trades)
      /\ Len(a.again) \in Nat /\ k \in Nat
  <2>1. /\ a.position \in Int /\ a.rests \in Seq(Order) /\ a.trades \in Seq(Trade)
        /\ a.again \in Seq(Trade) /\ Len(a.trades) \in Nat
        /\ a.missed \in Nat /\ a.missed <= Len(a.trades)
    BY <1>2, AccountFields
  <2> QED BY <2>1
<1> HIDE DEF arrived
<1>6. first \in Seq(Trade) /\ rest \in Seq(Trade) /\ first \o rest = a.trades
  BY <1>5, QueueParts
<1>7. old(k) \in Seq(Trade) /\ (k = 0 => old(k) = <<>>)
  <2>1. \A i \in (Len(a.again) - k + 1)..Len(a.again) : a.again[i] \in Trade
    BY <1>5
  <2> QED BY <1>5, <2>1
<1> HIDE DEF first, rest, old
<1>8. old(k) \o rest \in Seq(Trade) /\ first \o (old(k) \o rest) \in Seq(Trade)
  BY <1>6, <1>7, ConcatProperties
<1> DEFINE replay == old(k) \o rest
           trades == first \o replay
           c == b(k)
<1>9. Recent(replay) \in Seq(Trade) /\ Len(trades) \in Nat /\ "up" \in Links
  <2>1. replay \in Seq(Trade) /\ trades \in Seq(Trade)
    BY <1>8
  <2> HIDE DEF replay, trades
  <2> QED BY <2>1, RecentType DEF Links
<1>10. c = [position |-> a.position, link |-> "up", rests |-> a.rests, trades |-> trades,
            missed |-> 0, again |-> Recent(replay)]
  <2> DEFINE again == Recent(replay)
  <2>1. c = [a EXCEPT !.link = "up", !.missed = 0, !.trades = trades, !.again = again]
    OBVIOUS
  <2> HIDE DEF c, b, trades, again
  <2>2. c = [position |-> a.position, link |-> "up", rests |-> a.rests, trades |-> trades,
             missed |-> 0, again |-> again]
    BY <1>2, <2>1 DEF Account
  <2> QED BY <2>2 DEF again
<1>11. c \in Account /\ c.position = a.position /\ c.rests = a.rests /\ c.trades = trades
  <2> HIDE DEF c, b
  <2>1. trades \in Seq(Trade)
    BY <1>8
  <2> HIDE DEF trades, replay
  <2>2. 0 \in Nat /\ 0 <= Len(trades)
    BY <1>9
  <2> QED BY <1>5, <1>9, <1>10, <2>1, <2>2, AccountMade
<1>12. account' = [account EXCEPT ![ex] = c]
  BY <1>1
<1> HIDE DEF c, b
<1>13. CASE k = 0
  <2>1. trades = a.trades
    <3>1. old(k) = <<>> /\ rest \in Seq(Trade) /\ first \o rest = a.trades
      BY <1>6, <1>7, <1>13
    <3>2. <<>> \o rest = rest
      BY <3>1, ConcatEmptySeq
    <3> QED BY <3>1, <3>2
  <2>2. Served(a, c) /\ \A p, s, n : LegIs(p, a, s, n) => LegIs(p, c, s, n)
    BY <1>2, <1>11, <2>1, OnlyStream
  <2>3. ~astray /\ ~shutdown => LegIs(phase, c, leg[ex], net[ex])
    BY <2>2 DEF IInv, CycleInv, LegsAre, a
  <2>4. skewed' = skewed /\ astray' = astray
    <3>1. ~(k > 0)
      BY <1>13
    <3>2. (skewed[ex] \/ k > 0) = skewed[ex] /\ (astray \/ k > 0) = astray
      BY <1>4, <3>1
    <3>3. [skewed EXCEPT ![ex] = skewed[ex]] = skewed
      BY <1>4
    <3> QED BY <1>1, <3>2, <3>3
  <2>5. UNCHANGED <<life, passive, arbVars, rates, net, signal, shutdown, history>> /\ CountersOK'
    BY <1>3, <2>4 DEF IInv, TypeInv, CountersOK, counters, history
  <2> QED BY <1>12, <2>2, <2>3, <2>5, AccountMoves DEF a
<1>14. CASE k # 0
  <2>1. k > 0
    BY <1>5, <1>14
  <2>2. skewed' = [skewed EXCEPT ![ex] = TRUE] /\ astray' = TRUE
    BY <1>1, <2>1
  <2> QED BY <1>3, <1>11, <1>12, <2>2, SkewedMoves
<1> QED BY <1>13, <1>14

\* Steps that leave the accounts, the tracker and the phase alone.
LEMMA AsideInv ==
  ASSUME IInv,
         TickDisconnected \/ TimePasses \/ (\E ex \in Exchanges : FlagReconcile(ex)) \/ UNCHANGED vars
  PROVE  IInv'
<1>1. /\ UNCHANGED <<life, passive, phase, leg, rates, net, account, counters, history>>
      /\ elapsed' \in BOOLEAN /\ shutdown' \in BOOLEAN /\ (shutdown => shutdown')
      /\ signal' \in [Exchanges -> BOOLEAN]
  BY DEF TickDisconnected, TimePasses, FlagReconcile, vars, arbVars, IInv, TypeInv, FlagsOK, BooksOK
<1>2. TrackInv' /\ CycleInv' /\ FreshInv'
  BY <1>1 DEF IInv, TrackInv, CycleInv, FreshInv, LegsAre, history
<1>3. FlagsOK' /\ ArbOK' /\ RatesOK' /\ BooksOK' /\ CountersOK' /\ account' \in [Exchanges -> Account]
  BY <1>1 DEF IInv, TypeInv, FlagsOK, ArbOK, RatesOK, BooksOK, CountersOK, rates, counters, history
<1> QED BY <1>2, <1>3 DEF IInv, TypeInv

\* Every step.
LEMMA NextInv == IInv /\ [Next]_vars => IInv'
BY StartInv, WindDownInv, MarkPriceInv, TradeInv, TickInv, FillInv, VenueDropInv, ForeignFillInv,
   LinkLostInv, ForgottenInv, ReconnectInv, DisconnectedInv, AsideInv DEF Next, Step

\* The invariant holds throughout: at any time the tracker is exact but for fills that
\* were lost or counted twice, and each leg is in its phase for what the tracker says
\* of it.
THEOREM Invariant == Spec => []IInv
<1> QED BY InitInv, NextInv, PTL DEF Spec

-----------------------------------------------------------------------------
(* What it says.                                                           *)

\* Every variable keeps its type: the legs are on opposite sides, or on none in
\* the flat phase (ArbState, strategy.rs:93-100), whatever the venues do.
THEOREM TypeCorrect == Spec => []TypeOK
<1>1. IInv => TypeOK
  <2> SUFFICES ASSUME IInv
               PROVE  TypeOK
    OBVIOUS
  <2>1. \A ex \in Exchanges :
          /\ account[ex].position \in Int /\ account[ex].link \in {"up", "gap", "dead"}
          /\ account[ex].rests \in Seq(Order)
          /\ account[ex].trades \in Seq(Trade) /\ account[ex].again \in Seq(Trade)
          /\ account[ex].missed \in 0..Len(account[ex].trades)
          /\ account[ex].link = "up" => account[ex].missed = 0
    <3> SUFFICES ASSUME NEW a \in Account
                 PROVE  /\ a.position \in Int /\ a.link \in {"up", "gap", "dead"}
                        /\ a.rests \in Seq(Order) /\ a.trades \in Seq(Trade) /\ a.again \in Seq(Trade)
                        /\ a.missed \in 0..Len(a.trades) /\ (a.link = "up" => a.missed = 0)
      BY DEF IInv, TypeInv
    <3> QED BY AccountFields DEF Links
  <2> QED BY <2>1 DEF IInv, TypeInv, FlagsOK, ArbOK, RatesOK, BooksOK, CountersOK, TypeOK
<1> QED BY <1>1, Invariant, PTL

\* The tracker with what is queued for it or withheld by an interrupted stream is the
\* position, but for what others have traded, unless fills were lost with the stream
\* or are counted twice, by a reconnect or by a reconciliation that reads them early
\* (EventHandler<Trade>, seed_from_position): for every size, every number of gaps and
\* of fills, whatever a reconnect delivers and whenever the signal is raised.
THEOREM TrackerIsExact == Spec => []TrackerExact
<1>1. IInv => TrackerExact
  <2> SUFFICES ASSUME IInv, NEW ex \in Exchanges, ~skewed[ex]
               PROVE  net[ex] + OwnQueued(ex) = account[ex].position - untracked[ex]
    BY DEF TrackerExact
  <2>1. net[ex] = Handled(account[ex]) - untracked[ex]
    BY DEF IInv, TrackInv, TrackLeg
  <2>2. /\ account[ex].position \in Int /\ OwnFlow(account[ex].trades) \in Int
        /\ untracked[ex] \in Int
    BY AccountFields DEF IInv, TypeInv, BooksOK
  <2> QED BY <2>1, <2>2, QueuedIsFlow DEF Handled
<1> QED BY <1>1, Invariant, PTL

\* The phase tells what is held and what rests at both venues (ArbState, enter,
\* exit, emergency_flatten), until one of the causes listed at PhaseTellsPosition.
THEOREM PhaseTells == Spec => []PhaseTellsPosition
<1>1. IInv => PhaseTellsPosition
  <2> SUFFICES ASSUME IInv, ~astray, ~shutdown, NEW ex \in Exchanges
               PROVE  Explained(ex)
    BY DEF PhaseTellsPosition
  <2> DEFINE a == account[ex]
  <2>1. LegIs(phase, a, leg[ex], net[ex])
    BY DEF IInv, CycleInv, LegsAre
  <2>2. a \in Account /\ phase \in {"flat", "entering", "active", "exiting"}
    BY DEF IInv, TypeInv, ArbOK
  <2>3. a.rests = <<>> => {a.rests[i] : i \in DOMAIN a.rests} = {}
    OBVIOUS
  <2>4. CASE phase = "flat"
    BY <2>1, <2>3, <2>4 DEF LegIs, LegFlat, Explained
  <2>5. CASE phase = "active"
    BY <2>1, <2>3, <2>5 DEF LegIs, LegActive, Explained
  <2>6. CASE phase = "entering"
    BY <2>1, <2>6, FundingAssumption DEF LegIs, LegEntering, Explained
  <2>7. CASE phase = "exiting"
    BY <2>1, <2>7 DEF LegIs, LegExiting, Explained
  <2> QED BY <2>2, <2>4, <2>5, <2>6, <2>7
<1> QED BY <1>1, Invariant, PTL
=============================================================================
