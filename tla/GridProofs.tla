----------------------------- MODULE GridProofs -----------------------------
(***************************************************************************)
(* Proofs about Grid, for any number of levels, sizes and bounds.          *)
(*                                                                         *)
(* A placement is reduced to what it does (PlaceEffect): some pending      *)
(* levels get new client ids, whose orders the venue has or has not.  Each *)
(* part of the invariant is then about the levels, the orders, the trades  *)
(* on their way, or how two of them agree.                                 *)
(*                                                                         *)
(* First come the types and the tracker (IInv), then that no level loses   *)
(* its order while the grid is on track (TrackInv), and last the cap on    *)
(* the position (CapInv): what the levels count as open is at least what   *)
(* rests and what is queued (Committed), and a batch that the cap lets     *)
(* through keeps the worst case within it (ChosenBound, BatchCapped).      *)
(***************************************************************************)
EXTENDS Grid, SumProofs, SequenceTheorems

OrderRecord == [level : Levels \cup {0}, side : {Buy, Sell, 0}, left : 0..Size]
LevelRecord(k) ==
  {r \in [state : {"dormant", "pending", "active"}, side : {Buy, Sell, 0}, cid : 0..k,
          filled : 0..(Size - 1)] :
     (r.state = "active" <=> r.cid # 0) /\ (r.state = "dormant" <=> r.side = 0)}
TradeEvent == [cid : Cids, qty : Int]

\* The levels ls when k client ids are issued.
LevelsTyped(ls, k) == ls \in [Levels -> LevelRecord(k)]

ActorTyped ==
  /\ phase \in {"new", "running", "refused", "down"}
  /\ anchor \in 0..NumLevels
  /\ LevelsTyped(levels, issued)
  /\ net \in Int /\ issued \in 0..MaxOrders /\ lost \in 0..MaxLost

VenueTyped ==
  /\ position \in Int /\ start \in Int
  /\ orders \in [Cids -> OrderRecord]
  /\ trades \in Seq(TradeEvent)
  /\ cancels \subseteq Cids

FlagsTyped == paused \in BOOLEAN /\ disconnected \in BOOLEAN /\ shutdown \in BOOLEAN /\ raced \in BOOLEAN

LEMMA TypeSplit == TypeOK <=> ActorTyped /\ VenueTyped /\ FlagsTyped
<1>1. {paused, disconnected, shutdown, raced} \subseteq BOOLEAN <=> FlagsTyped
  BY DEF FlagsTyped
<1>2. {net, position, start} \subseteq Int <=> net \in Int /\ position \in Int /\ start \in Int
  OBVIOUS
<1>3. LevelsTyped(levels, issued) <=>
        /\ levels \in [Levels -> [state : {"dormant", "pending", "active"}, side : {Buy, Sell, 0},
                                  cid : 0..issued, filled : 0..(Size - 1)]]
        /\ \A l \in Levels : /\ (levels[l].state = "active") = (levels[l].cid # 0)
                             /\ (levels[l].state = "dormant") = (levels[l].side = 0)
  <2>1. ASSUME NEW r
        PROVE  /\ (r.state = "active") = (r.cid # 0) <=> (r.state = "active" <=> r.cid # 0)
               /\ (r.state = "dormant") = (r.side = 0) <=> (r.state = "dormant" <=> r.side = 0)
    OBVIOUS
  <2>2. QED  BY <2>1 DEF LevelsTyped, LevelRecord
<1>4. QED
  BY <1>1, <1>2, <1>3, Zenon DEF TypeOK, ActorTyped, VenueTyped, OrderRecord, TradeEvent

\* What the venue's record says.
RecordInv ==
  /\ \A c \in Cids : c > issued => orders[c].side = 0
  /\ \A c \in Cids : IF orders[c].side = 0 THEN orders[c].left = 0 ELSE orders[c].level \in Levels
  /\ \A i \in DOMAIN trades : trades[i].qty * orders[trades[i].cid].side > 0
  /\ \A c \in cancels : orders[c].side # 0 /\ orders[c].left = 0

\* An order on record at one of the levels ls is of that level and its side.
HeldBy(ls, os) ==
  \A l \in Levels : ls[l].state = "active" => /\ os[ls[l].cid].side = ls[l].side
                                              /\ os[ls[l].cid].level = l

\* Before the start there is nothing, and a suspended grid has no level that
\* waits for an order.
NewInv ==
  /\ phase = "new" => /\ trades = <<>> /\ position = start /\ ~paused
                      /\ orders = [c \in Cids |-> NoOrder]
                      /\ levels = [l \in Levels |-> Dormant]
  /\ paused => levels = [l \in Levels |-> Dormant]

IInv == TypeOK /\ RecordInv /\ HeldBy(levels, orders) /\ NewInv

-----------------------------------------------------------------------------
(* Which levels get an order.                                              *)

Wanted(ls, m, l) == ls[l].state = "pending" /\ ~Crosses(ls[l].side, l, m)

\* The decision about level l, after p.
Decide(ls, m, l, p) ==
  IF Wanted(ls, m, l) /\ ls[l].side = Buy /\ p.long + Size <= MaxPosition
  THEN [p EXCEPT !.long = @ + Size, !.chosen = @ \cup {l}]
  ELSE IF Wanted(ls, m, l) /\ ls[l].side = Sell /\ p.short - Size >= -MaxPosition
  THEN [p EXCEPT !.short = @ - Size, !.chosen = @ \cup {l}]
  ELSE p

Undecided(ls, n) ==
  [long |-> n + ActiveRemaining(ls, Buy), short |-> n - ActiveRemaining(ls, Sell), chosen |-> {}]

\* The decisions about the first k levels.
Decisions(f, ls, n, m, k) ==
  f = [l \in 0..k |-> IF l = 0 THEN Undecided(ls, n) ELSE Decide(ls, m, l, f[l - 1])]

LEMMA DecisionsExist ==
  ASSUME NEW ls, NEW n, NEW m, NEW k \in Nat
  PROVE  \E f : Decisions(f, ls, n, m, k)
<1> DEFINE bad == {j \in Nat : ~\E f : Decisions(f, ls, n, m, j)}
<1> SUFFICES ASSUME k \in bad PROVE FALSE
  OBVIOUS
<1>1. PICK j \in bad : \A i \in bad : ~(i < j)
  <2>1. bad \in SUBSET Nat /\ bad # {}
    OBVIOUS
  <2> HIDE DEF bad
  <2>2. QED  BY <2>1, LeastNumber
<1>2. CASE j = 0
  <2>1. Decisions([l \in 0..0 |-> Undecided(ls, n)], ls, n, m, 0)
    BY DEF Decisions
  <2>2. QED  BY <1>1, <1>2, <2>1
<1>3. CASE j # 0
  <2>1. j \in Nat /\ j - 1 \in Nat /\ j - 1 < j
    BY <1>1, <1>3
  <2>2. PICK f : Decisions(f, ls, n, m, j - 1)
    BY <1>1, <2>1
  <2> DEFINE g == [l \in 0..j |-> IF l = j THEN Decide(ls, m, j, f[j - 1]) ELSE f[l]]
  <2>3. ASSUME NEW l \in 0..j
        PROVE  g[l] = IF l = 0 THEN Undecided(ls, n) ELSE Decide(ls, m, l, g[l - 1])
    <3>1. CASE l = j
      <4>1. j - 1 \in 0..j /\ j - 1 # j
        BY <2>1
      <4>2. QED  BY <1>3, <3>1, <4>1
    <3>2. CASE l # j
      <4>1. l \in 0..(j - 1) /\ (l # 0 => l - 1 \in 0..j /\ l - 1 # j)
        BY <2>1, <3>2
      <4>2. f[l] = IF l = 0 THEN Undecided(ls, n) ELSE Decide(ls, m, l, f[l - 1])
        BY <2>2, <4>1 DEF Decisions
      <4>3. QED  BY <3>2, <4>1, <4>2
    <3>3. QED  BY <3>1, <3>2
  <2>4. g = [l \in 0..j |-> IF l = 0 THEN Undecided(ls, n) ELSE Decide(ls, m, l, g[l - 1])]
    <3>1. g = [l \in 0..j |-> g[l]]
      OBVIOUS
    <3> HIDE DEF g
    <3>2. QED  BY <2>3, <3>1
  <2> HIDE DEF g
  <2>5. Decisions(g, ls, n, m, j)
    BY <2>4 DEF Decisions
  <2>6. QED  BY <1>1, <2>5
<1>4. QED  BY <1>2, <1>3

\* The definition of the model, in these terms.
LEMMA ChosenDef ==
  ASSUME NEW ls, NEW n, NEW m
  PROVE  \E f : Decisions(f, ls, n, m, NumLevels) /\ Chosen(ls, n, m) = f[NumLevels].chosen
<1> DEFINE P(f) == f = [l \in 0..NumLevels |->
                          IF l = 0 THEN Undecided(ls, n) ELSE Decide(ls, m, l, f[l - 1])]
           g == CHOOSE f : P(f)
<1>1. Chosen(ls, n, m) = g[NumLevels].chosen
  BY DEF Chosen, Decide, Wanted, Undecided
<1>2. P(g)
  <2>1. PICK f : Decisions(f, ls, n, m, NumLevels)
    <3>1. NumLevels \in Nat
      BY GridAssumption
    <3>2. QED  BY <3>1, DecisionsExist
  <2>2. P(f)
    BY <2>1 DEF Decisions
  <2> HIDE DEF P
  <2>3. QED  BY <2>2
<1>3. QED  BY <1>1, <1>2 DEF Decisions

\* Only pending levels are chosen.
LEMMA ChosenPending ==
  ASSUME NEW ls, NEW n, NEW m
  PROVE  Chosen(ls, n, m) \subseteq {l \in Levels : ls[l].state = "pending"}
<1>1. PICK f : Decisions(f, ls, n, m, NumLevels) /\ Chosen(ls, n, m) = f[NumLevels].chosen
  BY ChosenDef
<1> DEFINE Good(j) == f[j].chosen \subseteq {l \in Levels : ls[l].state = "pending"}
           bad == {j \in 0..NumLevels : ~Good(j)}
<1> SUFFICES ASSUME NumLevels \in bad PROVE FALSE
  BY <1>1, GridAssumption
<1>2. PICK j \in bad : \A i \in bad : ~(i < j)
  <2>1. bad \in SUBSET Nat /\ bad # {}
    BY GridAssumption
  <2> HIDE DEF bad
  <2>2. QED  BY <2>1, LeastNumber
<1>3. j \in 0..NumLevels /\ ~Good(j)
  BY <1>2
<1>4. f[j] = IF j = 0 THEN Undecided(ls, n) ELSE Decide(ls, m, j, f[j - 1])
  BY <1>1, <1>3 DEF Decisions
<1>5. j # 0
  BY <1>3, <1>4 DEF Undecided
<1>6. Good(j - 1) /\ j \in Levels
  <2>1. j - 1 \in 0..NumLevels /\ j - 1 < j /\ j \in Levels
    BY <1>3, <1>5, GridAssumption DEF Levels
  <2>2. QED  BY <1>2, <2>1
<1>7. Good(j)
  BY <1>4, <1>5, <1>6 DEF Decide, Wanted
<1>8. QED  BY <1>3, <1>7

-----------------------------------------------------------------------------
(* What a placement does.                                                  *)

LEMMA SignNeg == \A s \in {Buy, Sell} : -s \in {Buy, Sell}
<1>1. \A s \in Int : s = 1 \/ s = -1 => -s = 1 \/ -s = -1
  OBVIOUS
<1>2. QED  BY <1>1 DEF Buy, Sell

LEMMA FiniteLevels == IsFiniteSet(Levels)
BY FS_Interval, GridAssumption DEF Levels

\* Client ids are new and different.
LEMMA CidsNew ==
  ASSUME issued \in Nat, NEW T \in SUBSET Levels
  PROVE  /\ Cardinality(T) \in Nat
         /\ \A l \in T : CidOf(T, l) \in (issued + 1)..(issued + Cardinality(T))
         /\ \A k, l \in T : CidOf(T, k) = CidOf(T, l) => k = l
<1> DEFINE Upto(l) == {k \in T : k <= l}
<1>1. IsFiniteSet(T) /\ Cardinality(T) \in Nat
  BY FiniteLevels, FS_Subset, FS_CardinalityType
<1>2. ASSUME NEW l \in T
      PROVE  /\ IsFiniteSet(Upto(l)) /\ Cardinality(Upto(l)) \in 1..Cardinality(T)
             /\ CidOf(T, l) = issued + Cardinality(Upto(l))
  <2>1. IsFiniteSet(Upto(l)) /\ Cardinality(Upto(l)) <= Cardinality(T)
    <3>1. Upto(l) \subseteq T
      OBVIOUS
    <3> HIDE DEF Upto
    <3>2. QED  BY <1>1, <3>1, FS_Subset
  <2>2. Upto(l) # {}
    BY GridAssumption DEF Levels
  <2>3. Cardinality(Upto(l)) \in Nat /\ Cardinality(Upto(l)) # 0
    <3> HIDE DEF Upto
    <3>1. QED  BY <2>1, <2>2, FS_CardinalityType, FS_EmptySet
  <2>4. CidOf(T, l) = issued + Cardinality(Upto(l))
    BY DEF CidOf
  <2> HIDE DEF Upto
  <2>5. QED  BY <1>1, <2>1, <2>3, <2>4
<1>3. ASSUME NEW k \in T, NEW l \in T, k < l
      PROVE  Cardinality(Upto(k)) < Cardinality(Upto(l))
  <2>1. Upto(k) \subseteq Upto(l) /\ Upto(k) # Upto(l)
    <3>1. k \in Int /\ l \in Int /\ \A j \in T : j \in Int
      BY GridAssumption DEF Levels
    <3>2. l \in Upto(l) /\ l \notin Upto(k)
      BY <1>3, <3>1
    <3>3. ASSUME NEW j \in Upto(k) PROVE j \in Upto(l)
      <4>1. j \in T /\ j <= k /\ j \in Int
        BY <3>1
      <4>2. QED  BY <1>3, <3>1, <4>1
    <3>4. QED  BY <3>2, <3>3, Zenon
  <2>2. IsFiniteSet(Upto(l)) /\ Cardinality(Upto(l)) \in Nat /\ Cardinality(Upto(k)) \in Nat
    BY <1>1, <1>2
  <2> HIDE DEF Upto
  <2>3. Cardinality(Upto(k)) <= Cardinality(Upto(l)) /\ Cardinality(Upto(k)) # Cardinality(Upto(l))
    BY <2>1, <2>2, FS_Subset
  <2>4. QED  BY <2>2, <2>3
<1>4. \A k, l \in T : k = l \/ k < l \/ l < k
  BY GridAssumption DEF Levels
<1> HIDE DEF Upto
<1>5. \A l \in T : CidOf(T, l) \in (issued + 1)..(issued + Cardinality(T))
  BY <1>1, <1>2
<1>6. ASSUME NEW k \in T, NEW l \in T, CidOf(T, k) = CidOf(T, l) PROVE k = l
  <2>1. Cardinality(Upto(k)) = Cardinality(Upto(l))
    BY <1>1, <1>2, <1>6
  <2>2. Cardinality(Upto(k)) \in Nat /\ Cardinality(Upto(l)) \in Nat
    BY <1>1, <1>2
  <2>3. QED  BY <1>3, <1>4, <2>1, <2>2
<1>7. QED  BY <1>1, <1>5, <1>6

\* The levels in taken get an order at the venue, those in told are said to.
Placement(ls, chosen, told, taken) ==
  /\ chosen \subseteq {l \in Levels : ls[l].state = "pending"}
  /\ told \subseteq taken /\ taken \subseteq chosen
  /\ issued' \in Nat /\ issued <= issued' /\ issued' <= MaxOrders
  /\ IF taken = told THEN lost' = lost ELSE lost < MaxLost /\ lost' = lost + 1
  /\ \A l \in chosen : CidOf(chosen, l) \in Cids /\ CidOf(chosen, l) \in (issued + 1)..issued'
  /\ \A k, l \in chosen : CidOf(chosen, k) = CidOf(chosen, l) => k = l
  /\ levels' = [l \in Levels |-> IF l \in told
                                 THEN [ls[l] EXCEPT !.state = "active", !.cid = CidOf(chosen, l)]
                                 ELSE ls[l]]
  /\ \A l \in taken : orders'[CidOf(chosen, l)] = [level |-> l, side |-> ls[l].side, left |-> Size]
  /\ \A c \in Cids : (\A l \in taken : c # CidOf(chosen, l)) => orders'[c] = orders[c]
  /\ orders' = [c \in Cids |-> orders'[c]]

LEMMA PlaceEffect ==
  ASSUME issued \in Nat, NEW ls, NEW n, PlacePending(ls, n)
  PROVE  \E m \in 0..NumLevels, told, taken \in SUBSET Levels :
           Placement(ls, Chosen(ls, n, m), told, taken)
<1> DEFINE Body(C, A, B) ==
      /\ B # A => lost < MaxLost
      /\ lost' = IF B = A THEN lost ELSE lost + 1
      /\ levels' = [l \in Levels |->
                      IF l \in A THEN [ls[l] EXCEPT !.state = "active", !.cid = CidOf(C, l)]
                      ELSE ls[l]]
      /\ orders' = [c \in Cids |->
                      IF \E l \in B : c = CidOf(C, l)
                      THEN LET l == CHOOSE l \in B : c = CidOf(C, l)
                           IN  [level |-> l, side |-> ls[l].side, left |-> Size]
                      ELSE orders[c]]
<1>1. PICK m \in 0..NumLevels :
        /\ issued' = issued + Cardinality(Chosen(ls, n, m)) /\ issued' <= MaxOrders
        /\ \E A \in SUBSET Chosen(ls, n, m) : \E B \in {A, Chosen(ls, n, m)} :
             Body(Chosen(ls, n, m), A, B)
  BY DEF PlacePending
<1> DEFINE chosen == Chosen(ls, n, m)
<1>0. PICK told \in SUBSET chosen : \E B \in {told, chosen} : Body(chosen, told, B)
  BY <1>1
<1>2. PICK taken \in {told, chosen} : Body(chosen, told, taken)
  BY <1>0
<1>3. issued' = issued + Cardinality(chosen) /\ issued' <= MaxOrders
  BY <1>1
<1>4. chosen \subseteq {l \in Levels : ls[l].state = "pending"}
  BY ChosenPending
<1> HIDE DEF chosen
<1>5. chosen \in SUBSET Levels /\ told \subseteq taken /\ taken \subseteq chosen
  BY <1>2, <1>4
<1>6. /\ Cardinality(chosen) \in Nat
      /\ \A l \in chosen : CidOf(chosen, l) \in (issued + 1)..(issued + Cardinality(chosen))
      /\ \A k, l \in chosen : CidOf(chosen, k) = CidOf(chosen, l) => k = l
  BY <1>5, CidsNew
<1>7. issued' \in Nat /\ issued <= issued'
  BY <1>3, <1>6
<1>8. \A l \in chosen : CidOf(chosen, l) \in Cids /\ CidOf(chosen, l) \in (issued + 1)..issued'
  BY <1>3, <1>6, <1>7, GridAssumption DEF Cids
<1>9. ASSUME NEW l \in taken
      PROVE  orders'[CidOf(chosen, l)] = [level |-> l, side |-> ls[l].side, left |-> Size]
  <2> DEFINE c == CidOf(chosen, l)
             k == CHOOSE k \in taken : c = CidOf(chosen, k)
  <2>1. c \in Cids /\ \E j \in taken : c = CidOf(chosen, j)
    BY <1>5, <1>8
  <2>2. k \in taken /\ c = CidOf(chosen, k)
    BY <2>1
  <2>3. k = l
    <3> HIDE DEF k
    <3>1. QED  BY <1>5, <1>6, <2>2
  <2>4. orders'[c] = [level |-> k, side |-> ls[k].side, left |-> Size]
    BY <1>2, <2>1
  <2> HIDE DEF k
  <2>5. QED  BY <2>3, <2>4
<1>10. \A c \in Cids : (\A l \in taken : c # CidOf(chosen, l)) => orders'[c] = orders[c]
  BY <1>2
<1>11. orders' = [c \in Cids |-> orders'[c]]
  BY <1>2
<1>12. Placement(ls, chosen, told, taken)
  BY <1>2, <1>3, <1>4, <1>5, <1>6, <1>7, <1>8, <1>9, <1>10, <1>11 DEF Placement
<1>13. QED  BY <1>5, <1>12 DEF chosen

-----------------------------------------------------------------------------
(* Levels and orders of the right types.                                   *)

\* The levels ls hold no order that the actor's levels do not hold.
Fewer(ls) ==
  \A l \in Levels : ls[l].state = "active" => /\ levels[l].state = "active"
                                              /\ ls[l].cid = levels[l].cid
                                              /\ ls[l].side = levels[l].side

LEMMA LevelsMade ==
  ASSUME NEW k \in Nat
  PROVE  /\ Dormant \in LevelRecord(k) /\ Dormant.state = "dormant" /\ Dormant.filled = 0
         /\ \A s \in {Buy, Sell} : /\ Pending(s) \in LevelRecord(k) /\ Pending(s).state = "pending"
                                   /\ Pending(s).filled = 0 /\ Pending(s).side = s
         /\ \A l \in Levels : InitialSide(l) \in {Buy, Sell}
         /\ \A r \in LevelRecord(k) : r.state = "active" => /\ Requeue(r) \in LevelRecord(k)
                                                            /\ Requeue(r).state = "pending"
                                                            /\ Requeue(r).filled = r.filled
<1>1. 0 \in 0..(Size - 1) /\ 0 \in 0..k /\ Buy # 0 /\ Sell # 0
  BY GridAssumption DEF Buy, Sell
<1>2. Dormant \in LevelRecord(k) /\ Dormant.state = "dormant" /\ Dormant.filled = 0
  BY <1>1 DEF Dormant, LevelRecord
<1>3. ASSUME NEW s \in {Buy, Sell}
      PROVE  /\ Pending(s) \in LevelRecord(k) /\ Pending(s).state = "pending"
             /\ Pending(s).filled = 0 /\ Pending(s).side = s
  <2>1. /\ DOMAIN Dormant = {"state", "side", "cid", "filled"}
        /\ Dormant \in [state : {"dormant"}, side : {0}, cid : {0}, filled : {0}]
    BY DEF Dormant
  <2>2. /\ Pending(s) \in [state : {"pending"}, side : {s}, cid : {0}, filled : {0}]
    BY <2>1 DEF Pending
  <2>3. QED  BY <1>1, <2>2 DEF LevelRecord
<1>4. ASSUME NEW r \in LevelRecord(k), r.state = "active"
      PROVE  /\ Requeue(r) \in LevelRecord(k) /\ Requeue(r).state = "pending"
             /\ Requeue(r).filled = r.filled
  <2>1. r \in [state : {"active"}, side : {r.side}, cid : 0..k, filled : {r.filled}]
    BY <1>4 DEF LevelRecord
  <2>2. Requeue(r) \in [state : {"pending"}, side : {r.side}, cid : {0}, filled : {r.filled}]
    BY <2>1 DEF Requeue
  <2>3. r.side # 0 /\ r.side \in {Buy, Sell, 0} /\ r.filled \in 0..(Size - 1)
    BY <1>4 DEF LevelRecord
  <2>4. QED  BY <1>1, <2>2, <2>3 DEF LevelRecord
<1>5. \A l \in Levels : InitialSide(l) \in {Buy, Sell}
  BY DEF InitialSide
<1>6. QED  BY <1>2, <1>3, <1>4, <1>5

LEMMA SetUp ==
  ASSUME NEW k \in Nat
  PROVE  /\ LevelsTyped(ComputeLevels, k) /\ Fewer(ComputeLevels)
         /\ LevelsTyped(Suspend(levels), k) /\ Fewer(Suspend(levels))
         /\ \A l \in Levels : ComputeLevels[l].filled = 0
BY LevelsMade DEF ComputeLevels, Suspend, LevelsTyped, Fewer

LEMMA RequeueTyped ==
  ASSUME LevelsTyped(levels, issued), issued \in Nat, NEW S, NEW ls, LevelsTyped(ls, issued), Fewer(ls),
         \A l \in Levels \cap S : ls[l].state = "active"
  PROVE  LET r == [l \in Levels |-> IF l \in S THEN Requeue(ls[l]) ELSE ls[l]]
         IN  LevelsTyped(r, issued) /\ Fewer(r)
<1>1. \A l \in Levels \cap S : Requeue(ls[l]) \in LevelRecord(issued) /\ Requeue(ls[l]).state = "pending"
  BY LevelsMade DEF LevelsTyped
<1>2. QED  BY <1>1 DEF LevelsTyped, Fewer

LEMMA UnpausedTyped ==
  ASSUME LevelsTyped(levels, issued), issued \in Nat
  PROVE  /\ LevelsTyped(Unpaused, issued) /\ Fewer(Unpaused)
         /\ \A l \in Levels : \/ Unpaused[l] = levels[l]
                              \/ levels[l].state = "dormant" /\ Unpaused[l].state = "pending"
                                 /\ Unpaused[l].filled = 0
BY LevelsMade DEF Unpaused, Resume, LevelsTyped, Fewer

LEMMA ReconciledTyped ==
  ASSUME LevelsTyped(levels, issued), issued \in Nat
  PROVE  LevelsTyped(Reconciled(Unpaused), issued) /\ Fewer(Reconciled(Unpaused))
<1>1. Missing \subseteq Levels /\ \A l \in Missing : levels[l].state = "active"
  BY DEF Missing
<1>2. \A l \in Levels \cap Missing : Unpaused[l].state = "active"
  BY <1>1, UnpausedTyped
<1>3. QED  BY <1>2, UnpausedTyped, RequeueTyped DEF Reconciled

\* The side of a level is that of its order, so that what is counted is more than nothing.
LEMMA RecordFillTyped ==
  ASSUME LevelsTyped(levels, issued), issued \in Nat, NEW l \in Levels, levels[l].state = "active",
         NEW qty \in Nat, qty > 0
  PROVE  LevelsTyped(RecordFill(l, qty), issued) /\ Fewer(RecordFill(l, qty))
<1> DEFINE filled == levels[l].filled + qty
           one == [levels EXCEPT ![l] = Dormant]
           target == l + levels[l].side
<1>1. levels[l].side \in {Buy, Sell} /\ filled \in Nat
  BY GridAssumption DEF LevelsTyped, LevelRecord
<1>2. CASE ~Complete(filled)
  <2>1. filled \in 0..(Size - 1)
    BY <1>1, <1>2, GridAssumption DEF Complete
  <2>2. RecordFill(l, qty) = [levels EXCEPT ![l].filled = filled]
    BY <1>2 DEF RecordFill
  <2> HIDE DEF filled
  <2>3. QED  BY <2>1, <2>2 DEF LevelsTyped, LevelRecord, Fewer
<1>3. CASE Complete(filled)
  <2>1. RecordFill(l, qty) = RearmAdjacent(one, l, levels[l].side)
    BY <1>3 DEF RecordFill
  <2>2. LevelsTyped(one, issued) /\ Fewer(one)
    BY LevelsMade DEF LevelsTyped, Fewer
  <2>3. RecordFill(l, qty) = IF Rearmable(one, target)
                             THEN [one EXCEPT ![target] = Pending(-levels[l].side)] ELSE one
    BY <2>1 DEF RearmAdjacent
  <2>4. -levels[l].side \in {Buy, Sell}
    BY <1>1, SignNeg
  <2> HIDE DEF one, target
  <2>5. CASE Rearmable(one, target)
    <3>1. target \in Levels
      BY <2>5 DEF Rearmable
    <3>2. /\ Pending(-levels[l].side) \in LevelRecord(issued)
          /\ Pending(-levels[l].side).state = "pending"
      BY <2>4, LevelsMade
    <3>3. RecordFill(l, qty) = [one EXCEPT ![target] = Pending(-levels[l].side)]
      BY <2>3, <2>5
    <3>4. QED  BY <2>2, <3>1, <3>2, <3>3 DEF LevelsTyped, Fewer
  <2>6. QED  BY <2>2, <2>3, <2>5
<1>4. QED  BY <1>2, <1>3

\* Orders that only fill or end, and levels that only let go of orders.
LEMMA OrdersShrink ==
  ASSUME TypeOK, RecordInv, HeldBy(levels, orders), LevelsTyped(levels', issued), Fewer(levels'),
         issued' = issued, orders' = [c \in Cids |-> orders'[c]],
         \A c \in Cids : \E k \in 0..orders[c].left : orders'[c] = [orders[c] EXCEPT !.left = k],
         trades' \in Seq(TradeEvent),
         \A i \in DOMAIN trades' : trades'[i].qty * orders[trades'[i].cid].side > 0,
         \A c \in cancels' : c \in cancels \/ (c \in Resting /\ orders'[c].left = 0)
  PROVE  orders' \in [Cids -> OrderRecord] /\ RecordInv' /\ HeldBy(levels, orders)'
<1>0. ActorTyped /\ VenueTyped
  BY TypeSplit
<1>1. ASSUME NEW c \in Cids
      PROVE  /\ orders'[c] \in OrderRecord /\ orders'[c].side = orders[c].side
             /\ orders'[c].level = orders[c].level /\ (orders[c].left = 0 => orders'[c].left = 0)
  <2>1. orders[c] \in OrderRecord
    BY <1>0 DEF VenueTyped
  <2>2. PICK k \in 0..orders[c].left : orders'[c] = [orders[c] EXCEPT !.left = k]
    OBVIOUS
  <2>3. k \in 0..Size /\ (orders[c].left = 0 => k = 0)
    BY <2>1, <2>2, GridAssumption DEF OrderRecord
  <2>4. QED  BY <2>1, <2>2, <2>3 DEF OrderRecord
<1>2. orders' \in [Cids -> OrderRecord]
  BY <1>1
<1>3. \A i \in DOMAIN trades' : trades'[i].cid \in Cids
  <2>1. \A i \in DOMAIN trades' : trades'[i] \in TradeEvent
    OBVIOUS
  <2>2. QED  BY <2>1 DEF TradeEvent
<1>4. RecordInv'
  <2>1. \A c \in Cids : c > issued' => orders'[c].side = 0
    BY <1>1 DEF RecordInv
  <2>2. \A c \in Cids : IF orders'[c].side = 0 THEN orders'[c].left = 0 ELSE orders'[c].level \in Levels
    BY <1>1 DEF RecordInv
  <2>3. \A i \in DOMAIN trades' : trades'[i].qty * orders'[trades'[i].cid].side > 0
    BY <1>1, <1>3
  <2>4. ASSUME NEW c \in cancels' PROVE orders'[c].side # 0 /\ orders'[c].left = 0
    <3>1. c \in Cids
      BY <1>0 DEF VenueTyped, Resting
    <3>2. CASE c \in cancels
      BY <1>1, <3>1, <3>2 DEF RecordInv
    <3>3. CASE c \in Resting /\ orders'[c].left = 0
      BY <1>1, <3>1, <3>3 DEF RecordInv, Resting
    <3>4. QED  BY <3>2, <3>3
  <2>5. QED  BY <2>1, <2>2, <2>3, <2>4 DEF RecordInv
<1>5. HeldBy(levels', orders')
  <2>1. ASSUME NEW l \in Levels, levels'[l].state = "active"
        PROVE  orders'[levels'[l].cid].side = levels'[l].side /\ orders'[levels'[l].cid].level = l
    <3>1. levels[l].state = "active" /\ levels'[l].cid = levels[l].cid /\ levels'[l].side = levels[l].side
      BY <2>1 DEF Fewer
    <3>2. levels[l].cid \in Cids
      BY <1>0, <3>1, GridAssumption, SMTT(30) DEF ActorTyped, LevelsTyped, LevelRecord, Cids
    <3>3. QED  BY <1>1, <3>1, <3>2 DEF HeldBy
  <2>2. QED  BY <2>1 DEF HeldBy
<1>6. QED  BY <1>2, <1>4, <1>5

\* New orders, at levels without one.
LEMMA PlacedTyped ==
  ASSUME TypeOK, RecordInv, HeldBy(levels, orders), NEW ls, LevelsTyped(ls, issued), Fewer(ls),
         NEW chosen, NEW told, NEW taken, Placement(ls, chosen, told, taken),
         cancels' = cancels, trades' \in Seq(TradeEvent),
         \A i \in DOMAIN trades' : trades'[i].qty * orders[trades'[i].cid].side > 0
  PROVE  /\ LevelsTyped(levels', issued') /\ issued' \in 0..MaxOrders /\ lost' \in 0..MaxLost
         /\ orders' \in [Cids -> OrderRecord] /\ RecordInv' /\ HeldBy(levels, orders)'
<1>0. ActorTyped /\ VenueTyped /\ issued \in Nat
  <2>1. ActorTyped /\ VenueTyped
    BY TypeSplit
  <2>2. QED  BY <2>1, GridAssumption DEF ActorTyped
<1>1. /\ chosen \subseteq Levels /\ told \subseteq taken /\ taken \subseteq chosen
      /\ \A l \in chosen : /\ ls[l].state = "pending" /\ CidOf(chosen, l) \in Cids
                           /\ CidOf(chosen, l) \in (issued + 1)..issued'
      /\ issued' \in Nat /\ issued <= issued' /\ issued' <= MaxOrders
  BY DEF Placement
<1>2. issued' \in 0..MaxOrders /\ lost' \in 0..MaxLost
  <2>1. lost \in 0..MaxLost /\ MaxLost \in Nat /\ MaxOrders \in Nat
    BY <1>0, GridAssumption DEF ActorTyped
  <2>2. lost' = lost \/ (lost < MaxLost /\ lost' = lost + 1)
    BY DEF Placement
  <2>3. QED  BY <1>1, <2>1, <2>2
<1>3. ASSUME NEW c \in Cids, orders[c].side # 0 PROVE orders'[c] = orders[c] /\ c <= issued
  <2>1. c \in Int /\ ~(c > issued)
    BY <1>3 DEF RecordInv, Cids
  <2>2. \A l \in taken : c # CidOf(chosen, l)
    BY <1>0, <1>1, <2>1
  <2>3. orders'[c] = orders[c]
    BY <2>2 DEF Placement
  <2>4. QED  BY <1>0, <2>1, <2>3
<1>4. ASSUME NEW l \in chosen
      PROVE  /\ l \in Levels /\ ls[l].side \in {Buy, Sell}
             /\ [level |-> l, side |-> ls[l].side, left |-> Size] \in OrderRecord
  <2>1. l \in Levels /\ ls[l] \in LevelRecord(issued) /\ ls[l].state = "pending"
    BY <1>1 DEF LevelsTyped
  <2>2. ls[l].side \in {Buy, Sell}
    BY <2>1 DEF LevelRecord
  <2>3. QED  BY <2>1, <2>2, GridAssumption DEF OrderRecord
<1>5. ASSUME NEW c \in Cids
      PROVE  \/ orders'[c] = orders[c]
             \/ /\ c \in (issued + 1)..issued'
                /\ \E l \in taken : /\ c = CidOf(chosen, l)
                                    /\ orders'[c] = [level |-> l, side |-> ls[l].side, left |-> Size]
  BY <1>1 DEF Placement
<1>6. orders' \in [Cids -> OrderRecord]
  <2>1. \A c \in Cids : orders[c] \in OrderRecord
    BY <1>0 DEF VenueTyped
  <2>2. \A c \in Cids : orders'[c] \in OrderRecord
    BY <1>1, <1>4, <1>5, <2>1
  <2>3. orders' = [c \in Cids |-> orders'[c]]
    BY DEF Placement
  <2>4. QED  BY <2>2, <2>3
<1>7. LevelsTyped(levels', issued')
  <2>1. ASSUME NEW r \in LevelRecord(issued) PROVE r \in LevelRecord(issued')
    BY <1>0, <1>1 DEF LevelRecord
  <2>2. ASSUME NEW r \in LevelRecord(issued), r.state = "pending", NEW k \in (issued + 1)..issued'
        PROVE  [r EXCEPT !.state = "active", !.cid = k] \in LevelRecord(issued')
    <3>1. r \in [state : {"pending"}, side : {r.side}, cid : 0..issued, filled : {r.filled}]
      BY <2>2 DEF LevelRecord
    <3>2. [r EXCEPT !.state = "active", !.cid = k]
            \in [state : {"active"}, side : {r.side}, cid : {k}, filled : {r.filled}]
      BY <3>1
    <3>3. k # 0 /\ k \in 0..issued'
      BY <1>0, <1>1
    <3>4. r.side # 0 /\ r.side \in {Buy, Sell, 0} /\ r.filled \in 0..(Size - 1)
      BY <2>2 DEF LevelRecord
    <3>5. QED  BY <3>2, <3>3, <3>4 DEF LevelRecord
  <2>3. levels' = [l \in Levels |-> IF l \in told
                                    THEN [ls[l] EXCEPT !.state = "active", !.cid = CidOf(chosen, l)]
                                    ELSE ls[l]]
    BY DEF Placement
  <2>4. \A l \in Levels : levels'[l] \in LevelRecord(issued')
    BY <1>1, <2>1, <2>2, <2>3 DEF LevelsTyped
  <2>5. QED  BY <2>3, <2>4 DEF LevelsTyped
<1>8. RecordInv'
  <2>1. ASSUME NEW c \in Cids, c > issued' PROVE orders'[c].side = 0
    <3>1. c \in Int /\ c > issued
      BY <1>0, <1>1, <2>1 DEF Cids
    <3>2. orders'[c] = orders[c]
      BY <1>0, <1>1, <1>5, <2>1, <3>1
    <3>3. QED  BY <3>1, <3>2 DEF RecordInv
  <2>2. ASSUME NEW c \in Cids
        PROVE  IF orders'[c].side = 0 THEN orders'[c].left = 0 ELSE orders'[c].level \in Levels
    <3>1. CASE orders'[c] = orders[c]
      BY <3>1 DEF RecordInv
    <3>2. CASE orders'[c] # orders[c]
      <4>1. PICK l \in taken : orders'[c] = [level |-> l, side |-> ls[l].side, left |-> Size]
        BY <1>5, <3>2
      <4>2. l \in chosen
        BY <1>1
      <4>3. l \in Levels /\ ls[l].side \in {Buy, Sell}
        BY <1>4, <4>2
      <4>4. QED  BY <4>1, <4>3 DEF Buy, Sell
    <3>3. QED  BY <3>1, <3>2
  <2>3. ASSUME NEW i \in DOMAIN trades' PROVE trades'[i].qty * orders'[trades'[i].cid].side > 0
    <3>1. trades'[i] \in TradeEvent
      OBVIOUS
    <3>2. trades'[i].cid \in Cids /\ trades'[i].qty \in Int
      BY <3>1 DEF TradeEvent
    <3>3. orders[trades'[i].cid].side # 0
      BY <3>2
    <3>4. QED  BY <1>3, <3>2, <3>3
  <2>4. ASSUME NEW c \in cancels' PROVE orders'[c].side # 0 /\ orders'[c].left = 0
    <3>1. c \in Cids /\ orders[c].side # 0 /\ orders[c].left = 0
      BY <1>0 DEF VenueTyped, RecordInv
    <3>2. QED  BY <1>3, <3>1
  <2>5. QED  BY <2>1, <2>2, <2>3, <2>4 DEF RecordInv
<1>9. HeldBy(levels', orders')
  <2>1. ASSUME NEW l \in Levels, levels'[l].state = "active"
        PROVE  orders'[levels'[l].cid].side = levels'[l].side /\ orders'[levels'[l].cid].level = l
    <3>1. CASE l \in told
      <4>1. ls[l] \in LevelRecord(issued) /\ l \in taken /\ l \in chosen
        BY <1>1, <3>1 DEF LevelsTyped
      <4>2. levels'[l] = [ls[l] EXCEPT !.state = "active", !.cid = CidOf(chosen, l)]
        BY <3>1 DEF Placement
      <4>3. levels'[l].cid = CidOf(chosen, l) /\ levels'[l].side = ls[l].side
        BY <4>1, <4>2 DEF LevelRecord
      <4>4. orders'[CidOf(chosen, l)] = [level |-> l, side |-> ls[l].side, left |-> Size]
        BY <4>1 DEF Placement
      <4>5. QED  BY <4>3, <4>4
    <3>2. CASE l \notin told
      <4>1. levels'[l] = ls[l]
        BY <3>2 DEF Placement
      <4>2. levels[l].state = "active" /\ levels'[l].cid = levels[l].cid /\ levels'[l].side = levels[l].side
        BY <2>1, <4>1 DEF Fewer
      <4>3. levels[l].cid \in Cids /\ levels[l].side # 0
        BY <1>0, <4>2, GridAssumption, SMTT(30) DEF ActorTyped, LevelsTyped, LevelRecord, Cids
      <4>4. orders[levels[l].cid].side = levels[l].side /\ orders[levels[l].cid].level = l
        BY <4>2 DEF HeldBy
      <4>5. QED  BY <1>3, <4>2, <4>3, <4>4
    <3>3. QED  BY <3>1, <3>2
  <2>2. QED  BY <2>1 DEF HeldBy
<1>10. QED  BY <1>2, <1>6, <1>7, <1>8, <1>9

\* The trades on their way without the first of them.
LEMMA TailTrades ==
  ASSUME TypeOK, RecordInv, trades # <<>>
  PROVE  /\ Tail(trades) \in Seq(TradeEvent) /\ Head(trades) \in TradeEvent
         /\ Head(trades).qty * orders[Head(trades).cid].side > 0
         /\ \A i \in DOMAIN Tail(trades) :
              Tail(trades)[i].qty * orders[Tail(trades)[i].cid].side > 0
<1>1. trades \in Seq(TradeEvent)
  BY TypeSplit DEF VenueTyped
<1>2. /\ Tail(trades) \in Seq(TradeEvent) /\ Head(trades) = trades[1] /\ 1 \in DOMAIN trades
      /\ trades[1] \in TradeEvent
      /\ \A i \in DOMAIN Tail(trades) : i + 1 \in DOMAIN trades /\ Tail(trades)[i] = trades[i + 1]
  BY <1>1
<1>3. QED  BY <1>2 DEF RecordInv

-----------------------------------------------------------------------------
(* The type invariant.                                                     *)

\* The trades on their way after a fill.
LEMMA FillTrades ==
  ASSUME TypeOK, RecordInv, NEW c \in Cids, NEW qty \in 1..orders[c].left,
         trades' = IF disconnected THEN trades
                   ELSE Append(trades, [cid |-> c, qty |-> orders[c].side * qty])
  PROVE  /\ orders[c] \in OrderRecord /\ orders[c].side \in {Buy, Sell} /\ qty \in Nat \ {0}
         /\ orders[c].side * qty \in Int /\ trades' \in Seq(TradeEvent)
         /\ \A i \in DOMAIN trades' : trades'[i].qty * orders[trades'[i].cid].side > 0
<1>1. trades \in Seq(TradeEvent) /\ orders[c] \in OrderRecord
  BY TypeSplit DEF VenueTyped
<1>2. orders[c].left \in Nat /\ orders[c].side \in {Buy, Sell, 0}
  BY <1>1, GridAssumption DEF OrderRecord
<1>3. qty \in Nat \ {0} /\ orders[c].left # 0
  BY <1>2
<1>4. orders[c].side \in {Buy, Sell}
  BY <1>2, <1>3 DEF RecordInv
<1>5. orders[c].side * qty \in Int /\ (orders[c].side * qty) * orders[c].side > 0
  <2>1. \A q \in Nat \ {0} : 1 * q \in Int /\ (1 * q) * 1 > 0 /\ (-1) * q \in Int /\ ((-1) * q) * (-1) > 0
    OBVIOUS
  <2>2. orders[c].side = 1 \/ orders[c].side = -1
    BY <1>4 DEF Buy, Sell
  <2>3. QED  BY <1>3, <2>1, <2>2
<1> DEFINE e == [cid |-> c, qty |-> orders[c].side * qty]
<1>6. e \in TradeEvent /\ e.qty * orders[e.cid].side > 0
  BY <1>5 DEF TradeEvent
<1> HIDE DEF e
<1>7. CASE disconnected
  BY <1>1, <1>3, <1>4, <1>5, <1>7 DEF RecordInv
<1>8. CASE ~disconnected
  <2>1. trades' = Append(trades, e)
    BY <1>8 DEF e
  <2>2. /\ trades' \in Seq(TradeEvent)
        /\ \A i \in DOMAIN trades' : trades'[i] = e \/ (i \in DOMAIN trades /\ trades'[i] = trades[i])
    BY <1>1, <1>6, <2>1
  <2>3. QED  BY <1>1, <1>3, <1>4, <1>5, <1>6, <2>2 DEF RecordInv
<1>9. QED  BY <1>7, <1>8

LEMMA CancelShrinks ==
  ASSUME TypeOK, RecordInv, CancelAll
  PROVE  /\ orders' = [c \in Cids |-> orders'[c]]
         /\ \A c \in Cids : \E k \in 0..orders[c].left : orders'[c] = [orders[c] EXCEPT !.left = k]
         /\ \A c \in cancels' : c \in cancels \/ (c \in Resting /\ orders'[c].left = 0)
         /\ cancels' \subseteq Cids
<1>1. /\ orders = [c \in Cids |-> orders[c]] /\ \A c \in Cids : orders[c] \in OrderRecord
      /\ cancels \subseteq Cids
  BY TypeSplit DEF VenueTyped
<1>2. \A c \in Cids : /\ 0 \in 0..orders[c].left /\ orders[c].left \in 0..orders[c].left
                      /\ orders[c] = [orders[c] EXCEPT !.left = orders[c].left]
                      /\ [orders[c] EXCEPT !.left = 0].left = 0
  BY <1>1, GridAssumption DEF OrderRecord
<1>3. CASE orders' = AllCancelled /\ cancels' = cancels \cup Resting
  BY <1>1, <1>2, <1>3 DEF AllCancelled, Resting
<1>4. CASE UNCHANGED <<orders, cancels>>
  BY <1>1, <1>2, <1>4
<1>5. QED  BY <1>3, <1>4 DEF CancelAll

\* Nothing of an order happens, or nothing is placed.
LEMMA OrdersSame ==
  ASSUME TypeOK, UNCHANGED orders
  PROVE  /\ orders' = [c \in Cids |-> orders'[c]]
         /\ \A c \in Cids : \E k \in 0..orders[c].left : orders'[c] = [orders[c] EXCEPT !.left = k]
<1>1. orders = [c \in Cids |-> orders[c]] /\ \A c \in Cids : orders[c] \in OrderRecord
  BY TypeSplit DEF VenueTyped
<1>2. \A c \in Cids : /\ orders[c].left \in 0..orders[c].left
                      /\ orders[c] = [orders[c] EXCEPT !.left = orders[c].left]
  BY <1>1, GridAssumption DEF OrderRecord
<1>3. QED  BY <1>1, <1>2

\* The levels after a placement, or after a decision to place nothing.
LEMMA AfterBatch ==
  ASSUME TypeOK, RecordInv, HeldBy(levels, orders), NEW ls, LevelsTyped(ls, issued), Fewer(ls), NEW n,
         PlacePending(ls, n) \/ NothingPlaced(ls),
         cancels' = cancels, trades' \in Seq(TradeEvent),
         \A i \in DOMAIN trades' : trades'[i].qty * orders[trades'[i].cid].side > 0
  PROVE  /\ LevelsTyped(levels', issued') /\ issued' \in 0..MaxOrders /\ lost' \in 0..MaxLost
         /\ orders' \in [Cids -> OrderRecord] /\ RecordInv' /\ HeldBy(levels, orders)'
<1>0. issued \in 0..MaxOrders /\ issued \in Nat /\ lost \in 0..MaxLost
  BY TypeSplit, GridAssumption DEF ActorTyped
<1>1. CASE PlacePending(ls, n)
  <2>1. PICK m \in 0..NumLevels, told, taken \in SUBSET Levels :
          Placement(ls, Chosen(ls, n, m), told, taken)
    BY <1>0, <1>1, PlaceEffect
  <2>2. QED  BY <2>1, PlacedTyped
<1>2. CASE NothingPlaced(ls)
  <2>1. levels' = ls /\ orders' = orders /\ issued' = issued /\ lost' = lost
    BY <1>2 DEF NothingPlaced
  <2>2. LevelsTyped(levels', issued) /\ Fewer(levels')
    BY <2>1
  <2>3. \A c \in cancels' : c \in cancels
    OBVIOUS
  <2>4. QED  BY <1>0, <2>1, <2>2, <2>3, OrdersSame, OrdersShrink
<1>3. QED  BY <1>1, <1>2

\* The level that holds an order has counted less of it than what is reported.
LEMMA HeldTrade ==
  ASSUME TypeOK, RecordInv, HeldBy(levels, orders), trades # <<>>, NEW l \in Holders(Head(trades).cid)
  PROVE  /\ l \in Levels /\ levels[l].state = "active" /\ levels[l].cid = Head(trades).cid
         /\ levels[l].side \in {Buy, Sell}
         /\ Head(trades).qty * levels[l].side \in Nat /\ Head(trades).qty * levels[l].side > 0
<1>1. l \in Levels /\ levels[l].state = "active" /\ levels[l].cid = Head(trades).cid
  BY DEF Holders
<1>2. levels[l] \in LevelRecord(issued)
  BY <1>1, TypeSplit DEF ActorTyped, LevelsTyped
<1>3. levels[l].side \in {Buy, Sell}
  BY <1>1, <1>2 DEF LevelRecord
<1>4. Head(trades).qty \in Int /\ Head(trades).qty * levels[l].side > 0
  BY <1>1, TailTrades DEF HeldBy, TradeEvent
<1>5. \A q \in Int : q * 1 \in Int /\ q * (-1) \in Int
  OBVIOUS
<1>6. Head(trades).qty * levels[l].side \in Int
  BY <1>3, <1>4, <1>5 DEF Buy, Sell
<1>7. QED  BY <1>1, <1>3, <1>4, <1>6

LEMMA HandleTradeKeeps ==
  ASSUME IInv, HandleTrade
  PROVE  IInv'
<1>0. ActorTyped /\ VenueTyped /\ FlagsTyped /\ issued \in Nat /\ TypeOK /\ RecordInv
      /\ HeldBy(levels, orders) /\ NewInv
  BY TypeSplit, GridAssumption DEF IInv, ActorTyped
<1>1. /\ trades # <<>> /\ trades' = Tail(trades) /\ net' = net + Head(trades).qty
      /\ phase = "running"
      /\ UNCHANGED <<phase, anchor, paused, position, cancels, disconnected, shutdown, raced, start>>
  BY DEF HandleTrade, Counted, flags
<1>2. \/ NothingPlaced(levels) /\ Holders(Head(trades).cid) = {}
      \/ \E l \in Holders(Head(trades).cid) :
           PlacePending(RecordFill(l, Head(trades).qty * levels[l].side), net')
  BY DEF HandleTrade
<1>3. /\ trades' \in Seq(TradeEvent) /\ Head(trades).qty \in Int
      /\ \A i \in DOMAIN trades' : trades'[i].qty * orders[trades'[i].cid].side > 0
  BY <1>0, <1>1, TailTrades DEF TradeEvent
<1>4. \E ls : /\ LevelsTyped(ls, issued) /\ Fewer(ls) /\ (PlacePending(ls, net') \/ NothingPlaced(ls))
  <2>1. CASE NothingPlaced(levels)
    BY <1>0, <2>1 DEF Fewer, ActorTyped
  <2>2. ASSUME NEW l \in Holders(Head(trades).cid),
               PlacePending(RecordFill(l, Head(trades).qty * levels[l].side), net')
        PROVE  \E ls : LevelsTyped(ls, issued) /\ Fewer(ls) /\ PlacePending(ls, net')
    <3> DEFINE qty == Head(trades).qty * levels[l].side
    <3>1. l \in Levels /\ levels[l].state = "active" /\ qty \in Nat /\ qty > 0
      BY <1>0, <1>1, HeldTrade
    <3> HIDE DEF qty
    <3>2. LevelsTyped(RecordFill(l, qty), issued) /\ Fewer(RecordFill(l, qty))
      BY <1>0, <3>1, RecordFillTyped DEF ActorTyped
    <3>3. QED  BY <2>2, <3>2 DEF qty
  <2>3. QED  BY <1>2, <2>1, <2>2
<1>5. /\ LevelsTyped(levels', issued') /\ issued' \in 0..MaxOrders /\ lost' \in 0..MaxLost
      /\ orders' \in [Cids -> OrderRecord] /\ RecordInv' /\ HeldBy(levels, orders)'
  BY <1>0, <1>1, <1>3, <1>4, AfterBatch
<1>6. TypeOK'
  <2>1. net' \in Int
    BY <1>0, <1>1, <1>3 DEF ActorTyped
  <2>2. ActorTyped' /\ VenueTyped' /\ FlagsTyped'
    BY <1>0, <1>1, <1>3, <1>5, <2>1 DEF ActorTyped, VenueTyped, FlagsTyped
  <2>3. QED  BY <2>2, TypeSplit, PTL
<1>7. NewInv'
  <2>1. ASSUME paused PROVE levels' = [l \in Levels |-> Dormant]
    <3>1. levels = [l \in Levels |-> Dormant]
      BY <1>0, <2>1 DEF NewInv
    <3>2. Holders(Head(trades).cid) = {}
      BY <3>1 DEF Holders, Dormant
    <3>3. QED  BY <1>2, <3>1, <3>2 DEF NothingPlaced
  <2>2. QED  BY <1>1, <2>1 DEF NewInv
<1>8. QED  BY <1>5, <1>6, <1>7 DEF IInv

LEMMA HandleCancelledKeeps ==
  ASSUME IInv, NEW c \in Cids, HandleCancelled(c)
  PROVE  IInv'
<1>0. ActorTyped /\ VenueTyped /\ FlagsTyped /\ issued \in Nat /\ TypeOK /\ RecordInv
      /\ HeldBy(levels, orders) /\ NewInv
  BY TypeSplit, GridAssumption DEF IInv, ActorTyped
<1>1. /\ phase = "running" /\ cancels' = cancels \ {c}
      /\ levels' = [l \in Levels |-> IF l \in Holders(c) THEN Requeue(levels[l]) ELSE levels[l]]
      /\ UNCHANGED <<phase, anchor, paused, net, issued, orders, position, trades, disconnected,
                     shutdown, lost, start>>
  BY DEF HandleCancelled, flags
<1>2. raced' \in BOOLEAN
  BY <1>0, Zenon DEF HandleCancelled, FlagsTyped
<1>3. LevelsTyped(levels', issued) /\ Fewer(levels')
  <2>1. \A l \in Levels \cap Holders(c) : levels[l].state = "active"
    BY DEF Holders
  <2>2. LevelsTyped(levels, issued) /\ Fewer(levels)
    BY <1>0 DEF ActorTyped, Fewer
  <2>3. QED  BY <1>0, <1>1, <2>1, <2>2, RequeueTyped
<1>4. orders' \in [Cids -> OrderRecord] /\ RecordInv' /\ HeldBy(levels, orders)'
  <2>1. /\ trades' \in Seq(TradeEvent)
        /\ \A i \in DOMAIN trades' : trades'[i].qty * orders[trades'[i].cid].side > 0
    BY <1>0, <1>1 DEF RecordInv, VenueTyped
  <2>2. \A d \in cancels' : d \in cancels
    BY <1>1
  <2>3. QED  BY <1>0, <1>1, <1>3, <2>1, <2>2, OrdersSame, OrdersShrink
<1>5. TypeOK'
  <2>1. ActorTyped' /\ VenueTyped' /\ FlagsTyped'
    BY <1>0, <1>1, <1>2, <1>3, <1>4 DEF ActorTyped, VenueTyped, FlagsTyped
  <2>2. QED  BY <2>1, TypeSplit, PTL
<1>6. NewInv'
  <2>1. ASSUME paused PROVE levels' = [l \in Levels |-> Dormant]
    <3>1. levels = [l \in Levels |-> Dormant]
      BY <1>0, <2>1 DEF NewInv
    <3>2. Holders(c) = {}
      BY <3>1 DEF Holders, Dormant
    <3>3. QED  BY <1>1, <3>1, <3>2
  <2>2. QED  BY <1>1, <2>1 DEF NewInv
<1>7. QED  BY <1>4, <1>5, <1>6 DEF IInv

LEMMA TickKeeps ==
  ASSUME IInv, Tick
  PROVE  IInv'
<1>0. ActorTyped /\ VenueTyped /\ FlagsTyped /\ issued \in Nat /\ TypeOK /\ RecordInv
      /\ HeldBy(levels, orders) /\ NewInv
  BY TypeSplit, GridAssumption DEF IInv, ActorTyped
<1>1. /\ phase = "running"
      /\ UNCHANGED <<phase, anchor, net, position, trades, disconnected, shutdown, start>>
  BY DEF Tick, TickBegins, flags
<1>2. /\ trades' \in Seq(TradeEvent)
      /\ \A i \in DOMAIN trades' : trades'[i].qty * orders[trades'[i].cid].side > 0
  BY <1>0, <1>1 DEF RecordInv, VenueTyped
<1> DEFINE Goal ==
      /\ LevelsTyped(levels', issued') /\ issued' \in 0..MaxOrders /\ lost' \in 0..MaxLost
      /\ orders' \in [Cids -> OrderRecord] /\ RecordInv' /\ HeldBy(levels, orders)'
      /\ paused' \in BOOLEAN /\ raced' \in BOOLEAN /\ cancels' \subseteq Cids
      /\ paused' => levels' = [l \in Levels |-> Dormant]
<1>3. ASSUME TickSuspends PROVE Goal
  <2>1. levels' = Suspend(levels) /\ paused' = TRUE /\ UNCHANGED <<issued, lost>> /\ CancelAll
    BY <1>3 DEF TickSuspends
  <2>2. LevelsTyped(levels', issued) /\ Fewer(levels')
    BY <1>0, <2>1, SetUp
  <2>3. raced' \in BOOLEAN
    BY <1>0, <1>3, Zenon DEF TickSuspends, FlagsTyped
  <2>4. orders' \in [Cids -> OrderRecord] /\ RecordInv' /\ HeldBy(levels, orders)' /\ cancels' \subseteq Cids
    BY <1>0, <1>2, <2>1, <2>2, CancelShrinks, OrdersShrink
  <2>5. levels' = [l \in Levels |-> Dormant]
    BY <2>1 DEF Suspend
  <2>6. issued' \in 0..MaxOrders /\ lost' \in 0..MaxLost /\ LevelsTyped(levels', issued')
    BY <1>0, <2>1, <2>2 DEF ActorTyped
  <2>7. paused' \in BOOLEAN
    BY <2>1
  <2>8. QED  BY <2>3, <2>4, <2>5, <2>6, <2>7, Zenon
<1>4. ASSUME TickPaused PROVE Goal
  <2>1. paused /\ UNCHANGED <<paused, levels, issued, orders, cancels, lost, raced>>
    BY <1>4 DEF TickPaused
  <2>2. Fewer(levels') /\ LevelsTyped(levels', issued)
    BY <1>0, <2>1 DEF Fewer, ActorTyped
  <2>3. orders' \in [Cids -> OrderRecord] /\ RecordInv' /\ HeldBy(levels, orders)'
    <3>1. \A d \in cancels' : d \in cancels
      BY <2>1
    <3>2. QED  BY <1>0, <1>2, <2>1, <2>2, <3>1, OrdersSame, OrdersShrink
  <2>4. issued' \in 0..MaxOrders /\ lost' \in 0..MaxLost /\ LevelsTyped(levels', issued')
        /\ cancels' \subseteq Cids
    BY <1>0, <2>1, <2>2 DEF ActorTyped, VenueTyped
  <2>5. paused' \in BOOLEAN /\ raced' \in BOOLEAN
    BY <1>0, <2>1, Zenon DEF FlagsTyped
  <2>6. levels' = [l \in Levels |-> Dormant]
    BY <1>0, <2>1 DEF NewInv
  <2>7. QED  BY <2>3, <2>4, <2>5, <2>6, Zenon
<1>5. ASSUME TickPlaces PROVE Goal
  <2>1. paused' = FALSE /\ cancels' = cancels /\ PlacePending(Reconciled(Unpaused), net)
    BY <1>5 DEF TickPlaces
  <2>2. raced' \in BOOLEAN
    BY <1>0, <1>5, Zenon DEF TickPlaces, FlagsTyped
  <2>3. LevelsTyped(Reconciled(Unpaused), issued) /\ Fewer(Reconciled(Unpaused))
    BY <1>0, ReconciledTyped DEF ActorTyped
  <2>4. /\ LevelsTyped(levels', issued') /\ issued' \in 0..MaxOrders /\ lost' \in 0..MaxLost
        /\ orders' \in [Cids -> OrderRecord] /\ RecordInv' /\ HeldBy(levels, orders)'
    BY <1>0, <1>2, <2>1, <2>3, AfterBatch
  <2>5. paused' \in BOOLEAN /\ ~paused'
    BY <2>1
  <2>6. cancels' \subseteq Cids
    BY <1>0, <2>1 DEF VenueTyped
  <2>7. QED  BY <2>2, <2>4, <2>5, <2>6, Zenon
<1>6. ASSUME TickFails PROVE Goal
  <2>1. paused' = FALSE /\ cancels' = cancels /\ raced' = raced /\ NothingPlaced(Unpaused)
    BY <1>6 DEF TickFails
  <2>2. LevelsTyped(Unpaused, issued) /\ Fewer(Unpaused)
    BY <1>0, UnpausedTyped DEF ActorTyped
  <2>3. /\ LevelsTyped(levels', issued') /\ issued' \in 0..MaxOrders /\ lost' \in 0..MaxLost
        /\ orders' \in [Cids -> OrderRecord] /\ RecordInv' /\ HeldBy(levels, orders)'
    BY <1>0, <1>2, <2>1, <2>2, AfterBatch
  <2>4. paused' \in BOOLEAN /\ ~paused'
    BY <2>1
  <2>5. raced' \in BOOLEAN
    BY <1>0, <2>1, Zenon DEF FlagsTyped
  <2>6. cancels' \subseteq Cids
    BY <1>0, <2>1 DEF VenueTyped
  <2>7. QED  BY <2>3, <2>4, <2>5, <2>6, Zenon
<1>7. Goal
  <2>1. TickSuspends \/ TickPaused \/ TickPlaces \/ TickFails
    BY DEF Tick
  <2> HIDE DEF Goal
  <2>2. QED  BY <1>3, <1>4, <1>5, <1>6, <2>1
<1>8. ActorTyped' /\ VenueTyped' /\ FlagsTyped' /\ NewInv'
  BY <1>0, <1>1, <1>7 DEF ActorTyped, VenueTyped, FlagsTyped, NewInv
<1>9. TypeOK'
  BY <1>8, TypeSplit, PTL
<1>10. QED  BY <1>7, <1>8, <1>9 DEF IInv

LEMMA StartKeeps ==
  ASSUME IInv, Start
  PROVE  IInv'
<1>0. ActorTyped /\ VenueTyped /\ FlagsTyped /\ issued \in Nat /\ TypeOK /\ RecordInv
      /\ HeldBy(levels, orders) /\ NewInv
  BY TypeSplit, GridAssumption DEF IInv, ActorTyped
<1>1. /\ phase = "new" /\ phase' = "running" /\ net' = position /\ PlacePending(ComputeLevels, position)
      /\ UNCHANGED <<anchor, paused, position, trades, cancels, disconnected, shutdown, raced, start>>
  BY DEF Start, flags
<1>2. LevelsTyped(ComputeLevels, issued) /\ Fewer(ComputeLevels)
  BY <1>0, SetUp
<1>3. /\ trades' \in Seq(TradeEvent)
      /\ \A i \in DOMAIN trades' : trades'[i].qty * orders[trades'[i].cid].side > 0
  BY <1>0, <1>1 DEF RecordInv, VenueTyped
<1>4. /\ LevelsTyped(levels', issued') /\ issued' \in 0..MaxOrders /\ lost' \in 0..MaxLost
      /\ orders' \in [Cids -> OrderRecord] /\ RecordInv' /\ HeldBy(levels, orders)'
  BY <1>0, <1>1, <1>2, <1>3, AfterBatch
<1>5. ActorTyped' /\ VenueTyped' /\ FlagsTyped'
  BY <1>0, <1>1, <1>4 DEF ActorTyped, VenueTyped, FlagsTyped
<1>6. TypeOK'
  BY <1>5, TypeSplit, PTL
<1>7. NewInv'
  BY <1>0, <1>1 DEF NewInv
<1>8. QED  BY <1>4, <1>6, <1>7 DEF IInv

\* The steps of the venue, and those that only end something.
LEMMA VenueKeeps ==
  ASSUME IInv,
         \/ Refuse \/ WindDown \/ TickDisconnected \/ Disconnect
         \/ \E c \in Cids : Fill(c) \/ VenueCancel(c)
  PROVE  IInv'
<1>0. ActorTyped /\ VenueTyped /\ FlagsTyped /\ issued \in Nat /\ TypeOK /\ RecordInv
      /\ HeldBy(levels, orders) /\ NewInv
  BY TypeSplit, GridAssumption DEF IInv, ActorTyped
<1> DEFINE Ended == /\ orders' = [c \in Cids |-> orders'[c]]
                    /\ \A c \in Cids : \E k \in 0..orders[c].left :
                                         orders'[c] = [orders[c] EXCEPT !.left = k]
           Traded == /\ trades' \in Seq(TradeEvent)
                     /\ \A i \in DOMAIN trades' : trades'[i].qty * orders[trades'[i].cid].side > 0
           Cancelled == /\ cancels' \subseteq Cids
                        /\ \A c \in cancels' : c \in cancels \/ (c \in Resting /\ orders'[c].left = 0)
           Flags == disconnected' \in BOOLEAN /\ shutdown' \in BOOLEAN
           Goal == /\ Ended /\ Traded /\ Cancelled /\ Flags
                   /\ phase' \in {"new", "running", "refused", "down"} /\ position' \in Int
                   /\ phase' = "new" => phase = "new" /\ UNCHANGED <<trades, position, orders>>
                   /\ UNCHANGED <<gridVars, lost, raced, start>>
<1>1. orders' = orders => Ended
  BY <1>0, OrdersSame
<1>2. trades' = trades => Traded
  BY <1>0 DEF RecordInv, VenueTyped
<1>3. cancels' = cancels => Cancelled
  BY <1>0 DEF VenueTyped
<1>4. UNCHANGED <<disconnected, shutdown>> => Flags
  BY <1>0, Zenon DEF FlagsTyped
<1>5. position \in Int /\ phase \in {"new", "running", "refused", "down"}
  BY <1>0 DEF VenueTyped, ActorTyped
<1>6. Refuse \/ TickDisconnected \/ Disconnect => Goal
  <2> SUFFICES ASSUME Refuse \/ TickDisconnected \/ Disconnect PROVE Goal
    OBVIOUS
  <2>1. /\ UNCHANGED <<gridVars, venueVars, lost, raced, start>>
        /\ phase' \in {phase, "refused"}
    BY DEF Refuse, TickDisconnected, Disconnect
  <2>2. /\ disconnected' = disconnected \/ disconnected' = TRUE
        /\ shutdown' = shutdown \/ shutdown' = TRUE
    BY DEF Refuse, TickDisconnected, Disconnect, flags
  <2>3. Flags
    BY <1>0, <2>2, Zenon DEF FlagsTyped
  <2>4. UNCHANGED <<orders, position, trades, cancels>>
    BY <2>1 DEF venueVars
  <2> HIDE DEF Ended, Traded, Cancelled, Flags
  <2>5. QED  BY <1>1, <1>2, <1>3, <1>5, <2>1, <2>3, <2>4
<1>7. WindDown => Goal
  <2> SUFFICES ASSUME WindDown PROVE Goal
    OBVIOUS
  <2>1. /\ CancelAll /\ phase' = "down" /\ phase = "running"
        /\ UNCHANGED <<gridVars, position, trades, lost, raced, start, disconnected, shutdown>>
    BY DEF WindDown, flags
  <2>2. Ended /\ Cancelled
    BY <1>0, <2>1, CancelShrinks
  <2> HIDE DEF Ended, Traded, Cancelled, Flags
  <2>3. QED  BY <1>2, <1>4, <1>5, <2>1, <2>2
<1>8. ASSUME NEW c \in Cids, Fill(c) PROVE Goal
  <2>1. PICK qty \in 1..orders[c].left :
          /\ orders' = [orders EXCEPT ![c].left = @ - qty]
          /\ position' = position + orders[c].side * qty
          /\ trades' = IF disconnected THEN trades
                       ELSE Append(trades, [cid |-> c, qty |-> orders[c].side * qty])
    BY <1>8 DEF Fill
  <2>2. UNCHANGED <<phase, gridVars, cancels, disconnected, shutdown, lost, raced, start>>
    BY <1>8 DEF Fill, flags
  <2>3. orders[c].side * qty \in Int /\ Traded /\ orders[c] \in OrderRecord /\ qty \in Nat \ {0}
    BY <1>0, <2>1, FillTrades
  <2>4. Ended
    <3>1. /\ orders = [d \in Cids |-> orders[d]]
          /\ \A d \in Cids : /\ orders[d].left \in 0..orders[d].left
                             /\ orders[d] = [orders[d] EXCEPT !.left = orders[d].left]
      <4>1. orders = [d \in Cids |-> orders[d]] /\ \A d \in Cids : orders[d] \in OrderRecord
        BY <1>0 DEF VenueTyped
      <4>2. QED  BY <4>1, GridAssumption DEF OrderRecord
    <3>2. orders[c].left - qty \in 0..orders[c].left
      BY <2>3, GridAssumption DEF OrderRecord
    <3>3. \A d \in Cids : orders'[d] = IF d = c THEN [orders[d] EXCEPT !.left = orders[c].left - qty]
                                       ELSE orders[d]
      BY <2>1, <3>1
    <3>4. orders' = [d \in Cids |-> orders'[d]]
      BY <2>1, <3>1
    <3>5. QED  BY <3>1, <3>2, <3>3, <3>4
  <2>5. position' \in Int
    BY <1>5, <2>1, <2>3
  <2>6. phase # "new"
    BY <1>0, <2>1, <2>3 DEF NewInv, NoOrder
  <2> HIDE DEF Ended, Traded, Cancelled, Flags
  <2>7. QED  BY <1>3, <1>4, <1>5, <2>2, <2>3, <2>4, <2>5, <2>6
<1>9. ASSUME NEW c \in Cids, VenueCancel(c) PROVE Goal
  <2>1. /\ c \in Resting /\ orders' = [orders EXCEPT ![c].left = 0]
        /\ cancels' \in {cancels, cancels \cup {c}}
        /\ UNCHANGED <<phase, gridVars, position, trades, disconnected, shutdown, lost, raced, start>>
    BY <1>9 DEF VenueCancel, flags
  <2>2. orders = [d \in Cids |-> orders[d]] /\ \A d \in Cids : orders[d] \in OrderRecord
    BY <1>0 DEF VenueTyped
  <2>3. Ended /\ orders'[c].left = 0
    <3>1. \A d \in Cids : /\ orders[d].left \in 0..orders[d].left /\ 0 \in 0..orders[d].left
                          /\ orders[d] = [orders[d] EXCEPT !.left = orders[d].left]
      BY <2>2, GridAssumption DEF OrderRecord
    <3>2. \A d \in Cids : orders'[d] = IF d = c THEN [orders[d] EXCEPT !.left = 0] ELSE orders[d]
      BY <2>1, <2>2
    <3>3. orders' = [d \in Cids |-> orders'[d]]
      BY <2>1, <2>2
    <3>4. orders'[c].left = 0
      BY <2>2, <3>2 DEF OrderRecord
    <3>5. QED  BY <3>1, <3>2, <3>3, <3>4
  <2>4. Cancelled
    BY <1>0, <2>1, <2>3 DEF VenueTyped
  <2>5. phase # "new"
    BY <1>0, <2>1 DEF NewInv, NoOrder, Resting
  <2> HIDE DEF Ended, Traded, Cancelled, Flags
  <2>6. QED  BY <1>2, <1>4, <1>5, <2>1, <2>3, <2>4, <2>5
<1>10. Goal
  <2> HIDE DEF Goal
  <2>1. QED  BY <1>6, <1>7, <1>8, <1>9
<1>11. LevelsTyped(levels', issued) /\ Fewer(levels') /\ UNCHANGED <<anchor, levels, paused, net, issued>>
  BY <1>0, <1>10 DEF ActorTyped, Fewer, gridVars
<1>12. orders' \in [Cids -> OrderRecord] /\ RecordInv' /\ HeldBy(levels, orders)'
  BY <1>0, <1>10, <1>11, OrdersShrink
<1>13. ActorTyped' /\ VenueTyped' /\ FlagsTyped'
  <2>1. ActorTyped' /\ VenueTyped'
    BY <1>0, <1>10, <1>11, <1>12 DEF ActorTyped, VenueTyped
  <2>2. FlagsTyped'
    BY <1>0, <1>10, <1>11, Zenon DEF FlagsTyped
  <2>3. QED  BY <2>1, <2>2
<1>14. TypeOK'
  BY <1>13, TypeSplit, PTL
<1>15. NewInv'
  BY <1>0, <1>10, <1>11 DEF NewInv
<1>16. QED  BY <1>12, <1>14, <1>15 DEF IInv

LEMMA IInvHolds == Spec => []IInv
<1>1. ASSUME Init PROVE IInv
  <2>1. /\ phase = "new" /\ anchor \in 0..NumLevels /\ levels = [l \in Levels |-> Dormant]
        /\ paused = FALSE /\ net = 0 /\ issued = 0 /\ orders = [c \in Cids |-> NoOrder]
        /\ position \in {0, 1} /\ start = position /\ trades = <<>> /\ cancels = {}
        /\ disconnected = FALSE /\ shutdown = FALSE /\ lost = 0 /\ raced = FALSE
    BY <1>1 DEF Init
  <2>2. LevelsTyped(levels, issued)
    BY <2>1, LevelsMade DEF LevelsTyped
  <2>3. orders \in [Cids -> OrderRecord]
    BY <2>1, GridAssumption DEF NoOrder, OrderRecord
  <2>4. ActorTyped /\ VenueTyped
    BY <2>1, <2>2, <2>3, GridAssumption DEF ActorTyped, VenueTyped
  <2>5. FlagsTyped
    BY <2>1, Zenon DEF FlagsTyped
  <2>6. RecordInv /\ HeldBy(levels, orders) /\ NewInv
    BY <2>1 DEF RecordInv, HeldBy, NewInv, NoOrder, Dormant
  <2>7. QED  BY <2>4, <2>5, <2>6, TypeSplit DEF IInv
<1>2. ASSUME IInv, [Next]_vars PROVE IInv'
  <2>1. CASE Next
    BY <1>2, <2>1, StartKeeps, HandleTradeKeeps, HandleCancelledKeeps, TickKeeps, VenueKeeps DEF Next
  <2>2. CASE UNCHANGED vars
    BY <1>2, <2>2 DEF vars, gridVars, venueVars, flags, IInv, TypeOK, RecordInv, HeldBy, NewInv
  <2>3. QED  BY <1>2, <2>1, <2>2
<1>3. QED  BY <1>1, <1>2, PTL DEF Spec

\* Every variable keeps its type: a level's record agrees with itself, no level has
\* counted a whole order, and no trade is counted with the wrong sign, in whatever
\* order fills, reports and ticks come (grid.rs:114-160).
THEOREM TypeCorrect == Spec => []TypeOK
<1>1. IInv => TypeOK
  BY DEF IInv
<1>2. QED  BY <1>1, IInvHolds, PTL

-----------------------------------------------------------------------------
(* The tracker.                                                            *)

LEMMA QueueFlow ==
  ASSUME TypeOK
  PROVE  /\ QueuedQty = Flow(trades) /\ Flow(trades) \in Int /\ net \in Int /\ position \in Int
         /\ trades = <<>> => Flow(trades) = 0
         /\ trades # <<>> => /\ Flow(trades) = Head(trades).qty + Flow(Tail(trades))
                             /\ Head(trades).qty \in Int /\ Flow(Tail(trades)) \in Int
         /\ \A e \in TradeEvent : Flow(Append(trades, e)) = Flow(trades) + e.qty
<1>1. trades \in Seq(TradeEvent) /\ net \in Int /\ position \in Int
  BY TypeSplit DEF ActorTyped, VenueTyped
<1>2. \A t \in TradeEvent : t.qty \in Int
  BY DEF TradeEvent
<1>3. QueuedQty = Flow(trades)
  BY DEF QueuedQty, Flow
<1>4. Flow(trades) \in Int /\ (trades = <<>> => Flow(trades) = 0)
  BY <1>1, <1>2, FlowType
<1>5. ASSUME trades # <<>>
      PROVE  /\ Flow(trades) = Head(trades).qty + Flow(Tail(trades))
             /\ Head(trades).qty \in Int /\ Flow(Tail(trades)) \in Int
  <2>1. Tail(trades) \in Seq(TradeEvent) /\ Head(trades) \in TradeEvent
    BY <1>1, <1>5
  <2>2. QED  BY <1>1, <1>2, <1>5, <2>1, FlowTail, FlowType
<1>6. \A e \in TradeEvent : Flow(Append(trades, e)) = Flow(trades) + e.qty
  BY <1>1, <1>2, FlowAppend
<1>7. QED  BY <1>1, <1>3, <1>4, <1>5, <1>6

LEMMA BookStep ==
  ASSUME IInv, IInv', InventoryExact, Next
  PROVE  InventoryExact'
<1>0. TypeOK /\ TypeOK' /\ NewInv
  BY DEF IInv
<1>1. /\ QueuedQty' = Flow(trades') /\ Flow(trades') \in Int /\ net' \in Int /\ position' \in Int
      /\ trades' = <<>> => Flow(trades') = 0
  <2>1. ActorTyped' /\ VenueTyped'
    BY <1>0, TypeSplit, PTL
  <2>2. trades' \in Seq(TradeEvent) /\ net' \in Int /\ position' \in Int
    BY <2>1 DEF ActorTyped, VenueTyped
  <2>3. \A t \in TradeEvent : t.qty \in Int
    BY DEF TradeEvent
  <2>4. QueuedQty' = Flow(trades')
    BY DEF QueuedQty, Flow
  <2>5. QED  BY <2>2, <2>3, <2>4, FlowType
<1> SUFFICES ASSUME phase' = "running", ~disconnected' PROVE net' + Flow(trades') = position'
  BY <1>1 DEF InventoryExact
<1>2. CASE Start
  BY <1>0, <1>1, <1>2 DEF Start, NewInv
<1>3. CASE HandleTrade
  <2>1. /\ trades # <<>> /\ trades' = Tail(trades) /\ net' = net + Head(trades).qty
        /\ UNCHANGED <<phase, position, disconnected>>
    BY <1>3 DEF HandleTrade, Counted, flags
  <2>2. net + Flow(trades) = position
    BY <1>0, <2>1, QueueFlow DEF InventoryExact
  <2>3. QED  BY <1>0, <2>1, <2>2, QueueFlow
<1>4. ASSUME NEW c \in Cids, Fill(c) PROVE net' + Flow(trades') = position'
  <2>1. PICK qty \in 1..orders[c].left :
          /\ position' = position + orders[c].side * qty
          /\ trades' = IF disconnected THEN trades
                       ELSE Append(trades, [cid |-> c, qty |-> orders[c].side * qty])
    BY <1>4 DEF Fill
  <2>2. UNCHANGED <<phase, net, disconnected>>
    BY <1>4 DEF Fill, flags, gridVars
  <2> DEFINE e == [cid |-> c, qty |-> orders[c].side * qty]
  <2>3. orders[c].side * qty \in Int
    BY <1>0, <2>1, FillTrades DEF IInv
  <2>4. e \in TradeEvent /\ e.qty = orders[c].side * qty
    BY <2>3 DEF TradeEvent
  <2>5. trades' = Append(trades, e)
    BY <2>1, <2>2
  <2> HIDE DEF e
  <2>6. Flow(trades') = Flow(trades) + orders[c].side * qty /\ net + Flow(trades) = position
    BY <1>0, <2>2, <2>4, <2>5, QueueFlow DEF InventoryExact
  <2>7. QED  BY <1>0, <2>1, <2>2, <2>3, <2>6, QueueFlow, SMTT(30)
<1>5. CASE UNCHANGED <<net, trades, position>> /\ phase = "running" /\ ~disconnected
  BY <1>0, <1>5, QueueFlow DEF InventoryExact
<1>6. ASSUME NEW c \in Cids, HandleCancelled(c) \/ VenueCancel(c)
      PROVE  UNCHANGED <<net, trades, position>> /\ phase = "running" /\ ~disconnected
  BY <1>6 DEF HandleCancelled, VenueCancel, flags, gridVars
<1>7. CASE Tick
  BY <1>5, <1>7 DEF Tick, TickBegins, flags
<1>8. CASE TickDisconnected
  BY <1>5, <1>8 DEF TickDisconnected, gridVars, venueVars
<1>9. CASE Refuse \/ WindDown \/ Disconnect
  BY <1>9 DEF Refuse, WindDown, Disconnect
<1>10. QED  BY <1>2, <1>3, <1>4, <1>5, <1>6, <1>7, <1>8, <1>9 DEF Next

\* The tracker and the trades on their way to it make up the position at every
\* moment of a live run: also the fills of orders that no level holds any more, or
\* ever held (strategy.rs:395).
THEOREM TrackerIsExact == Spec => []InventoryExact
<1>1. Init => InventoryExact
  BY DEF Init, InventoryExact
<1>2. IInv /\ IInv' /\ InventoryExact /\ [Next]_vars => InventoryExact'
  <2>1. ASSUME UNCHANGED vars, InventoryExact PROVE InventoryExact'
    BY <2>1 DEF vars, gridVars, venueVars, flags, InventoryExact, QueuedQty
  <2>2. QED  BY <2>1, BookStep
<1>3. QED  BY <1>1, <1>2, IInvHolds, PTL DEF Spec

-----------------------------------------------------------------------------
(* The suspended grid.                                                     *)

LEMMA PausedStep ==
  ASSUME IInv, Next, paused, paused'
  PROVE  Resting' \subseteq Resting
<1>0. /\ TypeOK /\ RecordInv /\ levels = [l \in Levels |-> Dormant] /\ phase # "new"
      /\ \A c \in Cids : orders[c] \in OrderRecord
  BY TypeSplit DEF IInv, NewInv, VenueTyped
<1>1. \A c \in Cids : Holders(c) = {}
  BY <1>0 DEF Holders, Dormant
<1>2. orders' = orders => Resting' \subseteq Resting
  BY DEF Resting
<1>3. CASE HandleTrade
  <2>1. Head(trades).cid \in Cids
    BY <1>0, <1>3, TailTrades DEF HandleTrade, TradeEvent
  <2>2. NothingPlaced(levels)
    BY <1>1, <1>3, <2>1 DEF HandleTrade
  <2>3. QED  BY <1>2, <2>2 DEF NothingPlaced
<1>4. CancelAll => Resting' \subseteq Resting
  <2>1. \A c \in Cids : AllCancelled[c].left = 0
    BY <1>0 DEF AllCancelled, OrderRecord
  <2>2. orders' = AllCancelled => Resting' = {}
    BY <2>1 DEF Resting
  <2>3. QED  BY <1>2, <2>2 DEF CancelAll
<1>5. CASE Tick
  BY <1>2, <1>4, <1>5 DEF Tick, TickSuspends, TickPaused, TickPlaces, TickFails
<1>6. ASSUME NEW c \in Cids, Fill(c) PROVE Resting' \subseteq Resting
  <2>1. PICK qty \in 1..orders[c].left :
          /\ orders' = [orders EXCEPT ![c].left = @ - qty]
          /\ trades' = IF disconnected THEN trades
                       ELSE Append(trades, [cid |-> c, qty |-> orders[c].side * qty])
    BY <1>6 DEF Fill
  <2>2. orders[c].left > 0
    BY <1>0, <2>1, GridAssumption DEF OrderRecord
  <2>3. \A d \in Cids \ {c} : orders'[d] = orders[d]
    BY <2>1
  <2>4. QED  BY <2>2, <2>3 DEF Resting
<1>7. ASSUME NEW c \in Cids, VenueCancel(c) PROVE Resting' \subseteq Resting
  BY <1>7 DEF VenueCancel, Resting
<1>8. ASSUME NEW c \in Cids, HandleCancelled(c) PROVE Resting' \subseteq Resting
  BY <1>2, <1>8 DEF HandleCancelled
<1>9. CASE Start \/ Refuse \/ TickDisconnected \/ Disconnect
  BY <1>0, <1>2, <1>9 DEF Start, Refuse, TickDisconnected, Disconnect, venueVars
<1>10. CASE WindDown
  BY <1>4, <1>10 DEF WindDown
<1>11. QED  BY <1>3, <1>5, <1>6, <1>7, <1>8, <1>9, <1>10 DEF Next

\* A suspended grid places nothing, whatever is still reported to it of the orders
\* it has cancelled: its levels are all dormant, so that no report finds one.
THEOREM SuspendedIsQuiet == Spec => PausedIsQuiet
<1>1. IInv /\ [Next]_vars => [paused /\ paused' => Resting' \subseteq Resting]_vars
  <2> SUFFICES ASSUME IInv, [Next]_vars, paused, paused' PROVE Resting' \subseteq Resting \/ UNCHANGED vars
    OBVIOUS
  <2>1. QED  BY PausedStep
<1>2. QED  BY <1>1, IInvHolds, PTL DEF Spec, PausedIsQuiet

-----------------------------------------------------------------------------
(* How much of an order is on its way.                                     *)

Magnitude(n) == IF n >= 0 THEN n ELSE -n

\* The trades of order c as amounts, and what they add up to.
Portion(q, c) == [i \in DOMAIN q |-> [qty |-> IF q[i].cid = c THEN Magnitude(q[i].qty) ELSE 0]]
Queued(q, c) == Flow(Portion(q, c))

Amounts == [qty : Nat]

LEMMA PortionTyped ==
  ASSUME NEW q \in Seq(TradeEvent), NEW c
  PROVE  Portion(q, c) \in Seq(Amounts) /\ Len(Portion(q, c)) = Len(q)
<1>1. Len(q) \in Nat /\ DOMAIN q = 1..Len(q) /\ \A i \in 1..Len(q) : q[i] \in TradeEvent
  OBVIOUS
<1>2. \A n \in Int : Magnitude(n) \in Nat
  BY DEF Magnitude
<1>3. \A i \in 1..Len(q) : [qty |-> IF q[i].cid = c THEN Magnitude(q[i].qty) ELSE 0] \in Amounts
  BY <1>1, <1>2 DEF TradeEvent, Amounts
<1>4. Portion(q, c) \in [1..Len(q) -> Amounts]
  BY <1>1, <1>3 DEF Portion
<1>5. QED  BY <1>1, <1>4

LEMMA QueuedFacts ==
  ASSUME NEW q \in Seq(TradeEvent), NEW c
  PROVE  /\ Queued(q, c) \in Nat
         /\ (\A i \in DOMAIN q : q[i].cid # c) => Queued(q, c) = 0
         /\ \A i \in DOMAIN q : q[i].cid = c => Queued(q, c) >= Magnitude(q[i].qty)
<1>1. Portion(q, c) \in Seq(Amounts) /\ DOMAIN Portion(q, c) = DOMAIN q
  BY PortionTyped DEF Portion
<1>2. \A t \in Amounts : t.qty \in Int /\ t.qty >= 0
  BY DEF Amounts
<1>3. \A i \in DOMAIN q : Portion(q, c)[i].qty = IF q[i].cid = c THEN Magnitude(q[i].qty) ELSE 0
  BY DEF Portion
<1>4. \A i \in DOMAIN q : Portion(q, c)[i] \in Amounts
  BY <1>1
<1>5. Queued(q, c) \in Int /\ Queued(q, c) >= 0
  BY <1>1, <1>2, <1>4, FlowType DEF Queued
<1>6. ASSUME \A i \in DOMAIN q : q[i].cid # c PROVE Queued(q, c) = 0
  <2>1. \A i \in DOMAIN Portion(q, c) : Portion(q, c)[i].qty <= 0
    BY <1>1, <1>3, <1>6
  <2>2. Queued(q, c) <= 0
    BY <1>1, <1>2, <2>1, FlowType DEF Queued
  <2>3. QED  BY <1>5, <2>2
<1>7. ASSUME NEW i \in DOMAIN q, q[i].cid = c PROVE Queued(q, c) >= Magnitude(q[i].qty)
  <2>1. Flow(Portion(q, c)) >= Portion(q, c)[i].qty
    BY <1>1, <1>2, FlowMember
  <2>2. QED  BY <1>3, <1>7, <2>1 DEF Queued
<1>8. QED  BY <1>5, <1>6, <1>7

LEMMA QueuedTail ==
  ASSUME NEW q \in Seq(TradeEvent), NEW c, q # <<>>
  PROVE  Queued(q, c) = (IF Head(q).cid = c THEN Magnitude(Head(q).qty) ELSE 0) + Queued(Tail(q), c)
<1> DEFINE p == Portion(q, c)
<1>1. p \in Seq(Amounts) /\ Len(p) = Len(q)
  BY PortionTyped
<1>2. \A t \in Amounts : t.qty \in Int
  BY DEF Amounts
<1>3. Len(q) \in Nat \ {0} /\ DOMAIN q = 1..Len(q)
  OBVIOUS
<1>4. /\ Tail(q) \in Seq(TradeEvent) /\ DOMAIN Tail(q) = 1..(Len(q) - 1)
      /\ \A i \in 1..(Len(q) - 1) : Tail(q)[i] = q[i + 1]
      /\ Head(q) = q[1]
  OBVIOUS
<1>5. \A i \in 1..Len(q) : p[i] = [qty |-> IF q[i].cid = c THEN Magnitude(q[i].qty) ELSE 0]
  BY <1>3 DEF Portion
<1> HIDE DEF p
<1>6. Tail(p) = Portion(Tail(q), c)
  <2>1. Tail(p) \in Seq(Amounts) /\ Len(Tail(p)) = Len(q) - 1
    BY <1>1, <1>3
  <2>2. \A i \in 1..(Len(q) - 1) : Tail(p)[i] = p[i + 1] /\ i + 1 \in 1..Len(q)
    BY <1>1, <1>3
  <2>3. Portion(Tail(q), c) \in Seq(Amounts) /\ Len(Portion(Tail(q), c)) = Len(q) - 1
    <3>1. Len(Tail(q)) = Len(q) - 1
      OBVIOUS
    <3>2. QED  BY <1>4, <3>1, PortionTyped
  <2>4. \A i \in 1..(Len(q) - 1) : Portion(Tail(q), c)[i] = Tail(p)[i]
    BY <1>4, <1>5, <2>2 DEF Portion
  <2>5. QED  BY <2>1, <2>3, <2>4, SeqEqual
<1>7. p # <<>> /\ Head(p) = p[1]
  BY <1>1, <1>3
<1>8. Flow(p) = Head(p).qty + Flow(Tail(p))
  BY <1>1, <1>2, <1>7, FlowTail
<1>9. Head(p).qty = IF Head(q).cid = c THEN Magnitude(Head(q).qty) ELSE 0
  <2>1. p[1] = [qty |-> IF q[1].cid = c THEN Magnitude(q[1].qty) ELSE 0]
    BY <1>3, <1>5
  <2>2. p[1].qty = IF q[1].cid = c THEN Magnitude(q[1].qty) ELSE 0
    BY <2>1
  <2>3. QED  BY <1>4, <1>7, <2>2
<1>10. QED  BY <1>6, <1>8, <1>9 DEF Queued, p

LEMMA QueuedAppend ==
  ASSUME NEW q \in Seq(TradeEvent), NEW c, NEW e \in TradeEvent
  PROVE  Queued(Append(q, e), c) = Queued(q, c) + (IF e.cid = c THEN Magnitude(e.qty) ELSE 0)
<1> DEFINE p == Portion(q, c)
           a == [qty |-> IF e.cid = c THEN Magnitude(e.qty) ELSE 0]
<1>1. p \in Seq(Amounts) /\ Len(p) = Len(q)
  BY PortionTyped
<1>2. \A t \in Amounts : t.qty \in Int
  BY DEF Amounts
<1>3. a \in Amounts
  BY DEF a, Amounts, TradeEvent, Magnitude
<1>4. /\ Len(q) \in Nat /\ DOMAIN q = 1..Len(q) /\ DOMAIN Append(q, e) = 1..(Len(q) + 1)
      /\ \A i \in 1..(Len(q) + 1) : Append(q, e)[i] = IF i = Len(q) + 1 THEN e ELSE q[i]
  OBVIOUS
<1>5. \A i \in 1..Len(q) : p[i] = [qty |-> IF q[i].cid = c THEN Magnitude(q[i].qty) ELSE 0]
  BY <1>4 DEF Portion
<1>6. a.qty = IF e.cid = c THEN Magnitude(e.qty) ELSE 0
  OBVIOUS
<1>7. Append(p, a) = Portion(Append(q, e), c)
  <2>1. Append(p, a) = [i \in 1..(Len(q) + 1) |-> IF i = Len(q) + 1 THEN a ELSE p[i]]
    BY <1>1, <1>4
  <2>2. \A i \in 1..(Len(q) + 1) : i = Len(q) + 1 \/ i \in 1..Len(q)
    BY <1>4
  <2> HIDE DEF p
  <2>3. QED  BY <1>4, <1>5, <2>1, <2>2 DEF Portion
<1> HIDE DEF p, a
<1>8. Flow(Append(p, a)) = Flow(p) + a.qty
  BY <1>1, <1>2, <1>3, FlowAppend
<1>9. QED  BY <1>6, <1>7, <1>8 DEF Queued, p

-----------------------------------------------------------------------------
(* No order is lost track of.                                              *)

\* Order c is on record at its level.
Owned(ls, os, c) == ls[os[c].level].state = "active" /\ ls[os[c].level].cid = c

\* What a level has counted of its order, what is on its way and what rests make up
\* the order, as long as something rests.
Whole(ls, os, q, l) ==
  LET sum == ls[l].filled + Queued(q, ls[l].cid) + os[ls[l].cid].left
  IN  sum <= Size /\ (os[ls[l].cid].left > 0 => sum = Size)

Track(ls, os, q) ==
  /\ \A l \in Levels : IF ls[l].state = "active" THEN Whole(ls, os, q, l) ELSE ls[l].filled = 0
  /\ \A c \in Cids : os[c].left > 0 \/ (\E i \in DOMAIN q : q[i].cid = c) => Owned(ls, os, c)

TrackInv == OnTrack => Track(levels, orders, trades)

\* The trades of an order add up to nothing only if there are none.
LEMMA QueuedSome ==
  ASSUME NEW q \in Seq(TradeEvent), NEW os,
         \A i \in DOMAIN q : q[i].qty * os[q[i].cid].side > 0 /\ os[q[i].cid].side \in {Buy, Sell, 0},
         NEW i \in DOMAIN q
  PROVE  Queued(q, q[i].cid) > 0
<1>1. q[i] \in TradeEvent
  OBVIOUS
<1>2. q[i].qty \in Int
  BY <1>1 DEF TradeEvent
<1>3. q[i].qty # 0
  <2>1. 0 * Buy = 0 /\ 0 * Sell = 0 /\ 0 * 0 = 0
    BY DEF Buy, Sell
  <2>2. QED  BY <2>1
<1>4. Magnitude(q[i].qty) > 0 /\ Magnitude(q[i].qty) \in Int
  BY <1>2, <1>3 DEF Magnitude
<1>5. Queued(q, q[i].cid) \in Nat /\ Queued(q, q[i].cid) >= Magnitude(q[i].qty)
  BY QueuedFacts
<1>6. QED  BY <1>4, <1>5

\* A batch of which the actor is told the truth.
LEMMA PlaceTracked ==
  ASSUME IInv, NEW ls, LevelsTyped(ls, issued), Fewer(ls), NEW chosen, NEW told,
         Placement(ls, chosen, told, told), NEW q \in Seq(TradeEvent),
         \A i \in DOMAIN q : orders[q[i].cid].side # 0, Track(ls, orders, q)
  PROVE  Track(levels', orders', q)
<1>0. ActorTyped /\ VenueTyped /\ issued \in Nat /\ RecordInv /\ HeldBy(levels, orders)
  BY TypeSplit, GridAssumption DEF IInv, ActorTyped
<1>1. /\ chosen \subseteq Levels /\ told \subseteq chosen /\ issued' \in Nat
      /\ \A l \in chosen : /\ ls[l].state = "pending" /\ CidOf(chosen, l) \in Cids
                           /\ CidOf(chosen, l) \in (issued + 1)..issued'
      /\ \A l \in told : orders'[CidOf(chosen, l)] = [level |-> l, side |-> ls[l].side, left |-> Size]
      /\ \A c \in Cids : (\A l \in told : c # CidOf(chosen, l)) => orders'[c] = orders[c]
      /\ levels' = [l \in Levels |-> IF l \in told
                                     THEN [ls[l] EXCEPT !.state = "active", !.cid = CidOf(chosen, l)]
                                     ELSE ls[l]]
  BY DEF Placement
<1>10. \A l \in chosen : CidOf(chosen, l) \in Int /\ CidOf(chosen, l) > issued
  <2>1. \A l \in chosen : CidOf(chosen, l) \in (issued + 1)..issued'
    BY <1>1
  <2>2. issued \in Nat /\ issued' \in Nat
    BY <1>0, <1>1
  <2>3. \A i, j \in Nat : \A k \in (i + 1)..j : k \in Int /\ k > i
    OBVIOUS
  <2>4. QED  BY <2>1, <2>2, <2>3
<1>11. ASSUME NEW l \in told
       PROVE  /\ CidOf(chosen, l) \in Cids /\ l \in chosen
              /\ orders'[CidOf(chosen, l)].level = l /\ orders'[CidOf(chosen, l)].left = Size
  <2>1. l \in chosen /\ CidOf(chosen, l) \in Cids
    BY <1>1
  <2>2. orders'[CidOf(chosen, l)] = [level |-> l, side |-> ls[l].side, left |-> Size]
    BY <1>1
  <2>3. QED  BY <2>1, <2>2
<1>2. ASSUME NEW c \in Cids, orders[c].side # 0
      PROVE  orders'[c] = orders[c] /\ \A l \in chosen : c # CidOf(chosen, l)
  <2>1. c \in Int /\ ~(c > issued)
    BY <1>0, <1>2 DEF RecordInv, Cids
  <2>2. \A l \in chosen : c # CidOf(chosen, l)
    BY <1>0, <1>10, <2>1
  <2>3. QED  BY <1>1, <2>2
<1>3. ASSUME NEW l \in told
      PROVE  /\ levels'[l].state = "active" /\ levels'[l].cid = CidOf(chosen, l)
             /\ levels'[l].filled = 0 /\ l \in Levels
  <2>1. l \in Levels /\ ls[l] \in LevelRecord(issued) /\ ls[l].state = "pending"
    BY <1>1 DEF LevelsTyped
  <2>2. levels'[l] = [ls[l] EXCEPT !.state = "active", !.cid = CidOf(chosen, l)]
    BY <1>1, <2>1
  <2>3. ls[l].filled = 0
    BY <2>1 DEF Track
  <2>4. QED  BY <2>1, <2>2, <2>3 DEF LevelRecord
<1>4. \A l \in Levels : l \notin told => levels'[l] = ls[l]
  BY <1>1
<1>5. \A i \in DOMAIN q : q[i].cid \in Cids
  <2>1. \A i \in DOMAIN q : q[i] \in TradeEvent
    OBVIOUS
  <2>2. QED  BY <2>1 DEF TradeEvent
<1>6. ASSUME NEW l \in Levels
      PROVE  IF levels'[l].state = "active" THEN Whole(levels', orders', q, l) ELSE levels'[l].filled = 0
  <2>1. CASE l \in told
    <3>1. orders'[levels'[l].cid].left = Size
      BY <1>3, <1>11, <2>1
    <3>2. \A i \in DOMAIN q : q[i].cid # levels'[l].cid
      BY <1>2, <1>3, <1>5, <1>11, <2>1
    <3>3. Queued(q, levels'[l].cid) = 0
      BY <3>2, QueuedFacts
    <3>4. QED  BY <1>3, <2>1, <3>1, <3>3, GridAssumption DEF Whole
  <2>2. CASE l \notin told /\ ls[l].state = "active"
    <3>1. levels'[l] = ls[l] /\ Whole(ls, orders, q, l)
      BY <1>4, <2>2 DEF Track
    <3>2. levels[l].state = "active" /\ ls[l].cid = levels[l].cid
      BY <2>2 DEF Fewer
    <3>3. levels[l].cid \in Cids /\ levels[l].side # 0
      BY <1>0, <3>2, GridAssumption DEF ActorTyped, LevelsTyped, LevelRecord, Cids
    <3>4. orders'[ls[l].cid] = orders[ls[l].cid]
      BY <1>0, <1>2, <3>2, <3>3 DEF HeldBy
    <3>5. QED  BY <2>2, <3>1, <3>4 DEF Whole
  <2>3. CASE l \notin told /\ ls[l].state # "active"
    BY <1>4, <2>3 DEF Track
  <2>4. QED  BY <2>1, <2>2, <2>3
<1>7. ASSUME NEW c \in Cids, orders'[c].left > 0 \/ \E i \in DOMAIN q : q[i].cid = c
      PROVE  Owned(levels', orders', c)
  <2>1. CASE \E l \in told : c = CidOf(chosen, l)
    <3>1. PICK l \in told : c = CidOf(chosen, l)
      BY <2>1
    <3>2. orders'[c].level = l
      BY <1>11, <3>1
    <3>3. QED  BY <1>3, <3>1, <3>2 DEF Owned
  <2>2. CASE \A l \in told : c # CidOf(chosen, l)
    <3>1. orders'[c] = orders[c]
      BY <1>1, <2>2
    <3>2. Owned(ls, orders, c)
      BY <1>7, <3>1 DEF Track
    <3>3. orders[c].side # 0
      <4>1. CASE orders[c].left > 0
        BY <1>0, <4>1 DEF RecordInv
      <4>2. CASE \E i \in DOMAIN q : q[i].cid = c
        BY <4>2
      <4>3. QED  BY <1>7, <3>1, <4>1, <4>2
    <3>4. orders[c].level \in Levels
      BY <1>0, <3>3 DEF RecordInv
    <3>5. orders[c].level \notin told
      BY <1>1, <3>2 DEF Owned
    <3>6. QED  BY <1>4, <3>1, <3>2, <3>4, <3>5 DEF Owned
  <2>3. QED  BY <2>1, <2>2
<1>8. QED  BY <1>6, <1>7 DEF Track

\* A trade that its level counts.
LEMMA TradeTracked ==
  ASSUME IInv, Track(levels, orders, trades), trades # <<>>, NEW l \in Holders(Head(trades).cid)
  PROVE  Track(RecordFill(l, Head(trades).qty * levels[l].side), orders, Tail(trades))
<1> DEFINE c == Head(trades).cid
           qty == Head(trades).qty * levels[l].side
           rest == Tail(trades)
           ls == RecordFill(l, qty)
           filled == levels[l].filled + qty
<1>0. /\ ActorTyped /\ VenueTyped /\ issued \in Nat /\ TypeOK /\ RecordInv /\ HeldBy(levels, orders)
  BY TypeSplit, GridAssumption DEF IInv, ActorTyped
<1>1. /\ l \in Levels /\ levels[l].state = "active" /\ levels[l].cid = c
      /\ levels[l].side \in {Buy, Sell} /\ qty \in Nat /\ qty > 0
  BY <1>0, HeldTrade
<1>2. /\ trades \in Seq(TradeEvent) /\ rest \in Seq(TradeEvent) /\ Head(trades).qty \in Int
      /\ \A i \in DOMAIN rest : i + 1 \in DOMAIN trades /\ rest[i] = trades[i + 1]
      /\ \A i \in DOMAIN rest : rest[i].qty * orders[rest[i].cid].side > 0
      /\ \A i \in DOMAIN rest : rest[i].cid \in Cids
  <2>1. trades \in Seq(TradeEvent)
    BY <1>0 DEF VenueTyped
  <2>2. /\ rest \in Seq(TradeEvent) /\ Head(trades) \in TradeEvent
        /\ \A i \in DOMAIN rest : rest[i].qty * orders[rest[i].cid].side > 0
    BY <1>0, TailTrades
  <2>3. \A i \in DOMAIN rest : i + 1 \in DOMAIN trades /\ rest[i] = trades[i + 1]
    BY <2>1
  <2>4. \A i \in DOMAIN rest : rest[i] \in TradeEvent
    BY <2>2
  <2>5. QED  BY <2>1, <2>2, <2>3, <2>4 DEF TradeEvent
<1>3. qty = Magnitude(Head(trades).qty)
  <2>1. \A q \in Int : /\ q * 1 > 0 => q * 1 = Magnitude(q)
                       /\ q * (-1) > 0 => q * (-1) = Magnitude(q)
    BY DEF Magnitude
  <2>2. QED  BY <1>1, <1>2, <2>1 DEF Buy, Sell
<1>4. /\ Queued(trades, c) = qty + Queued(rest, c)
      /\ \A d \in Cids \ {c} : Queued(trades, d) = Queued(rest, d)
  <2>1. Queued(trades, c) = qty + Queued(rest, c)
    BY <1>2, <1>3, QueuedTail
  <2>2. ASSUME NEW d \in Cids \ {c} PROVE Queued(trades, d) = Queued(rest, d)
    <3>1. Queued(trades, d) = 0 + Queued(rest, d)
      BY <1>2, QueuedTail
    <3>2. Queued(rest, d) \in Nat
      BY <1>2, QueuedFacts
    <3> HIDE DEF rest
    <3>3. QED  BY <3>1, <3>2
  <2>3. QED  BY <2>1, <2>2
<1>5. c \in Cids /\ orders[c].level = l /\ orders[c] \in OrderRecord /\ levels[l] \in LevelRecord(issued)
  <2>1. c \in Cids
    BY <1>0, <1>1, GridAssumption DEF ActorTyped, LevelsTyped, LevelRecord, Cids
  <2>2. QED  BY <1>0, <1>1, <2>1 DEF HeldBy, VenueTyped, ActorTyped, LevelsTyped
<1>6. /\ Queued(rest, c) \in Nat /\ orders[c].left \in Nat /\ filled \in Nat /\ levels[l].filled \in Nat
      /\ filled + Queued(rest, c) + orders[c].left <= Size
      /\ orders[c].left > 0 => filled + Queued(rest, c) + orders[c].left = Size
  <2>1. Queued(rest, c) \in Nat
    BY <1>2, QueuedFacts
  <2>2. orders[c].left \in Nat /\ levels[l].filled \in Nat
    BY <1>5, GridAssumption DEF OrderRecord, LevelRecord
  <2>3. Whole(levels, orders, trades, l)
    BY <1>1 DEF Track
  <2>4. QED  BY <1>1, <1>4, <2>1, <2>2, <2>3, GridAssumption, SMTT(30) DEF Whole
\* The other levels hold other orders.
<1>7. ASSUME NEW k \in Levels, k # l, levels[k].state = "active"
      PROVE  Whole(levels, orders, rest, k) /\ levels[k].cid # c
  <2>1. levels[k].cid \in Cids /\ levels[k].cid # c
    BY <1>0, <1>5, <1>7, GridAssumption DEF HeldBy, ActorTyped, LevelsTyped, LevelRecord, Cids
  <2>2. Whole(levels, orders, trades, k)
    BY <1>7 DEF Track
  <2>3. QED  BY <1>4, <2>1, <2>2 DEF Whole
<1>8. ASSUME NEW d \in Cids, orders[d].left > 0 \/ \E i \in DOMAIN rest : rest[i].cid = d
      PROVE  Owned(levels, orders, d) /\ orders[d].level \in Levels /\ (d # c => orders[d].level # l)
  <2>1. orders[d].left > 0 \/ \E i \in DOMAIN trades : trades[i].cid = d
    BY <1>2, <1>8
  <2>2. Owned(levels, orders, d)
    BY <2>1 DEF Track
  <2>3. orders[d].side # 0
    <3>1. CASE orders[d].left > 0
      BY <1>0, <3>1 DEF RecordInv
    <3>2. ASSUME NEW i \in DOMAIN rest, rest[i].cid = d PROVE orders[d].side # 0
      <4>1. rest[i].qty * orders[d].side > 0 /\ rest[i] \in TradeEvent
        BY <1>2, <3>2
      <4>2. \A q \in Int : ~(q * 0 > 0)
        OBVIOUS
      <4>3. QED  BY <4>1, <4>2 DEF TradeEvent
    <3>3. QED  BY <1>8, <3>1, <3>2
  <2>4. QED  BY <1>0, <1>1, <2>2, <2>3 DEF RecordInv, Owned
<1> HIDE DEF qty, rest, c
<1>9. CASE ~Complete(filled)
  <2>1. ls = [levels EXCEPT ![l].filled = filled]
    BY <1>9 DEF RecordFill
  <2>2. /\ \A k \in Levels \ {l} : ls[k] = levels[k]
        /\ ls[l].state = "active" /\ ls[l].cid = c /\ ls[l].filled = filled
    BY <1>0, <1>1, <1>5, <2>1 DEF ActorTyped, LevelsTyped, LevelRecord
  <2> HIDE DEF ls, filled
  <2>3. ASSUME NEW k \in Levels
        PROVE  IF ls[k].state = "active" THEN Whole(ls, orders, rest, k) ELSE ls[k].filled = 0
    <3>1. CASE k = l
      BY <1>6, <2>2, <3>1 DEF Whole
    <3>2. CASE k # l
      BY <1>7, <2>2, <3>2 DEF Track, Whole
    <3>3. QED  BY <3>1, <3>2
  <2>4. ASSUME NEW d \in Cids, orders[d].left > 0 \/ \E i \in DOMAIN rest : rest[i].cid = d
        PROVE  Owned(ls, orders, d)
    BY <1>1, <1>5, <1>8, <2>2, <2>4 DEF Owned
  <2>5. QED  BY <2>3, <2>4 DEF Track, ls, qty, rest
<1>10. CASE Complete(filled)
  <2> DEFINE target == l + levels[l].side
             one == [levels EXCEPT ![l] = Dormant]
  <2>1. Queued(rest, c) = 0 /\ orders[c].left = 0
    <3>1. filled >= Size
      BY <1>10 DEF Complete
    <3> HIDE DEF filled
    <3>2. QED  BY <1>6, <3>1, GridAssumption, SMTT(30)
  <2>2. ls = IF Rearmable(one, target) THEN [one EXCEPT ![target] = Pending(-levels[l].side)] ELSE one
    BY <1>10 DEF RecordFill, RearmAdjacent
  <2>3. /\ \A k \in Levels \ {l} : one[k] = levels[k]
        /\ one[l].state = "dormant" /\ one[l].filled = 0 /\ one = [k \in Levels |-> one[k]]
    BY <1>0, <1>1 DEF ActorTyped, LevelsTyped, Dormant
  <2>4. -levels[l].side \in {Buy, Sell}
    BY <1>1, SignNeg
  <2>5. Pending(-levels[l].side).state = "pending" /\ Pending(-levels[l].side).filled = 0
    BY <1>0, <2>4, LevelsMade
  <2> HIDE DEF one, target
  <2>6. \A k \in Levels : \/ ls[k] = one[k]
                          \/ one[k].state = "dormant" /\ ls[k].state = "pending" /\ ls[k].filled = 0
    BY <2>2, <2>3, <2>5 DEF Rearmable
  <2> HIDE DEF ls, filled
  <2>7. ASSUME NEW k \in Levels
        PROVE  IF ls[k].state = "active" THEN Whole(ls, orders, rest, k) ELSE ls[k].filled = 0
    <3>1. CASE k = l
      BY <2>3, <2>6, <3>1
    <3>2. CASE k # l
      BY <1>7, <2>3, <2>6, <3>2 DEF Track, Whole
    <3>3. QED  BY <3>1, <3>2
  <2>8. ASSUME NEW d \in Cids, orders[d].left > 0 \/ \E i \in DOMAIN rest : rest[i].cid = d
        PROVE  Owned(ls, orders, d)
    <3>1. d # c
      <4>1. ASSUME NEW i \in DOMAIN rest PROVE rest[i].cid # c
        <5>1. \A j \in DOMAIN rest : orders[rest[j].cid].side \in {Buy, Sell, 0}
          BY <1>0, <1>2 DEF VenueTyped, OrderRecord
        <5>2. Queued(rest, rest[i].cid) > 0
          BY <1>2, <5>1, QueuedSome
        <5>3. QED  BY <2>1, <5>2
      <4>2. QED  BY <2>1, <2>8, <4>1
    <3>2. Owned(levels, orders, d) /\ orders[d].level \in Levels /\ orders[d].level # l
      BY <1>8, <2>8, <3>1
    <3>3. QED  BY <2>3, <2>6, <3>2 DEF Owned
  <2>9. QED  BY <2>7, <2>8 DEF Track, ls, qty, rest
<1>11. QED  BY <1>9, <1>10

LEMMA AtLevel ==
  ASSUME IInv, NEW c \in Cids, orders[c].left > 0 \/ \E i \in DOMAIN trades : trades[i].cid = c
  PROVE  orders[c].side # 0 /\ orders[c].level \in Levels
<1>0. RecordInv /\ trades \in Seq(TradeEvent)
  BY TypeSplit DEF IInv, VenueTyped
<1>1. CASE orders[c].left > 0
  BY <1>0, <1>1 DEF RecordInv
<1>2. ASSUME NEW i \in DOMAIN trades, trades[i].cid = c PROVE orders[c].side # 0
  <2>1. trades[i].qty * orders[c].side > 0 /\ trades[i] \in TradeEvent
    BY <1>0, <1>2 DEF RecordInv
  <2>2. \A q \in Int : ~(q * 0 > 0)
    OBVIOUS
  <2>3. QED  BY <2>1, <2>2 DEF TradeEvent
<1>3. QED  BY <1>0, <1>1, <1>2 DEF RecordInv

\* Levels are taken off orders that are gone and settled, and dormant ones armed.
LEMMA RequeueTracked ==
  ASSUME IInv, Track(levels, orders, trades), NEW ls, LevelsTyped(ls, issued),
         \A l \in Levels : \/ ls[l] = levels[l]
                           \/ levels[l].state = "dormant" /\ ls[l].state = "pending" /\ ls[l].filled = 0,
         NEW S \in SUBSET Levels,
         \A l \in S : /\ levels[l].state = "active" /\ orders[levels[l].cid].left = 0
                      /\ levels[l].filled = 0 /\ ~Unsettled(levels[l].cid),
         NEW r, r = [l \in Levels |-> IF l \in S THEN Requeue(ls[l]) ELSE ls[l]]
  PROVE  Track(r, orders, trades)
<1>0. issued \in Nat
  BY TypeSplit, GridAssumption DEF IInv, ActorTyped
<1>1. ASSUME NEW l \in S PROVE ls[l] = levels[l] /\ r[l].state = "pending" /\ r[l].filled = 0
  <2>1. ls[l] = levels[l] /\ ls[l] \in LevelRecord(issued) /\ ls[l].state = "active"
    BY DEF LevelsTyped
  <2>2. Requeue(ls[l]).state = "pending" /\ Requeue(ls[l]).filled = 0
    BY <1>0, <2>1, LevelsMade
  <2>3. QED  BY <2>1, <2>2
<1>2. \A l \in Levels \ S : r[l] = ls[l]
  OBVIOUS
<1>3. ASSUME NEW l \in Levels
      PROVE  IF r[l].state = "active" THEN Whole(r, orders, trades, l) ELSE r[l].filled = 0
  <2>1. CASE l \in S
    BY <1>1, <2>1
  <2>2. CASE l \notin S /\ ls[l] = levels[l]
    <3>1. r[l] = levels[l]
      BY <1>2, <2>2
    <3>2. IF levels[l].state = "active" THEN Whole(levels, orders, trades, l) ELSE levels[l].filled = 0
      BY DEF Track
    <3>3. QED  BY <3>1, <3>2 DEF Whole
  <2>3. CASE l \notin S /\ ls[l].state = "pending" /\ ls[l].filled = 0
    BY <1>2, <2>3
  <2>4. QED  BY <2>1, <2>2, <2>3
<1>4. ASSUME NEW c \in Cids, orders[c].left > 0 \/ \E i \in DOMAIN trades : trades[i].cid = c
      PROVE  Owned(r, orders, c)
  <2>1. orders[c].level \in Levels /\ Owned(levels, orders, c)
    BY <1>4, AtLevel DEF Track
  <2>2. orders[c].level \notin S
    BY <1>4, <2>1 DEF Owned, Unsettled
  <2>3. QED  BY <1>2, <2>1, <2>2 DEF Owned
<1>5. QED  BY <1>3, <1>4 DEF Track

\* Whatever is placed, if the actor is told the truth.
LEMMA BatchTracked ==
  ASSUME IInv, NEW ls, LevelsTyped(ls, issued), Fewer(ls), NEW n,
         PlacePending(ls, n) \/ NothingPlaced(ls), lost' = 0, NEW q \in Seq(TradeEvent),
         \A i \in DOMAIN q : orders[q[i].cid].side # 0, Track(ls, orders, q)
  PROVE  Track(levels', orders', q)
<1>0. issued \in Nat /\ lost \in Nat
  BY TypeSplit, GridAssumption DEF IInv, ActorTyped
<1>1. CASE PlacePending(ls, n)
  <2>1. PICK m \in 0..NumLevels, told, taken \in SUBSET Levels :
          Placement(ls, Chosen(ls, n, m), told, taken)
    BY <1>0, <1>1, PlaceEffect
  <2>2. taken = told
    <3>1. IF taken = told THEN lost' = lost ELSE lost < MaxLost /\ lost' = lost + 1
      BY <2>1 DEF Placement
    <3>2. QED  BY <1>0, <3>1
  <2>3. QED  BY <2>1, <2>2, PlaceTracked
<1>2. CASE NothingPlaced(ls)
  BY <1>2 DEF NothingPlaced
<1>3. QED  BY <1>1, <1>2

\* The handlers.
LEMMA ActorTracked ==
  ASSUME IInv, TrackInv, OnTrack',
         Start \/ HandleTrade \/ (\E c \in Cids : HandleCancelled(c)) \/ Tick
  PROVE  Track(levels', orders', trades')
<1>0. /\ ActorTyped /\ VenueTyped /\ FlagsTyped /\ issued \in Nat /\ lost \in Nat /\ TypeOK
      /\ RecordInv /\ HeldBy(levels, orders) /\ NewInv
  BY TypeSplit, GridAssumption DEF IInv, ActorTyped
<1>1. phase' = "running" /\ ~disconnected' /\ ~raced' /\ lost' = 0
  BY DEF OnTrack
<1>2. \A i \in DOMAIN trades : trades[i].cid \in Cids /\ orders[trades[i].cid].side # 0
  <2>1. ASSUME NEW i \in DOMAIN trades PROVE trades[i].cid \in Cids
    <3>1. trades[i] \in TradeEvent
      BY <1>0 DEF VenueTyped
    <3>2. QED  BY <3>1 DEF TradeEvent
  <2>2. QED  BY <2>1, AtLevel
<1>3. LevelsTyped(levels, issued) /\ Fewer(levels) /\ trades \in Seq(TradeEvent)
  BY <1>0 DEF ActorTyped, Fewer, VenueTyped
<1>5. ASSUME NEW ls, NEW n, PlacePending(ls, n) \/ NothingPlaced(ls)
      PROVE  lost' = lost \/ lost' = lost + 1
  <2>1. CASE PlacePending(ls, n)
    <3>1. PICK m \in 0..NumLevels, told, taken \in SUBSET Levels :
            Placement(ls, Chosen(ls, n, m), told, taken)
      BY <1>0, <2>1, PlaceEffect
    <3>2. QED  BY <3>1 DEF Placement
  <2>2. CASE NothingPlaced(ls)
    BY <2>2 DEF NothingPlaced
  <2>3. QED  BY <1>5, <2>1, <2>2
<1>6. CASE Start
  <2>1. /\ phase = "new" /\ PlacePending(ComputeLevels, position) /\ trades' = trades
    BY <1>6 DEF Start
  <2>2. trades = <<>> /\ orders = [c \in Cids |-> NoOrder]
    BY <1>0, <2>1 DEF NewInv
  <2>3. LevelsTyped(ComputeLevels, issued) /\ Fewer(ComputeLevels)
        /\ \A l \in Levels : ComputeLevels[l].filled = 0 /\ ComputeLevels[l].state # "active"
    BY <1>0, SetUp, LevelsMade DEF ComputeLevels
  <2>4. Track(ComputeLevels, orders, trades)
    BY <2>2, <2>3 DEF Track, NoOrder
  <2>5. QED  BY <1>1, <1>2, <1>3, <2>1, <2>3, <2>4, BatchTracked
<1>7. CASE HandleTrade
  <2>1. /\ trades # <<>> /\ trades' = Tail(trades)
        /\ UNCHANGED <<phase, disconnected, raced>>
        /\ \/ NothingPlaced(levels) /\ Holders(Head(trades).cid) = {}
           \/ \E l \in Holders(Head(trades).cid) :
                PlacePending(RecordFill(l, Head(trades).qty * levels[l].side), net')
    BY <1>7 DEF HandleTrade, Counted, flags
  <2>2. Track(levels, orders, trades)
    <3>1. lost = 0
      BY <1>0, <1>1, <1>5, <2>1
    <3>2. QED  BY <1>1, <2>1, <3>1 DEF TrackInv, OnTrack
  <2>3. Holders(Head(trades).cid) # {}
    <3>1. 1 \in DOMAIN trades /\ Head(trades) = trades[1]
      BY <1>3, <2>1
    <3>2. Owned(levels, orders, Head(trades).cid) /\ orders[Head(trades).cid].level \in Levels
      BY <1>2, <2>2, <3>1, AtLevel DEF Track
    <3>3. QED  BY <3>2 DEF Owned, Holders
  <2>4. PICK l \in Holders(Head(trades).cid) :
          PlacePending(RecordFill(l, Head(trades).qty * levels[l].side), net')
    BY <2>1, <2>3
  <2> DEFINE qty == Head(trades).qty * levels[l].side
  <2>5. LevelsTyped(RecordFill(l, qty), issued) /\ Fewer(RecordFill(l, qty))
    <3>1. l \in Levels /\ levels[l].state = "active" /\ qty \in Nat /\ qty > 0
      BY <1>0, <2>1, HeldTrade
    <3> HIDE DEF qty
    <3>2. QED  BY <1>0, <1>3, <3>1, RecordFillTyped
  <2>6. Track(RecordFill(l, qty), orders, trades')
    BY <2>1, <2>2, TradeTracked
  <2>7. trades' \in Seq(TradeEvent) /\ \A i \in DOMAIN trades' : orders[trades'[i].cid].side # 0
    <3>1. /\ trades' \in Seq(TradeEvent)
          /\ \A i \in DOMAIN trades' : i + 1 \in DOMAIN trades /\ trades'[i] = trades[i + 1]
      BY <1>3, <2>1
    <3>2. QED  BY <1>2, <3>1
  <2> HIDE DEF qty
  <2>8. PlacePending(RecordFill(l, qty), net')
    BY <2>4 DEF qty
  <2>9. QED  BY <1>1, <2>5, <2>6, <2>7, <2>8, BatchTracked
<1>8. ASSUME NEW c \in Cids, HandleCancelled(c) PROVE Track(levels', orders', trades')
  <2>1. /\ c \in cancels /\ UNCHANGED <<phase, disconnected, lost, orders, trades>>
        /\ levels' = [l \in Levels |-> IF l \in Holders(c) THEN Requeue(levels[l]) ELSE levels[l]]
        /\ raced' = (raced \/ \E l \in Holders(c) : TooEarly(l))
    BY <1>8 DEF HandleCancelled, flags
  <2>2. ~raced /\ \A l \in Holders(c) : ~TooEarly(l)
    BY <1>0, <1>1, <2>1, Zenon
  <2>3. Track(levels, orders, trades)
    BY <1>1, <2>1, <2>2 DEF TrackInv, OnTrack
  <2>4. orders[c].left = 0
    BY <1>0, <2>1 DEF RecordInv
  <2>5. /\ Holders(c) \in SUBSET Levels
        /\ \A l \in Holders(c) : /\ levels[l].state = "active" /\ orders[levels[l].cid].left = 0
                                 /\ levels[l].filled = 0 /\ ~Unsettled(levels[l].cid)
    BY <2>2, <2>4 DEF Holders, TooEarly
  <2>6. Track(levels', orders, trades)
    BY <1>3, <2>1, <2>3, <2>5, RequeueTracked
  <2>7. QED  BY <2>1, <2>6
<1>9. CASE Tick
  <2>0. UNCHANGED <<phase, disconnected, trades>>
    BY <1>9 DEF Tick, TickBegins, flags
  <2>1. CASE TickSuspends
    <3>1. levels' = Suspend(levels) /\ raced' = (raced \/ trades # <<>> \/ orders' # AllCancelled)
      BY <2>1 DEF TickSuspends
    <3>2. trades = <<>> /\ orders' = AllCancelled
      BY <1>1, <3>1, Zenon
    <3>3. \A c \in Cids : orders'[c].left = 0
      BY <1>0, <3>2 DEF AllCancelled, VenueTyped, OrderRecord
    <3>4. \A l \in Levels : levels'[l].state = "dormant" /\ levels'[l].filled = 0
      BY <3>1 DEF Suspend, Dormant
    <3>5. \A i \in DOMAIN trades' : FALSE
      BY <2>0, <3>2
    <3>6. QED  BY <3>3, <3>4, <3>5 DEF Track
  <2>2. CASE TickPaused
    <3>1. UNCHANGED <<levels, orders, lost, raced>>
      BY <2>2 DEF TickPaused
    <3>2. QED  BY <1>1, <2>0, <3>1 DEF TrackInv, OnTrack
  <2>3. /\ LevelsTyped(Unpaused, issued) /\ Fewer(Unpaused)
        /\ \A l \in Levels : \/ Unpaused[l] = levels[l]
                             \/ levels[l].state = "dormant" /\ Unpaused[l].state = "pending"
                                /\ Unpaused[l].filled = 0
    BY <1>0, <1>3, UnpausedTyped
  <2>4. CASE TickPlaces
    <3>1. /\ raced' = (raced \/ \E l \in Missing : TooEarly(l))
          /\ PlacePending(Reconciled(Unpaused), net)
      BY <2>4 DEF TickPlaces
    <3>2. ~raced /\ \A l \in Missing : ~TooEarly(l)
      BY <1>1, <3>1, Zenon
    <3>3. Track(levels, orders, trades)
      <4>1. lost = 0
        BY <1>0, <1>1, <1>5, <3>1
      <4>2. QED  BY <1>1, <2>0, <3>2, <4>1 DEF TrackInv, OnTrack
    <3>4. /\ Missing \in SUBSET Levels
          /\ \A l \in Missing : /\ levels[l].state = "active" /\ orders[levels[l].cid].left = 0
                                /\ levels[l].filled = 0 /\ ~Unsettled(levels[l].cid)
      <4>1. ASSUME NEW l \in Levels, levels[l].state = "active", ~Live(levels[l].cid)
            PROVE  orders[levels[l].cid].left = 0
        <5>1. levels[l].cid \in Cids
          BY <1>0, <1>3, <4>1, GridAssumption DEF ActorTyped, LevelsTyped, LevelRecord, Cids
        <5>2. orders[levels[l].cid] \in OrderRecord
          BY <1>0, <5>1 DEF VenueTyped
        <5>3. orders[levels[l].cid].left \in Nat
          BY <5>2, GridAssumption DEF OrderRecord
        <5>4. QED  BY <4>1, <5>1, <5>3 DEF Live, Resting
      <4>2. QED  BY <3>2, <4>1 DEF Missing, TooEarly
    <3>5. Track(Reconciled(Unpaused), orders, trades)
      BY <2>3, <3>3, <3>4, RequeueTracked DEF Reconciled
    <3>6. LevelsTyped(Reconciled(Unpaused), issued) /\ Fewer(Reconciled(Unpaused))
      BY <1>0, <1>3, ReconciledTyped
    <3>7. Track(levels', orders', trades)
      BY <1>1, <1>2, <1>3, <3>1, <3>5, <3>6, BatchTracked
    <3>8. QED  BY <2>0, <3>7
  <2>5. CASE TickFails
    <3>1. NothingPlaced(Unpaused) /\ raced' = raced
      BY <2>5 DEF TickFails
    <3>2. Track(levels, orders, trades)
      BY <1>1, <2>0, <3>1 DEF TrackInv, OnTrack, NothingPlaced
    <3>3. Track(Unpaused, orders, trades)
      <4>1. Unpaused = [l \in Levels |-> IF l \in {} THEN Requeue(Unpaused[l]) ELSE Unpaused[l]]
        BY <2>3 DEF LevelsTyped
      <4>2. \A l \in {} : /\ levels[l].state = "active" /\ orders[levels[l].cid].left = 0
                          /\ levels[l].filled = 0 /\ ~Unsettled(levels[l].cid)
        OBVIOUS
      <4>3. {} \in SUBSET Levels
        OBVIOUS
      <4>4. \A l \in Levels : \/ Unpaused[l] = levels[l]
                              \/ levels[l].state = "dormant" /\ Unpaused[l].state = "pending"
                                 /\ Unpaused[l].filled = 0
        BY <2>3
      <4>5. LevelsTyped(Unpaused, issued)
        BY <2>3
      <4>6. QED  BY <3>2, <4>1, <4>2, <4>3, <4>4, <4>5, RequeueTracked
    <3>4. QED  BY <2>0, <3>1, <3>3 DEF NothingPlaced
  <2>6. QED  BY <1>9, <2>1, <2>2, <2>4, <2>5 DEF Tick
<1>10. QED  BY <1>6, <1>7, <1>8, <1>9

\* A piece of an order fills.
LEMMA FillTracked ==
  ASSUME IInv, Track(levels, orders, trades), NEW c \in Cids, Fill(c), ~disconnected
  PROVE  Track(levels', orders', trades')
<1>0. /\ issued \in Nat /\ TypeOK /\ RecordInv /\ LevelsTyped(levels, issued)
      /\ trades \in Seq(TradeEvent) /\ orders \in [Cids -> OrderRecord]
  BY TypeSplit, GridAssumption DEF IInv, ActorTyped, VenueTyped
<1>1. PICK qty \in 1..orders[c].left :
        /\ orders' = [orders EXCEPT ![c].left = @ - qty]
        /\ trades' = IF disconnected THEN trades
                     ELSE Append(trades, [cid |-> c, qty |-> orders[c].side * qty])
  BY DEF Fill
<1> DEFINE e == [cid |-> c, qty |-> orders[c].side * qty]
<1>2. levels' = levels /\ trades' = Append(trades, e)
  BY <1>1 DEF Fill, gridVars
<1>3. /\ orders[c] \in OrderRecord /\ orders[c].side \in {Buy, Sell} /\ qty \in Nat \ {0}
      /\ orders[c].side * qty \in Int
  BY <1>0, <1>1, FillTrades
<1>4. e \in TradeEvent /\ e.cid = c /\ Magnitude(e.qty) = qty
  <2>1. \A q \in Nat \ {0} : 1 * q = q /\ (-1) * q = -q /\ Magnitude(q) = q /\ Magnitude(-q) = q
    BY DEF Magnitude
  <2>2. orders[c].side = 1 \/ orders[c].side = -1
    BY <1>3 DEF Buy, Sell
  <2>3. Magnitude(orders[c].side * qty) = qty
    BY <1>3, <2>1, <2>2
  <2>4. QED  BY <1>3, <2>3 DEF TradeEvent
<1> HIDE DEF e
<1>5. /\ orders[c].left \in Nat /\ orders[c].left >= qty
      /\ orders'[c].left = orders[c].left - qty /\ orders'[c].level = orders[c].level
      /\ \A d \in Cids \ {c} : orders'[d] = orders[d]
  BY <1>0, <1>1, <1>3, GridAssumption DEF OrderRecord
<1>6. \A d \in Cids : /\ Queued(trades', d) = Queued(trades, d) + (IF d = c THEN qty ELSE 0)
                      /\ Queued(trades, d) \in Nat
  BY <1>0, <1>2, <1>4, QueuedAppend, QueuedFacts
<1>7. \A i \in DOMAIN trades' : trades'[i].cid = c \/ (i \in DOMAIN trades /\ trades'[i] = trades[i])
  BY <1>0, <1>2, <1>4
<1>8. ASSUME NEW l \in Levels
      PROVE  IF levels[l].state = "active" THEN Whole(levels, orders', trades', l)
             ELSE levels[l].filled = 0
  <2>1. CASE levels[l].state = "active"
    <3>1. Whole(levels, orders, trades, l)
      BY <2>1 DEF Track
    <3>2. levels[l].cid \in Cids /\ levels[l].filled \in Nat
      BY <1>0, <2>1, TypeSplit, GridAssumption DEF LevelsTyped, LevelRecord, Cids, ActorTyped
    <3>3. CASE levels[l].cid = c
      <4>1. /\ levels[l].filled + Queued(trades, c) + orders[c].left = Size
            /\ Queued(trades', c) = Queued(trades, c) + qty /\ Queued(trades, c) \in Nat
        BY <1>3, <1>5, <1>6, <3>1, <3>3 DEF Whole
      <4>2. levels[l].filled + Queued(trades', c) + orders'[c].left = Size
        BY <1>3, <1>5, <3>2, <4>1
      <4>3. QED  BY <2>1, <3>3, <4>2, GridAssumption DEF Whole
    <3>4. CASE levels[l].cid # c
      <4>1. orders'[levels[l].cid] = orders[levels[l].cid]
            /\ Queued(trades', levels[l].cid) = Queued(trades, levels[l].cid)
        BY <1>5, <1>6, <3>2, <3>4
      <4>2. QED  BY <2>1, <3>1, <4>1 DEF Whole
    <3>5. QED  BY <2>1, <3>3, <3>4
  <2>2. CASE levels[l].state # "active"
    BY <2>2 DEF Track
  <2>3. QED  BY <2>1, <2>2
<1>9. ASSUME NEW d \in Cids, orders'[d].left > 0 \/ \E i \in DOMAIN trades' : trades'[i].cid = d
      PROVE  Owned(levels, orders', d)
  <2>1. orders'[d].level = orders[d].level
    BY <1>5
  <2>2. orders[d].left > 0 \/ \E i \in DOMAIN trades : trades[i].cid = d
    BY <1>3, <1>5, <1>7, <1>9
  <2>3. Owned(levels, orders, d)
    BY <2>2 DEF Track
  <2>4. QED  BY <2>1, <2>3 DEF Owned
<1>10. QED  BY <1>2, <1>8, <1>9 DEF Track

\* An order is cancelled by the venue.
LEMMA CancelTracked ==
  ASSUME IInv, Track(levels, orders, trades), NEW c \in Cids, VenueCancel(c)
  PROVE  Track(levels', orders', trades')
<1>0. /\ issued \in Nat /\ LevelsTyped(levels, issued)
      /\ trades \in Seq(TradeEvent) /\ orders \in [Cids -> OrderRecord]
  BY TypeSplit, GridAssumption DEF IInv, ActorTyped, VenueTyped
<1>1. levels' = levels /\ trades' = trades /\ orders' = [orders EXCEPT ![c].left = 0]
  BY DEF VenueCancel, gridVars
<1>2. /\ orders'[c].left = 0 /\ orders[c].left \in Nat /\ orders'[c].level = orders[c].level
      /\ \A d \in Cids \ {c} : orders'[d] = orders[d]
  BY <1>0, <1>1, GridAssumption DEF OrderRecord
<1>3. ASSUME NEW l \in Levels
      PROVE  IF levels[l].state = "active" THEN Whole(levels, orders', trades, l)
             ELSE levels[l].filled = 0
  <2>1. CASE levels[l].state = "active"
    <3>1. Whole(levels, orders, trades, l)
      BY <2>1 DEF Track
    <3>2. levels[l].cid \in Cids /\ levels[l].filled \in Nat /\ Queued(trades, levels[l].cid) \in Nat
      <4>1. levels[l].cid \in Cids /\ levels[l].filled \in Nat
        BY <1>0, <2>1, GridAssumption, TypeSplit DEF LevelsTyped, LevelRecord, Cids, ActorTyped, IInv
      <4>2. QED  BY <1>0, <4>1, QueuedFacts
    <3>3. CASE levels[l].cid = c
      BY <1>2, <2>1, <3>1, <3>2, <3>3, GridAssumption DEF Whole
    <3>4. CASE levels[l].cid # c
      BY <1>2, <2>1, <3>1, <3>2, <3>4 DEF Whole
    <3>5. QED  BY <2>1, <3>3, <3>4
  <2>2. CASE levels[l].state # "active"
    BY <2>2 DEF Track
  <2>3. QED  BY <2>1, <2>2
<1>4. ASSUME NEW d \in Cids, orders'[d].left > 0 \/ \E i \in DOMAIN trades : trades[i].cid = d
      PROVE  Owned(levels, orders', d)
  <2>1. orders'[d].level = orders[d].level /\ Owned(levels, orders, d)
    BY <1>2, <1>4 DEF Track
  <2>2. QED  BY <2>1 DEF Owned
<1>5. QED  BY <1>1, <1>3, <1>4 DEF Track

LEMMA TrackStep ==
  ASSUME IInv, TrackInv, [Next]_vars
  PROVE  TrackInv'
<1> SUFFICES ASSUME OnTrack' PROVE Track(levels', orders', trades')
  BY DEF TrackInv
<1>0. phase' = "running" /\ ~disconnected' /\ ~raced' /\ lost' = 0
  BY DEF OnTrack
<1>1. ASSUME UNCHANGED <<phase, disconnected, raced, lost>> PROVE Track(levels, orders, trades)
  BY <1>0, <1>1 DEF TrackInv, OnTrack
<1>2. CASE Start \/ HandleTrade \/ (\E c \in Cids : HandleCancelled(c)) \/ Tick
  BY <1>2, ActorTracked
<1>3. CASE Refuse \/ WindDown \/ Disconnect
  BY <1>0, <1>3 DEF Refuse, WindDown, Disconnect
<1>4. ASSUME NEW c \in Cids, Fill(c) PROVE Track(levels', orders', trades')
  <2>1. UNCHANGED <<phase, disconnected, raced, lost>>
    BY <1>4 DEF Fill, flags
  <2>2. ~disconnected
    BY <1>0, <2>1
  <2>3. QED  BY <1>1, <1>4, <2>1, <2>2, FillTracked
<1>5. ASSUME NEW c \in Cids, VenueCancel(c) PROVE Track(levels', orders', trades')
  <2>1. UNCHANGED <<phase, disconnected, raced, lost>>
    BY <1>5 DEF VenueCancel, flags
  <2>2. QED  BY <1>1, <1>5, <2>1, CancelTracked
<1>6. CASE TickDisconnected \/ UNCHANGED vars
  <2>1. UNCHANGED <<phase, disconnected, raced, lost, levels, orders, trades>>
    BY <1>6 DEF TickDisconnected, vars, gridVars, venueVars, flags
  <2>2. QED  BY <1>1, <2>1
<1>7. QED  BY <1>2, <1>3, <1>4, <1>5, <1>6 DEF Next

LEMMA TrackHolds == Spec => []TrackInv
<1>1. Init => TrackInv
  BY DEF Init, TrackInv, OnTrack
<1>2. IInv /\ TrackInv /\ [Next]_vars => TrackInv'
  BY TrackStep
<1>3. QED  BY <1>1, <1>2, IInvHolds, PTL DEF Spec

\* Unless a level was taken off an order too early, or the venue took an order that it was
\* said to have refused, every resting order is the one that its level holds, with the
\* level's side and what is left of it, so that no level ever has two (grid.rs:6-10).
THEOREM NoOrderLost == Spec => []RestingIsTracked
<1>1. ASSUME IInv, TrackInv PROVE RestingIsTracked
  <2> SUFFICES ASSUME OnTrack, NEW c \in Resting
               PROVE  LET o == orders[c]
                          l == levels[o.level]
                          queued == Cardinality({i \in DOMAIN trades : trades[i].cid = c})
                      IN  /\ l.state = "active" /\ l.cid = c /\ l.side = o.side
                          /\ queued = 0 => l.filled + o.left = Size
    BY DEF RestingIsTracked
  <2>1. /\ c \in Cids /\ orders[c].left > 0 /\ Track(levels, orders, trades)
        /\ RecordInv /\ HeldBy(levels, orders) /\ trades \in Seq(TradeEvent)
    BY <1>1, TypeSplit DEF Resting, TrackInv, IInv, VenueTyped
  <2>2. Owned(levels, orders, c)
    BY <2>1 DEF Track
  <2>3. orders[c].level \in Levels
    BY <2>1 DEF RecordInv
  <2>4. levels[orders[c].level].side = orders[c].side
    BY <2>1, <2>2, <2>3 DEF HeldBy, Owned
  <2>5. Whole(levels, orders, trades, orders[c].level)
    BY <2>1, <2>2, <2>3 DEF Track, Owned
  <2>6. ASSUME Cardinality({i \in DOMAIN trades : trades[i].cid = c}) = 0
        PROVE  levels[orders[c].level].filled + orders[c].left = Size
    <3>1. IsFiniteSet({i \in DOMAIN trades : trades[i].cid = c})
      <4>1. DOMAIN trades = 1..Len(trades) /\ Len(trades) \in Nat
        BY <2>1
      <4>2. IsFiniteSet(DOMAIN trades)
        BY <4>1, FS_Interval
      <4>3. QED  BY <4>2, FS_Subset
    <3>2. {i \in DOMAIN trades : trades[i].cid = c} = {}
      BY <2>6, <3>1, FS_EmptySet
    <3>3. Queued(trades, c) = 0
      <4>1. \A i \in DOMAIN trades : trades[i].cid # c
        BY <3>2
      <4>2. QED  BY <2>1, <4>1, QueuedFacts
    <3>4. /\ levels[orders[c].level].cid = c
          /\ levels[orders[c].level].filled \in Nat /\ orders[c].left \in Nat
      <4>1. ActorTyped /\ VenueTyped
        BY <1>1, TypeSplit DEF IInv
      <4>2. levels[orders[c].level].filled \in Nat
        BY <2>3, <4>1, GridAssumption DEF ActorTyped, LevelsTyped, LevelRecord
      <4>3. orders[c].left \in Nat
        BY <2>1, <4>1, GridAssumption DEF VenueTyped, OrderRecord
      <4>4. QED  BY <2>2, <4>2, <4>3 DEF Owned
    <3>5. QED  BY <2>1, <2>5, <3>3, <3>4 DEF Whole
  <2>7. QED  BY <2>2, <2>4, <2>6 DEF Owned
<1>2. QED  BY <1>1, IInvHolds, TrackHolds, PTL

-----------------------------------------------------------------------------
(* What rests and what is open, as totals.                                 *)

LeftOf(os, s) == [c \in Cids |-> IF os[c].side = s THEN os[c].left ELSE 0]
Rests(os, s) ==
  MapThenSumSet(LAMBDA c : os[c].left, {c \in {d \in Cids : os[d].left > 0} : os[c].side = s})

OpenAt(ls, s) ==
  [l \in Levels |-> IF ls[l].state = "active" /\ ls[l].side = s THEN Larger(Size - ls[l].filled, 0) ELSE 0]

LEMMA FiniteCids == IsFiniteSet(Cids)
BY FS_Interval, GridAssumption DEF Cids

LEMMA RestingRests ==
  ASSUME NEW s
  PROVE  RestingOf(s) = Rests(orders, s) /\ RestingOf(s)' = Rests(orders', s)
<1>1. RestingOf(s) = Rests(orders, s)
  BY DEF RestingOf, Rests, Resting, MapThenSumSet, MapThenFoldSet
<1>2. RestingOf(s)' = Rests(orders', s)
  BY DEF RestingOf, Rests, Resting, MapThenSumSet, MapThenFoldSet
<1>3. QED  BY <1>1, <1>2

LEMMA RestsTotal ==
  ASSUME NEW os \in [Cids -> OrderRecord], NEW s
  PROVE  /\ Rests(os, s) = Total(LeftOf(os, s), Cids)
         /\ \A c \in Cids : LeftOf(os, s)[c] \in Int /\ LeftOf(os, s)[c] >= 0
<1> DEFINE S == {c \in {d \in Cids : os[d].left > 0} : os[c].side = s}
           a == LeftOf(os, s)
           P(f) == f = [t \in SUBSET S |-> IF t = {} THEN 0 ELSE os[First(t)].left + f[t \ {First(t)}]]
           g == CHOOSE f : P(f)
<1>1. \A c \in Cids : a[c] \in Int /\ a[c] >= 0
  BY GridAssumption DEF LeftOf, OrderRecord
<1>2. /\ S \in SUBSET Cids /\ \A c \in S : a[c] = os[c].left
      /\ \A c \in Cids \ S : a[c] = 0
  BY GridAssumption DEF LeftOf, OrderRecord
<1>3. Rests(os, s) = g[S]
  BY DEF Rests, MapThenSumSet, MapThenFoldSet, First
<1> HIDE DEF a, S
<1>4. IsFiniteSet(S)
  BY <1>2, FiniteCids, FS_Subset
<1>5. ASSUME NEW f PROVE P(f) <=> Adds(f, a, S)
  <2>1. ASSUME NEW t \in SUBSET S
        PROVE  (IF t = {} THEN 0 ELSE os[First(t)].left + f[t \ {First(t)}])
               = (IF t = {} THEN 0 ELSE a[First(t)] + f[t \ {First(t)}])
    <3>1. t # {} => First(t) \in S
      BY DEF First
    <3>2. QED  BY <1>2, <3>1
  <2>2. [t \in SUBSET S |-> IF t = {} THEN 0 ELSE os[First(t)].left + f[t \ {First(t)}]]
        = [t \in SUBSET S |-> IF t = {} THEN 0 ELSE a[First(t)] + f[t \ {First(t)}]]
    BY <2>1
  <2>3. QED  BY <2>2 DEF Adds
<1>6. P(g)
  <2>1. PICK f : Adds(f, a, S)
    BY <1>4, Exists
  <2>2. P(f)
    BY <1>5, <2>1
  <2> HIDE DEF P
  <2>3. QED  BY <2>2
<1> HIDE DEF P, g
<1>7. Total(a, S) = g[S]
  BY <1>4, <1>5, <1>6, TotalAdds
<1>8. Total(a, Cids) = Total(a, S)
  BY <1>1, <1>2, FiniteCids, TotalSupport
<1>9. QED  BY <1>1, <1>3, <1>7, <1>8 DEF a

LEMMA OpenTotal ==
  ASSUME NEW k \in Nat, NEW ls, LevelsTyped(ls, k), NEW s
  PROVE  /\ ActiveRemaining(ls, s) = Total(OpenAt(ls, s), Levels)
         /\ \A l \in Levels : OpenAt(ls, s)[l] \in Int /\ OpenAt(ls, s)[l] >= 0
<1> DEFINE S == {l \in Levels : ls[l].state = "active" /\ ls[l].side = s}
           a == OpenAt(ls, s)
           P(f) == f = [t \in SUBSET S |-> IF t = {} THEN 0
                                           ELSE Larger(Size - ls[First(t)].filled, 0) + f[t \ {First(t)}]]
           g == CHOOSE f : P(f)
<1>1. \A l \in Levels : a[l] \in Int /\ a[l] >= 0
  <2>1. \A l \in Levels : ls[l].filled \in Int
    BY GridAssumption DEF LevelsTyped, LevelRecord
  <2>2. QED  BY <2>1, GridAssumption DEF OpenAt, Larger
<1>2. /\ S \in SUBSET Levels /\ \A l \in S : a[l] = Larger(Size - ls[l].filled, 0)
      /\ \A l \in Levels \ S : a[l] = 0
  BY DEF OpenAt
<1>3. ActiveRemaining(ls, s) = g[S]
  BY DEF ActiveRemaining, MapThenSumSet, MapThenFoldSet, First
<1> HIDE DEF a, S
<1>4. IsFiniteSet(S)
  BY <1>2, FiniteLevels, FS_Subset
<1>5. ASSUME NEW f PROVE P(f) <=> Adds(f, a, S)
  <2>1. ASSUME NEW t \in SUBSET S
        PROVE  (IF t = {} THEN 0 ELSE Larger(Size - ls[First(t)].filled, 0) + f[t \ {First(t)}])
               = (IF t = {} THEN 0 ELSE a[First(t)] + f[t \ {First(t)}])
    <3>1. t # {} => First(t) \in S
      BY DEF First
    <3>2. QED  BY <1>2, <3>1
  <2>2. [t \in SUBSET S |-> IF t = {} THEN 0 ELSE Larger(Size - ls[First(t)].filled, 0) + f[t \ {First(t)}]]
        = [t \in SUBSET S |-> IF t = {} THEN 0 ELSE a[First(t)] + f[t \ {First(t)}]]
    BY <2>1
  <2>3. QED  BY <2>2 DEF Adds
<1>6. P(g)
  <2>1. PICK f : Adds(f, a, S)
    BY <1>4, Exists
  <2>2. P(f)
    BY <1>5, <2>1
  <2> HIDE DEF P
  <2>3. QED  BY <2>2
<1> HIDE DEF P, g
<1>7. Total(a, S) = g[S]
  BY <1>4, <1>5, <1>6, TotalAdds
<1>8. Total(a, Levels) = Total(a, S)
  BY <1>1, <1>2, FiniteLevels, TotalSupport
<1>9. QED  BY <1>1, <1>3, <1>7, <1>8 DEF a

-----------------------------------------------------------------------------
(* What is on its way and what rests is open at the levels.                *)

\* How far x is towards side s.
Toward(s, x) == IF s = Buy THEN x ELSE -x

LEMMA Committed ==
  ASSUME NEW k \in Nat, NEW ls, LevelsTyped(ls, k), NEW os \in [Cids -> OrderRecord],
         NEW q \in Seq(TradeEvent), \A i \in DOMAIN q : q[i].qty * os[q[i].cid].side > 0,
         \A c \in Cids : os[c].side # 0 => os[c].level \in Levels,
         HeldBy(ls, os), Track(ls, os, q), NEW s \in {Buy, Sell}
  PROVE  Toward(s, Flow(q)) + Rests(os, s) <= ActiveRemaining(ls, s)
<1> DEFINE n == Len(q)
           steps == [i \in 1..n |-> Toward(s, q[i].qty)]
           who == [i \in 1..n |-> q[i].cid]
           gain == [i \in 1..n |-> IF os[q[i].cid].side = s THEN Magnitude(q[i].qty) ELSE 0]
           mine == [c \in Cids |-> IF os[c].side = s THEN Queued(q, c) ELSE 0]
           left == LeftOf(os, s)
           open == OpenAt(ls, s)
<1>1. /\ n \in Nat /\ DOMAIN q = 1..n
      /\ \A i \in 1..n : q[i] \in TradeEvent /\ q[i].qty \in Int /\ q[i].cid \in Cids
  <2>1. n \in Nat /\ DOMAIN q = 1..n /\ \A i \in 1..n : q[i] \in TradeEvent
    OBVIOUS
  <2>2. QED  BY <2>1 DEF TradeEvent
<1>2. \A c \in Cids : os[c].side \in {1, -1, 0} /\ os[c].left \in Nat
  BY GridAssumption DEF OrderRecord, Buy, Sell
<1>3. \A i \in 1..n : /\ steps[i] \in Int /\ gain[i] \in Int /\ gain[i] >= 0
                      /\ steps[i] <= gain[i] /\ who[i] = q[i].cid /\ who[i] \in Cids
  <2>1. ASSUME NEW i \in 1..n
        PROVE  LET x == q[i].qty
                   d == os[q[i].cid].side
               IN  /\ Magnitude(x) \in Int /\ Magnitude(x) >= 0
                   /\ Toward(s, x) <= IF d = s THEN Magnitude(x) ELSE 0
    <3>1. \A x, d \in Int : x * d > 0 /\ d \in {1, -1, 0} => (d = 1 /\ x > 0) \/ (d = -1 /\ x < 0)
      <4>1. \A x \in Int : x * 1 = x /\ x * (-1) = -x /\ x * 0 = 0
        OBVIOUS
      <4>2. QED  BY <4>1
    <3>2. q[i].qty * os[q[i].cid].side > 0 /\ os[q[i].cid].side \in {1, -1, 0} /\ q[i].qty \in Int
      BY <1>1, <1>2
    <3>3. (os[q[i].cid].side = 1 /\ q[i].qty > 0) \/ (os[q[i].cid].side = -1 /\ q[i].qty < 0)
      BY <3>1, <3>2
    <3>4. s = 1 \/ s = -1
      BY DEF Buy, Sell
    <3>5. QED  BY <3>2, <3>3, <3>4 DEF Toward, Magnitude, Buy
  <2>2. \A i \in 1..n : Toward(s, q[i].qty) \in Int
    BY <1>1 DEF Toward
  <2>3. QED  BY <1>1, <2>1, <2>2
<1>4. Toward(s, Flow(q)) = Along(steps, n) /\ Toward(s, Flow(q)) \in Int
  <2>1. Flow(q) = Along(Qtys(q), n) /\ \A i \in 1..n : Qtys(q)[i] = q[i].qty /\ Qtys(q)[i] \in Int
    BY <1>1, FlowAlong DEF Qtys
  <2>2. Flow(q) \in Int
    BY <1>1, <2>1, AlongType
  <2>3. CASE s = Buy
    <3>1. \A i \in 1..n : steps[i] = Qtys(q)[i]
      BY <2>1, <2>3 DEF Toward
    <3> HIDE DEF steps, n
    <3>2. Along(steps, n) = Along(Qtys(q), n)
      BY <1>1, <3>1, AlongSame
    <3>3. QED  BY <2>1, <2>2, <2>3, <3>2 DEF Toward
  <2>4. CASE s # Buy
    <3> DEFINE minus == [i \in 1..n |-> -Qtys(q)[i]]
    <3>1. \A i \in 1..n : steps[i] = minus[i]
      BY <2>1, <2>4 DEF Toward
    <3>2. Along(minus, n) = -Along(Qtys(q), n)
      <4> HIDE DEF n
      <4>1. QED  BY <1>1, <2>1, AlongNegated
    <3> HIDE DEF steps, n, minus
    <3>3. Along(steps, n) = Along(minus, n)
      BY <1>1, <3>1, AlongSame
    <3>4. QED  BY <2>1, <2>2, <2>4, <3>2, <3>3 DEF Toward
  <2>5. QED  BY <2>3, <2>4
<1>5. Along(steps, n) <= Along(gain, n)
  <2> HIDE DEF steps, gain, n
  <2>1. QED  BY <1>1, <1>3, AlongGrows
<1> DEFINE share(c) == Share(gain, who, n, c)
<1>6. \A c \in Cids : mine[c] \in Int /\ Queued(q, c) \in Nat /\ mine[c] = Along(share(c), n)
  <2>1. ASSUME NEW c \in Cids
        PROVE  mine[c] \in Int /\ Queued(q, c) \in Nat /\ mine[c] = Along(share(c), n)
    <3>0. \A i \in 1..n : share(c)[i] = IF q[i].cid = c THEN gain[i] ELSE 0
      BY DEF Share
    <3>1. Queued(q, c) \in Nat
      BY QueuedFacts
    <3>2. Portion(q, c) \in Seq(Amounts) /\ DOMAIN Portion(q, c) = DOMAIN q
      BY PortionTyped
    <3>3. Len(Portion(q, c)) = n
      BY <1>1, <3>2
    <3>4. Queued(q, c) = Along(Qtys(Portion(q, c)), n)
      BY <1>1, <3>3, FlowAlong DEF Queued
    <3>5. \A i \in 1..n : Qtys(Portion(q, c))[i] = IF q[i].cid = c THEN Magnitude(q[i].qty) ELSE 0
      BY <1>1, <3>3 DEF Qtys, Portion
    <3>6. CASE os[c].side = s
      <4>1. \A i \in 1..n : share(c)[i] = Qtys(Portion(q, c))[i]
        BY <3>0, <3>5, <3>6
      <4>2. mine[c] = Queued(q, c)
        BY <3>6
      <4> HIDE DEF share, n, mine
      <4>3. Along(share(c), n) = Along(Qtys(Portion(q, c)), n)
        BY <1>1, <4>1, AlongSame
      <4>4. QED  BY <3>1, <3>4, <4>2, <4>3
    <3>7. CASE os[c].side # s
      <4>1. \A i \in 1..n : share(c)[i] = 0
        BY <3>0, <3>7
      <4>2. mine[c] = 0
        BY <3>7
      <4> HIDE DEF share, n, mine
      <4>3. Along(share(c), n) = 0
        BY <1>1, <4>1, AlongType
      <4>4. QED  BY <3>1, <4>2, <4>3
    <3>8. QED  BY <3>6, <3>7
  <2>2. QED  BY <2>1
<1>7. Along(gain, n) = Total(mine, Cids)
  <2> HIDE DEF n, mine, who, gain
  <2>1. mine = Shares(gain, who, n, Cids)
    <3>1. mine = [c \in Cids |-> mine[c]]
      BY DEF mine
    <3>2. QED  BY <1>6, <3>1 DEF Shares
  <2>2. \A i \in 1..n : gain[i] \in Int /\ who[i] \in Cids
    BY <1>3
  <2>3. Along(gain, n) = Total(Shares(gain, who, n, Cids), Cids)
    BY <1>1, <2>2, FiniteCids, AlongByOwner
  <2>4. QED  BY <2>1, <2>3
<1>8. /\ Rests(os, s) = Total(left, Cids)
      /\ \A c \in Cids : left[c] \in Int /\ left[c] = IF os[c].side = s THEN os[c].left ELSE 0
  BY <1>2, RestsTotal DEF LeftOf
<1>9. /\ ActiveRemaining(ls, s) = Total(open, Levels)
      /\ \A l \in Levels : open[l] \in Int /\ open[l] >= 0
  BY OpenTotal
<1> DEFINE both == [c \in Cids |-> mine[c] + left[c]]
           S == {c \in Cids : os[c].side = s /\ (os[c].left > 0 \/ \E i \in DOMAIN q : q[i].cid = c)}
           at == [c \in S |-> os[c].level]
<1>10. \A c \in Cids \ S : both[c] = 0
  <2>1. ASSUME NEW c \in Cids, c \notin S PROVE mine[c] = 0 /\ left[c] = 0
    <3>1. CASE os[c].side # s
      BY <1>8, <3>1
    <3>2. CASE os[c].side = s
      <4>1. os[c].left = 0 /\ \A i \in DOMAIN q : q[i].cid # c
        BY <1>2, <2>1, <3>2
      <4>2. Queued(q, c) = 0
        BY <4>1, QueuedFacts
      <4>3. mine[c] = 0
        BY <3>2, <4>2
      <4>4. left[c] = 0
        BY <1>8, <4>1
      <4>5. QED  BY <4>3, <4>4
    <3>3. QED  BY <3>1, <3>2
  <2> HIDE DEF mine, left, S
  <2>2. QED  BY <2>1
<1>11. ASSUME NEW c \in S
       PROVE  /\ at[c] \in Levels /\ ls[at[c]].cid = c
              /\ both[c] \in Int /\ both[c] <= open[at[c]]
  <2>1. c \in Cids /\ os[c].side = s /\ s # 0
    BY DEF Buy, Sell
  <2>2. os[c].level \in Levels /\ at[c] = os[c].level
    BY <2>1
  <2>3. Owned(ls, os, c)
    BY <2>1 DEF Track
  <2>4. Whole(ls, os, q, at[c]) /\ ls[at[c]].side = s
    BY <2>1, <2>2, <2>3 DEF Track, Owned, HeldBy
  <2>5. open[at[c]] = Larger(Size - ls[at[c]].filled, 0) /\ ls[at[c]].filled \in Int
    <3>1. ls[at[c]] \in LevelRecord(k)
      BY <2>2 DEF LevelsTyped
    <3>2. ls[at[c]].filled \in Int
      BY <3>1, GridAssumption DEF LevelRecord
    <3>3. ls[at[c]].state = "active" /\ ls[at[c]].side = s
      BY <2>2, <2>3, <2>4 DEF Owned
    <3>4. open[at[c]] = Larger(Size - ls[at[c]].filled, 0)
      BY <2>2, <3>3 DEF OpenAt
    <3>5. QED  BY <3>2, <3>4
  <2>6. both[c] = Queued(q, c) + os[c].left
    BY <1>8, <2>1
  <2>7. ls[at[c]].cid = c
    BY <2>2, <2>3 DEF Owned
  <2>8. ls[at[c]].filled + Queued(q, c) + os[c].left <= Size
    BY <2>4, <2>7 DEF Whole
  <2>9. Queued(q, c) \in Nat /\ os[c].left \in Nat
    BY <1>2, <1>6, <2>1
  <2> HIDE DEF both, open, at
  <2>10. Larger(Size - ls[at[c]].filled, 0) >= Size - ls[at[c]].filled
    BY <2>5, GridAssumption, SMTT(30) DEF Larger
  <2>11. both[c] \in Int /\ both[c] <= open[at[c]]
    <3>1. \A f, x, y, z \in Int : f + x + y <= z => x + y <= z - f
      OBVIOUS
    <3>2. both[c] <= Size - ls[at[c]].filled
      BY <2>5, <2>6, <2>8, <2>9, <3>1, GridAssumption, SMTT(30)
    <3>3. both[c] \in Int /\ Size - ls[at[c]].filled \in Int
      <4>1. \A x, y \in Nat : x + y \in Int
        OBVIOUS
      <4>2. both[c] \in Int
        BY <2>6, <2>9, <4>1
      <4>3. Size \in Int
        BY GridAssumption
      <4>4. QED  BY <2>5, <4>2, <4>3
    <3>4. open[at[c]] \in Int
      BY <1>9, <2>2
    <3>5. QED  BY <2>5, <2>10, <3>2, <3>3, <3>4
  <2>12. QED  BY <2>2, <2>7, <2>11
<1>12. Total(mine, Cids) + Total(left, Cids) = Total(both, Cids)
  <2>1. \A c \in Cids : mine[c] \in Int /\ left[c] \in Int
    BY <1>6, <1>8
  <2>2. \A c \in Cids : both[c] = mine[c] + left[c]
    OBVIOUS
  <2> HIDE DEF mine, left, both
  <2>3. QED  BY <2>1, <2>2, FiniteCids, TotalPlus
<1>13. \A c \in Cids : both[c] \in Int
  <2>1. \A c \in Cids : mine[c] \in Int /\ left[c] \in Int
    BY <1>6, <1>8
  <2> HIDE DEF mine, left
  <2>2. QED  BY <2>1
<1>14. S \in SUBSET Cids
  OBVIOUS
<1> HIDE DEF both, S, at, open, left, mine, gain, steps
<1>15. Total(both, Cids) = Total(both, S) /\ IsFiniteSet(S)
  BY <1>10, <1>13, <1>14, FiniteCids, TotalSupport, FS_Subset
<1>16. Total(both, S) <= Total(open, Levels)
  BY <1>9, <1>11, <1>15, FiniteLevels, TotalCovered
<1>17. Total(mine, Cids) \in Int /\ Total(left, Cids) \in Int /\ Total(open, Levels) \in Int
  BY <1>6, <1>8, <1>9, FiniteCids, FiniteLevels, TotalType
<1>18. QED  BY <1>4, <1>5, <1>7, <1>8, <1>9, <1>12, <1>15, <1>16, <1>17

-----------------------------------------------------------------------------
(* What the levels have open after a batch.                                *)

Decision == [long : Int, short : Int, chosen : SUBSET Levels]

\* How far the position gets towards side s.
Reach(s, p) == IF s = Buy THEN p.long ELSE -p.short

\* What is open at side s once the levels of C have an order.
Granted(ls, C, s) == [l \in Levels |-> IF l \in C /\ ls[l].side = s THEN Size ELSE OpenAt(ls, s)[l]]

LEMMA DecideEffect ==
  ASSUME NEW ls, NEW m, NEW l \in Levels, NEW p \in Decision
  PROVE  LET r == Decide(ls, m, l, p)
         IN  /\ r \in Decision
             /\ \/ r = p
                \/ /\ ls[l].state = "pending" /\ ls[l].side \in {Buy, Sell} /\ r.chosen = p.chosen \cup {l}
                   /\ \A s \in {Buy, Sell} :
                        IF ls[l].side = s
                        THEN Reach(s, r) = Reach(s, p) + Size /\ Reach(s, r) <= MaxPosition
                        ELSE Reach(s, r) = Reach(s, p)
<1>0. p.long \in Int /\ p.short \in Int /\ p.chosen \in SUBSET Levels /\ Size \in Int /\ MaxPosition \in Int
  BY GridAssumption DEF Decision
<1>1. CASE Wanted(ls, m, l) /\ ls[l].side = Buy /\ p.long + Size <= MaxPosition
  <2> DEFINE r == [p EXCEPT !.long = @ + Size, !.chosen = @ \cup {l}]
  <2>1. Decide(ls, m, l, p) = r
    BY <1>1 DEF Decide
  <2>2. r.long = p.long + Size /\ r.short = p.short /\ r.chosen = p.chosen \cup {l} /\ r \in Decision
    <3>1. p.long + Size \in Int /\ p.chosen \cup {l} \in SUBSET Levels
      BY <1>0
    <3>2. QED  BY <3>1 DEF Decision
  <2> HIDE DEF r
  <2>3. ls[l].side # Sell /\ Buy # Sell
    BY <1>1 DEF Buy, Sell
  <2>4. Reach(Buy, r) = Reach(Buy, p) + Size /\ Reach(Buy, r) <= MaxPosition /\ Reach(Sell, r) = Reach(Sell, p)
    BY <1>0, <1>1, <2>2, <2>3 DEF Reach
  <2>5. QED  BY <1>1, <2>1, <2>2, <2>3, <2>4 DEF Wanted
<1>2. CASE ~(Wanted(ls, m, l) /\ ls[l].side = Buy /\ p.long + Size <= MaxPosition)
           /\ Wanted(ls, m, l) /\ ls[l].side = Sell /\ p.short - Size >= -MaxPosition
  <2> DEFINE r == [p EXCEPT !.short = @ - Size, !.chosen = @ \cup {l}]
  <2>1. Decide(ls, m, l, p) = r
    BY <1>2 DEF Decide
  <2>2. r.long = p.long /\ r.short = p.short - Size /\ r.chosen = p.chosen \cup {l} /\ r \in Decision
    <3>1. p.short - Size \in Int /\ p.chosen \cup {l} \in SUBSET Levels
      BY <1>0
    <3>2. QED  BY <3>1 DEF Decision
  <2> HIDE DEF r
  <2>3. ls[l].side # Buy /\ Buy # Sell
    BY <1>2 DEF Buy, Sell
  <2>4. Reach(Sell, r) = Reach(Sell, p) + Size /\ Reach(Sell, r) <= MaxPosition /\ Reach(Buy, r) = Reach(Buy, p)
    BY <1>0, <1>2, <2>2, <2>3 DEF Reach
  <2>5. QED  BY <1>2, <2>1, <2>2, <2>3, <2>4 DEF Wanted
<1>3. CASE /\ ~(Wanted(ls, m, l) /\ ls[l].side = Buy /\ p.long + Size <= MaxPosition)
           /\ ~(Wanted(ls, m, l) /\ ls[l].side = Sell /\ p.short - Size >= -MaxPosition)
  BY <1>3, Zenon DEF Decide
<1>4. QED  BY <1>1, <1>2, <1>3

LEMMA GrantOne ==
  ASSUME NEW k \in Nat, NEW ls, LevelsTyped(ls, k), NEW s, NEW C \in SUBSET Levels,
         NEW j \in Levels, j \notin C, ls[j].state = "pending"
  PROVE  Total(Granted(ls, C \cup {j}, s), Levels)
         = Total(Granted(ls, C, s), Levels) + (IF ls[j].side = s THEN Size ELSE 0)
<1> DEFINE g == Granted(ls, C, s)
           h == Granted(ls, C \cup {j}, s)
<1>1. \A l \in Levels : OpenAt(ls, s)[l] \in Int
  BY OpenTotal
<1>2. \A l \in Levels : g[l] \in Int /\ h[l] \in Int
  BY <1>1, GridAssumption DEF Granted
<1>3. /\ \A l \in Levels \ {j} : h[l] = g[l]
      /\ g[j] = 0 /\ h[j] = IF ls[j].side = s THEN Size ELSE 0
  BY DEF Granted, OpenAt
<1> HIDE DEF g, h
<1>4. Total(h, Levels) = Total(g, Levels) - g[j] + h[j]
  BY <1>2, <1>3, FiniteLevels, TotalChange
<1>5. Total(g, Levels) \in Int
  BY <1>2, FiniteLevels, TotalType
<1>6. QED  BY <1>3, <1>4, <1>5, GridAssumption DEF g, h

\* If an order of a side is placed, all that is open at that side fits within max_position.
LEMMA ChosenBound ==
  ASSUME NEW k \in Nat, NEW ls, LevelsTyped(ls, k), NEW n \in Int, NEW m, NEW s \in {Buy, Sell},
         NEW x \in Chosen(ls, n, m), ls[x].side = s
  PROVE  Toward(s, n) + Total(Granted(ls, Chosen(ls, n, m), s), Levels) <= MaxPosition
<1>1. PICK f : Decisions(f, ls, n, m, NumLevels) /\ Chosen(ls, n, m) = f[NumLevels].chosen
  BY ChosenDef
<1> DEFINE Sum(C) == Total(Granted(ls, C, s), Levels)
           Good(j) == /\ f[j] \in Decision
                      /\ f[j].chosen \subseteq 1..j
                      /\ Reach(s, f[j]) = Toward(s, n) + Sum(f[j].chosen)
                      /\ (\E l \in f[j].chosen : ls[l].side = s) => Reach(s, f[j]) <= MaxPosition
           bad == {j \in 0..NumLevels : ~Good(j)}
<1>2. Good(NumLevels) => Toward(s, n) + Sum(Chosen(ls, n, m)) <= MaxPosition
  BY <1>1
<1> SUFFICES ASSUME NumLevels \in bad PROVE FALSE
  BY <1>2, GridAssumption
<1>3. PICK j \in bad : \A i \in bad : ~(i < j)
  <2>1. bad \in SUBSET Nat /\ bad # {}
    BY GridAssumption
  <2> HIDE DEF bad
  <2>2. QED  BY <2>1, LeastNumber
<1>4. j \in 0..NumLevels /\ ~Good(j)
  BY <1>3
<1>5. f[j] = IF j = 0 THEN Undecided(ls, n) ELSE Decide(ls, m, j, f[j - 1])
  BY <1>1, <1>4 DEF Decisions
<1>6. \A t : /\ ActiveRemaining(ls, t) = Total(OpenAt(ls, t), Levels)
             /\ \A l \in Levels : OpenAt(ls, t)[l] \in Int /\ OpenAt(ls, t)[l] >= 0
  BY OpenTotal
<1>7. \A t : ActiveRemaining(ls, t) \in Int
  BY <1>6, FiniteLevels, TotalType
<1>8. \A C : \A l \in Levels : Granted(ls, C, s)[l] \in Int
  BY <1>6, GridAssumption DEF Granted
<1>9. \A C : Sum(C) \in Int
  BY <1>8, FiniteLevels, TotalType
<1>10. CASE j = 0
  <2>1. /\ f[j].long = n + ActiveRemaining(ls, Buy) /\ f[j].short = n - ActiveRemaining(ls, Sell)
        /\ f[j].chosen = {} /\ f[j] \in Decision
    BY <1>5, <1>7, <1>10 DEF Undecided, Decision
  <2>2. \A l \in Levels : Granted(ls, {}, s)[l] = OpenAt(ls, s)[l]
    BY DEF Granted
  <2>3. Sum({}) = ActiveRemaining(ls, s)
    BY <1>6, <1>8, <2>2, FiniteLevels, TotalSame
  <2>4. Reach(s, f[j]) = Toward(s, n) + ActiveRemaining(ls, s)
    <3>1. s = Buy \/ (s = Sell /\ s # Buy)
      BY DEF Buy, Sell
    <3>2. QED  BY <1>7, <2>1, <3>1 DEF Reach, Toward
  <2> HIDE DEF Sum
  <2>5. Good(j)
    BY <2>1, <2>3, <2>4
  <2>6. QED  BY <1>4, <2>5
<1>11. CASE j # 0
  <2>1. j \in Levels /\ j \in Nat /\ j - 1 \in 0..NumLevels /\ j - 1 < j
    BY <1>4, <1>11, GridAssumption DEF Levels
  <2>2. Good(j - 1)
    BY <1>3, <2>1
  <2> DEFINE p == f[j - 1]
  <2>3. p \in Decision /\ f[j] = Decide(ls, m, j, p)
    BY <1>5, <1>11, <2>2
  <2> HIDE DEF Sum
  <2>4. CASE f[j] = p
    <3>1. Good(j)
      BY <2>1, <2>2, <2>4
    <3>2. QED  BY <1>4, <3>1
  <2>5. CASE /\ ls[j].state = "pending" /\ ls[j].side \in {Buy, Sell} /\ f[j].chosen = p.chosen \cup {j}
             /\ \A t \in {Buy, Sell} :
                  IF ls[j].side = t
                  THEN Reach(t, f[j]) = Reach(t, p) + Size /\ Reach(t, f[j]) <= MaxPosition
                  ELSE Reach(t, f[j]) = Reach(t, p)
    <3>1. /\ f[j] \in Decision /\ f[j].chosen \subseteq 1..j
          /\ j \notin p.chosen /\ p.chosen \subseteq Levels
      <4>1. f[j] \in Decision
        <5> HIDE DEF p
        <5>1. QED  BY <2>1, <2>3, DecideEffect
      <4>2. p.chosen \subseteq 1..(j - 1)
        BY <2>2
      <4>3. 1..(j - 1) \subseteq 1..j /\ j \notin 1..(j - 1) /\ j \in 1..j
        BY <2>1
      <4>4. p.chosen \subseteq Levels
        BY <2>3 DEF Decision
      <4> HIDE DEF p
      <4>5. QED  BY <2>5, <4>1, <4>2, <4>3, <4>4
    <3>4. Sum(f[j].chosen) = Sum(p.chosen) + (IF ls[j].side = s THEN Size ELSE 0)
      <4>1. p.chosen \in SUBSET Levels
        BY <3>1
      <4> HIDE DEF p
      <4>2. Sum(p.chosen \cup {j}) = Sum(p.chosen) + (IF ls[j].side = s THEN Size ELSE 0)
        BY <2>1, <2>5, <3>1, <4>1, GrantOne DEF Sum
      <4>3. QED  BY <2>5, <4>2
    <3>5. Reach(s, p) = Toward(s, n) + Sum(p.chosen) /\ Toward(s, n) \in Int
      BY <2>2 DEF Toward
    <3>6. CASE ls[j].side = s
      <4>1. Reach(s, f[j]) = Reach(s, p) + Size /\ Reach(s, f[j]) <= MaxPosition
        BY <2>5, <3>6
      <4>2. Reach(s, f[j]) = Toward(s, n) + Sum(f[j].chosen)
        BY <1>9, <3>4, <3>5, <3>6, <4>1, GridAssumption
      <4>3. QED  BY <1>4, <3>1, <4>1, <4>2
    <3>7. CASE ls[j].side # s
      <4>1. Reach(s, f[j]) = Reach(s, p)
        BY <2>5, <3>7
      <4>2. Reach(s, f[j]) = Toward(s, n) + Sum(f[j].chosen)
        BY <1>9, <3>4, <3>5, <3>7, <4>1
      <4>3. (\E l \in f[j].chosen : ls[l].side = s) => Reach(s, f[j]) <= MaxPosition
        BY <2>2, <2>5, <3>7, <4>1
      <4>4. QED  BY <1>4, <3>1, <4>2, <4>3
    <3>8. QED  BY <3>6, <3>7
  <2>6. QED
    <3> HIDE DEF p
    <3>1. QED  BY <2>1, <2>3, <2>4, <2>5, DecideEffect
<1>12. QED  BY <1>10, <1>11

-----------------------------------------------------------------------------
(* The cap.                                                                *)

CapInv ==
  OnTrack => \A s \in {Buy, Sell} :
               Toward(s, position) + Rests(orders, s) <= Larger(MaxPosition, Toward(s, start))

\* Orders that only shrink.
LEMMA RestsShrink ==
  ASSUME NEW os \in [Cids -> OrderRecord], NEW new \in [Cids -> OrderRecord], NEW s,
         \A c \in Cids : new[c].side = s => os[c].side = s /\ new[c].left <= os[c].left
  PROVE  Rests(new, s) <= Rests(os, s)
<1>1. /\ Rests(os, s) = Total(LeftOf(os, s), Cids) /\ Rests(new, s) = Total(LeftOf(new, s), Cids)
      /\ \A c \in Cids : LeftOf(os, s)[c] \in Int /\ LeftOf(os, s)[c] >= 0 /\ LeftOf(new, s)[c] \in Int
  BY RestsTotal
<1>2. \A c \in Cids : LeftOf(new, s)[c] <= LeftOf(os, s)[c]
  BY <1>1 DEF LeftOf
<1>3. QED  BY <1>1, <1>2, FiniteCids, TotalGrows

LEMMA RestsInt ==
  ASSUME NEW os \in [Cids -> OrderRecord], NEW s
  PROVE  Rests(os, s) \in Int
<1>1. /\ Rests(os, s) = Total(LeftOf(os, s), Cids)
      /\ \A c \in Cids : LeftOf(os, s)[c] \in Int
  BY RestsTotal
<1>2. QED  BY <1>1, FiniteCids, TotalType

\* After a batch, what rests of a side fits with the position, or is none of the batch.
LEMMA BatchCapped ==
  ASSUME IInv, IInv', NEW ls, LevelsTyped(ls, issued), NEW n \in Int, PlacePending(ls, n), lost' = 0,
         Track(levels', orders', trades'), n + Flow(trades') = position', NEW s \in {Buy, Sell}
  PROVE  \/ Toward(s, position') + Rests(orders', s) <= MaxPosition
         \/ Rests(orders', s) <= Rests(orders, s)
<1>0. /\ issued \in Nat /\ lost \in Nat /\ orders \in [Cids -> OrderRecord]
  BY TypeSplit, GridAssumption DEF IInv, ActorTyped, VenueTyped
<1>1. /\ issued' \in Nat /\ LevelsTyped(levels', issued') /\ orders' \in [Cids -> OrderRecord]
      /\ trades' \in Seq(TradeEvent) /\ RecordInv' /\ HeldBy(levels', orders') /\ position' \in Int
  <2>1. TypeOK' /\ RecordInv' /\ HeldBy(levels', orders')
    BY DEF IInv, HeldBy
  <2>2. ActorTyped' /\ VenueTyped'
    BY <2>1, TypeSplit, PTL
  <2>3. QED  BY <2>1, <2>2, GridAssumption DEF ActorTyped, VenueTyped
<1>2. Flow(trades') \in Int
  <2>1. \A t \in TradeEvent : t.qty \in Int
    BY DEF TradeEvent
  <2>2. QED  BY <1>1, <2>1, FlowType
<1>3. Toward(s, Flow(trades')) + Rests(orders', s) <= ActiveRemaining(levels', s)
  <2>1. /\ \A i \in DOMAIN trades' : trades'[i].qty * orders'[trades'[i].cid].side > 0
        /\ \A c \in Cids : orders'[c].side # 0 => orders'[c].level \in Levels
    BY <1>1 DEF RecordInv
  <2>2. QED  BY <1>1, <2>1, Committed
<1>4. PICK m \in 0..NumLevels, told, taken \in SUBSET Levels :
        Placement(ls, Chosen(ls, n, m), told, taken)
  BY <1>0, PlaceEffect
<1> DEFINE C == Chosen(ls, n, m)
<1>5. C \subseteq {l \in Levels : ls[l].state = "pending"} /\ told \subseteq C /\ taken \subseteq C
  BY <1>4 DEF Placement
<1>6. CASE \E x \in C : ls[x].side = s
  <2>1. Toward(s, n) + Total(Granted(ls, C, s), Levels) <= MaxPosition
    BY <1>0, <1>6, ChosenBound
  <2>2. /\ ActiveRemaining(levels', s) = Total(OpenAt(levels', s), Levels)
        /\ \A l \in Levels : OpenAt(levels', s)[l] \in Int
    BY <1>1, OpenTotal
  <2>3. \A l \in Levels : OpenAt(ls, s)[l] \in Int /\ OpenAt(ls, s)[l] >= 0
    BY <1>0, OpenTotal
  <2>4. \A l \in Levels : Granted(ls, C, s)[l] \in Int
    BY <2>3, GridAssumption DEF Granted
  <2>5. ASSUME NEW l \in Levels PROVE OpenAt(levels', s)[l] <= Granted(ls, C, s)[l]
    <3>1. CASE l \in told
      <4>1. l \in C /\ levels'[l] = [ls[l] EXCEPT !.state = "active", !.cid = CidOf(C, l)]
        BY <1>4, <1>5, <3>1 DEF Placement
      <4>2. ls[l] \in LevelRecord(issued)
        BY DEF LevelsTyped
      <4>3. levels'[l].side = ls[l].side /\ levels'[l].filled = ls[l].filled /\ ls[l].filled \in 0..(Size - 1)
        BY <4>1, <4>2 DEF LevelRecord
      <4>4. Larger(Size - levels'[l].filled, 0) <= Size
        BY <4>3, GridAssumption DEF Larger
      <4>5. CASE ls[l].side = s
        <5>1. Granted(ls, C, s)[l] = Size
          BY <4>1, <4>5 DEF Granted
        <5>2. OpenAt(levels', s)[l] <= Size
          BY <4>4, GridAssumption DEF OpenAt
        <5>3. QED  BY <5>1, <5>2
      <4>6. CASE ls[l].side # s
        <5>1. OpenAt(levels', s)[l] = 0
          BY <4>3, <4>6 DEF OpenAt
        <5>2. Granted(ls, C, s)[l] = OpenAt(ls, s)[l]
          BY <4>6 DEF Granted
        <5>3. QED  BY <2>3, <5>1, <5>2
      <4>7. QED  BY <4>5, <4>6
    <3>2. CASE l \notin told
      <4>1. levels'[l] = ls[l]
        BY <1>4, <3>2 DEF Placement
      <4>2. OpenAt(levels', s)[l] = OpenAt(ls, s)[l]
        BY <4>1 DEF OpenAt
      <4>3. CASE l \in C
        <5>1. OpenAt(ls, s)[l] = 0
          BY <1>5, <4>3 DEF OpenAt
        <5>2. Granted(ls, C, s)[l] >= 0
          BY <2>3, GridAssumption DEF Granted
        <5>3. QED  BY <4>2, <5>1, <5>2
      <4>4. CASE l \notin C
        <5>1. Granted(ls, C, s)[l] = OpenAt(ls, s)[l]
          BY <4>4 DEF Granted
        <5>2. QED  BY <2>3, <4>2, <5>1
      <4>5. QED  BY <4>3, <4>4
    <3>3. QED  BY <3>1, <3>2
  <2> HIDE DEF C
  <2>6. Total(OpenAt(levels', s), Levels) <= Total(Granted(ls, C, s), Levels)
    BY <2>2, <2>4, <2>5, FiniteLevels, TotalGrows
  <2>7. /\ Total(OpenAt(levels', s), Levels) \in Int /\ Total(Granted(ls, C, s), Levels) \in Int
        /\ Rests(orders', s) \in Int
    BY <1>1, <2>2, <2>4, FiniteLevels, TotalType, RestsInt
  <2>8. Toward(s, position') = Toward(s, n) + Toward(s, Flow(trades'))
        /\ Toward(s, n) \in Int /\ Toward(s, Flow(trades')) \in Int
    BY <1>1, <1>2 DEF Toward
  <2>9. QED  BY <1>3, <2>1, <2>2, <2>6, <2>7, <2>8, GridAssumption
<1>7. CASE \A x \in C : ls[x].side # s
  <2>1. ASSUME NEW c \in Cids, orders'[c].side = s
        PROVE  orders[c].side = s /\ orders'[c].left <= orders[c].left
    <3>1. ASSUME NEW l \in taken PROVE orders'[CidOf(C, l)].side = ls[l].side /\ ls[l].side # s
      <4>1. orders'[CidOf(C, l)] = [level |-> l, side |-> ls[l].side, left |-> Size]
        BY <1>4 DEF Placement
      <4>2. l \in C
        BY <1>5
      <4> HIDE DEF C
      <4>3. QED  BY <1>7, <4>1, <4>2
    <3>2. \A l \in taken : c # CidOf(C, l)
      BY <2>1, <3>1
    <3>3. orders'[c] = orders[c]
      BY <1>4, <3>2 DEF Placement
    <3>4. orders[c].left \in Int
      BY <1>0, GridAssumption DEF OrderRecord
    <3>5. QED  BY <2>1, <3>3, <3>4
  <2>2. QED  BY <1>0, <1>1, <2>1, RestsShrink
<1>8. QED  BY <1>6, <1>7

LEMMA CapStep ==
  ASSUME IInv, IInv', TrackInv', InventoryExact', CapInv, [Next]_vars
  PROVE  CapInv'
<1> SUFFICES ASSUME OnTrack', NEW s \in {Buy, Sell}
             PROVE  Toward(s, position') + Rests(orders', s) <= Larger(MaxPosition, Toward(s, start'))
  BY DEF CapInv
<1>0. /\ ActorTyped /\ VenueTyped /\ FlagsTyped /\ issued \in Nat /\ lost \in Nat /\ TypeOK
      /\ RecordInv /\ HeldBy(levels, orders) /\ NewInv
      /\ orders \in [Cids -> OrderRecord] /\ position \in Int /\ start \in Int
  BY TypeSplit, GridAssumption DEF IInv, ActorTyped, VenueTyped
<1>1. /\ orders' \in [Cids -> OrderRecord] /\ position' \in Int /\ net' \in Int /\ Flow(trades') \in Int
      /\ Track(levels', orders', trades') /\ net' + Flow(trades') = position'
  <2>1. TypeOK'
    BY DEF IInv
  <2>2. ActorTyped' /\ VenueTyped'
    BY <2>1, TypeSplit, PTL
  <2>3. trades' \in Seq(TradeEvent) /\ orders' \in [Cids -> OrderRecord] /\ position' \in Int /\ net' \in Int
    BY <2>2 DEF ActorTyped, VenueTyped
  <2>4. \A t \in TradeEvent : t.qty \in Int
    BY DEF TradeEvent
  <2>5. Flow(trades') \in Int
    BY <2>3, <2>4, FlowType
  <2>6. net' + Flow(trades') = position'
    BY DEF InventoryExact, OnTrack, QueuedQty, Flow
  <2>7. QED  BY <2>3, <2>5, <2>6 DEF TrackInv
<1>2. /\ Rests(orders, s) \in Int /\ Rests(orders', s) \in Int
      /\ Toward(s, position) \in Int /\ Toward(s, position') \in Int
      /\ Toward(s, start) \in Int /\ MaxPosition \in Int
  BY <1>0, <1>1, RestsInt, GridAssumption DEF Toward
<1>3. phase' = "running" /\ ~disconnected' /\ ~raced' /\ lost' = 0
  BY DEF OnTrack
<1>4. start' = start
  BY DEF Next, vars, Start, Refuse, WindDown, HandleTrade, HandleCancelled, Tick, TickBegins,
         TickDisconnected, Fill, VenueCancel, Disconnect
<1> DEFINE Goal == Toward(s, position') + Rests(orders', s) <= Larger(MaxPosition, Toward(s, start))
           Before == Toward(s, position) + Rests(orders, s) <= Larger(MaxPosition, Toward(s, start))
           Less == Toward(s, position') + Rests(orders', s) <= Toward(s, position) + Rests(orders, s)
<1>5. /\ Less /\ Before => Goal
      /\ Toward(s, position') + Rests(orders', s) <= MaxPosition => Goal
      /\ position' = position /\ Rests(orders', s) <= Rests(orders, s) => Less
  BY <1>2 DEF Larger
<1>6. UNCHANGED <<phase, disconnected>> /\ ~raced /\ lost = 0 => Before
  BY <1>3 DEF CapInv, OnTrack
<1> SUFFICES Goal
  BY <1>4
<1> HIDE DEF Goal, Before, Less
<1>7. ASSUME NEW ls, LevelsTyped(ls, issued), PlacePending(ls, net'), position' = position,
             Before
      PROVE  Goal
  <2>1. \/ Toward(s, position') + Rests(orders', s) <= MaxPosition
        \/ Rests(orders', s) <= Rests(orders, s)
    BY <1>1, <1>3, <1>7, BatchCapped
  <2>2. QED  BY <1>5, <1>7, <2>1
<1>8. ASSUME NEW ls, NEW n, PlacePending(ls, n) \/ NothingPlaced(ls)
      PROVE  lost = 0
  <2>1. CASE PlacePending(ls, n)
    <3>1. PICK m \in 0..NumLevels, told, taken \in SUBSET Levels :
            Placement(ls, Chosen(ls, n, m), told, taken)
      BY <1>0, <2>1, PlaceEffect
    <3>2. lost' = lost \/ lost' = lost + 1
      BY <3>1 DEF Placement
    <3>3. QED  BY <1>0, <1>3, <3>2
  <2>2. CASE NothingPlaced(ls)
    BY <1>3, <2>2 DEF NothingPlaced
  <2>3. QED  BY <1>8, <2>1, <2>2
<1>9. orders' = orders => Rests(orders', s) <= Rests(orders, s)
  BY <1>2
<1>10. LevelsTyped(levels, issued) /\ Fewer(levels)
  BY <1>0 DEF ActorTyped, Fewer
<1>11. CASE Start
  <2>1. phase = "new" /\ PlacePending(ComputeLevels, position) /\ net' = position /\ position' = position
    BY <1>11 DEF Start
  <2>2. LevelsTyped(ComputeLevels, issued)
    BY <1>0, SetUp
  <2>3. Before
    <3>1. position = start /\ \A c \in Cids : orders[c].left = 0
      BY <1>0, <2>1 DEF NewInv, NoOrder
    <3>2. /\ Rests(orders, s) = Total(LeftOf(orders, s), Cids)
          /\ \A c \in Cids : LeftOf(orders, s)[c] \in Int /\ LeftOf(orders, s)[c] = 0
      BY <1>0, <3>1, RestsTotal DEF LeftOf
    <3>3. Rests(orders, s) = 0
      BY <3>2, FiniteCids, TotalType
    <3>4. QED  BY <1>2, <3>1, <3>3 DEF Before, Larger
  <2>4. QED  BY <1>7, <2>1, <2>2, <2>3
<1>12. CASE HandleTrade
  <2>1. /\ trades # <<>> /\ UNCHANGED <<phase, position, disconnected, raced>>
        /\ \/ NothingPlaced(levels)
           \/ \E l \in Holders(Head(trades).cid) :
                PlacePending(RecordFill(l, Head(trades).qty * levels[l].side), net')
    BY <1>12 DEF HandleTrade, Counted, flags
  <2>2. lost = 0
    BY <1>8, <2>1
  <2>3. Before
    BY <1>3, <1>6, <2>1, <2>2
  <2>4. CASE NothingPlaced(levels)
    <3>1. orders' = orders
      BY <2>4 DEF NothingPlaced
    <3>2. QED  BY <1>5, <1>9, <2>1, <2>3, <3>1
  <2>5. ASSUME NEW l \in Holders(Head(trades).cid),
               PlacePending(RecordFill(l, Head(trades).qty * levels[l].side), net')
        PROVE  Goal
    <3> DEFINE qty == Head(trades).qty * levels[l].side
    <3>1. LevelsTyped(RecordFill(l, qty), issued)
      <4>1. l \in Levels /\ levels[l].state = "active" /\ qty \in Nat /\ qty > 0
        BY <1>0, <2>1, HeldTrade
      <4> HIDE DEF qty
      <4>2. QED  BY <1>0, <1>10, <4>1, RecordFillTyped
    <3>2. QED  BY <1>7, <2>1, <2>3, <2>5, <3>1
  <2>6. QED  BY <2>1, <2>4, <2>5
<1>13. ASSUME NEW c \in Cids, HandleCancelled(c) PROVE Goal
  <2>1. /\ UNCHANGED <<phase, disconnected, lost, orders, position>>
        /\ raced' = (raced \/ \E l \in Holders(c) : TooEarly(l))
    BY <1>13 DEF HandleCancelled, flags
  <2>2. ~raced
    BY <1>0, <1>3, <2>1, Zenon
  <2>3. QED  BY <1>3, <1>5, <1>6, <1>9, <2>1, <2>2
<1>14. CASE Tick
  <2>0. UNCHANGED <<phase, disconnected, net, position>>
    BY <1>14 DEF Tick, TickBegins, flags
  <2>1. CASE TickSuspends
    <3>1. /\ raced' = (raced \/ trades # <<>> \/ orders' # AllCancelled) /\ lost' = lost
      BY <2>1 DEF TickSuspends
    <3>2. ~raced /\ orders' = AllCancelled
      BY <1>3, <3>1, Zenon
    <3>3. ASSUME NEW c \in Cids, orders'[c].side = s
          PROVE  orders[c].side = s /\ orders'[c].left <= orders[c].left
      <4>1. orders'[c] = [orders[c] EXCEPT !.left = 0] /\ orders[c] \in OrderRecord
        BY <1>0, <3>2 DEF AllCancelled
      <4>2. QED  BY <3>3, <4>1, GridAssumption DEF OrderRecord
    <3>4. Rests(orders', s) <= Rests(orders, s)
      BY <1>0, <1>1, <3>3, RestsShrink
    <3>5. QED  BY <1>3, <1>5, <1>6, <2>0, <3>1, <3>2, <3>4
  <2>2. CASE TickPaused
    <3>1. UNCHANGED <<orders, lost, raced>>
      BY <2>2 DEF TickPaused
    <3>2. QED  BY <1>3, <1>5, <1>6, <1>9, <2>0, <3>1
  <2>3. CASE TickPlaces
    <3>1. /\ raced' = (raced \/ \E l \in Missing : TooEarly(l))
          /\ PlacePending(Reconciled(Unpaused), net)
      BY <2>3 DEF TickPlaces
    <3>2. ~raced /\ lost = 0
      <4>1. ~raced
        BY <1>3, <3>1, Zenon
      <4>2. QED  BY <1>8, <3>1, <4>1
    <3>3. LevelsTyped(Reconciled(Unpaused), issued)
      BY <1>0, <1>10, ReconciledTyped
    <3>4. Before
      BY <1>6, <2>0, <3>2
    <3>5. QED  BY <1>7, <2>0, <3>1, <3>3, <3>4
  <2>4. CASE TickFails
    <3>1. NothingPlaced(Unpaused) /\ raced' = raced /\ lost' = lost /\ orders' = orders
      BY <2>4 DEF TickFails, NothingPlaced
    <3>2. QED  BY <1>3, <1>5, <1>6, <1>9, <2>0, <3>1
  <2>5. QED  BY <1>14, <2>1, <2>2, <2>3, <2>4 DEF Tick
<1>15. ASSUME NEW c \in Cids, Fill(c) PROVE Goal
  <2>1. PICK qty \in 1..orders[c].left :
          /\ orders' = [orders EXCEPT ![c].left = @ - qty]
          /\ position' = position + orders[c].side * qty
          /\ trades' = IF disconnected THEN trades
                       ELSE Append(trades, [cid |-> c, qty |-> orders[c].side * qty])
    BY <1>15 DEF Fill
  <2>2. UNCHANGED <<phase, disconnected, raced, lost>>
    BY <1>15 DEF Fill, flags
  <2>3. orders[c] \in OrderRecord /\ orders[c].side \in {Buy, Sell} /\ qty \in Nat \ {0}
    BY <1>0, <2>1, FillTrades
  <2>4. /\ orders[c].left \in Nat /\ orders'[c].left = orders[c].left - qty
        /\ orders'[c].side = orders[c].side
        /\ \A d \in Cids \ {c} : orders'[d] = orders[d]
    BY <1>0, <2>1, <2>3, GridAssumption DEF OrderRecord
  <2>5. /\ orders[c].side = Buy => position' = position + qty
        /\ orders[c].side = Sell => position' = position - qty
    <3>1. \A q \in Nat : 1 * q = q /\ (-1) * q = -q
      OBVIOUS
    <3>2. QED  BY <1>0, <2>1, <2>3, <3>1 DEF Buy, Sell
  <2>6. CASE orders[c].side = s
    <3>1. Toward(s, position') = Toward(s, position) + qty
      BY <1>0, <2>3, <2>5, <2>6 DEF Toward
    <3>2. Rests(orders', s) = Rests(orders, s) - qty
      <4>1. /\ Rests(orders, s) = Total(LeftOf(orders, s), Cids)
            /\ Rests(orders', s) = Total(LeftOf(orders', s), Cids)
            /\ \A d \in Cids : LeftOf(orders, s)[d] \in Int /\ LeftOf(orders', s)[d] \in Int
        BY <1>0, <1>1, RestsTotal
      <4>2. /\ LeftOf(orders, s)[c] = orders[c].left
            /\ LeftOf(orders', s)[c] = orders[c].left - qty
            /\ \A d \in Cids \ {c} : LeftOf(orders', s)[d] = LeftOf(orders, s)[d]
        BY <2>4, <2>6 DEF LeftOf
      <4>3. Total(LeftOf(orders', s), Cids)
            = Total(LeftOf(orders, s), Cids) - LeftOf(orders, s)[c] + LeftOf(orders', s)[c]
        BY <4>1, <4>2, FiniteCids, TotalChange
      <4>4. QED  BY <1>2, <2>3, <2>4, <4>1, <4>2, <4>3
    <3>3. Less
      BY <1>2, <2>3, <3>1, <3>2 DEF Less
    <3>4. QED  BY <1>3, <1>5, <1>6, <2>2, <3>3
  <2>7. CASE orders[c].side # s
    <3>1. Toward(s, position') = Toward(s, position) - qty
      BY <1>0, <2>3, <2>5, <2>7 DEF Toward, Buy, Sell
    <3>2. \A d \in Cids : orders'[d].side = s => orders[d].side = s /\ orders'[d].left <= orders[d].left
      <4>1. \A d \in Cids : orders[d].left \in Int
        BY <1>0, GridAssumption DEF OrderRecord
      <4>2. QED  BY <2>4, <2>7, <4>1
    <3>3. Rests(orders', s) <= Rests(orders, s)
      BY <1>0, <1>1, <3>2, RestsShrink
    <3>4. Less
      BY <1>2, <2>3, <3>1, <3>3 DEF Less
    <3>5. QED  BY <1>3, <1>5, <1>6, <2>2, <3>4
  <2>8. QED  BY <2>6, <2>7
<1>16. ASSUME NEW c \in Cids, VenueCancel(c) PROVE Goal
  <2>1. /\ UNCHANGED <<phase, disconnected, raced, lost, position>>
        /\ orders' = [orders EXCEPT ![c].left = 0]
    BY <1>16 DEF VenueCancel, flags
  <2>2. ASSUME NEW d \in Cids, orders'[d].side = s
        PROVE  orders[d].side = s /\ orders'[d].left <= orders[d].left
    <3>1. orders[d] \in OrderRecord
      BY <1>0
    <3>2. orders'[d] = IF d = c THEN [orders[d] EXCEPT !.left = 0] ELSE orders[d]
      BY <1>0, <2>1
    <3>3. QED  BY <2>2, <3>1, <3>2, GridAssumption DEF OrderRecord
  <2>3. Rests(orders', s) <= Rests(orders, s)
    BY <1>0, <1>1, <2>2, RestsShrink
  <2>4. QED  BY <1>3, <1>5, <1>6, <2>1, <2>3
<1>17. CASE TickDisconnected \/ UNCHANGED vars
  <2>1. UNCHANGED <<phase, disconnected, raced, lost, position, orders>>
    BY <1>17 DEF TickDisconnected, vars, gridVars, venueVars, flags
  <2>2. QED  BY <1>3, <1>5, <1>6, <1>9, <2>1
<1>18. CASE Refuse \/ WindDown \/ Disconnect
  BY <1>3, <1>18 DEF Refuse, WindDown, Disconnect
<1>19. QED  BY <1>11, <1>12, <1>13, <1>14, <1>15, <1>16, <1>17, <1>18 DEF Next

LEMMA CapHolds == Spec => []CapInv
<1>1. Init => CapInv
  BY DEF Init, CapInv, OnTrack
<1>2. /\ IInv /\ IInv' /\ TrackInv' /\ InventoryExact' /\ CapInv /\ [Next]_vars => CapInv'
  BY CapStep
<1>3. QED  BY <1>1, <1>2, IInvHolds, TrackHolds, TrackerIsExact, PTL DEF Spec

\* Whatever of the resting orders fills, in whatever order, the position stays within
\* max_position, or where it was at the start, as long as the grid has lost track of none
\* (strategy.rs, place_pending_orders; config.rs:52 "Hard inventory cap").
THEOREM WorstCaseHolds == Spec => []WorstCaseCapped
<1>1. ASSUME IInv, CapInv PROVE WorstCaseCapped
  <2> SUFFICES ASSUME OnTrack
               PROVE  /\ position + RestingOf(Buy) <= Larger(MaxPosition, start)
                      /\ position - RestingOf(Sell) >= -Larger(MaxPosition, -start)
    BY DEF WorstCaseCapped
  <2>1. /\ position \in Int /\ start \in Int /\ MaxPosition \in Int
        /\ Rests(orders, Buy) \in Int /\ Rests(orders, Sell) \in Int
    BY <1>1, TypeSplit, RestsInt, GridAssumption DEF IInv, ActorTyped, VenueTyped
  <2>2. Buy # Sell
    BY DEF Buy, Sell
  <2>3. Toward(Buy, position) + Rests(orders, Buy) <= Larger(MaxPosition, Toward(Buy, start))
    BY <1>1 DEF CapInv
  <2>4. Toward(Sell, position) + Rests(orders, Sell) <= Larger(MaxPosition, Toward(Sell, start))
    BY <1>1 DEF CapInv
  <2>5. RestingOf(Buy) = Rests(orders, Buy) /\ RestingOf(Sell) = Rests(orders, Sell)
    BY RestingRests
  <2>6. position + Rests(orders, Buy) <= Larger(MaxPosition, start)
    BY <2>3 DEF Toward
  <2>7. -position + Rests(orders, Sell) <= Larger(MaxPosition, -start)
    BY <2>2, <2>4 DEF Toward
  <2>8. Larger(MaxPosition, -start) \in Int
    BY <2>1 DEF Larger
  <2>9. QED  BY <2>1, <2>5, <2>6, <2>7, <2>8
<1>2. QED  BY <1>1, IInvHolds, CapHolds, PTL
=============================================================================
