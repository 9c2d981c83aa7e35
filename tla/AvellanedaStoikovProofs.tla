----------------------- MODULE AvellanedaStoikovProofs -----------------------
(***************************************************************************)
(* The Avellaneda-Stoikov market maker loses an order in no other way than *)
(* by a wrong answer or a partial fill (RestingIsTracked), for any ladder, *)
(* sizes, limits and number of client ids.  The inductive invariant adds   *)
(* that a slot holds a client id of its own rung, and that the venue is    *)
(* sound: a report of an end never comes before the end.                   *)
(***************************************************************************)
EXTENDS AvellanedaStoikov, TLAPS

\* An outcome speaks of entries of the batch only.
Answers(o, batch) == o.told \subseteq batch /\ o.gone \subseteq batch /\ o.taken \subseteq batch

\* A venue between two calls: an order of which nothing rests is the only one
\* whose end is reported, and no more than its size has filled.
Sound(v) ==
  /\ v.order \in [Cids -> 0..Size] /\ v.reports \subseteq Cids \X {"open", "ended"}
  /\ queued \in [Cids -> 0..Size]
  /\ \A c \in Cids : /\ v.order[c] + queued[c] <= Size
                     /\ <<c, "ended">> \in v.reports => v.order[c] = 0

-----------------------------------------------------------------------------
(* The answers of the brokers.                                             *)

\* Cancels, at either exchange.
LEMMA CancelAnswers ==
  ASSUME NEW venueOf, NEW batch, NEW byOid \in SUBSET batch,
         NEW o \in Calls!CancelOrders(venueOf, batch, byOid)
  PROVE  Answers(o, batch)
<1>1. CASE venueOf = "bullet"
  BY <1>1 DEF Answers, Calls!CancelOrders, Calls!Bullet!CancelOrders, Calls!Bullet!Outcome
<1>2. CASE venueOf # "bullet"
  BY <1>2 DEF Answers, Calls!CancelOrders, Calls!Hyperliquid!CancelOrders,
              Calls!Hyperliquid!Outcome
<1> QED BY <1>1, <1>2

\* Placements, at either exchange.
LEMMA PlaceAnswers ==
  ASSUME NEW venueOf, NEW batch, NEW o \in Calls!PlaceOrders(venueOf, batch)
  PROVE  Answers(o, batch)
<1>1. CASE venueOf = "bullet"
  BY <1>1 DEF Answers, Calls!PlaceOrders, Calls!Bullet!PlaceOrders, Calls!Bullet!Outcome
<1>2. CASE venueOf # "bullet"
  BY <1>2 DEF Answers, Calls!PlaceOrders, Calls!Hyperliquid!PlaceOrders,
              Calls!Hyperliquid!Outcome
<1> QED BY <1>1, <1>2

\* Amends, at either exchange: at Hyperliquid those by order id are modified,
\* the others cancelled and placed.
LEMMA AmendAnswers ==
  ASSUME NEW venueOf, NEW batch, NEW byOid \in SUBSET batch,
         NEW o \in Calls!AmendOrders(venueOf, batch, byOid)
  PROVE  Answers(o, batch)
<1>1. CASE venueOf = "bullet"
  BY <1>1 DEF Answers, Calls!AmendOrders, Calls!Bullet!AmendOrders, Calls!Bullet!Outcome
<1>2. CASE venueOf # "bullet"
  <2> DEFINE rest == batch \ byOid
             modified == Calls!Hyperliquid!Modify(batch \cap byOid)
             replaced == Calls!Hyperliquid!CancelThenPlace(
                           Calls!Hyperliquid!CancelOrders(rest, {}), Calls!Hyperliquid!PlaceOrders(rest))
  <2>1. o \in Calls!Hyperliquid!Joined(modified, replaced)
    BY <1>2 DEF Calls!AmendOrders, Calls!Hyperliquid!AmendOrders
  <2>2. \A x \in modified : Answers(x, batch)
    BY DEF Answers, Calls!Hyperliquid!Modify, Calls!Hyperliquid!PlaceOrders, Calls!Hyperliquid!Outcome
  <2>3. \A y \in replaced : Answers(y, batch)
    BY DEF Answers, Calls!Hyperliquid!CancelThenPlace, Calls!Hyperliquid!CancelOrders,
           Calls!Hyperliquid!PlaceOrders, Calls!Hyperliquid!Outcome
  <2> HIDE DEF modified, replaced
  <2>4. PICK x \in modified, y \in replaced :
          o = [told |-> x.told \cup y.told, gone |-> x.gone \cup y.gone,
               taken |-> x.taken \cup y.taken, named |-> x.named \cup y.named]
    BY <2>1 DEF Calls!Hyperliquid!Joined, Calls!Hyperliquid!Outcome
  <2>5. Answers(x, batch) /\ Answers(y, batch)
    BY <2>2, <2>3
  <2> QED BY <2>4, <2>5 DEF Answers
<1> QED BY <1>1, <1>2

\* What ends all orders ends orders that rest.
LEMMA CancelAllAnswers ==
  ASSUME NEW venueOf, NEW c \in Calls!CancelAllOrders(venueOf, Resting)
  PROVE  c.gone \subseteq Resting /\ c.gone \in SUBSET Cids
<1>1. CASE venueOf = "bullet"
  <2>1. c = [ok |-> TRUE, gone |-> Resting] \/ c \in [ok : {FALSE}, gone : {{}, Resting}]
    BY <1>1 DEF Calls!CancelAllOrders, Calls!Bullet!CancelAllOrders
  <2>2. CASE c = [ok |-> TRUE, gone |-> Resting]
    BY <2>2 DEF Resting
  <2>3. CASE c \in [ok : {FALSE}, gone : {{}, Resting}]
    <3>1. c.gone \in {{}, Resting}
      BY <2>3
    <3> QED BY <3>1 DEF Resting
  <2> QED BY <2>1, <2>2, <2>3
<1>2. CASE venueOf # "bullet"
  <2>1. c \in [ok : {TRUE}, gone : SUBSET Resting] \/ c = [ok |-> FALSE, gone |-> {}]
    BY <1>2 DEF Calls!CancelAllOrders, Calls!Hyperliquid!CancelAllOrders
  <2>2. CASE c \in [ok : {TRUE}, gone : SUBSET Resting]
    <3>1. c.gone \in SUBSET Resting
      BY <2>2
    <3> QED BY <3>1 DEF Resting
  <2>3. CASE c = [ok |-> FALSE, gone |-> {}]
    BY <2>3
  <2> QED BY <2>1, <2>2, <2>3
<1> QED BY <1>1, <1>2

-----------------------------------------------------------------------------
(* Client ids.                                                             *)

\* A client id that is issued is one of its quote, which nothing refers to.
LEMMA IssueFresh ==
  ASSUME NEW quotes, NEW held, CanIssue(quotes, held), Sound(Now), NEW q \in quotes
  PROVE  LET c == Issue(quotes, held)[q]
         IN  /\ c \in Cids /\ At(c) = q /\ c \notin held
             /\ order[c] = 0 /\ queued[c] = 0 /\ <<c, "ended">> \notin reports
<1> DEFINE c == Issue(quotes, held)[q]
<1>1. c \in Unused(held) /\ At(c) = q
  BY DEF CanIssue, Issue
<1>2. c \in Cids /\ c \notin held /\ c \notin Resting /\ ~Unheard(c)
  BY <1>1 DEF Unused
<1>3. order[c] \in 0..Size /\ queued[c] \in 0..Size /\ Size \in Nat
  BY <1>2, OrderVenueAssumption DEF Sound, Now
<1>4. order[c] = 0 /\ queued[c] = 0
  BY <1>2, <1>3 DEF Resting, Unheard
<1>5. <<c, "ended">> \notin reports
  BY <1>2 DEF Unheard
<1> QED BY <1>1, <1>2, <1>4, <1>5

\* No client id is the one of an empty slot.
LEMMA CidsAreIds == <<>> \notin Cids
BY DEF Cids

\* Every client id belongs to a quote.
LEMMA AtQuote == ASSUME NEW c \in Cids PROVE At(c) \in Quotes
BY DEF Cids, At

-----------------------------------------------------------------------------
(* The venue.                                                              *)

\* Ending orders keeps the venue sound.
LEMMA EndedSound ==
  ASSUME NEW v, Sound(v), NEW ids \in SUBSET Cids
  PROVE  /\ Sound(Ended(v, ids))
         /\ Ended(v, ids).order = [c \in Cids |-> IF c \in ids THEN 0 ELSE v.order[c]]
         /\ Ended(v, ids).reports = v.reports \cup {<<c, "ended">> : c \in {d \in ids : v.order[d] > 0}}
<1> DEFINE w == Ended(v, ids)
<1>1. w.order = [c \in Cids |-> IF c \in ids THEN 0 ELSE v.order[c]]
  BY DEF Ended
<1>2. w.reports = v.reports \cup {<<c, "ended">> : c \in {d \in ids : v.order[d] > 0}}
  BY DEF Ended
<1>3. w.order \in [Cids -> 0..Size]
  BY <1>1, OrderVenueAssumption DEF Sound
<1>4. w.reports \subseteq Cids \X {"open", "ended"}
  BY <1>2 DEF Sound
<1>5. ASSUME NEW c \in Cids
      PROVE  w.order[c] + queued[c] <= Size /\ (<<c, "ended">> \in w.reports => w.order[c] = 0)
  <2>1. w.order[c] = IF c \in ids THEN 0 ELSE v.order[c]
    BY <1>1
  <2>2. v.order[c] \in 0..Size /\ queued[c] \in 0..Size /\ v.order[c] + queued[c] <= Size
    BY DEF Sound
  <2>3. w.order[c] + queued[c] <= Size
    BY <2>1, <2>2, OrderVenueAssumption
  <2>4. <<c, "ended">> \in w.reports => c \in ids \/ <<c, "ended">> \in v.reports
    BY <1>2
  <2>5. <<c, "ended">> \in w.reports => w.order[c] = 0
    BY <2>1, <2>4 DEF Sound
  <2> QED BY <2>3, <2>5
<1>6. Sound(w)
  <2> HIDE DEF w
  <2> QED BY <1>3, <1>4, <1>5 DEF Sound
<1> QED BY <1>1, <1>2, <1>6

\* So does taking orders under client ids that nothing refers to.
LEMMA TakenSound ==
  ASSUME NEW v, Sound(v), NEW ids \in SUBSET Cids,
         \A c \in ids : queued[c] = 0 /\ <<c, "ended">> \notin v.reports
  PROVE  /\ Sound(Taken(v, ids))
         /\ Taken(v, ids).order = [c \in Cids |-> IF c \in ids THEN Size ELSE v.order[c]]
         /\ Taken(v, ids).reports = v.reports \cup {<<c, "open">> : c \in ids}
<1> DEFINE w == Taken(v, ids)
<1>1. w.order = [c \in Cids |-> IF c \in ids THEN Size ELSE v.order[c]]
  BY DEF Taken
<1>2. w.reports = v.reports \cup {<<c, "open">> : c \in ids}
  BY DEF Taken
<1>3. w.order \in [Cids -> 0..Size]
  BY <1>1, OrderVenueAssumption DEF Sound
<1>4. w.reports \subseteq Cids \X {"open", "ended"}
  BY <1>2 DEF Sound
<1>5. ASSUME NEW c \in Cids
      PROVE  w.order[c] + queued[c] <= Size /\ (<<c, "ended">> \in w.reports => w.order[c] = 0)
  <2>1. w.order[c] = IF c \in ids THEN Size ELSE v.order[c]
    BY <1>1
  <2>2. v.order[c] \in 0..Size /\ queued[c] \in 0..Size /\ v.order[c] + queued[c] <= Size
    BY DEF Sound
  <2>3. w.order[c] + queued[c] <= Size
    <3>1. CASE c \in ids
      <4>1. queued[c] = 0 /\ w.order[c] = Size
        BY <2>1, <3>1
      <4> QED BY <4>1, OrderVenueAssumption
    <3>2. CASE c \notin ids
      BY <2>1, <2>2, <3>2
    <3> QED BY <3>1, <3>2
  <2>4. <<c, "ended">> \in w.reports => c \notin ids /\ <<c, "ended">> \in v.reports
    BY <1>2
  <2>5. <<c, "ended">> \in w.reports => w.order[c] = 0
    BY <2>1, <2>4 DEF Sound
  <2> QED BY <2>3, <2>5
<1>6. Sound(w)
  <2> HIDE DEF w
  <2> QED BY <1>3, <1>4, <1>5 DEF Sound
<1> QED BY <1>1, <1>2, <1>6

\* So does reporting the end of orders that do not rest.
LEMMA RejectedSound ==
  ASSUME NEW v, Sound(v), NEW ids \in SUBSET Cids, \A c \in ids : v.order[c] = 0
  PROVE  Sound(Rejected(v, ids)) /\ Rejected(v, ids).order = v.order
<1> DEFINE w == Rejected(v, ids)
<1>1. w.order = v.order /\ w.reports = v.reports \cup {<<c, "ended">> : c \in ids}
  BY DEF Rejected
<1> HIDE DEF w
<1>2. \A c \in Cids : <<c, "ended">> \in w.reports => w.order[c] = 0
  BY <1>1 DEF Sound
<1>3. w.reports \subseteq Cids \X {"open", "ended"}
  BY <1>1 DEF Sound
<1>4. Sound(w)
  BY <1>1, <1>2, <1>3 DEF Sound
<1> QED BY <1>1, <1>4 DEF w

\* The venue becomes what the calls have made of it.
LEMMA BecomesSound ==
  ASSUME NEW v, Sound(v), Becomes(v)
  PROVE  Sound(Now)' /\ order' = v.order
BY DEF Sound, Becomes, Now

\* Some resting orders end.
LEMMA EndingSound ==
  ASSUME Sound(Now), NEW ids \in SUBSET Cids, Becomes(Ended(Now, ids))
  PROVE  /\ Sound(Now)'
         /\ order' = [c \in Cids |-> IF c \in ids THEN 0 ELSE order[c]]
<1>1. Sound(Ended(Now, ids)) /\ Ended(Now, ids).order = [c \in Cids |-> IF c \in ids THEN 0 ELSE Now.order[c]]
  BY EndedSound
<1>2. Now.order = order
  BY DEF Now
<1> QED BY <1>1, <1>2, BecomesSound

\* A fill that completes an order reports its end.
LEMMA FillSound ==
  ASSUME Sound(Now), NEW c \in Cids, Fill(c)
  PROVE  Sound(Now)' /\ \A d \in Cids : order'[d] > 0 => order[d] > 0
<1>1. PICK qty \in 1..order[c] :
        /\ order' = [order EXCEPT ![c] = @ - qty]
        /\ queued' = [queued EXCEPT ![c] = @ + qty]
        /\ reports' = IF qty = order[c] THEN reports \cup {<<c, "ended">>} ELSE reports
  BY DEF Fill
<1>2. /\ order \in [Cids -> 0..Size] /\ queued \in [Cids -> 0..Size] /\ Size \in Nat
      /\ reports \subseteq Cids \X {"open", "ended"}
      /\ \A d \in Cids : order[d] + queued[d] <= Size /\ (<<d, "ended">> \in reports => order[d] = 0)
  BY OrderVenueAssumption DEF Sound, Now
<1>3. order[c] \in 0..Size /\ queued[c] \in 0..Size /\ order[c] + queued[c] <= Size
  BY <1>2
<1>4. order[c] - qty \in 0..Size /\ queued[c] + qty \in 0..Size
  BY <1>2, <1>3
<1>5. order' \in [Cids -> 0..Size] /\ queued' \in [Cids -> 0..Size]
  BY <1>1, <1>2, <1>4
<1>6. reports' \subseteq Cids \X {"open", "ended"}
  BY <1>1, <1>2
<1>7. ASSUME NEW d \in Cids
      PROVE  order'[d] + queued'[d] <= Size /\ (<<d, "ended">> \in reports' => order'[d] = 0)
  <2>1. CASE d = c
    <3>1. order'[d] = order[c] - qty /\ queued'[d] = queued[c] + qty
      BY <1>1, <1>2, <2>1
    <3>2. order'[d] + queued'[d] <= Size
      BY <1>3, <3>1, <1>2
    <3>3. CASE qty = order[c]
      BY <1>3, <3>1, <3>2, <3>3
    <3>4. CASE qty # order[c]
      <4>1. <<c, "ended">> \notin reports
        BY <1>2, <1>3
      <4> QED BY <1>1, <2>1, <3>2, <3>4, <4>1
    <3> QED BY <3>3, <3>4
  <2>2. CASE d # c
    <3>1. order'[d] = order[d] /\ queued'[d] = queued[d]
      BY <1>1, <1>2, <2>2
    <3>2. <<d, "ended">> \in reports' => <<d, "ended">> \in reports
      BY <1>1, <2>2
    <3> QED BY <1>2, <3>1, <3>2
  <2> QED BY <2>1, <2>2
<1>8. \A d \in Cids : order'[d] > 0 => order[d] > 0
  BY <1>1, <1>2, <1>3
<1> QED BY <1>5, <1>6, <1>7, <1>8 DEF Sound, Now

\* Handling events, and losing them, only takes away.
LEMMA FewerSound ==
  ASSUME Sound(Now), order' = order, reports' \subseteq reports, queued' \in [Cids -> 0..Size],
         \A c \in Cids : queued'[c] <= queued[c]
  PROVE  Sound(Now)'
<1>1. /\ order \in [Cids -> 0..Size] /\ queued \in [Cids -> 0..Size] /\ Size \in Nat
      /\ reports \subseteq Cids \X {"open", "ended"}
      /\ \A d \in Cids : order[d] + queued[d] <= Size /\ (<<d, "ended">> \in reports => order[d] = 0)
  BY OrderVenueAssumption DEF Sound, Now
<1>2. ASSUME NEW c \in Cids
      PROVE  order'[c] + queued'[c] <= Size
  <2>1. order[c] \in 0..Size /\ queued[c] \in 0..Size /\ queued'[c] \in 0..Size
    BY <1>1
  <2>2. order[c] + queued[c] <= Size /\ queued'[c] <= queued[c] /\ order'[c] = order[c]
    BY <1>1
  <2> QED BY <1>1, <2>1, <2>2
<1> QED BY <1>1, <1>2 DEF Sound, Now

\* One trade is handled.
LEMMA TradeSound ==
  ASSUME Sound(Now), NEW c \in Cids, NEW qty \in 1..queued[c],
         queued' = [queued EXCEPT ![c] = @ - qty], UNCHANGED <<order, reports>>
  PROVE  Sound(Now)'
<1>1. queued \in [Cids -> 0..Size] /\ Size \in Nat
  BY OrderVenueAssumption DEF Sound, Now
<1>2. queued[c] \in 0..Size
  BY <1>1
<1>3. queued[c] - qty \in 0..Size /\ queued[c] - qty <= queued[c]
  BY <1>1, <1>2
<1>4. queued' \in [Cids -> 0..Size]
  BY <1>1, <1>3
<1>5. \A d \in Cids : queued'[d] <= queued[d]
  BY <1>1, <1>3
<1> QED BY <1>4, <1>5, FewerSound

\* An interruption loses trades and reports.
LEMMA GapSound ==
  ASSUME Sound(Now), LoseEvents
  PROVE  Sound(Now)'
<1>1. PICK lost \in SUBSET Cids : queued' = [c \in Cids |-> IF c \in lost THEN 0 ELSE queued[c]]
  BY DEF LoseEvents
<1>2. queued \in [Cids -> 0..Size] /\ Size \in Nat
  BY OrderVenueAssumption DEF Sound, Now
<1>3. queued' \in [Cids -> 0..Size] /\ \A c \in Cids : queued'[c] <= queued[c]
  BY <1>1, <1>2
<1>4. order' = order /\ reports' \subseteq reports
  BY DEF LoseEvents
<1> QED BY <1>3, <1>4, FewerSound

-----------------------------------------------------------------------------
(* The invariant.                                                          *)

Slots == [cid : Cids, oid : BOOLEAN]

\* Slots that hold client ids of their rungs.
Ladder(slots) ==
  /\ slots \in [Quotes -> {NoSlot} \cup Slots]
  /\ \A q \in Quotes : slots[q] # NoSlot => At(slots[q].cid) = q

Plain ==
  /\ life \in {"new", "running", "down"} /\ exchange \in Calls!Exchanges
  /\ signal \in BOOLEAN /\ dead \in BOOLEAN /\ shutdown \in BOOLEAN /\ net \in Int

LooseRests == loose \subseteq Resting

IInv == Plain /\ LooseRests /\ Ladder(slot) /\ Sound(Now) /\ RestingIsTracked

-----------------------------------------------------------------------------
(* The slots.                                                              *)

\* A slot whose client id is one of an order is held, and the other way round.
LEMMA HeldSlots ==
  ASSUME Ladder(slot)
  PROVE  /\ \A q \in Quotes : Held(q) => slot[q] \in Slots /\ slot[q].cid \in HeldCids
         /\ \A q \in Quotes : slot[q].cid \in Cids => Held(q)
         /\ HeldCids \subseteq Cids
         /\ \A d \in HeldCids : slot[At(d)].cid = d
<1>1. \A q \in Quotes : Held(q) => slot[q] \in Slots
  BY DEF Ladder, Held
<1>2. \A q \in Quotes : Held(q) => slot[q].cid \in HeldCids
  BY DEF HeldCids
<1>3. \A q \in Quotes : Held(q) => slot[q].cid \in Cids
  BY <1>1 DEF Slots
<1>4. NoSlot.cid = <<>>
  BY DEF NoSlot
<1>5. \A q \in Quotes : slot[q].cid \in Cids => Held(q)
  BY <1>4, CidsAreIds DEF Held
<1>6. HeldCids \subseteq Cids
  BY <1>3 DEF HeldCids
<1>7. \A d \in HeldCids : slot[At(d)].cid = d
  BY DEF HeldCids, Ladder, Held
<1> QED BY <1>1, <1>2, <1>5, <1>6, <1>7

\* The type invariant follows.
LEMMA Types == IInv => TypeOK
<1> SUFFICES ASSUME IInv PROVE TypeOK
  OBVIOUS
<1>1. VenueTypeOK
  BY DEF IInv, Sound, Now, VenueTypeOK
<1>2. \A c \in HeldCids : slot[At(c)].cid = c
  BY HeldSlots DEF IInv
<1>3. slot \in [Quotes -> {NoSlot} \cup [cid : Cids, oid : BOOLEAN]]
  BY DEF IInv, Ladder, Slots
<1>4. {signal, dead, shutdown} \subseteq BOOLEAN
  BY DEF IInv, Plain
<1> QED BY <1>1, <1>2, <1>3, <1>4 DEF TypeOK, IInv, Plain, LooseRests

-----------------------------------------------------------------------------
(* A refresh.                                                              *)

\* Reconciliation ends orders, and drops no slot of an order that rests.
LEMMA ReconciledKeeps ==
  ASSUME NEW kept, Ladder(kept), NEW v, Sound(v), NEW answered,
         NEW r \in Reconciled(kept, v, answered)
  PROVE  /\ Ladder(r.slots) /\ Sound(r.v)
         /\ \A d \in Cids : /\ r.v.order[d] > 0 => v.order[d] > 0
                            /\ v.order[d] = 0 => r.v.order[d] = 0
                            /\ r.v.order[d] > 0 /\ kept[At(d)].cid = d => r.slots[At(d)].cid = d
<1> DEFINE live == {c \in Cids : v.order[c] > 0}
           slots == Retained(kept, live)
           orphans == Orphans(slots, live)
<1>1. CASE r = [slots |-> kept, v |-> v]
  BY <1>1
<1>2. ASSUME NEW o \in Calls!CancelOrders(exchange, orphans, orphans),
             r = [slots |-> slots, v |-> Ended(v, o.gone)]
      PROVE  /\ Ladder(r.slots) /\ Sound(r.v)
             /\ \A d \in Cids : /\ r.v.order[d] > 0 => v.order[d] > 0
                                /\ v.order[d] = 0 => r.v.order[d] = 0
                                /\ r.v.order[d] > 0 /\ kept[At(d)].cid = d => r.slots[At(d)].cid = d
  <2>1. o.gone \in SUBSET Cids
    <3>1. Answers(o, orphans)
      BY CancelAnswers
    <3>2. orphans \subseteq Cids
      BY DEF Orphans
    <3> QED BY <3>1, <3>2 DEF Answers
  <2>2. /\ Sound(Ended(v, o.gone))
        /\ Ended(v, o.gone).order = [c \in Cids |-> IF c \in o.gone THEN 0 ELSE v.order[c]]
    BY <2>1, EndedSound
  <2>3. r.slots = slots /\ r.v = Ended(v, o.gone)
    BY <1>2
  <2>4. slots = [q \in Quotes |-> IF kept[q].oid /\ kept[q].cid \notin live THEN NoSlot ELSE kept[q]]
    BY DEF Retained
  <2>5. \A q \in Quotes : slots[q] = NoSlot \/ slots[q] = kept[q]
    BY <2>4
  <2>6. Ladder(slots)
    <3> HIDE DEF slots
    <3> QED BY <2>4, <2>5 DEF Ladder
  <2>7. ASSUME NEW d \in Cids, v.order[d] > 0, kept[At(d)].cid = d
        PROVE  slots[At(d)] = kept[At(d)]
    BY <2>4, <2>7, AtQuote
  <2>8. \A d \in Cids : Ended(v, o.gone).order[d] = IF d \in o.gone THEN 0 ELSE v.order[d]
    BY <2>2
  <2> HIDE DEF slots
  <2> QED BY <2>2, <2>3, <2>6, <2>7, <2>8
<1>3. r = [slots |-> kept, v |-> v] \/
      \E o \in Calls!CancelOrders(exchange, orphans, orphans) : r = [slots |-> slots, v |-> Ended(v, o.gone)]
  BY DEF Reconciled, Reconciliations
<1> QED BY <1>1, <1>2, <1>3

\* The ladder after the calls holds client ids of its rungs.
LEMMA AfterCallsLadder ==
  ASSUME Ladder(slot), NEW c, NEW a, NEW p, NEW cid,
         \A q \in a.told \cup p.told : cid[q] \in Cids /\ At(cid[q]) = q
  PROVE  Ladder(AfterCalls(c, a, p, cid))
<1> DEFINE kept == AfterCalls(c, a, p, cid)
<1>1. kept = [q \in Quotes |-> IF q \in a.told \cup p.told
                               THEN [cid |-> cid[q], oid |-> q \in a.named \cup p.named]
                               ELSE IF q \in c.told THEN NoSlot ELSE slot[q]]
  BY DEF AfterCalls
<1> HIDE DEF kept
<1>2. ASSUME NEW q \in Quotes
      PROVE  kept[q] \in {NoSlot} \cup Slots /\ (kept[q] # NoSlot => At(kept[q].cid) = q)
  <2>1. CASE q \in a.told \cup p.told
    <3>1. kept[q] = [cid |-> cid[q], oid |-> q \in a.named \cup p.named]
      BY <1>1, <2>1
    <3>2. cid[q] \in Cids /\ At(cid[q]) = q
      BY <2>1
    <3>3. (q \in a.named \cup p.named) \in BOOLEAN
      OBVIOUS
    <3> QED BY <3>1, <3>2, <3>3 DEF Slots
  <2>2. CASE q \notin a.told \cup p.told
    <3>1. kept[q] = NoSlot \/ kept[q] = slot[q]
      BY <1>1, <2>2
    <3> QED BY <3>1 DEF Ladder
  <2> QED BY <2>1, <2>2
<1>3. Ladder(kept)
  BY <1>1, <1>2 DEF Ladder
<1> QED BY <1>3 DEF kept

\* The calls of a refresh, whatever they are answered, leave no order untracked
\* that is not loose (strategy.rs:412-616).
LEMMA ConcludedKeeps ==
  ASSUME IInv, NEW cancels \in SUBSET {q \in Quotes : Held(q)},
         NEW amends \in SUBSET {q \in Quotes : Held(q)},
         NEW places \in SUBSET {q \in Quotes : ~Held(q)},
         NEW c, NEW a, NEW p, Answers(c, cancels), Answers(a, amends), Answers(p, places),
         CanIssue(amends \cup places, HeldCids), NEW answered,
         Concluded(answered, c, a, p, Issue(amends \cup places, HeldCids)),
         life = "running", UNCHANGED life
  PROVE  (LooseRests /\ Ladder(slot) /\ Sound(Now) /\ RestingIsTracked)'
<1> DEFINE cid == Issue(amends \cup places, HeldCids)
           new(quotes) == {cid[q] : q \in quotes}
           kept == AfterCalls(c, a, p, cid)
           old == OldCids(c.gone \cup a.gone)
           taken == new(a.taken \cup p.taken)
           v == Taken(Ended(Now, old), taken)
           strays == OldCids((c.told \ c.gone) \cup (a.told \ a.gone))
                     \cup new((a.taken \ a.told) \cup (p.taken \ p.told))
           refused == new((a.told \ a.taken) \cup (p.told \ p.taken))
<1>1. \A q \in amends \cup places :
        /\ cid[q] \in Cids /\ At(cid[q]) = q /\ cid[q] \notin HeldCids
        /\ order[cid[q]] = 0 /\ queued[cid[q]] = 0 /\ <<cid[q], "ended">> \notin reports
  BY IssueFresh DEF IInv
<1>2. HeldCids \subseteq Cids /\ old \subseteq HeldCids
      /\ OldCids((c.told \ c.gone) \cup (a.told \ a.gone)) \subseteq HeldCids
  <2>1. \A q \in cancels \cup amends : slot[q].cid \in HeldCids
    BY HeldSlots DEF IInv
  <2> QED BY <2>1, HeldSlots DEF OldCids, Answers, IInv
<1>3. a.told \cup a.taken \cup p.told \cup p.taken \subseteq amends \cup places
  BY DEF Answers
<1>4. PICK r \in Reconciled(kept, v, answered), rejected \in {{}, refused} :
        /\ Becomes(Rejected(r.v, rejected))
        /\ slot' = r.slots
        /\ loose' = {d \in loose \cup strays : r.v.order[d] > 0}
  BY DEF Concluded
<1>5. taken \subseteq Cids /\ refused \subseteq Cids /\ strays \subseteq Cids
  <2>1. \A q \in a.told \cup a.taken \cup p.told \cup p.taken : cid[q] \in Cids
    BY <1>1, <1>3
  <2> QED BY <1>2, <2>1
<1>6. Ladder(kept)
  BY <1>1, <1>3, AfterCallsLadder DEF IInv
<1>7. /\ Sound(v)
      /\ \A d \in Cids : v.order[d] = IF d \in taken THEN Size ELSE IF d \in old THEN 0 ELSE order[d]
  <2> DEFINE w == Ended(Now, old)
  <2>1. \A d \in taken : queued[d] = 0 /\ d \notin old /\ <<d, "ended">> \notin reports
    <3>1. \A q \in a.taken \cup p.taken :
            queued[cid[q]] = 0 /\ cid[q] \notin HeldCids /\ <<cid[q], "ended">> \notin reports
      BY <1>1, <1>3
    <3>2. ASSUME NEW d \in taken
          PROVE  queued[d] = 0 /\ d \notin HeldCids /\ <<d, "ended">> \notin reports
      <4>1. PICK q \in a.taken \cup p.taken : d = cid[q]
        OBVIOUS
      <4> QED BY <3>1, <4>1
    <3> QED BY <1>2, <3>2
  <2>2. old \in SUBSET Cids /\ taken \in SUBSET Cids
    BY <1>2, <1>5
  <2> HIDE DEF old, taken
  <2>3. /\ Sound(w) /\ w.order = [d \in Cids |-> IF d \in old THEN 0 ELSE order[d]]
        /\ w.reports = reports \cup {<<d, "ended">> : d \in {e \in old : order[e] > 0}}
    <3>1. Now.order = order /\ Now.reports = reports
      BY DEF Now
    <3>2. /\ Sound(w) /\ w.order = [d \in Cids |-> IF d \in old THEN 0 ELSE Now.order[d]]
          /\ w.reports = Now.reports \cup {<<d, "ended">> : d \in {e \in old : Now.order[e] > 0}}
      BY <2>2, EndedSound DEF IInv
    <3> QED BY <3>1, <3>2
  <2>4. \A d \in taken : <<d, "ended">> \notin w.reports
    BY <2>1, <2>3
  <2> HIDE DEF w
  <2>5. /\ Sound(Taken(w, taken))
        /\ Taken(w, taken).order = [d \in Cids |-> IF d \in taken THEN Size ELSE w.order[d]]
    BY <2>1, <2>2, <2>3, <2>4, TakenSound
  <2>6. v = Taken(w, taken)
    BY DEF w
  <2> HIDE DEF v
  <2>7. \A d \in Cids : v.order[d] = IF d \in taken THEN Size ELSE w.order[d]
    BY <2>5, <2>6
  <2>8. \A d \in Cids : w.order[d] = IF d \in old THEN 0 ELSE order[d]
    BY <2>3
  <2> QED BY <2>5, <2>6, <2>7, <2>8
<1>8. \A d \in refused : d \in Cids /\ d \notin taken /\ order[d] = 0
  <2>1. \A q \in (a.told \ a.taken) \cup (p.told \ p.taken) :
          /\ cid[q] \in Cids /\ order[cid[q]] = 0
          /\ \A s \in a.taken \cup p.taken : q # s
    BY <1>1, <1>3 DEF Answers
  <2>2. \A q \in (a.told \ a.taken) \cup (p.told \ p.taken), s \in a.taken \cup p.taken : cid[q] # cid[s]
    BY <1>1, <1>3, <2>1, ZenonT(30)
  <2> QED BY <2>1, <2>2
<1> HIDE DEF v, kept
<1>9. /\ Ladder(r.slots) /\ Sound(r.v)
      /\ \A d \in Cids : /\ r.v.order[d] > 0 => v.order[d] > 0
                         /\ v.order[d] = 0 => r.v.order[d] = 0
                         /\ r.v.order[d] > 0 /\ kept[At(d)].cid = d => r.slots[At(d)].cid = d
  BY <1>4, <1>6, <1>7, ReconciledKeeps
<1>10. Sound(Now)' /\ order' = r.v.order
  <2>1. \A d \in rejected : d \in Cids /\ r.v.order[d] = 0
    BY <1>4, <1>7, <1>8, <1>9
  <2>2. Sound(Rejected(r.v, rejected)) /\ Rejected(r.v, rejected).order = r.v.order
    BY <1>9, <2>1, RejectedSound
  <2> QED BY <1>4, <2>2, BecomesSound
<1>11. LooseRests'
  <2>1. \A d \in loose' : d \in Cids /\ r.v.order[d] > 0
    BY <1>4, <1>5 DEF IInv, LooseRests, Resting
  <2> QED BY <1>10, <2>1 DEF LooseRests, Resting
<1>12. RestingIsTracked'
  <2> SUFFICES ASSUME NEW d \in Cids, order'[d] > 0
               PROVE  slot'[At(d)].cid = d \/ d \in loose'
    BY DEF RestingIsTracked, Untracked, Resting
  <2>1. r.v.order[d] > 0 /\ v.order[d] > 0
    BY <1>9, <1>10
  <2>2. kept[At(d)].cid = d => slot'[At(d)].cid = d
    BY <1>4, <1>9, <2>1
  <2>3. d \in loose \cup strays => d \in loose'
    BY <1>4, <2>1
  <2>4. \A q \in Quotes : kept[q] = IF q \in a.told \cup p.told
                                    THEN [cid |-> cid[q], oid |-> q \in a.named \cup p.named]
                                    ELSE IF q \in c.told THEN NoSlot ELSE slot[q]
    BY DEF kept, AfterCalls
  <2>5. CASE d \in taken
    <3>1. PICK q \in a.taken \cup p.taken : d = cid[q]
      BY <2>5
    <3>2. At(d) = q /\ q \in Quotes
      BY <1>1, <1>3, <3>1
    <3>3. CASE q \in a.told \cup p.told
      <4>1. kept[q].cid = cid[q]
        <5>1. kept[q] = [cid |-> cid[q], oid |-> q \in a.named \cup p.named]
          BY <2>4, <3>2, <3>3
        <5> QED BY <5>1
      <4> QED BY <2>2, <3>1, <3>2, <4>1
    <3>4. CASE q \notin a.told \cup p.told
      BY <2>3, <3>1, <3>4
    <3> QED BY <3>3, <3>4
  <2>6. CASE d \notin taken
    <3> DEFINE q == At(d)
    <3>1. d \notin old /\ order[d] > 0
      <4>1. v.order[d] = IF d \in old THEN 0 ELSE order[d]
        BY <1>7, <2>6
      <4> HIDE DEF old
      <4> QED BY <2>1, <4>1
    <3>2. d \in loose \/ slot[q].cid = d
      BY <3>1 DEF IInv, RestingIsTracked, Untracked, Resting
    <3>3. ASSUME slot[q].cid = d
          PROVE  slot'[q].cid = d \/ d \in loose'
      <4>1. q \in Quotes /\ Held(q)
        BY <3>3, HeldSlots, AtQuote DEF IInv
      <4>2. q \notin p.told
        BY <4>1 DEF Answers
      <4>3. q \notin c.gone \cup a.gone
        BY <3>1, <3>3 DEF OldCids
      <4>4. CASE q \in c.told \cup a.told
        <5>1. d \in strays
          BY <3>3, <4>3, <4>4 DEF OldCids
        <5> QED BY <2>3, <5>1
      <4>5. CASE q \notin c.told \cup a.told
        <5>1. kept[q] = slot[q]
          BY <2>4, <4>1, <4>2, <4>5
        <5> QED BY <2>2, <3>3, <5>1
      <4> QED BY <4>4, <4>5
    <3> QED BY <2>3, <3>2, <3>3
  <2> QED BY <2>5, <2>6
<1>13. Ladder(slot)'
  BY <1>4, <1>9 DEF Ladder
<1> QED BY <1>10, <1>11, <1>12, <1>13

\* refresh_quotes as a whole.
LEMMA RefreshKeeps ==
  ASSUME IInv, NEW answered, RefreshQuotes(answered), life = "running",
         UNCHANGED <<life, exchange, dead>>, net' \in Int, shutdown' \in BOOLEAN
  PROVE  IInv'
<1>1. PICK plan \in Plans :
        LET asked(what) == {q \in Quotes : plan[q] = what}
            byOid(quotes) == {q \in quotes : slot[q].oid}
            cancels == asked("cancel")
            amends == asked("amend")
            places == asked("place")
            good(outcomes, batch) == {o \in outcomes : answered => Good(o, batch)}
        IN  /\ CanIssue(amends \cup places, HeldCids)
            /\ \E c \in good(Calls!CancelOrders(exchange, cancels, byOid(cancels)), cancels),
                  a \in good(Calls!AmendOrders(exchange, amends, byOid(amends)), amends),
                  p \in good(Calls!PlaceOrders(exchange, places), places) :
                 Concluded(answered, c, a, p, Issue(amends \cup places, HeldCids))
            /\ signal' = FALSE
  BY DEF RefreshQuotes
<1> DEFINE asked(what) == {q \in Quotes : plan[q] = what}
           byOid(quotes) == {q \in quotes : slot[q].oid}
           cancels == asked("cancel")
           amends == asked("amend")
           places == asked("place")
<1>2. PICK c \in Calls!CancelOrders(exchange, cancels, byOid(cancels)),
           a \in Calls!AmendOrders(exchange, amends, byOid(amends)),
           p \in Calls!PlaceOrders(exchange, places) :
        Concluded(answered, c, a, p, Issue(amends \cup places, HeldCids))
  BY <1>1
<1>3. Answers(c, cancels) /\ Answers(a, amends) /\ Answers(p, places)
  BY CancelAnswers, AmendAnswers, PlaceAnswers
<1>4. /\ cancels \in SUBSET {q \in Quotes : Held(q)}
      /\ amends \in SUBSET {q \in Quotes : Held(q)}
      /\ places \in SUBSET {q \in Quotes : ~Held(q)}
  BY DEF Plans
<1>5. CanIssue(amends \cup places, HeldCids) /\ signal' = FALSE
  BY <1>1
<1> HIDE DEF cancels, amends, places
<1>6. (LooseRests /\ Ladder(slot) /\ Sound(Now) /\ RestingIsTracked)'
  BY <1>2, <1>3, <1>4, <1>5, ConcludedKeeps
<1>7. Plain'
  BY <1>5 DEF IInv, Plain
<1> QED BY <1>6, <1>7 DEF IInv

-----------------------------------------------------------------------------
(* The other steps, and the theorems.                                      *)

\* The actor starts with an empty ladder, and tracks nothing yet.
LEMMA InitKeeps == Init => IInv
<1> SUFFICES ASSUME Init PROVE IInv
  OBVIOUS
<1>1. PICK earlier : order = [c \in Cids |-> IF c \in earlier THEN Size ELSE 0]
  BY DEF Init
<1>2. Sound(Now)
  BY <1>1, OrderVenueAssumption DEF Sound, Now, Init
<1>3. Ladder(slot)
  BY DEF Ladder, Init
<1>4. LooseRests /\ RestingIsTracked
  BY DEF LooseRests, RestingIsTracked, Init
<1>5. signal \in BOOLEAN /\ dead \in BOOLEAN /\ shutdown \in BOOLEAN
  BY Zenon DEF Init
<1>6. Plain
  BY <1>5 DEF Plain, Init
<1> QED BY <1>2, <1>3, <1>4, <1>6 DEF IInv

\* Whatever rests after the start is loose.
LEMMA StartKeeps ==
  ASSUME IInv, Start
  PROVE  IInv'
<1>1. PICK c \in Calls!CancelAllOrders(exchange, Resting) :
        Becomes(Ended(Now, c.gone)) /\ loose' = Resting \ c.gone
  BY DEF Start
<1>2. Sound(Now)' /\ order' = [d \in Cids |-> IF d \in c.gone THEN 0 ELSE order[d]]
  BY <1>1, EndingSound, CancelAllAnswers DEF IInv
<1>3. LooseRests' /\ RestingIsTracked'
  BY <1>1, <1>2 DEF LooseRests, RestingIsTracked, Untracked, Resting
<1>4. Ladder(slot)'
  BY DEF Start, IInv, Ladder
<1>5. net' \in Int /\ life' \in {"new", "running", "down"}
  BY AvellanedaStoikovAssumption DEF Start, IInv, Plain
<1>6. Plain'
  BY <1>5 DEF Start, IInv, Plain
<1> QED BY <1>2, <1>3, <1>4, <1>6 DEF IInv

\* After wind_down nothing is tracked, but ends are still true.
LEMMA WindDownKeeps ==
  ASSUME IInv, WindDown
  PROVE  IInv'
<1>1. PICK c \in Calls!CancelAllOrders(exchange, Resting) :
        Becomes(Ended(Now, c.gone)) /\ loose' = loose \ c.gone
  BY DEF WindDown
<1>2. Sound(Now)' /\ order' = [d \in Cids |-> IF d \in c.gone THEN 0 ELSE order[d]]
  BY <1>1, EndingSound, CancelAllAnswers DEF IInv
<1>3. LooseRests'
  BY <1>1, <1>2 DEF IInv, LooseRests, Resting
<1>4. Ladder(slot)' /\ RestingIsTracked' /\ Plain'
  BY DEF WindDown, IInv, Ladder, RestingIsTracked, Plain
<1> QED BY <1>2, <1>3, <1>4 DEF IInv

\* A trade drops the slot of its order only, and what still rests of it is loose.
LEMMA HandleTradeKeeps ==
  ASSUME IInv, NEW c \in Cids, HandleTrade(c)
  PROVE  IInv'
<1>1. PICK qty \in 1..queued[c] :
        queued' = [queued EXCEPT ![c] = @ - qty] /\ net' = net + SideOf(At(c)) * qty
  BY DEF HandleTrade
<1>2. Sound(Now)'
  BY <1>1, TradeSound DEF HandleTrade, IInv
<1>3. slot' = [q \in Quotes |-> IF slot[q].cid = c THEN NoSlot ELSE slot[q]]
  BY DEF HandleTrade
<1>4. Ladder(slot)'
  <2>1. \A q \in Quotes : slot'[q] = NoSlot \/ slot'[q] = slot[q]
    BY <1>3
  <2> QED BY <1>3, <2>1 DEF IInv, Ladder
<1>5. order' = order /\ (c \in HeldCids \cap Resting => c \in loose')
      /\ loose \subseteq loose' /\ loose' \subseteq Resting
  BY DEF HandleTrade, IInv, LooseRests
<1>6. LooseRests'
  BY <1>5 DEF LooseRests, Resting
<1>7. RestingIsTracked'
  <2> SUFFICES ASSUME life = "running", NEW d \in Cids, order[d] > 0, slot'[At(d)].cid # d
               PROVE  d \in loose'
    BY <1>5 DEF RestingIsTracked, Untracked, Resting, HandleTrade
  <2>1. CASE slot[At(d)].cid = d
    <3>1. At(d) \in Quotes /\ d \in HeldCids /\ d \in Resting
      BY <2>1, AtQuote, HeldSlots DEF IInv, Resting
    <3>2. d = c
      BY <1>3, <2>1, <3>1
    <3> QED BY <1>5, <3>1, <3>2
  <2>2. CASE slot[At(d)].cid # d
    BY <1>5, <2>2 DEF IInv, RestingIsTracked, Untracked, Resting
  <2> QED BY <2>1, <2>2
<1>8. Plain'
  <2>1. qty \in Int /\ SideOf(At(c)) \in {1, -1} /\ net \in Int
    <3>1. queued[c] \in Nat
      BY OrderVenueAssumption DEF IInv, Sound, Now
    <3>2. qty \in Int
      BY <3>1
    <3> QED BY <3>2, AtQuote, AvellanedaStoikovAssumption DEF SideOf, IInv, Plain
  <2>2. net' \in Int
    BY <1>1, <2>1
  <2> QED BY <2>2 DEF HandleTrade, IInv, Plain
<1> QED BY <1>2, <1>4, <1>6, <1>7, <1>8 DEF IInv

\* Only a report of an end drops a slot, and only the slot of that order.
LEMMA HandleReportKeeps ==
  ASSUME IInv, NEW c \in Cids, NEW what \in {"open", "ended"}, HandleReport(c, what)
  PROVE  IInv'
<1>1. slot' = [q \in Quotes |->
                 IF what = "ended" THEN IF slot[q].cid = c THEN NoSlot ELSE slot[q]
                 ELSE IF slot[q].cid = c THEN [cid |-> slot[q].cid, oid |-> TRUE] ELSE slot[q]]
  BY DEF HandleReport, Drops, Learns
<1>2. ASSUME NEW q \in Quotes
      PROVE  /\ slot'[q] \in {NoSlot} \cup Slots
             /\ slot'[q] # NoSlot => At(slot'[q].cid) = q
             /\ slot[q].cid \in Cids /\ slot[q].cid # c => slot'[q].cid = slot[q].cid
             /\ what # "ended" => slot'[q].cid = slot[q].cid
  <2>1. CASE slot[q].cid = c
    <3>1. slot[q] \in Slots /\ Held(q) /\ At(slot[q].cid) = q
      BY <2>1, HeldSlots DEF IInv, Ladder, Held
    <3>2. [cid |-> c, oid |-> TRUE] \in Slots /\ [cid |-> c, oid |-> TRUE].cid = c
      BY DEF Slots
    <3>3. (slot'[q] = NoSlot /\ what = "ended") \/ slot'[q] = [cid |-> c, oid |-> TRUE]
      BY <1>1, <2>1
    <3> QED BY <2>1, <3>1, <3>2, <3>3
  <2>2. CASE slot[q].cid # c
    <3>1. slot'[q] = slot[q]
      BY <1>1, <2>2
    <3>2. slot[q] \in {NoSlot} \cup Slots /\ (slot[q] # NoSlot => At(slot[q].cid) = q)
      BY DEF IInv, Ladder
    <3>3. slot'[q].cid = slot[q].cid
      BY <3>1
    <3> QED BY <3>1, <3>2, <3>3
  <2> QED BY <2>1, <2>2
<1>3. Ladder(slot)'
  BY <1>1, <1>2 DEF Ladder
<1>4. Sound(Now)'
  BY DEF HandleReport, IInv, Sound, Now
<1>5. LooseRests' /\ Plain'
  BY DEF HandleReport, IInv, LooseRests, Plain, Resting
<1>6. RestingIsTracked'
  <2> SUFFICES ASSUME NEW d \in Cids, order[d] > 0
               PROVE  slot'[At(d)].cid = d \/ d \in loose
    BY DEF RestingIsTracked, Untracked, Resting, HandleReport
  <2>1. d \in loose \/ slot[At(d)].cid = d
    BY DEF HandleReport, IInv, RestingIsTracked, Untracked, Resting
  <2>2. what = "ended" => c # d
    BY DEF HandleReport, IInv, Sound, Now
  <2> QED BY <1>2, <2>1, <2>2, AtQuote
<1> QED BY <1>3, <1>4, <1>5, <1>6 DEF IInv

\* A fill moves no slot.
LEMMA VenueFillsKeeps ==
  ASSUME IInv, NEW c \in Cids, VenueFills(c)
  PROVE  IInv'
<1>1. Sound(Now)' /\ \A d \in Cids : order'[d] > 0 => order[d] > 0
  BY FillSound DEF VenueFills, IInv
<1>2. Ladder(slot)' /\ Plain'
  BY DEF VenueFills, IInv, Ladder, Plain
<1>3. LooseRests'
  BY DEF VenueFills, IInv, LooseRests, Resting
<1>4. RestingIsTracked'
  BY <1>1 DEF VenueFills, IInv, RestingIsTracked, Untracked, Resting
<1> QED BY <1>1, <1>2, <1>3, <1>4 DEF IInv

\* Nor does an end on the venue's own account.
LEMMA VenueCancelsKeeps ==
  ASSUME IInv, NEW c \in Cids, VenueCancels(c)
  PROVE  IInv'
<1>1. Sound(Now)' /\ order' = [d \in Cids |-> IF d \in {c} THEN 0 ELSE order[d]]
  BY EndingSound DEF VenueCancels, VenueEnds, IInv
<1>2. Ladder(slot)' /\ Plain'
  BY DEF VenueCancels, IInv, Ladder, Plain
<1>3. LooseRests' /\ RestingIsTracked'
  BY <1>1 DEF VenueCancels, IInv, LooseRests, RestingIsTracked, Untracked, Resting
<1> QED BY <1>1, <1>2, <1>3 DEF IInv

\* Steps that move no order and no slot.
LEMMA OtherKeeps ==
  ASSUME IInv, UNCHANGED <<order, slot, life, loose>>, Sound(Now)', Plain'
  PROVE  IInv'
BY DEF IInv, Ladder, LooseRests, RestingIsTracked, Untracked, Resting

\* Every step keeps the inductive invariant.
LEMMA NextKeeps == IInv /\ [Next]_vars => IInv'
<1> SUFFICES ASSUME IInv, [Next]_vars PROVE IInv'
  OBVIOUS
<1>1. CASE Start
  BY <1>1, StartKeeps
<1>2. CASE WindDown
  BY <1>2, WindDownKeeps
<1>3. CASE HandlePrice
  BY <1>3, RefreshKeeps DEF HandlePrice, IInv, Plain
<1>4. CASE Tick
  <2>1. CASE ~dead
    BY <1>4, <2>1, RefreshKeeps DEF Tick, IInv, Plain
  <2>2. CASE dead
    <3>1. Sound(Now)' /\ Plain'
      BY <1>4, <2>2 DEF Tick, venue, IInv, Sound, Now, Plain
    <3> QED BY <1>4, <2>2, <3>1, OtherKeeps DEF Tick, venue
  <2> QED BY <2>1, <2>2
<1>5. ASSUME NEW c \in Cids, HandleTrade(c)
      PROVE  IInv'
  BY <1>5, HandleTradeKeeps
<1>6. ASSUME NEW c \in Cids, HandleReport(c, "open") \/ HandleReport(c, "ended")
      PROVE  IInv'
  BY <1>6, HandleReportKeeps
<1>7. ASSUME NEW c \in Cids, VenueFills(c)
      PROVE  IInv'
  BY <1>7, VenueFillsKeeps
<1>8. ASSUME NEW c \in Cids, VenueCancels(c)
      PROVE  IInv'
  BY <1>8, VenueCancelsKeeps
<1>9. CASE Gap
  <2>1. Sound(Now)' /\ Plain'
    BY <1>9, GapSound DEF Gap, IInv, Plain
  <2> QED BY <1>9, <2>1, OtherKeeps DEF Gap, LoseEvents
<1>10. CASE UNCHANGED vars
  <2>1. Sound(Now)' /\ Plain'
    BY <1>10 DEF vars, venue, IInv, Sound, Now, Plain
  <2> QED BY <1>10, <2>1, OtherKeeps DEF vars, venue
<1> QED BY <1>1, <1>2, <1>3, <1>4, <1>5, <1>6, <1>7, <1>8, <1>9, <1>10 DEF Next

\* The variables keep their types; a slot holds a client id of its own rung, of
\* whatever order that is reported or filled (strategy.rs:770-845).
THEOREM TypeCorrect == Spec => []TypeOK
<1>1. Init => IInv
  BY InitKeeps
<1>2. IInv /\ [Next]_vars => IInv'
  BY NextKeeps
<1>3. IInv => TypeOK
  BY Types
<1> QED BY <1>1, <1>2, <1>3, PTL DEF Spec

\* The ladder holds every order that rests at the venue, but for those that
\* were lost by a wrong answer or by a trade of a part of them
\* (strategy.rs:324-620, 770-845): amends, refused calls, phantoms, orphans and
\* lost events lose none, for every ladder and order size.
THEOREM NoOrderLost == Spec => []RestingIsTracked
<1>1. Init => IInv
  BY InitKeeps
<1>2. IInv /\ [Next]_vars => IInv'
  BY NextKeeps
<1>3. IInv => RestingIsTracked
  BY DEF IInv
<1> QED BY <1>1, <1>2, <1>3, PTL DEF Spec
=============================================================================
