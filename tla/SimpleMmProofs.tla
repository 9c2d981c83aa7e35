--------------------------- MODULE SimpleMmProofs ---------------------------
(***************************************************************************)
(* Proofs about SimpleMm, for any sizes, limits and number of client ids.  *)
(*                                                                         *)
(* It never loses track of an order by its own doing (RestingIsTracked):   *)
(* the inductive invariant adds that a slot holds a client id of its side, *)
(* and that the venue is sound, so that a report of an end never comes     *)
(* before the end.  On that rest the types and the cap on the worst case,  *)
(* for which the tracker's book (BookKept) and the totals of what rests    *)
(* and what is queued a side are followed through every step.              *)
(***************************************************************************)
EXTENDS SimpleMm, SumProofs

\* An outcome speaks of entries of the batch only.
Answers(o, batch) == o.told \subseteq batch /\ o.gone \subseteq batch /\ o.taken \subseteq batch

\* A venue between two calls: an order of which nothing rests is the only one
\* whose end is reported, and no more than its size has filled.
Sound(v) ==
  /\ v.order \in [Cids -> 0..Size] /\ v.reports \subseteq Cids \X {"open", "ended"}
  /\ queued \in [Cids -> 0..Size]
  /\ \A c \in Cids : /\ v.order[c] + queued[c] <= Size
                     /\ <<c, "ended">> \in v.reports => v.order[c] = 0

-----------------------------------------------------------------------------
(* The answers of the brokers.                                             *)

\* Cancels, at either exchange.
LEMMA CancelAnswers ==
  ASSUME NEW venueOf, NEW batch, NEW byOid \in SUBSET batch,
         NEW o \in Calls!CancelOrders(venueOf, batch, byOid)
  PROVE  Answers(o, batch)
<1>1. CASE venueOf = "bullet"
  BY <1>1 DEF Answers, Calls!CancelOrders, Calls!Bullet!CancelOrders, Calls!Bullet!Outcome
<1>2. CASE venueOf # "bullet"
  BY <1>2 DEF Answers, Calls!CancelOrders, Calls!Hyperliquid!CancelOrders,
              Calls!Hyperliquid!Outcome
<1> QED BY <1>1, <1>2

\* Placements, at either exchange.
LEMMA PlaceAnswers ==
  ASSUME NEW venueOf, NEW batch, NEW o \in Calls!PlaceOrders(venueOf, batch)
  PROVE  Answers(o, batch)
<1>1. CASE venueOf = "bullet"
  BY <1>1 DEF Answers, Calls!PlaceOrders, Calls!Bullet!PlaceOrders, Calls!Bullet!Outcome
<1>2. CASE venueOf # "bullet"
  BY <1>2 DEF Answers, Calls!PlaceOrders, Calls!Hyperliquid!PlaceOrders,
              Calls!Hyperliquid!Outcome
<1> QED BY <1>1, <1>2

\* What ends all orders ends orders that rest.
LEMMA CancelAllAnswers ==
  ASSUME NEW venueOf, NEW c \in Calls!CancelAllOrders(venueOf, Resting)
  PROVE  c.gone \subseteq Resting /\ c.gone \in SUBSET Cids
<1>1. CASE venueOf = "bullet"
  <2>1. c = [ok |-> TRUE, gone |-> Resting] \/ c \in [ok : {FALSE}, gone : {{}, Resting}]
    BY <1>1 DEF Calls!CancelAllOrders, Calls!Bullet!CancelAllOrders
  <2>2. CASE c = [ok |-> TRUE, gone |-> Resting]
    BY <2>2 DEF Resting
  <2>3. CASE c \in [ok : {FALSE}, gone : {{}, Resting}]
    <3>1. c.gone \in {{}, Resting}
      BY <2>3
    <3> QED BY <3>1 DEF Resting
  <2> QED BY <2>1, <2>2, <2>3
<1>2. CASE venueOf # "bullet"
  <2>1. c \in [ok : {TRUE}, gone : SUBSET Resting] \/ c = [ok |-> FALSE, gone |-> {}]
    BY <1>2 DEF Calls!CancelAllOrders, Calls!Hyperliquid!CancelAllOrders
  <2>2. CASE c \in [ok : {TRUE}, gone : SUBSET Resting]
    <3>1. c.gone \in SUBSET Resting
      BY <2>2
    <3> QED BY <3>1 DEF Resting
  <2>3. CASE c = [ok |-> FALSE, gone |-> {}]
    BY <2>3
  <2> QED BY <2>1, <2>2, <2>3
<1> QED BY <1>1, <1>2

-----------------------------------------------------------------------------
(* Client ids.                                                             *)

\* A client id that is issued is one of its quote, which nothing refers to.
LEMMA IssueFresh ==
  ASSUME NEW quotes, NEW held, CanIssue(quotes, held), Sound(Now), NEW q \in quotes
  PROVE  LET c == Issue(quotes, held)[q]
         IN  /\ c \in Cids /\ At(c) = q /\ c \notin held
             /\ order[c] = 0 /\ queued[c] = 0 /\ <<c, "ended">> \notin reports
<1> DEFINE c == Issue(quotes, held)[q]
<1>1. c \in Unused(held) /\ At(c) = q
  BY DEF CanIssue, Issue
<1>2. c \in Cids /\ c \notin held /\ c \notin Resting /\ ~Unheard(c)
  BY <1>1 DEF Unused
<1>3. order[c] \in 0..Size /\ queued[c] \in 0..Size /\ Size \in Nat
  BY <1>2, OrderVenueAssumption DEF Sound, Now
<1>4. order[c] = 0 /\ queued[c] = 0
  BY <1>2, <1>3 DEF Resting, Unheard
<1>5. <<c, "ended">> \notin reports
  BY <1>2 DEF Unheard
<1> QED BY <1>1, <1>2, <1>4, <1>5

\* No client id is the one of an empty slot.
LEMMA CidsAreIds == <<>> \notin Cids
BY DEF Cids

\* Every client id belongs to a quote.
LEMMA AtQuote == ASSUME NEW c \in Cids PROVE At(c) \in Quotes
BY DEF Cids, At

-----------------------------------------------------------------------------
(* The venue.                                                              *)

\* Ending orders keeps the venue sound.
LEMMA EndedSound ==
  ASSUME NEW v, Sound(v), NEW ids \in SUBSET Cids
  PROVE  /\ Sound(Ended(v, ids))
         /\ Ended(v, ids).order = [c \in Cids |-> IF c \in ids THEN 0 ELSE v.order[c]]
         /\ Ended(v, ids).reports = v.reports \cup {<<c, "ended">> : c \in {d \in ids : v.order[d] > 0}}
<1> DEFINE w == Ended(v, ids)
<1>1. w.order = [c \in Cids |-> IF c \in ids THEN 0 ELSE v.order[c]]
  BY DEF Ended
<1>2. w.reports = v.reports \cup {<<c, "ended">> : c \in {d \in ids : v.order[d] > 0}}
  BY DEF Ended
<1>3. w.order \in [Cids -> 0..Size]
  BY <1>1, OrderVenueAssumption DEF Sound
<1>4. w.reports \subseteq Cids \X {"open", "ended"}
  BY <1>2 DEF Sound
<1>5. ASSUME NEW c \in Cids
      PROVE  w.order[c] + queued[c] <= Size /\ (<<c, "ended">> \in w.reports => w.order[c] = 0)
  <2>1. w.order[c] = IF c \in ids THEN 0 ELSE v.order[c]
    BY <1>1
  <2>2. v.order[c] \in 0..Size /\ queued[c] \in 0..Size /\ v.order[c] + queued[c] <= Size
    BY DEF Sound
  <2>3. w.order[c] + queued[c] <= Size
    BY <2>1, <2>2, OrderVenueAssumption
  <2>4. <<c, "ended">> \in w.reports => c \in ids \/ <<c, "ended">> \in v.reports
    BY <1>2
  <2>5. <<c, "ended">> \in w.reports => w.order[c] = 0
    BY <2>1, <2>4 DEF Sound
  <2> QED BY <2>3, <2>5
<1>6. Sound(w)
  <2> HIDE DEF w
  <2> QED BY <1>3, <1>4, <1>5 DEF Sound
<1> QED BY <1>1, <1>2, <1>6

\* So does taking orders under client ids that nothing refers to.
LEMMA TakenSound ==
  ASSUME NEW v, Sound(v), NEW ids \in SUBSET Cids,
         \A c \in ids : queued[c] = 0 /\ <<c, "ended">> \notin v.reports
  PROVE  /\ Sound(Taken(v, ids))
         /\ Taken(v, ids).order = [c \in Cids |-> IF c \in ids THEN Size ELSE v.order[c]]
         /\ Taken(v, ids).reports = v.reports \cup {<<c, "open">> : c \in ids}
<1> DEFINE w == Taken(v, ids)
<1>1. w.order = [c \in Cids |-> IF c \in ids THEN Size ELSE v.order[c]]
  BY DEF Taken
<1>2. w.reports = v.reports \cup {<<c, "open">> : c \in ids}
  BY DEF Taken
<1>3. w.order \in [Cids -> 0..Size]
  BY <1>1, OrderVenueAssumption DEF Sound
<1>4. w.reports \subseteq Cids \X {"open", "ended"}
  BY <1>2 DEF Sound
<1>5. ASSUME NEW c \in Cids
      PROVE  w.order[c] + queued[c] <= Size /\ (<<c, "ended">> \in w.reports => w.order[c] = 0)
  <2>1. w.order[c] = IF c \in ids THEN Size ELSE v.order[c]
    BY <1>1
  <2>2. v.order[c] \in 0..Size /\ queued[c] \in 0..Size /\ v.order[c] + queued[c] <= Size
    BY DEF Sound
  <2>3. w.order[c] + queued[c] <= Size
    <3>1. CASE c \in ids
      <4>1. queued[c] = 0 /\ w.order[c] = Size
        BY <2>1, <3>1
      <4> QED BY <4>1, OrderVenueAssumption
    <3>2. CASE c \notin ids
      BY <2>1, <2>2, <3>2
    <3> QED BY <3>1, <3>2
  <2>4. <<c, "ended">> \in w.reports => c \notin ids /\ <<c, "ended">> \in v.reports
    BY <1>2
  <2>5. <<c, "ended">> \in w.reports => w.order[c] = 0
    BY <2>1, <2>4 DEF Sound
  <2> QED BY <2>3, <2>5
<1>6. Sound(w)
  <2> HIDE DEF w
  <2> QED BY <1>3, <1>4, <1>5 DEF Sound
<1> QED BY <1>1, <1>2, <1>6

\* So does reporting the end of orders that do not rest.
LEMMA RejectedSound ==
  ASSUME NEW v, Sound(v), NEW ids \in SUBSET Cids, \A c \in ids : v.order[c] = 0
  PROVE  Sound(Rejected(v, ids)) /\ Rejected(v, ids).order = v.order
<1> DEFINE w == Rejected(v, ids)
<1>1. w.order = v.order /\ w.reports = v.reports \cup {<<c, "ended">> : c \in ids}
  BY DEF Rejected
<1> HIDE DEF w
<1>2. \A c \in Cids : <<c, "ended">> \in w.reports => w.order[c] = 0
  BY <1>1 DEF Sound
<1>3. w.reports \subseteq Cids \X {"open", "ended"}
  BY <1>1 DEF Sound
<1>4. Sound(w)
  BY <1>1, <1>2, <1>3 DEF Sound
<1> QED BY <1>1, <1>4 DEF w

\* The venue becomes what the calls have made of it.
LEMMA BecomesSound ==
  ASSUME NEW v, Sound(v), Becomes(v)
  PROVE  Sound(Now)' /\ order' = v.order
BY DEF Sound, Becomes, Now

\* Some resting orders end.
LEMMA EndingSound ==
  ASSUME Sound(Now), NEW ids \in SUBSET Cids, Becomes(Ended(Now, ids))
  PROVE  /\ Sound(Now)'
         /\ order' = [c \in Cids |-> IF c \in ids THEN 0 ELSE order[c]]
<1>1. Sound(Ended(Now, ids)) /\ Ended(Now, ids).order = [c \in Cids |-> IF c \in ids THEN 0 ELSE Now.order[c]]
  BY EndedSound
<1>2. Now.order = order
  BY DEF Now
<1> QED BY <1>1, <1>2, BecomesSound

\* A fill that completes an order reports its end.
LEMMA FillSound ==
  ASSUME Sound(Now), NEW c \in Cids, Fill(c)
  PROVE  Sound(Now)' /\ \A d \in Cids : order'[d] > 0 => order[d] > 0
<1>1. PICK qty \in 1..order[c] :
        /\ order' = [order EXCEPT ![c] = @ - qty]
        /\ queued' = [queued EXCEPT ![c] = @ + qty]
        /\ reports' = IF qty = order[c] THEN reports \cup {<<c, "ended">>} ELSE reports
  BY DEF Fill
<1>2. /\ order \in [Cids -> 0..Size] /\ queued \in [Cids -> 0..Size] /\ Size \in Nat
      /\ reports \subseteq Cids \X {"open", "ended"}
      /\ \A d \in Cids : order[d] + queued[d] <= Size /\ (<<d, "ended">> \in reports => order[d] = 0)
  BY OrderVenueAssumption DEF Sound, Now
<1>3. order[c] \in 0..Size /\ queued[c] \in 0..Size /\ order[c] + queued[c] <= Size
  BY <1>2
<1>4. order[c] - qty \in 0..Size /\ queued[c] + qty \in 0..Size
  BY <1>2, <1>3
<1>5. order' \in [Cids -> 0..Size] /\ queued' \in [Cids -> 0..Size]
  BY <1>1, <1>2, <1>4
<1>6. reports' \subseteq Cids \X {"open", "ended"}
  BY <1>1, <1>2
<1>7. ASSUME NEW d \in Cids
      PROVE  order'[d] + queued'[d] <= Size /\ (<<d, "ended">> \in reports' => order'[d] = 0)
  <2>1. CASE d = c
    <3>1. order'[d] = order[c] - qty /\ queued'[d] = queued[c] + qty
      BY <1>1, <1>2, <2>1
    <3>2. order'[d] + queued'[d] <= Size
      BY <1>3, <3>1, <1>2
    <3>3. CASE qty = order[c]
      BY <1>3, <3>1, <3>2, <3>3
    <3>4. CASE qty # order[c]
      <4>1. <<c, "ended">> \notin reports
        BY <1>2, <1>3
      <4> QED BY <1>1, <2>1, <3>2, <3>4, <4>1
    <3> QED BY <3>3, <3>4
  <2>2. CASE d # c
    <3>1. order'[d] = order[d] /\ queued'[d] = queued[d]
      BY <1>1, <1>2, <2>2
    <3>2. <<d, "ended">> \in reports' => <<d, "ended">> \in reports
      BY <1>1, <2>2
    <3> QED BY <1>2, <3>1, <3>2
  <2> QED BY <2>1, <2>2
<1>8. \A d \in Cids : order'[d] > 0 => order[d] > 0
  BY <1>1, <1>2, <1>3
<1> QED BY <1>5, <1>6, <1>7, <1>8 DEF Sound, Now

\* Handling events, and losing them, only takes away.
LEMMA FewerSound ==
  ASSUME Sound(Now), order' = order, reports' \subseteq reports, queued' \in [Cids -> 0..Size],
         \A c \in Cids : queued'[c] <= queued[c]
  PROVE  Sound(Now)'
<1>1. /\ order \in [Cids -> 0..Size] /\ queued \in [Cids -> 0..Size] /\ Size \in Nat
      /\ reports \subseteq Cids \X {"open", "ended"}
      /\ \A d \in Cids : order[d] + queued[d] <= Size /\ (<<d, "ended">> \in reports => order[d] = 0)
  BY OrderVenueAssumption DEF Sound, Now
<1>2. ASSUME NEW c \in Cids
      PROVE  order'[c] + queued'[c] <= Size
  <2>1. order[c] \in 0..Size /\ queued[c] \in 0..Size /\ queued'[c] \in 0..Size
    BY <1>1
  <2>2. order[c] + queued[c] <= Size /\ queued'[c] <= queued[c] /\ order'[c] = order[c]
    BY <1>1
  <2> QED BY <1>1, <2>1, <2>2
<1> QED BY <1>1, <1>2 DEF Sound, Now

\* One trade is handled.
LEMMA TradeSound ==
  ASSUME Sound(Now), NEW c \in Cids, NEW qty \in 1..queued[c],
         queued' = [queued EXCEPT ![c] = @ - qty], UNCHANGED <<order, reports>>
  PROVE  Sound(Now)'
<1>1. queued \in [Cids -> 0..Size] /\ Size \in Nat
  BY OrderVenueAssumption DEF Sound, Now
<1>2. queued[c] \in 0..Size
  BY <1>1
<1>3. queued[c] - qty \in 0..Size /\ queued[c] - qty <= queued[c]
  BY <1>1, <1>2
<1>4. queued' \in [Cids -> 0..Size]
  BY <1>1, <1>3
<1>5. \A d \in Cids : queued'[d] <= queued[d]
  BY <1>1, <1>3
<1> QED BY <1>4, <1>5, FewerSound

\* An interruption loses trades and reports.
LEMMA GapSound ==
  ASSUME Sound(Now), LoseEvents
  PROVE  Sound(Now)'
<1>1. PICK lost \in SUBSET Cids : queued' = [c \in Cids |-> IF c \in lost THEN 0 ELSE queued[c]]
  BY DEF LoseEvents
<1>2. queued \in [Cids -> 0..Size] /\ Size \in Nat
  BY OrderVenueAssumption DEF Sound, Now
<1>3. queued' \in [Cids -> 0..Size] /\ \A c \in Cids : queued'[c] <= queued[c]
  BY <1>1, <1>2
<1>4. order' = order /\ reports' \subseteq reports
  BY DEF LoseEvents
<1> QED BY <1>3, <1>4, FewerSound

-----------------------------------------------------------------------------
(* The invariant.                                                          *)

Slots == [cid : Cids, oid : BOOLEAN]

SlotInv ==
  /\ slot \in [Sides -> {NoSlot} \cup Slots]
  /\ \A s \in Sides : Held(s) => At(slot[s].cid) = s

IInv == SlotInv /\ Sound(Now) /\ RestingIsTracked

-----------------------------------------------------------------------------
(* The slots.                                                              *)

\* A slot whose client id is one of an order is held, and the other way round.
LEMMA HeldSlots ==
  ASSUME SlotInv
  PROVE  /\ \A s \in Sides : Held(s) => slot[s] \in Slots /\ slot[s].cid \in HeldCids
         /\ \A s \in Sides : slot[s].cid \in Cids => Held(s)
         /\ HeldCids \subseteq Cids
<1>1. \A s \in Sides : Held(s) => slot[s] \in Slots
  BY DEF SlotInv, Held
<1>2. \A s \in Sides : Held(s) => slot[s].cid \in HeldCids
  BY DEF HeldCids
<1>3. \A s \in Sides : Held(s) => slot[s].cid \in Cids
  BY <1>1 DEF Slots
<1>4. NoSlot.cid = <<>>
  BY DEF NoSlot
<1>5. \A s \in Sides : slot[s].cid \in Cids => Held(s)
  BY <1>4, CidsAreIds DEF Held
<1>6. HeldCids \subseteq Cids
  BY <1>3 DEF HeldCids
<1> QED BY <1>1, <1>2, <1>5, <1>6

-----------------------------------------------------------------------------
(* A refresh.                                                              *)

\* A live refresh: what it asks for and what it is answered.
Asked(cancels, c, places, p) ==
  /\ Answers(c, cancels) /\ Answers(p, places)
  /\ \A s \in places : Cleared(cancels, c.told)[s] = NoSlot
  /\ CanIssue(places, HeldCids)

\* What its calls make of the venue: the cancelled orders are gone, and the orders
\* taken are new.
AfterCalls(c, places, p) ==
  LET cid == Issue(places, HeldCids)
      gone == {slot[s].cid : s \in c.gone}
      taken == {cid[s] : s \in p.taken}
  IN  /\ \A s \in places : /\ cid[s] \in Cids /\ At(cid[s]) = s /\ cid[s] \notin HeldCids
                           /\ order[cid[s]] = 0 /\ queued[cid[s]] = 0
                           /\ <<cid[s], "ended">> \notin reports
      /\ gone \subseteq HeldCids /\ HeldCids \subseteq Cids
      /\ Sound(Now)'
      /\ order' = [d \in Cids |-> IF d \in taken THEN Size ELSE IF d \in gone THEN 0 ELSE order[d]]
      /\ \A d \in Cids : Ended(Now, gone).order[d] = IF d \in gone THEN 0 ELSE order[d]
      /\ queued' = queued

\* They do.
LEMMA AnsweredVenue ==
  ASSUME IInv, NEW cancels \in SUBSET {s \in Sides : Held(s)}, NEW places \in SUBSET Sides,
         NEW c, NEW p, Asked(cancels, c, places, p), Answered(cancels, c, places, p)
  PROVE  AfterCalls(c, places, p)
<1> USE DEF Asked
<1> DEFINE cid == Issue(places, HeldCids)
           cleared == Cleared(cancels, c.told)
           gone == {slot[s].cid : s \in c.gone}
           taken == {cid[s] : s \in p.taken}
<1>1. \A s \in places : /\ cid[s] \in Cids /\ At(cid[s]) = s /\ cid[s] \notin HeldCids
                        /\ order[cid[s]] = 0 /\ queued[cid[s]] = 0
                        /\ <<cid[s], "ended">> \notin reports
  BY IssueFresh DEF IInv
<1>2. gone \subseteq HeldCids /\ HeldCids \subseteq Cids
  BY HeldSlots DEF IInv, Answers
<1>3. PICK rejected \in {{}, p.told \ p.taken} :
        Becomes(Rejected(Taken(Ended(Now, gone), taken), {cid[s] : s \in rejected}))
  BY DEF Answered
<1>4. /\ Sound(Now)'
      /\ order' = [d \in Cids |-> IF d \in taken THEN Size ELSE IF d \in gone THEN 0 ELSE order[d]]
  <2> DEFINE v == Ended(Now, gone)
             w == Taken(v, taken)
             refused == {cid[s] : s \in rejected}
  <2>1. taken \subseteq Cids /\ refused \subseteq Cids /\ gone \subseteq Cids
    <3>1. \A s \in p.taken \cup rejected : cid[s] \in Cids
      BY <1>1, <1>3 DEF Answers
    <3> QED BY <1>2, <3>1
  <2>2. \A d \in taken : queued[d] = 0 /\ d \notin gone /\ <<d, "ended">> \notin reports
    BY <1>1, <1>2 DEF Answers
  <2>3. \A d \in refused : order[d] = 0 /\ d \notin taken
    <3>1. ASSUME NEW r \in rejected, NEW s \in p.taken
          PROVE  order[cid[r]] = 0 /\ cid[r] # cid[s]
      BY <1>1, <1>3 DEF Answers
    <3>2. \A r \in rejected : order[cid[r]] = 0
      BY <1>1, <1>3 DEF Answers
    <3> QED BY <3>1, <3>2
  <2> HIDE DEF gone, taken, refused
  <2>4. /\ Sound(v) /\ v.order = [d \in Cids |-> IF d \in gone THEN 0 ELSE order[d]]
        /\ v.reports = reports \cup {<<d, "ended">> : d \in {e \in gone : order[e] > 0}}
    <3>1. Now.order = order /\ Now.reports = reports
      BY DEF Now
    <3>2. /\ Sound(v) /\ v.order = [d \in Cids |-> IF d \in gone THEN 0 ELSE Now.order[d]]
          /\ v.reports = Now.reports \cup {<<d, "ended">> : d \in {e \in gone : Now.order[e] > 0}}
      BY <2>1, EndedSound DEF IInv
    <3> QED BY <3>1, <3>2
  <2>5. \A d \in taken : <<d, "ended">> \notin v.reports
    BY <2>2, <2>4
  <2> HIDE DEF v
  <2>6. Sound(w) /\ w.order = [d \in Cids |-> IF d \in taken THEN Size ELSE v.order[d]]
    BY <2>1, <2>2, <2>4, <2>5, TakenSound
  <2> HIDE DEF w
  <2>7. \A d \in refused : w.order[d] = 0
    BY <2>1, <2>3, <2>4, <2>6
  <2>8. Sound(Rejected(w, refused)) /\ Rejected(w, refused).order = w.order
    BY <2>1, <2>6, <2>7, RejectedSound
  <2>9. Becomes(Rejected(w, refused))
    BY <1>3 DEF v, w, gone, taken, refused
  <2>10. Sound(Now)' /\ order' = w.order
    BY <2>8, <2>9, BecomesSound
  <2> QED BY <2>4, <2>6, <2>10
<1>5. queued' = queued
  BY <1>3 DEF Becomes
<1>6. \A d \in Cids : Ended(Now, gone).order[d] = IF d \in gone THEN 0 ELSE order[d]
  <2>1. Ended(Now, gone).order = [e \in Cids |-> IF e \in gone THEN 0 ELSE Now.order[e]]
    BY <1>2, EndedSound DEF IInv
  <2> QED BY <2>1 DEF Now
<1> QED BY <1>1, <1>2, <1>4, <1>5, <1>6 DEF AfterCalls

\* The calls of a live refresh, whatever they are answered, leave no order
\* untracked (strategy.rs:211-249).
LEMMA AnsweredKeeps ==
  ASSUME IInv, NEW cancels \in SUBSET {s \in Sides : Held(s)}, NEW places \in SUBSET Sides,
         NEW c, NEW p, Asked(cancels, c, places, p), Answered(cancels, c, places, p),
         life = "running", ~dryRun, UNCHANGED <<life, dryRun>>
  PROVE  IInv'
<1>0. AfterCalls(c, places, p)
  BY AnsweredVenue
<1> USE DEF Asked
<1> DEFINE cid == Issue(places, HeldCids)
           cleared == Cleared(cancels, c.told)
           gone == {slot[s].cid : s \in c.gone}
           taken == {cid[s] : s \in p.taken}
<1>1. \A s \in places : /\ cid[s] \in Cids /\ At(cid[s]) = s /\ cid[s] \notin HeldCids
                        /\ order[cid[s]] = 0 /\ queued[cid[s]] = 0
                        /\ <<cid[s], "ended">> \notin reports
  BY <1>0 DEF AfterCalls
<1>2. gone \subseteq HeldCids /\ HeldCids \subseteq Cids
  BY <1>0 DEF AfterCalls
<1>4. /\ Sound(Now)'
      /\ order' = [d \in Cids |-> IF d \in taken THEN Size ELSE IF d \in gone THEN 0 ELSE order[d]]
  BY <1>0 DEF AfterCalls
<1>5. slot' = [s \in Sides |-> IF s \in p.told THEN [cid |-> cid[s], oid |-> s \in p.named]
                               ELSE cleared[s]]
  BY DEF Answered
<1>6. loose' = {d \in loose \cup {slot[s].cid : s \in c.told \ c.gone} : Ended(Now, gone).order[d] > 0}
               \cup {cid[s] : s \in p.taken \ p.told}
  BY DEF Answered
<1>7. SlotInv'
  <2> SUFFICES ASSUME NEW s \in Sides
               PROVE  /\ slot'[s] \in {NoSlot} \cup Slots
                      /\ slot'[s] # NoSlot => At(slot'[s].cid) = s
    BY <1>5 DEF SlotInv, Held
  <2>1. CASE s \in p.told
    <3>1. cid[s] \in Cids /\ At(cid[s]) = s
      BY <1>1, <2>1 DEF Answers
    <3>2. slot'[s] = [cid |-> cid[s], oid |-> s \in p.named]
      BY <1>5, <2>1
    <3>3. (s \in p.named) \in BOOLEAN
      OBVIOUS
    <3> QED BY <3>1, <3>2, <3>3 DEF Slots
  <2>2. CASE s \notin p.told
    <3>1. slot'[s] = NoSlot \/ slot'[s] = slot[s]
      BY <1>5, <2>2 DEF Cleared
    <3> QED BY <3>1 DEF IInv, SlotInv, Held
  <2> QED BY <2>1, <2>2
<1>9. RestingIsTracked'
  <2> SUFFICES ASSUME NEW d \in Cids, order'[d] > 0
               PROVE  d \in loose' \/ slot'[At(d)].cid = d
    BY DEF RestingIsTracked, Resting
  <2>1. CASE d \in taken
    <3>1. PICK s \in p.taken : d = cid[s]
      BY <2>1
    <3>2. s \in places /\ At(d) = s /\ s \in Sides
      BY <1>1, <3>1 DEF Answers
    <3>3. s \in p.told => slot'[s].cid = d
      BY <1>5, <3>1, <3>2
    <3>4. s \notin p.told => d \in loose'
      BY <1>6, <3>1
    <3> QED BY <3>2, <3>3, <3>4
  <2>2. CASE d \notin taken
    <3>1. d \notin gone /\ order[d] > 0
      BY <1>4, <2>2
    <3>2. Ended(Now, gone).order[d] > 0
      BY <1>0, <3>1 DEF AfterCalls
    <3>3. d \in loose => d \in loose'
      BY <1>6, <3>2
    <3>4. CASE slot[At(d)].cid = d
      <4> DEFINE s == At(d)
      <4>1. s \in Sides /\ Held(s)
        BY <3>4, HeldSlots, AtQuote DEF IInv, Sides
      <4>2. s \in c.told => d \in loose'
        BY <1>6, <3>1, <3>2, <3>4
      <4>3. s \notin c.told => cleared[s] = slot[s]
        BY <4>1 DEF Cleared
      <4>4. s \notin c.told => s \notin p.told
        BY <4>1, <4>3 DEF Answers, Held
      <4>5. s \notin c.told => slot'[s].cid = d
        BY <1>5, <3>4, <4>1, <4>3, <4>4
      <4> QED BY <4>2, <4>5
    <3>5. d \in loose \/ slot[At(d)].cid = d
      BY <3>1 DEF IInv, RestingIsTracked, Resting
    <3> QED BY <3>3, <3>4, <3>5
  <2> QED BY <2>1, <2>2
<1> QED BY <1>4, <1>7, <1>9 DEF IInv

\* A paper refresh moves the slots only.
LEMMA PaperKeeps ==
  ASSUME IInv, NEW cancels \in SUBSET Sides, NEW places \in SUBSET Sides,
         CanIssue(places, HeldCids), PaperRefresh(cancels, places), dryRun, UNCHANGED dryRun
  PROVE  IInv'
<1> DEFINE cid == Issue(places, HeldCids)
<1>1. \A s \in places : /\ cid[s] \in Cids /\ At(cid[s]) = s /\ cid[s] \notin HeldCids
                        /\ order[cid[s]] = 0 /\ queued[cid[s]] = 0
                        /\ <<cid[s], "ended">> \notin reports
  BY IssueFresh DEF IInv
<1>2. slot' = [s \in Sides |-> IF s \in places THEN [cid |-> cid[s], oid |-> FALSE]
                              ELSE IF s \in cancels THEN NoSlot ELSE slot[s]]
  BY DEF PaperRefresh
<1>3. ASSUME NEW s \in Sides
      PROVE  slot'[s] \in {NoSlot} \cup Slots /\ (slot'[s] # NoSlot => At(slot'[s].cid) = s)
  <2>1. CASE s \in places
    <3>1. slot'[s] = [cid |-> cid[s], oid |-> FALSE]
      BY <1>2, <2>1
    <3>2. cid[s] \in Cids /\ At(cid[s]) = s
      BY <1>1, <2>1
    <3> QED BY <3>1, <3>2 DEF Slots
  <2>2. CASE s \notin places
    <3>1. slot'[s] = NoSlot \/ slot'[s] = slot[s]
      BY <1>2, <2>2
    <3> QED BY <3>1 DEF IInv, SlotInv, Held
  <2> QED BY <2>1, <2>2
<1>4. SlotInv'
  BY <1>2, <1>3 DEF SlotInv, Held
<1>5. Sound(Now)'
  BY DEF PaperRefresh, venue, IInv, Sound, Now
<1>6. RestingIsTracked'
  BY DEF RestingIsTracked
<1> QED BY <1>4, <1>5, <1>6 DEF IInv

\* refresh_quotes as a whole: a paper refresh, or calls for sides that may be
\* quoted.
LEMMA RefreshCases ==
  ASSUME Refresh
  PROVE  \/ /\ dryRun
            /\ \E cancels, places \in SUBSET Sides :
                 CanIssue(places, HeldCids) /\ PaperRefresh(cancels, places)
         \/ /\ ~dryRun
            /\ \E cancels \in SUBSET {s \in Sides : Held(s)}, places \in SUBSET {s \in Sides : CanQuote(s)} :
               \E c, p : Asked(cancels, c, places, p) /\ Answered(cancels, c, places, p)
<1>1. PICK quotable \in SUBSET {s \in Sides : CanQuote(s)} :
      \E drifted \in SUBSET {s \in quotable : Held(s)} :
        LET wanted == {s \in quotable : Held(s) => s \in drifted}
            cancels == {s \in Sides : Held(s) /\ (s \notin quotable \/ s \in wanted)}
        IN  /\ CanIssue(wanted, HeldCids)
            /\ IF dryRun THEN PaperRefresh(cancels, wanted) ELSE LiveRefresh(cancels, wanted)
  BY DEF Refresh
<1>2. PICK drifted \in SUBSET {s \in quotable : Held(s)} :
        LET wanted == {s \in quotable : Held(s) => s \in drifted}
            cancels == {s \in Sides : Held(s) /\ (s \notin quotable \/ s \in wanted)}
        IN  /\ CanIssue(wanted, HeldCids)
            /\ IF dryRun THEN PaperRefresh(cancels, wanted) ELSE LiveRefresh(cancels, wanted)
  BY <1>1
<1> DEFINE wanted == {s \in quotable : Held(s) => s \in drifted}
           cancels == {s \in Sides : Held(s) /\ (s \notin quotable \/ s \in wanted)}
<1>3. wanted \subseteq {s \in Sides : CanQuote(s)} /\ cancels \subseteq {s \in Sides : Held(s)}
  OBVIOUS
<1>4. CASE dryRun
  BY <1>2, <1>3, <1>4
<1>5. CASE ~dryRun
  <2>1. LiveRefresh(cancels, wanted)
    BY <1>2, <1>5
  <2>2. PICK c \in Calls!CancelOrders(exchange, cancels, {s \in cancels : slot[s].oid}) :
          LET places == {s \in wanted : Cleared(cancels, c.told)[s] = NoSlot}
          IN  \E p \in Calls!PlaceOrders(exchange, places) : Answered(cancels, c, places, p)
    BY <2>1 DEF LiveRefresh
  <2> DEFINE places == {s \in wanted : Cleared(cancels, c.told)[s] = NoSlot}
  <2>3. PICK p \in Calls!PlaceOrders(exchange, places) : Answered(cancels, c, places, p)
    BY <2>2
  <2>4. Answers(c, cancels)
    BY CancelAnswers
  <2>5. Answers(p, places)
    BY PlaceAnswers
  <2>6. CanIssue(places, HeldCids)
    BY <1>2 DEF CanIssue
  <2>7. places \in SUBSET {s \in Sides : CanQuote(s)} /\ cancels \in SUBSET {s \in Sides : Held(s)}
    BY <1>3
  <2>8. \A s \in places : Cleared(cancels, c.told)[s] = NoSlot
    OBVIOUS
  <2> HIDE DEF places, cancels, wanted
  <2> QED BY <1>5, <2>3, <2>4, <2>5, <2>6, <2>7, <2>8 DEF Asked
<1> QED BY <1>4, <1>5

\* No refresh loses an order.
LEMMA RefreshKeeps ==
  ASSUME IInv, Refresh, life = "running", UNCHANGED <<life, dryRun>>
  PROVE  IInv'
<1>1. CASE dryRun
  BY <1>1, RefreshCases, PaperKeeps
<1>2. CASE ~dryRun
  <2>1. PICK cancels \in SUBSET {s \in Sides : Held(s)}, places \in SUBSET {s \in Sides : CanQuote(s)} :
             \E c, p : Asked(cancels, c, places, p) /\ Answered(cancels, c, places, p)
    BY <1>2, RefreshCases
  <2>2. PICK c, p : Asked(cancels, c, places, p) /\ Answered(cancels, c, places, p)
    BY <2>1
  <2> QED BY <1>2, <2>2, AnsweredKeeps
<1> QED BY <1>1, <1>2

-----------------------------------------------------------------------------
(* The other steps, and the theorem.                                       *)

\* The actor starts with empty slots, and tracks nothing yet.
LEMMA InitKeeps == Init => IInv
<1> SUFFICES ASSUME Init PROVE IInv
  OBVIOUS
<1>1. PICK earlier : order = [c \in Cids |-> IF c \in earlier THEN Size ELSE 0]
  BY DEF Init
<1>2. Sound(Now)
  BY <1>1, OrderVenueAssumption DEF Sound, Now, Init
<1>3. SlotInv
  BY DEF SlotInv, Held, Init
<1>4. RestingIsTracked
  BY DEF RestingIsTracked, Init
<1> QED BY <1>2, <1>3, <1>4 DEF IInv

\* Whatever rests after the start is loose.
LEMMA StartKeeps ==
  ASSUME IInv, Start
  PROVE  IInv'
<1>1. slot' = slot
  BY DEF Start
<1>2. SlotInv'
  BY <1>1 DEF IInv, SlotInv, Held
<1>3. CASE dryRun
  <2>1. Sound(Now)'
    BY <1>3 DEF Start, venue, IInv, Sound, Now
  <2>2. RestingIsTracked'
    BY <1>3 DEF Start, RestingIsTracked
  <2> QED BY <1>2, <2>1, <2>2 DEF IInv
<1>4. CASE ~dryRun
  <2>1. PICK c \in Calls!CancelAllOrders(exchange, Resting) :
          Becomes(Ended(Now, c.gone)) /\ loose' = Resting \ c.gone
    BY <1>4 DEF Start, StartLive
  <2>2. /\ Sound(Now)'
        /\ order' = [d \in Cids |-> IF d \in c.gone THEN 0 ELSE order[d]]
    BY <2>1, EndingSound, CancelAllAnswers DEF IInv
  <2>3. RestingIsTracked'
    BY <2>1, <2>2 DEF RestingIsTracked, Resting
  <2> QED BY <1>2, <2>2, <2>3 DEF IInv
<1> QED BY <1>3, <1>4

\* After wind_down nothing is tracked, but ends are still true.
LEMMA WindDownKeeps ==
  ASSUME IInv, WindDown
  PROVE  IInv'
<1>1. SlotInv'
  BY DEF WindDown, IInv, SlotInv, Held
<1>2. Sound(Now)'
  <2>1. CASE dryRun
    BY <2>1 DEF WindDown, venue, IInv, Sound, Now
  <2>2. CASE ~dryRun
    <3>1. PICK c \in Calls!CancelAllOrders(exchange, Resting) : Becomes(Ended(Now, c.gone))
      BY <2>2 DEF WindDown
    <3> QED BY <3>1, EndingSound, CancelAllAnswers DEF IInv
  <2> QED BY <2>1, <2>2
<1>3. RestingIsTracked'
  BY DEF WindDown, RestingIsTracked
<1> QED BY <1>1, <1>2, <1>3 DEF IInv

\* Only a report of an end clears a slot, and only the slot of that order.
LEMMA HandleReportKeeps ==
  ASSUME IInv, NEW c \in Cids, NEW what \in {"open", "ended"}, HandleReport(c, what)
  PROVE  IInv'
<1>1. ASSUME NEW s \in Sides
      PROVE  /\ slot'[s] \in {NoSlot} \cup Slots
             /\ slot'[s] # NoSlot => At(slot'[s].cid) = s
             /\ slot[s].cid \in Cids /\ slot[s].cid # c => slot'[s].cid = slot[s].cid
             /\ what # "ended" => slot'[s].cid = slot[s].cid
  <2>1. slot'[s] = IF what = "ended" /\ slot[s].cid = c THEN NoSlot
                   ELSE IF slot[s].cid = c THEN [cid |-> slot[s].cid, oid |-> TRUE] ELSE slot[s]
    BY DEF HandleReport, Clears, Learns
  <2>2. CASE slot[s].cid = c
    <3>1. slot[s] \in Slots /\ Held(s) /\ At(slot[s].cid) = s
      BY <2>2, HeldSlots DEF IInv, SlotInv
    <3>4. [cid |-> c, oid |-> TRUE] \in Slots /\ [cid |-> c, oid |-> TRUE].cid = c
      BY DEF Slots
    <3>5. (slot'[s] = NoSlot /\ what = "ended") \/ slot'[s] = [cid |-> c, oid |-> TRUE]
      BY <2>1, <2>2
    <3> QED BY <2>2, <3>1, <3>4, <3>5
  <2>3. CASE slot[s].cid # c
    <3>1. slot'[s] = slot[s]
      BY <2>1, <2>3
    <3>2. slot[s] \in {NoSlot} \cup Slots /\ (slot[s] # NoSlot => At(slot[s].cid) = s)
      BY DEF IInv, SlotInv, Held
    <3>3. slot'[s].cid = slot[s].cid
      BY <3>1
    <3> QED BY <3>1, <3>2, <3>3
  <2> QED BY <2>2, <2>3
<1>2. slot' = [s \in Sides |-> slot'[s]]
  BY DEF HandleReport
<1>3. SlotInv'
  BY <1>1, <1>2 DEF SlotInv, Held
<1>4. Sound(Now)'
  BY DEF HandleReport, IInv, Sound, Now
<1>5. RestingIsTracked'
  <2> SUFFICES ASSUME ~dryRun, NEW d \in Cids, order[d] > 0
               PROVE  d \in loose \/ slot'[At(d)].cid = d
    BY DEF RestingIsTracked, Resting, HandleReport
  <2>1. d \in loose \/ slot[At(d)].cid = d
    BY DEF HandleReport, IInv, RestingIsTracked, Resting
  <2>2. what = "ended" => c # d
    BY DEF HandleReport, IInv, Sound, Now
  <2> QED BY <1>1, <2>1, <2>2, AtQuote DEF Sides
<1> QED BY <1>3, <1>4, <1>5 DEF IInv

\* A fill moves no slot.
LEMMA VenueFillsKeeps ==
  ASSUME IInv, NEW c \in Cids, VenueFills(c)
  PROVE  IInv'
<1>1. Sound(Now)' /\ \A d \in Cids : order'[d] > 0 => order[d] > 0
  BY FillSound DEF VenueFills, IInv
<1>2. SlotInv'
  BY DEF VenueFills, IInv, SlotInv, Held
<1>3. RestingIsTracked'
  BY <1>1 DEF VenueFills, IInv, RestingIsTracked, Resting
<1> QED BY <1>1, <1>2, <1>3 DEF IInv

\* Nor does an end on the venue's own account.
LEMMA VenueCancelsKeeps ==
  ASSUME IInv, NEW c \in Cids, VenueCancels(c)
  PROVE  IInv'
<1>1. /\ Sound(Now)'
      /\ order' = [d \in Cids |-> IF d \in {c} THEN 0 ELSE order[d]]
  BY EndingSound DEF VenueCancels, VenueEnds, IInv
<1>2. SlotInv'
  BY DEF VenueCancels, IInv, SlotInv, Held
<1>3. RestingIsTracked'
  BY <1>1 DEF VenueCancels, IInv, RestingIsTracked, Resting
<1> QED BY <1>1, <1>2, <1>3 DEF IInv

\* Steps that move no order and no slot.
LEMMA OtherKeeps ==
  ASSUME IInv, UNCHANGED <<order, slot, dryRun, life, loose>>, Sound(Now)'
  PROVE  IInv'
<1>1. SlotInv'
  BY DEF IInv, SlotInv, Held
<1>2. RestingIsTracked'
  BY DEF IInv, RestingIsTracked, Resting
<1> QED BY <1>1, <1>2 DEF IInv

\* Every step keeps the inductive invariant.
LEMMA NextKeeps == IInv /\ [Next]_vars => IInv'
<1> SUFFICES ASSUME IInv, [Next]_vars PROVE IInv'
  OBVIOUS
<1>1. CASE Start
  BY <1>1, StartKeeps
<1>2. CASE WindDown
  BY <1>2, WindDownKeeps
<1>3. CASE BookUpdate
  BY <1>3, RefreshKeeps DEF BookUpdate
<1>4. CASE Tick
  <2>1. CASE ~dead
    BY <1>4, <2>1, RefreshKeeps DEF Tick
  <2>2. CASE dead
    <3>1. Sound(Now)'
      BY <1>4, <2>2 DEF Tick, venue, IInv, Sound, Now
    <3> QED BY <1>4, <2>2, <3>1, OtherKeeps DEF Tick, venue
  <2> QED BY <2>1, <2>2
<1>5. ASSUME NEW c \in Cids, HandleTrade(c)
      PROVE  IInv'
  <2>1. Sound(Now)'
    BY <1>5, TradeSound DEF HandleTrade, IInv
  <2> QED BY <1>5, <2>1, OtherKeeps DEF HandleTrade
<1>6. ASSUME NEW c \in Cids, HandleReport(c, "open") \/ HandleReport(c, "ended")
      PROVE  IInv'
  BY <1>6, HandleReportKeeps
<1>7. ASSUME NEW c \in Cids, VenueFills(c)
      PROVE  IInv'
  BY <1>7, VenueFillsKeeps
<1>8. ASSUME NEW c \in Cids, VenueCancels(c)
      PROVE  IInv'
  BY <1>8, VenueCancelsKeeps
<1>9. CASE Gap
  <2>1. Sound(Now)'
    BY <1>9, GapSound DEF Gap, IInv
  <2> QED BY <1>9, <2>1, OtherKeeps DEF Gap, LoseEvents
<1>10. CASE UNCHANGED vars
  <2>1. Sound(Now)'
    BY <1>10 DEF vars, venue, IInv, Sound, Now
  <2> QED BY <1>10, <2>1, OtherKeeps DEF vars, venue
<1> QED BY <1>1, <1>2, <1>3, <1>4, <1>5, <1>6, <1>7, <1>8, <1>9, <1>10 DEF Next

\* The slots of the simple market maker hold every order that rests at the
\* venue, but for orders of calls that were answered other than they went
\* (strategy.rs:204-260, 296-358): for every size, position limit and number of
\* client ids, at both exchanges and in a dry run.
THEOREM NoOrderLost == Spec => []RestingIsTracked
<1>1. Init => IInv
  BY InitKeeps
<1>2. IInv /\ [Next]_vars => IInv'
  BY NextKeeps
<1>3. IInv => RestingIsTracked
  BY DEF IInv
<1> QED BY <1>1, <1>2, <1>3, PTL DEF Spec

-----------------------------------------------------------------------------
(* Types.                                                                  *)

\* The sum of the model is the total of SumProofs.
LEMMA SumTotal ==
  ASSUME NEW S, NEW a
  PROVE  Sum(S, a) = Total(a, S)
BY DEF Sum, Total

\* There are finitely many client ids, of either side too.
LEMMA FiniteIds ==
  /\ IsFiniteSet(Cids)
  /\ \A s, S : S \subseteq Cids => IsFiniteSet(On(s, S)) /\ On(s, S) \subseteq Cids
<1>1. Quotes = {1} \cup {-1} /\ IsFiniteSet({1})
  BY SimpleMmAssumption, FS_Singleton
<1>2. IsFiniteSet(Quotes)
  BY <1>1, FS_AddElement
<1>3. IsFiniteSet(Cids)
  BY <1>2, OrderVenueAssumption, FS_Product DEF Cids
<1>4. ASSUME NEW s, NEW S, S \subseteq Cids
      PROVE  IsFiniteSet(On(s, S)) /\ On(s, S) \subseteq Cids
  <2>1. On(s, S) \in SUBSET Cids
    BY <1>4 DEF On
  <2> QED BY <1>3, <2>1, FS_Subset
<1> QED BY <1>3, <1>4

\* What adds up amounts of orders is a natural number.
LEMMA SumNat ==
  ASSUME NEW s, NEW S \in SUBSET Cids, NEW a \in [Cids -> 0..Size]
  PROVE  Sum(On(s, S), a) \in Nat
<1>0. IsFiniteSet(On(s, S)) /\ On(s, S) \subseteq Cids
  BY FiniteIds
<1>1. \A c \in On(s, S) : a[c] \in Int /\ a[c] >= 0
  BY <1>0, OrderVenueAssumption
<1>2. Total(a, On(s, S)) \in Int /\ Total(a, On(s, S)) >= 0
  BY <1>0, <1>1, TotalType
<1> QED BY <1>2, SumTotal

\* The variables that IInv says nothing of.
Plain ==
  /\ life \in {"new", "running", "down"} /\ exchange \in Calls!Exchanges
  /\ dryRun \in BOOLEAN /\ dead \in BOOLEAN /\ shutdown \in BOOLEAN /\ skewed \in BOOLEAN
  /\ net \in Int /\ position \in Int

TypeInv == Plain /\ loose \subseteq Resting /\ excess \in [Sides -> Nat]

\* What the invariant says of the types.
LEMMA Types == IInv /\ TypeInv => TypeOK
<1> SUFFICES ASSUME IInv, TypeInv PROVE TypeOK
  OBVIOUS
<1>1. VenueTypeOK
  BY DEF IInv, Sound, Now, VenueTypeOK
<1>2. \A c \in HeldCids : Held(At(c)) /\ slot[At(c)].cid = c
  BY DEF HeldCids, IInv, SlotInv
<1>3. slot \in [Sides -> {NoSlot} \cup [cid : Cids, oid : BOOLEAN]]
  BY DEF IInv, SlotInv, Slots
<1> QED BY <1>1, <1>2, <1>3 DEF TypeOK, TypeInv, Plain

\* The orders that a refresh leaves loose on purpose: it has been told that they
\* were cancelled, or they were loose before.
Strays(c) ==
  {d \in loose \cup {slot[s].cid : s \in c.told \ c.gone} :
     Ended(Now, {slot[s].cid : s \in c.gone}).order[d] > 0}

\* They rest before and after the calls, and no order among them is new.
StraysKept(c, places, p) ==
  /\ Strays(c) \subseteq Cids
  /\ \A d \in Strays(c) : /\ order[d] > 0 /\ order'[d] = order[d]
                          /\ \A s \in places : Issue(places, HeldCids)[s] # d
  /\ loose' = Strays(c) \cup {Issue(places, HeldCids)[s] : s \in p.taken \ p.told}
  /\ excess' = [s \in Sides |-> IF s \in places
                                THEN Sum(On(s, Cids), queued) + Sum(On(s, Strays(c)), order)
                                ELSE excess[s]]

\* What a refresh leaves on the venue unknown to the slots rests there (refresh_quotes).
LEMMA StraysRest ==
  ASSUME IInv, TypeInv, NEW cancels \in SUBSET {s \in Sides : Held(s)}, NEW places \in SUBSET Sides,
         NEW c, NEW p, Asked(cancels, c, places, p), Answered(cancels, c, places, p)
  PROVE  StraysKept(c, places, p)
<1> DEFINE cid == Issue(places, HeldCids)
           gone == {slot[s].cid : s \in c.gone}
           taken == {cid[s] : s \in p.taken}
<1>0. AfterCalls(c, places, p)
  BY AnsweredVenue
<1>1. \A s \in places : cid[s] \in Cids /\ order[cid[s]] = 0
  BY <1>0 DEF AfterCalls
<1>2. order' = [d \in Cids |-> IF d \in taken THEN Size ELSE IF d \in gone THEN 0 ELSE order[d]]
  BY <1>0 DEF AfterCalls
<1>3. \A d \in Cids : Ended(Now, gone).order[d] = IF d \in gone THEN 0 ELSE order[d]
  BY <1>0 DEF AfterCalls
<1>4. ASSUME NEW d \in Strays(c) PROVE d \in Cids
  <2>1. d \in loose \/ \E s \in c.told : d = slot[s].cid
    BY <1>4 DEF Strays
  <2>2. loose \subseteq Cids
    BY DEF TypeInv, Resting
  <2>3. \A s \in c.told : slot[s].cid \in Cids
    BY HeldSlots DEF IInv, Asked, Answers
  <2> QED BY <2>1, <2>2, <2>3
<1>5. ASSUME NEW d \in Strays(c)
      PROVE  order[d] > 0 /\ order'[d] = order[d] /\ \A s \in places : cid[s] # d
  <2>1. Ended(Now, gone).order[d] > 0 /\ d \in Cids
    BY <1>4, <1>5 DEF Strays
  <2>2. d \notin gone /\ order[d] > 0
    BY <1>3, <2>1
  <2>3. \A s \in places : cid[s] # d
    BY <1>1, <2>2
  <2>4. d \notin taken
    BY <2>3 DEF Asked, Answers
  <2> QED BY <1>2, <2>1, <2>2, <2>3, <2>4
<1>6. loose' = Strays(c) \cup {cid[s] : s \in p.taken \ p.told}
  BY DEF Answered, Strays
<1>7. excess' = [s \in Sides |-> IF s \in places
                                 THEN Sum(On(s, Cids), queued) + Sum(On(s, Strays(c)), order)
                                 ELSE excess[s]]
  BY DEF Answered, Strays
<1> QED BY <1>4, <1>5, <1>6, <1>7 DEF StraysKept

\* A refresh keeps the types of the two history variables.
LEMMA RefreshTypes ==
  ASSUME IInv, TypeInv, Refresh
  PROVE  (loose \subseteq Resting)' /\ (excess \in [Sides -> Nat])'
<1>1. CASE dryRun
  <2>1. UNCHANGED <<order, loose, excess>>
    BY <1>1, RefreshCases DEF PaperRefresh, venue
  <2> QED BY <2>1 DEF TypeInv, Resting
<1>2. CASE ~dryRun
  <2>1. PICK cancels \in SUBSET {s \in Sides : Held(s)}, places \in SUBSET {s \in Sides : CanQuote(s)} :
             \E c, p : Asked(cancels, c, places, p) /\ Answered(cancels, c, places, p)
    BY <1>2, RefreshCases
  <2>2. PICK c, p : Asked(cancels, c, places, p) /\ Answered(cancels, c, places, p)
    BY <2>1
  <2> DEFINE cid == Issue(places, HeldCids)
  <2>3. places \in SUBSET Sides
    BY <2>1
  <2>9. StraysKept(c, places, p)
    BY <2>2, <2>3, StraysRest
  <2>4. /\ Strays(c) \subseteq Cids
        /\ \A d \in Strays(c) : order[d] > 0 /\ order'[d] = order[d]
        /\ loose' = Strays(c) \cup {cid[s] : s \in p.taken \ p.told}
        /\ excess' = [s \in Sides |-> IF s \in places
                                      THEN Sum(On(s, Cids), queued) + Sum(On(s, Strays(c)), order)
                                      ELSE excess[s]]
    BY <2>9 DEF StraysKept
  <2>5. ASSUME NEW s \in p.taken PROVE cid[s] \in Cids /\ order'[cid[s]] > 0
    <3>1. AfterCalls(c, places, p)
      BY <2>2, <2>3, AnsweredVenue
    <3>2. cid[s] \in Cids
      BY <2>2, <2>5, <3>1 DEF AfterCalls, Asked, Answers
    <3>3. order'[cid[s]] = Size
      BY <2>5, <3>1, <3>2 DEF AfterCalls
    <3> QED BY <3>2, <3>3, OrderVenueAssumption
  <2>6. (loose \subseteq Resting)'
    BY <2>4, <2>5 DEF Resting
  <2>7. \A s \in Sides : Sum(On(s, Cids), queued) \in Nat /\ Sum(On(s, Strays(c)), order) \in Nat
    BY <2>4, SumNat DEF IInv, Sound, Now
  <2>8. (excess \in [Sides -> Nat])'
    BY <2>4, <2>7 DEF TypeInv
  <2> QED BY <2>6, <2>8
<1> QED BY <1>1, <1>2

\* What a start and a wind_down cancel stops resting.
LEMMA CancelAllTypes ==
  ASSUME IInv, NEW c \in Calls!CancelAllOrders(exchange, Resting), Becomes(Ended(Now, c.gone))
  PROVE  /\ c.gone \subseteq Cids
         /\ order' = [d \in Cids |-> IF d \in c.gone THEN 0 ELSE order[d]]
         /\ Resting' = Resting \ c.gone
         /\ Ended(Now, c.gone).order = order'
         /\ queued' = queued
<1>1. c.gone \in SUBSET Cids
  BY CancelAllAnswers
<1>2. order' = [d \in Cids |-> IF d \in c.gone THEN 0 ELSE order[d]]
  BY <1>1, EndingSound DEF IInv
<1>3. Resting' = Resting \ c.gone
  BY <1>2 DEF Resting
<1> QED BY <1>1, <1>2, <1>3 DEF Becomes

\* What is held on a side is covered by the limit and what is beyond it.
LEMMA BeyondType ==
  ASSUME position \in Int, NEW s \in Sides
  PROVE  Beyond(s) \in Nat /\ s * position <= MaxPosition + Beyond(s)
<1>1. s = 1 \/ s = -1
  BY SimpleMmAssumption DEF Sides
<1>2. s * position \in Int /\ MaxPosition \in Nat
  BY <1>1, SimpleMmAssumption
<1> QED BY <1>2 DEF Beyond

\* Every step keeps the types.
LEMMA TypeStep == IInv /\ TypeInv /\ [Next]_vars => TypeInv'
<1> SUFFICES ASSUME IInv, TypeInv, [Next]_vars PROVE TypeInv'
  OBVIOUS
<1> USE DEF TypeInv
<1>0. ASSUME UNCHANGED <<loose, excess, order>>, Plain' PROVE TypeInv'
  BY <1>0 DEF Resting
<1>1. CASE Start
  <2>1. CASE dryRun
    BY <1>0, <1>1, <2>1 DEF Start, Plain, venue
  <2>2. CASE ~dryRun
    <3>1. PICK c \in Calls!CancelAllOrders(exchange, Resting) :
            /\ Becomes(Ended(Now, c.gone))
            /\ \/ /\ life' = "running" /\ net' = position
                  /\ loose' = Resting \ c.gone
                  /\ excess' = [s \in Sides |-> Sum(On(s, loose'), Ended(Now, c.gone).order) + Beyond(s)]
                  /\ skewed' = (\E d \in Cids : queued[d] > 0)
               \/ life' = "down" /\ loose' = Resting \ c.gone /\ UNCHANGED <<net, excess, skewed>>
      BY <1>1, <2>2 DEF Start, StartLive, Seeded
    <3>2. /\ Resting' = Resting \ c.gone
          /\ Ended(Now, c.gone).order = order'
      BY <3>1, CancelAllTypes
    <3>3. order' \in [Cids -> 0..Size]
      BY <1>1, StartKeeps DEF IInv, Sound, Now
    <3>4. loose' \in SUBSET Cids
      BY <3>1 DEF Resting
    <3>5. \A s \in Sides : Sum(On(s, loose'), order') + Beyond(s) \in Nat
      <4> SUFFICES ASSUME NEW s \in Sides PROVE Sum(On(s, loose'), order') + Beyond(s) \in Nat
        OBVIOUS
      <4>1. Sum(On(s, loose'), order') \in Nat
        BY <3>3, <3>4, SumNat
      <4>2. Beyond(s) \in Nat
        BY BeyondType DEF Plain
      <4> QED BY <4>1, <4>2
    <3>6. Plain'
      <4>1. UNCHANGED <<exchange, dryRun, dead, shutdown, position>>
        BY <1>1 DEF Start
      <4> QED BY <3>1, <4>1 DEF Plain
    <3>7. (loose \subseteq Resting)'
      BY <3>1, <3>2
    <3>8. (excess \in [Sides -> Nat])'
      <4>1. CASE excess' = [s \in Sides |-> Sum(On(s, loose'), order') + Beyond(s)]
        BY <3>5, <4>1
      <4>2. CASE excess' = excess
        BY <4>2
      <4> QED BY <3>1, <3>2, <4>1, <4>2
    <3> QED BY <3>6, <3>7, <3>8
  <2> QED BY <2>1, <2>2
<1>2. CASE WindDown
  <2>1. CASE dryRun
    BY <1>0, <1>2, <2>1 DEF WindDown, Plain, venue
  <2>2. CASE ~dryRun
    <3>1. PICK c \in Calls!CancelAllOrders(exchange, Resting) :
            Becomes(Ended(Now, c.gone)) /\ loose' = loose \ c.gone
      BY <1>2, <2>2 DEF WindDown
    <3>2. Resting' = Resting \ c.gone
      BY <3>1, CancelAllTypes
    <3> QED BY <1>2, <3>1, <3>2 DEF WindDown, Plain
  <2> QED BY <2>1, <2>2
<1>3. CASE Refresh /\ UNCHANGED <<life, exchange, dryRun, net, dead, position, skewed>>
           /\ shutdown' \in BOOLEAN
  BY <1>3, RefreshTypes DEF Plain
<1>4. CASE BookUpdate
  BY <1>3, <1>4 DEF BookUpdate, Plain
<1>5. CASE Tick
  BY <1>0, <1>3, <1>5 DEF Tick, Plain, venue
<1>6. ASSUME NEW c \in Cids, HandleTrade(c)
      PROVE  TypeInv'
  <2>1. PICK qty \in 1..queued[c] : net' = net + At(c) * qty
    BY <1>6 DEF HandleTrade
  <2>2. At(c) \in Int /\ qty \in Int
    BY AtQuote, SimpleMmAssumption
  <2>3. net' \in Int
    BY <2>1, <2>2 DEF Plain
  <2> QED BY <1>0, <1>6, <2>3 DEF HandleTrade, Plain
<1>7. ASSUME NEW c \in Cids, HandleReport(c, "open") \/ HandleReport(c, "ended")
      PROVE  TypeInv'
  BY <1>0, <1>7 DEF HandleReport, Plain
<1>8. ASSUME NEW c \in Cids, VenueFills(c)
      PROVE  TypeInv'
  <2>1. PICK qty \in 1..order[c] : order' = [order EXCEPT ![c] = @ - qty]
    BY <1>8 DEF VenueFills, Fill
  <2>2. order[c] \in 0..Size /\ order' \in [Cids -> 0..Size] /\ At(c) \in Int
    BY <1>8, FillSound, AtQuote, SimpleMmAssumption DEF VenueFills, IInv, Sound, Now
  <2>3. order[c] \in Int /\ order'[c] \in Int
    BY <2>2
  <2>4. position' \in Int
    BY <1>8, <2>2, <2>3 DEF VenueFills, Plain
  <2>5. loose' = {d \in loose : order'[d] > 0} /\ excess' = excess
    BY <1>8 DEF VenueFills
  <2>6. (loose \subseteq Resting)'
    BY <2>5 DEF Resting
  <2> QED BY <1>8, <2>4, <2>5, <2>6 DEF VenueFills, Plain
<1>9. ASSUME NEW c \in Cids, VenueCancels(c)
      PROVE  TypeInv'
  <2>1. order' = [d \in Cids |-> IF d \in {c} THEN 0 ELSE order[d]]
    BY <1>9, EndingSound DEF VenueCancels, VenueEnds, IInv
  <2>2. (loose \subseteq Resting)'
    BY <1>9, <2>1 DEF VenueCancels, Resting
  <2> QED BY <1>9, <2>2 DEF VenueCancels, Plain
<1>10. CASE Gap
  BY <1>0, <1>10 DEF Gap, LoseEvents, Plain
<1>11. CASE UNCHANGED vars
  BY <1>0, <1>11 DEF vars, venue, Plain
<1> QED BY <1>1, <1>2, <1>4, <1>5, <1>6, <1>7, <1>8, <1>9, <1>10, <1>11 DEF Next

\* The invariant with the types holds throughout.
LEMMA InvHolds == Spec => [](IInv /\ TypeInv)
<1>1. Init => IInv /\ TypeInv
  <2> SUFFICES ASSUME Init PROVE TypeInv
    BY InitKeeps
  <2>0. /\ life = "new" /\ exchange \in Calls!Exchanges /\ dryRun \in BOOLEAN
        /\ dead = FALSE /\ shutdown = FALSE /\ skewed = FALSE /\ net = 0 /\ position \in Inherited
    BY DEF Init
  <2>3. net \in Int /\ position \in Int
    BY <2>0, SimpleMmAssumption
  <2>4. dead \in BOOLEAN /\ shutdown \in BOOLEAN /\ skewed \in BOOLEAN
    BY <2>0
  <2>1. Plain
    BY <2>0, <2>3, <2>4, Zenon DEF Plain
  <2>2. excess \in [Sides -> Nat]
    BY DEF Init
  <2> QED BY <2>1, <2>2 DEF Init, TypeInv
<1>2. IInv /\ TypeInv /\ [Next]_vars => (IInv /\ TypeInv)'
  BY NextKeeps, TypeStep
<1> QED BY <1>1, <1>2, PTL DEF Spec

\* Every variable keeps its type; loose orders rest, and a slot holds an order
\* of its own side.
THEOREM TypeCorrect == Spec => []TypeOK
<1>1. IInv /\ TypeInv => TypeOK
  BY Types
<1> QED BY <1>1, InvHolds, PTL

-----------------------------------------------------------------------------
(* The worst case.                                                         *)

\* The tracker and the trades on their way to it add up to the position, and
\* before the start there is at most one order of an earlier session.
BookKept ==
  life = "running" /\ ~dryRun /\ ~skewed =>
    position = net + Sum(On(1, Cids), queued) - Sum(On(-1, Cids), queued)

CapInv == BookKept /\ WorstCaseCapped

\* The total of a side when the amount of one client id has changed.
LEMMA SumChange ==
  ASSUME NEW a \in [Cids -> 0..Size], NEW b \in [Cids -> 0..Size], NEW c \in Cids,
         \A d \in Cids \ {c} : b[d] = a[d], NEW s \in Sides
  PROVE  /\ a[c] \in Nat /\ b[c] \in Nat
         /\ Sum(On(s, Cids), a) \in Nat /\ Sum(On(s, Cids), b) \in Nat
         /\ Sum(On(s, Cids), b) = Sum(On(s, Cids), a) + (IF s = At(c) THEN b[c] - a[c] ELSE 0)
<1> DEFINE S == On(s, Cids)
<1>1. IsFiniteSet(S) /\ S \subseteq Cids
  BY FiniteIds
<1>2. \A d \in Cids : a[d] \in Nat /\ b[d] \in Nat
  BY OrderVenueAssumption
<1>3. Sum(S, a) \in Nat /\ Sum(S, b) \in Nat
  BY SumNat
<1>4. s = At(c) <=> c \in S
  BY DEF On
<1> HIDE DEF S
<1>5. \A d \in S : a[d] \in Int /\ b[d] \in Int
  BY <1>1, <1>2
<1>6. CASE c \in S
  <2>1. Total(b, S) = Total(a, S) - a[c] + b[c]
    BY <1>1, <1>5, <1>6, TotalChange
  <2> QED BY <1>2, <1>3, <1>4, <1>6, <2>1, SumTotal DEF S
<1>7. CASE c \notin S
  <2>1. \A d \in S : b[d] = a[d]
    BY <1>1, <1>7
  <2>2. Total(a, S) = Total(b, S)
    BY <1>1, <1>5, <2>1, TotalSame
  <2> QED BY <1>2, <1>3, <1>4, <1>7, <2>2, SumTotal DEF S
<1> QED BY <1>6, <1>7

\* The total of a side when none of its amounts has grown.
LEMMA SumLess ==
  ASSUME NEW a \in [Cids -> 0..Size], NEW b \in [Cids -> 0..Size], NEW s,
         \A d \in On(s, Cids) : b[d] <= a[d]
  PROVE  /\ Sum(On(s, Cids), a) \in Nat /\ Sum(On(s, Cids), b) \in Nat
         /\ Sum(On(s, Cids), b) <= Sum(On(s, Cids), a)
<1>1. IsFiniteSet(On(s, Cids)) /\ On(s, Cids) \subseteq Cids
  BY FiniteIds
<1>2. \A d \in On(s, Cids) : a[d] \in Int /\ b[d] \in Int
  BY <1>1, OrderVenueAssumption
<1>3. Total(b, On(s, Cids)) <= Total(a, On(s, Cids))
  BY <1>1, <1>2, TotalGrows
<1> QED BY <1>3, SumNat, SumTotal

\* Orders that end or fill do not add to the worst case.
LEMMA CappedStays ==
  ASSUME IInv, TypeInv, CapInv, Sound(Now)', \A d \in Cids : order'[d] <= order[d],
         UNCHANGED <<position, excess, dryRun>>, life' \in {life, "down"}, skewed => skewed'
  PROVE  WorstCaseCapped'
<1>1. order \in [Cids -> 0..Size] /\ order' \in [Cids -> 0..Size]
  BY DEF IInv, Sound, Now
<1>2. ASSUME NEW s \in Sides
      PROVE  /\ Sum(On(s, Cids), order) \in Nat /\ Sum(On(s, Cids), order') \in Nat
             /\ Sum(On(s, Cids), order') <= Sum(On(s, Cids), order)
  <2>1. \A d \in On(s, Cids) : order'[d] <= order[d]
    BY DEF On
  <2> QED BY <1>1, <2>1, SumLess
<1>3. ASSUME NEW s \in Sides
      PROVE  s * position \in Int /\ excess[s] \in Int
  <2>1. position \in Int /\ (s = 1 \/ s = -1) /\ excess[s] \in Nat
    BY SimpleMmAssumption DEF TypeInv, Plain, Sides
  <2> QED BY <2>1
<1>4. ASSUME NEW s \in Sides, NEW m \in Int, s * position + Sum(On(s, Cids), order) <= m
      PROVE  s * position + Sum(On(s, Cids), order') <= m
  BY <1>2, <1>3, <1>4
<1>5. \A s \in Sides : MaxPosition + excess[s] \in Int
  BY <1>3, SimpleMmAssumption
<1> QED BY <1>4, <1>5 DEF CapInv, WorstCaseCapped

\* What rests of a side that has been quoted: its strays and one order.
LEMMA QuotedRests ==
  ASSUME IInv, TypeInv, NEW cancels \in SUBSET {s \in Sides : Held(s)}, NEW places \in SUBSET Sides,
         NEW c, NEW p, Asked(cancels, c, places, p), Answered(cancels, c, places, p),
         life = "running", ~dryRun, NEW s \in places
  PROVE  Sum(On(s, Cids), order') <= Sum(On(s, Strays(c)), order) + Size
<1> DEFINE cid == Issue(places, HeldCids)
           new == cid[s]
           gone == {slot[r].cid : r \in c.gone}
           taken == {cid[r] : r \in p.taken}
           strays == On(s, Strays(c))
           S == On(s, Cids)
           T == strays \cup {new}
<1>1. AfterCalls(c, places, p) /\ StraysKept(c, places, p)
  BY AnsweredVenue, StraysRest
<1>2. /\ \A r \in places : cid[r] \in Cids /\ At(cid[r]) = r
      /\ order' = [d \in Cids |-> IF d \in taken THEN Size ELSE IF d \in gone THEN 0 ELSE order[d]]
      /\ \A d \in Cids : Ended(Now, gone).order[d] = IF d \in gone THEN 0 ELSE order[d]
      /\ order' \in [Cids -> 0..Size] /\ order \in [Cids -> 0..Size]
  BY <1>1 DEF AfterCalls, Sound, Now, IInv
<1>3. /\ Strays(c) \subseteq Cids
      /\ \A d \in Strays(c) : order'[d] = order[d] /\ d # new
  BY <1>1 DEF StraysKept
<1>4. T \subseteq S /\ new \in S /\ strays \subseteq S /\ new \notin strays
  BY <1>2, <1>3 DEF On
<1>5. ASSUME NEW d \in S, d \notin T PROVE order'[d] = 0
  <2>1. d \in Cids /\ At(d) = s /\ d # new /\ d \notin Strays(c)
    BY <1>5 DEF On
  <2>2. d \notin taken
    <3>1. \A r \in p.taken : r \in places
      BY DEF Asked, Answers
    <3>2. \A r \in places : cid[r] = d => r = s
      BY <1>2, <2>1
    <3> QED BY <2>1, <3>1, <3>2
  <2>3. CASE d \in gone
    BY <1>2, <2>1, <2>2, <2>3
  <2>4. CASE d \notin gone
    <3>1. order'[d] = order[d] /\ Ended(Now, gone).order[d] = order[d] /\ order[d] \in 0..Size
      BY <1>2, <2>1, <2>2, <2>4
    <3>2. ASSUME order[d] > 0 PROVE FALSE
      <4>1. d \notin loose /\ \A r \in c.told \ c.gone : slot[r].cid # d
        BY <2>1, <3>1, <3>2 DEF Strays
      <4>2. slot[s].cid = d
        BY <2>1, <3>2, <4>1 DEF IInv, RestingIsTracked, Resting
      <4>3. s \notin c.gone
        BY <2>4, <4>2
      <4>4. s \notin c.told
        BY <4>1, <4>2, <4>3
      <4>5. slot[s] = NoSlot
        BY <4>4 DEF Asked, Cleared
      <4>6. Held(s)
        BY <2>1, <4>2, HeldSlots DEF IInv
      <4> QED BY <4>5, <4>6 DEF Held
    <3> QED BY <3>1, <3>2, OrderVenueAssumption
  <2> QED BY <2>3, <2>4
<1>6. IsFiniteSet(S) /\ S \subseteq Cids
  BY FiniteIds
<1>7. IsFiniteSet(T) /\ IsFiniteSet(strays) /\ T \ {new} = strays
  BY <1>4, <1>6, FS_Subset
<1> HIDE DEF S, T, strays, new
<1>8. \A d \in S : order'[d] \in Int /\ order[d] \in Int
  BY <1>2, <1>6, OrderVenueAssumption
<1>9. Total(order', S) = Total(order', T)
  BY <1>4, <1>5, <1>6, <1>8, TotalSupport
<1>10. Total(order', T) = order'[new] + Total(order', strays)
  <2>1. new \in T /\ \A d \in T : order'[d] \in Int
    BY <1>4, <1>8 DEF T
  <2>2. Total(order', T) = order'[new] + Total(order', T \ {new})
    BY <1>7, <2>1, TotalStep
  <2> QED BY <1>7, <2>2
<1>11. Total(order', strays) = Total(order, strays) /\ Total(order, strays) \in Int
  <2>1. \A d \in strays : order[d] \in Int /\ order'[d] = order[d]
    BY <1>3, <1>4, <1>8 DEF strays, On
  <2> QED BY <1>7, <2>1, TotalSame, TotalType
<1>12. order'[new] \in 0..Size /\ Size \in Nat
  BY <1>2, <1>4, <1>6, OrderVenueAssumption
<1>13. Total(order', S) <= Total(order, strays) + Size
  BY <1>9, <1>10, <1>11, <1>12
<1> QED BY <1>13, SumTotal DEF S, strays

\* A refresh keeps the worst case within the limit: a side is quoted only if the
\* inventory allows it one order (strategy.rs:86-95).
LEMMA RefreshCapped ==
  ASSUME IInv, IInv', TypeInv, CapInv, Refresh, life = "running",
         UNCHANGED <<life, dryRun, net, position, skewed>>
  PROVE  CapInv'
<1>2. CASE dryRun
  BY <1>2 DEF CapInv, BookKept, WorstCaseCapped
<1>3. CASE ~dryRun
  <2>1. PICK cancels \in SUBSET {s \in Sides : Held(s)}, places \in SUBSET {s \in Sides : CanQuote(s)} :
             \E c, p : Asked(cancels, c, places, p) /\ Answered(cancels, c, places, p)
    BY <1>3, RefreshCases
  <2>2. PICK c, p : Asked(cancels, c, places, p) /\ Answered(cancels, c, places, p)
    BY <2>1
  <2>3. places \in SUBSET Sides
    BY <2>1
  <2>4. AfterCalls(c, places, p) /\ StraysKept(c, places, p)
    BY <2>2, <2>3, AnsweredVenue, StraysRest
  <2>5. queued' = queued
    BY <2>4 DEF AfterCalls
  <2>6. BookKept'
    BY <2>5 DEF CapInv, BookKept
  <2>7. /\ order \in [Cids -> 0..Size] /\ order' \in [Cids -> 0..Size] /\ queued \in [Cids -> 0..Size]
        /\ net \in Int /\ position \in Int /\ MaxPosition \in Nat /\ Size \in Nat
        /\ excess \in [Sides -> Nat] /\ Strays(c) \in SUBSET Cids
    BY <2>4, SimpleMmAssumption, OrderVenueAssumption DEF IInv, Sound, Now, TypeInv, Plain, StraysKept
  <2>8. WorstCaseCapped'
    <3> SUFFICES ASSUME ~skewed, NEW s \in Sides
                 PROVE  s * position + Sum(On(s, Cids), order') <= MaxPosition + excess'[s]
      BY DEF WorstCaseCapped
    <3>1. /\ Sum(On(s, Cids), order) \in Nat /\ Sum(On(s, Cids), order') \in Nat
          /\ Sum(On(s, Strays(c)), order) \in Nat
          /\ Sum(On(1, Cids), queued) \in Nat /\ Sum(On(-1, Cids), queued) \in Nat
      BY <2>7, SumNat
    <3>2. s = 1 \/ s = -1
      BY SimpleMmAssumption DEF Sides
    <3>3. CASE s \in places
      <4>1. excess'[s] = Sum(On(s, Cids), queued) + Sum(On(s, Strays(c)), order)
        BY <2>4, <3>3 DEF StraysKept
      <4>2. Sum(On(s, Cids), order') <= Sum(On(s, Strays(c)), order) + Size
        BY <1>3, <2>2, <2>3, <3>3, QuotedRests
      <4>3. position = net + Sum(On(1, Cids), queued) - Sum(On(-1, Cids), queued)
        BY <1>3 DEF CapInv, BookKept
      <4>4. s * net + Size <= MaxPosition
        BY <2>1, <3>3 DEF CanQuote
      <4>5. CASE s = 1
        BY <2>7, <3>1, <4>1, <4>2, <4>3, <4>4, <4>5
      <4>6. CASE s = -1
        BY <2>7, <3>1, <4>1, <4>2, <4>3, <4>4, <4>6
      <4> QED BY <3>2, <4>5, <4>6
    <3>4. CASE s \notin places
      <4>1. excess'[s] = excess[s]
        BY <2>4, <3>4 DEF StraysKept
      <4>2. \A d \in On(s, Cids) : order'[d] <= order[d]
        <5> SUFFICES ASSUME NEW d \in Cids, At(d) = s PROVE order'[d] <= order[d]
          BY DEF On
        <5>1. \A r \in p.taken : Issue(places, HeldCids)[r] # d
          <6>1. \A r \in places : At(Issue(places, HeldCids)[r]) = r
            BY <2>4 DEF AfterCalls
          <6>2. \A r \in p.taken : r \in places
            BY <2>2 DEF Asked, Answers
          <6> QED BY <3>4, <6>1, <6>2
        <5>2. order'[d] = 0 \/ order'[d] = order[d]
          BY <2>4, <5>1 DEF AfterCalls
        <5>3. order[d] \in Nat
          BY <2>7
        <5> QED BY <5>2, <5>3
      <4>3. Sum(On(s, Cids), order') <= Sum(On(s, Cids), order)
        BY <2>7, <4>2, SumLess
      <4>4. s * position + Sum(On(s, Cids), order) <= MaxPosition + excess[s]
        BY <1>3 DEF CapInv, WorstCaseCapped
      <4>5. excess[s] \in Nat /\ s * position \in Int
        BY <2>7, <3>2
      <4> QED BY <2>7, <3>1, <4>1, <4>3, <4>4, <4>5
    <3> QED BY <3>3, <3>4
  <2> QED BY <2>6, <2>8 DEF CapInv
<1> QED BY <1>2, <1>3

\* The start takes the position over, whatever it is, and counts what it could not cancel.
LEMMA StartCapped ==
  ASSUME IInv, IInv', TypeInv, CapInv, Start
  PROVE  CapInv'
<1>2. CASE dryRun
  BY <1>2 DEF CapInv, BookKept, WorstCaseCapped, Start
<1>3. CASE ~dryRun
  <2>1. PICK c \in Calls!CancelAllOrders(exchange, Resting) :
          /\ Becomes(Ended(Now, c.gone))
          /\ loose' = Resting \ c.gone
          /\ \/ /\ life' = "running" /\ net' = position
                /\ excess' = [s \in Sides |-> Sum(On(s, loose'), Ended(Now, c.gone).order) + Beyond(s)]
                /\ skewed' = (\E d \in Cids : queued[d] > 0)
             \/ life' = "down"
    BY <1>3 DEF Start, StartLive, Seeded
  <2>2. CASE life' = "down"
    BY <2>2 DEF CapInv, BookKept, WorstCaseCapped
  <2>3. CASE life' # "down" /\ skewed'
    BY <2>3 DEF CapInv, BookKept, WorstCaseCapped
  <2>4. CASE life' # "down" /\ ~skewed'
    <3>1. /\ Resting' = Resting \ c.gone /\ Ended(Now, c.gone).order = order'
          /\ queued' = queued
      BY <2>1, CancelAllTypes
    <3>2. /\ net' = position /\ position' = position /\ loose' = Resting'
          /\ excess' = [s \in Sides |-> Sum(On(s, loose'), order') + Beyond(s)]
          /\ \A d \in Cids : ~(queued[d] > 0)
      BY <2>1, <2>4, <3>1 DEF Start
    <3>3. /\ order \in [Cids -> 0..Size] /\ order' \in [Cids -> 0..Size]
          /\ queued \in [Cids -> 0..Size] /\ position \in Int
          /\ MaxPosition \in Nat /\ Size \in Nat /\ Size <= MaxPosition
      BY SimpleMmAssumption, OrderVenueAssumption DEF IInv, Sound, Now, TypeInv, Plain
    <3>4. \A s : Sum(On(s, Cids), queued) = 0
      <4> SUFFICES ASSUME NEW s PROVE Sum(On(s, Cids), queued) = 0
        OBVIOUS
      <4>1. IsFiniteSet(On(s, Cids)) /\ On(s, Cids) \subseteq Cids
        BY FiniteIds
      <4>2. \A d \in On(s, Cids) : queued[d] \in Int /\ queued[d] = 0
        BY <3>2, <3>3, <4>1
      <4>3. Total(queued, On(s, Cids)) = 0
        BY <4>1, <4>2, TotalType
      <4> QED BY <4>3, SumTotal
    <3>5. BookKept'
      BY <3>1, <3>2, <3>3, <3>4 DEF BookKept
    <3>6. WorstCaseCapped'
      <4> SUFFICES ASSUME NEW s \in Sides
                   PROVE  s * position + Sum(On(s, Cids), order') <= MaxPosition + excess'[s]
        BY <3>2 DEF WorstCaseCapped
      <4>1. Sum(On(s, Cids), order') = Sum(On(s, loose'), order')
        <5> DEFINE S == On(s, Cids)
                   T == On(s, loose')
        <5>1. IsFiniteSet(S) /\ S \subseteq Cids
          BY FiniteIds
        <5>2. T \in SUBSET S /\ \A d \in S \ T : order'[d] = 0
          <6>1. \A d \in Cids : d \notin Resting' => order'[d] = 0
            BY <3>3 DEF Resting
          <6>2. loose' \subseteq Cids
            BY <3>2 DEF Resting
          <6> QED BY <3>2, <6>1, <6>2 DEF On
        <5> HIDE DEF S, T
        <5>3. \A d \in S : order'[d] \in Int
          BY <3>3, <5>1
        <5>4. Total(order', S) = Total(order', T)
          BY <5>1, <5>2, <5>3, TotalSupport
        <5> QED BY <5>4, SumTotal DEF S, T
      <4>2. Sum(On(s, Cids), order') \in Nat /\ Sum(On(s, Cids), order) \in Nat
        BY <3>3, SumNat
      <4>4. s = 1 \/ s = -1
        BY SimpleMmAssumption DEF Sides
      <4>5. s * position \in Int
        BY <3>3, <4>4
      <4>6. excess'[s] = Sum(On(s, loose'), order') + Beyond(s)
        BY <3>2
      <4>7. Beyond(s) \in Nat /\ s * position <= MaxPosition + Beyond(s)
        BY <3>3, BeyondType
      <4> QED BY <3>3, <4>1, <4>2, <4>5, <4>6, <4>7
    <3> QED BY <3>5, <3>6 DEF CapInv
  <2> QED BY <2>2, <2>3, <2>4
<1> QED BY <1>2, <1>3

\* A trade moves from what is queued to what the tracker has.
LEMMA TradeCapped ==
  ASSUME IInv, IInv', TypeInv, CapInv, NEW c \in Cids, HandleTrade(c)
  PROVE  CapInv'
<1>1. UNCHANGED <<order, life, dryRun, position, excess, skewed>>
  BY DEF HandleTrade
<1>2. WorstCaseCapped'
  BY <1>1 DEF CapInv, WorstCaseCapped
<1>3. BookKept'
  <2> SUFFICES ASSUME ~dryRun, ~skewed
               PROVE  position = net' + Sum(On(1, Cids), queued') - Sum(On(-1, Cids), queued')
    BY <1>1 DEF BookKept
  <2>1. PICK qty \in 1..queued[c] : /\ queued' = [queued EXCEPT ![c] = @ - qty]
                                    /\ net' = net + At(c) * qty
    BY DEF HandleTrade
  <2>2. /\ queued \in [Cids -> 0..Size] /\ queued' \in [Cids -> 0..Size]
        /\ net \in Int /\ position \in Int
    BY DEF IInv, Sound, Now, TypeInv, Plain
  <2>3. 1 \in Sides /\ -1 \in Sides /\ (At(c) = 1 \/ At(c) = -1) /\ qty \in Int
    BY SimpleMmAssumption, AtQuote DEF Sides
  <2>4. \A d \in Cids \ {c} : queued'[d] = queued[d]
    BY <2>1, <2>2
  <2>5. queued'[c] = queued[c] - qty
    BY <2>1, <2>2
  <2>6. /\ queued[c] \in Nat
        /\ Sum(On(1, Cids), queued) \in Nat /\ Sum(On(-1, Cids), queued) \in Nat
        /\ Sum(On(1, Cids), queued') =
             Sum(On(1, Cids), queued) + (IF 1 = At(c) THEN queued'[c] - queued[c] ELSE 0)
        /\ Sum(On(-1, Cids), queued') =
             Sum(On(-1, Cids), queued) + (IF -1 = At(c) THEN queued'[c] - queued[c] ELSE 0)
    BY <2>2, <2>3, <2>4, SumChange
  <2>7. position = net + Sum(On(1, Cids), queued) - Sum(On(-1, Cids), queued)
    BY DEF CapInv, BookKept, HandleTrade
  <2>8. CASE At(c) = 1
    <3>1. net' = net + qty
      BY <2>1, <2>3, <2>8
    <3> QED BY <2>2, <2>3, <2>5, <2>6, <2>7, <2>8, <3>1
  <2>9. CASE At(c) = -1
    <3>1. net' = net - qty
      BY <2>1, <2>2, <2>3, <2>9
    <3> QED BY <2>2, <2>3, <2>5, <2>6, <2>7, <2>9, <3>1
  <2> QED BY <2>3, <2>8, <2>9
<1> QED BY <1>2, <1>3 DEF CapInv

\* A fill moves from what rests to the position, and is queued.
LEMMA FillCapped ==
  ASSUME IInv, IInv', TypeInv, CapInv, NEW c \in Cids, VenueFills(c)
  PROVE  CapInv'
<1>1. PICK qty \in 1..order[c] : /\ order' = [order EXCEPT ![c] = @ - qty]
                                 /\ queued' = [queued EXCEPT ![c] = @ + qty]
  BY DEF VenueFills, Fill
<1>2. /\ order \in [Cids -> 0..Size] /\ order' \in [Cids -> 0..Size]
      /\ queued \in [Cids -> 0..Size] /\ queued' \in [Cids -> 0..Size]
      /\ net \in Int /\ position \in Int /\ MaxPosition \in Nat /\ Size \in Nat
      /\ excess \in [Sides -> Nat] /\ UNCHANGED <<life, dryRun, net, excess, skewed>>
  BY SimpleMmAssumption, OrderVenueAssumption DEF VenueFills, IInv, Sound, Now, TypeInv, Plain
<1>3. (At(c) = 1 \/ At(c) = -1) /\ qty \in Nat /\ Sides = {1, -1}
  BY SimpleMmAssumption, AtQuote DEF Sides
<1>4. /\ order'[c] = order[c] - qty /\ queued'[c] = queued[c] + qty
      /\ \A d \in Cids \ {c} : order'[d] = order[d] /\ queued'[d] = queued[d]
  BY <1>1, <1>2
<1>5. /\ order[c] \in Nat /\ queued[c] \in Nat
      /\ \A s \in Sides :
           /\ Sum(On(s, Cids), order) \in Nat /\ Sum(On(s, Cids), queued) \in Nat
           /\ Sum(On(s, Cids), order') =
                Sum(On(s, Cids), order) + (IF s = At(c) THEN order'[c] - order[c] ELSE 0)
           /\ Sum(On(s, Cids), queued') =
                Sum(On(s, Cids), queued) + (IF s = At(c) THEN queued'[c] - queued[c] ELSE 0)
  BY <1>2, <1>4, SumChange
<1>6. position' = position + At(c) * qty
  BY <1>3, <1>4, <1>5 DEF VenueFills
<1>7. position' \in Int /\ position' = IF At(c) = 1 THEN position + qty ELSE position - qty
  BY <1>2, <1>3, <1>6
<1>8. BookKept'
  <2> SUFFICES ASSUME life = "running", ~dryRun, ~skewed
               PROVE  position' = net + Sum(On(1, Cids), queued') - Sum(On(-1, Cids), queued')
    BY <1>2 DEF BookKept
  <2>1. position = net + Sum(On(1, Cids), queued) - Sum(On(-1, Cids), queued)
    BY DEF CapInv, BookKept
  <2>2. CASE At(c) = 1
    BY <1>2, <1>3, <1>4, <1>5, <1>7, <2>1, <2>2
  <2>3. CASE At(c) = -1
    BY <1>2, <1>3, <1>4, <1>5, <1>7, <2>1, <2>3
  <2> QED BY <1>3, <2>2, <2>3
<1>9. ASSUME NEW s \in Sides, NEW m \in Int, s * position + Sum(On(s, Cids), order) <= m
      PROVE  s * position' + Sum(On(s, Cids), order') <= m
  <2>1. CASE s = 1
    BY <1>2, <1>3, <1>4, <1>5, <1>7, <1>9, <2>1
  <2>2. CASE s = -1
    BY <1>2, <1>3, <1>4, <1>5, <1>7, <1>9, <2>2
  <2> QED BY <1>3, <2>1, <2>2
<1>10. WorstCaseCapped'
  <2>1. \A s \in Sides : MaxPosition + excess[s] \in Int
    BY <1>2
  <2> QED BY <1>2, <1>9, <2>1 DEF CapInv, WorstCaseCapped
<1> QED BY <1>8, <1>10 DEF CapInv

\* Nor do the other steps exceed it.
LEMMA CapStep == IInv /\ IInv' /\ TypeInv /\ CapInv /\ [Next]_vars => CapInv'
<1> SUFFICES ASSUME IInv, IInv', TypeInv, CapInv, [Next]_vars PROVE CapInv'
  OBVIOUS
<1>0. ASSUME UNCHANGED <<order, queued, life, dryRun, net, position, excess, skewed>>
      PROVE  CapInv'
  BY <1>0 DEF CapInv, BookKept, WorstCaseCapped
<1>01. Sound(Now)' /\ order \in [Cids -> 0..Size]
  BY DEF IInv, Sound, Now
<1>1. CASE Start
  BY <1>1, StartCapped
<1>2. CASE WindDown
  BY <1>2 DEF WindDown, CapInv, BookKept, WorstCaseCapped
<1>3. CASE BookUpdate
  BY <1>3, RefreshCapped DEF BookUpdate
<1>4. CASE Tick
  <2>1. CASE ~dead
    BY <1>4, <2>1, RefreshCapped DEF Tick
  <2>2. CASE dead
    BY <1>0, <1>4, <2>2 DEF Tick, venue
  <2> QED BY <2>1, <2>2
<1>5. ASSUME NEW c \in Cids, HandleTrade(c)
      PROVE  CapInv'
  BY <1>5, TradeCapped
<1>6. ASSUME NEW c \in Cids, HandleReport(c, "open") \/ HandleReport(c, "ended")
      PROVE  CapInv'
  BY <1>0, <1>6 DEF HandleReport
<1>7. ASSUME NEW c \in Cids, VenueFills(c)
      PROVE  CapInv'
  BY <1>7, FillCapped
<1>8. ASSUME NEW c \in Cids, VenueCancels(c)
      PROVE  CapInv'
  <2>1. order' = [d \in Cids |-> IF d \in {c} THEN 0 ELSE order[d]] /\ queued' = queued
    BY <1>8, EndingSound DEF VenueCancels, VenueEnds, IInv, Becomes
  <2>2. \A d \in Cids : order'[d] <= order[d]
    BY <1>01, <2>1, OrderVenueAssumption
  <2>3. UNCHANGED <<life, dryRun, net, position, excess, skewed>>
    BY <1>8 DEF VenueCancels
  <2>4. WorstCaseCapped'
    BY <1>01, <2>2, <2>3, CappedStays
  <2> QED BY <2>1, <2>3, <2>4 DEF CapInv, BookKept
<1>9. CASE Gap
  BY <1>9 DEF Gap, LoseEvents, CapInv, BookKept, WorstCaseCapped
<1>10. CASE UNCHANGED vars
  BY <1>0, <1>10 DEF vars, venue
<1> QED BY <1>1, <1>2, <1>3, <1>4, <1>5, <1>6, <1>7, <1>8, <1>9, <1>10 DEF Next

\* Nothing is claimed before the start.
LEMMA InitCapped == Init => CapInv
BY DEF Init, CapInv, BookKept, WorstCaseCapped

\* The resting orders of a side cannot take the position past max_position but by
\* what was queued or loose when the side was last quoted (strategy.rs:86-95), or by
\* what was inherited beyond it while the side has not been quoted (272-279): for
\* every size, limit, inherited position and number of client ids, whatever the
\* calls are answered.
THEOREM WorstCaseHolds == Spec => []WorstCaseCapped
<1>1. Init => CapInv
  BY InitCapped
<1>2. (IInv /\ TypeInv) /\ (IInv /\ TypeInv)' /\ CapInv /\ [Next]_vars => CapInv'
  BY CapStep
<1>3. CapInv => WorstCaseCapped
  BY DEF CapInv
<1> QED BY <1>1, <1>2, <1>3, InvHolds, PTL DEF Spec
=============================================================================
