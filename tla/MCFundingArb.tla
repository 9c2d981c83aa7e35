---------------------------- MODULE MCFundingArb ----------------------------
(***************************************************************************)
(* Three scopes, one chosen at the start.                                  *)
(*   "orderly": two entries with failed calls, either order mode; it ends   *)
(*     where the actor goes astray or asks for a shutdown.                 *)
(*   "astray": one entry with market orders and whatever others do around   *)
(*     it: a position at the start, or fills on the same wallet.           *)
(*   "streams": one entry with PostOnly orders, and an interruption of the  *)
(*     event stream of venue a; it ends where an order of venue b is filled *)
(*     in part, and goes on where the actor is astray on the way in.       *)
(* The funding rate of b stays zero, so that a is the short leg, and only   *)
(* the stream of a is interrupted, only its signal raised: the model tells  *)
(* the two apart by nothing else.                                          *)
(*                                                                         *)
(* InventoryAddsUp checks the tracker itself on every short sequence of fills. *)
(***************************************************************************)
EXTENDS FundingArb

CONSTANTS
  Unit,       \* money amounts are in 1/Unit
  Prices,     \* of the fills the tracker is checked with
  FillSizes   \* their signed sizes

Tracker == INSTANCE Inventory

VARIABLE scope

QueuesShort(n) == \A ex \in Exchanges : Len(account[ex].trades) <= n

InScope ==
  /\ life # "down"
  /\ \/ /\ scope = "orderly" /\ ~astray /\ ~shutdown /\ foreign = 0 /\ gaps = 0 /\ QueuesShort(1)
     \/ /\ scope = "streams" /\ passive
        /\ account["b"].link = "up" /\ QueuesShort(2) /\ Len(account["b"].trades) <= 1
        /\ \A i \in DOMAIN account["b"].rests : account["b"].rests[i].left = Size
        /\ signal["a"] => gaps = 1
        /\ astray => gaps = 1 /\ untracked["a"] = 0 /\ phase = "entering" /\ account["b"].rests = <<>>
     \/ /\ scope = "astray" /\ ~passive /\ gaps = 0 /\ QueuesShort(1)
        /\ account["b"].rests = <<>>
        /\ signal["a"] => untracked["a"] # 0 /\ phase = "active"
        /\ account["a"].rests # <<>> => foreign = 0 /\ account["a"].position <= Size

InScopeStep ==
  /\ rate'["b"] = 0
  /\ scope # "orderly" => entries' <= 1
  /\ scope = "streams" => foreign' = 0
  /\ rate'["a"] >= MaxRate => phase' = "flat" /\ scope = "orderly"
  /\ signal'["b"] = FALSE

UntilShutdown == IF shutdown THEN WindDown ELSE Start \/ Step

MCInit == Init /\ scope \in {"orderly", "astray", "streams"} /\ InScope
MCNext ==
  /\ InScope
  /\ \/ scope = "orderly" /\ Next
     \/ scope # "orderly" /\ UntilShutdown
  /\ InScopeStep /\ UNCHANGED scope
MCSpec == MCInit /\ [][MCNext]_<<vars, scope>> /\ Fairness

-----------------------------------------------------------------------------

MCFillSizes == {-2, -1, 1, 2}

Money == {Unit * p : p \in Prices}
Fills == Money \X FillSizes
Positions == {[net |-> n, avg |-> p, realized |-> 0] : n \in FillSizes, p \in Money}

\* The profit of the tracker adds up for every sequence of up to three fills,
\* from a new tracker and from one seeded with a position
\* (inventory.rs:1-10 "the standard open-closed split").  The trackers are made
\* with the actor: this is about the states where a behaviour starts.
InventoryAddsUp ==
  MCInit => \A fills \in UNION {[1..n -> Fills] : n \in 0..3} :
    /\ Tracker!ProfitAddsUp(Tracker!NewTracker, fills)
    /\ \A p \in Positions :
         Tracker!ProfitAddsUp(Tracker!SeedFromPosition(Tracker!NewTracker, p.net, p.avg), fills)
=============================================================================
