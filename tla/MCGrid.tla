------------------------------- MODULE MCGrid -------------------------------
(***************************************************************************)
(* The run explores two scopes, chosen at the start.                       *)
(*   "tracked": both levels buy, or one does; a position at the start or   *)
(*     none; the trend filter.  It ends where the grid loses track of an   *)
(*     order (the properties about resting orders say nothing after that)  *)
(*     unless it is suspended then.                                        *)
(*   "astray": one buy and one sell level without a trend filter, beyond   *)
(*     the point where one thing has gone wrong: an order lost track of, a *)
(*     wrong reply or a disconnect.                                        *)
(***************************************************************************)
EXTENDS Grid

VARIABLE scope

InScope ==
  \/ scope = "tracked" /\ anchor > 0 /\ (~raced \/ paused) /\ lost = 0 /\ ~disconnected
  \/ /\ scope = "astray" /\ anchor = 1 /\ start = 0 /\ ~paused /\ Len(trades) <= 1
     /\ Cardinality({i \in 1..3 : <<raced, lost > 0, disconnected>>[i]}) <= 1

MCInit == Init /\ scope \in {"tracked", "astray"} /\ InScope
MCNext == InScope /\ Next /\ UNCHANGED scope /\ (scope = "astray" => InScope')
MCSpec == MCInit /\ [][MCNext]_<<vars, scope>> /\ WF_vars(TickWorks)
=============================================================================
