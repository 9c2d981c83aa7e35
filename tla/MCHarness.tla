----------------------------- MODULE MCHarness ------------------------------
(***************************************************************************)
(* Two actors, cut to the streams that matter.  t1 is the first actor's    *)
(* critical subscription to Trade, b1 its ordinary one to BookUpdate       *)
(* (bb-bot wires every strategy with both kinds), o2 an ordinary           *)
(* subscription of the second actor to Trade.  The Trade channel keeps one *)
(* event of two, so that both kinds of subscription can lag; of three      *)
(* where t1 and b1 contend for their actor, so that t1 can also lag with   *)
(* an event in hand, waiting for the actor's mutex.                        *)
(***************************************************************************)
EXTENDS Harness

CONSTANTS t1, b1, o2, tradeFeed, bookFeed

MCFeedStream == [f \in Feeds |-> IF f = tradeFeed THEN "Trade" ELSE "BookUpdate"]
MCSubActor == [s \in Subs |-> IF s = o2 THEN 2 ELSE 1]
MCSubStream == [s \in Subs |-> IF s = b1 THEN "BookUpdate" ELSE "Trade"]
MCMaxEvents == [e \in Streams |-> IF e # "Trade" THEN 1 ELSE IF b1 \in Subs THEN 3 ELSE 2]
=============================================================================
