------------------------ MODULE MCAvellanedaStoikov -------------------------
(***************************************************************************)
(* The run explores two scopes, chosen at the start.                       *)
(*   "ladder": two rungs, as long as no order goes loose; it ends where    *)
(*     events are lost.  Sells fill in full.                               *)
(*   "faulty": one rung and whatever goes wrong with it, under fairness;   *)
(*     the actor starts so short that it never sells.                      *)
(* A wind-down is only entered on a shutdown of the actor's own.           *)
(***************************************************************************)
EXTENDS AvellanedaStoikov

CONSTANTS
  MaxLoose,   \* bound: orders that are loose, or will be when their trade is handled
  MaxEvents,  \* bound: events that are queued when the venue adds one
  MaxBought   \* bound: the position, and what is bought of one rung

VARIABLES
  scope,
  answered    \* the last step was an answered refresh (in scope "faulty")

Bid == <<1, 0>>
Ask == <<-1, 0>>
MCQuotes == {Bid, Ask}

AtRisk == loose \cup {c \in Resting : order[c] < Size}
Events == Cardinality({c \in Cids : queued[c] > 0}) + Cardinality(reports)
Bought == net + Sum({c \in Cids : At(c) = Bid}, queued) - Sum({c \in Cids : At(c) = Ask}, queued)

\* A report of an order that no slot holds changes nothing but itself and is
\* handled first.
Idle == {r \in reports : r[1] \notin HeldCids}

InScope ==
  /\ life # "down"
  /\ scope = "ladder" => (Resting = {} \/ life = "running") /\ ~signal

InScopeStep ==
  /\ Cardinality(AtRisk') <= MaxLoose
  /\ order' # order /\ slot' = slot => Events < MaxEvents
  /\ scope = "ladder" => /\ loose' = {}
                         /\ \A c \in Resting : At(c) = Ask => order'[c] \in {0, Size}
                         /\ Bought' \in 0..MaxBought
  /\ scope = "faulty" /\ life' = "running" => Bought' < -MaxPosition
  /\ life = "running" /\ life' = "down" => shutdown

Bounded(A) == InScope /\ A /\ InScopeStep /\ UNCHANGED scope

Answered == scope = "faulty" /\ Idle = {} /\ ~dead /\ answered' = TRUE /\ AnsweredRefresh

MCInit == Init /\ answered = FALSE /\ scope \in {"ladder", "faulty"} /\ InScope
MCNext ==
  Bounded(\/ /\ answered' = FALSE
            /\ IF Idle # {} /\ life = "running" THEN \E r \in Idle : HandleReport(r[1], r[2])
               ELSE IF dead THEN Tick \/ WindDown
               ELSE Next
          \/ Answered)

\* The fairness of FairSpec, for the steps in scope "faulty".
MCFairness ==
  /\ \A c \in Cids :
       /\ WF_vars(scope = "faulty" /\ Bounded(HandleTrade(c)))
       /\ \A what \in {"open", "ended"} :
            WF_vars(scope = "faulty" /\ Bounded(HandleReport(c, what)))
  /\ SF_<<vars, answered>>(scope = "faulty" /\ Bounded(Answered))
  /\ WF_vars(scope = "faulty" /\ Bounded(dead /\ Tick))
  /\ WF_vars(scope = "faulty" /\ Bounded(shutdown /\ WindDown))

MCSpec == MCInit /\ [][MCNext]_<<vars, scope, answered>> /\ MCFairness
=============================================================================
