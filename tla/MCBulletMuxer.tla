--------------------------- MODULE MCBulletMuxer ----------------------------
(***************************************************************************)
(* The run explores two scopes, chosen at the start.  "replay": only order *)
(* frames, with as many reconnects and late frames as it takes to make     *)
(* RecentIds forget an id; a window of two frames and a memory of three    *)
(* ids are the smallest in which a late frame can push a newer id out; the *)
(* venue adds a frame only when the last one has been read, and a status   *)
(* transition is forwarded at once.                                        *)
(* "streams": few frames, with market data, a final disconnect and the     *)
(* shutdown token.                                                         *)
(***************************************************************************)
EXTENDS BulletMuxer

VARIABLE scope

MCOrderOf == [n \in Frames |-> IF n = 3 THEN 2 ELSE 1]

InScope ==
  \/ scope = "replay" /\ books = 0 /\ conn # "gone" /\ ~cancelled
  \/ scope = "streams" /\ log <= 2 /\ drops <= 1

MCInit == Init /\ scope \in {"replay", "streams"}

Simplest ==
  /\ log' # log => wire = <<>>
  /\ queue["OrderLifecycle"] # <<>> => queue'["OrderLifecycle"] = <<>>

MCNext == Next /\ UNCHANGED scope /\ InScope' /\ (scope = "replay" => Simplest)

MCSpec ==
  /\ MCInit /\ [][MCNext]_<<vars, scope>>
  /\ WF_vars(Mux) /\ \A s \in {"Trade", "OrderLifecycle"} : WF_vars(Forward(s))
=============================================================================
