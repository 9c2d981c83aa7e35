--------------------------- MODULE MCBulletResync ---------------------------
(* One lost connection and one frame are enough.                            *)
EXTENDS BulletResync

MCOrderOf == [n \in Frames |-> 1]
=============================================================================
