---------------------------- MODULE BulletResync ----------------------------
(***************************************************************************)
(* The muxer with a strategy that does what the reconcile signal is for:   *)
(* it polls take_reconcile_signal and queries the venue over REST whenever *)
(* the signal was raised (broker.rs, health.rs).                           *)
(***************************************************************************)
EXTENDS BulletMuxer

VARIABLE resynced  \* the length of the venue's history at the last resync

ResyncInit == Init /\ resynced = 0

ResyncNext ==
  \/ TakeReconcile /\ resynced' = log
  \/ (Venue \/ Mux \/ Cancel \/ \E s \in Streams : Forward(s)) /\ UNCHANGED resynced

ResyncSpec == ResyncInit /\ [][ResyncNext]_<<vars, resynced>>

\* Stated of take_reconcile_signal (broker.rs:32-37): a strategy that resyncs
\* on each signal learns of "any state changes during the disconnect window".
\* With the socket up and nothing left to read or to take, each frame either
\* was read or happened before the last resync.
GapResynced ==
  conn = "up" /\ wire = <<>> /\ ~pending =>
    \A n \in 1..log : n \in read \/ n <= resynced
=============================================================================
