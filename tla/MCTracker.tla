----------------------------- MODULE MCTracker -----------------------------
(* Instances of Tracker for TLC. *)
EXTENDS Tracker, TLC

\* A ping after one tick, then after two.
TwoTiers == 0 :> 1 @@ 1 :> 2
=============================================================================
