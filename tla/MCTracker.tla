----------------------------- MODULE MCTracker -----------------------------
(* Instances of Tracker for TLC.                                             *)
EXTENDS Tracker, TLC

MCSymmetry == Permutations(Handles) \cup Permutations(Runs)
=============================================================================
