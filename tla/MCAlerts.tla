------------------------------ MODULE MCAlerts ------------------------------
(* Instances of Alerts for TLC.                                              *)
EXTENDS Alerts, TLC

RunsAlike == Permutations(Runs)
=============================================================================
