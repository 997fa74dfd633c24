--------------------------- MODULE MCControlPlane ---------------------------
(* Instances of ControlPlane for TLC.                                        *)
EXTENDS ControlPlane, TLC

MCSymmetry == Permutations(Handles) \cup Permutations(Runs) \cup Permutations(Slots)
=============================================================================
