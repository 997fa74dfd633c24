---------------------------- MODULE MCMetricSink ----------------------------
(* Instances of MetricSink for TLC.  A behaviour is about the store, with     *)
(* several pollers at a time and nobody reading, or about the viewers of a    *)
(* run with a single poller, which can read where it had stopped.             *)
EXTENDS MetricSink, TLC

VARIABLE focus

MCSymmetry == Permutations(Subscribers)

MCInit == Init /\ focus \in {"store", "viewers"}

Alone == \A p \in MayFailLoad : pc'[p] = "off"

MCNext ==
  /\ UNCHANGED focus
  /\ Next
  /\ focus = "viewers" => Alone
  /\ focus = "store" => ring' = <<>> \/ \A u \in Subscribers : behind'[u] >= behind[u]

MCSpec == MCInit /\ [][MCNext]_<<vars, focus>>
=============================================================================
