------------------------------ MODULE MCRunPage ------------------------------
(* Instances of the run's page and of its chart.  They share no variable, so   *)
(* that nothing is gained by interleaving them: a behaviour is of one or of    *)
(* the other.                                                                  *)
EXTENDS RunPage, RunChart

VARIABLE focus

MCInit ==
  /\ Init /\ ChartInit
  /\ \/ focus = "page" /\ last = 0
     \/ focus = "chart" /\ Now = 1 /\ Status(1) = "running"

MCNext ==
  /\ UNCHANGED focus
  /\ \/ focus = "page" /\ Next /\ UNCHANGED chartVars
     \/ focus = "chart" /\ ChartNext /\ UNCHANGED vars

MCSpec == MCInit /\ [][MCNext]_<<vars, chartVars, focus>> /\ Fairness

\* Both keep their types: among them, the buffer of events its limit, and a
\* dialog and its request a page that is open (ws.ts:38; promote-dialog.tsx:39-53).
MCTypeOK == TypeOK /\ ChartTypeOK
=============================================================================
