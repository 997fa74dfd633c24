------------------------------ MODULE MCBoard ------------------------------
(* Instances of the runs board, of the comparison and of the session.  They  *)
(* share no variable, so that nothing is gained by interleaving them: a      *)
(* behaviour is of one of them.                                              *)
EXTENDS RunsBoard, Session, Compare

VARIABLE focus

MCInit ==
  /\ BoardInit /\ SessionInit /\ CompareInit
  /\ \/ focus = "board" /\ picked = {}
     \/ focus = "session" /\ url = Bare /\ picked = {}
     \/ focus = "compare" /\ url = Bare

MCNext ==
  /\ UNCHANGED focus
  /\ \/ focus = "board" /\ BoardNext /\ UNCHANGED <<sessionVars, compareVars>>
     \/ focus = "session" /\ SessionNext /\ UNCHANGED <<boardVars, compareVars>>
     \/ focus = "compare" /\ CompareNext /\ UNCHANGED <<boardVars, sessionVars>>

MCSpec == MCInit /\ [][MCNext]_<<boardVars, sessionVars, compareVars, focus>> /\ BoardFairness

\* All keep their types: among them, one call of a cancellation at a time, at
\* most as many runs compared as there may be, and no whoami that is stale and
\* not there (runs-multiselect-actions.tsx:69-76; compare/page.tsx:34, 118).
MCTypeOK == BoardTypeOK /\ SessionTypeOK /\ CompareTypeOK
=============================================================================
