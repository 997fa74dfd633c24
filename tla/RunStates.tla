----------------------------- MODULE RunStates -----------------------------
(* The status vocabularies of a run.  Backend and supervisor each hard-code   *)
(* their own, and they are not the same set.                                  *)

\* models/run.py, class RunStatus: what the backend may store or accept.
RunStatus == {"queued", "running", "paused", "succeeded", "failed", "cancelled"}

\* reconcile.py, _ACTIVE: the rows a reconciliation pass looks at.
ACTIVE == {"queued", "running"}

\* reconcile.py, _TERMINAL.
FINISHED == {"succeeded", "failed", "cancelled"}

\* supervisor.rs, TERMINAL: the poller's own, wider list.
TERMINAL == FINISHED \cup {"completed", "errored", "error"}

\* No row in the runs table: before the insert and after a rollback.
Absent == "absent"

\* What Tinker answers about a job it no longer has (HTTP 404).
Missing == "missing"

=============================================================================
