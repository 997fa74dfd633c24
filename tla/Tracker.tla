------------------------------ MODULE Tracker ------------------------------
(****************************************************************************)
(* The Rust supervisor's registry of polled runs and the tokio task behind  *)
(* every entry (supervisor/src/supervisor.rs, main.rs, api.rs).             *)
(*                                                                          *)
(* A handle is one JobHandle with the task spawned for it, followed from    *)
(* the request that looks the run up to the end of the task.  Handlers run  *)
(* on several threads and DashMap locks one call at a time, so `track' is   *)
(* two steps.  The map is keyed by run: nothing but the entry ties a task   *)
(* to the registry.                                                         *)
(****************************************************************************)
EXTENDS Naturals, RunStates

CONSTANTS
  Runs,          \* ids of runs
  Handles,       \* bound: requests and tasks that exist at one time
  NoHandle,      \* an empty slot of the map
  NoRun,         \* the run of a free handle
  NoSnap,        \* no payload of Tinker in hand
  TinkerStatus   \* the job statuses Tinker may report

ASSUME TrackerAssumption ==
  /\ NoHandle \notin Handles
  /\ NoRun \notin Runs
  /\ NoSnap \notin TinkerStatus
  /\ Missing \notin TinkerStatus

VARIABLES
  proc,       \* the process: "serving", "draining", "closing" the pool, "down"
  toUntrack,  \* main's snapshot of the registry, still to be untracked
  jobs,       \* Supervisor.jobs: run -> handle or NoHandle
  pc,         \* where the handle's request or task stands
  runOf,      \* JobHandle.job.run_id
  cancelled,  \* JobHandle.cancel
  snap,       \* the status in the payload of the task's last poll
  row,        \* runs.status in the shared database
  job,        \* the job's status inside Tinker
  late        \* history: rows a task wrote after it was cancelled

taskVars == <<pc, runOf, snap, late>>
registryVars == <<proc, toUntrack, jobs, cancelled>>
vars == <<proc, toUntrack, jobs, pc, runOf, cancelled, snap, row, job, late>>

\* "checked": contains_key said no; "select": before tokio::select!;
\* "waiting": inside it; "polling": in get_job; "polled": payload in hand;
\* "applying": transaction begun; "exiting": run() returned, entry not removed.
Phases == {"free", "checked", "select", "waiting", "polling", "polled",
           "applying", "exiting"}

RowStatus == RunStatus \cup TinkerStatus \cup {Absent}

TypeOK ==
  /\ proc \in {"serving", "draining", "closing", "down"}
  /\ toUntrack \subseteq Runs
  /\ jobs \in [Runs -> Handles \cup {NoHandle}]
  /\ pc \in [Handles -> Phases]
  /\ runOf \in [Handles -> Runs \cup {NoRun}]
  /\ \A h \in Handles : runOf[h] = NoRun <=> pc[h] = "free"
  /\ cancelled \in [Handles -> BOOLEAN]
  /\ snap \in [Handles -> TinkerStatus \cup {NoSnap}]
  /\ \A h \in Handles : pc[h] \in {"polled", "applying"} => snap[h] # NoSnap
  /\ row \in [Runs -> RowStatus]
  /\ job \in [Runs -> TinkerStatus \cup {Missing}]
  /\ late \in [Handles -> Nat]

Live(h) == pc[h] \notin {"free", "checked"}
Listed == {r \in Runs : jobs[r] # NoHandle}

\* A process that has just started: nothing is reloaded from the database.
RegistryInit ==
  /\ proc = "serving"
  /\ toUntrack = {}
  /\ jobs = [r \in Runs |-> NoHandle]
  /\ pc = [h \in Handles |-> "free"]
  /\ runOf = [h \in Handles |-> NoRun]
  /\ cancelled = [h \in Handles |-> FALSE]
  /\ snap = [h \in Handles |-> NoSnap]
  /\ late = [h \in Handles |-> 0]

Init ==
  /\ RegistryInit
  /\ row = [r \in Runs |-> "queued"]
  /\ job \in [Runs -> TinkerStatus]

-----------------------------------------------------------------------------
(* POST /supervisor/track and /supervisor/untrack                            *)

\* track(), first half: contains_key finds no entry.  A request that was read
\* before the signal still runs while main drains.
TrackCheck(h, r) ==
  /\ proc \in {"serving", "draining"}
  /\ pc[h] = "free"
  /\ jobs[r] = NoHandle
  /\ pc' = [pc EXCEPT ![h] = "checked"]
  /\ runOf' = [runOf EXCEPT ![h] = r]
  /\ UNCHANGED <<registryVars, snap, late, row, job>>

\* track(), second half: insert replaces whatever entry is there by now, and
\* the task is spawned.
TrackInsert(h) ==
  /\ pc[h] = "checked"
  /\ jobs' = [jobs EXCEPT ![runOf[h]] = h]
  /\ pc' = [pc EXCEPT ![h] = "select"]
  /\ UNCHANGED <<proc, toUntrack, cancelled, runOf, snap, late, row, job>>

\* untrack() of a run that has an entry: the entry goes, the token is cancelled.
UntrackEntry(r) ==
  /\ jobs[r] # NoHandle
  /\ jobs' = [jobs EXCEPT ![r] = NoHandle]
  /\ cancelled' = [cancelled EXCEPT ![jobs[r]] = TRUE]

Untrack(r) ==
  /\ proc \in {"serving", "draining"}
  /\ UntrackEntry(r)
  /\ UNCHANGED <<proc, toUntrack, taskVars, row, job>>

-----------------------------------------------------------------------------
(* Supervisor::run, one task                                                 *)

\* The tokens the select watches: the task's own and the global one.
Stopping(h) == cancelled[h] \/ proc # "serving"

\* A fresh sleep is never ready, so a token that is already set wins at once.
EnterSelectIgnoringTokens(h) ==
  /\ pc[h] = "select"
  /\ pc' = [pc EXCEPT ![h] = "waiting"]
  /\ UNCHANGED <<registryVars, runOf, snap, late, row, job>>

EnterSelect(h) ==
  /\ pc[h] = "select"
  /\ ~Stopping(h)
  /\ pc' = [pc EXCEPT ![h] = "waiting"]
  /\ UNCHANGED <<registryVars, runOf, snap, late, row, job>>

Stop(h) ==
  /\ pc[h] \in {"select", "waiting"}
  /\ Stopping(h)
  /\ pc' = [pc EXCEPT ![h] = "exiting"]
  /\ UNCHANGED <<registryVars, runOf, snap, late, row, job>>

\* The sleep ran out.  When a token is set too, select! picks either branch.
Timer(h) ==
  /\ pc[h] = "waiting"
  /\ pc' = [pc EXCEPT ![h] = "polling"]
  /\ UNCHANGED <<registryVars, runOf, snap, late, row, job>>

PollOkWhatever(h) ==
  /\ pc[h] = "polling"
  /\ snap' = [snap EXCEPT ![h] = job[runOf[h]]]
  /\ pc' = [pc EXCEPT ![h] = "polled"]
  /\ UNCHANGED <<registryVars, runOf, late, row, job>>

PollOk(h) ==
  /\ pc[h] = "polling"
  /\ job[runOf[h]] # Missing
  /\ snap' = [snap EXCEPT ![h] = job[runOf[h]]]
  /\ pc' = [pc EXCEPT ![h] = "polled"]
  /\ UNCHANGED <<registryVars, runOf, late, row, job>>

PollNotFound(h) ==
  /\ pc[h] = "polling"
  /\ job[runOf[h]] = Missing
  /\ pc' = [pc EXCEPT ![h] = "exiting"]
  /\ UNCHANGED <<registryVars, runOf, snap, late, row, job>>

PollErrorIsFailure(h) ==
  /\ pc[h] = "polling"
  /\ snap' = [snap EXCEPT ![h] = "failed"]
  /\ pc' = [pc EXCEPT ![h] = "polled"]
  /\ UNCHANGED <<registryVars, runOf, late, row, job>>

PollError(h) ==
  /\ pc[h] = "polling"
  /\ pc' = [pc EXCEPT ![h] = "select"]
  /\ UNCHANGED <<registryVars, runOf, snap, late, row, job>>

\* pool.begin(): a closed pool hands out no connection.
BeginTx(h) ==
  /\ pc[h] = "polled"
  /\ proc \in {"serving", "draining"}
  /\ pc' = [pc EXCEPT ![h] = "applying"]
  /\ UNCHANGED <<registryVars, runOf, snap, late, row, job>>

\* The loop's end: a terminal status ends the task, whatever apply_update said.
AfterApplyPollingOn(h) == pc' = [pc EXCEPT ![h] = "select"]
AfterApply(h) ==
  pc' = [pc EXCEPT ![h] = IF snap[h] \in TERMINAL THEN "exiting" ELSE "select"]

\* UPDATE runs SET status: no condition on what the row holds; an absent row
\* is not created.
WriteRow(r, s) == row' = IF row[r] = Absent THEN row ELSE [row EXCEPT ![r] = s]

ApplyOk(h) ==
  /\ pc[h] = "applying"
  /\ WriteRow(runOf[h], snap[h])
  /\ late' = [late EXCEPT ![h] = IF cancelled[h] THEN @ + 1 ELSE @]
  /\ AfterApply(h)
  /\ snap' = [snap EXCEPT ![h] = NoSnap]
  /\ UNCHANGED <<registryVars, runOf, job>>

\* begin() refused, or with_retry gave up: only a warning is logged.
ApplyFail(h) ==
  /\ pc[h] \in {"polled", "applying"}
  /\ AfterApply(h)
  /\ snap' = [snap EXCEPT ![h] = NoSnap]
  /\ UNCHANGED <<registryVars, runOf, late, row, job>>

\* The spawned closure's last statement removes the RUN's entry, whichever
\* handle it holds by now.
RemoveNothing(h) ==
  /\ pc[h] = "exiting"
  /\ pc' = [pc EXCEPT ![h] = "free"]
  /\ runOf' = [runOf EXCEPT ![h] = NoRun]
  /\ cancelled' = [cancelled EXCEPT ![h] = FALSE]
  /\ late' = [late EXCEPT ![h] = 0]
  /\ UNCHANGED <<proc, toUntrack, jobs, snap, row, job>>

Remove(h) ==
  /\ pc[h] = "exiting"
  /\ jobs' = [jobs EXCEPT ![runOf[h]] = NoHandle]
  /\ pc' = [pc EXCEPT ![h] = "free"]
  /\ runOf' = [runOf EXCEPT ![h] = NoRun]
  /\ cancelled' = [cancelled EXCEPT ![h] = FALSE]
  /\ late' = [late EXCEPT ![h] = 0]
  /\ UNCHANGED <<proc, toUntrack, snap, row, job>>

Poll(h) == PollOk(h) \/ PollNotFound(h) \/ PollError(h)

TaskStep(h) ==
  \/ TrackInsert(h)
  \/ EnterSelect(h)
  \/ Stop(h)
  \/ Timer(h)
  \/ Poll(h)
  \/ BeginTx(h)
  \/ ApplyOk(h)
  \/ ApplyFail(h)
  \/ Remove(h)

-----------------------------------------------------------------------------
(* main(): signal, drain, close, and the process's death and restart         *)

Shutdown ==
  /\ proc = "serving"
  /\ proc' = "draining"
  /\ toUntrack' = Listed
  /\ UNCHANGED <<jobs, cancelled, taskVars, row, job>>

DrainUntrack(r) ==
  /\ r \in toUntrack
  /\ toUntrack' = toUntrack \ {r}
  /\ IF r \in Listed THEN UntrackEntry(r) ELSE UNCHANGED <<jobs, cancelled>>
  /\ UNCHANGED <<proc, taskVars, row, job>>

\* The drain loop looks at the registry, not at the tasks.
DrainDone ==
  /\ proc = "draining"
  /\ toUntrack = {}
  /\ Listed = {}
  /\ proc' = "closing"
  /\ UNCHANGED <<toUntrack, jobs, cancelled, taskVars, row, job>>

\* SHUTDOWN_DRAIN_SECS ran out.
DrainTimeout ==
  /\ proc = "draining"
  /\ toUntrack = {}
  /\ Listed # {}
  /\ proc' = "closing"
  /\ UNCHANGED <<toUntrack, jobs, cancelled, taskVars, row, job>>

\* Everything in the process's memory is lost.
ProcessGone ==
  /\ proc' = "down"
  /\ jobs' = [r \in Runs |-> NoHandle]
  /\ toUntrack' = {}
  /\ pc' = [h \in Handles |-> "free"]
  /\ runOf' = [h \in Handles |-> NoRun]
  /\ cancelled' = [h \in Handles |-> FALSE]
  /\ snap' = [h \in Handles |-> NoSnap]
  /\ late' = [h \in Handles |-> 0]
  /\ UNCHANGED <<row, job>>

\* pool.close() waits for the connections in use, then main returns.
Exit ==
  /\ proc = "closing"
  /\ \A h \in Handles : pc[h] # "applying"
  /\ ProcessGone

Crash == proc # "down" /\ ProcessGone

Restart ==
  /\ proc = "down"
  /\ proc' = "serving"
  /\ UNCHANGED <<toUntrack, jobs, cancelled, taskVars, row, job>>

MainStep ==
  \/ Shutdown
  \/ \E r \in Runs : DrainUntrack(r)
  \/ DrainDone
  \/ DrainTimeout
  \/ Exit
  \/ Crash
  \/ Restart

-----------------------------------------------------------------------------
(* Tinker, as the supervisor sees it: a finished job never moves again.      *)

JobMove(r) ==
  /\ job[r] \notin TERMINAL \cup {Missing}
  /\ \E s \in (TinkerStatus \cup {Missing}) \ {job[r]} :
       job' = [job EXCEPT ![r] = s]
  /\ UNCHANGED <<registryVars, taskVars, row>>

Next ==
  \/ \E h \in Handles, r \in Runs : TrackCheck(h, r)
  \/ \E r \in Runs : Untrack(r)
  \/ \E h \in Handles : TaskStep(h)
  \/ MainStep
  \/ \E r \in Runs : JobMove(r)

Spec == Init /\ [][Next]_vars

\* tokio runs every ready task; HTTP calls and transactions are bounded by
\* timeouts.  A job that is asked about again and again is answered at last.
TaskFairness ==
  \A h \in Handles : WF_vars(TaskStep(h)) /\ SF_vars(PollOk(h) \/ PollNotFound(h))

FairSpec == Spec /\ TaskFairness

-----------------------------------------------------------------------------
(* Properties                                                                *)

\* Whatever /supervisor/status lists has a task of that very run that nobody
\* has told to stop: an entry never names a dead, a cancelled or a foreign
\* task, however requests, exits and stale removals interleave
\* (supervisor.rs track, untrack and the closure it spawns).
ListedIsSupervised ==
  \A r \in Runs : jobs[r] # NoHandle =>
    /\ Live(jobs[r])
    /\ runOf[jobs[r]] = r
    /\ ~cancelled[jobs[r]]

\* After untrack() has returned, the task it cancelled may still overwrite the
\* run's row, but at most once (the poll that was under way in run()).
LateWriteBound == \A h \in Handles : late[h] <= 1

\* A cancelled task ends, even if it is caught in a poll that keeps failing
\* (the select in Supervisor::run).
CancelledStops == \A h \in Handles : cancelled[h] ~> ~cancelled[h]

\* No task polls a finished job for ever, although applying its result may
\* fail and the process may be told to stop (Supervisor::run's terminal exit).
FinishedJobReleased ==
  \A h \in Handles, r \in Runs :
    (Live(h) /\ runOf[h] = r /\ job[r] \in TERMINAL) ~> ~(Live(h) /\ runOf[h] = r)

=============================================================================
