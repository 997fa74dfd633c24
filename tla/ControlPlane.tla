---------------------------- MODULE ControlPlane ----------------------------
(****************************************************************************)
(* Who writes a run's status, and what keeps it true.  Three writers share  *)
(* one row with no lock and no version: the API handlers that cancel, pause *)
(* and resume (backend/app/api/runs.py), the reconciliation loop            *)
(* (backend/app/services/reconcile.py), and the supervisor's pollers, here  *)
(* the whole of module Tracker.  Each of them asks Tinker first and commits *)
(* what it heard later.                                                     *)
(*                                                                          *)
(* A run starts out created: its job exists, its row is committed as        *)
(* "queued" and the hand-off to the supervisor has been sent or has failed. *)
(*                                                                          *)
(* The reconciliation loop asks the supervisor with POST /supervisor/status *)
(* (reconcile.py:85), which the supervisor routes for GET only              *)
(* (main.rs:79): every pass that finds an active run ends with HTTP 405.    *)
(* A setup without "routed" is that system.  A setup with "routed" is the   *)
(* loop against the supervisor it and its tests assume, one that answers,   *)
(* and is where the rest of the loop's code can be examined at all.         *)
(****************************************************************************)
EXTENDS Naturals, RunStates

CONSTANTS
  Runs, Handles, NoHandle, NoRun, NoSnap, TinkerStatus,   \* as in Tracker
  Slots,       \* bound: API requests served at one time
  NoDelta,     \* a pass has seen no new status for the run
  Setups,      \* the setups to consider, each a subset of Features
  MaxOps,      \* bound: API requests in a behaviour
  MaxFaults    \* bound: crashes, lost messages and failed calls in a behaviour

\* "routed": the supervisor answers POST /supervisor/status.  "key": the backend
\* has TINKER_API_KEY, so no call lacks a key.  "forgets": Tinker may answer 404
\* for a job it once had.  "faulty": processes die, calls fail and messages get lost.
Features == {"routed", "key", "forgets", "faulty"}

ASSUME ControlPlaneAssumption ==
  /\ {"queued", "running", "paused", "cancelled"} \subseteq TinkerStatus
  /\ NoHandle \notin Handles /\ NoRun \notin Runs
  /\ NoSnap \notin TinkerStatus /\ Missing \notin TinkerStatus
  /\ NoDelta \notin RunStatus \cup TERMINAL
  /\ Setups \subseteq SUBSET Features
  /\ MaxOps \in Nat /\ MaxFaults \in Nat

VARIABLES
  proc, toUntrack, jobs, pc, runOf, cancelled, snap, row, job, late, \* Tracker
  setup,    \* the setup of this behaviour; it never changes
  req,      \* the API request in every slot
  net,      \* requests under way to the supervisor
  at,       \* where the reconciliation pass stands: "idle", "listing", "refreshing"
  todo,     \* runs the pass has not come to yet
  base,     \* the status of every run when the pass scanned the table
  delta,    \* the new status the pass's session holds, not yet committed
  tracked,  \* _list_supervisor_tracked's answer
  ops, faults

T == INSTANCE Tracker

trackerVars == <<proc, toUntrack, jobs, pc, runOf, cancelled, snap, late>>
passVars == <<at, todo, base, delta, tracked>>
vars == <<setup, trackerVars, row, job, req, net, passVars, ops, faults>>

IdleReq == [at |-> "idle", op |-> "cancelled", run |-> NoRun, loaded |-> Absent]

\* An operation is named for the status it sets: cancel, pause, resume.
Ops == {"cancelled", "paused", "running"}

\* What _list_supervisor_tracked makes of an entry: the text of the whole
\* {"run_id": ..., "tinker_job_id": ...} object, which is nobody's run id.
Repr(r) == [str |-> r]

TypeOK ==
  /\ T!TypeOK
  /\ setup \in Setups
  /\ req \in [Slots -> {IdleReq} \cup
       [at : {"calling", "saving"}, op : Ops, run : Runs, loaded : T!RowStatus]]
  /\ net \subseteq [kind : {"track", "untrack"}, run : Runs]
  /\ at \in {"idle", "listing", "refreshing"}
  /\ todo \subseteq Runs
  /\ base \in [Runs -> T!RowStatus]
  /\ delta \in [Runs -> RunStatus \cup {NoDelta}]
  /\ tracked \subseteq {Repr(r) : r \in Runs}
  /\ ops \in 0..MaxOps
  /\ faults \in 0..MaxFaults

TrackMsg(r) == [kind |-> "track", run |-> r]
UntrackMsg(r) == [kind |-> "untrack", run |-> r]

PassIdle ==
  /\ at' = "idle"
  /\ todo' = {}
  /\ base' = [r \in Runs |-> Absent]
  /\ delta' = [r \in Runs |-> NoDelta]
  /\ tracked' = {}

Init ==
  /\ setup \in Setups
  /\ T!RegistryInit
  /\ row = [r \in Runs |-> "queued"]
  /\ job = [r \in Runs |-> "queued"]
  /\ net \in SUBSET {TrackMsg(r) : r \in Runs}
  /\ req = [s \in Slots |-> IdleReq]
  /\ at = "idle"
  /\ todo = {}
  /\ base = [r \in Runs |-> Absent]
  /\ delta = [r \in Runs |-> NoDelta]
  /\ tracked = {}
  /\ ops = 0
  /\ faults = 0

Fault == "faulty" \in setup /\ faults < MaxFaults /\ faults' = faults + 1

-----------------------------------------------------------------------------
(* Tinker                                                                    *)

\* The ways a job ends by itself, in whatever words Tinker has for them: the
\* supervisor expects more of them than RunStatus knows.
OwnEnds == TERMINAL \ {"cancelled"}

\* The job's own course.
TinkerMove(r) ==
  /\ \/ job[r] = "queued" /\ job' = [job EXCEPT ![r] = "running"]
     \/ job[r] = "running" /\ \E s \in OwnEnds \cap TinkerStatus :
                                job' = [job EXCEPT ![r] = s]
  /\ UNCHANGED <<setup, trackerVars, row, req, net, passVars, ops, faults>>

TinkerForgets(r) ==
  /\ "forgets" \in setup
  /\ job[r] # Missing
  /\ job' = [job EXCEPT ![r] = Missing]
  /\ UNCHANGED <<setup, trackerVars, row, req, net, passVars, ops, faults>>

\* From which statuses an operation moves the job.
MovedBy(op) ==
  CASE op = "cancelled" -> {"queued", "running", "paused"}
    [] op = "paused"    -> {"queued", "running"}
    [] op = "running"   -> {"paused"}

\* The job after Tinker performed op; elsewhere the operation changes nothing.
Perform(r, op) ==
  job' = IF job[r] \in MovedBy(op) THEN [job EXCEPT ![r] = op] ELSE job

-----------------------------------------------------------------------------
(* POST /runs/{id}/cancel, /pause, /resume                                   *)

\* _get_run_or_404 and require_owner; no look at the status.
Load(s, op, r) ==
  /\ req[s] = IdleReq
  /\ ops < MaxOps
  /\ row[r] # Absent
  /\ ops' = ops + 1
  /\ req' = [req EXCEPT ![s] = [at |-> "calling", op |-> op, run |-> r, loaded |-> row[r]]]
  /\ UNCHANGED <<setup, trackerVars, row, job, net, passVars, faults>>

Reply(s, phase) ==
  req' = [req EXCEPT ![s] = IF phase = "idle" THEN IdleReq ELSE [@ EXCEPT !.at = phase]]

\* Tinker took the request.
CallOk(s) ==
  /\ req[s].at = "calling"
  /\ Perform(req[s].run, req[s].op)
  /\ Reply(s, "saving")
  /\ UNCHANGED <<setup, trackerVars, row, net, passVars, ops, faults>>

\* TinkerKeyMissing is a TinkerError: logged, and the handler goes on.
CallWithoutKey(s) ==
  /\ "key" \notin setup
  /\ req[s].at = "calling"
  /\ Reply(s, "saving")
  /\ UNCHANGED <<setup, trackerVars, row, job, net, passVars, ops, faults>>

\* Three attempts failed: tenacity raises RetryError, which no handler
\* catches.  Tinker may have performed an attempt whose answer was lost.
CallFailedButSaved(s) ==
  /\ Fault
  /\ req[s].at = "calling"
  /\ job' = job \/ Perform(req[s].run, req[s].op)
  /\ Reply(s, "saving")
  /\ UNCHANGED <<setup, trackerVars, row, net, passVars, ops>>

CallFailed(s) ==
  /\ Fault
  /\ req[s].at = "calling"
  /\ job' = job \/ Perform(req[s].run, req[s].op)
  /\ Reply(s, "idle")
  /\ UNCHANGED <<setup, trackerVars, row, net, passVars, ops>>

\* run.status = ...; commit.  SQLAlchemy writes an attribute only if it differs
\* from what was loaded.
Save(s) ==
  /\ req[s].at = "saving"
  /\ row' = IF req[s].loaded = req[s].op THEN row
            ELSE [row EXCEPT ![req[s].run] = req[s].op]
  /\ Reply(s, "idle")
  /\ UNCHANGED <<setup, trackerVars, job, net, passVars, ops, faults>>

-----------------------------------------------------------------------------
(* The reconciliation loop                                                   *)

\* Scan: without an active run the pass is over before it began.
PassScan ==
  /\ at = "idle"
  /\ \E r \in Runs : row[r] \in ACTIVE
  /\ at' = "listing"
  /\ todo' = {r \in Runs : row[r] \in ACTIVE}
  /\ base' = row
  /\ UNCHANGED <<delta, tracked>>
  /\ UNCHANGED <<setup, trackerVars, row, job, req, net, ops, faults>>

PassList ==
  /\ at = "listing"
  /\ "routed" \in setup
  /\ proc \in {"serving", "draining"}
  /\ at' = "refreshing"
  /\ tracked' = {Repr(r) : r \in T!Listed}
  /\ UNCHANGED <<todo, base, delta>>
  /\ UNCHANGED <<setup, trackerVars, row, job, req, net, ops, faults>>

SentForNothing(r, status) ==
  IF status \in FINISHED /\ r \in tracked THEN {UntrackMsg(r)} ELSE {}

\* What the loop's body sends once it knows the run's status.
SentFor(r, status) ==
  IF status \in FINISHED /\ r \in tracked THEN {UntrackMsg(r)}
  ELSE IF status = "running" /\ r \notin tracked THEN {TrackMsg(r)}
  ELSE {}

PassRefreshUnfiltered(r) ==
  /\ at = "refreshing"
  /\ "key" \in setup
  /\ r \in todo
  /\ todo' = todo \ {r}
  /\ delta' = [delta EXCEPT ![r] = job[r]]
  /\ net' = net \cup SentFor(r, job[r])
  /\ UNCHANGED <<at, base, tracked>>
  /\ UNCHANGED <<setup, trackerVars, row, job, req, ops, faults>>

\* get_job answered: _refresh_run_status, then untrack or retrack.  Nothing is
\* written yet.  A status RunStatus does not know is logged, and the run treated
\* as it was scanned.  The RL signals copied from the payload are left out.
PassRefresh(r) ==
  /\ at = "refreshing"
  /\ "key" \in setup
  /\ r \in todo
  /\ job[r] # Missing
  /\ todo' = todo \ {r}
  /\ delta' = IF job[r] \in RunStatus \ {base[r]}
              THEN [delta EXCEPT ![r] = job[r]] ELSE delta
  /\ net' = net \cup SentFor(r, IF job[r] \in RunStatus THEN job[r] ELSE base[r])
  /\ UNCHANGED <<at, base, tracked>>
  /\ UNCHANGED <<setup, trackerVars, row, job, req, ops, faults>>

\* TinkerKeyMissing, now or in an earlier pass whose cooldown still runs.
PassSkip(r) ==
  /\ at = "refreshing"
  /\ "key" \notin setup
  /\ r \in todo
  /\ todo' = todo \ {r}
  /\ net' = net \cup SentFor(r, base[r])
  /\ UNCHANGED <<at, base, delta, tracked>>
  /\ UNCHANGED <<setup, trackerVars, row, job, req, ops, faults>>

PassCommitForgotten ==
  /\ at = "refreshing"
  /\ todo = {}
  /\ PassIdle
  /\ UNCHANGED <<setup, trackerVars, row, job, req, net, ops, faults>>

\* The session is committed only if some status changed.
PassCommit ==
  /\ at = "refreshing"
  /\ todo = {}
  /\ row' = [r \in Runs |-> IF delta[r] = NoDelta THEN row[r] ELSE delta[r]]
  /\ PassIdle
  /\ UNCHANGED <<setup, trackerVars, job, req, net, ops, faults>>

\* The supervisor answers 405 or refuses the connection, or a run of the list
\* has no job at Tinker: 404 three times is a RetryError.  In each case the pass
\* is dropped with everything its session holds.
PassAbort ==
  /\ \/ at = "listing" /\ "routed" \notin setup
     \/ at = "listing" /\ proc \in {"closing", "down"}
     \/ at = "refreshing" /\ "key" \in setup /\ \E r \in todo : job[r] = Missing
  /\ PassIdle
  /\ UNCHANGED <<setup, trackerVars, row, job, req, net, ops, faults>>

\* A call of the pass timed out or was answered 5xx.
PassFault ==
  /\ Fault
  /\ at # "idle"
  /\ PassIdle
  /\ UNCHANGED <<setup, trackerVars, row, job, req, net, ops>>

\* The backend process dies and comes back: its handlers and its pass are gone.
BackendCrash ==
  /\ Fault
  /\ req' = [s \in Slots |-> IdleReq]
  /\ PassIdle
  /\ UNCHANGED <<setup, trackerVars, row, job, net, ops>>

-----------------------------------------------------------------------------
(* The supervisor, fed by what the backend sends                             *)

cpVars == <<setup, req, passVars, ops>>

Deliver(m, h) ==
  /\ m \in net
  /\ IF m.kind = "track" THEN T!TrackCheck(h, m.run) ELSE T!Untrack(m.run)
  /\ net' = net \ {m}
  /\ UNCHANGED <<cpVars, faults>>

\* Answered without effect, or refused by a process that is not serving.
DeliverNothing(m) ==
  /\ m \in net
  /\ \/ proc \in {"closing", "down"}
     \/ (m.kind = "track") = (m.run \in T!Listed)
  /\ net' = net \ {m}
  /\ UNCHANGED <<setup, trackerVars, row, job, cpVars, faults>>

Lose(m) ==
  /\ Fault
  /\ m \in net
  /\ net' = net \ {m}
  /\ UNCHANGED <<setup, trackerVars, row, job, cpVars>>

SupervisorTask(h) ==
  /\ T!TaskStep(h)
  /\ UNCHANGED <<cpVars, net, faults>>

SupervisorStops ==
  /\ Fault
  /\ T!Shutdown \/ T!Crash
  /\ UNCHANGED <<cpVars, net>>

SupervisorMain ==
  /\ \/ \E r \in Runs : T!DrainUntrack(r)
     \/ T!DrainDone
     \/ T!DrainTimeout
     \/ T!Exit
     \/ T!Restart
  /\ UNCHANGED <<cpVars, net, faults>>

Next ==
  \/ \E r \in Runs : TinkerMove(r) \/ TinkerForgets(r)
  \/ \E s \in Slots, op \in Ops, r \in Runs : Load(s, op, r)
  \/ \E s \in Slots : CallOk(s) \/ CallWithoutKey(s) \/ CallFailed(s) \/ Save(s)
  \/ PassScan
  \/ PassList
  \/ \E r \in Runs : PassRefresh(r) \/ PassSkip(r)
  \/ PassCommit
  \/ PassAbort
  \/ PassFault
  \/ BackendCrash
  \/ \E m \in net, h \in Handles : Deliver(m, h)
  \/ \E m \in net : DeliverNothing(m) \/ Lose(m)
  \/ \E h \in Handles : SupervisorTask(h)
  \/ SupervisorStops
  \/ SupervisorMain

Spec == Init /\ [][Next]_vars

\* The loop's passes follow one another, handlers and tasks are scheduled, a
\* container that stopped is restarted, and a request reaches a supervisor
\* that stays up.  Faults are bounded by MaxFaults, so calls work at last.
Fairness ==
  /\ WF_vars(PassScan)
  /\ SF_vars(PassList)
  /\ \A r \in Runs : WF_vars(PassRefresh(r) \/ PassSkip(r))
  /\ WF_vars(PassCommit)
  /\ WF_vars(PassAbort)
  /\ \A s \in Slots : WF_vars(CallOk(s) \/ CallWithoutKey(s)) /\ WF_vars(Save(s))
  /\ \A r \in Runs :
       WF_vars(\E m \in net, h \in Handles : m.run = r /\ (Deliver(m, h) \/ DeliverNothing(m)))
  /\ \A h \in Handles :
       /\ WF_vars(SupervisorTask(h))
       /\ SF_vars(SupervisorTask(h) /\ (T!PollOk(h) \/ T!PollNotFound(h)))
  /\ WF_vars(SupervisorMain)

FairSpec == Spec /\ Fairness

-----------------------------------------------------------------------------
(* Properties                                                                *)

\* A row that names an end the job comes to by itself says what the job did:
\* whatever stale payloads, stale sessions and crossing requests are committed,
\* none of them can invent an end (runs.py handlers, reconcile's commit, apply_update).
NoFalseFinish ==
  \A r \in Runs : row[r] \in OwnEnds => job[r] \in {row[r], Missing}

\* A run shown as cancelled burns no GPU any more, provided a key is there:
\* cancel_run commits only after Tinker took the request.
CancelledIsStopped ==
  "key" \in setup => \A r \in Runs : row[r] = "cancelled" => job[r] \in TERMINAL \cup {Missing}

\* Some run that every pass refreshes has no job at Tinker: its 404 ends the pass.
PassIsBlocked == \E r \in Runs : row[r] \in ACTIVE /\ job[r] = Missing

\* A job that ended in a way RunStatus knows does not leave its row queued or
\* running for ever, whatever becomes of the supervisor and however commits
\* overtake each other: the reconciliation pass repairs it, as long as no other
\* run's 404 ends the pass.  A job that ended as "completed", "errored" or "error"
\* is not promised anything: the pass leaves its row as it is (reconcile.py:166),
\* and only a poller may write it.
ActiveRowsConverge ==
  \A r \in Runs :
    (row[r] \in ACTIVE /\ job[r] \in FINISHED) ~> (row[r] \notin ACTIVE \/ PassIsBlocked)

\* A run whose row says running gets a poller again after the supervisor lost
\* it, the hand-off failed or a track request got lost (reconcile's retrack), as
\* long as no run's 404 ends the pass.
RunningRowsAreTracked ==
  \A r \in Runs : (row[r] = "running") ~> (row[r] # "running" \/ r \in T!Listed \/ PassIsBlocked)

\* reconcile.py:13 "Consecutive tinker.get_job failures per-run increase wait":
\* what fails for one run makes that run wait, and the row of a run whose own job
\* is there converges.
FailuresArePerRun ==
  \A r \in Runs :
    (row[r] \in ACTIVE /\ job[r] \in FINISHED) ~> (row[r] \notin ACTIVE \/ job[r] = Missing)

\* reconcile.py:6 "re-issue /supervisor/track for any running orphan jobs": a
\* running job is polled again, sooner or later.
RunningJobsAreTracked ==
  \A r \in Runs : (job[r] = "running") ~> (job[r] # "running" \/ r \in T!Listed)

=============================================================================
