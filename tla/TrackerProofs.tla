--------------------------- MODULE TrackerProofs ---------------------------
(* Theorems about Tracker, for any runs, handles and job statuses.           *)
EXTENDS Tracker, TLAPS

\* Writes keep the type of a row: apply_update stores what Tinker reported or,
\* without a row, nothing.
LEMMA WriteRowType ==
  ASSUME row \in [Runs -> RowStatus], NEW r \in Runs, NEW s \in TinkerStatus,
         WriteRow(r, s)
  PROVE  row' \in [Runs -> RowStatus]
BY DEF WriteRow, RowStatus

\* Type correctness of the registry and of every task (supervisor.rs).
THEOREM TypeCorrect == Spec => []TypeOK
<1>1. Init => TypeOK
  BY TrackerAssumption DEF Init, RegistryInit, TypeOK, RowStatus, RunStatus, Phases
<1>2. TypeOK /\ [Next]_vars => TypeOK'
  <2> SUFFICES ASSUME TypeOK, [Next]_vars PROVE TypeOK'
    OBVIOUS
  <2> USE TrackerAssumption DEF TypeOK, Phases, registryVars, taskVars
  <2>1. ASSUME NEW h \in Handles, NEW r \in Runs, TrackCheck(h, r) PROVE TypeOK'
    BY <2>1 DEF TrackCheck
  <2>2. ASSUME NEW r \in Runs, Untrack(r) PROVE TypeOK'
    BY <2>2 DEF Untrack, UntrackEntry
  <2>3. ASSUME NEW h \in Handles, TaskStep(h) PROVE TypeOK'
    <3>1. CASE TrackInsert(h)
      BY <3>1 DEF TrackInsert
    <3>2. CASE EnterSelect(h) \/ Stop(h) \/ Timer(h) \/ PollNotFound(h) \/ PollError(h) \/ BeginTx(h)
      BY <3>2 DEF EnterSelect, Stop, Timer, PollNotFound, PollError, BeginTx
    <3>3. CASE PollOk(h)
      BY <3>3 DEF PollOk
    <3>4. CASE ApplyOk(h)
      <4>1. runOf[h] \in Runs /\ snap[h] \in TinkerStatus
        BY <3>4 DEF ApplyOk
      <4>2. row' \in [Runs -> RowStatus]
        BY <3>4, <4>1, WriteRowType DEF ApplyOk
      <4> QED BY <3>4, <4>2 DEF ApplyOk, AfterApply
    <3>5. CASE ApplyFail(h)
      BY <3>5 DEF ApplyFail, AfterApply
    <3>6. CASE Remove(h)
      BY <3>6 DEF Remove
    <3> QED BY <2>3, <3>1, <3>2, <3>3, <3>4, <3>5, <3>6 DEF TaskStep, Poll
  <2>4. CASE MainStep
    <3>1. CASE Shutdown
      BY <3>1 DEF Shutdown, Listed
    <3>2. ASSUME NEW r \in Runs, DrainUntrack(r) PROVE TypeOK'
      BY <3>2 DEF DrainUntrack, UntrackEntry, Listed
    <3>3. CASE DrainDone \/ DrainTimeout
      BY <3>3 DEF DrainDone, DrainTimeout
    <3>4. CASE Exit \/ Crash
      <4>1. ProcessGone
        BY <3>4 DEF Exit, Crash
      <4>2. /\ proc' = "down" /\ toUntrack' = {}
            /\ jobs' \in [Runs -> Handles \cup {NoHandle}]
            /\ pc' \in [Handles -> Phases]
            /\ runOf' \in [Handles -> Runs \cup {NoRun}]
            /\ cancelled' \in [Handles -> BOOLEAN]
            /\ snap' \in [Handles -> TinkerStatus \cup {NoSnap}]
            /\ late' \in [Handles -> Nat]
        BY <4>1 DEF ProcessGone
      <4>3. \A h \in Handles : pc'[h] = "free" /\ runOf'[h] = NoRun
        BY <4>1 DEF ProcessGone
      <4>4. row' = row /\ job' = job
        BY <4>1 DEF ProcessGone
      <4> QED BY <4>2, <4>3, <4>4
    <3>5. CASE Restart
      BY <3>5 DEF Restart
    <3> QED BY <2>4, <3>1, <3>2, <3>3, <3>4, <3>5 DEF MainStep
  <2>5. ASSUME NEW r \in Runs, JobMove(r) PROVE TypeOK'
    BY <2>5 DEF JobMove
  <2>6. CASE UNCHANGED vars
    BY <2>6 DEF vars
  <2> QED BY <2>1, <2>2, <2>3, <2>4, <2>5, <2>6 DEF Next
<1> QED BY <1>1, <1>2, PTL DEF Spec

-----------------------------------------------------------------------------

\* ListedIsSupervised alone is not inductive: an insert makes its handle the
\* entry, so a handle that is not spawned yet must not be cancelled either.
SupervisionInv ==
  /\ ListedIsSupervised
  /\ \A h \in Handles : ~Live(h) => ~cancelled[h]

\* untrack() and the drain cancel a task that is live, once its entry is gone.
LEMMA UntrackKeepsSupervision ==
  ASSUME TypeOK, SupervisionInv, NEW r \in Runs, UntrackEntry(r),
         UNCHANGED taskVars
  PROVE  SupervisionInv'
<1> DEFINE h == jobs[r]
<1>1. h \in Handles /\ Live(h) /\ runOf[h] = r
  BY DEF TypeOK, UntrackEntry, SupervisionInv, ListedIsSupervised
<1>2. \A q \in Runs \ {r} : jobs[q] # NoHandle => jobs[q] # h
  BY <1>1 DEF SupervisionInv, ListedIsSupervised
<1>3. ListedIsSupervised'
  BY <1>1, <1>2, TrackerAssumption
  DEF TypeOK, UntrackEntry, SupervisionInv, ListedIsSupervised, Live, taskVars
<1>4. (\A g \in Handles : ~Live(g) => ~cancelled[g])'
  BY <1>1 DEF TypeOK, UntrackEntry, SupervisionInv, Live, taskVars
<1> QED BY <1>3, <1>4 DEF SupervisionInv

LEMMA SupervisionInductive ==
  TypeOK /\ SupervisionInv /\ [Next]_vars => SupervisionInv'
<1> SUFFICES ASSUME TypeOK, SupervisionInv, [Next]_vars PROVE SupervisionInv'
  OBVIOUS
<1> USE TrackerAssumption DEF SupervisionInv, ListedIsSupervised, Live, registryVars, taskVars
<1>1. ASSUME NEW h \in Handles, NEW r \in Runs, TrackCheck(h, r) PROVE SupervisionInv'
  BY <1>1 DEF TrackCheck, TypeOK
<1>2. ASSUME NEW r \in Runs, Untrack(r) PROVE SupervisionInv'
  BY <1>2, UntrackKeepsSupervision DEF Untrack
<1>3. ASSUME NEW h \in Handles, TaskStep(h) PROVE SupervisionInv'
  <2>1. CASE TrackInsert(h)
    <3>1. runOf[h] \in Runs /\ ~cancelled[h]
      BY <2>1 DEF TrackInsert, TypeOK
    <3> QED BY <2>1, <3>1 DEF TrackInsert, TypeOK
  <2>2. CASE EnterSelect(h) \/ Stop(h) \/ Timer(h) \/ PollNotFound(h) \/ PollError(h) \/ BeginTx(h)
    BY <2>2 DEF EnterSelect, Stop, Timer, PollNotFound, PollError, BeginTx, TypeOK, Phases
  <2>3. CASE PollOk(h)
    BY <2>3 DEF PollOk, TypeOK, Phases
  <2>4. CASE ApplyOk(h)
    BY <2>4 DEF ApplyOk, AfterApply, TypeOK, Phases
  <2>5. CASE ApplyFail(h)
    BY <2>5 DEF ApplyFail, AfterApply, TypeOK, Phases
  <2>6. CASE Remove(h)
    <3>1. \A r \in Runs : jobs'[r] # NoHandle => jobs'[r] = jobs[r] /\ jobs[r] # h
      BY <2>6 DEF Remove, TypeOK
    <3>2. \A g \in Handles \ {h} : pc'[g] = pc[g] /\ runOf'[g] = runOf[g] /\ cancelled'[g] = cancelled[g]
      BY <2>6 DEF Remove, TypeOK
    <3>3. ListedIsSupervised'
      BY <3>1, <3>2 DEF TypeOK
    <3>4. cancelled'[h] = FALSE
      BY <2>6 DEF Remove, TypeOK
    <3> QED BY <3>2, <3>3, <3>4
  <2> QED BY <1>3, <2>1, <2>2, <2>3, <2>4, <2>5, <2>6 DEF TaskStep, Poll
<1>4. CASE MainStep
  <2>1. ASSUME NEW r \in Runs, DrainUntrack(r) PROVE SupervisionInv'
    <3>1. CASE r \in Listed
      BY <2>1, <3>1, UntrackKeepsSupervision DEF DrainUntrack
    <3>2. CASE r \notin Listed
      BY <2>1, <3>2 DEF DrainUntrack
    <3> QED BY <3>1, <3>2
  <2>2. CASE Shutdown \/ DrainDone \/ DrainTimeout \/ Restart
    BY <2>2 DEF Shutdown, DrainDone, DrainTimeout, Restart
  <2>3. CASE Exit \/ Crash
    BY <2>3 DEF Exit, Crash, ProcessGone
  <2> QED BY <1>4, <2>1, <2>2, <2>3 DEF MainStep
<1>5. ASSUME NEW r \in Runs, JobMove(r) PROVE SupervisionInv'
  BY <1>5 DEF JobMove
<1>6. CASE UNCHANGED vars
  BY <1>6 DEF vars
<1> QED BY <1>1, <1>2, <1>3, <1>4, <1>5, <1>6 DEF Next

LEMMA SupervisionInitially == Init => SupervisionInv
BY TrackerAssumption DEF Init, RegistryInit, SupervisionInv, ListedIsSupervised, Live

LEMMA SupervisionAlways == Spec => []SupervisionInv
BY SupervisionInitially, SupervisionInductive, TypeCorrect, PTL DEF Spec

\* An entry of the registry always has a live task of its own run that was not
\* told to stop, for any number of requests in flight: no lost entry, stale
\* removal or late insert makes /supervisor/status name a run nobody polls.
THEOREM ListedSupervised == Spec => []ListedIsSupervised
BY SupervisionAlways, PTL DEF SupervisionInv

-----------------------------------------------------------------------------

\* Why one late write is the limit: before the token is set a task has none,
\* and once it is set every round trip to the select ends there.
LateInv ==
  \A h \in Handles :
    /\ late[h] \in {0, 1}
    /\ ~cancelled[h] => late[h] = 0
    /\ pc[h] \in {"waiting", "polling", "polled", "applying"} => late[h] = 0

LEMMA LateInductive ==
  TypeOK /\ SupervisionInv /\ LateInv /\ [Next]_vars => LateInv'
<1> SUFFICES ASSUME TypeOK, SupervisionInv, LateInv, [Next]_vars PROVE LateInv'
  OBVIOUS
<1> USE DEF LateInv, registryVars, taskVars
<1>1. ASSUME NEW h \in Handles, NEW r \in Runs, TrackCheck(h, r) PROVE LateInv'
  BY <1>1 DEF TrackCheck, TypeOK
<1>2. ASSUME NEW r \in Runs, UntrackEntry(r), UNCHANGED taskVars PROVE LateInv'
  <2>1. jobs[r] \in Handles /\ late[jobs[r]] = 0
    BY <1>2 DEF UntrackEntry, SupervisionInv, ListedIsSupervised, TypeOK
  <2> QED BY <1>2, <2>1 DEF UntrackEntry, TypeOK
<1>3. ASSUME NEW h \in Handles, TaskStep(h) PROVE LateInv'
  <2>1. CASE TrackInsert(h)
    BY <2>1 DEF TrackInsert, TypeOK
  <2>2. CASE EnterSelect(h)
    BY <2>2 DEF EnterSelect, Stopping, TypeOK
  <2>3. CASE Stop(h) \/ Timer(h) \/ PollNotFound(h) \/ PollError(h) \/ BeginTx(h)
    BY <2>3 DEF Stop, Timer, PollNotFound, PollError, BeginTx, TypeOK
  <2>4. CASE PollOk(h)
    BY <2>4 DEF PollOk, TypeOK
  <2>5. CASE ApplyOk(h)
    <3>1. late'[h] \in {0, 1} /\ (~cancelled[h] => late'[h] = 0)
      BY <2>5 DEF ApplyOk, TypeOK
    <3>2. pc'[h] \in {"select", "exiting"}
      BY <2>5 DEF ApplyOk, AfterApply, TypeOK
    <3>3. \A g \in Handles \ {h} : late'[g] = late[g] /\ pc'[g] = pc[g]
      BY <2>5 DEF ApplyOk, AfterApply, TypeOK
    <3> QED BY <2>5, <3>1, <3>2, <3>3 DEF ApplyOk
  <2>6. CASE ApplyFail(h)
    BY <2>6 DEF ApplyFail, AfterApply, TypeOK
  <2>7. CASE Remove(h)
    BY <2>7 DEF Remove, TypeOK
  <2> QED BY <1>3, <2>1, <2>2, <2>3, <2>4, <2>5, <2>6, <2>7 DEF TaskStep, Poll
<1>4. CASE MainStep
  <2>1. ASSUME NEW r \in Runs, DrainUntrack(r) PROVE LateInv'
    <3>1. CASE r \in Listed
      BY <2>1, <3>1, <1>2 DEF DrainUntrack
    <3>2. CASE r \notin Listed
      BY <2>1, <3>2 DEF DrainUntrack
    <3> QED BY <3>1, <3>2
  <2>2. CASE Shutdown \/ DrainDone \/ DrainTimeout \/ Restart
    BY <2>2 DEF Shutdown, DrainDone, DrainTimeout, Restart
  <2>3. CASE Exit \/ Crash
    BY <2>3 DEF Exit, Crash, ProcessGone
  <2> QED BY <1>4, <2>1, <2>2, <2>3 DEF MainStep
<1>5. ASSUME NEW r \in Runs, Untrack(r) PROVE LateInv'
  BY <1>5, <1>2 DEF Untrack
<1>6. ASSUME NEW r \in Runs, JobMove(r) PROVE LateInv'
  BY <1>6 DEF JobMove
<1>7. CASE UNCHANGED vars
  BY <1>7 DEF vars
<1> QED BY <1>1, <1>3, <1>4, <1>5, <1>6, <1>7 DEF Next

\* After its untrack() a task writes the run's row at most once more.
THEOREM LateWrites == Spec => []LateWriteBound
<1>1. Init => LateInv
  BY DEF Init, RegistryInit, LateInv
<1>2. LateInv => LateWriteBound
  BY DEF LateInv, LateWriteBound
<1> QED BY <1>1, <1>2, LateInductive, SupervisionAlways, TypeCorrect, PTL DEF Spec

=============================================================================
