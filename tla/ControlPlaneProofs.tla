------------------------- MODULE ControlPlaneProofs -------------------------
(* Theorems about ControlPlane, for any runs, pollers, requests and setups.  *)
EXTENDS ControlPlane, TLAPS

\* What Tinker does to a job keeps its type.
LEMMA PerformType ==
  ASSUME job \in [Runs -> TinkerStatus \cup {Missing}], NEW r \in Runs, NEW op \in Ops,
         Perform(r, op)
  PROVE  job' \in [Runs -> TinkerStatus \cup {Missing}]
BY ControlPlaneAssumption DEF Perform, Ops

\* untrack and the drain: an entry goes, a token is set.
LEMMA UntrackEntryType ==
  ASSUME T!TypeOK, NEW r \in Runs, T!UntrackEntry(r)
  PROVE  /\ jobs' \in [Runs -> Handles \cup {NoHandle}]
         /\ cancelled' \in [Handles -> BOOLEAN]
BY DEF T!TypeOK, T!UntrackEntry

LEMMA TrackType ==
  ASSUME T!TypeOK, NEW h \in Handles, NEW r \in Runs, T!TrackCheck(h, r)
  PROVE  T!TypeOK'
BY ControlPlaneAssumption
DEF T!TypeOK, T!TrackCheck, T!Phases, T!registryVars

LEMMA UntrackType ==
  ASSUME T!TypeOK, NEW r \in Runs, T!Untrack(r)
  PROVE  T!TypeOK'
BY UntrackEntryType DEF T!TypeOK, T!Untrack, T!taskVars

LEMMA TaskType ==
  ASSUME T!TypeOK, NEW h \in Handles, T!TaskStep(h)
  PROVE  T!TypeOK'
<1> USE ControlPlaneAssumption DEF T!TypeOK, T!Phases, T!registryVars, T!taskVars
<1>1. CASE T!TrackInsert(h)
  BY <1>1 DEF T!TrackInsert
<1>2. CASE T!EnterSelect(h) \/ T!Stop(h) \/ T!Timer(h)
  BY <1>2 DEF T!EnterSelect, T!Stop, T!Timer
<1>3. CASE T!PollNotFound(h) \/ T!PollError(h) \/ T!BeginTx(h)
  BY <1>3 DEF T!PollNotFound, T!PollError, T!BeginTx
<1>4. CASE T!PollOk(h)
  BY <1>4 DEF T!PollOk
<1>5. CASE T!ApplyOk(h)
  <2>1. runOf[h] \in Runs /\ snap[h] \in TinkerStatus
    BY <1>5 DEF T!ApplyOk
  <2>2. row' \in [Runs -> T!RowStatus]
    BY <1>5, <2>1 DEF T!ApplyOk, T!WriteRow, T!RowStatus
  <2> QED BY <1>5, <2>2 DEF T!ApplyOk, T!AfterApply
<1>6. CASE T!ApplyFail(h)
  BY <1>6 DEF T!ApplyFail, T!AfterApply
<1>7. CASE T!Remove(h)
  BY <1>7 DEF T!Remove
<1> QED BY <1>1, <1>2, <1>3, <1>4, <1>5, <1>6, <1>7 DEF T!TaskStep, T!Poll

LEMMA ProcessGoneType ==
  ASSUME T!TypeOK, T!ProcessGone PROVE T!TypeOK'
<1>1. /\ proc' = "down" /\ toUntrack' = {} /\ row' = row /\ job' = job
      /\ jobs' \in [Runs -> Handles \cup {NoHandle}]
      /\ pc' \in [Handles -> T!Phases]
      /\ runOf' \in [Handles -> Runs \cup {NoRun}]
      /\ cancelled' \in [Handles -> BOOLEAN]
      /\ snap' \in [Handles -> TinkerStatus \cup {NoSnap}]
      /\ late' \in [Handles -> Nat]
  BY DEF T!ProcessGone, T!Phases
<1>2. \A h \in Handles : pc'[h] = "free" /\ runOf'[h] = NoRun
  BY DEF T!ProcessGone
<1> QED BY <1>1, <1>2 DEF T!TypeOK

LEMMA MainType ==
  ASSUME T!TypeOK, SupervisorMain \/ T!Shutdown \/ T!Crash PROVE T!TypeOK'
<1> USE DEF T!TypeOK, T!taskVars, T!Listed
<1>1. CASE T!Shutdown
  BY <1>1 DEF T!Shutdown
<1>2. ASSUME NEW r \in Runs, T!DrainUntrack(r) PROVE T!TypeOK'
  BY <1>2, UntrackEntryType DEF T!DrainUntrack
<1>3. CASE T!DrainDone \/ T!DrainTimeout \/ T!Restart
  BY <1>3 DEF T!DrainDone, T!DrainTimeout, T!Restart
<1>4. CASE T!Exit \/ T!Crash
  BY <1>4, ProcessGoneType DEF T!Exit, T!Crash
<1> QED BY <1>1, <1>2, <1>3, <1>4 DEF SupervisorMain

\* A slot that is not idle holds a request for a run.
Requests == [at : {"calling", "saving"}, op : Ops, run : Runs, loaded : T!RowStatus]

\* The part of TypeOK that is the backend's own.
BackendTypes ==
  /\ setup \in Setups
  /\ req \in [Slots -> {IdleReq} \cup Requests]
  /\ net \subseteq [kind : {"track", "untrack"}, run : Runs]
  /\ at \in {"idle", "listing", "refreshing"}
  /\ todo \subseteq Runs
  /\ base \in [Runs -> T!RowStatus]
  /\ delta \in [Runs -> RunStatus \cup {NoDelta}]
  /\ tracked \subseteq {Repr(r) : r \in Runs}
  /\ ops \in 0..MaxOps
  /\ faults \in 0..MaxFaults

LEMMA TypeOKSplit == TypeOK <=> T!TypeOK /\ BackendTypes
BY DEF TypeOK, BackendTypes, Requests

LEMMA BusyRequest ==
  ASSUME BackendTypes, NEW s \in Slots, req[s].at # "idle"
  PROVE  req[s] \in Requests
BY DEF BackendTypes, IdleReq

\* A failed or interrupted step is counted.
LEMMA FaultType ==
  ASSUME BackendTypes, Fault PROVE faults' \in 0..MaxFaults
BY ControlPlaneAssumption DEF BackendTypes, Fault

LEMMA PassIdleType ==
  ASSUME PassIdle
  PROVE  /\ at' = "idle" /\ todo' = {} /\ tracked' = {}
         /\ base' \in [Runs -> T!RowStatus]
         /\ delta' \in [Runs -> RunStatus \cup {NoDelta}]
BY DEF PassIdle, T!RowStatus, T!Absent, Absent

LEMMA ReplyType ==
  ASSUME BackendTypes, NEW s \in Slots, req[s].at = "calling" \/ req[s].at = "saving",
         NEW phase \in {"idle", "saving"}, Reply(s, phase)
  PROVE  req' \in [Slots -> {IdleReq} \cup Requests]
<1>1. req[s] \in Requests
  BY BusyRequest
<1>2. [req[s] EXCEPT !.at = "saving"] \in Requests
  BY <1>1 DEF Requests
<1> QED BY <1>1, <1>2 DEF BackendTypes, Reply

LEMMA RequestType ==
  ASSUME TypeOK, NEW s \in Slots,
         \/ \E op \in Ops, r \in Runs : Load(s, op, r)
         \/ CallOk(s) \/ CallWithoutKey(s) \/ CallFailed(s) \/ Save(s)
  PROVE  TypeOK'
<1> USE TypeOKSplit
<1>0. T!TypeOK /\ BackendTypes
  OBVIOUS
<1>1. ASSUME NEW op \in Ops, NEW r \in Runs, Load(s, op, r) PROVE TypeOK'
  <2>1. [at |-> "calling", op |-> op, run |-> r, loaded |-> row[r]] \in Requests
    BY <1>0 DEF Requests, T!TypeOK
  <2>2. ops' \in 0..MaxOps
    BY <1>0, <1>1, ControlPlaneAssumption DEF Load, BackendTypes
  <2> QED BY <1>0, <1>1, <2>1, <2>2
      DEF Load, TypeOK, T!TypeOK, BackendTypes, trackerVars, passVars, Requests
<1>2. CASE CallOk(s) \/ CallWithoutKey(s) \/ CallFailed(s)
  <2>1. req[s] \in Requests /\ req[s].at = "calling"
    BY <1>0, <1>2, BusyRequest DEF CallOk, CallWithoutKey, CallFailed
  <2>2. req' \in [Slots -> {IdleReq} \cup Requests]
    BY <1>0, <1>2, <2>1, ReplyType DEF CallOk, CallWithoutKey, CallFailed
  <2>3. job' \in [Runs -> TinkerStatus \cup {Missing}]
    BY <1>0, <1>2, <2>1, PerformType
    DEF CallOk, CallWithoutKey, CallFailed, T!TypeOK, Requests, Missing, T!Missing
  <2>4. faults' \in 0..MaxFaults
    BY <1>0, <1>2, FaultType DEF CallOk, CallWithoutKey, CallFailed, BackendTypes
  <2>5. UNCHANGED <<setup, trackerVars, row, net, passVars, ops>>
    BY <1>2 DEF CallOk, CallWithoutKey, CallFailed
  <2>6. T!TypeOK'
    BY <1>0, <2>3, <2>5 DEF T!TypeOK, trackerVars, Missing, T!Missing
  <2>7. BackendTypes'
    BY <1>0, <2>2, <2>4, <2>5 DEF BackendTypes, passVars, Requests
  <2> QED BY <2>6, <2>7 DEF TypeOK, BackendTypes, Requests
<1>3. CASE Save(s)
  <2>1. req[s] \in Requests /\ req[s].at = "saving"
    BY <1>0, <1>3, BusyRequest DEF Save
  <2>2. req' \in [Slots -> {IdleReq} \cup Requests]
    BY <1>0, <1>3, <2>1, ReplyType DEF Save
  <2>3. row' \in [Runs -> T!RowStatus]
    BY <1>0, <1>3, <2>1 DEF Save, T!TypeOK, T!RowStatus, Requests, Ops, T!RunStatus
  <2>4. UNCHANGED <<setup, trackerVars, job, net, passVars, ops, faults>>
    BY <1>3 DEF Save
  <2>5. T!TypeOK'
    BY <1>0, <2>3, <2>4 DEF T!TypeOK, trackerVars
  <2>6. BackendTypes'
    BY <1>0, <2>2, <2>4 DEF BackendTypes, passVars, Requests
  <2> QED BY <2>5, <2>6 DEF TypeOK, BackendTypes, Requests
<1> QED BY <1>1, <1>2, <1>3

LEMMA TinkerType ==
  ASSUME TypeOK, NEW r \in Runs, TinkerMove(r) \/ TinkerForgets(r) PROVE TypeOK'
<1>1. T!TypeOK /\ BackendTypes
  BY TypeOKSplit
<1>2. job' \in [Runs -> TinkerStatus \cup {Missing}]
  BY <1>1, ControlPlaneAssumption
  DEF TinkerMove, TinkerForgets, T!TypeOK, Missing, T!Missing
<1>3. UNCHANGED <<setup, trackerVars, row, req, net, passVars, ops, faults>>
  BY DEF TinkerMove, TinkerForgets
<1>4. T!TypeOK'
  BY <1>1, <1>2, <1>3 DEF T!TypeOK, trackerVars, Missing, T!Missing
<1>5. BackendTypes'
  BY <1>1, <1>3 DEF BackendTypes, passVars, Requests
<1> QED BY <1>4, <1>5 DEF TypeOK, BackendTypes, Requests

\* The steps of a pass that leave the table alone.
LEMMA PassType ==
  ASSUME TypeOK,
         \/ PassScan \/ PassList \/ PassAbort \/ PassFault
         \/ \E r \in Runs : PassRefresh(r) \/ PassSkip(r)
  PROVE  TypeOK'
<1>1. T!TypeOK /\ BackendTypes
  BY TypeOKSplit
<1>2. T!TypeOK'
  BY <1>1 DEF PassScan, PassList, PassAbort, PassFault, PassRefresh, PassSkip, T!TypeOK, trackerVars
<1>3. CASE PassScan \/ PassList
  BY <1>1, <1>2, <1>3
  DEF PassScan, PassList, T!TypeOK, T!Listed, TypeOK, BackendTypes, Requests, trackerVars
<1>4. CASE PassAbort \/ PassFault
  <2>1. PassIdle /\ UNCHANGED <<setup, req, net, ops>> /\ faults' \in 0..MaxFaults
    BY <1>1, <1>4, FaultType DEF PassAbort, PassFault, BackendTypes
  <2> QED BY <1>1, <1>2, <2>1, PassIdleType DEF TypeOK, BackendTypes, Requests
<1>5. ASSUME NEW r \in Runs, PassRefresh(r) \/ PassSkip(r) PROVE TypeOK'
  <2>1. \A s : SentFor(r, s) \subseteq [kind : {"track", "untrack"}, run : Runs]
    BY DEF SentFor, TrackMsg, UntrackMsg
  <2>2. net' \subseteq [kind : {"track", "untrack"}, run : Runs]
    BY <1>1, <1>5, <2>1 DEF PassRefresh, PassSkip, BackendTypes
  <2>3. delta' \in [Runs -> RunStatus \cup {NoDelta}]
    BY <1>1, <1>5 DEF PassRefresh, PassSkip, BackendTypes
  <2>4. todo' \subseteq Runs /\ UNCHANGED <<setup, req, at, base, tracked, ops, faults>>
    BY <1>1, <1>5 DEF PassRefresh, PassSkip, BackendTypes
  <2> QED BY <1>1, <1>2, <2>2, <2>3, <2>4 DEF TypeOK, BackendTypes, Requests
<1> QED BY <1>3, <1>4, <1>5

LEMMA PassCommitType ==
  ASSUME TypeOK, PassCommit PROVE TypeOK'
<1>1. T!TypeOK /\ BackendTypes
  BY TypeOKSplit
<1>2. row' \in [Runs -> T!RowStatus]
  BY <1>1 DEF PassCommit, T!TypeOK, BackendTypes, T!RowStatus, T!RunStatus, RunStatus
<1>3. UNCHANGED <<setup, trackerVars, job, req, net, ops, faults>>
  BY DEF PassCommit
<1>4. T!TypeOK'
  BY <1>1, <1>2, <1>3 DEF T!TypeOK, trackerVars
<1>5. PassIdle
  BY DEF PassCommit
<1> QED BY <1>1, <1>3, <1>4, <1>5, PassIdleType DEF TypeOK, BackendTypes, Requests

LEMMA BackendCrashType ==
  ASSUME TypeOK, BackendCrash PROVE TypeOK'
<1>1. T!TypeOK /\ BackendTypes
  BY TypeOKSplit
<1>2. T!TypeOK'
  BY <1>1 DEF BackendCrash, T!TypeOK, trackerVars
<1>3. PassIdle /\ UNCHANGED <<setup, net, ops>> /\ faults' \in 0..MaxFaults
  BY <1>1, FaultType DEF BackendCrash
<1>4. req' \in [Slots -> {IdleReq} \cup Requests]
  BY DEF BackendCrash
<1> QED BY <1>1, <1>2, <1>3, <1>4, PassIdleType DEF TypeOK, BackendTypes, Requests

\* Requests reach the supervisor or get lost, and the supervisor moves.
LEMMA SupervisorType ==
  ASSUME TypeOK,
         \/ \E m \in net, h \in Handles : Deliver(m, h)
         \/ \E m \in net : DeliverNothing(m) \/ Lose(m)
         \/ \E h \in Handles : SupervisorTask(h)
         \/ SupervisorStops \/ SupervisorMain
  PROVE  TypeOK'
<1>1. T!TypeOK /\ BackendTypes
  BY TypeOKSplit
<1>2. T!TypeOK'
  <2>1. ASSUME NEW m \in net, NEW h \in Handles, Deliver(m, h) PROVE T!TypeOK'
    <3>1. m.run \in Runs
      BY <1>1 DEF BackendTypes
    <3> QED BY <1>1, <2>1, <3>1, TrackType, UntrackType DEF Deliver
  <2>2. ASSUME NEW m \in net, DeliverNothing(m) \/ Lose(m) PROVE T!TypeOK'
    BY <1>1, <2>2 DEF DeliverNothing, Lose, T!TypeOK, trackerVars
  <2>3. ASSUME NEW h \in Handles, SupervisorTask(h) PROVE T!TypeOK'
    BY <1>1, <2>3, TaskType DEF SupervisorTask
  <2>4. CASE SupervisorStops \/ SupervisorMain
    BY <1>1, <2>4, MainType DEF SupervisorStops
  <2> QED BY <2>1, <2>2, <2>3, <2>4
<1>3. UNCHANGED cpVars /\ net' \subseteq net /\ faults' \in 0..MaxFaults
  BY <1>1, FaultType
  DEF Deliver, DeliverNothing, Lose, SupervisorTask, SupervisorStops, SupervisorMain, BackendTypes
<1> QED BY <1>1, <1>2, <1>3 DEF TypeOK, BackendTypes, Requests, cpVars, passVars

\* Type correctness of handlers, pass, requests under way and supervisor.
THEOREM ControlPlaneTypes == Spec => []TypeOK
<1>1. Init => TypeOK
  <2> SUFFICES ASSUME Init PROVE TypeOK
    OBVIOUS
  <2>1. T!TypeOK
    BY ControlPlaneAssumption
    DEF Init, T!RegistryInit, T!TypeOK, T!RowStatus, T!RunStatus, T!Phases
  <2>2. BackendTypes
    BY ControlPlaneAssumption
    DEF Init, BackendTypes, TrackMsg, T!RowStatus, T!Absent, Absent
  <2> QED BY <2>1, <2>2, TypeOKSplit
<1>2. TypeOK /\ [Next]_vars => TypeOK'
  <2> SUFFICES ASSUME TypeOK, [Next]_vars PROVE TypeOK'
    OBVIOUS
  <2>1. CASE UNCHANGED vars
    BY <2>1 DEF TypeOK, T!TypeOK, vars, trackerVars, passVars
  <2> QED BY <2>1, TinkerType, RequestType, PassType, PassCommitType, BackendCrashType,
             SupervisorType DEF Next
<1> QED BY <1>1, <1>2, PTL DEF Spec

-----------------------------------------------------------------------------

\* What a status s, wherever it is stored or carried, may say about run r's
\* job: an end that s names has come, and, with a key, a cancelled job is over.
Borne(r, s) ==
  /\ s \in OwnEnds => job[r] \in {s, Missing}
  /\ s = "cancelled" /\ "key" \in setup => job[r] \in TERMINAL \cup {Missing}

\* What a job can be, whatever else Tinker has names for.
JobsKnown == \A r \in Runs : job[r] \in {"queued", "running", "paused"} \cup TERMINAL \cup {Missing}

\* Every copy of a status that may still be written is borne out, however long
\* ago it was read: in a row, in a poller's payload, in the pass's session, in
\* a request whose call has been answered.
EvidenceInv ==
  /\ JobsKnown
  /\ \A r \in Runs : Borne(r, row[r])
  /\ \A h \in Handles : pc[h] \in {"polled", "applying"} => Borne(runOf[h], snap[h])
  /\ \A r \in Runs : Borne(r, delta[r])
  /\ \A s \in Slots : req[s].at = "saving" => Borne(req[s].run, req[s].op)

\* A job that is over stays as it is, unless Tinker forgets it for good.
JobsOnlyEnd ==
  \A r \in Runs :
    /\ job[r] = Missing => job'[r] = Missing
    /\ job[r] \in TERMINAL => job'[r] \in {job[r], Missing}

LEMMA PerformOnlyEnds ==
  ASSUME TypeOK, JobsKnown, NEW r \in Runs, NEW op \in Ops, Perform(r, op)
  PROVE  /\ JobsOnlyEnd /\ JobsKnown'
         /\ op = "cancelled" => job'[r] \in TERMINAL \cup {Missing}
<1>1. job \in [Runs -> TinkerStatus \cup {Missing}]
  BY ControlPlaneAssumption
  DEF TypeOK, T!TypeOK, T!Missing, Missing
<1>2. \A o \in Ops : MovedBy(o) \cap (TERMINAL \cup {Missing}) = {}
  BY DEF Ops, MovedBy, TERMINAL, FINISHED, Missing
<1>3. JobsOnlyEnd
  BY <1>1, <1>2 DEF Perform, JobsOnlyEnd
<1>4. op = "cancelled" => job'[r] \in TERMINAL \cup {Missing}
  BY <1>1 DEF Perform, MovedBy, TERMINAL, FINISHED, JobsKnown
<1>5. JobsKnown'
  BY <1>1 DEF Perform, JobsKnown, Ops, TERMINAL, FINISHED
<1> QED BY <1>3, <1>4, <1>5

LEMMA TaskKeepsJobs ==
  ASSUME NEW h \in Handles, T!TaskStep(h) PROVE job' = job
BY DEF T!TaskStep, T!TrackInsert, T!EnterSelect, T!Stop, T!Timer, T!Poll, T!PollOk, T!PollNotFound,
       T!PollError, T!BeginTx, T!ApplyOk, T!ApplyFail, T!Remove

\* What has been borne out stays so.
LEMMA ClaimsLast ==
  ASSUME JobsOnlyEnd, setup' = setup
  PROVE  \A r \in Runs : \A s : Borne(r, s) => Borne(r, s)'
BY DEF JobsOnlyEnd, Borne, OwnEnds, TERMINAL, FINISHED

\* The copies that a step leaves alone stay borne out.
LEMMA CopiesLast ==
  ASSUME TypeOK, EvidenceInv, JobsOnlyEnd, setup' = setup
  PROVE  /\ row' = row => \A r \in Runs : Borne(r, row[r])'
         /\ delta' = delta => \A r \in Runs : Borne(r, delta[r])'
         /\ \A h \in Handles :
              /\ pc[h] \in {"polled", "applying"}
              /\ runOf'[h] = runOf[h] /\ snap'[h] = snap[h]
              => Borne(runOf[h], snap[h])'
         /\ \A s \in Slots :
              req[s].at = "saving" /\ req'[s] = req[s] => Borne(req[s].run, req[s].op)'
<1>1. \A r \in Runs : \A s : Borne(r, s) => Borne(r, s)'
  BY ClaimsLast
<1>2. row' = row => \A r \in Runs : Borne(r, row[r])'
  BY <1>1 DEF EvidenceInv, Borne
<1>3. delta' = delta => \A r \in Runs : Borne(r, delta[r])'
  BY <1>1 DEF EvidenceInv, Borne
<1>4. \A h \in Handles : pc[h] \in {"polled", "applying"} => runOf[h] \in Runs
  BY DEF TypeOK, T!TypeOK
<1>5. ASSUME NEW h \in Handles, pc[h] \in {"polled", "applying"},
             runOf'[h] = runOf[h], snap'[h] = snap[h]
      PROVE  Borne(runOf[h], snap[h])'
  BY <1>1, <1>4, <1>5 DEF EvidenceInv, Borne
<1>6. ASSUME NEW s \in Slots, req[s].at = "saving", req'[s] = req[s]
      PROVE  Borne(req[s].run, req[s].op)'
  <2>1. req[s].run \in Runs
    BY <1>6, TypeOKSplit, BusyRequest DEF Requests
  <2> QED BY <1>1, <1>6, <2>1 DEF EvidenceInv, Borne
<1> QED BY <1>2, <1>3, <1>5, <1>6

\* No pass: nothing it could still write.
LEMMA IdlePassIsBorne ==
  ASSUME PassIdle PROVE \A r \in Runs : Borne(r, delta[r])'
BY ControlPlaneAssumption DEF PassIdle, Borne, OwnEnds, RunStatus

LEMMA TinkerKeepsEvidence ==
  ASSUME TypeOK, EvidenceInv, NEW r \in Runs, TinkerMove(r) \/ TinkerForgets(r)
  PROVE  EvidenceInv'
<1>1. JobsOnlyEnd
  BY DEF TinkerMove, TinkerForgets, JobsOnlyEnd, TypeOK, T!TypeOK, TERMINAL, FINISHED, Missing
<1>3. JobsKnown'
  BY DEF TinkerMove, TinkerForgets, EvidenceInv, JobsKnown, OwnEnds, TypeOK, T!TypeOK
<1>2. UNCHANGED <<setup, row, delta, pc, runOf, snap, req>>
  BY DEF TinkerMove, TinkerForgets, trackerVars, passVars
<1> QED BY <1>1, <1>2, <1>3, CopiesLast DEF EvidenceInv

LEMMA RequestKeepsEvidence ==
  ASSUME TypeOK, EvidenceInv, NEW s \in Slots,
         \/ \E op \in Ops, r \in Runs : Load(s, op, r)
         \/ CallOk(s) \/ CallWithoutKey(s) \/ CallFailed(s) \/ Save(s)
  PROVE  EvidenceInv'
<1>1. UNCHANGED <<setup, delta, pc, runOf, snap>>
  BY DEF Load, CallOk, CallWithoutKey, CallFailed, Save, trackerVars, passVars
<1>2. req \in [Slots -> {IdleReq} \cup Requests]
  BY TypeOKSplit DEF BackendTypes
<1>3. req[s].at # "idle" => req[s].run \in Runs /\ req[s].op \in Ops
  BY TypeOKSplit, BusyRequest DEF Requests
<1>4. JobsOnlyEnd /\ JobsKnown'
  <2>1. CASE job' = job
    BY <2>1 DEF JobsOnlyEnd, EvidenceInv, JobsKnown
  <2>2. CASE job' # job
    <3>1. Perform(req[s].run, req[s].op) /\ req[s].at = "calling"
      BY <2>2 DEF Load, CallOk, CallWithoutKey, CallFailed, Save
    <3> QED BY <1>3, <3>1, PerformOnlyEnds DEF EvidenceInv
  <2> QED BY <2>1, <2>2
<1>5. \A r \in Runs : Borne(r, row[r])'
  <2>1. CASE row' = row
    BY <1>1, <1>4, <2>1, CopiesLast
  <2>2. CASE Save(s) /\ row' # row
    <3>1. row' = [row EXCEPT ![req[s].run] = req[s].op] /\ job' = job /\ req[s].at = "saving"
      BY <2>2 DEF Save
    <3>2. row \in [Runs -> T!RowStatus]
      BY DEF TypeOK, T!TypeOK
    <3> QED BY <1>1, <3>1, <3>2 DEF EvidenceInv, Borne
  <2> QED BY <2>1, <2>2 DEF Load, CallOk, CallWithoutKey, CallFailed
<1>6. \A t \in Slots : req'[t].at = "saving" => Borne(req[t].run, req[t].op)'
  <2>1. ASSUME NEW t \in Slots \ {s} PROVE req'[t] = req[t]
    BY <1>2 DEF Load, CallOk, CallWithoutKey, CallFailed, Save, Reply
  <2>2. ASSUME req'[s].at = "saving" PROVE Borne(req[s].run, req[s].op)'
    <3>1. (CallOk(s) \/ CallWithoutKey(s)) /\ req[s].at = "calling"
      BY <1>2, <2>2 DEF Load, CallOk, CallWithoutKey, CallFailed, Save, Reply, IdleReq
    <3>2. req'[s].run = req[s].run /\ req'[s].op = req[s].op
      BY <1>2, <1>3, <3>1 DEF CallOk, CallWithoutKey, Reply, Requests, IdleReq
    <3>3. req[s].run \in Runs /\ req[s].op \in Ops
      BY <1>3, <3>1
    <3>4. CASE CallOk(s)
      BY <3>2, <3>3, <3>4, PerformOnlyEnds DEF CallOk, Borne, Ops, OwnEnds, TERMINAL, FINISHED, EvidenceInv
    <3>5. CASE CallWithoutKey(s)
      BY <1>1, <3>2, <3>3, <3>5 DEF CallWithoutKey, Borne, Ops, OwnEnds, TERMINAL, FINISHED
    <3> QED BY <3>1, <3>4, <3>5
  <2> QED BY <1>1, <1>4, <2>1, <2>2, CopiesLast
<1> QED BY <1>1, <1>4, <1>5, <1>6, CopiesLast DEF EvidenceInv

LEMMA PassKeepsEvidence ==
  ASSUME TypeOK, EvidenceInv,
         \/ PassScan \/ PassList \/ PassCommit \/ PassAbort \/ PassFault \/ BackendCrash
         \/ \E r \in Runs : PassRefresh(r) \/ PassSkip(r)
  PROVE  EvidenceInv'
<1>1. UNCHANGED <<setup, job, pc, runOf, snap>>
  BY DEF PassScan, PassList, PassCommit, PassAbort, PassFault, BackendCrash, PassRefresh, PassSkip,
         trackerVars
<1>2. JobsOnlyEnd
  BY <1>1 DEF JobsOnlyEnd
<1>3. \A s \in Slots : req'[s].at = "saving" => req'[s] = req[s]
  BY DEF PassScan, PassList, PassCommit, PassAbort, PassFault, BackendCrash, PassRefresh, PassSkip,
         IdleReq
<1>4. delta \in [Runs -> RunStatus \cup {NoDelta}] /\ row \in [Runs -> T!RowStatus]
  BY DEF TypeOK, T!TypeOK
<1>5. \A r \in Runs : Borne(r, row[r])'
  <2>1. CASE PassCommit
    BY <1>1, <1>4, <2>1 DEF PassCommit, EvidenceInv, Borne
  <2>2. CASE row' = row
    BY <1>1, <1>2, <2>2, CopiesLast
  <2> QED BY <2>1, <2>2 DEF PassScan, PassList, PassAbort, PassFault, BackendCrash, PassRefresh, PassSkip
<1>6. \A r \in Runs : Borne(r, delta[r])'
  <2>1. ASSUME NEW r \in Runs, PassRefresh(r) PROVE \A q \in Runs : Borne(q, delta[q])'
    <3>1. \A q \in Runs : delta'[q] = delta[q] \/ delta'[q] = job[q]
      BY <1>4, <2>1 DEF PassRefresh
    <3> QED BY <1>1, <3>1 DEF EvidenceInv, Borne, OwnEnds, TERMINAL, FINISHED
  <2>2. CASE delta' = delta
    BY <1>1, <1>2, <2>2, CopiesLast
  <2>3. CASE PassIdle
    BY <2>3, IdlePassIsBorne
  <2> QED BY <2>1, <2>2, <2>3
      DEF PassScan, PassList, PassCommit, PassAbort, PassFault, BackendCrash, PassSkip
<1> QED BY <1>1, <1>2, <1>3, <1>5, <1>6, CopiesLast DEF EvidenceInv, JobsKnown

LEMMA TaskKeepsEvidence ==
  ASSUME TypeOK, EvidenceInv, NEW h \in Handles, SupervisorTask(h)
  PROVE  EvidenceInv'
<1>1. T!TypeOK
  BY DEF TypeOK
<1>2. T!TaskStep(h) /\ UNCHANGED <<setup, delta, req>> /\ job' = job
  BY TaskKeepsJobs DEF SupervisorTask, cpVars, passVars
<1>3. JobsOnlyEnd
  BY <1>2 DEF JobsOnlyEnd
<1>4. CASE T!PollOk(h)
  <2>1. row' = row /\ runOf' = runOf /\ snap' = [snap EXCEPT ![h] = job[runOf[h]]] /\ pc[h] = "polling"
    BY <1>4 DEF T!PollOk
  <2>2. runOf[h] \in Runs
    BY <1>1, <2>1 DEF T!TypeOK
  <2>3. \A g \in Handles \ {h} : pc'[g] = pc[g] /\ snap'[g] = snap[g]
    BY <1>1, <1>4 DEF T!PollOk, T!TypeOK
  <2>4. Borne(runOf[h], snap[h])'
    BY <1>1, <1>2, <2>1, <2>2 DEF T!TypeOK, Borne, OwnEnds, TERMINAL, FINISHED
  <2> QED BY <1>2, <1>3, <2>1, <2>3, <2>4, CopiesLast DEF EvidenceInv, JobsKnown
<1>5. CASE T!ApplyOk(h)
  <2>1. runOf[h] \in Runs /\ Borne(runOf[h], snap[h])
    BY <1>1, <1>5 DEF T!ApplyOk, T!TypeOK, EvidenceInv
  <2>2. \A r \in Runs : row'[r] = row[r] \/ (r = runOf[h] /\ row'[r] = snap[h])
    BY <1>1, <1>5 DEF T!ApplyOk, T!WriteRow, T!TypeOK
  <2>3. \A r \in Runs : Borne(r, row[r])'
    BY <1>2, <2>1, <2>2 DEF EvidenceInv, Borne
  <2>4. pc'[h] \in {"select", "exiting"} /\ runOf' = runOf
    BY <1>1, <1>5 DEF T!ApplyOk, T!AfterApply, T!TypeOK
  <2>5. \A g \in Handles \ {h} : pc'[g] = pc[g] /\ snap'[g] = snap[g]
    BY <1>1, <1>5 DEF T!ApplyOk, T!AfterApply, T!TypeOK
  <2> QED BY <1>2, <1>3, <2>3, <2>4, <2>5, CopiesLast DEF EvidenceInv, JobsKnown
<1>6. CASE ~T!PollOk(h) /\ ~T!ApplyOk(h)
  <2>1. row' = row
    BY <1>2, <1>6
    DEF T!TaskStep, T!TrackInsert, T!EnterSelect, T!Stop, T!Timer, T!Poll, T!PollNotFound,
        T!PollError, T!BeginTx, T!ApplyFail, T!Remove
  <2>2. \A g \in Handles : pc'[g] \in {"polled", "applying"} =>
          pc[g] \in {"polled", "applying"} /\ snap'[g] = snap[g] /\ runOf'[g] = runOf[g]
    BY <1>1, <1>2, <1>6
    DEF T!TaskStep, T!TrackInsert, T!EnterSelect, T!Stop, T!Timer, T!Poll, T!PollNotFound,
        T!PollError, T!BeginTx, T!ApplyFail, T!AfterApply, T!Remove, T!TypeOK
  <2> QED BY <1>2, <1>3, <2>1, <2>2, CopiesLast DEF EvidenceInv, JobsKnown, Borne
<1> QED BY <1>4, <1>5, <1>6

LEMMA MainKeepsEvidence ==
  ASSUME TypeOK, EvidenceInv,
         \/ \E m \in net, h \in Handles : Deliver(m, h)
         \/ \E m \in net : DeliverNothing(m) \/ Lose(m)
         \/ SupervisorStops \/ SupervisorMain
  PROVE  EvidenceInv'
<1>1. UNCHANGED <<setup, delta, req>>
  BY DEF Deliver, DeliverNothing, Lose, SupervisorStops, SupervisorMain, cpVars, passVars
<1>2. UNCHANGED <<row, job>>
  BY DEF Deliver, DeliverNothing, Lose, SupervisorStops, SupervisorMain, T!TrackCheck, T!Untrack,
         T!Shutdown, T!Crash, T!DrainUntrack, T!DrainDone, T!DrainTimeout, T!Exit, T!Restart,
         T!ProcessGone
<1>3. \A g \in Handles : pc'[g] \in {"polled", "applying"} =>
        pc[g] = pc'[g] /\ snap'[g] = snap[g] /\ runOf'[g] = runOf[g]
  BY DEF Deliver, DeliverNothing, Lose, SupervisorStops, SupervisorMain, T!TrackCheck, T!Untrack,
         T!Shutdown, T!Crash, T!DrainUntrack, T!DrainDone, T!DrainTimeout, T!Exit, T!Restart,
         T!ProcessGone, T!taskVars, trackerVars, TypeOK, T!TypeOK
<1>4. JobsOnlyEnd
  BY <1>2 DEF JobsOnlyEnd
<1> QED BY <1>1, <1>2, <1>3, <1>4, CopiesLast DEF EvidenceInv, JobsKnown, Borne

LEMMA EvidenceAlways == Spec => []EvidenceInv
<1>1. Init => EvidenceInv
  BY ControlPlaneAssumption
  DEF Init, T!RegistryInit, EvidenceInv, JobsKnown, Borne, OwnEnds, TERMINAL, FINISHED, IdleReq, RunStatus
<1>2. TypeOK /\ EvidenceInv /\ [Next]_vars => EvidenceInv'
  <2> SUFFICES ASSUME TypeOK, EvidenceInv, [Next]_vars PROVE EvidenceInv'
    OBVIOUS
  <2>1. CASE UNCHANGED vars
    BY <2>1 DEF EvidenceInv, JobsKnown, Borne, vars, trackerVars, passVars
  <2> QED BY <2>1, TinkerKeepsEvidence, RequestKeepsEvidence, PassKeepsEvidence,
             TaskKeepsEvidence, MainKeepsEvidence DEF Next
<1> QED BY <1>1, <1>2, ControlPlaneTypes, PTL DEF Spec

\* No interleaving of handlers, passes and pollers, however many there are and
\* however stale what they commit, shows an end the job did not come to.
THEOREM FinishesAreTrue == Spec => []NoFalseFinish
<1>1. EvidenceInv => NoFalseFinish
  BY DEF EvidenceInv, Borne, NoFalseFinish
<1> QED BY <1>1, EvidenceAlways, PTL

\* With a global key, a run shown as cancelled has a job that is over.
THEOREM CancelledRunsAreOver == Spec => []CancelledIsStopped
<1>1. EvidenceInv => CancelledIsStopped
  BY DEF EvidenceInv, Borne, CancelledIsStopped
<1> QED BY <1>1, EvidenceAlways, PTL

=============================================================================
