-------------------------- MODULE MetricSinkProofs --------------------------
(* Theorems about MetricSink, for any pollers, subscribers, capacities and   *)
(* numbers of steps and payloads.                                            *)
EXTENDS MetricSink, TLAPS

\* What a poller may write or publish: a step of the job.
LEMMA CandidateStepType ==
  ASSUME TypeOK, NEW p \in Pollers, CandidateStep(p) <= MaxStep
  PROVE  CandidateStep(p) \in Steps
<1>1. last[p] \in Steps \cup {-1} /\ held[p].step \in Steps \cup {NoStep}
  BY DEF TypeOK, Payload
<1> QED BY <1>1, MetricSinkAssumption DEF CandidateStep, Steps

LEMMA CandidateStepIsInteger ==
  ASSUME TypeOK, NEW p \in Pollers
  PROVE  CandidateStep(p) \in Int
<1>1. last[p] \in Steps \cup {-1} /\ held[p].step \in Steps \cup {NoStep}
  BY DEF TypeOK, Payload
<1> QED BY <1>1, MetricSinkAssumption DEF CandidateStep, Steps

\* The channel holds messages, Cap of them at most (broadcast::channel).
LEMMA SendType ==
  ASSUME TypeOK, NEW m \in Message, Send(m)
  PROVE  /\ ring' \in Seq(Message) /\ Len(ring') <= Cap
         /\ Len(ring') > 0
         /\ behind' \in [Subscribers -> 0..(Cap + 1)]
         /\ seen' = seen /\ disorder' = disorder
<1> USE MetricSinkAssumption
<1>1. CASE Len(ring) < Cap
  BY <1>1 DEF TypeOK, Send
<1>2. CASE ~(Len(ring) < Cap)
  <2>1. ring \in Seq(Message) /\ Len(ring) = Cap /\ ring # <<>>
    BY <1>2 DEF TypeOK
  <2>2. Tail(ring) \in Seq(Message) /\ Len(Tail(ring)) = Cap - 1
    BY <2>1
  <2>3. ring' = Append(Tail(ring), m)
    BY <1>2 DEF Send
  <2>4. ring' \in Seq(Message) /\ Len(ring') <= Cap /\ Len(ring') > 0
    BY <2>2, <2>3
  <2> QED BY <2>4 DEF TypeOK, Send
<1> QED BY <1>1, <1>2

LEMMA RetainedSteps ==
  ASSUME TypeOK PROVE \A i \in 1..Len(ring) : ring[i].step \in Steps \cup {-1}
<1>1. ring \in Seq(Message)
  BY DEF TypeOK
<1>2. \A i \in 1..Len(ring) : ring[i] \in Message
  BY <1>1
<1> QED BY <1>2 DEF Message

\* The step a poller in the middle of apply_update is about to publish has
\* been stored, and Commit's bound has been met.
CommittedIsStored ==
  \A p \in Pollers : pc[p] = "committed" =>
    /\ CandidateStep(p) <= MaxStep
    /\ WritesMetrics(p) => stored[CandidateStep(p)] # NoValue

\* Whoever has something to receive finds a retained message.
UnreadIsRetained == \A u \in Subscribers : behind[u] > 0 => Len(ring) > 0

IInv ==
  /\ TypeOK
  /\ PublishedIsStored
  /\ LastStepIsStored
  /\ CommittedIsStored
  /\ UnreadIsRetained

LEMMA InitiallyIInv == Init => IInv
<1> SUFFICES ASSUME Init PROVE IInv
  OBVIOUS
<1> USE MetricSinkAssumption DEF Init
<1>1. Blank \in Payload
  BY DEF Blank, Payload, Steps
<1>2. TypeOK
  <2>1. ring \in Seq(Message) /\ Len(ring) <= Cap
    OBVIOUS
  <2>2. /\ pc \in [Pollers -> {"off", "idle", "polled", "committed"}]
        /\ last \in [Pollers -> Steps \cup {-1}]
        /\ held \in [Pollers -> Payload]
    BY <1>1
  <2>3. /\ behind \in [Subscribers -> 0..(Cap + 1)]
        /\ seen \in [Subscribers -> Steps \cup {-1}]
        /\ disorder \in BOOLEAN
    <3>1. 0 \in 0..(Cap + 1)
      OBVIOUS
    <3> QED BY <3>1
  <2>4. /\ payload \in Payload /\ reported \in Steps
        /\ stored \in [Steps -> (0..MaxVersion) \cup {NoValue}]
        /\ gpu \in 0..MaxVersion /\ cost \in Nat
    BY <1>1 DEF Steps
  <2>5. omitted \in BOOLEAN
    OBVIOUS
  <2> QED BY <2>1, <2>2, <2>3, <2>4, <2>5 DEF TypeOK
<1>3. PublishedIsStored
  BY DEF PublishedIsStored
<1>4. LastStepIsStored /\ CommittedIsStored /\ UnreadIsRetained
  BY DEF LastStepIsStored, CommittedIsStored, UnreadIsRetained
<1> QED BY <1>2, <1>3, <1>4 DEF IInv

LEMMA ReportKeepsIInv ==
  ASSUME IInv, TinkerReports PROVE IInv'
<1> USE MetricSinkAssumption DEF IInv, TinkerReports, pollerVars, channelVars
<1>1. payload' \in Payload /\ reported' \in Steps /\ omitted' \in BOOLEAN
  <2>1. PICK s \in reported..MaxStep, m \in BOOLEAN, omit \in BOOLEAN :
          /\ payload' = [version |-> payload.version + 1,
                         step |-> IF omit THEN NoStep ELSE s, metrics |-> m]
          /\ reported' = IF omit THEN reported ELSE s
          /\ omitted' = (omitted \/ omit)
    OBVIOUS
  <2>2. s \in Steps /\ payload.version + 1 \in 0..MaxVersion
    BY DEF TypeOK, Steps, Payload
  <2> QED BY <2>1, <2>2 DEF Payload, TypeOK
<1>2. TypeOK'
  BY <1>1 DEF TypeOK
<1>3. (PublishedIsStored /\ LastStepIsStored /\ CommittedIsStored /\ UnreadIsRetained)'
  BY DEF PublishedIsStored, LastStepIsStored, CommittedIsStored, WritesMetrics, CandidateStep,
         UnreadIsRetained
<1> QED BY <1>2, <1>3

LEMMA StartKeepsIInv ==
  ASSUME IInv, NEW p \in Pollers, Start(p) PROVE IInv'
<1> USE MetricSinkAssumption DEF IInv, Start, channelVars
<1>1. PICK step \in Steps \cup {-1} :
        /\ step # -1 => stored[step] # NoValue
        /\ last' = [last EXCEPT ![p] = step]
  BY DEF IsLastStored
<1>2. TypeOK'
  BY <1>1 DEF TypeOK
<1>3. PublishedIsStored' /\ UnreadIsRetained'
  BY DEF PublishedIsStored, UnreadIsRetained
<1>4. LastStepIsStored'
  BY <1>1 DEF LastStepIsStored, TypeOK
<1>5. CommittedIsStored'
  <2>1. \A q \in Pollers : pc'[q] = "committed" => q # p /\ last'[q] = last[q] /\ pc[q] = pc'[q]
    BY <1>1 DEF TypeOK
  <2> QED BY <2>1 DEF CommittedIsStored, WritesMetrics, CandidateStep
<1> QED BY <1>2, <1>3, <1>4, <1>5

LEMMA PollKeepsIInv ==
  ASSUME IInv, NEW p \in Pollers, Poll(p) PROVE IInv'
<1> USE DEF IInv, Poll, channelVars
<1>1. TypeOK'
  BY DEF TypeOK
<1>2. PublishedIsStored' /\ LastStepIsStored' /\ UnreadIsRetained'
  BY DEF PublishedIsStored, LastStepIsStored, UnreadIsRetained, TypeOK
<1>3. CommittedIsStored'
  <2>1. \A q \in Pollers : pc'[q] = "committed" => q # p /\ held'[q] = held[q] /\ pc[q] = pc'[q]
    BY DEF TypeOK
  <2> QED BY <2>1 DEF CommittedIsStored, WritesMetrics, CandidateStep
<1> QED BY <1>1, <1>2, <1>3

LEMMA CommitKeepsIInv ==
  ASSUME IInv, NEW p \in Pollers, Commit(p) PROVE IInv'
<1> USE MetricSinkAssumption DEF IInv, Commit, channelVars
<1>1. held[p].version \in 0..MaxVersion
  BY DEF TypeOK, Payload
<1>2. CandidateStep(p) \in Steps
  BY CandidateStepType
<1>3. cost' \in Nat
  BY <1>1 DEF CostFor, TrackedGpuCount
<1>4. stored' \in [Steps -> (0..MaxVersion) \cup {NoValue}]
  BY <1>1, <1>2 DEF TypeOK
<1>5. TypeOK'
  BY <1>1, <1>3, <1>4 DEF TypeOK
<1>6. \A s \in Steps : stored[s] # NoValue => stored'[s] # NoValue
  BY <1>1, <1>2 DEF TypeOK
<1>7. PublishedIsStored'
  <2> HIDE DEF Commit
  <2>0. ring' = ring
    BY DEF Commit
  <2>1. \A i \in 1..Len(ring) : ring[i].step \in Steps \cup {-1}
    BY RetainedSteps
  <2>2. ASSUME NEW i \in 1..Len(ring), ring[i].step # -1
        PROVE  stored'[ring[i].step] # NoValue
    <3>1. ring[i].step \in Steps
      BY <2>1, <2>2
    <3>2. stored[ring[i].step] # NoValue
      BY <2>2 DEF PublishedIsStored
    <3> QED BY <1>6, <3>1, <3>2
  <2> QED BY <2>0, <2>2 DEF PublishedIsStored
<1>8. LastStepIsStored'
  BY <1>6 DEF LastStepIsStored, TypeOK
<1>9. CommittedIsStored'
  <2>1. \A q \in Pollers : (CandidateStep(q))' = CandidateStep(q) /\ (WritesMetrics(q))' = WritesMetrics(q)
    BY DEF CandidateStep, WritesMetrics
  <2>2. WritesMetrics(p) => stored'[CandidateStep(p)] # NoValue
    BY <1>1, <1>2 DEF TypeOK
  <2>3. ASSUME NEW q \in Pollers \ {p}, pc'[q] = "committed"
        PROVE  /\ CandidateStep(q) <= MaxStep
               /\ WritesMetrics(q) => stored'[CandidateStep(q)] # NoValue
    <3>1. pc[q] = "committed"
      BY <2>3 DEF TypeOK
    <3>2. CandidateStep(q) <= MaxStep
      BY <3>1 DEF CommittedIsStored
    <3>3. CandidateStep(q) \in Steps
      BY <3>2, CandidateStepType
    <3> QED BY <1>6, <3>1, <3>2, <3>3 DEF CommittedIsStored
  <2>4. ASSUME NEW q \in Pollers, pc'[q] = "committed"
        PROVE  /\ CandidateStep(q) <= MaxStep
               /\ WritesMetrics(q) => stored'[CandidateStep(q)] # NoValue
    BY <2>2, <2>3, <2>4
  <2> QED BY <2>1, <2>4 DEF CommittedIsStored
<1>10. UnreadIsRetained'
  BY DEF UnreadIsRetained
<1> QED BY <1>5, <1>7, <1>8, <1>9, <1>10

LEMMA CommitFailsKeepsIInv ==
  ASSUME IInv, NEW p \in Pollers, CommitFails(p) \/ Stop(p) PROVE IInv'
<1> USE DEF IInv, CommitFails, Stop, channelVars
<1>1. TypeOK'
  BY DEF TypeOK
<1>2. PublishedIsStored' /\ UnreadIsRetained'
  BY DEF PublishedIsStored, UnreadIsRetained
<1>3. LastStepIsStored'
  BY DEF LastStepIsStored, TypeOK
<1>4. CommittedIsStored'
  <2>1. \A q \in Pollers : pc'[q] = "committed" => pc[q] = "committed"
    BY DEF TypeOK
  <2> QED BY <2>1 DEF CommittedIsStored, WritesMetrics, CandidateStep
<1> QED BY <1>1, <1>2, <1>3, <1>4

LEMMA SendKeepsPublished ==
  ASSUME TypeOK, PublishedIsStored, NEW m \in Message, Send(m), stored' = stored,
         m.step # -1 => stored[m.step] # NoValue
  PROVE  PublishedIsStored'
<1> DEFINE Good(x) == x.step # -1 => stored[x.step] # NoValue
<1>1. ring \in Seq(Message) /\ Len(ring) \in Nat
  BY DEF TypeOK
<1>2. \A i \in 1..Len(ring) : Good(ring[i])
  BY DEF PublishedIsStored
<1>3. \A i \in 1..Len(ring') : Good(ring'[i])
  <2>1. CASE Len(ring) < Cap
    <3>1. ring' = Append(ring, m)
      BY <2>1 DEF Send
    <3>2. /\ Len(ring') = Len(ring) + 1
          /\ \A i \in 1..Len(ring) : ring'[i] = ring[i]
          /\ ring'[Len(ring) + 1] = m
      BY <1>1, <3>1
    <3> HIDE DEF Good
    <3>3. Good(m)
      BY DEF Good
    <3> QED BY <1>1, <1>2, <3>2, <3>3
  <2>2. CASE ~(Len(ring) < Cap)
    <3>1. ring' = Append(Tail(ring), m) /\ Len(ring) = Cap
      BY <2>2, MetricSinkAssumption DEF Send, TypeOK
    <3>2. ring # <<>>
      BY <3>1, MetricSinkAssumption
    <3>3. /\ Tail(ring) \in Seq(Message) /\ Len(Tail(ring)) = Len(ring) - 1
          /\ \A i \in 1..(Len(ring) - 1) : Tail(ring)[i] = ring[i + 1]
      BY <1>1, <3>2
    <3>4. /\ Len(ring') = Len(ring)
          /\ \A i \in 1..(Len(ring) - 1) : ring'[i] = ring[i + 1]
          /\ ring'[Len(ring)] = m
      BY <1>1, <3>1, <3>2, <3>3
    <3> HIDE DEF Good
    <3>5. Good(m)
      BY DEF Good
    <3> QED BY <1>1, <1>2, <3>4, <3>5
  <2> QED BY <2>1, <2>2
<1> QED BY <1>3 DEF PublishedIsStored

LEMMA PublishKeepsIInv ==
  ASSUME IInv, NEW p \in Pollers, Publish(p) PROVE IInv'
<1> USE MetricSinkAssumption
<1>1. pc[p] = "committed" /\ stored' = stored /\ TypeOK /\ held' = held
  BY DEF Publish, IInv
<1>2. last[p] \in Steps \cup {-1} /\ (last[p] # -1 => stored[last[p]] # NoValue)
  BY <1>1 DEF TypeOK, IInv, LastStepIsStored
<1>3. /\ CandidateStep(p) \in Steps
      /\ WritesMetrics(p) => stored[CandidateStep(p)] # NoValue
  BY <1>1, CandidateStepType DEF IInv, CommittedIsStored
<1>4. pc' = [pc EXCEPT ![p] = "idle"]
  BY DEF Publish
<1>5. /\ last' \in [Pollers -> Steps \cup {-1}]
      /\ \A q \in Pollers \ {p} : last'[q] = last[q]
      /\ last'[p] # -1 => stored[last'[p]] # NoValue
  <2>1. CASE WritesMetrics(p)
    <3>1. last' = [last EXCEPT ![p] = CandidateStep(p)]
      BY <2>1 DEF Publish, WritesMetrics
    <3> QED BY <3>1, <2>1, <1>1, <1>3 DEF TypeOK
  <2>2. CASE ~WritesMetrics(p)
    <3>1. last' = last
      BY <2>2 DEF Publish, channelVars
    <3> QED BY <3>1, <1>1, <1>2 DEF TypeOK
  <2> QED BY <2>1, <2>2
<1>6. /\ ring' \in Seq(Message) /\ Len(ring') <= Cap
      /\ behind' \in [Subscribers -> 0..(Cap + 1)]
      /\ seen' \in [Subscribers -> Steps \cup {-1}] /\ disorder' \in BOOLEAN
      /\ PublishedIsStored' /\ UnreadIsRetained'
  <2>1. CASE WritesMetrics(p)
    <3> DEFINE m == [step |-> CandidateStep(p), heartbeat |-> FALSE]
    <3>1. m \in Message /\ m.step = CandidateStep(p)
      BY <1>3 DEF Message
    <3>2. Send(m)
      BY <2>1 DEF Publish, WritesMetrics
    <3> HIDE DEF m
    <3>3. m.step # -1 => stored[m.step] # NoValue
      BY <1>3, <2>1, <3>1
    <3>4. PublishedIsStored'
      BY <1>1, <3>1, <3>2, <3>3, SendKeepsPublished DEF IInv
    <3>5. /\ ring' \in Seq(Message) /\ Len(ring') <= Cap /\ Len(ring') > 0
          /\ behind' \in [Subscribers -> 0..(Cap + 1)]
          /\ seen' = seen /\ disorder' = disorder
      BY <1>1, <3>1, <3>2, SendType
    <3> QED BY <1>1, <3>4, <3>5 DEF TypeOK, UnreadIsRetained
  <2>2. CASE ~WritesMetrics(p) /\ ~held[p].metrics
    <3> DEFINE m == [step |-> last[p], heartbeat |-> TRUE]
    <3>1. m \in Message /\ m.step = last[p]
      BY <1>2 DEF Message
    <3>2. Send(m)
      BY <2>2 DEF Publish
    <3> HIDE DEF m
    <3>3. m.step # -1 => stored[m.step] # NoValue
      BY <1>2, <2>2, <3>1
    <3>4. PublishedIsStored'
      BY <1>1, <3>1, <3>2, <3>3, SendKeepsPublished DEF IInv
    <3>5. /\ ring' \in Seq(Message) /\ Len(ring') <= Cap /\ Len(ring') > 0
          /\ behind' \in [Subscribers -> 0..(Cap + 1)]
          /\ seen' = seen /\ disorder' = disorder
      BY <1>1, <3>1, <3>2, SendType
    <3> QED BY <1>1, <3>4, <3>5 DEF TypeOK, UnreadIsRetained
  <2>3. CASE ~WritesMetrics(p) /\ held[p].metrics
    <3>1. UNCHANGED channelVars
      BY <2>3 DEF Publish
    <3> QED BY <3>1, <1>1 DEF channelVars, IInv, TypeOK, PublishedIsStored, UnreadIsRetained
  <2> QED BY <2>1, <2>2, <2>3
<1>7. TypeOK'
  <2>1. pc' \in [Pollers -> {"off", "idle", "polled", "committed"}]
    BY <1>1, <1>4 DEF TypeOK
  <2>2. UNCHANGED <<payload, reported, omitted, stored, gpu, cost, held>>
    BY DEF Publish
  <2> QED BY <1>1, <1>5, <1>6, <2>1, <2>2 DEF TypeOK
<1>8. LastStepIsStored'
  BY <1>1, <1>4, <1>5 DEF IInv, LastStepIsStored, TypeOK
<1>9. CommittedIsStored'
  <2>1. \A q \in Pollers : pc'[q] = "committed" => q # p /\ pc[q] = "committed" /\ last'[q] = last[q]
    BY <1>4, <1>5 DEF IInv, TypeOK
  <2> QED BY <1>1, <2>1 DEF IInv, CommittedIsStored, WritesMetrics, CandidateStep
<1> QED BY <1>6, <1>7, <1>8, <1>9 DEF IInv

LEMMA ReadersKeepIInv ==
  ASSUME IInv, NEW u \in Subscribers, Receive(u) \/ Subscribe(u) PROVE IInv'
<1> USE MetricSinkAssumption
<1>1. /\ UNCHANGED <<payload, reported, omitted, stored, gpu, cost, pc, last, held, ring>>
  BY DEF Receive, Subscribe, pollerVars
<1>2. /\ behind' \in [Subscribers -> 0..(Cap + 1)]
      /\ seen' \in [Subscribers -> Steps \cup {-1}] /\ disorder' \in BOOLEAN
  <2>1. CASE Subscribe(u)
    BY <2>1 DEF Subscribe, IInv, TypeOK
  <2>2. CASE Receive(u)
    <3> DEFINE unread == IF behind[u] <= Len(ring) THEN behind[u] ELSE Len(ring)
    <3> DEFINE m == ring[Len(ring) - unread + 1]
    <3>1. /\ behind[u] > 0 /\ behind' = [behind EXCEPT ![u] = unread - 1]
          /\ \/ UNCHANGED <<seen, disorder>>
             \/ /\ seen' = [seen EXCEPT ![u] = m.step]
                /\ disorder' = (disorder \/ m.step <= seen[u])
      BY <2>2 DEF Receive
    <3>2. behind[u] \in 1..(Cap + 1) /\ Len(ring) \in 0..Cap
      BY <3>1 DEF IInv, TypeOK
    <3>3. Len(ring) \in 1..Cap
      BY <3>1, <3>2 DEF IInv, UnreadIsRetained
    <3>4. unread \in 1..Len(ring)
      BY <3>2, <3>3
    <3>5. Len(ring) - unread + 1 \in 1..Len(ring)
      BY <3>3, <3>4
    <3>6. m.step \in Steps \cup {-1}
      BY <3>5, RetainedSteps DEF IInv
    <3>7. behind' \in [Subscribers -> 0..(Cap + 1)]
      BY <3>1, <3>3, <3>4 DEF IInv, TypeOK
    <3> HIDE DEF m
    <3>8. seen' \in [Subscribers -> Steps \cup {-1}]
      BY <3>1, <3>6 DEF IInv, TypeOK
    <3>9. disorder' \in BOOLEAN
      BY <3>1 DEF IInv, TypeOK
    <3> QED BY <3>7, <3>8, <3>9
  <2> QED BY <2>1, <2>2
<1>3. TypeOK'
  BY <1>1, <1>2 DEF IInv, TypeOK
<1>4. (PublishedIsStored /\ LastStepIsStored /\ CommittedIsStored)'
  BY <1>1 DEF IInv, PublishedIsStored, LastStepIsStored, CommittedIsStored, WritesMetrics, CandidateStep
<1>5. UnreadIsRetained'
  <2>1. behind'[u] > 0 => behind[u] > 0
    BY DEF Receive, Subscribe, IInv, TypeOK
  <2>2. \A v \in Subscribers \ {u} : behind'[v] = behind[v]
    BY DEF Receive, Subscribe, IInv, TypeOK
  <2> QED BY <1>1, <2>1, <2>2 DEF IInv, UnreadIsRetained
<1> QED BY <1>3, <1>4, <1>5 DEF IInv

LEMMA CrashKeepsIInv ==
  ASSUME IInv, Crash PROVE IInv'
<1> USE MetricSinkAssumption DEF Crash, IInv
<1>1. ring' \in Seq(Message) /\ Len(ring') = 0
  OBVIOUS
<1>2. 0 \in 0..(Cap + 1)
  OBVIOUS
<1>3. TypeOK'
  BY <1>1, <1>2 DEF TypeOK
<1>4. (PublishedIsStored /\ LastStepIsStored /\ CommittedIsStored /\ UnreadIsRetained)'
  BY <1>1 DEF PublishedIsStored, LastStepIsStored, CommittedIsStored, UnreadIsRetained
<1> QED BY <1>3, <1>4

LEMMA IInvAlways == Spec => []IInv
<1>1. IInv /\ [Next]_vars => IInv'
  <2> SUFFICES ASSUME IInv, [Next]_vars PROVE IInv'
    OBVIOUS
  <2>1. CASE TinkerReports
    BY <2>1, ReportKeepsIInv
  <2>2. ASSUME NEW p \in Pollers,
               Start(p) \/ Poll(p) \/ Commit(p) \/ CommitFails(p) \/ Publish(p) \/ Stop(p)
        PROVE IInv'
    BY <2>2, StartKeepsIInv, PollKeepsIInv, CommitKeepsIInv, CommitFailsKeepsIInv, PublishKeepsIInv
  <2>3. ASSUME NEW u \in Subscribers, Receive(u) \/ Subscribe(u) PROVE IInv'
    BY <2>3, ReadersKeepIInv
  <2>4. CASE Crash
    BY <2>4, CrashKeepsIInv
  <2>5. CASE UNCHANGED vars
    BY <2>5 DEF vars, pollerVars, channelVars, IInv, TypeOK, PublishedIsStored, LastStepIsStored,
       CommittedIsStored, WritesMetrics, CandidateStep, UnreadIsRetained
  <2> QED BY <2>1, <2>2, <2>3, <2>4, <2>5 DEF Next
<1> QED BY <1>1, InitiallyIInv, PTL DEF Spec

\* Every state of the sink is well typed: the channel never outgrows its
\* capacity and no step beyond the job's is stored.
THEOREM SinkTypeCorrect == Spec => []TypeOK
BY IInvAlways, PTL DEF IInv

\* No step reaches a viewer's channel that is not in run_metrics, for any
\* number of concurrent pollers of the run and across crashes.
THEOREM PublishedStored == Spec => []PublishedIsStored
BY IInvAlways, PTL DEF IInv

\* A live poller's last_step is a stored step, or -1.
THEOREM LastStepStored == Spec => []LastStepIsStored
BY IInvAlways, PTL DEF IInv

-----------------------------------------------------------------------------
(* What is stored follows the job's history                                  *)

\* A version and its step that the state still knows of: as what Tinker would
\* answer, in a poller's hand, or in the table.
Known(v, s) ==
  \/ payload.version = v /\ payload.step = s
  \/ \E p \in Pollers : held[p].version = v /\ held[p].step = s
  \/ stored[s] = v

\* As long as Tinker names its steps, what is known of the history is ascending:
\* no later version has an earlier step.
HistoryInv ==
  ~omitted =>
    /\ payload.step = reported
    /\ \A p \in Pollers : held[p].step # NoStep
    /\ \A s \in Steps, v \in 0..MaxVersion : Known(v, s) => v <= payload.version /\ s <= reported
    /\ \A s, t \in Steps, v, w \in 0..MaxVersion :
         Known(v, s) /\ Known(w, t) /\ v <= w => s <= t

\* A step that tells the state nothing new, and after which Tinker answers what
\* it did before, leaves the history ascending.
LEMMA NothingNew ==
  ASSUME HistoryInv,
         omitted' = omitted, payload' = payload, reported' = reported,
         ~omitted => \A p \in Pollers : held'[p].step # NoStep,
         ~omitted => \A s \in Steps, v \in 0..MaxVersion : Known(v, s)' => Known(v, s)
  PROVE  HistoryInv'
<1> SUFFICES ASSUME ~omitted' PROVE
      /\ payload'.step = reported'
      /\ \A p \in Pollers : held'[p].step # NoStep
      /\ \A s \in Steps, v \in 0..MaxVersion :
           Known(v, s)' => v <= payload'.version /\ s <= reported'
      /\ \A s, t \in Steps, v, w \in 0..MaxVersion :
           Known(v, s)' /\ Known(w, t)' /\ v <= w => s <= t
  BY DEF HistoryInv
<1> HIDE DEF Known
<1>1. ~omitted
  OBVIOUS
<1>2. /\ payload.step = reported
      /\ \A s \in Steps, v \in 0..MaxVersion : Known(v, s) => v <= payload.version /\ s <= reported
      /\ \A s, t \in Steps, v, w \in 0..MaxVersion :
           Known(v, s) /\ Known(w, t) /\ v <= w => s <= t
  BY <1>1 DEF HistoryInv
<1> QED BY <1>1, <1>2

LEMMA InitiallyHistory == Init => HistoryInv
<1> SUFFICES ASSUME Init PROVE HistoryInv
  OBVIOUS
<1> USE MetricSinkAssumption DEF Init, Blank
<1>1. \A s \in Steps, v \in 0..MaxVersion : Known(v, s) => v = 0 /\ s = 0
  BY DEF Known, Steps
<1>2. payload.step = reported /\ \A p \in Pollers : held[p].step # NoStep
  OBVIOUS
<1> HIDE DEF Init
<1>3. payload.version = 0 /\ reported = 0
  BY DEF Init
<1> QED BY <1>1, <1>2, <1>3 DEF HistoryInv, Steps

\* A new report has the newest version, and no step is later than its own.
LEMMA ReportKeepsHistory ==
  ASSUME TypeOK, HistoryInv, TinkerReports PROVE HistoryInv'
<1> USE MetricSinkAssumption
<1>1. PICK s \in reported..MaxStep, m \in BOOLEAN, omit \in BOOLEAN :
        /\ payload' = [version |-> payload.version + 1,
                       step |-> IF omit THEN NoStep ELSE s, metrics |-> m]
        /\ reported' = IF omit THEN reported ELSE s
        /\ omitted' = (omitted \/ omit)
  BY DEF TinkerReports
<1> SUFFICES ASSUME ~omitted' PROVE HistoryInv'
  BY DEF HistoryInv
<1>2. /\ ~omitted /\ reported' = s /\ payload'.step = s
      /\ payload'.version = payload.version + 1
  BY <1>1
<1>3. /\ payload.version \in 0..MaxVersion /\ payload.step \in Steps \cup {NoStep}
      /\ reported \in Steps /\ reported <= s /\ s \in Steps
  BY DEF TypeOK, Payload, Steps
<1>4. UNCHANGED <<held, stored>>
  BY DEF TinkerReports, pollerVars
<1>5. \A t \in Steps, v \in 0..MaxVersion :
        Known(v, t)' => Known(v, t) \/ (v = payload.version + 1 /\ t = s)
  BY <1>2, <1>4 DEF Known
<1>6. /\ payload.step = reported
      /\ \A p \in Pollers : held[p].step # NoStep
      /\ \A t \in Steps, v \in 0..MaxVersion : Known(v, t) => v <= payload.version /\ t <= reported
      /\ \A t, u \in Steps, v, w \in 0..MaxVersion :
           Known(v, t) /\ Known(w, u) /\ v <= w => t <= u
  BY <1>2 DEF HistoryInv
<1>7. payload'.step = reported' /\ \A p \in Pollers : held'[p].step # NoStep
  BY <1>2, <1>4, <1>6
<1>8. ASSUME NEW t \in Steps, NEW v \in 0..MaxVersion, Known(v, t)'
      PROVE  v <= payload'.version /\ t <= reported'
  <2>1. Known(v, t) \/ (v = payload.version + 1 /\ t = s)
    BY <1>5, <1>8
  <2> HIDE DEF Known
  <2>2. Known(v, t) => v <= payload.version /\ t <= reported
    BY <1>6
  <2> QED BY <1>2, <1>3, <2>1, <2>2 DEF Steps
<1>9. ASSUME NEW t \in Steps, NEW u \in Steps, NEW v \in 0..MaxVersion, NEW w \in 0..MaxVersion,
             Known(v, t)', Known(w, u)', v <= w
      PROVE  t <= u
  <2>1. /\ Known(v, t) \/ (v = payload.version + 1 /\ t = s)
        /\ Known(w, u) \/ (w = payload.version + 1 /\ u = s)
    BY <1>5, <1>9
  <2>2. /\ Known(v, t) => v <= payload.version /\ t <= reported
        /\ Known(w, u) => w <= payload.version /\ u <= reported
        /\ Known(v, t) /\ Known(w, u) => t <= u
    BY <1>6, <1>9
  <2> QED BY <1>3, <1>9, <2>1, <2>2 DEF Steps
<1> QED BY <1>7, <1>8, <1>9 DEF HistoryInv

\* What a poller stores is the step and the version of its payload.
LEMMA CommitKeepsHistory ==
  ASSUME TypeOK, HistoryInv, NEW p \in Pollers, Commit(p) PROVE HistoryInv'
<1>1. UNCHANGED <<payload, reported, omitted, held>>
  BY DEF Commit
<1>2. ~omitted => \A q \in Pollers : held'[q].step # NoStep
  BY <1>1 DEF HistoryInv
<1>3. ASSUME ~omitted, NEW s \in Steps, NEW v \in 0..MaxVersion, Known(v, s)'
      PROVE  Known(v, s)
  <2>1. CandidateStep(p) = held[p].step
    BY <1>3 DEF HistoryInv, CandidateStep
  <2>2. stored'[s] = stored[s] \/ (s = held[p].step /\ stored'[s] = held[p].version)
    BY <2>1 DEF Commit, TypeOK
  <2> QED BY <1>1, <1>3, <2>2 DEF Known
<1> QED BY <1>1, <1>2, <1>3, NothingNew

LEMMA PollKeepsHistory ==
  ASSUME TypeOK, HistoryInv, NEW p \in Pollers, Poll(p) PROVE HistoryInv'
<1>1. UNCHANGED <<payload, reported, omitted, stored>> /\ held' = [held EXCEPT ![p] = payload]
  BY DEF Poll
<1>2. \A q \in Pollers : held'[q] = held[q] \/ held'[q] = payload
  BY <1>1 DEF TypeOK
<1>3. ~omitted => \A q \in Pollers : held'[q].step # NoStep
  <2>1. ~omitted => payload.step # NoStep
    BY MetricSinkAssumption DEF HistoryInv, TypeOK, Steps
  <2>2. ~omitted => \A q \in Pollers : held[q].step # NoStep
    BY DEF HistoryInv
  <2> QED BY <1>2, <2>1, <2>2
<1>4. \A s \in Steps, v \in 0..MaxVersion : Known(v, s)' => Known(v, s)
  BY <1>1, <1>2 DEF Known
<1> QED BY <1>1, <1>3, <1>4, NothingNew

LEMMA HistoryAlways == Spec => []HistoryInv
<1>1. TypeOK /\ HistoryInv /\ [Next]_vars => HistoryInv'
  <2> SUFFICES ASSUME TypeOK, HistoryInv, [Next]_vars PROVE HistoryInv'
    OBVIOUS
  <2>1. ASSUME UNCHANGED <<payload, reported, omitted, held, stored>> PROVE HistoryInv'
    <3>1. \A s \in Steps, v \in 0..MaxVersion : Known(v, s)' => Known(v, s)
      BY <2>1 DEF Known
    <3>2. ~omitted => \A p \in Pollers : held'[p].step # NoStep
      BY <2>1 DEF HistoryInv
    <3> QED BY <2>1, <3>1, <3>2, NothingNew
  <2>2. CASE TinkerReports
    BY <2>2, ReportKeepsHistory
  <2>3. ASSUME NEW p \in Pollers, Poll(p) \/ Commit(p) PROVE HistoryInv'
    BY <2>3, PollKeepsHistory, CommitKeepsHistory
  <2>4. ASSUME NEW p \in Pollers, Start(p) \/ CommitFails(p) \/ Publish(p) \/ Stop(p)
        PROVE HistoryInv'
    BY <2>1, <2>4 DEF Start, CommitFails, Publish, Stop
  <2>5. ASSUME NEW u \in Subscribers, Receive(u) \/ Subscribe(u) PROVE HistoryInv'
    BY <2>1, <2>5 DEF Receive, Subscribe, pollerVars
  <2>6. CASE Crash \/ UNCHANGED vars
    BY <2>1, <2>6 DEF Crash, vars, pollerVars
  <2> QED BY <2>2, <2>3, <2>4, <2>5, <2>6 DEF Next
<1> QED BY <1>1, InitiallyHistory, SinkTypeCorrect, PTL DEF Spec

\* Later steps have later values in run_metrics, for any number of pollers and
\* whenever one of them is late, repeats itself or dies, as long as Tinker names
\* the steps it reports.
THEOREM StoredInOrder == Spec => []StoredFollowsHistory
<1>1. TypeOK /\ HistoryInv => StoredFollowsHistory
  <2> SUFFICES ASSUME TypeOK, HistoryInv, ~omitted, NEW s \in Steps, NEW t \in Steps,
                      s < t, stored[s] # NoValue, stored[t] # NoValue
               PROVE  stored[s] < stored[t]
    BY DEF StoredFollowsHistory
  <2>1. stored[s] \in 0..MaxVersion /\ stored[t] \in 0..MaxVersion
    BY DEF TypeOK
  <2>2. Known(stored[s], s) /\ Known(stored[t], t)
    BY DEF Known
  <2>3. stored[t] <= stored[s] => t <= s
    BY <2>1, <2>2 DEF HistoryInv
  <2> QED BY <2>1, <2>3, MetricSinkAssumption DEF Steps
<1> QED BY <1>1, HistoryAlways, SinkTypeCorrect, PTL

-----------------------------------------------------------------------------
(* What the viewers of a run with a single poller see                        *)

\* What Send does to the channel: its messages move down by one place when it is
\* full, and the new one is the last.
LEMMA SendShifts ==
  ASSUME TypeOK, NEW m \in Message, Send(m)
  PROVE  \E d \in {0, 1} :
           /\ Len(ring') = Len(ring) + 1 - d /\ (d = 1 => Len(ring) = Cap)
           /\ \A i \in 1..(Len(ring') - 1) : i + d \in 1..Len(ring) /\ ring'[i] = ring[i + d]
           /\ ring'[Len(ring')] = m
<1>1. ring \in Seq(Message) /\ Len(ring) \in 0..Cap
  BY MetricSinkAssumption DEF TypeOK
<1>2. CASE Len(ring) < Cap
  <2>1. ring' = Append(ring, m)
    BY <1>2 DEF Send
  <2>2. /\ Len(ring') = Len(ring) + 1
        /\ \A i \in 1..Len(ring) : ring'[i] = ring[i]
        /\ ring'[Len(ring) + 1] = m
    BY <1>1, <2>1
  <2> WITNESS 0 \in {0, 1}
  <2> QED BY <1>1, <2>2
<1>3. CASE ~(Len(ring) < Cap)
  <2>1. ring' = Append(Tail(ring), m) /\ Len(ring) = Cap /\ ring # <<>>
    BY <1>1, <1>3, MetricSinkAssumption DEF Send
  <2>2. /\ Tail(ring) \in Seq(Message) /\ Len(Tail(ring)) = Len(ring) - 1
        /\ \A i \in 1..(Len(ring) - 1) : Tail(ring)[i] = ring[i + 1]
    BY <1>1, <2>1
  <2>3. /\ Len(ring') = Len(ring)
        /\ \A i \in 1..(Len(ring) - 1) : ring'[i] = ring[i + 1]
        /\ ring'[Len(ring)] = m
    BY <1>1, <2>1, <2>2
  <2> WITNESS 1 \in {0, 1}
  <2> QED BY <1>1, <2>1, <2>3
<1> QED BY <1>2, <1>3

\* A single task polls the run, and it can read where the last one stopped.
OnePoller == MayFailLoad = {} /\ \A p, q \in Pollers : p = q

\* No poller at work is behind what was published, nor behind what was seen.
AheadOfViewers ==
  \A p \in Pollers : pc[p] # "off" =>
    /\ \A i \in 1..Len(ring) : ring[i].step <= last[p]
    /\ \A u \in Subscribers : seen[u] <= last[p]

SeenIsStored == \A u \in Subscribers : seen[u] # -1 => stored[seen[u]] # NoValue

\* The metrics on the channel ascend, and those a viewer has not received are
\* later than what it has.
RingAscends ==
  \A i, j \in 1..Len(ring) : i < j /\ ~ring[j].heartbeat => ring[i].step < ring[j].step

UnreadIsLater ==
  \A u \in Subscribers : \A i \in 1..Len(ring) :
    Len(ring) - behind[u] < i /\ ~ring[i].heartbeat => seen[u] < ring[i].step

OrderInv == AheadOfViewers /\ SeenIsStored /\ RingAscends /\ UnreadIsLater /\ ~disorder

LEMMA SeenTypes ==
  ASSUME TypeOK
  PROVE  /\ \A u \in Subscribers : seen[u] \in Steps \cup {-1} /\ seen[u] \in Int
                                   /\ behind[u] \in 0..(Cap + 1) /\ behind[u] \in Int
         /\ \A p \in Pollers : last[p] \in Steps \cup {-1} /\ last[p] \in Int
         /\ Len(ring) \in Nat
         /\ \A i \in 1..Len(ring) : ring[i].step \in Steps \cup {-1} /\ ring[i].step \in Int
<1> QED BY RetainedSteps, MetricSinkAssumption, SMTT(60) DEF TypeOK, Steps

LEMMA InitiallyOrder == Init => OrderInv
BY DEF Init, OrderInv, AheadOfViewers, SeenIsStored, RingAscends, UnreadIsLater

\* A new task goes on from the last stored step, and whatever was published or
\* seen is stored.
LEMMA StartKeepsOrder ==
  ASSUME OnePoller, IInv, OrderInv, NEW p \in Pollers, Start(p) PROVE OrderInv'
<1> USE MetricSinkAssumption
<1>1. PICK step \in Steps \cup {-1} : IsLastStored(step) /\ last' = [last EXCEPT ![p] = step]
  BY DEF Start, OnePoller
<1>2. UNCHANGED <<stored, ring, behind, seen, disorder>>
  BY DEF Start, channelVars
<1>3. last'[p] = step /\ \A q \in Pollers : q = p
  BY <1>1 DEF OnePoller, IInv, TypeOK
<1>4. \A s \in Steps : stored[s] # NoValue => s <= step
  BY <1>1 DEF IsLastStored
<1>5. \A i \in 1..Len(ring) : ring[i].step <= step
  <2> TAKE i \in 1..Len(ring)
  <2>1. ring[i].step \in Steps \cup {-1} /\ (ring[i].step # -1 => stored[ring[i].step] # NoValue)
    BY RetainedSteps DEF IInv, PublishedIsStored
  <2> QED BY <1>4, <2>1 DEF Steps
<1>6. \A u \in Subscribers : seen[u] <= step
  <2> TAKE u \in Subscribers
  <2>1. seen[u] \in Steps \cup {-1} /\ (seen[u] # -1 => stored[seen[u]] # NoValue)
    BY DEF IInv, TypeOK, OrderInv, SeenIsStored
  <2> QED BY <1>4, <2>1 DEF Steps
<1>7. AheadOfViewers'
  BY <1>2, <1>3, <1>5, <1>6 DEF AheadOfViewers
<1> QED BY <1>2, <1>7 DEF OrderInv, SeenIsStored, RingAscends, UnreadIsLater

\* A step is stored once more, or for the first time.
LEMMA CommitKeepsOrder ==
  ASSUME IInv, OrderInv, NEW p \in Pollers, Commit(p) PROVE OrderInv'
<1> USE MetricSinkAssumption
<1>1. held[p].version \in 0..MaxVersion /\ CandidateStep(p) \in Steps
  BY CandidateStepType DEF IInv, TypeOK, Payload, Commit
<1>2. \A s \in Steps : stored[s] # NoValue => stored'[s] # NoValue
  BY <1>1 DEF IInv, TypeOK, Commit
<1>3. UNCHANGED <<last, ring, behind, seen, disorder>>
  BY DEF Commit, channelVars
<1>4. \A q \in Pollers : pc'[q] # "off" => pc[q] # "off"
  BY DEF Commit, IInv, TypeOK
<1>5. AheadOfViewers'
  BY <1>3, <1>4 DEF OrderInv, AheadOfViewers
<1>6. SeenIsStored'
  BY <1>2, <1>3 DEF OrderInv, SeenIsStored, IInv, TypeOK
<1> QED BY <1>3, <1>5, <1>6 DEF OrderInv, RingAscends, UnreadIsLater

\* What is sent is at least what the poller sent before; as metrics, it is later
\* than all that was sent.
LEMMA SendKeepsOrder ==
  ASSUME TypeOK, OrderInv, NEW p \in Pollers, pc[p] # "off",
         NEW m \in Message, Send(m), m.step <= last'[p], last[p] <= last'[p], last'[p] \in Int,
         ~m.heartbeat => last[p] < m.step
  PROVE  /\ \A i \in 1..Len(ring') : ring'[i].step <= last'[p]
         /\ \A u \in Subscribers : seen'[u] <= last'[p]
         /\ RingAscends' /\ UnreadIsLater' /\ seen' = seen /\ disorder' = disorder
<1> USE MetricSinkAssumption
<1>1. PICK d \in {0, 1} :
        /\ Len(ring') = Len(ring) + 1 - d /\ (d = 1 => Len(ring) = Cap)
        /\ \A i \in 1..(Len(ring') - 1) : i + d \in 1..Len(ring) /\ ring'[i] = ring[i + d]
        /\ ring'[Len(ring')] = m
  BY SendShifts
<1>2. seen' = seen /\ disorder' = disorder
  BY DEF Send
<1>3. /\ \A i \in 1..Len(ring) : ring[i].step \in Int /\ ring[i].step <= last[p]
      /\ \A u \in Subscribers : seen[u] \in Int /\ seen[u] <= last[p]
      /\ last[p] \in Int /\ Len(ring) \in Nat /\ m.step \in Int
  BY SeenTypes, SMTT(60) DEF OrderInv, AheadOfViewers, Message, Steps
<1>4. \A i \in 1..Len(ring') : i = Len(ring') \/ i \in 1..(Len(ring') - 1)
  BY <1>1, <1>3
<1>5. \A i \in 1..Len(ring') : ring'[i].step <= last'[p]
  <2> TAKE i \in 1..Len(ring')
  <2>1. CASE i = Len(ring')
    BY <1>1, <2>1
  <2>2. CASE i \in 1..(Len(ring') - 1)
    <3>1. i + d \in 1..Len(ring) /\ ring'[i] = ring[i + d]
      BY <1>1, <2>2
    <3>2. ring'[i].step \in Int /\ ring'[i].step <= last[p]
      BY <1>3, <3>1
    <3> QED BY <1>3, <3>2
  <2> QED BY <1>4, <2>1, <2>2
<1>6. \A u \in Subscribers : seen'[u] <= last'[p]
  BY <1>2, <1>3
<1>7. RingAscends'
  <2> SUFFICES ASSUME NEW i \in 1..Len(ring'), NEW j \in 1..Len(ring'), i < j,
                      ~ring'[j].heartbeat
               PROVE  ring'[i].step < ring'[j].step
    BY DEF RingAscends
  <2>1. i \in 1..(Len(ring') - 1) /\ i + d \in 1..Len(ring) /\ ring'[i] = ring[i + d]
    BY <1>1, <1>3, SMTT(60)
  <2>2. CASE j = Len(ring')
    <3>1. ring'[j] = m /\ last[p] < m.step
      BY <1>1, <2>2
    <3>2. ring[i + d].step \in Int /\ ring[i + d].step <= last[p]
      BY <1>3, <2>1
    <3> QED BY <1>3, <2>1, <3>1, <3>2, SMTT(60)
  <2>3. CASE j \in 1..(Len(ring') - 1)
    <3>1. j + d \in 1..Len(ring) /\ ring'[j] = ring[j + d] /\ i + d < j + d
      BY <1>1, <2>3
    <3> QED BY <2>1, <3>1 DEF OrderInv, RingAscends
  <2> QED BY <1>4, <2>2, <2>3
<1>8. UnreadIsLater'
  <2> SUFFICES ASSUME NEW u \in Subscribers, NEW i \in 1..Len(ring'),
                      Len(ring') - behind'[u] < i, ~ring'[i].heartbeat
               PROVE  seen'[u] < ring'[i].step
    BY DEF UnreadIsLater
  <2>1. CASE i = Len(ring')
    BY <1>1, <1>2, <1>3, <2>1, SMTT(60)
  <2>2. CASE i \in 1..(Len(ring') - 1)
    <3>1. i + d \in 1..Len(ring) /\ ring'[i] = ring[i + d]
      BY <1>1, <2>2
    <3>2. behind[u] \in 0..(Cap + 1)
      BY DEF TypeOK
    <3>3. behind'[u] = IF behind[u] <= Cap THEN behind[u] + 1 ELSE behind[u]
      BY DEF Send
    <3>4. Len(ring) <= Cap
      BY DEF TypeOK
    <3>5. Len(ring) - behind[u] < i + d
      BY <1>1, <1>3, <3>1, <3>2, <3>3, <3>4, SMTT(60)
    <3> QED BY <1>2, <3>1, <3>5 DEF OrderInv, UnreadIsLater
  <2> QED BY <1>4, <2>1, <2>2
<1> QED BY <1>2, <1>5, <1>6, <1>7, <1>8

LEMMA PublishKeepsOrder ==
  ASSUME OnePoller, IInv, OrderInv, NEW p \in Pollers, Publish(p) PROVE OrderInv'
<1> USE MetricSinkAssumption
<1>1. /\ pc[p] = "committed" /\ stored' = stored /\ TypeOK
      /\ \A q \in Pollers : q = p
  BY DEF Publish, IInv, OnePoller
<1>2. last[p] \in Steps \cup {-1} /\ last[p] \in Int /\ CandidateStep(p) \in Steps
  BY <1>1, SeenTypes, CandidateStepType DEF IInv, CommittedIsStored
<1>3. CASE WritesMetrics(p)
  <2> DEFINE m == [step |-> CandidateStep(p), heartbeat |-> FALSE]
  <2>1. m \in Message /\ m.step = CandidateStep(p) /\ ~m.heartbeat
    BY <1>2 DEF Message
  <2>2. Send(m) /\ last' = [last EXCEPT ![p] = CandidateStep(p)]
    BY <1>3 DEF Publish, WritesMetrics
  <2>3. last'[p] = CandidateStep(p) /\ last[p] < CandidateStep(p) /\ CandidateStep(p) \in Int
    BY <1>1, <1>2, <1>3, <2>2 DEF TypeOK, WritesMetrics, Steps
  <2> HIDE DEF m
  <2>4. /\ \A i \in 1..Len(ring') : ring'[i].step <= last'[p]
        /\ \A u \in Subscribers : seen'[u] <= last'[p]
        /\ RingAscends' /\ UnreadIsLater' /\ seen' = seen /\ disorder' = disorder
    BY <1>1, <1>2, <2>1, <2>2, <2>3, SendKeepsOrder
  <2>5. AheadOfViewers'
    BY <1>1, <2>4 DEF AheadOfViewers
  <2> QED BY <1>1, <2>4, <2>5 DEF OrderInv, SeenIsStored
<1>4. CASE ~WritesMetrics(p) /\ ~held[p].metrics
  <2> DEFINE m == [step |-> last[p], heartbeat |-> TRUE]
  <2>1. m \in Message /\ m.step = last[p] /\ m.heartbeat
    BY <1>2 DEF Message
  <2>2. Send(m) /\ last' = last
    BY <1>4 DEF Publish
  <2> HIDE DEF m
  <2>3. m.step <= last'[p] /\ last[p] <= last'[p] /\ last'[p] \in Int /\ (~m.heartbeat => last[p] < m.step)
    BY <1>2, <2>1, <2>2
  <2>4. /\ \A i \in 1..Len(ring') : ring'[i].step <= last'[p]
        /\ \A u \in Subscribers : seen'[u] <= last'[p]
        /\ RingAscends' /\ UnreadIsLater' /\ seen' = seen /\ disorder' = disorder
    BY <1>1, <2>1, <2>2, <2>3, SendKeepsOrder
  <2>5. AheadOfViewers'
    BY <1>1, <2>4 DEF AheadOfViewers
  <2> QED BY <1>1, <2>4, <2>5 DEF OrderInv, SeenIsStored
<1>5. CASE ~WritesMetrics(p) /\ held[p].metrics
  <2>1. UNCHANGED <<ring, behind, seen, disorder, last>>
    BY <1>5 DEF Publish, channelVars
  <2>2. AheadOfViewers'
    BY <1>1, <2>1 DEF OrderInv, AheadOfViewers
  <2> QED BY <1>1, <2>1, <2>2 DEF OrderInv, SeenIsStored, RingAscends, UnreadIsLater
<1> QED BY <1>3, <1>4, <1>5

\* The oldest message not received is later than what the viewer has, and what
\* remains is later still.
LEMMA ReceiveKeepsOrder ==
  ASSUME IInv, OrderInv, NEW u \in Subscribers, Receive(u) PROVE OrderInv'
<1> USE MetricSinkAssumption
<1> DEFINE unread == IF behind[u] <= Len(ring) THEN behind[u] ELSE Len(ring)
           next == Len(ring) - unread + 1
           m == ring[next]
<1>1. /\ behind[u] > 0 /\ behind' = [behind EXCEPT ![u] = unread - 1]
      /\ \/ m.heartbeat /\ UNCHANGED <<seen, disorder>>
         \/ /\ ~m.heartbeat
            /\ seen' = [seen EXCEPT ![u] = m.step]
            /\ disorder' = (disorder \/ m.step <= seen[u])
      /\ UNCHANGED <<stored, pc, last, ring>>
  BY DEF Receive, pollerVars
<1>2. /\ behind[u] \in 1..(Cap + 1) /\ Len(ring) \in 1..Cap
      /\ behind[u] \in Int /\ Len(ring) \in Int
  BY <1>1 DEF IInv, TypeOK, UnreadIsRetained
<1>3. /\ unread \in 1..Len(ring) /\ next \in 1..Len(ring) /\ Len(ring) - behind[u] < next
      /\ Len(ring) - (unread - 1) = next
  BY <1>2
<1>4. /\ behind'[u] = unread - 1
      /\ \A w \in Subscribers \ {u} : behind'[w] = behind[w] /\ seen'[w] = seen[w]
  BY <1>1 DEF IInv, TypeOK
<1>5. m.step \in Steps \cup {-1} /\ (m.step # -1 => stored[m.step] # NoValue)
  BY <1>3, RetainedSteps DEF IInv, PublishedIsStored
<1> HIDE DEF unread, next
<1>6. \A p \in Pollers : pc[p] # "off" => m.step <= last[p]
  BY <1>3 DEF OrderInv, AheadOfViewers
<1>7. ~m.heartbeat => seen[u] < m.step
  BY <1>3 DEF OrderInv, UnreadIsLater
<1>8. seen'[u] = seen[u] \/ (seen'[u] = m.step /\ ~m.heartbeat)
  BY <1>1 DEF IInv, TypeOK
<1>9. ~disorder'
  <2>1. seen[u] \in Int /\ m.step \in Int
    BY <1>5 DEF IInv, TypeOK, Steps
  <2>2. ~m.heartbeat => ~(m.step <= seen[u])
    BY <1>7, <2>1
  <2> HIDE DEF m
  <2> QED BY <1>1, <2>2, Zenon DEF OrderInv
<1>10. AheadOfViewers'
  BY <1>1, <1>4, <1>6, <1>8 DEF OrderInv, AheadOfViewers
<1>11. SeenIsStored'
  BY <1>1, <1>4, <1>5, <1>8 DEF OrderInv, SeenIsStored
<1>12. UnreadIsLater'
  <2> SUFFICES ASSUME NEW w \in Subscribers, NEW i \in 1..Len(ring),
                      Len(ring) - behind'[w] < i, ~ring[i].heartbeat
               PROVE  seen'[w] < ring[i].step
    BY <1>1 DEF UnreadIsLater
  <2>1. CASE w # u
    BY <1>4, <2>1 DEF OrderInv, UnreadIsLater
  <2>2. CASE w = u
    <3>1. next < i
      BY <1>3, <1>4, <2>2
    <3>2. m.step < ring[i].step
      BY <1>3, <3>1 DEF OrderInv, RingAscends
    <3>3. Len(ring) - behind[u] < i
      BY <1>2, <1>3, <3>1
    <3>4. seen[u] < ring[i].step
      BY <3>3 DEF OrderInv, UnreadIsLater
    <3> QED BY <1>8, <2>2, <3>2, <3>4
  <2> QED BY <2>1, <2>2
<1>13. RingAscends'
  BY <1>1 DEF OrderInv, RingAscends
<1> QED BY <1>9, <1>10, <1>11, <1>12, <1>13 DEF OrderInv

LEMMA SubscribeKeepsOrder ==
  ASSUME IInv, OrderInv, NEW u \in Subscribers, Subscribe(u) PROVE OrderInv'
<1> USE MetricSinkAssumption
<1>1. UNCHANGED <<stored, pc, last, ring, disorder>>
  BY DEF Subscribe, pollerVars
<1>2. /\ behind'[u] = 0 /\ seen'[u] = -1
      /\ \A w \in Subscribers \ {u} : behind'[w] = behind[w] /\ seen'[w] = seen[w]
  BY DEF Subscribe, IInv, TypeOK
<1>3. /\ Len(ring) \in Nat /\ \A p \in Pollers : last[p] \in Int /\ -1 <= last[p]
      /\ \A i \in 1..Len(ring) : ~(Len(ring) - 0 < i)
  BY SeenTypes DEF IInv, Steps
<1>4. AheadOfViewers'
  BY <1>1, <1>2, <1>3 DEF OrderInv, AheadOfViewers
<1>5. SeenIsStored'
  BY <1>1, <1>2 DEF OrderInv, SeenIsStored
<1>6. UnreadIsLater'
  BY <1>1, <1>2, <1>3 DEF OrderInv, UnreadIsLater
<1> QED BY <1>1, <1>4, <1>5, <1>6 DEF OrderInv, RingAscends

LEMMA CrashKeepsOrder ==
  ASSUME OrderInv, Crash PROVE OrderInv'
BY DEF Crash, OrderInv, AheadOfViewers, SeenIsStored, RingAscends, UnreadIsLater

\* Viewers of a run with a single poller see every step at most once and in order,
\* across lag, retracking, crashes and any number of reconnections, provided that
\* the task that starts can read the last stored step (get_last_step).
THEOREM ViewersInOrder ==
  ASSUME OnePoller
  PROVE  Spec => []ViewersSeeStepsOnce
<1>1. IInv /\ OrderInv /\ [Next]_vars => OrderInv'
  <2> SUFFICES ASSUME IInv, OrderInv, [Next]_vars PROVE OrderInv'
    OBVIOUS
  <2>1. ASSUME UNCHANGED <<stored, last, ring, behind, seen, disorder>>,
               \A p \in Pollers : pc'[p] # "off" => pc[p] # "off"
        PROVE  OrderInv'
    BY <2>1 DEF OrderInv, AheadOfViewers, SeenIsStored, RingAscends, UnreadIsLater
  <2>2. CASE TinkerReports \/ UNCHANGED vars
    BY <2>1, <2>2 DEF TinkerReports, vars, pollerVars, channelVars
  <2>3. ASSUME NEW p \in Pollers, Poll(p) \/ CommitFails(p) \/ Stop(p) PROVE OrderInv'
    <3>1. \A q \in Pollers : pc'[q] # "off" => pc[q] # "off"
      BY <2>3 DEF Poll, CommitFails, Stop, IInv, TypeOK
    <3> QED BY <2>1, <2>3, <3>1 DEF Poll, CommitFails, Stop, channelVars
  <2>4. ASSUME NEW p \in Pollers, Start(p) \/ Commit(p) \/ Publish(p) PROVE OrderInv'
    BY <2>4, OnePoller, StartKeepsOrder, CommitKeepsOrder, PublishKeepsOrder
  <2>5. ASSUME NEW u \in Subscribers, Receive(u) \/ Subscribe(u) PROVE OrderInv'
    BY <2>5, ReceiveKeepsOrder, SubscribeKeepsOrder
  <2>6. CASE Crash
    BY <2>6, CrashKeepsOrder
  <2> QED BY <2>2, <2>3, <2>4, <2>5, <2>6 DEF Next
<1>2. OrderInv => ViewersSeeStepsOnce
  BY DEF OrderInv, ViewersSeeStepsOnce
<1> QED BY <1>1, <1>2, InitiallyOrder, IInvAlways, PTL DEF Spec

=============================================================================
