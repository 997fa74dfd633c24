----------------------------- MODULE MetricSink -----------------------------
(****************************************************************************)
(* What becomes of the payloads the pollers of ONE run fetch: apply_update  *)
(* (supervisor/src/supervisor.rs) stores cost and metrics in a transaction, *)
(* then publishes them to the run's broadcast channel (ws.rs), from which   *)
(* WebSocket pumps read.  Tracker shows that a run may have several pollers *)
(* at a time; each keeps a last_step of its own.                            *)
(*                                                                          *)
(* One metric name stands for all: they are written and published together. *)
(* The version of a payload stands for its metric value and its gpu_seconds.*)
(****************************************************************************)
EXTENDS Integers, Sequences

CONSTANTS
  Pollers,      \* tasks that poll the run
  Subscribers,  \* WebSocket pumps on the run's channel
  NoValue,      \* no metric stored at a step
  NoStep,       \* a payload without a step
  MayFailLoad,  \* those whose reading of the last stored step may fail
  Rate,         \* COST_H100_PER_HOUR
  Cap,          \* RUN_CHAN_CAP
  MaxStep,      \* bound: steps of the job
  MaxVersion    \* bound: payloads Tinker reports

ASSUME MetricSinkAssumption ==
  /\ MaxStep \in Nat /\ MaxVersion \in Nat /\ Cap \in Nat \ {0}
  /\ Rate \in Nat \ {0}
  /\ NoValue \notin Nat /\ NoStep \notin Int
  /\ MayFailLoad \subseteq Pollers

VARIABLES
  payload,   \* what Tinker would answer now
  reported,  \* highest step Tinker has reported
  omitted,   \* history: Tinker has reported without a step
  stored,    \* run_metrics of the run: step -> value
  gpu, cost, \* runs.gpu_seconds and runs.cost_usd
  pc,        \* per poller: "off", "idle", "polled", "committed"
  last,      \* per poller: last_step
  held,      \* per poller: the payload in hand
  ring,      \* the channel's retained messages, oldest first
  behind,    \* per subscriber: messages not received yet; Cap+1: lagged
  seen,      \* per subscriber: step of the newest metric received, -1: none
  disorder   \* history: a subscriber received a step at or below one it had

pollerVars == <<pc, last, held>>
channelVars == <<ring, behind, seen, disorder>>
vars == <<payload, reported, omitted, stored, gpu, cost, pollerVars, channelVars>>

Steps == 0..MaxStep
Payload == [version : 0..MaxVersion, step : Steps \cup {NoStep}, metrics : BOOLEAN]
Message == [step : Steps \cup {-1}, heartbeat : BOOLEAN]

TypeOK ==
  /\ payload \in Payload
  /\ reported \in Steps
  /\ omitted \in BOOLEAN
  /\ stored \in [Steps -> (0..MaxVersion) \cup {NoValue}]
  /\ gpu \in 0..MaxVersion
  /\ cost \in Nat
  /\ pc \in [Pollers -> {"off", "idle", "polled", "committed"}]
  /\ last \in [Pollers -> Steps \cup {-1}]
  /\ held \in [Pollers -> Payload]
  /\ ring \in Seq(Message) /\ Len(ring) <= Cap
  /\ behind \in [Subscribers -> 0..(Cap + 1)]
  /\ seen \in [Subscribers -> Steps \cup {-1}]
  /\ disorder \in BOOLEAN

Blank == [version |-> 0, step |-> 0, metrics |-> FALSE]

Init ==
  /\ payload = Blank
  /\ reported = 0
  /\ omitted = FALSE
  /\ stored = [s \in Steps |-> NoValue]
  /\ gpu = 0
  /\ cost = 0
  /\ pc = [p \in Pollers |-> "off"]
  /\ last = [p \in Pollers |-> -1]
  /\ held = [p \in Pollers |-> Blank]
  /\ ring = <<>>
  /\ behind = [u \in Subscribers |-> 0]
  /\ seen = [u \in Subscribers |-> -1]
  /\ disorder = FALSE

-----------------------------------------------------------------------------
(* Tinker: gpu_seconds grow, steps never go back, a step's value may be      *)
(* corrected, and step and metrics are both optional.                        *)

TinkerReports ==
  /\ payload.version < MaxVersion
  /\ \E s \in reported..MaxStep, m \in BOOLEAN, omit \in BOOLEAN :
       /\ payload' = [version |-> payload.version + 1,
                      step |-> IF omit THEN NoStep ELSE s, metrics |-> m]
       /\ reported' = IF omit THEN reported ELSE s
       /\ omitted' = (omitted \/ omit)
  /\ UNCHANGED <<stored, gpu, cost, pollerVars, channelVars>>

-----------------------------------------------------------------------------
(* A poller                                                                  *)

\* SELECT COALESCE(MAX(step), -1).
IsLastStored(step) ==
  /\ step # -1 => stored[step] # NoValue
  /\ \A s \in Steps : stored[s] # NoValue => s <= step

StartAtMinusOne(p) ==
  /\ pc[p] = "off"
  /\ last' = [last EXCEPT ![p] = -1]
  /\ pc' = [pc EXCEPT ![p] = "idle"]
  /\ UNCHANGED <<payload, reported, omitted, stored, gpu, cost, held, channelVars>>

\* The head of run(): get_last_step, or -1 if that fails.
Start(p) ==
  /\ pc[p] = "off"
  /\ \E step \in Steps \cup {-1} :
       /\ IsLastStored(step) \/ (p \in MayFailLoad /\ step = -1)
       /\ last' = [last EXCEPT ![p] = step]
  /\ pc' = [pc EXCEPT ![p] = "idle"]
  /\ UNCHANGED <<payload, reported, omitted, stored, gpu, cost, held, channelVars>>

Poll(p) ==
  /\ pc[p] = "idle"
  /\ held' = [held EXCEPT ![p] = payload]
  /\ pc' = [pc EXCEPT ![p] = "polled"]
  /\ UNCHANGED <<payload, reported, omitted, stored, gpu, cost, last, channelVars>>

CandidateStepCounted(p) == last[p] + 1

CandidateStep(p) == IF held[p].step = NoStep THEN last[p] + 1 ELSE held[p].step

WritesMetrics(p) == held[p].metrics /\ CandidateStep(p) > last[p]

\* TrackRequest.gpu_count: the backend sends only the two ids, so the default.
TrackedGpuCount == 1

CostFor(seconds) == seconds * TrackedGpuCount * Rate

\* The transaction: the run's totals, and the upsert of the metrics.
Commit(p) ==
  /\ pc[p] = "polled"
  /\ CandidateStep(p) <= MaxStep
  /\ gpu' = held[p].version
  /\ cost' = CostFor(held[p].version)
  /\ stored' = IF WritesMetrics(p)
               THEN [stored EXCEPT ![CandidateStep(p)] = held[p].version] ELSE stored
  /\ pc' = [pc EXCEPT ![p] = "committed"]
  /\ UNCHANGED <<payload, reported, omitted, last, held, channelVars>>

CommitFailsUnnoticed(p) ==
  /\ pc[p] = "polled"
  /\ pc' = [pc EXCEPT ![p] = "committed"]
  /\ UNCHANGED <<payload, reported, omitted, stored, gpu, cost, last, held, channelVars>>

\* with_retry gave up: apply_update returns before it publishes anything.
CommitFails(p) ==
  /\ pc[p] = "polled"
  /\ pc' = [pc EXCEPT ![p] = "idle"]
  /\ UNCHANGED <<payload, reported, omitted, stored, gpu, cost, last, held, channelVars>>

SendUnbounded(m) ==
  /\ ring' = Append(ring, m)
  /\ behind' = [u \in Subscribers |-> IF behind[u] <= Cap THEN behind[u] + 1 ELSE behind[u]]
  /\ UNCHANGED <<seen, disorder>>

\* Hub::publish: the channel keeps the newest Cap messages; whoever has not
\* read the oldest one loses it.
Send(m) ==
  /\ ring' = IF Len(ring) < Cap THEN Append(ring, m) ELSE Append(Tail(ring), m)
  /\ behind' = [u \in Subscribers |-> IF behind[u] <= Cap THEN behind[u] + 1 ELSE behind[u]]
  /\ UNCHANGED <<seen, disorder>>

\* After the commit: the metrics, or a heartbeat if the payload has none; a
\* step that is not new is neither stored nor published.
Publish(p) ==
  /\ pc[p] = "committed"
  /\ \/ /\ WritesMetrics(p)
        /\ Send([step |-> CandidateStep(p), heartbeat |-> FALSE])
        /\ last' = [last EXCEPT ![p] = CandidateStep(p)]
     \/ /\ ~held[p].metrics
        /\ Send([step |-> last[p], heartbeat |-> TRUE])
        /\ UNCHANGED last
     \/ /\ held[p].metrics /\ ~WritesMetrics(p)
        /\ UNCHANGED <<channelVars, last>>
  /\ pc' = [pc EXCEPT ![p] = "idle"]
  /\ UNCHANGED <<payload, reported, omitted, stored, gpu, cost, held>>

\* The task ends at its select: untracked, or the job is over.
Stop(p) ==
  /\ pc[p] = "idle"
  /\ pc' = [pc EXCEPT ![p] = "off"]
  /\ UNCHANGED <<payload, reported, omitted, stored, gpu, cost, last, held, channelVars>>

-----------------------------------------------------------------------------
(* The channel's readers, and the process                                    *)

\* pump(): the oldest retained message not received yet.  A lagged receiver is
\* moved to the oldest one still there.
Receive(u) ==
  /\ behind[u] > 0
  /\ LET unread == IF behind[u] <= Len(ring) THEN behind[u] ELSE Len(ring)
         m == ring[Len(ring) - unread + 1]
     IN  /\ behind' = [behind EXCEPT ![u] = unread - 1]
         /\ IF m.heartbeat THEN UNCHANGED <<seen, disorder>>
            ELSE /\ seen' = [seen EXCEPT ![u] = m.step]
                 /\ disorder' = (disorder \/ m.step <= seen[u])
  /\ UNCHANGED <<payload, reported, omitted, stored, gpu, cost, pollerVars, ring>>

\* A new WebSocket starts at the channel's end.
Subscribe(u) ==
  /\ behind' = [behind EXCEPT ![u] = 0]
  /\ seen' = [seen EXCEPT ![u] = -1]
  /\ UNCHANGED <<payload, reported, omitted, stored, gpu, cost, pollerVars, ring, disorder>>

\* Everything but the database is gone; browsers connect anew.
Crash ==
  /\ pc' = [p \in Pollers |-> "off"]
  /\ ring' = <<>>
  /\ behind' = [u \in Subscribers |-> 0]
  /\ seen' = [u \in Subscribers |-> -1]
  /\ UNCHANGED <<payload, reported, omitted, stored, gpu, cost, last, held, disorder>>

Next ==
  \/ TinkerReports
  \/ \E p \in Pollers :
       \/ Start(p) \/ Poll(p) \/ Commit(p) \/ CommitFails(p) \/ Publish(p) \/ Stop(p)
  \/ \E u \in Subscribers : Receive(u) \/ Subscribe(u)
  \/ Crash

Spec == Init /\ [][Next]_vars

-----------------------------------------------------------------------------
(* Properties                                                                *)

\* No viewer is shown a step the database does not have, however many pollers
\* the run has and whenever the process dies: apply_update publishes what it
\* has committed.
PublishedIsStored ==
  \A i \in 1..Len(ring) : ring[i].step # -1 => stored[ring[i].step] # NoValue

\* A poller never believes in a step that was not stored, so skipping the steps
\* up to last_step loses nothing that was not already there.
LastStepIsStored ==
  \A p \in Pollers : pc[p] # "off" /\ last[p] # -1 => stored[last[p]] # NoValue

\* Later steps carry later values: as long as Tinker names its steps, no late, replayed or
\* duplicated commit puts an old value behind a newer one (the upsert on
\* (run_id, step, name)).
StoredFollowsHistory ==
  ~omitted =>
    \A s, t \in Steps :
      s < t /\ stored[s] # NoValue /\ stored[t] # NoValue => stored[s] < stored[t]

\* A viewer of a run with a single poller sees every step at most once and in
\* order, across lag, retracking and restarts of the task (get_last_step and
\* last_step in run()).
ViewersSeeStepsOnce == ~disorder

=============================================================================
