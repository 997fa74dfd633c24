------------------------------ MODULE RunChart ------------------------------
(****************************************************************************)
(* The chart of a run's page: a snapshot of the metrics by HTTP (`seed',    *)
(* app/runs/[id]/page.tsx) and the events of a WebSocket (lib/ws.ts),       *)
(* merged by step.                                                          *)
(*                                                                          *)
(* The server stores a step before it publishes it, publishes in ascending  *)
(* order (one poller: MetricSink), and tells a new connection nothing of    *)
(* what came before.  It waits for no viewer: one that lags loses messages, *)
(* and its page is not told.  Requests and connections fail at any moment.  *)
(****************************************************************************)
EXTENDS Integers, Sequences, FiniteSets, SequencesExt

CONSTANTS
  MaxStep,      \* bound: steps the run reports
  MaxEvents,    \* events useRunStream keeps: 500
  MaxWire       \* messages on their way: in the channel, and sent

ASSUME RunChartAssumption ==
  MaxStep \in Nat \ {0} /\ MaxEvents \in Nat \ {0} /\ MaxWire \in Nat \ {0}

VARIABLES
  last,       \* server: the last step stored
  mounted,    \* the page is there
  seed,       \* cache: the last step of ["run-metrics", id], -1: none
  seedAsk,    \* the request of the metrics under way
  socket,     \* the WebSocket of useRunStream
  wire,       \* messages on it: steps, 0 for a note or a status
  events,     \* what useRunStream keeps of them
  unbroken,   \* history: the socket has been open since before the snapshot
  lagged      \* history: the steps it has lost since it was opened

chartVars == <<last, mounted, seed, seedAsk, socket, wire, events, unbroken, lagged>>

NoSeedAsk == [phase |-> "idle", answer |-> 0]
SeedAsked == [phase |-> "asked", answer |-> 0]

ChartTypeOK ==
  /\ last \in 0..MaxStep
  /\ mounted \in BOOLEAN
  /\ seed \in -1..MaxStep
  /\ seedAsk \in [phase : {"idle", "asked", "answered"}, answer : 0..MaxStep]
  /\ socket \in {"none", "connecting", "open", "closed"}
  /\ Range(wire) \subseteq 0..MaxStep /\ Len(wire) <= MaxWire
  /\ Range(events) \subseteq 0..MaxStep /\ Len(events) <= MaxEvents
  /\ unbroken \in BOOLEAN /\ lagged \subseteq 0..MaxStep

ChartInit ==
  /\ last \in 0..1
  /\ mounted = FALSE
  /\ seed = -1 /\ seedAsk = NoSeedAsk
  /\ socket = "none" /\ wire = <<>> /\ events = <<>>
  /\ unbroken = FALSE /\ lagged = {}

-----------------------------------------------------------------------------
(* The server                                                                *)

\* publish: to whoever is connected.  The channel is bounded, and drops the oldest
\* that is not yet sent; how much is sent is left open.
Publish(event) ==
  \/ socket # "open" /\ UNCHANGED <<wire, lagged>>
  \/ /\ socket = "open" /\ Len(wire) < MaxWire
     /\ wire' = Append(wire, event)
     /\ UNCHANGED lagged
  \/ /\ socket = "open" /\ Len(wire) = MaxWire
     /\ \E k \in 1..MaxWire :
          /\ wire' = Append(RemoveAt(wire, k), event)
          /\ lagged' = lagged \cup {wire[k]}

\* A step is stored, then published.
Report ==
  /\ last < MaxStep
  /\ last' = last + 1
  /\ Publish(last + 1)
  /\ UNCHANGED <<mounted, seed, seedAsk, socket, events, unbroken>>

PublishOther ==
  /\ socket = "open"
  /\ Publish(0)
  /\ UNCHANGED <<last, mounted, seed, seedAsk, socket, events, unbroken>>

AnswerSeed ==
  /\ seedAsk.phase = "asked"
  /\ seedAsk' = [phase |-> "answered", answer |-> last]
  /\ unbroken' = (socket = "open")
  /\ UNCHANGED <<last, mounted, seed, socket, wire, events, lagged>>

-----------------------------------------------------------------------------
(* The snapshot: asked for when the page appears and when the network is     *)
(* back, once at a time                                                      *)

\* A cached snapshot younger than five seconds is not asked for again.
Mount ==
  /\ ~mounted /\ mounted' = TRUE
  /\ \/ seed >= 0 /\ UNCHANGED seedAsk
     \/ seedAsk' = IF seedAsk.phase = "idle" THEN SeedAsked ELSE seedAsk
  /\ socket' = "connecting"
  /\ UNCHANGED <<last, seed, wire, events, unbroken, lagged>>

Online ==
  /\ mounted
  /\ seedAsk.phase = "idle"
  /\ seedAsk' = SeedAsked
  /\ UNCHANGED <<last, mounted, seed, socket, wire, events, unbroken, lagged>>

SeedArrives ==
  /\ seedAsk.phase = "answered"
  /\ seed' = seedAsk.answer /\ seedAsk' = NoSeedAsk
  /\ UNCHANGED <<last, mounted, socket, wire, events, unbroken, lagged>>

\* After one retry.  What was cached stays.
SeedFails ==
  /\ seedAsk.phase # "idle"
  /\ seedAsk' = NoSeedAsk
  /\ unbroken' = FALSE
  /\ UNCHANGED <<last, mounted, seed, socket, wire, events, lagged>>

\* Five minutes without the page.
SeedExpires ==
  /\ ~mounted /\ seedAsk.phase = "idle"
  /\ seed' = -1
  /\ UNCHANGED <<last, mounted, seedAsk, socket, wire, events, unbroken, lagged>>

-----------------------------------------------------------------------------
(* The stream                                                                *)

\* The effect's clean-up, and the state goes with the component.
Unmount ==
  /\ mounted /\ mounted' = FALSE
  /\ socket' = "none" /\ wire' = <<>> /\ events' = <<>>
  /\ unbroken' = FALSE /\ lagged' = {}
  /\ UNCHANGED <<last, seed, seedAsk>>

StreamOnly == UNCHANGED <<last, mounted, seed, seedAsk>>

SocketOpens ==
  /\ socket = "connecting"
  /\ socket' = "open"
  /\ UNCHANGED <<wire, events, unbroken, lagged>> /\ StreamOnly

\* onclose: refused or lost, with what was on its way.
SocketCloses ==
  /\ socket \in {"connecting", "open"}
  /\ socket' = "closed" /\ wire' = <<>>
  /\ unbroken' = FALSE /\ lagged' = {}
  /\ UNCHANGED events /\ StreamOnly

\* After 0.5 s, 1 s, ... at most 15 s.
Reconnect ==
  /\ socket = "closed"
  /\ socket' = "connecting"
  /\ UNCHANGED <<wire, events, unbroken, lagged>> /\ StreamOnly

\* Plausible bugs: only the newest message is kept; all of them are.
KeepNewest(event) == <<event>>
KeepAll(event) == Append(events, event)

Keep(event) == Append(IF Len(events) = MaxEvents THEN Tail(events) ELSE events, event)

Deliver ==
  /\ wire # <<>>
  /\ events' = Keep(Head(wire))
  /\ wire' = Tail(wire)
  /\ UNCHANGED <<socket, unbroken, lagged>> /\ StreamOnly

-----------------------------------------------------------------------------
(* `metrics' of the page                                                     *)

Seeded == [i \in 1..(IF seed = -1 THEN 0 ELSE seed) |-> i]

\* The first of every step stays; 0 is no step.
Distinct(all) ==
  FoldLeft(LAMBDA shown, s : IF s = 0 \/ s \in Range(shown) THEN shown ELSE Append(shown, s),
           <<>>, all)

\* A plausible bug: what is in the snapshot comes twice.
ChartUnmerged == SelectSeq(Seeded \o events, LAMBDA s : s # 0)

Chart == Distinct(Seeded \o events)

-----------------------------------------------------------------------------
ChartNext ==
  \/ Report \/ PublishOther \/ AnswerSeed
  \/ Mount \/ Unmount \/ Online \/ SeedArrives \/ SeedFails \/ SeedExpires
  \/ SocketOpens \/ SocketCloses \/ Reconnect \/ Deliver

ChartSpec == ChartInit /\ [][ChartNext]_chartVars

-----------------------------------------------------------------------------
(* Properties                                                                *)

\* The chart has every step at most once, in ascending order, however snapshot,
\* events, reconnections and the limit of the buffer fall (page.tsx:69-78).
ChartAscends == \A i, j \in DOMAIN Chart : i < j => Chart[i] < Chart[j]

\* Between a snapshot and a stream that was open before it no step is lost but
\* by lagging: of the steps stored, the chart lacks those on their way, those
\* the server's channel has dropped for this viewer since it connected (ws.rs:16-21,
\* 154-156; only the server's log tells), and, with as many later events, those
\* the buffer has pushed out (page.tsx:69-78; ws.ts:35-42).
NothingBetween ==
  unbroken /\ seedAsk.phase = "idle" =>
    \A s \in 1..last :
      \/ s \in Range(Chart) \cup Range(wire)
      \/ s \in lagged
      \/ Len(events) = MaxEvents /\ \A e \in Range(events) : e = 0 \/ e > s
=============================================================================
