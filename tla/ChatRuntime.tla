----------------------------- MODULE ChatRuntime -----------------------------
(****************************************************************************)
(* The chat page's runtime (lib/chat/runtime.ts): one panel at a time shows *)
(* a thread; send() writes the question to IndexedDB, streams the answer    *)
(* (lib/chat/api.ts) and writes it when the stream has ended.  A send goes  *)
(* on when its panel is gone; what it dispatches is then lost.              *)
(*                                                                          *)
(* Next keys a page by the thread in its path, so another thread is another *)
(* panel.  The row of an assistant message stands for the question's too:   *)
(* they are written and deleted together.  A message has at most one tool   *)
(* step.  IndexedDB runs its transactions one at a time.                    *)
(****************************************************************************)
EXTENDS Integers, Sequences, FiniteSets

CONSTANTS
  Threads, Sends, Models,  \* thread ids, calls of send(), model ids
  NoThread, NoSend,
  DefaultModel,            \* of createThread
  MaxChunks,               \* bound: deltas of one response
  MaxSaves,                \* bound: choices of a model not yet stored
  MayFailWrites            \* TRUE: IndexedDB may refuse a write (quota)

ASSUME ChatAssumption ==
  /\ NoThread \notin Threads /\ NoSend \notin Sends
  /\ DefaultModel \in Models /\ MaxChunks \in Nat /\ MaxSaves \in Nat
  /\ MayFailWrites \in BOOLEAN

VARIABLES
  threads,     \* IndexedDB: the threads
  saves,       \* IndexedDB: transactions that will store a choice of model
  rows,        \* IndexedDB: the assistant message of each send
  panel,       \* the mounted panel: its thread, the state it holds
  view,        \* per send: its message in the panel's state
  controller,  \* abortRef.current of the mounted panel
  calls,       \* the calls of send()
  evict        \* a deletion of the shown thread is about to push /chat

vars == <<threads, saves, rows, panel, view, controller, calls, evict>>

Titles == {"new", "named"}
Texts == UNION {[1..n -> 1..MaxChunks] : n \in 0..(2 * MaxChunks)}

\* Before the finally block, in which busy is reset; and after it.
Busying == {"opening", "titling", "posting", "waiting", "stuck"}
Ended == {"done", "stuck", "dead"}
Running == {"opening", "titling", "posting", "waiting", "closing", "putting"}

TypeOK ==
  /\ threads \in [Threads -> [status : {"unborn", "live", "deleted"}, title : Titles, model : Models]]
  /\ saves \in Seq([thread : Threads, model : Models]) /\ Len(saves) <= MaxSaves
  /\ rows \in [Sends -> [state : {"none", "open", "closed"}, text : Texts]]
  /\ panel \in [thread : Threads \cup {NoThread},
                stage : {"index", "reading", "listing", "missing", "loaded"},
                title : Titles, model : Models, busy : BOOLEAN]
  /\ view \in [Sends -> [phase : {"hidden", "streaming", "settled"}, text : Texts,
                         step : {"none", "running", "ended"}]]
  /\ controller \in Sends \cup {NoSend}
  /\ calls \in [Sends -> [pc : {"idle"} \cup Running \cup Ended, thread : Threads \cup {NoThread},
                          model : Models, untitled : BOOLEAN, attached : BOOLEAN,
                          aborted : BOOLEAN, acc : Texts, got : 0..MaxChunks, retried : BOOLEAN]]
  /\ evict \in BOOLEAN

NoRow == [state |-> "none", text |-> <<>>]
Hidden == [phase |-> "hidden", text |-> <<>>, step |-> "none"]
EmptyPanel(t, stage) ==
  [thread |-> t, stage |-> stage, title |-> "new", model |-> DefaultModel,
   busy |-> FALSE]
Unsent == [pc |-> "idle", thread |-> NoThread, model |-> DefaultModel, untitled |-> FALSE,
           attached |-> FALSE, aborted |-> FALSE, acc |-> <<>>, got |-> 0, retried |-> FALSE]

\* A call that is over: what it held is gone, but for what it received.
Over(m, end) ==
  [calls[m] EXCEPT !.pc = end, !.model = DefaultModel, !.untitled = FALSE, !.aborted = FALSE,
                   !.got = 0, !.retried = FALSE]

Init ==
  /\ threads = [t \in Threads |-> [status |-> "unborn", title |-> "new", model |-> DefaultModel]]
  /\ saves = <<>>
  /\ rows = [m \in Sends |-> NoRow]
  /\ panel = EmptyPanel(NoThread, "index")
  /\ view = [m \in Sends |-> Hidden]
  /\ controller = NoSend
  /\ calls = [m \in Sends |-> Unsent]
  /\ evict = FALSE

-----------------------------------------------------------------------------
(* Pages and threads                                                         *)

\* abort() of what abortRef holds: nothing, if that call is past its stream.
Aborts(m) == m = controller /\ calls[m].pc \in {"posting", "waiting"}

\* Unmount: the effect's cleanup aborts; the calls go on without a panel.
Detached ==
  [m \in Sends |-> [calls[m] EXCEPT !.attached = FALSE, !.aborted = @ \/ Aborts(m)]]

Show(t, stage) ==
  /\ panel' = EmptyPanel(t, stage)
  /\ view' = [m \in Sends |-> Hidden]
  /\ controller' = NoSend
  /\ calls' = Detached

Live == {t \in Threads : threads[t].status = "live"}
Created(t) == [threads EXCEPT ![t].status = "live"]

\* A link of the thread list, or a bookmark of a thread that is gone.
OpenThread(t) ==
  /\ threads[t].status # "unborn"
  /\ panel.thread # t
  /\ Show(t, "reading")
  /\ UNCHANGED <<threads, saves, rows, evict>>

NewThread(t) ==
  /\ threads[t].status = "unborn"
  /\ threads' = Created(t)
  /\ Show(t, "reading")
  /\ UNCHANGED <<saves, rows, evict>>

\* The sidebar's link to /chat.
VisitIndex ==
  /\ panel.stage # "index"
  /\ Show(NoThread, "index")
  /\ UNCHANGED <<threads, saves, rows, evict>>

\* /chat: to the most recent thread, or to a new one.
EnsureThread(t) ==
  /\ panel.stage = "index"
  /\ \/ t \in Live /\ UNCHANGED threads
     \/ Live = {} /\ threads[t].status = "unborn" /\ threads' = Created(t)
  /\ Show(t, "reading")
  /\ UNCHANGED <<saves, rows, evict>>

ForgetRows(t) == [m \in Sends |-> IF calls[m].thread = t THEN NoRow ELSE rows[m]]

\* deleteThread, of the list: one transaction.  The router is asked to leave
\* the thread afterwards, if it was the one shown.
DeleteThread(t) ==
  /\ t \in Live
  /\ threads' = [threads EXCEPT ![t].status = "deleted"]
  /\ rows' = ForgetRows(t)
  /\ evict' = (evict \/ panel.thread = t)
  /\ UNCHANGED <<saves, panel, view, controller, calls>>

\* router.push("/chat"), whatever is shown by then.
Evict ==
  /\ evict
  /\ evict' = FALSE
  /\ Show(NoThread, "index")
  /\ UNCHANGED <<threads, saves, rows>>

\* The first read of the effect, of what was to be written before it.
ReadThread ==
  /\ panel.stage = "reading" /\ saves = <<>>
  /\ LET t == threads[panel.thread] IN
     panel' = IF t.status = "live"
              THEN [panel EXCEPT !.stage = "listing", !.title = t.title, !.model = t.model]
              ELSE [panel EXCEPT !.stage = "missing"]
  /\ UNCHANGED <<threads, saves, rows, view, controller, calls, evict>>

Hydrated(m) ==
  IF calls[m].thread # panel.thread \/ rows[m].state = "none" THEN Hidden
  ELSE [phase |-> IF rows[m].state = "open" THEN "streaming" ELSE "settled",
        text |-> rows[m].text, step |-> "none"]

\* The second read of the effect; "hydrate" replaces the thread and messages.
ReadMessages ==
  /\ panel.stage = "listing"
  /\ panel' = [panel EXCEPT !.stage = "loaded"]
  /\ view' = [m \in Sends |-> Hydrated(m)]
  /\ UNCHANGED <<threads, saves, rows, controller, calls, evict>>

\* setModel: the panel's thread; the row is updated by a transaction of its own ...
SetModel(model) ==
  /\ panel.stage = "loaded" /\ Len(saves) < MaxSaves
  /\ panel' = [panel EXCEPT !.model = model]
  /\ saves' = Append(saves, [thread |-> panel.thread, model |-> model])
  /\ UNCHANGED <<threads, rows, view, controller, calls, evict>>

\* ... which comes after those before it, and leaves a missing row alone ...
SaveLands ==
  /\ saves # <<>>
  /\ LET save == Head(saves) IN
     threads' = [threads EXCEPT ![save.thread].model =
                   IF threads[save.thread].status = "live" THEN save.model ELSE @]
  /\ saves' = Tail(saves)
  /\ UNCHANGED <<rows, panel, view, controller, calls, evict>>

\* ... or is refused; setModel() rejects, and nobody handles that.
SaveRefused ==
  /\ MayFailWrites /\ saves # <<>>
  /\ saves' = Tail(saves)
  /\ UNCHANGED <<threads, rows, panel, view, controller, calls, evict>>

-----------------------------------------------------------------------------
(* send()                                                                    *)

\* A plausible bug: the composer does not look.
SendEvenIfBusy == TRUE

\* The composer sends nothing while a send of this panel runs.
MaySend == ~panel.busy

Send(m) ==
  /\ panel.stage = "loaded"
  /\ MaySend
  /\ calls[m].pc = "idle"
  /\ calls' = [calls EXCEPT ![m] =
       [Unsent EXCEPT !.pc = "opening", !.thread = panel.thread, !.model = panel.model,
                      !.untitled = (panel.title = "new"), !.attached = TRUE]]
  /\ view' = [view EXCEPT ![m] = [phase |-> "streaming", text |-> <<>>, step |-> "none"]]
  /\ panel' = [panel EXCEPT !.busy = TRUE]
  /\ UNCHANGED <<threads, saves, rows, controller, evict>>

\* new AbortController(), kept by the panel's abortRef while there is one.
Fetch(m) ==
  /\ calls' = [calls EXCEPT ![m].pc = "posting", ![m].untitled = FALSE]
  /\ controller' = IF calls[m].attached THEN m ELSE controller

\* bulkPut commits.
Opened(m) ==
  /\ calls[m].pc = "opening"
  /\ rows' = [rows EXCEPT ![m] = [state |-> "open", text |-> <<>>]]
  /\ IF calls[m].untitled
     THEN /\ calls' = [calls EXCEPT ![m].pc = "titling"]
          /\ UNCHANGED controller
     ELSE Fetch(m)
  /\ UNCHANGED <<threads, saves, panel, view, evict>>

\* The first message names the thread.
Titled(m) ==
  /\ calls[m].pc = "titling"
  /\ LET t == calls[m].thread IN
     threads' = [threads EXCEPT ![t].title = IF threads[t].status = "live" THEN "named" ELSE @]
  /\ panel' = IF calls[m].attached THEN [panel EXCEPT !.title = "named"] ELSE panel
  /\ Fetch(m)
  /\ UNCHANGED <<saves, rows, view, evict>>

Patched(m, shown) == IF calls[m].attached THEN [view EXCEPT ![m] = shown] ELSE view

Streams(m) == calls[m].pc = "posting" /\ ~calls[m].aborted

\* A plausible bug: the message shows the last chunk only.
DeltaTextOnly(m) ==
  /\ Streams(m)
  /\ calls[m].got < MaxChunks
  /\ calls' = [calls EXCEPT ![m].got = @ + 1, ![m].acc = Append(@, calls[m].got + 1)]
  /\ view' = Patched(m, [view[m] EXCEPT !.text = <<calls[m].got + 1>>])
  /\ UNCHANGED <<threads, saves, rows, panel, controller, evict>>

\* acc += text; the message shows acc.
Delta(m) ==
  /\ Streams(m)
  /\ calls[m].got < MaxChunks
  /\ calls' = [calls EXCEPT ![m].got = @ + 1, ![m].acc = Append(@, calls[m].got + 1)]
  /\ view' = Patched(m, [view[m] EXCEPT !.text = calls'[m].acc])
  /\ UNCHANGED <<threads, saves, rows, panel, controller, evict>>

\* tool_call (upsert) and tool_result (patch, of a step that is there).
ToolEvent(m) ==
  /\ Streams(m)
  /\ \/ view' = Patched(m, [view[m] EXCEPT !.step = "running"])
     \/ view' = Patched(m, [view[m] EXCEPT !.step = IF @ = "none" THEN @ ELSE "ended"])
  /\ UNCHANGED <<threads, saves, rows, panel, controller, calls, evict>>

\* catch and finally, as far as persistAssistant's first await.
Finish(m) ==
  /\ calls' = [calls EXCEPT ![m].pc = "closing", ![m].got = 0, ![m].retried = FALSE]
  /\ view' = Patched(m, [view[m] EXCEPT !.phase = "settled"])
  /\ panel' = IF calls[m].attached THEN [panel EXCEPT !.busy = FALSE] ELSE panel
  /\ UNCHANGED <<threads, saves, rows, controller, evict>>

\* The body ends, or the response is an HTTP error: no retry of either.
StreamEnds(m) == Streams(m) /\ Finish(m)

\* A plausible bug: the retry retries.
DropRetriesAgain(m) ==
  /\ Streams(m)
  /\ Len(calls[m].acc) <= 2 * MaxChunks
  /\ calls' = [calls EXCEPT ![m].pc = "waiting"]
  /\ UNCHANGED <<threads, saves, rows, panel, view, controller, evict>>

\* A network error, before the response or in the middle of its body.
Drop(m) ==
  /\ Streams(m)
  /\ IF calls[m].retried THEN Finish(m)
     ELSE /\ calls' = [calls EXCEPT ![m].pc = "waiting"]
          /\ UNCHANGED <<threads, saves, rows, panel, view, controller, evict>>

\* 600 ms later the message is posted again; acc is kept.
Retry(m) ==
  /\ calls[m].pc = "waiting" /\ ~calls[m].aborted
  /\ calls' = [calls EXCEPT ![m].pc = "posting", ![m].retried = TRUE, ![m].got = 0]
  /\ UNCHANGED <<threads, saves, rows, panel, view, controller, evict>>

\* A plausible bug: the wait does not see the signal.
AbortLandsInFetch(m) ==
  /\ calls[m].pc = "posting" /\ calls[m].aborted
  /\ Finish(m)

\* An aborted fetch, or the fetch that follows the wait, rejects.
AbortLands(m) ==
  /\ calls[m].pc \in {"posting", "waiting"} /\ calls[m].aborted
  /\ Finish(m)

\* The Stop button, shown while busy: abortRef may not be this send's yet.
Cancel ==
  /\ panel.busy
  /\ calls' = [m \in Sends |-> [calls[m] EXCEPT !.aborted = @ \/ Aborts(m)]]
  /\ UNCHANGED <<threads, saves, rows, panel, view, controller, evict>>

\* persistAssistant: get, and nothing more if the row is gone ...
Snapshot(m) ==
  /\ calls[m].pc = "closing"
  /\ calls' = [calls EXCEPT ![m] = IF rows[m].state = "none" THEN Over(m, "done")
                                   ELSE [@ EXCEPT !.pc = "putting"]]
  /\ UNCHANGED <<threads, saves, rows, panel, view, controller, evict>>

\* A plausible bug: the row is put as it was read.
PutSnapshot(m) ==
  /\ calls[m].pc = "putting"
  /\ rows' = [rows EXCEPT ![m] = [state |-> "closed", text |-> <<>>]]
  /\ calls' = [calls EXCEPT ![m] = Over(m, "done")]
  /\ UNCHANGED <<threads, saves, panel, view, controller, evict>>

\* ... and put, in a transaction of its own; tool steps are not in it.
Put(m) ==
  /\ calls[m].pc = "putting"
  /\ rows' = [rows EXCEPT ![m] = [state |-> "closed", text |-> calls[m].acc]]
  /\ calls' = [calls EXCEPT ![m] = Over(m, "done")]
  /\ UNCHANGED <<threads, saves, panel, view, controller, evict>>

\* A write is refused: send() rejects, and nobody handles that.
WriteFails(m) ==
  /\ MayFailWrites
  /\ \/ /\ calls[m].pc \in {"opening", "titling"}
        /\ calls' = [calls EXCEPT ![m] = Over(m, "stuck")]
     \/ /\ calls[m].pc \in {"closing", "putting"}
        /\ calls' = [calls EXCEPT ![m] = Over(m, "done")]
  /\ UNCHANGED <<threads, saves, rows, panel, view, controller, evict>>

\* The tab is reloaded or closed: IndexedDB is all that is left.
Reload ==
  /\ panel' = EmptyPanel(NoThread, "index")
  /\ view' = [m \in Sends |-> Hidden]
  /\ controller' = NoSend
  /\ calls' = [m \in Sends |-> IF calls[m].pc \in Running \cup {"stuck"}
                 THEN [Over(m, "dead") EXCEPT !.attached = FALSE]
                 ELSE [calls[m] EXCEPT !.attached = FALSE]]
  /\ evict' = FALSE
  /\ saves' = <<>>
  /\ UNCHANGED <<threads, rows>>

-----------------------------------------------------------------------------
\* What runs by itself: promises, timers, effects.
BrowserStep(m) ==
  \/ Opened(m) \/ Titled(m) \/ Retry(m) \/ AbortLands(m)
  \/ Snapshot(m) \/ Put(m) \/ WriteFails(m)

ServerStep(m) ==
  Delta(m) \/ ToolEvent(m) \/ StreamEnds(m) \/ Drop(m)

PageStep == ReadThread \/ ReadMessages \/ Evict \/ SaveLands \/ SaveRefused

UserStep ==
  \/ \E t \in Threads : OpenThread(t) \/ NewThread(t) \/ EnsureThread(t) \/ DeleteThread(t)
  \/ \E model \in Models : SetModel(model)
  \/ \E m \in Sends : Send(m)
  \/ VisitIndex \/ Cancel \/ Reload

Next == PageStep \/ UserStep \/ \E m \in Sends : BrowserStep(m) \/ ServerStep(m)

Spec == Init /\ [][Next]_vars

\* The event loop runs what is ready.  Nothing is assumed of the user or of
\* the server: a stream may stay silent for ever.
FairSpec ==
  /\ Spec
  /\ WF_vars(PageStep)
  /\ \A m \in Sends : WF_vars(BrowserStep(m))

-----------------------------------------------------------------------------
(* Properties                                                                *)

\* The Stop button and the composer go by `busy': it is set exactly while one
\* send of this panel has not reached its finally block, or was refused a
\* write before it, and there is never a second (runtime.ts:142, 216;
\* composer.tsx:187).
BusyIsAccurate ==
  LET mine == {m \in Sends : calls[m].attached /\ calls[m].pc \in Busying} IN
  /\ Cardinality(mine) <= 1
  /\ panel.busy <=> mine # {}

\* The text the page shows of a finished answer is what IndexedDB keeps of it,
\* through retries, remounts and reloads (runtime.ts:163-219).
ShownTextIsKept ==
  \A m \in Sends :
    view[m].phase = "settled" /\ calls[m].pc = "done" /\ rows[m].state = "closed"
      => view[m].text = rows[m].text

\* What the page shows of a finished answer, its tool step with its text, is what
\* it will show when it has read it back: "tool steps are mirrored via dispatches.
\* Persist a snapshot." (runtime.ts:164-165).
ShownIsKept ==
  \A m \in Sends :
    view[m].phase = "settled" /\ calls[m].pc = "done" /\ rows[m].state = "closed"
      => view[m] = Hydrated(m)

\* A send that was aborted, by Stop or by leaving the page, gets to its end:
\* the answer is stored as far as it came (runtime.ts:102, 209-219).
AbortedEnds == \A m \in Sends : calls[m].aborted ~> calls[m].pc \in Ended

\* The promise of ChatAnswers.
AnswerState(m) ==
  IF calls[m].pc \in {"idle", "opening"} THEN "unasked"
  ELSE CASE rows[m].state = "none" -> "gone"
         [] rows[m].state = "open" -> "asked"
         [] OTHER -> "answered"

Answers == INSTANCE ChatAnswers WITH
  Questions <- Sends, Chunks <- 1..MaxChunks,
  state <- [m \in Sends |-> AnswerState(m)],
  heard <- [m \in Sends |-> calls[m].acc],
  kept <- [m \in Sends |-> rows[m].text]

\* An answer is stored once, with everything that was received, and never
\* changes again; only the deletion of its thread removes it.
AnswersAreKept == Answers!Spec
=============================================================================
