------------------------------ MODULE ChatProofs ------------------------------
(****************************************************************************)
(* Theorems about ChatRuntime: its types, that one send at a time makes a   *)
(* panel busy, that the text a panel shows of a finished answer is what is  *)
(* stored, and that the runtime implements ChatAnswers; and about ChatPanel *)
(* around it: that a choice of model holds, that nothing is sent without a  *)
(* key while the choice is what is shown, and that the panel, too, keeps to *)
(* ChatAnswers.                                                             *)
(*                                                                          *)
(* Those of the runtime follow from one inductive invariant.  Its parts say *)
(* how long an answer can be at each stage of its call (Received), what the *)
(* row of a call holds at each stage (Stored), what a panel has of a call's *)
(* text (Seen), and that a panel's calls hold it busy one after the other.  *)
(* A step of the panel is one of the runtime's or one of other writers of   *)
(* the rows (Underneath); PanelInv adds the panel's own state.              *)
(****************************************************************************)
EXTENDS ChatPanel, FiniteSetTheorems, SequenceTheorems, TLAPS

\* acc grows by at most MaxChunks deltas in each of two attempts.
Received(m) ==
  /\ calls[m].pc \in {"idle", "opening", "titling"} =>
       calls[m].acc = <<>> /\ calls[m].got = 0 /\ ~calls[m].retried
  /\ calls[m].pc \in {"posting", "waiting"} =>
       Len(calls[m].acc) <= calls[m].got + (IF calls[m].retried THEN MaxChunks ELSE 0)
  /\ calls[m].pc = "waiting" => ~calls[m].retried

\* A row is closed by the last step of its call, with all that was received.
Stored(m) ==
  /\ calls[m].pc \in {"idle", "opening"} => rows[m] = NoRow
  /\ rows[m].state # "closed" => rows[m].text = <<>>
  /\ rows[m].state = "closed" => calls[m].pc = "done" /\ rows[m].text = calls[m].acc

\* A panel follows its own calls; of others it has what was stored when it
\* read the messages.
Seen(m) ==
  /\ calls[m].attached => panel.stage = "loaded" /\ view[m].text = calls[m].acc
  /\ ~calls[m].attached /\ view[m].phase = "settled" =>
       calls[m].pc = "done" /\ view[m].text = calls[m].acc

Mine == {m \in Sends : calls[m].attached /\ calls[m].pc \in Busying}

OneBusy ==
  /\ \A m, n \in Mine : m = n
  /\ panel.busy <=> Mine # {}

OnThread == panel.stage # "index" => panel.thread \in Threads

IInv ==
  /\ TypeOK
  /\ OnThread
  /\ \A m \in Sends : Received(m) /\ Stored(m) /\ Seen(m)
  /\ OneBusy

\* Texts are the short sequences of deltas.
LEMMA TextsAreShort ==
  /\ <<>> \in Texts
  /\ \A s \in Texts : s \in Seq(1..MaxChunks) /\ Len(s) <= 2 * MaxChunks
  /\ \A s \in Texts, c \in 1..MaxChunks :
       Len(s) < 2 * MaxChunks => Append(s, c) \in Texts
<1> USE ChatAssumption
<1>1. <<>> \in Texts
  <2>1. <<>> \in [1..0 -> 1..MaxChunks] /\ 0 \in 0..(2 * MaxChunks)
    OBVIOUS
  <2> QED BY <2>1, Zenon DEF Texts
<1>2. ASSUME NEW s \in Texts PROVE s \in Seq(1..MaxChunks) /\ Len(s) <= 2 * MaxChunks
  <2>1. PICK n \in 0..(2 * MaxChunks) : s \in [1..n -> 1..MaxChunks]
    BY DEF Texts
  <2> DEFINE e == [i \in 1..n |-> s[i]]
  <2>2. s = e /\ \A i \in 1..n : s[i] \in 1..MaxChunks
    BY <2>1
  <2>3. e \in Seq(1..MaxChunks) /\ Len(e) = n
    BY <2>1, <2>2
  <2> HIDE DEF e
  <2>4. s \in Seq(1..MaxChunks) /\ Len(s) = n
    BY <2>2, <2>3, Zenon
  <2> QED BY <2>1, <2>4
<1>3. ASSUME NEW s \in Texts, NEW c \in 1..MaxChunks, Len(s) < 2 * MaxChunks
      PROVE Append(s, c) \in Texts
  <2>1. s \in Seq(1..MaxChunks)
    BY <1>2
  <2>2. Append(s, c) \in [1..(Len(s) + 1) -> 1..MaxChunks]
    BY <2>1, AppendProperties, LenProperties
  <2>3. Len(s) + 1 \in 0..(2 * MaxChunks)
    BY <1>3, <2>1
  <2> QED BY <2>2, <2>3, Zenon DEF Texts
<1> QED BY <1>1, <1>2, <1>3

LEMMA EmptyText == <<>> \in Texts
BY TextsAreShort

\* The kinds of record TypeOK speaks of.
ThreadRecord == [status : {"unborn", "live", "deleted"}, title : Titles, model : Models]
SaveRecord == [thread : Threads, model : Models]
RowRecord == [state : {"none", "open", "closed"}, text : Texts]
PanelRecord ==
  [thread : Threads \cup {NoThread}, stage : {"index", "reading", "listing", "missing", "loaded"},
   title : Titles, model : Models, busy : BOOLEAN]
ViewRecord ==
  [phase : {"hidden", "streaming", "settled"}, text : Texts, step : {"none", "running", "ended"}]
CallRecord ==
  [pc : {"idle"} \cup Running \cup Ended, thread : Threads \cup {NoThread},
   model : Models, untitled : BOOLEAN, attached : BOOLEAN,
   aborted : BOOLEAN, acc : Texts, got : 0..MaxChunks, retried : BOOLEAN]

WellTyped ==
  /\ threads \in [Threads -> ThreadRecord]
  /\ saves \in Seq(SaveRecord) /\ Len(saves) <= MaxSaves
  /\ rows \in [Sends -> RowRecord]
  /\ panel \in PanelRecord
  /\ view \in [Sends -> ViewRecord]
  /\ controller \in Sends \cup {NoSend}
  /\ calls \in [Sends -> CallRecord]
  /\ evict \in BOOLEAN

LEMMA Types == (TypeOK <=> WellTyped) /\ (TypeOK' <=> WellTyped')
BY Zenon DEF WellTyped, TypeOK, ThreadRecord, SaveRecord, RowRecord, PanelRecord, ViewRecord, CallRecord

\* A thread's title and its model, changed while the thread is there.
LEMMA ThreadTitles ==
  ASSUME threads \in [Threads -> ThreadRecord], NEW t, NEW title \in Titles
  PROVE  [threads EXCEPT ![t].title = IF threads[t].status = "live" THEN title ELSE @]
           \in [Threads -> ThreadRecord]
<1>1. ASSUME NEW r \in ThreadRecord
      PROVE  [r EXCEPT !.title = IF r.status = "live" THEN title ELSE @] \in ThreadRecord
  BY DEF ThreadRecord
<1>2. \A r \in ThreadRecord : [threads EXCEPT ![t] = r] \in [Threads -> ThreadRecord]
  OBVIOUS
<1>3. CASE t \in Threads
  BY <1>1, <1>2, <1>3
<1>4. CASE t \notin Threads
  <2>1. \A r : [threads EXCEPT ![t] = r] = threads
    BY <1>4
  <2> QED BY <2>1
<1> QED BY <1>3, <1>4

LEMMA ThreadModels ==
  ASSUME threads \in [Threads -> ThreadRecord], NEW t, NEW model \in Models
  PROVE  [threads EXCEPT ![t].model = IF threads[t].status = "live" THEN model ELSE @]
           \in [Threads -> ThreadRecord]
<1>1. ASSUME NEW r \in ThreadRecord
      PROVE  [r EXCEPT !.model = IF r.status = "live" THEN model ELSE @] \in ThreadRecord
  BY DEF ThreadRecord
<1>2. \A r \in ThreadRecord : [threads EXCEPT ![t] = r] \in [Threads -> ThreadRecord]
  OBVIOUS
<1>3. CASE t \in Threads
  BY <1>1, <1>2, <1>3
<1>4. CASE t \notin Threads
  <2>1. \A r : [threads EXCEPT ![t] = r] = threads
    BY <1>4
  <2> QED BY <2>1
<1> QED BY <1>3, <1>4

\* The choices to be stored, but for the first.
LEMMA RestOfSaves ==
  ASSUME saves \in Seq(SaveRecord), saves # <<>>
  PROVE  /\ Head(saves) = saves[1] /\ Head(saves) \in SaveRecord
         /\ Tail(saves) \in Seq(SaveRecord) /\ Len(saves) \in Nat \ {0}
         /\ Len(Tail(saves)) = Len(saves) - 1
         /\ \A i \in 1..Len(Tail(saves)) : Tail(saves)[i] = saves[i + 1]
<1>1. Len(saves) \in Nat \ {0}
  BY EmptySeq, LenProperties
<1> QED BY <1>1, HeadTailProperties, ElementOfSeq

\* A panel that goes leaves its calls where they are.
LEMMA DetachedIs ==
  ASSUME calls \in [Sends -> CallRecord], NEW m \in Sends
  PROVE  /\ Detached[m].pc = calls[m].pc /\ Detached[m].acc = calls[m].acc
         /\ Detached[m].got = calls[m].got /\ Detached[m].retried = calls[m].retried
         /\ ~Detached[m].attached
<1> DEFINE b == calls[m].aborted \/ Aborts(m)
           c == calls[m]
<1>1. Detached[m] = [c EXCEPT !.attached = FALSE, !.aborted = b]
  BY DEF Detached
<1>2. c \in CallRecord
  OBVIOUS
<1> HIDE DEF b, c
<1>3. LET d == [c EXCEPT !.attached = FALSE, !.aborted = b]
      IN  d.pc = c.pc /\ d.acc = c.acc /\ d.got = c.got /\ d.retried = c.retried /\ ~d.attached
  BY <1>2 DEF CallRecord
<1> QED BY <1>1, <1>3 DEF c

LEMMA Constants ==
  /\ NoRow \in RowRecord /\ Hidden \in ViewRecord /\ Unsent \in CallRecord
  /\ \A t \in Threads \cup {NoThread}, stage \in {"index", "reading"} :
       EmptyPanel(t, stage) \in PanelRecord
BY EmptyText, ChatAssumption
   DEF NoRow, Hidden, Unsent, EmptyPanel, RowRecord, ViewRecord, CallRecord, PanelRecord, Titles, Running, Ended

\* A page that is left or shown, whatever it was.
LEMMA ShowTypes ==
  ASSUME TypeOK, NEW t \in Threads \cup {NoThread}, NEW stage \in {"index", "reading"}, Show(t, stage)
  PROVE  /\ panel' \in PanelRecord /\ view' \in [Sends -> ViewRecord]
         /\ controller' \in Sends \cup {NoSend} /\ calls' \in [Sends -> CallRecord]
<1>1. calls \in [Sends -> CallRecord]
  BY Types DEF WellTyped
<1>2. ASSUME NEW m \in Sends
      PROVE [calls[m] EXCEPT !.attached = FALSE, !.aborted = @ \/ Aborts(m)] \in CallRecord
  <2> DEFINE b == calls[m].aborted \/ Aborts(m)
  <2>1. b \in BOOLEAN
    BY Zenon DEF Aborts
  <2> HIDE DEF b
  <2>2. [calls[m] EXCEPT !.attached = FALSE, !.aborted = b] \in CallRecord
    BY <1>1, <2>1, ZenonT(60) DEF CallRecord
  <2> QED BY <2>2 DEF b
<1>3. calls' \in [Sends -> CallRecord]
  BY <1>2 DEF Show, Detached
<1> QED BY <1>3, Constants DEF Show

LEMMA OverType ==
  ASSUME TypeOK, NEW m \in Sends, NEW end \in Ended
  PROVE  Over(m, end) \in CallRecord
<1>1. calls[m] \in CallRecord
  BY Types DEF WellTyped
<1>2. 0 \in 0..MaxChunks /\ end \in {"idle"} \cup Running \cup Ended /\ DefaultModel \in Models
  BY ChatAssumption
<1>3. \A c \in CallRecord :
        [c EXCEPT !.pc = end, !.model = DefaultModel, !.untitled = FALSE, !.aborted = FALSE,
                  !.got = 0, !.retried = FALSE] \in CallRecord
  BY <1>2, ZenonT(60) DEF CallRecord
<1> HIDE DEF CallRecord
<1> QED BY <1>1, <1>3, Zenon DEF Over

\* Every step keeps the types.  TypeOK is not inductive by itself: that an
\* answer stays short follows from Received.
LEMMA PageTypes ==
  ASSUME IInv, PageStep PROVE TypeOK'
<1> USE ChatAssumption, Types DEF WellTyped
<1>0. TypeOK /\ OnThread
  BY DEF IInv
<1>1. CASE ReadThread
  <2> DEFINE t == threads[panel.thread]
  <2>1. t \in ThreadRecord
    BY <1>0, <1>1 DEF ReadThread, OnThread
  <2>2. panel' \in PanelRecord
    <3>1. t.title \in Titles /\ t.model \in Models
      BY <2>1 DEF ThreadRecord
    <3>2. panel' = [panel EXCEPT !.stage = "listing", !.title = t.title, !.model = t.model]
          \/ panel' = [panel EXCEPT !.stage = "missing"]
      BY <1>1 DEF ReadThread
    <3> HIDE DEF t
    <3> QED BY <1>0, <3>1, <3>2, ZenonT(60) DEF PanelRecord
  <2> QED BY <1>0, <1>1, <2>2 DEF ReadThread
<1>2. CASE ReadMessages
  <2>1. panel' \in PanelRecord
    BY <1>0, <1>2 DEF ReadMessages, PanelRecord
  <2>2. ASSUME NEW m \in Sends PROVE Hydrated(m) \in ViewRecord
    <3>1. rows[m].text \in Texts
      BY <1>0 DEF RowRecord
    <3> QED BY <3>1, Constants DEF Hydrated, ViewRecord
  <2>3. view' \in [Sends -> ViewRecord]
    BY <1>2, <2>2 DEF ReadMessages
  <2> QED BY <1>0, <1>2, <2>1, <2>3 DEF ReadMessages
<1>3. CASE Evict
  <2>1. evict' \in BOOLEAN
    BY <1>3 DEF Evict
  <2> QED BY <1>0, <1>3, <2>1, ShowTypes DEF Evict
<1>4. CASE SaveLands \/ SaveRefused
  <2>1. saves # <<>> /\ saves' = Tail(saves)
    BY <1>4 DEF SaveLands, SaveRefused
  <2>2. saves' \in Seq(SaveRecord) /\ Len(saves') <= MaxSaves
    BY <1>0, <2>1, RestOfSaves
  <2>3. threads' \in [Threads -> ThreadRecord]
    <3>1. Head(saves).model \in Models
      BY <1>0, <2>1, RestOfSaves DEF SaveRecord
    <3> QED BY <1>0, <1>4, <3>1, ThreadModels DEF SaveLands, SaveRefused
  <2> QED BY <1>0, <1>4, <2>2, <2>3 DEF SaveLands, SaveRefused
<1> QED BY <1>1, <1>2, <1>3, <1>4 DEF PageStep

LEMMA UserTypes ==
  ASSUME IInv, UserStep PROVE TypeOK'
<1> USE ChatAssumption, Types DEF WellTyped
<1>0. TypeOK /\ OnThread
  BY DEF IInv
<1>1. ASSUME NEW t \in Threads, Created(t) = threads' \/ threads' = threads
      PROVE threads' \in [Threads -> ThreadRecord]
  BY <1>0, <1>1 DEF Created, ThreadRecord
<1>2. ASSUME NEW t \in Threads, OpenThread(t) \/ NewThread(t) \/ EnsureThread(t) PROVE TypeOK'
  <2>1. Show(t, "reading") /\ UNCHANGED <<saves, rows, evict>> /\ (Created(t) = threads' \/ threads' = threads)
    BY <1>2 DEF OpenThread, NewThread, EnsureThread
  <2> QED BY <1>0, <1>1, <2>1, ShowTypes
<1>3. ASSUME NEW t \in Threads, DeleteThread(t) PROVE TypeOK'
  <2>1. threads' \in [Threads -> ThreadRecord]
    BY <1>0, <1>3 DEF DeleteThread, ThreadRecord
  <2>2. rows' \in [Sends -> RowRecord]
    BY <1>0, <1>3, Constants DEF DeleteThread, ForgetRows
  <2>3. evict' \in BOOLEAN
    BY <1>0, <1>3 DEF DeleteThread
  <2> QED BY <1>0, <1>3, <2>1, <2>2, <2>3 DEF DeleteThread
<1>4. ASSUME NEW model \in Models, SetModel(model) PROVE TypeOK'
  <2>1. panel' \in PanelRecord
    BY <1>0, <1>4 DEF SetModel, PanelRecord
  <2>2. saves' \in Seq(SaveRecord) /\ Len(saves') <= MaxSaves
    <3> DEFINE save == [thread |-> panel.thread, model |-> model]
    <3>1. save \in SaveRecord /\ saves' = Append(saves, save) /\ Len(saves) < MaxSaves
      BY <1>0, <1>4 DEF SetModel, OnThread, SaveRecord
    <3> HIDE DEF save
    <3> QED BY <1>0, <3>1, AppendProperties, LenProperties
  <2> QED BY <1>0, <1>4, <2>1, <2>2 DEF SetModel
<1>5. ASSUME NEW m \in Sends, Send(m) PROVE TypeOK'
  <2>1. panel' \in PanelRecord
    BY <1>0, <1>5 DEF Send, PanelRecord
  <2>2. view' \in [Sends -> ViewRecord]
    BY <1>0, <1>5, EmptyText DEF Send, ViewRecord
  <2>3. panel.thread \in Threads \cup {NoThread} /\ panel.model \in Models /\ (panel.title = "new") \in BOOLEAN
    BY <1>0 DEF PanelRecord
  <2>4. calls' \in [Sends -> CallRecord]
    <3> DEFINE u == (panel.title = "new")
    <3> DEFINE c == [Unsent EXCEPT !.pc = "opening", !.thread = panel.thread, !.model = panel.model,
                       !.untitled = u, !.attached = TRUE]
    <3>1. calls' = [calls EXCEPT ![m] = c]
      BY <1>5 DEF Send
    <3> HIDE DEF u
    <3>2. u \in BOOLEAN
      BY <2>3 DEF u
    <3>3. c \in CallRecord
      BY <2>3, <3>2, Constants DEF CallRecord, Running
    <3> HIDE DEF c
    <3> QED BY <1>0, <3>1, <3>3
  <2> QED BY <1>0, <1>5, <2>1, <2>2, <2>4 DEF Send
<1>6. CASE VisitIndex
  BY <1>0, <1>6, ShowTypes DEF VisitIndex
<1>7. CASE Cancel
  <2>1. ASSUME NEW m \in Sends PROVE [calls[m] EXCEPT !.aborted = @ \/ Aborts(m)] \in CallRecord
    <3> DEFINE b == calls[m].aborted \/ Aborts(m)
    <3>1. b \in BOOLEAN
      OBVIOUS
    <3> HIDE DEF b
    <3>2. calls[m] \in CallRecord
      BY <1>0
    <3>3. [calls[m] EXCEPT !.aborted = b] \in CallRecord
      BY <3>1, <3>2, ZenonT(60) DEF CallRecord
    <3> QED BY <3>3 DEF b
  <2>2. calls' \in [Sends -> CallRecord]
    BY <1>7, <2>1 DEF Cancel
  <2> QED BY <1>0, <1>7, <2>2 DEF Cancel
<1>8. CASE Reload
  <2>1. ASSUME NEW m \in Sends
        PROVE [Over(m, "dead") EXCEPT !.attached = FALSE] \in CallRecord
              /\ [calls[m] EXCEPT !.attached = FALSE] \in CallRecord
    <3>1. Over(m, "dead") \in CallRecord /\ calls[m] \in CallRecord
      BY <1>0, OverType DEF Ended
    <3>2. \A c \in CallRecord : [c EXCEPT !.attached = FALSE] \in CallRecord
      BY DEF CallRecord
    <3> QED BY <3>1, <3>2
  <2>2. calls' \in [Sends -> CallRecord]
    BY <1>8, <2>1 DEF Reload
  <2>3. view' \in [Sends -> ViewRecord] /\ panel' \in PanelRecord
    BY <1>8, Constants DEF Reload
  <2>4. evict' \in BOOLEAN /\ saves' = <<>>
    BY <1>8 DEF Reload
  <2>5. saves' \in Seq(SaveRecord) /\ Len(saves') <= MaxSaves
    BY <2>4, EmptySeq, ChatAssumption
  <2> QED BY <1>0, <1>8, <2>2, <2>3, <2>4, <2>5 DEF Reload
<1> QED BY <1>2, <1>3, <1>4, <1>5, <1>6, <1>7, <1>8 DEF UserStep

LEMMA CallUpdates ==
  ASSUME NEW c \in CallRecord, NEW end \in {"idle"} \cup Running \cup Ended,
         NEW text \in Texts, NEW n \in 0..MaxChunks, NEW b \in BOOLEAN
  PROVE  /\ [c EXCEPT !.pc = end] \in CallRecord
         /\ [c EXCEPT !.pc = end, !.untitled = b] \in CallRecord
         /\ [c EXCEPT !.pc = end, !.got = n, !.retried = b] \in CallRecord
         /\ [c EXCEPT !.got = n, !.acc = text] \in CallRecord
         /\ [c EXCEPT !.got = n, !.acc = text].acc = text
BY ZenonT(60) DEF CallRecord

\* Of one call's steps: records that replace its entry, its message, its panel.
LEMMA CallTypes ==
  ASSUME IInv, NEW m \in Sends, BrowserStep(m) \/ ServerStep(m) PROVE TypeOK'
<1> USE ChatAssumption, Types DEF WellTyped
<1>0. TypeOK /\ Received(m)
  BY DEF IInv
<1>a. calls[m] \in CallRecord /\ view[m] \in ViewRecord /\ rows[m] \in RowRecord
  BY <1>0
<1>b. \A end \in Ended : Over(m, end) \in CallRecord
  BY <1>0, OverType
<1>c. \A c \in CallRecord : [calls EXCEPT ![m] = c] \in [Sends -> CallRecord]
  BY <1>0
<1>d. \A v \in ViewRecord : Patched(m, v) \in [Sends -> ViewRecord]
  BY <1>0 DEF Patched
<1>e. 0 \in 0..MaxChunks /\ <<>> \in Texts
  BY EmptyText
<1>1. ASSUME Fetch(m)
      PROVE calls' \in [Sends -> CallRecord] /\ controller' \in Sends \cup {NoSend}
  <2>1. [calls[m] EXCEPT !.pc = "posting", !.untitled = FALSE] \in CallRecord
    BY <1>a, <1>e, CallUpdates DEF Running
  <2>2. calls' = [calls EXCEPT ![m] = [calls[m] EXCEPT !.pc = "posting", !.untitled = FALSE]]
    BY <1>1 DEF Fetch
  <2>3. calls' \in [Sends -> CallRecord]
    BY <1>c, <2>1, <2>2
  <2>4. controller' \in Sends \cup {NoSend}
    BY <1>0, <1>1 DEF Fetch
  <2> QED BY <2>3, <2>4, SMTT(60)
<1>2. ASSUME Finish(m) PROVE TypeOK'
  <2>1. calls' \in [Sends -> CallRecord]
    <3>1. [calls[m] EXCEPT !.pc = "closing", !.got = 0, !.retried = FALSE] \in CallRecord
      BY <1>a, <1>e, CallUpdates DEF Running
    <3>2. calls' = [calls EXCEPT ![m] = [calls[m] EXCEPT !.pc = "closing", !.got = 0, !.retried = FALSE]]
      BY <1>2 DEF Finish
    <3> QED BY <3>1, <3>2, <1>c, SMTT(60)
  <2>2. view' \in [Sends -> ViewRecord]
    <3>1. [view[m] EXCEPT !.phase = "settled"] \in ViewRecord
      BY <1>a DEF ViewRecord
    <3> QED BY <1>2, <3>1, <1>d DEF Finish
  <2>3. panel' \in PanelRecord
    BY <1>0, <1>2 DEF Finish, PanelRecord
  <2> QED BY <1>0, <1>2, <2>1, <2>2, <2>3, SMTT(60) DEF Finish
<1>3. CASE Opened(m)
  <2>1. rows' \in [Sends -> RowRecord]
    BY <1>0, <1>3, EmptyText DEF Opened, RowRecord
  <2>2. calls' \in [Sends -> CallRecord] /\ controller' \in Sends \cup {NoSend}
    <3>1. [calls[m] EXCEPT !.pc = "titling"] \in CallRecord
      BY <1>a DEF CallRecord, Running
    <3> QED BY <1>0, <1>3, <3>1, <1>1, <1>c DEF Opened
  <2> QED BY <1>0, <1>3, <2>1, <2>2 DEF Opened
<1>4. CASE Titled(m)
  <2>1. threads' \in [Threads -> ThreadRecord]
    BY <1>0, <1>4, ThreadTitles DEF Titled, Titles
  <2>2. panel' \in PanelRecord
    BY <1>0, <1>4 DEF Titled, PanelRecord, Titles
  <2> QED BY <1>0, <1>1, <1>4, <2>1, <2>2 DEF Titled
<1>5. CASE Delta(m)
  <2> DEFINE n == calls[m].got + 1
             text == Append(calls[m].acc, n)
             c == [calls[m] EXCEPT !.got = n, !.acc = text]
  <2>1. calls' = [calls EXCEPT ![m] = c]
    BY <1>5 DEF Delta
  <2>2. calls[m].acc \in Texts /\ calls[m].got \in 0..MaxChunks
    BY <1>a DEF CallRecord
  <2>3. n \in 1..MaxChunks
    BY <1>5, <2>2 DEF Delta
  <2>4. Len(calls[m].acc) <= calls[m].got + MaxChunks /\ Len(calls[m].acc) \in Nat
    BY <1>0, <1>5, <2>2, TextsAreShort, SMTT(60) DEF Delta, Streams, Received
  <2>5. text \in Texts
    BY <2>2, <2>3, <2>4, TextsAreShort, SMTT(60)
  <2> HIDE DEF n, text
  <2>6. c \in CallRecord /\ c.acc = text
    <3>1. n \in 0..MaxChunks
      BY <2>3
    <3> QED BY <1>a, <1>e, <2>5, <3>1, CallUpdates
  <2> HIDE DEF c
  <2>7. calls' \in [Sends -> CallRecord] /\ calls'[m].acc = text
    BY <1>0, <1>c, <2>1, <2>6
  <2>8. [view[m] EXCEPT !.text = calls'[m].acc] \in ViewRecord
    BY <1>a, <2>5, <2>7 DEF ViewRecord
  <2> QED BY <1>0, <1>5, <1>d, <2>7, <2>8 DEF Delta
<1>6. CASE ToolEvent(m)
  <2>1. /\ [view[m] EXCEPT !.step = "running"] \in ViewRecord
        /\ [view[m] EXCEPT !.step = IF @ = "none" THEN @ ELSE "ended"] \in ViewRecord
    BY <1>a DEF ViewRecord
  <2> QED BY <1>0, <1>6, <1>d, <2>1, SMTT(60) DEF ToolEvent
<1>7. CASE Drop(m)
  <2>1. [calls[m] EXCEPT !.pc = "waiting"] \in CallRecord
    BY <1>a DEF CallRecord, Running
  <2> QED BY <1>0, <1>7, <1>2, <1>c, <2>1 DEF Drop
<1>8. CASE Retry(m)
  <2>1. [calls[m] EXCEPT !.pc = "posting", !.got = 0, !.retried = TRUE] \in CallRecord
    BY <1>a, <1>e, CallUpdates DEF Running
  <2>2. calls' = [calls EXCEPT ![m] = [calls[m] EXCEPT !.pc = "posting", !.got = 0, !.retried = TRUE]]
    BY <1>8, ZenonT(60) DEF Retry
  <2>3. calls' \in [Sends -> CallRecord]
    BY <1>c, <2>1, <2>2
  <2> QED BY <1>0, <1>8, <2>3, SMTT(60) DEF Retry
<1>9. CASE Snapshot(m)
  <2>1. [calls[m] EXCEPT !.pc = "putting"] \in CallRecord
    BY <1>a DEF CallRecord, Running
  <2> QED BY <1>0, <1>9, <1>b, <1>c, <2>1 DEF Snapshot, Ended
<1>10. CASE Put(m)
  <2>1. calls[m].acc \in Texts
    BY <1>a DEF CallRecord
  <2>2. rows' \in [Sends -> RowRecord]
    BY <1>0, <1>10, <2>1 DEF Put, RowRecord
  <2> QED BY <1>0, <1>10, <1>b, <1>c, <2>2 DEF Put, Ended
<1>11. CASE WriteFails(m)
  BY <1>0, <1>11, <1>b, <1>c DEF WriteFails, Ended
<1>12. CASE AbortLands(m) \/ StreamEnds(m)
  BY <1>2, <1>12 DEF AbortLands, StreamEnds
<1> QED BY <1>3, <1>4, <1>5, <1>6, <1>7, <1>8, <1>9, <1>10, <1>11, <1>12 DEF BrowserStep, ServerStep

LEMMA StepTypes == ASSUME IInv, [Next]_vars PROVE TypeOK'
<1>1. CASE UNCHANGED vars
  BY <1>1, Types DEF vars, WellTyped, IInv
<1> QED BY <1>1, PageTypes, UserTypes, CallTypes DEF Next

-----------------------------------------------------------------------------
\* What the invariant says beyond the types.
Rest ==
  /\ OnThread
  /\ \A m \in Sends : Received(m) /\ Stored(m) /\ Seen(m)
  /\ OneBusy

\* The calls of a panel that goes: nothing is attached, nothing is shown.
LEMMA AllDetached ==
  ASSUME \A m \in Sends : ~calls'[m].attached /\ view'[m] = Hidden, panel'.busy = FALSE
  PROVE  OneBusy' /\ \A m \in Sends : Seen(m)'
BY DEF OneBusy, Mine, Seen, Hidden

LEMMA ShowKeeps ==
  ASSUME IInv, NEW t \in Threads \cup {NoThread}, NEW stage \in {"index", "reading"},
         Show(t, stage), t \in Threads \/ stage = "index", rows' = rows
  PROVE  Rest'
<1>1. calls \in [Sends -> CallRecord]
  BY Types DEF IInv, WellTyped
<1>2. ASSUME NEW m \in Sends
      PROVE /\ calls'[m].pc = calls[m].pc /\ calls'[m].acc = calls[m].acc
            /\ calls'[m].got = calls[m].got /\ calls'[m].retried = calls[m].retried
            /\ ~calls'[m].attached /\ view'[m] = Hidden
  BY <1>1, DetachedIs DEF Show
<1>3. panel'.busy = FALSE /\ panel'.thread = t /\ panel'.stage = stage
  BY DEF Show, EmptyPanel
<1>4. \A m \in Sends : Received(m)' /\ Stored(m)'
  BY <1>2 DEF IInv, Received, Stored
<1> QED BY <1>2, <1>3, <1>4, AllDetached DEF Rest, OnThread

LEMMA PageKeeps == ASSUME IInv, PageStep PROVE Rest'
<1>1. WellTyped /\ OnThread
  BY Types DEF IInv
<1>2. CASE ReadThread
  <2>1. /\ panel.stage = "reading" /\ panel'.stage # "loaded" /\ panel'.stage # "index"
        /\ panel'.thread = panel.thread /\ panel'.busy = panel.busy
    BY <1>1, <1>2 DEF ReadThread, WellTyped, PanelRecord
  <2>2. OnThread'
    BY <1>1, <2>1 DEF OnThread
  <2>3. OneBusy'
    BY <1>2, <2>1 DEF ReadThread, IInv, OneBusy, Mine
  <2>4. \A m \in Sends : Received(m)' /\ Stored(m)' /\ Seen(m)'
    BY <1>2, <2>1 DEF ReadThread, IInv, Received, Stored, Seen
  <2> QED BY <2>2, <2>3, <2>4 DEF Rest
<1>3. CASE ReadMessages
  <2>1. /\ panel.stage = "listing" /\ panel'.stage = "loaded"
        /\ panel'.thread = panel.thread /\ panel'.busy = panel.busy
    BY <1>1, <1>3 DEF ReadMessages, WellTyped, PanelRecord
  <2>2. OnThread' /\ OneBusy'
    BY <1>1, <1>3, <2>1 DEF ReadMessages, IInv, OnThread, OneBusy, Mine
  <2>3. ASSUME NEW m \in Sends PROVE Received(m)' /\ Stored(m)' /\ Seen(m)'
    <3>1. ~calls[m].attached /\ calls' = calls /\ rows' = rows /\ view'[m] = Hydrated(m)
      BY <1>3, <2>1 DEF ReadMessages, IInv, Seen
    <3>2. rows[m].state \in {"none", "open", "closed"} /\ Stored(m) /\ Received(m)
      BY <1>1 DEF WellTyped, RowRecord, IInv
    <3> QED BY <3>1, <3>2 DEF Received, Stored, Seen, Hydrated, Hidden
  <2> QED BY <2>2, <2>3 DEF Rest
<1>4. CASE Evict
  BY <1>4, ShowKeeps DEF Evict
<1>5. CASE SaveLands \/ SaveRefused
  BY <1>5 DEF SaveLands, SaveRefused, IInv, Rest, OnThread, Received, Stored, Seen, OneBusy, Mine
<1> QED BY <1>2, <1>3, <1>4, <1>5 DEF PageStep

LEMMA UserKeeps == ASSUME IInv, UserStep PROVE Rest'
<1>1. WellTyped /\ OnThread
  BY Types DEF IInv
<1>2. ASSUME NEW t \in Threads, OpenThread(t) \/ NewThread(t) \/ EnsureThread(t) PROVE Rest'
  <2>1. Show(t, "reading") /\ rows' = rows
    BY <1>2 DEF OpenThread, NewThread, EnsureThread
  <2> QED BY <2>1, ShowKeeps
<1>3. ASSUME NEW t \in Threads, DeleteThread(t) PROVE Rest'
  <2>1. UNCHANGED <<panel, view, controller, calls>>
    BY <1>3 DEF DeleteThread
  <2>2. \A m \in Sends : rows'[m] = rows[m] \/ rows'[m] = NoRow
    BY <1>3, <1>1 DEF DeleteThread, ForgetRows
  <2>3. \A m \in Sends : Received(m)' /\ Stored(m)' /\ Seen(m)'
    BY <2>1, <2>2 DEF IInv, Received, Stored, Seen, NoRow
  <2> QED BY <2>1, <2>3 DEF IInv, Rest, OnThread, OneBusy, Mine
<1>4. ASSUME NEW model \in Models, SetModel(model) PROVE Rest'
  <2>1. /\ UNCHANGED <<rows, view, controller, calls>>
        /\ panel'.stage = panel.stage /\ panel'.thread = panel.thread /\ panel'.busy = panel.busy
    BY <1>4, <1>1 DEF SetModel, WellTyped, PanelRecord
  <2>2. \A m \in Sends : Received(m)' /\ Stored(m)' /\ Seen(m)'
    BY <2>1 DEF IInv, Received, Stored, Seen
  <2> QED BY <2>1, <2>2 DEF IInv, Rest, OnThread, OneBusy, Mine
<1>5. ASSUME NEW m \in Sends, Send(m) PROVE Rest'
  <2>1. /\ panel.stage = "loaded" /\ panel'.stage = "loaded" /\ panel'.thread = panel.thread
        /\ panel.busy # TRUE /\ panel'.busy = TRUE /\ rows' = rows
    BY <1>5, <1>1 DEF Send, MaySend, WellTyped, PanelRecord
  <2>2. /\ calls[m].pc = "idle"
        /\ calls'[m].pc = "opening" /\ calls'[m].acc = <<>> /\ calls'[m].got = 0
        /\ calls'[m].retried = FALSE /\ calls'[m].attached = TRUE
    BY <1>5, <1>1 DEF Send, WellTyped, CallRecord, Unsent
  <2>3. view'[m].text = <<>>
    BY <1>5, <1>1 DEF Send, WellTyped
  <2>4. \A n \in Sends \ {m} : calls'[n] = calls[n] /\ view'[n] = view[n]
    BY <1>5, <1>1 DEF Send, WellTyped
  <2>5. ASSUME NEW n \in Sends PROVE Received(n)' /\ Stored(n)' /\ Seen(n)'
    <3>1. Received(n) /\ Stored(n) /\ Seen(n)
      BY DEF IInv
    <3>2. CASE n = m
      BY <2>1, <2>2, <2>3, <3>1, <3>2 DEF Received, Stored, Seen, NoRow
    <3>3. CASE n # m
      BY <2>1, <2>4, <3>1, <3>3 DEF Received, Stored, Seen
    <3> QED BY <3>2, <3>3
  <2>6. Mine' = {m}
    <3>1. Mine = {}
      BY <2>1 DEF IInv, OneBusy
    <3> QED BY <2>2, <2>4, <3>1 DEF Mine, Busying
  <2>7. OneBusy'
    BY <2>1, <2>6 DEF OneBusy
  <2> QED BY <1>1, <2>1, <2>5, <2>7 DEF Rest, OnThread
<1>6. CASE VisitIndex
  BY <1>6, ShowKeeps DEF VisitIndex
<1>7. CASE Cancel
  <2>1. \A m \in Sends :
          /\ calls'[m].pc = calls[m].pc /\ calls'[m].acc = calls[m].acc
          /\ calls'[m].got = calls[m].got /\ calls'[m].retried = calls[m].retried
          /\ calls'[m].attached = calls[m].attached
    BY <1>7, <1>1 DEF Cancel, WellTyped, CallRecord
  <2>2. UNCHANGED <<rows, panel, view>>
    BY <1>7 DEF Cancel
  <2>3. \A m \in Sends : Received(m)' /\ Stored(m)' /\ Seen(m)'
    BY <2>1, <2>2 DEF IInv, Received, Stored, Seen
  <2>4. Mine' = Mine
    BY <2>1 DEF Mine
  <2> QED BY <2>2, <2>3, <2>4 DEF IInv, Rest, OnThread, OneBusy
<1>8. CASE Reload
  <2>1. \A m \in Sends :
          /\ calls'[m].acc = calls[m].acc
          /\ \/ calls'[m].pc = calls[m].pc /\ calls[m].pc \notin Running /\ calls[m].pc # "stuck"
                /\ calls'[m].got = calls[m].got /\ calls'[m].retried = calls[m].retried
             \/ calls'[m].pc = "dead" /\ calls[m].pc \in Running \cup {"stuck"}
          /\ ~calls'[m].attached /\ view'[m] = Hidden
    BY <1>8, <1>1, ZenonT(60) DEF Reload, WellTyped, CallRecord, Over
  <2>2. rows' = rows /\ panel'.busy = FALSE /\ panel'.stage = "index"
    BY <1>8 DEF Reload, EmptyPanel
  <2>3. \A m \in Sends : Received(m)' /\ Stored(m)'
    BY <2>1, <2>2 DEF IInv, Received, Stored, Running
  <2> QED BY <2>1, <2>2, <2>3, AllDetached DEF Rest, OnThread
<1> QED BY <1>2, <1>3, <1>4, <1>5, <1>6, <1>7, <1>8 DEF UserStep

LEMMA OverFields ==
  ASSUME WellTyped, NEW m \in Sends, NEW end
  PROVE  /\ Over(m, end).pc = end /\ Over(m, end).acc = calls[m].acc
         /\ Over(m, end).attached = calls[m].attached
BY DEF Over, WellTyped, CallRecord

\* What a step of one call leaves alone.
LEMMA OneCall ==
  ASSUME IInv, NEW m \in Sends, BrowserStep(m) \/ ServerStep(m)
  PROVE  /\ \A n \in Sends \ {m} : calls'[n] = calls[n] /\ rows'[n] = rows[n] /\ view'[n] = view[n]
         /\ calls'[m].attached = calls[m].attached
         /\ panel'.stage = panel.stage /\ panel'.thread = panel.thread
<1> USE DEF WellTyped
<1>1. WellTyped
  BY Types DEF IInv
<1>2. CASE Opened(m) \/ Titled(m)
  BY <1>1, <1>2 DEF Opened, Titled, Fetch, CallRecord, PanelRecord
<1>3. CASE Delta(m) \/ ToolEvent(m)
  BY <1>1, <1>3 DEF Delta, ToolEvent, Patched, CallRecord
<1>4. ASSUME Finish(m)
      PROVE /\ \A n \in Sends \ {m} : calls'[n] = calls[n] /\ rows'[n] = rows[n] /\ view'[n] = view[n]
            /\ calls'[m].attached = calls[m].attached
            /\ panel'.stage = panel.stage /\ panel'.thread = panel.thread
  BY <1>1, <1>4 DEF Finish, Patched, CallRecord, PanelRecord
<1>5. CASE Drop(m) \/ StreamEnds(m) \/ AbortLands(m)
  BY <1>1, <1>4, <1>5 DEF Drop, StreamEnds, AbortLands, CallRecord
<1>6. CASE Retry(m) \/ Snapshot(m) \/ Put(m)
  BY <1>1, <1>6, OverFields DEF Retry, Snapshot, Put, CallRecord
<1>7. CASE WriteFails(m)
  BY <1>1, <1>7, OverFields DEF WriteFails
<1> QED BY <1>2, <1>3, <1>5, <1>6, <1>7 DEF BrowserStep, ServerStep

\* Where a call's step leaves its entry, its row and its message.
LEMMA OneCallKeeps ==
  ASSUME IInv, NEW m \in Sends, BrowserStep(m) \/ ServerStep(m)
  PROVE  Received(m)' /\ Stored(m)' /\ Seen(m)'
<1> USE ChatAssumption DEF WellTyped
<1>1. WellTyped /\ Received(m) /\ Stored(m) /\ Seen(m)
  BY Types DEF IInv
<1>2. panel'.stage = panel.stage
  BY OneCall
<1>3. calls[m] \in CallRecord /\ rows[m] \in RowRecord /\ calls[m].got \in Nat
  BY <1>1 DEF CallRecord
<1>4. ASSUME Finish(m), Streams(m) \/ calls[m].pc \in {"posting", "waiting"}
      PROVE  Received(m)' /\ Stored(m)' /\ Seen(m)'
  <2>1. /\ calls'[m].pc = "closing" /\ calls'[m].acc = calls[m].acc
        /\ calls'[m].attached = calls[m].attached /\ rows' = rows
    BY <1>1, <1>4 DEF Finish, CallRecord
  <2>2. /\ view'[m].text = view[m].text
        /\ ~calls[m].attached => view'[m] = view[m]
    BY <1>1, <1>4 DEF Finish, Patched, ViewRecord
  <2> QED BY <1>1, <1>2, <1>4, <2>1, <2>2 DEF Received, Stored, Seen, Streams
<1>5. CASE Opened(m)
  <2>1. /\ calls'[m].pc \in {"titling", "posting"} /\ calls'[m].acc = calls[m].acc
        /\ calls'[m].got = calls[m].got /\ calls'[m].retried = calls[m].retried
        /\ calls'[m].attached = calls[m].attached /\ view' = view
        /\ rows'[m].state = "open" /\ rows'[m].text = <<>> /\ calls[m].pc = "opening"
    BY <1>1, <1>5 DEF Opened, Fetch, CallRecord
  <2>2. calls[m].acc = <<>> /\ calls[m].got = 0 /\ ~calls[m].retried
    BY <1>1, <2>1 DEF Received
  <2> QED BY <1>1, <1>2, <2>1, <2>2 DEF Received, Stored, Seen
<1>6. CASE Titled(m)
  <2>1. /\ calls'[m].pc = "posting" /\ calls'[m].acc = calls[m].acc /\ calls[m].pc = "titling"
        /\ calls'[m].got = calls[m].got /\ calls'[m].retried = calls[m].retried
        /\ calls'[m].attached = calls[m].attached /\ view' = view /\ rows' = rows
    BY <1>1, <1>6 DEF Titled, Fetch, CallRecord
  <2>2. calls[m].acc = <<>> /\ calls[m].got = 0 /\ ~calls[m].retried
    BY <1>1, <2>1 DEF Received
  <2> QED BY <1>1, <1>2, <2>1, <2>2 DEF Received, Stored, Seen
<1>7. CASE Delta(m)
  <2>1. /\ calls'[m].pc = "posting" /\ calls[m].pc = "posting"
        /\ calls'[m].acc = Append(calls[m].acc, calls[m].got + 1)
        /\ calls'[m].got = calls[m].got + 1 /\ calls'[m].retried = calls[m].retried
        /\ calls'[m].attached = calls[m].attached /\ rows' = rows
    BY <1>1, <1>7 DEF Delta, Streams, CallRecord
  <2>2. /\ calls[m].attached => view'[m].text = calls'[m].acc
        /\ ~calls[m].attached => view'[m] = view[m]
    BY <1>1, <1>7 DEF Delta, Patched, ViewRecord
  <2>3. Len(calls'[m].acc) = Len(calls[m].acc) + 1 /\ Len(calls[m].acc) \in Nat
    <3>1. calls[m].acc \in Seq(1..MaxChunks) /\ calls[m].got + 1 \in 1..MaxChunks
      BY <1>3, <1>7, TextsAreShort, SMTT(60) DEF Delta, CallRecord
    <3> QED BY <2>1, <3>1, AppendProperties, LenProperties
  <2>4. Received(m)'
    BY <1>1, <1>3, <2>1, <2>3 DEF Received
  <2> QED BY <1>1, <1>2, <2>1, <2>2, <2>4 DEF Stored, Seen
<1>8. CASE ToolEvent(m)
  <2>1. UNCHANGED <<rows, calls>> /\ view'[m].text = view[m].text /\ view'[m].phase = view[m].phase
    BY <1>1, <1>8 DEF ToolEvent, Patched, ViewRecord
  <2> QED BY <1>1, <1>2, <2>1 DEF Received, Stored, Seen
<1>9. CASE Drop(m) /\ ~calls[m].retried
  <2>1. /\ calls'[m].pc = "waiting" /\ calls[m].pc = "posting" /\ calls'[m].acc = calls[m].acc
        /\ calls'[m].got = calls[m].got /\ calls'[m].retried = calls[m].retried
        /\ calls'[m].attached = calls[m].attached /\ view' = view /\ rows' = rows
    BY <1>1, <1>9 DEF Drop, Streams, CallRecord
  <2> QED BY <1>1, <1>2, <1>9, <2>1 DEF Received, Stored, Seen
<1>10. CASE Retry(m)
  <2>1. /\ calls'[m].pc = "posting" /\ calls[m].pc = "waiting" /\ calls'[m].acc = calls[m].acc
        /\ calls'[m].got = 0 /\ calls'[m].retried
        /\ calls'[m].attached = calls[m].attached /\ view' = view /\ rows' = rows
    BY <1>1, <1>10 DEF Retry, CallRecord
  <2>2. Len(calls[m].acc) <= MaxChunks
    <3>1. calls[m].got <= MaxChunks /\ Len(calls[m].acc) \in Nat
      BY <1>3, TextsAreShort, LenProperties DEF CallRecord
    <3>2. Len(calls[m].acc) <= calls[m].got
      BY <1>1, <1>3, <2>1 DEF Received
    <3> QED BY <1>3, <3>1, <3>2
  <2>3. Received(m)'
    BY <2>1, <2>2 DEF Received
  <2> QED BY <1>1, <1>2, <2>1, <2>3 DEF Stored, Seen
<1>11. CASE Snapshot(m) \/ WriteFails(m)
  <2>1. /\ calls'[m].pc \in {"done", "putting", "stuck"} /\ calls'[m].acc = calls[m].acc
        /\ calls'[m].attached = calls[m].attached /\ view' = view /\ rows' = rows
        /\ calls[m].pc # "done"
    <3>1. CASE Snapshot(m)
      BY <1>1, <3>1, OverFields DEF Snapshot, CallRecord
    <3>2. CASE WriteFails(m)
      BY <1>1, <3>2, OverFields DEF WriteFails
    <3> QED BY <1>11, <3>1, <3>2
  <2> QED BY <1>1, <1>2, <2>1 DEF Received, Stored, Seen
<1>12. CASE Put(m)
  <2>1. /\ calls'[m].pc = "done" /\ calls[m].pc = "putting" /\ calls'[m].acc = calls[m].acc
        /\ calls'[m].attached = calls[m].attached /\ view' = view
        /\ rows'[m].state = "closed" /\ rows'[m].text = calls[m].acc
    BY <1>1, <1>12 DEF Put, Over, CallRecord
  <2> QED BY <1>1, <1>2, <2>1 DEF Received, Stored, Seen
<1>13. CASE StreamEnds(m) \/ AbortLands(m) \/ (Drop(m) /\ calls[m].retried)
  BY <1>4, <1>13 DEF StreamEnds, AbortLands, Drop
<1> QED BY <1>5, <1>6, <1>7, <1>8, <1>9, <1>10, <1>11, <1>12, <1>13 DEF BrowserStep, ServerStep

\* busy is reset by the step that takes the call out of the busy ones.
LEMMA OneCallBusy ==
  ASSUME IInv, NEW m \in Sends, BrowserStep(m) \/ ServerStep(m)
  PROVE  OneBusy'
<1> USE DEF WellTyped
<1>1. WellTyped /\ OneBusy
  BY Types DEF IInv
<1>2. /\ \A n \in Sends \ {m} : calls'[n] = calls[n]
      /\ calls'[m].attached = calls[m].attached
  BY OneCall
<1>3. ASSUME Finish(m), calls[m].pc \in {"posting", "waiting"} PROVE OneBusy'
  <2>1. calls'[m].pc = "closing"
    BY <1>1, <1>3 DEF Finish, CallRecord
  <2>2. CASE calls[m].attached
    <3>1. panel'.busy = FALSE
      BY <1>1, <1>3, <2>2 DEF Finish, PanelRecord
    <3>2. \A n \in Mine : n = m
      BY <1>1, <1>3, <2>2 DEF OneBusy, Mine, Busying
    <3>3. Mine' = {}
      BY <1>2, <2>1, <3>2 DEF Mine, Busying
    <3> QED BY <3>1, <3>3 DEF OneBusy
  <2>3. CASE ~calls[m].attached
    <3>1. Mine' = Mine /\ panel' = panel
      BY <1>2, <1>3, <2>3 DEF Mine, Finish
    <3> QED BY <1>1, <3>1 DEF OneBusy
  <2> QED BY <2>2, <2>3
<1>4. CASE /\ panel'.busy = panel.busy
           /\ calls[m].pc \in Busying <=> calls'[m].pc \in Busying
  <2>1. Mine' = Mine
    BY <1>2, <1>4 DEF Mine
  <2> QED BY <1>1, <1>4, <2>1 DEF OneBusy
<1>5. CASE Opened(m)
  BY <1>1, <1>4, <1>5 DEF Opened, Fetch, Busying, CallRecord
<1>10. CASE Titled(m)
  <2>1. panel'.busy = panel.busy
    BY <1>1, <1>10 DEF Titled, PanelRecord
  <2>2. calls[m].pc = "titling" /\ calls'[m].pc = "posting"
    BY <1>1, <1>10 DEF Titled, Fetch, CallRecord
  <2> QED BY <1>4, <2>1, <2>2 DEF Busying
<1>6. CASE Delta(m) \/ ToolEvent(m) \/ Retry(m)
  BY <1>1, <1>4, <1>6 DEF Delta, ToolEvent, Retry, Streams, Busying, CallRecord
<1>7. CASE Snapshot(m) \/ Put(m)
  BY <1>1, <1>4, <1>7, OverFields DEF Snapshot, Put, Busying, CallRecord
<1>11. CASE WriteFails(m)
  BY <1>1, <1>4, <1>11, OverFields DEF WriteFails, Busying
<1>8. CASE Drop(m) /\ ~calls[m].retried
  BY <1>1, <1>4, <1>8 DEF Drop, Streams, Busying, CallRecord
<1>9. CASE StreamEnds(m) \/ AbortLands(m) \/ (Drop(m) /\ calls[m].retried)
  BY <1>3, <1>9 DEF StreamEnds, AbortLands, Drop, Streams
<1> QED BY <1>5, <1>6, <1>7, <1>8, <1>9, <1>10, <1>11 DEF BrowserStep, ServerStep

LEMMA InitIInv == Init => IInv
<1> SUFFICES ASSUME Init PROVE IInv
  OBVIOUS
<1> USE ChatAssumption
<1>1. TypeOK
  <2>1. threads \in [Threads -> ThreadRecord]
    BY DEF Init, ThreadRecord, Titles
  <2>2. saves \in Seq(SaveRecord) /\ Len(saves) <= MaxSaves
    BY EmptySeq DEF Init
  <2> QED BY <2>1, <2>2, Types, Constants DEF Init, WellTyped
<1>2. \A m \in Sends : calls[m] = Unsent /\ rows[m] = NoRow /\ view[m] = Hidden
  BY DEF Init
<1>3. panel.stage = "index" /\ panel.busy = FALSE
  BY DEF Init, EmptyPanel
<1>4. \A m \in Sends : Received(m) /\ Stored(m) /\ Seen(m)
  BY <1>2 DEF Unsent, NoRow, Hidden, Received, Stored, Seen
<1>5. OneBusy
  BY <1>2, <1>3 DEF Unsent, OneBusy, Mine
<1> QED BY <1>1, <1>3, <1>4, <1>5 DEF IInv, OnThread

LEMMA StepIInv == IInv /\ [Next]_vars => IInv'
<1> SUFFICES ASSUME IInv, [Next]_vars PROVE IInv'
  OBVIOUS
<1>1. TypeOK'
  BY StepTypes
<1>2. Rest'
  <2>1. ASSUME NEW m \in Sends, BrowserStep(m) \/ ServerStep(m) PROVE Rest'
    <3>1. \A n \in Sends : Received(n)' /\ Stored(n)' /\ Seen(n)'
      BY <2>1, OneCall, OneCallKeeps DEF IInv, Received, Stored, Seen
    <3> QED BY <2>1, <3>1, OneCall, OneCallBusy DEF IInv, Rest, OnThread
  <2>2. CASE UNCHANGED vars
    BY <2>2 DEF vars, IInv, Rest, OnThread, Received, Stored, Seen, OneBusy, Mine
  <2> QED BY <2>1, <2>2, PageKeeps, UserKeeps DEF Next
<1> QED BY <1>1, <1>2 DEF IInv, Rest

\* The inductive invariant holds of every reachable state (runtime.ts).
THEOREM Invariance == Spec => []IInv
BY InitIInv, StepIInv, PTL DEF Spec

-----------------------------------------------------------------------------
\* Type correctness of the chat page, its stores and its calls (runtime.ts);
\* an answer never grows past two responses.
THEOREM ChatTypes == Spec => []TypeOK
<1>1. IInv => TypeOK
  BY DEF IInv
<1> QED BY <1>1, Invariance, PTL

\* busy is set exactly while one send of the panel is before its finally
\* block, and there is never a second one (runtime.ts:142, 216).
THEOREM BusyExact == Spec => []BusyIsAccurate
<1>1. IInv => BusyIsAccurate
  <2> SUFFICES ASSUME IInv PROVE BusyIsAccurate
    OBVIOUS
  <2>1. Cardinality(Mine) <= 1
    <3>1. CASE Mine = {}
      BY <3>1, FS_EmptySet
    <3>2. ASSUME NEW m \in Mine PROVE Cardinality(Mine) <= 1
      <4>1. Mine = {m}
        BY <3>2 DEF IInv, OneBusy
      <4> QED BY <4>1, FS_Singleton
    <3> QED BY <3>1, <3>2
  <2> QED BY <2>1 DEF BusyIsAccurate, Mine, IInv, OneBusy
<1> QED BY <1>1, Invariance, PTL

\* The text a panel shows of a finished answer is what is stored, through
\* retries, remounts and reloads (runtime.ts:163-219).
THEOREM ShownTextKept == Spec => []ShownTextIsKept
<1>1. IInv => ShownTextIsKept
  BY DEF IInv, Stored, Seen, ShownTextIsKept
<1> QED BY <1>1, Invariance, PTL

-----------------------------------------------------------------------------
\* A step that keeps what was heard, and either keeps an answer or loses it,
\* is a step Forget of the promise.
LEMMA Forgets ==
  ASSUME \A m \in Sends :
           /\ calls'[m].acc = calls[m].acc
           /\ \/ AnswerState(m)' = AnswerState(m) /\ rows'[m].text = rows[m].text
              \/ AnswerState(m)' = "gone" /\ rows'[m].text = <<>>
  PROVE  Answers!Next
<1> DEFINE gone == {m \in Sends : AnswerState(m)' = "gone" /\ rows'[m].text = <<>>}
<1>1. gone \in SUBSET Sends
  OBVIOUS
<1>2. [m \in Sends |-> AnswerState(m)]' =
        [m \in Sends |-> IF m \in gone THEN "gone" ELSE [n \in Sends |-> AnswerState(n)][m]]
  OBVIOUS
<1>3. [m \in Sends |-> rows[m].text]' =
        [m \in Sends |-> IF m \in gone THEN <<>> ELSE [n \in Sends |-> rows[n].text][m]]
  OBVIOUS
<1>4. [m \in Sends |-> calls[m].acc]' = [m \in Sends |-> calls[m].acc]
  OBVIOUS
<1> HIDE DEF gone
<1>5. Answers!Forget
  BY <1>1, <1>2, <1>3, <1>4 DEF Answers!Forget
<1> QED BY <1>5 DEF Answers!Next

\* A call whose row stays as it is stays in its state, unless it leaves the
\* first write.
LEMMA SameAnswer ==
  ASSUME NEW m \in Sends, rows'[m] = rows[m],
         calls'[m].pc \in {"idle", "opening"} <=> calls[m].pc \in {"idle", "opening"}
  PROVE  AnswerState(m)' = AnswerState(m) /\ rows'[m].text = rows[m].text
BY DEF AnswerState

LEMMA PageRefines == ASSUME IInv, PageStep PROVE Answers!Next
<1>1. WellTyped
  BY Types DEF IInv
<1>2. \A m \in Sends : rows'[m] = rows[m] /\ calls'[m].pc = calls[m].pc /\ calls'[m].acc = calls[m].acc
  <2>1. CASE ReadThread \/ ReadMessages \/ SaveLands \/ SaveRefused
    BY <2>1 DEF ReadThread, ReadMessages, SaveLands, SaveRefused
  <2>2. CASE Evict
    BY <1>1, <2>2, DetachedIs DEF Evict, Show, WellTyped
  <2> QED BY <2>1, <2>2 DEF PageStep
<1> QED BY <1>2, SameAnswer, Forgets

LEMMA UserRefines == ASSUME IInv, UserStep PROVE Answers!Next
<1>1. WellTyped
  BY Types DEF IInv
<1>2. CASE \A m \in Sends :
             /\ rows'[m] = rows[m] /\ calls'[m].acc = calls[m].acc
             /\ calls'[m].pc \in {"idle", "opening"} <=> calls[m].pc \in {"idle", "opening"}
  BY <1>2, SameAnswer, Forgets
<1>3. ASSUME NEW t \in Threads, OpenThread(t) \/ NewThread(t) \/ EnsureThread(t) PROVE Answers!Next
  <2>1. rows' = rows /\ calls' = Detached
    BY <1>3 DEF OpenThread, NewThread, EnsureThread, Show
  <2> QED BY <1>1, <1>2, <2>1, DetachedIs DEF WellTyped
<1>4. ASSUME NEW t \in Threads, DeleteThread(t) PROVE Answers!Next
  <2>1. calls' = calls /\ \A m \in Sends : rows'[m] = rows[m] \/ rows'[m] = NoRow
    BY <1>4, <1>1 DEF DeleteThread, ForgetRows
  <2>2. ASSUME NEW m \in Sends
        PROVE \/ AnswerState(m)' = AnswerState(m) /\ rows'[m].text = rows[m].text
              \/ AnswerState(m)' = "gone" /\ rows'[m].text = <<>>
    <3>1. CASE rows'[m] = rows[m]
      BY <2>1, <3>1, SameAnswer
    <3>2. CASE rows'[m] # rows[m]
      <4>1. calls[m].pc \notin {"idle", "opening"}
        BY <2>1, <3>2 DEF IInv, Stored
      <4> QED BY <2>1, <3>2, <4>1 DEF AnswerState, NoRow
    <3> QED BY <3>1, <3>2
  <2> QED BY <2>1, <2>2, Forgets
<1>5. ASSUME NEW model \in Models, SetModel(model) PROVE Answers!Next
  BY <1>2, <1>5 DEF SetModel
<1>6. ASSUME NEW m \in Sends, Send(m) PROVE Answers!Next
  <2>1. /\ calls[m].pc = "idle" /\ calls[m].acc = <<>> /\ rows' = rows
        /\ calls'[m].pc = "opening" /\ calls'[m].acc = <<>>
        /\ \A n \in Sends \ {m} : calls'[n] = calls[n]
    BY <1>1, <1>6 DEF Send, WellTyped, Unsent, IInv, Received
  <2> QED BY <1>2, <2>1
<1>7. CASE VisitIndex \/ Cancel
  <2>1. rows' = rows
    BY <1>7 DEF VisitIndex, Cancel
  <2>2. \A m \in Sends : calls'[m].pc = calls[m].pc /\ calls'[m].acc = calls[m].acc
    <3>1. CASE VisitIndex
      BY <1>1, <3>1, DetachedIs DEF VisitIndex, Show, WellTyped
    <3>2. CASE Cancel
      BY <1>1, <3>2 DEF Cancel, WellTyped, CallRecord
    <3> QED BY <1>7, <3>1, <3>2
  <2> QED BY <1>2, <2>1, <2>2
<1>8. CASE Reload
  <2>1. \A m \in Sends :
          /\ rows'[m] = rows[m] /\ calls'[m].acc = calls[m].acc
          /\ \/ calls'[m].pc = calls[m].pc /\ calls[m].pc # "opening"
             \/ calls'[m].pc = "dead" /\ calls[m].pc # "idle"
    BY <1>8, <1>1, ZenonT(60) DEF Reload, WellTyped, CallRecord, Over, Running
  <2>2. ASSUME NEW m \in Sends
        PROVE \/ AnswerState(m)' = AnswerState(m) /\ rows'[m].text = rows[m].text
              \/ AnswerState(m)' = "gone" /\ rows'[m].text = <<>>
    <3>1. CASE calls[m].pc = "opening"
      BY <2>1, <3>1 DEF AnswerState, IInv, Stored, NoRow
    <3>2. CASE calls[m].pc # "opening"
      BY <2>1, <3>2, SameAnswer
    <3> QED BY <3>1, <3>2
  <2> QED BY <2>1, <2>2, Forgets
<1> QED BY <1>3, <1>4, <1>5, <1>6, <1>7, <1>8 DEF UserStep

\* One call's step: the first write asks, a delta is heard, the last write
\* answers; everything else is nothing to the promise, but for a refused first
\* write.
LEMMA CallRefines ==
  ASSUME IInv, NEW m \in Sends, BrowserStep(m) \/ ServerStep(m) PROVE Answers!Next
<1>1. WellTyped
  BY Types DEF IInv
<1>2. \A n \in Sends \ {m} : calls'[n] = calls[n] /\ rows'[n] = rows[n]
  BY OneCall
<1>3. \A n \in Sends \ {m} :
        AnswerState(n)' = AnswerState(n) /\ rows'[n].text = rows[n].text /\ calls'[n].acc = calls[n].acc
  BY <1>2, SameAnswer
<1>4. CASE /\ calls'[m].acc = calls[m].acc
           /\ \/ AnswerState(m)' = AnswerState(m) /\ rows'[m].text = rows[m].text
              \/ AnswerState(m)' = "gone" /\ rows'[m].text = <<>>
  BY <1>3, <1>4, Forgets
<1>5. CASE /\ rows'[m] = rows[m] /\ calls'[m].acc = calls[m].acc
           /\ calls'[m].pc \in {"idle", "opening"} <=> calls[m].pc \in {"idle", "opening"}
  BY <1>4, <1>5, SameAnswer
<1>6. CASE Opened(m)
  <2>1. /\ rows'[m].state = "open" /\ rows'[m].text = <<>> /\ calls[m].pc = "opening"
        /\ calls'[m].acc = calls[m].acc /\ calls'[m].pc \in {"titling", "posting"}
    BY <1>1, <1>6 DEF Opened, Fetch, WellTyped, CallRecord
  <2>2. AnswerState(m) = "unasked" /\ AnswerState(m)' = "asked" /\ rows[m].text = <<>>
    BY <2>1 DEF AnswerState, IInv, Stored, NoRow
  <2>3. Answers!Ask(m)
    <3>1. [n \in Sends |-> AnswerState(n)]' =
            [[n \in Sends |-> AnswerState(n)] EXCEPT ![m] = "asked"]
      BY <1>3, <2>2
    <3>2. [n \in Sends |-> rows[n].text]' = [n \in Sends |-> rows[n].text]
      BY <1>3, <2>1, <2>2
    <3>3. [n \in Sends |-> calls[n].acc]' = [n \in Sends |-> calls[n].acc]
      BY <1>3, <2>1
    <3> QED BY <2>2, <3>1, <3>2, <3>3 DEF Answers!Ask
  <2> QED BY <2>3 DEF Answers!Next
<1>7. CASE Delta(m)
  <2>1. /\ rows' = rows /\ calls[m].pc = "posting" /\ calls'[m].pc = "posting"
        /\ calls'[m].acc = Append(calls[m].acc, calls[m].got + 1)
        /\ calls[m].got \in 0..MaxChunks /\ calls[m].got < MaxChunks
    BY <1>1, <1>7 DEF Delta, Streams, WellTyped, CallRecord
  <2>2. AnswerState(m) \in {"asked", "gone"} /\ AnswerState(m)' = AnswerState(m)
    <3>1. rows[m].state \in {"none", "open"}
      BY <1>1, <2>1 DEF IInv, Stored, WellTyped, RowRecord
    <3> QED BY <2>1, <3>1 DEF AnswerState
  <2>3. calls[m].got + 1 \in 1..MaxChunks
    BY <2>1, ChatAssumption
  <2>4. Answers!Hear(m)
    <3>1. [n \in Sends |-> AnswerState(n)]' = [n \in Sends |-> AnswerState(n)]
      BY <1>3, <2>2
    <3>2. [n \in Sends |-> rows[n].text]' = [n \in Sends |-> rows[n].text]
      BY <2>1
    <3>3. [n \in Sends |-> calls[n].acc]' =
            [[n \in Sends |-> calls[n].acc] EXCEPT ![m] = Append(@, calls[m].got + 1)]
      BY <1>3, <2>1
    <3> QED BY <2>2, <2>3, <3>1, <3>2, <3>3 DEF Answers!Hear
  <2> QED BY <2>4 DEF Answers!Next
<1>8. CASE Put(m)
  <2>1. /\ calls[m].pc = "putting" /\ calls'[m].pc = "done" /\ calls'[m].acc = calls[m].acc
        /\ rows'[m].state = "closed" /\ rows'[m].text = calls[m].acc
    BY <1>1, <1>8, OverFields DEF Put, WellTyped
  <2>2. AnswerState(m) \in {"asked", "gone"} /\ AnswerState(m)' = "answered"
    <3>1. rows[m].state \in {"none", "open"}
      BY <1>1, <2>1 DEF IInv, Stored, WellTyped, RowRecord
    <3> QED BY <2>1, <3>1 DEF AnswerState
  <2>3. Answers!Answer(m)
    <3>1. [n \in Sends |-> AnswerState(n)]' =
            [[n \in Sends |-> AnswerState(n)] EXCEPT ![m] = "answered"]
      BY <1>3, <2>2
    <3>2. [n \in Sends |-> rows[n].text]' =
            [[n \in Sends |-> rows[n].text] EXCEPT ![m] = [n \in Sends |-> calls[n].acc][m]]
      BY <1>3, <2>1
    <3>3. [n \in Sends |-> calls[n].acc]' = [n \in Sends |-> calls[n].acc]
      BY <1>3, <2>1
    <3> QED BY <2>2, <3>1, <3>2, <3>3 DEF Answers!Answer
  <2> QED BY <2>3 DEF Answers!Next
<1>9. CASE WriteFails(m)
  <2>1. /\ rows' = rows /\ calls'[m].acc = calls[m].acc
        /\ calls'[m].pc \in {"stuck", "done"} /\ calls[m].pc # "idle"
    <3>1. \E end \in {"stuck", "done"} : calls' = [calls EXCEPT ![m] = Over(m, end)]
      BY <1>9 DEF WriteFails
    <3>2. rows' = rows /\ calls[m].pc # "idle"
      BY <1>9 DEF WriteFails
    <3> QED BY <1>1, <3>1, <3>2, OverFields DEF WellTyped
  <2>2. CASE calls[m].pc = "opening"
    BY <1>4, <2>1, <2>2 DEF AnswerState, IInv, Stored, NoRow
  <2> QED BY <1>5, <2>1, <2>2
<1>10. CASE Titled(m)
  BY <1>1, <1>5, <1>10 DEF Titled, Fetch, WellTyped, CallRecord
<1>11. ASSUME Finish(m), calls[m].pc \in {"posting", "waiting"} PROVE Answers!Next
  BY <1>1, <1>5, <1>11 DEF Finish, WellTyped, CallRecord
<1>12. CASE ToolEvent(m) \/ Retry(m) \/ Snapshot(m)
  BY <1>1, <1>5, <1>12, OverFields DEF ToolEvent, Retry, Snapshot, WellTyped, CallRecord
<1>13. CASE Drop(m) /\ ~calls[m].retried
  BY <1>1, <1>5, <1>13 DEF Drop, Streams, WellTyped, CallRecord
<1>14. CASE StreamEnds(m) \/ AbortLands(m) \/ (Drop(m) /\ calls[m].retried)
  BY <1>11, <1>14 DEF StreamEnds, AbortLands, Drop, Streams
<1> QED BY <1>6, <1>7, <1>8, <1>9, <1>10, <1>12, <1>13, <1>14 DEF BrowserStep, ServerStep

LEMMA StepRefines == IInv /\ [Next]_vars => [Answers!Next]_Answers!vars
<1>1. ASSUME UNCHANGED vars PROVE UNCHANGED Answers!vars
  BY <1>1 DEF vars, Answers!vars, AnswerState
<1> QED BY <1>1, PageRefines, UserRefines, CallRefines DEF Next

LEMMA InitRefines == Init => Answers!Init
<1> SUFFICES ASSUME Init PROVE Answers!Init
  OBVIOUS
<1>1. \A m \in Sends : AnswerState(m) = "unasked" /\ calls[m].acc = <<>> /\ rows[m].text = <<>>
  BY DEF Init, AnswerState, Unsent, NoRow
<1> QED BY <1>1 DEF Answers!Init

\* The runtime implements the promise: an answer is stored once, with all that
\* was received, and does not change; only its thread's deletion removes it
\* (persistAssistant, runtime.ts:163-169, and deleteThread, threads.ts:24-29).
THEOREM AnswersKept == Spec => AnswersAreKept
BY InitRefines, StepRefines, Invariance, PTL DEF Spec, AnswersAreKept, Answers!Spec
-----------------------------------------------------------------------------
(* The panel around the runtime                                              *)

\* What PanelTypeOK says beyond the runtime's types.
OwnTypes ==
  /\ lastModel \in Models /\ key \in BOOLEAN /\ granted \in SUBSET {"codex", "openrouter"}
  /\ clearing \in BOOLEAN
  /\ keyShown \in BOOLEAN /\ keyModal \in BOOLEAN
  /\ draft \in Drafts /\ picker \in Pickers
  /\ picker \in {"slash", "mention"} => draft = picker
  /\ card \in [Sends -> Cards]
  /\ choice \in Models \cup {NoModel} /\ overruled \subseteq {"shown", "kept"}

\* A panel that has read its thread has waited for the choices of those before it.
SavesHere ==
  panel.stage \in {"listing", "loaded"} =>
    \A i \in 1..Len(saves) : saves[i].thread = panel.thread

\* ChoiceHolds, and what will make it true of a row not written yet: the last of
\* the choices that are to be stored is the choice.
Chosen ==
  choice # NoModel =>
    /\ Shown /\ panel.model = choice
    /\ "shown" \notin overruled => lastModel = choice
    /\ saves # <<>> => saves[Len(saves)].model = choice
    /\ threads[panel.thread].status = "live" /\ saves = <<>> /\ "kept" \notin overruled
         => threads[panel.thread].model = choice

PanelInv ==
  /\ IInv
  /\ OwnTypes
  /\ SavesHere
  /\ Chosen

\* Renaming a row of the list, another tab's writing one and clearing the stores
\* are no steps of the runtime, and disturb nothing its invariant says.
StoresKept ==
  /\ UNCHANGED <<saves, panel, view, controller, calls, evict>>
  /\ threads' \in [Threads -> ThreadRecord]
  /\ \A m \in Sends : rows'[m] = rows[m] \/ rows'[m] = NoRow
  /\ rows' \in [Sends -> RowRecord]

LEMMA StoresKeep == ASSUME IInv, StoresKept PROVE IInv'
<1>1. WellTyped /\ OnThread /\ OneBusy
  BY Types DEF IInv
<1>2. WellTyped'
  BY <1>1 DEF WellTyped, StoresKept
<1>3. ASSUME NEW m \in Sends PROVE Received(m)' /\ Stored(m)' /\ Seen(m)'
  <2>1. Received(m) /\ Stored(m) /\ Seen(m)
    BY DEF IInv
  <2>2. calls' = calls /\ view' = view /\ panel' = panel /\ (rows'[m] = rows[m] \/ rows'[m] = NoRow)
    BY DEF StoresKept
  <2>3. Received(m)' /\ Seen(m)'
    BY <2>1, <2>2 DEF Received, Seen
  <2>4. Stored(m)'
    BY <2>1, <2>2 DEF Stored, NoRow
  <2> QED BY <2>3, <2>4
<1>4. OneBusy' /\ OnThread'
  BY <1>1 DEF StoresKept, OneBusy, Mine, OnThread
<1> QED BY <1>2, <1>3, <1>4, Types DEF IInv

LEMMA Renames == ASSUME IInv, NEW t, RenameRow(t) PROVE StoresKept
<1>1. WellTyped
  BY Types DEF IInv
<1>2. threads' \in [Threads -> ThreadRecord]
  BY <1>1, ThreadTitles DEF RenameRow, WellTyped, Titles
<1> QED BY <1>1, <1>2 DEF RenameRow, StoresKept, WellTyped

LEMMA OtherTabKeeps ==
  ASSUME IInv, NEW t \in Threads, NEW model \in Models, OtherTabSaves(t, model) PROVE StoresKept
<1>1. WellTyped
  BY Types DEF IInv
<1>2. threads' \in [Threads -> ThreadRecord]
  <2>1. [threads[t] EXCEPT !.model = model] \in ThreadRecord
    BY <1>1 DEF WellTyped, ThreadRecord
  <2>2. threads' = [threads EXCEPT ![t] = [threads[t] EXCEPT !.model = model]]
    BY DEF OtherTabSaves
  <2> QED BY <1>1, <2>1, <2>2 DEF WellTyped
<1> QED BY <1>1, <1>2 DEF OtherTabSaves, StoresKept, WellTyped

LEMMA Clears == ASSUME IInv, ClearThreads \/ ClearMessages PROVE StoresKept
<1>1. WellTyped
  BY Types DEF IInv
<1>2. CASE ClearThreads
  <2>1. threads' \in [Threads -> ThreadRecord]
    BY <1>1, <1>2 DEF ClearThreads, WellTyped, ThreadRecord
  <2> QED BY <1>1, <1>2, <2>1 DEF ClearThreads, StoresKept, WellTyped
<1>3. CASE ClearMessages
  <2>1. rows' \in [Sends -> RowRecord] /\ \A m \in Sends : rows'[m] = NoRow
    BY <1>3, Constants DEF ClearMessages
  <2> QED BY <1>1, <1>3, <2>1 DEF ClearMessages, StoresKept, WellTyped
<1> QED BY <1>2, <1>3

\* Under every step of the panel there is a step of the runtime, none, or one
\* of the above: what ChatRuntime's invariant says holds of the panel, too.
LEMMA Underneath == ASSUME PanelInv, [PanelNext]_allVars PROVE [Next]_vars \/ StoresKept
<1>1. IInv
  BY DEF PanelInv
<1>2. CASE Navigate \/ LoadAnew
  <2>1. Next
    BY <1>2 DEF Navigate, LoadAnew, Next, PageStep, UserStep
  <2> QED BY <2>1
<1>3. CASE ListStep
  <2>1. PICK t \in Live : DeleteThread(t) \/ RenameRow(t)
    BY <1>3 DEF ListStep
  <2>2. t \in Threads
    BY <2>1 DEF Live
  <2>3. CASE DeleteThread(t)
    BY <2>2, <2>3 DEF Next, UserStep
  <2> QED BY <1>1, <2>1, <2>3, Renames
<1>4. CASE Background \/ Saving \/ \E m \in Sends : ShowToolStep(m)
  <2>1. Next
    BY <1>4 DEF Background, Saving, ShowToolStep, Next, PageStep, ServerStep
  <2> QED BY <2>1
<1>10. CASE \E model \in Models : OtherTabChooses(model) \/ \E t \in Threads : OtherTabSaves(t, model)
  BY <1>1, <1>10, OtherTabKeeps DEF OtherTabChooses
<1>5. CASE Elsewhere
  BY <1>5 DEF Elsewhere
<1>6. CASE ClearThreads \/ ClearMessages
  BY <1>1, <1>6, Clears
<1>7. CASE ComposerStep
  <2>1. CASE \E model \in Models : ChooseModel(model)
    BY <2>1 DEF ChooseModel, Next, UserStep
  <2>2. CASE \E m \in Sends : FollowCard(m) \/ Submit(m)
    BY <2>2 DEF FollowCard, LoadAnew, Submit, Next, UserStep
  <2>3. CASE Stop
    BY <2>3 DEF Stop, Next, UserStep
  <2>4. CASE \E text \in Drafts : Type(text)
    BY <2>4 DEF Type, Idle
  <2>5. CASE InsertTrigger \/ PickPrompt \/ \E m \in Sends : Cite(m) \/ Reemit(m)
    BY <2>5 DEF InsertTrigger, PickPrompt, Cite, Reemit, Type, Idle
  <2>6. CASE ToggleModelPicker \/ Escape \/ ChooseCommand \/ MentionRun
    BY <2>6 DEF ToggleModelPicker, Escape, ChooseCommand, MentionRun, Idle
  <2> QED BY <1>7, <2>1, <2>2, <2>3, <2>4, <2>5, <2>6 DEF ComposerStep
<1>8. CASE HeaderStep
  <2>1. CASE CommitTitle
    BY <1>1, <2>1, Renames DEF CommitTitle
  <2>2. CASE AskForKey \/ CloseKeyModal \/ SaveKey \/ RemoveKey
    BY <2>2 DEF AskForKey, CloseKeyModal, SaveKey, RemoveKey, KeyUnchanged
  <2> QED BY <1>8, <2>1, <2>2 DEF HeaderStep
<1>9. CASE UNCHANGED allVars
  BY <1>9 DEF allVars
<1> QED BY <1>2, <1>3, <1>4, <1>5, <1>6, <1>7, <1>8, <1>9, <1>10 DEF PanelNext

LEMMA RuntimeKeeps == ASSUME PanelInv, [PanelNext]_allVars PROVE IInv'
BY Underneath, StepIInv, StoresKeep DEF PanelInv

\* Choices are added where the panel is, and the panel goes on to read a thread
\* when there are none.
LEMMA SavesStayHere == ASSUME PanelInv, [PanelNext]_allVars PROVE SavesHere'
<1>1. IInv /\ WellTyped /\ SavesHere
  BY Types DEF PanelInv, IInv
<1>2. ASSUME saves' = saves, panel'.stage = panel.stage, panel'.thread = panel.thread PROVE SavesHere'
  BY <1>1, <1>2 DEF SavesHere
<1>3. ASSUME NEW t, NEW stage \in {"reading", "index"}, Show(t, stage) PROVE SavesHere'
  BY <1>3 DEF Show, EmptyPanel, SavesHere
<1>4. CASE PageStep
  <2>1. CASE ReadThread
    BY <2>1, EmptySeq DEF ReadThread, SavesHere
  <2>2. CASE ReadMessages
    BY <1>1, <2>2 DEF ReadMessages, SavesHere, WellTyped, PanelRecord
  <2>3. CASE Evict
    BY <1>3, <2>3 DEF Evict
  <2>4. CASE SaveLands \/ SaveRefused
    <3>1. saves # <<>> /\ saves' = Tail(saves) /\ panel' = panel
      BY <2>4 DEF SaveLands, SaveRefused
    <3> QED BY <1>1, <3>1, RestOfSaves DEF SavesHere, WellTyped
  <2> QED BY <1>4, <2>1, <2>2, <2>3, <2>4 DEF PageStep
<1>5. CASE UserStep
  <2>1. CASE VisitIndex \/ \E t \in Threads : OpenThread(t) \/ NewThread(t) \/ EnsureThread(t)
    BY <1>3, <2>1 DEF VisitIndex, OpenThread, NewThread, EnsureThread
  <2>2. ASSUME NEW model \in Models, SetModel(model) PROVE SavesHere'
    <3> DEFINE save == [thread |-> panel.thread, model |-> model]
    <3>1. saves' = Append(saves, save) /\ save.thread = panel.thread /\ panel.stage = "loaded"
      BY <2>2 DEF SetModel
    <3> HIDE DEF save
    <3>2. panel'.thread = panel.thread
      BY <1>1, <2>2 DEF SetModel, WellTyped, PanelRecord
    <3>3. /\ Len(saves') = Len(saves) + 1 /\ saves'[Len(saves) + 1] = save /\ Len(saves) \in Nat
          /\ \A i \in 1..Len(saves) : saves'[i] = saves[i]
      BY <1>1, <3>1, AppendProperties, LenProperties DEF WellTyped
    <3> QED BY <1>1, <3>1, <3>2, <3>3 DEF SavesHere
  <2>3. CASE Cancel \/ (\E t \in Threads : DeleteThread(t)) \/ \E m \in Sends : Send(m)
    BY <1>1, <1>2, <2>3 DEF Cancel, DeleteThread, Send, WellTyped, PanelRecord
  <2>4. CASE Reload
    BY <2>4 DEF Reload, EmptyPanel, SavesHere
  <2> QED BY <1>5, <2>1, <2>2, <2>3, <2>4 DEF UserStep
<1>6. ASSUME NEW m \in Sends, BrowserStep(m) \/ ServerStep(m) PROVE SavesHere'
  <2>1. saves' = saves
    BY <1>6 DEF BrowserStep, ServerStep, Opened, Titled, Retry, AbortLands, Snapshot, Put, WriteFails,
                Delta, ToolEvent, StreamEnds, Drop, Finish
  <2> QED BY <1>1, <1>2, <1>6, <2>1, OneCall
<1>7. CASE StoresKept
  BY <1>2, <1>7 DEF StoresKept
<1>8. CASE UNCHANGED vars
  BY <1>2, <1>8 DEF vars
<1> QED BY <1>4, <1>5, <1>6, <1>7, <1>8, Underneath DEF Next

\* The composer's own state.
LEMMA SettledType ==
  ASSUME NEW open \in Pickers, NEW text \in Drafts
  PROVE  /\ Settled(open, text) \in Pickers
         /\ Settled(open, text) \in {"slash", "mention"} => text = Settled(open, text)
BY DEF Settled, Pickers, Drafts

LEMMA FreshTypes ==
  ASSUME OwnTypes, Fresh, key' \in BOOLEAN, UNCHANGED <<lastModel, granted>>, clearing' \in BOOLEAN
  PROVE  OwnTypes'
BY DEF OwnTypes, Fresh, Drafts, Pickers, Cards

LEMMA ComposerTypes == ASSUME OwnTypes, ComposerStep PROVE OwnTypes'
<1> USE DEF OwnTypes
<1>1. ASSUME UNCHANGED <<stores, keyShown, choiceVars, card>>, keyModal' \in BOOLEAN,
             draft' \in Drafts, picker' \in Pickers,
             picker' \in {"slash", "mention"} => draft' = picker'
      PROVE OwnTypes'
  BY <1>1 DEF stores, choiceVars
<1>2. "empty" \in Drafts /\ "plain" \in Drafts /\ "slash" \in Drafts /\ "mention" \in Drafts
      /\ "none" \in Pickers /\ "model" \in Pickers
  BY DEF Drafts, Pickers
<1>3. ASSUME NEW text \in Drafts, Type(text) PROVE OwnTypes'
  BY <1>1, <1>3, SettledType DEF Type, Idle
<1>4. CASE InsertTrigger \/ PickPrompt \/ \E m \in Sends : Cite(m) \/ Reemit(m)
  BY <1>2, <1>3, <1>4 DEF InsertTrigger, PickPrompt, Cite, Reemit
<1>5. ASSUME NEW m \in Sends, FollowCard(m) PROVE OwnTypes'
  BY <1>5, FreshTypes DEF FollowCard, LoadAnew, Fresh
<1>6. ASSUME NEW m \in Sends, Submit(m) PROVE OwnTypes'
  BY <1>1, <1>2, <1>6, SettledType DEF Submit
<1>7. CASE ToggleModelPicker
  BY <1>1, <1>2, <1>7, SettledType DEF ToggleModelPicker, Idle
<1>8. CASE Escape
  BY <1>1, <1>2, <1>8, SettledType DEF Escape, Idle
<1>9. CASE ChooseCommand \/ MentionRun
  BY <1>1, <1>2, <1>9, SettledType DEF ChooseCommand, MentionRun, Idle
<1>10. ASSUME NEW model \in Models, ChooseModel(model) PROVE OwnTypes'
  BY <1>2, <1>10, SettledType DEF ChooseModel
<1>11. CASE Stop
  BY <1>1, <1>11 DEF Stop, uiVars, panelVars, choiceVars
<1> QED BY <1>3, <1>4, <1>5, <1>6, <1>7, <1>8, <1>9, <1>10, <1>11 DEF ComposerStep

LEMMA OwnTypesKeep == ASSUME OwnTypes, [PanelNext]_allVars PROVE OwnTypes'
<1> USE DEF OwnTypes
<1>1. ASSUME UNCHANGED uiVars PROVE OwnTypes'
  BY <1>1 DEF uiVars, stores, panelVars
<1>2. CASE Navigate \/ LoadAnew
  BY <1>2, FreshTypes DEF Navigate, LoadAnew, Fresh, stores
<1>3. CASE ListStep \/ Background
  BY <1>1, <1>3 DEF ListStep, Background
<1>9. CASE Saving \/ \E model \in Models : \/ OtherTabChooses(model)
                                          \/ \E t \in Threads : OtherTabSaves(t, model)
  BY <1>9 DEF Saving, OtherTabChooses, OtherTabSaves, Overrules, stores
<1>4. ASSUME NEW m \in Sends, ShowToolStep(m) PROVE OwnTypes'
  <2>1. \A payload \in {200, 402, 412}, tool \in Registry : CardFor(payload, tool) \in Cards
    BY DEF CardFor, Cards
  <2>2. card' \in [Sends -> Cards]
    BY <1>4, <2>1 DEF ShowToolStep
  <2> QED BY <1>4, <2>2 DEF ShowToolStep, stores, choiceVars
<1>5. CASE Elsewhere
  BY <1>5 DEF Elsewhere, choiceVars
<1>6. CASE ClearThreads \/ ClearMessages
  BY <1>6 DEF ClearThreads, ClearMessages, panelVars
<1>7. CASE HeaderStep
  BY <1>1, <1>7 DEF choiceVars, HeaderStep, AskForKey, CloseKeyModal, SaveKey, RemoveKey, CommitTitle, KeyUnchanged
<1>8. CASE UNCHANGED allVars
  BY <1>1, <1>8 DEF allVars
<1> QED BY <1>2, <1>3, <1>4, <1>5, <1>6, <1>7, <1>8, <1>9, ComposerTypes DEF PanelNext

\* A step that leaves a choice as it is: of the panel's model, of what is
\* preferred, and of what the thread keeps.
Quiet ==
  /\ UNCHANGED <<choiceVars, lastModel, saves>>
  /\ Shown =>
       /\ Shown' /\ panel'.thread = panel.thread /\ panel'.model = panel.model
       /\ threads'[panel.thread].status = "live" =>
            /\ threads[panel.thread].status = "live"
            /\ threads'[panel.thread].model = threads[panel.thread].model

\* Calls that go on do not touch the panel's model.
LEMMA CallQuiet ==
  ASSUME IInv, NEW m \in Sends, BrowserStep(m) \/ ServerStep(m), UNCHANGED <<choiceVars, lastModel>>
  PROVE  Quiet
<1> USE DEF WellTyped
<1>1. WellTyped /\ OnThread
  BY Types DEF IInv
<1>2. panel'.stage = panel.stage /\ panel'.thread = panel.thread
  BY OneCall
<1>3. panel'.model = panel.model
  BY <1>1 DEF BrowserStep, ServerStep, Opened, Titled, Retry, AbortLands, Snapshot, Put, WriteFails,
              Delta, ToolEvent, StreamEnds, Drop, Finish, PanelRecord
<1>4. ASSUME Shown
      PROVE threads'[panel.thread].status = threads[panel.thread].status
            /\ threads'[panel.thread].model = threads[panel.thread].model
  <2>1. panel.thread \in Threads
    BY <1>1, <1>4 DEF Shown, OnThread
  <2>2. CASE Titled(m)
    BY <1>1, <2>1, <2>2 DEF Titled, ThreadRecord
  <2>3. threads' = threads \/ Titled(m)
    BY DEF BrowserStep, ServerStep, Opened, Retry, AbortLands, Snapshot, Put, WriteFails,
           Delta, ToolEvent, StreamEnds, Drop, Finish
  <2> QED BY <2>2, <2>3
<1>5. saves' = saves
  BY DEF BrowserStep, ServerStep, Opened, Titled, Retry, AbortLands, Snapshot, Put, WriteFails,
         Delta, ToolEvent, StreamEnds, Drop, Finish
<1> QED BY <1>2, <1>3, <1>4, <1>5 DEF Quiet, Shown

LEMMA ListQuiet ==
  ASSUME IInv, NEW t, DeleteThread(t) \/ RenameRow(t), UNCHANGED <<choiceVars, lastModel>>
  PROVE  Quiet
<1>1. WellTyped /\ OnThread
  BY Types DEF IInv
<1>2. panel' = panel /\ saves' = saves
  BY DEF DeleteThread, RenameRow
<1>3. ASSUME Shown, threads'[panel.thread].status = "live"
      PROVE threads[panel.thread].status = "live"
            /\ threads'[panel.thread].model = threads[panel.thread].model
  <2>1. panel.thread \in Threads
    BY <1>1, <1>3 DEF Shown, OnThread
  <2> QED BY <1>1, <1>3, <2>1 DEF DeleteThread, RenameRow, WellTyped, ThreadRecord
<1> QED BY <1>2, <1>3 DEF Quiet, Shown

LEMMA StillQuiet ==
  ASSUME panel' = panel \/ panel' = [panel EXCEPT !.busy = TRUE],
         UNCHANGED <<threads, saves>>, panel \in PanelRecord,
         UNCHANGED <<choiceVars, lastModel>>
  PROVE  Quiet
BY DEF Quiet, Shown, PanelRecord

\* Every step mounts a panel anew, chooses a model, here or in another tab, writes
\* a choice, or leaves the choice as it is.
Unchosen == choice' = NoModel
OtherTab(model) == OtherTabChooses(model) \/ \E t \in Threads : OtherTabSaves(t, model)

LEMMA ChoiceSteps ==
  ASSUME PanelInv, [PanelNext]_allVars
  PROVE  Unchosen \/ Saving \/ Quiet \/ \E model \in Models : ChooseModel(model) \/ OtherTab(model)
<1>1. IInv /\ WellTyped /\ Chosen
  BY Types DEF PanelInv, IInv
<1>2. ASSUME UNCHANGED vars, UNCHANGED <<choiceVars, lastModel>> PROVE Quiet
  BY <1>1, <1>2, StillQuiet DEF vars, WellTyped
<1>3. CASE Navigate \/ LoadAnew
  BY <1>3 DEF Navigate, LoadAnew, Fresh, Unchosen
<1>4. CASE ListStep
  <2>1. PICK t \in Live : DeleteThread(t) \/ RenameRow(t)
    BY <1>4 DEF ListStep
  <2> QED BY <1>1, <1>4, <2>1, ListQuiet DEF ListStep, uiVars, stores, panelVars, choiceVars
<1>5. CASE Background
  <2>0. UNCHANGED <<choiceVars, lastModel>>
    BY <1>5 DEF Background, uiVars, stores, panelVars, choiceVars
  <2>1. CASE ReadThread \/ ReadMessages
    BY <1>1, <2>0, <2>1 DEF ReadThread, ReadMessages, Chosen, Shown, Unchosen, choiceVars
  <2>2. CASE \E m \in Sends : BrowserStep(m) \/ ServerStep(m)
    BY <1>1, <2>0, <2>2, CallQuiet
  <2> QED BY <1>5, <2>1, <2>2 DEF Background, ServerStep
<1>6. CASE \E m \in Sends : ShowToolStep(m)
  <2>1. PICK m \in Sends : ShowToolStep(m)
    BY <1>6
  <2> QED BY <1>1, <2>1, CallQuiet DEF ShowToolStep, ServerStep, stores
<1>7. CASE Elsewhere \/ ClearThreads
  BY <1>1, <1>7 DEF Elsewhere, ClearThreads, panelVars, choiceVars, Chosen, Shown, Unchosen
<1>8. CASE ClearMessages
  BY <1>1, <1>8, StillQuiet DEF ClearMessages, panelVars, choiceVars, WellTyped
<1>9. CASE ComposerStep
  <2>1. CASE \E m \in Sends : FollowCard(m)
    BY <2>1 DEF FollowCard, LoadAnew, Fresh, Unchosen
  <2>2. CASE \E m \in Sends : Submit(m)
    <3>1. PICK m \in Sends : Submit(m)
      BY <2>2
    <3>2. CASE Send(m)
      BY <1>1, <3>1, <3>2, StillQuiet DEF Submit, Send, stores, WellTyped
    <3>3. CASE UNCHANGED vars
      BY <1>2, <3>1, <3>3 DEF Submit, stores
    <3> QED BY <3>1, <3>2, <3>3 DEF Submit
  <2>3. CASE Stop
    BY <1>1, <2>3, StillQuiet DEF Stop, Cancel, uiVars, stores, panelVars, choiceVars, WellTyped
  <2>4. CASE \E text \in Drafts : Type(text)
    BY <1>2, <2>4 DEF Type, Idle, stores
  <2>5. CASE InsertTrigger \/ PickPrompt \/ \E m \in Sends : Cite(m) \/ Reemit(m)
    BY <1>2, <2>5 DEF InsertTrigger, PickPrompt, Cite, Reemit, Type, Idle, stores
  <2>6. CASE ToggleModelPicker \/ Escape \/ ChooseCommand \/ MentionRun
    BY <1>2, <2>6 DEF ToggleModelPicker, Escape, ChooseCommand, MentionRun, Idle, stores
  <2> QED BY <1>9, <2>1, <2>2, <2>3, <2>4, <2>5, <2>6 DEF ComposerStep
<1>10. CASE HeaderStep
  <2>1. CASE CommitTitle
    BY <1>1, <2>1, ListQuiet DEF CommitTitle, uiVars, stores, panelVars, choiceVars
  <2>2. CASE AskForKey \/ CloseKeyModal \/ SaveKey \/ RemoveKey
    BY <1>2, <2>2 DEF AskForKey, CloseKeyModal, SaveKey, RemoveKey, KeyUnchanged
  <2> QED BY <1>10, <2>1, <2>2 DEF HeaderStep
<1>11. CASE UNCHANGED allVars
  BY <1>2, <1>11 DEF allVars, uiVars, stores, panelVars, choiceVars
<1>12. CASE Saving \/ \E model \in Models : \/ OtherTabChooses(model)
                                           \/ \E t \in Threads : OtherTabSaves(t, model)
  BY <1>12 DEF OtherTab
<1> QED BY <1>3, <1>4, <1>5, <1>6, <1>7, <1>8, <1>9, <1>10, <1>11, <1>12 DEF PanelNext

LEMMA ChoiceKeeps == ASSUME PanelInv, [PanelNext]_allVars PROVE Chosen'
<1>1. WellTyped /\ OnThread /\ SavesHere /\ Chosen /\ OwnTypes
  BY Types DEF PanelInv, IInv
<1>2. CASE Unchosen
  BY <1>2 DEF Chosen, Unchosen
<1>3. ASSUME NEW model \in Models, ChooseModel(model) PROVE Chosen'
  <2>1. panel'.model = model /\ panel'.stage = "loaded"
    BY <1>1, <1>3 DEF ChooseModel, SetModel, WellTyped, PanelRecord
  <2> DEFINE save == [thread |-> panel.thread, model |-> model]
  <2>2. saves' = Append(saves, save) /\ save.model = model
    BY <1>3 DEF ChooseModel, SetModel
  <2> HIDE DEF save
  <2>3. saves' # <<>> /\ saves'[Len(saves')] = save
    BY <1>1, <2>2, AppendProperties, LenProperties, EmptySeq DEF WellTyped
  <2> QED BY <1>3, <2>1, <2>2, <2>3 DEF Chosen, Shown, ChooseModel
<1>4. CASE Quiet
  BY <1>1, <1>4 DEF Quiet, Chosen, choiceVars
<1>5. CASE Saving
  <2>1. /\ saves # <<>> /\ saves' = Tail(saves) /\ panel' = panel
        /\ choice' = choice /\ lastModel' = lastModel
        /\ "shown" \in overruled => "shown" \in overruled'
    BY <1>5 DEF Saving, SaveLands, SaveRefused, stores, Overrules
  <2> SUFFICES ASSUME choice # NoModel PROVE Chosen'
    BY <2>1 DEF Chosen
  <2>2. Shown /\ panel.model = choice /\ panel.thread \in Threads
    BY <1>1 DEF Chosen, Shown, OnThread
  <2>3. saves' # <<>> => saves'[Len(saves')].model = choice
    <3> SUFFICES ASSUME saves' # <<>> PROVE saves'[Len(saves')].model = choice
      OBVIOUS
    <3>1. /\ Len(saves) \in Nat \ {0} /\ Len(saves') = Len(saves) - 1
          /\ saves' \in Seq(SaveRecord)
          /\ \A i \in 1..Len(saves') : saves'[i] = saves[i + 1]
      BY <1>1, <2>1, RestOfSaves DEF WellTyped
    <3>2. Len(saves') # 0
      BY <3>1, EmptySeq
    <3>3. Len(saves') \in 1..Len(saves') /\ Len(saves') + 1 = Len(saves)
      BY <3>1, <3>2
    <3>4. saves'[Len(saves')] = saves[Len(saves)]
      BY <3>1, <3>3
    <3> QED BY <1>1, <2>1, <3>4 DEF Chosen
  <2>4. ASSUME threads'[panel.thread].status = "live", saves' = <<>>, "kept" \notin overruled'
        PROVE  threads'[panel.thread].model = choice
    <3>2. /\ Len(saves) \in Nat \ {0} /\ Len(saves') = Len(saves) - 1 /\ Len(saves') = 0
          /\ Head(saves) = saves[1]
      BY <1>1, <2>1, <2>4, RestOfSaves, EmptySeq DEF WellTyped
    <3>3. Len(saves) = 1
      BY <3>2
    <3>4. Head(saves).thread = panel.thread /\ Head(saves).model = choice
      BY <1>1, <2>1, <2>2, <3>2, <3>3 DEF SavesHere, Chosen, Shown
    <3>5. threads[panel.thread] \in ThreadRecord
      BY <1>1, <2>2 DEF WellTyped
    <3>6. CASE SaveLands
      <4>1. threads' = [threads EXCEPT ![panel.thread].model =
                          IF threads[panel.thread].status = "live" THEN choice ELSE @]
        BY <3>4, <3>6 DEF SaveLands
      <4> QED BY <1>1, <2>2, <2>4, <3>5, <4>1 DEF WellTyped, ThreadRecord
    <3>7. CASE SaveRefused /\ Overrules("kept", threads[Head(saves).thread].model)
      <4>1. threads' = threads
        BY <3>7 DEF SaveRefused
      <4>2. choice = threads[Head(saves).thread].model
        BY <2>4, <3>7 DEF Overrules
      <4> QED BY <3>4, <4>1, <4>2
    <3> QED BY <1>5, <3>6, <3>7 DEF Saving
  <2>5. "shown" \notin overruled' => lastModel' = choice
    BY <1>1, <2>1 DEF Chosen
  <2> QED BY <2>1, <2>2, <2>3, <2>4, <2>5 DEF Chosen, Shown
<1>6. ASSUME NEW model \in Models, OtherTabChooses(model) PROVE Chosen'
  BY <1>1, <1>6 DEF OtherTabChooses, Overrules, Chosen, Shown, vars
<1>7. ASSUME NEW model \in Models, NEW t \in Threads, OtherTabSaves(t, model) PROVE Chosen'
  <2>1. UNCHANGED <<saves, panel, lastModel, choice>>
    BY <1>7 DEF OtherTabSaves, stores
  <2>2. CASE t = panel.thread
    <3> SUFFICES ASSUME choice # NoModel PROVE Chosen'
      BY <2>1 DEF Chosen
    <3>1. threads[panel.thread] \in ThreadRecord /\ threads \in [Threads -> ThreadRecord]
      BY <1>1, <2>2 DEF WellTyped
    <3>2. threads'[panel.thread].model = model
      BY <1>7, <2>2, <3>1 DEF OtherTabSaves, ThreadRecord
    <3>3. /\ "shown" \in overruled' <=> "shown" \in overruled
          /\ "kept" \notin overruled' => model = choice
      BY <1>7, <2>2 DEF OtherTabSaves, Overrules
    <3> QED BY <1>1, <2>1, <3>2, <3>3 DEF Chosen, Shown
  <2>3. CASE t # panel.thread
    <3>1. threads'[panel.thread] = threads[panel.thread] /\ overruled' = overruled
      BY <1>1, <1>7, <2>3 DEF OtherTabSaves, WellTyped
    <3> QED BY <1>1, <2>1, <3>1 DEF Chosen, Shown
  <2> QED BY <2>2, <2>3
<1> QED BY <1>2, <1>3, <1>4, <1>5, <1>6, <1>7, ChoiceSteps DEF OtherTab

LEMMA PanelStart == PanelInit => PanelInv
<1> SUFFICES ASSUME PanelInit PROVE PanelInv
  OBVIOUS
<1>1. IInv
  BY InitIInv DEF PanelInit
<1>2. OwnTypes
  BY ChatAssumption DEF PanelInit, OwnTypes, Drafts, Pickers, Cards
<1>3. SavesHere
  BY DEF PanelInit, Init, EmptyPanel, SavesHere
<1> QED BY <1>1, <1>2, <1>3 DEF PanelInv, PanelInit, Chosen

LEMMA PanelStep == PanelInv /\ [PanelNext]_allVars => PanelInv'
<1> SUFFICES ASSUME PanelInv, [PanelNext]_allVars PROVE PanelInv'
  OBVIOUS
<1>1. OwnTypes'
  BY OwnTypesKeep DEF PanelInv
<1> QED BY <1>1, RuntimeKeeps, SavesStayHere, ChoiceKeeps DEF PanelInv

\* The panel's inductive invariant, and with it the runtime's, holds of every
\* reachable state of the chat page (chat-panel.tsx).
THEOREM PanelInvariance == PanelSpec => []PanelInv
BY PanelStart, PanelStep, PTL DEF PanelSpec

\* Type correctness of the panel and of what it stores (chat-panel.tsx,
\* composer.tsx).
THEOREM PanelTyped == PanelSpec => []PanelTypeOK
<1>1. PanelInv => PanelTypeOK
  BY DEF PanelInv, IInv, OwnTypes, PanelTypeOK
<1> QED BY <1>1, PanelInvariance, PTL

\* A choice of model holds until the panel goes: for its sends; for what it shows,
\* but for the choices of other tabs; and in the thread, once its row is written,
\* but for a refusal and the writes of other tabs (handleModelSelect,
\* chat-panel.tsx:100-104; setModel, runtime.ts:106-110).
THEOREM ChoicesHold == PanelSpec => []ChoiceHolds
<1>1. PanelInv => ChoiceHolds
  BY DEF PanelInv, Chosen, ChoiceHolds
<1> QED BY <1>1, PanelInvariance, PTL

\* A call leaves "idle" by its send only.
LEMMA StaysIdle ==
  ASSUME WellTyped, NEW m \in Sends, calls[m].pc = "idle",
         \/ \E t \in Threads : OpenThread(t) \/ NewThread(t) \/ EnsureThread(t) \/ DeleteThread(t)
         \/ \E model \in Models : SetModel(model)
         \/ PageStep \/ VisitIndex \/ Cancel \/ Reload
  PROVE  calls'[m].pc = "idle"
<1>1. calls \in [Sends -> CallRecord]
  BY DEF WellTyped
<1>2. ASSUME NEW t, NEW stage, Show(t, stage) PROVE calls'[m].pc = "idle"
  <2> DEFINE b == calls[m].aborted \/ Aborts(m)
  <2>1. calls'[m] = [calls[m] EXCEPT !.attached = FALSE, !.aborted = b]
    BY <1>2 DEF Show, Detached
  <2> HIDE DEF b
  <2> QED BY <1>1, <2>1 DEF CallRecord
<1>3. CASE \E t \in Threads : OpenThread(t) \/ NewThread(t) \/ EnsureThread(t)
  BY <1>2, <1>3 DEF OpenThread, NewThread, EnsureThread
<1>4. CASE Evict \/ VisitIndex
  BY <1>2, <1>4 DEF Evict, VisitIndex
<1>5. CASE Cancel
  BY <1>1, <1>5 DEF Cancel, CallRecord
<1>6. CASE Reload
  BY <1>1, <1>6 DEF Reload, CallRecord, Running
<1>7. CASE \/ ReadThread \/ ReadMessages \/ SaveLands \/ SaveRefused
           \/ \E t \in Threads : DeleteThread(t)
           \/ \E model \in Models : SetModel(model)
  BY <1>7 DEF ReadThread, ReadMessages, SaveLands, SaveRefused, DeleteThread, SetModel
<1> QED BY <1>3, <1>4, <1>5, <1>6, <1>7 DEF PageStep

LEMMA OtherCallsStayIdle ==
  ASSUME IInv, NEW m \in Sends, calls[m].pc = "idle", NEW n \in Sends, BrowserStep(n) \/ ServerStep(n)
  PROVE  calls'[m].pc = "idle"
<1>1. CASE n # m
  BY <1>1, OneCall
<1>2. CASE n = m
  BY <1>2 DEF BrowserStep, ServerStep, Opened, Titled, Retry, AbortLands, Snapshot, Put, WriteFails,
              Delta, ToolEvent, StreamEnds, Drop, Streams
<1> QED BY <1>1, <1>2

LEMMA OpensBySubmit ==
  ASSUME PanelInv, [PanelNext]_allVars, NEW m \in Sends, calls[m].pc = "idle", calls'[m].pc = "opening"
  PROVE  \E n \in Sends : Submit(n) /\ Send(n)
<1>1. IInv /\ WellTyped
  BY Types DEF PanelInv, IInv
<1>2. ASSUME calls' = calls PROVE FALSE
  BY <1>2
<1>3. ASSUME NEW n \in Sends, BrowserStep(n) \/ ServerStep(n) PROVE FALSE
  BY <1>1, <1>3, OtherCallsStayIdle
<1>4. CASE Navigate \/ LoadAnew \/ \E n \in Sends : FollowCard(n)
  BY <1>1, <1>4, StaysIdle DEF Navigate, LoadAnew, FollowCard, PageStep
<1>5. CASE ListStep
  BY <1>1, <1>2, <1>5, StaysIdle DEF ListStep, RenameRow, Live
<1>6. CASE Background \/ Saving \/ \E n \in Sends : ShowToolStep(n)
  BY <1>1, <1>3, <1>6, StaysIdle DEF Background, Saving, ShowToolStep, ServerStep, PageStep
<1>10. CASE \E model \in Models : OtherTabChooses(model) \/ \E t \in Threads : OtherTabSaves(t, model)
  BY <1>2, <1>10 DEF OtherTabChooses, OtherTabSaves, vars
<1>7. CASE Elsewhere \/ ClearThreads \/ ClearMessages \/ HeaderStep
  BY <1>2, <1>7 DEF Elsewhere, ClearThreads, ClearMessages, vars, HeaderStep, AskForKey, CloseKeyModal,
                    SaveKey, RemoveKey, KeyUnchanged, CommitTitle, RenameRow
<1>8. CASE ComposerStep /\ ~\E n \in Sends : FollowCard(n)
  <2>1. CASE Stop \/ \E model \in Models : ChooseModel(model)
    BY <1>1, <2>1, StaysIdle DEF Stop, ChooseModel
  <2>2. ASSUME NEW n \in Sends, Submit(n) PROVE Send(n)
    BY <1>2, <2>2 DEF Submit, vars
  <2>3. CASE \E text \in Drafts : Type(text)
    BY <1>2, <2>3 DEF Type, Idle, vars
  <2>4. CASE InsertTrigger \/ PickPrompt \/ \E n \in Sends : Cite(n) \/ Reemit(n)
    BY <1>2, <2>4 DEF InsertTrigger, PickPrompt, Cite, Reemit, Type, Idle, vars
  <2>5. CASE ToggleModelPicker \/ Escape \/ ChooseCommand \/ MentionRun
    BY <1>2, <2>5 DEF ToggleModelPicker, Escape, ChooseCommand, MentionRun, Idle, vars
  <2> QED BY <1>8, <2>1, <2>2, <2>3, <2>4, <2>5 DEF ComposerStep
<1>9. CASE UNCHANGED allVars
  BY <1>2, <1>9 DEF allVars, vars
<1> QED BY <1>4, <1>5, <1>6, <1>7, <1>8, <1>9, <1>10 DEF PanelNext

\* No send to an OpenAI model chosen in the panel starts without a key, unless
\* another tab's choice is shown: the panel looks at what is stored, and
\* what its runtime sends to is the choice (handleSubmit, chat-panel.tsx:92-98).
THEOREM NeverKeyless == PanelSpec => NoKeylessSend
<1> DEFINE HasKey(m) ==
      /\ calls[m].pc = "idle" /\ calls'[m].pc = "opening"
      /\ choice # NoModel /\ "shown" \notin overruled
      /\ ProviderOf[calls'[m].model] = "openai"
      => key
<1>1. ASSUME PanelInv, [PanelNext]_allVars PROVE \A m \in Sends : HasKey(m)
  <2> SUFFICES ASSUME NEW m \in Sends, calls[m].pc = "idle", calls'[m].pc = "opening",
                      choice # NoModel, "shown" \notin overruled,
                      ProviderOf[calls'[m].model] = "openai"
               PROVE  key
    OBVIOUS
  <2>1. PICK n \in Sends : Submit(n) /\ Send(n)
    BY <1>1, OpensBySubmit
  <2>2. WellTyped /\ Chosen
    BY <1>1, Types DEF PanelInv, IInv
  <2>3. n = m
    BY <2>1, <2>2 DEF Send, WellTyped
  <2>4. calls'[m].model = panel.model
    BY <2>1, <2>2, <2>3 DEF Send, WellTyped, Unsent
  <2>5. panel.model = lastModel /\ Driver = "openai"
    BY <2>2, <2>4 DEF Chosen, Driver
  <2>6. calls' # calls
    BY <2>2
  <2> QED BY <2>1, <2>5, <2>6 DEF Submit, vars
<1>2. PanelInv /\ [PanelNext]_allVars => [\A m \in Sends : HasKey(m)]_allVars
  BY <1>1
<1> QED BY <1>2, PanelInvariance, PTL DEF PanelSpec, NoKeylessSend

LEMMA PanelRefines == PanelInv /\ [PanelNext]_allVars => [Answers!Next]_Answers!vars
<1> SUFFICES ASSUME PanelInv, [PanelNext]_allVars PROVE [Answers!Next]_Answers!vars
  OBVIOUS
<1>1. CASE [Next]_vars
  BY <1>1, StepRefines DEF PanelInv
<1>2. CASE StoresKept
  <2>1. ASSUME NEW m \in Sends, rows'[m] # rows[m]
        PROVE rows'[m] = NoRow /\ AnswerState(m)' = "gone"
    <3>1. rows'[m] = NoRow /\ calls' = calls
      BY <1>2, <2>1 DEF StoresKept
    <3>2. calls[m].pc \notin {"idle", "opening"}
      BY <2>1, <3>1 DEF PanelInv, IInv, Stored
    <3> QED BY <3>1, <3>2 DEF AnswerState, NoRow
  <2>2. ASSUME NEW m \in Sends, rows'[m] = rows[m]
        PROVE AnswerState(m)' = AnswerState(m) /\ rows'[m].text = rows[m].text
    BY <1>2, <2>2, SameAnswer DEF StoresKept
  <2>3. \A m \in Sends : calls'[m].acc = calls[m].acc
    BY <1>2 DEF StoresKept
  <2> QED BY <2>1, <2>2, <2>3, Forgets DEF NoRow
<1> QED BY <1>1, <1>2, Underneath

\* The promise of the answers holds with the panel around the runtime, and with
\* the settings page clearing what is stored (settings/page.tsx, clearThreads).
THEOREM PanelKeepsAnswers == PanelSpec => AnswersAreKept
<1>1. PanelInit => Answers!Init
  BY InitRefines DEF PanelInit
<1> QED BY <1>1, PanelRefines, PanelInvariance, PTL DEF PanelSpec, AnswersAreKept, Answers!Spec
=============================================================================
