----------------------------- MODULE BoardProofs -----------------------------
(* Theorems about the runs board, the comparison and the session, for any    *)
(* runs, clicks, curves, people and tabs.                                    *)
EXTENDS MCBoard, FiniteSetTheorems, SequenceTheorems, WellFoundedInduction, TLAPS

(****************************************************************************)
(* The session                                                              *)
(****************************************************************************)

\* Who has signed out has no token.  As long as whoami is asked, and once it has
\* been if the request was not one of the old token that went on, what is held is
\* nobody or invalid; and such a request is the only one of a person's.
SignedOut ==
  out => /\ token = Nobody
         /\ late \/ whoAsk \in {"none", Nobody}
         /\ whoAsk # "none" \/ ~late => whoStale \/ whoami \in {Nobody, "unknown"}

SessionInv == SessionTypeOK /\ SignedOut /\ PinsCompose

LEMMA InitiallySession == SessionInit => SessionInv
<1> SUFFICES ASSUME SessionInit PROVE SessionInv
  OBVIOUS
<1>1. Defaults \in Prefs /\ Defaults.pinned = {}
  BY DEF Defaults, Prefs
<1>2. SessionTypeOK
  BY <1>1 DEF SessionInit, SessionTypeOK, Tokens, Screens
<1> QED BY <1>1, <1>2 DEF SessionInit, SessionInv, SignedOut, PinsCompose

LEMMA IdentityKeepsSession ==
  ASSUME SessionInv,
         \/ \E on \in Screens : GoTo(on)
         \/ WhoArrives \/ WhoFails \/ SaveToken \/ SignOut
  PROVE  SessionInv'
<1> USE SessionAssumption DEF SessionInv, Tokens, Screens, Nobody
<1>1. UNCHANGED prefVars
  BY DEF GoTo, WhoArrives, WhoFails, SaveToken, SignOut
<1>2. /\ stored' \in Prefs /\ known' \in [Tabs -> Prefs] /\ meant' \subseteq Pinnable
      /\ crossed' \subseteq Pinnable /\ PinsCompose'
  BY <1>1 DEF prefVars, SessionTypeOK, PinsCompose
<1>3. /\ token' \in Tokens /\ screen' \in Screens
      /\ whoami' \in Tokens \cup {"unknown"} /\ whoStale' \in BOOLEAN
      /\ whoAsk' \in Tokens \cup {"none"} /\ out' \in BOOLEAN /\ late' \in BOOLEAN
      /\ whoStale' => whoami' # "unknown"
      /\ SignedOut'
  <2>1. ASSUME NEW on \in Screens, GoTo(on) PROVE <1>3!:
    BY <2>1 DEF GoTo, AskedOn, SessionTypeOK, SignedOut, prefVars
  <2>2. CASE WhoArrives
    BY <2>2 DEF WhoArrives, SessionTypeOK, SignedOut, prefVars
  <2>3. CASE WhoFails
    BY <2>3 DEF WhoFails, SessionTypeOK, SignedOut, prefVars
  <2>4. CASE SaveToken
    BY <2>4 DEF SaveToken, SessionTypeOK, SignedOut, prefVars
  <2>5. CASE SignOut
    BY <2>5 DEF SignOut, MarksSignOut, Invalidated, WhoIsShown, SessionTypeOK, SignedOut, prefVars
  <2> QED BY <2>1, <2>2, <2>3, <2>4, <2>5
<1> QED BY <1>2, <1>3 DEF SessionTypeOK

\* A write of preferences that agrees with the clicks on all pins that have not
\* crossed.
LEMMA WriteKeepsSession ==
  ASSUME SessionInv, NEW t \in Tabs, NEW prefs \in Prefs, Write(t, prefs),
         meant' \subseteq Pinnable, crossed' \subseteq Pinnable,
         \A r \in Pinnable \ crossed' : r \in prefs.pinned <=> r \in meant'
  PROVE  SessionInv'
<1>1. stored' = prefs /\ known' = [known EXCEPT ![t] = prefs] /\ UNCHANGED idVars
  BY DEF Write
<1>2. known' \in [Tabs -> Prefs]
  BY <1>1 DEF SessionInv, SessionTypeOK
<1> QED BY <1>1, <1>2 DEF SessionInv, SessionTypeOK, SignedOut, PinsCompose, idVars

LEMMA TabsKeepSession ==
  ASSUME SessionInv, NEW t \in Tabs,
         \/ HearsOfPrefs(t)
         \/ \E r \in Pinnable : TogglePin(t, r) \/ Unpin(t, r)
         \/ SetDensity(t)
         \/ \E selected \in SUBSET Pinnable \ {{}} : PinAll(t, selected) \/ UnpinAll(t, selected)
         \/ ClearPins(t) \/ ResetPrefs(t)
  PROVE  SessionInv'
<1>1. /\ stored \in Prefs /\ known[t] \in Prefs
      /\ stored.pinned \subseteq Pinnable /\ stored.dense \in BOOLEAN
      /\ known[t].pinned \subseteq Pinnable /\ known[t].dense \in BOOLEAN
      /\ meant \subseteq Pinnable /\ crossed \subseteq Pinnable
      /\ \A r \in Pinnable \ crossed : r \in stored.pinned <=> r \in meant
  BY DEF SessionInv, SessionTypeOK, PinsCompose, Prefs
<1>2. CASE HearsOfPrefs(t)
  <2>1. known' \in [Tabs -> Prefs] /\ UNCHANGED <<idVars, stored, meant, crossed>>
    BY <1>1, <1>2 DEF HearsOfPrefs, SessionInv, SessionTypeOK
  <2> QED BY <2>1 DEF SessionInv, SessionTypeOK, SignedOut, PinsCompose, idVars
<1>3. ASSUME NEW r \in Pinnable, TogglePin(t, r) PROVE SessionInv'
  <2> DEFINE prefs == [stored EXCEPT !.pinned = Toggled(@, r)]
  <2>1. prefs \in Prefs /\ prefs.pinned = Toggled(stored.pinned, r)
    BY <1>1 DEF Prefs, Toggled
  <2>2. Write(t, prefs) /\ Clicked(t, r)
    BY <1>3 DEF TogglePin
  <2> HIDE DEF prefs
  <2>3. /\ meant' = IF r \in known[t].pinned THEN meant \ {r} ELSE meant \cup {r}
        /\ crossed' = IF r \in known[t].pinned <=> r \in stored.pinned
                      THEN crossed \ {r} ELSE crossed \cup {r}
    BY <2>2 DEF Clicked
  <2>4. meant' \subseteq Pinnable /\ crossed' \subseteq Pinnable
    BY <1>1, <2>3
  <2>5. \A q \in Pinnable \ crossed' : q \in prefs.pinned <=> q \in meant'
    BY <1>1, <2>1, <2>3 DEF Toggled
  <2> QED BY <2>1, <2>2, <2>4, <2>5, WriteKeepsSession
<1>4. CASE SetDensity(t)
  <2> DEFINE prefs == [stored EXCEPT !.dense = ~known[t].dense]
  <2>1. prefs \in Prefs /\ prefs.pinned = stored.pinned
    BY <1>1 DEF Prefs
  <2>2. Write(t, prefs) /\ UNCHANGED <<meant, crossed>>
    BY <1>4 DEF SetDensity
  <2> HIDE DEF prefs
  <2> QED BY <1>1, <2>1, <2>2, WriteKeepsSession
<1>5. ASSUME NEW added \in SUBSET Pinnable, NEW removed \in SUBSET Pinnable,
             SetPins(t, added, removed)
      PROVE  SessionInv'
  <2> DEFINE Changed(pins) == (pins \ removed) \cup added
             unheard == (known[t].pinned \ stored.pinned) \cup (stored.pinned \ known[t].pinned)
             prefs == [stored EXCEPT !.pinned = Changed(known[t].pinned)]
  <2>1. prefs \in Prefs /\ prefs.pinned = Changed(known[t].pinned)
    BY <1>1 DEF Prefs
  <2>2. /\ Write(t, prefs) /\ meant' = Changed(meant)
        /\ crossed' = (crossed \cup unheard) \ (added \cup removed)
    BY <1>5 DEF SetPins
  <2> HIDE DEF prefs
  <2>3. meant' \subseteq Pinnable /\ crossed' \subseteq Pinnable
    BY <1>1, <2>2
  <2>4. \A q \in Pinnable \ crossed' : q \in prefs.pinned <=> q \in meant'
    BY <1>1, <2>1, <2>2
  <2> QED BY <2>1, <2>2, <2>3, <2>4, WriteKeepsSession
<1>6. CASE ClearPins(t)
  <2> DEFINE prefs == [stored EXCEPT !.pinned = {}]
  <2>1. prefs \in Prefs /\ prefs.pinned = {}
    BY <1>1 DEF Prefs
  <2>2. Write(t, prefs) /\ meant' = {} /\ crossed' = {}
    BY <1>6 DEF ClearPins
  <2> HIDE DEF prefs
  <2> QED BY <2>1, <2>2, WriteKeepsSession
<1>7. CASE ResetPrefs(t)
  <2> DEFINE prefs == [stored EXCEPT !.dense = TRUE]
  <2>1. prefs \in Prefs /\ prefs.pinned = stored.pinned
    BY <1>1 DEF Prefs
  <2>2. Write(t, prefs) /\ UNCHANGED <<meant, crossed>>
    BY <1>7 DEF ResetPrefs
  <2> HIDE DEF prefs
  <2> QED BY <1>1, <2>1, <2>2, WriteKeepsSession
<1> QED BY <1>2, <1>3, <1>4, <1>5, <1>6, <1>7 DEF Unpin, PinAll, UnpinAll

LEMMA SessionAlways == SessionSpec => []SessionInv
<1>1. SessionInv /\ [SessionNext]_sessionVars => SessionInv'
  <2> SUFFICES ASSUME SessionInv, [SessionNext]_sessionVars PROVE SessionInv'
    OBVIOUS
  <2>1. CASE UNCHANGED sessionVars
    BY <2>1 DEF sessionVars, idVars, prefVars, SessionInv, SessionTypeOK, SignedOut, PinsCompose
  <2>2. CASE SessionNext
    BY <2>2, IdentityKeepsSession, TabsKeepSession DEF SessionNext
  <2> QED BY <2>1, <2>2
<1> QED BY <1>1, InitiallySession, PTL DEF SessionSpec

LEMMA SessionTyped == SessionSpec => []SessionTypeOK
BY SessionAlways, PTL DEF SessionInv

\* Who has signed out is not taken for the agent whose token has gone, unless the
\* sign-out met a request of whoami with that token that it did not give up, and
\* that was answered; for any people and any order of pages and failures.
THEOREM NobodyAfterSignOut == SessionSpec => []SignedOutIsNobody
<1>1. SessionInv => SignedOutIsNobody
  BY DEF SessionInv, SessionTypeOK, SignedOut, SignedOutIsNobody, IdentityResets, Nobody
<1> QED BY <1>1, SessionAlways, PTL

\* A pin in the browser's storage is as the last clicks in its tabs ask, by what
\* each showed, unless it was last written by a tab that had not heard how it was
\* stored; for any number of tabs and runs.
THEOREM PinsAddUp == SessionSpec => []PinsCompose
BY SessionAlways, PTL DEF SessionInv

(****************************************************************************)
(* The board                                                                *)
(****************************************************************************)

Jobs == [phase : {"idle", "going", "told", "gone"},
         of : SUBSET Runs, todo : SUBSET Runs, now : SUBSET Runs,
         tried : SUBSET Runs, ok : SUBSET Runs, call : {"none", "sent", "done"},
         filter : (SUBSET Statuses) \cup {Palette}]

\* A cancellation is at one run at a time.
OneAtATime(job) ==
  /\ job.now = {} \/ \E r \in Runs : job.now = {r}
  /\ (job.call # "none") = (job.now # {})

\* Whatever was selected is still to be asked for, is being asked for, or has
\* been; and what the server has confirmed, or counts as cancelled, has ended.
Accounted(job, states) ==
  /\ job.phase = "going" => job.of = job.todo \cup job.now \cup job.tried
  /\ job.phase = "told" => job.tried = job.of
  /\ \A r \in job.ok : states[r] = "ended"
  /\ job.call = "done" => \A r \in job.now : states[r] = "ended"

GoodJob(job, states) == job \in Jobs /\ OneAtATime(job) /\ Accounted(job, states)

\* What the board shows, but for the jobs.
PageTypes ==
  /\ status \in [Runs -> Statuses]
  /\ list = <<>> \/ list \in [Runs -> Statuses]
  /\ url \in Urls /\ next \in Urls \cup {Settled}
  /\ at \in {"board", "run", "compare"} /\ asking \in BOOLEAN
  /\ compared \subseteq Runs /\ Cardinality(compared) <= CompareMax

JobsInv ==
  /\ DOMAIN jobs = Clicks /\ jobs = [c \in Clicks |-> jobs[c]]
  /\ \A c \in Clicks : GoodJob(jobs[c], status)

BoardInv == PageTypes /\ JobsInv

LEMMA BoardTypes == BoardInv => BoardTypeOK
<1> SUFFICES ASSUME BoardInv PROVE BoardTypeOK
  OBVIOUS
<1>1. \A c \in Clicks : jobs[c] \in Jobs /\ OneAtATime(jobs[c])
  BY DEF BoardInv, JobsInv, GoodJob
<1>2. jobs \in [Clicks -> Jobs]
  BY <1>1 DEF BoardInv, JobsInv
<1>3. \A c \in Clicks : /\ Cardinality(jobs[c].now) <= 1
                        /\ (jobs[c].call # "none") = (jobs[c].now # {})
  <2> TAKE c \in Clicks
  <2>1. Cardinality(jobs[c].now) \in {0, 1}
    <3>1. jobs[c].now = {} \/ \E r \in Runs : jobs[c].now = {r}
      BY <1>1 DEF OneAtATime
    <3>2. Cardinality({}) = 0 /\ \A r \in Runs : Cardinality({r}) = 1
      BY FS_EmptySet, FS_Singleton
    <3> QED BY <3>1, <3>2
  <2> QED BY <1>1, <2>1 DEF OneAtATime
<1> QED BY <1>2, <1>3 DEF BoardTypeOK, BoardInv, PageTypes, Jobs

\* Ended is for ever, so that what was accounted for stays so.
LEMMA ServerKeepsJobs ==
  ASSUME JobsInv, jobs' = jobs,
         \A r \in Runs : status[r] = "ended" => status'[r] = "ended"
  PROVE  JobsInv'
<1>1. ASSUME NEW c \in Clicks PROVE GoodJob(jobs'[c], status')
  <2>1. GoodJob(jobs[c], status)
    BY DEF JobsInv
  <2>2. jobs[c].ok \subseteq Runs /\ jobs[c].now \subseteq Runs
    BY <2>1 DEF GoodJob, Jobs
  <2> QED BY <2>1, <2>2 DEF GoodJob, OneAtATime, Accounted
<1> QED BY <1>1 DEF JobsInv

\* One job changes.
LEMMA JobKeepsJobs ==
  ASSUME JobsInv, NEW c \in Clicks, NEW job, jobs' = [jobs EXCEPT ![c] = job],
         GoodJob(job, status'), \A r \in Runs : status[r] = "ended" => status'[r] = "ended"
  PROVE  JobsInv'
<1>1. ASSUME NEW d \in Clicks \ {c} PROVE GoodJob(jobs'[d], status')
  <2>1. GoodJob(jobs[d], status) /\ jobs'[d] = jobs[d]
    BY DEF JobsInv
  <2>2. jobs[d].ok \subseteq Runs /\ jobs[d].now \subseteq Runs
    BY <2>1 DEF GoodJob, Jobs
  <2> QED BY <2>1, <2>2 DEF GoodJob, OneAtATime, Accounted
<1>2. jobs'[c] = job
  BY DEF JobsInv
<1> QED BY <1>1, <1>2 DEF JobsInv

LEMMA InitiallyBoard == BoardInit => BoardInv
<1> SUFFICES ASSUME BoardInit PROVE BoardInv
  OBVIOUS
<1>1. PageTypes
  <2>1. compared \subseteq Runs /\ Cardinality(compared) = 0
    BY FS_EmptySet, Zenon DEF BoardInit
  <2>2. Cardinality(compared) <= CompareMax
    BY <2>1, BoardAssumption
  <2> QED BY <2>1, <2>2 DEF BoardInit, PageTypes, Statuses
<1>2. GoodJob(NoJob, status)
  BY DEF GoodJob, NoJob, Jobs, OneAtATime, Accounted
<1>3. JobsInv
  BY <1>2 DEF BoardInit, JobsInv
<1> QED BY <1>1, <1>3 DEF BoardInv

LEMMA ServerKeepsBoard ==
  ASSUME BoardInv, Poll \/ \E r \in Runs : Moves(r)
  PROVE  BoardInv'
<1>1. CASE Poll
  BY <1>1, ServerKeepsJobs DEF Poll, urlVars, BoardInv, PageTypes
<1>2. ASSUME NEW r \in Runs, Moves(r) PROVE BoardInv'
  <2>1. UNCHANGED <<list, urlVars, asking, jobs, compared>> /\ status[r] # "ended"
    BY <1>2 DEF Moves
  <2>2. PICK to \in Statuses : status' = [status EXCEPT ![r] = to]
    BY <1>2 DEF Moves
  <2>3. /\ status' \in [Runs -> Statuses]
        /\ \A s \in Runs : status[s] = "ended" => status'[s] = "ended"
    BY <2>1, <2>2 DEF BoardInv, PageTypes
  <2>4. JobsInv'
    BY <2>1, <2>3, ServerKeepsJobs DEF BoardInv
  <2> QED BY <2>1, <2>3, <2>4 DEF urlVars, BoardInv, PageTypes
<1> QED BY <1>1, <1>2

LEMMA ListedRuns == ASSUME PageTypes PROVE Listed \subseteq Runs /\ Visible \subseteq Runs
<1>1. DOMAIN <<>> = {}
  OBVIOUS
<1> QED BY <1>1 DEF PageTypes, Listed, Visible

LEMMA SelectingKeepsBoard ==
  ASSUME BoardInv, NEW runs \in SUBSET Runs, Select(runs)
  PROVE  BoardInv'
<1>1. next' \in Urls
  BY DEF Select, Replace, BoardInv, PageTypes, Urls
<1>2. UNCHANGED <<status, list, url, at, asking, jobs, compared>>
  BY DEF Select
<1>3. JobsInv'
  BY <1>2, ServerKeepsJobs DEF BoardInv
<1> QED BY <1>1, <1>2, <1>3 DEF BoardInv, PageTypes

\* Everything a user does on the board but for cancelling.
LEMMA BrowsingKeepsBoard ==
  ASSUME BoardInv,
         \/ \E r \in Runs : ToggleRow(r)
         \/ \E range \in SUBSET Runs : SelectRange(range)
         \/ Land \/ ToggleAll \/ ClearSelection \/ ClearFilters
         \/ ToggleStatus("running")
         \/ OpenRun \/ OpenBoard \/ AskToCancel \/ KeepRunning
  PROVE  BoardInv'
<1> USE DEF BoardInv
<1>1. Visible \subseteq Runs /\ url.selected \subseteq Runs /\ url.only \subseteq Statuses
  BY ListedRuns DEF PageTypes, Urls
<1>2. ASSUME NEW r \in Runs, ToggleRow(r) PROVE BoardInv'
  BY <1>1, <1>2, SelectingKeepsBoard DEF ToggleRow
<1>3. ASSUME NEW range \in SUBSET Runs, SelectRange(range) PROVE BoardInv'
  BY <1>1, <1>3, SelectingKeepsBoard DEF SelectRange
<1>4. CASE ToggleAll
  BY <1>1, <1>4, SelectingKeepsBoard DEF ToggleAll
<1>5. Cardinality({}) <= CompareMax
  BY FS_EmptySet, BoardAssumption
<1>6. ASSUME UNCHANGED <<status, jobs>> PROVE JobsInv'
  BY <1>6, ServerKeepsJobs
<1>7. CASE Land
  BY <1>5, <1>6, <1>7 DEF Land, PageTypes
<1>8. CASE ClearSelection
  <2>1. next' \in Urls
    BY <1>1, <1>8 DEF ClearSelection, Replace, PageTypes, Urls
  <2> QED BY <1>6, <1>8, <2>1 DEF ClearSelection, PageTypes
<1>9. ASSUME NEW only \in SUBSET Statuses, Filter(only) PROVE BoardInv'
  <2>1. next' \in Urls
    BY <1>1, <1>9 DEF Filter, Replace, PageTypes, Urls
  <2> QED BY <1>6, <1>9, <2>1 DEF Filter, PageTypes
<1>10. CASE ClearFilters \/ ToggleStatus("running")
  <2>1. "running" \in Statuses
    BY DEF Statuses
  <2> QED BY <1>1, <1>9, <1>10, <2>1 DEF ClearFilters, ToggleStatus
<1>11. CASE OpenRun
  BY <1>5, <1>6, <1>11 DEF OpenRun, PageTypes
<1>12. CASE OpenBoard
  <2>1. Bare \in Urls
    BY DEF Bare, Urls
  <2> QED BY <1>5, <1>6, <1>12, <2>1 DEF OpenBoard, PageTypes
<1>13. CASE AskToCancel \/ KeepRunning
  BY <1>6, <1>13 DEF AskToCancel, KeepRunning, PageTypes, urlVars
<1> QED BY <1>2, <1>3, <1>4, <1>7, <1>8, <1>10, <1>11, <1>12, <1>13

LEMMA ComparingKeepsBoard ==
  ASSUME BoardInv,
         CompareSelected \/ \E r \in Runs : AddCompared(r) \/ RemoveCompared(r)
  PROVE  BoardInv'
<1> USE BoardAssumption DEF BoardInv
<1>1. UNCHANGED <<status, list, url, jobs>> /\ next' = Settled
  BY DEF CompareSelected, AddCompared, RemoveCompared
<1>2. at' \in {"board", "run", "compare"} /\ asking' \in BOOLEAN
  BY DEF CompareSelected, AddCompared, RemoveCompared, PageTypes
<1>3. IsFiniteSet(compared) /\ Cardinality(compared) \in Nat
  BY FS_Subset, FS_CardinalityType DEF PageTypes
<1>4. compared' \subseteq Runs /\ Cardinality(compared') <= CompareMax
  <2>1. CASE CompareSelected
    BY <2>1 DEF CompareSelected, PageTypes, Urls
  <2>2. ASSUME NEW r \in Runs, AddCompared(r) PROVE <1>4!:
    <3>1. Cardinality(compared \cup {r}) =
            IF r \in compared THEN Cardinality(compared) ELSE Cardinality(compared) + 1
      BY <1>3, FS_AddElement, Zenon
    <3>2. Cardinality(compared \cup {r}) <= Cardinality(compared) + 1
      BY <1>3, <3>1
    <3> QED BY <1>3, <2>2, <3>1, <3>2 DEF AddCompared, PageTypes
  <2>3. ASSUME NEW r \in Runs, RemoveCompared(r) PROVE <1>4!:
    <3>1. Cardinality(compared \ {r}) =
            IF r \in compared THEN Cardinality(compared) - 1 ELSE Cardinality(compared)
      BY <1>3, FS_RemoveElement, Zenon
    <3>2. Cardinality(compared \ {r}) <= Cardinality(compared)
      BY <1>3, <3>1
    <3> QED BY <1>3, <2>3, <3>1, <3>2 DEF RemoveCompared, PageTypes
  <2> QED BY <2>1, <2>2, <2>3
<1>5. JobsInv'
  BY <1>1, ServerKeepsJobs
<1> QED BY <1>1, <1>2, <1>4, <1>5 DEF PageTypes


LEMMA CancellingKeepsBoard ==
  ASSUME BoardInv, NEW c \in Clicks, NEW runs \in SUBSET Runs,
         NEW filter \in (SUBSET Statuses) \cup {Palette},
         Start(c, runs, filter), asking' \in BOOLEAN,
         UNCHANGED <<status, list, urlVars, compared>>
  PROVE  BoardInv'
<1> DEFINE job == [NoJob EXCEPT !.phase = "going", !.of = runs, !.todo = runs, !.filter = filter]
<1>1. jobs' = [jobs EXCEPT ![c] = job] /\ status' = status
  BY DEF Start
<1>2. /\ job \in Jobs /\ job.phase = "going" /\ job.of = runs /\ job.todo = runs
      /\ job.now = {} /\ job.tried = {} /\ job.ok = {} /\ job.call = "none"
  BY DEF NoJob, Jobs
<1>3. GoodJob(job, status')
  BY <1>2 DEF GoodJob, OneAtATime, Accounted
<1> HIDE DEF job
<1>4. JobsInv'
  BY <1>1, <1>3, JobKeepsJobs DEF BoardInv
<1> QED BY <1>4 DEF BoardInv, PageTypes, urlVars

\* The loop of a cancellation: next call, its effect, its answer.
LEMMA CallingKeepsBoard ==
  ASSUME BoardInv, NEW c \in Clicks,
         CallNext(c) \/ ServerCancels(c) \/ CallSucceeds(c) \/ CallFails(c)
  PROVE  BoardInv'
<1>1. /\ GoodJob(jobs[c], status) /\ JobsInv /\ PageTypes
      /\ jobs[c] \in Jobs /\ OneAtATime(jobs[c]) /\ Accounted(jobs[c], status)
  BY DEF BoardInv, JobsInv, GoodJob
<1>2. CASE CallNext(c)
  <2>1. PICK r \in jobs[c].todo :
          jobs' = [jobs EXCEPT ![c].todo = @ \ {r}, ![c].now = {r}, ![c].call = "sent"]
    BY <1>2 DEF CallNext
  <2>2. UNCHANGED <<status, list, urlVars, asking, compared>>
        /\ jobs[c].phase = "going" /\ jobs[c].now = {}
    BY <1>2 DEF CallNext
  <2> DEFINE job == [jobs[c] EXCEPT !.todo = @ \ {r}, !.now = {r}, !.call = "sent"]
  <2>3. jobs' = [jobs EXCEPT ![c] = job]
    BY <1>1, <2>1 DEF JobsInv
  <2>4. r \in Runs
    BY <1>1 DEF Jobs
  <2>5. /\ job \in Jobs /\ job.phase = "going" /\ job.of = jobs[c].of /\ job.ok = jobs[c].ok
        /\ job.todo = jobs[c].todo \ {r} /\ job.tried = jobs[c].tried
        /\ job.now = {r} /\ job.call = "sent"
    BY <1>1, <2>2, <2>4 DEF Jobs
  <2> HIDE DEF job
  <2>6. OneAtATime(job)
    BY <2>4, <2>5 DEF OneAtATime
  <2>7. jobs[c].of = jobs[c].todo \cup jobs[c].tried /\ \A s \in jobs[c].ok : status'[s] = "ended"
    BY <1>1, <2>2 DEF Accounted
  <2>8. Accounted(job, status')
    BY <2>1, <2>5, <2>7 DEF Accounted
  <2>9. JobsInv'
    BY <1>1, <2>2, <2>3, <2>5, <2>6, <2>8, JobKeepsJobs DEF GoodJob
  <2> QED BY <1>1, <2>2, <2>9, SMTT(60) DEF BoardInv, PageTypes, urlVars
<1>3. CASE ServerCancels(c)
  <2>1. PICK r \in jobs[c].now \cap Mine :
          /\ jobs[c].call = "sent" /\ status[r] # "ended"
          /\ status' = [status EXCEPT ![r] = "ended"]
          /\ jobs' = [jobs EXCEPT ![c].call = "done"]
          /\ UNCHANGED <<list, urlVars, asking, compared>>
    BY <1>3 DEF ServerCancels
  <2> DEFINE job == [jobs[c] EXCEPT !.call = "done"]
  <2>2. jobs' = [jobs EXCEPT ![c] = job]
    BY <1>1, <2>1 DEF JobsInv
  <2>3. r \in Runs /\ jobs[c].now = {r} /\ jobs[c].ok \subseteq Runs
    BY <1>1, <2>1 DEF Jobs, OneAtATime
  <2>4. /\ status' \in [Runs -> Statuses] /\ status'[r] = "ended"
        /\ \A s \in Runs : status[s] = "ended" => status'[s] = "ended"
    BY <1>1, <2>1, <2>3 DEF PageTypes, Statuses
  <2>5. GoodJob(job, status')
    BY <1>1, <2>1, <2>3, <2>4 DEF GoodJob, Jobs, OneAtATime, Accounted
  <2> HIDE DEF job
  <2>6. JobsInv'
    BY <1>1, <2>2, <2>4, <2>5, JobKeepsJobs
  <2> QED BY <1>1, <2>1, <2>4, <2>6 DEF BoardInv, PageTypes, urlVars
<1>4. ASSUME NEW ok \in SUBSET Runs, \A r \in ok : status[r] = "ended",
             jobs' = [jobs EXCEPT ![c] = [Tried(c) EXCEPT !.ok = ok]],
             UNCHANGED <<status, list, urlVars, asking, compared>>, jobs[c].phase = "going"
      PROVE  BoardInv'
  <2> DEFINE job == [Tried(c) EXCEPT !.ok = ok]
  <2>1. /\ job \in Jobs /\ job.phase = "going" /\ job.of = jobs[c].of /\ job.ok = ok
        /\ job.todo = jobs[c].todo /\ job.tried = jobs[c].tried \cup jobs[c].now
        /\ job.now = {} /\ job.call = "none"
    BY <1>1, <1>4 DEF Tried, Jobs
  <2>2. jobs' = [jobs EXCEPT ![c] = job] /\ status' = status
    BY <1>4
  <2> HIDE DEF job
  <2>3. OneAtATime(job)
    BY <2>1 DEF OneAtATime
  <2>4. jobs[c].of = jobs[c].todo \cup jobs[c].now \cup jobs[c].tried
    BY <1>1, <1>4 DEF Accounted
  <2>5. Accounted(job, status')
    BY <1>4, <2>1, <2>2, <2>4 DEF Accounted
  <2>6. JobsInv'
    BY <1>1, <2>1, <2>2, <2>3, <2>5, JobKeepsJobs DEF GoodJob
  <2> QED BY <1>1, <1>4, <2>6 DEF BoardInv, PageTypes, urlVars
<1>5. CASE CallSucceeds(c)
  <2>1. jobs[c].ok \cup jobs[c].now \in SUBSET Runs
    BY <1>1 DEF Jobs
  <2>2. \A r \in jobs[c].ok \cup jobs[c].now : status[r] = "ended"
    BY <1>1, <1>5 DEF Accounted, CallSucceeds
  <2>3. Tried(c).ok = jobs[c].ok
    BY <1>1 DEF Tried, Jobs
  <2>4. [Tried(c) EXCEPT !.ok = @ \cup jobs[c].now]
          = [Tried(c) EXCEPT !.ok = jobs[c].ok \cup jobs[c].now]
    BY <2>3
  <2> QED BY <1>4, <1>5, <2>1, <2>2, <2>4 DEF CallSucceeds
<1>6. CASE CallFails(c)
  <2>1. jobs[c].ok \in SUBSET Runs /\ \A r \in jobs[c].ok : status[r] = "ended"
    BY <1>1 DEF Jobs, Accounted
  <2>2. [Tried(c) EXCEPT !.ok = jobs[c].ok] = Tried(c)
    BY <1>1 DEF Tried, Jobs
  <2> QED BY <1>4, <1>6, <2>1, <2>2 DEF CallFails
<1> QED BY <1>2, <1>3, <1>5, <1>6

LEMMA ReportingKeepsBoard ==
  ASSUME BoardInv, NEW c \in Clicks, Report(c) \/ ReportOne(c)
  PROVE  BoardInv'
<1>1. /\ GoodJob(jobs[c], status) /\ JobsInv /\ PageTypes
      /\ jobs[c] \in Jobs /\ OneAtATime(jobs[c]) /\ Accounted(jobs[c], status)
  BY DEF BoardInv, JobsInv, GoodJob
<1> DEFINE job == [jobs[c] EXCEPT !.phase = "told", !.filter = {}]
<1>2. /\ jobs' = [jobs EXCEPT ![c] = job]
      /\ UNCHANGED <<status, url, at, asking, compared>>
      /\ jobs[c].phase = "going" /\ jobs[c].todo = {} /\ jobs[c].now = {}
  BY <1>1 DEF Report, ReportOne, AllCalled, urlVars, JobsInv
<1>3. GoodJob(job, status')
  BY <1>1, <1>2 DEF GoodJob, Jobs, OneAtATime, Accounted
<1> HIDE DEF job
<1>4. JobsInv'
  BY <1>1, <1>2, <1>3, JobKeepsJobs
<1>5. next' \in Urls \cup {Settled} /\ (list' = <<>> \/ list' \in [Runs -> Statuses])
  <2>1. CASE Report(c)
    <3>1. jobs[c].filter \in (SUBSET Statuses) \cup {Palette}
      BY <1>1 DEF Jobs
    <3>2. jobs[c].filter \in SUBSET Statuses
      BY <2>1, <3>1, Zenon DEF Report
    <3> QED BY <1>1, <2>1, <3>2 DEF Report, Replace, Urls, PageTypes
  <2>2. CASE ReportOne(c)
    BY <1>1, <2>2 DEF ReportOne, urlVars, PageTypes
  <2> QED BY <2>1, <2>2
<1> QED BY <1>1, <1>2, <1>4, <1>5 DEF BoardInv, PageTypes

LEMMA ReloadKeepsBoard ==
  ASSUME BoardInv, Reload PROVE BoardInv'
<1>1. /\ list' = <<>> /\ next' = Settled /\ asking' = FALSE
      /\ UNCHANGED <<status, url, at, compared>>
  BY DEF Reload
<1>2. ASSUME NEW c \in Clicks PROVE GoodJob(jobs'[c], status')
  <2>1. /\ GoodJob(jobs[c], status)
        /\ jobs'[c] = jobs[c] \/ jobs'[c] = [NoJob EXCEPT !.phase = "gone"]
    BY DEF BoardInv, JobsInv, Reload
  <2>2. CASE jobs'[c] = jobs[c]
    BY <1>1, <2>1, <2>2 DEF GoodJob, OneAtATime, Accounted
  <2>3. CASE jobs'[c] = [NoJob EXCEPT !.phase = "gone"]
    BY <1>1, <2>3 DEF GoodJob, Jobs, OneAtATime, Accounted, NoJob
  <2> QED BY <2>1, <2>2, <2>3
<1>3. JobsInv'
  BY <1>2 DEF Reload, BoardInv, JobsInv
<1> QED BY <1>1, <1>3 DEF BoardInv, PageTypes

LEMMA BoardAlways == BoardSpec => []BoardInv
<1>1. BoardInv /\ [BoardNext]_boardVars => BoardInv'
  <2> SUFFICES ASSUME BoardInv, [BoardNext]_boardVars PROVE BoardInv'
    OBVIOUS
  <2>1. CASE UNCHANGED boardVars
    <3>1. JobsInv'
      BY <2>1, ServerKeepsJobs DEF boardVars, BoardInv
    <3> QED BY <2>1, <3>1 DEF boardVars, urlVars, BoardInv, PageTypes
  <2>2. ASSUME NEW r \in Runs, Moves(r) \/ ToggleRow(r) \/ AddCompared(r) \/ RemoveCompared(r)
        PROVE  BoardInv'
    BY <2>2, ServerKeepsBoard, BrowsingKeepsBoard, ComparingKeepsBoard
  <2>3. ASSUME NEW range \in SUBSET Runs, SelectRange(range) PROVE BoardInv'
    BY <2>3, BrowsingKeepsBoard
  <2>4. CASE \/ Land \/ ToggleAll \/ ClearSelection \/ ClearFilters \/ ToggleStatus("running")
             \/ OpenRun \/ OpenBoard \/ AskToCancel \/ KeepRunning
    BY <2>4, BrowsingKeepsBoard
  <2>5. CASE Poll \/ CompareSelected \/ Reload
    BY <2>5, ServerKeepsBoard, ComparingKeepsBoard, ReloadKeepsBoard
  <2>6. ASSUME NEW c \in Clicks, CancelAll(c) \/ \E r \in Runs : CancelFromPalette(c, r)
        PROVE  BoardInv'
    <3>1. url.selected \subseteq Runs /\ url.only \subseteq Statuses /\ asking \in BOOLEAN
      BY DEF BoardInv, PageTypes, Urls
    <3>2. CASE CancelAll(c)
      BY <3>1, <3>2, CancellingKeepsBoard DEF CancelAll
    <3>3. ASSUME NEW r \in Runs, CancelFromPalette(c, r) PROVE BoardInv'
      <4>1. /\ Start(c, {r}, Palette) /\ asking' = asking
            /\ UNCHANGED <<status, list, urlVars, compared>>
        BY <3>3 DEF CancelFromPalette
      <4>2. {r} \in SUBSET Runs /\ Palette \in (SUBSET Statuses) \cup {Palette}
        OBVIOUS
      <4> QED BY <3>1, <4>1, <4>2, CancellingKeepsBoard
    <3> QED BY <2>6, <3>2, <3>3
  <2>7. ASSUME NEW c \in Clicks,
               \/ CallNext(c) \/ ServerCancels(c) \/ CallSucceeds(c) \/ CallFails(c)
               \/ Report(c) \/ ReportOne(c)
        PROVE  BoardInv'
    BY <2>7, CallingKeepsBoard, ReportingKeepsBoard
  <2> QED BY <2>1, <2>2, <2>3, <2>4, <2>5, <2>6, <2>7 DEF BoardNext
<1> QED BY <1>1, InitiallyBoard, PTL DEF BoardSpec

\* When a cancellation is reported, every run that was selected has been asked for,
\* and those it counts as cancelled have ended, whatever failed on the way and
\* wherever the user has gone, for any runs and any number of cancellations.
THEOREM ReportsAreHonest == BoardSpec => []ReportIsHonest
<1>1. BoardInv => ReportIsHonest
  BY DEF BoardInv, JobsInv, GoodJob, Accounted, ReportIsHonest
<1> QED BY <1>1, BoardAlways, PTL

(****************************************************************************)
(* The comparison.  A line shown alone leaves none hidden: a long press     *)
(* clears what clicks had hidden, a click ends the solo, and a chart that   *)
(* goes forgets both.                                                       *)
(****************************************************************************)

PickedInv == picked \subseteq Curves /\ Cardinality(picked) <= CurvesMax
TimersInv == timers \in Seq(Curves) /\ Len(timers) <= MaxTimers

CompareInv ==
  /\ PickedInv /\ TimersInv
  /\ arrived \subseteq Curves
  /\ muted \subseteq Curves /\ solo \in Curves \cup {None}
  /\ current \in BOOLEAN /\ down \in BOOLEAN
  /\ current => timers # <<>>
  /\ solo # None => muted = {}

LEMMA CompareTypes == CompareInv => CompareTypeOK
<1>1. TimersInv => \A i \in DOMAIN timers : timers[i] \in Curves
  BY DEF TimersInv
<1> QED BY <1>1 DEF CompareInv, PickedInv, TimersInv, CompareTypeOK

\* As many runs as there may be: picking one adds at most one, dropping one none.
LEMMA PickedFew ==
  ASSUME NEW v \in Curves, picked \subseteq Curves, Cardinality(picked) <= CurvesMax
  PROVE  /\ Cardinality(picked) < CurvesMax => Cardinality(picked \cup {v}) <= CurvesMax
         /\ Cardinality(picked \ {v}) <= CurvesMax
<1>1. CurvesMax \in Nat
  BY CompareAssumption
<1>2. IsFiniteSet(picked) /\ Cardinality(picked) \in Nat
  BY CompareAssumption, FS_Subset, FS_CardinalityType, Zenon
<1>3. Cardinality(picked \cup {v}) =
        IF v \in picked THEN Cardinality(picked) ELSE Cardinality(picked) + 1
  BY <1>2, FS_AddElement, Zenon
<1>4. Cardinality(picked \ {v}) =
        IF v \in picked THEN Cardinality(picked) - 1 ELSE Cardinality(picked)
  BY <1>2, FS_RemoveElement, Zenon
<1>5. Cardinality(picked \cup {v}) <= Cardinality(picked) + 1
  BY <1>2, <1>3
<1>6. Cardinality(picked \ {v}) <= Cardinality(picked)
  BY <1>2, <1>4
<1> HIDE DEF CompareAssumption
<1>7. Cardinality(picked \cup {v}) \in Nat /\ Cardinality(picked \ {v}) \in Nat
  BY <1>2, FS_AddElement, FS_RemoveElement, FS_CardinalityType, Zenon
<1> QED BY <1>1, <1>2, <1>5, <1>6, <1>7

LEMMA NoTimers == <<>> \in Seq(Curves) /\ Len(<<>>) <= MaxTimers
BY CompareAssumption

LEMMA InitiallyCompare == CompareInit => CompareInv
<1> SUFFICES ASSUME CompareInit PROVE CompareInv
  OBVIOUS
<1>1. PickedInv /\ TimersInv
  BY NoTimers, Zenon DEF CompareInit, PickedInv, TimersInv
<1> QED BY <1>1, Zenon DEF CompareInit, CompareInv

\* The runs compared change, or their metrics come: the chart stays or goes.
LEMMA KeepChartKeepsCompare ==
  ASSUME CompareInv, KeepChart, PickedInv', arrived' \subseteq Curves
  PROVE  CompareInv'
<1>1. CASE UNCHANGED chartState
  BY <1>1 DEF CompareInv, TimersInv, chartState
<1>2. CASE muted' = {} /\ solo' = None /\ timers' = <<>> /\ current' = FALSE /\ down' = FALSE
  <2>1. TimersInv'
    BY <1>2, NoTimers, Zenon DEF TimersInv
  <2> QED BY <1>2, <2>1, Zenon DEF CompareInv
<1> QED BY <1>1, <1>2 DEF KeepChart

LEMMA PagesKeepCompare ==
  ASSUME CompareInv, LeaveCompare \/ \E v \in Curves : Pick(v) \/ Unpick(v) \/ MetricsArrive(v)
  PROVE  CompareInv'
<1>1. ASSUME NEW v \in Curves, Pick(v) \/ Unpick(v) PROVE CompareInv'
  <2>1. PickedInv'
    BY <1>1, PickedFew DEF CompareInv, PickedInv, Pick, Unpick
  <2> QED BY <1>1, <2>1, KeepChartKeepsCompare DEF CompareInv, Pick, Unpick
<1>2. ASSUME NEW v \in Curves, MetricsArrive(v) PROVE CompareInv'
  <2>1. PickedInv' /\ arrived' \subseteq Curves
    BY <1>2 DEF MetricsArrive, CompareInv, PickedInv
  <2> QED BY <1>2, <2>1, KeepChartKeepsCompare DEF MetricsArrive
<1>3. CASE LeaveCompare
  <2>1. PickedInv' /\ TimersInv'
    BY <1>3, NoTimers, Zenon DEF LeaveCompare, PickedInv, TimersInv
  <2> QED BY <1>3, <2>1, Zenon DEF CompareInv, LeaveCompare
<1> QED BY <1>1, <1>2, <1>3

LEMMA PressingKeepsCompare ==
  ASSUME CompareInv, LongPress \/ ReleaseElsewhere \/ \E v \in Curves : Press(v) \/ Release(v)
  PROVE  CompareInv'
<1>1. PickedInv /\ TimersInv /\ timers \in Seq(Curves)
  BY DEF CompareInv, TimersInv
<1>2. UNCHANGED picked
  BY DEF LongPress, ReleaseElsewhere, Press, Release
<1>3. PickedInv'
  BY <1>1, <1>2 DEF PickedInv
<1>4. ASSUME NEW v \in Curves, Press(v) PROVE CompareInv'
  <2>1. TimersInv' /\ timers' # <<>>
    BY <1>1, <1>4, CompareAssumption DEF Press, TimersInv
  <2> QED BY <1>3, <1>4, <2>1, Zenon DEF CompareInv, Press
<1>5. CASE LongPress
  <2> timers # <<>> /\ timers' = Tail(timers)
    BY <1>5, Zenon DEF LongPress
  <2>1. /\ Head(timers) \in Curves /\ Tail(timers) \in Seq(Curves)
        /\ Len(Tail(timers)) = Len(timers) - 1
    BY <1>1, HeadTailProperties, Zenon
  <2>4. TimersInv' /\ (Len(timers) > 1 => Tail(timers) # <<>>)
    <3>1. Len(timers) \in Nat /\ Len(timers) <= MaxTimers /\ MaxTimers \in Nat
      BY <1>1, CompareAssumption DEF TimersInv
    <3>2. Len(Tail(timers)) <= MaxTimers /\ (Len(timers) > 1 => Len(Tail(timers)) # 0)
      BY <2>1, <3>1
    <3>3. Len(<<>>) = 0
      OBVIOUS
    <3> QED BY <2>1, <3>2, <3>3, Zenon DEF TimersInv
  <2>2. /\ UNCHANGED <<arrived, down>> /\ muted' = {}
        /\ solo' = IF solo = Head(timers) THEN None ELSE Head(timers)
    BY <1>5, Zenon DEF LongPress
  <2>3. current' \in BOOLEAN /\ (current' => timers' # <<>>)
    BY <1>5, <2>4, Zenon DEF LongPress
  <2> QED BY <1>3, <2>1, <2>2, <2>3, <2>4, Zenon DEF CompareInv
<1>6. ASSUME NEW v \in Curves, Release(v) PROVE CompareInv'
  <2>1. ASSUME timers # <<>>
        PROVE  Front(timers) \in Seq(Curves) /\ Len(Front(timers)) = Len(timers) - 1
    <3>1. Len(timers) \in Nat \ {0} /\ \A i \in 1..Len(timers) : timers[i] \in Curves
      BY <1>1, <2>1
    <3> DEFINE n == Len(timers) - 1
    <3>2. n \in Int /\ 1 \in Int /\ \A i \in 1..n : timers[i] \in Curves
      BY <3>1
    <3>3. n >= 0 /\ n = Len(timers) - 1
      BY <3>1
    <3>4. Front(timers) = SubSeq(timers, 1, n)
      BY DEF Front
    <3> HIDE DEF n
    <3>5. /\ SubSeq(timers, 1, n) \in Seq(Curves)
          /\ Len(SubSeq(timers, 1, n)) = IF 1 <= n THEN n - 1 + 1 ELSE 0
      BY <3>2, SubSeqProperties
    <3>6. Len(SubSeq(timers, 1, n)) = n
      BY <3>2, <3>3, <3>5
    <3> QED BY <3>3, <3>4, <3>5, <3>6
  <2>2. timers # <<>> => Len(Front(timers)) <= MaxTimers
    BY <1>1, <2>1, CompareAssumption DEF TimersInv
  <2>3. current => timers # <<>>
    BY DEF CompareInv
  <2>4. TimersInv'
    BY <1>1, <1>6, <2>1, <2>2, <2>3, Zenon DEF Release, TimersInv
  <2> QED BY <1>3, <1>6, <2>4, Zenon DEF CompareInv, Release
<1>7. CASE ReleaseElsewhere
  BY <1>3, <1>7, Zenon DEF CompareInv, TimersInv, ReleaseElsewhere
<1> QED BY <1>4, <1>5, <1>6, <1>7

LEMMA CompareAlways == CompareSpec => []CompareInv
<1>1. CompareInv /\ [CompareNext]_compareVars => CompareInv'
  <2> SUFFICES ASSUME CompareInv, [CompareNext]_compareVars PROVE CompareInv'
    OBVIOUS
  <2>1. CASE UNCHANGED compareVars
    BY <2>1 DEF compareVars, chartState, CompareInv, PickedInv, TimersInv
  <2>2. CASE CompareNext
    BY <2>2, PagesKeepCompare, PressingKeepsCompare DEF CompareNext
  <2> QED BY <2>1, <2>2
<1> QED BY <1>1, InitiallyCompare, PTL DEF CompareSpec

LEMMA CompareTyped == CompareSpec => []CompareTypeOK
BY CompareAlways, CompareTypes, PTL

\* A solo that ends, by a click, a second long press or the chart's going, leaves
\* at most the clicked line hidden, for any curves and any presses that cross.
THEOREM SolosEndClean == CompareSpec => SoloEndsClean
<1>1. ASSUME CompareInv, [CompareNext]_compareVars
      PROVE  [solo # None /\ solo' = None => Cardinality(picked' \ Lines') <= 1]_compareVars
  <2> SUFFICES ASSUME CompareNext, solo # None, solo' = None
               PROVE  Cardinality(picked' \ Lines') <= 1
    BY <1>1
  <2>1. muted = {}
    BY <1>1 DEF CompareInv
  <2>2. picked' \ Lines' = picked' \cap muted'
    BY DEF Lines
  <2>3. muted' = {} \/ \E v \in Curves : muted' = {v}
    BY <2>1 DEF CompareNext, Pick, Unpick, MetricsArrive, LeaveCompare, KeepChart, chartState,
                Press, Release, LongPress, ReleaseElsewhere
  <2>4. picked' \cap muted' = {} \/ \E v \in Curves : picked' \cap muted' = {v}
    BY <2>3
  <2>5. Cardinality(picked' \ Lines') \in {0, 1}
    BY <2>2, <2>4, FS_EmptySet, FS_Singleton, Zenon
  <2> QED BY <2>5
<1> QED BY <1>1, CompareAlways, PTL DEF CompareSpec, SoloEndsClean

-----------------------------------------------------------------------------
(* The table: folds over a row of any length                                 *)

LEMMA SmallestIn ==
  ASSUME NEW T \in SUBSET Nat, T # {}
  PROVE  \E x \in T : \A y \in T : x <= y
<1> DEFINE Less == {ss \in Nat \X Nat : ss[1] < ss[2]}
<1>1. IsWellFoundedOn(Less, Nat)
  BY NatLessThanWellFounded, Zenon DEF OpToRel
<1>2. \A x, y \in Nat : <<y, x>> \in Less <=> y < x
  OBVIOUS
<1> HIDE DEF Less
<1>3. PICK x \in T : \A y \in T : ~(<<y, x>> \in Less)
  BY <1>1, WFMin, Zenon
<1>4. ASSUME NEW y \in T PROVE x <= y
  <2>1. ~(y < x) /\ x \in Nat /\ y \in Nat
    BY <1>2, <1>3
  <2> QED BY <2>1
<1> QED BY <1>4

\* The two folds of the table: the values seen so far, and the best of them.
Sees(seen, v) == IF v = Missing \/ Contains(seen, v) THEN seen ELSE Append(seen, v)

Prefers(row, mode, v) ==
  IF mode = Missing \/ Count(row, v) > Count(row, mode) THEN v ELSE mode

Base(way) == IF way = "distinct" THEN <<>> ELSE Missing

Adds(way, row, a, v) == IF way = "distinct" THEN Sees(a, v) ELSE Prefers(row, a, v)

\* FoldLeft takes the greatest index off a set of indices, and so on.
Fold(way, row, all, f, D) ==
  [I \in SUBSET D |->
     IF I = {} THEN Base(way) ELSE Adds(way, row, f[I \ {Max(I)}], all[Max(I)])]

Folded(way, row, all) ==
  (CHOOSE f : f = Fold(way, row, all, f, DOMAIN all))[DOMAIN all]

LEMMA DistinctFolds == ASSUME NEW row PROVE Distinct(row) = Folded("distinct", row, row)
BY DEF Distinct, FoldLeft, MapThenFoldSet, Folded, Fold, Adds, Base, Sees

LEMMA ModeFolds == ASSUME NEW row PROVE Mode(row) = Folded("mode", row, Distinct(row))
<1> DEFINE all == Distinct(row)
<1>1. Mode(row) = FoldLeft(LAMBDA mode, v : IF mode = Missing \/ Count(row, v) > Count(row, mode)
                                            THEN v ELSE mode, Missing, all)
  BY DEF Mode
<1> HIDE DEF all
<1>2. FoldLeft(LAMBDA mode, v : IF mode = Missing \/ Count(row, v) > Count(row, mode)
                                THEN v ELSE mode, Missing, all) = Folded("mode", row, all)
  BY DEF FoldLeft, MapThenFoldSet, Folded, Fold, Adds, Base, Prefers
<1> QED BY <1>1, <1>2 DEF all

LEMMA MaxOfInterval == ASSUME NEW m \in Nat, NEW I \in SUBSET (1..m), m \in I PROVE Max(I) = m
<1>1. \A y \in I : m >= y
  OBVIOUS
<1>2. \A x \in I : (\A y \in I : x >= y) => x = m
  BY <1>1
<1> QED BY <1>1, <1>2 DEF Max

\* The recursion has a solution, for one index more if for all smaller ones.
LEMMA FoldExists ==
  ASSUME NEW way, NEW row, NEW all, NEW n \in Nat
  PROVE  \E f : f = Fold(way, row, all, f, 1..n)
<1> DEFINE Lacking == {m \in Nat : ~\E f : f = Fold(way, row, all, f, 1..m)}
<1>1. SUFFICES Lacking = {}
  OBVIOUS
<1>2. SUFFICES ASSUME Lacking # {} PROVE FALSE
  OBVIOUS
<1>3. PICK m \in Lacking : \A k \in Lacking : m <= k
  BY <1>2, SmallestIn
<1>4. m \in Nat /\ ~\E f : f = Fold(way, row, all, f, 1..m)
  OBVIOUS
<1>5. CASE m = 0
  <2> DEFINE f == [I \in {{}} |-> Base(way)]
  <2>1. SUBSET (1..m) = {{}}
    BY <1>5
  <2>2. f = Fold(way, row, all, f, 1..m)
    BY <2>1 DEF Fold
  <2> QED BY <1>4, <2>2
<1>6. CASE m > 0
  <2>1. m - 1 \in Nat /\ m - 1 \notin Lacking
    BY <1>3, <1>4, <1>6
  <2>2. PICK f : f = Fold(way, row, all, f, 1..(m - 1))
    BY <2>1
  <2> DEFINE g == [I \in SUBSET (1..m) |->
                     IF m \in I THEN Adds(way, row, f[I \ {m}], all[m]) ELSE f[I]]
  <2>3. ASSUME NEW I \in SUBSET (1..m)
        PROVE g[I] = IF I = {} THEN Base(way)
                     ELSE Adds(way, row, g[I \ {Max(I)}], all[Max(I)])
    <3>1. CASE m \in I
      <4>1. Max(I) = m
        BY <1>4, <3>1, MaxOfInterval
      <4>2. I \ {m} \in SUBSET (1..m) /\ m \notin I \ {m} /\ I # {}
        BY <3>1
      <4> QED BY <3>1, <4>1, <4>2
    <3>2. CASE m \notin I
      <4>1. I \in SUBSET (1..(m - 1))
        BY <1>4, <3>2
      <4>2. I \ {Max(I)} \in SUBSET (1..m) /\ m \notin I \ {Max(I)}
        BY <3>2
      <4>3. f[I] = IF I = {} THEN Base(way)
                   ELSE Adds(way, row, f[I \ {Max(I)}], all[Max(I)])
        BY <2>2, <4>1 DEF Fold
      <4> QED BY <3>2, <4>2, <4>3
    <3> QED BY <3>1, <3>2
  <2>4. g = Fold(way, row, all, g, 1..m)
    <3>1. g = [I \in SUBSET (1..m) |-> g[I]]
      OBVIOUS
    <3> HIDE DEF g
    <3> QED BY <2>3, <3>1 DEF Fold
  <2> QED BY <1>4, <2>4
<1> QED BY <1>4, <1>5, <1>6

\* What is had after each element.
Steps(way, row, all, g) ==
  /\ g[0] = Base(way) /\ g[Len(all)] = Folded(way, row, all)
  /\ \A m \in 1..Len(all) : g[m] = Adds(way, row, g[m - 1], all[m])

LEMMA FoldedBy ==
  ASSUME NEW way, NEW row, NEW all, Len(all) \in Nat, DOMAIN all = 1..Len(all)
  PROVE  \E g : Steps(way, row, all, g)
<1> DEFINE n == Len(all)
           f == CHOOSE f : f = Fold(way, row, all, f, 1..n)
           g == [m \in 0..n |-> f[1..m]]
<1>1. n \in Nat /\ DOMAIN all = 1..n
  OBVIOUS
<1>2. f = Fold(way, row, all, f, 1..n)
  BY <1>1, FoldExists
<1>3. Folded(way, row, all) = f[1..n]
  BY <1>1 DEF Folded
<1> HIDE DEF f
<1>4. g[0] = Base(way)
  <2>1. 1..0 = {} /\ 0 \in 0..n /\ {} \in SUBSET (1..n)
    BY <1>1
  <2>2. f[{}] = Base(way)
    BY <1>2, <2>1 DEF Fold
  <2> QED BY <2>1, <2>2
<1>5. ASSUME NEW m \in 1..n PROVE g[m] = Adds(way, row, g[m - 1], all[m])
  <2>1. 1..m \in SUBSET (1..n) /\ m \in 1..m /\ m \in Nat /\ m \in 0..n /\ m - 1 \in 0..n
    BY <1>1
  <2>2. Max(1..m) = m
    BY <2>1, MaxOfInterval
  <2>3. (1..m) \ {m} = 1..(m - 1)
    BY <2>1
  <2>4. f[1..m] = Adds(way, row, f[1..(m - 1)], all[m])
    BY <1>2, <2>1, <2>2, <2>3 DEF Fold
  <2> QED BY <2>1, <2>4
<1>6. g[n] = Folded(way, row, all)
  BY <1>1, <1>3
<1>7. Steps(way, row, all, g)
  BY <1>4, <1>5, <1>6 DEF Steps
<1> QED BY <1>7

LEMMA SeesOne ==
  ASSUME NEW q \in Seq(Values), NEW v \in Values \cup {Missing}
  PROVE  /\ Sees(q, v) \in Seq(Values)
         /\ \A t : Contains(Sees(q, v), t) <=> Contains(q, t) \/ (t = v /\ v # Missing)
<1>1. CASE v = Missing \/ Contains(q, v)
  BY <1>1 DEF Sees, Contains
<1>2. CASE v # Missing /\ ~Contains(q, v)
  <2> DEFINE w == Append(q, v)
  <2>1. Sees(q, v) = w
    BY <1>2 DEF Sees
  <2>2. /\ w \in Seq(Values) /\ Len(w) = Len(q) + 1 /\ Len(q) \in Nat
        /\ \A i \in 1..Len(q) : w[i] = q[i] /\ i \in 1..Len(w)
        /\ w[Len(q) + 1] = v /\ Len(q) + 1 \in 1..Len(w)
    BY <1>2
  <2> HIDE DEF w
  <2>3. \A i \in 1..Len(w) : i \in 1..Len(q) \/ i = Len(q) + 1
    BY <2>2
  <2>4. \A t : Contains(w, t) <=> Contains(q, t) \/ t = v
    BY <2>2, <2>3 DEF Contains
  <2> QED BY <1>2, <2>1, <2>2, <2>4
<1> QED BY <1>1, <1>2

\* The values of a row, none missing.
LEMMA DistinctKeeps ==
  ASSUME NEW row \in Seq(Values \cup {Missing})
  PROVE  /\ Distinct(row) \in Seq(Values)
         /\ \A t : Contains(Distinct(row), t) <=> t # Missing /\ Contains(row, t)
<1>0. Len(row) \in Nat /\ DOMAIN row = 1..Len(row)
  OBVIOUS
<1>1. PICK g : Steps("distinct", row, row, g)
  BY <1>0, FoldedBy
<1> DEFINE n == Len(row)
           Good(m) == /\ g[m] \in Seq(Values)
                      /\ \A t : Contains(g[m], t) <=> t # Missing /\ \E i \in 1..m : row[i] = t
           Bad == {m \in 0..n : ~Good(m)}
<1>2. n \in Nat /\ \A i \in 1..n : row[i] \in Values \cup {Missing}
  OBVIOUS
<1>3. g[0] = <<>> /\ \A m \in 1..n : g[m] = Sees(g[m - 1], row[m])
  BY <1>1 DEF Steps, Base, Adds
<1>4. ASSUME Bad # {} PROVE FALSE
  <2>0. Bad \in SUBSET Nat
    OBVIOUS
  <2>1. PICK m \in Bad : \A k \in Bad : m <= k
    BY <1>4, <2>0, SmallestIn
  <2>2. m \in 0..n /\ ~Good(m)
    OBVIOUS
  <2>3. CASE m = 0
    <3>1. g[m] = <<>> /\ <<>> \in Seq(Values) /\ (\A t : ~Contains(<<>>, t)) /\ 1..m = {}
      BY <1>3, <2>3 DEF Contains
    <3> QED BY <2>2, <3>1
  <2>4. CASE m > 0
    <3>1. m - 1 \in 0..n /\ m - 1 < m /\ m \in 1..n
      BY <1>2, <2>2, <2>4
    <3>2. Good(m - 1)
      <4>1. m - 1 \notin Bad
        <5> HIDE DEF Bad
        <5> QED BY <2>1, <3>1
      <4> HIDE DEF Good
      <4> QED BY <3>1, <4>1
    <3> DEFINE q == g[m - 1]
               v == row[m]
    <3>3. q \in Seq(Values) /\ v \in Values \cup {Missing} /\ g[m] = Sees(q, v) /\ row[m] = v
      BY <1>2, <1>3, <3>1, <3>2
    <3>4. \A t : Contains(q, t) <=> t # Missing /\ \E i \in 1..(m - 1) : row[i] = t
      BY <3>2
    <3> HIDE DEF q, v, Good, Bad
    <3>5. g[m] \in Seq(Values) /\ \A t : Contains(g[m], t) <=> Contains(q, t) \/ (t = v /\ v # Missing)
      <4>1. /\ Sees(q, v) \in Seq(Values)
            /\ \A t : Contains(Sees(q, v), t) <=> Contains(q, t) \/ (t = v /\ v # Missing)
        BY <3>3, SeesOne
      <4> QED BY <3>3, <4>1, Zenon
    <3>6. \A i : i \in 1..m <=> i \in 1..(m - 1) \/ i = m
      BY <3>1
    <3>7. \A t : Contains(g[m], t) <=> t # Missing /\ \E i \in 1..m : row[i] = t
      BY <3>3, <3>4, <3>5, <3>6
    <3> QED BY <2>2, <3>5, <3>7 DEF Good
  <2> QED BY <2>2, <2>3, <2>4
<1>5. n \in 0..n
  BY <1>2
<1>6. Good(n)
  BY <1>4, <1>5
<1> QED BY <1>1, <1>6, DistinctFolds, SMTT(60) DEF Steps, Contains

LEMMA Counts == ASSUME NEW row \in Seq(Values \cup {Missing}), NEW v PROVE Count(row, v) \in Nat
<1> DEFINE I == {i \in DOMAIN row : row[i] = v}
<1>1. DOMAIN row = 1..Len(row) /\ Len(row) \in Nat
  OBVIOUS
<1>2. IsFiniteSet(1..Len(row))
  BY <1>1, FS_Interval
<1>3. IsFiniteSet(I)
  BY <1>1, <1>2, FS_Subset
<1> QED BY <1>3, FS_CardinalityType DEF Count

\* The mode is one of the values, and none of them is more frequent.
LEMMA ModeIsMost ==
  ASSUME NEW row \in Seq(Values \cup {Missing}), NEW all \in Seq(Values), Len(all) > 0
  PROVE  /\ \E k \in 1..Len(all) : all[k] = Folded("mode", row, all)
         /\ \A k \in 1..Len(all) : Count(row, all[k]) <= Count(row, Folded("mode", row, all))
<1>0. Len(all) \in Nat /\ DOMAIN all = 1..Len(all)
  OBVIOUS
<1>1. PICK g : Steps("mode", row, all, g)
  BY <1>0, FoldedBy
<1> DEFINE n == Len(all)
           Good(m) == /\ \E k \in 1..m : all[k] = g[m]
                      /\ \A k \in 1..m : Count(row, all[k]) <= Count(row, g[m])
           Bad == {m \in 1..n : ~Good(m)}
<1>2. n \in Nat /\ n > 0 /\ \A i \in 1..n : all[i] \in Values
  OBVIOUS
<1>3. g[0] = Missing /\ \A m \in 1..n : g[m] = Prefers(row, g[m - 1], all[m])
  BY <1>1 DEF Steps, Base, Adds
<1>4. \A v : Count(row, v) \in Nat
  BY Counts
<1>5. ASSUME Bad # {} PROVE FALSE
  <2>0. Bad \in SUBSET Nat
    OBVIOUS
  <2>1. PICK m \in Bad : \A k \in Bad : m <= k
    BY <1>5, <2>0, SmallestIn
  <2>2. m \in 1..n /\ ~Good(m)
    OBVIOUS
  <2>3. CASE m = 1
    <3>1. g[m] = all[m] /\ 1..m = {m}
      BY <1>3, <2>2, <2>3 DEF Prefers
    <3>2. Count(row, all[m]) <= Count(row, all[m])
      BY <1>4
    <3> QED BY <2>2, <3>1, <3>2
  <2>4. CASE m > 1
    <3>1. m - 1 \in 1..n /\ m - 1 < m /\ m \in 1..n
      BY <1>2, <2>2, <2>4
    <3>2. Good(m - 1)
      <4>1. m - 1 \notin Bad
        <5> HIDE DEF Bad
        <5> QED BY <2>1, <3>1
      <4> HIDE DEF Good
      <4> QED BY <3>1, <4>1
    <3> DEFINE a == g[m - 1]
               v == all[m]
    <3>3. g[m] = Prefers(row, a, v) /\ all[m] = v
      BY <1>3, <3>1
    <3>4. /\ \E k \in 1..(m - 1) : all[k] = a
          /\ \A k \in 1..(m - 1) : Count(row, all[k]) <= Count(row, a)
      BY <3>2
    <3> HIDE DEF a, v, Good, Bad
    <3>5. \A k : k \in 1..m <=> k \in 1..(m - 1) \/ k = m
      BY <3>1
    <3>6. a # Missing
      BY <1>2, <3>1, <3>4, CompareAssumption
    <3>7. CASE Count(row, v) > Count(row, a)
      <4>1. g[m] = v
        BY <3>3, <3>7 DEF Prefers
      <4>2. \A k \in 1..m : Count(row, all[k]) <= Count(row, v)
        BY <1>4, <3>3, <3>4, <3>5, <3>7, SMTT(60)
      <4> QED BY <2>2, <3>3, <3>5, <4>1, <4>2 DEF Good
    <3>8. CASE ~(Count(row, v) > Count(row, a))
      <4>1. g[m] = a
        BY <3>3, <3>6, <3>8 DEF Prefers
      <4>2. \A k \in 1..m : Count(row, all[k]) <= Count(row, a)
        BY <1>4, <3>3, <3>4, <3>5, <3>8, SMTT(60)
      <4> QED BY <2>2, <3>4, <3>5, <4>1, <4>2 DEF Good
    <3> QED BY <3>7, <3>8
  <2> QED BY <1>2, <2>2, <2>3, <2>4
<1>6. n \in 1..n
  BY <1>2
<1>7. Good(n)
  BY <1>5, <1>6
<1> QED BY <1>1, <1>7 DEF Steps

\* What Marked leaves of a row: all that is not missing, if there is one value,
\* and the mode otherwise.
LEMMA RowIsMarked ==
  ASSUME NEW row \in Seq(Values \cup {Missing})
  PROVE  LET plain == {i \in DOMAIN row : row[i] # Missing} \ Marked(row) IN
         /\ \A i \in plain, j \in DOMAIN row :
              row[j] # Missing => Count(row, row[j]) <= Count(row, row[i])
         /\ \A i, j \in plain : row[i] = row[j]
         /\ plain = {} => \A i \in DOMAIN row : row[i] = Missing
<1> DEFINE some == {i \in DOMAIN row : row[i] # Missing}
           plain == some \ Marked(row)
           d == Distinct(row)
<1>1. d \in Seq(Values) /\ \A t : Contains(d, t) <=> t # Missing /\ Contains(row, t)
  BY DistinctKeeps
<1>2. \A t : t # Missing /\ Contains(row, t) <=> \E i \in some : row[i] = t
  BY DEF Contains
<1> HIDE DEF d, some
<1>3. \A t : (\E k \in 1..Len(d) : d[k] = t) <=> \E i \in some : row[i] = t
  BY <1>1, <1>2 DEF Contains
<1>4. \A v : Count(row, v) \in Nat
  BY Counts
<1>5. Marked(row) = {i \in some : Len(d) > 1 /\ row[i] # Mode(row)}
  BY DEF Marked, d, some
<1>6. Mode(row) = Folded("mode", row, d)
  BY ModeFolds DEF d
<1>7. CASE Len(d) > 1
  <2> DEFINE most == Mode(row)
  <2>1. /\ \E k \in 1..Len(d) : d[k] = most
        /\ \A k \in 1..Len(d) : Count(row, d[k]) <= Count(row, most)
    <3>1. d \in Seq(Values) /\ Len(d) > 0
      BY <1>1, <1>7
    <3>2. /\ \E k \in 1..Len(d) : d[k] = Folded("mode", row, d)
          /\ \A k \in 1..Len(d) : Count(row, d[k]) <= Count(row, Folded("mode", row, d))
      BY <3>1, ModeIsMost
    <3> QED BY <1>6, <3>2
  <2>2. plain = {i \in some : row[i] = most}
    BY <1>5, <1>7
  <2> HIDE DEF most, plain
  <2>3. plain # {} /\ \A j \in some : Count(row, row[j]) <= Count(row, most)
    BY <1>3, <2>1, <2>2
  <2>4. \A i \in plain : row[i] = most
    BY <2>2
  <2> QED BY <2>3, <2>4 DEF plain, some
<1>8. CASE ~(Len(d) > 1)
  <2>1. plain = some
    BY <1>5, <1>8
  <2>2. Len(d) \in Nat /\ \A k \in 1..Len(d) : k = 1
    BY <1>1, <1>8
  <2>3. \A i, j \in some : row[i] = row[j]
    BY <1>3, <2>2
  <2>4. \A i, j \in some : Count(row, row[j]) <= Count(row, row[i])
    BY <1>4, <2>3
  <2> QED BY <2>1, <2>3, <2>4 DEF some
<1> QED BY <1>7, <1>8

\* The table marks the outliers of a row, for any values and any number of runs
\* (hyperparam-diff.tsx:26-28, 70-96).
THEOREM OutliersMarked == CompareSpec => []OutliersAreMarked
<1>1. CompareInv => OutliersAreMarked
  <2> SUFFICES ASSUME CompareInv, NEW row \in Rows
               PROVE LET plain == {i \in DOMAIN row : row[i] # Missing} \ Marked(row) IN
                     /\ \A i \in plain, j \in DOMAIN row :
                          row[j] # Missing => Count(row, row[j]) <= Count(row, row[i])
                     /\ \A i, j \in plain : row[i] = row[j]
                     /\ plain = {} => \A i \in DOMAIN row : row[i] = Missing
    BY DEF OutliersAreMarked
  <2>1. Cardinality(picked) \in Nat
    BY CompareAssumption, FS_Subset, FS_CardinalityType DEF CompareInv, PickedInv
  <2>2. PICK n \in 0..Cardinality(picked) : row \in [1..n -> Values \cup {Missing}]
    BY DEF Rows
  <2>3. row \in Seq(Values \cup {Missing})
    BY <2>1, <2>2
  <2> QED BY <2>3, RowIsMarked
<1> QED BY <1>1, CompareAlways, PTL

(****************************************************************************)
(* Together: a behaviour of the instance that is checked is one of each     *)
(* part, so that each part's theorems hold of it.                           *)
(****************************************************************************)

\* The parts share no variable: what a step of one does, the others may do.
LEMMA PartsOfTheWhole == MCSpec => BoardSpec /\ SessionSpec /\ CompareSpec
<1>1. MCInit => BoardInit /\ SessionInit /\ CompareInit
  BY DEF MCInit
<1>2. [MCNext]_<<boardVars, sessionVars, compareVars, focus>> =>
        [BoardNext]_boardVars /\ [SessionNext]_sessionVars /\ [CompareNext]_compareVars
  BY DEF MCNext
<1> QED BY <1>1, <1>2, PTL DEF MCSpec, BoardSpec, SessionSpec, CompareSpec

\* All keep their types: one call of a cancellation at a time, at most as many
\* runs compared as there may be, no whoami that is stale and not there.
THEOREM AllTyped == MCSpec => []MCTypeOK
<1>1. BoardSpec => []BoardTypeOK
  BY BoardAlways, BoardTypes, PTL
<1> QED BY <1>1, SessionTyped, CompareTyped, PartsOfTheWhole, PTL DEF MCTypeOK
=============================================================================
