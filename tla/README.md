# A TLA+ model of Stellarator

Stellarator starts and watches fine-tuning runs. A FastAPI backend (`backend/`)
creates jobs at Tinker, an outside service, and keeps a row per run in SQLite; a
Rust supervisor (`supervisor/`) polls Tinker for every run it was told to track,
writes status, cost and metrics into the same database, and streams metrics to
browsers; agents drive the backend through chat drivers and an MCP server; a
Next.js frontend (`frontend/`) shows it all, and keeps its chats in the browser.

Two parts are modelled. In the backend, the place where its processes meet: **who
writes a run's status, who still polls it, and what becomes of its metrics**. In the
browser, what its pages **do with answers that come late, twice, out of order or
not at all**, with storage that tabs share, and with users who have gone on by then.
TLC checks the modules on small instances; TLAPS proves every safety property of them,
and one refinement, for every instance.

Run inside this directory:

    tlc -workers 2 -config MCTracker.cfg MCTracker
    tlapm TrackerProofs.tla

## 1. Inventory

| Component | State | Operations | What is hard | What makes it correct |
|---|---|---|---|---|
| Supervisor registry and pollers (`supervisor.rs`, `main.rs`, `api.rs`) | `jobs` map in memory, a task and a token per run | track, untrack; the polling loop; drain | look-up and insert are two calls; tasks remove entries by run id; cancel races with a write; drain; crash | an entry always has a live task of its run; a cancelled task ends and writes at most once; nobody polls a finished job |
| Metric sink and fan-out (`apply_update`, `ws.rs`, `db.rs`) | `run_metrics`, `last_step` per task, broadcast ring | store, publish, subscribe, pump | several pollers, failing transactions, restarts, lagging viewers | nothing shown that is not stored; no step shown twice; later steps carry later values |
| Run control (`api/runs.py`: cancel, pause, resume) | `runs.status` | three handlers | await between read and write, unconditional writes, calls with lost answers | a run shown as cancelled is not running; finished means finished |
| Reconciliation loop (`services/reconcile.py`) | one pass's session, the tracked set | scan, refresh, retrack, untrack, commit | stale session, exits that drop it, everything depends on one status call | rows converge to their jobs, running runs are tracked again |
| Chat runtime (`lib/chat/`) | IndexedDB, the panel's reducer, `abortRef` | send, stream, retry, cancel, persist, delete, reload | a send outlives its page; writes in several transactions; one retry of the whole message | an answer is stored once and whole; the page shows what is stored; Stop ends |
| Chat panel (`components/chat/`) | last model, key, draft, pickers, cards | type, choose, submit, key dialog, title | model and key each live in two or three places | what is shown, sent with and kept is the same model; no send without its key |
| Run page (`app/runs/[id]`, `run-actions`, `promote-dialog`) | query cache, requests under way | poll, pause, resume, cancel, promote | an answer older than an action; lost answers; unmounted mutations | no acknowledged action is shown undone; the end is shown |
| Run chart (`lib/ws.ts`, `page.tsx`) | snapshot, socket, buffer of events | seed, connect, deliver, merge | snapshot and stream overlap or miss each other | ascending, each step once, nothing lost between them but by lagging |
| Alerts (`lib/notifications.ts`, `run-alerts`, `app/alerts`) | event stream, keys seen, badge, lists | notice, toast, fetch, filter | repeated events, an event and a list that cross | no double toast; what was toasted is in the list, but for an answer that crossed it |
| Runs board (`app/page.tsx`, filters, table, palette) | URL, poll, dialog, cancellations | filter, select, cancel all | URL writes that land late; a loop of calls that goes on | every selected run is tried, the report is honest and comes |
| Comparison (`compare/`) | runs compared, mute, solo, timers | pick, click, long press, mark | one ref for all timers | a solo ends clean; outliers are marked |
| Session and preferences (`use-whoami`, `local-prefs`, `app-shell`) | token, whoami, storage of all tabs | sign in and out, pin, reset | a request with the old token; two tabs | signed out is nobody, but for a request that is not given up; pins add up |
| Settings and check-list (`app/settings`, `integrations.ts`) | lists of keys and budgets, fields | save, remove, fetch | invalidation and requests under way | a valid list is accurate |
| Run creation, preflight, promotion (backend) | `runs` row, job, budget | create, hand-off, rollback | check-then-act, a retried POST | one job per row, budgets hold |
| Chat streaming, drivers, research (backend) | messages, chunks, a queue per answer | post, emit, persist, resume | disconnects, two id spaces | a resumed stream ends |
| Connection slots, notifications, OAuth, key rotation (backend) | semaphores, queues, state rows, ciphertexts | acquire, notify, refresh, rotate | time-outs, full queues, one-shot state | nothing lost, nothing used twice |
| Authentication, rate limits, log filter, schema check, MCP server, read-only pages, UI kit | little or none | | | |

`PROJECT.json` lists the same parts with their status, and the hazards at their lines.

Backend and supervisor share the database and call each other over HTTP; the
frontend calls the backend over HTTP, SSE and WebSocket. At this commit the two
ends of that last contract do not meet: the chat sends no token and another body
than `api/chat.py` takes, and several schemas of `lib/types.ts` do not parse what the
backend answers. The frontend's modules therefore take as their environment a server
that keeps the contract the frontend states (`lib/types.ts`, `frontend/README.md`),
of which any request may fail, before or after it took effect.

## 2. Modules

| Module | Models | Uses |
|---|---|---|
| `RunStates` | the status vocabularies, which differ between the two programs | |
| `Tracker` | the supervisor's registry, its tasks and `main`'s shutdown | `RunStates` |
| `ControlPlane` | API handlers, reconciliation pass and requests under way, composed with `Tracker` | `T == INSTANCE Tracker` |
| `MetricSink` | `apply_update`'s data and the broadcast channel for one run | |
| `ChatAnswers` | abstract: what the chat promises of the answers it keeps | |
| `ChatRuntime` | the chat's runtime, its store and its stream | `Answers == INSTANCE ChatAnswers WITH ...` |
| `ChatPanel` | the panel around the runtime | extends `ChatRuntime` |
| `RunPage`, `RunChart` | a run's page; its chart and stream | |
| `Alerts` | event stream, toasts, badge and lists of alerts | |
| `RunsBoard`, `Compare`, `Session` | board and bulk cancellation; what the comparison shows; identity and preferences | |
| `Settings` | keys, budgets, token and check-list | |
| `TrackerProofs`, `ControlPlaneProofs`, `MetricSinkProofs`, `AlertsProofs`, `SettingsProofs` | theorems | the modules they are named for |
| `ChatProofs` | theorems about the runtime, its refinement, and the panel | `ChatPanel` |
| `RunPageProofs`, `BoardProofs` | theorems about the modules that `MCRunPage` and `MCBoard` put together | `MCRunPage`, `MCBoard` |
| `MC...` | instances for TLC | |

Where two modules that share no variable are checked in one run (`MCRunPage`,
`MCBoard`), a variable `focus` says which of them a behaviour is about, so that they
are not interleaved to no purpose.

### Tracker

A *handle* stands for one `JobHandle` together with the request that creates it
and the task spawned for it. `pc` says where it is: `checked` after
`contains_key` (supervisor.rs:86), `select`/`waiting` before and inside
`tokio::select!`, `polling` in `get_job`, `polled` with the payload (`snap`) in
hand, `applying` between `pool.begin()` and the commit, `exiting` before the
closure's `jobs.remove`. `jobs` is the DashMap: run to handle. What the code does
in one synchronous stretch is one action; what it does around an await, or around
two DashMap calls, is several. So `track` is two actions and `untrack` one.

`select!` with a fresh sleep and a token already set always takes the token
(`EnterSelect` is guarded); once both are ready inside the wait it takes either
(`Timer` is not). `ApplyFail` covers `with_retry` giving up and a pool that is
closing. `ProcessGone` forgets everything but the database.

`row[r] = Absent` writes nothing, like the `UPDATE` it stands for. `late` is a
history variable: rows written by a task after its cancellation.

### ControlPlane

One row per run has three writers that share no lock and no version.

* A request slot goes `idle`, `calling` (awaiting Tinker), `saving`. `CallOk` is an
  answered call, `CallWithoutKey` the `TinkerKeyMissing` that is logged and
  ignored, `CallFailed` three failed attempts: tenacity raises `RetryError`, no
  handler catches it, and the job may have moved all the same. `Save` writes what
  the handler sets unless it was already loaded so, as SQLAlchemy does.
* A pass goes `idle`, `listing`, `refreshing`. `base` is what its session loaded,
  `delta` the statuses it will write. `PassRefresh`
  is the loop's whole body for one run: refresh, then untrack or retrack.
  `PassCommit`, `PassAbort`, `PassFault` are its exits.
* A job ends in whatever words Tinker has for ends (`OwnEnds`, supervisor.rs:14-21);
  a status `RunStatus` does not know is left by `PassRefresh` as it is (reconcile.py:166-169),
  while the poller would store it. So a job that ends as "completed" and whose
  poller is gone leaves its row active for ever; `ActiveRowsConverge` is about the ends
  both sides know.
* `net` holds the track and untrack requests on their way. They may be lost, arrive
  late, or find the supervisor shutting down.
* The supervisor is the whole of `Tracker`, on the same `row` and `job`.

**The status request.** `reconcile.py:85` sends `POST /supervisor/status`;
`main.rs:79` routes that path for `GET` only. The answer is 405 and every pass that
finds an active run ends there. A behaviour's `setup`, chosen in `Init` from the
constant `Setups` and never changed, says which system it is about:

* without `"routed"`: the system as it is wired. The violation is shown there.
* with `"routed"`: the loop against a supervisor that answers, which is what the
  loop and its tests (`test_persistence.py:226`) assume, and the only way to examine
  the rest of the loop's code; the reply has the shape of `StatusResponse`
  (api.rs:147). `control_plane_live` is about this system and says nothing about the
  one as wired; `control_plane_retrack` shows that its promise is broken there.
* with `"key"`: the backend has `TINKER_API_KEY`. Without it the loop sees no status
  and a handler may find no key to ask Tinker with.
* with `"forgets"`: Tinker may answer 404 for a job it once had.
* with `"faulty"`: processes die, calls fail and messages get lost.

### MetricSink

One run, several pollers (`Tracker` shows there may be more than one), one metric
name. The version of a payload stands for its metric value and for its
`gpu_seconds`. `Commit` is the transaction, `Publish` what follows it, `CommitFails`
the early return; `Start` is `get_last_step` with its fallback to -1. The channel is
tokio's broadcast: `ring` keeps the newest `Cap` messages, `behind[u]` counts what
subscriber `u` has not received, and `Cap + 1` stands for "has lagged".
Subscribers are the supervisor's own WebSocket pumps. The backend's proxy connects
to them without the token they require (runs.py:718, ws.rs:98) and is not modelled.

### What Tinker is taken to do

External, modelled from how the code uses it: a finished job never moves again;
cancel moves any unfinished job, pause a queued or running one, resume a paused
one, and otherwise nothing changes; a job may vanish (404) where the setup says so;
steps never go back; `gpu_seconds` grow.

### ChatRuntime and ChatAnswers

A *send* is one call of `send()` (runtime.ts:117). `pc` follows it: `opening` (bulkPut),
`titling` (the first message names the thread), `posting` (fetch and stream), `waiting`
(the 600 ms before the retry), `closing` and `putting` (`persistAssistant`'s get and put,
two transactions), `done`; `stuck` when a refused write made it reject before its
`finally`, `dead` when the tab went. `acc` is the closure's `acc`, `aborted` its signal.
`rows` is IndexedDB, `view` what the mounted panel's reducer shows, and `attached` says
whether the send's `dispatch` still reaches a panel: leaving a thread unmounts the
panel, aborts what `abortRef` holds and lets the send go on. The deltas of a
response are numbered; `saves` are the rows of chosen models that are still to be
written, in the order of the choices, each of which may be refused; a thread is read
after what was written before it. A title is "new" or not. A retry starts again at the first with `acc` kept, as the code
does, so a duplicated text is part of the model.

`ChatAnswers` says the same from outside: per question a state, what was heard, what
is kept. An answer is stored once, with exactly what was heard, and goes only with its
thread. One that is being written while its thread is deleted may come back
(`persistAssistant` reads and writes in two transactions), which the abstract
specification admits by name (`Answer` from `"gone"`). `AnswersAreKept` is the
refinement: checked in `chat`, proved in `ChatProofs`.

### ChatPanel

Extends the runtime with the composer (a draft is known by whether it is empty and
what trigger ends at the caret), the pickers, the model choice (`lastModel` in the
preferences, `panel.model` in the runtime, `threads[t].model` in IndexedDB), the tab's
key (`key`, and the panel's copy `keyShown`), the header and the tool cards.
Of other tabs only their choice of a model is modelled (`OtherTabChooses`,
`OtherTabSaves`): the preference is one of the browser, a mounted panel follows it by the
storage event (local-prefs.ts:86-89), and the runtime's thread does not. `choice` is a
history: the model chosen in this panel; `overruled` says what of it another tab, or a
refused write, has replaced since: what is shown, or what is kept. `Registry` is the set
of registered tools, by what their cards let one do; the run has one of the papers, and
pre-flight rejections and budget cards come from the status codes of any tool.
`Elsewhere` is what the settings page and the sign-ins change; `ClearThreads` and
`ClearMessages` are the two transactions of the settings' "clear threads".

### RunPage and RunChart

`RunPage` has React Query's cache of one run (`run` is the version of the row it shows)
and the request under way. `Refetch` is `invalidateQueries`/`refetch`, which give up a
request under way unless it is the first; `Poll` joins one. A post takes effect at the
server, and its answer may be lost. The first answer to a page that had no data
crashes it (`RunArrives`), as the code's order of hooks does; the rest of the model is
about pages opened with a cached run. `RunChart` has the snapshot (`seed`), the socket
with its wire, the buffer (`events`, with notes and statuses in it) and the merge
(`Chart`). `unbroken` is a history variable: the socket has been open since before the
snapshot was answered. The server waits for no viewer: the channel is bounded and drops the
oldest message that is not sent on a socket that stays open (ws.rs:16-21, 154-156); only
the server's log tells. `Publish` does so at `MaxWire` messages, and `lagged` is a history
of the steps lost that way. That the server publishes in ascending order is an assumption
of `Report`: it holds with one poller (`ViewersInOrder`), and `ChartAscends` and
`NothingBetween` rest on it. A message that is no metric is 0 in `wire` and
`events`; steps are counted from 1.

### Alerts

Alerts are numbered in the order of their times. `wire` is the event stream, `seen` the
trimmed set of keys, `toasts` a history of what was shown. Per run, `shown` is the moment
of the cached list, `ask` the moment its request was sent, and an answer is of any
moment since. `told`, `met` and `crossed` are histories: the last alert of each run that was
toasted; the lists whose request under way was sent before that and goes on, because it
is a list's first one or its list has left the screen; and the lists that are the answer to
such a request. Those lack the alert and are valid (`MCAlertsToasted.cfg`); `ToldIsShown` is
about all others. The page's filters (level, source, time, search) are functions of
what is listed (alerts/page.tsx:180-193), change no state, and are not modelled; its
limits are (`MaxListed` alerts, `MaxRuns` runs).

### RunsBoard, Compare, Session

`RunsBoard` keeps the URL as rendered and the replacement that has not landed (`next`).
A cancellation (`jobs`) goes run by run and ends with a report, which also writes the
URL as it was when the loop began. `Compare` has the comparison itself: picks,
metrics, the mute/solo buttons with their timers in firing order (`current` says that
`longPressTimer.current` is the last of them), and the table's marks as operators
over rows. `Session` has the token, whoami's cache and request, and the
preferences of every tab. `out` and `late` are histories: signed out, and that the sign-out met a
request of whoami with the old token that it does not give up, a first one or that of a
page that was left (`MCBoardIdentityResets.cfg`). `meant` has the pins the clicks ask for, by what
their tab showed: a click on a pin that is shown asks for it to go, whatever is stored.
`crossed` are the pins last written by a tab that had not heard how they were stored;
of these `PinsCompose` says nothing.

### Settings

Two lists (keys, budgets) with React Query's rules as above, fetched with the token of
the moment; posts per card; the dashboard's check-list. Two histories say where a list, or an
answer already read, misses a change the server has made: `lost`, one the browser was
told had failed; `joined`, one that was acknowledged while the request of its list was
answered and not given up, being the list's first one or that of a page that was left.
In the second case the list is wrong and valid although nothing has failed.

### What the environment is taken to do

React Query, Next's router, IndexedDB, EventSource and WebSocket are external,
modelled from how the code uses them: one request per key, joined or given up as
described; a cache that outlives a page by five minutes and not a whole-page load;
`router.replace` lands later and a newer navigation overtakes it; one IndexedDB
transaction after another.

## 3. Runs

| Run | Question | Bounds |
|---|---|---|
| `tracker` | registry and tasks stay together, one late write at most, cancelled tasks end, finished jobs are released | 1 run, 2 handles: a task and its replacement or a second request |
| `control_plane` | no false finish, no cancelled run whose job goes on | 1 run, 1 poller, 2 requests, 1 fault; four setups |
| `control_plane_live` | rows converge, running runs are tracked, if status is answered | 1 run, 1 poller, 1 request, 1 fault, no symmetry |
| `sink` | published is stored, `last_step` is stored, later steps carry later values; each step once, in order | 2 pollers or 1 poller and 1 viewer, 3 steps, 3 reports, ring of 1 |
| `chat` | answers are kept, the text shown is kept, busy is accurate, aborted ends | 1 thread, 2 sends, 1 delta and a tool step per response, refused writes |
| `chat_panel` | one model, no keyless send | 1 thread, 1 send without deltas, a Claude and an OpenAI model, 1 kind of tool, 1 row of a choice under way, refused writes |
| `run_page` | acknowledged is shown, the end is shown; the chart ascends and loses nothing | 3 versions, 2 clicks; 5 steps, buffer of 3, 3 messages under way |
| `alerts` | no double toast, told is shown where nothing crossed it | 2 runs, 2 alerts, 3 toasts, memory of 1 key, page of 1 alert |
| `board` | everyone is tried, the report is honest and it comes; nobody after sign-out, pins add up; solos end clean, outliers are marked | 2 runs, 1 owned, 1 cancellation; 2 people, 2 tabs, 2 pins; 3 curves, 2 timers, 2 values |
| `settings` | a valid list is accurate | 1 agent, 1 key, 1 budget, 1 post under way |
| `control_plane_retrack` | violation: lost hand-offs stay lost | 1 run, no fault |
| `run_page_opens` | violation: the page does not open | 1 run |

`MaxOps` and `MaxFaults` bound how often somebody interferes, `Handles`, `Slots`, `Sends`,
`Clicks` and `MaxPosts` how many things exist at one time, `MaxStep`, `MaxVersion`,
`MaxChunks` and `MaxAlerts` how much the other side has to say. What the code keeps at
most (256 messages, 500 events, 500 and 200 keys, 500 alerts, 6 comparisons) is a
constant, set so low that the limit is reached and passed. Two of a kind are enough where
they meet in pairs: two writers cross, two sends of one thread follow or overlap
each other, two tabs write one storage, a request crosses one event. The rows and
jobs of different runs meet only in a pass and in the process's life. With one send
`chat_panel` has no second send to be kept out, which is `chat`'s matter, nor deltas, which no
property of the panel looks at; it has two models since its properties are about the choice. One ring slot makes lag and loss
happen at the second message. Rows of three cells with two values and a missing one
have every pattern a mode can have there: a tie, a majority, a gap.

`Deadlock` is checked in `run_page`, `alerts`, `board` and `settings`, and not in the
others: with the bounds spent and every job or answer finished, those have nothing to do.

### Where code and words disagree

Two runs end in a counterexample; `PROJECT.json` quotes the words.

* `control_plane_retrack`: the loop's status request is answered 405 (`reconcile.py:85`
  posts, `main.rs:79` routes GET), so a lost hand-off is never repaired.
* `run_page_opens`: `page.tsx:91-97` returns before the hook of line 100, so a page
  opened without a cached run crashes on its first answer.

Five more configurations are kept for a reader and end in a counterexample in seconds.
Each is what a property of the runs above would say without its exception; run them
with `tlc -workers 2 -config <name>.cfg <module>`.

* `MCControlPlaneFailuresArePerRun` (module `MCControlPlane`): with a status request that is
  answered, reconcile.py:13 promises a back-off per run, but the handler (reconcile.py:225)
  catches `TinkerError`, and tenacity raises `RetryError` (tinker.py:99): a job that is gone
  ends every pass, for all runs. `MCControlPlaneTwoRuns` is the other side of it, and
  passes in three minutes: two rows of which neither blocks the pass converge
  (`ActiveRowsConverge`). With two runs and faults TLC does not finish in five minutes,
  which is why `control_plane_live` has one.
* `MCChatRuntimeShownIsKept` (`MCChatRuntime`): `persistAssistant` says it persists a snapshot
  (runtime.ts:164-169) and stores the text only; a tool step the page shows of a finished
  answer goes when the thread is read again. `ShownTextIsKept` is about the text.
* `MCChatPanelSendsAsShown` (`MCChatPanel`): the panel derives the driver "for backend send
  call" (chat-panel.tsx:79) from the model it shows, and sends with the thread's
  (runtime.ts:172-177). Another tab's choice is enough for the two to differ, and then a
  message may go to OpenAI with no key looked for. `ChoiceHolds` and `NoKeylessSend` are
  about what was chosen here and not overruled.
* `MCAlertsToasted` (`MCAlerts`): an alert is to "surface in real time" (README.md:13); a list's
  first request, or that of a list that was left, survives the invalidation
  (notifications.ts:77) and makes the list valid without the alert.
* `MCBoardIdentityResets` (`MCBoard`): the sign-out invalidates whoami "so identity resets"
  (app-shell.tsx:192); a first request, or that of a page that was left, goes on with the old
  token and its answer stays.

The modules contain more behaviour a maintainer may want to know of, without a run:

*Supervisor and backend.* `track` looks up and inserts in two calls, so two requests can
leave two pollers, one unknown to the registry (supervisor.rs:86). The drain watches the
registry `untrack` has just emptied (main.rs:131). A task whose last `apply_update` failed
exits with the final status unwritten (supervisor.rs:151). cancel, pause and resume
rewrite finished runs (runs.py:371, 404, 430; docs/runs.md:183 calls them immutable).
A payload without a step is stored again under the next step (supervisor.rs:187), and
nobody sends `gpu_count`, so an eight-GPU run is charged for one (api.rs:101). Behind the
405, ids are compared with the texts of whole objects (reconcile.py:99); an end that
`RunStatus` does not know leaves the row active (reconcile.py:166); signals of a row whose status did not
change are not committed (reconcile.py:244).

*Chat.* A retry appends to the text of the first attempt. A Stop before the controller
is stored is lost (runtime.ts:158). A refused bulkPut leaves `busy` set for good
(`stuck`). A refused row of a chosen model is told to nobody (runtime.ts:106-110). A put may bring back the
row of a thread deleted meanwhile. Deleting the open thread pushes `/chat` from
wherever the user is by then (thread-list.tsx:49). Until a model is chosen, the panel may
show another model than the thread sends with (chat-panel.tsx:102). A picker closed with
Escape while its trigger is there opens again (composer.tsx:149). Clearing all threads
deletes threads first and messages later (settings page.tsx:702).

*Run page.* Steps published while no socket is open are never shown until the next
snapshot. A dialog's promotion that succeeds after the user has left pulls them to the
new run; one whose answer is lost may have made a run already. Buttons can be clicked
twice. Polling needs a visible tab.

*Alerts.* A list that arrived before the event leaves the badge at one; the last alerts
of a run that has ended are not polled for.

*Board.* The dialog speaks of all selected running jobs, and cancels all that is
selected: hidden, paused or somebody else's too. It outlives an emptied selection.
The report writes the URL of the moment the loop began, over later filters, and brings
the board back. Rapid clicks lose one another in a URL that has not landed.

*Comparison.* A long press is undone by its own release, which clears the solo and hides
the run instead (run-overlay-chart.tsx:176-180), unless the pointer has left the button;
a solo of a run that is then removed hides every line; overlay and table colour by
different orders.

*Session, settings.* saveToken leaves whoami and both lists as they were: the cards still
show the previous agent's keys, and Remove deletes the new agent's. whoami keeps
"anonymous" for any failure. pinAll and unpinAll start from the tab's copy and undo
another tab's pins; the cross of a pinned run that another tab has unpinned pins it again.
A key or budget saved or removed while the first request of its list, or that of a page
left, is under way may not be shown as such until the next fetch (`joined`). What is typed while a key is being saved is cleared.

### Fairness

`Tracker`: tokio runs a task that can run, and HTTP calls and pool waits have
time-outs, hence weak fairness of every task's next step. Strong fairness of an
answered poll says that a job asked about again and again is answered at last;
without it no poller can be expected to notice anything. `ControlPlane` adds that
passes follow one another (the loop sleeps at most 300 s), that handlers go on once
started, that requests in `net` are delivered or lost, and that a stopped container
comes back (`restart: unless-stopped`, docker-compose.yml:33). No request, fault,
crash, shutdown or movement of a job is ever assumed to happen.

`ChatRuntime`: the browser runs what is ready (promises, timers, IndexedDB). Nothing is
assumed of the server: a stream may be silent for ever, and only an abort must end.
`RunPage`: the poll's timer fires (the tab is visible), and of requests made for ever
one is answered and one answer arrives (strong fairness: every one before may fail).
`RunsBoard`: the loop goes on and every call ends, one way or the other. No user is
assumed to do anything.

## 4. Proofs

| Theorem | Says | From |
|---|---|---|
| `TypeCorrect` | `Tracker`'s `Spec => []TypeOK` | `TrackerAssumption` |
| `ListedSupervised` | `Spec => []ListedIsSupervised` | the inductive `SupervisionInv` |
| `LateWrites` | `Spec => []LateWriteBound` | `LateInv`, which follows a cancelled task |
| `ControlPlaneTypes` | `ControlPlane`'s `Spec => []TypeOK` | `ControlPlaneAssumption` |
| `FinishesAreTrue` | `Spec => []NoFalseFinish` | `EvidenceInv` |
| `CancelledRunsAreOver` | `Spec => []CancelledIsStopped` | `EvidenceInv` |
| `SinkTypeCorrect` | `MetricSink`'s `Spec => []TypeOK` | `MetricSinkAssumption` |
| `PublishedStored` | `Spec => []PublishedIsStored` | `IInv` |
| `LastStepStored` | `Spec => []LastStepIsStored` | `IInv` |
| `StoredInOrder` | `Spec => []StoredFollowsHistory` | `HistoryInv` |
| `ViewersInOrder` | `Spec => []ViewersSeeStepsOnce`, if one poller works on the run | `OrderInv` |
| `ChatTypes` | `ChatRuntime`'s `Spec => []TypeOK` | `ChatAssumption` |
| `BusyExact` | `Spec => []BusyIsAccurate` | `IInv` |
| `ShownTextKept` | `Spec => []ShownTextIsKept` | `IInv` |
| `AnswersKept` | `Spec => AnswersAreKept`, the refinement of `ChatAnswers` | `IInv` in both states of a step |
| `PanelTyped` | `ChatPanel`'s `PanelSpec => []PanelTypeOK` | `PanelInv` |
| `ChoicesHold` | `PanelSpec => []ChoiceHolds` | `PanelInv` |
| `NeverKeyless` | `PanelSpec => NoKeylessSend` | `PanelInv`, step by step |
| `PanelKeepsAnswers` | `PanelSpec => AnswersAreKept`, the refinement with the panel | `PanelInv` in both states |
| `PageAndChartTyped` | `MCRunPage`'s `MCSpec => []MCTypeOK` | `PageInv`, `ChartInv` |
| `NeverOlderThanAcknowledged` | `MCSpec => []AcknowledgedIsShown` | `PageInv` |
| `ChartInOrder` | `MCSpec => []ChartAscends` | `ChartInv`, and what the merge computes |
| `NothingIsLost` | `MCSpec => []NothingBetween` | `ChartInv`, and what the merge computes |
| `AlertsTyped` | `Alerts`' `Spec => []TypeOK` | `IInv` |
| `ToastedOnce` | `Spec => []NoDoubleToast` | `SeenInv` |
| `ToastsAreListed` | `Spec => []ToldIsShown` | `ToldInv`, and what the newest of a set are |
| `ReportsAreHonest` | `RunsBoard`'s `BoardSpec => []ReportIsHonest` | `BoardInv` |
| `NobodyAfterSignOut` | `Session`'s `SessionSpec => []SignedOutIsNobody` | `SessionInv` |
| `PinsAddUp` | `SessionSpec => []PinsCompose` | `SessionInv` |
| `SolosEndClean` | `Compare`'s `CompareSpec => SoloEndsClean` | `CompareInv` |
| `OutliersMarked` | `CompareSpec => []OutliersAreMarked` | what the two folds of the table compute |
| `AllTyped` | `MCBoard`'s `MCSpec => []MCTypeOK` | all three |
| `SettingsTyped` | `Settings`' `Spec => []TypeOK` | `IInv` |
| `ListsAreAccurate` | `Spec => []ListIsAccurate` | `IInv` |

What some of these do not say. `ListedIsSupervised` does not exclude a live poller
without an entry, nor a second poller of a run; `FinishedJobReleased` not that the final status
stays unwritten; `StoredFollowsHistory` not an older value of the same step, nor payloads
without a step; `SoloEndsClean` not a solo of a run that was removed, nor a press that is
undone by its own release. `ViewersInOrder` needs `OnePoller`, and `ChartInOrder` and
`NothingIsLost` a server that publishes ascending.

*Registry.* `ListedIsSupervised` is almost inductive by itself: `Remove` deletes the
run's entry whoever put it there, which keeps it true even when it is the wrong
entry. `SupervisionInv` adds that only a live handle is cancelled: a handle that is
free again must not carry the token of its former life into the next entry.

*Late writes.* A task cancelled before its select never gets past it. One that is
cancelled in `waiting`, `polling`, `polled` or `applying` may write once, and then
stands before a select whose token is set, or exits. `LateInv` says so from the
other side: a task in one of those four phases, or one that is not cancelled, has no
late write yet, and nobody ever has two.

*Statuses.* What a row says was read somewhere long before it was committed, so the
invariant has to follow every copy. `Borne(r, s)` says what status `s` may claim
about run `r`'s job; `EvidenceInv` says it of the rows, of the payload a poller has
in hand, of the pass's session (`delta`) and of a request whose call was answered.
A claim once true stays true because a job that is over never moves again
(`ClaimsLast`), so no staleness, order or number of writers matters. What is
needed from each writer is only that it claims what it heard: that `PollError` leads to
no payload, and `CallFailed` to no `Save`. The proofs cover every setup, so the
system as wired too.

*Metrics.* `PublishedIsStored` depends on a poller between commit and publication:
`IInv` adds that what a poller in `committed` is about to publish is stored
(`CommittedIsStored`). For the types, what subscribers have not read must be in the
ring or lost (`UnreadIsRetained`): `Receive` indexes the ring with it. Rows are
never deleted, so everything once stored stays stored.

*Chat.* `TypeOK` is not inductive for a reason worth knowing: the length of `acc` is
bounded only because a send is retried once, so `Received` bounds it by the deltas of
this attempt and, after the retry, those of the first. `Stored` says that a row is closed
only by the last step of its own call and with `acc`. `Seen` says that an attached send's
message shows `acc`, and that a settled message of a send without a panel was read
from a closed row: this carries `ShownTextIsKept` through remounts and reloads. `OneBusy`
counts sends as "any two are the same" where the property counts them with
`Cardinality`; `OnThread` gives a panel past the index its thread. `IInv` is their
conjunction. The refinement maps each send's `pc` and row to a question's state. The step
lemma goes action by action: `Opened` asks, `Delta` hears, `Put` answers, deletion
and `Reload` forget, and the rest leaves all three mapped variables alone; `Stored`
excludes that `Put` meets a row that is closed already.

*Later steps, later values.* `StoredFollowsHistory` compares two rows of the table, but a
row may come from a payload any poller has held for long. `HistoryInv` says it of
all that is `Known`: what Tinker answers, what pollers hold, and what is stored. Of these
no later version has an earlier step. Writing moves a pair from a hand to the table, so
that nothing new is known; only `TinkerReports` adds a pair, which is the latest.

*Viewers.* `ViewersInOrder` assumes `OnePoller`: one task at a time, which can read the
last step when it starts. `sink` watches viewers under the same restriction
(`Alone`). With two pollers the claim is false: each publishes what it has
stored. `OrderInv` follows a step through
the channel: the poller is not behind what is published nor what is seen
(`AheadOfViewers`), the ring ascends, and what a viewer has not received is later
than what it has (`UnreadIsLater`). A crash empties ring and viewers but not the
table, from which the next task takes its `last_step`.

*Panel.* A step of the panel is one of the runtime's, or it renames and clears rows
(`Underneath`), which disturbs nothing `IInv` says; the runtime's theorems and the
refinement follow for `PanelSpec`. `Chosen` is `ChoiceHolds` with what will make it true of a
row not written yet: the last of the choices to be stored is the choice. It needs that all of
them are of the panel's thread (`SavesHere`), because a thread is read after what was
written before. `NeverKeyless` is about a step: a call leaves `"idle"`
by the panel's `Submit`, which looks at the stored key and not at the copy that is shown,
and, by `ChoiceHolds`, at the model it will send to as long as no other tab has chosen.

*Run page.* `AcknowledgedIsShown` is about an idle query; in between, an answer under way
may hold the run as it was before. `Follows` says of every acknowledged post that
neither the cached row nor an answer that may still be cached is older. An
acknowledgement gives up the request under way, so that the next answer is of a later
moment. A first request is not given up: that no action is under way then
(`run = 0`) is part of the invariant.

*Chart.* `ChartInv` places every step of a socket that was open before the snapshot:
in the snapshot or its answer, in the buffer, on the wire, or pushed out of a full buffer
by later ones, or lost by lagging (`Told`); buffer and wire ascend one after the other (`Published`). The
merge is a fold over a sequence of any length. `FoldLeft` is a `CHOOSE` of a function on
sets of indices; `FoldExists` proves there is one, and `DistinctKeeps` what it computes.
Induction being out of reach, both argue by a shortest sequence for which it fails.
The type of `last` failed to be proved for `MaxStep = 0`: a run is opened with one step
or none, and the assumption now says that there may be one.

*Alerts.* The keys remembered are the last of the toasts, at least `SeenKept` of them or
all (`Kept`): trimming keeps the newest. `ToldInv` says of a request that it is no older than
the last toast of its run unless it has met it (`met`), and of a valid list likewise (`crossed`):
the request of a list on the screen is given up when an alert arrives. On the page the list is the `MaxListed`
newest of what is shown: an alert that is not among them has only later ones before it.

*Board, session, comparison.* `Accounted` splits a cancellation's runs into those
to be asked for, being asked for and asked; what the server has confirmed has ended, and an ended
run stays so. `SignedOutIsNobody` is not inductive, as it is about an idle query: `SignedOut`
adds that no request of a person's is under way but the one the sign-out has met (`late`),
and that meanwhile what is cached is nobody or stale. `PinsCompose` is inductive with the types. For `SoloEndsClean`,
nothing is muted while a solo lasts. `OutliersAreMarked` is about two nested
folds, of which the values seen and the best of them are proved as above. The three
parts share no variable, and `PartsOfTheWhole` takes a behaviour of `MCBoard` as one of each.

*Settings.* While an answer is under way what is cached is as good as gone, and it is the
answer that must be current (`Current`); and a list may be wrong only from the moment
the server has done what was asked until the browser is told, whatever else is under
way (`AllTold`), and where `lost` or `joined` name it. `ListIsAccurate` is what this says of a list nothing is under way for.

The assumptions are the named `ASSUME`s of the modules: the markers (`NoHandle`,
`NoRun`, `NoSend`, ...) differ from the values they mark the absence of, bounds are
naturals, and the runs that are listed or compared are finitely many. TLC evaluates them
in every run. `OnePoller` is the only hypothesis of a theorem beyond them.

Model-checked only: all liveness (`CancelledStops`, `FinishedJobReleased`,
`ActiveRowsConverge`, `RunningRowsAreTracked`, `AbortedEnds`, `EndIsShown`,
`CancellationsEnd`), which needs ENABLED and fairness and is out of this prover's reach,
and the violations. Every invariant and action property of a passing run is proved.

## 5. Not modelled

* The backend's run creation with its budget check, its chat streaming and drivers, its
  connection slots, notifications, OAuth and key rotation: each is a system of its own
  that the modelled parts touch at one call, and this project has stopped before them.
  `PROJECT.json` has the hazard of the budget check; others worth a model are that
  `POST /jobs` is retried like a read (tinker.py:141), that resume asks for `MAX(seq)`
  after it has replayed (chat.py:436), and that the global slot is taken before the
  agent's (semaphores.py:85).
* Rows deleted by a rollback do not occur in `ControlPlane`, where every run exists.
* Numbers of a payload: rates and division by 3600 are left out of `CostFor`, the RL
  signals a pass copies are data no property tells apart.
* The channel that fans all runs out (`/ws/runs`) works like a run's own.
* In the frontend: read-only queries (research, notes, citations, lineage, summary
  cards), static templates (the bootstrap prompt), drawing (charts, Markdown, cards,
  the UI kit), the banner for stale data, which nothing mounts, and the connection
  indicator, which counts its own renderings: it stays "Live" until something else
  renders it.
* Time: a time-out may happen whenever something waits; sleeps and backoffs only
  order things.
* Authentication beyond "with which token", logging, formatting, wording.

## 6. Plan

1. Done: the supervisor, the control plane and the metrics; the browser's chat, run
   page, alerts, board, comparison, session and settings; their runs; the proofs above.
2. Next to prove: that `ControlPlane`, whose requests and crashes drive the supervisor,
   implements `Tracker`; and what the liveness properties rest on: a cancelled task has
   only steps that bring it nearer to its end, an aborted send likewise.
3. Next to model: run creation, then an abstract run's life that it and `ControlPlane`
   implement; the backend's chat stream with resume; the connection slots.
