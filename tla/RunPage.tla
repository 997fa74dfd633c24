------------------------------- MODULE RunPage -------------------------------
(****************************************************************************)
(* The page of one sandbox run (app/runs/[id]/page.tsx): the run's query,   *)
(* polled every 8 s, its actions and its promotion.  RunChart has its chart.*)
(*                                                                          *)
(* The server keeps the contract of lib/types.ts; any request may fail,     *)
(* before or after it took effect, and a query is served at one moment.     *)
(* React Query keeps one request per key, keeps what it cached for five     *)
(* minutes after the page has gone, and a whole-page load forgets it all.   *)
(* The user is the run's owner: who is not sees no actions.                 *)
(****************************************************************************)
EXTENDS Integers, Sequences

CONSTANTS
  MaxVersion,   \* bound: changes of the run's row
  Clicks        \* clicks on Pause, Resume and Cancel

ASSUME RunPageAssumption ==
  MaxVersion \in Nat \ {0}

VARIABLES
  history,    \* server: the run's status, version by version
  page,       \* "away", "waiting" (no data yet), "open", "crashed"
  run,        \* cache: the version of ["run", id], 0: none
  failed,     \* the last request of the run failed
  ask,        \* the request of the run under way
  posts,      \* the actions clicked
  promoteOpen,
  promotions  \* requests to promote: of the mounted dialog, or of an earlier one

queryVars == <<run, failed, ask>>
actionVars == <<posts, promoteOpen, promotions>>
vars == <<history, page, queryVars, actionVars>>

Statuses == {"queued", "running", "paused", "succeeded", "cancelled"}
Mounted == page \in {"waiting", "open"}
NoAsk == [phase |-> "idle", answer |-> 0]
Asked == [phase |-> "asked", answer |-> 0]
NoPost == [phase |-> "none", kind |-> "cancel", version |-> 0]

TypeOK ==
  /\ history \in UNION {[1..n -> Statuses] : n \in 1..MaxVersion}
  /\ page \in {"away", "waiting", "open", "crashed"}
  /\ run \in 0..Len(history) /\ failed \in BOOLEAN
  /\ ask \in [phase : {"idle", "asked", "answered"}, answer : 0..MaxVersion]
  /\ posts \in [Clicks -> [phase : {"none", "sent", "done", "refused", "acked", "over"},
                           kind : {"pause", "resume", "cancel"}, version : 0..MaxVersion]]
  /\ promoteOpen \in BOOLEAN
  /\ promotions \in [mine : BOOLEAN, earlier : BOOLEAN]
  /\ promoteOpen \/ promotions.mine => page = "open"

Init ==
  /\ history \in {<<"queued">>, <<"running">>, <<"paused">>}
  /\ page = "away"
  /\ run = 0 /\ failed = FALSE /\ ask = NoAsk
  /\ posts = [c \in Clicks |-> NoPost]
  /\ promoteOpen = FALSE /\ promotions = [mine |-> FALSE, earlier |-> FALSE]

Status(version) == history[version]
Now == Len(history)

-----------------------------------------------------------------------------
(* The server                                                                *)

\* The row changes: by the training itself, or by somebody else's action.
Turns(to) ==
  /\ Now < MaxVersion
  /\ history' = Append(history, to)

Change ==
  /\ Status(Now) \notin {"succeeded", "cancelled"}
  /\ \E to \in {"running", "paused", "succeeded"} : Turns(to)
  /\ UNCHANGED <<page, queryVars, actionVars>>

Allowed(kind) ==
  CASE kind = "pause" -> Status(Now) = "running"
    [] kind = "resume" -> Status(Now) = "paused"
    [] OTHER -> Status(Now) \in {"queued", "running", "paused"}

Result == [pause |-> "paused", resume |-> "running", cancel |-> "cancelled"]

\* A POST takes effect, or is refused.
Handle(c) ==
  /\ posts[c].phase = "sent"
  /\ IF Allowed(posts[c].kind)
     THEN /\ Turns(Result[posts[c].kind])
          /\ posts' = [posts EXCEPT ![c].phase = "done", ![c].version = Now + 1]
     ELSE /\ posts' = [posts EXCEPT ![c].phase = "refused"]
          /\ UNCHANGED history
  /\ UNCHANGED <<page, queryVars, promoteOpen, promotions>>

\* A query is answered from the row of one moment.
AnswerRun ==
  /\ ask.phase = "asked"
  /\ ask' = [phase |-> "answered", answer |-> Now]
  /\ UNCHANGED <<history, page, run, failed, actionVars>>

-----------------------------------------------------------------------------
(* Mounting                                                                  *)

\* The dialog goes, not the request it has sent.
Unmounted ==
  /\ promoteOpen' = FALSE
  /\ promotions' = [mine |-> FALSE, earlier |-> promotions.mine \/ promotions.earlier]

\* Every query and request of this tab is forgotten.
Forgotten ==
  /\ run' = 0 /\ failed' = FALSE /\ ask' = NoAsk
  /\ posts' = [c \in Clicks |-> IF posts[c].phase = "none" THEN NoPost
                                 ELSE [posts[c] EXCEPT !.phase = "over"]]

\* The page appears: with what is cached, which it fetches again unless it is
\* younger than five seconds.  Without a run it stops at its first return.
Visit ==
  /\ page = "away"
  /\ page' = IF run = 0 THEN "waiting" ELSE "open"
  /\ \/ run > 0 /\ UNCHANGED ask
     \/ ask' = IF ask.phase = "idle" THEN Asked ELSE ask
  /\ UNCHANGED <<history, run, failed, actionVars>>

\* Another page, or another run: its page is another instance.
Leave ==
  /\ Mounted
  /\ page' = "away"
  /\ Unmounted
  /\ UNCHANGED <<history, queryVars, posts>>

\* Five minutes without the page; no answer takes that long.
CacheExpires ==
  /\ page = "away"
  /\ ask.phase = "idle"
  /\ \A c \in Clicks : posts[c].phase \notin {"sent", "done", "refused"}
  /\ run' = 0 /\ failed' = FALSE
  /\ UNCHANGED <<history, page, ask, actionVars>>

\* A whole-page load, which the toasts of notifications.ts do too; what they
\* dispatch before it goes with the page.
Reload ==
  /\ page' = "away"
  /\ promoteOpen' = FALSE
  /\ promotions' = [mine |-> FALSE, earlier |-> FALSE]
  /\ Forgotten
  /\ UNCHANGED history

-----------------------------------------------------------------------------
(* The run's query                                                           *)

\* A plausible bug: an error ends the polling.
PollWhileWell ==
  /\ Mounted /\ ~failed
  /\ ask.phase = "idle"
  /\ ask' = Asked
  /\ UNCHANGED <<history, page, run, failed, actionVars>>

\* refetchInterval: joins a request that is under way.
Poll ==
  /\ Mounted
  /\ ask.phase = "idle"
  /\ ask' = Asked
  /\ UNCHANGED <<history, page, run, failed, actionVars>>

\* A plausible bug: cancelRefetch is FALSE.
RefetchJoins == ask' = IF ask.phase = "idle" THEN Asked ELSE ask

\* refetch() and invalidateQueries: give up a request that is under way, but
\* for the first one.
Refetch == ask' = IF ask.phase = "idle" \/ run > 0 THEN Asked ELSE ask

\* A run_finished event.
Notified ==
  /\ page = "open"
  /\ Status(Now) \in {"succeeded", "cancelled"}
  /\ Refetch
  /\ UNCHANGED <<history, page, run, failed, actionVars>>

\* The answer is cached.  A page that had none now gets past its first return
\* and calls one hook more than before: React throws, and the error takes the
\* whole tree with it.
RunArrives ==
  /\ ask.phase = "answered"
  /\ IF page = "waiting"
     THEN page' = "crashed" /\ Unmounted /\ Forgotten
     ELSE /\ run' = ask.answer /\ failed' = FALSE /\ ask' = NoAsk
          /\ UNCHANGED <<page, actionVars>>
  /\ UNCHANGED history

\* Twice without an answer, or with one that does not parse: the data stays.
RunFails ==
  /\ ask.phase # "idle"
  /\ ask' = NoAsk /\ failed' = TRUE
  /\ UNCHANGED <<history, page, run, actionVars>>

-----------------------------------------------------------------------------
(* The actions                                                               *)

Offered(kind) ==
  CASE kind = "pause" -> Status(run) = "running"
    [] kind = "resume" -> Status(run) = "paused"
    [] OTHER -> Status(run) \in {"queued", "running", "paused"}

\* A button of the status shown; nothing keeps it from being clicked again.
Click(c, kind) ==
  /\ page = "open"
  /\ Offered(kind)
  /\ posts[c].phase = "none"
  /\ posts' = [posts EXCEPT ![c] = [phase |-> "sent", kind |-> kind, version |-> 0]]
  /\ UNCHANGED <<history, page, queryVars, promoteOpen, promotions>>

\* "requested", and onChange: on a page that has gone as well.
Acknowledged(c) ==
  /\ posts[c].phase = "done"
  /\ posts' = [posts EXCEPT ![c].phase = "acked"]
  /\ Refetch
  /\ UNCHANGED <<history, page, run, failed, promoteOpen, promotions>>

\* "failed": it was refused, or its answer was lost or did not parse.
ActionFails(c) ==
  /\ posts[c].phase \in {"sent", "done", "refused"}
  /\ posts' = [posts EXCEPT ![c].phase = "over"]
  /\ UNCHANGED <<history, page, queryVars, promoteOpen, promotions>>

CanPromote == page = "open" /\ Status(run) = "succeeded"

\* The Promote button.
OpenPromote ==
  /\ CanPromote /\ ~promoteOpen
  /\ promoteOpen' = TRUE
  /\ UNCHANGED <<history, page, queryVars, posts, promotions>>

\* An intent of another component opens it for when there is something to promote.
PromoteIntent ==
  /\ page = "open" /\ ~promoteOpen
  /\ promoteOpen' = TRUE
  /\ UNCHANGED <<history, page, queryVars, posts, promotions>>

ClosePromote ==
  /\ CanPromote /\ promoteOpen
  /\ promoteOpen' = FALSE
  /\ UNCHANGED <<history, page, queryVars, posts, promotions>>

\* The dialog's mutation: one at a time, with a name, and no request at all if
\* the overrides are not JSON.
Promote ==
  /\ CanPromote /\ promoteOpen
  /\ ~promotions.mine
  /\ promotions' = [promotions EXCEPT !.mine = TRUE]
  /\ UNCHANGED <<history, page, queryVars, posts, promoteOpen>>

\* A toast, and the dialog stays.
PromotionFails ==
  /\ \/ promotions.mine /\ promotions' = [promotions EXCEPT !.mine = FALSE]
     \/ promotions.earlier /\ promotions' = [promotions EXCEPT !.earlier = FALSE]
  /\ UNCHANGED <<history, page, queryVars, posts, promoteOpen>>

\* To the page of the new run, from wherever the user is by then.
Promoted ==
  /\ promotions.mine \/ promotions.earlier
  /\ page' = "away"
  /\ promoteOpen' = FALSE
  /\ promotions' = [mine |-> FALSE, earlier |-> promotions.mine /\ promotions.earlier]
  /\ UNCHANGED <<history, queryVars, posts>>

-----------------------------------------------------------------------------
ServerStep ==
  Change \/ AnswerRun \/ \E c \in Clicks : Handle(c)

NetworkStep ==
  \/ RunArrives \/ RunFails \/ Notified
  \/ Promoted \/ PromotionFails
  \/ \E c \in Clicks : Acknowledged(c) \/ ActionFails(c)

UserStep ==
  \/ Visit \/ Leave \/ Reload
  \/ \E c \in Clicks, kind \in {"pause", "resume", "cancel"} : Click(c, kind)
  \/ OpenPromote \/ PromoteIntent \/ ClosePromote \/ Promote

Next ==
  ServerStep \/ NetworkStep \/ UserStep \/ Poll \/ CacheExpires

Spec == Init /\ [][Next]_vars

\* Timers fire while the tab is visible; of requests made again and again one
\* is answered, and one answer gets through.
Fairness ==
  /\ WF_vars(Poll) /\ SF_vars(AnswerRun) /\ SF_vars(RunArrives)

-----------------------------------------------------------------------------
(* Properties                                                                *)

\* What the page shows of the run is never older than an action it has
\* acknowledged: the request that follows the action is not answered by one
\* that was under way before it (run-actions.tsx:39-47; page.tsx:53-57, 162).
AcknowledgedIsShown ==
  \A c \in Clicks :
    posts[c].phase = "acked" /\ run > 0 /\ ask.phase = "idle" /\ ~failed
      => run >= posts[c].version

\* A page that stays open comes to show how its run ended, however many requests
\* fail or are given up on the way (page.tsx:53-57).
EndIsShown ==
  page = "open" /\ Status(Now) \in {"succeeded", "cancelled"}
    ~> page # "open" \/ Status(run) = Status(Now)

\* README.md:9 describes the page as "run detail": it opens.
PageOpens == page # "crashed"
=============================================================================
