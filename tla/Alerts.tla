------------------------------- MODULE Alerts -------------------------------
(****************************************************************************)
(* The alerts a browser tab is told of: the notification stream with its    *)
(* toasts and the badge of the sidebar (lib/notifications.ts, app-shell.tsx)*)
(* and the two lists, of a run (run-alerts.tsx) and of all runs             *)
(* (app/alerts/page.tsx).                                                   *)
(*                                                                          *)
(* The server stores an alert before it tells of it, tells only whoever is  *)
(* connected, and may tell again.  An alert is its number, in the order of  *)
(* their times.  React Query keeps one request per list; its answer is the  *)
(* list at some moment since it was sent.                                   *)
(****************************************************************************)
EXTENDS Integers, Sequences, FiniteSets, SequencesExt

CONSTANTS
  Runs,
  MaxAlerts,    \* bound: alerts
  MaxToasts,    \* bound: toasts
  SeenLimit,    \* keys useNotifications remembers at most: 500
  SeenKept,     \* of which it keeps, beyond that: 200
  MaxListed,    \* alerts of the page: 500
  MaxRuns       \* runs of the page: 200

ASSUME AlertsAssumption ==
  /\ MaxAlerts \in Nat /\ MaxToasts \in Nat
  /\ MaxListed \in Nat \ {0} /\ MaxRuns \in Nat
  /\ SeenLimit \in Nat /\ SeenKept \in 1..SeenLimit

VARIABLES
  alerts,     \* server: [run, level] of each alert
  stream,     \* the EventSource: "open", or "closed" until its timer
  wire,       \* events on it
  seen,       \* keys remembered, oldest first
  toasts,     \* history: what was toasted
  unread,     \* the badge
  screen,     \* "other", "page" (of all alerts), or the run whose alerts are open
  live,       \* the run of that list is live as far as its page knows
  known,      \* the runs the page has listed
  shown,      \* cache: the moment of ["run-alerts", r], -1: none
  ask,        \* the moment its request was sent, -1: none under way
  stale,      \* lists marked invalid
  told,       \* history: the last alert of each run that was toasted
  met,        \* history: the lists whose request under way was sent before that,
              \* and goes on
  crossed     \* history: the lists that are the answer to such a request

streamVars == <<stream, wire, seen, toasts, unread>>
screenVars == <<screen, live, known>>
listVars == <<shown, ask, stale, told, met, crossed>>
vars == <<alerts, streamVars, screenVars, listVars>>

Levels == {"error", "info"}
Now == Len(alerts)

TypeOK ==
  /\ Now <= MaxAlerts /\ Range(alerts) \subseteq [run : Runs, level : Levels]
  /\ stream \in {"open", "closed"}
  /\ Range(wire) \cup Range(seen) \cup Range(toasts) \subseteq 1..Now
  /\ Len(seen) <= SeenLimit
  /\ unread \in 0..Len(toasts)
  /\ screen \in Runs \cup {"other", "page"}
  /\ live \in BOOLEAN /\ known \subseteq Runs /\ Cardinality(known) <= MaxRuns
  /\ shown \in [Runs -> -1..Now] /\ ask \in [Runs -> -1..Now]
  /\ stale \subseteq Runs /\ met \subseteq Runs /\ crossed \subseteq Runs
  /\ told \in [Runs -> 0..Now]

Init ==
  /\ alerts = <<>>
  /\ stream = "closed" /\ wire = <<>> /\ seen = <<>> /\ toasts = <<>>
  /\ unread = 0
  /\ screen = "other" /\ live = FALSE /\ known = {}
  /\ shown = [r \in Runs |-> -1] /\ ask = [r \in Runs |-> -1]
  /\ stale = {} /\ met = {} /\ crossed = {} /\ told = [r \in Runs |-> 0]

-----------------------------------------------------------------------------
(* The server                                                                *)

\* An alert is stored; of errors the stream is told.
Emit(r, level) ==
  /\ Now < MaxAlerts
  /\ alerts' = Append(alerts, [run |-> r, level |-> level])
  /\ wire' = IF level = "error" /\ stream = "open" THEN Append(wire, Now + 1) ELSE wire
  /\ UNCHANGED <<stream, seen, toasts, unread, screenVars, listVars>>

Repeat ==
  /\ stream = "open" /\ wire = <<>>
  /\ \E i \in DOMAIN alerts : alerts[i].level = "error" /\ wire' = <<i>>
  /\ UNCHANGED <<alerts, stream, seen, toasts, unread, screenVars, listVars>>

-----------------------------------------------------------------------------
(* The lists                                                                 *)

\* The lists on the screen, which are those React Query fetches.
Observed ==
  IF screen = "page" THEN known ELSE {r \in Runs : screen = r}

\* A request, or the one that is under way.
Joined(rs) == [r \in Runs |-> IF r \in rs /\ ask[r] = -1 THEN Now ELSE ask[r]]

\* A request in place of the one under way, but for the first one of a list.
Restarted(rs) ==
  [r \in Runs |-> IF r \in rs /\ (ask[r] = -1 \/ shown[r] >= 0) THEN Now ELSE ask[r]]

\* refetchInterval: of a run's list while the run is live.
Poll(r) ==
  /\ r \in Observed /\ ask[r] = -1
  /\ screen = "page" \/ live
  /\ ask' = Joined({r})
  /\ UNCHANGED <<alerts, streamVars, screenVars, shown, stale, told, met, crossed>>

\* Lists appear: those missing or invalid are asked for, and those that are not
\* fresh (5 s; 15 s on the page).
Fetched(rs) ==
  \E old \in SUBSET {r \in rs : shown[r] >= 0 /\ r \notin stale} :
    ask' = Joined({r \in rs : shown[r] = -1 \/ r \in stale} \cup old)

\* markAlertsSeen.
MarkSeen == unread' = 0

OpenRunAlerts(r) ==
  /\ screen = "other"
  /\ screen' = r /\ live' \in BOOLEAN
  /\ Fetched({r})
  /\ MarkSeen
  /\ UNCHANGED <<alerts, stream, wire, seen, toasts, known, shown, stale, told, met, crossed>>

\* The run's page learns that the run has ended.
RunEnds ==
  /\ live /\ live' = FALSE
  /\ UNCHANGED <<alerts, streamVars, screen, known, listVars>>

OpenAlertsPage ==
  /\ screen = "other"
  /\ screen' = "page"
  /\ known' \in {known, {}}
  /\ Fetched(known')
  /\ MarkSeen
  /\ UNCHANGED <<alerts, stream, wire, seen, toasts, live, shown, stale, told, met, crossed>>

\* The page's query of the runs is answered, for the first time or again: the
\* newest ones, and the lists of those that are new to the page appear.
RunsListed ==
  /\ screen = "page"
  /\ known' \in {runs \in SUBSET Runs : Cardinality(runs) <= MaxRuns}
  /\ Fetched(known' \ known)
  /\ UNCHANGED <<alerts, streamVars, screen, live, shown, stale, told, met, crossed>>

Leave ==
  /\ screen # "other"
  /\ screen' = "other" /\ live' = FALSE
  /\ UNCHANGED <<alerts, streamVars, known, listVars>>

\* The alerts of a run as its list has them; the page's, newest first, before its
\* filters.
ListOf(r, moment) == {i \in 1..moment : alerts[i].run = r}
Newest(ids) == {i \in ids : Cardinality({j \in ids : j >= i}) <= MaxListed}
Aggregated == Newest(UNION {ListOf(r, shown[r]) : r \in Observed})

\* The list of a run clears the badge when it has more alerts, or fewer, than
\* before.
ListArrives(r) ==
  /\ ask[r] >= 0
  /\ \E moment \in ask[r]..Now :
       /\ shown' = [shown EXCEPT ![r] = moment]
       /\ IF screen = r /\ Cardinality(ListOf(r, shown[r])) # Cardinality(ListOf(r, moment))
          THEN MarkSeen ELSE UNCHANGED unread
  /\ ask' = [ask EXCEPT ![r] = -1]
  /\ stale' = stale \ {r}
  /\ met' = met \ {r}
  /\ crossed' = IF r \in met THEN crossed \cup {r} ELSE crossed \ {r}
  /\ UNCHANGED <<alerts, stream, wire, seen, toasts, screenVars, told>>

\* After one retry; the list stays what it was.
ListFails(r) ==
  /\ ask[r] >= 0
  /\ ask' = [ask EXCEPT ![r] = -1]
  /\ met' = met \ {r}
  /\ UNCHANGED <<alerts, streamVars, screenVars, shown, stale, told, crossed>>

\* Five minutes without the list.
CacheExpires(r) ==
  /\ r \notin Observed /\ ask[r] = -1
  /\ shown' = [shown EXCEPT ![r] = -1]
  /\ stale' = stale \ {r} /\ crossed' = crossed \ {r}
  /\ UNCHANGED <<alerts, streamVars, screenVars, ask, told, met>>

-----------------------------------------------------------------------------
(* The stream                                                                *)

\* Mounted with the root, and again four seconds after an error.
Connect ==
  /\ stream = "closed" /\ stream' = "open"
  /\ UNCHANGED <<alerts, wire, seen, toasts, unread, screenVars, listVars>>

StreamFails ==
  /\ stream = "open" /\ stream' = "closed"
  /\ wire' = <<>>
  /\ UNCHANGED <<alerts, seen, toasts, unread, screenVars, listVars>>

\* Plausible bugs: the wrong end of the set is kept; none of it is dropped.
RememberOldest(key) ==
  LET all == Append(seen, key)
  IN IF Len(all) > SeenLimit THEN SubSeq(all, 1, SeenKept) ELSE all
RememberAll(key) == Append(seen, key)

\* The keys remembered once `key' is noticed.
Remember(key) ==
  LET all == Append(seen, key)
  IN IF Len(all) > SeenLimit THEN SubSeq(all, Len(all) - SeenKept + 1, Len(all)) ELSE all

\* An event already seen is dropped.  A new one is toasted and counted by the
\* badge, and its run's list is invalid: fetched again if it is on the screen.
\* A request that is not replaced by that goes on: a list's first one, or that of
\* a list that has left the screen.
Notice ==
  /\ wire # <<>>
  /\ wire' = Tail(wire)
  /\ LET alert == Head(wire)
         r == alerts[alert].run
         replaced == r \in Observed /\ shown[r] >= 0
     IN IF alert \in Range(seen)
        THEN UNCHANGED <<seen, toasts, unread, ask, stale, told, met>>
        ELSE /\ Len(toasts) < MaxToasts
             /\ seen' = Remember(alert)
             /\ toasts' = Append(toasts, alert)
             /\ unread' = unread + 1
             /\ stale' = IF shown[r] >= 0 THEN stale \cup {r} ELSE stale
             /\ ask' = IF r \in Observed THEN Restarted({r}) ELSE ask
             /\ told' = IF alert > told[r] THEN [told EXCEPT ![r] = alert] ELSE told
             /\ met' = IF replaced \/ ask[r] = -1 THEN met \ {r} ELSE met \cup {r}
  /\ UNCHANGED <<alerts, stream, screenVars, shown, crossed>>

\* A whole-page load, by the user or by a toast's button, which opens the list
\* of the run.
Reload(to) ==
  /\ screen' = to /\ live' = (to # "other") /\ known' = {}
  /\ stream' = "closed" /\ wire' = <<>> /\ seen' = <<>> /\ toasts' = <<>>
  /\ unread' = 0
  /\ shown' = [r \in Runs |-> -1]
  /\ ask' = [r \in Runs |-> IF r = to THEN Now ELSE -1]
  /\ stale' = {} /\ met' = {} /\ crossed' = {} /\ told' = [r \in Runs |-> 0]
  /\ UNCHANGED alerts

-----------------------------------------------------------------------------
Next ==
  \/ \E r \in Runs, level \in Levels : Emit(r, level)
  \/ \E r \in Runs :
       \/ Poll(r) \/ ListArrives(r) \/ ListFails(r) \/ CacheExpires(r)
       \/ OpenRunAlerts(r)
  \/ OpenAlertsPage \/ RunsListed \/ RunEnds \/ Leave
  \/ Repeat \/ Connect \/ StreamFails \/ Notice
  \/ \E to \in Runs \cup {"other"} : Reload(to)

Spec == Init /\ [][Next]_vars

-----------------------------------------------------------------------------
(* Properties                                                                *)

\* An event is toasted twice only after more others than the trimmed set of
\* keys remembers (notifications.ts:68-74).
NoDoubleToast ==
  \A i, j \in DOMAIN toasts : i < j /\ toasts[i] = toasts[j] => j - i > SeenKept

\* What a list on the screen owes an alert that was toasted: to have it, unless
\* the list knows that it is out of date, or, of the page of all alerts, as many
\* newer ones leave no room.
Lists(r, alert) ==
  shown[r] >= 0 /\ r \notin stale /\ ask[r] = -1 =>
    \/ alert \in Aggregated
    \/ Cardinality(Aggregated) = MaxListed /\ \A i \in Aggregated : i > alert

\* Alerts "surface in real time on the run detail page and trigger toasts"
\* (README.md:13): what was toasted is in the list.  It is not so: a first
\* request, or that of a list that was left, goes on when the event comes, and its
\* answer, older than the event, makes the list valid (notifications.ts:76-77).
ToastedIsListed == \A r \in Observed : told[r] > 0 => Lists(r, told[r])

\* It is so of every list that is not the answer to such a request: wherever
\* polls, answers, failures, events and pages cross, no other answer older than
\* the event passes for the list (notifications.ts:76-81; alerts/page.tsx:155-177).
ToldIsShown ==
  \A r \in Observed \ crossed : told[r] > 0 => Lists(r, told[r])
=============================================================================
