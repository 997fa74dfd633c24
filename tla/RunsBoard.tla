----------------------------- MODULE RunsBoard -----------------------------
(****************************************************************************)
(* The runs board: the filters and the selection kept in its URL            *)
(* (app/page.tsx, runs-filters.tsx, runs-table.tsx), the cancellation of    *)
(* what is selected (runs-multiselect-actions.tsx) or of one run from the   *)
(* palette (command-palette.tsx), and the comparison (compare/page.tsx).    *)
(*                                                                          *)
(* router.replace lands later, and a newer navigation overtakes it; every   *)
(* handler builds on the URL that was rendered.  The server ends a run of   *)
(* the user's that has not ended; any request may fail, before or after.    *)
(****************************************************************************)
EXTENDS Integers, FiniteSets

CONSTANTS
  Runs,
  Mine,         \* the runs the user owns
  Clicks,       \* bound: cancellations under way
  CompareMax    \* COMPARE_MAX, MAX: 6

ASSUME BoardAssumption ==
  /\ IsFiniteSet(Runs) /\ Mine \subseteq Runs
  /\ CompareMax \in Nat \ {0}

VARIABLES
  status,     \* server: "running", "paused", "ended"
  list,       \* the last answer of the poll, {} before the first
  url,        \* of the board, as it was rendered
  next,       \* a replacement that has not landed, or Settled
  at,         \* the page: "board", "run", "compare"
  asking,     \* the dialog of Cancel all is open
  jobs,       \* what became of each cancellation
  compared    \* the runs that the comparison shows

urlVars == <<url, next, at>>
boardVars == <<status, list, urlVars, asking, jobs, compared>>

Statuses == {"running", "paused", "ended"}
Urls == [selected : SUBSET Runs, only : SUBSET Statuses]
Settled == [selected |-> {}, only |-> {"settled"}]
Bare == [selected |-> {}, only |-> {}]
Palette == {"palette"}   \* in the place of a filter: it has no URL to restore
NoJob == [phase |-> "idle", of |-> {}, todo |-> {}, now |-> {}, tried |-> {}, ok |-> {},
          call |-> "none", filter |-> {}]

BoardTypeOK ==
  /\ status \in [Runs -> Statuses]
  /\ list = <<>> \/ list \in [Runs -> Statuses]
  /\ url \in Urls /\ next \in Urls \cup {Settled}
  /\ at \in {"board", "run", "compare"} /\ asking \in BOOLEAN
  /\ jobs \in [Clicks -> [phase : {"idle", "going", "told", "gone"},
                          of : SUBSET Runs, todo : SUBSET Runs, now : SUBSET Runs,
                          tried : SUBSET Runs, ok : SUBSET Runs, call : {"none", "sent", "done"},
                          filter : (SUBSET Statuses) \cup {Palette}]]
  /\ \A c \in Clicks :
       /\ Cardinality(jobs[c].now) <= 1
       /\ (jobs[c].call # "none") = (jobs[c].now # {})
  /\ compared \subseteq Runs /\ Cardinality(compared) <= CompareMax

\* The link that the board is opened with may select any runs.
BoardInit ==
  /\ status = [r \in Runs |-> "running"]
  /\ list = <<>>
  /\ url \in {u \in Urls : u.only = {}} /\ next = Settled /\ at = "board"
  /\ asking = FALSE
  /\ jobs = [c \in Clicks |-> NoJob]
  /\ compared = {}

Listed == DOMAIN list
\* The dialog is part of the bar, which an empty selection hides: the next run
\* that is selected brings back a dialog that was open.
DialogShown == at = "board" /\ asking /\ url.selected # {}

Visible == {r \in Listed : url.only = {} \/ list[r] \in url.only}

-----------------------------------------------------------------------------
(* The server                                                                *)

Moves(r) ==
  /\ status[r] # "ended"
  /\ \E to \in Statuses \ {status[r]} : status' = [status EXCEPT ![r] = to]
  /\ UNCHANGED <<list, urlVars, asking, jobs, compared>>

\* The poll of every five seconds.
Poll ==
  /\ list' = status
  /\ UNCHANGED <<status, urlVars, asking, jobs, compared>>

-----------------------------------------------------------------------------
(* The URL                                                                   *)

Replace(u) == next' = u

\* A replacement brings the board back, wherever the user has gone.
Land ==
  /\ next # Settled
  /\ url' = next /\ next' = Settled /\ at' = "board"
  /\ asking' = (asking /\ at = "board")
  /\ compared' = {}
  /\ UNCHANGED <<status, list, jobs>>

Select(runs) ==
  /\ at = "board" /\ ~DialogShown
  /\ Replace([url EXCEPT !.selected = runs])
  /\ UNCHANGED <<status, list, url, at, asking, jobs, compared>>

\* A row's box, or a row while any is selected.
ToggleRow(r) ==
  /\ r \in Visible
  /\ Select(IF r \in url.selected THEN url.selected \ {r} ELSE url.selected \cup {r})

\* With Shift: the rows from the last one on.
SelectRange(range) ==
  /\ range \subseteq Visible /\ range # {}
  /\ Select(url.selected \cup range)

\* The box of the header: all that are visible, and no other.
ToggleAll ==
  Select(IF Visible # {} /\ Visible \subseteq url.selected THEN {} ELSE Visible)

\* Escape, and the cross of the bar.  Escape closes the dialog as well.
ClearSelection ==
  /\ at = "board" /\ url.selected # {}
  /\ Replace([url EXCEPT !.selected = {}])
  /\ asking' = FALSE
  /\ UNCHANGED <<status, list, url, at, jobs, compared>>

Filter(only) ==
  /\ at = "board" /\ ~DialogShown
  /\ Replace([url EXCEPT !.only = only])
  /\ UNCHANGED <<status, list, url, at, asking, jobs, compared>>

ToggleStatus(s) ==
  Filter(IF s \in url.only THEN url.only \ {s} ELSE url.only \cup {s})

ClearFilters == url.only # {} /\ Filter({})

\* A row, a pinned run, or one of the palette; a navigation overtakes what has
\* not landed.
OpenRun ==
  /\ at # "run" /\ ~DialogShown /\ Listed # {}
  /\ at' = "run" /\ next' = Settled
  /\ compared' = {} /\ asking' = FALSE
  /\ UNCHANGED <<status, list, url, jobs>>

\* From the palette or the sidebar, with no filter and no selection; or back.
OpenBoard ==
  /\ at # "board" /\ at' = "board" /\ next' = Settled
  /\ url' \in {url, Bare}
  /\ asking' = FALSE /\ compared' = {}
  /\ UNCHANGED <<status, list, jobs>>

\* A whole-page load: the loops that were going end there.
Reload ==
  /\ list' = <<>> /\ next' = Settled /\ asking' = FALSE
  /\ jobs' = [c \in Clicks |-> IF jobs[c].phase = "going" THEN [NoJob EXCEPT !.phase = "gone"]
                               ELSE jobs[c]]
  /\ UNCHANGED <<status, url, at, compared>>

-----------------------------------------------------------------------------
(* The comparison                                                            *)

CompareSelected ==
  /\ at = "board" /\ ~DialogShown
  /\ Cardinality(url.selected) \in 2 .. CompareMax
  /\ at' = "compare" /\ next' = Settled
  /\ compared' = url.selected /\ asking' = FALSE
  /\ UNCHANGED <<status, list, url, jobs>>

\* The page's own URL follows, and overtakes what has not landed.
AddCompared(r) ==
  /\ at = "compare" /\ r \in Listed \ compared
  /\ Cardinality(compared) < CompareMax
  /\ compared' = compared \cup {r} /\ next' = Settled
  /\ UNCHANGED <<status, list, url, at, asking, jobs>>

RemoveCompared(r) ==
  /\ at = "compare" /\ r \in Listed \cap compared
  /\ compared' = compared \ {r} /\ next' = Settled
  /\ UNCHANGED <<status, list, url, at, asking, jobs>>

-----------------------------------------------------------------------------
(* Cancelling                                                                *)

\* Offered when what is both selected and visible is the user's and running:
\* also when nothing is.
CancelOffered ==
  /\ at = "board" /\ url.selected # {}
  /\ \A r \in url.selected \cap Visible : r \in Mine /\ list[r] = "running"

AskToCancel ==
  /\ CancelOffered /\ ~DialogShown /\ asking' = TRUE
  /\ UNCHANGED <<status, list, urlVars, jobs, compared>>

KeepRunning ==
  /\ DialogShown /\ asking' = FALSE
  /\ UNCHANGED <<status, list, urlVars, jobs, compared>>

Start(c, runs, filter) ==
  /\ jobs[c].phase # "going"
  /\ jobs' = [jobs EXCEPT ![c] = [NoJob EXCEPT !.phase = "going", !.of = runs,
                                               !.todo = runs, !.filter = filter]]

\* cancelAll: all that is selected, visible or not.
CancelAll(c) ==
  /\ DialogShown
  /\ Start(c, url.selected, url.only)
  /\ asking' = FALSE
  /\ UNCHANGED <<status, list, urlVars, compared>>

\* From the palette, anywhere: a run that has not ended, for all the list knows.
CancelFromPalette(c, r) ==
  /\ ~DialogShown /\ r \in Listed /\ list[r] # "ended"
  /\ Start(c, {r}, Palette)
  /\ UNCHANGED <<status, list, urlVars, asking, compared>>

\* A plausible bug: all are asked for at once.
CallAll(c) ==
  /\ jobs[c].phase = "going" /\ jobs[c].now = {} /\ jobs[c].todo # {}
  /\ jobs' = [jobs EXCEPT ![c].todo = {}, ![c].now = jobs[c].todo, ![c].call = "sent"]
  /\ UNCHANGED <<status, list, urlVars, asking, compared>>

CallNext(c) ==
  /\ jobs[c].phase = "going" /\ jobs[c].now = {}
  /\ \E r \in jobs[c].todo :
       jobs' = [jobs EXCEPT ![c].todo = @ \ {r}, ![c].now = {r},
                               ![c].call = "sent"]
  /\ UNCHANGED <<status, list, urlVars, asking, compared>>

\* The server, though the page that asked may be gone.
ServerCancels(c) ==
  \E r \in jobs[c].now \cap Mine :
    /\ jobs[c].call = "sent" /\ status[r] # "ended"
    /\ status' = [status EXCEPT ![r] = "ended"]
    /\ jobs' = [jobs EXCEPT ![c].call = "done"]
    /\ UNCHANGED <<list, urlVars, asking, compared>>

Tried(c) == [jobs[c] EXCEPT !.tried = @ \cup jobs[c].now, !.now = {}, !.call = "none"]

CallSucceeds(c) ==
  /\ jobs[c].phase = "going" /\ jobs[c].call = "done"
  /\ jobs' = [jobs EXCEPT ![c] = [Tried(c) EXCEPT !.ok = @ \cup jobs[c].now]]
  /\ UNCHANGED <<status, list, urlVars, asking, compared>>

\* A plausible bug: the count is outside the try.
CallFailsCounted(c) ==
  /\ jobs[c].phase = "going" /\ jobs[c].call # "none"
  /\ jobs' = [jobs EXCEPT ![c] = [Tried(c) EXCEPT !.ok = @ \cup jobs[c].now]]
  /\ UNCHANGED <<status, list, urlVars, asking, compared>>

\* Refused, lost, or its answer lost: the next one is tried.
CallFails(c) ==
  /\ jobs[c].phase = "going" /\ jobs[c].call # "none"
  /\ jobs' = [jobs EXCEPT ![c] = Tried(c)]
  /\ UNCHANGED <<status, list, urlVars, asking, compared>>

AllCalled(c) == jobs[c].phase = "going" /\ jobs[c].todo = {} /\ jobs[c].now = {}

\* A plausible bug: only the bar that is still there reports.
ReportHere(c) ==
  /\ AllCalled(c) /\ jobs[c].filter # Palette
  /\ at = "board" /\ url.selected # {}
  /\ jobs' = [jobs EXCEPT ![c].phase = "told", ![c].filter = {}]
  /\ Replace([selected |-> {}, only |-> jobs[c].filter])
  /\ UNCHANGED <<status, list, url, at, asking, compared>>

\* The toast, and onClear as it was when the loop began, wherever the user is.
Report(c) ==
  /\ AllCalled(c) /\ jobs[c].filter # Palette
  /\ jobs' = [jobs EXCEPT ![c].phase = "told", ![c].filter = {}]
  /\ Replace([selected |-> {}, only |-> jobs[c].filter])
  /\ UNCHANGED <<status, list, url, at, asking, compared>>

\* The palette's toast; the list is asked for again when it was cancelled.
ReportOne(c) ==
  /\ AllCalled(c) /\ jobs[c].filter = Palette
  /\ jobs' = [jobs EXCEPT ![c].phase = "told", ![c].filter = {}]
  /\ list' = IF jobs[c].ok # {} THEN status ELSE list
  /\ UNCHANGED <<status, urlVars, asking, compared>>

-----------------------------------------------------------------------------
BoardNext ==
  \/ \E r \in Runs :
       Moves(r) \/ ToggleRow(r) \/ AddCompared(r) \/ RemoveCompared(r)
  \/ Poll \/ Land \/ ToggleAll \/ ClearSelection \/ ClearFilters
  \/ \E range \in SUBSET Runs : SelectRange(range)
  \/ \E s \in {"running"} : ToggleStatus(s)
  \/ OpenRun \/ OpenBoard \/ Reload \/ CompareSelected
  \/ AskToCancel \/ KeepRunning
  \/ \E c \in Clicks :
       \/ CancelAll(c) \/ CallNext(c) \/ ServerCancels(c)
       \/ \E r \in Runs : CancelFromPalette(c, r)
       \/ CallSucceeds(c) \/ CallFails(c) \/ Report(c) \/ ReportOne(c)

BoardSpec == BoardInit /\ [][BoardNext]_boardVars

BoardFairness ==
  \A c \in Clicks :
    /\ WF_boardVars(CallNext(c)) /\ WF_boardVars(Report(c) \/ ReportOne(c))
    /\ WF_boardVars(CallSucceeds(c) \/ CallFails(c))

-----------------------------------------------------------------------------
(* Properties                                                                *)

\* What the toast counts as cancelled has ended, and when it comes every run that
\* was selected has been asked for, though others failed
\* (runs-multiselect-actions.tsx:69-78).
ReportIsHonest ==
  \A c \in Clicks :
    /\ jobs[c].phase = "told" => jobs[c].tried = jobs[c].of
    /\ \A r \in jobs[c].ok : status[r] = "ended"

\* A cancellation that was confirmed is reported, wherever the user goes, unless
\* the page is loaded anew; that every request ends is the browser's business
\* (runs-multiselect-actions.tsx:70-82).
CancellationsEnd ==
  \A c \in Clicks : jobs[c].phase = "going" ~> jobs[c].phase \in {"told", "gone"}
=============================================================================
