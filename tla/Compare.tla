------------------------------ MODULE Compare ------------------------------
(****************************************************************************)
(* What the comparison shows of its runs (app/runs/compare/page.tsx): the   *)
(* overlay of their losses, with buttons that hide a line on a click and    *)
(* show it alone on a long press (run-overlay-chart.tsx), and the table of  *)
(* hyperparameters with its outliers marked (hyperparam-diff.tsx).          *)
(*                                                                          *)
(* RunsBoard has how one gets here.  A touch is a press and a release,      *)
(* followed by those of the emulated mouse.                                 *)
(****************************************************************************)
EXTENDS Integers, Sequences, FiniteSets, FiniteSetsExt, SequencesExt

CONSTANTS
  Curves,      \* runs that can be compared
  CurvesMax,   \* MAX: 6
  Values,      \* of one hyperparameter
  MaxTimers    \* bound: long presses that have not come to anything yet

None == "none"
Missing == "missing"

ASSUME CompareAssumption ==
  /\ IsFiniteSet(Curves) /\ CurvesMax \in Nat \ {0}
  /\ MaxTimers \in Nat \ {0}
  /\ None \notin Curves /\ Missing \notin Values

VARIABLES
  picked,    \* the runs compared
  arrived,   \* those whose metrics have been fetched
  muted,     \* lines hidden by clicks
  solo,      \* the line shown alone
  timers,    \* pending long presses, in the order they will fire
  current,   \* longPressTimer.current is the last of them, not a past one
  down       \* the pointer is pressed

chartState == <<muted, solo, timers, current, down>>
compareVars == <<picked, arrived, chartState>>

CompareTypeOK ==
  /\ picked \subseteq Curves /\ Cardinality(picked) <= CurvesMax
  /\ arrived \subseteq Curves
  /\ muted \subseteq Curves /\ solo \in Curves \cup {None}
  /\ Len(timers) <= MaxTimers /\ \A i \in DOMAIN timers : timers[i] \in Curves
  /\ current \in BOOLEAN /\ down \in BOOLEAN
  /\ current => timers # <<>>

CompareInit ==
  /\ picked \in {ids \in SUBSET Curves : Cardinality(ids) <= CurvesMax}
  /\ arrived = {}
  /\ muted = {} /\ solo = None /\ timers = <<>> /\ current = FALSE /\ down = FALSE

-----------------------------------------------------------------------------
(* The page                                                                  *)

\* Until some metrics are there, a skeleton is in the place of the chart.
ChartIsThere(ids, fetched) == ids \cap fetched # {}

\* A chart that goes takes its state along; timers that fire then do nothing.
KeepChart ==
  IF ChartIsThere(picked', arrived') THEN UNCHANGED chartState
  ELSE muted' = {} /\ solo' = None /\ timers' = <<>> /\ current' = FALSE /\ down' = FALSE

\* The menu, at most MAX; the check of the menu and the table's cross remove.
Pick(v) ==
  /\ ~down
  /\ v \notin picked /\ Cardinality(picked) < CurvesMax
  /\ picked' = picked \cup {v}
  /\ UNCHANGED arrived /\ KeepChart

Unpick(v) ==
  /\ ~down
  /\ v \in picked
  /\ picked' = picked \ {v}
  /\ UNCHANGED arrived /\ KeepChart

MetricsArrive(v) ==
  /\ v \in picked \ arrived
  /\ arrived' = arrived \cup {v}
  /\ UNCHANGED picked /\ KeepChart

\* Other pages, and back with another link: what was fetched stays cached.
LeaveCompare ==
  /\ ~down
  /\ picked' \in {ids \in SUBSET Curves : Cardinality(ids) <= CurvesMax}
  /\ UNCHANGED arrived
  /\ muted' = {} /\ solo' = None /\ timers' = <<>> /\ current' = FALSE /\ UNCHANGED down

-----------------------------------------------------------------------------
(* The overlay                                                               *)

OnChart(v) == v \in picked /\ ChartIsThere(picked, arrived)

\* handleLongPressStart: a new timer, though an older one may be pending.
Press(v) ==
  /\ OnChart(v) /\ ~down
  /\ Len(timers) < MaxTimers
  /\ down' = TRUE
  /\ timers' = Append(timers, v) /\ current' = TRUE
  /\ UNCHANGED <<picked, arrived, muted, solo>>

\* A plausible bug: what was hidden stays so under the solo.
LongPressKeepsMuted ==
  /\ timers # <<>>
  /\ LET v == Head(timers) IN solo' = IF solo = v THEN None ELSE v
  /\ timers' = Tail(timers) /\ current' = (current /\ Len(timers) > 1)
  /\ UNCHANGED <<picked, arrived, muted, down>>

\* 500 ms after a press, wherever the pointer is by then, and whether or not the
\* run is still compared.
LongPress ==
  /\ timers # <<>>
  /\ LET v == Head(timers) IN solo' = IF solo = v THEN None ELSE v
  /\ muted' = {}
  /\ timers' = Tail(timers) /\ current' = (current /\ Len(timers) > 1)
  /\ UNCHANGED <<picked, arrived, down>>

\* handleLongPressEnd, which clears the last timer, and toggleMute: on the button
\* that the pointer is over, after a long press as well.
Release(v) ==
  /\ OnChart(v) /\ down /\ down' = FALSE
  /\ timers' = IF current THEN Front(timers) ELSE timers
  /\ current' = FALSE
  /\ solo' = None
  /\ muted' = IF v \in muted THEN muted \ {v} ELSE muted \cup {v}
  /\ UNCHANGED <<picked, arrived>>

\* Released elsewhere: the timer goes on.
ReleaseElsewhere ==
  /\ down /\ down' = FALSE
  /\ UNCHANGED <<picked, arrived, muted, solo, timers, current>>

\* The lines that are drawn, and the buttons that look pressed.
Lines == IF solo # None THEN picked \cap {solo} ELSE picked \ muted

-----------------------------------------------------------------------------
(* The table                                                                 *)

\* One row: the value of each run's column, from left to right.
Rows == UNION {[1..n -> Values \cup {Missing}] : n \in 0..Cardinality(picked)}

Count(row, value) == Cardinality({i \in DOMAIN row : row[i] = value})

\* The values of a row in the order of their first appearance.
Distinct(row) ==
  FoldLeft(LAMBDA seen, v : IF v = Missing \/ Contains(seen, v) THEN seen ELSE Append(seen, v),
           <<>>, row)

\* A plausible bug: the best count is not kept.
ModeLast(row) ==
  FoldLeft(LAMBDA mode, v : IF Count(row, v) > 0 THEN v ELSE mode, Missing, Distinct(row))

\* The first of the most frequent values.
Mode(row) ==
  FoldLeft(LAMBDA mode, v : IF mode = Missing \/ Count(row, v) > Count(row, mode) THEN v ELSE mode,
           Missing, Distinct(row))

Marked(row) ==
  {i \in DOMAIN row : row[i] # Missing /\ Len(Distinct(row)) > 1 /\ row[i] # Mode(row)}

-----------------------------------------------------------------------------
CompareNext ==
  \/ \E v \in Curves : Pick(v) \/ Unpick(v) \/ MetricsArrive(v) \/ Press(v) \/ Release(v)
  \/ LongPress \/ ReleaseElsewhere \/ LeaveCompare

CompareSpec == CompareInit /\ [][CompareNext]_compareVars

-----------------------------------------------------------------------------
(* Properties                                                                *)

\* However presses, releases and timers cross, a solo that ends leaves at most the
\* clicked line hidden, and none that was hidden before the solo
\* (run-overlay-chart.tsx:61-83).
SoloEndsClean ==
  [][solo # None /\ solo' = None => Cardinality(picked' \ Lines') <= 1]_compareVars

\* The table marks the outliers of a row: the values left unmarked are one value,
\* none is more frequent, and where all agree nothing is marked
\* (hyperparam-diff.tsx:26-28, 70-96).
OutliersAreMarked ==
  \A row \in Rows :
    LET plain == {i \in DOMAIN row : row[i] # Missing} \ Marked(row) IN
    /\ \A i \in plain, j \in DOMAIN row :
         row[j] # Missing => Count(row, row[j]) <= Count(row, row[i])
    /\ \A i, j \in plain : row[i] = row[j]
    /\ plain = {} => \A i \in DOMAIN row : row[i] = Missing
=============================================================================
