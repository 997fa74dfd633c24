------------------------------ MODULE Session ------------------------------
(****************************************************************************)
(* Who the browser takes the user for, and what it remembers: the access    *)
(* token and whoami (use-whoami.ts), the sign-out of app-shell.tsx, and the *)
(* preferences of local-prefs.ts, in the storage that all tabs share and in *)
(* the React state of each tab.                                             *)
(*                                                                          *)
(* One tab's identity, every tab's preferences.  whoami is asked with the   *)
(* token saved when the request is sent, and may fail.                      *)
(****************************************************************************)
EXTENDS FiniteSets

CONSTANTS
  People,       \* tokens; a token is its agent
  Tabs,
  Pinnable      \* runs

Nobody == "nobody"
Screens == {"dashboard", "settings", "chat"}

ASSUME SessionAssumption == {Nobody, "unknown", "none"} \cap People = {}

VARIABLES
  token,      \* saved in the browser
  screen,
  whoami,     \* cache: a person, Nobody, or "unknown": not fetched
  whoStale,   \* it is invalid
  whoAsk,     \* the token its request carries, "none": none under way
  out,        \* history: signed out, and no token saved since
  late,       \* history: what whoami is asked, or holds, is of a request that
              \* the sign-out met with the old token, and did not give up
  stored,     \* preferences: what is pinned, and whether rows are dense
  known,      \* what each tab has of them
  meant,      \* history: the pins that the clicks ask for, by what is shown
  crossed     \* history: the pins last written by a tab that had not heard how
              \* they were stored

idVars == <<token, screen, whoami, whoStale, whoAsk, out, late>>
prefVars == <<stored, known, meant, crossed>>
sessionVars == <<idVars, prefVars>>

Tokens == People \cup {Nobody}
Prefs == [pinned : SUBSET Pinnable, dense : BOOLEAN]
Defaults == [pinned |-> {}, dense |-> TRUE]

SessionTypeOK ==
  /\ token \in Tokens /\ screen \in Screens
  /\ whoami \in Tokens \cup {"unknown"} /\ whoStale \in BOOLEAN
  /\ whoAsk \in Tokens \cup {"none"} /\ out \in BOOLEAN /\ late \in BOOLEAN
  /\ stored \in Prefs /\ known \in [Tabs -> Prefs]
  /\ meant \subseteq Pinnable /\ crossed \subseteq Pinnable
  /\ whoStale => whoami # "unknown"

SessionInit ==
  /\ token = Nobody /\ screen = "chat"
  /\ whoami = "unknown" /\ whoStale = FALSE /\ whoAsk = "none"
  /\ out = FALSE /\ late = FALSE
  /\ stored = Defaults /\ known = [t \in Tabs |-> Defaults]
  /\ meant = {} /\ crossed = {}

-----------------------------------------------------------------------------
(* Identity                                                                  *)

\* The pages that show whose they are, or what the user may do.
WhoIsShown(on) == on \in {"dashboard", "settings"}

\* Fetched once, and kept for ever unless it was made invalid.
AskedOn(on, bearer) ==
  IF WhoIsShown(on) /\ whoAsk = "none" /\ (whoami = "unknown" \/ whoStale)
  THEN bearer ELSE whoAsk

GoTo(on) ==
  /\ on # screen /\ screen' = on
  /\ whoAsk' = AskedOn(on, token)
  /\ UNCHANGED <<token, whoami, whoStale, out, late, prefVars>>

\* Whatever is no success makes nobody of the user.
WhoArrives ==
  /\ whoAsk # "none"
  /\ whoami' \in {whoAsk, Nobody}
  /\ whoStale' = FALSE /\ whoAsk' = "none"
  /\ UNCHANGED <<token, screen, out, late, prefVars>>

WhoFails ==
  /\ whoAsk # "none" /\ whoAsk' = "none"
  /\ late' = FALSE
  /\ UNCHANGED <<token, screen, whoami, whoStale, out, prefVars>>

\* saveToken: whoami is left as it was.
SaveToken ==
  /\ screen = "settings"
  /\ token' \in Tokens \ {token}
  /\ out' = FALSE /\ late' = FALSE
  /\ UNCHANGED <<screen, whoami, whoStale, whoAsk, prefVars>>

\* invalidateQueries, with the token that is saved now: the request under way is
\* given up, but for the first one, and a page that shows nobody's waits.
Invalidated(bearer) ==
  /\ whoStale' = (whoami # "unknown")
  /\ whoAsk' = IF WhoIsShown(screen) /\ (whoAsk = "none" \/ whoami # "unknown")
               THEN bearer ELSE whoAsk

MarksSignOut ==
  /\ out' = TRUE
  /\ late' = (whoAsk \notin {"none", Nobody} /\ whoAsk' = whoAsk)

\* A plausible bug: whoami is asked for before the token goes.
SignOutLate ==
  /\ token' = Nobody
  /\ Invalidated(token)
  /\ MarksSignOut
  /\ screen' = "dashboard"
  /\ UNCHANGED <<whoami, prefVars>>

\* The token goes, then whoami is invalid; then the dashboard, which asks, or
\* joins the request under way.
SignOut ==
  /\ token' = Nobody
  /\ screen' = "dashboard"
  /\ IF WhoIsShown(screen) THEN Invalidated(Nobody)
     ELSE /\ whoStale' = (whoami # "unknown")
          /\ whoAsk' = IF whoAsk = "none" THEN Nobody ELSE whoAsk
  /\ MarksSignOut
  /\ UNCHANGED <<whoami, prefVars>>

-----------------------------------------------------------------------------
(* Preferences                                                               *)

\* write: the storage, then the tab that wrote; the others hear of it later.
Write(t, prefs) ==
  /\ stored' = prefs
  /\ known' = [known EXCEPT ![t] = prefs]
  /\ UNCHANGED idVars

HearsOfPrefs(t) ==
  /\ known[t] # stored
  /\ known' = [known EXCEPT ![t] = stored]
  /\ UNCHANGED <<idVars, stored, meant, crossed>>

Toggled(pins, r) == IF r \in pins THEN pins \ {r} ELSE pins \cup {r}

\* A click on a pin asks for the opposite of what its tab shows.
Clicked(t, r) ==
  /\ meant' = IF r \in known[t].pinned THEN meant \ {r} ELSE meant \cup {r}
  /\ crossed' = IF r \in known[t].pinned <=> r \in stored.pinned
                THEN crossed \ {r} ELSE crossed \cup {r}

\* A plausible bug: what the tab has is written, not what is stored.
TogglePinAsKnown(t, r) ==
  /\ Write(t, [known[t] EXCEPT !.pinned = Toggled(@, r)])
  /\ Clicked(t, r)

\* togglePin: what is stored is read again, and toggled.
TogglePin(t, r) ==
  /\ Write(t, [stored EXCEPT !.pinned = Toggled(@, r)])
  /\ Clicked(t, r)

\* The cross of a pinned run on the dashboard: one that another tab has unpinned
\* is pinned again.
Unpin(t, r) == r \in known[t].pinned /\ TogglePin(t, r)

\* setPrefs: the patch is put over what is stored.
SetDensity(t) ==
  /\ Write(t, [stored EXCEPT !.dense = ~known[t].dense])
  /\ UNCHANGED <<meant, crossed>>

\* pinAll, unpinAll: from what the tab has; what it has not heard of is undone.
SetPins(t, added, removed) ==
  LET Changed(pins) == (pins \ removed) \cup added
      unheard == (known[t].pinned \ stored.pinned) \cup (stored.pinned \ known[t].pinned)
  IN /\ Write(t, [stored EXCEPT !.pinned = Changed(known[t].pinned)])
     /\ meant' = Changed(meant)
     /\ crossed' = (crossed \cup unheard) \ (added \cup removed)

PinAll(t, selected) == SetPins(t, selected, {})
UnpinAll(t, selected) == SetPins(t, {}, selected)

\* clearPins, resetPrefs of the settings.
ClearPins(t) ==
  /\ Write(t, [stored EXCEPT !.pinned = {}])
  /\ meant' = {} /\ crossed' = {}

ResetPrefs(t) ==
  /\ Write(t, [stored EXCEPT !.dense = TRUE])
  /\ UNCHANGED <<meant, crossed>>

-----------------------------------------------------------------------------
SessionNext ==
  \/ \E on \in Screens : GoTo(on)
  \/ WhoArrives \/ WhoFails
  \/ SaveToken \/ SignOut
  \/ \E t \in Tabs :
       \/ HearsOfPrefs(t)
       \/ \E r \in Pinnable : TogglePin(t, r) \/ Unpin(t, r)
       \/ SetDensity(t)
       \/ \E selected \in SUBSET Pinnable \ {{}} :
            PinAll(t, selected) \/ UnpinAll(t, selected)
       \/ ClearPins(t) \/ ResetPrefs(t)

SessionSpec == SessionInit /\ [][SessionNext]_sessionVars

-----------------------------------------------------------------------------
(* Properties                                                                *)

\* Who has signed out is nobody once whoami has answered.  So says the comment of
\* the sign-out, "Invalidate whoami so identity resets" (app-shell.tsx:192), and
\* it is not so: a first request, or that of a page that was left, goes on with
\* the old token, and its answer is kept.
IdentityResets ==
  out /\ whoAsk = "none" /\ ~whoStale => whoami \in {Nobody, "unknown"}

\* It is so unless the sign-out met such a request and that request was answered:
\* every other request of the old token is given up, or its answer invalid, over
\* failures, pages and sign-outs (app-shell.tsx:183-196).
SignedOutIsNobody == ~late => IdentityResets

\* What is stored of a pin is what the last clicks in all the tabs ask for, by
\* what they showed, but for those pins that were last written by a tab that had
\* not heard how they were stored: toggled there, or written with the others by
\* pinAll or unpinAll (local-prefs.ts:96-109; runs-multiselect-actions.tsx:52-67).
PinsCompose ==
  \A r \in Pinnable \ crossed : r \in stored.pinned <=> r \in meant
=============================================================================
