------------------------------ MODULE ChatPanel ------------------------------
(****************************************************************************)
(* The chat panel around the runtime: composer, pickers, model choice, the  *)
(* OpenAI key of the tab, the thread's title, and the cards of tool steps.  *)
(* A send uses the model of the thread the runtime holds; what the panel    *)
(* shows, and asks a key for, is the model last chosen in this browser.     *)
(*                                                                          *)
(* Of other tabs: they choose models, too, in their panels.  The preference *)
(* is one of the browser, and a mounted panel follows it; the thread that   *)
(* the other tab writes its choice to may be the one shown here.            *)
(*                                                                          *)
(* A draft is known by whether it is empty and whether a /command or an     *)
(* @mention ends at the caret.  Ids of the same model in its old and its    *)
(* new spelling are one model.                                              *)
(****************************************************************************)
EXTENDS ChatRuntime

CONSTANTS
  ProviderOf,   \* model -> "claude", "codex", "openai", "openrouter"
  NoModel,
  Registry      \* REGISTRY of tool-ui-registry.tsx, by what a tool's card lets one do

ASSUME ChatPanelAssumption ==
  /\ ProviderOf \in [Models -> {"claude", "codex", "openai", "openrouter"}]
  /\ ProviderOf[DefaultModel] = "claude" /\ NoModel \notin Models
  /\ Registry \subseteq {"papers", "run", "display"}

VARIABLES
  lastModel,  \* localStorage: prefs.lastModelId
  key,        \* sessionStorage: an OpenAI key is there
  granted,    \* sign-ins and server-side keys: of {"codex", "openrouter"}
  keyShown,   \* keyPresent of the panel
  keyModal,   \* the key dialog is open
  draft,      \* the composer's text
  picker,     \* the composer's open picker
  clearing,   \* the settings page has cleared the threads, not yet the messages
  card,       \* per message: the card of its tool step
  choice,     \* history: the model last chosen in this panel, or NoModel
  overruled   \* history: what of it another tab, or a refused write, has replaced

stores == <<lastModel, key, granted, clearing>>
panelVars == <<keyShown, keyModal, draft, picker, card, choice, overruled>>
uiVars == <<stores, panelVars>>
choiceVars == <<choice, overruled>>
allVars == <<vars, uiVars>>

Drafts == {"empty", "plain", "slash", "mention"}
Pickers == {"none", "slash", "mention", "model"}

Cards == Registry \cup {"none", "rejected", "budget"}

PanelTypeOK ==
  /\ TypeOK
  /\ lastModel \in Models /\ key \in BOOLEAN /\ granted \in SUBSET {"codex", "openrouter"}
  /\ clearing \in BOOLEAN
  /\ keyShown \in BOOLEAN /\ keyModal \in BOOLEAN
  /\ draft \in Drafts /\ picker \in Pickers
  /\ picker \in {"slash", "mention"} => draft = picker
  /\ card \in [Sends -> Cards]
  /\ choice \in Models \cup {NoModel} /\ overruled \subseteq {"shown", "kept"}

PanelInit ==
  /\ Init
  /\ lastModel = DefaultModel /\ key = FALSE /\ granted = {} /\ clearing = FALSE
  /\ keyShown = FALSE /\ keyModal = FALSE
  /\ draft = "empty" /\ picker = "none"
  /\ card = [m \in Sends |-> "none"]
  /\ choice = NoModel /\ overruled = {}

-----------------------------------------------------------------------------
(* Mounting, and what goes on under the panel                                *)

\* A new panel: its state is as useState begins it, and its effects have run.
Fresh ==
  /\ keyShown' = key /\ keyModal' = FALSE
  /\ draft' = "empty" /\ picker' = "none"
  /\ card' = [m \in Sends |-> "none"]
  /\ choice' = NoModel /\ overruled' = {}

Navigate ==
  /\ \E t \in Threads : OpenThread(t) \/ NewThread(t) \/ EnsureThread(t)
     \/ VisitIndex \/ Evict
  /\ Fresh
  /\ UNCHANGED stores

\* A whole-page load, which ends a clearing halfway.
LoadAnew ==
  /\ Reload /\ Fresh
  /\ clearing' = FALSE
  /\ UNCHANGED <<lastModel, key, granted>>

\* The thread list renames and deletes rows; the panel keeps its copy.
RenameRow(t) ==
  /\ threads' = [threads EXCEPT ![t].title = IF threads[t].status = "live" THEN "named" ELSE @]
  /\ UNCHANGED <<saves, rows, panel, view, controller, calls, evict>>

ListStep ==
  /\ \E t \in Live : DeleteThread(t) \/ RenameRow(t)
  /\ UNCHANGED uiVars

Background ==
  /\ \/ ReadThread \/ ReadMessages
     \/ \E m \in Sends : BrowserStep(m) \/ Delta(m) \/ StreamEnds(m) \/ Drop(m)
  /\ UNCHANGED uiVars

\* Not by this panel's doing, what there is of its choice is now this model.
Overrules(what, model) ==
  overruled' = IF choice \in {NoModel, model} THEN overruled \ {what} ELSE overruled \cup {what}

\* The rows of choices are written.
Saving ==
  /\ \/ SaveLands /\ overruled' = overruled \ {"kept"}
     \/ SaveRefused /\ Overrules("kept", threads[Head(saves).thread].model)
  /\ UNCHANGED <<stores, keyShown, keyModal, draft, picker, card, choice>>

\* A 412 or 402 in the result or the error comes before the tool's own card.
CardFor(payload, tool) ==
  CASE payload = 412 -> "rejected" [] payload = 402 -> "budget" [] OTHER -> tool

ShowToolStep(m) ==
  /\ ToolEvent(m)
  /\ \E tool \in Registry, payload \in {200, 402, 412} :
       card' = IF view'[m].step = "none" \/ ~calls[m].attached THEN card
               ELSE [card EXCEPT ![m] = CardFor(payload, tool)]
  /\ UNCHANGED <<stores, keyShown, keyModal, draft, picker, choiceVars>>

\* The settings page, the Codex sign-in and the sign-out menu: other pages.
Elsewhere ==
  /\ panel.stage = "index"
  /\ key' \in BOOLEAN
  /\ granted' \in SUBSET ({"codex", "openrouter"} \cap {ProviderOf[model] : model \in Models})
  /\ keyShown' = key'
  /\ UNCHANGED <<vars, lastModel, clearing, keyModal, draft, picker, card, choiceVars>>

\* clearThreads of the settings page: the threads ...
ClearThreads ==
  /\ panel.stage = "index" /\ ~clearing
  /\ threads' = [t \in Threads |-> IF t \in Live THEN [threads[t] EXCEPT !.status = "deleted"]
                                   ELSE threads[t]]
  /\ clearing' = TRUE
  /\ UNCHANGED <<saves, rows, panel, view, controller, calls, evict>>
  /\ UNCHANGED <<lastModel, key, granted, panelVars>>

\* ... and, in a transaction of its own, all messages, of later threads too.
ClearMessages ==
  /\ clearing /\ clearing' = FALSE
  /\ rows' = [m \in Sends |-> NoRow]
  /\ UNCHANGED <<threads, saves, panel, view, controller, calls, evict>>
  /\ UNCHANGED <<lastModel, key, granted, panelVars>>

\* handleModelSelect in another tab: the storage event brings its preference to
\* this tab's panel, which shows it and leaves its thread as it is ...
OtherTabChooses(model) ==
  /\ lastModel' = model
  /\ Overrules("shown", model)
  /\ UNCHANGED <<vars, key, granted, clearing, keyShown, keyModal, draft, picker, card, choice>>

\* ... and the row of its thread is written, it may be after others have chosen.
OtherTabSaves(t, model) ==
  /\ t \in Live
  /\ threads' = [threads EXCEPT ![t].model = model]
  /\ IF t = panel.thread THEN Overrules("kept", model) ELSE UNCHANGED overruled
  /\ UNCHANGED <<saves, rows, panel, view, controller, calls, evict>>
  /\ UNCHANGED <<stores, keyShown, keyModal, draft, picker, card, choice>>

-----------------------------------------------------------------------------
(* The composer                                                              *)

Shown == panel.stage = "loaded"
Idle == UNCHANGED <<vars, stores, keyShown, keyModal, card, choiceVars>>

\* A plausible bug: a picker stays open when its trigger has been typed away.
SettledOpen(open, text) == IF text \in {"slash", "mention"} THEN text ELSE open

\* The effect on [value, picker]: a trigger at the caret opens its picker,
\* and opens it again when it is closed.
Settled(open, text) ==
  CASE text \in {"slash", "mention"} -> text
    [] text \notin {"slash", "mention"} /\ open \in {"slash", "mention"} -> "none"
    [] OTHER -> open

\* The textarea is disabled while the backend is not connected; that the
\* connection comes and goes at any time leaves typing possible at any time.
Type(text) ==
  /\ Shown /\ Idle
  /\ draft' = text
  /\ picker' = Settled(picker, text)

\* The / and @ buttons, which stay enabled.
InsertTrigger == \E text \in {"slash", "mention"} : Type(text)

\* insert() of the handle: a prompt of Welcome.
PickPrompt ==
  /\ \A m \in Sends : view[m].phase = "hidden"
  /\ Type("plain")

\* "stellarator:cite-intent", of a paper's Cite button ...
Cite(m) == card[m] = "papers" /\ Type("plain")

\* ... and of the card of a rejected pre-flight.
Reemit(m) == card[m] = "rejected" /\ Type("plain")

\* Links of cards, "Open run" and "Raise budget", load a page anew.
FollowCard(m) ==
  /\ card[m] \in {"run", "budget"}
  /\ LoadAnew

\* Cmd-P and the model button.
ToggleModelPicker ==
  /\ Shown /\ Idle
  /\ picker' = Settled(IF picker = "model" THEN "none" ELSE "model", draft)
  /\ UNCHANGED draft

Escape ==
  /\ Shown /\ Idle
  /\ IF picker # "none"
     THEN picker' = Settled("none", draft) /\ UNCHANGED draft
     ELSE draft' = "empty" /\ UNCHANGED picker

\* replaceTrigger: the text inserted ends in a space, but for
\* /summarize-thread, after which the trigger is still there.
ChooseCommand ==
  /\ Shown /\ Idle /\ picker = "slash"
  /\ draft' \in {"plain", "slash"}
  /\ picker' = Settled("none", draft')

MentionRun ==
  /\ Shown /\ Idle /\ picker = "mention"
  /\ draft' = "plain"
  /\ picker' = "none"

-----------------------------------------------------------------------------
(* The model                                                                 *)

\* isSatisfied: what a model requires is there.
Available(model) ==
  CASE ProviderOf[model] = "claude" -> TRUE
    [] ProviderOf[model] = "openai" -> key
    [] OTHER -> ProviderOf[model] \in granted

\* A plausible bug: the thread is not told.
ChooseModelForNextTime(model) ==
  /\ Shown /\ picker = "model" /\ Available(model)
  /\ lastModel' = model
  /\ choice' = model /\ overruled' = {}
  /\ picker' = Settled("none", draft)
  /\ UNCHANGED <<vars, key, granted, clearing, keyShown, keyModal, draft, card>>

\* handleModelSelect: the preference, and the thread's model; its row is to follow.
ChooseModel(model) ==
  /\ Shown /\ picker = "model" /\ Available(model)
  /\ lastModel' = model
  /\ SetModel(model)
  /\ choice' = model /\ overruled' = {}
  /\ picker' = Settled("none", draft)
  /\ UNCHANGED <<key, granted, clearing, keyShown, keyModal, draft, card>>

Driver == ProviderOf[lastModel]

\* A plausible bug: the key is not looked for.
SubmitUnchecked(m) ==
  /\ Shown /\ draft # "empty" /\ ~panel.busy
  /\ draft' = "empty" /\ picker' = Settled(picker, "empty")
  /\ Send(m)
  /\ UNCHANGED <<keyModal, stores, keyShown, card, choiceVars>>

\* send() of the composer and handleSubmit: the text is gone either way.
Submit(m) ==
  /\ Shown /\ draft # "empty" /\ ~panel.busy
  /\ draft' = "empty" /\ picker' = Settled(picker, "empty")
  /\ IF Driver = "openai" /\ ~key
     THEN keyModal' = TRUE /\ UNCHANGED vars
     ELSE Send(m) /\ UNCHANGED keyModal
  /\ UNCHANGED <<stores, keyShown, card, choiceVars>>

Stop == Shown /\ Cancel /\ UNCHANGED uiVars

-----------------------------------------------------------------------------
(* The key and the title                                                     *)

\* The header's key control, and the composer's "Add key".
KeyControl ==
  CASE Driver = "openai" -> IF keyShown THEN "remove" ELSE "add"
    [] OTHER -> "elsewhere"

KeyUnchanged == UNCHANGED <<vars, lastModel, granted, clearing, draft, picker, card, choiceVars>>

AskForKey ==
  /\ Shown /\ KeyControl = "add"
  /\ keyModal' = TRUE
  /\ keyShown' = key
  /\ UNCHANGED key /\ KeyUnchanged

\* Each change of keyModal reads the key again.
CloseKeyModal ==
  /\ keyModal
  /\ keyModal' = FALSE
  /\ keyShown' = key
  /\ UNCHANGED key /\ KeyUnchanged

\* Only the OpenAI form of the dialog saves.
SaveKey ==
  /\ keyModal /\ Driver = "openai"
  /\ key' = TRUE
  /\ keyModal' = FALSE
  /\ keyShown' = TRUE
  /\ KeyUnchanged

RemoveKey ==
  /\ Shown /\ KeyControl = "remove"
  /\ key' = FALSE
  /\ keyShown' = FALSE
  /\ UNCHANGED keyModal /\ KeyUnchanged

\* commitTitle writes the row, if there is a new text, and not the panel's copy.
CommitTitle ==
  /\ Shown
  /\ RenameRow(panel.thread)
  /\ UNCHANGED uiVars

-----------------------------------------------------------------------------
ComposerStep ==
  \/ \E text \in Drafts : Type(text)
  \/ InsertTrigger \/ PickPrompt \/ ToggleModelPicker \/ Escape
  \/ ChooseCommand \/ MentionRun
  \/ \E m \in Sends : Cite(m) \/ Reemit(m) \/ FollowCard(m) \/ Submit(m)
  \/ \E model \in Models : ChooseModel(model)
  \/ Stop

HeaderStep == AskForKey \/ CloseKeyModal \/ SaveKey \/ RemoveKey \/ CommitTitle

PanelNext ==
  \/ Navigate \/ LoadAnew \/ ListStep \/ Background \/ Saving
  \/ \E model \in Models : OtherTabChooses(model) \/ \E t \in Threads : OtherTabSaves(t, model)
  \/ Elsewhere \/ ClearThreads \/ ClearMessages
  \/ \E m \in Sends : ShowToolStep(m)
  \/ ComposerStep \/ HeaderStep

PanelSpec == PanelInit /\ [][PanelNext]_allVars

-----------------------------------------------------------------------------
(* Properties                                                                *)

\* Once a model is chosen in a panel, it is what the panel's sends use; what the
\* panel shows, unless another tab has chosen another since; and, its row written,
\* what the thread keeps, unless that was refused or another tab has written its own
\* (chat-panel.tsx:100-104; runtime.ts:106-110).
ChoiceHolds ==
  Shown /\ choice # NoModel =>
    /\ panel.model = choice
    /\ "shown" \notin overruled => lastModel = choice
    /\ threads[panel.thread].status = "live" /\ saves = <<>> /\ "kept" \notin overruled
         => threads[panel.thread].model = choice

\* A send to an OpenAI model chosen in the panel starts only with a key in the
\* tab, whatever the header's control showed, unless another tab's choice is shown
\* (chat-panel.tsx:92-98).
NoKeylessSend ==
  [][\A m \in Sends :
       /\ calls[m].pc = "idle" /\ calls'[m].pc = "opening"
       /\ choice # NoModel /\ "shown" \notin overruled
       /\ ProviderOf[calls'[m].model] = "openai"
       => key]_allVars

\* "Derive legacy driver string for backend send call" (chat-panel.tsx:79): what is
\* sent goes to the provider the panel shows, and whose key it has looked for.
SendsAsShown ==
  [][\A m \in Sends :
       calls[m].pc = "idle" /\ calls'[m].pc = "opening"
         => ProviderOf[calls'[m].model] = Driver]_allVars
=============================================================================
