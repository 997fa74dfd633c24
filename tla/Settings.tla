------------------------------ MODULE Settings ------------------------------
(****************************************************************************)
(* What the user has set up: the access token, the integration keys and the *)
(* budgets of app/settings/page.tsx, the sign-out of app-shell.tsx and the  *)
(* check-list of the dashboard.                                             *)
(*                                                                          *)
(* A request carries the token saved when it is sent.  The server keeps     *)
(* keys and budgets per agent, refuses them to nobody in particular, and    *)
(* reads for a query at one moment; any request may fail, before or after   *)
(* it took effect.  An agent is its token.                                  *)
(****************************************************************************)
EXTENDS Integers, FiniteSets

CONSTANTS
  Agents,
  Kinds,        \* of keys: tinker, openrouter
  Budgets,      \* bound: the budgets that can be made
  MaxPosts      \* bound: saves and removals under way

Nobody == "nobody"
Lists == {"keys", "budgets"}
Cards == Kinds \cup {"budgets"}

ASSUME SettingsAssumption ==
  /\ Nobody \notin Agents /\ "unknown" \notin Agents
  /\ Kinds \cap (Budgets \cup Lists) = {}
  /\ MaxPosts \in Nat \ {0}

VARIABLES
  has,        \* server: the keys and budgets of each agent
  token,      \* saved in the browser
  page,       \* "settings", "board"
  cache,      \* of each list: [agent, items]
  stale,      \* lists that are invalid
  ask,        \* their requests
  posts,      \* the save and the removal of each card
  dirty,      \* the cards whose field was typed in
  ticked,     \* the check-list's idea of the token
  dismissed,  \* the check-list was dismissed
  lost,       \* history: where changes the browser was told had failed are missed
  joined      \* history: where acknowledged ones are that a request came before

userVars == <<token, page>>
missVars == <<lost, joined>>
listVars == <<cache, stale, ask, missVars>>
cardVars == <<posts, dirty>>
checkVars == <<ticked, dismissed>>
vars == <<has, userVars, listVars, cardVars, checkVars>>

Tokens == Agents \cup {Nobody}
Items == Kinds \cup Budgets
ListOf(card) == IF card = "budgets" THEN "budgets" ELSE "keys"
ItemsOf(list) == IF list = "keys" THEN Kinds ELSE Budgets
Ops == {"save", "remove"}
\* A list as it is cached, and as it has been read for the request under way.
Readings == Lists \X {"cache", "answer"}

NotFetched == [agent |-> "unknown", items |-> {}]
NoAsk == [phase |-> "idle", agent |-> Nobody, items |-> {}]
AskedBy(agent) == [phase |-> "asked", agent |-> agent, items |-> {}]
NoPost == [phase |-> "idle", agent |-> Nobody, item |-> "none", here |-> FALSE]

TypeOK ==
  /\ has \in [Agents -> SUBSET Items]
  /\ token \in Tokens /\ page \in {"settings", "board"}
  /\ cache \in [Lists -> [agent : Agents \cup {"unknown"}, items : SUBSET Items]]
  /\ stale \subseteq Lists /\ lost \subseteq Readings /\ joined \subseteq Readings
  /\ ask \in [Lists -> [phase : {"idle", "asked", "answered"}, agent : Tokens,
                        items : SUBSET Items]]
  /\ posts \in [Cards \X Ops -> [phase : {"idle", "sent", "done"}, agent : Tokens,
                                 item : Items \cup {"none"}, here : BOOLEAN]]
  /\ dirty \subseteq Kinds
  /\ ticked \in BOOLEAN /\ dismissed \in BOOLEAN
  /\ \A l \in Lists : cache[l].items \subseteq ItemsOf(l)
  /\ page # "settings" => dirty = {} /\ \A p \in Cards \X Ops : ~posts[p].here

Init ==
  /\ has = [a \in Agents |-> {}]
  /\ token = Nobody /\ page = "board"
  /\ cache = [l \in Lists |-> NotFetched]
  /\ ask = [l \in Lists |-> IF l = "keys" THEN AskedBy(Nobody) ELSE NoAsk]
  /\ stale = {} /\ lost = {} /\ joined = {}
  /\ posts = [p \in Cards \X Ops |-> NoPost]
  /\ dirty = {}
  /\ ticked = FALSE /\ dismissed = FALSE

-----------------------------------------------------------------------------
(* Queries                                                                   *)

ListIsShown(list, screen) == list = "keys" \/ screen = "settings"

\* Lists appear: missing and invalid ones are asked for, and those that are not
\* fresh (30 s, 5 s).  A request under way is joined.
Appear(lists) ==
  \E old \in SUBSET lists :
    ask' = [l \in Lists |->
              IF /\ l \in lists /\ ask[l].phase = "idle"
                 /\ l \in old \cup stale \/ cache[l] = NotFetched
              THEN AskedBy(token) ELSE ask[l]]

\* invalidateQueries: the request under way is given up, but for the first one.
Invalidate(list) ==
  /\ stale' = IF cache[list] = NotFetched THEN stale ELSE stale \cup {list}
  /\ ask' = IF ListIsShown(list, page) /\ (ask[list].phase = "idle" \/ cache[list] # NotFetched)
            THEN [ask EXCEPT ![list] = AskedBy(token)] ELSE ask

\* An answer that arrives misses in the cache what it missed, and nothing else.
Carried(missed, list) ==
  (missed \ {<<list, "cache">>, <<list, "answer">>})
    \cup {reading \in {<<list, "cache">>} : <<list, "answer">> \in missed}

Answer(list) ==
  /\ ask[list].phase = "asked" /\ ask[list].agent \in Agents
  /\ ask' = [ask EXCEPT ![list].phase = "answered",
                        ![list].items = has[ask[list].agent] \cap ItemsOf(list)]
  /\ UNCHANGED <<has, userVars, cache, stale, missVars, cardVars, checkVars>>

ListArrives(list) ==
  /\ ask[list].phase = "answered"
  /\ cache' = [cache EXCEPT ![list] = [agent |-> ask[list].agent, items |-> ask[list].items]]
  /\ ask' = [ask EXCEPT ![list] = NoAsk]
  /\ stale' = stale \ {list}
  /\ lost' = Carried(lost, list) /\ joined' = Carried(joined, list)
  /\ UNCHANGED <<has, userVars, cardVars, checkVars>>

\* Refused without a token, or lost; what was cached stays.
ListFails(list) ==
  /\ ask[list].phase # "idle"
  /\ ask' = [ask EXCEPT ![list] = NoAsk]
  /\ lost' = lost \ {<<list, "answer">>} /\ joined' = joined \ {<<list, "answer">>}
  /\ UNCHANGED <<has, userVars, cache, stale, cardVars, checkVars>>

-----------------------------------------------------------------------------
(* The user                                                                  *)

\* A plausible bug: what was typed outlives the card it was typed in.
LeaveCardsTyped ==
  /\ UNCHANGED dirty
  /\ posts' = [p \in Cards \X Ops |-> [posts[p] EXCEPT !.here = FALSE]]

\* The cards of a page that is left: fields are lost, requests go on without them.
LeaveCards ==
  /\ dirty' = {}
  /\ posts' = [p \in Cards \X Ops |-> [posts[p] EXCEPT !.here = FALSE]]

\* A page appears, with its fields as new and what it shows asked for.
Visit(to) ==
  /\ to # page /\ page' = to
  /\ LeaveCards
  /\ ticked' = (to = "board" /\ token # Nobody)
  /\ Appear({l \in Lists : ListIsShown(l, to)})
  /\ UNCHANGED <<has, token, cache, stale, missVars, dismissed>>

\* What the field holds is saved: nothing that was fetched with the old token is
\* fetched again.
SaveToken(t) ==
  /\ page = "settings" /\ t # token
  /\ token' = t
  /\ UNCHANGED <<has, page, listVars, cardVars, checkVars>>

\* The sidebar's Sign out: the token goes; then the dashboard.
SignOut ==
  /\ token' = Nobody
  /\ page' = "board"
  /\ IF page = "board" THEN UNCHANGED <<ticked, ask, cardVars>>
     ELSE /\ ticked' = FALSE
          /\ LeaveCards
          /\ \E old \in SUBSET {"keys"} :
               ask' = IF ask["keys"].phase = "idle" /\ "keys" \in old \cup stale
                      THEN [ask EXCEPT !["keys"] = AskedBy(Nobody)] ELSE ask
  /\ UNCHANGED <<has, cache, stale, missVars, dismissed>>

\* A whole-page load, as a sign-in with Codex does: only the browser's storage
\* stays.
Reload ==
  /\ page' = "board"
  /\ cache' = [l \in Lists |-> NotFetched] /\ stale' = {}
  /\ ask' = [l \in Lists |-> IF l = "keys" THEN AskedBy(token) ELSE NoAsk]
  /\ posts' = [p \in Cards \X Ops |-> NoPost]
  /\ dirty' = {}
  /\ lost' = {} /\ joined' = {}
  /\ ticked' = (token # Nobody)
  /\ UNCHANGED <<has, token, dismissed>>

-----------------------------------------------------------------------------
(* Keys and budgets                                                          *)

Shows(item) == \E l \in Lists : item \in cache[l].items

TypeKey(k) ==
  /\ page = "settings" /\ ~Shows(k)
  /\ dirty' = dirty \cup {k}
  /\ UNCHANGED <<has, userVars, listVars, posts, checkVars>>

Send(card, op, item) ==
  /\ posts[<<card, op>>].phase = "idle"
  /\ Cardinality({p \in Cards \X Ops : posts[p].phase # "idle"}) < MaxPosts
  /\ posts' = [posts EXCEPT ![<<card, op>>] = [phase |-> "sent", agent |-> token, item |-> item,
                                                  here |-> TRUE]]
  /\ UNCHANGED <<has, userVars, listVars, checkVars>>

\* Save, Remove: one of each at a time.
SaveKey(k) ==
  /\ page = "settings" /\ ~Shows(k) /\ k \in dirty
  /\ Send(k, "save", k)
  /\ UNCHANGED dirty

RemoveKey(k) ==
  /\ page = "settings" /\ Shows(k)
  /\ Send(k, "remove", k)
  /\ UNCHANGED dirty

AddBudget(b) ==
  /\ page = "settings"
  /\ \A a \in Agents : b \notin has[a]
  /\ Send("budgets", "save", b)
  /\ UNCHANGED dirty

RemoveBudget(b) ==
  /\ page = "settings" /\ Shows(b)
  /\ Send("budgets", "remove", b)
  /\ UNCHANGED dirty

\* The server: a removal needs something to remove.
Handle(card, op) ==
  LET post == posts[<<card, op>>]
  IN /\ post.phase = "sent" /\ post.agent \in Agents
     /\ op = "remove" => post.item \in has[post.agent]
     /\ has' = [has EXCEPT ![post.agent] =
                  IF op = "save" THEN @ \cup {post.item} ELSE @ \ {post.item}]
     /\ posts' = [posts EXCEPT ![<<card, op>>].phase = "done"]
     /\ UNCHANGED <<userVars, listVars, dirty, checkVars>>

\* A plausible bug: the list of the keys is asked for, whatever has changed.
AcknowledgedAsKey(card, op) ==
  /\ posts[<<card, op>>].phase = "done"
  /\ posts' = [posts EXCEPT ![<<card, op>>] = NoPost]
  /\ Invalidate("keys")
  /\ dirty' = IF op = "save" /\ posts[<<card, op>>].here THEN dirty \ {card} ELSE dirty
  /\ UNCHANGED <<has, userVars, cache, missVars, checkVars>>

\* The list is asked for again, and the field of a key that was saved is cleared,
\* whatever was typed meanwhile.  A request that is not given up, the first one or
\* that of a page that was left, may have been answered before: it will show the
\* list as it was and make it valid.
Acknowledged(card, op) ==
  LET list == ListOf(card)
  IN /\ posts[<<card, op>>].phase = "done"
     /\ posts' = [posts EXCEPT ![<<card, op>>] = NoPost]
     /\ Invalidate(list)
     /\ IF ask'[list].phase = "answered"
        THEN joined' = joined \cup {<<list, "answer">>} /\ UNCHANGED lost
        ELSE joined' = joined \ {<<list, "answer">>} /\ lost' = lost \ {<<list, "answer">>}
     /\ dirty' = IF op = "save" /\ posts[<<card, op>>].here THEN dirty \ {card} ELSE dirty
     /\ UNCHANGED <<has, userVars, cache, checkVars>>

ReadOf(list) ==
  {reading \in {<<list, "cache">>} : cache[list] # NotFetched}
    \cup {reading \in {<<list, "answer">>} : ask[list].phase = "answered"}

\* Refused or lost: a toast for budgets, nothing for keys.
PostFails(card, op) ==
  /\ posts[<<card, op>>].phase # "idle"
  /\ posts' = [posts EXCEPT ![<<card, op>>] = NoPost]
  /\ lost' = IF posts[<<card, op>>].phase = "done"
             THEN lost \cup ReadOf(ListOf(card)) ELSE lost
  /\ UNCHANGED <<has, userVars, cache, stale, ask, joined, dirty, checkVars>>

-----------------------------------------------------------------------------
(* The check-list of the dashboard                                           *)

HasKey == cache["keys"].items # {}
AllDone == ticked /\ Kinds \subseteq cache["keys"].items

\* It leaves whose runs have completed with everything set up; dismissed, it comes
\* back for whom nothing is.
ChecklistShown(ran) ==
  /\ page = "board" /\ ~(ran /\ AllDone)
  /\ dismissed => ~ticked /\ ~HasKey /\ ~ran

Dismiss ==
  /\ ~dismissed
  /\ \E ran \in BOOLEAN : ChecklistShown(ran)
  /\ dismissed' = TRUE
  /\ UNCHANGED <<has, userVars, listVars, cardVars, ticked>>

-----------------------------------------------------------------------------
Next ==
  \/ \E l \in Lists : Answer(l) \/ ListArrives(l) \/ ListFails(l)
  \/ \E to \in {"settings", "board"} : Visit(to)
  \/ \E t \in Tokens : SaveToken(t)
  \/ SignOut \/ Reload
  \/ \E k \in Kinds : TypeKey(k) \/ SaveKey(k) \/ RemoveKey(k)
  \/ \E b \in Budgets : AddBudget(b) \/ RemoveBudget(b)
  \/ \E card \in Cards, op \in Ops :
       Handle(card, op) \/ Acknowledged(card, op) \/ PostFails(card, op)
  \/ Dismiss

Spec == Init /\ [][Next]_vars

-----------------------------------------------------------------------------
(* Properties                                                                *)

\* The page shows the keys and the budgets that its agent has, unless a request
\* is under way, the list is known to be out of date, or it was read before a
\* change (integrations.ts:63-85; settings/page.tsx:126-160) which
\* - the server made and the browser was told had failed, or
\* - was acknowledged while an answer already read was on its way to a page that
\*   shows the list for the first time, or that was left: invalidateQueries does
\*   not give such a request up, and its answer makes the list valid again.
ListIsAccurate ==
  \A l \in Lists :
    /\ cache[l].agent = token
    /\ l \notin stale /\ ask[l].phase = "idle"
    /\ <<l, "cache">> \notin lost \cup joined
    /\ \A p \in Cards \X Ops : ListOf(p[1]) = l => posts[p].phase = "idle"
    => cache[l].items = has[token] \cap ItemsOf(l)
=============================================================================
