--------------------------- MODULE SettingsProofs ---------------------------
(****************************************************************************)
(* Theorems about Settings, for any agents, keys and budgets: its types,    *)
(* and that a list which is not known to be out of date is accurate.        *)
(*                                                                          *)
(* The latter is not inductive: an answer that has been read must be current *)
(* as well as what is cached, for it will take its place; and a list may be *)
(* wrong from the moment the server has done what was asked, whatever else  *)
(* is still on its way.                                                     *)
(****************************************************************************)
EXTENDS Settings, TLAPS

Asks == [phase : {"idle", "asked", "answered"}, agent : Tokens, items : SUBSET Items]
Posts == [phase : {"idle", "sent", "done"}, agent : Tokens, item : Items \cup {"none"},
          here : BOOLEAN]
Caches == [agent : Agents \cup {"unknown"}, items : SUBSET Items]

UserTypes ==
  /\ has \in [Agents -> SUBSET Items]
  /\ token \in Tokens /\ page \in {"settings", "board"}
  /\ ticked \in BOOLEAN /\ dismissed \in BOOLEAN

\* What is asked of a list are its items, and an answer is somebody's.
ListTypes ==
  /\ cache \in [Lists -> Caches] /\ ask \in [Lists -> Asks]
  /\ stale \subseteq Lists /\ lost \subseteq Readings /\ joined \subseteq Readings
  /\ \A l \in Lists : /\ cache[l].items \subseteq ItemsOf(l) /\ ask[l].items \subseteq ItemsOf(l)
                      /\ ask[l].phase = "answered" => ask[l].agent \in Agents

\* A card's requests are about what the card is about.
CardTypes ==
  /\ posts \in [Cards \X Ops -> Posts] /\ dirty \subseteq Kinds
  /\ page # "settings" => dirty = {} /\ \A p \in Cards \X Ops : ~posts[p].here
  /\ \A p \in Cards \X Ops : posts[p].phase # "idle" => posts[p].item \in ItemsOf(ListOf(p[1]))

\* No change of the list that the server has made is still to be acknowledged.
AllTold(l) == \A p \in Cards \X Ops : ListOf(p[1]) = l => posts[p].phase # "done"

AnswerIsCurrent(l) ==
  ask[l].phase = "answered" /\ <<l, "answer">> \notin lost \cup joined /\ AllTold(l) =>
    ask[l].items = has[ask[l].agent] \cap ItemsOf(l)

CacheIsCurrent(l) ==
  /\ cache[l].agent \in Agents /\ l \notin stale
  /\ <<l, "cache">> \notin lost \cup joined /\ AllTold(l)
  => cache[l].items = has[cache[l].agent] \cap ItemsOf(l)

Current(l) == AnswerIsCurrent(l) /\ CacheIsCurrent(l)

IInv == UserTypes /\ ListTypes /\ CardTypes /\ \A l \in Lists : Current(l)

LEMMA Types == IInv => TypeOK
BY DEF IInv, UserTypes, ListTypes, CardTypes, TypeOK, Asks, Posts, Caches

\* The values that stand for nothing.
LEMMA Nothings ==
  /\ NotFetched \in Caches /\ NotFetched.agent \notin Agents /\ NotFetched.items = {}
  /\ NoAsk \in Asks /\ NoAsk.phase = "idle" /\ NoAsk.items = {}
  /\ \A a \in Tokens : /\ AskedBy(a) \in Asks /\ AskedBy(a).phase = "asked"
                       /\ AskedBy(a).items = {}
  /\ NoPost \in Posts /\ NoPost.phase = "idle" /\ NoPost.here = FALSE
BY SettingsAssumption DEF NotFetched, NoAsk, AskedBy, NoPost, Caches, Asks, Posts, Tokens

\* A card stands for one list, and an item is of one list.
LEMMA OneList ==
  /\ \A card \in Cards : ListOf(card) \in Lists
  /\ ItemsOf("keys") = Kinds /\ ItemsOf("budgets") = Budgets
  /\ \A k \in Kinds : ListOf(k) = "keys"
  /\ ListOf("budgets") = "budgets"
  /\ ItemsOf("keys") \cap ItemsOf("budgets") = {}
  /\ \A l \in Lists : ItemsOf(l) \subseteq Items
BY SettingsAssumption DEF Cards, Lists, ListOf, ItemsOf, Items

LEMMA Initially == Init => IInv
<1> SUFFICES ASSUME Init PROVE IInv
  OBVIOUS
<1>1. Nobody \in Tokens
  BY DEF Tokens
<1>2. UserTypes
  BY <1>1 DEF Init, UserTypes
<1>3. /\ \A l \in Lists : cache[l] = NotFetched /\ ask[l] \in {NoAsk, AskedBy(Nobody)}
      /\ \A p \in Cards \X Ops : posts[p] = NoPost
  BY DEF Init
<1>4. ListTypes
  BY <1>1, <1>3, Nothings DEF Init, ListTypes
<1>5. CardTypes
  BY <1>3, Nothings DEF Init, CardTypes
<1>6. \A l \in Lists : Current(l)
  BY <1>1, <1>3, Nothings DEF Current, AnswerIsCurrent, CacheIsCurrent
<1> QED BY <1>2, <1>4, <1>5, <1>6 DEF IInv

\* What the server has, the caches and what is known of them stay; requests are
\* begun and no answer comes: nothing can get out of date.
LEMMA AskingKeepsCurrent ==
  ASSUME IInv, NEW l \in Lists, UNCHANGED <<has, cache, stale, missVars>>,
         \A p \in Cards \X Ops : posts[p].phase = "done" => posts'[p].phase = "done",
         ask'[l] = ask[l] \/ (ask[l].phase = "idle" /\ ask'[l].phase = "asked")
  PROVE  Current(l)'
<1>1. AllTold(l)' => AllTold(l)
  BY DEF AllTold
<1> QED BY <1>1 DEF missVars, IInv, Current, AnswerIsCurrent, CacheIsCurrent

-----------------------------------------------------------------------------
(* The lists                                                                 *)

\* One list's request changes.
LEMMA AskKeepsTypes ==
  ASSUME ListTypes, NEW list \in Lists, NEW new \in Asks, UNCHANGED cache,
         ask' = [ask EXCEPT ![list] = new], stale' \subseteq Lists,
         lost' \subseteq Readings, joined' \subseteq Readings,
         new.items \subseteq ItemsOf(list), new.phase = "answered" => new.agent \in Agents
  PROVE  ListTypes'
<1>1. ask' \in [Lists -> Asks] /\ ask'[list] = new
      /\ \A l \in Lists \ {list} : ask'[l] = ask[l]
  BY DEF ListTypes
<1> QED BY <1>1 DEF ListTypes

LEMMA AnswerKeeps == ASSUME IInv, NEW list \in Lists, Answer(list) PROVE IInv'
<1>1. UserTypes /\ ListTypes /\ CardTypes
  BY DEF IInv
<1>2. /\ UNCHANGED <<has, userVars, cache, stale, missVars, cardVars, checkVars>>
      /\ ask[list].agent \in Agents /\ ask[list].phase = "asked"
  BY DEF Answer
<1> DEFINE new == [ask[list] EXCEPT !.phase = "answered",
                                    !.items = has[ask[list].agent] \cap ItemsOf(list)]
<1>3. ask' = [ask EXCEPT ![list] = new]
  BY <1>1 DEF Answer, ListTypes
<1>4. /\ new \in Asks /\ new.phase = "answered" /\ new.agent = ask[list].agent
      /\ new.items = has[ask[list].agent] \cap ItemsOf(list)
  BY <1>1, <1>2 DEF ListTypes, UserTypes, Asks
<1> HIDE DEF new
<1>5. ListTypes'
  BY <1>1, <1>2, <1>3, <1>4, AskKeepsTypes DEF ListTypes, missVars
<1>6. UserTypes' /\ CardTypes'
  BY <1>1, <1>2 DEF UserTypes, CardTypes, userVars, cardVars, checkVars
<1>7. ASSUME NEW l \in Lists PROVE Current(l)'
  <2>1. AllTold(l)' = AllTold(l) /\ Current(l)
    BY <1>2 DEF AllTold, cardVars, IInv
  <2>2. ask'[list] = new /\ (l # list => ask'[l] = ask[l])
    BY <1>1, <1>3 DEF ListTypes
  <2> QED BY <1>2, <1>4, <2>1, <2>2 DEF missVars, Current, AnswerIsCurrent, CacheIsCurrent
<1> QED BY <1>5, <1>6, <1>7 DEF IInv

LEMMA ListArrivesKeeps == ASSUME IInv, NEW list \in Lists, ListArrives(list) PROVE IInv'
<1>1. UserTypes /\ ListTypes /\ CardTypes
  BY DEF IInv
<1>2. /\ UNCHANGED <<has, userVars, cardVars, checkVars>> /\ stale' = stale \ {list}
      /\ lost' = Carried(lost, list) /\ joined' = Carried(joined, list)
      /\ ask[list].phase = "answered" /\ ask' = [ask EXCEPT ![list] = NoAsk]
  BY DEF ListArrives
<1> DEFINE new == [agent |-> ask[list].agent, items |-> ask[list].items]
<1>3. cache' = [cache EXCEPT ![list] = new]
  BY DEF ListArrives
<1>4. /\ new \in Caches /\ new.agent = ask[list].agent /\ new.items = ask[list].items
      /\ new.items \subseteq ItemsOf(list)
  BY <1>1, <1>2 DEF ListTypes, Asks, Caches
<1> HIDE DEF new
<1>5. /\ cache' \in [Lists -> Caches] /\ ask' \in [Lists -> Asks]
      /\ cache'[list] = new /\ ask'[list] = NoAsk
      /\ \A l \in Lists \ {list} : cache'[l] = cache[l] /\ ask'[l] = ask[l]
  BY <1>1, <1>2, <1>3, <1>4, Nothings DEF ListTypes
<1>6. ListTypes'
  <2>1. lost' \subseteq Readings /\ joined' \subseteq Readings
    BY <1>1, <1>2 DEF ListTypes, Carried, Readings
  <2> QED BY <1>1, <1>2, <1>4, <1>5, <2>1, Nothings DEF ListTypes
<1>7. UserTypes' /\ CardTypes'
  BY <1>1, <1>2 DEF UserTypes, CardTypes, userVars, cardVars, checkVars
<1>8. ASSUME NEW l \in Lists PROVE Current(l)'
  <2>1. AllTold(l)' = AllTold(l) /\ Current(l)
    BY <1>2 DEF AllTold, cardVars, IInv
  <2>2. CASE l = list
    <3>1. <<list, "cache">> \notin lost' \cup joined' => <<list, "answer">> \notin lost \cup joined
      BY <1>2 DEF Carried
    <3> QED BY <1>2, <1>4, <1>5, <2>1, <2>2, <3>1, Nothings
            DEF Current, AnswerIsCurrent, CacheIsCurrent
  <2>3. CASE l # list
    <3>1. \A place \in {"cache", "answer"} :
            <<l, place>> \in lost' \cup joined' <=> <<l, place>> \in lost \cup joined
      BY <1>2, <2>3 DEF Carried
    <3> QED BY <1>2, <1>5, <2>1, <2>3, <3>1 DEF Current, AnswerIsCurrent, CacheIsCurrent
  <2> QED BY <2>2, <2>3
<1> QED BY <1>6, <1>7, <1>8 DEF IInv

LEMMA ListFailsKeeps == ASSUME IInv, NEW list \in Lists, ListFails(list) PROVE IInv'
<1>1. UserTypes /\ ListTypes /\ CardTypes
  BY DEF IInv
<1>2. /\ UNCHANGED <<has, userVars, cache, stale, cardVars, checkVars>>
      /\ ask' = [ask EXCEPT ![list] = NoAsk]
      /\ lost' = lost \ {<<list, "answer">>} /\ joined' = joined \ {<<list, "answer">>}
  BY DEF ListFails
<1>3. lost' \subseteq Readings /\ joined' \subseteq Readings
  BY <1>1, <1>2 DEF ListTypes
<1>4. ListTypes'
  BY <1>1, <1>2, <1>3, Nothings, AskKeepsTypes DEF ListTypes
<1>5. UserTypes' /\ CardTypes'
  BY <1>1, <1>2 DEF UserTypes, CardTypes, userVars, cardVars, checkVars
<1>6. ASSUME NEW l \in Lists PROVE Current(l)'
  <2>1. AllTold(l)' = AllTold(l) /\ Current(l)
    BY <1>2 DEF AllTold, cardVars, IInv
  <2>2. ask'[list] = NoAsk /\ (l # list => ask'[l] = ask[l])
    BY <1>1, <1>2 DEF ListTypes
  <2>3. \A place \in {"cache", "answer"} : <<l, place>> # <<list, "answer">> =>
          (<<l, place>> \in lost' \cup joined' <=> <<l, place>> \in lost \cup joined)
    BY <1>2
  <2>4. <<l, "cache">> # <<list, "answer">>
    OBVIOUS
  <2> QED BY <1>2, <2>1, <2>2, <2>3, <2>4, Nothings
          DEF Current, AnswerIsCurrent, CacheIsCurrent
<1> QED BY <1>4, <1>5, <1>6 DEF IInv

-----------------------------------------------------------------------------
(* The user                                                                  *)

\* Requests that appear are typed, and begin where there was none.
LEMMA AppearAsks ==
  ASSUME ListTypes, UserTypes, NEW lists \in SUBSET Lists, Appear(lists)
  PROVE  /\ ask' \in [Lists -> Asks]
         /\ \A l \in Lists : ask'[l] = ask[l] \/ (/\ ask[l].phase = "idle" /\ l \in lists
                                                  /\ ask'[l] = AskedBy(token))
<1>1. \A l \in Lists : ask'[l] = ask[l] \/ (/\ ask[l].phase = "idle" /\ l \in lists
                                            /\ ask'[l] = AskedBy(token))
  BY DEF Appear
<1>2. ask' = [l \in Lists |-> ask'[l]]
  BY DEF Appear
<1> QED BY <1>1, <1>2, Nothings DEF ListTypes, UserTypes

LEMMA LeavingKeepsCards ==
  ASSUME CardTypes, LeaveCards
  PROVE  /\ CardTypes'
         /\ \A p \in Cards \X Ops : posts'[p].phase = posts[p].phase
<1>1. ASSUME NEW p \in Cards \X Ops
      PROVE  /\ posts'[p] \in Posts /\ posts'[p].here = FALSE
             /\ posts'[p].phase = posts[p].phase /\ posts'[p].item = posts[p].item
  BY ZenonT(60) DEF CardTypes, LeaveCards, Posts
<1>2. posts' \in [Cards \X Ops -> Posts] /\ dirty' = {}
  BY <1>1 DEF LeaveCards
<1> QED BY <1>1, <1>2 DEF CardTypes

\* What is asked for when pages change.
LEMMA PagesKeep ==
  ASSUME IInv, UserTypes', CardTypes', UNCHANGED <<has, cache, stale, missVars>>,
         \A p \in Cards \X Ops : posts'[p].phase = posts[p].phase,
         ask' \in [Lists -> Asks],
         \A l \in Lists : ask'[l] = ask[l] \/ (/\ ask[l].phase = "idle"
                                               /\ \E a \in Tokens : ask'[l] = AskedBy(a))
  PROVE  IInv'
<1>1. ListTypes'
  BY Nothings DEF IInv, ListTypes, missVars
<1>2. ASSUME NEW l \in Lists PROVE Current(l)'
  BY AskingKeepsCurrent, Nothings
<1> QED BY <1>1, <1>2 DEF IInv

LEMMA VisitKeeps ==
  ASSUME IInv, NEW to \in {"settings", "board"}, Visit(to) PROVE IInv'
<1>1. UserTypes /\ ListTypes /\ CardTypes
  BY DEF IInv
<1>2. UNCHANGED <<has, token, cache, stale, missVars, dismissed>> /\ LeaveCards
  BY DEF Visit
<1>3. UserTypes'
  BY <1>1 DEF Visit, UserTypes, Tokens
<1> DEFINE lists == {l \in Lists : ListIsShown(l, to)}
<1>4. lists \in SUBSET Lists /\ Appear(lists)
  BY DEF Visit
<1> HIDE DEF lists
<1> QED BY <1>1, <1>2, <1>3, <1>4, AppearAsks, LeavingKeepsCards, PagesKeep DEF UserTypes

LEMMA SignOutKeeps == ASSUME IInv, SignOut PROVE IInv'
<1>1. UserTypes /\ ListTypes /\ CardTypes
  BY DEF IInv
<1>2. UNCHANGED <<has, cache, stale, missVars, dismissed>> /\ page' = "board" /\ Nobody \in Tokens
  BY DEF SignOut, Tokens
<1>3. UserTypes'
  BY <1>1, <1>2 DEF SignOut, UserTypes
<1>4. CASE page = "board"
  <2>1. UNCHANGED <<ask, cardVars, page>>
    BY <1>2, <1>4 DEF SignOut
  <2>2. CardTypes'
    BY <1>1, <2>1 DEF CardTypes, cardVars
  <2> QED BY <1>1, <1>2, <1>3, <2>1, <2>2, PagesKeep DEF cardVars, ListTypes
<1>5. CASE page # "board"
  <2>1. LeaveCards
    BY <1>5 DEF SignOut
  <2>2. /\ ask' \in [Lists -> Asks]
        /\ \A l \in Lists : ask'[l] = ask[l] \/ (ask[l].phase = "idle" /\ ask'[l] = AskedBy(Nobody))
    BY <1>1, <1>2, <1>5, Nothings DEF SignOut, ListTypes
  <2> QED BY <1>1, <1>2, <1>3, <2>1, <2>2, LeavingKeepsCards, PagesKeep
<1> QED BY <1>4, <1>5

LEMMA ReloadKeeps == ASSUME IInv, Reload PROVE IInv'
<1>1. UserTypes /\ ListTypes /\ CardTypes
  BY DEF IInv
<1>2. Nobody \in Tokens /\ token \in Tokens
  BY <1>1 DEF Tokens, UserTypes
<1>3. UserTypes'
  BY <1>1, <1>2 DEF Reload, UserTypes
<1>4. /\ \A l \in Lists : cache'[l] = NotFetched /\ ask'[l] \in {NoAsk, AskedBy(token)}
      /\ \A p \in Cards \X Ops : posts'[p] = NoPost
  BY DEF Reload
<1>5. ListTypes'
  BY <1>2, <1>4, Nothings DEF Reload, ListTypes
<1>6. CardTypes'
  BY <1>4, Nothings DEF Reload, CardTypes
<1>7. \A l \in Lists : Current(l)'
  BY <1>2, <1>4, Nothings DEF Current, AnswerIsCurrent, CacheIsCurrent
<1> QED BY <1>3, <1>5, <1>6, <1>7 DEF IInv

\* Typing and saving a token, and the check-list, leave lists and cards alone.
LEMMA TypingKeeps ==
  ASSUME IInv,
         \/ \E t \in Tokens : SaveToken(t)
         \/ Dismiss \/ \E k \in Kinds : TypeKey(k)
  PROVE  IInv'
<1>1. UserTypes /\ ListTypes /\ CardTypes
  BY DEF IInv
<1>2. UNCHANGED <<has, page, listVars, posts>>
  BY DEF SaveToken, Dismiss, TypeKey, cardVars, userVars
<1>3. UserTypes'
  BY <1>1 DEF SaveToken, Dismiss, TypeKey, UserTypes, userVars, checkVars, cardVars
<1>4. CardTypes'
  BY <1>1, <1>2 DEF SaveToken, Dismiss, TypeKey, CardTypes, cardVars
<1> QED BY <1>1, <1>2, <1>3, <1>4, PagesKeep DEF listVars, ListTypes

-----------------------------------------------------------------------------
(* Keys and budgets                                                          *)

\* One request of one card changes, on a page where that is possible.
LEMMA PostKeepsTypes ==
  ASSUME CardTypes, NEW card \in Cards, NEW op \in Ops, NEW new \in Posts,
         posts' = [posts EXCEPT ![<<card, op>>] = new], dirty' \subseteq dirty, UNCHANGED page,
         new.phase = "idle" \/ new.item \in ItemsOf(ListOf(card)),
         new.here = FALSE \/ page = "settings"
  PROVE  CardTypes'
<1>1. <<card, op>> \in Cards \X Ops /\ <<card, op>>[1] = card
  OBVIOUS
<1>2. /\ posts' \in [Cards \X Ops -> Posts]
      /\ posts'[<<card, op>>] = new
      /\ \A p \in Cards \X Ops : p # <<card, op>> => posts'[p] = posts[p]
  BY <1>1 DEF CardTypes
<1>3. \A p \in Cards \X Ops :
        posts'[p].phase # "idle" => posts'[p].item \in ItemsOf(ListOf(p[1]))
  BY <1>1, <1>2 DEF CardTypes
<1>4. page' # "settings" => dirty' = {} /\ \A p \in Cards \X Ops : ~posts'[p].here
  BY <1>2 DEF CardTypes
<1> QED BY <1>2, <1>3, <1>4 DEF CardTypes

\* Of a list that the request is not about, all that was told still is.
LEMMA OthersAreTold ==
  ASSUME NEW card \in Cards, NEW op \in Ops, NEW l \in Lists \ {ListOf(card)},
         \A p \in Cards \X Ops : p # <<card, op>> => posts'[p] = posts[p]
  PROVE  AllTold(l)' = AllTold(l)
<1>1. ASSUME NEW p \in Cards \X Ops, ListOf(p[1]) = l PROVE posts'[p] = posts[p]
  BY <1>1
<1>2. AllTold(l)' <=> AllTold(l)
  BY <1>1 DEF AllTold
<1> QED BY <1>2 DEF AllTold

LEMMA SendKeeps ==
  ASSUME IInv, NEW card \in Cards, NEW op \in Ops, NEW item \in ItemsOf(ListOf(card)),
         Send(card, op, item), UNCHANGED dirty, page = "settings"
  PROVE  IInv'
<1>1. UserTypes /\ ListTypes /\ CardTypes
  BY DEF IInv
<1>2. UNCHANGED <<has, userVars, listVars, checkVars>> /\ posts[<<card, op>>].phase = "idle"
  BY DEF Send
<1> DEFINE new == [phase |-> "sent", agent |-> token, item |-> item, here |-> TRUE]
<1>3. posts' = [posts EXCEPT ![<<card, op>>] = new]
  BY DEF Send
<1>4. new \in Posts /\ new.phase = "sent" /\ new.item = item
  BY <1>1, OneList DEF UserTypes, Posts
<1> HIDE DEF new
<1>5. /\ CardTypes'
      /\ \A p \in Cards \X Ops : posts'[p] = IF p = <<card, op>> THEN new ELSE posts[p]
  <2>1. UNCHANGED page /\ dirty' \subseteq dirty
    BY <1>2 DEF userVars
  <2>3. CardTypes'
    BY <1>1, <1>3, <1>4, <2>1, PostKeepsTypes
  <2> QED BY <1>1, <1>3, <2>3 DEF CardTypes
<1>6. UserTypes' /\ ListTypes'
  BY <1>1, <1>2 DEF UserTypes, ListTypes, userVars, listVars, missVars, checkVars
<1>7. \A p \in Cards \X Ops : posts[p].phase = "done" => posts'[p].phase = "done"
  BY <1>2, <1>5
<1>8. \A l \in Lists : Current(l)'
  BY <1>2, <1>7, AskingKeepsCurrent DEF listVars
<1> QED BY <1>5, <1>6, <1>8 DEF IInv

LEMMA CardsKeep ==
  ASSUME IInv,
         \/ \E k \in Kinds : SaveKey(k) \/ RemoveKey(k)
         \/ \E b \in Budgets : AddBudget(b) \/ RemoveBudget(b)
  PROVE  IInv'
<1>1. "save" \in Ops /\ "remove" \in Ops /\ "budgets" \in Cards /\ Kinds \subseteq Cards
  BY DEF Ops, Cards
<1>2. /\ \A k \in Kinds : k \in ItemsOf(ListOf(k))
      /\ \A b \in Budgets : b \in ItemsOf(ListOf("budgets"))
  BY OneList
<1>3. ASSUME NEW k \in Kinds, SaveKey(k) \/ RemoveKey(k) PROVE IInv'
  BY <1>1, <1>2, <1>3, SendKeeps DEF SaveKey, RemoveKey
<1>4. ASSUME NEW b \in Budgets, AddBudget(b) \/ RemoveBudget(b) PROVE IInv'
  BY <1>1, <1>2, <1>4, SendKeeps DEF AddBudget, RemoveBudget
<1> QED BY <1>3, <1>4

\* What the server changes is not told yet, and of one list only.
LEMMA HandleKeeps ==
  ASSUME IInv, NEW card \in Cards, NEW op \in Ops, Handle(card, op) PROVE IInv'
<1>1. UserTypes /\ ListTypes /\ CardTypes
  BY DEF IInv
<1> DEFINE post == posts[<<card, op>>]
           new == [posts[<<card, op>>] EXCEPT !.phase = "done"]
<1>2. <<card, op>> \in Cards \X Ops /\ <<card, op>>[1] = card /\ post = posts[<<card, op>>]
  OBVIOUS
<1>3. /\ post.phase = "sent" /\ post.agent \in Agents
      /\ has' = [has EXCEPT ![post.agent] =
                   IF op = "save" THEN @ \cup {post.item} ELSE @ \ {post.item}]
      /\ posts' = [posts EXCEPT ![<<card, op>>].phase = "done"]
      /\ UNCHANGED <<userVars, listVars, dirty, checkVars>>
  BY DEF Handle
<1>4. post.item \in ItemsOf(ListOf(card)) /\ post \in Posts
  BY <1>1, <1>2, <1>3 DEF CardTypes
<1>5. /\ new \in Posts /\ new.phase = "done" /\ new.item = post.item /\ new.here = post.here
      /\ posts' = [posts EXCEPT ![<<card, op>>] = new]
  BY <1>1, <1>2, <1>3, <1>4 DEF Posts, CardTypes
<1>6. new.here = FALSE \/ page = "settings"
  BY <1>1, <1>2, <1>4, <1>5 DEF CardTypes, Posts
<1>7. ListOf(card) \in Lists /\ post.item \in Items
  BY <1>4, OneList
<1> HIDE DEF new, post
<1>8. /\ CardTypes'
      /\ \A p \in Cards \X Ops : posts'[p] = IF p = <<card, op>> THEN new ELSE posts[p]
  <2>1. UNCHANGED page /\ dirty' \subseteq dirty
    BY <1>3 DEF userVars
  <2>3. CardTypes'
    BY <1>1, <1>4, <1>5, <1>6, <2>1, PostKeepsTypes
  <2> QED BY <1>1, <1>5, <2>3 DEF CardTypes
<1>9. has' \in [Agents -> SUBSET Items]
  BY <1>1, <1>3, <1>7 DEF UserTypes
<1>10. UserTypes' /\ ListTypes'
  BY <1>1, <1>3, <1>9 DEF UserTypes, ListTypes, userVars, listVars, missVars, checkVars
<1>11. ASSUME NEW l \in Lists PROVE Current(l)'
  <2>1. CASE l = ListOf(card)
    <3>1. ~AllTold(l)'
      BY <1>2, <1>5, <1>8, <2>1 DEF AllTold
    <3> QED BY <3>1 DEF Current, AnswerIsCurrent, CacheIsCurrent
  <2>2. CASE l # ListOf(card)
    <3>1. AllTold(l)' = AllTold(l) /\ Current(l)
      BY <1>8, <2>2, OthersAreTold DEF IInv
    <3>2. post.item \notin ItemsOf(l)
      BY <1>4, <1>7, <2>2, OneList DEF Lists
    <3>3. \A a \in Agents : has'[a] \cap ItemsOf(l) = has[a] \cap ItemsOf(l)
      BY <1>1, <1>3, <3>2 DEF UserTypes
    <3> QED BY <1>1, <1>3, <3>1, <3>3
            DEF ListTypes, listVars, missVars, Current, AnswerIsCurrent, CacheIsCurrent
  <2> QED BY <2>1, <2>2
<1> QED BY <1>8, <1>10, <1>11 DEF IInv

\* The list is out of date until an answer comes that was read since.
LEMMA AcknowledgedKeeps ==
  ASSUME IInv, NEW card \in Cards, NEW op \in Ops, Acknowledged(card, op) PROVE IInv'
<1>1. UserTypes /\ ListTypes /\ CardTypes
  BY DEF IInv
<1> DEFINE list == ListOf(card)
<1>2. list \in Lists
  BY OneList
<1>3. /\ posts' = [posts EXCEPT ![<<card, op>>] = NoPost] /\ Invalidate(list)
      /\ lost' \in {lost, lost \ {<<list, "answer">>}}
      /\ joined' \in {joined \cup {<<list, "answer">>}, joined \ {<<list, "answer">>}}
      /\ ask'[list].phase = "answered" => <<list, "answer">> \in joined'
      /\ dirty' \subseteq dirty
      /\ UNCHANGED <<has, userVars, cache, checkVars>>
  BY DEF Acknowledged
<1>4. /\ CardTypes'
      /\ \A p \in Cards \X Ops : p # <<card, op>> => posts'[p] = posts[p]
  <2>1. UNCHANGED page /\ dirty' \subseteq dirty
    BY <1>3 DEF userVars
  <2>2. NoPost \in Posts /\ NoPost.phase = "idle" /\ NoPost.here = FALSE
    BY Nothings
  <2>3. CardTypes'
    BY <1>1, <1>3, <2>1, <2>2, PostKeepsTypes
  <2> QED BY <1>1, <1>3, <2>3 DEF CardTypes
<1> HIDE DEF list
<1>5. /\ stale' = IF cache[list] = NotFetched THEN stale ELSE stale \cup {list}
      /\ ask' = ask \/ (cache[list] # NotFetched /\ ask' = [ask EXCEPT ![list] = AskedBy(token)])
                    \/ (ask[list].phase = "idle" /\ ask' = [ask EXCEPT ![list] = AskedBy(token)])
  BY <1>3 DEF Invalidate
<1>6. /\ stale' \subseteq Lists /\ AskedBy(token) \in Asks
      /\ lost' \subseteq Readings /\ joined' \subseteq Readings
  BY <1>1, <1>2, <1>3, <1>5, Nothings DEF ListTypes, UserTypes, Readings
<1>7. ask' = [ask EXCEPT ![list] = ask'[list]] /\ ask'[list] \in {ask[list], AskedBy(token)}
      /\ \A l \in Lists \ {list} : ask'[l] = ask[l]
  BY <1>1, <1>2, <1>5 DEF ListTypes
<1>8. ListTypes'
  <2>1. ask' \in [Lists -> Asks]
    BY <1>1, <1>2, <1>6, <1>7 DEF ListTypes
  <2> QED BY <1>1, <1>2, <1>3, <1>6, <1>7, <2>1, Nothings DEF ListTypes, UserTypes
<1>9. UserTypes'
  BY <1>1, <1>3 DEF UserTypes, userVars, checkVars
<1>10. ASSUME NEW l \in Lists PROVE Current(l)'
  <2>1. CASE l = list
    <3>1. AnswerIsCurrent(l)'
      BY <1>2, <1>3, <2>1 DEF AnswerIsCurrent
    <3>2. CacheIsCurrent(l)'
      BY <1>3, <1>5, <2>1, Nothings DEF CacheIsCurrent
    <3> QED BY <3>1, <3>2 DEF Current
  <2>2. CASE l # list
    <3>1. AllTold(l)' = AllTold(l) /\ Current(l)
      BY <1>4, <2>2, OthersAreTold DEF IInv, list
    <3>2. /\ ask'[l] = ask[l] /\ (l \in stale' <=> l \in stale)
          /\ \A place \in {"cache", "answer"} :
               <<l, place>> \in lost' \cup joined' <=> <<l, place>> \in lost \cup joined
      BY <1>3, <1>5, <1>7, <2>2
    <3> QED BY <1>3, <3>1, <3>2 DEF Current, AnswerIsCurrent, CacheIsCurrent
  <2> QED BY <2>1, <2>2
<1> QED BY <1>4, <1>8, <1>9, <1>10 DEF IInv

LEMMA PostFailsKeeps ==
  ASSUME IInv, NEW card \in Cards, NEW op \in Ops, PostFails(card, op) PROVE IInv'
<1>1. UserTypes /\ ListTypes /\ CardTypes
  BY DEF IInv
<1> DEFINE list == ListOf(card)
<1>2. list \in Lists /\ <<card, op>> \in Cards \X Ops
  BY OneList
<1>3. /\ posts' = [posts EXCEPT ![<<card, op>>] = NoPost]
      /\ lost' = IF posts[<<card, op>>].phase = "done" THEN lost \cup ReadOf(list) ELSE lost
      /\ UNCHANGED <<has, userVars, cache, stale, ask, joined, dirty, checkVars>>
  BY DEF PostFails
<1>4. /\ CardTypes'
      /\ \A p \in Cards \X Ops : posts'[p] = IF p = <<card, op>> THEN NoPost ELSE posts[p]
  <2>1. UNCHANGED page /\ dirty' \subseteq dirty
    BY <1>3 DEF userVars
  <2>2. NoPost \in Posts /\ NoPost.phase = "idle" /\ NoPost.here = FALSE
    BY Nothings
  <2>3. CardTypes'
    BY <1>1, <1>3, <2>1, <2>2, PostKeepsTypes
  <2> QED BY <1>1, <1>3, <2>3 DEF CardTypes
<1> HIDE DEF list
<1>5. UserTypes' /\ ListTypes'
  BY <1>1, <1>2, <1>3 DEF UserTypes, ListTypes, userVars, checkVars, ReadOf, Readings
<1>6. ASSUME NEW l \in Lists PROVE Current(l)'
  <2>1. CASE l = list /\ posts[<<card, op>>].phase = "done"
    <3>1. /\ ask[l].phase = "answered" => <<l, "answer">> \in lost'
          /\ cache[l] # NotFetched => <<l, "cache">> \in lost'
      BY <1>3, <2>1 DEF ReadOf
    <3> QED BY <1>3, <3>1, Nothings DEF Current, AnswerIsCurrent, CacheIsCurrent
  <2>2. CASE ~(l = list /\ posts[<<card, op>>].phase = "done")
    <3>1. AllTold(l)' => AllTold(l)
      BY <1>2, <1>4, <2>2 DEF AllTold, list
    <3>2. /\ Current(l)
          /\ \A place \in {"cache", "answer"} : <<l, place>> \in lost' <=> <<l, place>> \in lost
      BY <1>3, <2>2 DEF IInv, ReadOf
    <3> QED BY <1>3, <3>1, <3>2 DEF Current, AnswerIsCurrent, CacheIsCurrent
  <2> QED BY <2>1, <2>2
<1> QED BY <1>4, <1>5, <1>6 DEF IInv

-----------------------------------------------------------------------------
LEMMA Always == Spec => []IInv
<1>1. IInv /\ [Next]_vars => IInv'
  <2> SUFFICES ASSUME IInv, [Next]_vars PROVE IInv'
    OBVIOUS
  <2>1. CASE UNCHANGED vars
    BY <2>1, PagesKeep DEF vars, userVars, listVars, missVars, cardVars, checkVars, IInv, UserTypes,
                           ListTypes, CardTypes
  <2>2. ASSUME NEW l \in Lists, Answer(l) \/ ListArrives(l) \/ ListFails(l) PROVE IInv'
    BY <2>2, AnswerKeeps, ListArrivesKeeps, ListFailsKeeps
  <2>3. CASE \/ \E to \in {"settings", "board"} : Visit(to)
             \/ SignOut \/ Reload
    BY <2>3, VisitKeeps, SignOutKeeps, ReloadKeeps
  <2>4. CASE \/ \E t \in Tokens : SaveToken(t)
             \/ Dismiss \/ \E k \in Kinds : TypeKey(k)
    BY <2>4, TypingKeeps
  <2>5. CASE \/ \E k \in Kinds : SaveKey(k) \/ RemoveKey(k)
             \/ \E b \in Budgets : AddBudget(b) \/ RemoveBudget(b)
    BY <2>5, CardsKeep
  <2>6. ASSUME NEW card \in Cards, NEW op \in Ops,
               Handle(card, op) \/ Acknowledged(card, op) \/ PostFails(card, op)
        PROVE  IInv'
    BY <2>6, HandleKeeps, AcknowledgedKeeps, PostFailsKeeps
  <2> QED BY <2>1, <2>2, <2>3, <2>4, <2>5, <2>6 DEF Next
<1> QED BY <1>1, Initially, PTL DEF Spec

\* The types of the settings, for any agents, kinds of keys and budgets: among
\* them, that no list has items of another and that a page that is not there has
\* nothing typed.
THEOREM SettingsTyped == Spec => []TypeOK
BY Always, Types, PTL

\* What the page shows of keys and budgets is what its agent has, unless the list
\* is being asked for or is known to be out of date, or a change is on its way, or
\* the list was read before a change that the browser was told had failed, or
\* before one that was acknowledged while a request went on that invalidation does
\* not give up: the first one, or that of a page that was left.
THEOREM ListsAreAccurate == Spec => []ListIsAccurate
<1>1. IInv => ListIsAccurate
  <2> SUFFICES ASSUME IInv, NEW l \in Lists,
                      cache[l].agent = token, l \notin stale, ask[l].phase = "idle",
                      <<l, "cache">> \notin lost \cup joined,
                      \A p \in Cards \X Ops : ListOf(p[1]) = l => posts[p].phase = "idle"
               PROVE  cache[l].items = has[token] \cap ItemsOf(l)
    BY DEF ListIsAccurate
  <2>1. AllTold(l) /\ Current(l)
    BY DEF AllTold, IInv
  <2>2. cache[l].agent \in Agents
    BY SettingsAssumption DEF IInv, UserTypes, ListTypes, Caches, Tokens, Nobody
  <2> QED BY <2>1, <2>2 DEF Current, CacheIsCurrent
<1> QED BY <1>1, Always, PTL
=============================================================================
