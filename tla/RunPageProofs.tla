---------------------------- MODULE RunPageProofs ----------------------------
(****************************************************************************)
(* Theorems about the page of a run (RunPage) and its chart (RunChart): the *)
(* types, that the page never shows less than an action it acknowledged,    *)
(* and that between snapshot and stream nothing is lost or out of order.    *)
(*                                                                          *)
(* The invariant of the page says what an answer under way may hold when an *)
(* action has been acknowledged (Follows).  That of the chart says of each  *)
(* step where it is: in the snapshot or its answer, in the buffer, on its   *)
(* way, or pushed out by later ones (Told).  That the merge of the chart is *)
(* a fold is used for sequences of every length: a shortest one for which   *)
(* it failed would make it fail for a shorter one (DistinctKeeps).          *)
(****************************************************************************)
EXTENDS MCRunPage, FiniteSetTheorems, SequenceTheorems, WellFoundedInduction, TLAPS

Pending == {"sent", "done", "refused"}

\* An action that is acknowledged: what is cached without an error follows it,
\* and so does an answer that may still be cached.
Follows(c) ==
  /\ run > 0 /\ ask.phase = "idle" /\ ~failed => run >= posts[c].version
  /\ ask.phase = "answered" => ask.answer >= posts[c].version

PageInv ==
  /\ TypeOK
  /\ ask.answer <= Now /\ (ask.phase = "answered" => ask.answer > 0)
  /\ page = "open" => run > 0
  /\ run = 0 => \A c \in Clicks : posts[c].phase \notin Pending
  /\ \A c \in Clicks : posts[c].version <= Now
  /\ \A c \in Clicks : posts[c].phase = "acked" => Follows(c)

-----------------------------------------------------------------------------
(* The page                                                                  *)

LEMMA Histories ==
  \A h : h \in UNION {[1..n -> Statuses] : n \in 1..MaxVersion}
           <=> h \in Seq(Statuses) /\ Len(h) \in 1..MaxVersion
<1> USE RunPageAssumption
<1>1. ASSUME NEW h \in UNION {[1..n -> Statuses] : n \in 1..MaxVersion}
      PROVE h \in Seq(Statuses) /\ Len(h) \in 1..MaxVersion
  <2>1. PICK n \in 1..MaxVersion : h \in [1..n -> Statuses]
    OBVIOUS
  <2> DEFINE e == [i \in 1..n |-> h[i]]
  <2>2. h = e /\ \A i \in 1..n : h[i] \in Statuses
    BY <2>1
  <2>3. e \in Seq(Statuses) /\ Len(e) = n
    BY <2>1, <2>2
  <2> HIDE DEF e
  <2> QED BY <2>1, <2>2, <2>3
<1>2. ASSUME NEW h, h \in Seq(Statuses), Len(h) \in 1..MaxVersion
      PROVE h \in UNION {[1..n -> Statuses] : n \in 1..MaxVersion}
  <2>1. h \in [1..Len(h) -> Statuses]
    BY <1>2, LenProperties
  <2> QED BY <1>2, <2>1, Zenon
<1> QED BY <1>1, <1>2

AskRecord == [phase : {"idle", "asked", "answered"}, answer : 0..MaxVersion]
PostRecord ==
  [phase : {"none", "sent", "done", "refused", "acked", "over"},
   kind : {"pause", "resume", "cancel"}, version : 0..MaxVersion]

\* TypeOK by its parts.
PageWell ==
  /\ history \in Seq(Statuses) /\ Len(history) \in 1..MaxVersion
  /\ page \in {"away", "waiting", "open", "crashed"}
  /\ run \in 0..Len(history) /\ failed \in BOOLEAN
  /\ ask \in AskRecord
  /\ posts \in [Clicks -> PostRecord]
  /\ promoteOpen \in BOOLEAN
  /\ promotions \in [mine : BOOLEAN, earlier : BOOLEAN]
  /\ promoteOpen \/ promotions.mine => page = "open"

LEMMA PageTyped == (TypeOK <=> PageWell) /\ (TypeOK' <=> PageWell')
BY Histories, Zenon DEF TypeOK, PageWell, AskRecord, PostRecord

\* What the invariant says of the query and of the posts.
QueryInv ==
  /\ ask.answer <= Now /\ (ask.phase = "answered" => ask.answer > 0)
  /\ page = "open" => run > 0
PostsInv ==
  /\ run = 0 => \A c \in Clicks : posts[c].phase \notin Pending
  /\ \A c \in Clicks : posts[c].version <= Now
  /\ \A c \in Clicks : posts[c].phase = "acked" => Follows(c)

LEMMA PageParts ==
  (PageInv <=> PageWell /\ QueryInv /\ PostsInv) /\ (PageInv' <=> PageWell' /\ QueryInv' /\ PostsInv')
BY PageTyped, Zenon DEF PageInv, QueryInv, PostsInv

LEMMA Asks == ASSUME NEW phase \in {"idle", "asked", "answered"}, NEW answer \in 0..MaxVersion
              PROVE [phase |-> phase, answer |-> answer] \in AskRecord
BY DEF AskRecord

LEMMA NewAsks == NoAsk \in AskRecord /\ Asked \in AskRecord
BY RunPageAssumption DEF AskRecord, NoAsk, Asked

\* The row's history grows at its end.
LEMMA Grows ==
  ASSUME PageWell, NEW to \in Statuses, Turns(to)
  PROVE  /\ history' \in Seq(Statuses) /\ Len(history') \in 1..MaxVersion
         /\ Len(history') = Len(history) + 1
BY RunPageAssumption, AppendProperties DEF PageWell, Turns, Now

\* A step of the server: only the history and, for a POST, its post change.
LEMMA ChangeKeeps == ASSUME PageInv, Change PROVE PageInv'
<1>1. PageWell /\ QueryInv /\ PostsInv
  BY PageParts
<1>2. PICK to \in Statuses : Turns(to)
  BY DEF Change, Statuses
<1>3. history' \in Seq(Statuses) /\ Len(history') \in 1..MaxVersion /\ Len(history') = Len(history) + 1
  BY <1>1, <1>2, Grows
<1>4. UNCHANGED <<page, queryVars, actionVars>>
  BY DEF Change
<1>5. PageWell'
  BY <1>1, <1>3, <1>4 DEF PageWell, queryVars, actionVars
<1>6. QueryInv'
  BY <1>1, <1>3, <1>4 DEF PageWell, QueryInv, queryVars, Now, AskRecord
<1>7. PostsInv'
  BY <1>1, <1>3, <1>4 DEF PageWell, PostsInv, Follows, queryVars, actionVars, Now, PostRecord
<1> QED BY <1>5, <1>6, <1>7, PageParts

\* One post changes its phase, and perhaps its version.
LEMMA OnePost ==
  ASSUME PageWell, NEW c \in Clicks, NEW phase \in {"none", "sent", "done", "refused", "acked", "over"},
         NEW version \in 0..MaxVersion
  PROVE  [posts[c] EXCEPT !.phase = phase, !.version = version] \in PostRecord
BY ZenonT(60) DEF PageWell, PostRecord

\* What follows an action depends on the query and on its own post only.
LEMMA SameFollows ==
  ASSUME NEW c, UNCHANGED <<run, failed, ask>>, posts'[c] = posts[c], Follows(c)
  PROVE  Follows(c)'
BY DEF Follows

LEMMA HandleKeeps == ASSUME PageInv, NEW c \in Clicks, Handle(c) PROVE PageInv'
<1> USE RunPageAssumption
<1>1. PageWell /\ QueryInv /\ PostsInv
  BY PageParts
<1>2. UNCHANGED <<page, run, failed, ask, promoteOpen, promotions>> /\ posts[c].phase = "sent"
  BY DEF Handle, queryVars
<1>3. CASE Allowed(posts[c].kind)
  <2>1. posts[c].kind \in {"pause", "resume", "cancel"}
    BY <1>1 DEF PageWell, PostRecord
  <2>2. Result[posts[c].kind] \in Statuses
    BY <2>1 DEF Result, Statuses
  <2>3. /\ history' \in Seq(Statuses) /\ Len(history') \in 1..MaxVersion
        /\ Len(history') = Len(history) + 1
    BY <1>1, <1>3, <2>2, Grows DEF Handle
  <2>4. posts' = [posts EXCEPT ![c] = [posts[c] EXCEPT !.phase = "done", !.version = Now + 1]]
    BY <1>1, <1>3 DEF Handle, PageWell, PostRecord
  <2>5. [posts[c] EXCEPT !.phase = "done", !.version = Now + 1] \in PostRecord
    <3>1. Now + 1 \in 0..MaxVersion
      BY <1>1, <2>3 DEF PageWell, Now
    <3> QED BY <1>1, <3>1, OnePost
  <2>6. PageWell'
    BY <1>1, <1>2, <2>3, <2>4, <2>5 DEF PageWell
  <2>7. QueryInv'
    BY <1>1, <1>2, <2>3 DEF PageWell, QueryInv, Now, AskRecord
  <2>8. PostsInv'
    <3>1. \A d \in Clicks \ {c} : posts'[d] = posts[d]
      BY <1>1, <2>4 DEF PageWell
    <3>2. posts'[c].phase = "done" /\ posts'[c].version = Now'
      BY <1>1, <2>3, <2>4 DEF PageWell, PostRecord, Now
    <3>3. run # 0
      BY <1>1, <1>2 DEF PostsInv, Pending
    <3>4. \A d \in Clicks : posts'[d].version <= Now'
      BY <1>1, <2>3, <3>1, <3>2, SMTT(60) DEF PageWell, PostRecord, PostsInv, Now
    <3>5. \A d \in Clicks : posts'[d].phase = "acked" => Follows(d)'
      BY <1>1, <1>2, <3>1, <3>2, SameFollows DEF PostsInv
    <3> QED BY <1>2, <3>3, <3>4, <3>5 DEF PostsInv
  <2> QED BY <2>6, <2>7, <2>8, PageParts
<1>4. CASE ~Allowed(posts[c].kind)
  <2>1. posts' = [posts EXCEPT ![c] = [posts[c] EXCEPT !.phase = "refused"]] /\ history' = history
    BY <1>4 DEF Handle
  <2>2. PageWell'
    <3>1. [posts[c] EXCEPT !.phase = "refused"] \in PostRecord
      BY <1>1, SMTT(60) DEF PageWell, PostRecord
    <3> QED BY <1>1, <1>2, <2>1, <3>1 DEF PageWell
  <2>3. QueryInv'
    BY <1>1, <1>2, <2>1 DEF QueryInv, Now
  <2>4. PostsInv'
    BY <1>1, <1>2, <2>1 DEF PageWell, PostsInv, Follows, Now, PostRecord, Pending
  <2> QED BY <2>2, <2>3, <2>4, PageParts
<1> QED BY <1>3, <1>4

\* A request of the run is made, or none: what is shown and done stays.
LEMMA AskKeeps ==
  ASSUME PageWell, PostsInv, QueryInv, UNCHANGED <<history, run, failed, posts>>, ask' \in {ask, Asked}
  PROVE  /\ ask' \in AskRecord /\ PostsInv'
         /\ ask'.answer <= Now' /\ (ask'.phase = "answered" => ask'.answer > 0)
<1> USE RunPageAssumption
<1>1. ask' \in AskRecord
  BY NewAsks DEF PageWell
<1>2. ask'.answer <= Now' /\ (ask'.phase = "answered" => ask'.answer > 0)
  BY DEF PageWell, QueryInv, Asked, Now
<1>3. ASSUME NEW c \in Clicks, posts'[c].phase = "acked" PROVE Follows(c)'
  BY <1>3 DEF PostsInv, Follows, Asked
<1> QED BY <1>1, <1>2, <1>3 DEF PostsInv, Now

\* The dialogs and the navigation.
PromoteStep == OpenPromote \/ PromoteIntent \/ ClosePromote \/ Promote \/ PromotionFails

LEMMA PromoteKeeps == ASSUME PageInv, PromoteStep PROVE PageInv'
<1>1. PageWell /\ QueryInv /\ PostsInv
  BY PageParts
<1>2. UNCHANGED <<history, page, run, failed, ask, posts>>
  BY DEF PromoteStep, OpenPromote, PromoteIntent, ClosePromote, Promote, PromotionFails, queryVars
<1>3. promoteOpen' \in BOOLEAN /\ promotions' \in [mine : BOOLEAN, earlier : BOOLEAN]
  BY <1>1 DEF PromoteStep, OpenPromote, PromoteIntent, ClosePromote, Promote, PromotionFails, PageWell
<1>4. promoteOpen' \/ promotions'.mine => page = "open"
  BY <1>1 DEF PromoteStep, OpenPromote, PromoteIntent, ClosePromote, Promote, PromotionFails, PageWell,
              CanPromote
<1>5. PageWell'
  BY <1>1, <1>2, <1>3, <1>4 DEF PageWell
<1>6. QueryInv' /\ PostsInv'
  BY <1>1, <1>2 DEF QueryInv, PostsInv, Follows, Now
<1> QED BY <1>5, <1>6, PageParts

LEMMA PromotionsLeft ==
  ASSUME promotions' = [mine |-> FALSE, earlier |-> promotions.mine \/ promotions.earlier]
         \/ promotions' = [mine |-> FALSE, earlier |-> promotions.mine /\ promotions.earlier]
  PROVE  promotions' \in [mine : BOOLEAN, earlier : BOOLEAN] /\ promotions'.mine = FALSE
<1> DEFINE a == promotions.mine \/ promotions.earlier
           b == promotions.mine /\ promotions.earlier
<1>1. a \in BOOLEAN /\ b \in BOOLEAN
  OBVIOUS
<1>2. promotions' = [mine |-> FALSE, earlier |-> a] \/ promotions' = [mine |-> FALSE, earlier |-> b]
  OBVIOUS
<1>3. \A c \in BOOLEAN : [mine |-> FALSE, earlier |-> c] \in [mine : BOOLEAN, earlier : BOOLEAN]
                        /\ [mine |-> FALSE, earlier |-> c].mine = FALSE
  OBVIOUS
<1> HIDE DEF a, b
<1> QED BY <1>1, <1>2, <1>3, Zenon

LEMMA LeaveKeeps == ASSUME PageInv, Leave \/ Promoted PROVE PageInv'
<1>1. PageWell /\ QueryInv /\ PostsInv
  BY PageParts
<1>2. UNCHANGED <<history, run, failed, ask, posts>> /\ page' = "away" /\ promoteOpen' = FALSE
  BY DEF Leave, Promoted, Unmounted, queryVars
<1>3. promotions' \in [mine : BOOLEAN, earlier : BOOLEAN] /\ promotions'.mine = FALSE
  BY PromotionsLeft DEF Leave, Promoted, Unmounted
<1>4. PageWell'
  BY <1>1, <1>2, <1>3 DEF PageWell
<1>5. QueryInv' /\ PostsInv'
  BY <1>1, <1>2 DEF QueryInv, PostsInv, Follows, Now
<1> QED BY <1>4, <1>5, PageParts

LEMMA VisitKeeps == ASSUME PageInv, Visit PROVE PageInv'
<1>1. PageWell /\ QueryInv /\ PostsInv
  BY PageParts
<1>2. /\ UNCHANGED <<history, run, failed, posts, promoteOpen, promotions>> /\ page = "away"
      /\ ask' \in {ask, Asked} /\ page' \in {"waiting", "open"} /\ (page' = "open" => run # 0)
  BY DEF Visit, actionVars
<1>3. PageWell' /\ PostsInv' /\ QueryInv'
  BY <1>1, <1>2, AskKeeps DEF PageWell, QueryInv
<1> QED BY <1>3, PageParts

\* Everything is forgotten: a click that was made is over.
LEMMA ForgottenKeeps ==
  ASSUME PageInv, Forgotten, history' = history, page' \in {"away", "crashed"}, promoteOpen' = FALSE,
         promotions' \in [mine : BOOLEAN, earlier : BOOLEAN], promotions'.mine = FALSE
  PROVE  PageInv'
<1> USE RunPageAssumption
<1>1. PageWell /\ QueryInv /\ PostsInv
  BY PageParts
<1>2. ASSUME NEW c \in Clicks
      PROVE /\ posts'[c] \in PostRecord /\ posts'[c].phase \in {"none", "over"}
            /\ posts'[c].version \in {0, posts[c].version}
  <2>1. posts[c] \in PostRecord
    BY <1>1 DEF PageWell
  <2>2. CASE posts[c].phase = "none"
    BY <2>2 DEF Forgotten, NoPost, PostRecord
  <2>3. CASE posts[c].phase # "none"
    <3>1. posts'[c] = [posts[c] EXCEPT !.phase = "over"]
      BY <2>3 DEF Forgotten
    <3> QED BY <2>1, <3>1 DEF PostRecord
  <2> QED BY <2>2, <2>3
<1>3. posts' \in [Clicks -> PostRecord]
  <2>1. posts' = [c \in Clicks |-> posts'[c]]
    BY DEF Forgotten
  <2> QED BY <1>2, <2>1
<1>4. run' = 0 /\ failed' = FALSE /\ ask' = NoAsk
  BY DEF Forgotten
<1>5. PageWell'
  <2>1. run' \in 0..Len(history') /\ ask' \in AskRecord
    BY <1>1, <1>4, NewAsks DEF PageWell
  <2>2. failed' \in BOOLEAN
    BY <1>4
  <2>3. history' \in Seq(Statuses) /\ Len(history') \in 1..MaxVersion
    BY <1>1 DEF PageWell
  <2>4. promoteOpen' \in BOOLEAN /\ ~(promoteOpen' \/ promotions'.mine)
    OBVIOUS
  <2> QED BY <1>3, <2>1, <2>2, <2>3, <2>4 DEF PageWell
<1>6. QueryInv'
  BY <1>1, <1>4 DEF QueryInv, NoAsk, Now, PageWell
<1>7. \A c \in Clicks : posts'[c].version <= Now'
  BY <1>1, <1>2, SMTT(60) DEF PostsInv, PageWell, Now
<1>8. PostsInv'
  BY <1>2, <1>7 DEF PostsInv, Pending
<1> QED BY <1>5, <1>6, <1>8, PageParts

LEMMA ReloadKeeps == ASSUME PageInv, Reload PROVE PageInv'
BY ForgottenKeeps DEF Reload

LEMMA ExpiryKeeps == ASSUME PageInv, CacheExpires PROVE PageInv'
<1>1. PageWell /\ QueryInv /\ PostsInv
  BY PageParts
<1>2. /\ UNCHANGED <<history, page, ask, posts, promoteOpen, promotions>>
      /\ page = "away" /\ ask.phase = "idle" /\ run' = 0 /\ failed' = FALSE
      /\ \A c \in Clicks : posts[c].phase \notin Pending
  BY DEF CacheExpires, actionVars, Pending
<1>3. PageWell'
  <2>1. run' \in 0..Len(history')
    BY <1>1, <1>2 DEF PageWell
  <2>2. failed' \in BOOLEAN
    BY <1>2
  <2> QED BY <1>1, <1>2, <2>1, <2>2 DEF PageWell
<1>4. QueryInv' /\ PostsInv'
  BY <1>1, <1>2 DEF QueryInv, PostsInv, Follows, Now
<1> QED BY <1>3, <1>4, PageParts

\* The query.
LEMMA PollKeeps == ASSUME PageInv, Poll \/ Notified PROVE PageInv'
<1>1. PageWell /\ QueryInv /\ PostsInv
  BY PageParts
<1>2. UNCHANGED <<history, page, run, failed, posts, promoteOpen, promotions>> /\ ask' \in {ask, Asked}
  BY DEF Poll, Notified, Refetch, actionVars
<1>3. PageWell' /\ PostsInv' /\ QueryInv'
  BY <1>1, <1>2, AskKeeps DEF PageWell, QueryInv
<1> QED BY <1>3, PageParts

LEMMA AnswerKeeps == ASSUME PageInv, AnswerRun PROVE PageInv'
<1> USE RunPageAssumption
<1>1. PageWell /\ QueryInv /\ PostsInv
  BY PageParts
<1>2. /\ UNCHANGED <<history, page, run, failed, posts, promoteOpen, promotions>>
      /\ ask' = [phase |-> "answered", answer |-> Now]
  BY DEF AnswerRun, actionVars
<1>3. ask' \in AskRecord /\ ask'.phase = "answered" /\ ask'.answer = Now
  BY <1>1, <1>2, Asks DEF PageWell, Now
<1>4. PageWell'
  BY <1>1, <1>2, <1>3 DEF PageWell
<1>5. QueryInv'
  BY <1>1, <1>2, <1>3 DEF PageWell, QueryInv, Now
<1>6. PostsInv'
  BY <1>1, <1>2, <1>3 DEF PageWell, PostsInv, Follows, Now
<1> QED BY <1>4, <1>5, <1>6, PageParts

LEMMA ArrivalKeeps == ASSUME PageInv, RunArrives PROVE PageInv'
<1> USE RunPageAssumption
<1>1. PageWell /\ QueryInv /\ PostsInv
  BY PageParts
<1>2. CASE page = "waiting"
  <2>1. promotions'.mine = FALSE /\ promotions' \in [mine : BOOLEAN, earlier : BOOLEAN]
    BY <1>2, PromotionsLeft DEF RunArrives, Unmounted
  <2> QED BY <1>2, <2>1, ForgottenKeeps DEF RunArrives, Unmounted
<1>3. CASE page # "waiting"
  <2>1. /\ UNCHANGED <<history, page, posts, promoteOpen, promotions>>
        /\ ask.phase = "answered" /\ run' = ask.answer /\ failed' = FALSE /\ ask' = NoAsk
    BY <1>3 DEF RunArrives, actionVars
  <2>2. run' \in 0..Len(history) /\ run' > 0
    BY <1>1, <2>1 DEF PageWell, QueryInv, Now, AskRecord
  <2>3. PageWell'
    BY <1>1, <2>1, <2>2, NewAsks DEF PageWell
  <2>4. QueryInv'
    BY <1>1, <2>1, <2>2 DEF PageWell, QueryInv, Now, NoAsk
  <2>5. PostsInv'
    BY <1>1, <2>1, <2>2 DEF PageWell, PostsInv, Follows, Now, NoAsk
  <2> QED BY <2>3, <2>4, <2>5, PageParts
<1> QED BY <1>2, <1>3

LEMMA FailureKeeps == ASSUME PageInv, RunFails PROVE PageInv'
<1> USE RunPageAssumption
<1>1. PageWell /\ QueryInv /\ PostsInv
  BY PageParts
<1>2. /\ UNCHANGED <<history, page, run, posts, promoteOpen, promotions>>
      /\ ask' = NoAsk /\ failed' = TRUE
  BY DEF RunFails, actionVars
<1>3. PageWell'
  BY <1>1, <1>2, NewAsks DEF PageWell
<1>4. QueryInv'
  BY <1>1, <1>2 DEF PageWell, QueryInv, Now, NoAsk
<1>5. PostsInv'
  BY <1>1, <1>2 DEF PostsInv, Follows, Now, NoAsk
<1> QED BY <1>3, <1>4, <1>5, PageParts

\* The actions.
LEMMA ClickKeeps ==
  ASSUME PageInv, NEW c \in Clicks, NEW kind \in {"pause", "resume", "cancel"}, Click(c, kind)
  PROVE  PageInv'
<1> USE RunPageAssumption
<1>1. PageWell /\ QueryInv /\ PostsInv
  BY PageParts
<1>2. /\ UNCHANGED <<history, page, run, failed, ask, promoteOpen, promotions>> /\ page = "open"
      /\ posts' = [posts EXCEPT ![c] = [phase |-> "sent", kind |-> kind, version |-> 0]]
  BY DEF Click, queryVars
<1>3. [phase |-> "sent", kind |-> kind, version |-> 0] \in PostRecord
  BY DEF PostRecord
<1>4. posts' \in [Clicks -> PostRecord] /\ posts'[c].phase = "sent" /\ posts'[c].version = 0
      /\ \A d \in Clicks \ {c} : posts'[d] = posts[d]
  BY <1>1, <1>2, <1>3 DEF PageWell
<1>5. PageWell' /\ QueryInv'
  BY <1>1, <1>2, <1>4 DEF PageWell, QueryInv, Now
<1>6. \A d \in Clicks : posts'[d].version <= Now'
  BY <1>1, <1>2, <1>4 DEF PageWell, PostsInv, Now
<1>7. \A d \in Clicks : posts'[d].phase = "acked" => Follows(d)'
  BY <1>1, <1>2, <1>4, SameFollows DEF PostsInv
<1>8. run' # 0
  BY <1>1, <1>2 DEF QueryInv
<1> QED BY <1>5, <1>6, <1>7, <1>8, PageParts DEF PostsInv

LEMMA AckKeeps == ASSUME PageInv, NEW c \in Clicks, Acknowledged(c) PROVE PageInv'
<1> USE RunPageAssumption
<1>1. PageWell /\ QueryInv /\ PostsInv
  BY PageParts
<1>2. /\ UNCHANGED <<history, page, run, failed, promoteOpen, promotions>> /\ posts[c].phase = "done"
      /\ posts' = [posts EXCEPT ![c] = [posts[c] EXCEPT !.phase = "acked"]]
  BY DEF Acknowledged
<1>3. run > 0
  BY <1>1, <1>2 DEF PostsInv, Pending, PageWell
<1>4. ask' = Asked
  BY <1>3 DEF Acknowledged, Refetch
<1>5. posts[c] \in PostRecord
  BY <1>1 DEF PageWell
<1>6. [posts[c] EXCEPT !.phase = "acked"] \in PostRecord
      /\ [posts[c] EXCEPT !.phase = "acked"].version = posts[c].version
  BY <1>5 DEF PostRecord
<1>7. posts' \in [Clicks -> PostRecord] /\ posts'[c].version = posts[c].version
      /\ \A d \in Clicks \ {c} : posts'[d] = posts[d]
  BY <1>1, <1>2, <1>6 DEF PageWell
<1>8. PageWell' /\ QueryInv'
  BY <1>1, <1>2, <1>4, <1>7, NewAsks DEF PageWell, QueryInv, Now, Asked
<1>9. \A d \in Clicks : posts'[d].version <= Now'
  BY <1>1, <1>2, <1>7 DEF PostsInv, Now
<1>10. \A d \in Clicks : Follows(d)'
  BY <1>4 DEF Follows, Asked
<1>11. run' # 0
  BY <1>2, <1>3
<1> QED BY <1>8, <1>9, <1>10, <1>11, PageParts DEF PostsInv

LEMMA ActionFailureKeeps == ASSUME PageInv, NEW c \in Clicks, ActionFails(c) PROVE PageInv'
<1> USE RunPageAssumption
<1>1. PageWell /\ QueryInv /\ PostsInv
  BY PageParts
<1>2. /\ UNCHANGED <<history, page, run, failed, ask, promoteOpen, promotions>>
      /\ posts' = [posts EXCEPT ![c] = [posts[c] EXCEPT !.phase = "over"]]
  BY DEF ActionFails, queryVars
<1>3. posts[c] \in PostRecord
  BY <1>1 DEF PageWell
<1>4. [posts[c] EXCEPT !.phase = "over"] \in PostRecord
      /\ [posts[c] EXCEPT !.phase = "over"].version = posts[c].version
      /\ [posts[c] EXCEPT !.phase = "over"].phase = "over"
  BY <1>3 DEF PostRecord
<1>5. posts' \in [Clicks -> PostRecord] /\ posts'[c].version = posts[c].version /\ posts'[c].phase = "over"
      /\ \A d \in Clicks \ {c} : posts'[d] = posts[d]
  BY <1>1, <1>2, <1>4 DEF PageWell
<1>6. PageWell' /\ QueryInv'
  BY <1>1, <1>2, <1>5 DEF PageWell, QueryInv, Now
<1>7. \A d \in Clicks : posts'[d].version <= Now'
  BY <1>1, <1>2, <1>5 DEF PostsInv, Now
<1>8. \A d \in Clicks : posts'[d].phase = "acked" => Follows(d)'
  BY <1>1, <1>2, <1>5, SameFollows DEF PostsInv
<1>9. run' = 0 => \A d \in Clicks : posts'[d].phase \notin Pending
  BY <1>1, <1>2, <1>5 DEF PostsInv, Pending
<1> QED BY <1>6, <1>7, <1>8, <1>9, PageParts DEF PostsInv

LEMMA PageStarts == ASSUME Init PROVE PageInv
<1> USE RunPageAssumption
<1>1. history \in Seq(Statuses) /\ Len(history) = 1
  <2>1. \A st \in Statuses : <<st>> \in Seq(Statuses) /\ Len(<<st>>) = 1
    OBVIOUS
  <2>2. \E st \in Statuses : history = <<st>>
    BY DEF Init, Statuses
  <2> QED BY <2>1, <2>2
<1>2. NoPost \in PostRecord
  BY DEF NoPost, PostRecord
<1>3. PageWell
  <2>1. posts \in [Clicks -> PostRecord] /\ ask \in AskRecord
    BY <1>2, NewAsks DEF Init
  <2>2. run \in 0..Len(history) /\ Len(history) \in 1..MaxVersion
    BY <1>1 DEF Init
  <2>3. promotions \in [mine : BOOLEAN, earlier : BOOLEAN] /\ ~(promoteOpen \/ promotions.mine)
    BY DEF Init
  <2> QED BY <1>1, <2>1, <2>2, <2>3 DEF Init, PageWell
<1>4. QueryInv /\ PostsInv
  BY <1>1 DEF Init, QueryInv, PostsInv, Follows, Pending, NoAsk, NoPost, Now
<1> QED BY <1>3, <1>4, PageParts

LEMMA PageKeeps == ASSUME PageInv, [Next]_vars PROVE PageInv'
<1>1. CASE UNCHANGED vars
  BY <1>1, PageParts DEF vars, queryVars, actionVars, PageWell, QueryInv, PostsInv, Follows, Now
<1>2. CASE ServerStep
  BY <1>2, ChangeKeeps, AnswerKeeps, HandleKeeps DEF ServerStep
<1>3. CASE NetworkStep
  BY <1>3, ArrivalKeeps, FailureKeeps, PollKeeps, LeaveKeeps, PromoteKeeps, AckKeeps, ActionFailureKeeps
     DEF NetworkStep, PromoteStep
<1>4. CASE UserStep
  BY <1>4, VisitKeeps, LeaveKeeps, ReloadKeeps, ClickKeeps, PromoteKeeps DEF UserStep, PromoteStep
<1> QED BY <1>1, <1>2, <1>3, <1>4, PollKeeps, ExpiryKeeps DEF Next

-----------------------------------------------------------------------------
(* The chart                                                                 *)

\* Of sequences of steps, in which 0 is no step: every later step is greater;
\* all steps of t are greater than those of s; no step is as small as n.
Ascends(s) == \A i, j \in 1..Len(s) : i < j /\ s[i] # 0 /\ s[j] # 0 => s[i] < s[j]
InOrder(s, t) == \A i \in 1..Len(s), j \in 1..Len(t) : s[i] # 0 /\ t[j] # 0 => s[i] < t[j]
Later(n, s) == \A i \in 1..Len(s) : s[i] = 0 \/ s[i] > n
Within(n, s) == \E i \in 1..Len(s) : s[i] = n
UpTo(n, s) == \A i \in 1..Len(s) : s[i] <= n

SeedRecord == [phase : {"idle", "asked", "answered"}, answer : 0..MaxStep]

ChartWell ==
  /\ last \in 0..MaxStep /\ mounted \in BOOLEAN /\ unbroken \in BOOLEAN
  /\ seed \in -1..MaxStep /\ seedAsk \in SeedRecord
  /\ socket \in {"none", "connecting", "open", "closed"}
  /\ wire \in Seq(Nat) /\ Len(wire) <= MaxWire
  /\ events \in Seq(Nat) /\ Len(events) <= MaxEvents

\* What was published is in order: in the buffer, then on its way.
Published ==
  /\ Ascends(events) /\ Ascends(wire) /\ InOrder(events, wire)
  /\ UpTo(last, events) /\ UpTo(last, wire) /\ lagged \subseteq 0..last

\* A snapshot has only what was stored; a socket needs the page.
Connected ==
  /\ seed <= last /\ seedAsk.answer <= last
  /\ mounted <=> socket # "none"
  /\ unbroken => socket = "open"

\* A step has reached the buffer, or is on its way, or was pushed out, or lost by
\* lagging.
Pushed(n) == Len(events) = MaxEvents /\ Later(n, events) /\ Later(n, wire)
Told(n) == Within(n, events) \/ Within(n, wire) \/ Pushed(n) \/ n \in lagged
Covers(n) == \A s \in 1..last : s <= n \/ Told(s)

Covered ==
  unbroken =>
    /\ seedAsk.phase = "answered" => Covers(seedAsk.answer)
    /\ seedAsk.phase = "idle" => Covers(seed)

ChartInv == ChartWell /\ Published /\ Connected /\ Covered

LEMMA Appended ==
  ASSUME NEW s \in Seq(Nat), NEW e \in Nat
  PROVE  /\ Append(s, e) \in Seq(Nat) /\ Len(Append(s, e)) = Len(s) + 1
         /\ \A i \in 1..Len(s) : Append(s, e)[i] = s[i]
         /\ Append(s, e)[Len(s) + 1] = e
BY AppendProperties

LEMMA Tailed ==
  ASSUME NEW s \in Seq(Nat), s # <<>>
  PROVE  /\ Len(s) > 0 /\ Head(s) = s[1] /\ Head(s) \in Nat
         /\ Tail(s) \in Seq(Nat) /\ Len(Tail(s)) = Len(s) - 1
         /\ \A i \in 1..(Len(s) - 1) : Tail(s)[i] = s[i + 1]
BY HeadTailProperties, EmptySeq

\* Order at the end of a sequence.
Below(s, e) == \A i \in 1..Len(s) : s[i] # 0 /\ e # 0 => s[i] < e

LEMMA AppendOrder ==
  ASSUME NEW s \in Seq(Nat), NEW t \in Seq(Nat), NEW e \in Nat, NEW n \in Nat
  PROVE  /\ UpTo(n, s) /\ e <= n => UpTo(n, Append(s, e))
         /\ Ascends(s) /\ Below(s, e) => Ascends(Append(s, e))
         /\ InOrder(t, s) /\ Below(t, e) => InOrder(t, Append(s, e))
         /\ Later(n, s) /\ (e = 0 \/ e > n) => Later(n, Append(s, e))
         /\ Within(e, Append(s, e)) /\ (Within(n, s) => Within(n, Append(s, e)))
<1> DEFINE w == Append(s, e)
<1>1. /\ w \in Seq(Nat) /\ Len(w) = Len(s) + 1 /\ Len(s) \in Nat
      /\ \A i \in 1..Len(s) : w[i] = s[i]
      /\ w[Len(s) + 1] = e
  BY Appended
<1> HIDE DEF w
<1>2. \A i \in 1..Len(w) : i \in 1..Len(s) \/ i = Len(s) + 1
  BY <1>1
<1>3. \A i \in 1..Len(s) : i \in 1..Len(w) /\ s[i] \in Nat
  BY <1>1, SMTT(60)
<1>4. Len(s) + 1 \in 1..Len(w)
  BY <1>1
<1>5. UpTo(n, s) /\ e <= n => UpTo(n, w)
  BY <1>1, <1>2 DEF UpTo
<1>6. ASSUME Ascends(s), Below(s, e), NEW i \in 1..Len(w), NEW j \in 1..Len(w), i < j, w[i] # 0, w[j] # 0
      PROVE w[i] < w[j]
  <2>1. i \in 1..Len(s)
    BY <1>1, <1>6
  <2>2. CASE j \in 1..Len(s)
    BY <1>1, <1>6, <2>1, <2>2 DEF Ascends
  <2>3. CASE j = Len(s) + 1
    BY <1>1, <1>6, <2>1, <2>3 DEF Below
  <2> QED BY <1>2, <2>2, <2>3
<1>7. ASSUME InOrder(t, s), Below(t, e), NEW i \in 1..Len(t), NEW j \in 1..Len(w), t[i] # 0, w[j] # 0
      PROVE t[i] < w[j]
  <2>1. CASE j \in 1..Len(s)
    BY <1>1, <1>7, <2>1 DEF InOrder
  <2>2. CASE j = Len(s) + 1
    BY <1>1, <1>7, <2>2 DEF Below
  <2> QED BY <1>2, <2>1, <2>2
<1>8. Later(n, s) /\ (e = 0 \/ e > n) => Later(n, w)
  BY <1>1, <1>2 DEF Later
<1>9. Within(e, w) /\ (Within(n, s) => Within(n, w))
  BY <1>1, <1>3, <1>4 DEF Within
<1>10. (Ascends(s) /\ Below(s, e) => Ascends(w)) /\ (InOrder(t, s) /\ Below(t, e) => InOrder(t, w))
  BY <1>6, <1>7 DEF Ascends, InOrder
<1> QED BY <1>5, <1>8, <1>9, <1>10 DEF w

\* The buffer drops its first message when it is full.
LEMMA Kept ==
  ASSUME ChartWell, NEW e \in Nat
  PROVE  \E d \in 0..1 :
           /\ Keep(e) \in Seq(Nat) /\ Len(Keep(e)) = Len(events) - d + 1 /\ Len(Keep(e)) <= MaxEvents
           /\ d = 1 <=> Len(events) = MaxEvents
           /\ \A i \in 1..(Len(events) - d) : Keep(e)[i] = events[i + d]
           /\ Keep(e)[Len(events) - d + 1] = e
<1> USE RunChartAssumption
<1>1. CASE Len(events) = MaxEvents
  <2>1. events # <<>> /\ events \in Seq(Nat)
    BY <1>1 DEF ChartWell
  <2>2. /\ Tail(events) \in Seq(Nat) /\ Len(Tail(events)) = Len(events) - 1
        /\ \A i \in 1..(Len(events) - 1) : Tail(events)[i] = events[i + 1]
    BY <2>1, Tailed
  <2>3. Keep(e) = Append(Tail(events), e)
    BY <1>1 DEF Keep
  <2> QED BY <1>1, <2>1, <2>2, <2>3, Appended
<1>2. CASE Len(events) # MaxEvents
  <2>1. Keep(e) = Append(events, e) /\ events \in Seq(Nat) /\ Len(events) < MaxEvents
    BY <1>2 DEF Keep, ChartWell
  <2> QED BY <1>2, <2>1, Appended
<1> QED BY <1>1, <1>2

\* What is left of a sequence without one of its elements.
LEMMA Removed ==
  ASSUME NEW s \in Seq(Nat), NEW k \in 1..Len(s)
  PROVE  /\ RemoveAt(s, k) \in Seq(Nat) /\ Len(RemoveAt(s, k)) = Len(s) - 1
         /\ \A i \in 1..(Len(s) - 1) : RemoveAt(s, k)[i] = IF i < k THEN s[i] ELSE s[i + 1]
<1> DEFINE a == SubSeq(s, 1, k - 1)
           b == SubSeq(s, k + 1, Len(s))
<1>1. k \in Nat /\ Len(s) \in Nat /\ 1 <= k /\ k <= Len(s)
  OBVIOUS
<1>2. a \in Seq(Nat) /\ Len(a) = k - 1 /\ \A i \in 1..(k - 1) : a[i] = s[i]
  BY <1>1
<1>3. /\ b \in Seq(Nat) /\ Len(b) = Len(s) - k
      /\ \A i \in 1..(Len(s) - k) : b[i] = s[k + i]
  BY <1>1
<1> HIDE DEF a, b
<1>4. RemoveAt(s, k) = a \o b
  BY DEF RemoveAt, a, b
<1>5. a \o b \in Seq(Nat) /\ Len(a \o b) = Len(s) - 1
  <2>1. a \o b \in Seq(Nat) /\ Len(a \o b) = Len(a) + Len(b)
    BY <1>2, <1>3, ConcatProperties
  <2> QED BY <1>1, <1>2, <1>3, <2>1
<1>6. ASSUME NEW i \in 1..(Len(s) - 1) PROVE (a \o b)[i] = IF i < k THEN s[i] ELSE s[i + 1]
  <2>0. /\ i \in 1..(Len(a) + Len(b)) /\ Len(a) = k - 1
        /\ (a \o b)[i] = IF i <= Len(a) THEN a[i] ELSE b[i - Len(a)]
    <3>1. \A j \in 1..(Len(a) + Len(b)) : (a \o b)[j] = IF j <= Len(a) THEN a[j] ELSE b[j - Len(a)]
      BY <1>2, <1>3, ConcatProperties
    <3>2. i \in 1..(Len(a) + Len(b))
      BY <1>1, <1>2, <1>3
    <3> QED BY <1>2, <3>1, <3>2
  <2>1. CASE i < k
    <3>1. i \in 1..(k - 1) /\ i <= Len(a)
      BY <1>1, <2>0, <2>1
    <3> QED BY <1>2, <2>0, <2>1, <3>1
  <2>2. CASE ~(i < k)
    <3>1. i - (k - 1) \in 1..(Len(s) - k) /\ k + (i - (k - 1)) = i + 1 /\ ~(i <= Len(a))
      BY <1>1, <2>0, <2>2
    <3>2. (a \o b)[i] = b[i - (k - 1)]
      BY <2>0, <3>1
    <3>3. b[i - (k - 1)] = s[k + (i - (k - 1))]
      BY <1>3, <3>1
    <3>4. s[k + (i - (k - 1))] = s[i + 1]
      BY <3>1
    <3> QED BY <2>2, <3>2, <3>3, <3>4
  <2> QED BY <2>1, <2>2
<1> QED BY <1>4, <1>5, <1>6

\* It is in order if the sequence was, and lacks nothing but the one.
LEMMA RemoveOrder ==
  ASSUME NEW s \in Seq(Nat), NEW k \in 1..Len(s), NEW t \in Seq(Nat), NEW n \in Nat
  PROVE  /\ UpTo(n, s) => UpTo(n, RemoveAt(s, k))
         /\ Ascends(s) => Ascends(RemoveAt(s, k))
         /\ InOrder(t, s) => InOrder(t, RemoveAt(s, k))
         /\ Later(n, s) => Later(n, RemoveAt(s, k))
         /\ Within(n, s) => Within(n, RemoveAt(s, k)) \/ n = s[k]
<1> DEFINE d == RemoveAt(s, k)
           at(i) == IF i < k THEN i ELSE i + 1
<1>1. /\ Len(d) = Len(s) - 1 /\ Len(s) \in Nat /\ k \in Nat /\ k >= 1 /\ k <= Len(s)
      /\ \A i \in 1..(Len(s) - 1) : d[i] = IF i < k THEN s[i] ELSE s[i + 1]
  <2>1. Len(s) \in Nat /\ k \in Nat /\ k >= 1 /\ k <= Len(s)
    OBVIOUS
  <2> QED BY <2>1, Removed, Zenon
<1> HIDE DEF d
<1>2. \A i \in 1..Len(d) : at(i) \in 1..Len(s) /\ d[i] = s[at(i)]
  BY <1>1
<1>3. \A i, j \in 1..Len(d) : i < j => at(i) < at(j)
  BY <1>1
<1>4. ASSUME NEW j \in 1..Len(s), j # k PROVE \E i \in 1..Len(d) : d[i] = s[j]
  <2>1. CASE j < k
    <3>1. j \in 1..Len(d) /\ d[j] = s[j]
      BY <1>1, <2>1
    <3> QED BY <3>1
  <2>2. CASE j > k
    <3>1. j - 1 \in 1..Len(d) /\ ~(j - 1 < k) /\ (j - 1) + 1 = j
      BY <1>1, <2>2
    <3>2. j - 1 \in 1..(Len(s) - 1)
      BY <1>1, <3>1
    <3>3. d[j - 1] = s[(j - 1) + 1]
      BY <1>1, <3>1, <3>2
    <3> QED BY <3>1, <3>3
  <2> QED BY <1>1, <1>4, <2>1, <2>2
<1> HIDE DEF at
<1>5. (UpTo(n, s) => UpTo(n, d)) /\ (Later(n, s) => Later(n, d))
  BY <1>2 DEF UpTo, Later
<1>6. Ascends(s) => Ascends(d)
  BY <1>2, <1>3 DEF Ascends
<1>7. InOrder(t, s) => InOrder(t, d)
  BY <1>2 DEF InOrder
<1>8. Within(n, s) => Within(n, d) \/ n = s[k]
  BY <1>4 DEF Within
<1> QED BY <1>5, <1>6, <1>7, <1>8 DEF d

\* What is published follows on what was on its way, less the one that may have
\* been dropped.
LEMMA PublishedTo ==
  ASSUME ChartInv, NEW e \in Nat, Publish(e), socket = "open"
  PROVE  \E d \in Seq(Nat) :
           /\ wire' = Append(d, e) /\ Len(d) < MaxWire
           /\ Ascends(d) /\ InOrder(events, d) /\ UpTo(last, d)
           /\ lagged \subseteq lagged' /\ lagged' \subseteq 0..last
           /\ \A n \in Nat : /\ Later(n, wire) => Later(n, d)
                             /\ Within(n, wire) => Within(n, d) \/ n \in lagged'
<1> USE RunChartAssumption
<1>1. /\ wire \in Seq(Nat) /\ Len(wire) \in Nat /\ Len(wire) <= MaxWire /\ events \in Seq(Nat)
      /\ last \in Nat /\ Ascends(wire) /\ InOrder(events, wire) /\ UpTo(last, wire)
      /\ lagged \subseteq 0..last
  BY DEF ChartInv, ChartWell, Published
<1>2. CASE Len(wire) < MaxWire
  <2>1. wire' = Append(wire, e) /\ lagged' = lagged
    BY <1>1, <1>2 DEF Publish
  <2> QED BY <1>1, <1>2, <2>1
<1>3. CASE Len(wire) = MaxWire
  <2>1. PICK k \in 1..MaxWire : wire' = Append(RemoveAt(wire, k), e) /\ lagged' = lagged \cup {wire[k]}
    BY <1>3 DEF Publish
  <2> DEFINE d == RemoveAt(wire, k)
  <2>2. k \in 1..Len(wire)
    BY <1>3
  <2>3. d \in Seq(Nat) /\ Len(d) = Len(wire) - 1
    BY <1>1, <2>2, Removed
  <2>4. Ascends(d) /\ InOrder(events, d) /\ UpTo(last, d)
    BY <1>1, <2>2, RemoveOrder
  <2>5. \A n \in Nat : (Later(n, wire) => Later(n, d)) /\ (Within(n, wire) => Within(n, d) \/ n = wire[k])
    BY <1>1, <2>2, RemoveOrder
  <2>6. wire[k] \in 0..last
    BY <1>1, <2>2 DEF UpTo
  <2> HIDE DEF d
  <2>7. wire' = Append(d, e) /\ Len(d) < MaxWire
    BY <1>1, <1>3, <2>1, <2>3 DEF d
  <2> QED BY <1>1, <2>1, <2>3, <2>4, <2>5, <2>6, <2>7
<1>4. Len(wire) < MaxWire \/ Len(wire) = MaxWire
  BY <1>1
<1> QED BY <1>2, <1>3, <1>4

\* A new step is greater than any before; a note has no place in the order.
LEMMA PublishKeeps ==
  ASSUME ChartInv, Report \/ PublishOther
  PROVE  ChartInv'
<1> USE RunChartAssumption
<1>1. ChartWell /\ Published /\ Connected /\ Covered
  BY DEF ChartInv
<1>2. PICK e \in Nat :
        /\ Publish(e) /\ last' \in 0..MaxStep
        /\ (e = last + 1 /\ last' = last + 1) \/ (e = 0 /\ last' = last)
        /\ UNCHANGED <<mounted, seed, seedAsk, socket, events, unbroken>>
  <2>1. last \in 0..MaxStep
    BY <1>1 DEF ChartWell
  <2>2. CASE Report
    <3>1. last + 1 \in Nat /\ last + 1 \in 0..MaxStep
      BY <2>1, <2>2 DEF Report
    <3>2. Publish(last + 1) /\ last' = last + 1
          /\ UNCHANGED <<mounted, seed, seedAsk, socket, events, unbroken>>
      BY <2>2 DEF Report
    <3> WITNESS last + 1 \in Nat
    <3> QED BY <3>1, <3>2
  <2>3. CASE PublishOther
    <3>1. Publish(0) /\ UNCHANGED <<last, mounted, seed, seedAsk, socket, events, unbroken>>
      BY <2>3 DEF PublishOther
    <3>2. 0 \in Nat
      OBVIOUS
    <3> QED BY <2>1, <3>1, <3>2
  <2> QED BY <2>2, <2>3
<1>3. last \in Nat /\ last' \in Nat /\ last <= last' /\ e <= last' /\ (e = 0 \/ e > last)
      /\ \A s \in 1..last' : s \in 1..last \/ s = e
  BY <1>1, <1>2 DEF ChartWell
<1>4. Connected'
  BY <1>1, <1>2, <1>3 DEF ChartWell, Connected, SeedRecord
<1>5. UpTo(last', events)
  BY <1>1, <1>3 DEF ChartWell, Published, UpTo
<1>6. CASE socket # "open"
  <2>1. wire' = wire /\ lagged' = lagged
    BY <1>2, <1>6 DEF Publish
  <2>2. ChartWell'
    BY <1>1, <1>2, <2>1 DEF ChartWell
  <2>3. UpTo(last', wire)
    BY <1>1, <1>3 DEF ChartWell, Published, UpTo
  <2>4. Published'
    <3>1. lagged' \subseteq 0..last'
      BY <1>1, <1>3, <2>1 DEF Published
    <3> QED BY <1>1, <1>2, <1>5, <2>1, <2>3, <3>1 DEF Published
  <2>5. ~unbroken'
    BY <1>1, <1>2, <1>6 DEF Connected
  <2> QED BY <1>4, <2>2, <2>4, <2>5 DEF ChartInv, Covered
<1>7. CASE socket = "open"
  <2>1. PICK d \in Seq(Nat) :
           /\ wire' = Append(d, e) /\ Len(d) < MaxWire
           /\ Ascends(d) /\ InOrder(events, d) /\ UpTo(last, d)
           /\ lagged \subseteq lagged' /\ lagged' \subseteq 0..last
           /\ \A n \in Nat : /\ Later(n, wire) => Later(n, d)
                             /\ Within(n, wire) => Within(n, d) \/ n \in lagged'
    BY <1>2, <1>7, PublishedTo
  <2> DEFINE w == Append(d, e)
  <2>2. w \in Seq(Nat) /\ Len(w) <= MaxWire /\ Len(d) \in Nat
    BY <2>1, Appended
  <2>3. ChartWell'
    <3> HIDE DEF w
    <3>1. wire' = w
      BY <2>1 DEF w
    <3> QED BY <1>1, <1>2, <2>2, <3>1 DEF ChartWell
  <2>4. Published'
    <3>1. events \in Seq(Nat) /\ \A i \in 1..Len(events) : events[i] \in Nat
      BY <1>1 DEF ChartWell
    <3>2. Below(d, e) /\ Below(events, e)
      <4>1. \A i \in 1..Len(d) : d[i] \in Nat
        BY <2>1
      <4> QED BY <1>1, <1>3, <2>1, <3>1, <4>1 DEF Published, UpTo, Below
    <3>3. UpTo(last', d)
      BY <1>3, <2>1 DEF UpTo
    <3>4. Ascends(w) /\ InOrder(events, w) /\ UpTo(last', w)
      BY <1>3, <2>1, <3>1, <3>2, <3>3, AppendOrder
    <3>5. lagged' \subseteq 0..last'
      BY <1>3, <2>1
    <3>6. wire' = w
      BY <2>1
    <3> HIDE DEF w
    <3> QED BY <1>1, <1>2, <1>5, <3>4, <3>5, <3>6 DEF Published
  <2>5. ASSUME NEW s \in 1..last, Told(s) PROVE Told(s)'
    <3>1. s \in Nat /\ (e = 0 \/ e > s)
      BY <1>3
    <3>2. (Within(s, d) => Within(s, w)) /\ (Later(s, d) => Later(s, w))
      BY <2>1, <3>1, AppendOrder
    <3>3. /\ Later(s, wire) => Later(s, d)
          /\ Within(s, wire) => Within(s, d) \/ s \in lagged'
          /\ s \in lagged => s \in lagged'
      <4>1. \A n \in Nat : (Later(n, wire) => Later(n, d))
                         /\ (Within(n, wire) => Within(n, d) \/ n \in lagged')
        BY <2>1
      <4>2. lagged \subseteq lagged'
        BY <2>1
      <4> QED BY <3>1, <4>1, <4>2, Zenon
    <3>4. wire' = w /\ events' = events
      BY <1>2, <2>1
    <3> HIDE DEF w
    <3> QED BY <2>5, <3>2, <3>3, <3>4 DEF Told, Pushed
  <2>6. ASSUME NEW s, s = e PROVE Told(s)'
    <3>1. Within(e, w) /\ wire' = w
      BY <1>2, <2>1, AppendOrder
    <3> HIDE DEF w
    <3> QED BY <2>6, <3>1 DEF Told
  <2>7. ASSUME NEW n, Covers(n) PROVE Covers(n)'
    BY <1>3, <2>5, <2>6, <2>7 DEF Covers
  <2>8. Covered'
    BY <1>1, <1>2, <2>7 DEF Covered
  <2> QED BY <1>4, <2>3, <2>4, <2>8 DEF ChartInv
<1> QED BY <1>6, <1>7

\* A message reaches the buffer: the oldest may go, and what goes is older than
\* all that is left.
LEMMA DeliverKeeps == ASSUME ChartInv, Deliver PROVE ChartInv'
<1> USE RunChartAssumption
<1>1. ChartWell /\ Published /\ Connected /\ Covered
  BY DEF ChartInv
<1>2. /\ UNCHANGED <<last, mounted, seed, seedAsk, socket, unbroken, lagged>>
      /\ wire # <<>> /\ events' = Keep(Head(wire)) /\ wire' = Tail(wire)
  BY DEF Deliver, StreamOnly
<1> DEFINE e == Head(wire)
           w == Tail(wire)
           k == Keep(e)
<1>3. /\ wire \in Seq(Nat) /\ Len(wire) \in Nat /\ Len(wire) > 0 /\ e = wire[1] /\ e \in Nat
      /\ w \in Seq(Nat) /\ Len(w) = Len(wire) - 1
      /\ \A i \in 1..(Len(wire) - 1) : w[i] = wire[i + 1]
  BY <1>1, <1>2, Tailed DEF ChartWell
<1>4. PICK d \in 0..1 :
        /\ k \in Seq(Nat) /\ Len(k) = Len(events) - d + 1 /\ Len(k) <= MaxEvents
        /\ d = 1 <=> Len(events) = MaxEvents
        /\ \A i \in 1..(Len(events) - d) : k[i] = events[i + d]
        /\ k[Len(events) - d + 1] = e
  BY <1>1, <1>3, Kept
<1>5. events \in Seq(Nat) /\ Len(events) \in Nat /\ last \in Nat /\ Len(wire) <= MaxWire
  BY <1>1 DEF ChartWell
<1>6. events' = k /\ wire' = w
  BY <1>2
<1> HIDE DEF e, w, k
\* Where the elements of the new sequences come from.
<1>7. \A i \in 1..Len(w) : i + 1 \in 1..Len(wire) /\ w[i] = wire[i + 1] /\ 1 < i + 1
  BY <1>3
<1>8. ASSUME NEW i \in 1..Len(k)
      PROVE (i = Len(k) /\ k[i] = e) \/ (i < Len(k) /\ i + d \in 1..Len(events) /\ k[i] = events[i + d])
  <2>1. Len(k) = Len(events) - d + 1 /\ i \in Nat /\ i >= 1
    BY <1>4, <1>5
  <2>2. CASE i = Len(k)
    BY <1>4, <2>1, <2>2
  <2>3. CASE i # Len(k)
    <3>1. i \in 1..(Len(events) - d) /\ i < Len(k) /\ i + d \in 1..Len(events)
      BY <1>5, <2>1, <2>3
    <3> QED BY <1>4, <3>1
  <2> QED BY <2>2, <2>3
<1>9. 1 \in 1..Len(wire) /\ Len(k) \in 1..Len(k) /\ k[Len(k)] = e
  <2>1. 1 \in 1..Len(wire)
    BY <1>3
  <2>2. Len(k) = Len(events) - d + 1 /\ k[Len(events) - d + 1] = e
    BY <1>4
  <2>3. Len(events) - d >= 0
    BY <1>4, <1>5
  <2>4. Len(k) \in Nat /\ Len(k) >= 1
    BY <1>5, <2>2, <2>3
  <2> QED BY <2>1, <2>2, <2>4
<1>10. Ascends(k)
  <2> SUFFICES ASSUME NEW i \in 1..Len(k), NEW j \in 1..Len(k), i < j, k[i] # 0, k[j] # 0
               PROVE  k[i] < k[j]
    BY DEF Ascends
  <2>1. i + d \in 1..Len(events) /\ k[i] = events[i + d]
    <3>1. i # Len(k)
      BY <1>4, <1>5
    <3> QED BY <1>8, <3>1
  <2>2. CASE j = Len(k)
    BY <1>1, <1>3, <1>8, <1>9, <2>1, <2>2 DEF Published, InOrder
  <2>3. CASE j # Len(k)
    <3>1. j + d \in 1..Len(events) /\ k[j] = events[j + d] /\ i + d < j + d
      BY <1>4, <1>8, <2>3, SMTT(60)
    <3> QED BY <1>1, <2>1, <3>1 DEF Published, Ascends
  <2> QED BY <2>2, <2>3
<1>11. Ascends(w)
  BY <1>1, <1>7, SMTT(60) DEF Published, Ascends
<1>12. InOrder(k, w)
  <2> SUFFICES ASSUME NEW i \in 1..Len(k), NEW j \in 1..Len(w), k[i] # 0, w[j] # 0
               PROVE  k[i] < w[j]
    BY DEF InOrder
  <2>1. CASE k[i] = e
    BY <1>1, <1>3, <1>7, <1>9, <2>1 DEF Published, Ascends
  <2>2. CASE i + d \in 1..Len(events) /\ k[i] = events[i + d]
    BY <1>1, <1>7, <2>2 DEF Published, InOrder
  <2> QED BY <1>8, <2>1, <2>2
<1>13. UpTo(last, k) /\ UpTo(last, w)
  BY <1>1, <1>3, <1>7, <1>8, <1>9 DEF Published, UpTo
<1>14. Published'
  BY <1>1, <1>2, <1>6, <1>10, <1>11, <1>12, <1>13 DEF Published
<1>15. ChartWell'
  <2>1. Len(w) <= MaxWire
    BY <1>3, <1>5
  <2> QED BY <1>1, <1>2, <1>3, <1>4, <1>6, <2>1 DEF ChartWell
<1>16. ASSUME NEW s \in 1..last, Told(s) PROVE Told(s)'
  <2>1. CASE Within(s, wire)
    <3>1. PICK i \in 1..Len(wire) : wire[i] = s
      BY <2>1 DEF Within
    <3>2. CASE i = 1
      BY <1>3, <1>6, <1>9, <3>1, <3>2 DEF Told, Within
    <3>3. CASE i > 1
      <4>1. i - 1 \in 1..Len(w) /\ w[i - 1] = s
        BY <1>3, <3>1, <3>3, SMTT(60)
      <4> QED BY <1>6, <4>1 DEF Told, Within
    <3> QED BY <3>2, <3>3
  <2>2. ASSUME NEW i \in 1..Len(events), events[i] = s, i > d PROVE Told(s)'
    <3>1. i - d \in 1..Len(k) /\ k[i - d] = s
      <4>1. i - d \in 1..(Len(events) - d) /\ (i - d) + d = i
        BY <1>5, <2>2
      <4>2. k[i - d] = events[(i - d) + d]
        BY <1>4, <4>1
      <4>3. Len(k) = Len(events) - d + 1 /\ d \in 0..1
        BY <1>4
      <4>4. i - d \in 1..Len(k)
        BY <1>5, <4>1, <4>3
      <4> QED BY <2>2, <4>1, <4>2, <4>4
    <3> QED BY <1>6, <3>1 DEF Told, Within
  <2>3. ASSUME d = 1, \A i \in 2..Len(events) : events[i] = 0 \/ events[i] > s, Later(s, wire)
        PROVE Told(s)'
    <3>1. Later(s, w)
      BY <1>7, <2>3 DEF Later
    <3>2. Later(s, k)
      <4> SUFFICES ASSUME NEW i \in 1..Len(k) PROVE k[i] = 0 \/ k[i] > s
        BY DEF Later
      <4>1. CASE k[i] = e
        BY <1>3, <1>9, <2>3, <4>1 DEF Later
      <4>2. CASE i + d \in 1..Len(events) /\ k[i] = events[i + d]
        <5>1. i \in Nat /\ i >= 1
          BY <1>4, <1>5
        <5>2. i + d \in 2..Len(events)
          BY <2>3, <4>2, <5>1
        <5> QED BY <2>3, <4>2, <5>2
      <4> QED BY <1>8, <4>1, <4>2
    <3>3. Len(k) = MaxEvents
      BY <1>4, <1>5, <2>3
    <3> QED BY <1>6, <3>1, <3>2, <3>3 DEF Told, Pushed
  <2>4. CASE Within(s, events)
    <3>1. PICK i \in 1..Len(events) : events[i] = s
      BY <2>4 DEF Within
    <3>2. CASE i > d
      BY <2>2, <3>1, <3>2
    <3>3. CASE ~(i > d)
      <4>1. i = 1 /\ d = 1 /\ s # 0
        BY <3>3
      <4>2. \A j \in 2..Len(events) : events[j] = 0 \/ events[j] > s
        BY <1>1, <3>1, <4>1 DEF Published, Ascends
      <4>3. Later(s, wire)
        BY <1>1, <3>1, <4>1 DEF Published, InOrder, Later
      <4> QED BY <2>3, <4>1, <4>2, <4>3
    <3> QED BY <3>2, <3>3
  <2>5. CASE Pushed(s)
    BY <1>4, <2>3, <2>5 DEF Pushed, Later
  <2>6. CASE s \in lagged
    BY <1>2, <2>6 DEF Told
  <2> QED BY <1>16, <2>1, <2>4, <2>5, <2>6 DEF Told
<1>17. Covered' /\ Connected'
  BY <1>1, <1>2, <1>16 DEF Covered, Covers, Connected
<1> QED BY <1>14, <1>15, <1>17 DEF ChartInv

\* Steps that leave the sequences alone, but for what is thrown away.
SameStream == UNCHANGED <<last, events, wire, lagged>>

LEMMA SameTold == ASSUME SameStream, NEW n, Covers(n) PROVE Covers(n)'
BY DEF SameStream, Covers, Told, Pushed

LEMMA Seeds ==
  ASSUME ChartWell
  PROVE  /\ NoSeedAsk \in SeedRecord /\ SeedAsked \in SeedRecord
         /\ [phase |-> "answered", answer |-> last] \in SeedRecord
BY RunChartAssumption DEF ChartWell, SeedRecord, NoSeedAsk, SeedAsked

LEMMA SnapshotKeeps ==
  ASSUME ChartInv, AnswerSeed \/ Mount \/ Online \/ SeedArrives \/ SeedFails \/ SeedExpires
  PROVE  ChartInv'
<1> USE RunChartAssumption
<1>1. ChartWell /\ Published /\ Connected /\ Covered /\ seedAsk \in SeedRecord
  BY DEF ChartInv, ChartWell
<1>2. SameStream
  BY DEF AnswerSeed, Mount, Online, SeedArrives, SeedFails, SeedExpires, SameStream
<1>3. Published'
  BY <1>1, <1>2 DEF Published, SameStream
<1>4. ChartWell' <=>
        /\ mounted' \in BOOLEAN /\ unbroken' \in BOOLEAN /\ seed' \in -1..MaxStep /\ seedAsk' \in SeedRecord
        /\ socket' \in {"none", "connecting", "open", "closed"}
  BY <1>1, <1>2, Zenon DEF ChartWell, SameStream
<1>5. CASE AnswerSeed
  <2>1. seedAsk'.phase = "answered" /\ seedAsk'.answer = last /\ unbroken' = (socket = "open")
        /\ UNCHANGED <<last, mounted, seed, socket>> /\ seedAsk' \in SeedRecord
    BY <1>1, <1>5, Seeds DEF AnswerSeed
  <2>2. unbroken' \in BOOLEAN
    BY <2>1
  <2>3. ChartWell'
    BY <1>1, <1>4, <2>1, <2>2 DEF ChartWell
  <2>4. Connected'
    BY <1>1, <2>1 DEF Connected, ChartWell
  <2>5. Covers(last)'
    BY <2>1 DEF Covers
  <2>6. Covered'
    BY <1>1, <2>1, <2>5 DEF Covered, Covers, ChartWell
  <2> QED BY <1>3, <2>3, <2>4, <2>6 DEF ChartInv
<1>6. CASE Mount
  <2>1. /\ seedAsk' \in {seedAsk, SeedAsked} /\ mounted' = TRUE /\ socket' = "connecting" /\ ~mounted
        /\ UNCHANGED <<seed, unbroken>>
    BY <1>6 DEF Mount
  <2>2. ~unbroken /\ ~unbroken'
    BY <1>1, <2>1 DEF Connected
  <2>3. ChartWell'
    BY <1>1, <1>4, <2>1, Seeds DEF ChartWell
  <2>4. Connected'
    BY <1>1, <1>2, <2>1, <2>2 DEF Connected, ChartWell, SeedAsked, SameStream
  <2> QED BY <1>3, <2>2, <2>3, <2>4 DEF ChartInv, Covered
<1>7. CASE Online
  <2>1. seedAsk' = SeedAsked /\ UNCHANGED <<mounted, seed, socket, unbroken>>
    BY <1>7 DEF Online
  <2>2. ChartWell'
    BY <1>1, <1>4, <2>1, Seeds DEF ChartWell
  <2>3. Connected' /\ Covered'
    BY <1>1, <1>2, <2>1 DEF Connected, Covered, ChartWell, SeedAsked, SameStream
  <2> QED BY <1>3, <2>2, <2>3 DEF ChartInv
<1>8. CASE SeedArrives
  <2>1. /\ seedAsk.phase = "answered" /\ seed' = seedAsk.answer /\ seedAsk' = NoSeedAsk
        /\ UNCHANGED <<mounted, socket, unbroken>>
    BY <1>8 DEF SeedArrives
  <2>2. seed' \in 0..MaxStep
    BY <1>1, <2>1 DEF SeedRecord
  <2>3. ChartWell'
    BY <1>1, <1>4, <2>1, <2>2, Seeds DEF ChartWell
  <2>4. Connected'
    BY <1>1, <1>2, <2>1 DEF Connected, ChartWell, NoSeedAsk, SameStream
  <2>5. unbroken => Covers(seedAsk.answer)
    BY <1>1, <2>1 DEF Covered
  <2>6. ASSUME unbroken', NEW s \in 1..last' PROVE s <= seed' \/ Told(s)'
    BY <1>2, <2>1, <2>5, <2>6 DEF Covers, Told, Pushed, SameStream
  <2>7. Covered'
    BY <2>1, <2>6 DEF Covered, Covers, NoSeedAsk
  <2> QED BY <1>3, <2>3, <2>4, <2>7 DEF ChartInv
<1>9. CASE SeedFails
  <2>1. seedAsk' = NoSeedAsk /\ unbroken' = FALSE /\ UNCHANGED <<mounted, seed, socket>>
    BY <1>9 DEF SeedFails
  <2>2. unbroken' \in BOOLEAN
    BY <2>1
  <2>3. ChartWell'
    BY <1>1, <1>4, <2>1, <2>2, Seeds DEF ChartWell
  <2>4. Connected'
    BY <1>1, <1>2, <2>1 DEF Connected, ChartWell, NoSeedAsk, SameStream
  <2> QED BY <1>3, <2>1, <2>3, <2>4 DEF ChartInv, Covered
<1>10. CASE SeedExpires
  <2>1. ~mounted /\ seed' = -1 /\ UNCHANGED <<mounted, seedAsk, socket, unbroken>>
    BY <1>10 DEF SeedExpires
  <2>2. ~unbroken /\ ~unbroken'
    BY <1>1, <2>1 DEF Connected
  <2>3. ChartWell'
    BY <1>1, <1>4, <2>1 DEF ChartWell
  <2>4. Connected'
    BY <1>1, <1>2, <2>1, <2>2 DEF Connected, ChartWell, SameStream
  <2> QED BY <1>3, <2>2, <2>3, <2>4 DEF ChartInv, Covered
<1> QED BY <1>5, <1>6, <1>7, <1>8, <1>9, <1>10

\* No messages: nothing is out of order.
LEMMA Nothing ==
  /\ <<>> \in Seq(Nat) /\ Len(<<>>) = 0 /\ Ascends(<<>>)
  /\ \A n : UpTo(n, <<>>) /\ InOrder(n, <<>>) /\ InOrder(<<>>, n)
BY DEF Ascends, UpTo, InOrder

LEMMA SocketKeeps ==
  ASSUME ChartInv, Unmount \/ SocketOpens \/ SocketCloses \/ Reconnect
  PROVE  ChartInv'
<1> USE RunChartAssumption
<1>1. ChartWell /\ Published /\ Connected /\ Covered
  BY DEF ChartInv
<1>2. CASE Unmount \/ SocketCloses
  <2>1. /\ wire' = <<>> /\ events' \in {events, <<>>} /\ unbroken' = FALSE
        /\ lagged' = {} /\ UNCHANGED <<last, seed, seedAsk>>
    BY <1>2 DEF Unmount, SocketCloses, StreamOnly
  <2>2. mounted' \in BOOLEAN /\ (mounted' <=> socket' # "none") /\ socket' \in {"none", "closed"}
    BY <1>1, <1>2 DEF Unmount, SocketCloses, StreamOnly, ChartWell, Connected
  <2>3. unbroken' \in BOOLEAN
    BY <2>1
  <2>4. events' \in Seq(Nat) /\ Len(events') <= MaxEvents /\ wire' \in Seq(Nat) /\ Len(wire') <= MaxWire
    <3>1. events \in Seq(Nat) /\ Len(events) <= MaxEvents /\ 0 <= MaxEvents /\ 0 <= MaxWire
      BY <1>1 DEF ChartWell
    <3> QED BY <2>1, <3>1, Nothing
  <2>5. ChartWell'
    BY <1>1, <2>1, <2>2, <2>3, <2>4 DEF ChartWell
  <2>6. Published'
    BY <1>1, <2>1, Nothing, Zenon DEF Published
  <2>7. Connected' /\ Covered'
    BY <1>1, <2>1, <2>2 DEF Connected, Covered
  <2> QED BY <2>5, <2>6, <2>7 DEF ChartInv
<1>3. CASE SocketOpens \/ Reconnect
  <2>1. /\ SameStream /\ UNCHANGED <<mounted, seed, seedAsk, unbroken>>
        /\ socket \in {"connecting", "closed"} /\ socket' \in {"open", "connecting"}
    BY <1>3 DEF SocketOpens, Reconnect, StreamOnly, SameStream
  <2>2. ~unbroken'
    BY <1>1, <2>1 DEF Connected
  <2>3. ChartWell' /\ Published' /\ Connected'
    BY <1>1, <2>1, <2>2 DEF ChartWell, Published, Connected, SameStream
  <2> QED BY <2>2, <2>3 DEF ChartInv, Covered
<1> QED BY <1>2, <1>3

LEMMA ChartStarts == ASSUME ChartInit PROVE ChartInv
<1> USE RunChartAssumption
<1>1. ChartWell
  <2>1. wire = <<>> /\ events = <<>> /\ last \in 0..1 /\ seed = -1 /\ seedAsk = NoSeedAsk
    BY DEF ChartInit
  <2>2. last \in 0..MaxStep /\ seed \in -1..MaxStep /\ 0 <= MaxEvents /\ 0 <= MaxWire
    BY <2>1
  <2>3. seedAsk \in SeedRecord
    BY <2>1 DEF SeedRecord, NoSeedAsk
  <2>4. /\ wire \in Seq(Nat) /\ Len(wire) <= MaxWire
        /\ events \in Seq(Nat) /\ Len(events) <= MaxEvents
    BY <2>1, <2>2, Nothing
  <2>5. mounted \in BOOLEAN /\ unbroken \in BOOLEAN /\ socket = "none"
    BY DEF ChartInit
  <2> QED BY <2>2, <2>3, <2>4, <2>5 DEF ChartWell
<1>2. Published /\ Connected /\ Covered
  BY Nothing DEF ChartInit, Published, Connected, Covered, NoSeedAsk
<1> QED BY <1>1, <1>2 DEF ChartInv

LEMMA ChartKeeps == ASSUME ChartInv, [ChartNext]_chartVars PROVE ChartInv'
<1>1. CASE UNCHANGED chartVars
  <2>1. ChartWell' /\ Published' /\ Connected'
    BY <1>1 DEF chartVars, ChartInv, ChartWell, Published, Connected
  <2>2. Covered'
    BY <1>1, SameTold DEF chartVars, ChartInv, Covered, SameStream
  <2> QED BY <2>1, <2>2 DEF ChartInv
<1> QED BY <1>1, PublishKeeps, DeliverKeeps, SnapshotKeeps, SocketKeeps DEF ChartNext

-----------------------------------------------------------------------------
(* The merge of snapshot and stream                                          *)

LEMMA SmallestIn ==
  ASSUME NEW T \in SUBSET Nat, T # {}
  PROVE  \E x \in T : \A y \in T : x <= y
<1> DEFINE Less == {ss \in Nat \X Nat : ss[1] < ss[2]}
<1>1. IsWellFoundedOn(Less, Nat)
  BY NatLessThanWellFounded, Zenon DEF OpToRel
<1>2. \A x, y \in Nat : <<y, x>> \in Less <=> y < x
  OBVIOUS
<1> HIDE DEF Less
<1>3. PICK x \in T : \A y \in T : ~(<<y, x>> \in Less)
  BY <1>1, WFMin, Zenon
<1>4. ASSUME NEW y \in T PROVE x <= y
  <2>1. ~(y < x) /\ x \in Nat /\ y \in Nat
    BY <1>2, <1>3
  <2> QED BY <2>1
<1> QED BY <1>4

\* What one message adds to what is shown.
Shows(shown, s) == IF s = 0 \/ s \in Range(shown) THEN shown ELSE Append(shown, s)

\* FoldLeft takes the greatest index off a set of indices, and so on.
Fold(all, f, D) ==
  [I \in SUBSET D |-> IF I = {} THEN <<>> ELSE Shows(f[I \ {Max(I)}], all[Max(I)])]

LEMMA DistinctFolds ==
  ASSUME NEW all
  PROVE  Distinct(all) = (CHOOSE f : f = Fold(all, f, DOMAIN all))[DOMAIN all]
BY DEF Distinct, FoldLeft, MapThenFoldSet, Fold, Shows

LEMMA MaxOfInterval == ASSUME NEW m \in Nat, NEW I \in SUBSET (1..m), m \in I PROVE Max(I) = m
<1>1. \A y \in I : m >= y
  OBVIOUS
<1>2. \A x \in I : (\A y \in I : x >= y) => x = m
  BY <1>1
<1> QED BY <1>1, <1>2 DEF Max

\* The recursion has a solution, for one index more if for all smaller ones.
LEMMA FoldExists == ASSUME NEW all, NEW n \in Nat PROVE \E f : f = Fold(all, f, 1..n)
<1> DEFINE None == {m \in Nat : ~\E f : f = Fold(all, f, 1..m)}
<1>1. SUFFICES None = {}
  OBVIOUS
<1>2. SUFFICES ASSUME None # {} PROVE FALSE
  OBVIOUS
<1>3. PICK m \in None : \A k \in None : m <= k
  BY <1>2, SmallestIn
<1>4. m \in Nat /\ ~\E f : f = Fold(all, f, 1..m)
  OBVIOUS
<1>5. CASE m = 0
  <2> DEFINE f == [I \in {{}} |-> <<>>]
  <2>1. SUBSET (1..m) = {{}}
    BY <1>5
  <2>2. f = Fold(all, f, 1..m)
    BY <2>1 DEF Fold
  <2> QED BY <1>4, <2>2
<1>6. CASE m > 0
  <2>1. m - 1 \in Nat /\ m - 1 \notin None
    BY <1>3, <1>4, <1>6
  <2>2. PICK f : f = Fold(all, f, 1..(m - 1))
    BY <2>1
  <2> DEFINE g == [I \in SUBSET (1..m) |-> IF m \in I THEN Shows(f[I \ {m}], all[m]) ELSE f[I]]
  <2>3. ASSUME NEW I \in SUBSET (1..m)
        PROVE g[I] = IF I = {} THEN <<>> ELSE Shows(g[I \ {Max(I)}], all[Max(I)])
    <3>1. CASE m \in I
      <4>1. Max(I) = m
        BY <1>4, <3>1, MaxOfInterval
      <4>2. I \ {m} \in SUBSET (1..m) /\ m \notin I \ {m} /\ I # {}
        BY <3>1
      <4> QED BY <3>1, <4>1, <4>2
    <3>2. CASE m \notin I
      <4>1. I \in SUBSET (1..(m - 1))
        BY <1>4, <3>2
      <4>2. I \ {Max(I)} \in SUBSET (1..m) /\ m \notin I \ {Max(I)}
        BY <3>2
      <4>3. f[I] = IF I = {} THEN <<>> ELSE Shows(f[I \ {Max(I)}], all[Max(I)])
        BY <2>2, <4>1 DEF Fold
      <4> QED BY <3>2, <4>2, <4>3
    <3> QED BY <3>1, <3>2
  <2>4. g = Fold(all, g, 1..m)
    <3>1. g = [I \in SUBSET (1..m) |-> g[I]]
      OBVIOUS
    <3> HIDE DEF g
    <3> QED BY <2>3, <3>1 DEF Fold
  <2> QED BY <1>4, <2>4
<1> QED BY <1>4, <1>5, <1>6

\* What is shown after each message.
LEMMA ShownBy ==
  ASSUME NEW all \in Seq(Nat)
  PROVE  \E g : /\ g[0] = <<>> /\ g[Len(all)] = Distinct(all)
                /\ \A m \in 1..Len(all) : g[m] = Shows(g[m - 1], all[m])
<1> DEFINE n == Len(all)
           f == CHOOSE f : f = Fold(all, f, 1..n)
           g == [m \in 0..n |-> f[1..m]]
<1>1. n \in Nat /\ DOMAIN all = 1..n
  OBVIOUS
<1>2. f = Fold(all, f, 1..n)
  BY <1>1, FoldExists
<1>3. Distinct(all) = f[1..n]
  BY <1>1, DistinctFolds
<1> HIDE DEF f
<1>4. g[0] = <<>>
  <2>1. 1..0 = {} /\ 0 \in 0..n /\ {} \in SUBSET (1..n)
    BY <1>1
  <2>2. f[{}] = <<>>
    BY <1>2, <2>1 DEF Fold
  <2> QED BY <2>1, <2>2
<1>5. ASSUME NEW m \in 1..n PROVE g[m] = Shows(g[m - 1], all[m])
  <2>1. 1..m \in SUBSET (1..n) /\ m \in 1..m /\ m \in Nat /\ m \in 0..n /\ m - 1 \in 0..n
    BY <1>1
  <2>2. Max(1..m) = m
    BY <2>1, MaxOfInterval
  <2>3. (1..m) \ {m} = 1..(m - 1)
    BY <2>1
  <2>4. f[1..m] = Shows(f[1..(m - 1)], all[m])
    BY <1>2, <2>1, <2>2, <2>3 DEF Fold
  <2> QED BY <2>1, <2>4
<1>6. g[n] = Distinct(all)
  BY <1>1, <1>3
<1> QED BY <1>4, <1>5, <1>6

LEMMA RangeIs == ASSUME NEW q \in Seq(Nat), NEW s PROVE s \in Range(q) <=> Within(s, q)
BY DEF Range, Within

\* Each message is of a step shown already, or of one greater than all before.
Advances(all) ==
  \A m \in 1..Len(all) :
    \/ all[m] = 0
    \/ \E i \in 1..(m - 1) : all[i] = all[m]
    \/ \A i \in 1..(m - 1) : all[i] < all[m]

Increases(q) == \A i, j \in 1..Len(q) : i < j => q[i] < q[j]

LEMMA ShowsOne ==
  ASSUME NEW q \in Seq(Nat), NEW s \in Nat
  PROVE  /\ Shows(q, s) \in Seq(Nat)
         /\ \A t : Within(t, Shows(q, s)) <=> Within(t, q) \/ (t = s /\ s # 0)
         /\ Increases(q) /\ (Within(s, q) \/ s = 0 \/ \A t : Within(t, q) => t < s)
              => Increases(Shows(q, s))
<1>1. CASE s = 0 \/ Within(s, q)
  <2>1. Shows(q, s) = q
    BY <1>1, RangeIs DEF Shows
  <2> QED BY <1>1, <2>1
<1>2. CASE s # 0 /\ ~Within(s, q)
  <2> DEFINE w == Append(q, s)
  <2>1. Shows(q, s) = w
    BY <1>2, RangeIs DEF Shows
  <2>2. /\ w \in Seq(Nat) /\ Len(w) = Len(q) + 1 /\ Len(q) \in Nat
        /\ \A i \in 1..Len(q) : w[i] = q[i] /\ i \in 1..Len(w)
        /\ w[Len(q) + 1] = s /\ Len(q) + 1 \in 1..Len(w)
    BY Appended
  <2> HIDE DEF w
  <2>3. \A i \in 1..Len(w) : i \in 1..Len(q) \/ i = Len(q) + 1
    BY <2>2
  <2>4. \A t : Within(t, w) <=> Within(t, q) \/ t = s
    BY <2>2, <2>3 DEF Within
  <2>5. ASSUME Increases(q), \A t : Within(t, q) => t < s, NEW i \in 1..Len(w), NEW j \in 1..Len(w), i < j
        PROVE w[i] < w[j]
    <3>1. i \in 1..Len(q)
      BY <2>2, <2>5
    <3>2. CASE j \in 1..Len(q)
      BY <2>2, <2>5, <3>1, <3>2 DEF Increases
    <3>3. CASE j = Len(q) + 1
      BY <2>2, <2>5, <3>1, <3>3 DEF Within
    <3> QED BY <2>3, <3>2, <3>3
  <2>6. Increases(q) /\ (\A t : Within(t, q) => t < s) => Increases(w)
    BY <2>5 DEF Increases
  <2> QED BY <1>2, <2>1, <2>2, <2>4, <2>6
<1> QED BY <1>1, <1>2

\* The merge keeps every step, and is in order if the messages advance.
LEMMA DistinctKeeps ==
  ASSUME NEW all \in Seq(Nat)
  PROVE  /\ Distinct(all) \in Seq(Nat)
         /\ \A t : Within(t, Distinct(all)) <=> t # 0 /\ Within(t, all)
         /\ Advances(all) => Increases(Distinct(all))
<1>1. PICK g : /\ g[0] = <<>> /\ g[Len(all)] = Distinct(all)
               /\ \A m \in 1..Len(all) : g[m] = Shows(g[m - 1], all[m])
  BY ShownBy
<1> DEFINE n == Len(all)
           Good(m) == /\ g[m] \in Seq(Nat)
                      /\ \A t : Within(t, g[m]) <=> t # 0 /\ \E i \in 1..m : all[i] = t
                      /\ Advances(all) => Increases(g[m])
           Bad == {m \in 0..n : ~Good(m)}
<1>2. n \in Nat /\ \A i \in 1..n : all[i] \in Nat
  OBVIOUS
<1>3. ASSUME Bad # {} PROVE FALSE
  <2>0. Bad \in SUBSET Nat
    OBVIOUS
  <2>1. PICK m \in Bad : \A k \in Bad : m <= k
    BY <1>3, <2>0, SmallestIn
  <2>2. m \in 0..n /\ ~Good(m)
    OBVIOUS
  <2>3. CASE m = 0
    <3>1. g[m] = <<>>
      BY <1>1, <2>3
    <3>2. <<>> \in Seq(Nat) /\ Increases(<<>>) /\ \A t : ~Within(t, <<>>)
      BY DEF Increases, Within
    <3>3. 1..m = {}
      BY <2>3
    <3> QED BY <2>2, <3>1, <3>2, <3>3
  <2>4. CASE m > 0
    <3>1. m - 1 \in 0..n /\ m - 1 < m /\ m \in 1..n /\ all[m] \in Nat
      BY <1>2, <2>2, <2>4
    <3>2. Good(m - 1)
      <4>1. m - 1 \notin Bad
        <5> HIDE DEF Bad
        <5> QED BY <2>1, <3>1
      <4> HIDE DEF Good
      <4> QED BY <3>1, <4>1
    <3>3. g[m] = Shows(g[m - 1], all[m])
      BY <1>1, <3>1
    <3> DEFINE q == g[m - 1]
               s == all[m]
    <3>4. q \in Seq(Nat) /\ s \in Nat /\ g[m] = Shows(q, s) /\ s = all[m]
      BY <3>1, <3>2, <3>3
    <3>5. \A t : Within(t, q) <=> t # 0 /\ \E i \in 1..(m - 1) : all[i] = t
      BY <3>2
    <3>6. Advances(all) => Increases(q)
      BY <3>2
    <3> HIDE DEF q, s, Good, Bad
    <3>7. q \in Seq(Nat) /\ s \in Nat /\ g[m] = Shows(q, s)
      BY <3>4
    <3>8. g[m] \in Seq(Nat) /\ \A t : Within(t, g[m]) <=> Within(t, q) \/ (t = s /\ s # 0)
      <4>1. /\ Shows(q, s) \in Seq(Nat)
            /\ \A t : Within(t, Shows(q, s)) <=> Within(t, q) \/ (t = s /\ s # 0)
        BY <3>7, ShowsOne
      <4> QED BY <3>7, <4>1, Zenon
    <3>9. \A i : i \in 1..m <=> i \in 1..(m - 1) \/ i = m
      BY <3>1
    <3>10. \A t : Within(t, g[m]) <=> t # 0 /\ \E i \in 1..m : all[i] = t
      BY <3>4, <3>5, <3>8, <3>9
    <3>11. ASSUME Advances(all) PROVE Increases(g[m])
      <4>1. Within(s, q) \/ s = 0 \/ \A t : Within(t, q) => t < s
        BY <3>1, <3>4, <3>5, <3>11, ZenonT(60) DEF Advances
      <4>2. Increases(Shows(q, s))
        BY <3>6, <3>7, <3>11, <4>1, ShowsOne
      <4> QED BY <3>7, <4>2
    <3> QED BY <2>2, <3>8, <3>10, <3>11 DEF Good
  <2> QED BY <2>2, <2>3, <2>4
<1>4. n \in 0..n
  BY <1>2
<1>5. Good(n)
  BY <1>3, <1>4
<1>6. \A t : Within(t, all) <=> \E i \in 1..n : all[i] = t
  BY DEF Within
<1> QED BY <1>1, <1>5, <1>6

\* Snapshot and events advance.
LEMMA MergeAdvances ==
  ASSUME ChartInv
  PROVE  /\ Seeded \o events \in Seq(Nat) /\ Advances(Seeded \o events)
         /\ \A t : Within(t, Seeded \o events) <=> t \in 1..seed \/ Within(t, events)
<1> DEFINE n == IF seed = -1 THEN 0 ELSE seed
           all == Seeded \o events
           len == Len(events)
<1>1. events \in Seq(Nat) /\ len \in Nat /\ n \in Nat /\ 1..n = 1..seed /\ Ascends(events)
  BY DEF ChartInv, ChartWell, Published
<1>2. Seeded \in Seq(Nat) /\ Len(Seeded) = n /\ \A i \in 1..n : Seeded[i] = i
  BY <1>1 DEF Seeded
<1>3. /\ all \in Seq(Nat) /\ Len(all) = n + len
      /\ \A i \in 1..(n + len) : all[i] = IF i <= n THEN Seeded[i] ELSE events[i - n]
  <2>1. /\ all \in Seq(Nat) /\ Len(all) = Len(Seeded) + Len(events)
        /\ \A i \in 1..(Len(Seeded) + Len(events)) :
             all[i] = IF i <= Len(Seeded) THEN Seeded[i] ELSE events[i - Len(Seeded)]
    BY <1>1, <1>2, ConcatProperties, Zenon
  <2> HIDE DEF n, all, len
  <2> QED BY <1>2, <2>1 DEF len
<1> HIDE DEF n, all, len
<1>4. \A i \in 1..n : all[i] = i /\ i \in 1..Len(all)
  BY <1>1, <1>2, <1>3
<1>5. \A j \in 1..len : all[n + j] = events[j] /\ n + j \in 1..Len(all) /\ events[j] \in Nat
  <2> SUFFICES ASSUME NEW j \in 1..len PROVE all[n + j] = events[j] /\ n + j \in 1..Len(all) /\ events[j] \in Nat
    OBVIOUS
  <2>1. n + j \in 1..(n + len) /\ ~(n + j <= n) /\ (n + j) - n = j
    BY <1>1
  <2>2. all[n + j] = events[j]
    BY <1>3, <2>1
  <2> QED BY <1>1, <1>3, <2>1, <2>2, SMTT(60) DEF len
<1>6. \A i \in 1..Len(all) : i \in 1..n \/ \E j \in 1..len : i = n + j
  <2> SUFFICES ASSUME NEW i \in 1..Len(all), i \notin 1..n PROVE \E j \in 1..len : i = n + j
    OBVIOUS
  <2>1. i - n \in 1..len /\ i = n + (i - n)
    BY <1>1, <1>3
  <2> QED BY <2>1
<1>7. Advances(all)
  <2> SUFFICES ASSUME NEW m \in 1..Len(all), all[m] # 0, ~\E i \in 1..(m - 1) : all[i] = all[m],
                      NEW i \in 1..(m - 1)
               PROVE  all[i] < all[m]
    BY DEF Advances
  <2>0. i \in 1..Len(all) /\ i < m /\ m \in Nat
    BY <1>1, <1>3
  <2>1. CASE m \in 1..n
    <3>1. i \in 1..n
      BY <1>1, <2>0, <2>1
    <3> QED BY <1>4, <2>0, <2>1, <3>1
  <2>2. CASE m \notin 1..n
    <3>1. PICK k \in 1..len : m = n + k
      BY <1>6, <2>2
    <3>2. all[m] = events[k] /\ events[k] \in Nat /\ events[k] # 0
      BY <1>5, <3>1
    <3>3. events[k] > n
      <4> SUFFICES ASSUME events[k] <= n PROVE FALSE
        BY <1>1, <3>2
      <4>1. events[k] \in 1..n /\ events[k] \in 1..(m - 1)
        BY <1>1, <3>1, <3>2
      <4> QED BY <1>4, <3>2, <4>1
    <3>4. CASE i \in 1..n
      BY <1>1, <1>4, <3>2, <3>3, <3>4
    <3>5. CASE i \notin 1..n
      <4>1. PICK j \in 1..len : i = n + j
        BY <1>6, <2>0, <3>5
      <4>2. j < k /\ all[i] = events[j] /\ events[j] \in Nat
        BY <1>1, <1>5, <2>0, <3>1, <4>1
      <4> QED BY <1>1, <3>2, <4>2, SMTT(60) DEF Ascends, len
    <3> QED BY <3>4, <3>5
  <2> QED BY <2>1, <2>2
<1>8. \A t : Within(t, all) <=> t \in 1..n \/ Within(t, events)
  <2>1. ASSUME NEW t, Within(t, all) PROVE t \in 1..n \/ Within(t, events)
    <3>1. PICK i \in 1..Len(all) : all[i] = t
      BY <2>1 DEF Within
    <3> QED BY <1>4, <1>5, <1>6, <3>1 DEF Within, len
  <2>2. ASSUME NEW t \in 1..n PROVE Within(t, all)
    BY <1>4, <2>2 DEF Within
  <2>3. ASSUME NEW t, Within(t, events) PROVE Within(t, all)
    BY <1>5, <2>3 DEF Within, len
  <2> QED BY <2>1, <2>2, <2>3
<1> QED BY <1>1, <1>3, <1>7, <1>8 DEF all

-----------------------------------------------------------------------------
\* A behaviour is of the page or of the chart; each keeps its invariant.
Inv == PageInv /\ ChartInv

LEMMA Starts == MCInit => Inv
BY PageStarts, ChartStarts DEF MCInit, Inv

LEMMA Keeps == Inv /\ [MCNext]_<<vars, chartVars, focus>> => Inv'
<1> SUFFICES ASSUME Inv, [MCNext]_<<vars, chartVars, focus>> PROVE Inv'
  OBVIOUS
<1>1. [Next]_vars /\ [ChartNext]_chartVars
  BY DEF MCNext
<1> QED BY <1>1, PageKeeps, ChartKeeps DEF Inv

\* The inductive invariants of the page and of its chart (app/runs/[id]/page.tsx).
THEOREM PageInvariance == MCSpec => []Inv
BY Starts, Keeps, PTL DEF MCSpec

\* Type correctness of the page and the chart: the buffer of events keeps its
\* limit, a dialog and its request are of a page that is open (ws.ts:38;
\* promote-dialog.tsx:39-53).
THEOREM PageAndChartTyped == MCSpec => []MCTypeOK
<1>1. Inv => MCTypeOK
  <2> SUFFICES ASSUME Inv PROVE MCTypeOK
    OBVIOUS
  <2>1. TypeOK /\ ChartWell /\ Published
    BY DEF Inv, PageInv, ChartInv
  <2>2. ASSUME NEW q \in Seq(Nat), UpTo(last, q) PROVE Range(q) \subseteq 0..MaxStep
    <3>1. last \in 0..MaxStep
      BY <2>1 DEF ChartWell
    <3>2. \A i \in 1..Len(q) : q[i] \in Nat /\ q[i] <= last
      BY <2>2 DEF UpTo
    <3>3. MaxStep \in Nat
      BY RunChartAssumption
    <3>4. \A i \in 1..Len(q) : q[i] \in 0..MaxStep
      BY <3>1, <3>2, <3>3
    <3> QED BY <2>2, <3>4 DEF Range
  <2>3. Range(wire) \subseteq 0..MaxStep /\ Range(events) \subseteq 0..MaxStep
    BY <2>1, <2>2 DEF ChartWell, Published
  <2>4. lagged \subseteq 0..MaxStep
    BY <2>1, RunChartAssumption DEF ChartWell, Published
  <2> QED BY <2>1, <2>3, <2>4 DEF MCTypeOK, ChartTypeOK, ChartWell, SeedRecord
<1> QED BY <1>1, PageInvariance, PTL

\* A page never shows the run as it was before an action it has acknowledged
\* (run-actions.tsx:39-47).
THEOREM NeverOlderThanAcknowledged == MCSpec => []AcknowledgedIsShown
<1>1. Inv => AcknowledgedIsShown
  BY DEF Inv, PageInv, Follows, AcknowledgedIsShown
<1> QED BY <1>1, PageInvariance, PTL

\* The chart has each step once, in ascending order (page.tsx:69-78).
THEOREM ChartInOrder == MCSpec => []ChartAscends
<1>1. Inv => ChartAscends
  <2> SUFFICES ASSUME ChartInv PROVE ChartAscends
    BY DEF Inv
  <2>1. Chart \in Seq(Nat) /\ Increases(Chart)
    BY MergeAdvances, DistinctKeeps DEF Chart
  <2> QED BY <2>1 DEF ChartAscends, Increases
<1> QED BY <1>1, PageInvariance, PTL

\* No step is lost between a snapshot and a stream that was open before it, but
\* what the server's channel drops for a viewer that lags, and what the buffer of
\* the page pushes out (page.tsx:69-78; ws.ts:35-42; ws.rs:154-156); for any
\* capacities.
THEOREM NothingIsLost == MCSpec => []NothingBetween
<1>1. Inv => NothingBetween
  <2> SUFFICES ASSUME ChartInv, unbroken, seedAsk.phase = "idle", NEW s \in 1..last
               PROVE  \/ s \in Range(Chart) \cup Range(wire)
                      \/ s \in lagged
                      \/ Len(events) = MaxEvents /\ \A e \in Range(events) : e = 0 \/ e > s
    BY DEF Inv, NothingBetween
  <2>1. ChartWell /\ (s <= seed \/ Told(s))
    BY DEF ChartInv, Covered, Covers
  <2>2. Chart \in Seq(Nat) /\ \A t : Within(t, Chart) <=> t # 0 /\ (t \in 1..seed \/ Within(t, events))
    BY MergeAdvances, DistinctKeeps DEF Chart
  <2>3. wire \in Seq(Nat) /\ events \in Seq(Nat) /\ seed \in Int /\ s # 0 /\ s \in Nat /\ s >= 1
    BY <2>1 DEF ChartWell
  <2>4. CASE s <= seed \/ Within(s, events)
    <3>1. s \in 1..seed \/ Within(s, events)
      BY <2>3, <2>4
    <3>2. Within(s, Chart)
      BY <2>2, <2>3, <3>1
    <3> QED BY <2>2, <3>2, RangeIs
  <2>5. CASE Within(s, wire)
    BY <2>3, <2>5, RangeIs
  <2>6. CASE Pushed(s)
    <3>1. \A e \in Range(events) : e = 0 \/ e > s
      BY <2>3, <2>6 DEF Pushed, Later, Range
    <3> QED BY <2>6, <3>1 DEF Pushed
  <2> QED BY <2>1, <2>4, <2>5, <2>6 DEF Told
<1> QED BY <1>1, PageInvariance, PTL

=============================================================================
