---------------------------- MODULE AlertsProofs ----------------------------
(****************************************************************************)
(* Theorems about Alerts, for any runs, alerts and limits: its types, that  *)
(* an event is toasted twice only after more others than are remembered,    *)
(* and that what was toasted is in the list that is shown.                  *)
(*                                                                          *)
(* The keys remembered are the last of the toasts, which is why none of     *)
(* these is toasted again (SeenInv).  A request for a list was sent after   *)
(* the last toast of its run, unless it is known to have met it; and so was *)
(* the list, unless it is stale or the answer to such a request (ToldInv).  *)
(****************************************************************************)
EXTENDS Alerts, FiniteSetTheorems, SequenceTheorems, WellFoundedInduction, TLAPS

Alert == [run : Runs, level : Levels]

ServerTypes == alerts \in Seq(Alert) /\ Now <= MaxAlerts

StreamTypes ==
  /\ stream \in {"open", "closed"}
  /\ wire \in Seq(1..Now) /\ seen \in Seq(1..Now) /\ toasts \in Seq(1..Now)
  /\ unread \in 0..Len(toasts)

ScreenTypes ==
  /\ screen \in Runs \cup {"other", "page"}
  /\ live \in BOOLEAN /\ known \subseteq Runs /\ Cardinality(known) <= MaxRuns

ListTypes ==
  /\ shown \in [Runs -> -1..Now] /\ ask \in [Runs -> -1..Now]
  /\ stale \subseteq Runs /\ met \subseteq Runs /\ crossed \subseteq Runs
  /\ told \in [Runs -> 0..Now]

\* The keys remembered are the last toasts: all of them, or at least SeenKept.
Kept(keys, all) ==
  /\ Len(keys) <= SeenLimit /\ Len(keys) <= Len(all)
  /\ Len(keys) < Len(all) => SeenKept <= Len(keys)
  /\ \A i \in 1..Len(keys) : keys[i] = all[Len(all) - Len(keys) + i]

SeenInv == Kept(seen, toasts)

\* The last toast of a run is of its alerts; a request is no older than it unless
\* it has met it, nor is a list that is not stale, unless it is the answer to such
\* a request.
ToldInv ==
  \A r \in Runs :
    /\ told[r] > 0 => alerts[told[r]].run = r
    /\ ask[r] # -1 /\ r \notin met => told[r] <= ask[r]
    /\ shown[r] >= 0 /\ r \notin stale \cup crossed => told[r] <= shown[r]
    /\ r \in met => ask[r] # -1

IInv ==
  /\ ServerTypes /\ StreamTypes /\ ScreenTypes /\ ListTypes
  /\ SeenInv /\ NoDoubleToast /\ ToldInv

-----------------------------------------------------------------------------
(* The newest of a set of alerts                                             *)

LEMMA SmallestOf ==
  ASSUME NEW T \in SUBSET Nat, T # {}
  PROVE  \E x \in T : \A y \in T : x <= y
<1> DEFINE Less == {ss \in Nat \X Nat : ss[1] < ss[2]}
<1>1. IsWellFoundedOn(Less, Nat)
  BY NatLessThanWellFounded, Zenon DEF OpToRel
<1>2. \A x, y \in Nat : <<y, x>> \in Less <=> y < x
  OBVIOUS
<1> HIDE DEF Less
<1>3. PICK x \in T : \A y \in T : ~(<<y, x>> \in Less)
  BY <1>1, WFMin, Zenon
<1>4. ASSUME NEW y \in T PROVE x <= y
  <2>1. ~(y < x) /\ x \in Nat /\ y \in Nat
    BY <1>2, <1>3
  <2> QED BY <2>1
<1> QED BY <1>4

LEMMA LargestOf ==
  ASSUME NEW n \in Nat, NEW T \in SUBSET (1..n), T # {}
  PROVE  \E x \in T : \A y \in T : y <= x
<1> DEFINE D == {n - j : j \in T}
<1>1. D \in SUBSET Nat /\ D # {}
  <2>1. \A j \in T : n - j \in Nat
    OBVIOUS
  <2> QED BY <2>1
<1>2. PICK d \in D : \A e \in D : d <= e
  BY <1>1, SmallestOf
<1>3. PICK x \in T : d = n - x
  OBVIOUS
<1>4. \A y \in T : y <= x
  <2> TAKE y \in T
  <2>1. d <= n - y
    BY <1>2
  <2>2. x \in 1..n /\ y \in 1..n
    OBVIOUS
  <2> QED BY <1>3, <2>1, <2>2
<1> QED BY <1>4

From(U, i) == {j \in U : j >= i}

\* An alert that the newest are too many for leaves MaxListed of them, all newer.
LEMMA NewestFills ==
  ASSUME NEW n \in Nat, NEW U \in SUBSET (1..n), NEW x \in U \ Newest(U)
  PROVE  Cardinality(Newest(U)) = MaxListed /\ \A i \in Newest(U) : i > x
<1> DEFINE N == Newest(U)
<1>1. MaxListed \in Nat
  BY AlertsAssumption
<1>2. \A V \in SUBSET U : IsFiniteSet(V) /\ Cardinality(V) \in Nat
  <2>1. IsFiniteSet(1..n)
    BY FS_Interval
  <2> QED BY <2>1, FS_Subset, FS_CardinalityType
<1>3. N \in SUBSET U /\ \A i \in U : i \in N <=> Cardinality(From(U, i)) <= MaxListed
  BY DEF Newest, From
<1> HIDE DEF N
<1>4. ASSUME NEW i \in N, NEW y \in U \ N PROVE i > y
  <2> SUFFICES ASSUME i <= y PROVE FALSE
    BY <1>3
  <2>1. From(U, y) \subseteq From(U, i) /\ From(U, i) \in SUBSET U /\ From(U, y) \in SUBSET U
    <3>1. i \in 1..n /\ y \in 1..n /\ U \subseteq 1..n
      BY <1>3
    <3>2. \A j \in 1..n : j >= y => j >= i
      BY <3>1
    <3> QED BY <3>1, <3>2 DEF From
  <2>2. Cardinality(From(U, y)) <= Cardinality(From(U, i))
    BY <1>2, <2>1, FS_Subset
  <2> QED BY <1>1, <1>2, <1>3, <2>1, <2>2
<1>5. PICK y \in U \ N : \A z \in U \ N : z <= y
  BY LargestOf DEF N
<1>6. From(U, y) = N \cup {y} /\ y \notin N
  <2>1. U \subseteq 1..n /\ y \in U \ N /\ N \subseteq U
    BY <1>3
  <2>2. \A j \in 1..n : j >= y /\ j <= y => j = y
    BY <2>1
  <2>3. ASSUME NEW j \in U, j >= y PROVE j \in N \cup {y}
    BY <1>5, <2>1, <2>2, <2>3
  <2>4. ASSUME NEW j \in N \cup {y} PROVE j \in From(U, y)
    BY <1>4, <2>1, <2>4 DEF From
  <2> QED BY <2>1, <2>3, <2>4 DEF From
<1>7. Cardinality(N \cup {y}) = Cardinality(N) + 1
  BY <1>2, <1>3, <1>6, FS_AddElement
<1>8. Cardinality(N) >= MaxListed
  <2>1. Cardinality(From(U, y)) = Cardinality(N) + 1
    BY <1>6, <1>7
  <2>2. ~(Cardinality(From(U, y)) <= MaxListed)
    BY <1>3
  <2>3. Cardinality(N) \in Nat
    BY <1>2, <1>3
  <2> QED BY <1>1, <2>1, <2>2, <2>3
<1>9. Cardinality(N) <= MaxListed
  <2>1. CASE N = {}
    BY <1>1, <2>1, FS_EmptySet
  <2>2. CASE N # {}
    <3>1. PICK z \in N : \A i \in N : z <= i
      BY <1>3, <2>2, SmallestOf
    <3>2. N \subseteq From(U, z) /\ From(U, z) \in SUBSET U
      BY <1>3, <3>1 DEF From
    <3>3. Cardinality(N) <= Cardinality(From(U, z))
      BY <1>2, <3>2, FS_Subset
    <3> QED BY <1>1, <1>2, <1>3, <3>1, <3>2, <3>3
  <2> QED BY <2>1, <2>2
<1> QED BY <1>1, <1>2, <1>3, <1>4, <1>8, <1>9 DEF N

-----------------------------------------------------------------------------
(* What follows from the invariant                                           *)

LEMMA Numbers ==
  IInv => /\ Now \in Nat /\ Now <= MaxAlerts
          /\ Len(toasts) \in Nat /\ Len(seen) \in Nat
          /\ SeenLimit \in Nat /\ SeenKept \in Nat /\ SeenKept >= 1 /\ SeenKept <= SeenLimit
BY AlertsAssumption DEF IInv, ServerTypes, StreamTypes, Now

LEMMA Types == IInv => TypeOK
<1> SUFFICES ASSUME IInv PROVE TypeOK
  OBVIOUS
<1>1. ASSUME NEW S, NEW seq \in Seq(S) PROVE Range(seq) \subseteq S
  BY <1>1 DEF Range
<1>2. /\ Range(alerts) \subseteq Alert
      /\ Range(wire) \cup Range(seen) \cup Range(toasts) \subseteq 1..Now
  BY <1>1 DEF IInv, ServerTypes, StreamTypes
<1>3. Now <= MaxAlerts /\ Len(seen) <= SeenLimit
  BY DEF IInv, ServerTypes, SeenInv, Kept
<1> QED BY <1>2, <1>3 DEF IInv, StreamTypes, ScreenTypes, ListTypes, TypeOK, Alert

\* A list that is not stale reaches the last toast of its run, but for the answers
\* to requests that met it, so that only newer ones can keep it out.
LEMMA Shows == IInv => ToldIsShown
<1> SUFFICES ASSUME IInv, NEW r \in Observed \ crossed,
                    shown[r] >= 0, r \notin stale, told[r] > 0
             PROVE  \/ told[r] \in Aggregated
                    \/ Cardinality(Aggregated) = MaxListed /\ \A i \in Aggregated : i > told[r]
  BY DEF ToldIsShown, Lists
<1>1. Now \in Nat /\ Observed \subseteq Runs
  BY Numbers DEF Observed, IInv, ScreenTypes
<1>2. /\ told[r] \in 1..Now /\ shown[r] \in 0..Now /\ told[r] <= shown[r]
      /\ alerts[told[r]].run = r
  BY <1>1 DEF IInv, ListTypes, ToldInv
<1> DEFINE U == UNION {ListOf(s, shown[s]) : s \in Observed}
<1>3. told[r] \in U
  <2>1. told[r] \in ListOf(r, shown[r])
    BY <1>1, <1>2 DEF ListOf
  <2> QED BY <2>1
<1>4. U \in SUBSET (1..Now)
  <2>1. ASSUME NEW s \in Runs PROVE ListOf(s, shown[s]) \subseteq 1..Now
    <3>1. shown[s] \in -1..Now
      BY DEF IInv, ListTypes
    <3> QED BY <1>1, <3>1 DEF ListOf
  <2> QED BY <1>1, <2>1
<1>5. Aggregated = Newest(U)
  BY DEF Aggregated
<1> HIDE DEF U
<1>6. CASE told[r] \in Newest(U)
  BY <1>5, <1>6
<1>7. CASE told[r] \notin Newest(U)
  BY <1>1, <1>3, <1>4, <1>5, <1>7, NewestFills
<1> QED BY <1>6, <1>7

LEMMA Initially == Init => IInv
<1> SUFFICES ASSUME Init PROVE IInv
  OBVIOUS
<1>1. Now = 0 /\ \A S : <<>> \in Seq(S) /\ Len(<<>>) = 0
  BY DEF Init, Now
<1>2. ServerTypes /\ StreamTypes
  BY <1>1, AlertsAssumption DEF Init, ServerTypes, StreamTypes
<1>3. ScreenTypes
  <2>1. known = {} /\ Cardinality({}) = 0
    <3>1. Cardinality({}) = 0
      BY FS_EmptySet
    <3> QED BY <3>1 DEF Init
  <2>2. screen = "other" /\ live \in BOOLEAN
    BY DEF Init
  <2>3. 0 <= MaxRuns
    BY AlertsAssumption
  <2> QED BY <2>1, <2>2, <2>3 DEF ScreenTypes
<1>5. ListTypes /\ ToldInv
  BY <1>1 DEF Init, ListTypes, ToldInv
<1>6. SeenInv /\ NoDoubleToast
  BY <1>1, AlertsAssumption DEF Init, SeenInv, Kept, NoDoubleToast
<1> QED BY <1>2, <1>3, <1>5, <1>6 DEF IInv

-----------------------------------------------------------------------------
(* The lists                                                                 *)

\* What the stream has brought stays, and the badge stays or goes out.
LEMMA StreamStays ==
  ASSUME IInv, UNCHANGED <<alerts, stream, wire, seen, toasts>>, unread' \in {unread, 0}
  PROVE  ServerTypes' /\ StreamTypes' /\ SeenInv' /\ NoDoubleToast'
<1>1. Now' = Now
  BY DEF Now
<1>2. StreamTypes'
  BY <1>1, Numbers DEF IInv, StreamTypes
<1> QED BY <1>1, <1>2 DEF IInv, ServerTypes, SeenInv, NoDoubleToast

\* A request is sent now or has ended.
LEMMA AskingKeeps ==
  ASSUME IInv, UNCHANGED <<alerts, stream, wire, seen, toasts, shown, stale, told, crossed>>,
         unread' \in {unread, 0}, ScreenTypes',
         ask' = [r \in Runs |-> ask'[r]], \A r \in Runs : ask'[r] \in {ask[r], Now, -1},
         met' = met \ {r \in Runs : ask'[r] = -1}
  PROVE  IInv'
<1>1. Now' = Now /\ Now \in Nat
  BY Numbers DEF Now
<1>2. \A r \in Runs : ask'[r] \in -1..Now
  BY <1>1 DEF IInv, ListTypes
<1>3. ListTypes'
  BY <1>1, <1>2 DEF IInv, ListTypes
<1>4. ToldInv'
  <2>1. \A r \in Runs : told[r] <= Now /\ told[r] \in Nat
    BY <1>1 DEF IInv, ListTypes
  <2> QED BY <1>1, <2>1 DEF IInv, ToldInv
<1> QED BY <1>3, <1>4, StreamStays DEF IInv

\* Requests that are sent leave the others alone.
LEMMA JoinedAsks ==
  ASSUME IInv, NEW rs
  PROVE  /\ Joined(rs) = [r \in Runs |-> Joined(rs)[r]]
         /\ \A r \in Runs : Joined(rs)[r] \in {ask[r], Now, -1}
         /\ \A r \in Runs : Joined(rs)[r] = -1 => r \notin met
BY Numbers DEF Joined, IInv, ToldInv

LEMMA FetchedAsks ==
  ASSUME IInv, NEW rs, Fetched(rs)
  PROVE  /\ ask' = [r \in Runs |-> ask'[r]] /\ \A r \in Runs : ask'[r] \in {ask[r], Now, -1}
         /\ \A r \in Runs : ask'[r] = -1 => r \notin met
<1>1. PICK qs : ask' = Joined(qs)
  BY DEF Fetched
<1> QED BY <1>1, JoinedAsks

\* All that a user does with the lists, and their requests, but for answers.
LEMMA ListsKeep ==
  ASSUME IInv,
         \/ \E r \in Runs : Poll(r) \/ ListFails(r) \/ OpenRunAlerts(r)
         \/ OpenAlertsPage \/ RunsListed \/ RunEnds \/ Leave
  PROVE  IInv'
<1>1. /\ UNCHANGED <<alerts, stream, wire, seen, toasts, shown, stale, told, crossed>>
      /\ unread' \in {unread, 0}
  BY DEF Poll, ListFails, OpenRunAlerts, OpenAlertsPage, RunsListed, RunEnds, Leave,
         MarkSeen, streamVars, listVars
<1>2. ScreenTypes'
  <2> USE DEF ScreenTypes
  <2>1. ScreenTypes
    BY DEF IInv
  <2>2. ASSUME NEW r \in Runs, Poll(r) \/ ListFails(r) PROVE ScreenTypes'
    BY <2>1, <2>2 DEF Poll, ListFails, screenVars
  <2>3. ASSUME NEW r \in Runs, OpenRunAlerts(r) PROVE ScreenTypes'
    BY <2>1, <2>3 DEF OpenRunAlerts
  <2>4. CASE OpenAlertsPage
    <3>1. {} \subseteq Runs /\ Cardinality({}) <= MaxRuns
      BY FS_EmptySet, AlertsAssumption
    <3> QED BY <2>1, <2>4, <3>1 DEF OpenAlertsPage
  <2>5. CASE RunsListed
    BY <2>1, <2>5 DEF RunsListed
  <2>6. CASE RunEnds \/ Leave
    BY <2>1, <2>6 DEF RunEnds, Leave
  <2> QED BY <2>2, <2>3, <2>4, <2>5, <2>6
<1>3. /\ ask' = [r \in Runs |-> ask'[r]] /\ \A r \in Runs : ask'[r] \in {ask[r], Now, -1}
      /\ met' = met \ {r \in Runs : ask'[r] = -1}
  <2>1. ask = [r \in Runs |-> ask[r]] /\ \A r \in Runs : ask[r] = -1 => r \notin met
    BY DEF IInv, ListTypes, ToldInv
  <2>2. ASSUME NEW r \in Runs, Poll(r) PROVE <1>3!:
    <3>1. ask' = Joined({r}) /\ met' = met
      BY <2>2 DEF Poll
    <3> QED BY <3>1, JoinedAsks
  <2>3. ASSUME NEW r \in Runs, ListFails(r) PROVE <1>3!:
    <3>1. ask' = [ask EXCEPT ![r] = -1] /\ met' = met \ {r}
      BY <2>3 DEF ListFails
    <3> QED BY <2>1, <3>1
  <2>4. ASSUME NEW r \in Runs, OpenRunAlerts(r) PROVE <1>3!:
    <3>1. Fetched({r}) /\ met' = met
      BY <2>4 DEF OpenRunAlerts
    <3> QED BY <3>1, FetchedAsks
  <2>5. CASE OpenAlertsPage
    <3>1. Fetched(known') /\ met' = met
      BY <2>5 DEF OpenAlertsPage
    <3> QED BY <3>1, FetchedAsks
  <2>6. CASE RunsListed
    <3>1. Fetched(known' \ known) /\ met' = met
      BY <2>6 DEF RunsListed
    <3> QED BY <3>1, FetchedAsks
  <2>7. CASE RunEnds \/ Leave
    <3>1. UNCHANGED <<ask, met>>
      BY <2>7 DEF RunEnds, Leave, listVars
    <3> QED BY <2>1, <3>1
  <2> QED BY <2>2, <2>3, <2>4, <2>5, <2>6, <2>7
<1> QED BY <1>1, <1>2, <1>3, AskingKeeps

\* An answer is of a moment since its request, which came after the last toast
\* unless it has met it.
LEMMA ListArrivesKeeps == ASSUME IInv, NEW r \in Runs, ListArrives(r) PROVE IInv'
<1>1. /\ UNCHANGED <<alerts, stream, wire, seen, toasts, screenVars, told>>
      /\ unread' \in {unread, 0} /\ stale' = stale \ {r}
      /\ ask[r] >= 0 /\ ask' = [ask EXCEPT ![r] = -1] /\ met' = met \ {r}
      /\ crossed' = IF r \in met THEN crossed \cup {r} ELSE crossed \ {r}
  BY DEF ListArrives, MarkSeen
<1>2. PICK moment \in ask[r]..Now : shown' = [shown EXCEPT ![r] = moment]
  BY DEF ListArrives
<1>3. Now' = Now /\ Now \in Nat
  BY <1>1, Numbers DEF Now
<1>4. /\ ask[r] \in 0..Now /\ moment \in 0..Now /\ told[r] \in Nat
      /\ r \notin met => told[r] <= ask[r]
  BY <1>1, <1>3 DEF IInv, ListTypes, ToldInv
<1>5. ListTypes'
  BY <1>1, <1>2, <1>3, <1>4 DEF IInv, ListTypes
<1>6. ToldInv'
  <2>1. r \notin crossed' => told[r] <= moment
    <3>1. r \notin crossed' => r \notin met
      BY <1>1
    <3> QED BY <1>2, <1>3, <1>4, <3>1
  <2>2. shown'[r] = moment /\ ask'[r] = -1
    BY <1>1, <1>2 DEF IInv, ListTypes
  <2>3. \A s \in Runs \ {r} : shown'[s] = shown[s] /\ ask'[s] = ask[s]
                          /\ (s \in met' <=> s \in met) /\ (s \in crossed' <=> s \in crossed)
    BY <1>1, <1>2 DEF IInv, ListTypes
  <2> QED BY <1>1, <2>1, <2>2, <2>3 DEF IInv, ToldInv
<1>7. ScreenTypes'
  BY <1>1 DEF IInv, ScreenTypes, screenVars
<1> QED BY <1>1, <1>5, <1>6, <1>7, StreamStays DEF IInv

LEMMA CacheExpiresKeeps == ASSUME IInv, NEW r \in Runs, CacheExpires(r) PROVE IInv'
<1>1. /\ UNCHANGED <<alerts, streamVars, screenVars, ask, told, met>>
      /\ shown' = [shown EXCEPT ![r] = -1]
      /\ stale' = stale \ {r} /\ crossed' = crossed \ {r} /\ ask[r] = -1
  BY DEF CacheExpires
<1>2. Now' = Now /\ Now \in Nat
  BY <1>1, Numbers DEF Now
<1>3. ListTypes'
  BY <1>1, <1>2 DEF IInv, ListTypes
<1>4. ToldInv'
  <2>1. shown'[r] = -1
    BY <1>1 DEF IInv, ListTypes
  <2>2. \A s \in Runs \ {r} : shown'[s] = shown[s]
    BY <1>1 DEF IInv, ListTypes
  <2> QED BY <1>1, <2>1, <2>2 DEF IInv, ToldInv
<1>5. ScreenTypes'
  BY <1>1 DEF IInv, ScreenTypes, screenVars
<1> QED BY <1>1, <1>3, <1>4, <1>5, StreamStays DEF IInv, streamVars

-----------------------------------------------------------------------------
(* The server and the stream                                                 *)

\* There are more alerts, and those there were stay.
LEMMA EmitKeeps ==
  ASSUME IInv, NEW r \in Runs, NEW level \in Levels, Emit(r, level) PROVE IInv'
<1> DEFINE new == [run |-> r, level |-> level]
<1>1. /\ Now < MaxAlerts /\ alerts' = Append(alerts, new)
      /\ wire' = wire \/ (level = "error" /\ wire' = Append(wire, Now + 1))
      /\ UNCHANGED <<stream, seen, toasts, unread, screenVars, listVars>>
  BY DEF Emit
<1>2. new \in Alert /\ new.level = level /\ alerts \in Seq(Alert)
  BY DEF Alert, IInv, ServerTypes
<1> HIDE DEF new
<1>3. Now \in Nat /\ MaxAlerts \in Nat
  BY Numbers, AlertsAssumption
<1>4. /\ alerts' \in Seq(Alert) /\ Now' = Now + 1 /\ alerts'[Now + 1] = new
      /\ \A i \in 1..Now : alerts'[i] = alerts[i]
  BY <1>1, <1>2, AppendProperties DEF Now
<1>5. Now' \in Nat /\ 1..Now \subseteq 1..Now' /\ Now + 1 \in 1..Now' /\ Now' <= MaxAlerts
  BY <1>1, <1>3, <1>4
<1>6. Seq(1..Now) \subseteq Seq(1..Now')
  BY <1>5, SeqMonotonic
<1>7. wire \in Seq(1..Now) /\ wire \in Seq(1..Now')
  BY <1>6 DEF IInv, StreamTypes
<1>8. wire' \in Seq(1..Now')
  <2>1. Append(wire, Now + 1) \in Seq(1..Now')
    BY <1>5, <1>7, AppendProperties
  <2> QED BY <1>1, <1>7, <2>1
<1>9. StreamTypes' /\ SeenInv' /\ NoDoubleToast'
  BY <1>1, <1>6, <1>8 DEF IInv, StreamTypes, SeenInv, NoDoubleToast
<1>10. ServerTypes' /\ ScreenTypes'
  BY <1>1, <1>4, <1>5 DEF IInv, ServerTypes, ScreenTypes, screenVars
<1>11. ListTypes'
  <2>1. -1..Now \subseteq -1..Now' /\ 0..Now \subseteq 0..Now'
    BY <1>3, <1>4
  <2> QED BY <1>1, <2>1 DEF IInv, ListTypes, listVars
<1>12. ToldInv'
  <2>1. \A s \in Runs : told[s] > 0 => told[s] \in 1..Now
    BY <1>3 DEF IInv, ListTypes
  <2> QED BY <1>1, <1>4, <2>1 DEF IInv, ToldInv, listVars
<1> QED BY <1>8, <1>9, <1>10, <1>11, <1>12 DEF IInv

\* Only the wire, and whether it is there.
LEMMA WireKeeps ==
  ASSUME IInv, Repeat \/ Connect \/ StreamFails PROVE IInv'
<1>1. UNCHANGED <<alerts, seen, toasts, unread, screenVars, listVars>> /\ Now' = Now
  BY DEF Repeat, Connect, StreamFails, Now
<1>2. stream' \in {"open", "closed"}
  BY DEF Repeat, Connect, StreamFails, IInv, StreamTypes
<1>3. wire' \in Seq(1..Now)
  <2>1. CASE Repeat
    <3>1. PICK i \in DOMAIN alerts : wire' = <<i>>
      BY <2>1 DEF Repeat
    <3>2. i \in 1..Now
      BY DEF IInv, ServerTypes, Now
    <3> QED BY <3>1, <3>2
  <2>2. CASE Connect
    BY <2>2 DEF Connect, IInv, StreamTypes
  <2>3. CASE StreamFails
    BY <2>3 DEF StreamFails
  <2> QED BY <2>1, <2>2, <2>3
<1>4. ServerTypes' /\ StreamTypes' /\ ScreenTypes' /\ SeenInv' /\ NoDoubleToast'
  BY <1>1, <1>2, <1>3
     DEF IInv, ServerTypes, StreamTypes, ScreenTypes, screenVars, SeenInv, NoDoubleToast
<1>5. ListTypes' /\ ToldInv'
  BY <1>1 DEF IInv, ListTypes, ToldInv, listVars
<1> QED BY <1>4, <1>5 DEF IInv

\* The set of keys is cut to its last ones, the new key among them.
LEMMA RememberKeeps ==
  ASSUME IInv, NEW key \in 1..Now
  PROVE  Remember(key) \in Seq(1..Now) /\ Kept(Remember(key), Append(toasts, key))
<1> DEFINE n == Len(seen)
           m == Len(toasts)
           more == Append(seen, key)
           all == Append(toasts, key)
<1>1. /\ n \in Nat /\ m \in Nat /\ n <= SeenLimit /\ n <= m
      /\ n < m => SeenKept <= n
      /\ SeenLimit \in Nat /\ SeenKept \in Nat /\ SeenKept >= 1 /\ SeenKept <= SeenLimit
      /\ seen \in Seq(1..Now) /\ toasts \in Seq(1..Now)
      /\ \A i \in 1..n : seen[i] = toasts[m - n + i]
  BY Numbers DEF IInv, StreamTypes, SeenInv, Kept
<1>2. /\ more \in Seq(1..Now) /\ Len(more) = n + 1 /\ more[n + 1] = key
      /\ \A i \in 1..n : more[i] = seen[i]
  BY <1>1, AppendProperties
<1>3. /\ all \in Seq(1..Now) /\ Len(all) = m + 1 /\ all[m + 1] = key
      /\ \A i \in 1..m : all[i] = toasts[i]
  BY <1>1, AppendProperties
<1>4. Remember(key) = IF Len(more) > SeenLimit
                      THEN SubSeq(more, Len(more) - SeenKept + 1, Len(more)) ELSE more
  BY DEF Remember
<1> HIDE DEF n, m, more, all
<1>5. \A i \in 1..(n + 1) : more[i] = all[m - n + i]
  <2> TAKE i \in 1..(n + 1)
  <2>1. CASE i = n + 1
    <3>1. m - n + i = m + 1
      BY <1>1, <2>1
    <3> QED BY <1>2, <1>3, <2>1, <3>1
  <2>2. CASE i # n + 1
    <3>1. i \in 1..n /\ m - n + i \in 1..m
      BY <1>1, <2>2
    <3> QED BY <1>1, <1>2, <1>3, <3>1
  <2> QED BY <2>1, <2>2
<1>6. CASE ~(n + 1 > SeenLimit)
  <2>1. Remember(key) = more
    BY <1>2, <1>4, <1>6
  <2>2. /\ n + 1 <= SeenLimit /\ n + 1 <= m + 1
        /\ n + 1 < m + 1 => SeenKept <= n + 1
        /\ (m + 1) - (n + 1) = m - n
    BY <1>1, <1>6
  <2>3. Kept(more, all)
    BY <1>2, <1>3, <1>5, <2>2 DEF Kept
  <2> QED BY <1>2, <2>1, <2>3 DEF all
<1>7. CASE n + 1 > SeenLimit
  <2> DEFINE b == n + 1
             a == b - SeenKept + 1
             last == SubSeq(more, a, b)
  <2>1. Remember(key) = last
    <3>1. Len(more) > SeenLimit /\ Len(more) = b
      BY <1>2, <1>7
    <3> QED BY <1>4, <3>1, Zenon
  <2>2. /\ b = n + 1 /\ a \in Int /\ b \in Int /\ a >= 1 /\ a <= b
        /\ b - a + 1 = SeenKept
    BY <1>1, <1>7
  <2>3. \A i \in a..b : more[i] \in 1..Now
    <3>1. \A i \in a..b : i \in 1..Len(more)
      BY <1>1, <1>2, <2>2
    <3> QED BY <1>2, <3>1, ElementOfSeq
  <2> HIDE DEF a, b
  <2>4. /\ last \in Seq(1..Now)
        /\ Len(last) = IF a <= b THEN b - a + 1 ELSE 0
        /\ \A i \in 1..(b - a + 1) : last[i] = more[a + i - 1]
    BY <2>2, <2>3, SubSeqProperties
  <2> HIDE DEF last
  <2>5. Len(last) = SeenKept /\ \A i \in 1..SeenKept : last[i] = more[a + i - 1]
    BY <2>2, <2>4
  <2>6. ASSUME NEW i \in 1..SeenKept PROVE last[i] = all[m + 1 - SeenKept + i]
    <3>1. a + i - 1 \in 1..(n + 1) /\ m - n + (a + i - 1) = m + 1 - SeenKept + i
      BY <1>1, <2>2
    <3> QED BY <1>5, <2>5, <3>1
  <2>7. /\ Len(last) <= SeenLimit /\ Len(last) <= Len(all)
        /\ Len(last) < Len(all) => SeenKept <= Len(last)
    BY <1>1, <1>3, <1>7, <2>5
  <2>8. \A i \in 1..Len(last) : last[i] = all[Len(all) - Len(last) + i]
    <3>1. Len(last) = SeenKept /\ Len(all) - Len(last) = m + 1 - SeenKept
      BY <1>1, <1>3, <2>5
    <3> QED BY <2>6, <3>1
  <2>9. Kept(last, all)
    BY <2>7, <2>8, Zenon DEF Kept
  <2> QED BY <2>1, <2>4, <2>9 DEF all
<1> QED BY <1>6, <1>7

\* A new event is none of the keys remembered, so none of as many last toasts.
LEMMA ToastingIsNew ==
  ASSUME IInv, NEW key \in 1..Now, key \notin Range(seen),
         NEW i \in 1..Len(toasts), toasts[i] = key
  PROVE  Len(toasts) + 1 - i > SeenKept
<1> DEFINE n == Len(seen)
           m == Len(toasts)
<1>1. /\ n \in Nat /\ m \in Nat /\ n <= m /\ SeenKept \in Nat
      /\ n < m => SeenKept <= n
      /\ \A k \in 1..n : seen[k] = toasts[m - n + k]
      /\ seen \in Seq(1..Now)
  BY Numbers DEF IInv, StreamTypes, SeenInv, Kept
<1>5. \A k \in 1..n : seen[k] # key
  BY <1>1, SMTT(60) DEF Range
<1> HIDE DEF n, m
<1>2. i \in 1..m
  BY DEF m
<1>3. i <= m - n
  <2> SUFFICES ASSUME ~(i <= m - n) PROVE FALSE
    OBVIOUS
  <2> DEFINE k == i - (m - n)
  <2>1. k \in 1..n /\ m - n + k = i
    BY <1>1, <1>2
  <2> QED BY <1>1, <1>5, <2>1
<1>4. m + 1 - i > SeenKept
  BY <1>1, <1>2, <1>3
<1> QED BY <1>4 DEF m

\* The event is toasted, and its run's list is held to it: it is stale until an
\* answer, and the request under way has met it, or one is sent now, or later.
LEMMA NoticeKeeps == ASSUME IInv, Notice PROVE IInv'
<1> DEFINE key == Head(wire)
           r == alerts[key].run
<1>1. /\ wire # <<>> /\ wire' = Tail(wire)
      /\ UNCHANGED <<alerts, stream, screenVars, shown, crossed>> /\ Now' = Now
  BY DEF Notice, Now
<1>2. wire \in Seq(1..Now) /\ Now \in Nat
  BY Numbers DEF IInv, StreamTypes
<1>3. /\ key \in 1..Now /\ wire' \in Seq(1..Now) /\ Len(wire') = Len(wire) - 1
      /\ \A i \in 1..Len(wire') : wire'[i] = wire[i + 1]
  BY <1>1, <1>2, HeadTailProperties
<1>5. r \in Runs
  <2>1. alerts[key] \in Alert
    BY <1>3, ElementOfSeq DEF IInv, ServerTypes, Now
  <2> QED BY <2>1 DEF Alert
<1>6. ServerTypes' /\ ScreenTypes'
  BY <1>1 DEF IInv, ServerTypes, ScreenTypes, screenVars
<1>7. CASE key \in Range(seen)
  <2>1. UNCHANGED <<seen, toasts, unread, ask, stale, told, met>>
    BY <1>7 DEF Notice
  <2>2. StreamTypes' /\ SeenInv' /\ NoDoubleToast'
    BY <1>1, <1>3, <2>1 DEF IInv, StreamTypes, SeenInv, NoDoubleToast
  <2>3. ListTypes' /\ ToldInv'
    BY <1>1, <2>1 DEF IInv, ListTypes, ToldInv
  <2> QED BY <1>6, <2>2, <2>3 DEF IInv
<1>8. CASE key \notin Range(seen)
  <2>1. /\ seen' = Remember(key) /\ toasts' = Append(toasts, key) /\ unread' = unread + 1
        /\ stale' = IF shown[r] >= 0 THEN stale \cup {r} ELSE stale
        /\ told' = IF key > told[r] THEN [told EXCEPT ![r] = key] ELSE told
        /\ met' = IF (r \in Observed /\ shown[r] >= 0) \/ ask[r] = -1 THEN met \ {r} ELSE met \cup {r}
        /\ ask' = IF r \in Observed THEN Restarted({r}) ELSE ask
    BY <1>8 DEF Notice
  <2> HIDE DEF key, r
  <2>2. seen' \in Seq(1..Now) /\ SeenInv'
    BY <1>3, <2>1, RememberKeeps DEF SeenInv
  <2>3. toasts \in Seq(1..Now) /\ Len(toasts) \in Nat /\ unread \in 0..Len(toasts)
    BY Numbers DEF IInv, StreamTypes
  <2>4. /\ toasts' \in Seq(1..Now) /\ Len(toasts') = Len(toasts) + 1
        /\ toasts'[Len(toasts) + 1] = key
        /\ \A i \in 1..Len(toasts) : toasts'[i] = toasts[i]
    BY <1>3, <2>1, <2>3, AppendProperties
  <2>5. unread' \in 0..Len(toasts')
    BY <2>1, <2>3, <2>4
  <2>6. StreamTypes'
    BY <1>1, <1>3, <2>2, <2>4, <2>5 DEF IInv, StreamTypes
  <2>7. NoDoubleToast'
    <3> SUFFICES ASSUME NEW i \in 1..Len(toasts'), NEW j \in 1..Len(toasts'),
                        i < j, toasts'[i] = toasts'[j]
                 PROVE  j - i > SeenKept
      BY <2>4 DEF NoDoubleToast
    <3>1. i \in 1..Len(toasts) /\ toasts'[i] = toasts[i]
      BY <2>3, <2>4
    <3>2. CASE j = Len(toasts) + 1
      <4>1. toasts[i] = key
        BY <2>4, <3>1, <3>2
      <4>2. Len(toasts) + 1 - i > SeenKept
        BY <1>3, <1>8, <3>1, <4>1, ToastingIsNew
      <4> QED BY <3>2, <4>2
    <3>3. CASE j # Len(toasts) + 1
      <4>1. j \in 1..Len(toasts) /\ toasts'[j] = toasts[j]
        BY <2>3, <2>4, <3>3
      <4>2. DOMAIN toasts = 1..Len(toasts)
        BY <2>3
      <4>3. toasts[i] = toasts[j]
        BY <3>1, <4>1
      <4> QED BY <3>1, <4>1, <4>2, <4>3 DEF IInv, NoDoubleToast
    <3> QED BY <3>2, <3>3
  <2>8. ListTypes /\ ToldInv
    BY DEF IInv
  <2>9. ASSUME NEW s \in Runs
        PROVE  ask'[s] = ask[s] \/ (s = r /\ ask'[s] = Now)
    BY <2>1, <2>9 DEF Restarted
  <2>10. ask' \in [Runs -> -1..Now]
    <3>1. ask' = [s \in Runs |-> ask'[s]]
      BY <2>1, <2>8 DEF Restarted, ListTypes
    <3>2. ASSUME NEW s \in Runs PROVE ask'[s] \in -1..Now
      <4>1. ask[s] \in -1..Now /\ Now \in -1..Now
        BY <1>2, <2>8 DEF ListTypes
      <4> QED BY <2>9, <4>1
    <3> QED BY <3>1, <3>2
  <2>11. told' \in [Runs -> 0..Now] /\ stale' \subseteq Runs /\ met' \subseteq Runs
    BY <1>2, <1>3, <1>5, <2>1, <2>8, SMTT(60) DEF ListTypes
  <2>12. ListTypes'
    BY <1>1, <2>8, <2>10, <2>11 DEF ListTypes
  <2>13. ASSUME NEW s \in Runs
         PROVE  /\ told'[s] > 0 => alerts'[told'[s]].run = s
                /\ ask'[s] # -1 /\ s \notin met' => told'[s] <= ask'[s]
                /\ shown'[s] >= 0 /\ s \notin stale' \cup crossed' => told'[s] <= shown'[s]
                /\ s \in met' => ask'[s] # -1
    <3>1. /\ told[s] > 0 => alerts[told[s]].run = s
          /\ ask[s] # -1 /\ s \notin met => told[s] <= ask[s]
          /\ shown[s] >= 0 /\ s \notin stale \cup crossed => told[s] <= shown[s]
          /\ s \in met => ask[s] # -1
          /\ told[s] \in 0..Now /\ told'[s] \in 0..Now
      BY <2>8, <2>11 DEF ToldInv, ListTypes
    <3>2. CASE s # r
      <4>1. /\ told'[s] = told[s] /\ ask'[s] = ask[s] /\ (s \in met' <=> s \in met)
            /\ s \notin stale' => s \notin stale
        BY <2>1, <2>8, <2>9, <3>2 DEF ListTypes
      <4> QED BY <1>1, <3>1, <4>1
    <3>3. CASE s = r
      <4>1. shown[s] >= 0 => s \in stale'
        BY <2>1, <3>3
      <4>2. told'[s] = told[s] \/ told'[s] = key
        BY <2>1, <2>8, <3>3 DEF ListTypes
      <4>3. told'[s] > 0 => alerts'[told'[s]].run = s
        BY <1>1, <3>1, <3>3, <4>2 DEF r
      <4>4. CASE s \in Observed /\ shown[s] >= 0
        <5>1. ask'[s] = Now /\ s \notin met'
          BY <2>1, <3>3, <4>4 DEF Restarted
        <5> QED BY <1>1, <1>2, <3>1, <4>1, <4>3, <5>1
      <4>5. CASE ask[s] = -1
        <5>1. (ask'[s] = Now \/ ask'[s] = -1) /\ s \notin met'
          BY <2>1, <2>9, <3>3, <4>5
        <5> QED BY <1>1, <1>2, <3>1, <4>1, <4>3, <5>1
      <4>6. CASE ask[s] # -1 /\ ~(s \in Observed /\ shown[s] >= 0)
        <5>1. s \in met' /\ (ask'[s] = ask[s] \/ ask'[s] = Now)
          BY <2>1, <2>9, <3>3, <4>6
        <5> QED BY <1>1, <1>2, <4>1, <4>3, <4>6, <5>1
      <4> QED BY <4>4, <4>5, <4>6
    <3> QED BY <3>2, <3>3
  <2>14. ToldInv'
    BY <2>13 DEF ToldInv
  <2> QED BY <1>6, <2>2, <2>6, <2>7, <2>12, <2>14 DEF IInv
<1> QED BY <1>7, <1>8

LEMMA ReloadKeeps ==
  ASSUME IInv, NEW to \in Runs \cup {"other"}, Reload(to) PROVE IInv'
<1>1. /\ screen' = to /\ live' = (to # "other") /\ known' = {}
      /\ stream' = "closed" /\ wire' = <<>> /\ seen' = <<>> /\ toasts' = <<>> /\ unread' = 0
      /\ shown' = [r \in Runs |-> -1] /\ ask' = [r \in Runs |-> IF r = to THEN Now ELSE -1]
      /\ stale' = {} /\ met' = {} /\ crossed' = {} /\ told' = [r \in Runs |-> 0]
      /\ UNCHANGED alerts
  BY DEF Reload
<1>2. Now' = Now /\ Now \in Nat /\ (\A S : <<>> \in Seq(S)) /\ Len(<<>>) = 0
  BY <1>1, Numbers DEF Now
<1>3. ServerTypes'
  BY <1>1, <1>2 DEF IInv, ServerTypes
<1>4. StreamTypes'
  BY <1>1, <1>2 DEF StreamTypes
<1>5. ScreenTypes'
  BY <1>1, FS_EmptySet, AlertsAssumption DEF ScreenTypes
<1>6. ListTypes' /\ ToldInv'
  BY <1>1, <1>2 DEF ListTypes, ToldInv
<1>7. NoDoubleToast'
  <2>1. DOMAIN toasts' = {}
    BY <1>1
  <2> QED BY <2>1 DEF NoDoubleToast
<1>8. SeenInv'
  BY <1>1, <1>2, Numbers DEF SeenInv, Kept
<1> QED BY <1>3, <1>4, <1>5, <1>6, <1>7, <1>8 DEF IInv

-----------------------------------------------------------------------------
LEMMA Always == Spec => []IInv
<1>1. IInv /\ [Next]_vars => IInv'
  <2> SUFFICES ASSUME IInv, [Next]_vars PROVE IInv'
    OBVIOUS
  <2>1. CASE UNCHANGED vars
    <3>1. UNCHANGED <<alerts, streamVars, screenVars, listVars>>
      BY <2>1 DEF vars
    <3>2. /\ ask' = [r \in Runs |-> ask'[r]] /\ ScreenTypes'
          /\ met' = met \ {r \in Runs : ask'[r] = -1}
      BY <3>1 DEF IInv, ListTypes, ToldInv, ScreenTypes, listVars, screenVars
    <3> QED BY <3>1, <3>2, AskingKeeps DEF listVars, streamVars
  <2>2. ASSUME NEW r \in Runs, NEW level \in Levels, Emit(r, level) PROVE IInv'
    BY <2>2, EmitKeeps
  <2>3. ASSUME NEW r \in Runs, ListArrives(r) \/ CacheExpires(r) PROVE IInv'
    BY <2>3, ListArrivesKeeps, CacheExpiresKeeps
  <2>4. CASE \/ \E r \in Runs : Poll(r) \/ ListFails(r) \/ OpenRunAlerts(r)
             \/ OpenAlertsPage \/ RunsListed \/ RunEnds \/ Leave
    BY <2>4, ListsKeep
  <2>5. CASE Repeat \/ Connect \/ StreamFails
    BY <2>5, WireKeeps
  <2>6. CASE Notice
    BY <2>6, NoticeKeeps
  <2>7. ASSUME NEW to \in Runs \cup {"other"}, Reload(to) PROVE IInv'
    BY <2>7, ReloadKeeps
  <2> QED BY <2>1, <2>2, <2>3, <2>4, <2>5, <2>6, <2>7 DEF Next
<1> QED BY <1>1, Initially, PTL DEF Spec

\* The types of the alerts, for any runs and limits: no more keys are remembered
\* than the limit, and what is told of, remembered and toasted is an alert.
THEOREM AlertsTyped == Spec => []TypeOK
BY Always, Types, PTL

\* An event that the server repeats is toasted again only after more others than
\* the set of keys keeps when it is cut.
THEOREM ToastedOnce == Spec => []NoDoubleToast
<1>1. IInv => NoDoubleToast
  BY DEF IInv
<1> QED BY <1>1, Always, PTL

\* Every list on the screen that is not stale, not being asked for, and not the
\* answer to a request that an event met and did not replace, has the last alert of
\* its run that was toasted, but for what newer ones keep out of the page of all
\* alerts; for any runs and limits, however answers, events and pages cross.
THEOREM ToastsAreListed == Spec => []ToldIsShown
BY Always, Shows, PTL
=============================================================================
