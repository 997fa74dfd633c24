----------------------------- MODULE ChatAnswers -----------------------------
(****************************************************************************)
(* What the chat page promises of the answers it keeps in the browser: an   *)
(* answer is stored once, whole, and never changes afterwards, except that  *)
(* it goes with its thread; one whose thread is deleted while it is being   *)
(* written may come back.  ChatRuntime implements this.                     *)
(****************************************************************************)
EXTENDS Sequences

CONSTANTS Questions, Chunks

VARIABLES
  state,  \* per question: "unasked", "asked", "answered", "gone"
  heard,  \* per question: the chunks of its answer received so far
  kept    \* per question: the text stored with it, <<>> until it is answered

vars == <<state, heard, kept>>

Init ==
  /\ state = [q \in Questions |-> "unasked"]
  /\ heard = [q \in Questions |-> <<>>]
  /\ kept = [q \in Questions |-> <<>>]

\* The first write of a question.
Ask(q) ==
  /\ state[q] = "unasked"
  /\ state' = [state EXCEPT ![q] = "asked"]
  /\ UNCHANGED <<heard, kept>>

\* A chunk arrives; never for an answer that is stored.
Hear(q) ==
  /\ state[q] \in {"asked", "gone"}
  /\ \E c \in Chunks : heard' = [heard EXCEPT ![q] = Append(@, c)]
  /\ UNCHANGED <<state, kept>>

\* What was heard is stored.  From "gone": the write overtook a deletion.
Answer(q) ==
  /\ state[q] \in {"asked", "gone"}
  /\ state' = [state EXCEPT ![q] = "answered"]
  /\ kept' = [kept EXCEPT ![q] = heard[q]]
  /\ UNCHANGED heard

\* Questions go: with their thread, or because the first write is lost.
Forget ==
  /\ \E gone \in SUBSET Questions :
       /\ state' = [q \in Questions |-> IF q \in gone THEN "gone" ELSE state[q]]
       /\ kept' = [q \in Questions |-> IF q \in gone THEN <<>> ELSE kept[q]]
  /\ UNCHANGED heard

Next == Forget \/ \E q \in Questions : Ask(q) \/ Hear(q) \/ Answer(q)

Spec == Init /\ [][Next]_vars
=============================================================================
