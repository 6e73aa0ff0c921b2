------------------------------- MODULE Approval -------------------------------
(***************************************************************************)
(* What a person relies on who is asked to approve a command through the   *)
(* server.  Every question is put once and settled once; silence, a lost   *)
(* connection and a shutdown settle it as a no; and only a question that   *)
(* was settled with a yes lets its command act, at most once.              *)
(***************************************************************************)
CONSTANT Ids                \* the questions that may ever be put

VARIABLES
    status,                 \* of each question
    acted                   \* the questions whose command was carried out

Statuses == {"none", "open", "granted", "denied"}

Init == status = [i \in Ids |-> "none"] /\ acted = {}

Moves == {<<"none", "open">>, <<"open", "granted">>, <<"open", "denied">>}

\* Questions are put, answered and dropped, several at a time perhaps, but a yes is
\* the answer to one question and changes no other.
Move ==
    LET changed == {i \in Ids : status'[i] # status[i]} IN
    /\ status' \in [Ids -> Statuses]
    /\ \A i \in changed : <<status[i], status'[i]>> \in Moves
    /\ \A i \in changed : status'[i] = "granted" => changed = {i}
    /\ UNCHANGED acted

Act(i) ==
    /\ status[i] = "granted" /\ i \notin acted
    /\ acted' = acted \cup {i}
    /\ UNCHANGED status

Next == Move \/ \E i \in Ids : Act(i)

Spec == Init /\ [][Next]_<<status, acted>>
=============================================================================
