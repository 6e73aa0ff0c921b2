-------------------------------- MODULE Mutex --------------------------------
(***************************************************************************)
(* What a caller of OpenLogWriter.withAppendLock relies on: at most one    *)
(* caller at a time runs the body it passed.  A caller is inside from the  *)
(* moment its lock file is written until the body ends, by return, by      *)
(* exception or by the death of its process.                               *)
(***************************************************************************)
CONSTANT Callers        \* the calls that compete for one log's lock

VARIABLE inside         \* the callers that run their body

Init == inside = {}

\* The body starts only when nobody else runs one.
Enter(c) ==
    /\ inside = {}
    /\ inside' = {c}

\* The body ends.
Leave(c) ==
    /\ c \in inside
    /\ inside' = inside \ {c}

Next == \E c \in Callers : Enter(c) \/ Leave(c)

Spec == Init /\ [][Next]_inside
=============================================================================
