----------------------------- MODULE CommandGate -----------------------------
(***************************************************************************)
(* What a caller of Runtime.run relies on.  A run is decided once, changes *)
(* the system only if it was permitted, and ends with at most one report;  *)
(* a report that nothing was done is only given when nothing was.  A run   *)
(* that lost its report says so, and from then on no run that starts is    *)
(* permitted.                                                              *)
(***************************************************************************)
CONSTANT Runs               \* calls of run()

VARIABLES
    begun,                  \* the runs that started while the gate was open
    permitted,              \* the runs allowed to change the system
    effects,                \* the runs that changed it
    report,                 \* what each run reported: nothing, refused, done
    open                    \* no run has lost its report

gate == <<begun, permitted, effects, report, open>>

Init ==
    /\ begun = {} /\ permitted = {} /\ effects = {}
    /\ report = [r \in Runs |-> "none"]
    /\ open = TRUE

Begin(r) ==
    /\ open
    /\ begun' = begun \cup {r}
    /\ UNCHANGED <<permitted, effects, report, open>>

Permit(r) ==
    /\ r \in begun /\ report[r] = "none"
    /\ permitted' = permitted \cup {r}
    /\ UNCHANGED <<begun, effects, report, open>>

Perform(r) ==
    /\ r \in permitted /\ report[r] = "none"
    /\ effects' = effects \cup {r}
    /\ UNCHANGED <<begun, permitted, report, open>>

\* "lost": the report could not be made, and the caller is told.
Report(r, what) ==
    /\ r \in begun /\ report[r] = "none"
    /\ what = "refused" => r \notin effects
    /\ report' = [report EXCEPT ![r] = what]
    /\ open' = (open /\ what # "lost")
    /\ UNCHANGED <<begun, permitted, effects>>

\* A new process opens the gate again; what the old one ran ends unreported.
Restart ==
    /\ open' = TRUE
    /\ UNCHANGED <<begun, permitted, effects, report>>

Next ==
    \/ \E r \in Runs : \/ Begin(r) \/ Permit(r) \/ Perform(r)
                       \/ \E what \in {"refused", "done", "lost"} : Report(r, what)
    \/ Restart

Spec == Init /\ [][Next]_gate
=============================================================================
