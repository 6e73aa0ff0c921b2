----------------------------- MODULE MCAppendLock -----------------------------
(***************************************************************************)
(* Small instances of AppendLock: four callers on three processes (a1 and  *)
(* a2 share one, as an append and a verify of the same writer do).         *)
(***************************************************************************)
EXTENDS AppendLock

CONSTANTS a1, a2, b1, c1, P1, P2, P3, H1

\* Three processes with one caller each, and a fourth caller in the first.
MCProcOf == [c \in Callers |-> CASE c \in {a1, a2} -> P1
                                 [] c = b1         -> P2
                                 [] OTHER          -> P3]

OneHost == [p \in Procs |-> H1]
=============================================================================
