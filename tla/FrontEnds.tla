------------------------------- MODULE FrontEnds -------------------------------
(***************************************************************************)
(* A person works at one of the front ends: the interactive terminal; the  *)
(* command line or the editor tabs of the web terminal; or, in a shell,    *)
(* `idel run.function` or `idel learn` and `idel promote`, several times   *)
(* and at once.  They share no state, so each is checked by itself, in one *)
(* state space.                                                            *)
(***************************************************************************)
EXTENDS Integers, Sequences, FiniteSets

CONSTANTS
    Commands, Decisions, Native, Lines, MaxLines, MaxBreaks,        \* of Repl
    Files, MaxTabs, MaxEdits, MaxClicks, Depth,                     \* of WebEditor
    Entries, Kind, MaxJobs, MaxTyped, MaxApprovals,                 \* of WebConsole
    Runs, Requests, Def,                                            \* of FunctionRuns
    Defs, Terminals, MaxDrafts, MaxSessions                    \* of Registry

VARIABLES
    face,
    auto, dry, given, text, queue, at, step, phase, question, shown, told, decided, input, stop,
    session, agent, answers, cleared, done, acts, useAfterClose, breaks,
    disk, ed, open, net, edits, clicks, written, agreed, meanwhile,
    entered, edited, seq, timer, asked, risk, list, typed, wiped, jobs, begun, busy, appr, raised, rules,
    posts, clicked,
    nonces, lock, store, evidence, pc, req, rehearsal, mem, tail, used, frames, began,
    file, pinned, job, vouched, drafts, sessions, sess, touched

repl == <<auto, dry, given, text, queue, at, step, phase, question, shown, told, decided, input,
          stop, session, agent, answers, cleared, done, acts, useAfterClose, breaks>>
editor == <<disk, ed, open, net, edits, clicks, written, agreed, meanwhile>>
console == <<entered, edited, seq, timer, asked, risk, list, typed, wiped, jobs, begun, busy,
             appr, raised, rules, posts, clicked>>
functions == <<nonces, lock, store, evidence, pc, req, rehearsal, mem, tail, used, frames, began>>
registry == <<file, pinned, job, vouched, drafts, sessions, sess, touched>>
vars == <<face, repl, editor, console, functions, registry>>

R == INSTANCE Repl
E == INSTANCE WebEditor
C == INSTANCE WebConsole
F == INSTANCE FunctionRuns
G == INSTANCE Registry

ASSUME FrontEndsAssumption ==
    /\ R!ReplAssumption /\ E!EditorAssumption /\ C!ConsoleAssumption
    /\ F!FunctionRunsAssumption /\ G!RegistryAssumption

\* What is not used stays as it starts, and of that only one way is looked at.
Init ==
    /\ face \in {"repl", "editor", "console", "functions", "registry"}
    /\ R!Init /\ (face # "repl" => ~auto /\ ~dry)
    /\ E!Init
    /\ C!Init /\ (face # "console" => rules = {})
    /\ F!Init /\ (face # "functions" => /\ req = CHOOSE r \in [Runs -> Requests] : TRUE
                                        /\ \A p \in Runs : ~rehearsal[p])
    /\ G!Init /\ (face # "registry" => ~pinned)

Handle == face = "repl" /\ R!Work /\ UNCHANGED <<face, editor, console, functions, registry>>

Next ==
    \/ face = "repl" /\ R!Next /\ UNCHANGED <<face, editor, console, functions, registry>>
    \/ face = "editor" /\ E!Next /\ UNCHANGED <<face, repl, console, functions, registry>>
    \/ face = "console" /\ C!Next /\ UNCHANGED <<face, repl, editor, functions, registry>>
    \/ face = "functions" /\ F!Next /\ UNCHANGED <<face, repl, editor, console, registry>>
    \/ face = "registry" /\ G!Next /\ UNCHANGED <<face, repl, editor, console, functions>>

\* The terminal goes on with the line it handles; a person need not do anything, and the
\* web terminal's requests may stay unanswered.
Spec == Init /\ [][Next]_vars /\ WF_vars(Handle)

-----------------------------------------------------------------------------
(* The properties of the five, each stated and explained in its module.   *)

\* Repl: what runs is what was typed, in order, neither an answer nor cleared by ^C.
LinesInOrder == R!LinesInOrder
\* Repl: nothing runs without the consent it needs.
ActsAsApproved == R!ActsAsApproved
\* Repl: once the input has ended, every line is handled and the session ends.
InputDrained == R!InputDrained
\* Repl, as CONCERNS.md has it: no question is asked on a closed readline.
NoUseAfterClose == R!NoUseAfterClose
\* WebEditor: one save at a time, a history that fits the text, and no text is lost that
\* nobody agreed to give up.
NothingLostUnasked == E!NothingLostUnasked
\* WebConsole: the risk shown is that of the line edited last.
RiskShownIsCurrent == C!RiskShownIsCurrent
\* WebConsole: approvals are answered as they were clicked.
AnswersTold == C!AnswersTold
\* FunctionRuns: a single-use request reaches its function once at most; with the
\* invariant that shows it for any number of runs.
OncePerNonce == F!OncePerNonce /\ F!AdmissionInv
\* FunctionRuns: rows in the store come from runs the evidence has as executed; with the
\* invariant likewise.
StoredIsAudited == F!StoredIsAudited /\ F!RowsInv
\* FunctionRuns, as function-command.ts has it: the evidence is one chain across runs.
EvidenceIsOneChain == F!EvidenceIsOneChain
\* Registry: what is loaded as official is what a pinned key signed.
LoadedIsSigned == G!LoadedIsSigned
\* Registry, as promote.ts has it: a command that was promoted is in the official layer alone.
InOneLayer == G!InOneLayer
=============================================================================
