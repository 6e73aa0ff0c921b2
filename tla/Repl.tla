--------------------------------- MODULE Repl ---------------------------------
(***************************************************************************)
(* The interactive terminal, startTerminal in cli/terminal.ts: lines are   *)
(* queued and handled one after the other, while questions are asked on    *)
(* the same readline, ^C clears the queue and the input may end at any     *)
(* time.                                                                   *)
(***************************************************************************)
EXTENDS Integers, Sequences, FiniteSets

CONSTANTS
    Commands,
    Decisions,      \* of a command: the policy's decisions, as the files are
    Native,         \* the commands that are native lines
    Lines,          \* what a person may type
    MaxLines,
    MaxBreaks       \* ^C

\* A line is passed over ("pass": empty, help, an error, learn), leaves ("exit"), runs
\* the steps of a batch ("run") or asks the agent, who calls for its steps ("ask").
ReplAssumption ==
    /\ MaxLines \in Nat /\ MaxBreaks \in Nat /\ Native \subseteq Commands
    /\ \A l \in Lines : /\ l.kind \in {"pass", "exit", "run", "ask"} /\ l.yes \in BOOLEAN
                        /\ l.steps \in Seq(Commands)
                        /\ l.kind \in {"run", "ask"} => l.steps # <<>>

VARIABLES
    auto, dry,      \* --yes and --dry-run, as the session was started
    given,          \* the lines typed so far; below, a line is its number
    text,           \* something is typed on a line not yet given
    queue,
    at, step,       \* the line being handled, or 0, and its step
    phase,
    question,       \* the question asked on the readline, or "none"
    shown, told,    \* of the step: the preview's decision, the last answer about it
    decided,        \* the decision of the real run
    input,          \* the readline is open or has ended
    stop,
    session,        \* "on", "over" or "crashed"
    agent,          \* what answers asks, with "tools" or with "plans", once that shows
    answers, cleared,       \* the lines taken as answers, and those ^C has cleared
    done,           \* the lines handled
    acts,           \* what was run for real, in order
    useAfterClose,  \* a question was asked after the end of the input
    breaks

reading == <<given, text, queue, answers, cleared, breaks, input>>
work == <<at, step, phase, question, shown, told, decided, stop, session, agent, done, acts,
          useAfterClose>>
vars == <<auto, dry, reading, work>>

None == [action |-> "none", risk |-> "none"]

Init ==
    /\ auto \in BOOLEAN /\ dry \in BOOLEAN
    /\ given = <<>> /\ text = FALSE /\ queue = <<>>
    /\ at = 0 /\ step = 0 /\ phase = "idle" /\ question = "none"
    /\ shown = None /\ told = "none" /\ decided = None
    /\ input = "open" /\ stop = FALSE /\ session = "on" /\ agent = "none"
    /\ answers = {} /\ cleared = {} /\ done = {}
    /\ acts = <<>> /\ useAfterClose = FALSE /\ breaks = 0

Line == given[at]
Command == Line.steps[step]
Rehearsed == dry /\ Line.kind = "run"

-----------------------------------------------------------------------------
(* drain: one line after the other.                                        *)

\* How a step begins.  Native lines and dry sessions are run as they are; an agent may not
\* call for a native line, and its service knows of no dry session.
FirstPhase(l, n) ==
    CASE l.kind \in {"pass", "exit"} -> "pass"
      [] l.kind = "run" -> IF dry \/ l.steps[n] \in Native THEN "real" ELSE "preview"
      [] l.kind = "ask" -> IF l.steps[n] \in Native THEN "refused" ELSE "preview"

StepFrom(n, i, lines) ==
    /\ at' = i /\ step' = n /\ phase' = FirstPhase(lines[i], n)
    /\ shown' = None /\ told' = "none" /\ decided' = None

\* Mistake: the end of the input is not looked at.
Idle_IgnoresEnd(q, stopping) ==
    /\ at' = 0 /\ step' = 0 /\ phase' = "idle" /\ queue' = q
    /\ shown' = None /\ told' = "none" /\ decided' = None
    /\ session' = IF stopping THEN "over" ELSE session

\* drain ends.
Idle(q, stopping) ==
    /\ at' = 0 /\ step' = 0 /\ phase' = "idle" /\ queue' = q
    /\ shown' = None /\ told' = "none" /\ decided' = None
    /\ session' = IF stopping \/ input = "ended" THEN "over" ELSE session

\* Mistake: the newest line first.
Drain_NewestFirst(q, lines, stopping) ==
    IF q = <<>> \/ stopping THEN Idle(q, stopping)
    ELSE /\ StepFrom(1, q[Len(q)], lines) /\ queue' = SubSeq(q, 1, Len(q) - 1)
         /\ UNCHANGED session

\* The next of the lines in q is taken, or all are done.
Drain(q, lines, stopping) ==
    IF q = <<>> \/ stopping THEN Idle(q, stopping)
    ELSE StepFrom(1, Head(q), lines) /\ queue' = Tail(q) /\ UNCHANGED session

LineDone ==
    /\ stop' = (stop \/ Line.kind = "exit")
    /\ done' = done \cup {at}
    /\ Drain(queue, given, stop')
    /\ UNCHANGED <<given, text, answers, cleared, breaks, input>>

-----------------------------------------------------------------------------
(* What is typed.                                                          *)

Person == session = "on" /\ input = "open" /\ UNCHANGED <<auto, dry>>

\* What an answer leads to.  The question of a preview only decides whether the preview
\* is carried out, which shows the same either way.
After(q, yes) ==
    CASE q = "preview" -> "shown"
      [] q \in {"confirm", "gate"} -> IF yes THEN "real" ELSE "refused"
      [] q = "policy" -> IF yes THEN "act" ELSE "refused"

\* While a question is asked, the next line is its answer; else it is queued, and
\* handled at once if nothing else is.
TypeLine(l) ==
    /\ Person /\ Len(given) < MaxLines
    /\ given' = Append(given, l) /\ text' = FALSE
    /\ IF question # "none"
       THEN /\ phase' = After(question, l.yes) /\ question' = "none"
            /\ told' = IF l.yes THEN "yes" ELSE "no"
            /\ answers' = answers \cup {Len(given')}
            /\ UNCHANGED <<queue, at, step, shown, decided, session>>
       ELSE /\ IF at = 0 THEN Drain(Append(queue, Len(given')), given', FALSE)
               ELSE /\ queue' = Append(queue, Len(given'))
                    /\ UNCHANGED <<at, step, phase, shown, told, decided, session>>
            /\ UNCHANGED <<question, answers>>
    /\ UNCHANGED <<cleared, breaks, input, stop, agent, done, acts, useAfterClose>>

TypeText ==
    /\ Person /\ ~text /\ text' = TRUE
    /\ UNCHANGED <<given, queue, answers, cleared, breaks, input, work>>

Sigint ==
    /\ Person /\ breaks < MaxBreaks /\ breaks' = breaks + 1
    /\ cleared' = cleared \cup {queue[i] : i \in DOMAIN queue} /\ queue' = <<>>
    /\ LET leaves == at = 0 /\ ~text IN
       /\ text' = (text /\ at # 0)
       /\ stop' = (stop \/ leaves)
       /\ session' = IF leaves THEN "over" ELSE session
    /\ UNCHANGED <<given, answers, input, at, step, phase, question, shown, told, decided, agent,
                   done, acts, useAfterClose>>

\* The end of the input comes after a whole line.  A question asked stays unanswered.
EndInput ==
    /\ Person /\ ~text
    /\ input' = "ended"
    /\ session' = IF at = 0 THEN "over" ELSE session
    /\ UNCHANGED <<given, text, queue, answers, cleared, breaks, at, step, phase, question, shown,
                   told, decided, stop, agent, done, acts, useAfterClose>>

-----------------------------------------------------------------------------
(* A line is handled.                                                      *)

Working(p) ==
    /\ session = "on" /\ phase = p
    /\ UNCHANGED <<auto, dry>>

Pass == Working("pass") /\ LineDone /\ UNCHANGED <<question, agent, acts, useAfterClose>>

\* Mistake: --yes whatever the risk.
Auto_AnyRisk(d) == auto

Auto(d) == auto /\ d.risk # "CRITICAL"

\* The next step of the line, or the next line.
NextStep ==
    IF step < Len(Line.steps)
    THEN StepFrom(step + 1, at, given) /\ UNCHANGED <<reading, stop, session, done>>
    ELSE LineDone

\* An error in what the agent at work calls for: an agent with tools makes it the result
\* of the call and is told, with an agent that plans the ask ends.  A session has one agent.
AskThrows ==
    /\ agent' \in IF agent = "none" THEN {"tools", "plans"} ELSE {agent}
    /\ IF agent' = "tools" THEN NextStep ELSE LineDone

\* A throw, as of a run whose record cannot be written or of a question after the end of
\* the input.  It ends a single line, and nothing catches it from a batch.
Throw ==
    IF Line.kind = "ask" THEN AskThrows
    ELSE /\ UNCHANGED agent
         /\ IF Len(Line.steps) > 1
            THEN /\ session' = "crashed"
                 /\ UNCHANGED <<reading, at, step, phase, shown, told, decided, stop, done>>
            ELSE LineDone

\* The question q or the phase p comes next, with the preview and the decision s and d.
Ask(q, s, d) ==
    IF input = "open"
    THEN /\ question' = q /\ phase' = "asking" /\ shown' = s /\ decided' = d
         /\ UNCHANGED <<reading, at, step, told, stop, session, agent, done, acts, useAfterClose>>
    ELSE Throw /\ useAfterClose' = TRUE /\ UNCHANGED <<question, acts>>

Go(p, s, d) ==
    /\ phase' = p /\ shown' = s /\ decided' = d
    /\ UNCHANGED <<reading, at, step, told, question, stop, session, agent, done, acts,
                   useAfterClose>>

\* The dry run behind a preview has the policy's approval asked for, as any run.
Preview ==
    /\ Working("preview") /\ Line.kind = "run"
    /\ \E d \in Decisions[Command] :
         IF d.action = "approval_required" /\ ~Auto(d) THEN Ask("preview", d, None)
         ELSE Go("shown", d, None)

Sensitive(d) == d.risk \in {"HIGH", "CRITICAL"}

\* runWithPreview after its preview.
Shown ==
    /\ Working("shown") /\ Line.kind = "run"
    /\ \/ shown.action \in {"block", "require_dry_run"} /\ Go("refused", shown, None)
       \/ /\ shown.action \in {"allow", "approval_required"}
          /\ IF shown.action = "allow" /\ Sensitive(shown) THEN Ask("confirm", shown, None)
             ELSE Go("real", shown, None)

\* What an agent calls for is rehearsed by its service, with no one to ask ...
Rehearse ==
    /\ Working("preview") /\ Line.kind = "ask"
    /\ \E d \in Decisions[Command] : Go("shown", d, None)

\* ... and run for real if that is wanted and the person lets it.
Proposed ==
    /\ Working("shown") /\ Line.kind = "ask"
    /\ \/ Go("refused", shown, None)
       \/ shown.action # "block" /\ Ask("gate", shown, None)

\* The real run decides anew.  What the gate has approved needs no second approval.
Real ==
    /\ Working("real")
    /\ \E d \in Decisions[Command] :
         IF d.action = "approval_required" /\ ~Auto(d) /\ Line.kind # "ask"
         THEN Ask("policy", shown, d)
         ELSE Go(IF d.action = "block" \/ (d.action = "require_dry_run" /\ ~Rehearsed)
                 THEN "refused" ELSE "act", shown, d)

\* A batch goes on after a step that succeeded, the agent after any.
StepDone(ok) == IF ok \/ Line.kind = "ask" THEN NextStep ELSE LineDone

\* The command is run, and its record written or not.
Act ==
    /\ Working("act")
    /\ IF Rehearsed THEN UNCHANGED acts
       ELSE acts' = Append(acts, [line |-> at, step |-> step, shown |-> shown, told |-> told,
                                  decided |-> decided])
    /\ Throw \/ \E ok \in BOOLEAN : StepDone(ok) /\ UNCHANGED agent
    /\ UNCHANGED <<question, useAfterClose>>

Refused ==
    /\ Working("refused") /\ StepDone(FALSE)
    /\ UNCHANGED <<question, agent, acts, useAfterClose>>

\* A run throws before it does anything (its log is not ready, say).
Fails ==
    /\ Working("preview") \/ Working("real")
    /\ Throw
    /\ UNCHANGED <<question, acts, useAfterClose>>

Work == Pass \/ Preview \/ Shown \/ Rehearse \/ Proposed \/ Real \/ Act \/ Refused \/ Fails

Next ==
    \/ Work \/ TypeText \/ Sigint \/ EndInput
    \/ \E l \in Lines : TypeLine(l)

Spec == Init /\ [][Next]_vars

-----------------------------------------------------------------------------
(* Properties.                                                             *)

Before(a, b) == a.line < b.line \/ (a.line = b.line /\ a.step < b.step)

\* What is run is what was typed, in the order it was typed, each step once, and neither
\* an answer nor a line ^C has cleared; no line is handled before an earlier one
\* (terminal.ts: the queue, drain, the line and SIGINT handlers).
LinesInOrder ==
    /\ \A i, j \in DOMAIN acts : i < j => Before(acts[i], acts[j])
    /\ \A i \in DOMAIN acts : acts[i].line \notin answers \cup cleared
    /\ \A j \in done : 1 .. j \subseteq done \cup answers \cup cleared

\* Nothing runs without the consent it needs: the yes the policy asks for in the real
\* run, unless --yes gives it and the risk is not CRITICAL; the yes to a sensitive
\* command that was shown; the yes to whatever the agent wants to run.  And a command
\* whose last question was answered no runs only if the policy has decided otherwise
\* since, on the action or on the risk (terminal.ts: the approval handler, runWithPreview,
\* the agent's gate).
ActsAsApproved ==
    \A i \in DOMAIN acts :
        LET a == acts[i] IN
        /\ \/ given[a.line].kind = "ask"
           \/ a.decided.action = "approval_required" /\ ~(auto /\ a.decided.risk # "CRITICAL")
           \/ a.shown.action = "allow" /\ Sensitive(a.shown)
           => a.told = "yes"
        /\ a.told = "no" => a.decided # a.shown

\* Once the input has ended, every line typed before is handled and the session ends,
\* unless a line leaves earlier, a batch brings the process down, or a question is left
\* that no one can answer (terminal.ts: drain, finish and the close handler).
InputDrained ==
    input = "ended" ~>
        \/ /\ session = "over"
           /\ stop \/ DOMAIN given \subseteq done \cup answers \cup cleared
        \/ session = "crashed" \/ question # "none"

\* CONCERNS.md: the REPL "distinguishes exit from stdin-EOF (so piped input fully drains
\* and no ERR_USE_AFTER_CLOSE fires)" (terminal.ts: promptYesNo).
NoUseAfterClose == ~useAfterClose
=============================================================================
