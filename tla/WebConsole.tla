------------------------------ MODULE WebConsole ------------------------------
(***************************************************************************)
(* The command line of the web terminal (terminal.js): what is typed, one  *)
(* command to a line, the risk and the suggestions shown for the line that *)
(* is edited, commands, batches, workflows and Ask AI turns under way, and *)
(* the approvals a person or a rule answers.                               *)
(* The server is what the page sees of it.                                 *)
(***************************************************************************)
EXTENDS Integers, Sequences, FiniteSets

CONSTANTS
    Entries,        \* what may be typed: sequences of commands
    Kind,           \* of a command: "local", "run" or "ask"
    MaxJobs, MaxTyped, MaxApprovals     \* entries run, texts typed, approvals asked for

ConsoleAssumption ==
    /\ MaxJobs \in Nat /\ MaxTyped \in Nat /\ MaxApprovals \in Nat
    /\ \A e \in Entries : /\ e \in Seq(DOMAIN Kind) /\ e # <<>>
                          /\ \A i \in DOMAIN e : Kind[e[i]] = "ask" => Len(e) = 1
    /\ "none" \notin DOMAIN Kind

Ids == 1 .. MaxApprovals
Jobs == 1 .. MaxJobs
Empty == <<>>

VARIABLES
    entered,        \* the input's lines
    edited,         \* the line the cursor was on when they last changed, or 0
    seq,            \* riskPreviewSeq
    timer,          \* the previews and completions whose timers run
    asked,          \* those asked for: [what, text, seq]
    risk,           \* the command whose risk is shown, or "none"
    list,           \* the command whose suggestions are shown, or "none"
    typed, wiped,   \* texts typed; the input was cleared by ^C and left so
    jobs, begun,    \* entries under way: [entry, at, phase, typed]
    busy,           \* commandBusy
    appr, raised,   \* the approvals asked for: see NoApproval
    rules,          \* the commands approved on their own
    posts,          \* answers on their way to the server, and back
    clicked         \* what a person has clicked, of each approval

line == <<entered, edited, seq, timer, asked, risk, list, typed, wiped>>
work == <<jobs, begun, busy>>
asking == <<appr, raised, rules, posts, clicked>>
vars == <<line, work, asking>>

NoJob == [entry |-> Empty, at |-> 0, phase |-> "none", typed |-> FALSE]
NoApproval == [kind |-> "none", command |-> "none", low |-> FALSE,
               server |-> "none",       \* "open", or settled as "yes" or "no"
               card |-> "none",         \* "shown"; clicked "yes" or "no"; then "told", "failed"
               auto |-> FALSE]          \* a rule has answered it

Init ==
    /\ entered = Empty /\ edited = 0 /\ seq = 0 /\ timer = {} /\ asked = {}
    /\ risk = "none" /\ list = "none" /\ typed = 0 /\ wiped = FALSE
    /\ jobs = [j \in Jobs |-> NoJob] /\ begun = 0 /\ busy = FALSE
    /\ appr = [i \in Ids |-> NoApproval] /\ raised = 0 /\ posts = {}
    /\ rules \in SUBSET {c \in DOMAIN Kind : Kind[c] = "ask"}
    /\ clicked = [i \in Ids |-> "none"]

-----------------------------------------------------------------------------
(* The input line.                                                         *)

Timer(what, t, n) == [what |-> what, text |-> t, seq |-> n]

Completions == {c \in timer : c.what = "complete"}

\* scheduleRiskPreview, for the line the cursor is on: what was asked for an earlier text is
\* outdated.  (It is aborted too, in a browser that can.)  A local action is shown as safe
\* at once, and for a prompt nothing is.
Schedule(c, others) ==
    /\ seq' = seq + 1
    /\ risk' = IF c # "none" /\ Kind[c] = "local" THEN c ELSE "none"
    /\ timer' = others \cup
                (IF c # "none" /\ Kind[c] = "run" THEN {Timer("risk", c, seq + 1)} ELSE {})

\* Another text in the input, edited on line i.  Where the cursor moves later does not
\* matter: the preview stays.
TypeText(e, i) ==
    /\ ~busy /\ typed < MaxTyped /\ typed' = typed + 1
    /\ entered' = e /\ edited' = i /\ wiped' = FALSE
    /\ \/ /\ Kind[e[i]] # "ask"                     \* the input: updateCompletions too
          /\ Schedule(e[i], {Timer("complete", e[i], 0)}) /\ UNCHANGED list
       \/ Schedule(e[i], Completions) /\ list' = "none"      \* a prompt; the history; a suggestion
    /\ UNCHANGED <<asked, work, asking>>

\* ^C empties the input and leaves the preview as it is.
ClearInput ==
    /\ ~busy /\ (entered # Empty \/ list # "none")
    /\ entered' = Empty /\ edited' = 0 /\ list' = "none" /\ wiped' = TRUE
    /\ UNCHANGED <<seq, timer, asked, risk, typed, work, asking>>

Fires(c) ==
    /\ c \in timer /\ timer' = timer \ {c} /\ asked' = asked \cup {c}
    /\ UNCHANGED <<entered, edited, seq, risk, list, typed, wiped, work, asking>>

\* Mistake: whatever was typed since.
Fresh_Always(c) == c.seq > 0

\* Nothing was typed since.
Fresh(c) == c.seq = seq

\* An answer about the risk is shown if nothing was typed since; suggestions in any case.
Shown(c) ==
    /\ c \in asked /\ asked' = asked \ {c}
    /\ \/ /\ c.what = "risk" /\ Fresh(c)
          /\ risk' \in {c.text, "none"} /\ UNCHANGED list
       \/ c.what = "risk" /\ ~Fresh(c) /\ UNCHANGED <<risk, list>>
       \/ c.what = "complete" /\ list' \in {c.text, "none"} /\ UNCHANGED risk
    /\ UNCHANGED <<entered, edited, seq, timer, typed, wiped, work, asking>>

-----------------------------------------------------------------------------
(* Commands under way.                                                     *)

Begin(e, byHand) ==
    /\ begun < MaxJobs /\ begun' = begun + 1
    /\ jobs' = [jobs EXCEPT ![begun'] = [entry |-> e, at |-> 1, phase |-> "stream",
                                         typed |-> byHand]]

\* submitCommandInputAsync
Submit ==
    /\ ~busy /\ entered # Empty
    /\ entered' = Empty /\ edited' = 0 /\ list' = "none" /\ wiped' = FALSE
    /\ Schedule("none", Completions)
    /\ busy' = TRUE /\ Begin(entered, TRUE)
    /\ UNCHANGED <<asked, typed, asking>>

\* runSavedWorkflow, from its dialog or the palette, whatever is under way.
RunWorkflow(e) ==
    /\ \A i \in DOMAIN e : Kind[e[i]] # "ask"
    /\ Begin(e, FALSE)
    /\ UNCHANGED <<line, busy, asking>>

Current(j) == jobs[j].entry[jobs[j].at]

\* A step has ended: after one that succeeded, or was rehearsed, the next follows.
Ended(j, ok) ==
    IF ok /\ jobs[j].at < Len(jobs[j].entry)
    THEN jobs' = [jobs EXCEPT ![j].at = @ + 1] /\ UNCHANGED busy
    ELSE /\ jobs' = [jobs EXCEPT ![j] = NoJob]
         /\ busy' = (busy /\ ~jobs[j].typed)

Streaming(j, kind) == jobs[j].phase = "stream" /\ Kind[Current(j)] = kind

\* clearTerminalLines and the workflow commands; one that runs a workflow counts as done
\* whatever became of it.
RunLocal(j) ==
    /\ Streaming(j, "local") /\ Ended(j, TRUE) /\ UNCHANGED <<line, begun, asking>>

Raise(kind, c, low, card, auto) ==
    /\ raised < MaxApprovals /\ raised' = raised + 1
    /\ appr' = [appr EXCEPT ![raised'] =
                  [kind |-> kind, command |-> c, low |-> low, server |-> "open",
                   card |-> card, auto |-> auto]]

\* /api/run/stream: the step's outcome, or an error; one that needs approval raises a
\* card and counts as unsuccessful.
RunStreamed(j) ==
    /\ Streaming(j, "run")
    /\ \/ \E ok \in BOOLEAN : Ended(j, ok) /\ UNCHANGED <<appr, raised>>
       \/ Raise("command", Current(j), FALSE, "shown", FALSE) /\ Ended(j, FALSE)
    /\ UNCHANGED <<line, begun, rules, posts, clicked>>

Parked(j) == \E i \in Ids : appr[i].kind = "agent" /\ appr[i].server = "open"
                              /\ appr[i].command = Current(j)

Post(i, yes, by) == posts \cup {[id |-> i, yes |-> yes, by |-> by, reply |-> "none"]}

\* An agent's request for approval: a rule approves it (maybeAutoApproveAgentRequest), or
\* a card is shown.
AgentAsks(j) ==
    /\ Streaming(j, "ask") /\ ~Parked(j)
    /\ \E low \in BOOLEAN :
         IF low /\ Current(j) \in rules
         THEN /\ Raise("agent", Current(j), low, "none", TRUE)
              /\ posts' = Post(raised + 1, TRUE, "auto")
         ELSE Raise("agent", Current(j), low, "shown", FALSE) /\ UNCHANGED posts
    /\ UNCHANGED <<line, work, rules, clicked>>

AskEnds(j) ==
    /\ Streaming(j, "ask") /\ ~Parked(j)
    /\ Ended(j, TRUE) /\ UNCHANGED <<line, begun, asking>>

-----------------------------------------------------------------------------
(* Approvals.                                                              *)

\* Approve or Decline, once; Auto approve also adds the command to the rules.
Click(i, yes) ==
    /\ appr[i].card = "shown"
    /\ appr' = [appr EXCEPT ![i].card = IF yes THEN "yes" ELSE "no"]
    /\ clicked' = [clicked EXCEPT ![i] = IF yes THEN "yes" ELSE "no"]
    /\ posts' = Post(i, yes, "card")
    /\ \/ UNCHANGED rules
       \/ /\ yes /\ appr[i].kind = "agent" /\ appr[i].low
          /\ rules' = rules \cup {appr[i].command}
    /\ UNCHANGED <<line, work, raised>>

\* The server takes one answer, and none once it has given up on the approval.
Serve(p) ==
    /\ p.reply = "none"
    /\ IF appr[p.id].server = "open"
       THEN /\ appr' = [appr EXCEPT ![p.id].server = IF p.yes THEN "yes" ELSE "no"]
            /\ posts' = (posts \ {p}) \cup {[p EXCEPT !.reply = "ok"]}
       ELSE posts' = (posts \ {p}) \cup {[p EXCEPT !.reply = "missing"]} /\ UNCHANGED appr
    /\ UNCHANGED <<line, work, raised, rules, clicked>>

GiveUp(i) ==
    /\ appr[i].server = "open" /\ appr' = [appr EXCEPT ![i].server = "no"]
    /\ UNCHANGED <<line, work, raised, rules, posts, clicked>>

\* The connection is lost, before the server has served the answer or after.
Lose(p) ==
    /\ p.reply # "lost"
    /\ posts' = (posts \ {p}) \cup {[p EXCEPT !.reply = "lost"]}
    /\ UNCHANGED <<line, work, appr, raised, rules, clicked>>

\* Mistake: any answer to a click will do.
Replied_AnyStatus(by, ok) == IF by = "card" THEN "told" ELSE IF ok THEN "none" ELSE "shown"

\* What a reply, of this status, makes of a card.  A rule's answer has no card; if it
\* fails, one is shown, and a person answers.
Replied(by, ok) ==
    CASE by = "card" -> IF ok THEN "told" ELSE "failed"
      [] by = "auto" -> IF ok THEN "none" ELSE "shown"

Reply(p) ==
    /\ p.reply # "none" /\ posts' = posts \ {p}
    /\ appr' = [appr EXCEPT ![p.id].card = Replied(p.by, p.reply = "ok")]
    /\ UNCHANGED <<line, work, raised, rules, clicked>>

Next ==
    \/ \E e \in Entries : RunWorkflow(e) \/ \E i \in DOMAIN e : TypeText(e, i)
    \/ ClearInput \/ Submit
    \/ \E c \in timer : Fires(c)
    \/ \E c \in asked : Shown(c)
    \/ \E j \in Jobs : RunLocal(j) \/ RunStreamed(j) \/ AgentAsks(j) \/ AskEnds(j)
    \/ \E i \in Ids : GiveUp(i) \/ \E yes \in BOOLEAN : Click(i, yes)
    \/ \E p \in posts : Serve(p) \/ Lose(p) \/ Reply(p)

Spec == Init /\ [][Next]_vars

-----------------------------------------------------------------------------
(* Properties.                                                             *)

\* The risk shown is that of the line that was edited last, as it is now, however late and
\* in whatever order the previews are answered; only after ^C is an old one left on an
\* empty line.  Of a batch it is the risk of that line alone (scheduleRiskPreview,
\* currentInputSegment, previewCommandRisk).
RiskShownIsCurrent ==
    risk # "none" => wiped \/ (edited \in DOMAIN entered /\ risk = entered[edited])

\* A card whose answer was sent without a failure was answered on the server as it was
\* clicked, though the server may have given up on it, or a rule's answer thought lost
\* may have been first; and nothing is approved unless by a click or by a rule (decide,
\* maybeAutoApproveAgentRequest, sendAgentApproval, runApprovedIdel).
AnswersTold ==
    \A i \in Ids :
        /\ appr[i].card = "told" => appr[i].server = clicked[i]
        /\ appr[i].server = "yes" => appr[i].auto \/ clicked[i] = "yes"
=============================================================================
