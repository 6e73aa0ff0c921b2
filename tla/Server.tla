-------------------------------- MODULE Server --------------------------------
(***************************************************************************)
(* The local HTTP server (packages/server/src/server.ts and service.ts)    *)
(* with the agents it drives (packages/agent/src/agent.ts, cli-agent.ts):  *)
(* agent streams that stop at a human's gate, direct commands and batches  *)
(* that policy sends back for approval, and the two tables of pending      *)
(* approvals.                                                              *)
(*                                                                         *)
(* Handlers interleave at every await: the language model's turn, each     *)
(* service.run and the gate.  A settled promise is continued before the    *)
(* next request or timer, so settling a gate and what follows up to the    *)
(* next await is one step.  What policy decides about a command may be     *)
(* another thing each time it is asked, as the files have changed.         *)
(***************************************************************************)
EXTENDS Integers, Sequences, FiniteSets

CONSTANTS
    Streams,        \* POST /api/agent/stream
    Runs,           \* POST /api/run, /api/run/stream and the editor's routes
    Commands,
    Decisions,      \* what policy may decide about each of them
    Turns,          \* the tool calls a model may propose in one turn
    Leaving,        \* the handlers whose client may disconnect
    AllowReal,      \* the streams that ask for real execution
    Sdk,            \* the streams of an IdelAgent; the others are IdelCliAgents
    MaxSteps,       \* IdelAgent.maxSteps
    MaxCalls,       \* bound on the calls of a turn
    MaxBatch,       \* and on the commands of a batch
    Asks,           \* what each run may ask
    Cap,            \* PendingRunApprovals holds as many
    Faults          \* TRUE: the runtime and the model may throw

Calls == {"native", "query", "dry", "real"}
Actions == {"allow", "require_dry_run", "approval_required", "block"}

ASSUME ServerAssumption ==
    /\ Streams \cap Runs = {}
    /\ Decisions \in [Commands -> SUBSET Actions]
    /\ Turns \subseteq Seq([call : Calls, command : Commands])
    /\ \A t \in Turns : Len(t) <= MaxCalls
    /\ AllowReal \subseteq Streams /\ Sdk \subseteq Streams
    /\ Leaving \subseteq Streams \cup Runs
    /\ MaxSteps \in Nat \ {0} /\ MaxCalls \in Nat /\ MaxBatch \in Nat
    /\ Cap \in Nat \ {0} /\ Faults \in BOOLEAN
    /\ \A r \in Runs : \A b \in Asks[r] :
          /\ b.commands \in Seq(Commands) /\ Len(b.commands) \in 1 .. MaxBatch
          /\ b.dryRun \in BOOLEAN /\ b.editor \in BOOLEAN
          /\ b.host \in {"loopback", "other"} /\ b.bearer \in BOOLEAN
          /\ b.origin \in {"none", "same", "other"}

VARIABLES
    serving,        \* the server is open, closing or closed
    stage,          \* where each handler is
    gone,           \* those whose client has disconnected
    todo, round,    \* a stream's calls left in this turn, and its turns so far
    minted,         \* how many approvals a stream has asked for
    gates,          \* PendingApprovals.pending: <<stream, number>>
    body, results,  \* what a run asked, and the results of its steps so far
    pending,        \* PendingRunApprovals.pending, oldest first
    late,           \* the ids in it whose time has passed
    resuming,       \* approved requests that are being run
    shown,          \* the ids a client was told, with the command it was shown
    answer,         \* how each id was settled
    effects         \* what was executed, by which step or approval

handlers == <<stage, gone, todo, round, minted, body, results>>
vars == <<serving, handlers, gates, pending, late, resuming, shown, answer, effects>>

Handlers == Streams \cup Runs
Ids == (Streams \X (1 .. MaxSteps * MaxCalls)) \cup (Runs \X (1 .. MaxBatch))

Init ==
    /\ serving = "open"
    /\ stage = [h \in Handlers |-> "idle"] /\ gone = {}
    /\ todo = [s \in Streams |-> <<>>] /\ round = [s \in Streams |-> 0]
    /\ minted = [s \in Streams |-> 0] /\ gates = {}
    /\ body = [r \in Runs |-> <<>>] /\ results = [r \in Runs |-> <<>>]
    /\ pending = <<>> /\ late = {} /\ resuming = {}
    /\ shown = {} /\ answer = [i \in Ids |-> "none"] /\ effects = {}

Goto(h, s) == stage' = [stage EXCEPT ![h] = s]
Active(h) == stage[h] \notin {"idle", "ended"}

-----------------------------------------------------------------------------
\* makeContext and Runtime.run: without an answer an approval is sent back.
Results(action, approve, dry) ==
    CASE action = "block" -> {"blocked"}
      [] action = "approval_required" /\ approve = "no" -> {"blocked"}
      [] action = "approval_required" /\ approve = "none" -> {"approval_required"}
      [] dry \/ action = "require_dry_run" -> {"dry_run"}
      [] OTHER -> {"success", "failed"}

Times(id, approved) == Cardinality({e \in effects : e.id = id /\ e.approved = approved})

\* One call of service.run; what it does is remembered with what it was done for.
Perform(id, command, action, result, approved) ==
    effects' = IF result \in {"success", "failed"}
               THEN effects \cup {[id |-> id, command |-> command, action |-> action,
                                   approved |-> approved, nth |-> Times(id, approved) + 1]}
               ELSE effects

\* The boundary of every request: host, origin and bearer.
Admitted(b) == b.host = "loopback" /\ b.origin # "other" /\ b.bearer

-----------------------------------------------------------------------------
\* An agent is asked for; or refused, as there is none or nothing is asked.
AskAgent(s) ==
    /\ serving = "open" /\ stage[s] = "idle"
    /\ Goto(s, "plan") \/ Goto(s, "ended")
    /\ UNCHANGED <<serving, gone, todo, round, minted, body, results, gates, pending, late,
                   resuming, shown, answer, effects>>

\* Where a stream goes on with what is left of its turn.
Onward(rest, turns) ==
    IF rest # <<>> THEN "rehearse" ELSE IF turns < MaxSteps THEN "plan" ELSE "ended"

\* Mistake: the turns are not counted.
Turn_Uncounted(s, t) ==
    /\ stage[s] = "plan"
    /\ Goto(s, IF t = <<>> THEN "ended" ELSE "rehearse")
    /\ todo' = [todo EXCEPT ![s] = t]
    /\ UNCHANGED <<serving, gone, round, minted, body, results, gates, pending, late,
                   resuming, shown, answer, effects>>

\* The model's turn: some calls, or none, which ends the stream; or it fails.
Turn(s, t) ==
    /\ stage[s] = "plan"
    /\ Goto(s, IF t = <<>> THEN "ended" ELSE "rehearse")
    /\ todo' = [todo EXCEPT ![s] = t]
    /\ round' = [round EXCEPT ![s] = @ + 1]
    /\ UNCHANGED <<serving, gone, minted, body, results, gates, pending, late, resuming,
                   shown, answer, effects>>

TurnFails(s) ==
    /\ Faults /\ stage[s] = "plan"
    /\ Goto(s, "ended")
    /\ UNCHANGED <<serving, gone, todo, round, minted, body, results, gates, pending, late,
                   resuming, shown, answer, effects>>

NextCall(s) ==
    /\ todo' = [todo EXCEPT ![s] = Tail(@)]
    /\ Goto(s, Onward(Tail(todo[s]), round[s]))

\* A model's native commands are rejected unseen, and queries change nothing; the others
\* are first run dry.
Pass(s) ==
    /\ stage[s] = "rehearse" /\ Head(todo[s]).call \in {"native", "query"}
    /\ NextCall(s)
    /\ UNCHANGED <<serving, gone, round, minted, body, results, gates, pending, late, resuming,
                   shown, answer, effects>>

WantsReal(s) == Head(todo[s]).call = "real" /\ s \in AllowReal

\* The gate: a new approval is put to the client, if there is one.
Park(s) ==
    LET id == <<s, minted[s] + 1>> IN
    /\ minted' = [minted EXCEPT ![s] = @ + 1]
    /\ gates' = gates \cup {id}
    /\ shown' = IF s \in gone THEN shown
                ELSE shown \cup {[id |-> id, command |-> Head(todo[s]).command]}
    /\ Goto(s, "parked")

\* Its dry run is over: what is not blocked may be wanted for real.
Rehearsed(s) ==
    /\ stage[s] = "rehearse" /\ Head(todo[s]).call \in {"dry", "real"}
    /\ \E action \in Decisions[Head(todo[s]).command] :
          IF action = "block" \/ ~WantsReal(s)
          THEN NextCall(s) /\ UNCHANGED <<minted, gates, shown>>
          ELSE Park(s) /\ UNCHANGED todo
    /\ UNCHANGED <<serving, gone, round, body, results, pending, late, resuming, answer,
                   effects>>

\* Settling the gates of some streams, all alike: each goes on to the real run or to
\* its next call.
Settle(ss, yes) ==
    /\ gates' = {g \in gates : g[1] \notin ss}
    /\ answer' = [i \in Ids |-> IF i \in gates /\ i[1] \in ss
                                THEN IF yes THEN "yes" ELSE "no"
                                ELSE answer[i]]
    /\ stage' = [h \in Handlers |-> CASE h \notin ss -> stage[h]
                                      [] h \in ss /\ yes -> "real"
                                      [] OTHER -> Onward(Tail(todo[h]), round[h])]
    /\ todo' = [s \in Streams |-> IF s \in ss /\ ~yes THEN Tail(todo[s]) ELSE todo[s]]

ParkedOf(S) == {s \in S : stage[s] = "parked"}

\* POST /api/agent/approve, by whoever was told the id; any other time it is a 404.
AnswerGate(id, yes) ==
    /\ serving = "open" /\ \E x \in shown : x.id = id
    /\ id \in gates
    /\ Settle({id[1]}, yes)
    /\ UNCHANGED <<serving, gone, round, minted, body, results, pending, late, resuming,
                   shown, effects>>

\* Mistake: a gate has no timer.
GateTimeout_Never(s) == FALSE

\* Mistake: the timer denies the promise and leaves the id in the table.
GateTimeout_KeepsId(s) ==
    /\ stage[s] = "parked"
    /\ NextCall(s)
    /\ UNCHANGED <<serving, gone, round, minted, body, results, gates, pending, late, resuming,
                   shown, answer, effects>>

\* Five minutes have passed.
GateTimeout(s) ==
    /\ stage[s] = "parked"
    /\ Settle({s}, FALSE)
    /\ UNCHANGED <<serving, gone, round, minted, body, results, pending, late, resuming,
                   shown, effects>>

\* The approved command is run for real, with the human's yes for policy too.
RealRun(s) ==
    LET command == Head(todo[s]).command IN
    /\ stage[s] = "real"
    /\ \E action \in Decisions[command] : \E result \in Results(action, "yes", FALSE) :
          Perform(<<s, minted[s]>>, command, action, result, TRUE)
    /\ NextCall(s)
    /\ UNCHANGED <<serving, gone, round, minted, body, results, gates, pending, late,
                   resuming, shown, answer>>

\* service.run throws: IdelAgent tells its model, IdelCliAgent ends the stream.  A
\* real run may have acted before.
CallThrows(s) ==
    LET command == Head(todo[s]).command IN
    /\ Faults /\ stage[s] \in {"rehearse", "real"} /\ Head(todo[s]).call # "native"
    /\ IF s \in Sdk THEN NextCall(s) ELSE Goto(s, "ended") /\ UNCHANGED todo
    /\ \/ UNCHANGED effects
       \/ /\ stage[s] = "real"
          /\ \E a \in Decisions[command] \cap {"allow", "approval_required"} :
                Perform(<<s, minted[s]>>, command, a, "failed", TRUE)
    /\ UNCHANGED <<serving, gone, round, minted, body, results, gates, pending, late,
                   resuming, shown, answer>>

-----------------------------------------------------------------------------
\* A command or a batch arrives.
Post(r, b) ==
    /\ serving = "open" /\ stage[r] = "idle"
    /\ body' = [body EXCEPT ![r] = b]
    /\ Goto(r, IF Admitted(b) THEN "running" ELSE "ended")
    /\ UNCHANGED <<serving, gone, todo, round, minted, results, gates, pending, late,
                   resuming, shown, answer, effects>>

At(r) == Len(results[r]) + 1
StepOf(r) == body[r].commands[At(r)]

\* Mistake: a rehearsed step counts as done.
batchStepSucceeded_DryCounts(result, dryRun) == result \in {"success", "dry_run"}

batchStepSucceeded(result, dryRun) ==
    result = "success" \/ (dryRun /\ result = "dry_run")

IdsOf(items) == {items[i].id : i \in DOMAIN items}

\* create(): what has expired goes, the oldest as all are kept equally long; then one more
\* if there is still no room.
Room(items) ==
    LET expired == {k \in DOMAIN items : \A j \in 1 .. k : items[j].id \in late}
        kept == SubSeq(items, Cardinality(expired) + 1, Len(items))
    IN  IF Len(kept) >= Cap THEN Tail(kept) ELSE kept

\* Mistake: the whole request is kept, and a batch starts over.
Bound_WholeBatch(r) ==
    [id |-> <<r, At(r)>>, command |-> Head(body[r].commands), dryRun |-> body[r].dryRun]

\* bindRunApproval: the step that asked, as the server understood it.
Bound(r) == [id |-> <<r, At(r)>>, command |-> StepOf(r), dryRun |-> body[r].dryRun]

\* Ids that are in the table no longer were settled with no.
Dropped(old, new) ==
    [i \in Ids |-> IF i \in IdsOf(old) \ IdsOf(new) THEN "no" ELSE answer[i]]

BindApproval(r) ==
    LET x == Bound(r)
        kept == Append(Room(pending), x)
    IN  /\ pending' = kept
        /\ late' = late \cap IdsOf(kept)
        /\ answer' = Dropped(pending, kept)
        /\ shown' = IF r \in gone THEN shown
                    ELSE shown \cup {[id |-> x.id, command |-> StepOf(r)]}

\* One step of a run is over.  The editor's own commands are not bound.
RunStep(r) ==
    /\ stage[r] = "running"
    /\ \E action \in Decisions[StepOf(r)] :
       \E result \in Results(action, "none", body[r].dryRun) :
          /\ Perform(<<r, At(r)>>, StepOf(r), action, result, FALSE)
          /\ results' = [results EXCEPT ![r] = Append(@, result)]
          /\ IF At(r) < Len(body[r].commands) /\ batchStepSucceeded(result, body[r].dryRun)
             THEN UNCHANGED stage ELSE Goto(r, "ended")
          /\ IF result = "approval_required" /\ ~body[r].editor
             THEN BindApproval(r) ELSE UNCHANGED <<pending, late, answer, shown>>
    /\ UNCHANGED <<serving, gone, todo, round, minted, body, gates, resuming>>

RunThrows(r) ==
    /\ Faults /\ stage[r] = "running"
    /\ Goto(r, "ended")
    /\ \/ UNCHANGED effects
       \/ /\ "allow" \in Decisions[StepOf(r)] /\ ~body[r].dryRun
          /\ Perform(<<r, At(r)>>, StepOf(r), "allow", "failed", FALSE)
    /\ UNCHANGED <<serving, gone, todo, round, minted, body, results, gates, pending, late,
                   resuming, shown, answer>>

\* Mistake: the id is given up only when the approved run has ended.
Approve_KeepsId(id, yes) ==
    /\ serving = "open" /\ \E x \in shown : x.id = id
    /\ \E k \in DOMAIN pending :
          /\ pending[k].id = id /\ id \notin late
          /\ resuming' = resuming \cup {[request |-> pending[k], yes |-> yes]}
    /\ answer' = [answer EXCEPT ![id] = IF yes THEN "yes" ELSE "no"]
    /\ UNCHANGED <<serving, handlers, gates, pending, late, shown, effects>>

\* POST /api/run/approve consumes the id; a late one is a 404.
Approve(id, yes) ==
    /\ serving = "open" /\ \E x \in shown : x.id = id
    /\ \E k \in DOMAIN pending :
          /\ pending[k].id = id
          /\ pending' = SubSeq(pending, 1, k - 1) \o SubSeq(pending, k + 1, Len(pending))
          /\ late' = late \ {id}
          /\ IF id \in late
             THEN resuming' = resuming /\ answer' = [answer EXCEPT ![id] = "no"]
             ELSE /\ resuming' = resuming \cup {[request |-> pending[k], yes |-> yes]}
                  /\ answer' = [answer EXCEPT ![id] = IF yes THEN "yes" ELSE "no"]
    /\ UNCHANGED <<serving, handlers, gates, shown, effects>>

\* The request is run again, with the answer.
Resume(x) ==
    /\ \E action \in Decisions[x.request.command] :
       \E result \in Results(action, IF x.yes THEN "yes" ELSE "no", x.request.dryRun) :
          Perform(x.request.id, x.request.command, action, result, TRUE)
    /\ resuming' = resuming \ {x}
    /\ UNCHANGED <<serving, handlers, gates, pending, late, shown, answer>>

\* Time passes for the oldest approval that is still good.
Expire ==
    /\ \E k \in DOMAIN pending :
          /\ pending[k].id \notin late /\ \A j \in 1 .. k - 1 : pending[j].id \in late
          /\ late' = late \cup {pending[k].id}
    /\ UNCHANGED <<serving, handlers, gates, pending, resuming, shown, answer, effects>>

-----------------------------------------------------------------------------
\* The client of a handler goes away.  A parked stream is denied; everything else
\* goes on unseen.
Disconnect(h) ==
    /\ h \in Leaving /\ Active(h) /\ h \notin gone
    /\ gone' = gone \cup {h}
    /\ Settle(ParkedOf({h} \cap Streams), FALSE)
    /\ UNCHANGED <<serving, round, minted, body, results, pending, late, resuming, shown,
                   effects>>

\* close(): both tables are emptied, and no further request is taken.
Close ==
    /\ serving = "open"
    /\ serving' = "closing"
    /\ gates' = {} /\ pending' = <<>> /\ late' = {}
    /\ answer' = [i \in Ids |-> IF i \in gates \cup IdsOf(pending) THEN "no" ELSE answer[i]]
    /\ LET ss == ParkedOf(Streams) IN
       /\ stage' = [h \in Handlers |->
                       IF h \in ss THEN Onward(Tail(todo[h]), round[h]) ELSE stage[h]]
       /\ todo' = [s \in Streams |-> IF s \in ss THEN Tail(todo[s]) ELSE todo[s]]
    /\ UNCHANGED <<gone, round, minted, body, results, resuming, shown, effects>>

\* ... and it resolves when the last connection is closed.
Closed ==
    /\ serving = "closing"
    /\ \A h \in Handlers : Active(h) => h \in gone
    /\ resuming = {}
    /\ serving' = "closed"
    /\ UNCHANGED <<handlers, gates, pending, late, resuming, shown, answer, effects>>

\* What goes on by itself: awaited work, and the timer of a gate.
Proceed(h) ==
    IF h \in Streams
    THEN \/ \E t \in Turns : Turn(h, t)
         \/ TurnFails(h) \/ CallThrows(h) \/ GateTimeout(h)
         \/ Pass(h) \/ Rehearsed(h) \/ RealRun(h)
    ELSE RunStep(h) \/ RunThrows(h)

Resumed == \E x \in resuming : Resume(x)

Next ==
    \/ \E s \in Streams : AskAgent(s)
    \/ \E r \in Runs : \E b \in Asks[r] : Post(r, b)
    \/ \E h \in Handlers : Proceed(h) \/ Disconnect(h)
    \/ \E i \in Ids, yes \in BOOLEAN : AnswerGate(i, yes) \/ Approve(i, yes)
    \/ Resumed \/ Expire \/ Close \/ Closed

Spec == Init /\ [][Next]_vars

\* Models and runs answer, as both have their time limits; timers fire.  There is
\* only so much of it to do, so that it need not be fair to each of them.
Work == Resumed \/ Closed \/ \E h \in Handlers : Proceed(h)

FairSpec == Spec /\ WF_vars(Work)

-----------------------------------------------------------------------------
StagesTyped ==
    /\ stage \in [Handlers -> {"idle", "plan", "rehearse", "parked", "real", "running", "ended"}]
    /\ \A s \in Streams : stage[s] # "running"
    /\ \A r \in Runs : stage[r] \in {"idle", "running", "ended"}
HandlersTyped ==
    /\ gone \subseteq Handlers
    /\ todo \in [Streams -> Seq([call : Calls, command : Commands])]
    /\ round \in [Streams -> 0 .. MaxSteps] /\ minted \in [Streams -> Nat]
    /\ DOMAIN body = Runs /\ \A r \in Runs : stage[r] # "idle" => body[r] \in Asks[r]
    /\ results \in [Runs -> Seq({"success", "failed", "dry_run", "blocked", "approval_required"})]
ApprovalsTyped ==
    /\ gates \subseteq Ids /\ answer \in [Ids -> {"none", "yes", "no"}]
    /\ pending \in Seq([id : Ids, command : Commands, dryRun : BOOLEAN])
    /\ late \subseteq IdsOf(pending)
    /\ resuming \subseteq [request : [id : Ids, command : Commands, dryRun : BOOLEAN],
                           yes : BOOLEAN]
    /\ shown \subseteq [id : Ids, command : Commands]
EffectsTyped ==
    /\ effects \subseteq [id : Ids, command : Commands, action : Actions, approved : BOOLEAN,
                          nth : Nat]
    /\ IsFiniteSet(effects)
TypeOK ==
    /\ serving \in {"open", "closing", "closed"}
    /\ StagesTyped /\ HandlersTyped /\ ApprovalsTyped /\ EffectsTyped

\* The tables agree with the handlers: a stream is parked on exactly one gate, its
\* latest; an id is in one table at most and not settled while it is there.
TablesAgree ==
    /\ \A s \in Streams :
          {g \in gates : g[1] = s} = IF stage[s] = "parked" THEN {<<s, minted[s]>>} ELSE {}
    /\ \A g \in gates : g[1] \in Streams /\ answer[g] = "none"
    /\ Len(pending) <= Cap
    /\ \A k \in DOMAIN pending : pending[k].id[1] \in Runs /\ answer[pending[k].id] = "none"
    /\ \A j, k \in DOMAIN pending : pending[j].id = pending[k].id => j = k

\* A stream asks for a call at a time, and only in its turns: so the ids suffice.
Outstanding(s) == Len(todo[s]) - IF stage[s] \in {"parked", "real"} THEN 1 ELSE 0
Proceeding(s) ==
    /\ stage[s] \in {"rehearse", "parked", "real"} => todo[s] # <<>>
    /\ stage[s] \in {"parked", "real"} => minted[s] > 0
    /\ stage[s] \in {"idle", "plan"} => round[s] < MaxSteps
    /\ stage[s] # "ended" => minted[s] + Outstanding(s) <= round[s] * MaxCalls

\* An id that nobody has asked with is not settled, shown or acted on.
Given(id) == IF id[1] \in Streams THEN id[2] <= minted[id[1]] ELSE id[2] <= Len(results[id[1]])
UnusedIds ==
    /\ \A i \in Ids : ~Given(i) => answer[i] = "none"
    /\ \A x \in shown : Given(x.id)
    /\ \A e \in effects : e.approved => answer[e.id] # "none"

\* What a stream is parked on, or runs, is what was shown; and no effect yet.
Current(s) == <<s, minted[s]>>
AskedOfAgent(s) ==
    /\ stage[s] = "parked" =>
          \A x \in shown : x.id = Current(s) => x.command = Head(todo[s]).command
    /\ stage[s] = "real" =>
          /\ answer[Current(s)] = "yes"
          /\ [id |-> Current(s), command |-> Head(todo[s]).command] \in shown
          /\ \A e \in effects : e.id # Current(s)

\* A request that waits for an answer, or is run with one, is the step at which its run
\* stopped, as it was shown; and no effect of the approval yet.
StoppedAt(x) ==
    LET r == x.id[1] IN
    /\ r \in Runs /\ stage[r] = "ended" /\ x.id[2] = Len(results[r])
    /\ x.id[2] \in DOMAIN body[r].commands
    /\ results[r][x.id[2]] = "approval_required"
    /\ x.command = body[r].commands[x.id[2]] /\ x.dryRun = body[r].dryRun
AskedOfRun ==
    /\ \A x \in shown : x.id[1] \in Runs => x.command = body[x.id[1]].commands[x.id[2]]
    /\ \A k \in DOMAIN pending : StoppedAt(pending[k])
    /\ \A x \in resuming :
          /\ StoppedAt(x.request) /\ answer[x.request.id] = IF x.yes THEN "yes" ELSE "no"
          /\ [id |-> x.request.id, command |-> x.request.command] \in shown
          /\ \A e \in effects : e.approved => e.id # x.request.id
          /\ \A y \in resuming : y.request.id = x.request.id => y = x

\* A batch goes on behind steps that succeeded.
Behind(r) ==
    /\ \A i \in 1 .. Len(results[r]) :
          i < Len(results[r]) \/ stage[r] = "running"
          => batchStepSucceeded(results[r][i], body[r].dryRun)
    /\ stage[r] = "idle" => results[r] = <<>>
    /\ stage[r] = "running" => At(r) \in DOMAIN body[r].commands
    /\ \A e \in effects :
          e.id[1] = r => stage[r] # "idle" /\ ~body[r].dryRun /\ e.id[2] <= At(r)

ServerInv ==
    /\ TypeOK /\ TablesAgree /\ UnusedIds /\ AskedOfRun
    /\ \A s \in Streams : Proceeding(s) /\ AskedOfAgent(s)
    /\ \A r \in Runs : Behind(r)

\* What is executed on the strength of an approval is executed once, is the very
\* command the person was shown with that id, and was not executed by an agent
\* without a yes; a command that policy holds back needs the yes of its id.
ApprovedAsShown ==
    \A e \in effects :
        /\ e.approved => e.nth = 1 /\ [id |-> e.id, command |-> e.command] \in shown
        /\ e.id[1] \in Streams => e.approved /\ answer[e.id] = "yes"
        /\ e.action = "approval_required" => e.approved /\ answer[e.id] = "yes"

\* What a batch executes, it executes behind steps that all succeeded, and nothing
\* behind a step that did not, also when that step is approved and run later.
BatchInOrder ==
    \A e \in effects : e.id[1] \in Runs =>
        LET outcomes == results[e.id[1]] IN
        /\ \A i \in 1 .. e.id[2] - 1 : outcomes[i] = "success"
        /\ e.approved => outcomes[e.id[2]] = "approval_required" /\ Len(outcomes) = e.id[2]

\* A person's answer to a refused question is the end of it.  (service.ts: "or `false`
\* to record a refusal".)
RefusedIsNotRun ==
    \A e \in effects : e.approved => answer[e.id] = "yes"

\* The approvals are those of the abstract specification.
ApprovalStatus(i) ==
    IF i \in gates \cup IdsOf(pending) THEN "open"
    ELSE CASE answer[i] = "yes" -> "granted"
           [] answer[i] = "no" -> "denied"
           [] OTHER -> "none"

Approvals == INSTANCE Approval WITH
    status <- [i \in Ids |-> ApprovalStatus(i)],
    acted <- {e.id : e \in {f \in effects : f.approved /\ (f.id[1] \in Streams \/ f.action = "approval_required")}}
ApprovalSpec == Approvals!Spec

\* A stream ends whatever its model says and whether its client answers, goes away or
\* forgets; and a shutdown is completed, though agents were parked at a gate when it
\* began.
ServerSettles ==
    /\ \A s \in Streams : Active(s) ~> stage[s] = "ended"
    /\ serving = "closing" ~> serving = "closed"
=============================================================================
