------------------------------- MODULE Runtime -------------------------------
(***************************************************************************)
(* Runtime.run and Runtime.preview (packages/runtime/src/runtime.ts):      *)
(* concurrent calls of one Runtime object, each classified, decided by     *)
(* policy, perhaps approved by a human, executed and recorded, with the    *)
(* latch that stops the object after a lost audit record.                  *)
(*                                                                         *)
(* A run moves on its own between awaits and others run at every await:    *)
(* assertReady, the resolved assessment, the approval handler, the         *)
(* execution and the append.  The log is what OpenLogWriter makes of it:   *)
(* an append may fail, with or without its record in the log.              *)
(***************************************************************************)
EXTENDS Policy, FiniteSets

CONSTANTS
    Runs,           \* calls of run(), each made at most once
    Requests,       \* what calls may ask: input and context
    RequestsOf,     \* which of them each call may make
    FileFacts,      \* what the resolved assessment may find
    Configs,        \* options of the Runtime object
    Installed,      \* the approval handlers a host may install
    IoFaults,       \* TRUE: the log may fail
    Crashes,        \* TRUE: the process may die
    None

Origins == {"idel", "ci", "agent", "native"}
Kinds == {"syntax", "unknown", "invalid", "native", "meta", "idel"}
Modes == {"fail-closed", "warn-and-continue"}
\* No approval handler; that of the CLI without and with --yes; a human's.
Handlers == {"absent", "refuse", "yes", "human"}

ASSUME RuntimeAssumption ==
    /\ FileFacts \subseteq Facts
    /\ Installed \subseteq Handlers
    /\ IoFaults \in BOOLEAN /\ Crashes \in BOOLEAN
    /\ RequestsOf \in [Runs -> SUBSET Requests]
    /\ None \notin Requests \cup FileFacts
    /\ \A q \in Requests :
          /\ q.kind \in Kinds /\ q.cmd \in Commands
          /\ q.defs \in SUBSET Defs /\ q.defs # {}
          /\ q.scan \in {"HIGH", "CRITICAL"}
          /\ q.source \in Origins
          /\ q.plan \in {"none", "ok", "unsafe", "throws", "archive"}
          /\ q.approval \in {"none", "yes", "no"}
          /\ q.ci \in BOOLEAN /\ q.noNative \in BOOLEAN /\ q.dryRun \in BOOLEAN
    /\ \A k \in Configs :
          /\ k.writer \in BOOLEAN /\ k.mode \in Modes
          /\ Len(k.policy) \in Nat /\ DOMAIN k.policy = 1 .. Len(k.policy)
          /\ \A i \in DOMAIN k.policy : k.policy[i].action \in Actions

VARIABLES
    conf,           \* policy, writer and audit failure mode; constant
    handler,        \* the approval handler installed now
    latch,          \* auditFailure is set
    pc,             \* where each run is
    req,            \* what it was asked
    seen,           \* what its resolved assessment found
    asked,          \* the handler it asked
    risk, action,   \* its effective risk and the policy's action
    granted,        \* the caller or the handler said yes
    verdict,        \* the result its record has or will have
    effects,        \* the runs that changed the system
    recorded,       \* the runs whose record is in the log
    warned          \* the runs whose missing record was reported

decided == <<req, seen, asked, risk, action, granted, verdict>>
vars == <<conf, handler, latch, pc, decided, effects, recorded, warned>>

States == {"idle", "ready", "parse", "enforce", "asking", "execute", "running", "append",
           "done", "latched", "rejected", "lost", "dead"}
Verdicts == {"none", "blocked_before_execution", "approval_required", "dry_run",
             "success", "failed"}
Settled == {"done", "latched", "rejected", "lost", "dead"}

Init ==
    /\ conf \in Configs
    /\ handler \in Installed
    /\ latch = FALSE
    /\ pc = [r \in Runs |-> "idle"]
    /\ req = [r \in Runs |-> None]
    /\ seen = [r \in Runs |-> None]
    /\ asked = [r \in Runs |-> "absent"]
    /\ risk = [r \in Runs |-> "LOW"]
    /\ action = [r \in Runs |-> "none"]
    /\ granted = [r \in Runs |-> FALSE]
    /\ verdict = [r \in Runs |-> "none"]
    /\ effects = {} /\ recorded = {} /\ warned = {}

At(r, s) == pc[r] = s
Goto(r, s) == pc' = [pc EXCEPT ![r] = s]
SetVerdict(r, v) == verdict' = [verdict EXCEPT ![r] = v]
SetRisk(r, l) == risk' = [risk EXCEPT ![r] = l]
SetAction(r, a) == action' = [action EXCEPT ![r] = a]
KeepShared == UNCHANGED <<conf, handler, latch, recorded, warned>>

\* finish(): the run has its result and goes to write it.
Finish(r, v) == Goto(r, "append") /\ SetVerdict(r, v)

-----------------------------------------------------------------------------
\* The risk pipeline of runIdel: every definition that matters in both phases, the
\* resolved one unless the first already forbids, or it throws.
Assessed(q, fs) ==
    {assessAst(q.cmd, d) : d \in q.defs} \cup
    {assessResolved(q.cmd, d, fs) :
        d \in {e \in q.defs : assessAst(q.cmd, e) # "CRITICAL" /\ ~fs.fails}}

\* Mistake: an unknown extent is not an extent to worry about.
EffectiveRisk_NoEstimateNeeded(q, fs) == HighestOf(Assessed(q, fs))

EffectiveRisk(q, fs) ==
    LET level == HighestOf(Assessed(q, fs))
        estimated == \E d \in q.defs :
                        assessAst(q.cmd, d) # "CRITICAL" /\ Estimated(q.cmd, d, fs)
    IN  IF (\E d \in q.defs : d.requiresEstimate) /\ ~estimated
        THEN higherRisk(level, "HIGH")
        ELSE level

\* The same as a function.
Risks == [q \in Requests |-> [fs \in FileFacts |-> EffectiveRisk(q, fs)]]

Decision(q, level) ==
    evaluate([risk |-> level, command |-> q.command, source |-> q.source,
              environment |-> q.environment, params |-> q.params], conf.policy)

NativeDecision(q) ==
    evaluate([risk |-> q.scan, command |-> <<"native", "run">>, source |-> "native",
              environment |-> q.environment, params |-> <<>>], conf.policy)

\* Any of the three reasons to simulate.
DryRun(r) ==
    \/ req[r].dryRun
    \/ action[r] = "require_dry_run"
    \/ "dryRun" \in DOMAIN req[r].params /\ req[r].params["dryRun"] = TRUE

-----------------------------------------------------------------------------
\* A call of run(): the latch, then assertReady if a missing log would be fatal.
BeginLatched(r) ==
    /\ At(r, "idle") /\ latch
    /\ Goto(r, "latched")
    /\ KeepShared /\ UNCHANGED <<decided, effects>>

\* Otherwise a log that could not take the record is found before the execution.
FirstStep == IF conf.writer /\ conf.mode = "fail-closed" THEN "ready" ELSE "parse"

Begin(r, q) ==
    /\ At(r, "idle") /\ ~latch
    /\ req' = [req EXCEPT ![r] = q]
    /\ Goto(r, FirstStep)
    /\ KeepShared /\ UNCHANGED <<seen, asked, risk, action, granted, verdict, effects>>

AssertReady(r) ==
    /\ At(r, "ready")
    /\ Goto(r, "parse") \/ (IoFaults /\ Goto(r, "rejected"))
    /\ KeepShared /\ UNCHANGED <<decided, effects>>

\* A syntax error, an unknown command, parameters that do not fit: a failed
\* outcome, which is recorded.
Fail(r) ==
    /\ At(r, "parse") /\ req[r].kind \in {"syntax", "unknown", "invalid"}
    /\ SetAction(r, "block") /\ Finish(r, "failed")
    /\ KeepShared /\ UNCHANGED <<req, seen, asked, risk, granted, effects>>

\* Native passthrough is switched off.
RefuseNative(r) ==
    /\ At(r, "parse") /\ req[r].kind = "native" /\ req[r].noNative
    /\ SetRisk(r, "HIGH") /\ SetAction(r, "block")
    /\ Finish(r, "blocked_before_execution")
    /\ KeepShared /\ UNCHANGED <<req, seen, asked, granted, effects>>

ClassifyNative(r) ==
    /\ At(r, "parse") /\ req[r].kind = "native" /\ ~req[r].noNative
    /\ SetRisk(r, req[r].scan) /\ SetAction(r, NativeDecision(req[r]))
    /\ Goto(r, "enforce")
    /\ KeepShared /\ UNCHANGED <<req, seen, asked, granted, verdict, effects>>

\* The registry's definition is assessed and policy decides.
Classify(r, fs) ==
    LET level == Risks[req[r]][fs] IN
    /\ At(r, "parse") /\ req[r].kind \in {"meta", "idel"}
    /\ ~(req[r].kind = "idel" /\ req[r].plan \in {"unsafe", "throws"})
    /\ SetRisk(r, level) /\ SetAction(r, Decision(req[r], level))
    /\ seen' = [seen EXCEPT ![r] = fs]
    /\ Goto(r, "enforce")
    /\ KeepShared /\ UNCHANGED <<req, asked, granted, verdict, effects>>

\* The adapter refuses to plan a value that looks like an option.
BlockUnsafe(r, fs) ==
    /\ At(r, "parse") /\ req[r].kind = "idel" /\ req[r].plan = "unsafe"
    /\ SetRisk(r, higherRisk(Risks[req[r]][fs], "HIGH"))
    /\ SetAction(r, "block")
    /\ seen' = [seen EXCEPT ![r] = fs]
    /\ Finish(r, "blocked_before_execution")
    /\ KeepShared /\ UNCHANGED <<req, asked, granted, effects>>

\* Any other failure to plan rejects run(): nothing is recorded.
PlanThrows(r) ==
    /\ At(r, "parse") /\ req[r].kind = "idel" /\ req[r].plan = "throws"
    /\ Goto(r, "rejected")
    /\ KeepShared /\ UNCHANGED <<decided, effects>>

-----------------------------------------------------------------------------
\* enforceAndExecute, and handleMeta for a meta command.
Block(r) ==
    /\ At(r, "enforce")
    /\ \/ action[r] = "block"
       \/ action[r] = "approval_required" /\ req[r].approval = "no"
    /\ Finish(r, "blocked_before_execution")
    /\ KeepShared /\ UNCHANGED <<req, seen, asked, risk, action, granted, effects>>

NobodyToAsk(r) ==
    /\ At(r, "enforce") /\ action[r] = "approval_required" /\ req[r].approval = "none"
    /\ req[r].ci \/ handler = "absent"
    /\ Finish(r, "approval_required")
    /\ KeepShared /\ UNCHANGED <<req, seen, asked, risk, action, granted, effects>>

\* The handler installed by now is called.
Ask(r) ==
    /\ At(r, "enforce") /\ action[r] = "approval_required" /\ req[r].approval = "none"
    /\ ~req[r].ci /\ handler # "absent"
    /\ asked' = [asked EXCEPT ![r] = handler]
    /\ Goto(r, "asking")
    /\ KeepShared /\ UNCHANGED <<req, seen, risk, action, granted, verdict, effects>>

Pass(r) ==
    /\ At(r, "enforce")
    /\ \/ action[r] \notin {"block", "approval_required"} /\ UNCHANGED granted
       \/ /\ action[r] = "approval_required" /\ req[r].approval = "yes"
          /\ granted' = [granted EXCEPT ![r] = TRUE]
    /\ Goto(r, "execute")
    /\ KeepShared /\ UNCHANGED <<req, seen, asked, risk, action, verdict, effects>>

\* What the handler may say: a human anything, --yes anything but CRITICAL.
MayGrant(r) == asked[r] = "human" \/ (asked[r] = "yes" /\ risk[r] # "CRITICAL")
MayDeny(r)  == asked[r] # "yes" \/ risk[r] = "CRITICAL"

Granted(r) ==
    /\ At(r, "asking") /\ MayGrant(r)
    /\ granted' = [granted EXCEPT ![r] = TRUE]
    /\ Goto(r, "execute")
    /\ KeepShared /\ UNCHANGED <<req, seen, asked, risk, action, verdict, effects>>

\* Mistake: a refusal asks again.
Denied_AsksAgain(r) ==
    /\ At(r, "asking") /\ MayDeny(r)
    /\ Goto(r, "enforce")
    /\ KeepShared /\ UNCHANGED <<decided, effects>>

\* Mistake: only the answer yes is looked at, and no goes on as well.
Denied_GoesOn(r) ==
    /\ At(r, "asking") /\ MayDeny(r)
    /\ Goto(r, "execute")
    /\ KeepShared /\ UNCHANGED <<decided, effects>>

Denied(r) ==
    /\ At(r, "asking") /\ MayDeny(r)
    /\ Finish(r, "blocked_before_execution")
    /\ KeepShared /\ UNCHANGED <<req, seen, asked, risk, action, granted, effects>>

\* A prompt that breaks rejects run() itself: nothing is recorded.
PromptBreaks(r) ==
    /\ At(r, "asking") /\ asked[r] = "human"
    /\ Goto(r, "rejected")
    /\ KeepShared /\ UNCHANGED <<decided, effects>>

\* A meta command only works on the runtime's own data, dry run or not; one that
\* cannot read the log rejects run().
RunMeta(r) ==
    /\ At(r, "execute") /\ req[r].kind = "meta"
    /\ \/ \E v \in {"success", "failed"} : Finish(r, v)
       \/ IoFaults /\ Goto(r, "rejected") /\ UNCHANGED verdict
    /\ KeepShared /\ UNCHANGED <<req, seen, asked, risk, action, granted, effects>>

Executable(r) == req[r].kind = "native" \/ (req[r].kind = "idel" /\ req[r].plan # "none")

NoAdapter(r) ==
    /\ At(r, "execute") /\ req[r].kind = "idel" /\ req[r].plan = "none"
    /\ Finish(r, "failed")
    /\ KeepShared /\ UNCHANGED <<req, seen, asked, risk, action, granted, effects>>

\* What an adapter would do may be impossible to tell.
Simulate(r) ==
    /\ At(r, "execute") /\ Executable(r) /\ DryRun(r)
    /\ Finish(r, "dry_run") \/ (req[r].kind = "idel" /\ Finish(r, "failed"))
    /\ KeepShared /\ UNCHANGED <<req, seen, asked, risk, action, granted, effects>>

\* The archive's entries are inspected before it is extracted.
RefuseArchive(r) ==
    /\ At(r, "execute") /\ req[r].kind = "idel" /\ req[r].plan = "archive" /\ ~DryRun(r)
    /\ Finish(r, "failed")
    /\ KeepShared /\ UNCHANGED <<req, seen, asked, risk, action, granted, effects>>

\* Mistake: only the caller's own flag makes a run dry.
Perform_OnlyContextIsDry(r) ==
    /\ At(r, "execute") /\ Executable(r) /\ ~req[r].dryRun
    /\ effects' = effects \cup {r}
    /\ Goto(r, "running")
    /\ KeepShared /\ UNCHANGED decided

\* The adapter, or the shell of a native command, sets to work ...
Perform(r) ==
    /\ At(r, "execute") /\ Executable(r) /\ ~DryRun(r)
    /\ effects' = effects \cup {r}
    /\ Goto(r, "running")
    /\ KeepShared /\ UNCHANGED decided

\* ... and ends, well or not.
Finished(r) ==
    /\ At(r, "running")
    /\ \E v \in {"success", "failed"} : Finish(r, v)
    /\ KeepShared /\ UNCHANGED <<req, seen, asked, risk, action, granted, effects>>

-----------------------------------------------------------------------------
\* finish(): the record is appended, if there is a log.
Record(r) ==
    /\ At(r, "append")
    /\ recorded' = IF conf.writer THEN recorded \cup {r} ELSE recorded
    /\ Goto(r, "done")
    /\ UNCHANGED <<conf, handler, latch, decided, effects, warned>>

\* An append that fails may still have left its record.
MaybeRecorded(r) == recorded' \in {recorded, recorded \cup {r}}

\* Mistake: one warning is enough.
WarnAndContinue_Once(r) ==
    /\ At(r, "append") /\ conf.writer /\ IoFaults /\ conf.mode = "warn-and-continue"
    /\ MaybeRecorded(r)
    /\ warned' = IF warned = {} THEN {r} ELSE warned
    /\ Goto(r, "done")
    /\ UNCHANGED <<conf, handler, latch, decided, effects>>

WarnAndContinue(r) ==
    /\ At(r, "append") /\ conf.writer /\ IoFaults /\ conf.mode = "warn-and-continue"
    /\ MaybeRecorded(r)
    /\ warned' = warned \cup {r}
    /\ Goto(r, "done")
    /\ UNCHANGED <<conf, handler, latch, decided, effects>>

\* Mistake: the error reaches the caller but the object goes on.
LoseRecord_NoLatch(r) ==
    /\ At(r, "append") /\ conf.writer /\ IoFaults /\ conf.mode = "fail-closed"
    /\ MaybeRecorded(r)
    /\ Goto(r, "lost")
    /\ UNCHANGED <<conf, handler, latch, decided, effects, warned>>

\* AuditAppendError, which latches.
LoseRecord(r) ==
    /\ At(r, "append") /\ conf.writer /\ IoFaults /\ conf.mode = "fail-closed"
    /\ MaybeRecorded(r)
    /\ latch' = TRUE
    /\ Goto(r, "lost")
    /\ UNCHANGED <<conf, handler, decided, effects, warned>>

\* The terminal installs its prompt.
setApprovalHandler(h) ==
    /\ h # handler
    /\ handler' = h
    /\ UNCHANGED <<conf, latch, pc, decided, effects, recorded, warned>>

\* The process dies, and with it the latch; calls made after that are those of a
\* new one.
Crash ==
    /\ Crashes
    /\ pc' = [r \in Runs |-> IF pc[r] \in Settled \cup {"idle"} THEN pc[r] ELSE "dead"]
    /\ latch' = FALSE
    /\ pc' # pc \/ latch
    /\ UNCHANGED <<conf, handler, decided, effects, recorded, warned>>

\* What happens without anybody's doing.
Step(r) ==
    \/ AssertReady(r) \/ Fail(r) \/ PlanThrows(r) \/ RefuseNative(r) \/ ClassifyNative(r)
    \/ \E fs \in FileFacts : Classify(r, fs) \/ BlockUnsafe(r, fs)
    \/ Block(r) \/ NobodyToAsk(r) \/ Ask(r) \/ Pass(r)
    \/ RunMeta(r) \/ NoAdapter(r) \/ Simulate(r) \/ RefuseArchive(r)
    \/ Perform(r) \/ Finished(r)
    \/ Record(r) \/ WarnAndContinue(r) \/ LoseRecord(r)

Answer(r) == Granted(r) \/ Denied(r) \/ PromptBreaks(r)

Next ==
    \/ \E r \in Runs : \/ BeginLatched(r) \/ \E q \in RequestsOf[r] : Begin(r, q)
                       \/ Step(r) \/ Answer(r)
    \/ \E h \in Installed : setApprovalHandler(h)
    \/ Crash

Spec == Init /\ [][Next]_vars

\* Awaited work ends.  A human need not answer; the CLI's handler does.
FairSpec ==
    /\ Spec
    /\ \A r \in Runs : WF_vars(Step(r)) /\ WF_vars(asked[r] # "human" /\ Answer(r))

-----------------------------------------------------------------------------
\* preview(): what a command would meet with, from its own copy of the pipeline, to
\* be shown before the command is run.
previewFailure == [risk |-> "LOW", action |-> "block"]

previewNative(q) ==
    IF q.noNative THEN [risk |-> "HIGH", action |-> "block"]
    ELSE [risk |-> q.scan,
          action |-> evaluate([risk |-> q.scan, command |-> <<"native", "run">>,
                               source |-> "native", environment |-> q.environment,
                               params |-> <<>>], conf.policy)]

\* The definitions the resolved phase is run for.
previewLooked(q, fs) ==
    IF fs.fails THEN {} ELSE {d \in q.defs : assessAst(q.cmd, d) # "CRITICAL"}

previewLevel(q, fs) ==
    HighestOf({assessAst(q.cmd, d) : d \in q.defs}
              \cup {assessResolved(q.cmd, d, fs) : d \in previewLooked(q, fs)})

\* Mistake: run learned of the gate on an unknown extent, preview did not.
previewRisk_Ungated(q, fs) == previewLevel(q, fs)

\* The gate on a command whose extent must be known and is not.
previewRisk(q, fs) ==
    IF /\ \E d \in q.defs : d.requiresEstimate
       /\ ~\E d \in previewLooked(q, fs) : Estimated(q.cmd, d, fs)
       /\ previewLevel(q, fs) # "CRITICAL"
    THEN higherRisk(previewLevel(q, fs), "HIGH")
    ELSE previewLevel(q, fs)

previewIdel(q, fs) ==
    IF q.kind = "idel" /\ q.plan = "unsafe"
    THEN [risk |-> higherRisk(previewRisk(q, fs), "HIGH"), action |-> "block"]
    ELSE [risk |-> previewRisk(q, fs),
          action |-> evaluate([risk |-> previewRisk(q, fs), command |-> q.command,
                               source |-> q.source, environment |-> q.environment,
                               params |-> q.params], conf.policy)]

preview(q, fs) ==
    CASE q.kind \in {"syntax", "unknown", "invalid"} -> previewFailure
      [] q.kind = "native" -> previewNative(q)
      [] OTHER -> previewIdel(q, fs)

-----------------------------------------------------------------------------
TypeOK ==
    /\ conf \in Configs /\ handler \in Installed /\ latch \in BOOLEAN
    /\ pc \in [Runs -> States]
    /\ req \in [Runs -> Requests \cup {None}] /\ seen \in [Runs -> FileFacts \cup {None}]
    /\ asked \in [Runs -> Handlers]
    /\ risk \in [Runs -> Levels] /\ action \in [Runs -> Actions \cup {"none"}]
    /\ granted \in [Runs -> BOOLEAN] /\ verdict \in [Runs -> Verdicts]
    /\ effects \subseteq Runs /\ recorded \subseteq Runs /\ warned \subseteq Runs

\* A run that got as far as its decision has a request, and one the runtime knows.
Asked(r) == pc[r] \notin {"idle", "latched"} => req[r] \in Requests

\* Policy may let a CRITICAL command through for approval only.
FloorKept(r) ==
    risk[r] = "CRITICAL" => action[r] \in {"none", "approval_required", "block"}

\* Permission, once there, is that of the decision.
Permitted(r) ==
    \/ action[r] \in {"allow", "warn"}
    \/ action[r] = "approval_required" /\ granted[r]

GrantedByRight(r) ==
    granted[r] => action[r] = "approval_required" /\ (req[r].approval = "yes" \/ MayGrant(r))

\* The verdicts that say nothing was done.
Undone == {"blocked_before_execution", "approval_required", "dry_run"}

\* How far a run can be with, and without, its decision, its permission and its
\* effect.
InOrder(r) ==
    /\ pc[r] \in {"idle", "latched", "ready", "parse"} =>
          action[r] = "none" /\ verdict[r] = "none" /\ ~granted[r]
    /\ pc[r] \in {"enforce", "asking", "execute", "running"} =>
          /\ action[r] # "none" /\ verdict[r] = "none"
          /\ req[r].kind \in {"native", "meta", "idel"}
    /\ pc[r] \in {"enforce", "asking"} => ~granted[r]
    /\ pc[r] = "asking" => action[r] = "approval_required"
    /\ pc[r] = "execute" => Permitted(r) \/ action[r] = "require_dry_run"
    /\ pc[r] = "running" => r \in effects
    /\ pc[r] \in {"append", "done", "lost"} => verdict[r] # "none"
    /\ pc[r] = "done" /\ conf.writer => r \in recorded \cup warned
    /\ action[r] # "none" /\ req[r].kind \in {"meta", "idel"} => seen[r] \in FileFacts
    /\ verdict[r] = "success" => r \in effects \/ req[r].kind = "meta"
    /\ r \in effects =>
          /\ pc[r] \in {"running", "append", "done", "lost", "dead"}
          /\ Permitted(r) /\ Executable(r) /\ ~DryRun(r)
          /\ verdict[r] \in {"none", "success", "failed"}

RunOk(r) == Asked(r) /\ FloorKept(r) /\ GrantedByRight(r) /\ InOrder(r)

RuntimeInv == TypeOK /\ \A r \in Runs : RunOk(r)

\* Nothing is done to the system unless policy let it.  What is rehearsed, by the
\* caller's, the command's or the policy's wish, has no effect; where policy wants an
\* approval it was given, by the caller or by the handler that was asked; and for a
\* CRITICAL command by the caller or a person, --yes is not enough.
EffectsPermitted ==
    \A r \in effects :
        /\ ~req[r].dryRun
        /\ "dryRun" \in DOMAIN req[r].params => req[r].params["dryRun"] # TRUE
        /\ action[r] \in {"allow", "warn", "approval_required"}
        /\ action[r] = "approval_required" =>
              /\ granted[r]
              /\ req[r].approval = "yes" \/ asked[r] \in {"human", "yes"}
        /\ risk[r] = "CRITICAL" =>
              /\ action[r] = "approval_required" /\ granted[r]
              /\ req[r].approval = "yes" \/ asked[r] = "human"

\* The risk a command is decided at is not below what any of its definitions says,
\* shadowed or not; a link to a place whose loss is total is seen through; and a
\* destructive command whose extent must be known is not LOW or MEDIUM when it is
\* not.
NothingSoftened ==
    \A r \in Runs :
        LET q == req[r]
            fs == seen[r]
            \* What the resolved phase was used for.
            resolved == {d \in q.defs : assessAst(q.cmd, d) # "CRITICAL" /\ ~fs.fails}
        IN  action[r] # "none" /\ q.kind \in {"idel", "meta"} =>
              /\ \A d \in q.defs :
                    RISK_ORDER(risk[r]) >= RISK_ORDER(assessAst(q.cmd, d))
              /\ (\E d \in resolved : Target(q.cmd, d) # "none") /\ fs.link \in Protected =>
                    risk[r] = "CRITICAL"
              /\ (\E d \in q.defs : d.requiresEstimate)
                 /\ (\A d \in resolved : ~Estimated(q.cmd, d, fs)) =>
                    risk[r] \in {"HIGH", "CRITICAL"}

\* The audit trail can be believed: a run whose record says that nothing was done
\* did nothing, one that succeeded did something, and what was done is in the log
\* unless the caller heard that it is not or the process died in between.
AuditTrailHolds ==
    \A r \in Runs :
        /\ r \in recorded /\ verdict[r] \in Undone => r \notin effects
        /\ r \in recorded /\ verdict[r] = "success" => r \in effects \/ req[r].kind = "meta"
        /\ r \in effects /\ pc[r] \in Settled /\ conf.writer =>
              r \in recorded \cup warned \/ pc[r] \in {"lost", "dead"}

\* The two copies of the pipeline have not drifted apart: for what a run saw, preview
\* shows the risk and the decision the run came to.
PreviewAgrees ==
    \A r \in Runs :
        action[r] # "none" =>
            preview(req[r], seen[r]) = [risk |-> risk[r], action |-> action[r]]

\* A run reports what its record says, a rejection that nothing was done; to lose
\* the record shuts the gate.
Report(r) ==
    CASE pc[r] = "lost" -> "lost"
      [] pc[r] = "rejected" -> "refused"
      [] pc[r] = "done" -> IF verdict[r] \in Undone THEN "refused" ELSE "done"
      [] OTHER -> "none"

Gate == INSTANCE CommandGate WITH
            begun <- {r \in Runs : req[r] # None},
            permitted <- {r \in Runs : Permitted(r)},
            report <- [r \in Runs |-> Report(r)],
            open <- ~latch
GateSpec == Gate!Spec

\* Every run settles, or waits for a human's answer.
EveryRunSettles ==
    \A r \in Runs :
        pc[r] # "idle" ~> pc[r] \in Settled \/ (pc[r] = "asking" /\ asked[r] = "human")
=============================================================================
