---------------------------- MODULE Runtime_proofs ----------------------------
(***************************************************************************)
(* Proofs about Runtime: the policy floor, the invariant of a run's way    *)
(* through the pipeline, what may have effects, what the audit trail says, *)
(* and that the pipeline implements CommandGate.                           *)
(***************************************************************************)
EXTENDS Runtime, TLAPS, WellFoundedInduction, NaturalsInduction

-----------------------------------------------------------------------------
\* Levels are ordered, and the highest of some is one of the levels, at least each
\* of them.
LEMMA HighestBounds ==
    ASSUME NEW S, S \subseteq Levels
    PROVE  /\ HighestOf(S) \in Levels
           /\ \A l \in S : RISK_ORDER(HighestOf(S)) >= RISK_ORDER(l)
           /\ HighestOf(S) \in S \cup {"LOW"}
BY DEF HighestOf, Levels, RISK_ORDER

\* The higher of two levels is a level at least each of them.
LEMMA HigherBounds ==
    ASSUME NEW a \in Levels, NEW b \in Levels
    PROVE  /\ higherRisk(a, b) \in Levels
           /\ RISK_ORDER(higherRisk(a, b)) >= RISK_ORDER(a)
           /\ RISK_ORDER(higherRisk(a, b)) >= RISK_ORDER(b)
BY DEF higherRisk, Levels, RISK_ORDER

\* Nothing is above CRITICAL, and what is at least HIGH is one of two levels.
LEMMA TopLevels ==
    ASSUME NEW a \in Levels
    PROVE  /\ RISK_ORDER(a) >= RISK_ORDER("CRITICAL") => a = "CRITICAL"
           /\ RISK_ORDER(a) >= RISK_ORDER("HIGH") => a \in {"HIGH", "CRITICAL"}
BY DEF Levels, RISK_ORDER

\* The rules of classifyTarget yield levels.
LEMMA ClassifyLevels ==
    ASSUME NEW place, NEW cmd, NEW destructive
    PROVE  classifyTarget(place, cmd, destructive) \subseteq Levels
BY DEF classifyTarget, CodeLevel, Levels

\* Both phases yield levels.
LEMMA AssessLevels ==
    ASSUME NEW cmd, NEW def \in Defs, NEW fs
    PROVE  /\ assessAst(cmd, def) \in Levels
           /\ ResolvedLevels(cmd, def, fs) \subseteq Levels
           /\ assessResolved(cmd, def, fs) \in Levels
<1> def.riskDefault \in Levels
    BY DEF Defs
<1>1. EmptyTarget(def) \subseteq Levels
    BY DEF EmptyTarget, Levels
<1>2. assessAst(cmd, def) \in Levels
    <2> DEFINE S == IF Target(cmd, def) = "none" THEN EmptyTarget(def)
                    ELSE classifyTarget(cmd.place, cmd, def.destructive)
    <2>1. S \subseteq Levels
        BY <1>1, ClassifyLevels
    <2>2. HighestOf(S) \in Levels
        BY <2>1, HighestBounds
    <2> QED
        BY <2>2, HigherBounds DEF assessAst, finalize, Target
<1>3. ResolvedLevels(cmd, def, fs) \subseteq Levels
    BY <1>1, ClassifyLevels DEF ResolvedLevels, Levels
<1>4. assessResolved(cmd, def, fs) \in Levels
    <2> DEFINE U == /\ def.destructive /\ cmd.glob # "no" /\ Target(cmd, def) # "none"
                    /\ "CRITICAL" \notin ResolvedLevels(cmd, def, fs) /\ ~fs.walked
               S == ResolvedLevels(cmd, def, fs) \cup (IF U THEN {"MEDIUM"} ELSE {})
    <2>1. S \subseteq Levels
        BY <1>3 DEF Levels
    <2>2. HighestOf(S) \in Levels
        BY <2>1, HighestBounds
    <2>3. assessResolved(cmd, def, fs) = finalize(S, def)
        BY DEF assessResolved
    <2> QED
        BY <2>2, <2>3, HigherBounds DEF finalize
<1> QED
    BY <1>2, <1>3, <1>4

-----------------------------------------------------------------------------
\* Every set of naturals that is not empty has a least one.
LEMMA LeastExists ==
    ASSUME NEW T, T \subseteq Nat, T # {}
    PROVE  \E i \in T : \A j \in T : i <= j
<1> DEFINE R == OpToRel(<, Nat)
<1>1. IsWellFoundedOn(R, Nat)
    BY NatLessThanWellFounded
<1>2. PICK x \in T : \A y \in T : ~(<<y, x>> \in R)
    <2> HIDE DEF R
    <2> QED
        BY <1>1, WFMin
<1>3. \A y \in T : y \in Nat /\ x \in Nat /\ ~(y < x)
    BY <1>2 DEF OpToRel
<1> QED
    BY <1>3

\* A rule list as the configurations hold them.
IsPolicy(rules) ==
    /\ Len(rules) \in Nat /\ DOMAIN rules = 1 .. Len(rules)
    /\ \A i \in DOMAIN rules : rules[i].action \in Actions

\* evaluate yields an action, for every input with a level and every policy.
LEMMA EvaluateAction ==
    ASSUME NEW input, input.risk \in Levels, NEW rules, IsPolicy(rules)
    PROVE  evaluate(input, rules) \in Actions
<1> DEFINE M == Matching(input, rules)
           first == CHOOSE i \in M : \A j \in M : i <= j
<1>1. CASE M = {}
    BY <1>1 DEF evaluate, defaultActionForRisk, Actions, Levels
<1>2. CASE M # {}
    <2>1. M \subseteq Nat
        BY DEF Matching, IsPolicy
    <2>2. \E i \in M : \A j \in M : i <= j
        <3> HIDE DEF M
        <3> QED
            BY <1>2, <2>1, LeastExists
    <2>3. first \in M
        BY <2>2
    <2>4. rules[first].action \in Actions
        BY <2>3 DEF Matching, IsPolicy
    <2>5. evaluate(input, rules) = Floored(rules[first].action, input.risk)
        BY <1>2 DEF evaluate
    <2> HIDE DEF first
    <2> QED
        BY <2>4, <2>5 DEF Floored, Actions
<1> QED
    BY <1>1, <1>2

\* The hard floor of packages/policy: whatever the rules, in whatever order, a
\* CRITICAL command is blocked or needs an explicit approval.
THEOREM CriticalFloor ==
    ASSUME NEW input, input.risk = "CRITICAL", NEW rules, IsPolicy(rules)
    PROVE  evaluate(input, rules) \in {"approval_required", "block"}
<1>1. evaluate(input, rules) \in Actions
    BY EvaluateAction DEF Levels
<1>2. evaluate(input, rules) \notin {"allow", "warn", "require_dry_run"}
    BY DEF evaluate, Floored, defaultActionForRisk
<1> QED
    BY <1>1, <1>2 DEF Actions
-----------------------------------------------------------------------------
\* The assessments of a request are levels.
LEMMA AssessedLevels ==
    ASSUME NEW q \in Requests, NEW fs \in FileFacts
    PROVE  Assessed(q, fs) \subseteq Levels
<1>1. q.defs \subseteq Defs
    BY RuntimeAssumption
<1> QED
    BY <1>1, AssessLevels DEF Assessed

\* The effective risk is a level, and at least each of the assessments.
LEMMA EffectiveBounds ==
    ASSUME NEW q \in Requests, NEW fs \in FileFacts
    PROVE  /\ EffectiveRisk(q, fs) \in Levels
           /\ \A l \in Assessed(q, fs) : RISK_ORDER(EffectiveRisk(q, fs)) >= RISK_ORDER(l)
<1> DEFINE level == HighestOf(Assessed(q, fs))
           E == EffectiveRisk(q, fs)
<1>1. /\ level \in Levels
      /\ \A l \in Assessed(q, fs) : l \in Levels /\ RISK_ORDER(level) >= RISK_ORDER(l)
    BY AssessedLevels, HighestBounds
<1>2. E = level \/ E = higherRisk(level, "HIGH")
    BY DEF EffectiveRisk
<1>3. "HIGH" \in Levels
    BY DEF Levels
<1> HIDE DEF level, E
<1>4. E \in Levels /\ RISK_ORDER(E) >= RISK_ORDER(level)
    BY <1>1, <1>2, <1>3, HigherBounds, HigherBounds DEF Levels, RISK_ORDER
<1>5. ASSUME NEW l \in Assessed(q, fs)
      PROVE  RISK_ORDER(E) >= RISK_ORDER(l)
    BY <1>1, <1>4, <1>5 DEF RISK_ORDER, Levels
<1> QED
    BY <1>4, <1>5 DEF E
-----------------------------------------------------------------------------
\* What another run's step leaves of a run, and of the runtime.
Same(s) ==
    /\ conf' = conf
    /\ pc'[s] = pc[s] /\ req'[s] = req[s] /\ seen'[s] = seen[s] /\ asked'[s] = asked[s]
    /\ risk'[s] = risk[s] /\ action'[s] = action[s] /\ granted'[s] = granted[s]
    /\ verdict'[s] = verdict[s]
    /\ s \in effects' <=> s \in effects
    /\ s \in recorded' <=> s \in recorded
    /\ s \in warned' <=> s \in warned

\* A run nothing happens to stays as it should be.
LEMMA Frame ==
    ASSUME NEW s \in Runs, RunOk(s), Same(s)
    PROVE  RunOk(s)'
BY DEF Same, RunOk, Asked, FloorKept, GrantedByRight, MayGrant, InOrder, Permitted,
       Executable, DryRun

\* The configuration holds a policy.
LEMMA ConfPolicy ==
    ASSUME TypeOK
    PROVE  IsPolicy(conf.policy)
BY RuntimeAssumption DEF TypeOK, IsPolicy

\* Decisions are actions, and CRITICAL ones keep the floor.
LEMMA Decisions ==
    ASSUME TypeOK, NEW q \in Requests, NEW level \in Levels
    PROVE  /\ Decision(q, level) \in Actions
           /\ level = "CRITICAL" => Decision(q, level) \in {"approval_required", "block"}
           /\ NativeDecision(q) \in Actions
           /\ q.scan = "CRITICAL" => NativeDecision(q) \in {"approval_required", "block"}
           /\ q.scan \in Levels
<1>1. q.scan \in Levels
    BY RuntimeAssumption DEF Levels
<1>2. IsPolicy(conf.policy)
    BY ConfPolicy
<1>3. Decision(q, level) \in Actions
    BY <1>2, EvaluateAction DEF Decision
<1>4. NativeDecision(q) \in Actions
    BY <1>1, <1>2, EvaluateAction DEF NativeDecision
<1>5. level = "CRITICAL" => Decision(q, level) \in {"approval_required", "block"}
    BY <1>2, CriticalFloor DEF Decision
<1>6. q.scan = "CRITICAL" => NativeDecision(q) \in {"approval_required", "block"}
    BY <1>2, CriticalFloor DEF NativeDecision
<1> QED
    BY <1>1, <1>3, <1>4, <1>5, <1>6

\* A step of one run: the types hold, it is as it should be, the others are left
\* alone.
Kept(r) == TypeOK' /\ RunOk(r)' /\ \A s \in Runs \ {r} : Same(s)

\* The call, the readiness check, and a plan that breaks.
LEMMA BeginKeeps ==
    ASSUME RuntimeInv, NEW r \in Runs,
           \/ BeginLatched(r) \/ (\E q \in RequestsOf[r] : Begin(r, q))
           \/ AssertReady(r) \/ PlanThrows(r)
    PROVE  Kept(r)
<1> USE DEF Kept, Same, KeepShared, decided, At, Goto, Finish, SetVerdict, SetRisk,
            SetAction, RuntimeInv, TypeOK, States, Verdicts, RunOk, Asked, FloorKept,
            GrantedByRight, MayGrant, InOrder, Permitted, Executable, DryRun
<1>1. CASE BeginLatched(r)
    BY <1>1 DEF BeginLatched
<1>2. ASSUME NEW q \in RequestsOf[r], Begin(r, q)
      PROVE  Kept(r)
    BY <1>2, RuntimeAssumption DEF Begin, FirstStep
<1>3. CASE AssertReady(r)
    BY <1>3 DEF AssertReady
<1>4. CASE PlanThrows(r)
    BY <1>4 DEF PlanThrows
<1> QED
    BY <1>1, <1>2, <1>3, <1>4

\* finish().
LEMMA SettleKeeps ==
    ASSUME RuntimeInv, NEW r \in Runs,
           Record(r) \/ WarnAndContinue(r) \/ LoseRecord(r)
    PROVE  Kept(r)
<1> USE DEF Kept, Same, KeepShared, decided, At, Goto, Finish, SetVerdict, SetRisk,
            SetAction, RuntimeInv, TypeOK, States, Verdicts, RunOk, Asked, FloorKept,
            GrantedByRight, MayGrant, InOrder, Permitted, Executable, DryRun
<1>1. CASE Record(r)
    BY <1>1 DEF Record
<1>2. CASE WarnAndContinue(r)
    BY <1>2 DEF WarnAndContinue, MaybeRecorded
<1>3. CASE LoseRecord(r)
    BY <1>3 DEF LoseRecord, MaybeRecorded
<1> QED
    BY <1>1, <1>2, <1>3

\* The decision is carried out: block, ask or pass.
LEMMA EnforceKeeps ==
    ASSUME RuntimeInv, NEW r \in Runs,
           Block(r) \/ NobodyToAsk(r) \/ Ask(r) \/ Pass(r)
    PROVE  Kept(r)
<1> USE DEF Kept, Same, KeepShared, decided, At, Goto, Finish, SetVerdict, SetRisk,
            SetAction, RuntimeInv, TypeOK, States, Verdicts, RunOk, Asked, FloorKept,
            GrantedByRight, MayGrant, InOrder, Permitted, Executable, DryRun
<1>1. CASE Block(r)
    BY <1>1 DEF Block, Actions
<1>2. CASE NobodyToAsk(r)
    BY <1>2 DEF NobodyToAsk, Actions
<1>3. CASE Ask(r)
    BY <1>3, RuntimeAssumption DEF Ask, Handlers
<1>4. CASE Pass(r)
    BY <1>4 DEF Pass, Actions
<1> QED
    BY <1>1, <1>2, <1>3, <1>4

\* The handler answers.
LEMMA AnswerKeeps ==
    ASSUME RuntimeInv, NEW r \in Runs,
           Granted(r) \/ Denied(r) \/ PromptBreaks(r)
    PROVE  Kept(r)
<1> USE DEF Kept, Same, KeepShared, decided, At, Goto, Finish, SetVerdict, SetRisk,
            SetAction, RuntimeInv, TypeOK, States, Verdicts, RunOk, Asked, FloorKept,
            GrantedByRight, MayGrant, InOrder, Permitted, Executable, DryRun
<1>1. CASE Granted(r)
    BY <1>1 DEF Granted
<1>2. CASE Denied(r)
    BY <1>2 DEF Denied
<1>3. CASE PromptBreaks(r)
    BY <1>3 DEF PromptBreaks
<1> QED
    BY <1>1, <1>2, <1>3

\* The execution, or what takes its place.
LEMMA ExecuteKeeps ==
    ASSUME RuntimeInv, NEW r \in Runs,
           \/ RunMeta(r) \/ NoAdapter(r) \/ Simulate(r) \/ RefuseArchive(r)
           \/ Perform(r) \/ Finished(r)
    PROVE  Kept(r)
<1> USE DEF Kept, Same, KeepShared, decided, At, Goto, Finish, SetVerdict, SetRisk,
            SetAction, RuntimeInv, TypeOK, States, Verdicts, RunOk, Asked, FloorKept,
            GrantedByRight, MayGrant, InOrder, Permitted, Executable, DryRun
<1>1. CASE RunMeta(r)
    BY <1>1 DEF RunMeta
<1>2. CASE NoAdapter(r)
    BY <1>2 DEF NoAdapter
<1>3. CASE Simulate(r)
    BY <1>3 DEF Simulate
<1>4. CASE RefuseArchive(r)
    BY <1>4 DEF RefuseArchive
<1>5. CASE Perform(r)
    BY <1>5 DEF Perform
<1>6. CASE Finished(r)
    BY <1>6 DEF Finished
<1> QED
    BY <1>1, <1>2, <1>3, <1>4, <1>5, <1>6

\* There is nothing to classify, or only a native command's text.
LEMMA FailKeeps ==
    ASSUME RuntimeInv, NEW r \in Runs, Fail(r) \/ RefuseNative(r) \/ ClassifyNative(r)
    PROVE  Kept(r)
<1> USE DEF Kept, Same, KeepShared, At, Goto, Finish, SetVerdict, SetRisk, SetAction,
            RuntimeInv, TypeOK, States, Verdicts, RunOk, Asked, FloorKept, GrantedByRight,
            MayGrant, InOrder, Permitted, Executable, DryRun
<1> DEFINE q == req[r]
<1>1. q \in Requests
    BY DEF Fail, RefuseNative, ClassifyNative
<1>2. TypeOK /\ "HIGH" \in Levels /\ "block" \in Actions /\ "none" \notin Actions
    BY DEF Levels, Actions
<1>3. /\ NativeDecision(q) \in Actions
      /\ q.scan = "CRITICAL" => NativeDecision(q) \in {"approval_required", "block"}
      /\ q.scan \in Levels
    BY <1>1, <1>2, Decisions
<1>4. CASE Fail(r)
    BY <1>1, <1>2, <1>4 DEF Fail
<1>5. CASE RefuseNative(r)
    BY <1>1, <1>2, <1>5 DEF RefuseNative
<1>6. CASE ClassifyNative(r)
    <2>1. /\ action' = [action EXCEPT ![r] = NativeDecision(q)]
          /\ risk' = [risk EXCEPT ![r] = q.scan]
        BY <1>6 DEF ClassifyNative
    <2> QED
        BY <1>1, <1>2, <1>3, <1>6, <2>1 DEF ClassifyNative
<1> QED
    BY <1>4, <1>5, <1>6

\* A command of the registry is classified.
LEMMA ClassifyKeeps ==
    ASSUME RuntimeInv, NEW r \in Runs, NEW fs \in FileFacts,
           Classify(r, fs) \/ BlockUnsafe(r, fs)
    PROVE  Kept(r)
<1> USE DEF Kept, Same, KeepShared, At, Goto, Finish, SetVerdict, SetRisk, SetAction,
            RuntimeInv, TypeOK, States, Verdicts, RunOk, Asked, FloorKept, GrantedByRight,
            MayGrant, InOrder, Permitted, Executable, DryRun
<1> DEFINE q == req[r]
           level == Risks[q][fs]
<1>1. q \in Requests
    BY DEF Classify, BlockUnsafe
<1>2. level = EffectiveRisk(q, fs) /\ level \in Levels
    BY <1>1, EffectiveBounds DEF Risks
<1>3. TypeOK /\ "HIGH" \in Levels /\ "block" \in Actions /\ "none" \notin Actions
    BY DEF Levels, Actions
<1>4. /\ Decision(q, level) \in Actions
      /\ level = "CRITICAL" => Decision(q, level) \in {"approval_required", "block"}
    BY <1>1, <1>2, <1>3, Decisions
<1>5. higherRisk(level, "HIGH") \in Levels
    BY <1>2, HigherBounds DEF Levels
<1> HIDE DEF level
<1>6. CASE Classify(r, fs)
    <2>1. /\ action' = [action EXCEPT ![r] = Decision(q, level)]
          /\ risk' = [risk EXCEPT ![r] = level]
        BY <1>6 DEF Classify, level
    <2> QED
        BY <1>1, <1>2, <1>3, <1>4, <1>6, <2>1 DEF Classify
<1>7. CASE BlockUnsafe(r, fs)
    <2>1. risk' = [risk EXCEPT ![r] = higherRisk(level, "HIGH")]
        BY <1>7 DEF BlockUnsafe, level
    <2> QED
        BY <1>1, <1>3, <1>5, <1>7, <2>1 DEF BlockUnsafe
<1> QED
    BY <1>6, <1>7

\* Any step of one run.
LEMMA StepKeeps ==
    ASSUME RuntimeInv, NEW r \in Runs,
           \/ BeginLatched(r) \/ \E q \in RequestsOf[r] : Begin(r, q)
           \/ Step(r) \/ Answer(r)
    PROVE  Kept(r)
BY BeginKeeps, FailKeeps, ClassifyKeeps, EnforceKeeps, AnswerKeeps, ExecuteKeeps, SettleKeeps
   DEF Step, Answer

\* What nobody's run does: a handler is installed, the process dies.
LEMMA OthersKeep ==
    ASSUME RuntimeInv, Crash \/ \E h \in Installed : setApprovalHandler(h)
    PROVE  RuntimeInv'
<1>1. ASSUME NEW h \in Installed, setApprovalHandler(h)
      PROVE  RuntimeInv'
    <2>1. TypeOK'
        BY <1>1 DEF setApprovalHandler, RuntimeInv, TypeOK, decided
    <2>2. ASSUME NEW s \in Runs
          PROVE  RunOk(s)'
        BY <1>1, Frame DEF setApprovalHandler, RuntimeInv, Same, decided
    <2> QED
        BY <2>1, <2>2 DEF RuntimeInv
<1>2. CASE Crash
    <2>1. TypeOK'
        BY <1>2 DEF Crash, RuntimeInv, TypeOK, decided, States
    <2>2. ASSUME NEW s \in Runs
          PROVE  RunOk(s)'
        BY <1>2 DEF Crash, RuntimeInv, TypeOK, decided, States, Settled, RunOk, Asked,
                    FloorKept, GrantedByRight, MayGrant, InOrder, Permitted, Executable, DryRun
    <2> QED
        BY <2>1, <2>2 DEF RuntimeInv
<1> QED
    BY <1>1, <1>2

\* At the start no run has anything.
LEMMA InitHolds ==
    Init => RuntimeInv
<1> SUFFICES ASSUME Init
             PROVE  RuntimeInv
    OBVIOUS
<1>1. TypeOK
    BY RuntimeAssumption DEF Init, TypeOK, States, Verdicts, Handlers, Levels
<1>2. ASSUME NEW r \in Runs
      PROVE  RunOk(r)
    BY DEF Init, RunOk, Asked, FloorKept, GrantedByRight, InOrder
<1> QED
    BY <1>1, <1>2 DEF RuntimeInv

\* Every step keeps the invariant.
LEMMA NextKeeps ==
    RuntimeInv /\ [Next]_vars => RuntimeInv'
<1> SUFFICES ASSUME RuntimeInv, [Next]_vars
             PROVE  RuntimeInv'
    OBVIOUS
<1>1. ASSUME NEW r \in Runs, Kept(r)
      PROVE  RuntimeInv'
    BY <1>1, Frame DEF Kept, RuntimeInv
<1>2. CASE UNCHANGED vars
    <2>1. TypeOK'
        BY <1>2 DEF vars, decided, RuntimeInv, TypeOK
    <2>2. ASSUME NEW s \in Runs
          PROVE  RunOk(s)'
        BY <1>2, Frame DEF vars, decided, RuntimeInv, Same
    <2> QED
        BY <2>1, <2>2 DEF RuntimeInv
<1>3. CASE Next
    BY <1>1, <1>3, StepKeeps, OthersKeep DEF Next
<1> QED
    BY <1>2, <1>3

\* The invariant of a run's way through the pipeline: in which order decision,
\* permission, effect, verdict and record come, for any number of runs, any
\* requests, policies and handlers.
THEOREM RuntimeInvariant == Spec => []RuntimeInv
<1>1. Init => RuntimeInv
    BY InitHolds
<1>2. RuntimeInv /\ [Next]_vars => RuntimeInv'
    BY NextKeeps
<1> QED
    BY <1>1, <1>2, PTL DEF Spec

-----------------------------------------------------------------------------
\* A run that had an effect was no rehearsal by any of the three reasons, and was
\* allowed by policy or granted the approval it needs, for a CRITICAL command not by
\* --yes.
THEOREM OnlyPermittedEffects == Spec => []EffectsPermitted
<1>1. ASSUME RuntimeInv
      PROVE  EffectsPermitted
    <2> SUFFICES ASSUME NEW r \in effects
                 PROVE  /\ ~req[r].dryRun
                        /\ "dryRun" \in DOMAIN req[r].params => req[r].params["dryRun"] # TRUE
                        /\ action[r] \in {"allow", "warn", "approval_required"}
                        /\ action[r] = "approval_required" =>
                              /\ granted[r]
                              /\ req[r].approval = "yes" \/ asked[r] \in {"human", "yes"}
                        /\ risk[r] = "CRITICAL" =>
                              /\ action[r] = "approval_required" /\ granted[r]
                              /\ req[r].approval = "yes" \/ asked[r] = "human"
        BY DEF EffectsPermitted
    <2>1. r \in Runs /\ FloorKept(r) /\ GrantedByRight(r) /\ InOrder(r)
        BY <1>1 DEF RuntimeInv, TypeOK, RunOk
    <2>2. Permitted(r) /\ ~DryRun(r)
        BY <2>1 DEF InOrder
    <2> QED
        BY <2>1, <2>2 DEF FloorKept, GrantedByRight, MayGrant, Permitted, DryRun
<1> QED
    BY <1>1, RuntimeInvariant, PTL

\* What the log says of a run is what the run did, and an effect that is not in it
\* was reported to the caller, or the process died with it.
THEOREM TrailHolds == Spec => []AuditTrailHolds
<1>1. ASSUME RuntimeInv
      PROVE  AuditTrailHolds
    <2> SUFFICES ASSUME NEW r \in Runs
                 PROVE  /\ verdict[r] \in Undone => r \notin effects
                        /\ verdict[r] = "success" => r \in effects \/ req[r].kind = "meta"
                        /\ r \in effects /\ pc[r] \in Settled /\ conf.writer =>
                              r \in recorded \cup warned \/ pc[r] \in {"lost", "dead"}
        BY DEF AuditTrailHolds
    <2>1. InOrder(r)
        BY <1>1 DEF RuntimeInv, RunOk
    <2> QED
        BY <2>1 DEF InOrder, Undone, Settled
<1> QED
    BY <1>1, RuntimeInvariant, PTL

-----------------------------------------------------------------------------
\* A decided run was decided as preview would have, the others are at the start.
Shown(r) ==
    /\ action[r] = "none" => risk[r] = "LOW"
    /\ action[r] # "none" =>
          preview(req[r], seen[r]) = [risk |-> risk[r], action |-> action[r]]

\* The two ways to the risk, that of run and that of preview.
LEMMA SameRisk ==
    ASSUME NEW q \in Requests, NEW fs \in FileFacts
    PROVE  previewRisk(q, fs) = EffectiveRisk(q, fs)
<1> DEFINE level == HighestOf(Assessed(q, fs))
<1>1. previewLevel(q, fs) = level
    <2>1. previewLooked(q, fs) = {e \in q.defs : assessAst(q.cmd, e) # "CRITICAL" /\ ~fs.fails}
        BY DEF previewLooked
    <2> QED
        BY <2>1 DEF previewLevel, Assessed
<1>2. (\E d \in previewLooked(q, fs) : Estimated(q.cmd, d, fs)) <=>
      (\E d \in q.defs : assessAst(q.cmd, d) # "CRITICAL" /\ Estimated(q.cmd, d, fs))
    BY DEF previewLooked, Estimated
<1>3. level \in Levels
    BY AssessedLevels, HighestBounds
<1> HIDE DEF level
<1>4. level = "CRITICAL" => higherRisk(level, "HIGH") = level
    BY DEF higherRisk, RISK_ORDER, Levels
<1>5. EffectiveRisk(q, fs) =
        IF /\ \E d \in q.defs : d.requiresEstimate
           /\ ~\E d \in q.defs : assessAst(q.cmd, d) # "CRITICAL" /\ Estimated(q.cmd, d, fs)
        THEN higherRisk(level, "HIGH")
        ELSE level
    BY DEF EffectiveRisk, level
<1> QED
    BY <1>1, <1>2, <1>4, <1>5 DEF previewRisk

\* Nothing but the classification touches what the decision was made of.
LEMMA ShownFrame ==
    ASSUME NEW s \in Runs, Shown(s), conf' = conf, risk'[s] = risk[s], action'[s] = action[s],
           action[s] = "none" \/ (req'[s] = req[s] /\ seen'[s] = seen[s])
    PROVE  Shown(s)'
BY DEF Shown, preview, previewFailure, previewNative, previewIdel

\* The classification decides as preview does.
LEMMA ClassifyShows ==
    ASSUME RuntimeInv, NEW r \in Runs, Shown(r), NEW fs \in FileFacts,
           Classify(r, fs) \/ BlockUnsafe(r, fs)
    PROVE  Shown(r)'
<1> DEFINE q == req[r]
<1> USE DEF KeepShared, At, Goto, Finish, SetVerdict, SetRisk, SetAction
<1>1. TypeOK /\ q \in Requests
    BY DEF RuntimeInv, RunOk, Asked, Classify, BlockUnsafe
<1>2. Risks[q][fs] = EffectiveRisk(q, fs)
    BY <1>1 DEF Risks
<1>3. CASE Classify(r, fs)
    <2>1. /\ risk'[r] = EffectiveRisk(q, fs) /\ action'[r] = Decision(q, risk'[r])
          /\ seen'[r] = fs /\ req' = req /\ conf' = conf
        BY <1>1, <1>2, <1>3 DEF Classify, TypeOK
    <2>2. /\ q.kind \in {"meta", "idel"}
          /\ ~(q.kind = "idel" /\ q.plan = "unsafe")
        BY <1>3 DEF Classify
    <2>3. Decision(q, risk'[r]) \in Actions
        BY <1>1, <2>1, Decisions, EffectiveBounds
    <2>4. q.kind \notin {"syntax", "unknown", "invalid", "native"}
        BY <2>2
    <2> QED
        BY <1>1, <2>1, <2>2, <2>3, <2>4, SameRisk DEF Shown, preview, previewIdel, Decision, Actions
<1>4. CASE BlockUnsafe(r, fs)
    <2>1. /\ risk'[r] = higherRisk(EffectiveRisk(q, fs), "HIGH") /\ action'[r] = "block"
          /\ seen'[r] = fs /\ req' = req /\ conf' = conf
        BY <1>1, <1>2, <1>4 DEF BlockUnsafe, TypeOK
    <2>2. q.kind = "idel" /\ q.plan = "unsafe"
        BY <1>4 DEF BlockUnsafe
    <2> QED
        BY <1>1, <2>1, <2>2, SameRisk DEF Shown, preview, previewIdel
<1> QED
    BY <1>3, <1>4

\* So does what is not classified at all.
LEMMA FailShows ==
    ASSUME RuntimeInv, NEW r \in Runs, Shown(r),
           Fail(r) \/ RefuseNative(r) \/ ClassifyNative(r)
    PROVE  Shown(r)'
<1> DEFINE q == req[r]
<1> USE DEF KeepShared, At, Goto, Finish, SetVerdict, SetRisk, SetAction
<1>1. TypeOK /\ q \in Requests /\ InOrder(r) /\ pc[r] = "parse"
    BY DEF RuntimeInv, RunOk, Asked, Fail, RefuseNative, ClassifyNative
<1>2. risk[r] = "LOW"
    BY <1>1 DEF Shown, InOrder
<1>3. CASE Fail(r)
    BY <1>1, <1>2, <1>3 DEF Fail, TypeOK, Shown, preview, previewFailure
<1>4. CASE RefuseNative(r)
    BY <1>1, <1>4 DEF RefuseNative, TypeOK, Shown, preview, previewNative
<1>5. CASE ClassifyNative(r)
    <2>1. /\ risk'[r] = q.scan /\ action'[r] = NativeDecision(q)
          /\ seen' = seen /\ req' = req /\ conf' = conf
        BY <1>1, <1>5 DEF ClassifyNative, TypeOK
    <2>2. q.kind = "native" /\ ~q.noNative
        BY <1>5 DEF ClassifyNative
    <2>3. NativeDecision(q) \in Actions
        BY <1>1, Decisions DEF Levels
    <2> QED
        BY <2>1, <2>2, <2>3 DEF Shown, preview, previewNative, NativeDecision, Actions
<1> QED
    BY <1>3, <1>4, <1>5

\* A run's other steps leave its decision alone.
LEMMA OtherStepsFrame ==
    ASSUME RuntimeInv, NEW r \in Runs,
           \/ BeginLatched(r) \/ (\E q \in RequestsOf[r] : Begin(r, q))
           \/ AssertReady(r) \/ PlanThrows(r)
           \/ Block(r) \/ NobodyToAsk(r) \/ Ask(r) \/ Pass(r)
           \/ RunMeta(r) \/ NoAdapter(r) \/ Simulate(r) \/ RefuseArchive(r) \/ Perform(r)
           \/ Finished(r) \/ Record(r) \/ WarnAndContinue(r) \/ LoseRecord(r) \/ Answer(r)
    PROVE  /\ conf' = conf /\ risk' = risk /\ action' = action
           /\ action[r] = "none" \/ (req' = req /\ seen' = seen)
<1>1. InOrder(r)
    BY DEF RuntimeInv, RunOk
<1> QED
    BY <1>1
    DEF InOrder, At, KeepShared, decided, Finish, SetVerdict, BeginLatched, Begin, AssertReady,
        PlanThrows, Block, NobodyToAsk, Ask, Pass, Answer, Granted, Denied, PromptBreaks, RunMeta,
        NoAdapter, Simulate, RefuseArchive, Perform, Finished, Record, WarnAndContinue,
        LoseRecord

\* What preview shows is what run decides: the two copies of the pipeline, each
\* written from its own lines, agree for every request, policy and state of the file
\* system.
THEOREM PreviewMatchesRun == Spec => []PreviewAgrees
<1> DEFINE I == RuntimeInv /\ \A r \in Runs : Shown(r)
<1>1. Init => I
    BY InitHolds DEF Init, Shown
<1>2. I /\ [Next]_vars => I'
    <2> SUFFICES ASSUME I, [Next]_vars
                 PROVE  I'
        OBVIOUS
    <2>1. RuntimeInv'
        BY NextKeeps
    <2>2. ASSUME NEW r \in Runs, NEW s \in Runs,
                 \/ BeginLatched(r) \/ \E q \in RequestsOf[r] : Begin(r, q)
                 \/ Step(r) \/ Answer(r)
          PROVE  Shown(s)'
        <3>1. CASE s # r
            <4>1. Same(s)
                BY <2>2, <3>1, StepKeeps DEF Kept
            <4> QED
                BY <4>1, ShownFrame DEF Same
        <3>2. CASE s = r /\ \/ Fail(r) \/ RefuseNative(r) \/ ClassifyNative(r)
                            \/ \E fs \in FileFacts : Classify(r, fs) \/ BlockUnsafe(r, fs)
            BY <3>2, FailShows, ClassifyShows
        <3>3. CASE s = r /\ ~(\/ Fail(r) \/ RefuseNative(r) \/ ClassifyNative(r)
                              \/ \E fs \in FileFacts : Classify(r, fs) \/ BlockUnsafe(r, fs))
            <4>1. /\ conf' = conf /\ risk' = risk /\ action' = action
                  /\ action[r] = "none" \/ (req' = req /\ seen' = seen)
                BY <2>2, <3>3, OtherStepsFrame DEF Step
            <4> QED
                BY <3>3, <4>1, ShownFrame
        <3> QED
            BY <3>1, <3>2, <3>3
    <2>3. ASSUME NEW s \in Runs,
                 UNCHANGED vars \/ Crash \/ \E h \in Installed : setApprovalHandler(h)
          PROVE  Shown(s)'
        <3>1. conf' = conf /\ risk' = risk /\ action' = action /\ req' = req /\ seen' = seen
            BY <2>3 DEF vars, decided, Crash, setApprovalHandler
        <3> QED
            BY <3>1, ShownFrame
    <2> QED
        BY <2>1, <2>2, <2>3 DEF Next
<1>3. I => PreviewAgrees
    BY DEF PreviewAgrees, Shown
<1> QED
    BY <1>1, <1>2, <1>3, PTL DEF Spec

-----------------------------------------------------------------------------
\* A link to a place whose loss is total is CRITICAL for every definition the
\* resolved phase looks at.
LEMMA LinkSeenThrough ==
    ASSUME NEW cmd, NEW def \in Defs, NEW fs, Target(cmd, def) # "none", fs.link \in Protected
    PROVE  assessResolved(cmd, def, fs) = "CRITICAL"
<1> DEFINE U == /\ def.destructive /\ cmd.glob # "no" /\ Target(cmd, def) # "none"
                /\ "CRITICAL" \notin ResolvedLevels(cmd, def, fs) /\ ~fs.walked
           S == ResolvedLevels(cmd, def, fs) \cup (IF U THEN {"MEDIUM"} ELSE {})
<1>1. "CRITICAL" \in ResolvedLevels(cmd, def, fs)
    BY DEF ResolvedLevels, Protected, Broad
<1>2. HighestOf(S) = "CRITICAL"
    BY <1>1 DEF HighestOf
<1>3. assessResolved(cmd, def, fs) = finalize(S, def)
    BY DEF assessResolved
<1>4. def.riskDefault \in Levels
    BY DEF Defs
<1> QED
    BY <1>2, <1>3, <1>4 DEF finalize, higherRisk, RISK_ORDER, Levels

\* What the effective risk of a request is at least.
LEMMA EffectiveFloors ==
    ASSUME NEW q \in Requests, NEW fs \in FileFacts
    PROVE  LET E == EffectiveRisk(q, fs)
               resolved == {d \in q.defs : assessAst(q.cmd, d) # "CRITICAL" /\ ~fs.fails}
           IN  /\ E \in Levels
               /\ \A d \in q.defs : RISK_ORDER(E) >= RISK_ORDER(assessAst(q.cmd, d))
               /\ (\E d \in resolved : Target(q.cmd, d) # "none") /\ fs.link \in Protected =>
                     E = "CRITICAL"
               /\ (\E d \in q.defs : d.requiresEstimate)
                  /\ (\A d \in resolved : ~Estimated(q.cmd, d, fs)) =>
                     E \in {"HIGH", "CRITICAL"}
<1> DEFINE E == EffectiveRisk(q, fs)
           resolved == {d \in q.defs : assessAst(q.cmd, d) # "CRITICAL" /\ ~fs.fails}
<1>1. q.defs \subseteq Defs
    BY RuntimeAssumption
<1>2. E \in Levels /\ \A l \in Assessed(q, fs) : RISK_ORDER(E) >= RISK_ORDER(l)
    BY EffectiveBounds
<1>3. \A d \in q.defs : RISK_ORDER(E) >= RISK_ORDER(assessAst(q.cmd, d))
    <2> HIDE DEF E
    <2> QED
        BY <1>2 DEF Assessed
<1>4. ASSUME \E d \in resolved : Target(q.cmd, d) # "none", fs.link \in Protected
      PROVE  E = "CRITICAL"
    <2>1. PICK d \in resolved : d \in Defs /\ Target(q.cmd, d) # "none"
        BY <1>1, <1>4
    <2>2. assessResolved(q.cmd, d, fs) = "CRITICAL"
        BY <1>4, <2>1, LinkSeenThrough
    <2>3. assessResolved(q.cmd, d, fs) \in Assessed(q, fs)
        BY <2>1 DEF Assessed
    <2> HIDE DEF E
    <2> QED
        BY <1>2, <2>2, <2>3, TopLevels
<1>5. ASSUME \E d \in q.defs : d.requiresEstimate,
             \A d \in resolved : ~Estimated(q.cmd, d, fs)
      PROVE  E \in {"HIGH", "CRITICAL"}
    <2> DEFINE level == HighestOf(Assessed(q, fs))
    <2>1. level \in Levels
        BY AssessedLevels, HighestBounds
    <2>2. ~\E d \in q.defs : assessAst(q.cmd, d) # "CRITICAL" /\ Estimated(q.cmd, d, fs)
        BY <1>5 DEF Estimated
    <2>3. E = higherRisk(level, "HIGH")
        BY <1>5, <2>2 DEF EffectiveRisk
    <2> HIDE DEF level
    <2> QED
        BY <2>1, <2>3 DEF higherRisk, RISK_ORDER, Levels
<1> HIDE DEF E, resolved
<1>6. /\ E \in Levels
      /\ \A d \in q.defs : RISK_ORDER(E) >= RISK_ORDER(assessAst(q.cmd, d))
      /\ (\E d \in resolved : Target(q.cmd, d) # "none") /\ fs.link \in Protected => E = "CRITICAL"
      /\ (\E d \in q.defs : d.requiresEstimate)
         /\ (\A d \in resolved : ~Estimated(q.cmd, d, fs)) => E \in {"HIGH", "CRITICAL"}
    BY <1>2, <1>3, <1>4, <1>5
<1> QED
    BY <1>6 DEF E, resolved

\* The risk a run is decided at keeps every floor there is: of each definition, of
\* the place a link leads to, of an extent nobody knows.
THEOREM FloorsHold == Spec => []NothingSoftened
<1>1. ASSUME RuntimeInv, PreviewAgrees
      PROVE  NothingSoftened
    <2> SUFFICES ASSUME NEW r \in Runs, action[r] # "none", req[r].kind \in {"idel", "meta"}
                 PROVE  LET q == req[r]
                            fs == seen[r]
                            resolved == {d \in q.defs : assessAst(q.cmd, d) # "CRITICAL"
                                                        /\ ~fs.fails}
                        IN  /\ \A d \in q.defs :
                                  RISK_ORDER(risk[r]) >= RISK_ORDER(assessAst(q.cmd, d))
                            /\ (\E d \in resolved : Target(q.cmd, d) # "none") /\ fs.link \in Protected =>
                                  risk[r] = "CRITICAL"
                            /\ (\E d \in q.defs : d.requiresEstimate)
                               /\ (\A d \in resolved : ~Estimated(q.cmd, d, fs)) =>
                                  risk[r] \in {"HIGH", "CRITICAL"}
        BY DEF NothingSoftened
    <2>1. req[r] \in Requests /\ seen[r] \in FileFacts
        BY <1>1 DEF RuntimeInv, RunOk, Asked, InOrder
    <2> DEFINE q == req[r]
               fs == seen[r]
               E == EffectiveRisk(q, fs)
               resolved == {d \in q.defs : assessAst(q.cmd, d) # "CRITICAL" /\ ~fs.fails}
    <2>2. /\ E \in Levels
          /\ \A d \in q.defs : RISK_ORDER(E) >= RISK_ORDER(assessAst(q.cmd, d))
          /\ (\E d \in resolved : Target(q.cmd, d) # "none") /\ fs.link \in Protected => E = "CRITICAL"
          /\ (\E d \in q.defs : d.requiresEstimate)
             /\ (\A d \in resolved : ~Estimated(q.cmd, d, fs)) => E \in {"HIGH", "CRITICAL"}
        BY <2>1, EffectiveFloors
    <2>3. risk[r] = E \/ risk[r] = higherRisk(E, "HIGH")
        BY <1>1, <2>1, SameRisk DEF PreviewAgrees, preview, previewIdel
    <2>4. \A d \in q.defs : assessAst(q.cmd, d) \in Levels
        BY <2>1, RuntimeAssumption, AssessLevels
    <2> HIDE DEF E, resolved
    <2>5. /\ risk[r] \in Levels /\ RISK_ORDER(risk[r]) >= RISK_ORDER(E)
          /\ E \in {"HIGH", "CRITICAL"} => risk[r] = E
        BY <2>2, <2>3 DEF higherRisk, RISK_ORDER, Levels
    <2>6. ASSUME NEW d \in q.defs
          PROVE  RISK_ORDER(risk[r]) >= RISK_ORDER(assessAst(q.cmd, d))
        <3>1. /\ RISK_ORDER(E) >= RISK_ORDER(assessAst(q.cmd, d))
              /\ assessAst(q.cmd, d) \in Levels
            BY <2>2, <2>4
        <3> QED
            BY <2>2, <2>5, <3>1 DEF RISK_ORDER, Levels
    <2> QED
        BY <2>2, <2>5, <2>6 DEF resolved
<1> QED
    BY <1>1, RuntimeInvariant, PreviewMatchesRun, PTL

-----------------------------------------------------------------------------
\* What the gate sees of the runtime.
Begun == {r \in Runs : req[r] # None}
Allowed == {r \in Runs : Permitted(r)}
Reports == [r \in Runs |-> Report(r)]

\* A step of one run that changes none of it.
LEMMA GateStutter ==
    ASSUME NEW r \in Runs, \A s \in Runs \ {r} : Same(s),
           req'[r] # None <=> req[r] # None, Permitted(r)' <=> Permitted(r),
           Report(r)' = Report(r), effects' = effects
    PROVE  Begun' = Begun /\ Allowed' = Allowed /\ Reports' = Reports
<1>1. ASSUME NEW s \in Runs
      PROVE  /\ req'[s] # None <=> req[s] # None
             /\ Permitted(s)' <=> Permitted(s)
             /\ Report(s)' = Report(s)
    BY DEF Same, Permitted, Report
<1> QED
    BY <1>1 DEF Begun, Allowed, Reports

\* A step of one run that begins it.
LEMMA GateBegins ==
    ASSUME NEW r \in Runs, \A s \in Runs \ {r} : Same(s),
           req'[r] # None, Permitted(r)' <=> Permitted(r), Report(r)' = Report(r)
    PROVE  Begun' = Begun \cup {r} /\ Allowed' = Allowed /\ Reports' = Reports
<1>1. ASSUME NEW s \in Runs
      PROVE  /\ s # r => (req'[s] # None <=> req[s] # None)
             /\ Permitted(s)' <=> Permitted(s)
             /\ Report(s)' = Report(s)
    BY DEF Same, Permitted, Report
<1> QED
    BY <1>1 DEF Begun, Allowed, Reports

\* A step of one run that permits it.
LEMMA GatePermits ==
    ASSUME NEW r \in Runs, \A s \in Runs \ {r} : Same(s),
           req' = req, Permitted(r)', Report(r)' = Report(r)
    PROVE  Begun' = Begun /\ Allowed' = Allowed \cup {r} /\ Reports' = Reports
<1>1. ASSUME NEW s \in Runs
      PROVE  /\ s # r => (Permitted(s)' <=> Permitted(s))
             /\ Report(s)' = Report(s)
    BY DEF Same, Permitted, Report
<1> QED
    BY <1>1 DEF Begun, Allowed, Reports

\* The gate's state as it is used below.
GateNext ==
    \/ \E r \in Runs :
          \/ /\ ~latch /\ Begun' = Begun \cup {r}
             /\ Allowed' = Allowed /\ effects' = effects /\ Reports' = Reports /\ latch' = latch
          \/ /\ r \in Begun /\ Reports[r] = "none" /\ Allowed' = Allowed \cup {r}
             /\ Begun' = Begun /\ effects' = effects /\ Reports' = Reports /\ latch' = latch
          \/ /\ r \in Allowed /\ Reports[r] = "none" /\ effects' = effects \cup {r}
             /\ Begun' = Begun /\ Allowed' = Allowed /\ Reports' = Reports /\ latch' = latch
          \/ \E what \in {"refused", "done", "lost"} :
                /\ r \in Begun /\ Reports[r] = "none"
                /\ what = "refused" => r \notin effects
                /\ Reports' = [Reports EXCEPT ![r] = what]
                /\ latch' = (latch \/ what = "lost")
                /\ Begun' = Begun /\ Allowed' = Allowed /\ effects' = effects
    \/ /\ latch' = FALSE
       /\ Begun' = Begun /\ Allowed' = Allowed /\ effects' = effects /\ Reports' = Reports
    \/ /\ Begun' = Begun /\ Allowed' = Allowed /\ effects' = effects
       /\ Reports' = Reports /\ latch' = latch

\* A step of one run that reports.
LEMMA GateReports ==
    ASSUME NEW r \in Runs, \A s \in Runs \ {r} : Same(s),
           req' = req, effects' = effects, Permitted(r)' <=> Permitted(r),
           r \in Begun, Report(r) = "none",
           Report(r)' \in {"refused", "done", "lost"}, Report(r)' = "refused" => r \notin effects,
           latch \in BOOLEAN, latch' = (latch \/ Report(r)' = "lost")
    PROVE  GateNext
<1>1. ASSUME NEW s \in Runs
      PROVE  /\ Permitted(s)' <=> Permitted(s)
             /\ s # r => Report(s)' = Report(s)
    BY DEF Same, Permitted, Report
<1>2. Begun' = Begun /\ Allowed' = Allowed
    BY <1>1 DEF Begun, Allowed
<1>3. Reports[r] = "none" /\ Reports' = [Reports EXCEPT ![r] = Report(r)']
    BY <1>1 DEF Reports
<1> QED
    BY <1>2, <1>3 DEF GateNext

\* GateNext is the gate's next-state relation.
LEMMA GateNextIsNext ==
    ASSUME TypeOK, TypeOK', GateNext
    PROVE  [Gate!Next]_(Gate!gate)
BY DEF TypeOK, GateNext, Gate!Next, Gate!gate, Gate!Begin, Gate!Permit, Gate!Perform,
       Gate!Report, Gate!Restart, Begun, Allowed, Reports

\* Before it has reported, a run that began is one the gate knows.
LEMMA BegunUnreported ==
    ASSUME RuntimeInv, NEW r \in Runs, pc[r] \notin {"idle", "latched"} \cup Settled
    PROVE  r \in Begun /\ Reports[r] = "none" /\ req[r] # None
<1>1. req[r] # None
    BY RuntimeAssumption DEF RuntimeInv, RunOk, Asked
<1> QED
    BY <1>1 DEF Begun, Reports, Report, Settled

\* The steps the gate does not see.
LEMMA QuietSteps ==
    ASSUME RuntimeInv, NEW r \in Runs,
           \/ BeginLatched(r) \/ Fail(r) \/ RefuseNative(r)
           \/ \E fs \in FileFacts : BlockUnsafe(r, fs)
           \/ Block(r) \/ NobodyToAsk(r) \/ Ask(r) \/ Denied(r) \/ NoAdapter(r)
           \/ Simulate(r) \/ RefuseArchive(r) \/ Finished(r)
    PROVE  GateNext
<1>1. \A s \in Runs \ {r} : Same(s)
    BY StepKeeps DEF Kept, Step, Answer
<1>2. TypeOK /\ InOrder(r)
    BY DEF RuntimeInv, RunOk
<1>3. req' = req /\ effects' = effects /\ latch' = latch
    BY DEF BeginLatched, Fail, RefuseNative, BlockUnsafe, Block, NobodyToAsk, Ask, Denied,
           NoAdapter, Simulate, RefuseArchive, Finished, KeepShared, decided
<1>4. Permitted(r)' <=> Permitted(r)
    BY <1>2 DEF BeginLatched, Fail, RefuseNative, BlockUnsafe, Block, NobodyToAsk, Ask, Denied,
           NoAdapter, Simulate, RefuseArchive, Finished, KeepShared, decided, Permitted,
           InOrder, At, SetAction, TypeOK
<1>5. Report(r)' = Report(r)
    <2>1. pc[r] \in {"idle", "parse", "enforce", "asking", "execute", "running"}
        BY DEF BeginLatched, Fail, RefuseNative, BlockUnsafe, Block, NobodyToAsk, Ask, Denied,
               NoAdapter, Simulate, RefuseArchive, Finished, At
    <2>2. pc'[r] \in {"latched", "append", "asking"}
        BY <1>2 DEF BeginLatched, Fail, RefuseNative, BlockUnsafe, Block, NobodyToAsk, Ask,
               Denied, NoAdapter, Simulate, RefuseArchive, Finished, Goto, Finish, TypeOK
    <2> QED
        BY <2>1, <2>2 DEF Report
<1> QED
    BY <1>1, <1>3, <1>4, <1>5, GateStutter DEF GateNext

\* A call is taken in while the gate is open.
LEMMA BeginSteps ==
    ASSUME RuntimeInv, NEW r \in Runs, \E q \in RequestsOf[r] : Begin(r, q)
    PROVE  GateNext
<1>1. \A s \in Runs \ {r} : Same(s)
    BY StepKeeps DEF Kept
<1>2. PICK q \in RequestsOf[r] : Begin(r, q)
    OBVIOUS
<1>3. q # None
    BY RuntimeAssumption
<1>4. req' = [req EXCEPT ![r] = q] /\ effects' = effects /\ latch' = latch /\ ~latch
    BY <1>2 DEF Begin, KeepShared
<1>5. req'[r] = q
    BY <1>4 DEF RuntimeInv, TypeOK
<1>6. Permitted(r)' <=> Permitted(r)
    BY <1>2 DEF Begin, Permitted
<1>7. Report(r)' = Report(r)
    BY <1>2 DEF Begin, FirstStep, Report, At, Goto, RuntimeInv, TypeOK
<1> QED
    BY <1>1, <1>3, <1>4, <1>5, <1>6, <1>7, GateBegins DEF GateNext

\* A decision permits, or an approval.
LEMMA PermitSteps ==
    ASSUME RuntimeInv, NEW r \in Runs,
           \/ ClassifyNative(r) \/ \E fs \in FileFacts : Classify(r, fs)
           \/ Pass(r) \/ Granted(r)
    PROVE  GateNext
<1>1. \A s \in Runs \ {r} : Same(s)
    BY StepKeeps DEF Kept, Step, Answer
<1>2. TypeOK /\ InOrder(r)
    BY DEF RuntimeInv, RunOk
<1>3. req' = req /\ effects' = effects /\ latch' = latch
    BY DEF ClassifyNative, Classify, Pass, Granted, KeepShared
<1>4. pc[r] \in {"parse", "enforce", "asking"}
    BY DEF ClassifyNative, Classify, Pass, Granted, At
<1>5. Report(r)' = Report(r)
    BY <1>2, <1>4 DEF ClassifyNative, Classify, Pass, Granted, Report, Goto, TypeOK
<1>6. r \in Begun /\ Reports[r] = "none"
    BY <1>4, BegunUnreported DEF Settled
<1>7. CASE Permitted(r)'
    BY <1>1, <1>3, <1>5, <1>6, <1>7, GatePermits DEF GateNext
<1>8. CASE ~Permitted(r)'
    <2>1. Permitted(r)' <=> Permitted(r)
        BY <1>2, <1>8 DEF ClassifyNative, Classify, Pass, Granted, InOrder, At, SetAction,
               Permitted, TypeOK
    <2> QED
        BY <1>1, <1>3, <1>5, <2>1, GateStutter DEF GateNext
<1> QED
    BY <1>7, <1>8

\* The execution.
LEMMA PerformSteps ==
    ASSUME RuntimeInv, NEW r \in Runs, Perform(r)
    PROVE  GateNext
<1>1. \A s \in Runs \ {r} : Same(s)
    BY StepKeeps DEF Kept, Step
<1>2. /\ effects' = effects \cup {r} /\ latch' = latch /\ UNCHANGED decided
      /\ pc[r] = "execute" /\ pc' = [pc EXCEPT ![r] = "running"] /\ ~DryRun(r)
      /\ TypeOK /\ InOrder(r)
    BY DEF Perform, KeepShared, At, Goto, RuntimeInv, RunOk
<1>3. r \in Allowed
    BY <1>2 DEF InOrder, DryRun, Allowed
<1>4. Reports[r] = "none"
    BY <1>2, BegunUnreported DEF Settled
<1>5. Begun' = Begun /\ Allowed' = Allowed
    BY <1>2 DEF decided, Begun, Allowed, Permitted
<1>6. Reports' = Reports
    <2>1. ASSUME NEW s \in Runs
          PROVE  Report(s)' = Report(s)
        BY <1>2 DEF decided, Report, TypeOK
    <2> QED
        BY <2>1 DEF Reports
<1> QED
    BY <1>2, <1>3, <1>4, <1>5, <1>6 DEF GateNext

\* The reports, and the refusals that come without a record.
LEMMA ReportSteps ==
    ASSUME RuntimeInv, NEW r \in Runs,
           \/ AssertReady(r) \/ PlanThrows(r) \/ PromptBreaks(r) \/ RunMeta(r)
           \/ Record(r) \/ WarnAndContinue(r) \/ LoseRecord(r)
    PROVE  GateNext
<1>1. \A s \in Runs \ {r} : Same(s)
    BY StepKeeps DEF Kept, Step, Answer
<1>2. TypeOK /\ InOrder(r)
    BY DEF RuntimeInv, RunOk
<1>3. /\ req' = req /\ effects' = effects
      /\ Permitted(r)' <=> Permitted(r)
    BY DEF AssertReady, PlanThrows, PromptBreaks, RunMeta, Record, WarnAndContinue, LoseRecord,
           KeepShared, decided, Permitted
<1>4. pc[r] \in {"ready", "parse", "asking", "execute", "append"}
    BY DEF AssertReady, PlanThrows, PromptBreaks, RunMeta, Record, WarnAndContinue, LoseRecord, At
<1>5. r \in Begun /\ Report(r) = "none"
    BY <1>4, BegunUnreported DEF Settled, Reports
<1>6. CASE pc'[r] = "rejected"
    <2>1. Report(r)' = "refused"
        BY <1>6 DEF Report
    <2>2. AssertReady(r) \/ PlanThrows(r) \/ PromptBreaks(r) \/ RunMeta(r)
        BY <1>2, <1>6 DEF Record, WarnAndContinue, LoseRecord, Goto, TypeOK
    <2>3. latch' = latch
        BY <2>2 DEF AssertReady, PlanThrows, PromptBreaks, RunMeta, KeepShared
    <2>4. r \notin effects
        BY <1>2, <2>2 DEF AssertReady, PlanThrows, PromptBreaks, RunMeta, At, InOrder
    <2> QED
        BY <1>1, <1>2, <1>3, <1>5, <2>1, <2>3, <2>4, GateReports DEF TypeOK
<1>7. CASE pc'[r] = "done"
    <2>2. latch' = latch /\ verdict' = verdict
        BY <1>2, <1>7 DEF AssertReady, PlanThrows, PromptBreaks, RunMeta, Record, WarnAndContinue,
               LoseRecord, KeepShared, decided, Goto, Finish, TypeOK
    <2>3. Report(r)' \in {"refused", "done"} /\ (Report(r)' = "refused" => r \notin effects)
        BY <1>2, <1>7, <2>2 DEF Report, InOrder, Undone
    <2> QED
        BY <1>1, <1>2, <1>3, <1>5, <2>2, <2>3, GateReports DEF TypeOK
<1>8. CASE pc'[r] = "lost"
    <2>1. latch' = TRUE /\ Report(r)' = "lost"
        BY <1>2, <1>8 DEF AssertReady, PlanThrows, PromptBreaks, RunMeta, Record, WarnAndContinue,
               LoseRecord, Goto, Finish, Report, TypeOK
    <2> QED
        BY <1>1, <1>2, <1>3, <1>5, <2>1, GateReports DEF TypeOK
<1>9. CASE pc'[r] \notin {"rejected", "done", "lost"}
    <2>1. latch' = latch /\ Report(r)' = Report(r)
        BY <1>2, <1>5, <1>9 DEF AssertReady, PlanThrows, PromptBreaks, RunMeta, Record, WarnAndContinue,
               LoseRecord, KeepShared, Goto, Finish, Report, TypeOK
    <2> QED
        BY <1>1, <1>3, <2>1, GateStutter DEF GateNext
<1> QED
    BY <1>6, <1>7, <1>8, <1>9

\* The runtime implements the gate: each of its steps is one the gate may take, or
\* one it does not see.
THEOREM RuntimeImplementsGate == Spec => GateSpec
<1>1. Init => Gate!Init
    BY DEF Init, Gate!Init, Permitted, Report
<1>2. RuntimeInv /\ RuntimeInv' /\ [Next]_vars => [Gate!Next]_(Gate!gate)
    <2> SUFFICES ASSUME RuntimeInv, [Next]_vars
                 PROVE  GateNext
        BY GateNextIsNext DEF RuntimeInv
    <2>1. ASSUME NEW r \in Runs,
                 \/ BeginLatched(r) \/ \E q \in RequestsOf[r] : Begin(r, q)
                 \/ Step(r) \/ Answer(r)
          PROVE  GateNext
        <3>1. \/ BeginLatched(r) \/ Fail(r) \/ RefuseNative(r)
              \/ \E fs \in FileFacts : BlockUnsafe(r, fs)
              \/ Block(r) \/ NobodyToAsk(r) \/ Ask(r) \/ Denied(r) \/ NoAdapter(r)
              \/ Simulate(r) \/ RefuseArchive(r) \/ Finished(r)
              => GateNext
            BY QuietSteps
        <3>2. (\E q \in RequestsOf[r] : Begin(r, q)) => GateNext
            BY BeginSteps
        <3>3. ClassifyNative(r) \/ (\E fs \in FileFacts : Classify(r, fs)) \/ Pass(r)
                 \/ Granted(r) => GateNext
            BY PermitSteps
        <3>4. Perform(r) => GateNext
            BY PerformSteps
        <3>5. AssertReady(r) \/ PlanThrows(r) \/ PromptBreaks(r) \/ RunMeta(r) \/ Record(r)
                 \/ WarnAndContinue(r) \/ LoseRecord(r) => GateNext
            BY ReportSteps
        <3> HIDE DEF GateNext
        <3> QED
            BY <2>1, <3>1, <3>2, <3>3, <3>4, <3>5 DEF Step, Answer
    <2>2. CASE UNCHANGED vars
        BY <2>2 DEF vars, decided, GateNext, Begun, Allowed, Reports, Permitted, Report
    <2>3. ASSUME NEW h \in Installed, setApprovalHandler(h)
          PROVE  GateNext
        BY <2>3 DEF setApprovalHandler, decided, GateNext, Begun, Allowed, Reports, Permitted,
               Report
    <2>4. CASE Crash
        <3>1. ASSUME NEW s \in Runs
              PROVE  Report(s)' = Report(s)
            BY <2>4 DEF Crash, decided, Report, RuntimeInv, TypeOK, States, Settled
        <3>2. Begun' = Begun /\ Allowed' = Allowed /\ effects' = effects /\ latch' = FALSE
            BY <2>4 DEF Crash, decided, Begun, Allowed, Permitted
        <3>3. Reports' = Reports
            BY <3>1 DEF Reports
        <3> QED
            BY <3>2, <3>3 DEF GateNext
    <2> QED
        BY <2>1, <2>2, <2>3, <2>4 DEF Next
<1> QED
    BY <1>1, <1>2, RuntimeInvariant, PTL DEF Spec, GateSpec, Gate!Spec
=============================================================================
