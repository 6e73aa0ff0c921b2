-------------------------------- MODULE Policy --------------------------------
(***************************************************************************)
(* packages/policy: what may be done with a command of a given risk.  A    *)
(* policy is a sequence of rules, the first that matches decides.          *)
(*                                                                         *)
(* A command name is the sequence of its dotted segments and a pattern     *)
(* that ends in ".*" is the same with "*" for its last segment.  The field *)
(* of a match that is absent is Any.                                       *)
(***************************************************************************)
EXTENDS Safety, Sequences

CONSTANT Any            \* an absent field of a rule's match

Actions == {"allow", "warn", "require_dry_run", "approval_required", "block"}

\* The catch-all, a prefix glob, or an exact name.
commandMatches(pattern, command) ==
    \/ pattern = <<"*">>
    \/ /\ Len(pattern) > 1 /\ pattern[Len(pattern)] = "*"
       /\ Len(command) >= Len(pattern)
       /\ \A i \in 1 .. Len(pattern) - 1 : command[i] = pattern[i]
    \/ pattern = command

\* Every field the match has agrees with the input.
ruleMatches(match, input) ==
    /\ match.risk \in {Any, input.risk}
    /\ match.command # Any => commandMatches(match.command, input.command)
    /\ match.source \in {Any, input.source}
    /\ match.environment \in {Any, input.environment}
    /\ \A k \in DOMAIN match.params :
          k \in DOMAIN input.params /\ input.params[k] = match.params[k]

defaultActionForRisk(risk) ==
    CASE risk \in {"LOW", "MEDIUM"} -> "allow"
      [] risk = "HIGH"              -> "require_dry_run"
      [] risk = "CRITICAL"          -> "block"

Matching(input, rules) == {i \in DOMAIN rules : ruleMatches(rules[i].match, input)}

\* Mistake: the floor only covers the rules that allow outright.
Floored_NotDryRun(action, risk) ==
    IF risk = "CRITICAL" /\ action \in {"allow", "warn"} THEN "block" ELSE action

\* The hard floor: of the actions short of block, only approval_required stands on
\* CRITICAL.
Floored(action, risk) ==
    IF risk = "CRITICAL" /\ action \in {"allow", "warn", "require_dry_run"}
    THEN "block"
    ELSE action

\* The decision's action.
evaluate(input, rules) ==
    LET matching == Matching(input, rules) IN
    IF matching = {} THEN defaultActionForRisk(input.risk)
    ELSE LET first == CHOOSE i \in matching : \A j \in matching : i <= j
         IN  Floored(rules[first].action, input.risk)
=============================================================================
