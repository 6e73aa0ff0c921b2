-------------------------------- MODULE Safety --------------------------------
(***************************************************************************)
(* packages/safety: how dangerous a structured command is.  The string     *)
(* phase (assessAst) looks at the parameters, the resolved phase           *)
(* (assessResolved) at what the file system has at the target.             *)
(*                                                                         *)
(* A target string is abstracted to what the rules can tell apart: the     *)
(* place it normalizes to, whether it has a glob, and whether it climbs    *)
(* with "..".  Findings are their codes; LOW ones are left out, as are the *)
(* rules for network commands, which never reach a file-system target.     *)
(***************************************************************************)
EXTENDS Naturals

Levels == {"LOW", "MEDIUM", "HIGH", "CRITICAL"}

RISK_ORDER(level) ==
    CASE level = "LOW"      -> 0
      [] level = "MEDIUM"   -> 1
      [] level = "HIGH"     -> 2
      [] level = "CRITICAL" -> 3

higherRisk(a, b) == IF RISK_ORDER(a) >= RISK_ORDER(b) THEN a ELSE b

\* The highest of some levels, LOW if there are none: levelOfFindings, maxRisk.
HighestOf(levels) ==
    IF "CRITICAL" \in levels THEN "CRITICAL"
    ELSE IF "HIGH" \in levels THEN "HIGH"
    ELSE IF "MEDIUM" \in levels THEN "MEDIUM" ELSE "LOW"

\* Where a target lies: below the working directory, elsewhere, in a tree the
\* system manages, or at one of the places whose loss is total.
Places == {"none", "inside", "outside", "system", "home", "driveRoot", "root", "device"}
Broad == {"home", "driveRoot", "root"}
Protected == Broad \cup {"device"}

\* A command's target and flags.  mode: not a permission command, one, or one
\* that sets 777.
Commands == [place : Places, glob : {"no", "glob", "broad"}, dotdot : BOOLEAN,
             recursive : BOOLEAN, force : BOOLEAN, mode : {"no", "other", "777"}]

\* What a registry definition declares about a command.
Defs == [riskDefault : Levels, destructive : BOOLEAN, requiresEstimate : BOOLEAN,
         readsTarget : BOOLEAN]

\* The target as a definition reads it, which may look for it in another parameter.
Target(cmd, def) == IF def.readsTarget THEN cmd.place ELSE "none"

\* What the file system shows the resolved phase: nothing (it throws), or where
\* a link at the target points, where the target really is, and whether a walk
\* could count what it holds.
Facts == [fails : BOOLEAN, link : Places, real : Places \ {"none"}, walked : BOOLEAN]

Codes == {"device-write", "root-delete", "drive-root-delete", "home-delete",
          "protected-system-path", "recursive-chmod-777-broad", "recursive-chmod-777",
          "recursive-permission", "recursive-force", "recursive-delete", "broad-glob",
          "glob-target", "parent-traversal", "outside-cwd"}

\* The level a finding is created with, which SAFETY_FLOORS says it cannot go below.
CodeLevel(code) ==
    CASE code \in {"device-write", "root-delete", "drive-root-delete", "home-delete",
                   "recursive-chmod-777-broad"} -> "CRITICAL"
      [] code \in {"glob-target", "outside-cwd"} -> "MEDIUM"
      [] OTHER -> "HIGH"

\* The rules of classifyTarget, applied to a place.
Triggered(code, place, cmd) ==
    CASE code = "device-write"          -> place = "device"
      [] code = "root-delete"           -> place = "root"
      [] code = "drive-root-delete"     -> place = "driveRoot"
      [] code = "home-delete"           -> place = "home"
      [] code = "protected-system-path" -> place = "system"
      [] code = "recursive-chmod-777-broad" ->
            cmd.mode = "777" /\ cmd.recursive /\ place \in Broad
      [] code = "recursive-chmod-777" ->
            cmd.mode = "777" /\ cmd.recursive /\ place \notin Broad
      [] code = "recursive-permission"  -> cmd.mode = "other" /\ cmd.recursive
      [] code = "recursive-force"       -> cmd.recursive /\ cmd.force
      [] code = "recursive-delete"      -> cmd.recursive /\ ~cmd.force
      [] code = "broad-glob"            -> cmd.glob = "broad"
      [] code = "glob-target"           -> cmd.glob = "glob"
      [] code = "parent-traversal"      -> cmd.dotdot /\ place # "inside"
      [] code = "outside-cwd"           ->
            ~cmd.dotdot /\ place \notin Broad \cup {"inside"}

classifyTarget(place, cmd, destructive) ==
    {CodeLevel(c) : c \in {d \in Codes : /\ Triggered(d, place, cmd)
                                         /\ destructive \/ d = "device-write"}}

\* The definition's riskDefault is a floor under the findings.
finalize(levels, def) == higherRisk(HighestOf(levels), def.riskDefault)

EmptyTarget(def) == IF def.destructive THEN {"HIGH"} ELSE {}

assessAst(cmd, def) ==
    finalize(IF Target(cmd, def) = "none" THEN EmptyTarget(def)
             ELSE classifyTarget(cmd.place, cmd, def.destructive), def)

\* The levels of the resolved phase's findings, before the estimate.
ResolvedLevels(cmd, def, fs) ==
    IF Target(cmd, def) = "none" THEN EmptyTarget(def)
    ELSE classifyTarget(fs.real, cmd, def.destructive)
         \cup (IF fs.link = "none" THEN {}
               ELSE IF fs.link \in Protected THEN {"CRITICAL"} ELSE {"MEDIUM"})

\* A glob whose static prefix cannot be walked says so.
assessResolved(cmd, def, fs) ==
    LET levels == ResolvedLevels(cmd, def, fs)
        unbounded == /\ def.destructive /\ cmd.glob # "no" /\ Target(cmd, def) # "none"
                     /\ "CRITICAL" \notin levels /\ ~fs.walked
    IN  finalize(levels \cup (IF unbounded THEN {"MEDIUM"} ELSE {}), def)

\* It counts what would be affected only for a destructive command whose target
\* is not already forbidden.
Estimated(cmd, def, fs) ==
    /\ ~fs.fails /\ fs.walked /\ Target(cmd, def) # "none" /\ def.destructive
    /\ "CRITICAL" \notin ResolvedLevels(cmd, def, fs)
=============================================================================
