------------------------------- MODULE MCRuntime -------------------------------
(***************************************************************************)
(* A small instance of Runtime: two calls of one object under three        *)
(* policies, with one request for every way through the pipeline.          *)
(***************************************************************************)
EXTENDS Runtime

CONSTANTS r1, r2

\* Targets of a recursive removal: a folder of the project, and the root.
Folder == [place |-> "inside", glob |-> "no", dotdot |-> FALSE,
           recursive |-> FALSE, force |-> FALSE, mode |-> "no"]
Root == [Folder EXCEPT !.place = "root"]

\* A custom definition that plays remove.folder down and looks for no path, and the
\* core one it shadows.
CustomDef == [riskDefault |-> "LOW", destructive |-> FALSE, requiresEstimate |-> FALSE,
              readsTarget |-> FALSE]
CoreDef   == [riskDefault |-> "MEDIUM", destructive |-> TRUE, requiresEstimate |-> TRUE,
              readsTarget |-> TRUE]

\* The folder as it seems, a link to the root, nothing to be found, an error.
Plain   == [fails |-> FALSE, link |-> "none", real |-> "inside", walked |-> TRUE]
ToRoot  == [fails |-> FALSE, link |-> "root", real |-> "root", walked |-> TRUE]
Absent  == [fails |-> FALSE, link |-> "none", real |-> "inside", walked |-> FALSE]
MCFacts == {Plain, ToRoot, Absent}

Ask0 == [kind |-> "idel", cmd |-> Folder, defs |-> {CustomDef, CoreDef}, scan |-> "HIGH",
         command |-> <<"remove", "folder">>, source |-> "idel", environment |-> None,
         params |-> <<>>, plan |-> "ok", approval |-> "none",
         ci |-> FALSE, noNative |-> FALSE, dryRun |-> FALSE]

Shell == [Ask0 EXCEPT !.kind = "native", !.source = "native"]

MCRequests ==
    {Ask0, Shell,
     [Ask0 EXCEPT !.cmd = Root, !.approval = "yes"],
     [Ask0 EXCEPT !.approval = "no", !.source = "agent"],
     [Ask0 EXCEPT !.ci = TRUE, !.source = "ci"],
     [Ask0 EXCEPT !.dryRun = TRUE, !.approval = "yes"],
     [Ask0 EXCEPT !.params = [dryRun |-> TRUE], !.approval = "yes"],
     [Ask0 EXCEPT !.plan = "unsafe"], [Ask0 EXCEPT !.plan = "throws"],
     [Ask0 EXCEPT !.plan = "archive", !.command = <<"extract", "archive">>],
     [Ask0 EXCEPT !.plan = "none", !.command = <<"scan", "port">>],
     [Ask0 EXCEPT !.kind = "syntax"],
     [Shell EXCEPT !.noNative = TRUE],
     [Ask0 EXCEPT !.kind = "meta", !.defs = {CustomDef}, !.command = <<"list", "logs">>]}

\* The first call may be any of them, the second runs a shell line beside it.
MCRequestsOf == [r \in Runs |-> IF r = r1 THEN MCRequests ELSE {Shell}]

Match == [risk |-> Any, command |-> Any, source |-> Any, environment |-> Any, params |-> <<>>]

\* defaultPolicy(); a team that wants to be asked about the worst and about every
\* removal; one that allows whatever it can and rehearses the rest.
DefaultPolicy ==
    <<[match |-> [Match EXCEPT !.risk = "CRITICAL"], action |-> "block"],
      [match |-> [Match EXCEPT !.risk = "HIGH"], action |-> "require_dry_run"],
      [match |-> [Match EXCEPT !.source = "native"], action |-> "warn"],
      [match |-> Match, action |-> "allow"]>>
TeamPolicy ==
    <<[match |-> [Match EXCEPT !.risk = "CRITICAL"], action |-> "approval_required"],
      [match |-> [Match EXCEPT !.command = <<"remove", "*">>], action |-> "approval_required"],
      [match |-> [Match EXCEPT !.command = <<"native", "run">>], action |-> "approval_required"]>>
LaxPolicy ==
    <<[match |-> [Match EXCEPT !.risk = "CRITICAL"], action |-> "require_dry_run"],
      [match |-> [Match EXCEPT !.environment = "production"], action |-> "block"],
      [match |-> [Match EXCEPT !.command = <<"*">>], action |-> "warn"]>>

MCConfigs ==
    {[writer |-> TRUE, mode |-> "fail-closed", policy |-> TeamPolicy],
     [writer |-> TRUE, mode |-> "warn-and-continue", policy |-> LaxPolicy],
     [writer |-> FALSE, mode |-> "fail-closed", policy |-> DefaultPolicy]}
=============================================================================
