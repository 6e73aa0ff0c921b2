-------------------------------- MODULE MCServer --------------------------------
(***************************************************************************)
(* A small instance of Server: one agent stream and two runs beside it,    *)
(* with room for one or two pending approvals.                             *)
(***************************************************************************)
EXTENDS Server

CONSTANTS s1, r1, r2, r3

\* A command policy asks about, until the files it is about have gone; one that it
\* always asks about; one that it lets through; one that is rehearsed or blocked, as
\* the files are.
MCCommands == {"remove", "erase", "list", "write"}
MCDecisions == [c \in MCCommands |->
                  CASE c = "remove" -> {"approval_required", "allow"}
                    [] c = "erase" -> {"approval_required"}
                    [] c = "list" -> {"allow"}
                    [] c = "write" -> {"require_dry_run", "block"}]

Call(call, command) == [call |-> call, command |-> command]
MCTurns == {<<>>, <<Call("native", "list"), Call("dry", "erase")>>,
            <<Call("real", "write"), Call("real", "erase")>>}

Post0 == [commands |-> <<"remove">>, dryRun |-> FALSE, editor |-> FALSE,
          host |-> "loopback", origin |-> "none", bearer |-> TRUE]

MCAsks == [r \in Runs |->
             IF r = r1 THEN {[Post0 EXCEPT !.commands = <<"list", "remove">>],
                             [Post0 EXCEPT !.commands = <<"write", "list">>],
                             [Post0 EXCEPT !.bearer = FALSE],
                             [Post0 EXCEPT !.commands = <<"erase">>, !.editor = TRUE]}
             ELSE {[Post0 EXCEPT !.commands = <<"erase">>, !.dryRun = TRUE]}]
=============================================================================
