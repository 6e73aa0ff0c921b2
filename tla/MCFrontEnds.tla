------------------------------ MODULE MCFrontEnds ------------------------------
(***************************************************************************)
(* A small instance of FrontEnds.                                          *)
(***************************************************************************)
EXTENDS FrontEnds

\* A command that is simply run; one the policy asks about, or lets through; one it
\* lets through though it is sensitive, or only rehearses; one it always asks about.
MCCommands == {"list", "remove", "erase", "halt"}
Decision(action, level) == [action |-> action, risk |-> level]
MCDecisions == [c \in MCCommands |->
    CASE c = "list" -> {Decision("allow", "LOW")}
      [] c = "remove" -> {Decision("approval_required", "MEDIUM"), Decision("allow", "MEDIUM")}
      [] c = "erase" -> {Decision("allow", "HIGH"), Decision("require_dry_run", "HIGH"),
                         Decision("block", "HIGH")}
      [] c = "halt" -> {Decision("approval_required", "CRITICAL")}]

Typed(kind, steps) == [kind |-> kind, steps |-> steps, yes |-> FALSE]
MCLines == {Typed("run", <<"remove">>), Typed("run", <<"halt">>),
            Typed("run", <<"list", "erase">>), Typed("ask", <<"list", "remove", "halt">>),
            Typed("exit", <<>>), [Typed("pass", <<>>) EXCEPT !.yes = TRUE]}

MCKind == [c \in {"clear", "make", "ai"} |->
             CASE c = "clear" -> "local" [] c = "make" -> "run" [] c = "ai" -> "ask"]
MCEntries == {<<"clear", "make">>, <<"ai">>}

\* A function that adds a user if there is none of the name, and one that invokes it.
MCDef == [f \in {"create", "signup"} |->
    CASE f = "create" ->
           [grants |-> {<<"query", "users">>, <<"insert", "users">>, <<"evidence", "log">>},
            steps |-> << <<"query", "users">>, <<"guard", "absent">>, <<"insert", "users">>,
                         <<"evidence", "log">>, <<"return", "user">> >>]
      [] f = "signup" ->
           [grants |-> {<<"invoke", "create">>},
            steps |-> << <<"invoke", "create">>, <<"return", "user">> >>]]
\* One request may be used once, for either function, the other as often as wanted.
Request(nonce, single, fn) == [nonce |-> nonce, single |-> single, fn |-> fn, key |-> "ann"]
MCRequests == {Request("n", TRUE, "create"), Request("n", TRUE, "signup"),
               Request("m", FALSE, "create")}

\* Two contents of one command, and a definition that does not fit the schema.
Definition(id, version, ok) == [id |-> id, version |-> version, ok |-> ok]
MCDefs == {Definition("a", 1, TRUE), Definition("a", 2, TRUE), Definition("b", 1, FALSE)}
\* Two commands.
MCTwo == {Definition("a", 1, TRUE), Definition("b", 1, TRUE)}
=============================================================================
