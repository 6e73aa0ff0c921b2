------------------------------ MODULE MCWorkbench ------------------------------
(***************************************************************************)
(* A small instance of Workbench.                                          *)
(***************************************************************************)
EXTENDS Workbench, TLC

CONSTANT t1

\* Two commands of one and two letters, with a path, a flag and a choice; a directory and names
\* with blanks and with a quote in the tree; lines with a batch, open quotes, an escaped blank and a native one.
Values(texts) == [path |-> FALSE, values |-> texts]
MCKnown ==
    (<<"c">> :> (<<"k">> :> [path |-> TRUE, values |-> {}] @@ <<"t">> :> Values({<<"t">>})))
    @@ (<<"c", "k">> :> (<<"k", "k">> :> Values({<<"t", "k">>, <<"k">>})))
MCTree == (<<>> :> {[name |-> <<"k", " ", "k">>, dir |-> FALSE],
                    [name |-> <<"k", " ", "\"", "t">>, dir |-> FALSE],
                    [name |-> <<"k", "t">>, dir |-> TRUE]})
    @@ (<<"k", "t", "/">> :> {[name |-> <<"t", " ">>, dir |-> TRUE]})
MCKeys == {"c", "k", "t", " ", "=", "\"", "'", "\\", "&"}
MCPast == {<<"c", " ", "k", "=">>, <<"c", " ", "k", "=", "\"", "k", " ">>,
           <<"c", "&", "&", "c", "&", "&", " ", "c", " ">>, <<"!", " ", "\"", "k", "\"">>,
           <<"c", " ", "k", "=", "k", "\\", " ">>, <<"c", "k", " ", "k", "k", "=">>}

\* Documents with every construct and every way a value is written.
Header == <<"@", " ", "0", "\n">>
MCSources == {
    Header \o <<"k", ".", "k", " ", "\"", "k", "\"", "{", "p", "=", "e", "(", "1", ".", "0", ")",
                ".", "k", "(", ")", "}">>,
    Header \o <<"u", " ", "k", "(", "t", ",", "[", "0", "1", "]", ")", " ", "s", " ", "k">>,
    Header \o <<"d", "{", "k", "=", "\"", "\\", "\\", "\\", "n", "\"", "}", "#", "k">>}
MCInserted == {<<"\"">>, <<"\\">>, <<"\\", "c">>, <<"k">>, <<"t">>, <<".">>, <<"0">>, <<"\n">>,
               <<"{">>, <<"}">>, <<"[">>, <<"(">>, <<"f">>, <<"FF">>, <<",">>, <<"=">>}

Job(do) == [do |-> do, path |-> "p", to |-> "q", recursive |-> TRUE, force |-> FALSE, lines |-> 1,
            tty |-> TRUE, text |-> <<"x", "\n">>]
MCRequested ==
    {Job(do) : do \in {"create", "mkdir", "write", "append", "copy", "remove", "rmdir", "move",
                       "read", "list", "enter", "run", "edit", "tail"}}
    \cup {[Job("rmdir") EXCEPT !.recursive = FALSE, !.force = TRUE],
          [Job("edit") EXCEPT !.tty = FALSE], [Job("tail") EXCEPT !.lines = 2],
          [Job("move") EXCEPT !.path = "q", !.to = "p"]}
MCFirst == <<"x", "x", "\n", "x", "\n">>
=============================================================================
