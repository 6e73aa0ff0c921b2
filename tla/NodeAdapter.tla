------------------------------ MODULE NodeAdapter ------------------------------
(***************************************************************************)
(* File commands carried out in the process (adapters-posix/src/           *)
(* node-adapter.ts): each is one or more calls of the file system, and     *)
(* other commands and other programs come in between.  A command's path    *)
(* is assessed first (safety/src/resolved.ts), and may be another by the   *)
(* time it is used.                                                        *)
(*                                                                         *)
(* A path names a file, a directory or a link to a path outside; a file's  *)
(* text outlives its name for whoever has it open.                         *)
(***************************************************************************)
EXTENDS Integers, Sequences, FiniteSets, FiniteSetsExt, SequencesExt

CONSTANTS
    Paths,      \* in the workspace
    Outside,    \* a path outside, where links lead to
    Requested,  \* commands: [do, path, to, recursive, force, lines, tty, text]
    Workers,    \* commands at once
    FirstText,  \* the text outside
    MaxFiles,   \* bound on the files there ever are
    MaxText,    \* bound on a file's text
    MaxSwaps,   \* bound on what other programs do
    Chunk       \* TAIL_CHUNK_BYTES

VARIABLES
    entry,      \* what a path names
    text,       \* the files' texts
    files,      \* how many files there were
    command,    \* what each worker is at
    swaps

vars == <<entry, text, files, command, swaps>>

LineEnd == "\n"
Files == 1 .. MaxFiles

AdapterAssumption ==
    /\ Outside \notin Paths /\ MaxFiles \in Nat \ {0} /\ Chunk \in Nat \ {0}
    /\ MaxText \in Nat /\ MaxSwaps \in Nat
    /\ FirstText \in Seq(STRING)
    /\ \A r \in Requested : /\ r.path \in Paths /\ r.to \in Paths
                            /\ r.text \in Seq(STRING) /\ r.lines \in Nat \ {0}

Nothing == [kind |-> "none"]
Directory == [kind |-> "dir"]
File(f) == [kind |-> "file", file |-> f]
Link == [kind |-> "link"]

Idle == [at |-> "idle"]

Init ==
    /\ entry \in [Paths \cup {Outside} -> {Nothing, Directory, File(1)}]
    /\ entry[Outside] = File(1) /\ \A p \in Paths : entry[p] \in {Nothing, Directory}
    /\ text = [f \in Files |-> IF f = 1 THEN FirstText ELSE <<>>] /\ files = 1
    /\ command = [w \in Workers |-> Idle] /\ swaps = 0

\* What is found at a path by whoever follows links, and by whoever does not.
Target(p) == IF entry[p] = Link THEN Outside ELSE p
Found(p) == entry[Target(p)]
IsFile(p) == Found(p) \notin {Nothing, Directory}

-----------------------------------------------------------------------------
(* Helpers of a worker's steps                                             *)

At(w, at, do) == command[w].at = at /\ command[w].r.do \in do
Path(w) == command[w].r.path
Goto(w, at) == command' = [command EXCEPT ![w].at = at]
\* exit code 0 and some output, or 1
Ends(w, ok, out) == command' = [command EXCEPT ![w] = [@ EXCEPT !.at = "done", !.ok = ok, !.out = out]]
Ok(w) == Ends(w, TRUE, <<>>)
Fails(w) == Ends(w, FALSE, <<>>)
SameFiles == UNCHANGED <<entry, text, files>>

\* writeFile, appendFile and copyFile write where the path leads: into a new file, or into the
\* one there is.
Put(path, new) ==
    LET target == Target(path) IN
    IF entry[target] = Nothing
    THEN /\ files < MaxFiles /\ files' = files + 1
         /\ entry' = [entry EXCEPT ![target] = File(files + 1)]
         /\ text' = [text EXCEPT ![files + 1] = new]
    ELSE /\ text' = [text EXCEPT ![entry[target].file] = new]
         /\ UNCHANGED <<entry, files>>
TextAt(p) == IF IsFile(p) THEN text[Found(p).file] ELSE <<>>

-----------------------------------------------------------------------------
(* The commands                                                            *)

\* execute: a command that is only rehearsed does nothing.
Begin(w, r) ==
    /\ command[w] = Idle
    /\ command' = [command EXCEPT ![w] =
         [at |-> "begin", r |-> r, ok |-> FALSE, out |-> <<>>,
          file |-> 0, was |-> <<>>, left |-> 0, got |-> <<>>, mixed |-> FALSE]]
    /\ SameFiles

\* create.file: what is there is left alone, and what is made meanwhile is an error.
CreateStat(w) ==
    /\ At(w, "begin", {"create"})
    /\ IF Found(Path(w)) # Nothing THEN Ok(w) ELSE Goto(w, "act")
    /\ SameFiles
Create(w) ==
    /\ At(w, "act", {"create"})
    /\ IF entry[Path(w)] # Nothing THEN Fails(w) /\ SameFiles
       ELSE Put(Path(w), <<>>) /\ Ok(w)

\* create.folder
MakeFolder(w) ==
    /\ At(w, "begin", {"mkdir"})
    /\ IF IsFile(Path(w)) THEN Fails(w) /\ SameFiles
       ELSE /\ entry' = [entry EXCEPT ![Target(Path(w))] = Directory]
            /\ Ok(w) /\ UNCHANGED <<text, files>>

\* write.file, append.file and copy.file
Write(w) ==
    LET r == command[w].r
        new == CASE r.do = "write" -> r.text
                 [] r.do = "append" -> TextAt(r.path) \o r.text
                 [] r.do = "copy" -> TextAt(r.path)
        path == IF r.do = "copy" THEN r.to ELSE r.path
    IN /\ At(w, "begin", {"write", "append", "copy"})
       /\ IF Found(path) = Directory \/ (r.do = "copy" /\ ~IsFile(r.path))
          THEN Fails(w) /\ SameFiles
          ELSE Len(new) <= MaxText /\ Put(path, new) /\ Ok(w)

\* refuseSwappedSymlink
RefuseLink(w) ==
    /\ At(w, "begin", {"remove", "rmdir", "move"})
    /\ IF entry[Path(w)] = Link THEN Fails(w) ELSE Goto(w, "act")
    /\ SameFiles

\* Mistake: what the path leads to is removed.
Removed_Real(p) == Target(p)
\* unlink, rm and rename take the path as it is: of a link, the link.
Removed(p) == p
\* remove.file and remove.folder
RemoveEntry(w) ==
    LET r == command[w].r
        old == entry[r.path]
    IN /\ At(w, "act", {"remove", "rmdir"})
       /\ IF \/ r.do = "remove" /\ old \in {Nothing, Directory}
             \/ r.do = "rmdir" /\ old = Nothing /\ ~r.force
             \/ r.do = "rmdir" /\ old = Directory /\ ~r.recursive
          THEN Fails(w) /\ SameFiles
          ELSE /\ entry' = [entry EXCEPT ![Removed(r.path)] = Nothing]
               /\ Ok(w) /\ UNCHANGED <<text, files>>

\* move.file and rename.file
Move(w) ==
    LET r == command[w].r
        old == entry[r.path]
    IN /\ At(w, "act", {"move"})
       /\ IF old = Nothing \/ (r.to # r.path /\ (old = Directory) # (entry[r.to] = Directory)
                               /\ entry[r.to] # Nothing)
          THEN Fails(w) /\ SameFiles
          ELSE /\ entry' = [p \in DOMAIN entry |-> IF p = r.to THEN old
                                                   ELSE IF p = r.path THEN Nothing ELSE entry[p]]
               /\ Ok(w) /\ UNCHANGED <<text, files>>

\* read.file and list.folder
Read(w) ==
    /\ At(w, "begin", {"read", "list"})
    /\ IF (command[w].r.do = "read" /\ ~IsFile(Path(w)))
          \/ (command[w].r.do = "list" /\ Found(Path(w)) # Directory)
       THEN Fails(w) ELSE Ends(w, TRUE, TextAt(Path(w)))
    /\ SameFiles

\* change.path: only the terminal session changes its directory, and only to one there is.
Enter(w) ==
    /\ At(w, "begin", {"enter"})
    /\ IF Found(Path(w)) = Directory THEN Ok(w) ELSE Fails(w)
    /\ SameFiles

\* run.script, edit.file and open.editor: something to run, or a place to edit in, and for an
\* editor a terminal.
Spawn(w) ==
    /\ At(w, "begin", {"run", "edit"})
    /\ IF \/ command[w].r.do = "run" /\ ~IsFile(Path(w))
          \/ command[w].r.do = "edit" /\ (Found(Path(w)) = Directory \/ ~command[w].r.tty)
       THEN Fails(w) ELSE Goto(w, "spawned")
    /\ SameFiles
\* The process has ended, or could not be started.
Exit(w) == command[w].at = "spawned" /\ (Ok(w) \/ Fails(w)) /\ SameFiles

-----------------------------------------------------------------------------
(* tail.file                                                               *)

EndsOfLines(t) == {i \in DOMAIN t : t[i] = LineEnd}

\* The last lines of a text.  One empty line alone comes out as nothing, without its end.
LastLines(t, count) ==
    LET final == t # <<>> /\ t[Len(t)] = LineEnd
        body == IF final THEN SubSeq(t, 1, Len(t) - 1) ELSE t
        starts == {1} \cup {i + 1 : i \in EndsOfLines(body)}
        from == {i \in starts : Cardinality({j \in starts : j >= i}) <= count}
        selected == SubSeq(body, Min(from), Len(body))
    IN IF selected = <<>> THEN <<>>
       ELSE selected \o IF final THEN <<LineEnd>> ELSE <<>>

\* Mistake: as many line ends as lines will do.
Enough_AsMany(t, count) == Cardinality(EndsOfLines(t)) >= count
\* A line end more than lines are wanted, as the last of them may end the text.
Enough(t, count) == Cardinality(EndsOfLines(t)) > count

\* stat, and open: by then the path may lead to another file.
TailStat(w) ==
    /\ At(w, "begin", {"tail"})
    /\ IF ~IsFile(Path(w)) THEN Fails(w)
       ELSE IF TextAt(Path(w)) = <<>> THEN Ok(w)
       ELSE command' = [command EXCEPT ![w] = [@ EXCEPT !.at = "open", !.was = TextAt(Path(w)),
                          !.left = Len(TextAt(Path(w)))]]
    /\ SameFiles
TailOpen(w) ==
    /\ At(w, "open", {"tail"})
    /\ IF ~IsFile(Path(w)) THEN Fails(w)
       ELSE command' = [command EXCEPT ![w] = [@ EXCEPT !.at = "read", !.file = Found(Path(w)).file]]
    /\ SameFiles

\* A chunk is read in front of those read so far; what the file no longer has is missing.
TailRead(w) ==
    LET c == command[w]
        from == IF c.left > Chunk THEN c.left - Chunk ELSE 0
        now == text[c.file]
        got == SubSeq(now, from + 1, IF c.left < Len(now) THEN c.left ELSE Len(now)) \o c.got
    IN /\ At(w, "read", {"tail"})
       /\ command' = [command EXCEPT ![w] =
            [c EXCEPT !.left = from, !.got = got,
                      !.mixed = c.mixed \/ ~IsPrefix(c.was, now),
                      !.at = IF from = 0 \/ Enough(got, c.r.lines) THEN "done" ELSE "read",
                      !.ok = TRUE, !.out = LastLines(got, c.r.lines)]]
       /\ SameFiles

-----------------------------------------------------------------------------
\* Another program puts a link, a file or nothing in the place of what was there.
Swap(p) ==
    /\ swaps < MaxSwaps /\ swaps' = swaps + 1
    /\ \/ entry' = [entry EXCEPT ![p] = Link] /\ UNCHANGED <<text, files>>
       \/ entry' = [entry EXCEPT ![p] = Nothing] /\ UNCHANGED <<text, files>>
       \/ /\ files < MaxFiles /\ files' = files + 1
          /\ entry' = [entry EXCEPT ![p] = File(files + 1)]
          /\ text' = [text EXCEPT ![files + 1] = FirstText]
    /\ UNCHANGED command

Step(w) ==
    \/ CreateStat(w) \/ Create(w) \/ MakeFolder(w) \/ Write(w) \/ RefuseLink(w) \/ RemoveEntry(w)
    \/ Move(w) \/ Read(w) \/ Enter(w) \/ Spawn(w) \/ Exit(w) \/ TailStat(w) \/ TailOpen(w) \/ TailRead(w)

Next ==
    \/ \E w \in Workers : ((\E r \in Requested : Begin(w, r)) \/ Step(w)) /\ UNCHANGED swaps
    \/ \E p \in Paths : Swap(p)

Spec == Init /\ [][Next]_vars

-----------------------------------------------------------------------------
(* Properties *)

\* tail.file gives the last lines of the file as it was when it was looked at, wherever the
\* chunks begin and whatever is appended meanwhile; unless the file is written anew or replaced
\* (tailFile takes the size before it opens the file).
TailIsLastLines ==
    \A w \in Workers :
        LET c == command[w] IN
        c.at = "done" /\ c.r.do = "tail" /\ c.ok /\ ~c.mixed => c.out = LastLines(c.was, c.r.lines)

\* However a path is swapped while commands are under way: only a command that writes changes
\* a text, so create.file empties no file that has come to be meanwhile; and no command takes
\* away or replaces the entry outside, nor changes its text but by writing through a link.  Nor
\* does any step show other than the last lines.
FilesAsNamed ==
    [][ /\ TailIsLastLines'
        /\ \A w \in Workers : command'[w] # command[w] =>
             LET r == command'[w].r
                 written == IF r.do = "copy" THEN r.to ELSE r.path
             IN /\ entry'[Outside] = entry[Outside]
                /\ \A f \in 1 .. files : text'[f] # text[f] =>
                     /\ r.do \in {"write", "append", "copy"}
                     /\ f = 1 => entry[written] = Link
      ]_vars
=============================================================================
