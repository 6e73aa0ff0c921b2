------------------------------ MODULE CommandLine ------------------------------
(***************************************************************************)
(* Typing a command in the web terminal (web/public/terminal.js) with the  *)
(* completion the server offers (server/src/complete.ts).  A keystroke     *)
(* starts a timer, the timer sends the text, and the answer, whenever it     *)
(* comes, is shown: it may belong to a text that is no longer there.       *)
(***************************************************************************)
EXTENDS CommandText

CONSTANTS
    Known,      \* command |-> key |-> whether it is a path, and the values there are: [path, values]
    Tree,       \* directory, as it is written |-> entries in it: [name, dir]
    Past,       \* lines the arrow keys bring back
    Keys,       \* characters that are typed
    MaxTyped    \* bound on the keystrokes

VARIABLES
    line,       \* the text in the input field
    timed,      \* the text the timer will send, or <<>> without a timer
    sent,       \* texts sent, whose answers are to come
    offered,    \* the completions shown: [text, for], for the text they were asked for
    keystrokes

vars == <<line, timed, sent, offered, keystrokes>>

\* The assumption on the constants: commands and keys are named as the parser has it, and
\* directories and entries in any way.
CommandLineAssumption ==
    /\ MaxTyped \in Nat /\ IsFiniteSet(Keys) /\ IsFiniteSet(Past)
    /\ Keys \subseteq Chars /\ Past \subseteq Texts
    /\ \A c \in DOMAIN Known :
         /\ c \in Texts /\ IsCommand(c)
         /\ \A k \in DOMAIN Known[c] :
              /\ k \in Texts /\ IsKey(k)
              /\ Known[c][k].path \in BOOLEAN /\ Known[c][k].values \subseteq Texts
    /\ \A d \in DOMAIN Tree :
         d \in Texts /\ \A e \in Tree[d] : e.name \in Texts /\ e.dir \in BOOLEAN

-----------------------------------------------------------------------------
(* The server's completion                                                 *)

\* Mistake: what follows the first.
SegmentStart_First(s) ==
    IF Starts(Trim(s), <<"!">>) \/ Cuts(s) = {} THEN 0
    ELSE (CHOOSE i \in Cuts(s) : \A j \in Cuts(s) : i <= j) + 1
\* currentBatchSegment: what follows the last `&&`.
SegmentStart(s) ==
    IF Starts(Trim(s), <<"!">>) \/ Cuts(s) = {} THEN 0
    ELSE (CHOOSE i \in Cuts(s) : \A j \in Cuts(s) : j <= i) + 1
From(s, start) == SubSeq(s, start + 1, Len(s))

EndsWithSeparator(s) == s # <<>> /\ s[Len(s)] \in Blanks /\ Scanned(s) = Open

\* Mistake: an escaped blank ends a token.
LastGap_Escaped(s) ==
    LET gaps == {i \in DOMAIN s : s[i] \in Blanks /\ Before(s, i).quote = None}
    IN IF gaps = {} THEN 0 ELSE CHOOSE i \in gaps : \A j \in gaps : j <= i
\* The token the end of the text is in starts behind the last blank.
LastGap(s) ==
    IF Gaps(s) = {} THEN 0 ELSE CHOOSE i \in Gaps(s) : \A j \in Gaps(s) : j <= i
CurrentToken(s) == From(s, LastGap(s))

LooseTokens(s) ==
    LET at == {i \in DOMAIN s \ Gaps(s) : i = 1 \/ i - 1 \in Gaps(s)}
    IN {[at |-> i, text |-> SubSeq(s, i, EndOf(s, Gaps(s), i))] : i \in at}

ParentText(s) ==
    LET seps == {i \in DOMAIN s : s[i] \in {"/", Backslash}}
    IN SubSeq(s, 1, IF seps = {} THEN 0 ELSE CHOOSE i \in seps : \A j \in seps : j <= i)

\* A path in quotes stays in them, one with blanks is put in them; behind a directory they
\* are left open.
RewrapPath(s, quote, dir) ==
    LET q == IF quote = None THEN "\"" ELSE quote
    IN IF quote = None /\ ~Holds(s, Blanks) THEN s
       ELSE <<q>> \o Escaped(s, q) \o (IF dir THEN <<>> ELSE <<q>>)

\* Entries of the directory written so far, or of the current one, that go on as the text does.
CompletePath(partial) ==
    LET quote == IF partial # <<>> /\ partial[1] \in Quotes THEN partial[1] ELSE None
        written == IF quote = None THEN partial ELSE Tail(partial)
        parent == ParentText(written)
        entries == IF parent \in DOMAIN Tree THEN Tree[parent] ELSE {}
    IN {RewrapPath(parent \o e.name \o (IF e.dir THEN <<"/">> ELSE <<>>), quote, e.dir) :
          e \in {x \in entries : Starts(x.name, From(written, Len(parent)))}}

\* complete: command names, keys that are not there yet, or values of the key.
Complete(s) ==
    LET segment == From(s, SegmentStart(s))
        tokens == LooseTokens(segment)
        head == (CHOOSE t \in tokens : \A u \in tokens : t.at <= u.at).text
        last == IF EndsWithSeparator(segment) THEN <<>> ELSE CurrentToken(segment)
        key == SubSeq(last, 1, FirstEq(last) - 1)
        value == SubSeq(last, FirstEq(last) + 1, Len(last))
        before(w) == SubSeq(w, 1, FirstEq(w) - 1)
        used == {before(t.text) : t \in {u \in tokens : \E v \in tokens : v.at < u.at}}
        kind == Known[head][key]
    IN IF Starts(Trim(segment), <<"!">>) THEN {}
       ELSE IF tokens = {} \/ (Cardinality(tokens) = 1 /\ ~EndsWithSeparator(segment))
         THEN {c \in DOMAIN Known : Starts(c, IF tokens = {} THEN <<>> ELSE head)}
       ELSE IF head \notin DOMAIN Known THEN {}
       ELSE IF FirstEq(last) > Len(last)
         THEN {k \o <<"=">> : k \in {x \in DOMAIN Known[head] \ used : Starts(x, last)}}
       ELSE IF key \notin DOMAIN Known[head] THEN {}
       ELSE {key \o <<"=">> \o v : v \in
               IF kind.path THEN CompletePath(value)
               ELSE {x \in kind.values : Starts(x, value)}}

-----------------------------------------------------------------------------
(* The input field                                                         *)

Init ==
    /\ line = <<>> /\ timed = <<>> /\ sent = {} /\ offered = {} /\ keystrokes = 0

\* updateCompletions, after each change by hand: only the last of them is sent; an empty line
\* takes the list away and leaves the timer.
Changed(to) ==
    /\ keystrokes < MaxTyped /\ keystrokes' = keystrokes + 1
    /\ line' = to
    /\ IF Trim(to) = <<>> THEN offered' = {} /\ UNCHANGED timed
                          ELSE timed' = to /\ UNCHANGED offered
    /\ UNCHANGED sent

Type(c) == Changed(Append(line, c))
Erase == line # <<>> /\ Changed(SubSeq(line, 1, Len(line) - 1))

Send ==
    /\ timed # <<>>
    /\ sent' = sent \cup {timed} /\ timed' = <<>>
    /\ UNCHANGED <<line, offered, keystrokes>>

\* An answer replaces what is shown, in whatever order the answers come; a request that fails
\* counts as one without completions.
Answer(s) ==
    /\ s \in sent
    /\ sent' = sent \ {s}
    /\ offered' \in {{}, {[text |-> c, for |-> s] : c \in Complete(s)}}
    /\ UNCHANGED <<line, timed, keystrokes>>

\* lastTokenBounds.
TokenStart(s) == IF EndsWithSeparator(s) THEN Len(s) ELSE LastGap(s)
\* isCommandCompletion.
NamesCommand(s) ==
    /\ ~Starts(Trim(From(s, SegmentStart(s))), <<"!">>)
    /\ Trim(SubSeq(s, SegmentStart(s) + 1, TokenStart(s))) = <<>>
\* completionSuffix: a blank, unless more of the token is to come.
Suffix(s, c) ==
    IF NamesCommand(s) \/ c[Len(c)] \in {"=", "/", Backslash, "."} THEN <<>> ELSE <<" ">>
\* The completion takes the place of the last token.
Completed(s, c) == SubSeq(s, 1, TokenStart(s)) \o c \o Suffix(s, c)

\* applyCompletion, by Tab or a click, to the text there is by now.
Apply(c) ==
    /\ line' = Completed(line, c.text)
    /\ offered' = {}
    /\ UNCHANGED <<timed, sent, keystrokes>>

\* Enter and ^C empty the field, Escape takes the list away; the timer and the answers under
\* way go on.
Leave ==
    /\ line # <<>> \/ offered # {}
    /\ offered' = {} /\ line' \in {line, <<>>}
    /\ UNCHANGED <<timed, sent, keystrokes>>

Recall(s) ==
    /\ offered = {} /\ line' = s
    /\ UNCHANGED <<timed, sent, offered, keystrokes>>

Next ==
    \/ \E c \in Keys : Type(c)
    \/ Erase \/ Send \/ Leave
    \/ \E s \in sent : Answer(s)
    \/ \E c \in offered : Apply(c)
    \/ \E s \in Past : Recall(s)

Spec == Init /\ [][Next]_vars

-----------------------------------------------------------------------------
(* Properties *)

\* The last token has an `&&` in it, or the text ends in a blank that is escaped: the client
\* takes the first for a token, and the second for the end of one.
Misread(s) ==
    \/ Cuts(From(s, TokenStart(s))) # {}
    \/ EndsWithSeparator(s) /\ Len(s) \notin Gaps(s)

\* A completion with a path that has a quote or a backslash in it.  What is written of one is
\* looked for in the directory as it stands, with its quotes and escapes, and one that needs
\* no quotes is offered as it stands.
OddlyNamed(t) ==
    \E d \in DOMAIN Tree : \E e \in Tree[d] : \E quote \in Quotes \cup {None} : \E i \in 0 .. Len(t) :
      /\ Holds(d \o e.name, Quotes \cup {Backslash})
      /\ From(t, i) = RewrapPath(d \o e.name \o (IF e.dir THEN <<"/">> ELSE <<>>), quote, e.dir)

\* Whatever completion is applied to whatever text, also one that was asked for another text,
\* the tokens before the last stay as they were and the completion comes behind them, as the
\* parser sees it; and one that was asked for this text goes on where the text ended, unless it
\* is of an oddly named path (lastTokenBounds against complete.ts and tokenize).  Two texts the
\* client misreads: an `&&` without a blank behind it is replaced with the last token, and an
\* escaped blank at the end is taken for the end of a token.
CompletionFits ==
    \A c \in offered :
      LET kept == SubSeq(line, 1, TokenStart(line))
          typed == From(line, TokenStart(line))
      IN ~Misread(line) =>
         /\ Scanned(c.text) = Open =>
              Tokenize(Completed(line, c.text)) = Tokenize(kept) \o Tokenize(c.text)
         /\ c.for = line /\ ~OddlyNamed(c.text) =>
              Starts(Said(c.text, 1, Len(c.text)), Said(typed, 1, Len(typed)))

\* What the readers make of one line agrees: a command the parser takes is the same command
\* with the same parameters to the web terminal, which decides by it where the line goes, unless
\* an equals sign has a blank beside it; and the completion takes for the last command what the
\* batch has last.
ReadersAgree ==
    LET ast == Parse(line)
        eqs == {i \in DOMAIN line : line[i] = "=" /\ Plain(line, i)}
    IN /\ "command" \in DOMAIN ast
          /\ (\A i \in eqs : i - 1 \notin Gaps(line) /\ i + 1 \notin Gaps(line))
          => ParseIdelLine(line) =
               [command |-> ast.command,
                params |-> {<<p[1], p[2].text>> : p \in ast.params}, args |-> {}]
       /\ SplitBatch(line) # NoBatch =>
            Trim(From(line, SegmentStart(line))) = SplitBatch(line)[Len(SplitBatch(line))]

\* A value that is written into a line is read back as that value: by the history for every text
\* but the empty one and a quoted true, by what `idel edit` and the web editor use for every text
\* that has no equals sign or `&&` without a blank, a quote or a backslash too.
WrittenReadsBack ==
    LET ast(v) == [command |-> <<"c">>, params |-> {<<<<"k">>, [text |-> v, boolean |-> FALSE]>>}]
        history == FormatHistoryCommand(<<"c">>, <<"k">>, line)
        edit == EditorAliasCommand(<<"c">>, <<"k">>, line)
    IN line \notin {<<>>, <<"t">>} =>
         /\ Parse(history) = ast(line) /\ SplitBatch(history) = <<history>>
         /\ Holds(line, Blanks \cup Quotes \cup {Backslash}) \/ ~Holds(line, {"=", "&"})
              => Parse(edit) = ast(line) /\ SplitBatch(edit) = <<edit>>

=============================================================================
