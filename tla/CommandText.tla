------------------------------ MODULE CommandText ------------------------------
(***************************************************************************)
(* The text of a command line, and who reads it: the parser (parser/src),  *)
(* the completion of the server and its twin in the CLI (complete.ts), and *)
(* the web terminal, which has readers of its own (terminal.js).  And who  *)
(* writes it: the quoting of a value that goes back into a line.           *)
(*                                                                         *)
(* A line is a sequence of characters.  The character "c" stands for two   *)
(* letters with a dot between them, "t" for the word true and "k" for any  *)
(* other letter; so a sequence of these is a command name when it has one  *)
(* to three "c", and a parameter's key when it has none.                   *)
(***************************************************************************)
EXTENDS Integers, SequencesExt

Blanks == {" "}
Quotes == {"'", "\""}
Backslash == "\\"
None == "none"
\* Characters, those that are spoken of here among them, and texts.
Chars == (STRING \ {None}) \cup Blanks \cup Quotes
         \cup {Backslash, "=", "&", "!", "/", ".", "c", "k", "t"}
Texts == Seq(Chars)
\* What a reader answers that throws: no batch has no parts, and no other token is like this.
NoBatch == <<>>
NoTokens == <<[type |-> "error", value |-> <<>>, quoted |-> FALSE]>>
NoCommand == [error |-> TRUE]

Holds(s, chars) == \E i \in DOMAIN s : s[i] \in chars
Starts(s, prefix) == IsPrefix(prefix, s)

\* String.trim.
Trim(s) ==
    LET at == {i \in DOMAIN s : s[i] \notin Blanks}
    IN IF at = {} THEN <<>> ELSE SubSeq(s, Min(at), Max(at))

-----------------------------------------------------------------------------
(* Quotes and escapes.  Every reader has its loop for them; this is the    *)
(* one of endsWithTokenSeparator.                                          *)

Open == [quote |-> None, escaped |-> FALSE]

Scan(st, c) ==
    CASE st.escaped -> [st EXCEPT !.escaped = FALSE]
      [] ~st.escaped /\ c = Backslash -> [st EXCEPT !.escaped = TRUE]
      [] ~st.escaped /\ c # Backslash /\ st.quote = None /\ c \in Quotes -> [st EXCEPT !.quote = c]
      [] ~st.escaped /\ c # Backslash /\ st.quote = c -> [st EXCEPT !.quote = None]
      [] OTHER -> st

\* Where the reader is before the i-th character.
Before(s, i) ==
    LET scanned[n \in 0 .. Len(s)] == IF n = 0 THEN Open ELSE Scan(scanned[n - 1], s[n])
    IN scanned[i - 1]
Scanned(s) == Before(s, Len(s) + 1)
Plain(s, i) == Before(s, i) = Open
\* A quote that opens or closes, or the backslash of an escape.
Mark(s, i) ==
    LET st == Before(s, i)
    IN /\ ~st.escaped
       /\ s[i] = Backslash \/ s[i] = st.quote \/ (st.quote = None /\ s[i] \in Quotes)
\* The blanks between tokens.
Gaps(s) == {i \in DOMAIN s : s[i] \in Blanks /\ Plain(s, i)}
\* Some places from the first to the last.
InOrder(places) ==
    LET upTo(i) == {j \in places : j <= i}
    IN [k \in 1 .. Cardinality(places) |-> CHOOSE i \in places : Cardinality(upTo(i)) = k]
\* What the characters from a to b say.
Said(s, a, b) ==
    LET kept == InOrder({i \in a .. b : ~Mark(s, i)})
    IN [k \in DOMAIN kept |-> s[kept[k]]]

\* The stretches of s between the places in cut, by where they start.
Heads(s, cut) == {i \in DOMAIN s \ cut : i = 1 \/ i - 1 \in cut}
EndOf(s, cut, i) == Min({j \in cut : j > i} \cup {Len(s) + 1}) - 1

-----------------------------------------------------------------------------
(* The parser                                                              *)

\* The places of `&&` that separate commands: neither quoted nor escaped, the first of each
\* pair.
Cuts(s) ==
    LET cut[i \in 0 .. Len(s)] ==
          /\ i \in 1 .. Len(s) - 1 /\ s[i] = "&" /\ s[i + 1] = "&"
          /\ Plain(s, i) /\ ~cut[i - 1]
    IN {i \in DOMAIN s : cut[i]}

\* A native line is left alone; an empty command is an error.
SplitBatch(s) ==
    IF Trim(s) = <<>> \/ Starts(Trim(s), <<"!">>) THEN <<Trim(s)>>
    ELSE LET cuts == Cuts(s)
             from == InOrder({1} \cup {i + 2 : i \in cuts})
             part(k) == Trim(SubSeq(s, from[k],
                                    Min({i \in cuts : i >= from[k]} \cup {Len(s) + 1}) - 1))
         IN IF \E k \in DOMAIN from : part(k) = <<>> THEN NoBatch
            ELSE [k \in DOMAIN from |-> part(k)]

\* A word, and whether any of it was quoted, or an equals sign between words.
Tokenize(s) ==
    LET eqs == {i \in DOMAIN s : s[i] = "=" /\ Plain(s, i)}
        cut == Gaps(s) \cup eqs
        at == InOrder(Heads(s, cut) \cup eqs)
        token(i) ==
          IF i \in eqs THEN [type |-> "eq", value |-> <<"=">>, quoted |-> FALSE]
          ELSE [type |-> "word", value |-> Said(s, i, EndOf(s, cut, i)),
                quoted |-> \E j \in i .. EndOf(s, cut, i) : Mark(s, j) /\ s[j] \in Quotes]
    IN IF Scanned(s) # Open THEN NoTokens ELSE [k \in DOMAIN at |-> token(at[k])]

Dots(w) == Cardinality({i \in DOMAIN w : w[i] = "c"})
Letters(w) == w # <<>> /\ \A i \in DOMAIN w : w[i] \in {"c", "k", "t"}
IsCommand(w) == Letters(w) /\ Dots(w) \in 1 .. 3
IsKey(w) == Letters(w) /\ Dots(w) = 0

\* Only a bare true or false is a boolean.
Coerce(token) == [text |-> token.value, boolean |-> ~token.quoted /\ token.value = <<"t">>]

\* The whole of a native command may be in one pair of quotes.
UnwrapNative(s) ==
    IF /\ Len(s) >= 2 /\ s[1] \in Quotes /\ s[Len(s)] = s[1]
       /\ \A i \in 2 .. Len(s) - 1 :
            s[i] = s[1] => Scanned(SubSeq(s, 2, i - 1)).escaped
      THEN Trim(SubSeq(s, 2, Len(s) - 1))
      ELSE s

\* What the tokens are: a command, and keys with their values, no key twice.
OfTokens(tokens) ==
    LET key(k) == tokens[3 * k - 1]
        count == (Len(tokens) - 1) \div 3
    IN IF /\ tokens[1].type = "word" /\ ~tokens[1].quoted /\ IsCommand(tokens[1].value)
          /\ Len(tokens) = 3 * count + 1
          /\ \A k \in 1 .. count :
               /\ key(k).type = "word" /\ ~key(k).quoted /\ IsKey(key(k).value)
               /\ tokens[3 * k].type = "eq" /\ tokens[3 * k + 1].type = "word"
               /\ \A j \in 1 .. k - 1 : key(j).value # key(k).value
         THEN [command |-> tokens[1].value,
               params |-> {<<key(k).value, Coerce(tokens[3 * k + 1])>> : k \in 1 .. count}]
         ELSE NoCommand

\* The command and its parameters, or what the shell is given.
Parse(s) ==
    LET line == Trim(s)
    IN IF Starts(line, <<"!", " ">>)
         THEN LET native == UnwrapNative(Trim(SubSeq(line, 3, Len(line))))
              IN IF native = <<>> THEN NoCommand ELSE [native |-> native]
       ELSE IF line = <<>> \/ line[1] = "!" \/ Tokenize(line) = NoTokens THEN NoCommand
       ELSE OfTokens(Tokenize(line))

-----------------------------------------------------------------------------
(* The web terminal's reader: tokens at blanks, and a parameter where a    *)
(* token has an equals sign.                                               *)

TokenizeIdel(s) ==
    LET at == InOrder(Heads(s, Gaps(s)))
    IN [k \in DOMAIN at |-> Said(s, at[k], EndOf(s, Gaps(s), at[k]))]

FirstEq(w) == Min({i \in DOMAIN w : w[i] = "="} \cup {Len(w) + 1})

ParseIdelLine(s) ==
    LET tokens == TokenizeIdel(Trim(s))
        given == {k \in 2 .. Len(tokens) : FirstEq(tokens[k]) \in 2 .. Len(tokens[k])}
    IN [command |-> IF tokens = <<>> THEN <<>> ELSE tokens[1],
        params |-> {<<SubSeq(tokens[k], 1, FirstEq(tokens[k]) - 1),
                      SubSeq(tokens[k], FirstEq(tokens[k]) + 1, Len(tokens[k]))>> : k \in given},
        args |-> {tokens[k] : k \in 2 .. Len(tokens) \ given}]

-----------------------------------------------------------------------------
(* Writing a value into a line                                             *)

\* Mistake: a backslash is left as it is.
Escaped_Quote(s, q) ==
    FlattenSeq([i \in DOMAIN s |-> IF s[i] = q THEN <<Backslash, s[i]>> ELSE <<s[i]>>])
Escaped(s, q) ==
    FlattenSeq([i \in DOMAIN s |-> IF s[i] \in {Backslash, q} THEN <<Backslash, s[i]>> ELSE <<s[i]>>])
InQuotes(s) == <<"\"">> \o Escaped(s, "\"") \o <<"\"">>

\* quoteHistoryValue, for a line of the history.
QuoteHistoryValue(v) ==
    IF Holds(v, Blanks \cup Quotes \cup {Backslash, "&", "="}) THEN InQuotes(v) ELSE v

\* quoteParamValue, for what `idel edit` and the web editor pass on.
QuoteParamValue(v) == IF Holds(v, Blanks \cup Quotes \cup {Backslash}) THEN InQuotes(v) ELSE v

\* formatHistoryCommand, of a command with one parameter.
FormatHistoryCommand(command, key, v) ==
    command \o <<" ">> \o key \o <<"=">> \o QuoteHistoryValue(v)

\* editorAliasCommand: `idel edit` with a first argument that is no parameter.
EditorAliasCommand(command, key, v) == command \o <<" ">> \o key \o <<"=">> \o QuoteParamValue(v)

=============================================================================
