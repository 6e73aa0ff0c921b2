------------------------------- MODULE Structure -------------------------------
(***************************************************************************)
(* IDEL Structure, the language of function, package and receipt files:    *)
(* its tokens, its parser, its linter and the canonical text digests are   *)
(* taken over (structure/src/index.ts), with the older copy of all that    *)
(* the editor extension has (vscode-idel-language/lib/structure.mjs).      *)
(*                                                                         *)
(* A text is a sequence of characters.  "@" stands for the header's        *)
(* directive, "u", "s", "t", "d", "p" and "e" for the words use, as, true, *)
(* define, password and secret, "k" for any other letter, and "A" for any  *)
(* character that has no place outside a string.  In a string, "n" is the  *)
(* letter behind a backslash for a line's end (or a tab), "f" that of a    *)
(* control character with an escape of its own, and "c" that of another:   *)
(* `\f` and `\c` are unknown to the copy.  Positions are left out.         *)
(***************************************************************************)
EXTENDS Integers, SequencesExt

Letters == {"u", "s", "t", "d", "p", "e", "k", "n", "f", "c"}
Digits == {"0", "1"}
Marks == {"{", "}", "[", "]", "(", ")", ",", "=", "."}
LineEnd == "\n"
Backslash == "\\"
Quote == "\""
Chars == Letters \cup Digits \cup Marks
         \cup {"FF", "US", LineEnd, Backslash, Quote, " ", "#", "@", "A"}
Texts == Seq(Chars)

\* What a letter behind a backslash means, to the package and to the copy.
Escapes == [c \in {Quote, Backslash, "n", "f", "c"} |->
    CASE c = "n" -> LineEnd [] c = "f" -> "FF" [] c = "c" -> "US" [] OTHER -> c]
BundledEscapes == [c \in {Quote, Backslash, "n"} |-> Escapes[c]]

-----------------------------------------------------------------------------
(* Tokens.  A reader goes on at the i-th character; 0 is where it throws.  *)

Failed == [at |-> 0]
Is(s, i, chars) == i <= Len(s) /\ s[i] \in chars
Places(s, chars) == {x \in DOMAIN s : s[x] \in chars}
\* The end of the longest stretch of such places from i on.
EndOf(s, i, places) == CHOOSE j \in i .. Len(s) + 1 : i .. j - 1 \subseteq places /\ j \notin places

\* A word, and words behind dots, as long as a letter follows the dot.
EndOfIdent(s, i) ==
    EndOf(s, i, Places(s, Letters \cup Digits)
                \cup {x \in Places(s, {"."}) : Is(s, x + 1, Letters)})

\* What a string says from its i-th character on, and where it ends, given that for later ones.
StringAt(read, s, i, escapes) ==
    LET escaped == s[i] = Backslash
        rest == read[i + IF escaped THEN 2 ELSE 1]
    IN IF i > Len(s) \/ s[i] = LineEnd THEN Failed
       ELSE IF s[i] = Quote THEN [at |-> i + 1, text |-> <<>>]
       ELSE IF (escaped /\ ~Is(s, i + 1, DOMAIN escapes)) \/ rest = Failed THEN Failed
       ELSE [at |-> rest.at, text |-> <<IF escaped THEN escapes[s[i + 1]] ELSE s[i]>> \o rest.text]
String(s, from, escapes) ==
    LET read[i \in 1 .. Len(s) + 2] == StringAt(read, s, i, escapes) IN read[from]

\* Between numbers and dots: no dot at an end, nor two in a row.
IsNumber(t) ==
    /\ t[1] # "." /\ t[Len(t)] # "."
    /\ \A i \in 1 .. Len(t) - 1 : ~(t[i] = "." /\ t[i + 1] = ".")

Token(type, text) == [type |-> type, text |-> text]

\* The token that starts at a character, if one does, and where to go on.
TokenAt(s, i, escapes) ==
    LET skip(j) == [at |-> j, tokens |-> <<>>]
        to(type, text, j) == [at |-> j, tokens |-> <<Token(type, text)>>]
        upTo(type, j) == to(type, SubSeq(s, i, j - 1), j)
        str == String(s, i + 1, escapes)
        digits == EndOf(s, i, Places(s, Digits \cup {"."}))
    IN CASE s[i] \in {" ", LineEnd} -> skip(i + 1)
         [] s[i] = "#" -> skip(EndOf(s, i, {x \in DOMAIN s : s[x] # LineEnd}))
         [] s[i] = "@" ->
              IF Is(s, i + 1, Letters \cup Digits) THEN Failed ELSE upTo("header", i + 1)
         [] s[i] = Quote -> IF str = Failed THEN Failed ELSE to("string", str.text, str.at)
         [] s[i] \in Digits ->
              IF IsNumber(SubSeq(s, i, digits - 1)) THEN upTo("number", digits) ELSE Failed
         [] s[i] \in Letters -> upTo("ident", EndOfIdent(s, i))
         [] s[i] \in Marks -> to(s[i], <<>>, i + 1)
         [] OTHER -> Failed

\* The tokens from a character on, given those from later ones, or none: there is one for the
\* end of the file at least.
TokensAt(tokens, s, i, escapes) ==
    LET here == TokenAt(s, i, escapes)
        others == tokens[here.at]
    IN IF i > Len(s) THEN <<Token("eof", <<>>)>>
       ELSE IF here = Failed \/ others = <<>> THEN <<>>
       ELSE here.tokens \o others
Tokenize(s, escapes) ==
    LET tokens[i \in 1 .. Len(s) + 1] == TokensAt(tokens, s, i, escapes) IN tokens[1]

-----------------------------------------------------------------------------
(* The parser                                                              *)

\* Number(text), as it is written again: without zeros in front or at the end of a fraction, if
\* it is written in decimals.  One of more than one dot is NaN, and one of more than 21 digits
\* before its dot, or of none that is not a zero before the seventh behind it, is written with
\* an exponent: both with a character that has no place in a document.  Numbers are not rounded.
Dots(t) == Cardinality(Places(t, {"."}))
Unit(t) == Min(Places(t, {"."}) \cup {Len(t) + 1}) - 1
Ciphers(t) == {i \in DOMAIN t : t[i] # "0" /\ t[i] # "."}
InDecimals(t) ==
    /\ Dots(t) <= 1
    /\ \A i \in Ciphers(t) : i >= Unit(t) - 20
    /\ Ciphers(t) # {} => \E i \in Ciphers(t) : i <= Unit(t) + 7
NumberOf(t) ==
    LET written == Ciphers(t) \cup {Unit(t)}
    IN IF InDecimals(t) THEN SubSeq(t, Min(written), Max(written)) ELSE <<"A">>

\* What is read from a token on: a value or an entry; or, by a rule, the items up to a closing
\* mark, which is the end of the file for a document, or the calls chained behind a call.  It
\* comes with its parts: all values and entries it consists of, for what goes through them.
\* `read` is what the rules read further on.
Thing(at, value, parts) == [at |-> at, value |-> value, parts |-> {value} \cup parts]
Nothing(at) == [at |-> at, items |-> <<>>, parts |-> {}]
Before(item, parts, rest) ==
    [at |-> rest.at, items |-> <<item>> \o rest.items, parts |-> parts \cup rest.parts]

\* parseValue
Value(read, ts, i) ==
    LET t == ts[i]
        is(kind, value) == Thing(i + 1, [kind |-> kind, is |-> value], {})
        list == read[i + 1]["]"]
        args == read[i + 2][")"]
        chain == read[args.at]["chain"]
        call == [kind |-> "call", name |-> t.text, items |-> args.items, chain |-> chain.items]
    IN CASE t.type = "string" -> is("string", t.text)
         [] t.type = "number" -> is("number", NumberOf(t.text))
         [] t.type = "[" ->
              IF list = Failed THEN Failed
              ELSE Thing(list.at, [kind |-> "list", items |-> list.items], list.parts)
         [] t.type = "ident" /\ t.text = <<"t">> -> is("boolean", t.text)
         [] t.type = "ident" /\ t.text # <<"t">> /\ ts[i + 1].type # "(" -> is("token", t.text)
         [] t.type = "ident" /\ t.text # <<"t">> /\ ts[i + 1].type = "(" ->
              IF args = Failed \/ chain = Failed THEN Failed
              ELSE Thing(chain.at, call, args.parts \cup chain.parts)
         [] OTHER -> Failed

\* parseArguments, and the items of a list: commas between values may be left out.
Values(read, ts, i, close) ==
    LET from(v) ==
          LET rest == read[v.at + IF ts[v.at].type = "," THEN 1 ELSE 0][close]
          IN IF v = Failed \/ rest = Failed THEN Failed ELSE Before(v.value, v.parts, rest)
    IN IF ts[i].type = close THEN Nothing(i + 1) ELSE from(Value(read, ts, i))

\* The calls chained behind a call.
Chain(read, ts, i) ==
    LET args == read[i + 3][")"]
        rest == read[args.at]["chain"]
    IN IF ts[i].type # "." THEN Nothing(i)
       ELSE IF \/ ts[i + 1].type # "ident" \/ ts[i + 2].type # "("
               \/ args = Failed \/ rest = Failed THEN Failed
       ELSE Before([name |-> ts[i + 1].text, args |-> args.items], args.parts, rest)

\* parseEntry: an import, an assignment, or a block with or without a label.
Entry(read, ts, i) ==
    LET name == ts[i].text
        source == Value(read, ts, i + 1)
        import == [kind |-> "use", value |-> source.value, name |-> ts[source.at + 1].text]
        v == Value(read, ts, i + 2)
        assignment == [kind |-> "assignment", name |-> name, value |-> v.value]
        label == IF ts[i + 1].type = "string" THEN <<ts[i + 1].text>> ELSE <<>>
        open == i + 1 + Len(label)
        entries == read[open + 1]["}"]
        block == [kind |-> "block", name |-> name, label |-> label, entries |-> entries.items]
    IN IF ts[i].type # "ident" THEN Failed
       ELSE IF name = <<"u">> /\ ts[i + 1].type = "ident"
       THEN IF \/ source = Failed \/ ts[source.at] # Token("ident", <<"s">>)
               \/ ts[source.at + 1].type # "ident" THEN Failed
            ELSE Thing(source.at + 2, import, source.parts)
       ELSE IF ts[i + 1].type = "="
       THEN IF v = Failed THEN Failed ELSE Thing(v.at, assignment, v.parts)
       ELSE IF ts[open].type # "{" \/ entries = Failed THEN Failed
       ELSE Thing(entries.at, block, entries.parts)

\* Entries up to the closing mark, or to the end of the file.
Entries(read, ts, i, close) ==
    LET from(e) ==
          LET rest == read[e.at][close]
          IN IF e = Failed \/ rest = Failed THEN Failed ELSE Before(e.value, e.parts, rest)
    IN IF ts[i].type = close THEN Nothing(i + 1) ELSE from(Entry(read, ts, i))

Rules == {"chain", ")", "]", "}", "eof"}
ReadAt(read, ts, i) ==
    [rule \in Rules |->
        IF rule = "chain" THEN Chain(read, ts, i)
        ELSE IF rule \in {")", "]"} THEN Values(read, ts, i, rule) ELSE Entries(read, ts, i, rule)]
Reads(ts) == LET read[i \in DOMAIN ts] == ReadAt(read, ts, i) IN read

NoDocument == [error |-> TRUE]

\* parseStructure
Document(ts) ==
    LET of(read) ==
          IF \/ Len(ts) < 3 \/ ts[1].type # "header" \/ ts[2].type # "number"
             \/ read = Failed THEN NoDocument
          ELSE [version |-> ts[2].text, entries |-> read.items, parts |-> read.parts]
    IN of(Reads(ts)[3]["eof"])
Parse(s, escapes) == Document(Tokenize(s, escapes))

-----------------------------------------------------------------------------
(* The linter                                                              *)

\* The warnings of an entry.
Lint(e) ==
    CASE e.kind = "assignment" ->
           IF e.name = <<"p">> /\ ~(e.value.kind = "call" /\ e.value.name = <<"e">>)
           THEN {<<"secret", e.name>>} ELSE {}
      [] e.kind = "block" ->
           (IF Dots(e.name) = 0 THEN {<<"undotted", e.name>>} ELSE {})
           \cup (IF e.entries = <<>> THEN {<<"empty", e.name>>} ELSE {})
      [] OTHER -> {}

\* A definition has a label, which is asked of those that are in no block only.
Unlabelled(e) ==
    /\ e.kind = "block" /\ e.label = <<>>
    /\ IsPrefix(<<"d">>, e.name) /\ (Len(e.name) = 1 \/ e.name[2] = ".")

\* checkStructure, as the copy has it.
Warnings(document) ==
    IF document = NoDocument THEN {<<"error", <<>>>>}
    ELSE UNION {Lint(x) : x \in document.parts}
         \cup {<<"unlabelled", e.name>> : e \in {x \in ToSet(document.entries) : Unlabelled(x)}}
Check(s) == Warnings(Parse(s, BundledEscapes))

-----------------------------------------------------------------------------
(* The canonical text                                                      *)

\* Mistake: a backslash is left as it is.
Written_Plain(c) == IF c = Quote THEN <<Backslash, c>> ELSE <<c>>
\* How a character of a string is written.
Written(c) ==
    IF \E e \in DOMAIN Escapes : Escapes[e] = c
    THEN <<Backslash, CHOOSE e \in DOMAIN Escapes : Escapes[e] = c>> ELSE <<c>>
\* quoteStructureString
QuoteString(v) == <<Quote>> \o FlattenSeq([i \in DOMAIN v |-> Written(v[i])]) \o <<Quote>>

\* Texts with a comma between each and the next.
Listed(texts) ==
    FlattenSeq([i \in DOMAIN texts |-> (IF i = 1 THEN <<>> ELSE <<",", " ">>) \o texts[i]])

\* An entry or a value, given the texts of what is in it.  Indentation is left out, a line's
\* end is not.
WriteCall(text, name, items) ==
    name \o <<"(">> \o Listed([i \in DOMAIN items |-> text[items[i]]]) \o <<")">>
WriteValue(text, v) ==
    CASE v.kind = "string" -> QuoteString(v.is)
      [] v.kind \in {"number", "boolean", "token"} -> v.is
      [] v.kind = "list" -> <<"[">> \o Listed([i \in DOMAIN v.items |-> text[v.items[i]]]) \o <<"]">>
      [] v.kind = "call" ->
           WriteCall(text, v.name, v.items)
           \o FlattenSeq([i \in DOMAIN v.chain |->
                           <<".">> \o WriteCall(text, v.chain[i].name, v.chain[i].args)])

WriteEntries(text, entries) == FlattenSeq([i \in DOMAIN entries |-> text[entries[i]]])
WriteEntry(text, e) ==
    CASE e.kind = "use" ->
           <<"u", " ">> \o text[e.value] \o <<" ", "s", " ">> \o e.name \o <<LineEnd>>
      [] e.kind = "assignment" ->
           e.name \o <<" ", "=", " ">> \o text[e.value] \o <<LineEnd>>
      [] e.kind = "block" ->
           e.name \o (IF e.label = <<>> THEN <<>> ELSE <<" ">> \o QuoteString(e.label[1]))
           \o <<" ", "{">> \o (IF e.entries = <<>> THEN <<>> ELSE <<LineEnd>>)
           \o WriteEntries(text, e.entries) \o <<"}", LineEnd>>
Write(text, x) ==
    IF x.kind \in {"use", "assignment", "block"} THEN WriteEntry(text, x) ELSE WriteValue(text, x)

Canonicalize(d) ==
    LET text[x \in d.parts] == Write(text, x)
    IN <<"@", " ">> \o d.version \o <<LineEnd, LineEnd>> \o WriteEntries(text, d.entries)

=============================================================================
