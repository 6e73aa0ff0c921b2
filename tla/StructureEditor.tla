---------------------------- MODULE StructureEditor ----------------------------
(***************************************************************************)
(* An IDEL Structure document in the editor: the diagnostics of the        *)
(* language extension (vscode-idel-language/src/extension.cjs).  A change  *)
(* sets a timer; when it has run out the parser is loaded, the first time, *)
(* and the text there is by then is checked.  One document; the setting    *)
(* that turns diagnostics off is left out.                                 *)
(***************************************************************************)
EXTENDS Structure

CONSTANTS
    Sources,    \* texts the document may have when it is opened
    Inserted,   \* what a change inserts
    MaxChanges  \* bound on the changes

VARIABLES
    source,     \* the text
    shown,      \* the document is open
    due,        \* its timer runs
    awaiting,   \* whether refreshes wait for the parser
    parser,     \* "none", "loaded" or "missing"
    squiggles,  \* the diagnostics shown for it: a set, as no diagnostics show like none
    changes

vars == <<source, shown, due, awaiting, parser, squiggles, changes>>

None == "none"

StructureAssumption ==
    /\ MaxChanges \in Nat /\ Sources # {} /\ Sources \subseteq Texts
    /\ Inserted \subseteq Texts \ {<<>>}

Init ==
    /\ source \in Sources /\ shown = FALSE
    /\ due = FALSE /\ awaiting = FALSE /\ parser = None /\ squiggles = {} /\ changes = 0

\* Mistake: a document that is opened is checked when it changes.
Open_Unscheduled ==
    /\ ~shown /\ shown' = TRUE
    /\ UNCHANGED <<source, due, awaiting, parser, squiggles, changes>>
\* onDidOpenTextDocument
Open ==
    /\ ~shown /\ shown' = TRUE
    /\ due' = TRUE
    /\ UNCHANGED <<source, awaiting, parser, squiggles, changes>>

\* onDidChangeTextDocument: the timer starts again.
Change(text) ==
    /\ shown /\ changes < MaxChanges /\ changes' = changes + 1
    /\ source' = text
    /\ due' = TRUE
    /\ UNCHANGED <<shown, awaiting, parser, squiggles>>

Insert(i, piece) == Change(SubSeq(source, 1, i) \o piece \o SubSeq(source, i + 1, Len(source)))
Delete(i) == Change(SubSeq(source, 1, i - 1) \o SubSeq(source, i + 1, Len(source)))

\* onDidCloseTextDocument: the timer goes on, and what waits for the parser too.
Close ==
    /\ shown /\ shown' = FALSE
    /\ squiggles' = {}
    /\ UNCHANGED <<source, due, awaiting, parser, changes>>

\* refreshDiagnostics, up to the parser: a parser that is there answers at once, and without
\* one nothing is shown.
Refresh ==
    /\ due /\ due' = FALSE
    /\ CASE parser = "loaded" -> squiggles' = Check(source) /\ UNCHANGED awaiting
         [] parser = "missing" -> UNCHANGED <<squiggles, awaiting>>
         [] parser = None -> awaiting' = TRUE /\ UNCHANGED squiggles
    /\ UNCHANGED <<source, shown, parser, changes>>

\* loadStructure answers those that wait.
Loaded ==
    /\ awaiting /\ awaiting' = FALSE
    /\ \/ parser' = "loaded" /\ squiggles' = Check(source)
       \/ parser' = "missing" /\ UNCHANGED squiggles
    /\ UNCHANGED <<source, shown, due, changes>>

Next ==
    \/ Open \/ Close \/ Refresh \/ Loaded
    \/ \E i \in 0 .. Len(source) : \E p \in Inserted : Insert(i, p)
    \/ \E i \in DOMAIN source : Delete(i)

Spec == Init /\ [][Next]_vars

-----------------------------------------------------------------------------
(* Properties *)

\* Once nothing is under way, the diagnostics of an open document are those of its text.  Not so
\* for a document that was closed: a timer that still ran shows its diagnostics again.
SquigglesOfText == shown /\ ~due /\ ~awaiting /\ parser = "loaded" => squiggles = Check(source)

\* So they are; and a document without an error there is one the package reads, and reads alike,
\* though the editor's copy of its parser knows fewer escapes (extension.cjs, structure.mjs).
DiagnosticsTrue ==
    LET alike(read) == read # NoDocument => Parse(source, Escapes) = read
    IN /\ SquigglesOfText
       /\ alike(Parse(source, BundledEscapes))

\* The canonical text of a document is read as that document (canonicalize, parseStructure):
\* so two documents of one digest say the same, and formatting does not change it.  Not so with
\* a number that is not written in decimals: that text is none the parser reads.
CanonicalKeepsMeaning ==
    LET numbers(ts) == {ts[k].text : k \in {j \in 3 .. Len(ts) : ts[j].type = "number"}}
        kept(read) == read # NoDocument => Parse(Canonicalize(read), Escapes) = read
    IN (\A t \in numbers(Tokenize(source, Escapes)) : InDecimals(t))
       => kept(Parse(source, Escapes))

=============================================================================
