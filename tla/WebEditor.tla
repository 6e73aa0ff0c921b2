------------------------------- MODULE WebEditor -------------------------------
(***************************************************************************)
(* The editor tabs of the web terminal (terminal.js) with the editor       *)
(* routes they call (server.ts, service.ts): what is typed, its undo       *)
(* history, and saves and reloads that are answered later.                 *)
(*                                                                         *)
(* A text is a number: what a file holds at first, or what an edit made.   *)
(* Tabs are numbered as they open.                                         *)
(***************************************************************************)
EXTENDS Integers, Sequences, FiniteSets, SequencesExt

CONSTANTS
    Files,
    MaxTabs, MaxEdits, MaxClicks,   \* tabs opened; edits; saves and reloads
    Depth           \* of the undo history (120 in the code)

EditorAssumption ==
    /\ "none" \notin Files
    /\ MaxTabs \in Nat \ {0} /\ MaxEdits \in Nat /\ MaxClicks \in Nat /\ Depth \in Nat \ {0, 1}

Tabs == 1 .. MaxTabs

VARIABLES
    disk,           \* what each file holds
    ed,             \* each tab's editor: see NoEditor
    open,           \* the tabs on the page
    net,            \* the requests under way
    edits, clicks,
    written,        \* every text a file has held
    agreed,         \* those a person agreed to give up
    meanwhile       \* those that came to a tab while it waited for an answer

editing == <<ed, open, edits, clicks, agreed, meanwhile>>
vars == <<disk, editing, net, written>>

NoEditor == [file |-> "none", text |-> 0, clean |-> 0, saving |-> FALSE,
             history |-> <<0>>, index |-> 1, savedAs |-> FALSE]

Init ==
    /\ disk = [f \in Files |-> 0] /\ ed = [t \in Tabs |-> NoEditor] /\ open = {}
    /\ net = {} /\ edits = 0 /\ clicks = 0
    /\ written = {0} /\ agreed = {} /\ meanwhile = {}

\* Mistake: judged by what can be undone.
Dirty_ByHistory(t) == ed[t].index # 1

Dirty(t) == ed[t].text # ed[t].clean
Used == {t \in Tabs : ed[t] # NoEditor}
Waiting(t) == \E m \in net : m.tab = t

\* The requests are numbered by the clicks they come from.
Send(kind, t, f, text) ==
    /\ clicks < MaxClicks /\ clicks' = clicks + 1
    /\ net' = net \cup {[n |-> clicks, kind |-> kind, tab |-> t, file |-> f, text |-> text,
                         reply |-> "none"]}

-----------------------------------------------------------------------------
(* The server.                                                             *)

\* /api/editor/save writes the file, or refuses; /api/editor/open reads it.
Serve(m) ==
    /\ m.reply = "none"
    /\ \/ /\ net' = (net \ {m}) \cup {[m EXCEPT !.reply = "no"]}
          /\ UNCHANGED <<disk, written>>
       \/ /\ m.kind = "save"
          /\ disk' = [disk EXCEPT ![m.file] = m.text] /\ written' = written \cup {m.text}
          /\ net' = (net \ {m}) \cup {[m EXCEPT !.reply = "ok"]}
       \/ /\ m.kind # "save"
          /\ net' = (net \ {m}) \cup {[m EXCEPT !.reply = "ok", !.text = disk[m.file]]}
          /\ UNCHANGED <<disk, written>>
    /\ UNCHANGED editing

-----------------------------------------------------------------------------
(* The page.                                                               *)

\* open.editor
Open(f) == Send("open", 0, f, 0) /\ UNCHANGED <<disk, written, ed, open, edits, agreed, meanwhile>>

\* renderInlineEditor: a file that a tab shows is not opened again.
Opened(m) ==
    /\ m.kind = "open"
    /\ LET t == Cardinality(Used) + 1 IN
       IF m.reply = "no" \/ \E u \in open : ed[u].file = m.file
       THEN UNCHANGED <<ed, open>>
       ELSE /\ t \in Tabs
            /\ ed' = [ed EXCEPT ![t] = [NoEditor EXCEPT !.file = m.file, !.text = m.text,
                                        !.clean = m.text, !.history = <<m.text>>]]
            /\ open' = open \cup {t}

\* A text comes to a tab.
Show(t, text, history, index) ==
    /\ ed' = [ed EXCEPT ![t].text = text, ![t].history = history, ![t].index = index]
    /\ meanwhile' = IF Waiting(t) THEN meanwhile \cup {text} ELSE meanwhile
    /\ UNCHANGED <<disk, written, open, net, clicks, agreed>>

\* recordHistory: what was undone is forgotten, and the oldest beyond the depth.
Recorded(t, text) ==
    LET h == Append(SubSeq(ed[t].history, 1, ed[t].index), text) IN
    IF Len(h) > Depth THEN Tail(h) ELSE h

Edit(t) ==
    /\ t \in open /\ edits < MaxEdits /\ edits' = edits + 1
    /\ LET h == Recorded(t, edits') IN Show(t, edits', h, Len(h))

\* Undo and Redo: applyHistory
Step(t, i) ==
    /\ t \in open /\ i \in DOMAIN ed[t].history
    /\ Show(t, ed[t].history[i], ed[t].history, i)
    /\ UNCHANGED edits

\* Mistake: without regard to a save under way.
Save_Again(t, f) ==
    /\ t \in open /\ Send("save", t, f, ed[t].text)
    /\ ed' = [ed EXCEPT ![t].saving = TRUE]
    /\ UNCHANGED <<disk, written, open, edits, agreed, meanwhile>>

\* saveEditorBuffer and saveEditorAs
Save(t, f) ==
    /\ t \in open /\ ~ed[t].saving
    /\ Send("save", t, f, ed[t].text)
    /\ ed' = [ed EXCEPT ![t].saving = TRUE]
    /\ UNCHANGED <<disk, written, open, edits, agreed, meanwhile>>

\* What the tab shows by now counts as saved.
Saved(m) ==
    /\ m.kind = "save"
    /\ LET e == [ed[m.tab] EXCEPT !.saving = FALSE] IN
       ed' = [ed EXCEPT ![m.tab] =
                IF m.reply = "no" THEN e
                ELSE [e EXCEPT !.file = m.file, !.clean = e.text,
                               !.savedAs = @ \/ m.file # e.file]]
    /\ UNCHANGED open

\* reloadEditorBuffer: the button is disabled while the tab is being saved.
Reload(t) ==
    /\ t \in open /\ ~ed[t].saving
    /\ Send("reload", t, ed[t].file, 0)
    /\ agreed' = IF Dirty(t) THEN agreed \cup {ed[t].text} ELSE agreed
    /\ UNCHANGED <<disk, written, ed, open, edits, meanwhile>>

\* setContent
Reloaded(m) ==
    /\ m.kind = "reload"
    /\ ed' = IF m.reply = "no" THEN ed
             ELSE [ed EXCEPT ![m.tab] = [@ EXCEPT !.text = m.text, !.clean = m.text,
                                                  !.history = <<m.text>>, !.index = 1]]
    /\ UNCHANGED open

Reply(m) ==
    /\ m.reply # "none" /\ net' = net \ {m}
    /\ Opened(m) \/ Saved(m) \/ Reloaded(m)
    /\ UNCHANGED <<disk, written, edits, clicks, agreed, meanwhile>>

\* closeTab
Close(t) ==
    /\ t \in open /\ open' = open \ {t}
    /\ agreed' = IF Dirty(t) THEN agreed \cup {ed[t].text} ELSE agreed
    /\ UNCHANGED <<disk, written, net, ed, edits, clicks, meanwhile>>

Next ==
    \/ \E m \in net : Serve(m) \/ Reply(m)
    \/ \E f \in Files : Open(f)
    \/ \E t \in Tabs : \/ Edit(t) \/ Reload(t) \/ Close(t)
                       \/ \E f \in Files : Save(t, f)
                       \/ Step(t, ed[t].index - 1) \/ Step(t, ed[t].index + 1)

Spec == Init /\ [][Next]_vars

-----------------------------------------------------------------------------
(* Properties.                                                             *)

\* A tab can be saved again as soon as its save is answered, and has never two saves
\* under way; its history leads back from the text it shows and stays within its depth;
\* and only Save As puts one file into two tabs (saveEditorBuffer, recordHistory,
\* applyHistory, setContent, renderInlineEditor).
EditorInv ==
    /\ \A t \in Used :
        /\ Cardinality({m \in net : m.kind = "save" /\ m.tab = t}) = IF ed[t].saving THEN 1 ELSE 0
        /\ Len(ed[t].history) <= Depth /\ ed[t].history[ed[t].index] = ed[t].text
    /\ \A t, u \in open :
        t # u /\ ed[t].file = ed[u].file => ed[t].savedAs \/ ed[u].savedAs

\* A text leaves a tab for good, when the tab is closed or its file read again, only if
\* a file has held it, a person agreed to it, or it came to the tab while a save or a
\* reload was under way, whose answers take what they find for saved or replace it
\* (reloadEditorBuffer, setContent, closeTab, setDirty).  No step breaks EditorInv either.
NothingLostUnasked ==
    [][ /\ EditorInv'
        /\ \A t \in open :
             \/ t \notin open'
             \/ ed'[t].text # ed[t].text /\ ed[t].text \notin ToSet(ed'[t].history)
             => ed[t].text \in written \cup agreed' \cup meanwhile ]_vars
=============================================================================
