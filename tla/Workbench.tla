------------------------------- MODULE Workbench -------------------------------
(***************************************************************************)
(* What a person works with beside the front ends of FrontEnds: the native *)
(* shell tabs, the command field with its completions, a structure         *)
(* document in the editor, the editor extension that runs a server, the    *)
(* desktop application, and the files that commands work on.  They share   *)
(* no state, so each is checked by itself, in one state space.             *)
(***************************************************************************)
EXTENDS Integers, Sequences, FiniteSets

CONSTANTS
    Tabs, MaxGens, MaxKeys, MaxOutput, Backlog, MaxClicks, Stubborn, Faults,    \* of NativeTerminal
    Known, Tree, Past, Keys, MaxTyped,                                  \* of CommandLine
    Sources, Inserted, MaxChanges,                                      \* of StructureEditor
    Calls, MaxCalls, MaxServers, Deaf,                                  \* of ServerManager
    Workspaces, FirstWorkspace, MaxStarts,                              \* of DesktopShell
    Paths, Outside, Requested, Workers, FirstText, MaxFiles, MaxText, MaxSwaps, Chunk
                                                                        \* of NodeAdapter

VARIABLES
    face,
    server, started, proc, ended, got, signals, emitted, exited, listed, armed, open, cur, gens,
    nat, link, net, typed, clicks,
    line, timed, sent, offered, keystrokes,
    source, shown, due, awaiting, parser, squiggles, changes,
    child, managed, life, told, port, call, calls, lost,
    win, runtime, folder, timer, quitting, alert, alerts, saved, choosing, workspace, relaunch,
    promised, busy, refused, starts,
    entry, text, files, command, swaps

terminal == <<server, started, proc, ended, got, signals, emitted, exited, listed, armed, open,
              cur, gens, nat, link, net, typed, clicks>>
field == <<line, timed, sent, offered, keystrokes>>
document == <<source, shown, due, awaiting, parser, squiggles, changes>>
extension == <<child, managed, life, told, port, call, calls, lost>>
desktop == <<win, runtime, folder, timer, quitting, alert, alerts, saved, choosing, workspace,
             relaunch, promised, busy, refused, starts>>
adapter == <<entry, text, files, command, swaps>>
vars == <<face, terminal, field, document, extension, desktop, adapter>>

N == INSTANCE NativeTerminal
\* With what is proved of it.
L == INSTANCE CommandLine_proofs
D == INSTANCE StructureEditor_proofs
M == INSTANCE ServerManager
S == INSTANCE DesktopShell
A == INSTANCE NodeAdapter

ASSUME WorkbenchAssumption ==
    /\ N!NativeAssumption /\ L!CommandLineAssumption /\ D!StructureAssumption
    /\ M!ManagerAssumption /\ S!ShellAssumption /\ A!AdapterAssumption

\* What is not used stays as it starts, and of that only one way is looked at.
Init ==
    /\ face \in {"terminal", "field", "document", "extension", "desktop", "adapter"}
    /\ N!Init /\ L!Init
    /\ D!Init /\ (face # "document" => source = CHOOSE s \in Sources : TRUE)
    /\ M!Init /\ (face # "extension" => port = 0)
    /\ S!Init /\ (face # "desktop" => saved = S!Absent)
    /\ A!Init /\ (face # "adapter" => \A p \in Paths : entry[p] = A!Nothing)

Next ==
    \/ face = "terminal" /\ N!Next /\ UNCHANGED <<face, field, document, extension, desktop, adapter>>
    \/ face = "field" /\ L!Next /\ UNCHANGED <<face, terminal, document, extension, desktop, adapter>>
    \/ face = "document" /\ D!Next /\ UNCHANGED <<face, terminal, field, extension, desktop, adapter>>
    \/ face = "extension" /\ M!Next /\ UNCHANGED <<face, terminal, field, document, desktop, adapter>>
    \/ face = "desktop" /\ S!Next /\ UNCHANGED <<face, terminal, field, document, extension, adapter>>
    \/ face = "adapter" /\ A!Next /\ UNCHANGED <<face, terminal, field, document, extension, desktop>>

\* Fairness as in the modules themselves: what a server, a page or an extension has under way
\* goes on; what a person does need not.
Spec ==
    /\ Init /\ [][Next]_vars
    /\ WF_terminal(face = "terminal" /\ N!Work) /\ WF_extension(face = "extension" /\ M!Work)

-----------------------------------------------------------------------------
(* The properties of the six, each stated and explained in its module;     *)
(* those that cost most are looked at only where they can change.          *)

\* NativeTerminal: every running shell is listed, and a stream that is open shows the last of
\* its output without a gap.
NativeInv == N!NativeInv /\ N!StreamsAreCurrent
\* NativeTerminal: keys reach a shell once and in the order typed.
InputInOrder == N!InputInOrder
\* NativeTerminal and ServerManager: closed shells end, tabs come out of stopping, and every call
\* of the extension is answered; ShellsSettle and CallsAnswered in one.
AllSettles == []<>(N!AtRest /\ M!AtRest)
\* CommandLine: a completion leaves what was typed before it as it was.
CompletionFits == face = "field" => L!CompletionFits
\* CommandLine: all readers of a line agree, and what is written into one is read back.  Any
\* line there can be, there can be with nothing under way too.
LinesReadBack ==
    face = "field" /\ timed = <<>> /\ sent = {} /\ offered = {} => L!ReadersAgree /\ L!WrittenReadsBack
\* StructureEditor: the diagnostics are those of the text, and of the package's parser; and
\* the canonical text of a document reads as that document.
DocumentsReadTrue == face = "document" => D!DiagnosticsTrue /\ D!CanonicalKeepsMeaning
\* ServerManager and DesktopShell: no server runs on that nobody will end; a runtime that is
\* gone has been told of, once; and a desktop started anew works in the chosen workspace.
RuntimesTracked == M!ChildIsTracked /\ S!GoneIsTold /\ S!WorksInChosen
\* NodeAdapter: tail.file shows the last lines, and files are changed as named, however paths
\* are swapped.
FilesAsNamed == A!FilesAsNamed
=============================================================================
