------------------------------ MODULE DesktopShell ------------------------------
(***************************************************************************)
(* The desktop application (desktop/main.cjs): one process with a window   *)
(* on a page that a runtime of its own serves, ended and started anew for  *)
(* another workspace.  A quit closes the window, and the page may refuse:  *)
(* Electron then cancels the quit without a word.                          *)
(***************************************************************************)
EXTENDS Naturals

CONSTANTS
    Workspaces,     \* folders to choose from
    FirstWorkspace, \* documents/IDEL
    MaxStarts       \* bound on how often the application is started

VARIABLES
    win,        \* "none", "hidden" or "shown"; "ended" when the process is
    runtime,    \* the child: "none", "starting", "up" or "gone"
    folder,     \* its working directory
    timer,      \* its 30 seconds run
    quitting,
    alert,      \* the message that IDEL could not continue is on the screen
    alerts,     \* history: how many there were in this process
    saved,      \* workspace.json: a workspace, Absent or Torn
    choosing,   \* chooseWorkspace: "no", "asking", "saving" or "torn"
    workspace,
    relaunch,   \* app.relaunch was called
    promised,   \* history: the workspace of the last relaunch, or Absent
    busy,       \* the page has something to lose
    refused,    \* history: the page has refused to close, in this process
    starts

vars == <<win, runtime, folder, timer, quitting, alert, alerts, saved, choosing, workspace,
          relaunch, promised, busy, refused, starts>>
screen == <<alert, alerts, quitting>>
settings == <<saved, choosing, workspace, promised, starts>>

Absent == "absent"
Torn == "torn"

ShellAssumption ==
    /\ FirstWorkspace \in Workspaces /\ {Absent, Torn} \cap Workspaces = {}
    /\ MaxStarts \in Nat

Init ==
    /\ win = "ended" /\ runtime = "none" /\ folder = FirstWorkspace /\ timer = FALSE
    /\ quitting = FALSE /\ alert = FALSE /\ alerts = 0
    /\ saved \in Workspaces \cup {Absent} /\ choosing = "no" /\ workspace = FirstWorkspace
    /\ relaunch = FALSE /\ promised = Absent /\ busy = FALSE /\ refused = FALSE /\ starts = 0

\* shouldConfirmPageExit: beforeunload keeps a page that is there.
Refuses == win = "shown" /\ busy

\* app.quit: before-quit first, then the window is closed, and with it the application ends.
Quit ==
    /\ quitting' = TRUE
    /\ IF Refuses THEN refused' = TRUE /\ UNCHANGED <<win, runtime>>
       ELSE win' = "ended" /\ runtime' = "none" /\ UNCHANGED refused

\* Mistake: whoever fails says so.
fail_Again == quitting' = TRUE /\ alert' = TRUE /\ alerts' = alerts + 1
fail ==
    IF quitting THEN UNCHANGED screen
    ELSE quitting' = TRUE /\ alert' = TRUE /\ alerts' = alerts + 1

-----------------------------------------------------------------------------
\* The application is started, by the person or as it has asked for, and a runtime with it;
\* unless the folder cannot be made.
start ==
    /\ win = "ended" /\ starts < MaxStarts /\ starts' = starts + 1
    /\ LET told == IF saved \in Workspaces THEN saved ELSE FirstWorkspace
       IN workspace' = told /\ folder' = told
    /\ promised' = IF relaunch THEN promised ELSE Absent
    /\ relaunch' = FALSE /\ refused' = FALSE /\ busy' = FALSE /\ choosing' = "no"
    /\ \/ /\ win' = "hidden" /\ runtime' = "starting" /\ timer' = TRUE
          /\ quitting' = FALSE /\ alert' = FALSE /\ alerts' = 0
       \/ /\ win' = "none" /\ runtime' = "none" /\ timer' = FALSE
          /\ quitting' = TRUE /\ alert' = TRUE /\ alerts' = 1
    /\ UNCHANGED saved

Listens ==
    /\ runtime = "starting" /\ runtime' = "up" /\ timer' = FALSE
    /\ UNCHANGED <<win, folder, screen, settings, relaunch, busy, refused>>

\* The page is loaded, or not.
Load ==
    /\ win = "hidden" /\ runtime # "starting" /\ ~timer
    /\ \/ runtime = "up" /\ win' = "shown" /\ UNCHANGED screen
       \/ fail /\ UNCHANGED win
    /\ UNCHANGED <<runtime, folder, timer, settings, relaunch, busy, refused>>

\* It does not listen within its 30 seconds.
Overdue ==
    /\ timer /\ timer' = FALSE /\ fail
    /\ UNCHANGED <<win, runtime, folder, settings, relaunch, busy, refused>>

\* The runtime ends, killed or not.
Exit ==
    /\ runtime \in {"starting", "up"} /\ runtime' = "gone" /\ timer' = FALSE /\ fail
    /\ UNCHANGED <<win, folder, settings, relaunch, busy, refused>>

\* The message is answered.
Acknowledge ==
    /\ alert /\ alert' = FALSE /\ Quit
    /\ UNCHANGED <<alerts, folder, timer, settings, relaunch, busy>>

\* The person closes the window; window-all-closed quits.
Close ==
    /\ win = "shown"
    /\ IF Refuses THEN refused' = TRUE /\ UNCHANGED <<win, runtime, quitting>> ELSE Quit
    /\ UNCHANGED <<alert, alerts, folder, timer, settings, relaunch, busy>>
AskQuit ==
    /\ win = "shown" /\ Quit
    /\ UNCHANGED <<alert, alerts, folder, timer, settings, relaunch, busy>>

\* A shell, a command, an edit or an approval is begun or over.
Work ==
    /\ win = "shown" /\ busy' = ~busy
    /\ UNCHANGED <<win, runtime, folder, timer, screen, settings, relaunch, refused>>

\* chooseWorkspace, one at a time: a folder is chosen and confirmed, written in two steps, and
\* the application starts anew.
Choose ==
    /\ win = "shown" /\ choosing = "no" /\ choosing' = "asking"
    /\ UNCHANGED <<win, runtime, folder, timer, screen, saved, workspace, promised, starts,
                   relaunch, busy, refused>>
Confirm ==
    /\ win = "shown" /\ choosing = "asking"
    /\ \/ choosing' = "no" /\ UNCHANGED workspace
       \/ choosing' = "saving" /\ workspace' \in Workspaces
    /\ UNCHANGED <<win, runtime, folder, timer, screen, saved, promised, starts, relaunch, busy,
                   refused>>
\* writeFile empties the file first; it can fail, before or after.
Truncate ==
    /\ win = "shown" /\ choosing = "saving"
    /\ \/ choosing' = "torn" /\ saved' = Torn
       \/ choosing' = "no" /\ UNCHANGED saved
    /\ UNCHANGED <<win, runtime, folder, timer, screen, workspace, promised, starts, relaunch,
                   busy, refused>>
\* Mistake: the application starts anew, and the file is written by then or not.
Fill_Late ==
    /\ win = "shown" /\ choosing = "torn" /\ choosing' = "no"
    /\ saved' \in Workspaces /\ promised' = workspace /\ relaunch' = TRUE /\ Quit
    /\ UNCHANGED <<folder, timer, alert, alerts, workspace, starts, busy>>
Fill ==
    /\ win = "shown" /\ choosing = "torn" /\ choosing' = "no"
    /\ \/ /\ saved' = workspace /\ promised' = workspace /\ relaunch' = TRUE /\ Quit
       \/ UNCHANGED <<saved, promised, relaunch, win, runtime, quitting, refused>>
    /\ UNCHANGED <<folder, timer, alert, alerts, workspace, starts, busy>>
Next ==
    \/ start \/ Listens \/ Load \/ Overdue \/ Exit \/ Acknowledge \/ Close \/ AskQuit \/ Work
    \/ Choose \/ Confirm \/ Truncate \/ Fill

Spec == Init /\ [][Next]_vars

-----------------------------------------------------------------------------
(* Properties *)

\* A runtime that is gone has been told of, once, however its timer, its end and the page's
\* failure come together, unless the application was to quit; and a window on a runtime that is
\* gone stays no longer than the message.  But for a page that has refused: then the window
\* stays, its runtime killed by before-quit, and nothing is said (main.cjs has no
\* will-prevent-unload, and exit is silent when quitting).
GoneIsTold ==
    /\ alerts <= 1
    /\ runtime = "gone" => alert \/ refused

\* Started anew for another workspace, it works there; unless a later choice was cut off while
\* it was being written, which leaves a file nobody can read.
WorksInChosen ==
    runtime \in {"starting", "up"} /\ promised # Absent /\ ~relaunch =>
        folder = promised \/ saved = Torn
=============================================================================
