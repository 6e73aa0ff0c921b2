SPECIFICATION Spec
CONSTANTS
    Commands <- MCCommands
    Decisions <- MCDecisions
    Native = {"list"}
    Lines <- MCLines
    MaxLines = 3
    MaxBreaks = 1
    Files = {"f", "g"}
    MaxTabs = 2
    MaxEdits = 2
    MaxClicks = 3
    Depth = 2
    Entries <- MCEntries
    Kind <- MCKind
    MaxJobs = 2
    MaxTyped = 2
    MaxApprovals = 1
    Runs = {"p", "q"}
    Requests <- MCRequests
    Def <- MCDef
    Defs <- MCTwo
    Terminals = {"s"}
    MaxDrafts = 2
    MaxSessions = 0
INVARIANT InOneLayer
CHECK_DEADLOCK FALSE
