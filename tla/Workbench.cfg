SPECIFICATION Spec
CONSTANTS
    t1 = t1
    Tabs = {t1}
    MaxGens = 2
    MaxKeys = 2
    MaxOutput = 2
    Backlog = 1
    MaxClicks = 1
    Stubborn = TRUE
    Faults = TRUE
    Known <- MCKnown
    Tree <- MCTree
    Past <- MCPast
    Keys <- MCKeys
    MaxTyped = 2
    Sources <- MCSources
    Inserted <- MCInserted
    MaxChanges = 1
    Calls = {1, 2}
    MaxCalls = 3
    MaxServers = 3
    Deaf = TRUE
    Workspaces = {"v", "w"}
    FirstWorkspace = "v"
    MaxStarts = 3
    Paths = {"p", "q"}
    Outside = "o"
    Requested <- MCRequested
    Workers = {1, 2}
    FirstText <- MCFirst
    MaxFiles = 3
    MaxText = 7
    MaxSwaps = 1
    Chunk = 2
INVARIANTS NativeInv InputInOrder CompletionFits LinesReadBack DocumentsReadTrue RuntimesTracked
PROPERTIES AllSettles FilesAsNamed
CHECK_DEADLOCK FALSE
