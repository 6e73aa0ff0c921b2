SPECIFICATION FairSpec
CONSTANTS
    s1 = s1  r1 = r1  r2 = r2  r3 = r3
    Streams = {s1}
    Runs = {r1, r2, r3}
    Commands <- MCCommands
    Decisions <- MCDecisions
    Turns <- MCTurns
    Leaving = {s1}
    AllowReal = {s1}
    Sdk = {s1}
    MaxSteps = 1
    MaxCalls = 2
    MaxBatch = 2
    Asks <- MCAsks
    Cap = 2
    Faults = TRUE
INVARIANTS ServerInv ApprovedAsShown BatchInOrder
PROPERTIES ApprovalSpec ServerSettles
CHECK_DEADLOCK FALSE
