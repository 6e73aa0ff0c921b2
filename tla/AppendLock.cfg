SPECIFICATION FairSpec
CONSTANTS
    a1 = a1  a2 = a2  b1 = b1  c1 = c1
    P1 = P1  P2 = P2  P3 = P3  H1 = H1  NoOne = NoOne
    Callers = {a1, a2, b1, c1}
    Procs = {P1, P2, P3}
    ProcOf <- MCProcOf
    HostOf <- OneHost
    CanCrash = {P1, P2}
    Reclaimers = {c1}
    Patient = {c1}
    PromptWrites = TRUE
    IoFaults = TRUE
    MaxCalls = 4
INVARIANTS LockInv
PROPERTIES MutexSpec ReclaimsOnlyTheDead EveryCallSettles DeadLockReclaimed
CHECK_DEADLOCK FALSE
