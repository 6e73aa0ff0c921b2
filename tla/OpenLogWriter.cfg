SPECIFICATION FairSpec
CONSTANTS
    k1 = k1  k2 = k2  P1 = P1  P2 = P2  None = None
    Procs = {P1, P2}
    Kids = {k1, k2}
    Configs <- AllConfigs
    Actors = {TRUE, FALSE}
    Tails = {"none", "cut", "bare", "full"}
    Damages = {"truncate", "checkpoint", "trust", "key"}
    IoFaults = TRUE
    MaxAppends = 2
    MaxCrashes = 2
    MaxDamages = 2
INVARIANTS WriterInv EstablishedStaysUsable TamperEvident ReadyMatchesAppend
PROPERTIES AuditSpec EveryAppendSettles
CHECK_DEADLOCK FALSE
