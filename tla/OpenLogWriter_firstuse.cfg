SPECIFICATION Spec
CONSTANTS
    k1 = k1  k2 = k2  P1 = P1  P2 = P2  None = None
    Procs = {P1, P2}
    Kids = {k1, k2}
    Configs <- LocalConfigs
    Actors = {TRUE}
    Tails = {"none", "cut", "bare", "full"}
    Damages = {}
    IoFaults = FALSE
    MaxAppends = 2
    MaxCrashes = 1
    MaxDamages = 0
INVARIANT FirstUseTogether
CHECK_DEADLOCK FALSE
