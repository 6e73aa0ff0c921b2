SPECIFICATION FairSpec
CONSTANTS
    r1 = r1  r2 = r2  None = None  Any = Any
    Runs = {r1, r2}
    Requests <- MCRequests
    RequestsOf <- MCRequestsOf
    FileFacts <- MCFacts
    Configs <- MCConfigs
    Installed = {"yes", "human"}
    IoFaults = TRUE
    Crashes = TRUE
INVARIANTS RuntimeInv EffectsPermitted NothingSoftened AuditTrailHolds PreviewAgrees
PROPERTIES GateSpec EveryRunSettles
CHECK_DEADLOCK FALSE
