CONSTANTS
    Jobs = {j1, j2}
    Workers = {w1}
    Clients = {}
    Faults = {"raise", "crash", "sweep"}
    MaxFaults = 2
    None = None
SPECIFICATION FairSpec
INVARIANTS CompletedIsOffered
PROPERTIES LifecycleSpec PendingIsTaken ReportsExpire TempDirsGo
