CONSTANTS
    Jobs = {j1, j2}
    Workers = {w1, w2}
    Clients = {c1}
    Faults = {"raise", "late", "escape", "crash", "kill", "broker", "sweep", "overlap"}
    MaxFaults = 3
    None = None
SPECIFICATION Spec
SYMMETRY Symmetry
INVARIANTS SingleRunner NoPartialVisible DownloadIntact OrphansSayProcessing
PROPERTIES StatusFollowsArrows  StrandedByDeathOnly
