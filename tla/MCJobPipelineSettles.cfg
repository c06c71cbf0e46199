CONSTANTS
    Jobs = {j1}
    Workers = {w1, w2}
    Clients = {}
    Faults = {"raise", "late", "redeliver", "sweep", "overlap"}
    MaxFaults = 3
    None = None
SPECIFICATION FairSpec
PROPERTIES EveryJobSettles
