CONSTANTS
    Jobs = {j1}
    Workers = {w1}
    Clients = {}
    Faults = {"overlap"}
    MaxFaults = 1
    None = None
SPECIFICATION Spec
INVARIANTS PublishedWhole
