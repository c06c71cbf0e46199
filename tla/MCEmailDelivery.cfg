CONSTANTS
    Deliveries = {d1}
    Workers = {w1, w2}
    Faults = {"raise", "lost", "short", "late", "disabled", "escape", "crash", "kill", "redeliver", "broker"}
    MaxFaults = 3
    Chunks = 3
    None = None
SPECIFICATION FairSpec
INVARIANTS LinksOpen
PROPERTIES DeliverySpec ForgottenOnlyByLoss EveryDeliveryEnds
CHECK_DEADLOCK FALSE
