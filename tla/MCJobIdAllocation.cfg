CONSTANTS
    Requests = {r1, r2, r3, r4}
    MaxAttempts = 3
    MaxDay = 2
SPECIFICATION FairSpec
INVARIANTS GaplessDays FailureNeedsContention
PROPERTIES CounterSpec ContendersAreCreated
CHECK_DEADLOCK FALSE
