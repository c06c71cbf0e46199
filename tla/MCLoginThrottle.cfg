CONSTANTS
    Attempts = {a1, a2, a3}
    Limit = 2
    Window = 2
    RedisFaults = {"incr", "expire", "reset", "death"}
SPECIFICATION ThrottleSpec
INVARIANTS CounterExpires
