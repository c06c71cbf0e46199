CONSTANTS
    Tabs = {t1, t2}
    MaxTokens = 2
    MaxCalls = 2
    AccessLife = 2
    RefreshEvery = 1
    IdleAfter = 1
    None = None
    t1 = t1
    t2 = t2
SYMMETRY Symmetry
SPECIFICATION Spec
INVARIANTS SignedOutStaysOut CookieUntilLogout TimerFollowsToken KeptAlive
