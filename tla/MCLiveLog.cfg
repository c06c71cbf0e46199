CONSTANTS
    Run = Run
    Page = Page
    Mailers = {m1}
    Loops = {l1, l2}
    Limit = 1
    MaxLines = 2
    MaxRounds = 1
    Faults = {"append", "overlap", "lost", "load"}
    MaxFaults = 2
SPECIFICATION FairSpec
PROPERTIES FollowSpec LinesAreShown
CHECK_DEADLOCK FALSE
