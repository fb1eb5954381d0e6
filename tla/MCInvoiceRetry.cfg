CONSTANTS
    Runners = {r1}
    Clerks = {}
    Orders = {{p1}}
    Parts = 1
    BatchSize = 1
    MaxRetry = 5
    MaxCalls = 6
    RefusesRepeat = TRUE
    None = None
SPECIFICATION SplitSpec
INVARIANTS RetriedAtMost
CHECK_DEADLOCK FALSE
