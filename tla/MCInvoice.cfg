CONSTANTS
    Runners = {r1}
    Clerks = {c1}
    Orders = {{p1, p2}}
    Parts = 1
    BatchSize = 2
    MaxRetry = 2
    MaxCalls = 2
    RefusesRepeat = FALSE
    None = None
SPECIFICATION Spec
SYMMETRY Symmetry
INVARIANTS TypeOK RecordsAreReal UnrecordedOnlyIfLost DuplicatesOnlyAfterLoss
PROPERTIES AbortedBatchIssuesNothing
CHECK_DEADLOCK FALSE
