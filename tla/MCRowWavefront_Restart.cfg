\* Five rows: a row two below the restarted one may be queued behind its back.
CONSTANTS
    w1 = w1  w2 = w2
    Workers <- TwoWorkers
    NumRows = 5
    NumCols = 3
    FilterDelay = 1
    RefLag = 2
    MaxRestarts = 1
SPECIFICATION Spec
INVARIANTS CtuReady
CHECK_DEADLOCK FALSE
