\* The pool with two workers and two providers, started and stopped.
SPECIFICATION FairSpec
CONSTANTS
    w1 = w1
    w2 = w2
    p1 = p1
    p2 = p2
    Workers <- MCWorkers
    Providers <- MCProviders
    Priority <- MCPriority
    JobsOf <- MCJobsOf
    Tasks = 2
    MaxPeers = 1
INVARIANTS
    PoolInv
    NoPeerLeftBehind
PROPERTIES
    JobsAreDone
    PoolStops
\* the pool is stopped in the end; that it stops nowhere else is PoolStops
CHECK_DEADLOCK FALSE
