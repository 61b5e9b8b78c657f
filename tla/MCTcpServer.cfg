\* Two processes on one host and one on another.  The run ends when all have left.
CONSTANTS
    c1 = c1  c2 = c2  c3 = c3  hostA = hostA  hostB = hostB
    Clients <- ThreeClients
    Addr    <- TwoHosts
    Names   <- TwoNames
    MaxServices = 2
SPECIFICATION FairSpec
INVARIANTS TypeOK ServesOne ServedIsRead HandlersAlive
PROPERTIES DeadClientLeaves
CHECK_DEADLOCK FALSE
