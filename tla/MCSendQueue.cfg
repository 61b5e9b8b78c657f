\* Two senders, four buffers alive, a pool of two.  The run stops when all
\* frames are sent.
CONSTANTS
    s1 = s1  s2 = s2  b1 = b1  b2 = b2  b3 = b3  b4 = b4
    Senders   <- TwoSenders
    Bufs      <- FourBufs
    LIST_SIZE = 2
    MaxFrames = 3
    None      = None
SPECIFICATION FairSpec
INVARIANTS TypeOK OneWrite OneHolder WireInOrder QueueIsServedUntilBroken
PROPERTIES AllSent
CHECK_DEADLOCK FALSE
