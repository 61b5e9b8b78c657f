\* One writer (the contract of the class), two readers, the service's
\* YUV_BUFSIZE = 2 frames.
CONSTANTS
    w1 = w1  r1 = r1  r2 = r2  d1 = d1  d2 = d2
    Writers <- OneWriter
    Readers <- TwoReaders
    Data    <- TwoFrames
    QueSize = 2
    Empty   = Empty
    Partial = Partial
    Own     = Own
SPECIFICATION FairSpec
INVARIANTS TypeOK FillOutsideQueue NoTornFrame NoLostWakeup
PROPERTIES ImplementsChannel CallsReturn
