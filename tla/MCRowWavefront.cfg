\* Four rows of four CTUs, two workers, one VBV restart.
CONSTANTS
    w1 = w1  w2 = w2
    Workers <- TwoWorkers
    NumRows = 4
    NumCols = 4
    FilterDelay = 1
    RefLag = 2
    MaxRestarts = 1
SPECIFICATION FairSpec
INVARIANTS WaveInv CtuReady FilterBehind DoneIsDone
PROPERTIES FrameCompletes
\* The frame is completed and its workers sleep: that nothing stops before is
\* FrameCompletes.
CHECK_DEADLOCK FALSE
