\* Seven pictures, two frame encoders; the client's command line, with which
\* Frames are reused, and one with a lookahead and at most one B picture in a row.
CONSTANTS
    MaxPics = 7
    Params <- MCParams
    KeyInt = 4
    Api = api
    Helpers = {h1}
    NumThreads = 2
    MaxRef = 1
    NumRows = 2
    RefLag = 1
SPECIFICATION Spec
INVARIANTS PipeInv RefsHeld RightReferences WaitIsSignalled
PROPERTIES SameRateControl
\* The encoder is closed, or the output queue is corrupted, and the model ends.
CHECK_DEADLOCK FALSE
