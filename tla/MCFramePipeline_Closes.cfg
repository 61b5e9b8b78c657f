\* The client's command line: no B pictures, no lookahead, several frame
\* encoders.  A poke() between a look at m_finalFrameCount and the wait is lost.
CONSTANTS
    MaxPics = 3
    Params <- MCStreamed
    KeyInt = 4
    Api = api
    Helpers = {h1}
    NumThreads = 2
    MaxRef = 1
    NumRows = 2
    RefLag = 1
SPECIFICATION FairSpec
PROPERTIES Closes
CHECK_DEADLOCK FALSE
