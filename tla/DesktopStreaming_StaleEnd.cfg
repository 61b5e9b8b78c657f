\* The encoder may end by itself.  Refutes "make readPicture return false".
CONSTANTS
    YUV_BUFSIZE  = 2
    MaxSeq       = 3
    MaxJob       = 2
    MaxSessions  = 2
    Disciplined  = TRUE
    CaptureFails = FALSE
    EncoderStops = TRUE
SPECIFICATION Spec
PROPERTIES TerminatorIsMeant
CHECK_DEADLOCK FALSE
