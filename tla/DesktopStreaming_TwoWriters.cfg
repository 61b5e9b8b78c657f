\* Commands at any time.  Refutes "only for single writer".
CONSTANTS
    YUV_BUFSIZE  = 2
    MaxSeq       = 3
    MaxJob       = 2
    MaxSessions  = 2
    Disciplined  = FALSE
    CaptureFails = FALSE
    EncoderStops = FALSE
SPECIFICATION Spec
INVARIANTS OneWriter
CHECK_DEADLOCK FALSE
