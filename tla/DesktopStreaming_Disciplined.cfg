\* The documented use, and a connection that may be lost at any time; nothing
\* fails.  The io thread may hang after such a loss (README, observations), so
\* deadlock is not checked: CommandsReturn says where it must not.
CONSTANTS
    YUV_BUFSIZE  = 2
    MaxSeq       = 4
    MaxJob       = 2
    MaxSessions  = 2
    Disciplined  = TRUE
    CaptureFails = FALSE
    EncoderStops = FALSE
SPECIFICATION FairSpec
INVARIANTS StreamingInv SingleWriterRule EndAllRule FramesInOrder
PROPERTIES TerminatorIsMeant CommandsReturn
CHECK_DEADLOCK FALSE
