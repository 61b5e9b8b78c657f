-------------------------- MODULE MCFramePipeline --------------------------
EXTENDS FramePipeline

\* --bframes 0 --rc-lookahead 0, of the client's command line
Streamed == [bframes |-> 0, lookahead |-> 0]

MCStreamed == {Streamed}
MCParams   == {Streamed, [bframes |-> 1, lookahead |-> 2]}
=============================================================================
