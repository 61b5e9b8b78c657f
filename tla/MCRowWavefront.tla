--------------------------- MODULE MCRowWavefront ---------------------------
EXTENDS RowWavefront
CONSTANTS w1, w2
TwoWorkers == {w1, w2}
=============================================================================
