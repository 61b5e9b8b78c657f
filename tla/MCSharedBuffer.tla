--------------------------- MODULE MCSharedBuffer ---------------------------
EXTENDS SharedBuffer

CONSTANTS w1, r1, r2, d1, d2
OneWriter  == {w1}
OneReader  == {r1}
TwoReaders == {r1, r2}
TwoFrames  == {d1, d2}
=============================================================================
