----------------------------- MODULE MCSendQueue -----------------------------
EXTENDS SendQueue

CONSTANTS s1, s2, b1, b2, b3, b4
TwoSenders == {s1, s2}
FourBufs   == {b1, b2, b3, b4}
=============================================================================
