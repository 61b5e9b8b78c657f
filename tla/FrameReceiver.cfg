\* The client reading frames of two sizes, with a file in between.
SPECIFICATION FairSpec
CONSTANTS
    MaxFrames = 3
    MaxFiles = 2
    Sizes = {1, 2}
    Lengths = {1, 3}
    Buffers = {b1, b2, b3, b4, b5, b6}
    ListSize = 1
INVARIANTS
    ReceiverInv
    PlayedInOrder
PROPERTY AllPlayed
\* the server sends no more than MaxFrames frames
CHECK_DEADLOCK FALSE
