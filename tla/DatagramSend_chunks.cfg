\* Lengths below the range of the cast, reported before the connection is up.
SPECIFICATION FairSpec
CONSTANTS
    Message = 6
    MaxLengths = {1, 2, 7}
    Garbage = {0, 5}
    ChunkValues = 8
    StateFirst = TRUE
INVARIANTS TypeOK EveryByteOnce BuffersHaveOneOwner EachRoundShortens
PROPERTY SendReturns
CHECK_DEADLOCK FALSE
