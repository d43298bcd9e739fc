SPECIFICATION LSpec
CONSTANTS
    Base = 32
    Width = 5
    MIN_SHORT_INT <- MinShort
    MIN_TWO_BYTES_INT <- MinTwo
    MIN_FOUR_BYTES_INT <- MinFour
    MaxWritten = 3
    Values <- MCValues
    Files <- MCFiles
    MaxUsize = 16
    DefOffset = 1
INVARIANTS
    ReadsBack
    PositionsExact
    NestingKept
