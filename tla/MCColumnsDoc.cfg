SPECIFICATION LSpec
CONSTANTS
    Base = 32
    Width = 5
    MIN_SHORT_INT <- MinShort
    MIN_TWO_BYTES_INT <- MinTwo
    MIN_FOUR_BYTES_INT <- MinFour
    MaxWritten = 1
    Values = {0}
    Files <- DocFiles
    MaxUsize = 16
    DefOffset = 1
INVARIANT ColumnsAreCodePoints
