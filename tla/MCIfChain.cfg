SPECIFICATION CSpec
CONSTANTS
    Names <- MCNames
    AlwaysTrueNames <- MCAlwaysTrueNames
    AlwaysFalseNames <- MCAlwaysFalseNames
    MaxWaiting = 3
    MaxBlocks = 3
INVARIANTS
    MypyExact
    MypyOnlyIsLast
    MypyOnlyNotRun
PROPERTY MarksReachableBlocks
