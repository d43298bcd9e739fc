SPECIFICATION Spec
CONSTANTS
    Nodes <- AllNodes
    Trees <- Comprehensions
    TypeStrings <- NoTrees
    PythonVersion = 12
    CacheVersions <- BeforeOptionalKeys
INVARIANT NoneForKey
CHECK_DEADLOCK FALSE
