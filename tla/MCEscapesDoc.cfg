SPECIFICATION Spec
CONSTANTS
    Nodes <- AllNodes
    Trees <- StringsAlone
    TypeStrings <- NoTrees
    PythonVersion = 12
    CacheVersions <- Latest
INVARIANT NoInvalidEscapes
CHECK_DEADLOCK FALSE
