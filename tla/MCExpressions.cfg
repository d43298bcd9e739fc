SPECIFICATION Spec
CONSTANTS
    Nodes <- AllNodes
    Trees <- AllTrees
    TypeStrings <- AllTypeStrings
    PythonVersion = 12
    CacheVersions <- Versions
INVARIANTS
    TypeOK
    TreeReadsBack
    LocationsInFile
    EvaluatedExact
    SurrogatesExact
    ImportsReadBack
CHECK_DEADLOCK FALSE
