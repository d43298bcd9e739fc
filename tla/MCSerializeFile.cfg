SPECIFICATION Spec
CONSTANTS
    Files <- MCFiles
    CacheVersions = {6, 7}
    Sources <- MCSources
    Given <- MCGiven
    Rewritten <- MCRewritten
    Unreadable = Unreadable
    NoSource = NoSource
    StubPackage = TRUE
    MaxRewrites = 1
INVARIANTS
    IgnoresExact
    AnnotationsExact
    WholeModuleExact
    RetainedExact
    SkipsExact
PROPERTY Returns
