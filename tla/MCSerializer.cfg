SPECIFICATION Spec
CONSTANTS
    AlwaysTrueNames = {}
    AlwaysFalseNames = {}
    CacheVersion = 7
    Vocabularies <- AllVocabularies
INVARIANTS
    TypeOK
    ContextMatchesEnclosing
    GetattrExact
    EffectsAreWritten
    ImportMetadataExact
    SkippedLinesExact
    StreamReadsBack
