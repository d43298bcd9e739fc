SPECIFICATION TCSpec
CONSTANTS
    Files <- MCFiles
    CacheVersions = {7}
INVARIANT ConfigIsNoIgnore
