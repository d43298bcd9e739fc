SPECIFICATION Spec
CONSTANTS
    MaxI32 = 2
    Literals = {0, 1, 2, 3}
    MaxTuple = 3
    Versions <- MCVersions
    Micros = {0, 2}
    Platforms = {"lin", "linux"}
    StartsWith <- MCStartsWith
    AlwaysTrueNames = {}
    AlwaysFalseNames = {}
INVARIANTS
    AgreesWithPython
    ComplementInverts
