SPECIFICATION Spec
CONSTANTS
    Keys = {"always-true", "always_false", "ignore-errors", "strict"}
    Words = {"A", "no"}
    MaxDirectives = 3
    MaxNames = 2
INVARIANTS
    NamesReadBack
    LastIgnoreErrors
