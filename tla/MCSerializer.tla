---------------------------- MODULE MCSerializer ----------------------------
(***************************************************************************)
(* The programs the walk is checked on, by what they are written with.     *)
(***************************************************************************)
EXTENDS StreamReader

Vocabulary(kinds, truths, skip, lines, depth) ==
    [kinds |-> kinds, truths |-> truths, skip |-> skip,
     lines |-> lines, depth |-> depth]

\* What the context fields, the import metadata and the omitted bodies depend on.
Scopes == Vocabulary({"import", "def", "getattr", "class"}, {}, BOOLEAN, 5, 4)
Effects == Vocabulary({"yield", "attr", "def", "class", "loop"}, {}, {TRUE}, 5, 3)
Trivial == Vocabulary({"yield", "attr", "doc", "pass", "def", "class"}, {}, {TRUE}, 4, 3)
Chains == Vocabulary({"import", "if", "elif", "else"}, {"MypyTrue", "MypyFalse"},
                     {FALSE}, 5, 1)
Matches == Vocabulary({"lazy_import", "match", "case", "case_any", "class"},
                      {"MypyTrue", "MypyFalse", "AlwaysTrue"}, {FALSE}, 5, 2)
WalkVocabularies == {Scopes, Effects, Trivial, Chains, Matches}

\* What the layout of the stream depends on.
Branching == Vocabulary({"import_pair", "if", "elif", "else", "assert", "match", "case"},
                        {"MypyTrue", "MypyFalse"}, {TRUE}, 4, 2)
Trying == Vocabulary({"pass", "try", "except", "try_else", "finally"}, {}, {FALSE}, 6, 1)
Looping == Vocabulary({"expr", "loop", "loop_else", "def"}, {}, BOOLEAN, 4, 2)
StreamVocabularies == {Branching, Trying, Looping}

AllVocabularies == WalkVocabularies \cup StreamVocabularies
=============================================================================
