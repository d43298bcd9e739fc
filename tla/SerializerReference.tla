------------------------ MODULE SerializerReference ------------------------
(***************************************************************************)
(* What the serializer's output must be, said of the tree itself: from the *)
(* lines that enclose a line and the conditions before a branch, with no   *)
(* walk, no stack and no flags that are set and put back.                  *)
(***************************************************************************)
EXTENDS Serializer

\* The lines of the tree, the first top-level assert that fails ends it.
Kept(p) ==
    ~\E q \in 1..(p - 1) : Depth(q) = 0 /\ Kind(q) = "assert"
                              /\ prog[q].truth \in FalseForMypy

InClass(p)    == \E h \in Lines : Inside(h, p) /\ Kind(h) = "class"
InFunction(p) == \E h \in Lines : Inside(h, p) /\ Kind(h) \in Funcs

\* The conditions of the same chain or match that are tried before h.
Before(h) == {q \in Lines : q < h /\ q >= HeadOf(h) /\ Depth(q) = Depth(h)}

\* A condition that, for mypy, ends the search for the block to enter.
Decides(q) ==
    prog[q].truth \in TrueForMypy /\ Kind(q) \in {"if", "elif", "case_any"}

UnreachableBranch(h) ==
    /\ Kind(h) \in Branches
    /\ prog[h].truth \in FalseForMypy \/ \E q \in Before(h) : Decides(q)

MypyOnlyBranch(h) ==
    /\ Kind(h) \in Branches
    /\ ~UnreachableBranch(h)
    /\ \/ Kind(h) \in {"if", "elif", "case_any"} /\ prog[h].truth = "MypyTrue"
       \/ Kind(h) = "else" /\ \E q \in Before(h) : prog[q].truth = "MypyFalse"

Unreachable(p) == \E h \in Lines : Inside(h, p) /\ UnreachableBranch(h)
MypyOnly(p)    == \E h \in Lines : Inside(h, p) /\ MypyOnlyBranch(h)

\* The definition whose scope a line is in: the innermost around it.
OwnScope(d, p) ==
    /\ Inside(d, p)
    /\ \A e \in Lines : Inside(e, p) /\ Kind(e) \in Funcs \cup {"class"} => e <= d

\* A function whose body mypy may not see when bodies are skipped.
Omitted(h) ==
    /\ Kind(h) \in Funcs
    /\ skip_function_bodies
    /\ ~HasExternallyVisibleEffect(h, InClass(h))

\* The lines that are part of the output.
Emitted(p) == Kept(p) /\ ~\E h \in Lines : Inside(h, p) /\ Omitted(h)

ReferenceFlags(p) ==
    {f \in {"TOP_LEVEL", "UNREACHABLE", "MYPY_ONLY", "LAZY"} :
        CASE f = "TOP_LEVEL"   -> ~InFunction(p)
          [] f = "UNREACHABLE" -> Unreachable(p)
          [] f = "MYPY_ONLY"   -> MypyOnly(p)
          [] f = "LAZY"        -> Kind(p) = "lazy_import"}
-----------------------------------------------------------------------------
(* Properties. *)

\* The stack discipline: every open block is one that encloses the next line,
\* at its own level, and the walk never leaves the lines of the tree.
TypeOK ==
    /\ phase \in {"parse", "serialize", "done"}
    /\ stop \in 0..Len(prog)
    /\ pos \in 1..(Len(prog) + 1)
    /\ \A i \in 1..Len(frames) :
          /\ frames[i].line \in 1..(pos - 1)
          /\ Depth(frames[i].line) = i - 1
          /\ frames[i].in_class \in BOOLEAN
          /\ frames[i].in_function \in BOOLEAN
          /\ frames[i].unreachable \in BOOLEAN
          /\ frames[i].mypy_only \in BOOLEAN
    /\ in_class \in BOOLEAN
    /\ in_function \in BOOLEAN
    /\ current_unreachable \in BOOLEAN
    /\ current_mypy_only \in BOOLEAN
    /\ top_level_getattr \in BOOLEAN

\* About to serialize the line pos.
Visiting == phase = "serialize" /\ pos <= stop /\ Depth(pos) = Len(frames)

\* Whatever was entered and left before, the context fields describe exactly
\* the blocks around the line being serialized: in_class and in_function the
\* definitions, the other two the branches, by the flags of their own chains.
ContextMatchesEnclosing ==
    Visiting =>
        /\ in_class <=> InClass(pos)
        /\ in_function <=> InFunction(pos)
        /\ current_unreachable <=>
             \E h \in Lines : Inside(h, pos) /\ Kind(h) \in Branches
                                /\ BranchFlags(h).unreachable
        /\ current_mypy_only <=>
             \E h \in Lines : Inside(h, pos) /\ Kind(h) \in Branches
                                /\ BranchFlags(h).mypy_only

\* The import metadata, which mypy uses to find a file's dependencies without
\* reading its tree, is right at every moment: one entry per name, in source
\* order, and the flags say how the tree reaches the import.
ImportMetadataExact ==
    /\ \A i, j \in 1..Len(imports) : i < j => imports[i].line <= imports[j].line
    /\ \A i \in 1..Len(imports) :
          imports[i].flags = ReferenceFlags(imports[i].line)
    /\ phase = "done" =>
          \A p \in Lines :
             Cardinality({i \in 1..Len(imports) : imports[i].line = p}) =
                IF Kind(p) \in Imports /\ Emitted(p) THEN Aliases(Kind(p)) ELSE 0

\* The skipped lines, on which no `type: ignore' is reported, are the lines of
\* the unreachable blocks and those after a failing assert, and no others: a
\* line mypy does check never loses its ignore comment.
SkippedLinesExact ==
    phase = "done" =>
        skipped_lines =
            {p \in Lines :
                \/ ~Kept(p)
                \/ \E h \in Lines : Inside(h, p) /\ UnreachableBranch(h) /\ Emitted(h)}

\* top_level_getattr says whether some __getattr__ is defined in the scope of
\* the module, in whatever blocks, and not in one of a class or a function.
GetattrExact ==
    phase = "done" =>
        (top_level_getattr <=>
            \E p \in Lines : /\ Kind(p) = "getattr" /\ Kept(p)
                             /\ ~InClass(p) /\ ~InFunction(p))

\* The lines whose statement (or header) is in the tokens.
Written == {bytes[i][2] : i \in {j \in 1..Len(bytes) : bytes[j][1] = "location"}}

EffectLines == {p \in Lines : Kind(p) \in {"yield", "attr"}}

\* Skipping bodies hides nothing that shows outside a function: a yield, which
\* makes its function a generator, and an attribute that a method defines are
\* written whenever the function that contains them is.
EffectsAreWritten ==
    phase = "done" =>
        \A p \in EffectLines, f \in Lines :
            /\ Kind(f) \in Funcs /\ f \in Written
            /\ OwnScope(f, p)
            /\ Kind(p) = "attr" => \E c \in Lines : Kind(c) = "class" /\ OwnScope(c, f)
            => p \in Written
=============================================================================
