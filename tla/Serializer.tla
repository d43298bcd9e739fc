----------------------------- MODULE Serializer -----------------------------
(***************************************************************************)
(* The serializer of src/src/serialize_ast.rs: one walk over the syntax    *)
(* tree of a module that writes mypy's token stream and, on the way,       *)
(* collects the import metadata, the lines of unreachable blocks and       *)
(* whether the module has a top-level __getattr__.                         *)
(*                                                                         *)
(* A syntax tree is given by the source it was parsed from, one statement, *)
(* header or clause to a line and one level of depth to a block, so that a *)
(* line number identifies a statement and stands for its location.  The    *)
(* block of a line h is the run of deeper lines after it.  The cases of a  *)
(* match are written at the depth of its header.                           *)
(*                                                                         *)
(* The recursion of Stmt::serialize over nested blocks is a stack: a frame *)
(* is a block being written, with the values of the context fields that    *)
(* the code keeps in locals (was_in_class, was_in_function,                *)
(* old_unreachable, old_mypy_only) to put back at its end.                 *)
(***************************************************************************)
EXTENDS BranchAnalyzer, Integers, Sequences, FiniteSets

CONSTANTS
    Vocabularies,   \* what the programs are written with; a record has
                    \*   kinds  : the kinds of line that occur together,
                    \*   truths : the truth values of their conditions,
                    \*   skip   : the values of skip_function_bodies,
                    \*   lines  : a bound on the lines of a program,
                    \*   depth  : a bound on its nesting
    CacheVersion    \* Options.cache_version

Imports  == {"import", "import_pair", "lazy_import"}
Simple   == {"expr", "doc", "pass", "attr", "yield", "assert"}
Funcs    == {"def", "getattr"}
Headers  == Funcs \cup {"class", "if", "loop", "try", "match"}
Cases    == {"case", "case_any"}
Branches == {"if", "elif", "else"} \cup Cases
Clauses  == {"elif", "else", "loop_else", "except", "try_else", "finally"} \cup Cases
Conditional == {"if", "elif", "assert"} \cup Cases

Kinds == Imports \cup Simple \cup Headers \cup Clauses

ASSUME SerializerAssumption ==
    /\ Vocabularies \subseteq
         [kinds : SUBSET Kinds, truths : SUBSET TruthValue,
          skip : SUBSET BOOLEAN, lines : Nat, depth : Nat]
    /\ CacheVersion \in Nat

CV_IMPORT_FLAGS == 3    \* options.rs: import flags are part of the tree

VARIABLES
    prog,                   \* the parsed lines
    phase,                  \* "parse", "serialize", "done"
    skip_function_bodies,
    stop,                   \* the last line Mod::serialize keeps
    pos,                    \* the next line to serialize
    frames,                 \* the blocks being written, innermost last
    in_class, in_function, current_unreachable, current_mypy_only,
    imports, skipped_lines, top_level_getattr,
    bytes                   \* the tokens written

context == <<in_class, in_function, current_unreachable, current_mypy_only>>
vars == <<prog, phase, skip_function_bodies, stop, pos, frames, context,
          imports, skipped_lines, top_level_getattr, bytes>>
-----------------------------------------------------------------------------
(* The syntax tree. *)

Lines    == 1..Len(prog)
Kind(p)  == prog[p].kind
Depth(p) == prog[p].depth

\* p is in the block of h, or in a block nested in it.
Inside(h, p) == h < p /\ \A q \in (h + 1)..p : Depth(q) > Depth(h)

Body(h)  == {p \in Lines : Inside(h, p)}
Stmts(h) == {p \in Body(h) : Depth(p) = Depth(h) + 1 /\ Kind(p) \notin Clauses}

Highest(S) == CHOOSE p \in S : \A q \in S : q <= p
Lowest(S)  == CHOOSE p \in S : \A q \in S : p <= q

\* The clause (or header) a clause follows, and the header of its statement.
Previous(p) == Highest({q \in 1..(p - 1) : Depth(q) <= Depth(p)})
HeadOf(p)   == Highest({q \in 1..p : Depth(q) = Depth(p) /\ Kind(q) \notin Clauses})
ClausesOf(h, kinds) ==
    {p \in Lines : p > h /\ Depth(p) = Depth(h) /\ Kind(p) \in kinds /\ HeadOf(p) = h}

\* Which line may open the statement a clause continues (ruff's parser).
Follows(kind) ==
    CASE kind \in {"elif", "else"} -> {"if", "elif"}
      [] kind \in Cases            -> {"match"} \cup Cases
      [] kind = "loop_else"        -> {"loop"}
      [] kind = "except"           -> {"try", "except"}
      [] kind = "try_else"         -> {"except"}
      [] kind = "finally"          -> {"try", "except", "try_else"}

\* The tree cannot tell these clauses with an empty body from no clause.
NeedsBody == {"loop_else", "try_else", "finally"}
OpensBlock == (Headers \ {"match"}) \cup Clauses

\* A line the parser can add.  A header may stay without a body: the parser
\* recovers from syntax errors and the tree is serialized all the same.
Fits(line) ==
    LET n == Len(prog)
    IN /\ line.depth <= IF n = 0 THEN 0
                        ELSE IF Kind(n) \in OpensBlock THEN Depth(n) + 1 ELSE Depth(n)
       /\ n > 0 /\ Kind(n) \in NeedsBody => line.depth = Depth(n) + 1
       /\ line.kind \in Clauses =>
            \E q \in Lines :
               /\ Depth(q) = line.depth
               /\ Kind(q) \in Follows(line.kind)
               /\ \A r \in (q + 1)..n : Depth(r) > line.depth
-----------------------------------------------------------------------------
(* Reachability and effects, functions of the tree. *)

\* The IfReachabilityAnalyzer of a chain or match after line p.
Analyzer[p \in Lines] ==
    LET before == IF Kind(p) \in Clauses THEN Analyzer[Previous(p)] ELSE NewAnalyzer
    IN CASE Kind(p) \in {"if", "elif"} -> AfterCondition(before, prog[p].truth)
         [] Kind(p) \in Cases ->
              AfterMatchCase(before, InferPatternValue(Kind(p) = "case_any"), prog[p].truth)
         [] OTHER -> before

\* The flags serialize_if_stmt and Stmt::Match compute for each block before
\* they write the first.
BranchFlags(p) ==
    LET before == IF Kind(p) \in Clauses THEN Analyzer[Previous(p)] ELSE NewAnalyzer
    IN CASE Kind(p) \in {"if", "elif"} -> ConditionFlags(before, prog[p].truth)
         [] Kind(p) = "else"           -> ElseFlags(before)
         [] Kind(p) \in Cases ->
              MatchCaseFlags(before, InferPatternValue(Kind(p) = "case_any"), prog[p].truth)

NoFlags == [unreachable |-> FALSE, mypy_only |-> FALSE]

\* is_trivial_body: a docstring, or a single pass, raise or `...' that may
\* follow one.
IsTrivialBody(h) ==
    LET stmts == Stmts(h)
        rest == IF Kind(Lowest(stmts)) = "doc" THEN stmts \ {Lowest(stmts)} ELSE stmts
    IN /\ stmts # {}
       /\ rest = {} \/ \E p \in rest : rest = {p} /\ Kind(p) = "pass"

\* The statements EffectDetector visits: it does not enter nested definitions.
\* A bug for the checks: it enters no nested block at all.
VisitedMutant(h) == Stmts(h)
Visited(h) ==
    {p \in Body(h) : ~\E d \in Body(h) : Kind(d) \in Funcs \cup {"class"} /\ Inside(d, p)}

HasExternallyVisibleEffect(h, check_attributes) ==
    \/ IsTrivialBody(h)
    \/ \E p \in Visited(h) : \/ Kind(p) = "yield"
                             \/ Kind(p) = "attr" /\ check_attributes
-----------------------------------------------------------------------------
(* The tokens. *)

Tag(name) == <<"tag", name>>
Num(n)    == <<"int", n>>
Bool(b)   == <<"bool", b>>
Loc(p)    == <<"location", p>>
Expr(p)   == <<"expr", p>>     \* the header's expression, whatever it is
End       == <<"end">>
Block(len, unreachable) == <<"block", len, unreachable>>

\* The start of serialize_block: an empty body gets a location, unless the
\* reader does not need one (the else of a loop).
BlockStart(h, unreachable) ==
    <<Block(Cardinality(Stmts(h)), unreachable)>>
        \o (IF Stmts(h) = {} THEN <<Loc(h)>> ELSE << >>)

\* serialize_empty_block, end tag included.
EmptyBlock(h, unreachable) == <<Block(0, unreachable), Loc(h), End>>

\* What is written before the block of a header or clause.
Intro(h) ==
    CASE Kind(h) \in Funcs             -> <<Tag("func")>>
      [] Kind(h) \in {"class", "try"}  -> <<Tag(Kind(h))>>
      [] Kind(h) \in {"if", "loop"}    -> <<Tag(Kind(h)), Expr(h)>>
      [] Kind(h) \in {"elif"} \cup Cases -> <<Expr(h)>>
      [] Kind(h) \in {"else", "try_else"} -> <<Bool(TRUE)>>
      [] Kind(h) = "finally" ->
           (IF ClausesOf(HeadOf(h), {"try_else"}) = {} THEN <<Bool(FALSE)>> ELSE << >>)
               \o <<Bool(TRUE)>>
      [] Kind(h) \in {"loop_else", "except"} -> << >>

\* A bug for the checks: an else counted among the elifs or handlers.
HeadCountMutant(h) ==
    CASE Kind(h) = "if"  -> <<Num(Cardinality(ClausesOf(h, {"elif", "else"})))>>
      [] Kind(h) = "try" -> <<Num(Cardinality(ClausesOf(h, {"except", "try_else"})))>>
      [] OTHER -> << >>

\* What is written right after the header's own block: the number of elifs,
\* or of except clauses.
HeadCount(h) ==
    CASE Kind(h) = "if"  -> <<Num(Cardinality(ClausesOf(h, {"elif"})))>>
      [] Kind(h) = "try" -> <<Num(Cardinality(ClausesOf(h, {"except"})))>>
      [] OTHER -> << >>

\* A bug for the checks: the else of a loop that has none is not written.
StmtEndMutant(h, unreachable) ==
    (IF Kind(h) \in {"if", "elif"} THEN <<Bool(FALSE)>> ELSE << >>) \o <<Loc(HeadOf(h)), End>>

\* What ends a statement whose last written block is that of line h: the parts
\* that are absent, then the location and the end tag.  An if without else
\* gets an empty else block when that block would be unreachable.
StmtEnd(h, unreachable) ==
    LET head == HeadOf(h)
        rest == CASE Kind(h) \in {"if", "elif"} ->
                       IF ElseFlags(Analyzer[h]).unreachable
                       THEN <<Bool(TRUE)>> \o EmptyBlock(head, TRUE)
                       ELSE <<Bool(FALSE)>>
                  [] Kind(h) = "loop" -> <<Block(0, unreachable), End>>
                  [] Kind(h) \in {"try", "except"} -> <<Bool(FALSE), Bool(FALSE)>>
                  [] Kind(h) = "try_else" -> <<Bool(FALSE)>>
                  [] OTHER -> << >>
    IN rest \o <<Loc(head), End>>
-----------------------------------------------------------------------------
Init ==
    /\ prog = << >>
    /\ phase = "parse"
    /\ skip_function_bodies \in BOOLEAN
    /\ stop = 0
    /\ pos = 1
    /\ frames = << >>
    /\ in_class = FALSE
    /\ in_function = FALSE
    /\ current_unreachable = FALSE
    /\ current_mypy_only = FALSE
    /\ imports = << >>
    /\ skipped_lines = {}
    /\ top_level_getattr = FALSE
    /\ bytes = << >>

WrittenWith(line, v) ==
    /\ line.kind \in v.kinds
    /\ line.truth \in v.truths \cup {"Unknown"}
    /\ line.depth <= v.depth

\* External: ruff parses one more line.
AddLine ==
    /\ phase = "parse"
    /\ \E v \in Vocabularies :
        /\ skip_function_bodies \in v.skip
        /\ Len(prog) < v.lines
        /\ \A p \in Lines : WrittenWith(prog[p], v)
        /\ \E kind \in v.kinds, depth \in 0..v.depth,
              truth \in v.truths \cup {"Unknown"} :
            LET line == [kind |-> kind, depth |-> depth, truth |-> truth]
            IN
             /\ kind \notin Conditional => truth = "Unknown"
             /\ kind \in NeedsBody => Len(prog) + 1 < v.lines /\ depth < v.depth
             /\ Fits(line)
             /\ prog' = Append(prog, line)
    /\ UNCHANGED <<phase, skip_function_bodies, stop, pos, frames, context,
                   imports, skipped_lines, top_level_getattr, bytes>>

\* assert_will_always_fail
AssertWillAlwaysFail(p) == Kind(p) = "assert" /\ prog[p].truth \in FalseForMypy

\* Mod::serialize keeps the lines up to the first of the asserts that fail.
KeepsUpTo(failing, last) ==
    IF failing = {} THEN last = Len(prog)
                    ELSE last \in failing /\ \A p \in failing : last <= p

\* Mod::serialize: the tree is complete; everything after the first top-level
\* assert that always fails is dropped and its lines are skipped.
StartModule ==
    /\ phase = "parse"
    /\ prog # << >> => Kind(Len(prog)) \notin NeedsBody
    /\ phase' = "serialize"
    /\ \E last \in 0..Len(prog) :
          /\ KeepsUpTo({p \in Lines : Depth(p) = 0 /\ AssertWillAlwaysFail(p)}, last)
          /\ stop' = last
          /\ skipped_lines' = (last + 1)..Len(prog)
          /\ bytes' = <<Num(Cardinality({p \in 1..last :
                                Depth(p) = 0 /\ Kind(p) \notin Clauses}))>>
    /\ UNCHANGED <<prog, skip_function_bodies, pos, frames, context, imports,
                   top_level_getattr>>

\* The next line of the innermost block, if it is of one of these kinds.
\* A bug for the checks: a block that goes on past its end.
AtMutant(kinds) ==
    /\ phase = "serialize"
    /\ pos <= stop
    /\ Kind(pos) \in kinds
At(kinds) ==
    /\ phase = "serialize"
    /\ pos <= stop
    /\ Depth(pos) = Len(frames)
    /\ Kind(pos) \in kinds

Write(tokens) == bytes' = bytes \o tokens

\* Statements without blocks and imports.
SimpleStmt ==
    /\ At(Simple)
    /\ Write(<<Tag(Kind(pos)), Loc(pos), End>>)
    /\ pos' = pos + 1
    /\ UNCHANGED <<prog, phase, skip_function_bodies, stop, frames, context,
                   imports, skipped_lines, top_level_getattr>>

\* make_import_flags
MakeImportFlags(is_lazy) ==
    (IF ~in_function THEN {"TOP_LEVEL"} ELSE {})
        \cup (IF current_unreachable THEN {"UNREACHABLE"} ELSE {})
        \cup (IF current_mypy_only THEN {"MYPY_ONLY"} ELSE {})
        \cup (IF is_lazy THEN {"LAZY"} ELSE {})

Aliases(kind) == IF kind = "import_pair" THEN 2 ELSE 1

\* Stmt::Import and Stmt::ImportFrom: an `import a, b' is one statement and an
\* entry of the metadata for each name.
ImportStmt ==
    /\ At(Imports)
    /\ LET flags == MakeImportFlags(Kind(pos) = "lazy_import")
       IN /\ imports' = imports \o [i \in 1..Aliases(Kind(pos)) |->
                                       [line |-> pos, flags |-> flags]]
          /\ Write(<<Tag("import"), Num(Aliases(Kind(pos))), Loc(pos)>>
                    \o (IF CacheVersion >= CV_IMPORT_FLAGS
                        THEN <<<<"flags", flags>>>> ELSE << >>)
                    \o <<End>>)
    /\ pos' = pos + 1
    /\ UNCHANGED <<prog, phase, skip_function_bodies, stop, frames, context,
                   skipped_lines, top_level_getattr>>

\* Serializer::skip_lines, from the first to the last statement of a block.
\* A bug for the checks: the line of the block's header skipped with it.
SkipLinesMutant(h) == skipped_lines \cup {h} \cup Body(h)
SkipLines(h) == skipped_lines \cup Body(h)

\* with_branch_flags: a branch adds its flags to those around it.
\* A bug for the checks: they replace them.
WithBranchFlagsMutant(flags) ==
    /\ current_unreachable' = (current_unreachable \/ flags.unreachable)
    /\ current_mypy_only' = flags.mypy_only
WithBranchFlags(flags) ==
    /\ current_unreachable' = (current_unreachable \/ flags.unreachable)
    /\ current_mypy_only' = (current_mypy_only \/ flags.mypy_only)

\* serialize_block for the block of pos: what precedes it, then the block as
\* far as its first statement, in the context it is written in.
OpenBlock(class, function, flags) ==
    /\ frames' = Append(frames,
          [line |-> pos, in_class |-> in_class, in_function |-> in_function,
           unreachable |-> current_unreachable, mypy_only |-> current_mypy_only])
    /\ in_class' = class
    /\ in_function' = function
    /\ WithBranchFlags(flags)
    /\ skipped_lines' = IF current_unreachable' THEN SkipLines(pos) ELSE skipped_lines
    /\ Write(Intro(pos) \o BlockStart(pos, current_unreachable'))
    /\ pos' = pos + 1
    /\ UNCHANGED <<prog, phase, skip_function_bodies, stop, imports>>

SerializesBody(h) ==
    skip_function_bodies => HasExternallyVisibleEffect(h, in_class)

\* A bug for the checks: a __getattr__ in a function counts.
NoteGetattrMutant ==
    top_level_getattr' = (top_level_getattr \/ (Kind(pos) = "getattr" /\ ~in_class))

NoteGetattr ==
    top_level_getattr' =
        (top_level_getattr \/ (Kind(pos) = "getattr" /\ ~in_class /\ ~in_function))

\* Stmt::FunctionDef, with its body or (FunctionOmitted) without it.
FunctionDef ==
    /\ At(Funcs)
    /\ SerializesBody(pos)
    /\ NoteGetattr
    /\ OpenBlock(in_class, TRUE, NoFlags)

FunctionOmitted ==
    /\ At(Funcs)
    /\ ~SerializesBody(pos)
    /\ NoteGetattr
    /\ Write(Intro(pos) \o EmptyBlock(pos, current_unreachable) \o StmtEnd(pos, current_unreachable))
    /\ \E last \in pos..Len(prog) : Body(pos) = (pos + 1)..last /\ pos' = last + 1
    /\ UNCHANGED <<prog, phase, skip_function_bodies, stop, frames, context,
                   imports, skipped_lines>>

\* Stmt::ClassDef
ClassDef ==
    /\ At({"class"})
    /\ OpenBlock(TRUE, in_function, NoFlags)
    /\ UNCHANGED top_level_getattr

\* serialize_if_stmt and Stmt::Match: a block under with_branch_flags.
Branch ==
    /\ At(Branches)
    /\ OpenBlock(in_class, in_function, BranchFlags(pos))
    /\ UNCHANGED top_level_getattr

\* Stmt::While, Stmt::For and Stmt::Try: blocks that keep the context.
Plain ==
    /\ At({"loop", "loop_else", "try", "except", "try_else", "finally"})
    /\ OpenBlock(in_class, in_function, NoFlags)
    /\ UNCHANGED top_level_getattr

\* Stmt::Match up to its first case; it is also the end of one without cases.
Match ==
    /\ At({"match"})
    /\ LET cases == ClausesOf(pos, Cases)
       IN Write(<<Tag("match"), Expr(pos), Num(Cardinality(cases))>>
                    \o IF cases = {} THEN <<Loc(pos), End>> ELSE << >>)
    /\ pos' = pos + 1
    /\ UNCHANGED <<prog, phase, skip_function_bodies, stop, frames, context,
                   imports, skipped_lines, top_level_getattr>>

\* The statement whose block ends at pos goes on with another clause.
Continues == pos <= stop /\ Depth(pos) = Len(frames) - 1 /\ Kind(pos) \in Clauses

\* What the code does after the block: the saved context is put back.
\* A bug for the checks: in_function cleared instead.
RestoreMutant(frame) ==
    /\ in_class' = frame.in_class
    /\ in_function' = FALSE
    /\ current_unreachable' = frame.unreachable
    /\ current_mypy_only' = frame.mypy_only
Restore(frame) ==
    /\ in_class' = frame.in_class
    /\ in_function' = frame.in_function
    /\ current_unreachable' = frame.unreachable
    /\ current_mypy_only' = frame.mypy_only

\* The end of a block: the context is put back, and its statement ends unless
\* it has another clause.
EndBlock ==
    /\ phase = "serialize"
    /\ frames # << >>
    /\ pos <= stop => Depth(pos) < Len(frames)
    /\ LET frame == frames[Len(frames)]
       IN /\ Restore(frame)
          /\ Write(<<End>> \o HeadCount(frame.line)
                     \o IF Continues THEN << >>
                        ELSE StmtEnd(frame.line, frame.unreachable))
    /\ frames' = SubSeq(frames, 1, Len(frames) - 1)
    /\ UNCHANGED <<prog, phase, skip_function_bodies, stop, pos, imports,
                   skipped_lines, top_level_getattr>>

Finish ==
    /\ phase = "serialize"
    /\ pos > stop
    /\ frames = << >>
    /\ phase' = "done"
    /\ UNCHANGED <<prog, skip_function_bodies, stop, pos, frames, context,
                   imports, skipped_lines, top_level_getattr, bytes>>

Done == phase = "done" /\ UNCHANGED vars

Serialize == \/ SimpleStmt \/ ImportStmt \/ FunctionDef \/ FunctionOmitted
             \/ ClassDef \/ Branch \/ Plain \/ Match \/ EndBlock \/ Finish

Next == AddLine \/ StartModule \/ Serialize \/ Done
Spec == Init /\ [][Next]_vars
=============================================================================
