----------------------------- MODULE Statements -----------------------------
(***************************************************************************)
(* How Stmt::serialize writes a statement (src/src/serialize_ast.rs), and  *)
(* serialize_imports the list of the imports met on the way.  Conditions   *)
(* are of unknown truth value here and bodies are all written; what else   *)
(* there is to if and match, and what becomes of functions that have no    *)
(* effect, is in Serializer.                                               *)
(*                                                                         *)
(* A body is a node "block" of its statements; it is empty for an else or  *)
(* finally that is not there, and for any body a syntax error has left     *)
(* empty.  An alias of an import has <<the new name>> as its text; text of *)
(* an import is <<"lazy">> if it is, and value the level.                  *)
(***************************************************************************)
EXTENDS Types

CONSTANT PythonVersion      \* the minor version of Options.python_version

ASSUME PythonVersionAssumption == PythonVersion \in Nat

CV_HANDLER_LOCATIONS      == 1
CV_IMPORT_FLAGS           == 3
CV_FUNC_TYPE_COMMENT_FLAG == 6

InFunction(items)    == <<[do |-> "function", items |-> items]>>
ImportFlags(n)       == <<[do |-> "flags", lazy |-> n.text # <<>>]>>
TrackImport(n, entry) == <<[do |-> "import", entry |-> entry, lazy |-> n.text # <<>>]>>
-----------------------------------------------------------------------------
(* Blocks. *)

\* serialize_block with a place for what has no statement to have one from.
BlockLayout(block, at, place) ==
       Tag("BLOCK") \o ListOf(Len(block.args)) \o WriteUnreachable
    \o (IF block.args = <<>> THEN Location(place) ELSE <<>>) \o All(block, at) \o End

\* serialize_block without: the else of a loop.
ElseOfLoop(block, at) ==
    Tag("BLOCK") \o ListOf(Len(block.args)) \o WriteUnreachable \o All(block, at) \o End

Block(n, at, i, place) == BlockLayout(n.args[i], In(at, i), place)
OptionalBlock(n, at, i) ==
    IF n.args[i].args = <<>> THEN Bool(FALSE) ELSE Bool(TRUE) \o Block(n, at, i, at)
-----------------------------------------------------------------------------
(* Compound statements.  if: test, body, clauses of test (or none) and body. *)
(* match: subject, cases of pattern, guard, body.  try: body, handlers of    *)
(* type and body, else, finally.  with: body, items of expression, target.   *)

\* serialize_if_stmt, its conditions unknown.
IfLayout(s, at) ==
    LET clauses == SubSeq(s.args, 3, Len(s.args))
        IsElse(c) == c.args[1] = Absent
        Clause(i) == LET place == In(at, i + 2) IN
              (IF IsElse(clauses[i]) THEN Bool(TRUE) ELSE Child(clauses[i], place, 1))
           \o Block(clauses[i], place, 2, place)
        HasElse == clauses # <<>> /\ IsElse(Last(clauses))
    IN    Tag("IF") \o Child(s, at, 1) \o Block(s, at, 2, at)
       \o TaggedInt(Len(clauses) - IF HasElse THEN 1 ELSE 0) \o Each(clauses, Clause)
       \o (IF HasElse THEN <<>> ELSE Bool(FALSE))

MatchLayout(m, at) ==
    LET Case(i) == LET place == In(at, i + 1) IN
              Child(m.args[i + 1], place, 1) \o Optional(m.args[i + 1], place, 2)
           \o Block(m.args[i + 1], place, 3, place)
    IN    Tag("MATCH_STMT") \o Child(m, at, 1) \o TaggedInt(Len(m.args) - 1)
       \o Each(Tail(m.args), Case)

\* A tuple of exceptions without parentheses is new in 3.14.
TryLayout(t, at) ==
    LET handlers == t.args[2].args
        Place_(i) == In(In(at, 2), i)
        NeedsParentheses(h) ==
            h.args[1].kind = "tuple" /\ h.args[1].attr = "bare" /\ h.attr = "" /\ PythonVersion < 14
        Exception(i) ==
              Optional(handlers[i], Place_(i), 1)
           \o IF NeedsParentheses(handlers[i]) THEN AddError(In(Place_(i), 1)) ELSE <<>>
        Name(i) == IF handlers[i].attr = "" THEN Bool(FALSE)
                   ELSE Bool(TRUE) \o Bytes(handlers[i].attr)
                        \o IF cache_version >= CV_HANDLER_LOCATIONS
                           THEN Location(In(Place_(i), 3)) ELSE <<>>
        Body(i) == Block(handlers[i], Place_(i), 2, Place_(i))
    IN    Tag("TRY_STMT") \o Block(t, at, 1, at) \o TaggedInt(Len(handlers))
       \o Each(handlers, Exception) \o Each(handlers, Name) \o Each(handlers, Body)
       \o OptionalBlock(t, at, 3) \o OptionalBlock(t, at, 4) \o Bool(t.attr = "star")

WithLayout(w, at) ==
    LET Item(i) == Child(w.args[i + 1], In(at, i + 1), 1) \o Optional(w.args[i + 1], In(at, i + 1), 2)
    IN    Tag("WITH_STMT") \o TaggedInt(Len(w.args) - 1) \o Each(Tail(w.args), Item)
       \o Block(w, at, 1, at) \o Bool(w.attr = "async")

LoopLayout(l, at) ==
    IF l.kind = "while"
    THEN Tag("WHILE") \o Child(l, at, 1) \o Block(l, at, 2, at) \o ElseOfLoop(l.args[3], In(at, 3))
    ELSE    Tag("FOR_STMT") \o Child(l, at, 1) \o Child(l, at, 2) \o Block(l, at, 3, at)
         \o ElseOfLoop(l.args[4], In(at, 4)) \o Bool(l.attr = "async")
-----------------------------------------------------------------------------
(* Definitions.  def: parameters, body, type parameters, returned type; its  *)
(* inner is the type of its type comment.  decorated: def, decorators.       *)
(* classdef: body, bases, decorators, type parameters, keywords.             *)

OptionalTypeParams(n, at, i) ==
    IF n.args[i] = Absent THEN Bool(FALSE)
    ELSE Bool(TRUE) \o RawInt(Len(n.args[i].args)) \o TypeParamsLayout(n.args[i], In(at, i))

HasTypeComment(f) ==
    f.inner # <<>> \/ \E i \in DOMAIN f.args[1].args : f.args[1].args[i].inner # <<>>

FunctionLayout(f, at) ==
    LET params == f.args[1]
        annotated == f.args[4] # Absent
        commented == f.inner # <<>>
    IN    Tag("FUNC_DEF") \o Bytes(f.attr)
       \o ListOf(Len(params.args))
       \o Each(params.args, LAMBDA i : TypedParameterLayout(params.args[i], In(In(at, 1), i)))
       \o InFunction(Block(f, at, 2, at))
       \o Bool(f.text = <<"async">>) \o OptionalTypeParams(f, at, 3)
       \o (IF annotated /\ commented THEN AddError(at) ELSE <<>>)
       \o (IF commented /\ ~annotated THEN CommentType(f, at) ELSE OptionalType(f, at, 4))
       \o (IF cache_version >= CV_FUNC_TYPE_COMMENT_FLAG THEN Bool(HasTypeComment(f)) ELSE <<>>)

\* The line and column of the first decorator are two integers.
DecoratedLayout(d, at) ==
       Tag("DECORATOR") \o List(d, at, 2) \o Write(<<"int", "line">>) \o Write(<<"int", "column">>)
    \o Child(d, at, 1) \o End

\* Of the keywords those with a name are written, without the others.
ClassLayout(c, at) ==
    LET keywords == c.args[5].args
        IsNamed(k) == k.attr # ""
        Keyword(i) == Bytes(keywords[i].attr) \o Child(keywords[i], In(In(at, 5), i), 1)
    IN    Tag("CLASS_DEF") \o Bytes(c.attr) \o Block(c, at, 1, at)
       \o List(c.args[2], In(at, 2), 1) \o List(c.args[3], In(at, 3), 1)
       \o OptionalTypeParams(c, at, 4)
       \o Write(<<"dict", Count(keywords, IsNamed)>>) \o EachThat(keywords, IsNamed, Keyword)
-----------------------------------------------------------------------------
(* Imports. *)

Rename(alias) == <<alias.attr, alias.text>>
RenameLayout(rename) ==
    Bytes(rename[1])
    \o IF rename[2] = <<>> THEN Bool(FALSE) ELSE Bool(TRUE) \o Bytes(rename[2][1])

\* An entry of Serializer.imports for each name; the range is that of the alias.
ImportLayout(n, at) ==
    LET Alias(i) ==
              RenameLayout(Rename(n.args[i]))
           \o TrackImport(n, [tag |-> "IMPORT_METADATA", module |-> n.args[i].attr, relative |-> 0,
                              names |-> <<Rename(n.args[i])>>, place |-> In(at, i)])
    IN Tag("IMPORT") \o TaggedInt(Len(n.args)) \o Each(n.args, Alias)
       \o Location(at) \o ImportFlags(n)

IsImportAll(n) == Len(n.args) = 1 /\ n.args[1].attr = "*"
ImportFromLayout(n, at) ==
    LET names == [i \in DOMAIN n.args |-> Rename(n.args[i])]
        entry == [tag |-> "IMPORTFROM_METADATA", module |-> n.attr, relative |-> n.value,
                  names |-> names, place |-> at]
    IN IF IsImportAll(n)
       THEN    Tag("IMPORT_ALL") \o Bytes(n.attr) \o TaggedInt(n.value)
            \o Location(at) \o ImportFlags(n)
            \o TrackImport(n, [entry EXCEPT !.tag = "IMPORTALL_METADATA", !.names = <<>>])
       ELSE    Tag("IMPORT_FROM") \o TaggedInt(n.value) \o Bytes(n.attr) \o TaggedInt(Len(names))
            \o Each(names, LAMBDA i : RenameLayout(names[i]))
            \o TrackImport(n, entry) \o Location(at) \o ImportFlags(n)

\* serialize_imports: the tokens of a list of entries, each with its flags.
ImportStream(imports) ==
    LET Names(e) == CASE e.tag = "IMPORT_METADATA"     -> Tail(RenameLayout(e.names[1]))
                      [] e.tag = "IMPORTFROM_METADATA" ->
                           ListOf(Len(e.names)) \o Each(e.names, LAMBDA i : RenameLayout(e.names[i]))
                      [] OTHER                         -> <<>>
        Entry(i) == LET e == imports[i].entry IN
              Tag(e.tag) \o Bytes(e.module) \o TaggedInt(e.relative) \o Names(e)
           \o Write(<<"location", e.place.path>>) \o Write(<<"flags", imports[i].flags>>)
        items == ListOf(Len(imports)) \o Each(imports, Entry)
    IN [i \in DOMAIN items |-> items[i].token]
-----------------------------------------------------------------------------
(* Simple statements, and all of them.                                       *)

Optionals(n, at, from) ==
    FlattenSeq([k \in 1..(Len(n.args) - from + 1) |-> Optional(n, at, from + k - 1)])

Alone    == [pass |-> "PASS_STMT", break |-> "BREAK_STMT", continue |-> "CONTINUE_STMT"]
NameList == [global |-> "GLOBAL_DECL", nonlocal |-> "NONLOCAL_DECL"]
Loops    == {"while", "for"}

\* What is written before the location.
StatementBody(n, at) ==
    CASE n.kind \in DOMAIN Alone    -> Tag(Alone[n.kind])
      [] n.kind \in DOMAIN NameList ->
           Tag(NameList[n.kind]) \o TaggedInt(Len(n.text)) \o Each(n.text, LAMBDA i : Bytes(n.text[i]))
      [] n.kind = "augassign"   -> Tag("OPERATOR_ASSIGNMENT_STMT") \o Bytes(n.attr) \o All(n, at)
      [] n.kind = "return"      -> Tag("RETURN") \o Optionals(n, at, 1)
      [] n.kind = "raise"       -> Tag("RAISE_STMT") \o Optionals(n, at, 1)
      [] n.kind = "assert"      -> Tag("ASSERT_STMT") \o Child(n, at, 1) \o Optionals(n, at, 2)
      [] n.kind = "if_stmt"     -> IfLayout(n, at)
      [] n.kind = "match"       -> MatchLayout(n, at)
      [] n.kind = "try"         -> TryLayout(n, at)
      [] n.kind = "with"        -> WithLayout(n, at)
      [] n.kind \in Loops       -> LoopLayout(n, at)
      [] n.kind = "def"         -> FunctionLayout(n, at)
      [] n.kind = "classdef"    -> ClassLayout(n, at)
      [] n.kind = "assign"      -> AssignBody(n, at)
      [] n.kind = "annassign"   -> AnnAssignBody(n, at)
      [] n.kind = "typealias"   -> TypeAliasBody(n, at)
      [] n.kind = "delete"      -> DeleteBody(n, at)

Statements ==
    DOMAIN Alone \cup DOMAIN NameList \cup Loops
    \cup {"augassign", "return", "raise", "assert", "if_stmt", "match", "try", "with", "def",
          "classdef", "assign", "annassign", "typealias", "delete"}

\* An expression has the location of its own as a statement, a decorated def has
\* that of the def, and the flags of an import come after its location.
NodeLayout(n, at) ==
    CASE n.kind \in Patterns     -> PatternLayout(n, at)
      [] n.kind \in Statements   -> StatementBody(n, at) \o Location(at) \o End
      [] n.kind = "expr_stmt"    -> Tag("EXPR_STMT") \o Child(n, at, 1) \o End
      [] n.kind = "decorated"    -> DecoratedLayout(n, at)
      [] n.kind = "import"       -> ImportLayout(n, at) \o End
      [] n.kind = "importfrom"   -> ImportFromLayout(n, at) \o End
      [] OTHER                   -> ExprLayout(n, at)
=============================================================================
