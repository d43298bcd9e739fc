---------------------------- MODULE Expressions -----------------------------
(***************************************************************************)
(* How Expr::serialize, Pattern::serialize and their helpers write an      *)
(* expression (src/src/serialize_ast.rs): what is written, in which order, *)
(* and when the fields of the serializer are set, read and reset on the    *)
(* way.  The layout of a node is a sequence of items, done one after the   *)
(* other; an item that is a node stands for its own layout.                *)
(* A location is the path to the node whose range it is.                   *)
(***************************************************************************)
EXTENDS SyntaxTree, SequencesExt

VARIABLE cache_version      \* Options.cache_version

CV_RAW_EXPRESSION_TYPE_NOTES == 2
CV_DICT_KEY_OPT              == 4
CV_UNICODE_SURROGATE         == 5

\* A place is the path of a node, or the fixed place it was relocated to
\* (ast::relocate::relocate_expr).
Place(path)      == [path |-> path, fixed |-> FALSE]
Relocated(place) == [place EXCEPT !.fixed = TRUE]
In(place, i)     == IF place.fixed THEN place ELSE Place(Append(place.path, i))
-----------------------------------------------------------------------------
(* Parts of strings.  The text of a part is made of "\", of "uD", "uF" and   *)
(* "uA" (a u and the digits of a surrogate, of U+FFFD, of another            *)
(* character), of "ux" (a u before no such digits), of "R" (U+FFFD itself)   *)
(* and of "c".  A part is raw or not by its attr.                            *)

Escaped(symbol) ==
    CASE symbol \in {"uD", "uF"} -> "R" [] symbol = "uA" -> "c" [] OTHER -> symbol

\* The value the parser gives a part: StringParser::parse_escaped_char.
Value(part) ==
    LET Read(r, symbol) ==
            IF r.escape THEN [escape |-> FALSE, value |-> Append(r.value, Escaped(symbol))]
            ELSE IF symbol = "\\" THEN [r EXCEPT !.escape = TRUE]
            ELSE [r EXCEPT !.value = Append(@, symbol)]
    IN IF part.attr = "raw" THEN part.text
       ELSE FoldLeft(Read, [escape |-> FALSE, value |-> <<>>], part.text).value

ValueOf(parts) == FlattenSeq([i \in DOMAIN parts |-> Value(parts[i])])

\* A bug for the checks: a backslash after a backslash starts an escape.
ScanMutant(part) ==
    LET Next(r, symbol) ==
            CASE r \in {"found", "panicked"}      -> r
              [] r = "escape" /\ symbol = "uD"    -> "found"
              [] r = "escape" /\ symbol = "ux"    -> "panicked"
              [] symbol = "\\"                    -> "escape"
              [] OTHER                            -> "text"
    IN FoldLeft(Next, "text", part.text)

\* The loop of check_surrogate_codepoint over the source of a part: "found",
\* "panicked" in parse_int, or the end of the text.  The symbol after a "\" is
\* consumed with it.
Scan(part) ==
    LET Next(r, symbol) ==
            CASE r \in {"found", "panicked"}      -> r
              [] r = "escape" /\ symbol = "uD"    -> "found"
              [] r = "escape" /\ symbol = "ux"    -> "panicked"
              [] r # "escape" /\ symbol = "\\"    -> "escape"
              [] OTHER                            -> "text"
    IN FoldLeft(Next, "text", part.text)

\* serialize_bytes_to_escaped_string.  The text of a part of a bytes literal is
\* its value: quotes, "\", control characters such as "\n", bytes "x80", and "c".
EscapeOf == [c \in {"\r", "\n", "\t", "\\"} |->
            CASE c = "\r" -> "r" [] c = "\n" -> "n" [] c = "\t" -> "t" [] OTHER -> "\\"]
EscapedBytes(parts) ==
    LET value == FlattenSeq([i \in DOMAIN parts |-> parts[i].text])
        escape_quote == {"'", "\""} \subseteq ToSet(value)
        Byte(c) == CASE c \in DOMAIN EscapeOf        -> <<"\\", EscapeOf[c]>>
                     [] c = "'" /\ escape_quote    -> <<"\\", c>>
                     [] c = "x80"                  -> <<"\\", "x", "80">>
                     [] OTHER                      -> <<c>>
    IN FlattenSeq([i \in DOMAIN value |-> Byte(value[i])])
-----------------------------------------------------------------------------
(* Items: tokens to write, nodes to serialize, and steps on the fields. *)

Write(token) == <<[do |-> "write", token |-> token]>>
Tag(tag)     == Write(<<"tag", tag>>)
TaggedInt(i)       == Write(<<"int", i>>)
RawInt(i)    == Write(<<"raw", i>>)
Bool(b)      == Write(<<"bool", b>>)
Bytes(s)     == Write(<<"bytes", s>>)
ListOf(n)    == Write(<<"list", n>>)
Ints(s)      == Write(<<"ints", Len(s)>>) \o FlattenSeq([i \in DOMAIN s |-> RawInt(s[i])])
LiteralNone  == Write(<<"none">>)
End          == Write(<<"end">>)

Location(place) == <<[do |-> "location", place |-> place]>>
Serialize(node, place) == <<[do |-> "node", node |-> node, place |-> place]>>
SerializeElements(spec, place) == <<[do |-> "elements", node |-> spec, place |-> place]>>

ResetSurrogates == <<[do |-> "reset"]>>
Check(part)     == <<[do |-> "check", part |-> part]>>
WriteSurrogates == <<[do |-> "flag"]>>
MarkTemplate    == <<[do |-> "template"]>>
WriteUnreachable == <<[do |-> "unreachable"]>>
AddError(place) == <<[do |-> "error", place |-> place]>>

\* The i-th child; all children from one to another, and as a list.
Child(n, at, i) == Serialize(n.args[i], In(at, i))
Children(n, at, from, to) ==
    FlattenSeq([k \in 1..(to - from + 1) |-> Child(n, at, from + k - 1)])
List(n, at, from) == ListOf(Len(n.args) - from + 1) \o Children(n, at, from, Len(n.args))
All(n, at) == Children(n, at, 1, Len(n.args))

\* Option<Box<Expr>>::serialize.
Optional(n, at, i) ==
    IF n.args[i] = Absent THEN Bool(FALSE) ELSE Bool(TRUE) \o Child(n, at, i)

\* An optional name with its location.
OptionalName(n, at) ==
    IF n.attr = "" THEN Bool(FALSE)
    ELSE Bool(TRUE) \o Bytes(n.attr) \o Location(In(at, Len(n.args) + 1))

\* What each element of a sequence is written as, one after another; the same of
\* some, and how many these are.
Each(s, Items(_)) == FlattenSeq([i \in DOMAIN s |-> Items(i)])
EachThat(s, Is(_), Items(_)) == Each(s, LAMBDA i : IF Is(s[i]) THEN Items(i) ELSE <<>>)
Count(s, Is(_)) == Cardinality({i \in DOMAIN s : Is(s[i])})
-----------------------------------------------------------------------------
(* Calls, lambdas, dictionaries, comprehensions.                             *)
(* call: func, then arguments, of which the kinds "starred" and "keyword"    *)
(* have the value as their child.  item: key, value.  comprehension: target, *)
(* iter, conditions.  param: the default, "__args" is one of args whose name   *)
(* argument_elide_name makes positional-only.                                *)

CallLayout(c, at) ==
    LET args == Tail(c.args)
        Argument(i) == IF args[i].kind \in {"starred", "keyword"}
                       THEN Child(args[i], In(at, i + 1), 1) ELSE Child(c, at, i + 1)
        ArgKind(i) == CASE args[i].kind = "starred" -> 2      \* ARG_STAR
                        [] args[i].kind # "keyword" -> 0      \* ARG_POS
                        [] args[i].attr = ""        -> 4      \* ARG_STAR2
                        [] OTHER                    -> 3      \* ARG_NAMED
        Name(i) == IF args[i].kind = "keyword" /\ args[i].attr # ""
                   THEN Bytes(args[i].attr) ELSE LiteralNone
    IN    Child(c, at, 1)
       \o ListOf(Len(args)) \o Each(args, Argument)
       \o Ints([i \in DOMAIN args |-> ArgKind(i)])
       \o ListOf(Len(args)) \o Each(args, Name)

\* serialize_argument: the kind of a parameter depends on its default.
ArgKind(p, default) ==
    LET Default(with, without) == IF default = Absent THEN without ELSE with
    IN CASE p.attr = "vararg"     -> 2                 \* ARG_STAR
         [] p.attr = "kwarg"      -> 4                 \* ARG_STAR2
         [] p.attr = "kwonlyargs" -> Default(5, 3)     \* ARG_NAMED_OPT, ARG_NAMED
         [] OTHER                 -> Default(1, 0)     \* ARG_OPT, ARG_POS
IsPosOnly(p) == p.attr \in {"posonlyargs", "__args"}

\* serialize_parameters of a lambda, whose parameters have no types.
ParametersLayout(params, at) ==
    LET Param(i) == LET p == params.args[i] IN
               Bytes(p.attr) \o TaggedInt(ArgKind(p, p.args[1])) \o Bool(FALSE)
            \o Optional(p, In(at, i), 1) \o Bool(IsPosOnly(p)) \o Location(In(at, i))
    IN ListOf(Len(params.args)) \o Each(params.args, Param)

\* The body of a lambda is written as a block with a return statement.
LambdaLayout(l, at) ==
       ParametersLayout(l.args[1], In(at, 1))
    \o Tag("BLOCK") \o ListOf(1) \o WriteUnreachable
    \o Tag("RETURN") \o Bool(TRUE) \o Child(l, at, 2) \o Location(In(at, 2)) \o End
    \o End

DictLayout(d, at) ==
    LET Key(i)  == Optional(d.args[i], In(at, i), 1)
        Item(i) == Child(d.args[i], In(at, i), 2)
    IN ListOf(Len(d.args)) \o Each(d.args, Key) \o ListOf(Len(d.args)) \o Each(d.args, Item)

\* serialize_comprehension, from the number of generators on; these are the
\* children of n after the first `before'.
GeneratorsLayout(n, at, before) ==
    LET gens == SubSeq(n.args, before + 1, Len(n.args))
        Target(i) == Child(gens[i], In(at, before + i), 1)
        Iter(i)   == Child(gens[i], In(at, before + i), 2)
        Conds(i)  == List(gens[i], In(at, before + i), 3)
        Async(i)  == Bool(gens[i].attr = "async")
    IN TaggedInt(Len(gens)) \o Each(gens, Target) \o Each(gens, Iter)
       \o Each(gens, Conds) \o Each(gens, Async)

\* Older readers expect a key: PEP 798 is an error and the key is None.
DictCompKey(dc, at) ==
    IF cache_version >= CV_DICT_KEY_OPT THEN Optional(dc, at, 1)
    ELSE IF dc.args[1] # Absent THEN Child(dc, at, 1)
    ELSE AddError(at) \o Tag("NAME_EXPR") \o Bytes("None") \o Location(at)
-----------------------------------------------------------------------------
(* Strings.  str: its parts.  fstring: its parts, of which the kind          *)
(* "elements" is an f-string and the kind "part" a plain string.  tstring:   *)
(* its elements.  interpolation: the expression and the format spec; attr is *)
(* the conversion, text is <<"=">> if it has debug text.                     *)

StringLayout(s) ==
    Bytes(ValueOf(s.args)) \o ResetSurrogates \o Each(s.args, LAMBDA i : Check(s.args[i]))

LiteralLayout(part, at) == Bytes(Value(part)) \o Check(part) \o Location(at)

Conversion(e, mark) == IF e.attr = "" THEN Bool(FALSE) ELSE Bool(TRUE) \o Bytes(mark)

HasDebugText(e) == e.kind = "interpolation" /\ e.text # <<>>
DebugText(e, at) ==
    IF HasDebugText(e) THEN Bytes(e.text) \o Location(In(at, 1)) ELSE <<>>

\* A debug item without conversion and format spec is converted by repr.
UseR(e) ==
    IF HasDebugText(e) /\ e.attr = "" /\ e.args[2] = Absent THEN [e EXCEPT !.attr = "r"] ELSE e

SpecLayout(e, at) ==
    IF e.args[2] = Absent THEN Bool(FALSE)
    ELSE Bool(TRUE) \o SerializeElements(e.args[2], In(at, 2)) \o Location(In(at, 2))

\* A bug for the checks: the text of a debug item is not counted.
ElementCountMutant(elements) == Len(elements)

\* A debug item is two elements: its text and the interpolation.
ElementCount(elements) == Len(elements) + Len(SelectSeq(elements, HasDebugText))

\* serialize_fstring_elements.
ElementsLayout(elements, at) ==
    LET Element(i) ==
            LET e == elements[i]  place == In(at, i) IN
            IF e.kind = "part" THEN LiteralLayout(e, place)
            ELSE   DebugText(e, place)
                \o Tag("FSTRING_INTERPOLATION") \o Child(e, place, 1)
                \o Conversion(UseR(e), <<"!", UseR(e).attr>>) \o SpecLayout(e, place) \o End
    IN TaggedInt(ElementCount(elements)) \o Each(elements, Element)

FStringLayout(fs, at) ==
    LET Part(i) == LET part == fs.args[i] IN
            IF part.kind = "elements" THEN Bool(TRUE) \o ElementsLayout(part.args, In(at, i))
            ELSE Bool(FALSE) \o LiteralLayout(part, In(at, i))
    IN TaggedInt(Len(fs.args)) \o ResetSurrogates \o Each(fs.args, Part) \o WriteSurrogates

\* A t-string has the source text of each expression.
TStringLayout(ts, at) ==
    LET Element(i) == LET e == ts.args[i]  place == In(at, i) IN
            IF e.kind = "part" THEN Bool(FALSE) \o LiteralLayout(e, place)
            ELSE   Bool(TRUE) \o Child(e, place, 1) \o Bytes(e.args[1].kind)
                \o Conversion(e, <<e.attr>>) \o SpecLayout(e, place)
    IN TaggedInt(Len(ts.args)) \o ResetSurrogates \o Each(ts.args, Element) \o WriteSurrogates
-----------------------------------------------------------------------------
(* Expressions.  Children are in the order of the fields of the AST.         *)

\* The tags of the kinds whose children follow the tag in order.
InOrder ==
    [subscript |-> "INDEX", yield_from |-> "YIELD_FROM_EXPR", await |-> "AWAIT_EXPR",
     named |-> "ASSIGNMENT_EXPR", starred |-> "STAR_EXPR", ellipsis |-> "ELLIPSIS_EXPR"]
ListTag(n) ==
    CASE n.kind = "list" /\ n.attr # "Store" -> "LIST_EXPR"
      [] n.kind = "set"                      -> "SET_EXPR"
      [] OTHER                               -> "TUPLE_EXPR"
ComprehensionTag ==
    [generator |-> "GENERATOR_EXPR", listcomp |-> "LIST_COMPREHENSION",
     setcomp |-> "SET_COMPREHENSION"]

\* What Expr::serialize writes before the end tag and, but for a binop, before
\* the location.
ExprBody(n, at) ==
    CASE n.kind \in {"name", "bool", "none"} -> Tag("NAME_EXPR") \o Bytes(n.attr)
      [] n.kind \in DOMAIN InOrder -> Tag(InOrder[n.kind]) \o All(n, at)
      [] n.kind = "attribute" -> Tag("MEMBER_EXPR") \o Child(n, at, 1) \o Bytes(n.attr)
      [] n.kind = "str"     -> Tag("STR_EXPR") \o StringLayout(n) \o WriteSurrogates
      [] n.kind = "call"    -> Tag("CALL_EXPR") \o CallLayout(n, at)
      [] n.kind = "binop"   -> Tag("OP_EXPR") \o Bytes(n.attr) \o All(n, at)
      [] n.kind = "int"     -> Tag("INT_EXPR") \o TaggedInt(n.value)
      [] n.kind = "bigint"  -> Tag("BIG_INT_EXPR") \o Bytes(n.attr)
      [] n.kind = "float"   -> Tag("FLOAT_EXPR") \o Bytes(n.attr)
      [] n.kind = "complex" -> Tag("COMPLEX_EXPR") \o Bytes(n.attr) \o Bytes(n.attr)
      [] n.kind \in {"list", "tuple", "set"} -> Tag(ListTag(n)) \o List(n, at, 1)
      [] n.kind \in DOMAIN ComprehensionTag ->
           Tag(ComprehensionTag[n.kind]) \o Child(n, at, 1) \o GeneratorsLayout(n, at, 1)
      [] n.kind = "dictcomp" ->
           Tag("DICT_COMPREHENSION") \o DictCompKey(n, at) \o Child(n, at, 2)
           \o GeneratorsLayout(n, at, 2)
      [] n.kind = "yield"   -> Tag("YIELD_EXPR") \o Optional(n, at, 1)
      [] n.kind = "boolop"  -> Tag("BOOL_OP_EXPR") \o Bytes(n.attr) \o List(n, at, 1)
      [] n.kind = "compare" ->
           Tag("COMPARISON_EXPR") \o Child(n, at, 1)
           \o Ints([i \in 1..(Len(n.args) - 1) |-> n.value]) \o List(n, at, 2)
      [] n.kind = "if"      ->
           Tag("CONDITIONAL_EXPR") \o Child(n, at, 2) \o Child(n, at, 1) \o Child(n, at, 3)
      [] n.kind = "unary"   -> Tag("UNARY_EXPR") \o Bytes(n.attr) \o All(n, at)
      [] n.kind = "dict"    -> Tag("DICT_EXPR") \o DictLayout(n, at)
      [] n.kind = "slice"   ->
           Tag("SLICE_EXPR") \o Optional(n, at, 1) \o Optional(n, at, 2) \o Optional(n, at, 3)
      [] n.kind = "fstring" -> Tag("FSTRING_EXPR") \o FStringLayout(n, at)
      [] n.kind = "lambda"  -> Tag("LAMBDA_EXPR") \o LambdaLayout(n, at)
      [] n.kind = "bytes"   -> Tag("BYTES_EXPR") \o Bytes(EscapedBytes(n.args))
      [] n.kind = "tstring" -> MarkTemplate \o Tag("TSTRING_EXPR") \o TStringLayout(n, at)

\* A binary operation has no location: it is that of its operands.
ExprLayout(n, at) ==
    ExprBody(n, at) \o (IF n.kind = "binop" THEN <<>> ELSE Location(at)) \o End
-----------------------------------------------------------------------------
(* Patterns.  attr is the name of "as", the rest of a mapping.  A class      *)
(* pattern has the class and its arguments, kind "keyword" if named.         *)

Named(p) == p.kind = "keyword"
Positional(p) == p.kind # "keyword"

ClassPatternLayout(p, at) ==
    LET args == Tail(p.args)
        Argument(i) == Child(p, at, i + 1)
        Keyword(i)  == Bytes(args[i].attr) \o Child(args[i], In(at, i + 1), 1)
    IN Child(p, at, 1) \o TaggedInt(Count(args, Positional)) \o EachThat(args, Positional, Argument)
       \o TaggedInt(Count(args, Named)) \o EachThat(args, Named, Keyword)

PatternBody(p, at) ==
    CASE p.kind = "as"        -> Tag("AS_PATTERN") \o Optional(p, at, 1) \o OptionalName(p, at)
      [] p.kind = "or"        -> Tag("OR_PATTERN") \o TaggedInt(Len(p.args)) \o All(p, at)
      [] p.kind = "value"     -> Tag("VALUE_PATTERN") \o Child(p, at, 1)
      [] p.kind = "singleton" ->
           Tag("SINGLETON_PATTERN")
           \o (IF p.attr = "None" THEN LiteralNone ELSE Bool(p.attr = "True"))
      [] p.kind = "sequence"  -> Tag("SEQUENCE_PATTERN") \o TaggedInt(Len(p.args)) \o All(p, at)
      [] p.kind = "star"      -> Tag("STARRED_PATTERN") \o OptionalName(p, at)
      [] p.kind = "mapping"   ->
           Tag("MAPPING_PATTERN") \o TaggedInt(Len(p.args) \div 2) \o All(p, at) \o OptionalName(p, at)
      [] p.kind = "class"     -> Tag("CLASS_PATTERN") \o ClassPatternLayout(p, at)

PatternLayout(p, at) == PatternBody(p, at) \o Location(at) \o End
=============================================================================
