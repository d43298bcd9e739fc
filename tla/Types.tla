------------------------------- MODULE Types --------------------------------
(***************************************************************************)
(* How serialize_type and its helpers write an expression that stands for  *)
(* a type (src/src/serialize_ast.rs), and the parts of statements that     *)
(* hold types: annotations, type comments, type parameters.                *)
(*                                                                         *)
(* A string is a type of its own text: it is parsed (inner), and what it   *)
(* holds has no place in the file but that of the string.                  *)
(***************************************************************************)
EXTENDS Expressions

\* Steps on the fields: the type of a comment or string is not evaluated at run
\* time, which is undone after it by a local, was_evaluated.
Type(node, place)       == <<[do |-> "type", node |-> node, place |-> place]>>
TypeInList(node, place) == <<[do |-> "type in list", node |-> node, place |-> place]>>
Unevaluated(items)      == <<[do |-> "unevaluated", items |-> items]>>
WriteEvaluated          == <<[do |-> "evaluated"]>>

ChildType(n, at, i) == Type(n.args[i], In(at, i))
TypesFrom(n, at, from) ==
    LET k == Len(n.args) - from + 1
    IN ListOf(k) \o FlattenSeq([i \in 1..k |-> ChildType(n, at, from + i - 1)])
OptionalType(n, at, i) ==
    IF n.args[i] = Absent THEN Bool(FALSE) ELSE Bool(TRUE) \o ChildType(n, at, i)
-----------------------------------------------------------------------------
(* Types.  original is <<the text of the string>> the type was parsed from,  *)
(* or <<>>.                                                                  *)

Original(original) ==
    IF original = <<>> THEN LiteralNone \o LiteralNone
    ELSE Bytes(original[1]) \o Bytes("builtins.str")

\* serialize_invalid_type.  An invalid type from a string is that string.
Invalid(note, original) ==
    Tag("RAW_EXPRESSION_TYPE") \o
    IF original # <<>> THEN Bytes("builtins.str") \o Bytes(original[1])
    ELSE Bytes("typing.Any") \o LiteralNone
         \o (IF cache_version < CV_RAW_EXPRESSION_TYPE_NOTES THEN <<>>
             ELSE IF note = "" THEN LiteralNone ELSE Bytes(note))

\* get_qualified_type_name: the names joined by dots, <<>> if it is no such name.
QualifiedTypeName[e \in Nodes] ==
    CASE e.kind = "name" -> <<e.attr>>
      [] e.kind = "attribute" ->
           LET value == QualifiedTypeName[e.args[1]]
           IN IF value = <<>> THEN <<>> ELSE Append(value, e.attr)
      [] OTHER -> <<>>

\* extract_int_literal_value: <<the value>>, or <<>> if there is none in an i64.
IntLiteral[e \in Nodes] ==
    CASE e.kind = "int" -> <<e.value>>
      [] e.kind = "unary" /\ e.attr = "USub" ->
           LET v == IntLiteral[e.args[1]] IN IF v = <<>> THEN <<>> ELSE <<-v[1]>>
      [] OTHER -> <<>>

\* serialize_simple_unbound_type.
SimpleUnbound(name, original) ==
    Tag("UNBOUND_TYPE") \o Bytes(name) \o ListOf(0) \o Bool(FALSE) \o Original(original)

AttributeType(e, original) ==
    IF QualifiedTypeName[e] = <<>> THEN Invalid("", original)
    ELSE SimpleUnbound(QualifiedTypeName[e], original)

\* serialize_subscript_type, with the slice at a place of its own.
SubscriptType(e, sliceAt, original) ==
    LET name == QualifiedTypeName[e.args[1]]
        slice == e.args[2]
    IN IF name = <<>> THEN Invalid("", original)
       ELSE Tag("UNBOUND_TYPE") \o Bytes(name)
            \o (IF slice.kind = "tuple"
                THEN TypesFrom(slice, sliceAt, 1) \o Bool(slice.args = <<>>)
                ELSE ListOf(1) \o Type(slice, sliceAt) \o Bool(FALSE))
            \o Original(original)

\* serialize_union_type, which writes its own location.
UnionType(e, leftAt, rightAt, original) ==
    Tag("UNION_TYPE") \o ListOf(2) \o Type(e.args[1], leftAt) \o Type(e.args[2], rightAt)
    \o Bool(TRUE) \o Original(original) \o WriteEvaluated

IntType(value) ==
    IF value = <<>> THEN Invalid("", <<>>)
    ELSE Tag("RAW_EXPRESSION_TYPE") \o Bytes("builtins.int") \o TaggedInt(value[1])

\* serialize_string_type: the parts of the parsed expression that are written as
\* types of their own are relocated to the string.
StringType(s, at) ==
    LET text == ValueOf(s.args)
        e == s.inner[1]
        here == Relocated(at)
    IN IF s.inner = <<>> THEN Tag("RAW_EXPRESSION_TYPE") \o Bytes("builtins.str") \o Bytes(text)
       ELSE CASE e.kind \in {"name", "none"} -> SimpleUnbound(e.attr, <<text>>)
              [] e.kind = "attribute"        -> AttributeType(e, <<text>>)
              [] e.kind = "subscript"        -> SubscriptType(e, here, <<text>>)
              [] e.kind = "binop" /\ e.attr = "BitOr" -> UnionType(e, here, here, <<text>>)
              [] OTHER ->
                   Tag("RAW_EXPRESSION_TYPE") \o Bytes("builtins.str") \o Bytes(text)

IsStringOrNone(key) == key = Absent \/ key.kind = "str"
TypedDictType(d, at) ==
    LET Key(i) == LET key == d.args[i].args[1]
                  IN IF key = Absent THEN LiteralNone ELSE Bytes(ValueOf(key.args))
        Item(i) == ChildType(d.args[i], In(at, i), 2)
    IN IF d.args # <<>> /\ \A i \in DOMAIN d.args : IsStringOrNone(d.args[i].args[1])
       THEN Tag("TYPED_DICT_TYPE") \o ListOf(Len(d.args)) \o Each(d.args, Key)
            \o ListOf(Len(d.args)) \o Each(d.args, Item)
       ELSE Invalid("", <<>>)

\* A call is no type; the note depends on what is called.
CallNote(c) ==
    CASE QualifiedTypeName[c.args[1]] = <<>> -> ""
      [] \E i \in 2..Len(c.args) : c.args[i].kind = "keyword" -> "function call"
      [] OTHER -> "suggestion"

\* What serialize_type writes before the location and the end tag.
TypeBody(t, at) ==
    CASE t.kind \in {"name", "none"} -> SimpleUnbound(t.attr, <<>>)
      [] t.kind = "attribute" -> AttributeType(t, <<>>)
      [] t.kind = "subscript" -> SubscriptType(t, In(at, 2), <<>>)
      [] t.kind = "binop" /\ t.attr = "BitOr" -> UnionType(t, In(at, 1), In(at, 2), <<>>)
      [] t.kind = "bool" ->
           Tag("RAW_EXPRESSION_TYPE") \o Bytes("builtins.bool") \o Bool(t.attr = "True")
      [] t.kind = "int" -> IntType(IntLiteral[t])
      [] t.kind = "unary" /\ t.attr = "USub" -> IntType(IntLiteral[t])
      [] t.kind = "unary" /\ t.attr = "UAdd" -> IntType(IntLiteral[t.args[1]])
      [] t.kind = "list" ->
           Tag("LIST_TYPE") \o ListOf(Len(t.args))
           \o Each(t.args, LAMBDA i : TypeInList(t.args[i], In(at, i)))
      [] t.kind = "tuple" -> Tag("TUPLE_TYPE") \o TypesFrom(t, at, 1) \o Bool(TRUE)
      [] t.kind = "dict" -> TypedDictType(t, at)
      [] t.kind = "call" -> Invalid(CallNote(t), <<>>)
      [] t.kind = "ellipsis" -> Tag("ELLIPSIS_TYPE")
      [] t.kind = "starred" -> Tag("UNPACK_TYPE") \o ChildType(t, at, 1) \o Bool(TRUE)
      [] t.kind = "str" -> Unevaluated(StringType(t, at))
      [] t.kind = "bytes" ->
           Tag("RAW_EXPRESSION_TYPE") \o Bytes("builtins.bytes") \o Bytes(EscapedBytes(t.args))
      [] OTHER -> Invalid("", <<>>)

TypeLayout(t, at) == TypeBody(t, at) \o Location(at) \o End

\* serialize_type_in_list: calls are argument constructors.
TypeInListLayout(t, at) ==
    LET args == Tail(t.args)
        Argument(i) == ChildType(t, at, i + 1)
        Keyword(i)  == (IF args[i].attr = "" THEN LiteralNone ELSE Bytes(args[i].attr))
                       \o ChildType(args[i], In(at, i + 1), 1)
    IN IF t.kind # "call" THEN TypeLayout(t, at)
       ELSE Tag("CALL_TYPE") \o ChildType(t, at, 1)
            \o ListOf(Count(args, Positional)) \o EachThat(args, Positional, Argument)
            \o ListOf(Count(args, Named)) \o EachThat(args, Named, Keyword) \o Location(at) \o End
-----------------------------------------------------------------------------
(* Parts of statements that hold types, up to the location.                  *)
(* A parameter has annotation and default, a type parameter bound, default   *)
(* and as value its kind.  assign: value, targets.  annassign: target,       *)
(* annotation, value.  typealias: name, type parameters, value.              *)
(* inner is <<the type comment>>, of kind "invalid" if it does not parse.    *)

\* A bug for the checks: a type comment keeps the ranges of its own text.
CommentTypeMutant(n, at) == Bool(TRUE) \o Unevaluated(Type(n.inner[1], In(at, 0)))

\* A type comment is relocated to what it is about.
CommentType(n, at) == Bool(TRUE) \o Unevaluated(Type(n.inner[1], Relocated(at)))

TypedParameterLayout(p, at) ==
    LET annotated == p.args[1] # Absent  commented == p.inner # <<>> IN
       Bytes(p.attr) \o TaggedInt(ArgKind(p, p.args[2]))
    \o (IF annotated /\ commented THEN AddError(at) ELSE <<>>)
    \o (IF commented /\ ~annotated THEN CommentType(p, at) ELSE OptionalType(p, at, 1))
    \o Optional(p, at, 2) \o Bool(IsPosOnly(p)) \o Location(at)

AssignBody(a, at) ==
       Tag("ASSIGN") \o List(a, at, 2) \o Child(a, at, 1)
    \o (IF a.inner = <<>> THEN Bool(FALSE)
        ELSE IF a.inner[1].kind = "invalid"
             THEN AddError(at) \o Bool(TRUE) \o Invalid("", <<>>) \o Location(at) \o End
             ELSE CommentType(a, at))
    \o Bool(FALSE)

AnnAssignBody(a, at) ==
       Tag("ASSIGN") \o ListOf(1) \o Child(a, at, 1)
    \o (IF a.args[3] = Absent THEN Tag("TEMP_NODE") \o End ELSE Child(a, at, 3))
    \o Bool(TRUE) \o ChildType(a, at, 2) \o Bool(TRUE)

\* serialize_type_params: a TypeVar with a tuple of types has these as values.
TypeParamLayout(p, at) ==
    LET bound == p.args[1] IN
       TaggedInt(p.value) \o Bytes(p.attr)
    \o (IF bound.kind = "tuple" THEN Bool(FALSE) \o TypesFrom(bound, In(at, 1), 1)
        ELSE OptionalType(p, at, 1) \o ListOf(0))
    \o OptionalType(p, at, 2)

TypeParamsLayout(params, at) ==
    Each(params.args, LAMBDA i : TypeParamLayout(params.args[i], In(at, i)))

TypeAliasBody(ta, at) ==
       Tag("TYPE_ALIAS_STMT") \o Child(ta, at, 1) \o RawInt(Len(ta.args[2].args))
    \o TypeParamsLayout(ta.args[2], In(at, 2)) \o Child(ta, at, 3)

DeleteBody(d, at) ==
       Tag("DEL_STMT")
    \o (IF Len(d.args) = 1 THEN Child(d, at, 1)
        ELSE Tag("TUPLE_EXPR") \o List(d, at, 1) \o Location(at) \o End)
=============================================================================
