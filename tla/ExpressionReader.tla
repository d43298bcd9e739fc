-------------------------- MODULE ExpressionReader --------------------------
(***************************************************************************)
(* A reader of the tokens of an expression or type, which the serializer   *)
(* never sees: mypy's deserializer, modelled from what Expr::serialize,    *)
(* Pattern::serialize and serialize_type write.  It knows the tags and     *)
(* what follows each, up to the end tag; and the properties of the walk.   *)
(*                                                                         *)
(* A reading is [at, tops, pairs]: the position after it, the locations of *)
(* the outermost nodes read, and <<child, parent>> for all nodes in them.  *)
(***************************************************************************)
EXTENDS ExpressionWalk

(* What follows a tag: a sequence of slots.                                  *)

B == <<"bytes">>   I == <<"int">>   R == <<"raw">>   F == <<"bool">>   L == <<"location">>
E == <<"node">>    Elements == <<"elements">>    Flag == <<"surrogates">>
MaybeBytes == <<"bytes or none">>   Evaluated == <<"evaluated">>   RawValue == <<"raw value">>
Either(yes, no)  == <<"either", yes, no>>       \* a boolean tells which follows
Opt(slots)       == Either(slots, <<>>)
ListSlot(slots)  == <<"list", <<slots>>>>       \* a length, then each element
Counted(columns) == <<"int", columns>>          \* a number, then each column of elements
Operators        == <<"ints", <<<<R>>>>>>

Generators == Counted(<<<<E>>, <<E>>, <<ListSlot(<<E>>)>>, <<F>>>>)
Comprehension == <<E, Generators, L>>
Originals == <<MaybeBytes, MaybeBytes>>
Typed == Opt(<<E>>)
Conversions == Opt(<<B>>)
FormatSpec == Opt(<<Elements, L>>)

Is(token)        == <<"is", token>>             \* this token
Body(statements) == <<Is(<<"tag", "BLOCK">>), statements, Is(<<"end">>)>>
Block_           == Body(<<"statements", TRUE>>)    \* with a location if empty
ElseBlock        == Body(<<"statements", FALSE>>)
Parameters       == ListSlot(<<B, I, Typed, Opt(<<E>>), F, L>>)
TypeParams       == <<"raw", <<<<I, B, Typed, ListSlot(<<E>>), Typed>>>>>>
MaybeTypeParams  == Opt(<<TypeParams>>)
Renames          == Counted(<<<<B, Opt(<<B>>)>>>>)
Since(version, slots) == IF cache_version >= version THEN slots ELSE <<>>
NameLocation     == Since(CV_HANDLER_LOCATIONS, <<L>>)
CommentFlag      == Since(CV_FUNC_TYPE_COMMENT_FLAG, <<F>>)
ImportFlagsSlot  == Since(CV_IMPORT_FLAGS, <<<<"flags">>>>)

Grammar(tag) ==
    CASE tag = "NAME_EXPR"        -> <<B, L>>
      [] tag = "MEMBER_EXPR"      -> <<E, B, L>>
      [] tag = "INDEX"            -> <<E, E, L>>
      [] tag = "YIELD_FROM_EXPR"  -> <<E, L>>
      [] tag = "AWAIT_EXPR"       -> <<E, L>>
      [] tag = "ASSIGNMENT_EXPR"  -> <<E, E, L>>
      [] tag = "STAR_EXPR"        -> <<E, L>>
      [] tag = "ELLIPSIS_EXPR"    -> <<L>>
      [] tag = "STR_EXPR"         -> <<B, Flag, L>>
      [] tag = "CALL_EXPR"        -> <<E, ListSlot(<<E>>), Operators, ListSlot(<<MaybeBytes>>), L>>
      [] tag = "OP_EXPR"          -> <<B, E, E>>
      [] tag = "INT_EXPR"         -> <<I, L>>
      [] tag \in {"BIG_INT_EXPR", "FLOAT_EXPR", "BYTES_EXPR"} -> <<B, L>>
      [] tag = "COMPLEX_EXPR"     -> <<B, B, L>>
      [] tag \in {"LIST_EXPR", "SET_EXPR", "TUPLE_EXPR"} -> <<ListSlot(<<E>>), L>>
      [] tag \in {"GENERATOR_EXPR", "LIST_COMPREHENSION", "SET_COMPREHENSION"} -> Comprehension
      [] tag = "DICT_COMPREHENSION" ->
           IF cache_version >= CV_DICT_KEY_OPT THEN <<Opt(<<E>>), E, Generators, L>>
           ELSE <<E, E, Generators, L>>
      [] tag = "YIELD_EXPR"       -> <<Opt(<<E>>), L>>
      [] tag = "BOOL_OP_EXPR"     -> <<B, ListSlot(<<E>>), L>>
      [] tag = "COMPARISON_EXPR"  -> <<E, Operators, ListSlot(<<E>>), L>>
      [] tag = "CONDITIONAL_EXPR" -> <<E, E, E, L>>
      [] tag = "UNARY_EXPR"       -> <<B, E, L>>
      [] tag = "DICT_EXPR"        -> <<ListSlot(<<Opt(<<E>>)>>), ListSlot(<<E>>), L>>
      [] tag = "SLICE_EXPR"       -> <<Opt(<<E>>), Opt(<<E>>), Opt(<<E>>), L>>
      [] tag = "FSTRING_EXPR"     ->
           <<Counted(<<<<Either(<<Elements>>, <<B, L>>)>>>>), Flag, L>>
      [] tag = "FSTRING_INTERPOLATION" -> <<E, Conversions, FormatSpec>>
      [] tag = "TSTRING_EXPR"     ->
           <<Counted(<<<<Either(<<E, B, Conversions, FormatSpec>>, <<B, L>>)>>>>), Flag, L>>
      [] tag = "LAMBDA_EXPR"      -> <<Parameters>> \o Body(<<"return">>) \o <<L>>
      [] tag = "RETURN"           -> <<Opt(<<E>>), L>>
      [] tag = "AS_PATTERN"       -> <<Opt(<<E>>), Opt(<<B, L>>), L>>
      [] tag \in {"OR_PATTERN", "SEQUENCE_PATTERN"} -> <<Counted(<<<<E>>>>), L>>
      [] tag = "VALUE_PATTERN"    -> <<E, L>>
      [] tag = "SINGLETON_PATTERN" -> <<<<"bool or none">>, L>>
      [] tag = "STARRED_PATTERN"  -> <<Opt(<<B, L>>), L>>
      [] tag = "MAPPING_PATTERN"  -> <<Counted(<<<<E, E>>>>), Opt(<<B, L>>), L>>
      [] tag = "CLASS_PATTERN"    -> <<E, Counted(<<<<E>>>>), Counted(<<<<B, E>>>>), L>>
      [] tag = "UNBOUND_TYPE"     -> <<B, ListSlot(<<E>>), F>> \o Originals \o <<L>>
      [] tag = "UNION_TYPE"       -> <<ListSlot(<<E>>), F>> \o Originals \o <<Evaluated, L>>
      [] tag = "RAW_EXPRESSION_TYPE" -> <<RawValue, L>>
      [] tag = "LIST_TYPE"        -> <<ListSlot(<<E>>), L>>
      [] tag = "TUPLE_TYPE"       -> <<ListSlot(<<E>>), F, L>>
      [] tag = "TYPED_DICT_TYPE"  -> <<ListSlot(<<MaybeBytes>>), ListSlot(<<E>>), L>>
      [] tag = "ELLIPSIS_TYPE"    -> <<L>>
      [] tag = "UNPACK_TYPE"      -> <<E, F, L>>
      [] tag = "CALL_TYPE"        -> <<E, ListSlot(<<E>>), ListSlot(<<MaybeBytes, E>>), L>>
      [] tag = "ASSIGN"           -> <<ListSlot(<<E>>), E, Typed, F, L>>
      [] tag = "TEMP_NODE"        -> <<>>
      [] tag = "TYPE_ALIAS_STMT"  -> <<E, TypeParams, E, L>>
      [] tag = "DEL_STMT"         -> <<E, L>>
      [] tag = "EXPR_STMT"        -> <<E>>
      [] tag \in {"PASS_STMT", "BREAK_STMT", "CONTINUE_STMT"} -> <<L>>
      [] tag \in {"GLOBAL_DECL", "NONLOCAL_DECL"} -> <<Counted(<<<<B>>>>), L>>
      [] tag = "OPERATOR_ASSIGNMENT_STMT" -> <<B, E, E, L>>
      [] tag = "RAISE_STMT"       -> <<Opt(<<E>>), Opt(<<E>>), L>>
      [] tag = "ASSERT_STMT"      -> <<E, Opt(<<E>>), L>>
      [] tag = "WHILE"            -> <<E>> \o Block_ \o ElseBlock \o <<L>>
      [] tag = "FOR_STMT"         -> <<E, E>> \o Block_ \o ElseBlock \o <<F, L>>
      [] tag = "WITH_STMT"        -> <<Counted(<<<<E, Opt(<<E>>)>>>>)>> \o Block_ \o <<F, L>>
      [] tag = "IF"               ->
           <<E>> \o Block_ \o <<Counted(<<<<E>> \o Block_>>), Opt(Block_), L>>
      [] tag = "MATCH_STMT"       -> <<E, Counted(<<<<E, Opt(<<E>>)>> \o Block_>>), L>>
      [] tag = "TRY_STMT"         ->
           Block_ \o <<Counted(<<<<Opt(<<E>>)>>, <<Opt(<<B>> \o NameLocation)>>, Block_>>),
                       Opt(Block_), Opt(Block_), F, L>>
      [] tag = "DECORATOR"        -> <<ListSlot(<<E>>), I, I, E>>
      [] tag = "FUNC_DEF"         ->
           <<B, Parameters>> \o Block_ \o <<F, MaybeTypeParams, Typed>> \o CommentFlag \o <<L>>
      [] tag = "CLASS_DEF"        ->
           <<B>> \o Block_ \o <<ListSlot(<<E>>), ListSlot(<<E>>), MaybeTypeParams,
                                <<"dict", <<<<B, E>>>>>>, L>>
      [] tag = "IMPORT"           -> <<Renames, L>> \o ImportFlagsSlot
      [] tag = "IMPORT_FROM"      -> <<I, B, Renames, L>> \o ImportFlagsSlot
      [] tag = "IMPORT_ALL"       -> <<B, I, L>> \o ImportFlagsSlot
      [] OTHER                    -> <<<<"no such tag">>>>

\* Nodes that are no expression, statement, pattern or type of the file, or have no location.
Wrappers == {"OP_EXPR", "FSTRING_INTERPOLATION", "TEMP_NODE", "EXPR_STMT", "DECORATOR"}
-----------------------------------------------------------------------------
Token(i) == IF i \in DOMAIN bytes THEN bytes[i] ELSE <<"eof">>
Has(i, type) == Token(i)[1] = type

Stuck == [at |-> 0, tops |-> {}, pairs |-> {}]
Skip(i) == [at |-> i, tops |-> {}, pairs |-> {}]
And(r, s) == IF s.at = 0 THEN Stuck
             ELSE [at |-> s.at, tops |-> r.tops \cup s.tops, pairs |-> r.pairs \cup s.pairs]

\* An import has its flags between its location and its end.
LocationBefore(i) == IF Has(i - 1, "flags") THEN i - 2 ELSE i - 1

RECURSIVE ReadNode(_), ReadSlots(_, _), ReadSlot(_, _), ReadTimes(_, _, _), ReadColumns(_, _, _)

ReadNode(i) ==
    LET tag  == Token(i)[2]
        body == ReadSlots(i + 1, Grammar(tag))
        here == IF tag \in Wrappers THEN body.tops
                ELSE {IF location_override THEN <<>> ELSE Token(LocationBefore(body.at))[2]}
    IN CASE ~Has(i, "tag") \/ body.at = 0 \/ ~Has(body.at, "end") -> Stuck
         [] tag \in Wrappers -> [body EXCEPT !.at = @ + 1]
         [] OTHER -> [at |-> body.at + 1, tops |-> here,
                      pairs |-> body.pairs \cup {<<child, p>> : child \in body.tops, p \in here}]

ReadSlots(i, slots) ==
    IF slots = <<>> THEN Skip(i)
    ELSE LET first == ReadSlot(i, Head(slots))
         IN IF first.at = 0 THEN Stuck ELSE And(first, ReadSlots(first.at, Tail(slots)))

\* n elements of these slots; n elements of each column.
ReadTimes(i, n, slots) ==
    IF n = 0 THEN Skip(i)
    ELSE LET first == ReadSlots(i, slots)
         IN IF first.at = 0 THEN Stuck ELSE And(first, ReadTimes(first.at, n - 1, slots))
ReadColumns(i, n, columns) ==
    IF columns = <<>> THEN Skip(i)
    ELSE LET first == ReadTimes(i, n, Head(columns))
         IN IF first.at = 0 THEN Stuck ELSE And(first, ReadColumns(first.at, n, Tail(columns)))

\* One token of these types.
One(i, types) == IF Token(i)[1] \in types THEN Skip(i + 1) ELSE Stuck

\* The value of a raw type depends on its type; "typing.Any" has a note.
ReadRawValue(i) ==
    CASE Token(i) = <<"bytes", "builtins.int">>  -> One(i + 1, {"int"})
      [] Token(i) = <<"bytes", "builtins.bool">> -> One(i + 1, {"bool"})
      [] Token(i) = <<"bytes", "typing.Any">>    ->
           IF ~Has(i + 1, "none") THEN Stuck
           ELSE IF cache_version < CV_RAW_EXPRESSION_TYPE_NOTES THEN Skip(i + 2)
           ELSE One(i + 2, {"bytes", "none"})
      [] OTHER -> IF Has(i, "bytes") THEN One(i + 1, {"bytes"}) ELSE Stuck

\* The elements of an f-string: literals with a location, and interpolations.
RECURSIVE ReadElements(_, _)
ReadElements(i, n) ==
    IF n = 0 THEN Skip(i)
    ELSE LET first == IF Has(i, "bytes") THEN One(i + 1, {"location"}) ELSE ReadNode(i)
         IN IF first.at = 0 THEN Stuck ELSE And(first, ReadElements(first.at, n - 1))

ReadSlot(i, slot) ==
    LET type == slot[1] IN
    CASE type = "node"          -> ReadNode(i)
      [] type = "bytes or none" -> One(i, {"bytes", "none"})
      [] type = "bool or none"  -> One(i, {"bool", "none"})
      [] type = "location"      -> One(i, {"location", "given"})
      [] type = "surrogates"    ->
           IF cache_version >= CV_UNICODE_SURROGATE THEN One(i, {"surrogates"}) ELSE Skip(i)
      [] type = "raw value"     -> ReadRawValue(i)
      [] type = "elements"      -> IF Has(i, "int") THEN ReadElements(i + 1, Token(i)[2]) ELSE Stuck
      [] type = "statements"    ->
           IF ~(Has(i, "list") /\ Has(i + 1, "bool")) THEN Stuck
           ELSE IF Token(i)[2] = 0 /\ slot[2] THEN One(i + 2, {"location"})
           ELSE ReadTimes(i + 2, Token(i)[2], <<E>>)
      [] type = "is"            -> IF Token(i) = slot[2] THEN Skip(i + 1) ELSE Stuck
      [] type = "return"        ->      \* the one statement of a lambda
           ReadSlots(i, <<Is(<<"list", 1>>), F, Is(<<"tag", "RETURN">>), Opt(<<E>>), L, Is(<<"end">>)>>)
      [] type = "either"        ->
           IF ~Has(i, "bool") THEN Stuck ELSE ReadSlots(i + 1, slot[IF Token(i)[2] THEN 2 ELSE 3])
      [] Len(slot) = 2          ->      \* a number, then so many elements
           IF ~Has(i, type) THEN Stuck ELSE ReadColumns(i + 1, Token(i)[2], slot[2])
      [] OTHER                  -> One(i, {type})
-----------------------------------------------------------------------------
(* What there is to read.  A kid of a node is [node, place, as]: a node that *)
(* is written as a part of it, as an expression ("node") or as a type.       *)

Kid(node, place, as) == [node |-> node, place |-> place, as |-> as]
Args(n, at, from, to, as) == {Kid(n.args[i], In(at, i), as) : i \in from..to}

\* Not written as a node of its own: it is read as the children it has.
Unlocated == {"keyword", "item", "comprehension", "param", "params", "typeparams",
              "elements", "interpolation", "spec", "part", "binop",
              "block", "clause", "case", "handlers", "handler", "withitem",
              "expr_stmt", "decorated", "expressions", "keywords"}

\* The arguments of a call, whose stars and keywords are not nodes.
Arguments(c, at, unwrapped, as) ==
    UNION {IF c.args[i].kind \in unwrapped THEN Args(c.args[i], In(at, i), 1, 1, as)
           ELSE Args(c, at, i, i, as) : i \in 2..Len(c.args)}

\* The type of a comment is where it is relocated to.
CommentKid(n, at) ==
    {Kid(n.inner[1], Relocated(at), "type") : i \in {i \in DOMAIN n.inner : TRUE}}

TypeParamKids(p, at) ==
    (IF p.args[1].kind = "tuple"
     THEN Args(p.args[1], In(at, 1), 1, Len(p.args[1].args), "type")
     ELSE Args(p, at, 1, 1, "type"))
    \cup Args(p, at, 2, 2, "type")

\* For readers without optional keys, the None in place of a key.
MissingKey(n, at) ==
    IF n.kind = "dictcomp" /\ n.args[1] = Absent /\ cache_version < CV_DICT_KEY_OPT
    THEN {Kid(Node("none", "None", <<>>), Relocated(at), "node")} ELSE {}

NodeKids(n, at) ==
    CASE n.kind = "call"      -> Args(n, at, 1, 1, "node") \cup Arguments(n, at, {"starred", "keyword"}, "node")
      [] n.kind = "assign"    -> Args(n, at, 1, Len(n.args), "node") \cup CommentKid(n, at)
      [] n.kind = "annassign" -> Args(n, at, 1, 1, "node") \cup Args(n, at, 2, 2, "type")
                                 \cup Args(n, at, 3, 3, "node")
      [] n.kind = "param" /\ Len(n.args) = 2 ->
           Args(n, at, 2, 2, "node")
           \cup IF n.args[1] # Absent THEN Args(n, at, 1, 1, "type") ELSE CommentKid(n, at)
      [] n.kind = "typeparams" -> UNION {TypeParamKids(n.args[i], In(at, i)) : i \in DOMAIN n.args}
      [] n.kind = "def" ->
           Args(n, at, 1, 3, "node")
           \cup IF n.args[4] # Absent THEN Args(n, at, 4, 4, "type") ELSE CommentKid(n, at)
      [] n.kind = "keywords" ->
           UNION {Args(n, at, i, i, "node") : i \in {i \in DOMAIN n.args : n.args[i].attr # ""}}
      [] n.kind \in {"import", "importfrom"} -> {}
      [] n.kind = "delete" /\ Len(n.args) > 1 ->
           {Kid(Node("tuple", "", n.args), at, "node")}
      [] OTHER -> Args(n, at, 1, Len(n.args), "node") \cup MissingKey(n, at)

TypeKids(t, at) ==
    CASE t.kind = "subscript" /\ QualifiedTypeName[t.args[1]] # <<>> ->
           IF t.args[2].kind = "tuple"
           THEN Args(t.args[2], In(at, 2), 1, Len(t.args[2].args), "type")
           ELSE Args(t, at, 2, 2, "type")
      [] t.kind = "binop" /\ t.attr = "BitOr" -> Args(t, at, 1, 2, "type")
      [] t.kind = "list" -> Args(t, at, 1, Len(t.args), "argument")
      [] t.kind \in {"tuple", "starred"} -> Args(t, at, 1, Len(t.args), "type")
      [] t.kind = "dict" /\ \A i \in DOMAIN t.args : t.args[i].args[1].kind \in {"str", "absent"} ->
           UNION {Args(t.args[i], In(at, i), 2, 2, "type") : i \in DOMAIN t.args}
      [] OTHER -> {}

Kids(k) ==
    CASE k.node = Absent \/ k.node.kind = "part" -> {}
      [] k.as = "node" -> NodeKids(k.node, k.place)
      [] k.as = "argument" /\ k.node.kind = "call" ->
           Args(k.node, k.place, 1, 1, "type") \cup Arguments(k.node, k.place, {"keyword"}, "type")
      [] k.node.kind = "str" /\ k.node.inner # <<>> ->
           IF k.node.inner[1].kind \in {"subscript", "binop"}
           THEN TypeKids(k.node.inner[1], Relocated(k.place)) ELSE {}
      [] OTHER -> TypeKids(k.node, k.place)

RECURSIVE KidsBelow(_), LocationsOf(_)
KidsBelow(k) == {k} \cup UNION {KidsBelow(kid) : kid \in Kids(k)}

\* The locations of the outermost located nodes of k.
LocationsOf(k) ==
    CASE k.node = Absent -> {}
      [] k.as = "node" /\ k.node.kind \in Unlocated -> UNION {LocationsOf(kid) : kid \in Kids(k)}
      [] OTHER -> {k.place.path}

PairsOf(k) ==
    IF k.node = Absent \/ (k.as = "node" /\ k.node.kind \in Unlocated) THEN {}
    ELSE {<<child, k.place.path>> : child \in UNION {LocationsOf(kid) : kid \in Kids(k)}}

TreeOf == Kid(tree, IF location_override THEN Relocated(Root) ELSE Root,
              IF location_override THEN "type" ELSE "node")
-----------------------------------------------------------------------------
(* Properties. *)

Done == todo = <<>> /\ ~panicked

ReadsBack ==
    LET reading == ReadNode(1) IN
    /\ reading.at = Len(bytes) + 1
    /\ reading.tops = LocationsOf(TreeOf)
    /\ reading.pairs = UNION {PairsOf(k) : k \in KidsBelow(TreeOf)}

KeyIsMissing == \E k \in KidsBelow(TreeOf) : k.as = "node" /\ MissingKey(k.node, k.place) # {}

\* A reader that knows what follows each tag finds its way through the tokens of
\* every statement, expression, pattern and type to the last one, for every
\* cache version, and the nodes it finds are those of the tree, each below the
\* node it is a part of.  Nothing is between the parts of a node that the reader
\* could find its way back by: one length, optional part or version that the two
\* sides understand differently shifts all that follows.  The case in which the
\* code writes a None in place of a missing key is left out, see NoneForKey.
TreeReadsBack == Done /\ ~KeyIsMissing => ReadsBack

\* For readers before CV_DICT_KEY_OPT a dict comprehension without key is an
\* error, and the code's comment says: "Recover by serializing key as None."  The
\* reader finds a key that is None, and all that follows.
NoneForKey == Done /\ KeyIsMissing => ReadsBack

\* The literal parts of a string, the format specs of its interpolations included.
RECURSIVE OwnParts(_)
OwnParts(n) ==
    CASE n.kind = "part" -> {n}
      [] n.kind = "interpolation" -> OwnParts(n.args[2])
      [] OTHER -> UNION {OwnParts(n.args[i]) : i \in DOMAIN n.args}

Strings == {"str", "fstring", "tstring"}
RECURSIVE HasString(_)
HasString(n) == n.kind \in Strings \/ \E i \in DOMAIN n.args : HasString(n.args[i])
RECURSIVE HoldsString(_)    \* in one of its interpolations
HoldsString(n) ==
    \/ n.kind = "interpolation" /\ HasString(n.args[1])
    \/ \E i \in DOMAIN n.args : HoldsString(n.args[i])

\* An escape is a backslash that is not itself escaped.
EscapesSurrogate(part) ==
    \E i \in 1..Len(part.text), k \in 1..Len(part.text) :
        /\ part.attr # "raw" /\ part.text[i] = "uD" /\ k % 2 = 1 /\ k < i
        /\ \A j \in (i - k)..(i - 1) : part.text[j] = "\\"
        /\ i - k > 1 => part.text[i - k - 1] # "\\"

\* The flag of a string tells whether one of its own parts has an escaped
\* surrogate, whatever the strings around and before it are: it is not left over
\* from the string before, an escaped backslash before a u is no escape, and the
\* characters U+FFFD that are there for other reasons do not count.  Two cases
\* are left out, in which the code goes by what it should not: a raw part with
\* U+FFFD in it, and a string with another string in an interpolation.
SurrogatesExact ==
    \A i \in DOMAIN bytes : bytes[i][1] = "surrogates" /\ i < Len(bytes) =>
        \A n \in NodesAt(tree, bytes[i + 1][2]) :
            ~HoldsString(n) /\ (\A p \in OwnParts(n) : p.attr = "raw" => "R" \notin ToSet(p.text))
              => (bytes[i][2] <=> \E p \in OwnParts(n) : EscapesSurrogate(p))

\* parse_int goes by "We know that there are no invalid escapes, since the
\* string parsed successfully".
NoInvalidEscapes == ~panicked
-----------------------------------------------------------------------------
(* The list of imports.                                                      *)

\* An import as its reader has it.
Import(tag, module, relative, names, path, flags) ==
    [tag |-> tag, module |-> module, relative |-> relative, names |-> names,
     path |-> path, flags |-> flags]

\* What is read from s[i] on, and the position after it: the new name, if there
\* is one; a name and its new name; n of them.
ReadNewName(s, i) == IF s[i][2] THEN <<<<s[i + 1][2]>>, i + 2>> ELSE <<<<>>, i + 1>>
ReadRename(s, i) ==
    LET new == ReadNewName(s, i + 1) IN <<<<s[i][2], new[1]>>, new[2]>>
RECURSIVE ReadRenames(_, _, _), ReadImports(_, _, _)
ReadRenames(s, i, n) ==
    IF n = 0 THEN <<<<>>, i>>
    ELSE LET first == ReadRename(s, i)
             rest  == ReadRenames(s, first[2], n - 1)
         IN <<<<first[1]>> \o rest[1], rest[2]>>

\* n entries from s[i] on, which end the stream.
ReadImports(s, i, n) ==
    IF n = 0 THEN IF i = Len(s) + 1 THEN <<>> ELSE <<"more">>
    ELSE LET tag == s[i][2]
             module == s[i + 1][2]
             new == ReadNewName(s, i + 3)
             names == CASE tag = "IMPORT_METADATA"     -> <<<<<<module, new[1]>>>>, new[2]>>
                        [] tag = "IMPORTFROM_METADATA" -> ReadRenames(s, i + 4, s[i + 3][2])
                        [] OTHER                       -> <<<<>>, i + 3>>
             at == names[2]
         IN <<Import(tag, module, s[i + 2][2], names[1], s[at][2], s[at + 1][2])>>
            \o ReadImports(s, at + 2, n - 1)

\* The imports of a tree in the order of the text; in_def is whether a def is around.
RECURSIVE ImportsOf(_, _, _)
ImportsOf(n, at, in_def) ==
    LET flags == (IF in_def THEN {} ELSE {"TOP_LEVEL"})
                 \cup (IF current_unreachable THEN {"UNREACHABLE"} ELSE {})
                 \cup (IF n.text = <<"lazy">> THEN {"LAZY"} ELSE {})
        Renamed(i) == <<n.args[i].attr, n.args[i].text>>
    IN CASE n.kind = "import" ->
              [i \in DOMAIN n.args |->
                  Import("IMPORT_METADATA", n.args[i].attr, 0, <<Renamed(i)>>, In(at, i).path, flags)]
         [] n.kind = "importfrom" ->
              <<IF n.args[1].attr = "*" /\ Len(n.args) = 1
                THEN Import("IMPORTALL_METADATA", n.attr, n.value, <<>>, at.path, flags)
                ELSE Import("IMPORTFROM_METADATA", n.attr, n.value,
                            [i \in DOMAIN n.args |-> Renamed(i)], at.path, flags)>>
         [] OTHER -> FlattenSeq([i \in DOMAIN n.args |->
                        ImportsOf(n.args[i], In(at, i), in_def \/ n.kind = "def")])

\* The flags of the imports in the tree, one for each statement, of which the last
\* name stands for all.
FlagsWritten ==
    LET IsFlags(token) == token[1] = "flags"
        flags == SelectSeq(bytes, IsFlags)
    IN [i \in DOMAIN flags |-> flags[i][2]]
FlagsOfStatements(wanted) ==
    LET EndsStatement(i) ==
            \/ wanted[i].tag # "IMPORT_METADATA" \/ i = Len(wanted)
            \/ Front(wanted[i].path) # Front(wanted[i + 1].path)
        last == SetToSortSeq({i \in DOMAIN wanted : EndsStatement(i)}, <)
    IN [i \in DOMAIN last |-> wanted[last[i]].flags]

\* The list of imports, which has no end tags, reads back to the imports of the
\* tree in the order of the text, wherever in it they stand: each name of an
\* import with its new name and place, the dots of a relative one, a star as one,
\* and top level exactly if no def is around it, also behind a def in a def.  The
\* import flags in the tree, for the versions that have them, are the same.
ImportsReadBack ==
    import_bytes # <<>> =>
        LET wanted == ImportsOf(tree, Root, FALSE)
        IN /\ ReadImports(import_bytes, 2, import_bytes[1][2]) = wanted
           /\ cache_version >= CV_IMPORT_FLAGS => FlagsWritten = FlagsOfStatements(wanted)
=============================================================================
