---------------------------- MODULE MCExpressions ----------------------------
(***************************************************************************)
(* The trees the walk is checked on: every kind of node over small         *)
(* children, all short texts of strings, strings in strings, types in all  *)
(* the places a type can stand, and statements within statements.          *)
(***************************************************************************)
EXTENDS ExpressionReader

Name(id) == Node("name", id, <<>>)
X == Name("x")
Num(v) == [Node("int", "", <<>>) EXCEPT !.value = v]
Attr(e) == Node("attribute", "a", <<e>>)
Binop(op, l, r) == Node("binop", op, <<l, r>>)
Part(raw, text) == [Node("part", raw, <<>>) EXCEPT !.text = text]
Str(parts, inner) == [Node("str", "", parts) EXCEPT !.inner = inner]
Word == Part("", <<"c">>)
Plain == Str(<<Word>>, <<>>)
Bytes_(text) == Node("bytes", "", <<Part("", text)>>)

\* Sources of parts: what is not raw has no invalid escape, and none ends in one.
Valid(raw, text) ==
    LET Ends(r, s) == CASE r = "bad"                 -> "bad"
                        [] r = "escape" /\ s = "ux"  -> IF raw = "raw" THEN "text" ELSE "bad"
                        [] r # "escape" /\ s = "\\"  -> "escape"
                        [] OTHER                     -> "text"
    IN FoldLeft(Ends, "text", text) = "text"
Texts(n, symbols) == UNION {[1..k -> symbols] : k \in 0..n}
Parts(n, symbols) ==
    {Part(r[1], r[2]) : r \in {r \in {"", "raw"} \X Texts(n, symbols) : Valid(r[1], r[2])}}

Pieces == {Word, Part("", <<"\\", "uD">>), Part("", <<"\\", "\\", "uD", "R">>),
           Part("raw", <<"\\", "uD">>)}
StringTrees ==
    {Str(<<p>>, <<>>) : p \in Parts(4, {"\\", "uD", "uF", "ux", "R"})}
    \cup {Str(<<p, q>>, <<>>) : p \in Pieces, q \in Pieces}
    \* a string after another
    \cup {Binop("Add", Str(<<p>>, <<>>), Str(<<q>>, <<>>)) : p \in Pieces, q \in Pieces}

\* Interpolations, of an expression or a string.
Interp(e, mark, debug, spec) ==
    [Node("interpolation", mark, <<e, spec>>) EXCEPT !.text = IF debug THEN <<"=">> ELSE <<>>]
SpecOf(elements) == Node("spec", "", elements)
Specs == {Absent, SpecOf(<<>>), SpecOf(<<Part("", <<"\\", "uD">>)>>),
          SpecOf(<<Interp(X, "", TRUE, Absent), Word>>)}
Interps == {Interp(e, mark, debug, spec) :
              e \in {X, Plain}, mark \in {"", "r"}, debug \in BOOLEAN, spec \in Specs}
FString(elements) == Node("fstring", "", <<Node("elements", "", elements)>>)
Elements_ == Pieces \cup Interps
Followers == Pieces \cup {Interp(e, "", TRUE, spec) : e \in {X, Plain}, spec \in Specs}
ElementLists == {<<>>} \cup {<<e>> : e \in Elements_} \cup {<<e, f>> : e \in Elements_, f \in Followers}
InterpolatedTrees ==
    {FString(es) : es \in ElementLists}
    \cup {Node("tstring", "", es) : es \in {<<e>> : e \in Elements_}
                                     \cup {<<e, p>> : e \in Interps, p \in Pieces}}
    \cup {Node("fstring", "", <<p, Node("elements", "", <<e>>), q>>) :
            p \in Pieces, e \in Elements_, q \in Pieces}
    \cup {FString(<<Interp(s, "", TRUE, Absent), Part("", <<"\\", "uD">>)>>) :
            s \in {FString(<<Part("", <<"\\", "uD">>)>>), Node("await", "", <<Plain>>)}}

\* Every kind of expression over these.
Small == {X, Num(1), Plain, Node("ellipsis", "", <<>>), Attr(X), Binop("Add", X, Num(1))}
Lists == {<<>>} \cup {<<a>> : a \in Small} \cup {<<a, b>> : a \in Small, b \in {X, Plain}}
Options == {Absent, X, Binop("Add", X, X)}
Comp(async, conds) == Node("comprehension", async, <<X, Plain>> \o conds)
Comps == {<<Comp("", <<>>)>>, <<Comp("async", <<X, X>>), Comp("", <<Plain>>)>>}
Keyword(name, e) == Node("keyword", name, <<e>>)
Starred(e) == Node("starred", "", <<e>>)
ArgumentLists ==
    {<<>>} \cup {<<a>> : a \in Small \cup {Starred(X), Keyword("k", X), Keyword("", Plain)}}
    \cup {<<a, b>> : a \in {X, Starred(Plain)}, b \in {Starred(X), Keyword("k", X), Keyword("", Attr(X))}}
Param(attr, default) == Node("param", attr, <<default>>)
ParamLists ==
    {<<>>, <<Param("vararg", Absent), Param("kwonlyargs", X), Param("kwarg", Absent)>>}
    \cup {<<Param(k, d), Param("kwonlyargs", Absent)>> :
            k \in {"posonlyargs", "args", "__args"}, d \in Options}
Items == {Node("item", "", <<k, v>>) : k \in Options, v \in {X, Plain}}
ExpressionTrees ==
    {Node(k, "", <<a>>) : k \in {"yield_from", "await", "starred", "unary", "attribute"}, a \in Small}
    \cup {Node(k, "", <<a, b>>) : k \in {"subscript", "named", "binop"}, a \in Small, b \in Small}
    \cup {Node(k, c, as) : k \in {"list", "tuple", "set"}, c \in {"Store", "Load"}, as \in Lists}
    \cup {Node(k, "", <<a>> \o g) : k \in {"generator", "listcomp", "setcomp"}, a \in Small, g \in Comps}
    \cup {Node("dictcomp", "", <<k, v>> \o g) : k \in Options, v \in Small, g \in Comps}
    \cup {Node("yield", "", <<o>>) : o \in Options}
    \cup {Node("boolop", "And", <<a, b>>) : a \in Small, b \in Small}
    \cup {Node("compare", "", <<a, b, X>>) : a \in Small, b \in Small}
    \cup {Node("if", "", <<a, b, X>>) : a \in Small, b \in Small}
    \cup {Node("slice", "", <<a, b, c>>) : a \in Options, b \in Options, c \in Options}
    \cup {Node("call", "", <<f>> \o as) : f \in {X, Attr(X)}, as \in ArgumentLists}
    \cup {Node("dict", "", is) : is \in {<<>>} \cup {<<a, b>> : a \in Items, b \in Items}}
    \cup {Node("lambda", "", <<Node("params", "", ps), b>>) : ps \in ParamLists, b \in {X, Plain}}
    \cup {Node(k, "", <<>>) : k \in {"bool", "none", "bigint", "float", "complex"}}
    \cup {Bytes_(t) : t \in Texts(2, {"c", "'", "\"", "\\", "\n", "x80"})}
    \cup {Node("delete", "", as) : as \in Lists \ {<<>>}}

Capture == Node("as", "n", <<Absent>>)
Wildcard == Node("as", "", <<Absent>>)
ValueOfX == Node("value", "", <<Attr(X)>>)
SmallPatterns == {Capture, Wildcard, ValueOfX, Node("singleton", "None", <<>>), Node("singleton", "True", <<>>)}
PatternLists == {<<>>} \cup {<<a>> : a \in SmallPatterns} \cup {<<a, b>> : a \in SmallPatterns, b \in SmallPatterns}
PatternTrees ==
    SmallPatterns
    \cup {Node("as", n, <<p>>) : n \in {"", "n"}, p \in SmallPatterns}
    \cup {Node(k, "", ps) : k \in {"or", "sequence"}, ps \in PatternLists}
    \cup {Node("sequence", "", <<Node("star", n, <<>>), p>>) : n \in {"", "n"}, p \in SmallPatterns}
    \cup {Node("mapping", n, ps) : n \in {"", "n"}, ps \in {<<>>} \cup {<<Num(1), p>> : p \in SmallPatterns}}
    \cup {Node("class", "", <<Attr(X)>> \o ps \o qs) : ps \in PatternLists,
            qs \in {<<>>, <<Keyword("k", Capture)>>, <<Keyword("k", Wildcard), Keyword("l", ValueOfX)>>}}

\* Types, one within another, and in strings; S is what can be in them.
Union(a, b) == Binop("BitOr", a, b)
Index(v, i) == Node("subscript", "", <<v, i>>)
Tuple(as) == Node("tuple", "", as)
TypesOver(S) ==
    {Union(a, b) : a \in S, b \in S}
    \cup {Index(v, a) : v \in {X, Attr(X), Num(1)}, a \in S \cup {Tuple(<<>>)} \cup {Tuple(<<a, b>>) : a \in S, b \in S}}
    \cup {Node(k, "", <<a>>) : k \in {"list", "tuple", "starred"}, a \in S}
    \cup {Node("list", "", <<Node("call", "", <<X, a, Keyword("k", a), Keyword("", b)>>)>>) : a \in S, b \in S}
    \cup {Node("dict", "", <<Node("item", "", <<k, a>>), Node("item", "", <<Absent, b>>)>>) :
            k \in {Plain, Absent, X}, a \in S, b \in S}
InString(S) == {Str(<<Word>>, <<e>>) : e \in S}
Literals == {X, Attr(X), Attr(Num(1)), Num(1), Node("none", "None", <<>>), Node("bool", "True", <<>>),
             Node("bigint", "", <<>>), Node("float", "", <<>>), Plain, Bytes_(<<"c">>),
             Node("unary", "USub", <<Num(1)>>), Node("unary", "USub", <<Node("unary", "USub", <<Num(1)>>)>>),
             Node("unary", "UAdd", <<Node("bigint", "", <<>>)>>), Node("unary", "Not", <<X>>),
             Node("call", "", <<X, X>>), Node("call", "", <<X, Keyword("k", X)>>),
             Node("call", "", <<Num(1)>>), Binop("Add", X, X), Node("dict", "", <<>>)}
Base2 == <<Union(X, X), Str(<<Word>>, <<Union(X, X)>>), Union(X, Num(1))>>
Base == {X, Union(X, Num(1)), Str(<<Word>>, <<Union(X, X)>>)}
Nested == TypesOver(Base)
AllTypes == Literals \cup Nested \cup InString(Literals) \cup InString(Nested)
\* A string within a string within a type, and types after it.
DeepTypes == {Union(Index(X, s), Union(X, X)) : s \in InString({Union(X, Str(<<Word>>, <<Index(X, Union(X, a))>>)) : a \in Base})}
FewTypes == DeepTypes \cup {X, Union(X, X), Plain} \cup InString({X, Union(X, X)})

Commented(n, comments) == {[n EXCEPT !.inner = c] : c \in {<<>>} \cup {<<t>> : t \in comments}}
TypeParam(kind, bound, default) == [Node("param", "T", <<bound, default>>) EXCEPT !.value = kind]
Pass == Node("pass", "", <<>>)
Body_(stmts) == Node("block", "", stmts)
Def(name, params, stmts, typeparams, returns, comment) ==
    [Node("def", name, <<Node("params", "", params), Body_(stmts),
                         IF typeparams = <<>> THEN Absent ELSE Node("typeparams", "", typeparams), returns>>)
     EXCEPT !.inner = comment]
Parameters_ == UNION {Commented(Node("param", "args", <<a, d>>), FewTypes) : a \in {Absent} \cup Base, d \in {Absent, Plain}}
TypeTrees ==
    {Node("annassign", "", <<X, t, v>>) : t \in AllTypes \cup DeepTypes, v \in {Absent, X}}
    \cup Commented(Node("assign", "", <<X, X>>), AllTypes \cup DeepTypes \cup {Node("invalid", "", <<>>)})
    \cup {Node("assign", "", <<Plain, X, Node("list", "Store", <<X>>)>>)}
    \cup {Def("f", <<p, Node("param", "kwonlyargs", <<Union(X, X), Absent>>)>>, <<Pass>>, <<>>, Absent, <<>>) :
             p \in Parameters_}
    \cup {Def("f", <<p>>, <<Pass>>, ps, returns, comment) :
             p \in {Node("param", k, <<X, d>>) : k \in {"posonlyargs", "__args", "kwonlyargs"}, d \in {Absent, Plain}},
             ps \in {<<>>, <<TypeParam(1, Absent, Union(X, X))>>}, returns \in {Absent} \cup Base,
             comment \in {<<>>} \cup {<<t>> : t \in Base}}
    \cup {Node("typealias", "", <<X, Node("typeparams", "", ps), v>>) : v \in {X, Union(X, Plain)},
            ps \in {<<>>} \cup {<<TypeParam(0, b, d), TypeParam(2, Absent, X)>> :
                      b \in {Absent, Tuple(<<>>), Tuple(<<X, Union(X, X)>>)} \cup FewTypes, d \in {Absent, X}}}

\* Statements, one within another, and imports in all the places.
Text(n, t) == [n EXCEPT !.text = t]
Alias(name, new) == Text(Node("alias", name, <<>>), new)
Aliases == {<<Alias("a", <<>>)>>, <<Alias("a", <<"b">>)>>, <<Alias("a", <<"b">>), Alias("c.d", <<>>)>>}
Stars == {<<Alias("*", <<>>)>>, <<Alias("*", <<>>), Alias("a", <<>>)>>}
ImportStatements ==
    {Text(Node("import", "", as), lazy) : as \in Aliases, lazy \in {<<>>, <<"lazy">>}}
    \cup {[Text(Node("importfrom", m, as), lazy) EXCEPT !.value = level] :
             m \in {"", "m"}, as \in Aliases \cup Stars, lazy \in {<<>>, <<"lazy">>}, level \in {0, 2}}
ImportA == Node("import", "", <<Alias("a", <<>>)>>)
Star == Node("importfrom", "m", <<Alias("*", <<>>)>>)
Stmt == Node("expr_stmt", "", <<X>>)
Return_(e) == Node("return", "", <<e>>)
SimpleStatements ==
    {Node(k, "", <<>>) : k \in {"pass", "break", "continue"}}
    \cup {Text(Node(k, "", <<>>), ns) : k \in {"global", "nonlocal"}, ns \in {<<"a">>, <<"a", "b">>}}
    \cup {Node("expr_stmt", "", <<e>>) : e \in Small}
    \cup {Node("augassign", "Add", <<X, e>>) : e \in Small}
    \cup {Return_(e) : e \in Options \cup Small}
    \cup {Node("raise", "", <<e, f>>) : e \in Options, f \in Options}
    \cup {Node("assert", "", <<e, f>>) : e \in Small, f \in Options}

\* A body may be empty after a syntax error.
Blocks == {Body_(b) : b \in {<<>>, <<Pass>>, <<ImportA, Stmt>>, <<Return_(Absent), Star>>}}
Handlers ==
    {Node("handler", name, <<type, b>>) : name \in {"", "e"}, b \in Blocks,
        type \in {Absent, X, Node("tuple", "bare", <<X, X>>), Tuple(<<X>>)}}
HandlerLists == {<<>>} \cup {<<h, Node("handler", "e", <<X, Body_(<<ImportA>>)>>)>> : h \in Handlers}
FewBlocks == {Body_(<<>>), Body_(<<Star>>)}
Clauses_ == {Node("clause", "", <<t, b>>) : t \in {X, Binop("Add", X, X)}, b \in Blocks}
Else == {Node("clause", "", <<Absent, b>>) : b \in Blocks}
Cases_ == {Node("case", "", <<p, g, b>>) : p \in {Wildcard, ValueOfX}, g \in Options, b \in Blocks}
Try(b, hs, orelse, final, star) == Node("try", star, <<b, Node("handlers", "", hs), orelse, final>>)
Class(b, bases, decorators, ps, keywords) ==
    Node("classdef", "C", <<b, Node("expressions", "", bases), Node("expressions", "", decorators), ps,
                            Node("keywords", "", keywords)>>)
Compound ==
    {Node("while", "", <<t, b, e>>) : t \in Small, b \in Blocks, e \in Blocks}
    \cup {Node("for", async, <<X, Plain, b, e>>) : async \in {"", "async"}, b \in Blocks, e \in Blocks}
    \cup {Node("with", async, <<b>> \o items) : async \in {"", "async"}, b \in Blocks,
             items \in {<<Node("withitem", "", <<X, o>>), Node("withitem", "", <<Plain, Absent>>)>> : o \in Options}}
    \cup {Node("if_stmt", "", <<X, b>> \o cs) : b \in Blocks,
             cs \in {<<>>} \cup {<<c>> : c \in Clauses_ \cup Else} \cup {<<c, e>> : c \in Clauses_, e \in Else}}
    \cup {Node("match", "", <<X>> \o cs) : cs \in {<<>>} \cup {<<c>> : c \in Cases_}
             \cup {<<c, Node("case", "", <<Wildcard, Absent, Body_(<<Star>>)>>)>> : c \in Cases_}}
    \cup {Try(Body_(<<ImportA>>), hs, b, f, "") : hs \in HandlerLists, b \in FewBlocks, f \in FewBlocks}
    \cup {Class(b, bases, decorators, ps, ks) : b \in Blocks, bases \in {<<>>, <<X, Binop("Add", X, X)>>},
             decorators \in {<<>>, <<X>>}, ps \in {Absent, Node("typeparams", "", <<TypeParam(0, X, Absent)>>)},
             ks \in {<<>>, <<Keyword("k", X), Keyword("", X), Keyword("metaclass", Plain)>>}}

\* Definitions in definitions, with imports before, in and behind them.
Method(b) == Text(Def("m", <<Node("param", "args", <<Absent, Absent>>)>>, b, <<>>, Absent, <<>>), <<"async">>)
Inner == {<<ImportA, Method(<<Star>>), Star>>,
          <<Method(<<Method(<<ImportA>>), Node("while", "", <<X, Body_(<<Star>>), Body_(<<ImportA>>)>>)>>), Star>>,
          <<Class(Body_(<<Star, Method(<<>>), ImportA>>), <<>>, <<>>, Absent, <<>>), Star>>}
Nest == {Method(b) : b \in Inner} \cup {Class(Body_(b), <<X>>, <<X>>, Absent, <<>>) : b \in Inner}
        \cup {Node("with", "", <<Body_(b), Node("withitem", "", <<X, X>>)>>) : b \in Inner}
StatementTrees ==
    ImportStatements \cup SimpleStatements \cup Compound \cup Nest
    \cup {Node("decorated", "", <<Method(b), d, X>>) : b \in Inner, d \in Small}

AllTrees == StatementTrees \cup StringTrees \cup InterpolatedTrees \cup ExpressionTrees \cup PatternTrees \cup TypeTrees
AllTypeStrings == InString(Literals \cup Nested) \cup {Plain}

\* The children of nodes, of which none has more than six; and all there are.
Below(S) ==
    LET Links == {link \in S \X (0..6) :
                    IF link[2] = 0 THEN link[1].inner # <<>> ELSE link[2] <= Len(link[1].args)}
    IN {IF link[2] = 0 THEN link[1].inner[1] ELSE link[1].args[link[2]] : link \in Links}
RECURSIVE AndAllBelow(_)
AndAllBelow(S) == IF S = {} THEN {} ELSE S \cup AndAllBelow(Below(S))
NodesOfTrees == AndAllBelow(AllTrees \cup AllTypeStrings)
AllNodes == NodesOfTrees        \* TLC evaluates it anew for each use, but not this

\* Before handler locations and notes; with these, without import flags and
\* optional keys; without surrogates and the flag of type comments; the latest.
Versions == {0, 2, 4, 7}

\* For the two runs that show where the code departs from its comments.
StringsAlone == {Str(<<p>>, <<>>) : p \in Parts(4, {"\\", "uD", "ux", "R"})}
Comprehensions == {Node("dictcomp", "", <<k, X>> \o g) : k \in Options, g \in Comps}
NoTrees == {}
Latest == {7}
BeforeOptionalKeys == {3}
=============================================================================
