------------------------ MODULE MCFunctionSignature -------------------------
(* Parameters of every section on two lines, those on the second with         *)
(* defaults, and any comments beside and below them; for functions without    *)
(* parameters all comments of up to six tokens, and all of nine that end like *)
(* one of a function.                                                         *)
EXTENDS FunctionSignature

MCParameters ==
    {[section |-> s, line |-> l, annotated |-> a, default |-> l = 2 /\ s \notin Variadic,
      elided |-> a] : s \in ToSet(Sections) \ Variadic, l \in 1..2, a \in BOOLEAN}
    \cup {[section |-> s, line |-> l, annotated |-> l = 1, default |-> FALSE, elided |-> FALSE] :
             s \in Variadic, l \in 1..2}

Signature(arguments) == <<"(">> \o arguments \o <<")", "->", "x">>
MCTexts ==
    {<<"x">>, <<"->">>, Signature(<<"...">>), Signature(<< >>), Signature(<<"x">>),
     Signature(<<"x", "*", ",", "*", "x">>), Signature(<<"x", ",", "x", "(", "x", ",", "x", ")", ",", "*", "x", ",">>)}
MCOddTexts ==
    UNION {{<<"(">> \o text : text \in [1..n -> TokenKinds \ {"..."}]} : n \in 0..5}
    \cup UNION {{<<"(">> \o text \o <<")", "->", "x">> : text \in [1..n -> {"x", "*", ",", ")", "("}]} :
                   n \in 0..5}

\* Bodies: targets of all shapes, yields in all places, in blocks and definitions.
Node(kind, heads, targets, parts, body) ==
    [kind |-> kind, id |-> NoName, heads |-> heads, targets |-> targets, parts |-> parts,
     body |-> body]
Named(id) == [Node("name", << >>, << >>, << >>, << >>) EXCEPT !.id = id]
Expr(kind, parts) == Node(kind, << >>, << >>, parts, << >>)
Attributes == {Expr("attribute", <<Named(id)>>) : id \in 1..2}
Attribute(e) == Expr("attribute", <<e>>)
SmallTargets == {Named(1), Named(4)} \cup Attributes
                    \cup {Attribute(Attribute(Named(1))), Expr("subscript", <<Attribute(Named(1)), Named(4)>>)}
NestedTargets == {Expr("starred", <<Attribute(Named(1))>>), Expr("list", <<Named(4), Attribute(Named(1))>>)}
Targets == SmallTargets
             \cup {Expr(k, <<Named(4), t>>) : k \in Displays, t \in SmallTargets \cup NestedTargets}
Yield == Expr("yield", << >>)
Lambda(heads, e) == Node("lambda", heads, << >>, <<e>>, << >>)
Values == {Named(4), Yield, Expr("call", <<Named(4), Expr("yield_from", <<Named(4)>>)>>),
           Lambda(<< >>, Yield), Lambda(<<Yield>>, Named(4))}
Statement(kind, heads) == Node(kind, heads, << >>, << >>, << >>)
SimpleStatements ==
    {Node("assign", <<v>>, <<t>>, << >>, << >>) : v \in Values, t \in Targets}
    \cup {Node(k, <<v>>, <<t>>, << >>, << >>) :
             k \in {"augassign", "annassign"}, v \in {Named(4), Yield}, t \in Targets}
    \cup {Node("assign", <<Named(4)>>, <<Named(4), t>>, << >>, << >>) : t \in Targets}
    \cup {Statement("expr", <<v>>) : v \in Values}
    \cup {Node("assign", <<Named(4)>>, <<Attribute(Named(NoName))>>, << >>, << >>)}
    \cup {Statement(k, << >>) : k \in {"doc", "pass", "raise", "ellipsis"}}
FewStatements ==
    {Node("assign", <<Named(4)>>, <<t>>, << >>, << >>) : t \in {Named(4), Attribute(Named(1))}}
    \cup {Statement("expr", <<v>>) : v \in {Named(4), Yield}} \cup {Statement("pass", << >>)}
Compound(statements) ==
    {Node(k, <<v>>, <<t>>, << >>, <<s>>) : k \in {"with", "for"}, v \in {Named(4), Yield},
         t \in SmallTargets, s \in statements}
    \cup {Node(k, <<v>>, << >>, << >>, b) : k \in {"if", "def", "class"}, v \in {Named(4), Yield},
              b \in {<<s>> : s \in statements} \cup {<<s, u>> : s \in FewStatements, u \in statements}}
InnerStatements == {Node("def", <<Named(4)>>, << >>, << >>, <<s>>) : s \in FewStatements}
MCBodies ==
    {<<s>> : s \in SimpleStatements \cup Compound(FewStatements \cup InnerStatements)}
    \cup {<<s, u>> : s \in FewStatements \cup {Statement("doc", << >>)},
                     u \in FewStatements \cup InnerStatements \cup {Statement("raise", << >>), Statement("ellipsis", << >>)}}

\* The nodes of these bodies.
RECURSIVE Nodes(_), MCHeight(_)
Nodes(n) == {n} \cup UNION {Nodes(Inner(n)[i]) : i \in DOMAIN Inner(n)}
MCHeight(n) ==
    IF Inner(n) = << >> THEN 0 ELSE 1 + Max({MCHeight(Inner(n)[i]) : i \in DOMAIN Inner(n)})
AllNodes == UNION {UNION {Nodes(b[i]) : i \in DOMAIN b} : b \in MCBodies}
IsStatement(n) ==
    n.kind \in Assignments \cup Definitions \cup {"expr", "doc", "pass", "raise", "ellipsis", "if"}
MCStmts == {n \in AllNodes : IsStatement(n)}
MCExprs == {n \in AllNodes : ~IsStatement(n)}
=============================================================================
