----------------------------- MODULE SyntaxTree -----------------------------
(***************************************************************************)
(* The syntax tree the parser hands over: the kinds of its nodes, and what *)
(* the children of each are (ruff_python_ast: generated.rs and nodes.rs).  *)
(*                                                                         *)
(* A node is a record                                                      *)
(*   kind, attr : the AST type, and the word that tells its variants apart *)
(*   args       : its children, `Absent' for an Option that is None        *)
(*   value      : of an integer                                            *)
(*   text       : the source of a part of a string                         *)
(*   inner      : <<the expression>> its text parses to as a type, or <<>> *)
(***************************************************************************)
EXTENDS Integers, Sequences

CONSTANT Nodes      \* the nodes of the trees, and of what their strings parse to

Node(kind, attr, args) ==
    [kind |-> kind, attr |-> attr, args |-> args, value |-> 0, text |-> <<>>, inner |-> <<>>]
Absent == Node("absent", "", <<>>)
-----------------------------------------------------------------------------
(* The kinds of what is serialized by itself. *)

NameKinds      == {"name", "bool", "none"}
NumberKinds    == {"int", "bigint", "float", "complex"}
UnaryKinds     == {"yield_from", "await", "starred", "attribute", "unary"}
BinaryKinds    == {"subscript", "named", "binop"}
DisplayKinds   == {"list", "tuple", "set"}
GeneratorKinds == {"generator", "listcomp", "setcomp"}
ExprKinds ==
    NameKinds \cup NumberKinds \cup UnaryKinds \cup BinaryKinds \cup DisplayKinds \cup GeneratorKinds
    \cup {"ellipsis", "str", "bytes", "fstring", "tstring", "call", "dictcomp", "yield", "boolop",
          "compare", "if", "dict", "slice", "lambda"}

Patterns == {"as", "or", "value", "singleton", "sequence", "star", "mapping", "class"}

WordKinds == {"pass", "break", "continue", "global", "nonlocal"}
StmtKinds ==
    WordKinds
    \cup {"expr_stmt", "augassign", "return", "raise", "assert", "delete", "assign", "annassign",
          "typealias", "if_stmt", "match", "try", "with", "while", "for", "def", "decorated",
          "classdef", "import", "importfrom"}
-----------------------------------------------------------------------------
(* The children of a node: one of each of the kinds in `fixed', then any     *)
(* number of `others'.                                                       *)

ConsistsOf(n, fixed, others) ==
    /\ Len(n.args) >= Len(fixed)
    /\ \A i \in DOMAIN n.args :
          n.args[i].kind \in IF i <= Len(fixed) THEN fixed[i] ELSE others
Maybe(kinds) == kinds \cup {"absent"}
Expr         == ExprKinds
OptionalExpr == Maybe(ExprKinds)

\* The parameters of a lambda have a default, those of a def an annotation before
\* it, and type parameters a bound.
ParametersHave(params, fields) ==
    \A i \in DOMAIN params.args : Len(params.args[i].args) = fields

ExprFields(n) ==
    /\ n.kind \in NameKinds \cup NumberKinds \cup {"ellipsis"} => ConsistsOf(n, <<>>, {})
    /\ n.kind \in UnaryKinds        => ConsistsOf(n, <<Expr>>, {})
    /\ n.kind \in BinaryKinds       => ConsistsOf(n, <<Expr, Expr>>, {})
    /\ n.kind = "if"                => ConsistsOf(n, <<Expr, Expr, Expr>>, {})
    /\ n.kind = "yield"             => ConsistsOf(n, <<OptionalExpr>>, {})
    /\ n.kind = "slice"             => ConsistsOf(n, <<OptionalExpr, OptionalExpr, OptionalExpr>>, {})
    /\ n.kind \in DisplayKinds \cup {"boolop"} => ConsistsOf(n, <<>>, Expr)
    /\ n.kind = "compare"           => ConsistsOf(n, <<Expr>>, Expr)
    /\ n.kind = "call"              => ConsistsOf(n, <<Expr>>, Expr \cup {"keyword"})
    /\ n.kind \in GeneratorKinds    => ConsistsOf(n, <<Expr>>, {"comprehension"})
    /\ n.kind = "dictcomp"          => ConsistsOf(n, <<OptionalExpr, Expr>>, {"comprehension"})
    /\ n.kind = "dict"              => ConsistsOf(n, <<>>, {"item"})
    /\ n.kind = "lambda"            => ConsistsOf(n, <<{"params"}, Expr>>, {}) /\ ParametersHave(n.args[1], 1)
    /\ n.kind \in {"str", "bytes"}  => ConsistsOf(n, <<>>, {"part"})
    /\ n.kind = "fstring"           => ConsistsOf(n, <<>>, {"elements", "part"})
    /\ n.kind = "tstring"           => ConsistsOf(n, <<>>, {"part", "interpolation"})

PatternFields(n) ==
    /\ n.kind = "as"                => ConsistsOf(n, <<Maybe(Patterns)>>, {})
    /\ n.kind \in {"or", "sequence"} => ConsistsOf(n, <<>>, Patterns)
    /\ n.kind = "value"             => ConsistsOf(n, <<Expr>>, {})
    /\ n.kind \in {"singleton", "star"} => ConsistsOf(n, <<>>, {})
    /\ n.kind = "mapping"           => ConsistsOf(n, <<>>, Expr \cup Patterns)
    /\ n.kind = "class"             => ConsistsOf(n, <<Expr>>, Patterns \cup {"keyword"})

StmtFields(n) ==
    /\ n.kind \in WordKinds         => ConsistsOf(n, <<>>, {})
    /\ n.kind = "expr_stmt"         => ConsistsOf(n, <<Expr>>, {})
    /\ n.kind = "augassign"         => ConsistsOf(n, <<Expr, Expr>>, {})
    /\ n.kind = "return"            => ConsistsOf(n, <<OptionalExpr>>, {})
    /\ n.kind = "raise"             => ConsistsOf(n, <<OptionalExpr, OptionalExpr>>, {})
    /\ n.kind = "assert"            => ConsistsOf(n, <<Expr, OptionalExpr>>, {})
    /\ n.kind = "delete"            => ConsistsOf(n, <<>>, Expr)
    /\ n.kind = "assign"            => ConsistsOf(n, <<Expr>>, Expr)
    /\ n.kind = "annassign"         => ConsistsOf(n, <<Expr, Expr, OptionalExpr>>, {})
    /\ n.kind = "typealias"         => ConsistsOf(n, <<Expr, {"typeparams"}, Expr>>, {})
    /\ n.kind = "if_stmt"           => ConsistsOf(n, <<Expr, {"block"}>>, {"clause"})
    /\ n.kind = "match"             => ConsistsOf(n, <<Expr>>, {"case"})
    /\ n.kind = "try"               => ConsistsOf(n, <<{"block"}, {"handlers"}, {"block"}, {"block"}>>, {})
    /\ n.kind = "with"              => ConsistsOf(n, <<{"block"}>>, {"withitem"})
    /\ n.kind = "while"             => ConsistsOf(n, <<Expr, {"block"}, {"block"}>>, {})
    /\ n.kind = "for"               => ConsistsOf(n, <<Expr, Expr, {"block"}, {"block"}>>, {})
    /\ n.kind = "def"               =>
          ConsistsOf(n, <<{"params"}, {"block"}, Maybe({"typeparams"}), OptionalExpr>>, {})
          /\ ParametersHave(n.args[1], 2)
    /\ n.kind = "decorated"         => ConsistsOf(n, <<{"def"}>>, Expr)
    /\ n.kind = "classdef"          =>
          ConsistsOf(n, <<{"block"}, {"expressions"}, {"expressions"}, Maybe({"typeparams"}), {"keywords"}>>, {})
    /\ n.kind \in {"import", "importfrom"} => ConsistsOf(n, <<>>, {"alias"})

\* Parts of these, the None of an Option, and a type comment that does not parse.
PartFields(n) ==
    /\ n.kind = "absent"            => n = Absent
    /\ n.kind = "comprehension"     => ConsistsOf(n, <<Expr, Expr>>, Expr)
    /\ n.kind = "item"              => ConsistsOf(n, <<OptionalExpr, Expr>>, {})
    /\ n.kind = "keyword"           => ConsistsOf(n, <<Expr \cup Patterns>>, {})
    /\ n.kind \in {"part", "alias", "invalid"} => ConsistsOf(n, <<>>, {})
    /\ n.kind \in {"elements", "spec"} => ConsistsOf(n, <<>>, {"part", "interpolation"})
    /\ n.kind = "interpolation"     => ConsistsOf(n, <<Expr, Maybe({"spec"})>>, {})
    /\ n.kind = "params"            => ConsistsOf(n, <<>>, {"param"})
    /\ n.kind = "param"             => ConsistsOf(n, <<>>, OptionalExpr)
    /\ n.kind = "typeparams"        => ConsistsOf(n, <<>>, {"param"}) /\ ParametersHave(n, 2)
    /\ n.kind = "block"             => ConsistsOf(n, <<>>, StmtKinds)
    /\ n.kind = "clause"            => ConsistsOf(n, <<OptionalExpr, {"block"}>>, {})
    /\ n.kind = "case"              => ConsistsOf(n, <<Patterns, OptionalExpr, {"block"}>>, {})
    /\ n.kind = "withitem"          => ConsistsOf(n, <<Expr, OptionalExpr>>, {})
    /\ n.kind = "handlers"          => ConsistsOf(n, <<>>, {"handler"})
    /\ n.kind = "handler"           => ConsistsOf(n, <<OptionalExpr, {"block"}>>, {})
    /\ n.kind = "expressions"       => ConsistsOf(n, <<>>, Expr)
    /\ n.kind = "keywords"          => ConsistsOf(n, <<>>, {"keyword"})

ASSUME NodesAssumption ==
    \A n \in Nodes :
        /\ n.args \in Seq(Nodes)
        /\ n.inner \in Seq(Nodes)
        /\ n.text \in Seq(STRING)
        /\ ExprFields(n) /\ PatternFields(n) /\ StmtFields(n) /\ PartFields(n)
=============================================================================
