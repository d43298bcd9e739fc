-------------------------- MODULE FunctionEffects ---------------------------
(***************************************************************************)
(* has_externally_visible_effect (src/src/func_effect_visitor.rs): whether *)
(* the body of a function can be left out, by a visitor that looks for     *)
(* yields and for assignments to attributes of the first parameter.        *)
(*                                                                         *)
(* A node is [kind, id, heads, targets, parts, body].  A statement has the *)
(* targets it assigns to in targets, its other expressions in heads, and   *)
(* the statements of its blocks in body; an expression has its children in *)
(* parts.  The heads of a definition or a lambda are what is evaluated     *)
(* outside of it: decorators, defaults, bases.  The id of a name is the    *)
(* number of the parameter it names, or above all of these; that of an     *)
(* empty name, which a syntax error leaves, is NoName.                     *)
(***************************************************************************)
EXTENDS Integers, Sequences

Definitions == {"def", "class"}
Assignments == {"assign", "augassign", "annassign", "with", "for"}
Yields      == {"yield", "yield_from"}
Displays    == {"tuple", "list"}
NoName      == 0

CONSTANTS
    Exprs,      \* the expressions there are in bodies
    Stmts,      \* and the statements
    Height(_)   \* of the tree below a node

Inner(n) == n.heads \o n.targets \o n.parts \o n.body

ASSUME NodesAssumption ==
    /\ Exprs \subseteq [kind : STRING, id : Nat, heads : Seq(Exprs), targets : {<< >>},
                        parts : Seq(Exprs), body : {<< >>}]
    /\ Stmts \subseteq [kind : STRING, id : Nat, heads : Seq(Exprs), targets : Seq(Exprs),
                        parts : {<< >>}, body : Seq(Stmts)]
    /\ \A e \in Exprs : e.kind \notin Definitions /\ (e.kind = "attribute" => e.parts # << >>)
    /\ \A s \in Stmts : /\ s.kind \notin Yields \cup {"lambda"}
                        /\ s.targets # << >> => s.kind \in Assignments
    /\ \A n \in Exprs \cup Stmts :
          Height(n) \in Nat /\ \A i \in DOMAIN Inner(n) : Height(Inner(n)[i]) < Height(n)

\* is_trivial_body: a docstring, or a single pass, raise or `...' that may
\* follow one.
IsTrivialBody(body) ==
    LET rest == IF body # << >> /\ body[1].kind = "doc" THEN Tail(body) ELSE body
    IN /\ body # << >>
       /\ \/ rest = << >>
          \/ Len(rest) = 1 /\ rest[1].kind \in {"pass", "raise", "ellipsis"}

\* A bug for the checks: lists are not looked into.
ContainsParamAttributeMutant(param) ==
    LET contains[e \in Exprs] ==
            \/ e.kind = "attribute" /\ e.parts[1].kind = "name" /\ e.parts[1].id = param
            \/ e.kind \in {"tuple", "starred"} /\ \E i \in DOMAIN e.parts : contains[e.parts[i]]
    IN contains

\* contains_param_attribute, of every expression.
ContainsParamAttribute(param) ==
    LET contains[e \in Exprs] ==
            \/ e.kind = "attribute" /\ e.parts[1].kind = "name" /\ e.parts[1].id = param
            \/ /\ e.kind \in Displays \cup {"starred"}
               /\ \E i \in DOMAIN e.parts : contains[e.parts[i]]
    IN contains

\* EffectDetector: what it has found.  It stops when it has found both, and does
\* not walk a statement that assigns to an attribute.
Detectors == [defines_attributes : BOOLEAN, contains_yield : BOOLEAN]
Detector  == [defines_attributes |-> FALSE, contains_yield |-> FALSE]
FoundBoth(d) == d.defines_attributes /\ d.contains_yield

\* What the detector d has found after a visit of each of the nodes.
VisitEach(visit, d, nodes) ==
    LET after[i \in 0..Len(nodes)] == IF i = 0 THEN d ELSE visit[nodes[i]][after[i - 1]]
    IN after[Len(nodes)]

VisitExpr[e \in Exprs] == [d \in Detectors |->
    CASE FoundBoth(d) \/ e.kind = "lambda"      -> d
      [] ~FoundBoth(d) /\ e.kind \in Yields     -> [d EXCEPT !.contains_yield = TRUE]
      [] OTHER                                  -> VisitEach(VisitExpr, d, e.heads \o e.parts)]

VisitStmt(param) ==
    LET AssignsAttribute(s) ==
            /\ s.kind \in Assignments
            /\ \E i \in DOMAIN s.targets : ContainsParamAttribute(param)[s.targets[i]]
        visit[s \in Stmts] == [d \in Detectors |->
            CASE FoundBoth(d) \/ s.kind \in Definitions -> d
              [] ~FoundBoth(d) /\ AssignsAttribute(s)   -> [d EXCEPT !.defines_attributes = TRUE]
              [] OTHER -> VisitEach(visit, VisitEach(VisitExpr, d, s.heads \o s.targets), s.body)]
    IN visit

HasExternallyVisibleEffect(body, param) ==
    LET found == VisitEach(VisitStmt(param), Detector, body)
    IN IsTrivialBody(body) \/ found.defines_attributes \/ found.contains_yield
-----------------------------------------------------------------------------
(* Python says what shows outside a function.                                *)

\* What is evaluated in the scope of the function, of a definition or lambda
\* within only what surrounds it.
Scope(n) == IF n.kind \in Definitions \cup {"lambda"} THEN n.heads ELSE Inner(n)
Evaluated[n \in Exprs \cup Stmts] ==
    {n} \cup UNION {Evaluated[Scope(n)[i]] : i \in DOMAIN Scope(n)}
InBody(body) == UNION {Evaluated[body[i]] : i \in DOMAIN body}

Leaves[target \in Exprs] ==
    IF target.kind \in Displays \cup {"starred"}
    THEN UNION {Leaves[target.parts[i]] : i \in DOMAIN target.parts} ELSE {target}
Bound(body) == UNION {UNION {Leaves[s.targets[i]] : i \in DOMAIN s.targets} : s \in InBody(body)}

IsGenerator(body) == \E n \in InBody(body) : n.kind \in Yields
DefinesAttribute(body, param) ==
    \E t \in Bound(body) : t.kind = "attribute" /\ t.parts[1].kind = "name" /\ t.parts[1].id = param

\* A yield among the decorators, defaults or bases of what is defined within.
HiddenYield(body) ==
    \E d \in InBody(body) :
        /\ d.kind \in Definitions \cup {"lambda"}
        /\ \E i \in DOMAIN d.heads : \E n \in Evaluated[d.heads[i]] : n.kind \in Yields

\* An attribute of what a syntax error left empty is a target.
EmptyTarget(body) == DefinesAttribute(body, NoName)
=============================================================================
