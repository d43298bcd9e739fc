-------------------------- MODULE InferCondition --------------------------
(***************************************************************************)
(* infer_condition_value (src/src/reachability.rs): the recursive walk of  *)
(* a condition.  Every return of the recursion is a step, in the order the *)
(* calls return (operands before their operator); `results' holds the      *)
(* values of the calls that have returned and whose caller has not, i.e.   *)
(* the inferred_values vectors of the active calls, innermost last.        *)
(*                                                                         *)
(* Beside the truth value each entry carries the reference: the booleans   *)
(* the expression can evaluate to, operands taken as independent, when     *)
(* mypy reads the file (`mypy', where MYPY and TYPE_CHECKING are true) and *)
(* when Python runs it (`run', where they are false).                      *)
(***************************************************************************)
EXTENDS TruthValues, Integers, Sequences

CONSTANTS
    Names,       \* the names conditions are built from
    MaxWaiting   \* bound on the number of results waiting for an operator

ASSUME MaxWaitingAssumption == MaxWaiting \in Nat

VARIABLE results

Result == [truth: TruthValue, mypy: SUBSET BOOLEAN, run: SUBSET BOOLEAN]

Init == results = << >>

Return(truth, mypy, run) ==
    /\ Len(results) < MaxWaiting
    /\ results' = Append(results, [truth |-> truth, mypy |-> mypy, run |-> run])

\* What a name can be, for mypy and at run time.  The options' lists are
\* promises of the user, kept in both worlds.
Determined(truth) ==
    CASE truth \in TrueForMypy  -> {TRUE}
      [] truth \in FalseForMypy -> {FALSE}
      [] OTHER                  -> BOOLEAN

NameAtRunTime(name) ==
    IF name \in {"MYPY", "TYPE_CHECKING"}
    THEN {FALSE}
    ELSE Determined(CheckNameTruthValue(name))

\* Expr::Name, and Expr::Attribute which looks only at the attribute's name.
NameExpr ==
    \E name \in Names :
        LET truth == CheckNameTruthValue(name)
        IN Return(truth, Determined(truth), NameAtRunTime(name))

\* Expr::BooleanLiteral
BooleanLiteral ==
    \E value \in BOOLEAN :
        LET truth == LiteralTruthValue(value)
        IN Return(truth, Determined(truth), Determined(truth))

\* The fallback: sys.version_info and sys.platform checks give a definite
\* answer or none; any other expression gives none.
Fallback ==
    \E truth \in {"AlwaysTrue", "AlwaysFalse", "Unknown"} :
        Return(truth, Determined(truth), Determined(truth))

\* Expr::UnaryOp with `not'
Not ==
    /\ results # << >>
    /\ LET n == Len(results)
           Negate(S) == {~b : b \in S}
           operand == results[n]
       IN results' = [results EXCEPT ![n] =
                        [truth |-> Invert(operand.truth),
                         mypy  |-> Negate(operand.mypy),
                         run   |-> Negate(operand.run)]]

\* What `and' / `or' can evaluate to when each operand i can be any of S[i].
Possible(op, S, I) ==
    LET decisive == (op = "Or")
    IN {b \in BOOLEAN : IF b = decisive THEN \E i \in I : b \in S[i]
                                        ELSE \A i \in I : b \in S[i]}

\* Expr::BoolOp over the last k results (ruff's BoolOp has two or more).
BoolOp(op, k) ==
    /\ k \in 2..Len(results)
    /\ LET n == Len(results)
           I == (n - k + 1)..n
       IN results' = Append(SubSeq(results, 1, n - k),
            [truth |-> CombineBoolOp(op, {results[i].truth : i \in I}),
             mypy  |-> Possible(op, [i \in I |-> results[i].mypy], I),
             run   |-> Possible(op, [i \in I |-> results[i].run], I)])

Next ==
    \/ NameExpr
    \/ BooleanLiteral
    \/ Fallback
    \/ Not
    \/ \E op \in {"Or", "And"} : \E k \in 2..Len(results) : BoolOp(op, k)

vars == results
Spec == Init /\ [][Next]_vars
-----------------------------------------------------------------------------
TypeOK == results \in Seq(Result)

\* infer_condition_value decides what mypy sees, no more and no less: it calls
\* a condition true (false) exactly when it can only be true (false) for mypy,
\* and unknown exactly when it can be either.
MypyExact ==
    \A i \in 1..Len(results) :
        results[i].mypy = Determined(results[i].truth)
=============================================================================
