--------------------------- MODULE BranchAnalyzer ---------------------------
(***************************************************************************)
(* IfReachabilityAnalyzer (src/src/serialize_ast.rs): the state carried    *)
(* along an if/elif/else chain or the cases of a match, and the flags      *)
(* (unreachable, mypy_only) it gives to each block.  The methods that      *)
(* return flags and advance the state are split into a flags operator and  *)
(* a state operator, both of the state before the call.                    *)
(***************************************************************************)
EXTENDS TruthValues

AnalyzerState ==
    [tail_unreachable: BOOLEAN, seen_mypy_true: BOOLEAN, seen_mypy_false: BOOLEAN]

Flags == [unreachable: BOOLEAN, mypy_only: BOOLEAN]

\* IfReachabilityAnalyzer::new
NewAnalyzer ==
    [tail_unreachable |-> FALSE, seen_mypy_true |-> FALSE, seen_mypy_false |-> FALSE]

\* condition_flags
ConditionFlags(an, truth) ==
    LET unreachable == an.tail_unreachable \/ truth \in FalseForMypy
    IN [unreachable |-> unreachable,
        mypy_only |-> /\ ~unreachable
                      /\ ~an.seen_mypy_true
                      /\ truth = "MypyTrue"]

\* A bug for the checks: only an always-true condition closes the chain.
AfterConditionMutant(an, truth) ==
    [tail_unreachable |-> an.tail_unreachable \/ truth = "AlwaysTrue",
     seen_mypy_true   |-> an.seen_mypy_true \/ truth = "MypyTrue",
     seen_mypy_false  |-> an.seen_mypy_false \/ truth = "MypyFalse"]

AfterCondition(an, truth) ==
    [tail_unreachable |-> an.tail_unreachable \/ truth \in TrueForMypy,
     seen_mypy_true   |-> an.seen_mypy_true \/ truth = "MypyTrue",
     seen_mypy_false  |-> an.seen_mypy_false \/ truth = "MypyFalse"]

\* A bug for the checks: the else block does not look at the mypy-false
\* conditions before it but only at whether a mypy-true one was seen.
ElseFlagsMutant(an) ==
    [unreachable |-> an.tail_unreachable,
     mypy_only |-> ~an.tail_unreachable /\ ~an.seen_mypy_true]

\* else_flags
ElseFlags(an) ==
    [unreachable |-> an.tail_unreachable,
     mypy_only |-> /\ ~an.tail_unreachable
                   /\ an.seen_mypy_false
                   /\ ~an.seen_mypy_true]

\* match_case_flags; the guard of a case without one is AlwaysTrue.  A case
\* does not record a mypy-false guard.
MatchCaseFlags(an, pattern, guard) ==
    LET unreachable == \/ an.tail_unreachable
                       \/ pattern \in FalseForMypy
                       \/ guard \in FalseForMypy
    IN [unreachable |-> unreachable,
        mypy_only |-> /\ ~unreachable
                      /\ ~an.seen_mypy_true
                      /\ guard = "MypyTrue"
                      /\ pattern \in TrueForMypy]

\* A bug for the checks: a guard that is always true closes the match although
\* its pattern may fail.
AfterMatchCaseMutant(an, pattern, guard) ==
    [an EXCEPT !.tail_unreachable = @ \/ guard \in TrueForMypy,
               !.seen_mypy_true   = @ \/ guard = "MypyTrue"]

AfterMatchCase(an, pattern, guard) ==
    [an EXCEPT
        !.tail_unreachable = @ \/ (guard \in TrueForMypy /\ pattern \in TrueForMypy),
        !.seen_mypy_true   = @ \/ (guard = "MypyTrue" /\ pattern \in TrueForMypy)]
=============================================================================
