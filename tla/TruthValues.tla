---------------------------- MODULE TruthValues ----------------------------
(***************************************************************************)
(* The truth values that reachability analysis infers for a condition, and *)
(* how they are negated and combined (src/src/reachability.rs).            *)
(***************************************************************************)
CONSTANTS
    AlwaysTrueNames,    \* Options.always_true
    AlwaysFalseNames    \* Options.always_false

TruthValue ==
    {"AlwaysTrue", "MypyTrue", "AlwaysFalse", "MypyFalse", "Unknown"}

\* is_always_or_mypy_false, is_always_or_mypy_true
FalseForMypy == {"AlwaysFalse", "MypyFalse"}
TrueForMypy  == {"AlwaysTrue", "MypyTrue"}

\* TruthValue::invert
Invert(t) ==
    CASE t = "AlwaysTrue"  -> "AlwaysFalse"
      [] t = "AlwaysFalse" -> "AlwaysTrue"
      [] t = "MypyTrue"    -> "MypyFalse"
      [] t = "MypyFalse"   -> "MypyTrue"
      [] OTHER             -> "Unknown"

\* A bug for the checks: an `or' with unknown operands but no true one taken
\* for false.
CombineOrMutant(seen) ==
    IF "AlwaysTrue" \in seen     THEN "AlwaysTrue"
    ELSE IF "MypyTrue" \in seen  THEN "MypyTrue"
    ELSE IF "MypyFalse" \in seen THEN "MypyFalse"
    ELSE IF "AlwaysFalse" \in seen THEN "AlwaysFalse"
    ELSE "Unknown"

\* combine_bool_op: one pass that keeps only which values occurred, so the
\* operands are given as the set of their truth values.
CombineOr(seen) ==
    IF "AlwaysTrue" \in seen            THEN "AlwaysTrue"
    ELSE IF "MypyTrue" \in seen         THEN "MypyTrue"
    ELSE IF seen = {"MypyFalse"}        THEN "MypyFalse"
    ELSE IF seen \subseteq FalseForMypy THEN "AlwaysFalse"
    ELSE "Unknown"

CombineAnd(seen) ==
    IF "AlwaysFalse" \in seen          THEN "AlwaysFalse"
    ELSE IF "MypyFalse" \in seen       THEN "MypyFalse"
    ELSE IF seen = {"AlwaysTrue"}      THEN "AlwaysTrue"
    ELSE IF seen \subseteq TrueForMypy THEN "MypyTrue"
    ELSE "Unknown"

CombineBoolOp(op, seen) ==
    IF op = "Or" THEN CombineOr(seen) ELSE CombineAnd(seen)

\* check_name_truth_value: the built-in names come before the user's lists,
\* and always_true before always_false.
CheckNameTruthValue(name) ==
    IF name \in {"MYPY", "TYPE_CHECKING"} THEN "MypyTrue"
    ELSE IF name = "PY2"                  THEN "AlwaysFalse"
    ELSE IF name = "PY3"                  THEN "AlwaysTrue"
    ELSE IF name \in AlwaysTrueNames      THEN "AlwaysTrue"
    ELSE IF name \in AlwaysFalseNames     THEN "AlwaysFalse"
    ELSE "Unknown"

\* The literals True and False are not Names in ruff's tree: each counts only
\* when the list of its own truth names it.
LiteralTruthValue(value) ==
    CASE value /\ "True" \in AlwaysTrueNames    -> "AlwaysTrue"
      [] ~value /\ "False" \in AlwaysFalseNames -> "AlwaysFalse"
      [] OTHER                                  -> "Unknown"

\* infer_pattern_value: a capture or wildcard always matches, and so does an
\* or-pattern with such an alternative.
InferPatternValue(irrefutable) ==
    IF irrefutable THEN "AlwaysTrue" ELSE "Unknown"
=============================================================================
