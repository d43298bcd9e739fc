---------------------------- MODULE SystemChecks ----------------------------
(***************************************************************************)
(* Comparisons with sys.version_info and sys.platform, the fallback of     *)
(* infer_condition_value (src/src/reachability.rs): the code is evaluated  *)
(* for a target version (major, minor) and a target platform.              *)
(*                                                                         *)
(* An operand is the part of the syntax tree the code looks at.  A literal *)
(* that does not fit an i32, or is no literal, is a number above MaxI32;   *)
(* ruff has no negative literals.  Strings are names of Platforms, with    *)
(* the pairs <<s, prefix>> of StartsWith.                                  *)
(***************************************************************************)
EXTENDS TruthValues, Integers, Sequences

CONSTANTS
    MaxI32,         \* the largest i32
    Literals,       \* the integer literals that occur
    MaxTuple,       \* the longest tuple compared with
    Versions,       \* the target versions, pairs <<major, minor>>
    Micros,         \* the micro versions Python may run
    Platforms,      \* the strings that occur
    StartsWith      \* which of them is a prefix of which

ASSUME SystemAssumption ==
    /\ MaxI32 \in Nat
    /\ Literals \subseteq Nat
    /\ MaxTuple \in Nat
    /\ Versions \subseteq (0..MaxI32) \X (0..MaxI32)
    /\ Micros \subseteq Nat
    /\ StartsWith \subseteq Platforms \X Platforms

Absent == -1        \* None, for the parts of a slice

Orderings == {"==", "!=", "<", "<=", ">", ">="}
Ops == Orderings \cup {"in", "not in"}

Accesses ==
    [kind : {"whole"}]
        \cup [kind : {"index"}, at : Literals]
        \cup [kind : {"slice"}, lower : Literals \cup {Absent},
              upper : Literals \cup {Absent}, step : {Absent, 1, 2}]
Tuples   == {<< >>} \cup UNION {[1..n -> Literals] : n \in 1..MaxTuple}
Numbers  == [kind : {"int"}, value : Literals] \cup [kind : {"tuple"}, value : Tuples]
Strings  == [kind : {"string"}, value : Platforms]
Containers == [kind : {"container"}, items : SUBSET Platforms, others : BOOLEAN]

Compare(left, op, right) ==
    [form |-> "compare", left |-> left, op |-> op, right |-> right, chained |-> FALSE]
Chain(left, op, right) == [Compare(left, op, right) EXCEPT !.chained = TRUE]
Call(method, argument) ==
    [form |-> "call", method |-> method, argument |-> argument]
Platform == [kind |-> "platform"]

VARIABLES
    expr,           \* the condition
    version,        \* Options.python_version
    platform,       \* Options.platform
    stage,          \* "version", "platform", "done"
    truth           \* the result of infer_condition_value

vars == <<expr, version, platform, stage, truth>>
-----------------------------------------------------------------------------
(* The code. *)

\* A bug for the checks: only the strict operators are reversed.
ReverseCmpOpMutant(op) ==
    CASE op = "<" -> ">"  [] op = ">" -> "<"  [] OTHER -> op

\* reverse_cmp_op
ReverseCmpOp(op) ==
    CASE op = "<"  -> ">"   [] op = ">"  -> "<"
      [] op = "<=" -> ">="  [] op = ">=" -> "<="
      [] OTHER     -> op

\* The lexicographic order of slices (and of Python's tuples): a proper prefix
\* is less.
Less(s, t) ==
    \E i \in 1..Len(t) :
        /\ i <= Len(s) + 1
        /\ \A j \in 1..(i - 1) : s[j] = t[j]
        /\ i <= Len(s) => s[i] < t[i]

Holds(s, op, t) ==
    CASE op = "=="  -> s = t
      [] op = "!="  -> s # t
      [] op = "<"   -> Less(s, t)
      [] op = "<="  -> ~Less(t, s)
      [] op = ">"   -> Less(t, s)
      [] op = ">="  -> ~Less(s, t)

Always(holds) == IF holds THEN "AlwaysTrue" ELSE "AlwaysFalse"

\* fixed_comparison
FixedComparison(s, op, t) == Always(Holds(s, op, t))

\* expr_to_int
IsInt(literal) == literal <= MaxI32

\* contains_int_or_tuple_of_ints
ContainsIntOrTuple(e) ==
    \/ e.kind = "int" /\ IsInt(e.value)
    \/ e.kind = "tuple" /\ \A i \in 1..Len(e.value) : IsInt(e.value[i])

\* contains_sys_version_info
ContainsSysVersionInfo(e) ==
    \/ e.kind = "whole"
    \/ e.kind = "index" /\ IsInt(e.at)
    \/ e.kind = "slice" /\ IsInt(e.lower) /\ IsInt(e.upper) /\ e.step \in {Absent, 1}

Lower(e) == IF e.kind = "whole" \/ e.lower = Absent THEN 0 ELSE e.lower
Upper(e) == IF e.kind = "whole" \/ e.upper = Absent THEN 2 ELSE e.upper

Slice(e) == SubSeq(version, Lower(e) + 1, Upper(e))

\* The comparison of an access with a number, the access on the left.
\* A bug for the checks: a longer version compares with == and != as well.
CompareVersionMutant(e, op, n) ==
    CASE e.kind = "index" /\ n.kind = "int" /\ e.at \in 0..1 ->
           FixedComparison(<<version[e.at + 1]>>, op, <<n.value>>)
      [] /\ e.kind # "index" /\ n.kind = "tuple"
         /\ Lower(e) >= 0 /\ Upper(e) <= 2 /\ Lower(e) < Upper(e)
         /\ Len(Slice(e)) >= Len(n.value) ->
           FixedComparison(SubSeq(Slice(e), 1, Len(n.value)), op, n.value)
      [] OTHER -> "Unknown"
CompareVersion(e, op, n) ==
    CASE e.kind = "index" /\ n.kind = "int" /\ e.at \in 0..1 ->
           FixedComparison(<<version[e.at + 1]>>, op, <<n.value>>)
      [] /\ e.kind # "index" /\ n.kind = "tuple"
         /\ Lower(e) >= 0 /\ Upper(e) <= 2 /\ Lower(e) < Upper(e)
         /\ \/ Len(Slice(e)) = Len(n.value)
            \/ Len(Slice(e)) > Len(n.value) /\ op \notin {"==", "!="} ->
           FixedComparison(Slice(e), op, n.value)
      [] OTHER -> "Unknown"

\* The comparisons consider_sys_version_info looks into.
OrdersTwo(e) == e.form = "compare" /\ ~e.chained /\ e.op \in Orderings
VersionWithNumber(e, n) == ContainsSysVersionInfo(e) /\ ContainsIntOrTuple(n)

\* consider_sys_version_info
ConsiderSysVersionInfo(e) ==
    CASE OrdersTwo(e) /\ VersionWithNumber(e.left, e.right) ->
           CompareVersion(e.left, e.op, e.right)
      [] /\ OrdersTwo(e)
         /\ ~VersionWithNumber(e.left, e.right) /\ VersionWithNumber(e.right, e.left) ->
           CompareVersion(e.right, ReverseCmpOp(e.op), e.left)
      [] OTHER -> "Unknown"

\* string_literal_container_contains: no answer if an item is no string, even
\* when another one is the platform.
StringLiteralContainer(e) == e.kind = "container" /\ ~e.others

\* consider_sys_platform
ConsiderSysPlatform(e) ==
    CASE /\ e.form = "compare" /\ ~e.chained /\ e.left = Platform
         /\ e.op \in {"==", "!="} /\ e.right.kind = "string" ->
           Always((e.right.value = platform) <=> (e.op = "=="))
      [] /\ e.form = "compare" /\ ~e.chained /\ e.left = Platform
         /\ e.op \in {"in", "not in"} /\ StringLiteralContainer(e.right) ->
           Always((platform \in e.right.items) <=> (e.op = "in"))
      [] e.form = "call" /\ e.method = "startswith" /\ e.argument.kind = "string" ->
           Always(<<platform, e.argument.value>> \in StartsWith)
      [] OTHER -> "Unknown"

\* The condition is one of those the code tells apart.
ConditionOK ==
    \/ \E op \in Ops, a \in Accesses, n \in Numbers :
          expr \in {Compare(a, op, n), Compare(n, op, a)}
    \/ \E op \in Orderings, n \in Numbers : expr = Chain([kind |-> "whole"], op, n)
    \/ \E op \in Ops, s \in Strings :
          expr \in {Compare(Platform, op, s), Compare(s, op, Platform)}
    \/ \E op \in Ops, s \in Containers : expr = Compare(Platform, op, s)
    \/ \E m \in {"startswith", "endswith"}, s \in Strings : expr = Call(m, s)

Init ==
    /\ ConditionOK
    /\ version \in Versions
    /\ platform \in Platforms
    /\ stage = "version"
    /\ truth = "Unknown"

\* The fallback of infer_condition_value asks for the version first, and for
\* the platform if that gives no answer.
CheckVersion ==
    /\ stage = "version"
    /\ truth' = ConsiderSysVersionInfo(expr)
    /\ stage' = IF truth' = "Unknown" THEN "platform" ELSE "done"
    /\ UNCHANGED <<expr, version, platform>>

CheckPlatform ==
    /\ stage = "platform"
    /\ truth' = ConsiderSysPlatform(expr)
    /\ stage' = "done"
    /\ UNCHANGED <<expr, version, platform>>

Done == stage = "done" /\ UNCHANGED vars

Next == CheckVersion \/ CheckPlatform \/ Done
Spec == Init /\ [][Next]_vars
-----------------------------------------------------------------------------
(* Python's evaluation, where sys.version_info goes on after the minor       *)
(* version.                                                                  *)

Access == IF "kind" \in DOMAIN expr.left /\ expr.left.kind \in {"whole", "index", "slice"}
          THEN expr.left ELSE expr.right
Number == IF Access = expr.left THEN expr.right ELSE expr.left

PythonValue(e, actual) ==
    CASE e.kind = "whole" -> actual
      [] e.kind = "index" -> <<actual[e.at + 1]>>
      [] e.kind = "slice" ->
           SubSeq(actual, Lower(e) + 1, IF e.upper = Absent THEN Len(actual) ELSE e.upper)
      [] e.kind = "int"   -> <<e.value>>
      [] OTHER            -> e.value

PythonHolds(actual) ==
    Holds(PythonValue(expr.left, actual), expr.op, PythonValue(expr.right, actual))

\* The access goes on to the end of version_info and is compared with the very
\* target version: Python sees a longer tuple, the code, whose target has no micro
\* version, an equal one.  These operators tell the two apart.
AtTheTarget ==
    /\ Access.kind = "whole" \/ (Access.kind = "slice" /\ Access.upper = Absent)
    /\ Number.value = SubSeq(version, Lower(Access) + 1, 2)
    /\ expr.op \in {"==", "!="} \cup (IF Access = expr.left THEN {"<=", ">"} ELSE {">=", "<"})

OfVersion == expr.form = "compare" /\ Platform \notin {expr.left, expr.right}
Answered == stage = "done" /\ truth # "Unknown"

\* A comparison of version_info that gets an answer is answered as Python
\* would with any micro version of the target, on either side of the operator
\* and for any slice; but not a comparison with the target itself by an operator
\* that sees what follows the minor version (AtTheTarget): that one is answered
\* as if nothing followed, so for every micro version the opposite of Python's
\* answer (consider_sys_version_info, fixed_comparison).
AgreesWithPython ==
    Answered /\ OfVersion =>
        \A micro \in Micros :
            truth = LET python == Always(PythonHolds(Append(version, micro)))
                    IN IF AtTheTarget THEN Invert(python) ELSE python

Complement(op) ==
    CASE op = "==" -> "!="  [] op = "!=" -> "=="
      [] op = "<"  -> ">="  [] op = ">=" -> "<"
      [] op = ">"  -> "<="  [] op = "<=" -> ">"
      [] op = "in" -> "not in"  [] op = "not in" -> "in"
      [] OTHER     -> op

\* An if with a check and an if with the opposite operator take opposite
\* branches, so that code written either way round has the same half dropped.
ComplementInverts ==
    Answered /\ expr.form = "compare" =>
        LET other == [expr EXCEPT !.op = Complement(@)]
        IN Invert(truth) = IF OfVersion THEN ConsiderSysVersionInfo(other)
                                        ELSE ConsiderSysPlatform(other)
=============================================================================
