------------------------------ MODULE IfChain ------------------------------
(***************************************************************************)
(* serialize_if_stmt and Stmt::Match (src/src/serialize_ast.rs) together   *)
(* with the inference they call: each condition, or guard, is inferred in  *)
(* the steps of InferCondition, and its truth value then decides the flags *)
(* of its block and the analyzer's state for the blocks behind it.         *)
(*                                                                         *)
(* Each block records what its condition can be for mypy and at run time,  *)
(* as the inference's reference has it.  The chain so implements           *)
(* ReachableBlocks: the marks follow from the conditions themselves and    *)
(* not from the truth values they were abstracted to.                      *)
(***************************************************************************)
EXTENDS InferCondition, BranchAnalyzer

CONSTANT MaxBlocks     \* bound on the blocks of a chain

ASSUME MaxBlocksAssumption == MaxBlocks \in Nat

VARIABLES
    form,       \* "if" or "match"
    analyzer,   \* IfReachabilityAnalyzer
    blocks,     \* the flags of the blocks so far, and what their conditions can be
    closed      \* the chain has its (written or synthetic) else

chain == <<form, analyzer, blocks, closed>>
cvars == <<results, chain>>

CInit ==
    /\ Init
    /\ form \in {"if", "match"}
    /\ analyzer = NewAnalyzer
    /\ blocks = << >>
    /\ closed = FALSE

\* infer_condition_value, for the condition of the next block.
Infer ==
    /\ ~closed
    /\ Len(blocks) < MaxBlocks
    /\ Next
    /\ UNCHANGED chain

\* What reachability.rs:7-11 says a truth value means at run time.
Documented(truth) ==
    CASE truth \in {"AlwaysTrue", "MypyFalse"} -> {TRUE}
      [] truth \in {"AlwaysFalse", "MypyTrue"} -> {FALSE}
      [] OTHER                                 -> BOOLEAN

Always == [truth |-> "AlwaysTrue", mypy |-> {TRUE}, run |-> {TRUE}]

NewBlock(flags, pattern, condition) ==
    [unreachable |-> flags.unreachable,
     mypy_only   |-> flags.mypy_only,
     mypy        |-> Possible("And", <<pattern, condition.mypy>>, 1..2),
     run         |-> Possible("And", <<pattern, condition.run>>, 1..2),
     documented  |-> condition.run \subseteq Documented(condition.truth)]

Push(flags, pattern, condition) ==
    blocks' = Append(blocks, NewBlock(flags, pattern, condition))

\* `if' and `elif', once infer_condition_value has returned.
Condition ==
    /\ form = "if" /\ ~closed
    /\ Len(results) = 1
    /\ Push(ConditionFlags(analyzer, results[1].truth), {TRUE}, results[1])
    /\ analyzer' = AfterCondition(analyzer, results[1].truth)
    /\ results' = << >>
    /\ UNCHANGED <<form, closed>>

\* `else', or the synthetic else of a chain that has none.
Else ==
    /\ form = "if" /\ ~closed
    /\ blocks # << >>
    /\ results = << >>
    /\ Push(ElseFlags(analyzer), {TRUE}, Always)
    /\ closed' = TRUE
    /\ UNCHANGED <<results, form, analyzer>>

\* `case' with a pattern, and a guard that is the condition inferred or that
\* is missing and then counts as AlwaysTrue.
MatchCase(guard) ==
    \E irrefutable \in BOOLEAN :
        LET pattern == InferPatternValue(irrefutable)
        IN /\ Push(MatchCaseFlags(analyzer, pattern, guard.truth),
                   Determined(pattern), guard)
           /\ analyzer' = AfterMatchCase(analyzer, pattern, guard.truth)

GuardedCase ==
    /\ form = "match"
    /\ Len(results) = 1
    /\ MatchCase(results[1])
    /\ results' = << >>
    /\ UNCHANGED <<form, closed>>

Case ==
    /\ form = "match"
    /\ Len(blocks) < MaxBlocks
    /\ results = << >>
    /\ MatchCase(Always)
    /\ UNCHANGED <<results, form, closed>>

Complete == closed \/ Len(blocks) = MaxBlocks
Stop == Complete /\ UNCHANGED cvars

CNext == Infer \/ Condition \/ Else \/ GuardedCase \/ Case \/ Stop
CSpec == CInit /\ [][CNext]_cvars
-----------------------------------------------------------------------------
Block == [unreachable: BOOLEAN, mypy_only: BOOLEAN,
          mypy: SUBSET BOOLEAN, run: SUBSET BOOLEAN, documented: BOOLEAN]

CTypeOK ==
    /\ results \in Seq(Result)
    /\ form \in {"if", "match"}
    /\ analyzer \in AnalyzerState
    /\ blocks \in Seq(Block)
    /\ closed \in BOOLEAN

\* A block is marked unreachable exactly when mypy cannot enter it, for every
\* chain of conditions of any shape and every match (infer_condition_value,
\* condition_flags, else_flags, match_case_flags): nothing mypy would check is
\* dropped, and nothing that it would not is kept.
Promise == INSTANCE ReachableBlocks WITH
    verdicts    <- [i \in 1..Len(blocks) |-> blocks[i].mypy],
    unreachable <- [i \in 1..Len(blocks) |-> blocks[i].unreachable]
MarksReachableBlocks == Promise!Spec

\* A block marked mypy_only can be entered by mypy and no block after it can:
\* the mark is on the last block mypy sees (condition_flags, else_flags,
\* match_case_flags).
MypyOnlyIsLast ==
    \A i \in 1..Len(blocks) :
        blocks[i].mypy_only =>
            /\ ~blocks[i].unreachable
            /\ \A j \in (i + 1)..Len(blocks) : blocks[j].unreachable

\* Python cannot enter a block marked mypy_only, as long as the conditions up
\* to it are at run time what their truth values are documented to be there.
MypyOnlyNotRun ==
    \A i \in 1..Len(blocks) :
        blocks[i].mypy_only /\ (\A j \in 1..i : blocks[j].documented) =>
            ~ /\ TRUE \in blocks[i].run
              /\ \A j \in 1..(i - 1) : FALSE \in blocks[j].run
=============================================================================
