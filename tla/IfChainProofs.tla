--------------------------- MODULE IfChainProofs ---------------------------
(***************************************************************************)
(* Conditions and chains.  infer_condition_value is exact for mypy,        *)
(* whatever the names, the options and the shape of the condition.  A      *)
(* chain or match of any length over such conditions implements            *)
(* ReachableBlocks, and its mypy_only marks are sound.  The invariant ties *)
(* the analyzer's booleans to what the conditions of the blocks so far can *)
(* be, for mypy and at run time.                                           *)
(***************************************************************************)
EXTENDS IfChain, SequenceTheorems, TLAPS

\* A set of booleans is what a truth value allows when it excludes exactly the
\* boolean the truth value rules out for mypy.
LEMMA DeterminedExact ==
    ASSUME NEW t \in TruthValue, NEW X \in SUBSET BOOLEAN,
           TRUE \in X <=> t \notin FalseForMypy,
           FALSE \in X <=> t \notin TrueForMypy
    PROVE  X = Determined(t)
<1>1. CASE t \in TrueForMypy
  <2>1. t \notin FalseForMypy /\ Determined(t) = {TRUE}
    BY <1>1 DEF Determined, TrueForMypy, FalseForMypy
  <2> QED BY <1>1, <2>1
<1>2. CASE t \in FalseForMypy
  <2>1. t \notin TrueForMypy /\ Determined(t) = {FALSE}
    BY <1>2 DEF Determined, TrueForMypy, FalseForMypy
  <2> QED BY <1>2, <2>1
<1>3. CASE t \notin TrueForMypy /\ t \notin FalseForMypy
  <2>1. Determined(t) = BOOLEAN
    BY <1>3 DEF Determined
  <2> QED BY <1>3, <2>1
<1> QED
  BY <1>1, <1>2, <1>3

LEMMA DeterminedAllows ==
    ASSUME NEW t
    PROVE  /\ TRUE \in Determined(t) <=> t \notin FalseForMypy
           /\ FALSE \in Determined(t) <=> t \notin TrueForMypy
BY DEF Determined, TrueForMypy, FalseForMypy

\* What the two combination tables return is exactly what `or' and `and' of
\* independent operands can be (combine_bool_op).
LEMMA CombineExact ==
    ASSUME NEW I, I # {}, NEW T \in [I -> TruthValue], NEW S,
           \A i \in I : S[i] = Determined(T[i])
    PROVE  \A op \in {"Or", "And"} :
             Possible(op, S, I) = Determined(CombineBoolOp(op, {T[i] : i \in I}))
<1> DEFINE seen == {T[i] : i \in I}
<1>1. seen # {} /\ seen \subseteq TruthValue
  OBVIOUS
<1>2. \A i \in I : /\ TRUE \in S[i] <=> T[i] \notin FalseForMypy
                   /\ FALSE \in S[i] <=> T[i] \notin TrueForMypy
  BY DeterminedAllows DEF TrueForMypy, FalseForMypy
<1>3. /\ (\E i \in I : TRUE \in S[i]) <=> ~(seen \subseteq FalseForMypy)
      /\ (\A i \in I : FALSE \in S[i]) <=> seen \cap TrueForMypy = {}
      /\ (\A i \in I : TRUE \in S[i]) <=> seen \cap FalseForMypy = {}
      /\ (\E i \in I : FALSE \in S[i]) <=> ~(seen \subseteq TrueForMypy)
  BY <1>2
<1>4. \A op : Possible(op, S, I) \in SUBSET BOOLEAN
  BY DEF Possible
<1>5. Possible("Or", S, I) = Determined(CombineOr(seen))
  <2>1. /\ TRUE \in Possible("Or", S, I) <=> \E i \in I : TRUE \in S[i]
        /\ FALSE \in Possible("Or", S, I) <=> \A i \in I : FALSE \in S[i]
    BY DEF Possible
  <2>2. /\ CombineOr(seen) \in TruthValue
        /\ CombineOr(seen) \in FalseForMypy <=> seen \subseteq FalseForMypy
        /\ CombineOr(seen) \in TrueForMypy <=> seen \cap TrueForMypy # {}
    BY <1>1 DEF CombineOr, TruthValue, TrueForMypy, FalseForMypy
  <2> DEFINE X == Possible("Or", S, I)
             t == CombineOr(seen)
  <2>3. /\ TRUE \in X <=> t \notin FalseForMypy
        /\ FALSE \in X <=> t \notin TrueForMypy
    BY <1>3, <2>1, <2>2
  <2>4. X \in SUBSET BOOLEAN /\ t \in TruthValue
    BY <1>4, <2>2
  <2> HIDE DEF X, t
  <2>5. X = Determined(t)
    BY <2>3, <2>4, DeterminedExact
  <2> QED BY <2>5 DEF X, t
<1>6. Possible("And", S, I) = Determined(CombineAnd(seen))
  <2>1. /\ TRUE \in Possible("And", S, I) <=> \A i \in I : TRUE \in S[i]
        /\ FALSE \in Possible("And", S, I) <=> \E i \in I : FALSE \in S[i]
    BY DEF Possible
  <2>2. /\ CombineAnd(seen) \in TruthValue
        /\ CombineAnd(seen) \in TrueForMypy <=> seen \subseteq TrueForMypy
        /\ CombineAnd(seen) \in FalseForMypy <=> seen \cap FalseForMypy # {}
    BY <1>1 DEF CombineAnd, TruthValue, TrueForMypy, FalseForMypy
  <2> DEFINE X == Possible("And", S, I)
             t == CombineAnd(seen)
  <2>3. /\ TRUE \in X <=> t \notin FalseForMypy
        /\ FALSE \in X <=> t \notin TrueForMypy
    BY <1>3, <2>1, <2>2
  <2>4. X \in SUBSET BOOLEAN /\ t \in TruthValue
    BY <1>4, <2>2
  <2> HIDE DEF X, t
  <2>5. X = Determined(t)
    BY <2>3, <2>4, DeterminedExact
  <2> QED BY <2>5 DEF X, t
<1> QED
  BY <1>5, <1>6 DEF CombineBoolOp

LEMMA CombineType ==
    ASSUME NEW op, NEW seen \in SUBSET TruthValue
    PROVE  CombineBoolOp(op, seen) \in TruthValue
BY DEF CombineBoolOp, CombineOr, CombineAnd, TruthValue

\* Negating what a truth value allows is what the inverted value allows
\* (TruthValue::invert).
LEMMA InvertExact ==
    ASSUME NEW t \in TruthValue
    PROVE  /\ Invert(t) \in TruthValue
           /\ {~b : b \in Determined(t)} = Determined(Invert(t))
<1>1. Invert(t) \in TruthValue
  BY DEF Invert, TruthValue
<1>2. CASE t \in TrueForMypy
  <2>1. Determined(t) = {TRUE} /\ Determined(Invert(t)) = {FALSE}
    BY <1>2 DEF Determined, Invert, TruthValue, TrueForMypy, FalseForMypy
  <2> QED BY <1>1, <2>1
<1>3. CASE t \in FalseForMypy
  <2>1. Determined(t) = {FALSE} /\ Determined(Invert(t)) = {TRUE}
    BY <1>3 DEF Determined, Invert, TruthValue, TrueForMypy, FalseForMypy
  <2> QED BY <1>1, <2>1
<1>4. CASE t = "Unknown"
  <2>1. Determined(t) = BOOLEAN /\ Determined(Invert(t)) = BOOLEAN
    BY <1>4 DEF Determined, Invert, TrueForMypy, FalseForMypy
  <2> QED BY <1>1, <2>1
<1> QED
  BY <1>2, <1>3, <1>4 DEF TruthValue, TrueForMypy, FalseForMypy

LEMMA NameType == \A name : CheckNameTruthValue(name) \in TruthValue
BY DEF CheckNameTruthValue, TruthValue

LEMMA DeterminedType == \A t : Determined(t) \in SUBSET BOOLEAN
BY DEF Determined

IInv == TypeOK /\ MypyExact

\* Returning from a leaf of the condition keeps the invariant when the leaf's
\* entry does.
LEMMA ReturnExact ==
    ASSUME IInv, NEW truth \in TruthValue, NEW run \in SUBSET BOOLEAN,
           Return(truth, Determined(truth), run)
    PROVE  IInv'
<1> DEFINE r == [truth |-> truth, mypy |-> Determined(truth), run |-> run]
<1>1. results \in Seq(Result) /\ r \in Result
  BY DeterminedType DEF IInv, TypeOK, Result
<1>2. results' = Append(results, r)
  BY DEF Return
<1>3. /\ results' \in Seq(Result)
      /\ Len(results') = Len(results) + 1
      /\ \A i \in 1..Len(results) : results'[i] = results[i]
      /\ results'[Len(results) + 1] = r
  BY <1>1, <1>2, AppendProperties, LenProperties
<1>4. r.mypy = Determined(r.truth)
  OBVIOUS
<1> HIDE DEF r
<1>5. \A i \in 1..Len(results') : results'[i].mypy = Determined(results'[i].truth)
  <2> TAKE i \in 1..Len(results')
  <2>1. Len(results) \in Nat
    BY <1>1, LenProperties
  <2>2. CASE i \in 1..Len(results)
    BY <2>2, <1>3 DEF IInv, MypyExact
  <2>3. CASE i = Len(results) + 1
    BY <2>3, <1>3, <1>4
  <2> QED BY <2>1, <2>2, <2>3, <1>3
<1> QED
  BY <1>3, <1>5 DEF IInv, TypeOK, MypyExact

\* `not' replaces the last result only, and keeps it exact.
LEMMA NotExact ==
    ASSUME IInv, Not
    PROVE  IInv'
<1> DEFINE n == Len(results)
           r == [truth |-> Invert(results[n].truth),
                 mypy  |-> {~b : b \in results[n].mypy},
                 run   |-> {~b : b \in results[n].run}]
<1>1. results \in Seq(Result) /\ n \in 1..Len(results)
  BY LenProperties, EmptySeq DEF IInv, TypeOK, Not
<1>2. results[n] \in Result
  BY <1>1, ElementOfSeq
<1>3. r \in Result /\ r.mypy = Determined(r.truth)
  BY <1>1, <1>2, InvertExact DEF Result, IInv, MypyExact
<1>4. results' = [results EXCEPT ![n] = r]
  BY DEF Not
<1> HIDE DEF r
<1>5. /\ results' \in Seq(Result)
      /\ Len(results') = Len(results)
      /\ \A i \in 1..Len(results) : results'[i] = IF i = n THEN r ELSE results[i]
  BY <1>1, <1>3, <1>4, ExceptSeq
<1> QED
  BY <1>3, <1>5 DEF IInv, TypeOK, MypyExact

\* A boolean operator replaces its operands by one result, exact by
\* CombineExact.
LEMMA BoolOpExact ==
    ASSUME IInv, NEW op \in {"Or", "And"}, NEW k \in 2..Len(results), BoolOp(op, k)
    PROVE  IInv'
<1> DEFINE n == Len(results)
           I == (n - k + 1)..n
           front == SubSeq(results, 1, n - k)
           r == [truth |-> CombineBoolOp(op, {results[i].truth : i \in I}),
                 mypy  |-> Possible(op, [i \in I |-> results[i].mypy], I),
                 run   |-> Possible(op, [i \in I |-> results[i].run], I)]
<1>1. results \in Seq(Result) /\ n \in Nat /\ k \in 2..n
  BY LenProperties DEF IInv, TypeOK
<1>2. n \in I /\ I \subseteq 1..n /\ n - k \in Nat /\ n - k < n
  BY <1>1
<1>3. \A i \in 1..n : results[i] \in Result
  BY <1>1, ElementOfSeq
<1>4. r \in Result
  <2>1. {results[i].truth : i \in I} \in SUBSET TruthValue
    BY <1>2, <1>3 DEF Result
  <2>2. CombineBoolOp(op, {results[i].truth : i \in I}) \in TruthValue
    BY <2>1, CombineType
  <2>3. \A S : Possible(op, S, I) \in SUBSET BOOLEAN
    BY DEF Possible
  <2> QED BY <2>2, <2>3 DEF Result
<1>5. r.mypy = Determined(r.truth)
  <2> DEFINE T == [i \in I |-> results[i].truth]
             S == [i \in I |-> results[i].mypy]
  <2>1. T \in [I -> TruthValue]
    BY <1>2, <1>3 DEF Result
  <2>2. \A i \in I : S[i] = Determined(T[i])
    BY <1>2 DEF IInv, MypyExact
  <2>3. {T[i] : i \in I} = {results[i].truth : i \in I}
    OBVIOUS
  <2> HIDE DEF T
  <2>4. Possible(op, S, I) = Determined(CombineBoolOp(op, {T[i] : i \in I}))
    <3>1. I # {}
      BY <1>2
    <3> HIDE DEF S, I
    <3> QED BY <3>1, <2>1, <2>2, CombineExact
  <2> QED BY <2>3, <2>4
<1>6. results' = Append(front, r)
  BY DEF BoolOp
<1> HIDE DEF r
<1>7. /\ front \in Seq(Result)
      /\ Len(front) = n - k
      /\ \A i \in 1..(n - k) : front[i] = results[i]
  BY <1>1, <1>2, <1>3, SubSeqProperties
<1>8. /\ results' \in Seq(Result)
      /\ Len(results') = n - k + 1
      /\ \A i \in 1..(n - k) : results'[i] = results[i]
      /\ results'[n - k + 1] = r
  BY <1>4, <1>6, <1>7, AppendProperties
<1>9. \A i \in 1..Len(results') : results'[i].mypy = Determined(results'[i].truth)
  <2> TAKE i \in 1..Len(results')
  <2>1. CASE i \in 1..(n - k)
    <3>1. i \in 1..n
      BY <1>1, <1>2, <2>1
    <3> QED BY <2>1, <3>1, <1>8 DEF IInv, MypyExact
  <2>2. CASE i = n - k + 1
    BY <2>2, <1>5, <1>8
  <2>3. n - k \in Nat /\ i \in 1..(n - k + 1)
    BY <1>2, <1>8
  <2>4. i \in 1..(n - k) \/ i = n - k + 1
    <3> HIDE DEF n
    <3> QED BY <2>3
  <2> QED BY <2>1, <2>2, <2>4
<1> QED
  BY <1>8, <1>9 DEF IInv, TypeOK, MypyExact

LEMMA StepExact == IInv /\ [Next]_vars => IInv'
<1> SUFFICES ASSUME IInv, [Next]_vars PROVE IInv'
  OBVIOUS
<1>1. CASE NameExpr
  <2>1. PICK name \in Names :
          LET truth == CheckNameTruthValue(name)
          IN Return(truth, Determined(truth), NameAtRunTime(name))
    BY <1>1 DEF NameExpr
  <2>2. NameAtRunTime(name) \in SUBSET BOOLEAN
    BY DeterminedType DEF NameAtRunTime
  <2> QED BY <2>1, <2>2, NameType, ReturnExact
<1>2. CASE BooleanLiteral
  <2>1. PICK value \in BOOLEAN :
          LET truth == LiteralTruthValue(value)
          IN Return(truth, Determined(truth), Determined(truth))
    BY <1>2 DEF BooleanLiteral
  <2>2. LiteralTruthValue(value) \in TruthValue
    BY DEF LiteralTruthValue, TruthValue
  <2> QED BY <2>1, <2>2, DeterminedType, ReturnExact
<1>3. CASE Fallback
  <2>1. PICK truth \in {"AlwaysTrue", "AlwaysFalse", "Unknown"} :
          Return(truth, Determined(truth), Determined(truth))
    BY <1>3 DEF Fallback
  <2>2. truth \in TruthValue
    BY DEF TruthValue
  <2> QED BY <2>1, <2>2, DeterminedType, ReturnExact
<1>4. CASE Not
  BY <1>4, NotExact
<1>5. ASSUME NEW op \in {"Or", "And"}, NEW k \in 2..Len(results), BoolOp(op, k)
      PROVE  IInv'
  BY <1>5, BoolOpExact
<1>6. CASE UNCHANGED vars
  BY <1>6 DEF vars, IInv, TypeOK, MypyExact
<1> QED
  BY <1>1, <1>2, <1>3, <1>4, <1>5, <1>6 DEF Next

\* For every condition infer_condition_value is called on, its answer is the
\* exact one for mypy: true (false) if and only if the condition can only be
\* true (false) when mypy evaluates it, unknown if and only if it can be both.
THEOREM InferenceExact == Spec => []MypyExact
<1>1. Init => IInv
  BY EmptySeq DEF Init, IInv, TypeOK, MypyExact
<1>2. IInv => MypyExact
  BY DEF IInv
<1> QED
  BY <1>1, <1>2, StepExact, PTL DEF Spec
-----------------------------------------------------------------------------
(* Chains *)

\* The mark of block i is what the conditions up to it say.
Marked(i) ==
    blocks[i].unreachable <=> ~ /\ TRUE \in blocks[i].mypy
                                /\ \A j \in 1..(i - 1) : FALSE \in blocks[j].mypy
Marks == \A i \in 1..Len(blocks) : Marked(i)

\* tail_unreachable means that some condition so far cannot fail for mypy,
\* seen_mypy_false that one cannot fail at run time.
TailMeaning ==
    ~closed => (analyzer.tail_unreachable <=> \E i \in 1..Len(blocks) : FALSE \notin blocks[i].mypy)
SeenFalseMeaning ==
    analyzer.seen_mypy_false /\ (\A i \in 1..Len(blocks) : blocks[i].documented) =>
        \E i \in 1..Len(blocks) : FALSE \notin blocks[i].run

\* A block marked mypy_only closes the chain, or is its else.
MypyOnlyCloses ==
    \A i \in 1..Len(blocks) :
        blocks[i].mypy_only => analyzer.tail_unreachable \/ (closed /\ i = Len(blocks))

OnlyIfCloses == closed => form = "if"

ChainInv ==
    /\ CTypeOK
    /\ OnlyIfCloses
    /\ Marks
    /\ TailMeaning
    /\ SeenFalseMeaning
    /\ MypyOnlyCloses
    /\ MypyOnlyIsLast
    /\ MypyOnlyNotRun

CInv == IInv /\ ChainInv

\* Appending a block appends to every sequence of one of its fields.
LEMMA FieldAppend ==
    ASSUME NEW s \in Seq(Block), NEW b \in Block
    PROVE  /\ [i \in 1..Len(Append(s, b)) |-> Append(s, b)[i].mypy]
                 = Append([i \in 1..Len(s) |-> s[i].mypy], b.mypy)
           /\ [i \in 1..Len(Append(s, b)) |-> Append(s, b)[i].unreachable]
                 = Append([i \in 1..Len(s) |-> s[i].unreachable], b.unreachable)
<1>1. /\ Append(s, b) \in Seq(Block) /\ Len(s) \in Nat
      /\ Len(Append(s, b)) = Len(s) + 1
      /\ \A i \in 1..Len(s) : Append(s, b)[i] = s[i]
      /\ Append(s, b)[Len(s) + 1] = b
  BY AppendProperties, LenProperties
<1> QED
  BY <1>1

\* After the i-th of n come the last, or others of the n.
LEMMA LaterIndex ==
    ASSUME NEW n \in Nat, NEW i \in 1..n
    PROVE  \A j \in (i + 1)..(n + 1) : j = n + 1 \/ (j \in (i + 1)..n /\ j \in 1..n)
OBVIOUS

\* What a step that pushes a block must establish about the block and the
\* analyzer it leaves behind.
LEMMA PushPreserves ==
    ASSUME ChainInv, ~closed, NEW b \in Block,
           blocks' = Append(blocks, b), results' \in Seq(Result),
           analyzer' \in AnalyzerState, closed' \in BOOLEAN, form' = form,
           closed' => form = "if",
           b.unreachable <=> analyzer.tail_unreachable \/ TRUE \notin b.mypy,
           ~closed' => (analyzer'.tail_unreachable <=>
                            analyzer.tail_unreachable \/ FALSE \notin b.mypy),
           analyzer.tail_unreachable => analyzer'.tail_unreachable,
           b.mypy_only => ~b.unreachable,
           b.mypy_only => analyzer'.tail_unreachable \/ closed',
           b.mypy_only /\ b.documented => TRUE \notin b.run \/ analyzer.seen_mypy_false,
           analyzer'.seen_mypy_false /\ b.documented =>
                analyzer.seen_mypy_false \/ FALSE \notin b.run
    PROVE  ChainInv'
<1> DEFINE n == Len(blocks)
<1>1. blocks \in Seq(Block)
  BY DEF ChainInv, CTypeOK
<1>2. /\ blocks' \in Seq(Block) /\ n \in Nat
      /\ Len(blocks') = n + 1
      /\ \A i \in 1..n : blocks'[i] = blocks[i]
      /\ blocks'[n + 1] = b
  BY <1>1, AppendProperties, LenProperties
<1> HIDE DEF n
<1>3. 1..Len(blocks') = 1..n \cup {n + 1}
  BY <1>2
<1>4. CTypeOK' /\ OnlyIfCloses'
  BY <1>2 DEF ChainInv, CTypeOK, OnlyIfCloses
<1>5. analyzer.tail_unreachable <=> \E i \in 1..n : FALSE \notin blocks[i].mypy
  BY DEF ChainInv, TailMeaning, n
<1>6. Marks'
  <2> SUFFICES ASSUME NEW i \in 1..Len(blocks') PROVE Marked(i)'
    BY DEF Marks
  <2>1. CASE i \in 1..n
    <3>1. Marked(i) /\ \A j \in 1..(i - 1) : j \in 1..n
      BY <2>1, <1>2 DEF ChainInv, Marks, n
    <3> QED BY <2>1, <3>1, <1>2 DEF Marked
  <2>2. CASE i = n + 1
    <3>1. i - 1 = n
      BY <2>2, <1>2
    <3>2. (\A j \in 1..(i - 1) : FALSE \in blocks'[j].mypy) <=> ~analyzer.tail_unreachable
      BY <3>1, <1>2, <1>5
    <3> QED BY <2>2, <3>2, <1>2 DEF Marked
  <2> QED BY <1>3, <2>1, <2>2
<1>7. TailMeaning'
  BY <1>2, <1>3, <1>5 DEF TailMeaning
<1>8. SeenFalseMeaning'
  BY <1>2, <1>3, ZenonT(60) DEF ChainInv, SeenFalseMeaning, n
<1>9. \A i \in 1..n : blocks[i].mypy_only => analyzer.tail_unreachable
  BY DEF ChainInv, MypyOnlyCloses, n
<1>10. MypyOnlyCloses'
  BY <1>2, <1>3, <1>9 DEF MypyOnlyCloses
<1>11. MypyOnlyIsLast'
  <2> SUFFICES ASSUME NEW i \in 1..Len(blocks'), blocks'[i].mypy_only
               PROVE  /\ ~blocks'[i].unreachable
                      /\ \A j \in (i + 1)..Len(blocks') : blocks'[j].unreachable
    BY DEF MypyOnlyIsLast
  <2>1. CASE i \in 1..n
    <3>1. blocks[i].mypy_only /\ blocks'[n + 1].unreachable
      BY <2>1, <1>2, <1>9
    <3>2. ~blocks[i].unreachable /\ \A j \in (i + 1)..n : blocks[j].unreachable
      BY <2>1, <3>1 DEF ChainInv, MypyOnlyIsLast, n
    <3>3. \A j \in (i + 1)..(n + 1) : j = n + 1 \/ (j \in (i + 1)..n /\ j \in 1..n)
      <4>1. n \in Nat /\ i \in 1..n
        BY <2>1, <1>2
      <4> QED BY <4>1, LaterIndex
    <3> QED BY <2>1, <3>1, <3>2, <3>3, <1>2
  <2>2. CASE i = n + 1
    BY <2>2, <1>2
  <2> QED BY <1>3, <2>1, <2>2
<1>12. MypyOnlyNotRun'
  <2> SUFFICES ASSUME NEW i \in 1..Len(blocks'), blocks'[i].mypy_only,
                      \A j \in 1..i : blocks'[j].documented,
                      TRUE \in blocks'[i].run,
                      \A j \in 1..(i - 1) : FALSE \in blocks'[j].run
               PROVE  FALSE
    BY DEF MypyOnlyNotRun
  <2>1. CASE i \in 1..n
    <3>1. \A j \in 1..i : j \in 1..n
      BY <2>1, <1>2
    <3>2. \A j \in 1..(i - 1) : j \in 1..n
      BY <2>1, <1>2
    <3> QED BY <2>1, <3>1, <3>2, <1>2 DEF ChainInv, MypyOnlyNotRun, n
  <2>2. CASE i = n + 1
    <3>1. i - 1 = n /\ \A j \in 1..n : j \in 1..i
      BY <2>2, <1>2
    <3>2. b.documented /\ b.mypy_only /\ TRUE \in b.run
      BY <2>2, <1>2
    <3>3. analyzer.seen_mypy_false
      BY <3>2
    <3>4. \A j \in 1..n : blocks[j].documented
      BY <3>1, <1>2
    <3>5. PICK j \in 1..n : FALSE \notin blocks[j].run
      BY <3>3, <3>4 DEF ChainInv, SeenFalseMeaning, n
    <3> QED BY <3>1, <3>5, <1>2
  <2> QED BY <1>3, <2>1, <2>2
<1> QED
  BY <1>4, <1>6, <1>7, <1>8, <1>10, <1>11, <1>12 DEF ChainInv

\* A new block, over a condition whose value for mypy is what its truth value
\* says, and a pattern that can always match.
LEMMA NewBlockMeaning ==
    ASSUME NEW flags \in Flags, NEW r \in Result, r.mypy = Determined(r.truth),
           NEW P \in {{TRUE}, BOOLEAN}, NEW b, b = NewBlock(flags, P, r)
    PROVE  /\ b \in Block /\ b.mypy # {}
           /\ (b.unreachable <=> flags.unreachable) /\ (b.mypy_only <=> flags.mypy_only)
           /\ TRUE \in b.mypy <=> r.truth \notin FalseForMypy
           /\ FALSE \in b.mypy <=> P = BOOLEAN \/ r.truth \notin TrueForMypy
           /\ b.documented /\ r.truth = "MypyTrue" => TRUE \notin b.run
           /\ b.documented /\ r.truth = "MypyFalse" /\ P = {TRUE} => FALSE \notin b.run
<1>1. /\ TRUE \in r.mypy <=> r.truth \notin FalseForMypy
      /\ FALSE \in r.mypy <=> r.truth \notin TrueForMypy
      /\ r.mypy # {}
      /\ r.mypy \subseteq BOOLEAN /\ r.run \subseteq BOOLEAN
  <2>1. Determined(r.truth) # {}
    BY DEF Determined
  <2> QED BY <2>1, DeterminedAllows DEF Result
<1>2. ASSUME NEW Q, NEW X, X = Possible("And", <<P, Q>>, 1..2)
      PROVE  /\ X \in SUBSET BOOLEAN
             /\ TRUE \in X <=> TRUE \in Q
             /\ FALSE \in X <=> P = BOOLEAN \/ FALSE \in Q
  <2>1. /\ TRUE \in X <=> \A i \in 1..2 : TRUE \in <<P, Q>>[i]
        /\ FALSE \in X <=> \E i \in 1..2 : FALSE \in <<P, Q>>[i]
        /\ X \in SUBSET BOOLEAN
    BY <1>2 DEF Possible
  <2>2. TRUE \in P /\ (FALSE \in P <=> P = BOOLEAN)
    OBVIOUS
  <2>3. 1..2 = {1, 2} /\ <<P, Q>>[1] = P /\ <<P, Q>>[2] = Q
    OBVIOUS
  <2>4. TRUE \in X <=> TRUE \in P /\ TRUE \in Q
    BY <2>1, <2>3
  <2>5. FALSE \in X <=> FALSE \in P \/ FALSE \in Q
    BY <2>1, <2>3
  <2> QED BY <2>1, <2>2, <2>4, <2>5
<1>3. /\ b.mypy = Possible("And", <<P, r.mypy>>, 1..2)
      /\ b.run = Possible("And", <<P, r.run>>, 1..2)
      /\ b.documented = (r.run \subseteq Documented(r.truth))
      /\ b.unreachable = flags.unreachable /\ b.mypy_only = flags.mypy_only
  BY DEF NewBlock
<1>4. /\ b.mypy \in SUBSET BOOLEAN /\ b.run \in SUBSET BOOLEAN
      /\ TRUE \in b.mypy <=> TRUE \in r.mypy
      /\ FALSE \in b.mypy <=> P = BOOLEAN \/ FALSE \in r.mypy
      /\ TRUE \in b.run <=> TRUE \in r.run
      /\ FALSE \in b.run <=> P = BOOLEAN \/ FALSE \in r.run
  <2>1. /\ b.mypy \in SUBSET BOOLEAN
        /\ TRUE \in b.mypy <=> TRUE \in r.mypy
        /\ FALSE \in b.mypy <=> P = BOOLEAN \/ FALSE \in r.mypy
    <3>1. b.mypy = Possible("And", <<P, r.mypy>>, 1..2)
      BY <1>3
    <3> QED BY <1>2, <3>1
  <2>2. /\ b.run \in SUBSET BOOLEAN
        /\ TRUE \in b.run <=> TRUE \in r.run
        /\ FALSE \in b.run <=> P = BOOLEAN \/ FALSE \in r.run
    <3>1. b.run = Possible("And", <<P, r.run>>, 1..2)
      BY <1>3
    <3> QED BY <1>2, <3>1
  <2> QED BY <2>1, <2>2
<1>5. b.mypy # {}
  <2>1. TRUE \in r.mypy \/ FALSE \in r.mypy
    BY <1>1
  <2> QED BY <1>4, <2>1
<1>6. b \in Block
  <2>1. (r.run \subseteq Documented(r.truth)) \in BOOLEAN
    OBVIOUS
  <2>2. b = [unreachable |-> flags.unreachable, mypy_only |-> flags.mypy_only,
             mypy |-> b.mypy, run |-> b.run, documented |-> b.documented]
    BY <1>3 DEF NewBlock
  <2>3. flags.unreachable \in BOOLEAN /\ flags.mypy_only \in BOOLEAN /\ b.documented \in BOOLEAN
    BY <1>3, <2>1 DEF Flags
  <2> QED BY <1>4, <2>2, <2>3 DEF Block
<1>7. /\ b.documented /\ r.truth = "MypyTrue" => TRUE \notin r.run
      /\ b.documented /\ r.truth = "MypyFalse" => FALSE \notin r.run
  <2>1. Documented("MypyTrue") = {FALSE} /\ Documented("MypyFalse") = {TRUE}
    BY DEF Documented
  <2> QED BY <1>3, <2>1
<1>8. P = {TRUE} => P # BOOLEAN
  OBVIOUS
<1> QED
  BY <1>1, <1>3, <1>4, <1>5, <1>6, <1>7, <1>8

\* Pushing a block that keeps the marks right is a step of ReachableBlocks.
LEMMA PushPromise ==
    ASSUME ChainInv, ChainInv', NEW b \in Block, b.mypy # {}, blocks' = Append(blocks, b)
    PROVE  Promise!Next
<1> DEFINE vs == [i \in 1..Len(blocks) |-> blocks[i].mypy]
           us == [i \in 1..Len(blocks) |-> blocks[i].unreachable]
           n == Len(blocks)
<1>1. blocks \in Seq(Block)
  BY DEF ChainInv, CTypeOK
<1>2. /\ n \in Nat /\ Len(blocks') = n + 1
      /\ \A i \in 1..n : blocks'[i] = blocks[i]
      /\ blocks'[n + 1] = b
  BY <1>1, AppendProperties, LenProperties
<1>3. vs' = Append(vs, b.mypy) /\ us' = Append(us, b.unreachable)
  BY <1>1, FieldAppend
<1>4. \A i \in 1..Len(blocks') : Marked(i)'
  BY DEF ChainInv, Marks
<1>5. Len(vs') = n + 1 /\ \A i \in 1..(n + 1) : vs'[i] = blocks'[i].mypy
  BY <1>2
<1>6. b.unreachable <=> ~Promise!Enterable(vs')
  <2>1. /\ (n + 1) - 1 = n
        /\ n + 1 \in 1..(n + 1)
        /\ \A j \in 1..n : j \in 1..(n + 1)
    BY <1>2
  <2> HIDE DEF vs, n
  <2>2. Promise!Enterable(vs') <=> /\ TRUE \in vs'[n + 1]
                                   /\ \A j \in 1..n : FALSE \in vs'[j]
    BY <1>5, <2>1 DEF Promise!Enterable
  <2>3. \A i \in 1..(n + 1) :
          blocks'[i].unreachable <=> ~ /\ TRUE \in blocks'[i].mypy
                                       /\ \A j \in 1..(i - 1) : FALSE \in blocks'[j].mypy
    BY <1>2, <1>4 DEF Marked
  <2>4. b.unreachable <=> ~ /\ TRUE \in blocks'[n + 1].mypy
                            /\ \A j \in 1..n : FALSE \in blocks'[j].mypy
    BY <1>2, <2>1, <2>3
  <2> QED BY <1>5, <2>1, <2>2, <2>4
<1>7. b.mypy \in (SUBSET BOOLEAN) \ {{}}
  BY DEF Block
<1>8. b.unreachable = ~Promise!Enterable(vs')
  <2>1. b.unreachable \in BOOLEAN
    BY DEF Block
  <2>2. Promise!Enterable(vs') \in BOOLEAN
    BY DEF Promise!Enterable
  <2> QED BY <1>6, <2>1, <2>2
<1>9. Promise!AddBlock(b.mypy)
  BY <1>3, <1>8 DEF Promise!AddBlock
<1> QED BY <1>7, <1>9 DEF Promise!Next

\* is_always_or_mypy_false and is_always_or_mypy_true, spelled out.
LEMMA TruthSets ==
    /\ FalseForMypy = {"AlwaysFalse", "MypyFalse"}
    /\ TrueForMypy = {"AlwaysTrue", "MypyTrue"}
BY DEF FalseForMypy, TrueForMypy

\* A condition's block is marked as ReachableBlocks would, and the analyzer
\* keeps its meaning (condition_flags).
LEMMA ConditionStep ==
    ASSUME CInv, Condition
    PROVE  CInv' /\ Promise!Next
<1> DEFINE r == results[1]
           f == ConditionFlags(analyzer, r.truth)
           b == NewBlock(f, {TRUE}, r)
<1>1. r \in Result /\ r.mypy = Determined(r.truth)
  <2>1. results \in Seq(Result) /\ 1 \in 1..Len(results)
    BY DEF CInv, IInv, TypeOK, Condition
  <2> QED BY <2>1, ElementOfSeq DEF CInv, IInv, MypyExact
<1>2. /\ analyzer' = AfterCondition(analyzer, r.truth) /\ analyzer \in AnalyzerState
      /\ blocks' = Append(blocks, b) /\ results' = << >>
      /\ form' = form /\ closed' = closed /\ ~closed /\ form = "if"
  BY DEF Condition, Push, CInv, ChainInv, CTypeOK
<1>3. f \in Flags /\ analyzer' \in AnalyzerState
  BY <1>2 DEF ConditionFlags, AfterCondition, Flags, AnalyzerState
<1>4. /\ f.unreachable <=> analyzer.tail_unreachable \/ r.truth \in FalseForMypy
      /\ f.mypy_only => ~f.unreachable /\ r.truth = "MypyTrue"
  BY DEF ConditionFlags
<1>5. /\ analyzer'.tail_unreachable <=> analyzer.tail_unreachable \/ r.truth \in TrueForMypy
      /\ analyzer'.seen_mypy_false <=> analyzer.seen_mypy_false \/ r.truth = "MypyFalse"
  BY <1>2 DEF AfterCondition
<1> HIDE DEF f, b, r
<1>6. /\ b \in Block /\ b.mypy # {}
      /\ (b.unreachable <=> f.unreachable) /\ (b.mypy_only <=> f.mypy_only)
      /\ TRUE \in b.mypy <=> r.truth \notin FalseForMypy
      /\ FALSE \in b.mypy <=> r.truth \notin TrueForMypy
      /\ b.documented /\ r.truth = "MypyTrue" => TRUE \notin b.run
      /\ b.documented /\ r.truth = "MypyFalse" => FALSE \notin b.run
  <2>1. {TRUE} # BOOLEAN
    OBVIOUS
  <2>2. b = NewBlock(f, {TRUE}, r) /\ {TRUE} \in {{TRUE}, BOOLEAN}
    BY DEF b
  <2>3. /\ b \in Block /\ b.mypy # {}
        /\ (b.unreachable <=> f.unreachable) /\ (b.mypy_only <=> f.mypy_only)
        /\ TRUE \in b.mypy <=> r.truth \notin FalseForMypy
        /\ FALSE \in b.mypy <=> {TRUE} = BOOLEAN \/ r.truth \notin TrueForMypy
        /\ b.documented /\ r.truth = "MypyTrue" => TRUE \notin b.run
        /\ b.documented /\ r.truth = "MypyFalse" /\ {TRUE} = {TRUE} => FALSE \notin b.run
    BY <1>1, <1>3, <2>2, NewBlockMeaning
  <2> QED BY <2>1, <2>3
<1>7. ChainInv /\ results' \in Seq(Result) /\ closed' \in BOOLEAN /\ (closed' => form = "if")
  BY <1>2, EmptySeq DEF CInv, ChainInv, CTypeOK
<1>8. b.mypy_only => analyzer'.tail_unreachable
  BY <1>4, <1>5, <1>6, TruthSets
<1>9. ChainInv'
  BY <1>2, <1>3, <1>4, <1>5, <1>6, <1>7, <1>8, PushPreserves
<1>10. Promise!Next
  BY <1>2, <1>6, <1>7, <1>9, PushPromise
<1>11. IInv'
  BY <1>2, EmptySeq DEF IInv, TypeOK, MypyExact
<1> QED
  BY <1>9, <1>10, <1>11 DEF CInv

\* A missing guard, and the else, count as a condition that always holds.
LEMMA AlwaysResult == Always \in Result /\ Always.mypy = Determined(Always.truth)
<1>1. Determined("AlwaysTrue") = {TRUE}
  BY TruthSets DEF Determined
<1>2. Always.truth = "AlwaysTrue" /\ Always.mypy = {TRUE}
  BY DEF Always
<1>3. "AlwaysTrue" \in TruthValue /\ {TRUE} \in SUBSET BOOLEAN
  BY DEF TruthValue
<1>4. Always \in Result
  BY <1>3 DEF Always, Result
<1> QED
  BY <1>1, <1>2, <1>4

\* The else's block likewise (else_flags).
LEMMA ElseStep ==
    ASSUME CInv, Else
    PROVE  CInv' /\ Promise!Next
<1> DEFINE f == ElseFlags(analyzer)
           b == NewBlock(f, {TRUE}, Always)
<1>1. /\ analyzer' = analyzer /\ analyzer \in AnalyzerState
      /\ blocks' = Append(blocks, b) /\ results' = results
      /\ form' = form /\ closed' = TRUE /\ ~closed /\ form = "if"
  BY DEF Else, Push, CInv, ChainInv, CTypeOK
<1>2. f \in Flags
  BY <1>1 DEF ElseFlags, Flags, AnalyzerState
<1>3. /\ f.unreachable <=> analyzer.tail_unreachable
      /\ f.mypy_only => ~f.unreachable /\ analyzer.seen_mypy_false
  BY DEF ElseFlags
<1>4. Always.truth = "AlwaysTrue"
  BY DEF Always
<1> HIDE DEF f, b
<1>5. /\ b \in Block /\ b.mypy # {}
      /\ (b.unreachable <=> f.unreachable) /\ (b.mypy_only <=> f.mypy_only)
      /\ TRUE \in b.mypy
  BY <1>2, <1>4, AlwaysResult, NewBlockMeaning, TruthSets DEF b
<1>6. ChainInv /\ results' \in Seq(Result) /\ IInv'
  BY <1>1 DEF CInv, IInv, TypeOK, MypyExact
<1>7. ChainInv'
  BY <1>1, <1>3, <1>5, <1>6, PushPreserves
<1>8. Promise!Next
  BY <1>1, <1>5, <1>6, <1>7, PushPromise
<1> QED
  BY <1>6, <1>7, <1>8 DEF CInv

\* A case pushes its block and advances the analyzer, whatever its guard is.
LEMMA MatchCaseStep ==
    ASSUME CInv, form = "match", NEW r \in Result, r.mypy = Determined(r.truth),
           MatchCase(r), results' \in Seq(Result), form' = form, closed' = closed
    PROVE  ChainInv' /\ Promise!Next
<1>1. PICK irrefutable \in BOOLEAN :
        LET pattern == InferPatternValue(irrefutable)
        IN /\ Push(MatchCaseFlags(analyzer, pattern, r.truth), Determined(pattern), r)
           /\ analyzer' = AfterMatchCase(analyzer, pattern, r.truth)
  BY DEF MatchCase
<1> DEFINE p == InferPatternValue(irrefutable)
           P == Determined(p)
           f == MatchCaseFlags(analyzer, p, r.truth)
           b == NewBlock(f, P, r)
<1>2. /\ analyzer' = AfterMatchCase(analyzer, p, r.truth) /\ analyzer \in AnalyzerState
      /\ blocks' = Append(blocks, b) /\ closed = FALSE
  BY <1>1 DEF Push, CInv, ChainInv, CTypeOK, OnlyIfCloses
<1>3. f \in Flags /\ analyzer' \in AnalyzerState
  BY <1>2 DEF MatchCaseFlags, AfterMatchCase, Flags, AnalyzerState
<1>4. /\ P \in {{TRUE}, BOOLEAN} /\ p \notin FalseForMypy
      /\ P = BOOLEAN <=> p \notin TrueForMypy
  <2>1. CASE irrefutable
    <3>1. p = "AlwaysTrue" /\ P = {TRUE} /\ {TRUE} # BOOLEAN
      BY <2>1, TruthSets DEF InferPatternValue, Determined
    <3> QED BY <3>1, TruthSets
  <2>2. CASE ~irrefutable
    <3>1. p = "Unknown" /\ P = BOOLEAN
      BY <2>2, TruthSets DEF InferPatternValue, Determined
    <3> QED BY <3>1, TruthSets
  <2> QED BY <2>1, <2>2
<1>5. /\ f.unreachable <=> analyzer.tail_unreachable \/ r.truth \in FalseForMypy
      /\ f.mypy_only => ~f.unreachable /\ r.truth = "MypyTrue" /\ p \in TrueForMypy
  BY <1>4 DEF MatchCaseFlags
<1>6. /\ analyzer'.tail_unreachable <=>
             analyzer.tail_unreachable \/ (r.truth \in TrueForMypy /\ p \in TrueForMypy)
      /\ analyzer'.seen_mypy_false <=> analyzer.seen_mypy_false
  BY <1>2 DEF AfterMatchCase, AnalyzerState
<1> HIDE DEF f, b, P, p
<1>7. /\ b \in Block /\ b.mypy # {}
      /\ (b.unreachable <=> f.unreachable) /\ (b.mypy_only <=> f.mypy_only)
      /\ TRUE \in b.mypy <=> r.truth \notin FalseForMypy
      /\ FALSE \in b.mypy <=> p \notin TrueForMypy \/ r.truth \notin TrueForMypy
      /\ b.documented /\ r.truth = "MypyTrue" => TRUE \notin b.run
  <2>1. b = NewBlock(f, P, r)
    BY DEF b
  <2>2. P \in {{TRUE}, BOOLEAN}
    BY <1>4
  <2>3. /\ b \in Block /\ b.mypy # {}
        /\ (b.unreachable <=> f.unreachable) /\ (b.mypy_only <=> f.mypy_only)
        /\ TRUE \in b.mypy <=> r.truth \notin FalseForMypy
        /\ FALSE \in b.mypy <=> P = BOOLEAN \/ r.truth \notin TrueForMypy
        /\ b.documented /\ r.truth = "MypyTrue" => TRUE \notin b.run
    BY <1>3, <2>1, <2>2, NewBlockMeaning
  <2> QED BY <1>4, <2>3
<1>8. ChainInv /\ closed' \in BOOLEAN /\ ~closed /\ (closed' => form = "if")
  BY <1>2 DEF CInv
<1>9. b.mypy_only => analyzer'.tail_unreachable
  BY <1>5, <1>6, <1>7, TruthSets
<1>10. ChainInv'
  BY <1>2, <1>3, <1>5, <1>6, <1>7, <1>8, <1>9, PushPreserves
<1>11. Promise!Next
  BY <1>2, <1>7, <1>8, <1>10, PushPromise
<1> QED
  BY <1>10, <1>11

\* Every step keeps the invariant and is a step of ReachableBlocks or none.
LEMMA ChainStep == CInv /\ [CNext]_cvars => CInv' /\ [Promise!Next]_Promise!vars
<1> SUFFICES ASSUME CInv, [CNext]_cvars PROVE CInv' /\ [Promise!Next]_Promise!vars
  OBVIOUS
<1>1. CASE Infer
  <2>1. IInv'
    BY <1>1, StepExact DEF Infer, CInv
  <2>2. UNCHANGED chain
    BY <1>1 DEF Infer
  <2>3. results' \in Seq(Result)
    BY <2>1 DEF IInv, TypeOK
  <2>4. ChainInv' /\ UNCHANGED Promise!vars
    BY <2>2, <2>3 DEF CInv, ChainInv, CTypeOK, OnlyIfCloses, Marks, Marked, TailMeaning,
        SeenFalseMeaning, MypyOnlyCloses, MypyOnlyIsLast, MypyOnlyNotRun, chain, Promise!vars
  <2> QED BY <2>1, <2>4 DEF CInv
<1>2. CASE Condition
  BY <1>2, ConditionStep
<1>3. CASE Else
  BY <1>3, ElseStep
<1>4. CASE GuardedCase
  <2>1. results[1] \in Result /\ results[1].mypy = Determined(results[1].truth)
    <3>1. results \in Seq(Result) /\ 1 \in 1..Len(results)
      BY <1>4 DEF CInv, IInv, TypeOK, GuardedCase
    <3> QED BY <3>1, ElementOfSeq DEF CInv, IInv, MypyExact
  <2>2. results' = << >> /\ results' \in Seq(Result)
    BY <1>4, EmptySeq DEF GuardedCase
  <2>3. IInv'
    BY <2>2 DEF IInv, TypeOK, MypyExact
  <2>4. ChainInv' /\ Promise!Next
    BY <1>4, <2>1, <2>2, MatchCaseStep DEF GuardedCase
  <2> QED BY <2>3, <2>4 DEF CInv
<1>5. CASE Case
  <2>1. results' = results /\ results' \in Seq(Result) /\ IInv'
    BY <1>5 DEF Case, CInv, IInv, TypeOK, MypyExact
  <2>2. ChainInv' /\ Promise!Next
    BY <1>5, <2>1, AlwaysResult, MatchCaseStep DEF Case
  <2> QED BY <2>1, <2>2 DEF CInv
<1>6. CASE UNCHANGED cvars
  <2>1. results' = results /\ UNCHANGED chain
    BY <1>6 DEF cvars
  <2>2. CInv'
    BY <2>1 DEF CInv, IInv, TypeOK, MypyExact, ChainInv, CTypeOK, OnlyIfCloses, Marks, Marked,
        TailMeaning, SeenFalseMeaning, MypyOnlyCloses, MypyOnlyIsLast, MypyOnlyNotRun, chain
  <2>3. UNCHANGED Promise!vars
    BY <2>1 DEF chain, Promise!vars
  <2> QED BY <2>2, <2>3
<1> QED
  BY <1>1, <1>2, <1>3, <1>4, <1>5, <1>6 DEF CNext, Stop

\* An empty chain is an initial state of ReachableBlocks.
LEMMA ChainInit == CInit => CInv /\ Promise!Init
<1> SUFFICES ASSUME CInit PROVE CInv /\ Promise!Init
  OBVIOUS
<1>1. IInv
  BY EmptySeq DEF CInit, Init, IInv, TypeOK, MypyExact
<1>2. blocks = << >> /\ Len(blocks) = 0 /\ blocks \in Seq(Block)
  BY EmptySeq DEF CInit
<1>3. ChainInv
  <2>1. CTypeOK /\ OnlyIfCloses
    BY <1>2, EmptySeq DEF CInit, Init, CTypeOK, OnlyIfCloses, NewAnalyzer, AnalyzerState
  <2>2. ~analyzer.tail_unreachable /\ ~analyzer.seen_mypy_false
    BY DEF CInit, NewAnalyzer
  <2>3. \A i \in 1..Len(blocks) : FALSE
    BY <1>2
  <2> QED
    BY <2>1, <2>2, <2>3 DEF ChainInv, Marks, TailMeaning, SeenFalseMeaning, MypyOnlyCloses,
        MypyOnlyIsLast, MypyOnlyNotRun
<1>4. Promise!Init
  BY <1>2 DEF Promise!Init
<1> QED
  BY <1>1, <1>3, <1>4 DEF CInv

\* Every chain and every match marks as unreachable exactly the blocks that mypy
\* cannot enter: the detailed analysis implements ReachableBlocks.
THEOREM ChainImplementsPromise == CSpec => MarksReachableBlocks
<1>1. CSpec => []CInv
  BY ChainInit, ChainStep, PTL DEF CSpec
<1> QED
  BY <1>1, ChainInit, ChainStep, PTL DEF CSpec, MarksReachableBlocks, Promise!Spec

LEMMA ChainInvariant == CSpec => [](MypyOnlyIsLast /\ MypyOnlyNotRun)
<1>1. CSpec => []CInv
  BY ChainInit, ChainStep, PTL DEF CSpec
<1>2. CInv => MypyOnlyIsLast /\ MypyOnlyNotRun
  BY DEF CInv, ChainInv
<1> QED
  BY <1>1, <1>2, PTL

\* In a chain or match of any length a block marked mypy_only is one that mypy
\* can enter, and no later block is (condition_flags, else_flags,
\* match_case_flags).
THEOREM MypyOnlyEndsChain == CSpec => []MypyOnlyIsLast
  BY ChainInvariant, PTL

\* And Python does not run it, if the conditions so far are at run time what
\* their truth values are documented to be.
THEOREM MypyOnlySound == CSpec => []MypyOnlyNotRun
  BY ChainInvariant, PTL
=============================================================================
