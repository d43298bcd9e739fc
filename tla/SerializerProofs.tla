-------------------------- MODULE SerializerProofs --------------------------
(***************************************************************************)
(* For every program, however long and deep, the stack of Serializer keeps *)
(* its discipline and the context fields describe the blocks around the    *)
(* line being serialized.  The induction needs more than the fields: every *)
(* saved value must describe the blocks further out, and the open blocks   *)
(* must be all the blocks the walk is in.  On the same invariant rest the  *)
(* theorems on effects, metadata and the stream, which StreamReader reads. *)
(***************************************************************************)
EXTENDS StreamReader, SequenceTheorems, FiniteSetTheorems, WellFoundedInduction, TLAPS

Frame == [line : Nat, in_class : BOOLEAN, in_function : BOOLEAN,
          unreachable : BOOLEAN, mypy_only : BOOLEAN]

LineType == [kind : Kinds, depth : Nat, truth : TruthValue]

\* The lines whose blocks set each context field.
ClassLines    == {h \in Lines : Kind(h) = "class"}
FunctionLines == {h \in Lines : Kind(h) \in Funcs}
UnreachableLines ==
    {h \in Lines : Kind(h) \in Branches /\ BranchFlags(h).unreachable}
MypyOnlyLines ==
    {h \in Lines : Kind(h) \in Branches /\ BranchFlags(h).mypy_only}

\* One of the outermost n open blocks is that of a line of S.
Around(S, blocks, n) == \E j \in 1..n : blocks[j].line \in S

TypeInv ==
    /\ prog \in Seq(LineType)
    /\ phase \in {"parse", "serialize", "done"}
    /\ stop \in 0..Len(prog)
    /\ pos \in 1..(Len(prog) + 1)
    /\ frames \in Seq(Frame)
    /\ in_class \in BOOLEAN
    /\ in_function \in BOOLEAN
    /\ current_unreachable \in BOOLEAN
    /\ current_mypy_only \in BOOLEAN
    /\ top_level_getattr \in BOOLEAN

\* Nothing is open before the tree is complete.
ParseInv == phase = "parse" => frames = << >> /\ pos = 1 /\ stop = 0

\* The walk has not left the block of any open frame.
StackInv ==
    \A i \in 1..Len(frames) :
        /\ frames[i].line \in 1..(pos - 1)
        /\ Depth(frames[i].line) = i - 1
        /\ \A q \in (frames[i].line + 1)..(pos - 1) : Depth(q) >= i

FieldsInv ==
    /\ in_class <=> Around(ClassLines, frames, Len(frames))
    /\ in_function <=> Around(FunctionLines, frames, Len(frames))
    /\ current_unreachable <=> Around(UnreachableLines, frames, Len(frames))
    /\ current_mypy_only <=> Around(MypyOnlyLines, frames, Len(frames))

SavedInv ==
    \A i \in 1..Len(frames) :
        /\ frames[i].in_class <=> Around(ClassLines, frames, i - 1)
        /\ frames[i].in_function <=> Around(FunctionLines, frames, i - 1)
        /\ frames[i].unreachable <=> Around(UnreachableLines, frames, i - 1)
        /\ frames[i].mypy_only <=> Around(MypyOnlyLines, frames, i - 1)

IInv == TypeInv /\ ParseInv /\ StackInv /\ FieldsInv /\ SavedInv
-----------------------------------------------------------------------------
\* The tree alone determines what the blocks of its lines contribute.
LEMMA SameTree ==
    ASSUME prog' = prog
    PROVE  /\ Lines' = Lines
           /\ ClassLines' = ClassLines
           /\ FunctionLines' = FunctionLines
           /\ UnreachableLines' = UnreachableLines
           /\ MypyOnlyLines' = MypyOnlyLines
<1>1. Analyzer' = Analyzer
  BY SMT DEF Analyzer, Lines, Kind, Previous, Highest, Depth
<1>2. Lines' = Lines
  BY DEF Lines
<1>3. ClassLines' = ClassLines /\ FunctionLines' = FunctionLines
  BY DEF ClassLines, FunctionLines, Lines, Kind
<1>4. ASSUME NEW h
      PROVE  BranchFlags(h)' = BranchFlags(h)
  BY <1>1 DEF BranchFlags, Kind, Previous, Highest, Depth
<1>5. UnreachableLines' = UnreachableLines
  BY <1>4, <1>2 DEF UnreachableLines, Kind
<1>6. MypyOnlyLines' = MypyOnlyLines
  BY <1>4, <1>2 DEF MypyOnlyLines, Kind
<1> QED
  BY <1>2, <1>3, <1>5, <1>6
-----------------------------------------------------------------------------
(* Blocks opened and closed. *)

LEMMA AroundOpened ==
    ASSUME NEW blocks \in Seq(Frame), NEW f \in Frame, NEW S
    PROVE  /\ \A i \in 0..Len(blocks) :
                 Around(S, Append(blocks, f), i) <=> Around(S, blocks, i)
           /\ Around(S, Append(blocks, f), Len(blocks) + 1)
                <=> Around(S, blocks, Len(blocks)) \/ f.line \in S
<1>1. \A j \in 1..Len(blocks) : Append(blocks, f)[j] = blocks[j]
  OBVIOUS
<1>2. Append(blocks, f)[Len(blocks) + 1] = f
  OBVIOUS
<1>3. Len(blocks) \in Nat
  OBVIOUS
<1>4. ASSUME NEW i \in 0..Len(blocks)
      PROVE  Around(S, Append(blocks, f), i) <=> Around(S, blocks, i)
  <2>1. \A j \in 1..i : Append(blocks, f)[j] = blocks[j]
    BY <1>1, <1>3
  <2> QED
    BY <2>1 DEF Around
<1>5. Around(S, Append(blocks, f), Len(blocks) + 1)
        <=> Around(S, blocks, Len(blocks)) \/ f.line \in S
  <2>1. 1..(Len(blocks) + 1) = (1..Len(blocks)) \cup {Len(blocks) + 1}
    BY <1>3
  <2> HIDE DEF Around
  <2>2. Around(S, Append(blocks, f), Len(blocks) + 1)
          <=> \/ \E j \in 1..Len(blocks) : Append(blocks, f)[j].line \in S
              \/ Append(blocks, f)[Len(blocks) + 1].line \in S
    BY <2>1, Zenon DEF Around
  <2> QED
    BY <2>2, <1>1, <1>2 DEF Around
<1> QED
  BY <1>4, <1>5

LEMMA AroundClosed ==
    ASSUME NEW blocks \in Seq(Frame), blocks # << >>, NEW S
    PROVE  \A i \in 0..(Len(blocks) - 1) :
              Around(S, SubSeq(blocks, 1, Len(blocks) - 1), i) <=> Around(S, blocks, i)
<1>1. Len(blocks) \in Nat /\ Len(blocks) >= 1
  OBVIOUS
<1>2. \A j \in 1..(Len(blocks) - 1) :
         SubSeq(blocks, 1, Len(blocks) - 1)[j] = blocks[j]
  BY <1>1
<1>3. ASSUME NEW i \in 0..(Len(blocks) - 1)
      PROVE  \A j \in 1..i : SubSeq(blocks, 1, Len(blocks) - 1)[j] = blocks[j]
  BY <1>1, <1>2
<1> QED
  BY <1>3 DEF Around

LEMMA TreeType ==
    ASSUME IInv
    PROVE  /\ Len(prog) \in Nat /\ Len(frames) \in Nat /\ Lines = 1..Len(prog)
           /\ \A q \in Lines : Depth(q) \in Nat
           /\ pos \in Nat
<1>1. prog \in Seq(LineType) /\ frames \in Seq(Frame) /\ pos \in 1..(Len(prog) + 1)
  BY DEF IInv, TypeInv
<1>2. \A q \in 1..Len(prog) : prog[q] \in LineType
  BY <1>1
<1> QED
  BY <1>1, <1>2 DEF Lines, Depth, LineType

\* The lines around the next one are exactly those of the open frames.
LEMMA OpenBlocksEnclose ==
    ASSUME IInv, pos \in Lines, Depth(pos) = Len(frames), NEW S \in SUBSET Lines
    PROVE  (\E h \in Lines : Inside(h, pos) /\ h \in S)
             <=> Around(S, frames, Len(frames))
<1>0. /\ Len(prog) \in Nat /\ Len(frames) \in Nat /\ Lines = 1..Len(prog)
      /\ \A q \in Lines : Depth(q) \in Nat
      /\ pos \in Nat
  BY TreeType
<1> USE DEF IInv, StackInv
<1>1. ASSUME NEW h \in Lines, Inside(h, pos)
      PROVE  Depth(h) + 1 \in 1..Len(frames) /\ frames[Depth(h) + 1].line = h
  <2>1. /\ h < pos
        /\ \A q \in (h + 1)..pos : Depth(q) > Depth(h)
    BY <1>1 DEF Inside
  <2>2. Depth(h) + 1 \in 1..Len(frames)
    BY <2>1, <1>0
  <2> DEFINE g == frames[Depth(h) + 1].line
  <2>3. /\ g \in 1..(pos - 1)
        /\ Depth(g) = Depth(h)
        /\ \A q \in (g + 1)..(pos - 1) : Depth(q) >= Depth(h) + 1
    BY <2>2, <1>0
  <2>4. ~(g > h)
    BY <2>1, <2>3, <1>0
  <2>5. ASSUME g < h
        PROVE  FALSE
    <3>1. h \in (g + 1)..(pos - 1)
      BY <2>1, <2>3, <2>5, <1>0
    <3>2. Depth(h) >= Depth(h) + 1
      BY <2>3, <3>1
    <3> QED
      BY <3>2, <1>0
  <2> QED
    BY <2>2, <2>3, <2>4, <2>5, <1>0
<1>2. ASSUME NEW i \in 1..Len(frames)
      PROVE  frames[i].line \in Lines /\ Inside(frames[i].line, pos)
  <2>1. /\ frames[i].line \in 1..(pos - 1)
        /\ Depth(frames[i].line) = i - 1
        /\ \A q \in (frames[i].line + 1)..(pos - 1) : Depth(q) >= i
    BY <1>2
  <2>2. \A q \in (frames[i].line + 1)..pos : Depth(q) > i - 1
    BY <2>1, <1>0
  <2> QED
    BY <2>1, <2>2, <1>0 DEF Inside
<1> QED
  BY <1>0, <1>1, <1>2 DEF Around
-----------------------------------------------------------------------------
(* The actions. *)

\* A step within the innermost block: what it passes is at least as deep.
LEMMA Within ==
    ASSUME IInv, phase = "serialize", phase' = "serialize",
           UNCHANGED <<prog, stop, frames, context>>,
           top_level_getattr' \in BOOLEAN,
           pos' \in pos..(Len(prog) + 1),
           \A q \in pos..(pos' - 1) : Depth(q) >= Len(frames)
    PROVE  IInv'
<1>0. /\ Len(prog) \in Nat /\ Len(frames) \in Nat /\ Lines = 1..Len(prog)
      /\ \A q \in Lines : Depth(q) \in Nat
      /\ pos \in Nat
  BY TreeType
<1>1. TypeInv'
  BY <1>0 DEF IInv, TypeInv, context
<1>2. ParseInv'
  BY DEF ParseInv
<1>3. StackInv'
  <2> SUFFICES ASSUME NEW i \in 1..Len(frames)
               PROVE  /\ frames[i].line \in 1..(pos' - 1)
                      /\ Depth(frames[i].line) = i - 1
                      /\ \A q \in (frames[i].line + 1)..(pos' - 1) : Depth(q) >= i
    BY DEF StackInv, Depth
  <2>1. /\ frames[i].line \in 1..(pos - 1)
        /\ Depth(frames[i].line) = i - 1
        /\ \A q \in (frames[i].line + 1)..(pos - 1) : Depth(q) >= i
    BY DEF IInv, StackInv
  <2> DEFINE g == frames[i].line
             next == pos'
  <2>2. /\ next \in Nat /\ pos <= next /\ next <= Len(prog) + 1
        /\ g \in Nat /\ 1 <= g /\ g < pos /\ i \in Nat /\ i <= Len(frames)
    BY <2>1, <1>0
  <2>3. /\ Depth(g) = i - 1
        /\ \A q \in (g + 1)..(pos - 1) : Depth(q) >= i
        /\ \A q \in pos..(next - 1) : Depth(q) >= Len(frames)
    BY <2>1
  <2> HIDE DEF g, next
  <2>4. ASSUME NEW q \in (g + 1)..(next - 1)
        PROVE  Depth(q) >= i
    <3>1. q \in Nat /\ 1 <= q /\ q <= Len(prog)
      BY <2>2, <1>0
    <3>2. Depth(q) \in Nat
      BY <3>1, <1>0
    <3>3. CASE q < pos
      <4>1. q \in (g + 1)..(pos - 1)
        BY <3>1, <3>3, <2>2, <1>0
      <4> QED
        BY <4>1, <2>3
    <3>4. CASE ~(q < pos)
      <4>1. q \in pos..(next - 1)
        BY <3>1, <3>4, <2>2, <1>0
      <4>2. Depth(q) >= Len(frames)
        BY <4>1, <2>3
      <4> QED
        BY <4>2, <3>2, <2>2, <1>0
    <3> QED
      BY <3>3, <3>4
  <2>5. g \in 1..(next - 1)
    BY <2>2, <1>0
  <2> QED
    BY <2>3, <2>4, <2>5 DEF g, next
<1>4. FieldsInv' /\ SavedInv'
  <2>1. \A S, n : Around(S, frames, n)' <=> Around(S', frames, n')
    BY DEF Around
  <2> QED
    BY SameTree DEF IInv, FieldsInv, SavedInv, context, Around
<1> QED
  BY <1>1, <1>2, <1>3, <1>4 DEF IInv

\* A block opened at the next line, in the context its kind asks for.
LEMMA Opened ==
    ASSUME IInv, At(Kinds \cup Headers \cup Clauses),
           NEW class, NEW function, NEW flags,
           OpenBlock(class, function, flags),
           class \in BOOLEAN, function \in BOOLEAN,
           class <=> in_class \/ pos \in ClassLines,
           function <=> in_function \/ pos \in FunctionLines,
           flags.unreachable <=> pos \in UnreachableLines,
           flags.mypy_only <=> pos \in MypyOnlyLines,
           top_level_getattr' \in BOOLEAN
    PROVE  IInv'
<1> DEFINE f == [line |-> pos, in_class |-> in_class, in_function |-> in_function,
                 unreachable |-> current_unreachable, mypy_only |-> current_mypy_only]
           n == Len(frames)
<1>0. /\ Len(prog) \in Nat /\ n \in Nat /\ Lines = 1..Len(prog)
      /\ \A q \in Lines : Depth(q) \in Nat
      /\ pos \in Nat
  BY TreeType
<1>1. /\ frames \in Seq(Frame) /\ f \in Frame
      /\ stop \in 0..Len(prog) /\ pos \in 1..(Len(prog) + 1)
      /\ prog \in Seq(LineType)
  BY <1>0 DEF IInv, TypeInv, Frame
<1>2. phase = "serialize" /\ pos <= stop /\ Depth(pos) = n
  BY DEF At
<1>3. /\ frames' = Append(frames, f) /\ pos' = pos + 1
      /\ UNCHANGED <<prog, phase, stop>>
      /\ in_class' = class /\ in_function' = function
      /\ current_unreachable' = (current_unreachable \/ flags.unreachable)
      /\ current_mypy_only' = (current_mypy_only \/ flags.mypy_only)
  BY DEF OpenBlock, WithBranchFlags
<1> HIDE DEF f
<1>4. /\ Len(frames') = n + 1
      /\ \A i \in 1..n : frames'[i] = frames[i]
      /\ frames'[n + 1] = f
  BY <1>1, <1>3
<1>5. TypeInv'
  <2>1. frames' \in Seq(Frame)
    BY <1>1, <1>3
  <2>2. pos' \in 1..(Len(prog) + 1)
    BY <1>0, <1>1, <1>2, <1>3
  <2>3. /\ in_class' \in BOOLEAN /\ in_function' \in BOOLEAN
        /\ current_unreachable' \in BOOLEAN /\ current_mypy_only' \in BOOLEAN
    BY <1>3
  <2> QED
    BY <2>1, <2>2, <2>3, <1>1, <1>2, <1>3 DEF TypeInv
<1>6. ParseInv'
  BY <1>2, <1>3 DEF ParseInv
<1>7. StackInv'
  <2> SUFFICES ASSUME NEW i \in 1..(n + 1)
               PROVE  /\ frames'[i].line \in 1..pos
                      /\ Depth(frames'[i].line) = i - 1
                      /\ \A q \in (frames'[i].line + 1)..pos : Depth(q) >= i
    BY <1>0, <1>3, <1>4 DEF StackInv, Depth
  <2>1. CASE i = n + 1
    <3>1. frames'[i].line = pos
      BY <2>1, <1>4 DEF f
    <3> QED
      BY <3>1, <2>1, <1>0, <1>1, <1>2
  <2>2. CASE i \in 1..n
    <3>1. /\ frames[i].line \in 1..(pos - 1)
          /\ Depth(frames[i].line) = i - 1
          /\ \A q \in (frames[i].line + 1)..(pos - 1) : Depth(q) >= i
      BY <2>2 DEF IInv, StackInv
    <3>2. frames'[i] = frames[i]
      BY <2>2, <1>4
    <3> QED
      BY <3>1, <3>2, <2>2, <1>0, <1>2
  <2> QED
    BY <2>1, <2>2, <1>0
<1>8. /\ ClassLines' = ClassLines /\ FunctionLines' = FunctionLines
      /\ UnreachableLines' = UnreachableLines /\ MypyOnlyLines' = MypyOnlyLines
  BY <1>3, SameTree
<1>9. \A S : /\ \A i \in 0..n : Around(S, frames', i) <=> Around(S, frames, i)
             /\ Around(S, frames', n + 1) <=> Around(S, frames, n) \/ pos \in S
  <2>1. f.line = pos
    BY DEF f
  <2> QED
    BY <2>1, <1>1, <1>3, AroundOpened
<1>10. FieldsInv'
  <2>1. /\ in_class <=> Around(ClassLines, frames, n)
        /\ in_function <=> Around(FunctionLines, frames, n)
        /\ current_unreachable <=> Around(UnreachableLines, frames, n)
        /\ current_mypy_only <=> Around(MypyOnlyLines, frames, n)
    BY DEF IInv, FieldsInv
  <2>2. /\ in_class' <=> Around(ClassLines, frames', n + 1)
        /\ in_function' <=> Around(FunctionLines, frames', n + 1)
        /\ current_unreachable' <=> Around(UnreachableLines, frames', n + 1)
        /\ current_mypy_only' <=> Around(MypyOnlyLines, frames', n + 1)
    BY <2>1, <1>3, <1>9
  <2> QED
    BY <2>2, <1>4, <1>8 DEF FieldsInv, Around
<1>11. SavedInv'
  <2> SUFFICES ASSUME NEW i \in 1..(n + 1)
               PROVE  /\ frames'[i].in_class <=> Around(ClassLines, frames', i - 1)
                      /\ frames'[i].in_function <=> Around(FunctionLines, frames', i - 1)
                      /\ frames'[i].unreachable <=> Around(UnreachableLines, frames', i - 1)
                      /\ frames'[i].mypy_only <=> Around(MypyOnlyLines, frames', i - 1)
    BY <1>4, <1>8 DEF SavedInv, Around
  <2>0. i - 1 \in 0..n
    BY <1>0
  <2>1. CASE i = n + 1
    <3>1. /\ f.in_class = in_class /\ f.in_function = in_function
          /\ f.unreachable = current_unreachable /\ f.mypy_only = current_mypy_only
      BY DEF f
    <3>2. /\ in_class <=> Around(ClassLines, frames, n)
          /\ in_function <=> Around(FunctionLines, frames, n)
          /\ current_unreachable <=> Around(UnreachableLines, frames, n)
          /\ current_mypy_only <=> Around(MypyOnlyLines, frames, n)
      BY DEF IInv, FieldsInv
    <3>3. frames'[i] = f /\ i - 1 = n
      BY <2>1, <1>0, <1>4
    <3> QED
      BY <3>1, <3>2, <3>3, <2>0, <1>9
  <2>2. CASE i \in 1..n
    <3>1. /\ frames[i].in_class <=> Around(ClassLines, frames, i - 1)
          /\ frames[i].in_function <=> Around(FunctionLines, frames, i - 1)
          /\ frames[i].unreachable <=> Around(UnreachableLines, frames, i - 1)
          /\ frames[i].mypy_only <=> Around(MypyOnlyLines, frames, i - 1)
      BY <2>2 DEF IInv, SavedInv
    <3>2. frames'[i] = frames[i]
      BY <2>2, <1>4
    <3> QED
      BY <3>1, <3>2, <2>0, <1>9
  <2> QED
    BY <2>1, <2>2, <1>0
<1> QED
  BY <1>5, <1>6, <1>7, <1>10, <1>11 DEF IInv

LEMMA Closed ==
    ASSUME IInv, EndBlock
    PROVE  IInv'
<1> DEFINE n == Len(frames)
<1>0. /\ Len(prog) \in Nat /\ n \in Nat /\ Lines = 1..Len(prog)
      /\ pos \in Nat
  BY TreeType
<1>1. /\ frames \in Seq(Frame) /\ frames # << >> /\ n >= 1 /\ frames[n] \in Frame
  <2>1. frames \in Seq(Frame) /\ frames # << >>
    BY DEF IInv, TypeInv, EndBlock
  <2> QED
    BY <2>1
<1>2. /\ frames' = SubSeq(frames, 1, n - 1)
      /\ UNCHANGED <<prog, phase, stop, pos, top_level_getattr>>
      /\ phase = "serialize"
      /\ in_class' = frames[n].in_class /\ in_function' = frames[n].in_function
      /\ current_unreachable' = frames[n].unreachable
      /\ current_mypy_only' = frames[n].mypy_only
  BY DEF EndBlock, Restore
<1>3. /\ Len(frames') = n - 1
      /\ \A i \in 1..(n - 1) : frames'[i] = frames[i]
      /\ frames' \in Seq(Frame)
  <2>1. \A i \in 1..(n - 1) : frames[i] \in Frame
    BY <1>0, <1>1
  <2>2. /\ SubSeq(frames, 1, n - 1) \in Seq(Frame)
        /\ Len(SubSeq(frames, 1, n - 1)) = IF 1 <= n - 1 THEN (n - 1) - 1 + 1 ELSE 0
        /\ \A i \in 1..((n - 1) - 1 + 1) : SubSeq(frames, 1, n - 1)[i] = frames[1 + i - 1]
    BY <2>1, <1>0, SubSeqProperties
  <2>3. Len(SubSeq(frames, 1, n - 1)) = n - 1
    <3>1. Len(SubSeq(frames, 1, n - 1)) = IF 1 <= n - 1 THEN (n - 1) - 1 + 1 ELSE 0
      BY <2>2
    <3>2. (IF 1 <= n - 1 THEN (n - 1) - 1 + 1 ELSE 0) = n - 1
      <4>1. n \in Nat /\ n >= 1
        BY <1>0, <1>1
      <4> HIDE DEF n
      <4> QED
        BY <4>1
    <3> QED
      BY <3>1, <3>2
  <2>4. ASSUME NEW i \in 1..(n - 1)
        PROVE  SubSeq(frames, 1, n - 1)[i] = frames[i]
    <3>1. i \in 1..((n - 1) - 1 + 1) /\ 1 + i - 1 = i
      BY <1>0
    <3> QED
      BY <2>2, <3>1
  <2> QED
    BY <2>2, <2>3, <2>4, <1>2
<1>4. TypeInv'
  BY <1>1, <1>2, <1>3 DEF IInv, TypeInv, Frame
<1>5. ParseInv'
  BY <1>2 DEF ParseInv
<1>6. StackInv'
  <2>1. ASSUME NEW i \in 1..(n - 1)
        PROVE  /\ frames'[i].line \in 1..(pos - 1)
               /\ Depth(frames'[i].line) = i - 1
               /\ \A q \in (frames'[i].line + 1)..(pos - 1) : Depth(q) >= i
    <3>1. i \in 1..n /\ frames'[i] = frames[i]
      BY <1>0, <1>3
    <3> QED
      BY <3>1 DEF IInv, StackInv
  <2> QED
    BY <2>1, <1>2, <1>3 DEF StackInv, Depth
<1>7. /\ ClassLines' = ClassLines /\ FunctionLines' = FunctionLines
      /\ UnreachableLines' = UnreachableLines /\ MypyOnlyLines' = MypyOnlyLines
  BY <1>2, SameTree
<1>8. \A S : \A i \in 0..(n - 1) : Around(S, frames', i) <=> Around(S, frames, i)
  BY <1>1, <1>2, AroundClosed
<1>9. \A i \in 1..n :
         /\ frames[i].in_class <=> Around(ClassLines, frames, i - 1)
         /\ frames[i].in_function <=> Around(FunctionLines, frames, i - 1)
         /\ frames[i].unreachable <=> Around(UnreachableLines, frames, i - 1)
         /\ frames[i].mypy_only <=> Around(MypyOnlyLines, frames, i - 1)
  BY DEF IInv, SavedInv
<1>10. FieldsInv'
  <2>1. n \in 1..n /\ n - 1 \in 0..(n - 1)
    BY <1>0, <1>1
  <2>2. /\ in_class' <=> Around(ClassLines, frames', n - 1)
        /\ in_function' <=> Around(FunctionLines, frames', n - 1)
        /\ current_unreachable' <=> Around(UnreachableLines, frames', n - 1)
        /\ current_mypy_only' <=> Around(MypyOnlyLines, frames', n - 1)
    BY <2>1, <1>2, <1>8, <1>9
  <2> QED
    BY <2>2, <1>3, <1>7 DEF FieldsInv, Around
<1>11. SavedInv'
  <2>1. ASSUME NEW i \in 1..(n - 1)
        PROVE  /\ frames'[i].in_class <=> Around(ClassLines, frames', i - 1)
               /\ frames'[i].in_function <=> Around(FunctionLines, frames', i - 1)
               /\ frames'[i].unreachable <=> Around(UnreachableLines, frames', i - 1)
               /\ frames'[i].mypy_only <=> Around(MypyOnlyLines, frames', i - 1)
    <3>1. i \in 1..n /\ i - 1 \in 0..(n - 1) /\ frames'[i] = frames[i]
      BY <1>0, <1>3
    <3> QED
      BY <3>1, <1>8, <1>9
  <2> QED
    BY <2>1, <1>3, <1>7 DEF SavedInv, Around
<1> QED
  BY <1>4, <1>5, <1>6, <1>10, <1>11 DEF IInv

LEMMA Parsed ==
    ASSUME IInv, AddLine
    PROVE  IInv'
<1>1. PICK kind \in Kinds, depth \in Nat, truth \in TruthValue :
         prog' = Append(prog, [kind |-> kind, depth |-> depth, truth |-> truth])
  <2>1. PICK v \in Vocabularies : \E kind \in v.kinds, depth \in 0..v.depth,
          truth \in v.truths \cup {"Unknown"} :
            prog' = Append(prog, [kind |-> kind, depth |-> depth, truth |-> truth])
    BY DEF AddLine
  <2>2. /\ v.kinds \subseteq Kinds /\ v.truths \subseteq TruthValue
        /\ v.depth \in Nat /\ "Unknown" \in TruthValue
    BY SerializerAssumption DEF TruthValue
  <2> QED
    BY <2>1, <2>2
<1>2. prog' \in Seq(LineType) /\ Len(prog') = Len(prog) + 1 /\ Len(prog) \in Nat
  BY <1>1, SerializerAssumption DEF LineType, IInv, TypeInv
<1>3. /\ frames = << >> /\ pos = 1 /\ stop = 0
      /\ UNCHANGED <<phase, stop, pos, frames, context, top_level_getattr>>
  BY DEF IInv, ParseInv, AddLine
<1>4. Len(frames) = 0
  BY <1>3
<1>5. ~in_class /\ ~in_function /\ ~current_unreachable /\ ~current_mypy_only
  BY <1>4 DEF IInv, FieldsInv, Around
<1>6. TypeInv'
  BY <1>2, <1>3 DEF IInv, TypeInv, context
<1>7. ParseInv' /\ StackInv'
  BY <1>3, <1>4 DEF IInv, ParseInv, StackInv
<1>8. FieldsInv' /\ SavedInv'
  BY <1>3, <1>4, <1>5 DEF FieldsInv, SavedInv, Around, context
<1> QED
  BY <1>6, <1>7, <1>8 DEF IInv
-----------------------------------------------------------------------------
(* The specification. *)

LEMMA InitInvariant == Init => IInv
<1> SUFFICES ASSUME Init PROVE IInv
  OBVIOUS
<1>1. prog = << >> /\ frames = << >> /\ Len(frames) = 0 /\ Len(prog) = 0
  BY DEF Init
<1>2. TypeInv
  <2>1. prog \in Seq(LineType) /\ frames \in Seq(Frame)
    BY <1>1
  <2>2. stop \in 0..Len(prog) /\ pos \in 1..(Len(prog) + 1)
    BY <1>1 DEF Init
  <2> QED
    BY <2>1, <2>2 DEF Init, TypeInv
<1>3. ParseInv /\ StackInv
  BY <1>1 DEF Init, ParseInv, StackInv
<1>4. FieldsInv /\ SavedInv
  BY <1>1 DEF Init, FieldsInv, SavedInv, Around
<1> QED
  BY <1>2, <1>3, <1>4 DEF IInv

\* The kinds of header set no field but their own.
LEMMA KindSetsField ==
    ASSUME IInv, pos \in Lines
    PROVE  /\ pos \in ClassLines <=> Kind(pos) = "class"
           /\ pos \in FunctionLines <=> Kind(pos) \in Funcs
           /\ pos \in UnreachableLines <=>
                Kind(pos) \in Branches /\ BranchFlags(pos).unreachable
           /\ pos \in MypyOnlyLines <=>
                Kind(pos) \in Branches /\ BranchFlags(pos).mypy_only
  BY DEF ClassLines, FunctionLines, UnreachableLines, MypyOnlyLines

LEMMA StepInvariant == IInv /\ [Next]_vars => IInv'
<1> SUFFICES ASSUME IInv, [Next]_vars PROVE IInv'
  OBVIOUS
<1>0. /\ Len(prog) \in Nat /\ Len(frames) \in Nat /\ Lines = 1..Len(prog)
      /\ \A q \in Lines : Depth(q) \in Nat
      /\ pos \in Nat
  BY TreeType
<1>t. /\ stop \in 0..Len(prog) /\ pos \in 1..(Len(prog) + 1)
      /\ in_class \in BOOLEAN /\ in_function \in BOOLEAN
      /\ top_level_getattr \in BOOLEAN
  BY DEF IInv, TypeInv
<1>a. ASSUME NEW kinds, At(kinds)
      PROVE  /\ phase = "serialize" /\ pos \in Lines /\ Depth(pos) = Len(frames)
             /\ Kind(pos) \in kinds
  BY <1>a, <1>0, <1>t DEF At
<1>b. ASSUME NEW kinds, At(kinds), pos' = pos + 1, phase' = phase,
             UNCHANGED <<prog, stop, frames, context>>,
             top_level_getattr' \in BOOLEAN
      PROVE  IInv'
  <2>1. pos' \in pos..(Len(prog) + 1) /\ \A q \in pos..(pos' - 1) : q = pos
    BY <1>a, <1>b, <1>0
  <2>2. \A q \in pos..(pos' - 1) : Depth(q) >= Len(frames)
    BY <2>1, <1>a, <1>b, <1>0
  <2> QED
    BY <2>1, <2>2, <1>a, <1>b, Within
<1>c. ASSUME NEW kinds, At(kinds)
      PROVE  At(Kinds \cup Headers \cup Clauses)
  <2>1. Kind(pos) \in Kinds
    <3>1. prog \in Seq(LineType) /\ pos \in 1..Len(prog)
      BY <1>a, <1>c, <1>0 DEF IInv, TypeInv
    <3>2. prog[pos] \in LineType
      BY <3>1
    <3> QED
      BY <3>2 DEF Kind, LineType
  <2> QED
    BY <2>1, <1>c DEF At
<1>1. CASE AddLine
  BY <1>1, Parsed
<1>2. CASE StartModule
  <2>1. /\ phase' = "serialize" /\ stop' \in 0..Len(prog)
        /\ UNCHANGED <<prog, pos, frames, context, top_level_getattr>>
    BY <1>2 DEF StartModule
  <2>2. TypeInv'
    BY <2>1 DEF IInv, TypeInv, context
  <2>3. ParseInv' /\ StackInv'
    BY <2>1 DEF IInv, ParseInv, StackInv, Depth
  <2>4. FieldsInv' /\ SavedInv'
    BY <2>1, SameTree DEF IInv, FieldsInv, SavedInv, context, Around
  <2> QED
    BY <2>2, <2>3, <2>4 DEF IInv
<1>3. CASE SimpleStmt
  BY <1>3, <1>b, <1>t DEF SimpleStmt
<1>4. CASE ImportStmt
  BY <1>4, <1>b, <1>t DEF ImportStmt
<1>5. CASE Match
  BY <1>5, <1>b, <1>t DEF Match
<1>6. CASE FunctionDef
  <2>1. /\ At(Funcs) /\ OpenBlock(in_class, TRUE, NoFlags)
        /\ top_level_getattr' \in BOOLEAN
    BY <1>6 DEF FunctionDef, NoteGetattr
  <2>2. pos \in FunctionLines /\ pos \notin ClassLines
        /\ pos \notin UnreachableLines /\ pos \notin MypyOnlyLines
    BY <2>1, <1>a, KindSetsField DEF Funcs, Branches, Cases
  <2>3. ~NoFlags.unreachable /\ ~NoFlags.mypy_only
    BY DEF NoFlags
  <2> QED
    BY <2>1, <2>2, <2>3, <1>c, <1>t, Opened
<1>7. CASE FunctionOmitted
  <2>1. PICK last \in pos..Len(prog) : Body(pos) = (pos + 1)..last /\ pos' = last + 1
    BY <1>7 DEF FunctionOmitted
  <2>2. /\ At(Funcs) /\ phase' = phase /\ UNCHANGED <<prog, stop, frames, context>>
        /\ top_level_getattr' \in BOOLEAN
    BY <1>7 DEF FunctionOmitted, NoteGetattr
  <2>3. pos' \in pos..(Len(prog) + 1)
    BY <2>1, <1>0
  <2>4. ASSUME NEW q \in pos..(pos' - 1)
        PROVE  Depth(q) >= Len(frames)
    <3>1. CASE q = pos
      BY <3>1, <2>2, <1>a, <1>0
    <3>2. CASE q # pos
      <4>1. q \in (pos + 1)..last /\ q \in Lines
        BY <3>2, <2>1, <1>0
      <4>2. Inside(pos, q)
        BY <4>1, <2>1 DEF Body
      <4>3. Depth(q) > Depth(pos)
        BY <4>1, <4>2, <1>0 DEF Inside
      <4> QED
        BY <4>1, <4>3, <2>2, <1>a, <1>0
    <3> QED
      BY <3>1, <3>2
  <2> QED
    BY <2>2, <2>3, <2>4, <1>a, Within
<1>8. CASE ClassDef
  <2>1. /\ At({"class"}) /\ OpenBlock(TRUE, in_function, NoFlags)
        /\ top_level_getattr' = top_level_getattr
    BY <1>8 DEF ClassDef
  <2>2. pos \in ClassLines /\ pos \notin FunctionLines
        /\ pos \notin UnreachableLines /\ pos \notin MypyOnlyLines
    BY <2>1, <1>a, KindSetsField DEF Funcs, Branches, Cases
  <2>3. ~NoFlags.unreachable /\ ~NoFlags.mypy_only
    BY DEF NoFlags
  <2> QED
    BY <2>1, <2>2, <2>3, <1>c, <1>t, Opened
<1>9. CASE Branch
  <2>1. /\ At(Branches) /\ OpenBlock(in_class, in_function, BranchFlags(pos))
        /\ top_level_getattr' = top_level_getattr
    BY <1>9 DEF Branch
  <2>2. /\ pos \notin ClassLines /\ pos \notin FunctionLines
        /\ pos \in UnreachableLines <=> BranchFlags(pos).unreachable
        /\ pos \in MypyOnlyLines <=> BranchFlags(pos).mypy_only
    BY <2>1, <1>a, KindSetsField DEF Funcs, Branches, Cases
  <2> QED
    BY <2>1, <2>2, <1>c, <1>t, Opened
<1>10. CASE Plain
  <2>1. /\ At({"loop", "loop_else", "try", "except", "try_else", "finally"})
        /\ OpenBlock(in_class, in_function, NoFlags)
        /\ top_level_getattr' = top_level_getattr
    BY <1>10 DEF Plain
  <2>2. /\ pos \notin ClassLines /\ pos \notin FunctionLines
        /\ pos \notin UnreachableLines /\ pos \notin MypyOnlyLines
    BY <2>1, <1>a, KindSetsField DEF Funcs, Branches, Cases
  <2>3. ~NoFlags.unreachable /\ ~NoFlags.mypy_only
    BY DEF NoFlags
  <2> QED
    BY <2>1, <2>2, <2>3, <1>c, <1>t, Opened
<1>11. CASE EndBlock
  BY <1>11, Closed
<1>12. CASE Finish
  <2>1. /\ phase' = "done"
        /\ UNCHANGED <<prog, stop, pos, frames, context, top_level_getattr>>
    BY <1>12 DEF Finish
  <2>2. TypeInv'
    BY <2>1 DEF IInv, TypeInv, context
  <2>3. ParseInv' /\ StackInv'
    BY <2>1 DEF IInv, ParseInv, StackInv, Depth
  <2>4. FieldsInv' /\ SavedInv'
    BY <2>1, SameTree DEF IInv, FieldsInv, SavedInv, context, Around
  <2> QED
    BY <2>2, <2>3, <2>4 DEF IInv
<1>13. CASE UNCHANGED vars
  <2>1. UNCHANGED <<prog, phase, stop, pos, frames, context, top_level_getattr>>
    BY <1>13 DEF vars
  <2>2. TypeInv'
    BY <2>1 DEF IInv, TypeInv, context
  <2>3. ParseInv' /\ StackInv'
    BY <2>1 DEF IInv, ParseInv, StackInv, Depth
  <2>4. FieldsInv' /\ SavedInv'
    BY <2>1, SameTree DEF IInv, FieldsInv, SavedInv, context, Around
  <2> QED
    BY <2>2, <2>3, <2>4 DEF IInv
<1> QED
  BY <1>1, <1>2, <1>3, <1>4, <1>5, <1>6, <1>7, <1>8, <1>9, <1>10, <1>11, <1>12,
     <1>13 DEF Next, Serialize, Done

LEMMA Invariant == Spec => []IInv
  BY InitInvariant, StepInvariant, PTL DEF Spec

LEMMA InvariantTypes == IInv => TypeOK
<1> SUFFICES ASSUME IInv PROVE TypeOK
  OBVIOUS
<1>1. ASSUME NEW i \in 1..Len(frames)
      PROVE  /\ frames[i].line \in 1..(pos - 1)
             /\ Depth(frames[i].line) = i - 1
             /\ frames[i] \in Frame
  <2>1. frames \in Seq(Frame)
    BY DEF IInv, TypeInv
  <2> QED
    BY <2>1 DEF IInv, StackInv
<1> QED
  BY <1>1 DEF IInv, TypeInv, TypeOK, Frame

LEMMA InvariantContext == IInv => ContextMatchesEnclosing
<1> SUFFICES ASSUME IInv, Visiting PROVE ContextMatchesEnclosing
  BY DEF ContextMatchesEnclosing
<1>1. pos \in Lines /\ Depth(pos) = Len(frames)
  BY TreeType DEF IInv, TypeInv, Visiting
<1>2. ASSUME NEW S \in SUBSET Lines
      PROVE  (\E h \in Lines : Inside(h, pos) /\ h \in S) <=> Around(S, frames, Len(frames))
  BY <1>1, OpenBlocksEnclose
<1>3. in_class <=> InClass(pos)
  <2>1. ClassLines \in SUBSET Lines
    BY DEF ClassLines
  <2>2. in_class <=> Around(ClassLines, frames, Len(frames))
    BY DEF IInv, FieldsInv
  <2>3. in_class <=> \E h \in Lines : Inside(h, pos) /\ h \in ClassLines
    BY <2>1, <2>2, <1>2
  <2> QED
    BY <2>3 DEF InClass, ClassLines
<1>4. in_function <=> InFunction(pos)
  <2>1. FunctionLines \in SUBSET Lines
    BY DEF FunctionLines
  <2>2. in_function <=> Around(FunctionLines, frames, Len(frames))
    BY DEF IInv, FieldsInv
  <2>3. in_function <=> \E h \in Lines : Inside(h, pos) /\ h \in FunctionLines
    BY <2>1, <2>2, <1>2
  <2> QED
    BY <2>3 DEF InFunction, FunctionLines
<1>5. current_unreachable <=>
        \E h \in Lines : Inside(h, pos) /\ Kind(h) \in Branches
                           /\ BranchFlags(h).unreachable
  <2>1. UnreachableLines \in SUBSET Lines
    BY DEF UnreachableLines
  <2>2. current_unreachable <=> Around(UnreachableLines, frames, Len(frames))
    BY DEF IInv, FieldsInv
  <2>3. current_unreachable <=> \E h \in Lines : Inside(h, pos) /\ h \in UnreachableLines
    BY <2>1, <2>2, <1>2
  <2> QED
    BY <2>3 DEF UnreachableLines
<1>6. current_mypy_only <=>
        \E h \in Lines : Inside(h, pos) /\ Kind(h) \in Branches
                           /\ BranchFlags(h).mypy_only
  <2>1. MypyOnlyLines \in SUBSET Lines
    BY DEF MypyOnlyLines
  <2>2. current_mypy_only <=> Around(MypyOnlyLines, frames, Len(frames))
    BY DEF IInv, FieldsInv
  <2>3. current_mypy_only <=> \E h \in Lines : Inside(h, pos) /\ h \in MypyOnlyLines
    BY <2>1, <2>2, <1>2
  <2> QED
    BY <2>3 DEF MypyOnlyLines
<1> QED
  BY <1>3, <1>4, <1>5, <1>6 DEF ContextMatchesEnclosing

-----------------------------------------------------------------------------
(* The partial-package flag. *)

KeptLines == {p \in Lines : Kept(p)}
ModuleGetattrs ==
    {p \in Lines : Kind(p) = "getattr" /\ ~InClass(p) /\ ~InFunction(p)}

\* The flag tells of the lines passed so far, and what is kept is what is passed.
GetattrInv ==
    /\ phase = "parse" => ~top_level_getattr
    /\ phase # "parse" =>
         /\ KeptLines = 1..stop
         /\ top_level_getattr <=> \E p \in ModuleGetattrs : p < pos /\ p <= stop
    /\ phase = "done" => pos > stop

LEMMA SameGetattrs ==
    ASSUME prog' = prog
    PROVE  KeptLines' = KeptLines /\ ModuleGetattrs' = ModuleGetattrs
<1>1. Lines' = Lines
  BY DEF Lines
<1>2. ASSUME NEW p
      PROVE  Kept(p)' <=> Kept(p)
  BY DEF Kept, Depth, Kind
<1>3. ASSUME NEW p
      PROVE  (InClass(p)' <=> InClass(p)) /\ (InFunction(p)' <=> InFunction(p))
  BY <1>1 DEF InClass, InFunction, Inside, Depth, Kind
<1> QED
  BY <1>1, <1>2, <1>3 DEF KeptLines, ModuleGetattrs, Kind

\* Mod::serialize cuts the tree where the reference does.
LEMMA CutExact ==
    ASSUME IInv, StartModule
    PROVE  KeptLines = 1..stop'
<1>0. Len(prog) \in Nat /\ Lines = 1..Len(prog)
  BY TreeType
<1> DEFINE failing == {p \in Lines : Depth(p) = 0 /\ AssertWillAlwaysFail(p)}
<1>1. stop' \in 0..Len(prog) /\ KeepsUpTo(failing, stop')
  BY DEF StartModule
<1>2. ASSUME NEW p \in Lines
      PROVE  Kept(p) <=> \A q \in failing : ~(q < p)
  <2>1. \A q \in 1..(p - 1) : q \in Lines
    BY <1>0
  <2>2. \A q \in Lines : q < p => q \in 1..(p - 1)
    BY <1>0
  <2> QED
    BY <2>1, <2>2, <1>0 DEF Kept, AssertWillAlwaysFail
<1>3. CASE failing = {}
  BY <1>0, <1>1, <1>2, <1>3 DEF KeepsUpTo, KeptLines
<1>4. CASE failing # {}
  <2>1. stop' \in failing /\ \A q \in failing : stop' <= q
    BY <1>1, <1>4 DEF KeepsUpTo
  <2>2. ASSUME NEW p \in Lines
        PROVE  Kept(p) <=> p <= stop'
    <3>1. failing \subseteq Nat /\ p \in Nat /\ stop' \in Nat
      BY <1>0, <1>1
    <3> HIDE DEF failing
    <3> QED
      BY <1>2, <2>1, <3>1
  <2> QED
    BY <1>0, <1>1, <2>2 DEF KeptLines
<1> QED
  BY <1>3, <1>4

\* One more step over a line that is not, or is, a __getattr__ of the module.
LEMMA Passed ==
    ASSUME IInv, GetattrInv, phase = "serialize", phase' = "serialize",
           UNCHANGED <<prog, stop>>, pos \in Lines, pos <= stop,
           NEW next \in Nat, pos' = next, pos < next,
           \A p \in Lines : pos < p /\ p < next => p \notin ModuleGetattrs,
           top_level_getattr' <=> top_level_getattr \/ pos \in ModuleGetattrs
    PROVE  GetattrInv'
<1>0. Len(prog) \in Nat /\ Lines = 1..Len(prog) /\ stop \in Nat
  BY TreeType DEF IInv, TypeInv
<1>1. KeptLines' = 1..stop'
  BY SameGetattrs DEF GetattrInv
<1>2. top_level_getattr' <=> \E p \in ModuleGetattrs : p < next /\ p <= stop
  <2>1. ModuleGetattrs \subseteq Lines
    BY DEF ModuleGetattrs
  <2>2. top_level_getattr <=> \E p \in ModuleGetattrs : p < pos /\ p <= stop
    BY DEF GetattrInv
  <2> QED
    BY <1>0, <2>1, <2>2
<1> QED
  BY <1>1, <1>2, SameGetattrs DEF GetattrInv

LEMMA GetattrStep == IInv /\ GetattrInv /\ [Next]_vars => GetattrInv'
<1> SUFFICES ASSUME IInv, GetattrInv, [Next]_vars PROVE GetattrInv'
  OBVIOUS
<1>0. /\ Len(prog) \in Nat /\ Len(frames) \in Nat /\ Lines = 1..Len(prog)
      /\ pos \in Nat /\ stop \in 0..Len(prog)
  BY TreeType DEF IInv, TypeInv
<1>a. ASSUME NEW kinds, At(kinds)
      PROVE  /\ phase = "serialize" /\ pos \in Lines /\ pos <= stop
             /\ Kind(pos) \in kinds
             /\ in_class <=> InClass(pos)
             /\ in_function <=> InFunction(pos)
  <2>1. Visiting /\ pos \in Lines
    BY <1>a, <1>0, TreeType DEF At, Visiting, IInv, TypeInv
  <2> QED
    BY <2>1, <1>a, InvariantContext DEF At, Visiting, ContextMatchesEnclosing
\* A line that is no __getattr__.
<1>b. ASSUME NEW kinds, At(kinds), "getattr" \notin kinds, pos' = pos + 1,
             UNCHANGED <<prog, phase, stop, top_level_getattr>>
      PROVE  GetattrInv'
  <2>1. /\ phase = "serialize" /\ phase' = "serialize"
        /\ pos \in Lines /\ pos <= stop /\ pos + 1 \in Nat /\ pos < pos + 1
    BY <1>0, <1>a, <1>b
  <2>2. pos \notin ModuleGetattrs
    BY <1>a, <1>b DEF ModuleGetattrs
  <2>3. \A p \in Lines : pos < p /\ p < pos + 1 => p \notin ModuleGetattrs
    BY <1>0
  <2> QED
    BY <1>b, <2>1, <2>2, <2>3, Passed
\* A function, whose lines may be passed with it.
<1>c. ASSUME At(Funcs), NoteGetattr, UNCHANGED <<prog, phase, stop>>,
             NEW last \in Nat, pos <= last, pos' = last + 1,
             \A p \in Lines : pos < p /\ p <= last => Inside(pos, p)
      PROVE  GetattrInv'
  <2>1. /\ phase = "serialize" /\ phase' = "serialize"
        /\ pos \in Lines /\ pos <= stop /\ last + 1 \in Nat /\ pos < last + 1
        /\ Kind(pos) \in Funcs
    BY <1>0, <1>a, <1>c
  <2>2. top_level_getattr' <=> top_level_getattr \/ pos \in ModuleGetattrs
    BY <1>a, <1>c, <2>1 DEF NoteGetattr, ModuleGetattrs
  <2>3. ASSUME NEW p \in Lines, pos < p, p < last + 1
        PROVE  p \notin ModuleGetattrs
    <3>1. Inside(pos, p)
      BY <1>0, <1>c, <2>3
    <3> QED
      BY <2>1, <3>1 DEF ModuleGetattrs, InFunction
  <2> QED
    BY <1>c, <2>1, <2>2, <2>3, Passed
<1>1. CASE AddLine
  <2>1. phase = "parse" /\ phase' = "parse" /\ UNCHANGED top_level_getattr
    BY <1>1 DEF AddLine
  <2> QED
    BY <2>1 DEF GetattrInv
<1>2. CASE StartModule
  <2>1. /\ phase = "parse" /\ phase' = "serialize"
        /\ UNCHANGED <<prog, pos, top_level_getattr>>
    BY <1>2 DEF StartModule
  <2>2. KeptLines' = 1..stop'
    BY <1>2, <2>1, CutExact, SameGetattrs
  <2>3. ~top_level_getattr /\ pos = 1
    BY <2>1 DEF IInv, ParseInv, GetattrInv
  <2>4. \A p \in ModuleGetattrs' : ~(p < pos')
    BY <2>1, <2>3, <1>0, SameGetattrs DEF ModuleGetattrs
  <2> QED
    BY <2>1, <2>2, <2>3, <2>4 DEF GetattrInv
<1>3. CASE SimpleStmt
  BY <1>3, <1>b DEF SimpleStmt, Simple
<1>4. CASE ImportStmt
  BY <1>4, <1>b DEF ImportStmt, Imports
<1>5. CASE FunctionDef
  <2>1. /\ At(Funcs) /\ NoteGetattr /\ pos' = pos + 1
        /\ UNCHANGED <<prog, phase, stop>>
    BY <1>5 DEF FunctionDef, OpenBlock
  <2>2. \A p \in Lines : ~(pos < p /\ p <= pos)
    BY <1>0
  <2> QED
    BY <2>1, <2>2, <1>0, <1>c
<1>6. CASE FunctionOmitted
  <2>1. /\ At(Funcs) /\ NoteGetattr /\ UNCHANGED <<prog, phase, stop>>
    BY <1>6 DEF FunctionOmitted
  <2>2. PICK last \in pos..Len(prog) : Body(pos) = (pos + 1)..last /\ pos' = last + 1
    BY <1>6 DEF FunctionOmitted
  <2>3. last \in Nat /\ pos <= last
    BY <2>2, <1>0
  <2>4. ASSUME NEW p \in Lines, pos < p, p <= last
        PROVE  Inside(pos, p)
    <3>1. p \in (pos + 1)..last
      BY <2>3, <2>4, <1>0
    <3> QED
      BY <3>1, <2>2 DEF Body
  <2> QED
    BY <2>1, <2>2, <2>3, <2>4, <1>c
<1>7. CASE ClassDef
  BY <1>7, <1>b DEF ClassDef, OpenBlock
<1>8. CASE Branch
  BY <1>8, <1>b DEF Branch, OpenBlock, Branches, Cases
<1>9. CASE Plain
  BY <1>9, <1>b DEF Plain, OpenBlock
<1>10. CASE Match
  BY <1>10, <1>b DEF Match
<1>11. CASE EndBlock
  <2>1. phase = "serialize" /\ UNCHANGED <<prog, phase, stop, pos, top_level_getattr>>
    BY <1>11 DEF EndBlock
  <2> QED
    BY <2>1, SameGetattrs DEF GetattrInv
<1>12. CASE Finish
  <2>1. /\ phase = "serialize" /\ phase' = "done" /\ pos > stop
        /\ UNCHANGED <<prog, stop, pos, top_level_getattr>>
    BY <1>12 DEF Finish
  <2> QED
    BY <2>1, SameGetattrs DEF GetattrInv
<1>13. CASE UNCHANGED vars
  <2>1. UNCHANGED <<prog, phase, stop, pos, top_level_getattr>>
    BY <1>13 DEF vars
  <2> QED
    BY <2>1, SameGetattrs DEF GetattrInv
<1> QED
  BY <1>1, <1>2, <1>3, <1>4, <1>5, <1>6, <1>7, <1>8, <1>9, <1>10, <1>11, <1>12,
     <1>13 DEF Next, Serialize, Done

LEMMA GetattrMeaning == IInv /\ GetattrInv => GetattrExact
<1> SUFFICES ASSUME IInv, GetattrInv, phase = "done"
             PROVE  top_level_getattr <=> \E p \in ModuleGetattrs : Kept(p)
  BY DEF GetattrExact, ModuleGetattrs
<1>1. Lines = 1..Len(prog) /\ Len(prog) \in Nat /\ stop \in Nat /\ pos \in Nat
  BY TreeType DEF IInv, TypeInv
<1>2. pos > stop /\ (top_level_getattr <=> \E p \in ModuleGetattrs : p < pos /\ p <= stop)
  BY DEF GetattrInv
<1>3. ASSUME NEW p \in ModuleGetattrs
      PROVE  Kept(p) <=> p < pos /\ p <= stop
  BY <1>1, <1>2 DEF GetattrInv, KeptLines, ModuleGetattrs
<1> QED
  BY <1>2, <1>3
-----------------------------------------------------------------------------
\* The walk's stack discipline, for every program: each open block encloses the
\* next line at its own level, and the walk stays in the tree.
THEOREM WalkTyped == Spec => []TypeOK
  BY Invariant, InvariantTypes, PTL

\* For every program, in_class, in_function, current_unreachable and
\* current_mypy_only describe exactly the blocks around the line that
\* Stmt::serialize is about to write.
THEOREM ContextExact == Spec => []ContextMatchesEnclosing
  BY Invariant, InvariantContext, PTL

\* For every program, the partial-package flag says whether the kept tree has a
\* __getattr__ outside all classes and functions (Stmt::FunctionDef,
\* Mod::serialize), whatever bodies are omitted.
THEOREM GetattrFlagExact == Spec => []GetattrExact
<1>1. Init => GetattrInv
  BY DEF Init, GetattrInv
<1> QED
  BY <1>1, Invariant, GetattrStep, GetattrMeaning, PTL DEF Spec
-----------------------------------------------------------------------------
(* Skipping bodies hides nothing that shows outside a function.  The invariant  *)
(* says what the walk has written so far: all effects it has passed that no     *)
(* omitted function contains, and no function within an omitted one.  The       *)
(* clauses of a statement are traced back to its header, since that is the line *)
(* written at its end.                                                          *)

\* The lines a sequence of tokens says are there.
Told(s) == {s[i][2] : i \in {j \in 1..Len(s) : s[j][1] = "location"}}

\* A sequence that tells of no other lines than those of X.
Tells(s, X) == (\E S : s \in Seq(S)) /\ Told(s) \subseteq X

LEMMA ToldConcat ==
    ASSUME NEW S, NEW s \in Seq(S), NEW T, NEW t \in Seq(T)
    PROVE  s \o t \in Seq(S \cup T) /\ Told(s \o t) = Told(s) \cup Told(t)
<1> DEFINE U == S \cup T
<1>1. s \in Seq(U) /\ t \in Seq(U)
  BY SeqMonotonic
<1> HIDE DEF U
<1>2. /\ s \o t \in Seq(U)
      /\ Len(s \o t) = Len(s) + Len(t)
      /\ \A i \in 1..(Len(s) + Len(t)) :
            (s \o t)[i] = IF i <= Len(s) THEN s[i] ELSE t[i - Len(s)]
  BY <1>1, ConcatProperties
<1>3. Len(s) \in Nat /\ Len(t) \in Nat
  BY <1>1, LenProperties
<1>4. \A i \in 1..Len(s) : i \in 1..(Len(s) + Len(t)) /\ (s \o t)[i] = s[i]
  BY <1>2, <1>3
<1>5. \A i \in 1..Len(t) :
         Len(s) + i \in 1..(Len(s) + Len(t)) /\ (s \o t)[Len(s) + i] = t[i]
  BY <1>2, <1>3
<1>6. \A i \in 1..(Len(s) + Len(t)) :
         \/ i \in 1..Len(s)
         \/ \E j \in 1..Len(t) : i = Len(s) + j
  <2> SUFFICES ASSUME NEW i \in 1..(Len(s) + Len(t)), i \notin 1..Len(s)
               PROVE  \E j \in 1..Len(t) : i = Len(s) + j
    OBVIOUS
  <2>1. i - Len(s) \in 1..Len(t) /\ i = Len(s) + (i - Len(s))
    BY <1>3
  <2> QED
    BY <2>1
<1>7. Told(s) \cup Told(t) \subseteq Told(s \o t)
  <2>1. ASSUME NEW i \in 1..Len(s), s[i][1] = "location"
        PROVE  s[i][2] \in Told(s \o t)
    BY <1>2, <1>4, <2>1 DEF Told
  <2>2. ASSUME NEW i \in 1..Len(t), t[i][1] = "location"
        PROVE  t[i][2] \in Told(s \o t)
    BY <1>2, <1>5, <2>2 DEF Told
  <2> QED
    BY <2>1, <2>2 DEF Told
<1>8. Told(s \o t) \subseteq Told(s) \cup Told(t)
  <2> SUFFICES ASSUME NEW i \in 1..Len(s \o t), (s \o t)[i][1] = "location"
               PROVE  (s \o t)[i][2] \in Told(s) \cup Told(t)
    BY DEF Told
  <2>1. CASE i \in 1..Len(s)
    BY <1>4, <2>1 DEF Told
  <2>2. CASE \E j \in 1..Len(t) : i = Len(s) + j
    BY <1>5, <2>2 DEF Told
  <2> QED
    BY <1>2, <1>6, <2>1, <2>2
<1> QED
  BY <1>2, <1>7, <1>8 DEF U

LEMMA TellsConcat ==
    ASSUME NEW X, NEW s, NEW t, Tells(s, X), Tells(t, X)
    PROVE  Tells(s \o t, X)
<1>1. PICK S : s \in Seq(S)
  BY DEF Tells
<1>2. PICK T : t \in Seq(T)
  BY DEF Tells
<1>3. s \o t \in Seq(S \cup T) /\ Told(s \o t) = Told(s) \cup Told(t)
  BY <1>1, <1>2, ToldConcat, ZenonT(60)
<1>4. Told(s) \subseteq X /\ Told(t) \subseteq X
  BY DEF Tells
<1> QED
  BY <1>3, <1>4, Zenon DEF Tells

\* What the tokens of short sequences tell.
LEMMA TellsShort ==
    ASSUME NEW X
    PROVE  /\ Tells(<< >>, X)
           /\ \A a : (a[1] = "location" => a[2] \in X) => Tells(<<a>>, X)
           /\ \A a, b : (/\ a[1] = "location" => a[2] \in X
                         /\ b[1] = "location" => b[2] \in X) => Tells(<<a, b>>, X)
           /\ \A a, b, c : (/\ a[1] = "location" => a[2] \in X
                            /\ b[1] = "location" => b[2] \in X
                            /\ c[1] = "location" => c[2] \in X) => Tells(<<a, b, c>>, X)
<1>1. Tells(<< >>, X)
  BY EmptySeq DEF Tells, Told
<1>2. ASSUME NEW a, a[1] = "location" => a[2] \in X
      PROVE  Tells(<<a>>, X)
  <2>1. <<a>> \in Seq({a}) /\ Len(<<a>>) = 1
    OBVIOUS
  <2>2. \A i \in 1..1 : <<a>>[i] \in {a}
    OBVIOUS
  <2>3. \A i \in 1..1 : <<a>>[i][1] = "location" => <<a>>[i][2] \in X
    BY <1>2, <2>2
  <2>4. Told(<<a>>) \subseteq X
    BY <2>1, <2>3 DEF Told
  <2> QED
    BY <2>1, <2>4, Zenon DEF Tells
<1>3. ASSUME NEW a, NEW b, a[1] = "location" => a[2] \in X, b[1] = "location" => b[2] \in X
      PROVE  Tells(<<a, b>>, X)
  <2>1. <<a, b>> \in Seq({a, b}) /\ Len(<<a, b>>) = 2
    OBVIOUS
  <2>2. \A i \in 1..2 : <<a, b>>[i] \in {a, b}
    OBVIOUS
  <2>3. \A i \in 1..2 : <<a, b>>[i][1] = "location" => <<a, b>>[i][2] \in X
    BY <1>3, <2>2
  <2>4. Told(<<a, b>>) \subseteq X
    BY <2>1, <2>3 DEF Told
  <2> QED
    BY <2>1, <2>4, Zenon DEF Tells
<1>4. ASSUME NEW a, NEW b, NEW c, a[1] = "location" => a[2] \in X,
             b[1] = "location" => b[2] \in X, c[1] = "location" => c[2] \in X
      PROVE  Tells(<<a, b, c>>, X)
  <2>1. <<a, b, c>> \in Seq({a, b, c}) /\ Len(<<a, b, c>>) = 3
    OBVIOUS
  <2>2. \A i \in 1..3 : <<a, b, c>>[i] \in {a, b, c}
    OBVIOUS
  <2>3. \A i \in 1..3 : <<a, b, c>>[i][1] = "location" => <<a, b, c>>[i][2] \in X
    BY <1>4, <2>2
  <2>4. Told(<<a, b, c>>) \subseteq X
    BY <2>1, <2>3 DEF Told
  <2> QED
    BY <2>1, <2>4, Zenon DEF Tells
<1> QED
  BY <1>1, <1>2, <1>3, <1>4
-----------------------------------------------------------------------------
(* The tokens of the serializer. *)

LEMMA TokensNamed ==
    /\ \A name : Tag(name)[1] # "location"
    /\ \A n : Num(n)[1] # "location"
    /\ \A b : Bool(b)[1] # "location"
    /\ \A p : Expr(p)[1] # "location"
    /\ \A len, u : Block(len, u)[1] # "location"
    /\ End[1] # "location"
    /\ \A p : Loc(p)[1] = "location" /\ Loc(p)[2] = p
    /\ \A f : <<"flags", f>>[1] # "location"
BY DEF Tag, Num, Bool, Expr, Block, End, Loc

LEMMA BlockTokens ==
    ASSUME NEW X, NEW h \in X, NEW u
    PROVE  Tells(BlockStart(h, u), X) /\ Tells(EmptyBlock(h, u), X)
<1>1. Tells(<<Block(Cardinality(Stmts(h)), u)>>, X)
  BY TellsShort, TokensNamed
<1>2. Tells(<<Loc(h)>>, X) /\ Tells(<< >>, X)
  BY TellsShort, TokensNamed
<1>3. Tells(IF Stmts(h) = {} THEN <<Loc(h)>> ELSE << >>, X)
  BY <1>2
<1>4. Tells(BlockStart(h, u), X)
  BY <1>1, <1>3, TellsConcat, Zenon DEF BlockStart
<1>5. Tells(EmptyBlock(h, u), X)
  <2>1. /\ Block(0, u)[1] # "location"
        /\ Loc(h)[2] \in X
        /\ End[1] # "location"
    BY TokensNamed
  <2>2. Tells(<<Block(0, u), Loc(h), End>>, X)
    BY <2>1, TellsShort
  <2> QED
    BY <2>2 DEF EmptyBlock
<1> QED
  BY <1>4, <1>5

LEMMA IntroTokens ==
    ASSUME NEW X, NEW h, Kind(h) \in OpensBlock
    PROVE  Tells(Intro(h), X)
<1>1. /\ Tells(<< >>, X)
      /\ \A name : Tells(<<Tag(name)>>, X)
      /\ \A name : Tells(<<Tag(name), Expr(h)>>, X)
      /\ Tells(<<Expr(h)>>, X)
      /\ \A b : Tells(<<Bool(b)>>, X)
  BY TellsShort, TokensNamed
<1>2. Tells((IF ClausesOf(HeadOf(h), {"try_else"}) = {} THEN <<Bool(FALSE)>> ELSE << >>)
              \o <<Bool(TRUE)>>, X)
  BY <1>1, TellsConcat
<1> QED
  BY <1>1, <1>2 DEF Intro, OpensBlock, Headers, Clauses, Funcs, Cases

LEMMA HeadCountTokens ==
    ASSUME NEW X, NEW h
    PROVE  Tells(HeadCount(h), X)
BY TellsShort, TokensNamed DEF HeadCount

LEMMA StmtEndTokens ==
    ASSUME NEW X, NEW h, NEW u, HeadOf(h) \in X
    PROVE  Tells(StmtEnd(h, u), X)
<1> DEFINE head == HeadOf(h)
           rest == CASE Kind(h) \in {"if", "elif"} ->
                          IF ElseFlags(Analyzer[h]).unreachable
                          THEN <<Bool(TRUE)>> \o EmptyBlock(head, TRUE)
                          ELSE <<Bool(FALSE)>>
                     [] Kind(h) = "loop" -> <<Block(0, u), End>>
                     [] Kind(h) \in {"try", "except"} -> <<Bool(FALSE), Bool(FALSE)>>
                     [] Kind(h) = "try_else" -> <<Bool(FALSE)>>
                     [] OTHER -> << >>
<1>1. /\ Tells(<< >>, X)
      /\ \A b : Tells(<<Bool(b)>>, X)
      /\ Tells(<<Bool(FALSE), Bool(FALSE)>>, X)
      /\ Tells(<<Block(0, u), End>>, X)
      /\ Tells(<<Loc(head), End>>, X)
  <2>1. /\ \A b : Bool(b)[1] # "location"
        /\ Block(0, u)[1] # "location"
        /\ Loc(head)[2] \in X
        /\ End[1] # "location"
    BY TokensNamed
  <2> HIDE DEF head
  <2> QED
    BY <2>1, TellsShort
<1>2. Tells(EmptyBlock(head, TRUE), X)
  BY BlockTokens
<1>3. Tells(<<Bool(TRUE)>> \o EmptyBlock(head, TRUE), X)
  BY <1>1, <1>2, TellsConcat
<1>4. Tells(rest, X)
  <2> HIDE DEF head
  <2>1. CASE Kind(h) \in {"if", "elif"}
    BY <1>1, <1>3, <2>1
  <2>2. CASE Kind(h) = "loop"
    BY <1>1, <2>2
  <2>3. CASE Kind(h) \in {"try", "except"}
    BY <1>1, <2>3
  <2>4. CASE Kind(h) = "try_else"
    BY <1>1, <2>4
  <2>5. CASE Kind(h) \notin {"if", "elif", "loop", "try", "except", "try_else"}
    BY <1>1, <2>5
  <2> QED
    BY <2>1, <2>2, <2>3, <2>4, <2>5
<1> HIDE DEF rest, head
<1>5. Tells(rest \o <<Loc(head), End>>, X)
  BY <1>1, <1>4, TellsConcat
<1> QED
  BY <1>5 DEF StmtEnd, rest, head
-----------------------------------------------------------------------------
(* The header of a clause. *)

\* The lines that may open a statement with clauses.
Openers == {"if", "loop", "try", "match"}

ClauseFollows(p, q) ==
    /\ Depth(q) = Depth(p)
    /\ Kind(q) \in Openers
    /\ \A r \in (q + 1)..(p - 1) : Depth(r) = Depth(p) => Kind(r) \in Clauses

HeadsInv == \A p \in Lines : Kind(p) \in Clauses => \E q \in 1..(p - 1) : ClauseFollows(p, q)

LEMMA HeadsStep == IInv /\ HeadsInv /\ [Next]_vars => HeadsInv'
<1> SUFFICES ASSUME IInv, HeadsInv, [Next]_vars PROVE HeadsInv'
  OBVIOUS
<1>0. Len(prog) \in Nat /\ Lines = 1..Len(prog) /\ prog \in Seq(LineType)
  BY TreeType DEF IInv, TypeInv
<1>1. CASE UNCHANGED prog
  BY <1>1 DEF HeadsInv, ClauseFollows, Lines, Depth, Kind
<1>2. CASE AddLine
  <2>0. PICK n \in Nat : n = Len(prog)
    BY <1>0
  <2>1. PICK line \in LineType : Fits(line) /\ prog' = Append(prog, line)
    <3>1. PICK v \in Vocabularies :
             \E kind \in v.kinds, depth \in 0..v.depth, truth \in v.truths \cup {"Unknown"} :
                LET line == [kind |-> kind, depth |-> depth, truth |-> truth]
                IN Fits(line) /\ prog' = Append(prog, line)
      BY <1>2 DEF AddLine
    <3>2. PICK kind \in v.kinds, depth \in 0..v.depth, truth \in v.truths \cup {"Unknown"} :
             /\ Fits([kind |-> kind, depth |-> depth, truth |-> truth])
             /\ prog' = Append(prog, [kind |-> kind, depth |-> depth, truth |-> truth])
      BY <3>1
    <3>3. [kind |-> kind, depth |-> depth, truth |-> truth] \in LineType
      BY SerializerAssumption DEF LineType, TruthValue
    <3> QED
      BY <3>2, <3>3
  <2>2. /\ Len(prog') = n + 1
        /\ \A i \in 1..n : prog'[i] = prog[i]
        /\ prog'[n + 1] = line
    BY <1>0, <2>0, <2>1, AppendProperties
  <2>3. /\ \A p \in 1..n : Kind(p)' = Kind(p) /\ Depth(p)' = Depth(p)
        /\ Kind(n + 1)' = line.kind /\ Depth(n + 1)' = line.depth
        /\ Lines' = 1..(n + 1)
    <3>1. Lines' = 1..(n + 1)
      BY <2>2 DEF Lines
    <3>2. ASSUME NEW p \in 1..n
          PROVE  Kind(p)' = Kind(p) /\ Depth(p)' = Depth(p)
      BY <2>2 DEF Kind, Depth
    <3>3. (prog[n + 1].kind)' = line.kind /\ (prog[n + 1].depth)' = line.depth
      BY <2>2
    <3> QED
      BY <3>1, <3>2, <3>3 DEF Kind, Depth
  <2>4. ASSUME NEW p \in 1..n, Kind(p) \in Clauses
        PROVE  \E q \in 1..(p - 1) : ClauseFollows(p, q)'
    <3>1. PICK q \in 1..(p - 1) : ClauseFollows(p, q)
      BY <1>0, <2>0, <2>4 DEF HeadsInv
    <3>2. \A r \in (q + 1)..(p - 1) : r \in 1..n
      BY <1>0, <2>0
    <3> QED
      BY <3>1, <3>2, <2>3, <1>0 DEF ClauseFollows
  <2>5. ASSUME line.kind \in Clauses
        PROVE  \E q \in 1..n : ClauseFollows(n + 1, q)'
    <3>1. PICK o \in Lines : /\ Depth(o) = line.depth
                             /\ Kind(o) \in Follows(line.kind)
                             /\ \A r \in (o + 1)..n : Depth(r) > line.depth
      BY <2>0, <2>1, <2>5 DEF Fits
    <3>2. line.depth \in Nat
      BY DEF LineType
    <3>3. CASE Kind(o) \in Openers
      <4>1. \A r \in (o + 1)..n : r \in 1..n /\ Depth(r) # line.depth
        BY <1>0, <2>0, <3>1, <3>2
      <4> QED
        BY <1>0, <2>0, <2>3, <3>1, <3>3, <4>1 DEF ClauseFollows
    <3>4. CASE Kind(o) \in Clauses
      <4>1. PICK q \in 1..(o - 1) : ClauseFollows(o, q)
        BY <1>0, <2>0, <3>4 DEF HeadsInv
      <4>2. ASSUME NEW r \in (q + 1)..n, Depth(r) = line.depth
            PROVE  r \in 1..n /\ Kind(r) \in Clauses
        <5>1. r \in (q + 1)..(o - 1) \/ r = o \/ r \in (o + 1)..n
          BY <1>0, <2>0
        <5>2. r \notin (o + 1)..n
          BY <3>1, <3>2, <4>2
        <5> QED
          BY <1>0, <2>0, <3>1, <3>4, <4>1, <4>2, <5>1, <5>2 DEF ClauseFollows
      <4> QED
        BY <1>0, <2>0, <2>3, <3>1, <4>1, <4>2 DEF ClauseFollows
    <3> QED
      BY <2>5, <3>1, <3>3, <3>4 DEF Follows, Openers, Clauses, Cases
  <2>6. SUFFICES ASSUME NEW p \in 1..(n + 1), (Kind(p) \in Clauses)'
                 PROVE  \E q \in 1..(p - 1) : ClauseFollows(p, q)'
    BY <2>3 DEF HeadsInv
  <2>7. CASE p \in 1..n
    BY <2>3, <2>4, <2>6, <2>7
  <2>8. CASE p = n + 1
    BY <1>0, <2>0, <2>3, <2>5, <2>6, <2>8
  <2> QED
    BY <1>0, <2>0, <2>7, <2>8
<1> QED
  BY <1>1, <1>2 DEF Next, StartModule, Serialize, Done, SimpleStmt, ImportStmt, FunctionDef,
     FunctionOmitted, ClassDef, Branch, Plain, Match, EndBlock, Finish, OpenBlock, vars

\* The line written at the end of a statement: the line itself, or that of an
\* `if', a loop, a `try' or a `match'.
LEMMA HeadKnown ==
    ASSUME IInv, HeadsInv, NEW h \in Lines
    PROVE  /\ HeadOf(h) = h \/ Kind(HeadOf(h)) \in Openers
           /\ Kind(h) \notin Clauses => HeadOf(h) = h
<1>0. Len(prog) \in Nat /\ Lines = 1..Len(prog)
  BY TreeType
<1> DEFINE S == {q \in 1..h : Depth(q) = Depth(h) /\ Kind(q) \notin Clauses}
<1>1. ASSUME NEW m \in S, \A q \in S : q <= m
      PROVE  HeadOf(h) = m
  <2>1. S \subseteq Int
    BY <1>0
  <2>2. ASSUME NEW p \in S, \A q \in S : q <= p
        PROVE  p = m
    BY <1>1, <2>1, <2>2
  <2> HIDE DEF S
  <2>3. (CHOOSE p \in S : \A q \in S : q <= p) = m
    BY <1>1, <2>2
  <2> QED
    BY <2>3 DEF HeadOf, Highest, S
<1>2. CASE Kind(h) \notin Clauses
  <2>1. h \in S /\ \A q \in S : q <= h
    BY <1>0, <1>2
  <2>2. HeadOf(h) = h
    BY <1>1, <2>1
  <2> QED
    BY <1>2, <2>2
<1>3. CASE Kind(h) \in Clauses
  <2>1. PICK q \in 1..(h - 1) : ClauseFollows(h, q)
    BY <1>3 DEF HeadsInv
  <2>2. q \in S
    BY <1>0, <2>1 DEF ClauseFollows, Openers, Clauses, Cases
  <2>3. ASSUME NEW r \in S
        PROVE  r <= q
    <3>1. r \in 1..h /\ Depth(r) = Depth(h) /\ Kind(r) \notin Clauses
      OBVIOUS
    <3>2. r # h
      BY <1>3, <3>1
    <3>3. r \notin (q + 1)..(h - 1)
      BY <2>1, <3>1 DEF ClauseFollows
    <3> QED
      BY <1>0, <3>1, <3>2, <3>3
  <2>4. HeadOf(h) = q
    BY <1>1, <2>2, <2>3
  <2> QED
    BY <1>3, <2>1, <2>4 DEF ClauseFollows
<1> QED
  BY <1>2, <1>3
-----------------------------------------------------------------------------
(* What the walk has written so far. *)

OmittedLines == {h \in Lines : Omitted(h)}
HiddenLines  == {p \in Lines : \E h \in OmittedLines : Inside(h, p)}

BytesInv == \E S : bytes \in Seq(S)

FunctionsTold ==
    \A f \in FunctionLines : f \in Written => f <= stop /\ f \notin HiddenLines

EffectsTold ==
    \A p \in EffectLines : p < pos /\ p <= stop /\ p \notin HiddenLines => p \in Written

FramesShown ==
    \A i \in 1..Len(frames) :
        /\ frames[i].line <= stop
        /\ frames[i].line \notin OmittedLines
        /\ frames[i].line \notin HiddenLines

EffectsInv ==
    /\ HeadsInv
    /\ phase = "parse" => bytes = << >>
    /\ phase # "parse" => BytesInv /\ FunctionsTold /\ EffectsTold /\ FramesShown

LEMMA SameEffects ==
    ASSUME UNCHANGED <<prog, skip_function_bodies>>
    PROVE  /\ OmittedLines' = OmittedLines /\ HiddenLines' = HiddenLines
           /\ EffectLines' = EffectLines /\ FunctionLines' = FunctionLines
<1>1. Lines' = Lines /\ FunctionLines' = FunctionLines
  BY SameTree
<1>2. EffectLines' = EffectLines
  BY <1>1 DEF EffectLines, Kind
<1>3. ASSUME NEW h
      PROVE  Omitted(h)' <=> Omitted(h)
  BY SMT DEF Omitted, HasExternallyVisibleEffect, IsTrivialBody, Visited, Stmts, Body, InClass,
     Inside, Lowest, Lines, Kind, Depth
<1>4. OmittedLines' = OmittedLines
  BY <1>1, <1>3 DEF OmittedLines
<1>5. HiddenLines' = HiddenLines
  BY <1>1, <1>4 DEF HiddenLines, Inside, Depth
<1> QED
  BY <1>1, <1>2, <1>4, <1>5

LEMMA NextNotHidden ==
    ASSUME IInv, FramesShown, pos \in Lines, Depth(pos) = Len(frames)
    PROVE  pos \notin HiddenLines
<1>1. OmittedLines \in SUBSET Lines
  BY DEF OmittedLines
<1>2. ~Around(OmittedLines, frames, Len(frames))
  BY DEF Around, FramesShown
<1>3. ~\E h \in Lines : Inside(h, pos) /\ h \in OmittedLines
  BY <1>1, <1>2, OpenBlocksEnclose
<1> QED
  BY <1>1, <1>3 DEF HiddenLines

LEMMA Wrote ==
    ASSUME BytesInv, NEW X, NEW tokens, Tells(tokens, X), bytes' = bytes \o tokens
    PROVE  BytesInv' /\ Written' = Written \cup Told(tokens) /\ Told(tokens) \subseteq X
<1>1. PICK S : bytes \in Seq(S)
  BY DEF BytesInv
<1>2. PICK T : tokens \in Seq(T)
  BY DEF Tells
<1>3. /\ bytes \o tokens \in Seq(S \cup T)
      /\ Told(bytes \o tokens) = Told(bytes) \cup Told(tokens)
  <2>1. ASSUME NEW a \in Seq(S), NEW b \in Seq(T)
        PROVE  a \o b \in Seq(S \cup T) /\ Told(a \o b) = Told(a) \cup Told(b)
    BY ToldConcat, ZenonT(60)
  <2> QED
    BY <1>1, <1>2, <2>1
<1>4. BytesInv'
  BY <1>3, Zenon DEF BytesInv
<1>5. Written = Told(bytes) /\ Written' = Told(bytes \o tokens)
  BY DEF Written, Told
<1> QED
  BY <1>3, <1>4, <1>5 DEF Tells

\* A step that writes of the lines X and passes those before next.
LEMMA EffectsPassed ==
    ASSUME IInv, EffectsInv, phase = "serialize", phase' = "serialize",
           UNCHANGED <<prog, stop, skip_function_bodies>>,
           NEW next \in Nat, pos' = next, pos <= next,
           NEW tokens, NEW X, Tells(tokens, X), bytes' = bytes \o tokens,
           \A f \in X : f \in FunctionLines => f <= stop /\ f \notin HiddenLines,
           \A p \in EffectLines :
              pos <= p /\ p < next /\ p \notin HiddenLines => p \in Told(tokens),
           FramesShown'
    PROVE  EffectsInv'
<1>0. Len(prog) \in Nat /\ Lines = 1..Len(prog) /\ pos \in Nat
  BY TreeType
<1>1. HeadsInv'
  BY DEF EffectsInv, HeadsInv, ClauseFollows, Lines, Depth, Kind
<1>2. BytesInv' /\ Written' = Written \cup Told(tokens) /\ Told(tokens) \subseteq X
  BY Wrote DEF EffectsInv
<1>3. FunctionsTold'
  BY <1>2, SameEffects DEF EffectsInv, FunctionsTold
<1>4. EffectsTold'
  <2>1. \A p \in EffectLines : p \in Nat
    BY <1>0 DEF EffectLines
  <2>2. \A p \in EffectLines : p < next /\ p <= stop /\ p \notin HiddenLines => p \in Written'
    BY <1>0, <1>2, <2>1 DEF EffectsInv, EffectsTold
  <2> QED
    BY <2>2, SameEffects DEF EffectsTold
<1> QED
  BY <1>1, <1>2, <1>3, <1>4 DEF EffectsInv

\* A block opened, at a line whose body is not omitted.
LEMMA EffectsOpened ==
    ASSUME IInv, EffectsInv, NEW kinds, kinds \subseteq OpensBlock, At(kinds),
           NEW class, NEW function, NEW flags, OpenBlock(class, function, flags),
           pos \notin OmittedLines
    PROVE  EffectsInv'
<1>0. /\ Len(prog) \in Nat /\ Len(frames) \in Nat /\ Lines = 1..Len(prog)
      /\ pos \in Lines /\ pos <= stop /\ stop \in Nat
  BY TreeType DEF At, IInv, TypeInv
<1>1. /\ phase = "serialize" /\ Depth(pos) = Len(frames) /\ Kind(pos) \in OpensBlock
      /\ UNCHANGED <<prog, phase, stop, skip_function_bodies>>
      /\ pos' = pos + 1
      /\ bytes' = bytes \o (Intro(pos) \o BlockStart(pos, current_unreachable'))
  BY DEF At, OpenBlock, Write
<1>2. pos \notin HiddenLines
  BY <1>0, <1>1, NextNotHidden DEF EffectsInv
<1> DEFINE tokens == Intro(pos) \o BlockStart(pos, current_unreachable')
<1>3. Tells(tokens, {pos})
  <2>1. Tells(Intro(pos), {pos})
    BY <1>1, IntroTokens
  <2>2. Tells(BlockStart(pos, current_unreachable'), {pos})
    BY BlockTokens
  <2> QED
    BY <2>1, <2>2, TellsConcat
<1>4. FramesShown'
  <2> DEFINE f == [line |-> pos, in_class |-> in_class, in_function |-> in_function,
                   unreachable |-> current_unreachable, mypy_only |-> current_mypy_only]
  <2>1. frames' = Append(frames, f)
    BY DEF OpenBlock
  <2>2. f.line = pos
    OBVIOUS
  <2> HIDE DEF f
  <2>3. /\ Len(frames') = Len(frames) + 1
        /\ \A i \in 1..Len(frames) : frames'[i] = frames[i]
        /\ frames'[Len(frames) + 1] = f
    <3>1. frames \in Seq(Frame)
      BY DEF IInv, TypeInv
    <3>2. frames \in Seq(Frame \cup {f}) /\ f \in Frame \cup {f}
      BY <3>1, SeqMonotonic
    <3> QED
      BY <2>1, <3>2, AppendProperties
  <2>4. ASSUME NEW i \in 1..(Len(frames) + 1)
        PROVE  /\ frames'[i].line <= stop
               /\ frames'[i].line \notin OmittedLines
               /\ frames'[i].line \notin HiddenLines
    <3>1. CASE i \in 1..Len(frames)
      BY <1>1, <2>3, <3>1 DEF EffectsInv, FramesShown
    <3>2. CASE i = Len(frames) + 1
      BY <1>0, <1>2, <2>2, <2>3, <3>2
    <3> QED
      BY <1>0, <3>1, <3>2
  <2> QED
    BY <1>1, <2>3, <2>4, SameEffects DEF FramesShown
<1>5. \A p \in EffectLines : ~(pos <= p /\ p < pos + 1)
  BY <1>0, <1>1 DEF EffectLines, OpensBlock, Headers, Clauses, Funcs, Cases
<1>6. pos + 1 \in Nat /\ pos <= pos + 1
  BY <1>0
<1> HIDE DEF tokens
<1> QED
  BY <1>0, <1>1, <1>2, <1>3, <1>4, <1>5, <1>6, EffectsPassed DEF tokens

\* Nothing a step leaves alone changes what is known.
LEMMA EffectsUnchanged ==
    ASSUME EffectsInv,
           UNCHANGED <<prog, phase, stop, skip_function_bodies, pos, frames, bytes>>
    PROVE  EffectsInv'
<1>1. HeadsInv'
  BY DEF EffectsInv, HeadsInv, ClauseFollows, Lines, Depth, Kind
<1>2. BytesInv' <=> BytesInv
  BY DEF BytesInv
<1>3. Written' = Written
  BY DEF Written
<1>4. /\ FunctionsTold => FunctionsTold'
      /\ EffectsTold => EffectsTold'
      /\ FramesShown => FramesShown'
  BY <1>3, SameEffects DEF FunctionsTold, EffectsTold, FramesShown
<1> QED
  BY <1>1, <1>2, <1>4 DEF EffectsInv

LEMMA EffectsStep == IInv /\ EffectsInv /\ [Next]_vars => EffectsInv'
<1> SUFFICES ASSUME IInv, EffectsInv, [Next]_vars PROVE EffectsInv'
  OBVIOUS
<1>0. /\ Len(prog) \in Nat /\ Len(frames) \in Nat /\ Lines = 1..Len(prog)
      /\ \A q \in Lines : Depth(q) \in Nat
      /\ pos \in Nat /\ stop \in 0..Len(prog) /\ pos \in 1..(Len(prog) + 1)
  BY TreeType DEF IInv, TypeInv
<1>h. HeadsInv'
  BY HeadsStep DEF EffectsInv
<1>a. ASSUME NEW kinds, At(kinds)
      PROVE  /\ phase = "serialize" /\ pos \in Lines /\ pos <= stop
             /\ Kind(pos) \in kinds
             /\ pos \notin HiddenLines
             /\ in_class <=> InClass(pos)
  <2>1. Visiting /\ pos \in Lines /\ phase = "serialize"
    BY <1>a, <1>0 DEF At, Visiting
  <2>2. pos \notin HiddenLines
    BY <2>1, NextNotHidden DEF EffectsInv, Visiting
  <2> QED
    BY <2>1, <2>2, <1>a, InvariantContext DEF At, Visiting, ContextMatchesEnclosing
\* A line that opens no block.
<1>b. ASSUME NEW kinds, At(kinds), pos' = pos + 1,
             UNCHANGED <<prog, phase, stop, skip_function_bodies, frames>>,
             NEW tokens, Tells(tokens, {pos}), bytes' = bytes \o tokens,
             pos \in EffectLines => pos \in Told(tokens)
      PROVE  EffectsInv'
  <2>1. /\ phase = "serialize" /\ phase' = "serialize"
        /\ pos + 1 \in Nat /\ pos <= pos + 1 /\ pos <= stop /\ pos \notin HiddenLines
    BY <1>0, <1>a, <1>b
  <2>2. \A p \in EffectLines : pos <= p /\ p < pos + 1 => p \in Told(tokens)
    BY <1>0, <1>b DEF EffectLines
  <2>3. FramesShown'
    BY <2>1, <1>b, SameEffects DEF EffectsInv, FramesShown
  <2> QED
    BY <1>b, <2>1, <2>2, <2>3, EffectsPassed
<1>1. CASE AddLine
  <2>1. phase = "parse" /\ phase' = "parse" /\ UNCHANGED bytes
    BY <1>1 DEF AddLine
  <2> QED
    BY <2>1, <1>h DEF EffectsInv
<1>2. CASE StartModule
  <2>1. /\ phase = "parse" /\ phase' = "serialize" /\ UNCHANGED <<prog, pos, frames>>
    BY <1>2 DEF StartModule
  <2>2. PICK n : bytes' = <<Num(n)>>
    BY <1>2 DEF StartModule
  <2>3. frames = << >> /\ pos = 1
    BY <2>1 DEF IInv, ParseInv
  <2>4. Tells(<<Num(n)>>, {})
    BY TellsShort, TokensNamed
  <2>5. BytesInv' /\ Written' = {}
    BY <2>2, <2>4 DEF BytesInv, Written, Told, Tells
  <2>6. FunctionsTold' /\ EffectsTold' /\ FramesShown'
    <3>1. FunctionsTold'
      BY <2>5 DEF FunctionsTold
    <3>2. EffectsTold'
      <4>1. \A p \in EffectLines' : ~(p < pos')
        BY <2>1, <2>3, <1>0 DEF EffectLines, Lines
      <4> QED
        BY <4>1 DEF EffectsTold
    <3>3. FramesShown'
      BY <2>1, <2>3 DEF FramesShown
    <3> QED
      BY <3>1, <3>2, <3>3
  <2> QED
    BY <2>1, <2>5, <2>6, <1>h DEF EffectsInv
<1>3. CASE SimpleStmt
  <2> DEFINE tokens == <<Tag(Kind(pos)), Loc(pos), End>>
  <2>1. Tells(tokens, {pos})
    <3>1. Tag(Kind(pos))[1] # "location" /\ Loc(pos)[2] \in {pos} /\ End[1] # "location"
      BY TokensNamed
    <3> QED
      BY <3>1, TellsShort
  <2>2. pos \in Told(tokens)
    <3>1. Len(tokens) = 3 /\ tokens[2] = Loc(pos)
      OBVIOUS
    <3>2. 2 \in 1..Len(tokens) /\ tokens[2][1] = "location" /\ tokens[2][2] = pos
      BY <3>1, TokensNamed
    <3> HIDE DEF tokens
    <3> QED
      BY <3>2 DEF Told
  <2> QED
    BY <1>3, <1>b, <2>1, <2>2 DEF SimpleStmt, Write
<1>4. CASE ImportStmt
  <2> DEFINE flags == MakeImportFlags(Kind(pos) = "lazy_import")
             front == <<Tag("import"), Num(Aliases(Kind(pos))), Loc(pos)>>
             extra == IF CacheVersion >= CV_IMPORT_FLAGS THEN <<<<"flags", flags>>>> ELSE << >>
             tokens == front \o extra \o <<End>>
  <2>1. Tells(front, {pos})
    <3>1. /\ Tag("import")[1] # "location" /\ Num(Aliases(Kind(pos)))[1] # "location"
          /\ Loc(pos)[2] \in {pos}
      BY TokensNamed
    <3> QED
      BY <3>1, TellsShort
  <2> HIDE DEF flags
  <2>2. Tells(extra, {pos}) /\ Tells(<<End>>, {pos})
    BY TellsShort, TokensNamed
  <2> HIDE DEF front, extra
  <2>3. Tells(tokens, {pos})
    <3>1. Tells(front \o extra, {pos})
      BY <2>1, <2>2, TellsConcat
    <3> QED
      BY <3>1, <2>2, TellsConcat
  <2>4. pos \notin EffectLines
    BY <1>4, <1>a DEF ImportStmt, Imports, EffectLines
  <2> HIDE DEF tokens
  <2>5. bytes' = bytes \o tokens
    BY <1>4 DEF ImportStmt, Write, tokens, front, extra, flags
  <2> QED
    BY <1>4, <1>b, <2>3, <2>4, <2>5 DEF ImportStmt
<1>5. CASE FunctionDef
  <2>1. At(Funcs) /\ SerializesBody(pos) /\ OpenBlock(in_class, TRUE, NoFlags)
    BY <1>5 DEF FunctionDef
  <2>2. pos \notin OmittedLines
    BY <2>1, <1>a DEF OmittedLines, Omitted, SerializesBody, HasExternallyVisibleEffect
  <2>3. Funcs \subseteq OpensBlock
    BY DEF OpensBlock, Headers, Funcs
  <2> QED
    BY <2>1, <2>2, <2>3, EffectsOpened
<1>6. CASE FunctionOmitted
  <2>1. /\ At(Funcs) /\ ~SerializesBody(pos)
        /\ UNCHANGED <<prog, phase, stop, skip_function_bodies, frames>>
        /\ bytes' = bytes \o (Intro(pos) \o EmptyBlock(pos, current_unreachable)
                                \o StmtEnd(pos, current_unreachable))
    BY <1>6 DEF FunctionOmitted, Write
  <2>2. PICK last \in pos..Len(prog) : Body(pos) = (pos + 1)..last /\ pos' = last + 1
    BY <1>6 DEF FunctionOmitted
  <2>3. /\ phase = "serialize" /\ pos \in Lines /\ pos <= stop /\ Kind(pos) \in Funcs
        /\ pos \notin HiddenLines
    BY <2>1, <1>a
  <2>4. pos \in OmittedLines
    BY <2>1, <2>3, <1>a DEF OmittedLines, Omitted, SerializesBody, HasExternallyVisibleEffect
  <2>5. HeadOf(pos) = pos
    <3>1. Kind(pos) \notin Clauses
      BY <2>3 DEF Funcs, Clauses, Cases
    <3> QED
      BY <2>3, <3>1, HeadKnown DEF EffectsInv
  <2> DEFINE tokens == Intro(pos) \o EmptyBlock(pos, current_unreachable)
                         \o StmtEnd(pos, current_unreachable)
  <2>6. Tells(tokens, {pos})
    <3>1. Tells(Intro(pos), {pos})
      BY <2>3, IntroTokens DEF OpensBlock, Headers, Funcs
    <3>2. Tells(EmptyBlock(pos, current_unreachable), {pos})
      BY BlockTokens
    <3>3. Tells(StmtEnd(pos, current_unreachable), {pos})
      BY <2>5, StmtEndTokens
    <3>4. Tells(Intro(pos) \o EmptyBlock(pos, current_unreachable), {pos})
      BY <3>1, <3>2, TellsConcat
    <3> QED
      BY <3>3, <3>4, TellsConcat
  <2>7. \A p \in EffectLines : ~(pos <= p /\ p < last + 1 /\ p \notin HiddenLines)
    <3> SUFFICES ASSUME NEW p \in EffectLines, pos <= p, p < last + 1
                 PROVE  p \in HiddenLines
      OBVIOUS
    <3>1. p \in Lines /\ p # pos
      BY <2>3 DEF EffectLines, Funcs
    <3>2. p \in (pos + 1)..last
      BY <1>0, <2>2, <3>1
    <3>3. Inside(pos, p)
      BY <2>2, <3>2 DEF Body
    <3> QED
      BY <2>4, <3>1, <3>3 DEF HiddenLines
  <2>8. FramesShown'
    BY <2>1, <2>3, SameEffects DEF EffectsInv, FramesShown
  <2>9. last + 1 \in Nat /\ pos <= last + 1
    BY <1>0, <2>2
  <2> HIDE DEF tokens
  <2>10. bytes' = bytes \o tokens
    BY <2>1 DEF tokens
  <2> QED
    BY <2>1, <2>2, <2>3, <2>6, <2>7, <2>8, <2>9, <2>10, EffectsPassed
<1>7. CASE ClassDef
  <2>1. At({"class"}) /\ OpenBlock(TRUE, in_function, NoFlags)
    BY <1>7 DEF ClassDef
  <2>2. pos \notin OmittedLines /\ {"class"} \subseteq OpensBlock
    BY <2>1, <1>a DEF OmittedLines, Omitted, Funcs, OpensBlock, Headers
  <2> QED
    BY <2>1, <2>2, EffectsOpened
<1>8. CASE Branch
  <2>1. At(Branches) /\ OpenBlock(in_class, in_function, BranchFlags(pos))
    BY <1>8 DEF Branch
  <2>2. pos \notin OmittedLines /\ Branches \subseteq OpensBlock
    BY <2>1, <1>a DEF OmittedLines, Omitted, Funcs, OpensBlock, Headers, Branches, Clauses, Cases
  <2> QED
    BY <2>1, <2>2, EffectsOpened
<1>9. CASE Plain
  <2> DEFINE kinds == {"loop", "loop_else", "try", "except", "try_else", "finally"}
  <2>1. At(kinds) /\ OpenBlock(in_class, in_function, NoFlags)
    BY <1>9 DEF Plain
  <2>2. pos \notin OmittedLines /\ kinds \subseteq OpensBlock
    BY <2>1, <1>a DEF OmittedLines, Omitted, Funcs, OpensBlock, Headers, Clauses
  <2> QED
    BY <2>1, <2>2, EffectsOpened
<1>10. CASE Match
  <2> DEFINE cases == ClausesOf(pos, Cases)
             front == <<Tag("match"), Expr(pos), Num(Cardinality(cases))>>
             rest == IF cases = {} THEN <<Loc(pos), End>> ELSE << >>
  <2> HIDE DEF cases
  <2>1. Tells(front, {pos})
    <3>1. /\ Tag("match")[1] # "location" /\ Expr(pos)[1] # "location"
          /\ Num(Cardinality(cases))[1] # "location"
      BY TokensNamed
    <3> QED
      BY <3>1, TellsShort
  <2>2. Tells(rest, {pos})
    <3>1. Loc(pos)[2] \in {pos} /\ End[1] # "location"
      BY TokensNamed
    <3> QED
      BY <3>1, TellsShort
  <2> HIDE DEF front, rest
  <2>3. Tells(front \o rest, {pos})
    BY <2>1, <2>2, TellsConcat
  <2>4. pos \notin EffectLines
    BY <1>10, <1>a DEF Match, EffectLines
  <2>5. bytes' = bytes \o (front \o rest)
    BY <1>10 DEF Match, Write, front, rest, cases
  <2> QED
    BY <1>10, <1>b, <2>3, <2>4, <2>5 DEF Match
<1>11. CASE EndBlock
  <2> DEFINE n == Len(frames)
             h == frames[Len(frames)].line
             u == frames[Len(frames)].unreachable
             rest == IF Continues THEN << >> ELSE StmtEnd(h, u)
             tokens == <<End>> \o HeadCount(h) \o rest
  <2>1. /\ phase = "serialize" /\ frames # << >>
        /\ UNCHANGED <<prog, phase, stop, skip_function_bodies, pos>>
        /\ frames' = SubSeq(frames, 1, n - 1)
        /\ bytes' = bytes \o tokens
    BY <1>11 DEF EndBlock, Write
  <2>2. frames \in Seq(Frame) /\ n \in 1..n
    BY <1>0, <2>1, EmptySeq DEF IInv, TypeInv
  <2>3. /\ h \in Lines /\ h <= stop /\ h \notin HiddenLines
    BY <1>0, <2>1, <2>2 DEF IInv, StackInv, EffectsInv, FramesShown
  <2> HIDE DEF h, u
  <2>4. HeadOf(h) \in FunctionLines => HeadOf(h) = h
    BY <2>3, HeadKnown DEF EffectsInv, FunctionLines, Funcs, Openers
  <2>5. Tells(tokens, {HeadOf(h)})
    <3>1. Tells(<<End>>, {HeadOf(h)}) /\ Tells(<< >>, {HeadOf(h)})
      BY TellsShort, TokensNamed
    <3>2. Tells(HeadCount(h), {HeadOf(h)}) /\ Tells(StmtEnd(h, u), {HeadOf(h)})
      BY HeadCountTokens, StmtEndTokens
    <3>3. Tells(rest, {HeadOf(h)})
      BY <3>1, <3>2
    <3> HIDE DEF rest
    <3>4. Tells(<<End>> \o HeadCount(h), {HeadOf(h)})
      BY <3>1, <3>2, TellsConcat
    <3> QED
      BY <3>3, <3>4, TellsConcat
  <2>6. FramesShown'
    <3>1. /\ Len(frames') = n - 1
          /\ \A i \in 1..(n - 1) : frames'[i] = frames[i]
      BY <2>1, <2>2, SubSeqProperties
    <3>2. \A i \in 1..(n - 1) : i \in 1..n
      BY <1>0
    <3> QED
      BY <2>1, <3>1, <3>2, SameEffects DEF EffectsInv, FramesShown
  <2>7. \A p \in EffectLines : ~(pos <= p /\ p < pos)
    BY <1>0 DEF EffectLines
  <2>8. \A f \in {HeadOf(h)} : f \in FunctionLines => f <= stop /\ f \notin HiddenLines
    BY <2>3, <2>4
  <2>9. \A p \in EffectLines : pos <= p /\ p < pos /\ p \notin HiddenLines => p \in Told(tokens)
    BY <2>7
  <2> HIDE DEF tokens, n
  <2>10. /\ phase' = "serialize" /\ pos' = pos
         /\ pos \in Nat /\ pos <= pos
         /\ UNCHANGED <<prog, stop, skip_function_bodies>>
    BY <1>0, <2>1
  <2> QED
    BY <2>1, <2>5, <2>6, <2>8, <2>9, <2>10, EffectsPassed
<1>12. CASE Finish
  <2>1. /\ phase = "serialize" /\ phase' = "done"
        /\ UNCHANGED <<prog, stop, skip_function_bodies, pos, frames, bytes>>
    BY <1>12 DEF Finish
  <2>2. Written' = Written /\ (BytesInv' <=> BytesInv)
    BY <2>1 DEF Written, BytesInv
  <2>3. FunctionsTold' /\ EffectsTold' /\ FramesShown'
    BY <2>1, <2>2, SameEffects DEF EffectsInv, FunctionsTold, EffectsTold, FramesShown
  <2> QED
    BY <2>1, <2>2, <2>3, <1>h DEF EffectsInv
<1>13. CASE UNCHANGED vars
  BY <1>13, EffectsUnchanged DEF vars
<1> QED
  BY <1>1, <1>2, <1>3, <1>4, <1>5, <1>6, <1>7, <1>8, <1>9, <1>10, <1>11, <1>12,
     <1>13 DEF Next, Serialize, Done

\* At the end all kept lines are passed.
LEMMA EffectsMeaning == IInv /\ GetattrInv /\ EffectsInv => EffectsAreWritten
<1> SUFFICES ASSUME IInv, GetattrInv, EffectsInv, phase = "done",
                    NEW p \in EffectLines, NEW f \in Lines,
                    Kind(f) \in Funcs, f \in Written, OwnScope(f, p),
                    Kind(p) = "attr" => \E c \in Lines : Kind(c) = "class" /\ OwnScope(c, f)
             PROVE  p \in Written
  BY DEF EffectsAreWritten
<1>0. /\ Len(prog) \in Nat /\ Lines = 1..Len(prog) /\ stop \in 0..Len(prog) /\ pos \in Nat
      /\ \A q \in Lines : Depth(q) \in Nat
  BY TreeType DEF IInv, TypeInv
<1>1. p \in Lines /\ Kind(p) \in {"yield", "attr"} /\ Inside(f, p)
  BY DEF EffectLines, OwnScope
<1>2. f <= stop /\ f \notin HiddenLines
  BY DEF EffectsInv, FunctionsTold, FunctionLines
<1>3. f \notin OmittedLines
  <2>1. p \in Visited(f)
    BY <1>1, <1>0 DEF Visited, Body, OwnScope, Inside
  <2>2. Kind(p) = "attr" => InClass(f)
    BY DEF OwnScope, InClass
  <2>3. HasExternallyVisibleEffect(f, InClass(f))
    BY <1>1, <2>1, <2>2 DEF HasExternallyVisibleEffect
  <2> QED
    BY <2>3 DEF OmittedLines, Omitted
<1>4. p \notin HiddenLines
  <2> SUFFICES ASSUME NEW h \in OmittedLines, Inside(h, p)
               PROVE  FALSE
    BY DEF HiddenLines
  <2>1. h \in Lines /\ Kind(h) \in Funcs
    BY DEF OmittedLines, Omitted
  <2>2. h < f
    BY <1>0, <1>3, <2>1 DEF OwnScope
  <2>3. Inside(h, f)
    <3>1. \A q \in (h + 1)..f : q \in (h + 1)..p
      BY <1>0, <1>1, <2>1 DEF Inside
    <3> QED
      BY <2>2, <3>1 DEF Inside
  <2> QED
    BY <1>2, <2>3 DEF HiddenLines
<1>5. p <= stop
  <2>1. KeptLines = 1..stop
    BY DEF GetattrInv
  <2>2. Kept(f)
    BY <1>0, <1>2, <2>1 DEF KeptLines
  <2>3. ASSUME NEW q \in 1..(p - 1), Depth(q) = 0, Kind(q) = "assert"
        PROVE  q \in 1..(f - 1)
    <3>1. q # f
      BY <2>3 DEF Funcs
    <3>2. q \notin (f + 1)..p
      BY <1>0, <1>1, <2>3 DEF Inside
    <3> QED
      BY <1>0, <1>1, <2>3, <3>1, <3>2
  <2>4. Kept(p)
    BY <2>2, <2>3 DEF Kept
  <2> QED
    BY <1>0, <1>1, <2>1, <2>4 DEF KeptLines
<1>6. p < pos
  BY <1>0, <1>1, <1>5 DEF GetattrInv
<1> QED
  BY <1>4, <1>5, <1>6 DEF EffectsInv, EffectsTold

\* For every program, skipping bodies hides no yield of a function that is
\* written and no attribute that a method defines (has_externally_visible_effect
\* and its use in Stmt::FunctionDef).
THEOREM NoEffectIsHidden == Spec => []EffectsAreWritten
<1>1. Init => EffectsInv
  BY DEF Init, EffectsInv, HeadsInv, Lines
<1>2. Init => GetattrInv
  BY DEF Init, GetattrInv
<1> QED
  BY <1>1, <1>2, Invariant, GetattrStep, EffectsStep, EffectsMeaning, PTL DEF Spec

-----------------------------------------------------------------------------
(***************************************************************************)
(* The lines that are skipped and the metadata of imports, for every       *)
(* program.  What the code knows of a branch is a recursive function along *)
(* the clauses of its statement (Analyzer); AnalyzerExact gives it the     *)
(* closed form AfterLine, by a least counterexample.  With it the flags of *)
(* a block say what the reference says of the branch (FlagsExact), and     *)
(* MetadataInv says of skipped_lines and imports, which grow during the    *)
(* walk, what they hold of the lines passed so far.                        *)
(***************************************************************************)

\* Every set of numbers that has one has a least.
LEMMA LeastIn ==
    ASSUME NEW S \in SUBSET Nat, S # {}
    PROVE  \E m \in S : \A q \in S : m <= q
<1> DEFINE R == OpToRel(<, Nat)
<1>1. \A i, j \in Nat : i < j => <<i, j>> \in R
  BY DEF OpToRel
<1>2. IsWellFoundedOn(R, Nat)
  BY NatLessThanWellFounded
<1> HIDE DEF R
<1>3. PICK m \in S : \A q \in S : ~(<<q, m>> \in R)
  BY <1>2, WFMin
<1>4. ASSUME NEW q \in S
      PROVE  m <= q
  <2>1. m \in Nat /\ q \in Nat
    OBVIOUS
  <2>2. ~(q < m)
    BY <1>1, <1>3, <2>1
  <2> QED
    BY <2>1, <2>2
<1> QED
  BY <1>4

\* The line before a clause in its statement.
Precedes(q, p) ==
    /\ Depth(q) = Depth(p)
    /\ Kind(q) \in Follows(Kind(p))
    /\ \A r \in (q + 1)..(p - 1) : Depth(r) > Depth(p)

Tried(p) == Before(p) \cup {p}
Says(q, value) == Kind(q) \in {"if", "elif", "case_any"} /\ prog[q].truth = value
AfterLine(p) ==
    [tail_unreachable |-> \E q \in Tried(p) : Decides(q),
     seen_mypy_true   |-> \E q \in Tried(p) : Says(q, "MypyTrue"),
     seen_mypy_false  |-> \E q \in Tried(p) : Kind(q) \in {"if", "elif"} /\ Says(q, "MypyFalse")]

ClausesInv ==
    /\ \A p \in Lines : Kind(p) \in Clauses => \E q \in 1..(p - 1) : Precedes(q, p)
    /\ \A p \in Lines : Kind(p) \notin Conditional => prog[p].truth = "Unknown"

\* A statement's header is not below any of its clauses.
LEMMA HeadBelow ==
    ASSUME IInv, HeadsInv, NEW h \in Lines
    PROVE  HeadOf(h) \in Nat /\ HeadOf(h) <= h
<1>0. Len(prog) \in Nat /\ Lines = 1..Len(prog)
  BY TreeType
<1> DEFINE S == {q \in 1..h : Depth(q) = Depth(h) /\ Kind(q) \notin Clauses}
<1>1. ASSUME NEW m \in S, \A q \in S : q <= m
      PROVE  HeadOf(h) \in S
  BY <1>1 DEF HeadOf, Highest
<1>2. CASE Kind(h) \notin Clauses
  <2>1. h \in S /\ \A q \in S : q <= h
    BY <1>0, <1>2
  <2> QED
    BY <1>0, <1>1, <2>1
<1>3. CASE Kind(h) \in Clauses
  <2>1. PICK q \in 1..(h - 1) : ClauseFollows(h, q)
    BY <1>3 DEF HeadsInv
  <2>2. q \in S
    BY <1>0, <2>1 DEF ClauseFollows, Openers, Clauses, Cases
  <2>3. ASSUME NEW r \in S
        PROVE  r <= q
    BY <1>0, <1>3, <2>1, <2>3 DEF ClauseFollows
  <2> QED
    BY <1>0, <1>1, <2>2, <2>3
<1> QED
  BY <1>2, <1>3

\* A clause continues a line of the same statement, after which it is tried.
LEMMA ClauseAfter ==
    ASSUME IInv, HeadsInv, ClausesInv, NEW p \in Lines, Kind(p) \in Clauses
    PROVE  /\ Previous(p) \in Lines /\ Previous(p) < p
           /\ Precedes(Previous(p), p)
           /\ HeadOf(p) = HeadOf(Previous(p))
           /\ Before(p) = Tried(Previous(p))
<1>0. /\ Len(prog) \in Nat /\ Lines = 1..Len(prog)
      /\ \A q \in Lines : Depth(q) \in Nat
  BY TreeType
<1>1. PICK q \in 1..(p - 1) : Precedes(q, p)
  BY DEF ClausesInv
<1>q. q \in Lines /\ q < p
  BY <1>0
<1>d. \A r \in (q + 1)..(p - 1) : r \in Lines /\ Depth(r) > Depth(p) /\ Depth(r) \in Nat
  BY <1>0, <1>1 DEF Precedes
<1>2. Previous(p) = q
  <2> DEFINE S == {r \in 1..(p - 1) : Depth(r) <= Depth(p)}
  <2>1. q \in S
    BY <1>0, <1>1 DEF Precedes
  <2>2. \A r \in S : r <= q
    BY <1>0, <1>d
  <2>3. S \subseteq Int
    BY <1>0
  <2>u. ASSUME NEW r \in S, \A t \in S : t <= r
        PROVE  r = q
    BY <2>1, <2>2, <2>3, <2>u
  <2> HIDE DEF S
  <2>4. (CHOOSE r \in S : \A t \in S : t <= r) = q
    BY <2>1, <2>2, <2>u
  <2> QED
    BY <2>4 DEF Previous, Highest, S
<1>3. HeadOf(p) = HeadOf(q)
  <2>1. {r \in 1..p : Depth(r) = Depth(p) /\ Kind(r) \notin Clauses}
          = {r \in 1..q : Depth(r) = Depth(q) /\ Kind(r) \notin Clauses}
    BY <1>0, <1>1, <1>q, <1>d DEF Precedes
  <2> QED
    BY <2>1 DEF HeadOf
<1>4. HeadOf(q) \in Nat /\ HeadOf(q) <= q
  BY <1>q, HeadKnown, HeadBelow
<1>5. Before(p) = Tried(q)
  <2>1. ASSUME NEW r \in Lines
        PROVE  r \in Before(p) <=> r \in Tried(q)
    BY <1>0, <1>1, <1>q, <1>d, <1>3, <1>4 DEF Before, Tried, Precedes
  <2>2. Before(p) \subseteq Lines /\ Tried(q) \subseteq Lines
    BY <1>q DEF Before, Tried
  <2> QED
    BY <2>1, <2>2
<1> QED
  BY <1>1, <1>2, <1>3, <1>5, <1>q

\* What is known after one more line.
LEMMA AfterOneMore ==
    ASSUME NEW h, Kind(h) \in Clauses, NEW q, Tried(h) = Tried(q) \cup {h}
    PROVE  AfterLine(h) =
             CASE Kind(h) \in {"if", "elif"} -> AfterCondition(AfterLine(q), prog[h].truth)
               [] Kind(h) \in Cases ->
                    AfterMatchCase(AfterLine(q), InferPatternValue(Kind(h) = "case_any"), prog[h].truth)
               [] OTHER -> AfterLine(q)
<1>1. CASE Kind(h) = "elif"
  BY <1>1 DEF AfterLine, Decides, Says, AfterCondition, TrueForMypy, Cases
<1>2. CASE Kind(h) \in Cases
  BY <1>2 DEF AfterLine, Decides, Says, AfterMatchCase, TrueForMypy, Cases, InferPatternValue
<1>3. CASE Kind(h) \notin {"elif"} \cup Cases
  BY <1>3 DEF AfterLine, Decides, Says, Clauses, Cases
<1> QED
  BY <1>1, <1>2, <1>3

\* What the analyzer knows after a line is what was tried up to it.
LEMMA AnalyzerExact ==
    ASSUME IInv, HeadsInv, ClausesInv, NEW p \in Lines
    PROVE  Analyzer[p] = AfterLine(p)
<1>0. Len(prog) \in Nat /\ Lines = 1..Len(prog)
  BY TreeType
<1> DEFINE Before_(f, h) == IF Kind(h) \in Clauses THEN f[Previous(h)] ELSE NewAnalyzer
           Step(f, h) ==
             CASE Kind(h) \in {"if", "elif"} -> AfterCondition(Before_(f, h), prog[h].truth)
               [] Kind(h) \in Cases ->
                    AfterMatchCase(Before_(f, h), InferPatternValue(Kind(h) = "case_any"), prog[h].truth)
               [] OTHER -> Before_(f, h)
           M == [h \in Lines |-> AfterLine(h)]
<1>1. ASSUME NEW h \in Lines
      PROVE  AfterLine(h) = Step(M, h)
  <2>1. CASE Kind(h) \in Clauses
    <3>1. /\ Previous(h) \in Lines /\ Before(h) = Tried(Previous(h))
      BY <2>1, ClauseAfter
    <3>2. Before_(M, h) = AfterLine(Previous(h))
      BY <2>1, <3>1
    <3>3. Tried(h) = Tried(Previous(h)) \cup {h}
      BY <3>1 DEF Tried
    <3> QED
      BY <2>1, <3>2, <3>3, AfterOneMore
  <2>2. CASE Kind(h) \notin Clauses
    <3>1. HeadOf(h) = h
      BY <2>2, HeadKnown
    <3>2. Tried(h) = {h}
      BY <1>0, <3>1 DEF Tried, Before
    <3>3. Before_(M, h) = NewAnalyzer
      BY <2>2
    <3> QED
      BY <2>2, <3>2, <3>3 DEF AfterLine, Decides, Says, NewAnalyzer, AfterCondition, Clauses, Cases
  <2> QED
    BY <2>1, <2>2
<1>2. M = [h \in Lines |-> Step(M, h)]
  BY <1>1
<1> DEFINE Defines(f) == f = [h \in Lines |-> Step(f, h)]
<1>3. Analyzer = CHOOSE f : Defines(f)
  BY DEF Analyzer
<1>4. Defines(Analyzer)
  <2>1. Defines(M)
    BY <1>2
  <2> HIDE DEF Defines, M
  <2>2. Defines(CHOOSE f : Defines(f))
    BY <2>1, Zenon
  <2> QED
    BY <1>3, <2>2, Zenon
<1> DEFINE S == {h \in Lines : Analyzer[h] # AfterLine(h)}
<1>5. ASSUME S # {}
      PROVE  FALSE
  <2>1. S \in SUBSET Nat
    BY <1>0
  <2>2. PICK h \in S : \A q \in S : h <= q
    BY <1>5, <2>1, LeastIn
  <2>3. h \in Lines /\ Analyzer[h] # AfterLine(h)
    OBVIOUS
  <2>4. Before_(Analyzer, h) = Before_(M, h)
    <3>1. CASE Kind(h) \in Clauses
      <4>1. Previous(h) \in Lines /\ Previous(h) < h
        BY <2>3, <3>1, ClauseAfter
      <4>2. Previous(h) \notin S
        BY <1>0, <2>2, <2>3, <4>1
      <4> QED
        BY <3>1, <4>1, <4>2
    <3>2. CASE Kind(h) \notin Clauses
      BY <3>2
    <3> QED
      BY <3>1, <3>2
  <2>5. Analyzer[h] = Step(Analyzer, h) /\ AfterLine(h) = Step(M, h)
    BY <1>1, <1>4, <2>3
  <2>6. Step(Analyzer, h) = Step(M, h)
    <3> HIDE DEF M, Before_
    <3> QED
      BY <2>4
  <2> QED
    BY <2>3, <2>5, <2>6
<1> QED
  BY <1>5

\* Only conditions are tried before an elif or else.
LEMMA TriedBeforeElse ==
    ASSUME IInv, HeadsInv, ClausesInv,
           NEW p \in Lines, Kind(p) \in {"elif", "else"}, NEW q \in Before(p)
    PROVE  Kind(q) \in {"if", "elif"}
<1>0. Len(prog) \in Nat /\ Lines = 1..Len(prog)
  BY TreeType
<1> DEFINE S == {h \in Lines : /\ Kind(h) \in {"elif", "else"}
                              /\ \E r \in Before(h) : Kind(r) \notin {"if", "elif"}}
<1>1. ASSUME S # {}
      PROVE  FALSE
  <2>1. S \in SUBSET Nat
    BY <1>0
  <2>2. PICK h \in S : \A r \in S : h <= r
    BY <1>1, <2>1, LeastIn
  <2>3. h \in Lines /\ Kind(h) \in {"elif", "else"} /\ Kind(h) \in Clauses
    BY DEF Clauses
  <2>4. /\ Previous(h) \in Lines /\ Previous(h) < h
        /\ Precedes(Previous(h), h) /\ Before(h) = Tried(Previous(h))
    BY <2>3, ClauseAfter
  <2>5. Kind(Previous(h)) \in {"if", "elif"}
    BY <2>3, <2>4 DEF Precedes, Follows, Cases
  <2>6. Previous(h) \notin S
    BY <1>0, <2>2, <2>3, <2>4
  <2>7. CASE Kind(Previous(h)) = "if"
    <3>1. HeadOf(Previous(h)) = Previous(h)
      BY <2>4, <2>7, HeadKnown DEF Clauses, Cases
    <3>2. Before(h) = {Previous(h)}
      BY <1>0, <2>4, <3>1 DEF Tried, Before
    <3> QED
      BY <2>5, <3>2
  <2>8. CASE Kind(Previous(h)) = "elif"
    BY <2>4, <2>5, <2>6, <2>8 DEF Tried
  <2> QED
    BY <2>5, <2>7, <2>8
<1> QED
  BY <1>1

\* The flags of a block say what the reference says of its branch.
LEMMA FlagsExact ==
    ASSUME IInv, HeadsInv, ClausesInv, NEW p \in Lines, Kind(p) \in Branches
    PROVE  /\ BranchFlags(p).unreachable <=> UnreachableBranch(p)
           /\ BranchFlags(p).mypy_only <=> MypyOnlyBranch(p)
<1> DEFINE before == IF Kind(p) \in Clauses THEN Analyzer[Previous(p)] ELSE NewAnalyzer
<1>0. Len(prog) \in Nat /\ Lines = 1..Len(prog)
  BY TreeType
<1>1. /\ before.tail_unreachable <=> \E q \in Before(p) : Decides(q)
      /\ before.seen_mypy_true <=> \E q \in Before(p) : Says(q, "MypyTrue")
      /\ before.seen_mypy_false <=>
           \E q \in Before(p) : Kind(q) \in {"if", "elif"} /\ Says(q, "MypyFalse")
  <2>1. CASE Kind(p) \in Clauses
    <3>1. /\ Previous(p) \in Lines /\ Before(p) = Tried(Previous(p))
      BY <2>1, ClauseAfter
    <3>2. Analyzer[Previous(p)] = AfterLine(Previous(p))
      BY <3>1, AnalyzerExact
    <3> QED
      BY <2>1, <3>1, <3>2 DEF AfterLine
  <2>2. CASE Kind(p) \notin Clauses
    <3>1. HeadOf(p) = p
      BY <2>2, HeadKnown
    <3>2. Before(p) = {}
      BY <1>0, <3>1 DEF Before
    <3> QED
      BY <2>2, <3>2 DEF NewAnalyzer
  <2> QED
    BY <2>1, <2>2
<1>2. before.seen_mypy_true => before.tail_unreachable
  BY <1>1 DEF Says, Decides, TrueForMypy
<1>3. Kind(p) = "else" =>
        /\ prog[p].truth = "Unknown"
        /\ before.seen_mypy_false <=> \E q \in Before(p) : prog[q].truth = "MypyFalse"
  BY <1>1, TriedBeforeElse DEF ClausesInv, Conditional, Cases, Says
<1>4. BranchFlags(p) =
        CASE Kind(p) \in {"if", "elif"} -> ConditionFlags(before, prog[p].truth)
          [] Kind(p) = "else"           -> ElseFlags(before)
          [] Kind(p) \in Cases ->
               MatchCaseFlags(before, InferPatternValue(Kind(p) = "case_any"), prog[p].truth)
  BY DEF BranchFlags
<1> HIDE DEF before
<1>5. CASE Kind(p) \in {"if", "elif"}
  <2>1. BranchFlags(p) = ConditionFlags(before, prog[p].truth)
    BY <1>4, <1>5 DEF Cases
  <2> DEFINE unreachable == before.tail_unreachable \/ prog[p].truth \in FalseForMypy
             mypy_only == ~unreachable /\ ~before.seen_mypy_true /\ prog[p].truth = "MypyTrue"
  <2>2. BranchFlags(p) = [unreachable |-> unreachable, mypy_only |-> mypy_only]
    BY <2>1 DEF ConditionFlags
  <2>3. unreachable <=> UnreachableBranch(p)
    BY <1>1 DEF UnreachableBranch
  <2>4. mypy_only <=> MypyOnlyBranch(p)
    BY <1>2, <1>5, <2>3 DEF MypyOnlyBranch
  <2> HIDE DEF unreachable, mypy_only
  <2> QED
    BY <2>2, <2>3, <2>4
<1>6. CASE Kind(p) = "else"
  <2>1. BranchFlags(p) = ElseFlags(before)
    BY <1>4, <1>6 DEF Cases
  <2> QED
    BY <1>1, <1>2, <1>3, <1>6, <2>1 DEF ElseFlags, UnreachableBranch, MypyOnlyBranch, FalseForMypy
<1>7. CASE Kind(p) \in Cases
  <2>1. BranchFlags(p) =
          MatchCaseFlags(before, InferPatternValue(Kind(p) = "case_any"), prog[p].truth)
    BY <1>4, <1>7 DEF Cases
  <2> QED
    BY <1>1, <1>2, <1>7, <2>1 DEF MatchCaseFlags, UnreachableBranch, MypyOnlyBranch, FalseForMypy,
       TrueForMypy, InferPatternValue, Cases
<1> QED
  BY <1>5, <1>6, <1>7 DEF Branches
-----------------------------------------------------------------------------
(* The tree while it is parsed. *)

\* What a step of the parser adds to the tree.
LEMMA LineAdded ==
    ASSUME IInv, AddLine
    PROVE  \E n \in Nat, line \in LineType :
              /\ n = Len(prog) /\ Fits(line)
              /\ line.kind \notin Conditional => line.truth = "Unknown"
              /\ Lines' = 1..(n + 1)
              /\ \A p \in 1..n : prog'[p] = prog[p]
              /\ prog'[n + 1] = line
<1>0. Len(prog) \in Nat /\ prog \in Seq(LineType)
  BY TreeType DEF IInv, TypeInv
<1>1. PICK v \in Vocabularies :
         \E kind \in v.kinds, depth \in 0..v.depth, truth \in v.truths \cup {"Unknown"} :
            LET line == [kind |-> kind, depth |-> depth, truth |-> truth]
            IN /\ kind \notin Conditional => truth = "Unknown"
               /\ Fits(line) /\ prog' = Append(prog, line)
  BY DEF AddLine
<1>2. PICK kind \in v.kinds, depth \in 0..v.depth, truth \in v.truths \cup {"Unknown"} :
         /\ kind \notin Conditional => truth = "Unknown"
         /\ Fits([kind |-> kind, depth |-> depth, truth |-> truth])
         /\ prog' = Append(prog, [kind |-> kind, depth |-> depth, truth |-> truth])
  BY <1>1
<1> DEFINE line == [kind |-> kind, depth |-> depth, truth |-> truth]
<1>3. line \in LineType /\ line.kind = kind /\ line.truth = truth
  BY SerializerAssumption DEF LineType, TruthValue
<1> HIDE DEF line
<1>4. /\ Len(prog') = Len(prog) + 1
      /\ \A i \in 1..Len(prog) : prog'[i] = prog[i]
      /\ prog'[Len(prog) + 1] = line
  BY <1>0, <1>2, <1>3, AppendProperties DEF line
<1>5. Lines' = 1..(Len(prog) + 1)
  BY <1>4 DEF Lines
<1>6. Fits(line)
  BY <1>2 DEF line
<1> QED
  BY <1>0, <1>2, <1>3, <1>4, <1>5, <1>6

\* Every step keeps a clause next to the line it continues.
LEMMA ClausesStep == IInv /\ ClausesInv /\ [Next]_vars => ClausesInv'
<1> SUFFICES ASSUME IInv, ClausesInv, [Next]_vars PROVE ClausesInv'
  OBVIOUS
<1>0. Len(prog) \in Nat /\ Lines = 1..Len(prog)
  BY TreeType
<1>1. CASE UNCHANGED prog
  BY <1>1 DEF ClausesInv, Precedes, Lines, Depth, Kind
<1>2. CASE AddLine
  <2>1. PICK n \in Nat, line \in LineType :
              /\ n = Len(prog) /\ Fits(line)
              /\ line.kind \notin Conditional => line.truth = "Unknown"
              /\ Lines' = 1..(n + 1)
              /\ \A p \in 1..n : prog'[p] = prog[p]
              /\ prog'[n + 1] = line
    BY <1>2, LineAdded
  <2>2. /\ \A p \in 1..n : Kind(p)' = Kind(p) /\ Depth(p)' = Depth(p)
        /\ Kind(n + 1)' = line.kind /\ Depth(n + 1)' = line.depth
    <3>1. ASSUME NEW p \in 1..n
          PROVE  Kind(p)' = Kind(p) /\ Depth(p)' = Depth(p)
      BY <2>1 DEF Kind, Depth
    <3>2. (prog[n + 1].kind)' = line.kind /\ (prog[n + 1].depth)' = line.depth
      BY <2>1
    <3> QED
      BY <3>1, <3>2 DEF Kind, Depth
  <2>3. ASSUME NEW p \in 1..n, Kind(p) \in Clauses
        PROVE  \E q \in 1..(p - 1) : Precedes(q, p)'
    <3>1. PICK q \in 1..(p - 1) : Precedes(q, p)
      BY <1>0, <2>1, <2>3 DEF ClausesInv
    <3>2. \A r \in (q + 1)..(p - 1) : r \in 1..n
      BY <2>1
    <3>3. q \in 1..n
      BY <2>1
    <3> QED
      BY <3>1, <3>2, <3>3, <2>2 DEF Precedes
  <2>4. ASSUME line.kind \in Clauses
        PROVE  \E q \in 1..n : Precedes(q, n + 1)'
    <3>1. PICK o \in 1..n : /\ Depth(o) = line.depth
                            /\ Kind(o) \in Follows(line.kind)
                            /\ \A r \in (o + 1)..n : Depth(r) > line.depth
      BY <1>0, <2>1, <2>4 DEF Fits
    <3>2. \A r \in (o + 1)..n : r \in 1..n
      BY <2>1
    <3> QED
      BY <2>1, <2>2, <3>1, <3>2 DEF Precedes
  <2>5. ASSUME NEW p \in 1..(n + 1)
        PROVE  /\ Kind(p)' \in Clauses => \E q \in 1..(p - 1) : Precedes(q, p)'
               /\ Kind(p)' \notin Conditional => prog'[p].truth = "Unknown"
    <3>1. CASE p \in 1..n
      BY <1>0, <2>1, <2>2, <2>3, <3>1 DEF ClausesInv
    <3>2. CASE p = n + 1
      BY <2>1, <2>2, <2>4, <3>2
    <3> QED
      BY <3>1, <3>2
  <2> QED
    BY <2>1, <2>5 DEF ClausesInv
<1> QED
  BY <1>1, <1>2 DEF Next, StartModule, Serialize, Done, SimpleStmt, ImportStmt, FunctionDef,
     FunctionOmitted, ClassDef, Branch, Plain, Match, EndBlock, Finish, OpenBlock, vars
-----------------------------------------------------------------------------
(* What is collected so far. *)

UnreachableBranches == {h \in Lines : UnreachableBranch(h)}
EmittedLines        == {p \in Lines : Emitted(p)}
ImportLines         == {p \in Lines : Kind(p) \in Imports}
FlagsOfLines        == [p \in Lines |-> ReferenceFlags(p)]

\* The lines in emitted branches that are unreachable, of those before next.
SkippedBefore(next) ==
    {p \in Lines : \E h \in UnreachableBranches \cap EmittedLines : h < next /\ Inside(h, p)}

SkipInv == skipped_lines = (stop + 1)..Len(prog) \cup SkippedBefore(pos)

EntryCount(p) == Cardinality({i \in 1..Len(imports) : imports[i].line = p})

Entry == [line : Nat, flags : SUBSET {"TOP_LEVEL", "UNREACHABLE", "MYPY_ONLY", "LAZY"}]

EntriesInv ==
    /\ \A i \in 1..Len(imports) :
          /\ imports[i].line \in Lines /\ imports[i].line < pos
          /\ imports[i].flags = FlagsOfLines[imports[i].line]
    /\ \A i, j \in 1..Len(imports) : i < j => imports[i].line <= imports[j].line

CountsInv ==
    \A p \in Lines :
        EntryCount(p) = IF p < pos /\ p \in ImportLines \cap EmittedLines
                        THEN Aliases(Kind(p)) ELSE 0

MetadataInv ==
    /\ ClausesInv
    /\ imports \in Seq(Entry)
    /\ phase = "parse" => imports = << >>
    /\ phase # "parse" => SkipInv /\ EntriesInv /\ CountsInv

\* What is emitted and which branches are unreachable depend on the tree only.
LEMMA SameMetadata ==
    ASSUME UNCHANGED <<prog, skip_function_bodies>>
    PROVE  /\ Lines' = Lines
           /\ UnreachableBranches' = UnreachableBranches /\ EmittedLines' = EmittedLines
           /\ ImportLines' = ImportLines /\ FlagsOfLines' = FlagsOfLines
           /\ \A h, p : Inside(h, p)' <=> Inside(h, p)
           /\ \A p : Kind(p)' = Kind(p)
<1>1. Lines' = Lines /\ (\A p : Kind(p)' = Kind(p)) /\ (\A p : Depth(p)' = Depth(p))
  BY DEF Lines, Kind, Depth
<1>2. \A h, p : Inside(h, p)' <=> Inside(h, p)
  BY DEF Inside, Depth
<1>3. \A p : HeadOf(p)' = HeadOf(p)
  BY DEF HeadOf, Highest, Kind, Depth
<1>4. \A h : Before(h)' = Before(h)
  BY <1>1, <1>3 DEF Before
<1>5. \A h : /\ UnreachableBranch(h)' <=> UnreachableBranch(h)
             /\ MypyOnlyBranch(h)' <=> MypyOnlyBranch(h)
  BY <1>1, <1>4 DEF UnreachableBranch, MypyOnlyBranch, Decides, Kind
<1>6. EmittedLines' = EmittedLines
  <2>1. OmittedLines' = OmittedLines
    BY SameEffects
  <2>2. KeptLines' = KeptLines
    BY SameGetattrs
  <2>3. /\ EmittedLines = {p \in KeptLines : ~\E h \in OmittedLines : Inside(h, p)}
    BY DEF EmittedLines, Emitted, KeptLines, OmittedLines
  <2>4. /\ EmittedLines' = {p \in KeptLines' : ~\E h \in OmittedLines' : Inside(h, p)'}
    BY DEF EmittedLines, Emitted, KeptLines, OmittedLines
  <2> QED
    BY <2>1, <2>2, <2>3, <2>4, <1>2
<1>7. \A p : ReferenceFlags(p)' = ReferenceFlags(p)
  BY <1>1, <1>2, <1>5 DEF ReferenceFlags, InFunction, Unreachable, MypyOnly
<1> QED
  BY <1>1, <1>2, <1>5, <1>6, <1>7 DEF UnreachableBranches, ImportLines, FlagsOfLines

\* The lines that are written are those kept and in no omitted body.
LEMMA EmittedIs ==
    ASSUME IInv, GetattrInv, phase # "parse"
    PROVE  EmittedLines = {p \in Lines : p <= stop /\ p \notin HiddenLines}
<1>0. Len(prog) \in Nat /\ Lines = 1..Len(prog) /\ stop \in 0..Len(prog)
  BY TreeType DEF IInv, TypeInv
<1>1. KeptLines = 1..stop
  BY DEF GetattrInv
<1>2. ASSUME NEW p \in Lines
      PROVE  Emitted(p) <=> p <= stop /\ p \notin HiddenLines
  <2>1. Kept(p) <=> p <= stop
    BY <1>0, <1>1 DEF KeptLines
  <2>2. p \in HiddenLines <=> \E h \in Lines : Inside(h, p) /\ Omitted(h)
    BY DEF HiddenLines, OmittedLines
  <2> QED
    BY <2>1, <2>2 DEF Emitted
<1> QED
  BY <1>2 DEF EmittedLines

\* Of the line that is serialized, what is around it is known exactly.
LEMMA NextEmitted ==
    ASSUME IInv, GetattrInv, EffectsInv, ClausesInv, NEW kinds, At(kinds)
    PROVE  /\ phase = "serialize" /\ pos \in Lines /\ pos <= stop /\ Kind(pos) \in kinds
           /\ pos \in EmittedLines
           /\ in_class <=> InClass(pos)
           /\ in_function <=> InFunction(pos)
           /\ current_unreachable <=> Unreachable(pos)
           /\ current_mypy_only <=> MypyOnly(pos)
<1>0. Len(prog) \in Nat /\ Lines = 1..Len(prog) /\ stop \in 0..Len(prog) /\ pos \in 1..(Len(prog) + 1)
  BY TreeType DEF IInv, TypeInv
<1>1. /\ Visiting /\ phase = "serialize" /\ pos \in Lines /\ pos <= stop /\ Kind(pos) \in kinds
      /\ Depth(pos) = Len(frames)
  BY <1>0 DEF At, Visiting
<1>2. pos \in EmittedLines
  BY <1>1, EmittedIs, NextNotHidden DEF EffectsInv
<1>3. \A h \in Lines : Kind(h) \in Branches =>
           /\ BranchFlags(h).unreachable <=> UnreachableBranch(h)
           /\ BranchFlags(h).mypy_only <=> MypyOnlyBranch(h)
  BY FlagsExact DEF EffectsInv
<1>4. ContextMatchesEnclosing
  BY InvariantContext
<1>5. /\ Unreachable(pos) <=>
           \E h \in Lines : Inside(h, pos) /\ Kind(h) \in Branches /\ BranchFlags(h).unreachable
      /\ MypyOnly(pos) <=>
           \E h \in Lines : Inside(h, pos) /\ Kind(h) \in Branches /\ BranchFlags(h).mypy_only
  BY <1>3 DEF Unreachable, MypyOnly, UnreachableBranch, MypyOnlyBranch
<1> QED
  BY <1>1, <1>2, <1>4, <1>5 DEF ContextMatchesEnclosing

\* A block within a block is within what contains that.
LEMMA InsideTransitive ==
    ASSUME IInv, NEW g \in Lines, NEW h \in Lines, NEW p \in Lines, Inside(g, h), Inside(h, p)
    PROVE  Inside(g, p)
<1>0. Len(prog) \in Nat /\ Lines = 1..Len(prog) /\ \A q \in Lines : Depth(q) \in Nat
  BY TreeType
<1>1. g < h /\ h < p
  BY DEF Inside
<1>2. ASSUME NEW q \in (g + 1)..p
      PROVE  Depth(q) > Depth(g)
  <2>1. q \in (g + 1)..h \/ q \in (h + 1)..p
    BY <1>0, <1>1
  <2>2. Depth(h) > Depth(g)
    BY <1>0, <1>1 DEF Inside
  <2>3. q \in Lines
    BY <1>0
  <2> QED
    BY <1>0, <2>1, <2>2, <2>3 DEF Inside
<1> QED
  BY <1>0, <1>1, <1>2 DEF Inside

\* Lines are only skipped when an unreachable branch is passed.
LEMMA SkippedNothing ==
    ASSUME IInv, NEW next \in Nat, pos <= next,
           \A h \in UnreachableBranches \cap EmittedLines : ~(pos <= h /\ h < next)
    PROVE  SkippedBefore(next) = SkippedBefore(pos)
<1>0. Lines \subseteq Nat /\ pos \in Nat
  BY TreeType
<1>1. \A h \in UnreachableBranches \cap EmittedLines : h \in Nat
  BY <1>0 DEF EmittedLines
<1>2. \A h \in UnreachableBranches \cap EmittedLines : h < next <=> h < pos
  BY <1>0, <1>1
<1> QED
  BY <1>2 DEF SkippedBefore

\* A step that passes the lines before next and collects no import.
LEMMA MetadataPassed ==
    ASSUME IInv, MetadataInv, ClausesInv', phase = "serialize", phase' = "serialize",
           UNCHANGED <<prog, stop, skip_function_bodies, imports>>,
           NEW next \in Nat, pos' = next, pos <= next,
           \A p \in ImportLines \cap EmittedLines : ~(pos <= p /\ p < next),
           skipped_lines' = (stop + 1)..Len(prog) \cup SkippedBefore(next)
    PROVE  MetadataInv'
<1>0. Len(prog) \in Nat /\ Lines = 1..Len(prog) /\ pos \in Nat
  BY TreeType
<1>1. SkipInv'
  <2>1. SkippedBefore(next)' = SkippedBefore(next)
    BY SameMetadata DEF SkippedBefore
  <2> QED
    BY <2>1 DEF SkipInv
<1>2. EntriesInv'
  <2>1. EntriesInv /\ imports \in Seq(Entry)
    BY DEF MetadataInv
  <2>2. \A i \in 1..Len(imports) : imports[i].line < next
    BY <1>0, <2>1 DEF EntriesInv
  <2> QED
    BY <2>1, <2>2, SameMetadata DEF EntriesInv
<1>3. CountsInv'
  <2>1. \A p : EntryCount(p)' = EntryCount(p)
    BY DEF EntryCount
  <2>2. \A p \in Lines : p \in ImportLines \cap EmittedLines => (p < next <=> p < pos)
    BY <1>0
  <2>3. \A p \in Lines : (Aliases(Kind(p)))' = Aliases(Kind(p))
    BY DEF Aliases, Kind
  <2> QED
    BY <2>1, <2>2, <2>3, SameMetadata DEF CountsInv, MetadataInv
<1>4. imports' \in Seq(Entry)
  BY DEF MetadataInv
<1> QED
  BY <1>1, <1>2, <1>3, <1>4 DEF MetadataInv

\* A block opened: its lines are skipped if it or a block around it is unreachable.
LEMMA MetadataOpened ==
    ASSUME IInv, GetattrInv, EffectsInv, MetadataInv, ClausesInv',
           NEW kinds, At(kinds), kinds \cap Imports = {},
           NEW class, NEW function, NEW flags, OpenBlock(class, function, flags),
           flags.unreachable <=> pos \in UnreachableBranches
    PROVE  MetadataInv'
<1>0. /\ Len(prog) \in Nat /\ Lines = 1..Len(prog) /\ pos \in Nat
      /\ stop \in Nat /\ current_unreachable \in BOOLEAN
  BY TreeType DEF IInv, TypeInv
<1>1. /\ phase = "serialize" /\ pos \in Lines /\ pos <= stop /\ Kind(pos) \in kinds
      /\ pos \in EmittedLines
      /\ current_unreachable <=> Unreachable(pos)
  BY NextEmitted DEF MetadataInv
<1>2. /\ UNCHANGED <<prog, phase, stop, skip_function_bodies, imports>>
      /\ pos' = pos + 1 /\ pos + 1 \in Nat /\ pos <= pos + 1
      /\ current_unreachable' <=> current_unreachable \/ flags.unreachable
      /\ skipped_lines' = IF current_unreachable' THEN skipped_lines \cup Body(pos) ELSE skipped_lines
  <2>1. /\ UNCHANGED <<prog, phase, stop, skip_function_bodies, imports>>
        /\ pos' = pos + 1 /\ pos + 1 \in Nat /\ pos <= pos + 1
    BY <1>0 DEF OpenBlock
  <2>2. current_unreachable' <=> current_unreachable \/ flags.unreachable
    BY DEF OpenBlock, WithBranchFlags
  <2>3. skipped_lines' = IF current_unreachable' THEN skipped_lines \cup Body(pos) ELSE skipped_lines
    BY DEF OpenBlock, SkipLines
  <2> QED
    BY <2>1, <2>2, <2>3
<1>n. \A p \in EmittedLines : p \in Nat
  BY <1>0 DEF EmittedLines
<1>3. \A p \in ImportLines \cap EmittedLines : ~(pos <= p /\ p < pos + 1)
  <2>1. pos \notin ImportLines
    BY <1>1 DEF ImportLines
  <2> QED
    BY <1>0, <1>n, <2>1
<1>4. SkippedBefore(pos + 1) =
        IF pos \in UnreachableBranches THEN SkippedBefore(pos) \cup Body(pos) ELSE SkippedBefore(pos)
  <2>1. \A h \in UnreachableBranches \cap EmittedLines :
          h < pos + 1 <=> h < pos \/ h = pos
    BY <1>0, <1>n
  <2> QED
    BY <1>0, <1>1, <2>1 DEF SkippedBefore, Body
<1>5. Unreachable(pos) => Body(pos) \subseteq SkippedBefore(pos)
  <2> SUFFICES ASSUME NEW h \in Lines, Inside(h, pos), UnreachableBranch(h), NEW p \in Body(pos)
               PROVE  p \in SkippedBefore(pos)
    BY DEF Unreachable
  <2>1. p \in Lines /\ Inside(h, p)
    BY <1>1, InsideTransitive DEF Body
  <2>2. h < pos /\ h <= stop
    BY <1>0, <1>1 DEF Inside
  <2>3. h \notin HiddenLines
    <3>1. pos \notin HiddenLines
      BY <1>1, EmittedIs
    <3> QED
      BY <1>1, <3>1, InsideTransitive DEF HiddenLines, OmittedLines
  <2>4. h \in UnreachableBranches \cap EmittedLines
    BY <1>1, <2>2, <2>3, EmittedIs DEF UnreachableBranches
  <2> QED
    BY <2>1, <2>2, <2>4 DEF SkippedBefore
<1>6. SkipInv
  BY <1>1 DEF MetadataInv
<1>7. skipped_lines' = (stop + 1)..Len(prog) \cup SkippedBefore(pos + 1)
  BY <1>0, <1>1, <1>2, <1>4, <1>5, <1>6 DEF SkipInv
<1> QED
  BY <1>1, <1>2, <1>3, <1>7, MetadataPassed

\* An import adds an entry for each of its names.
LEMMA ImportsCollected ==
    ASSUME IInv, GetattrInv, EffectsInv, MetadataInv, ClausesInv', ImportStmt
    PROVE  MetadataInv'
<1>0. /\ Len(prog) \in Nat /\ Lines = 1..Len(prog) /\ pos \in Nat
  BY TreeType
<1>1. /\ phase = "serialize" /\ pos \in Lines /\ pos <= stop /\ Kind(pos) \in Imports
      /\ pos \in EmittedLines
      /\ in_function <=> InFunction(pos)
      /\ current_unreachable <=> Unreachable(pos)
      /\ current_mypy_only <=> MypyOnly(pos)
  BY NextEmitted DEF MetadataInv, ImportStmt
<1>2. /\ UNCHANGED <<prog, phase, stop, skip_function_bodies, skipped_lines>>
      /\ pos' = pos + 1
  BY DEF ImportStmt
<1>3. MakeImportFlags(Kind(pos) = "lazy_import") = FlagsOfLines[pos]
  BY <1>1 DEF MakeImportFlags, FlagsOfLines, ReferenceFlags
<1> DEFINE k == Aliases(Kind(pos))
           n == Len(imports)
           flags == MakeImportFlags(Kind(pos) = "lazy_import")
           entry == [line |-> pos, flags |-> flags]
           more == [i \in 1..k |-> entry]
<1>4. k \in 1..2 /\ n \in Nat /\ imports \in Seq(Entry)
  BY DEF MetadataInv, Aliases
<1>5. entry \in Entry /\ entry.line = pos /\ entry.flags = FlagsOfLines[pos]
  BY <1>0, <1>3 DEF Entry, MakeImportFlags
<1>6. imports' = imports \o more
  BY DEF ImportStmt
<1> HIDE DEF entry, k, flags
<1>7. more \in Seq(Entry) /\ Len(more) = k /\ \A i \in 1..k : more[i] = entry
  BY <1>4, <1>5
<1> HIDE DEF more
<1>8. /\ imports' \in Seq(Entry)
      /\ Len(imports') = n + k
      /\ \A i \in 1..n : imports'[i] = imports[i]
      /\ \A i \in (n + 1)..(n + k) : imports'[i] = entry
  <2>1. imports' \in Seq(Entry) /\ Len(imports') = n + k
    BY <1>4, <1>6, <1>7, ConcatProperties
  <2>2. \A i \in 1..(n + k) : imports'[i] = IF i <= n THEN imports[i] ELSE more[i - n]
    BY <1>4, <1>6, <1>7, ConcatProperties
  <2> QED
    BY <1>4, <1>7, <2>1, <2>2
<1> HIDE DEF n
<1>9. SkipInv'
  <2>1. pos \notin UnreachableBranches
    BY <1>1 DEF UnreachableBranches, UnreachableBranch, Imports, Branches, Cases
  <2>0. PICK next \in Nat : next = pos + 1
    BY <1>0
  <2>2. \A h \in UnreachableBranches \cap EmittedLines : ~(pos <= h /\ h < next)
    <3>1. \A p \in EmittedLines : p \in Nat
      BY <1>0 DEF EmittedLines
    <3> QED
      BY <1>0, <2>0, <2>1, <3>1
  <2>3. SkippedBefore(next) = SkippedBefore(pos)
    BY <1>0, <2>0, <2>2, SkippedNothing
  <2>4. SkippedBefore(next)' = SkippedBefore(next)
    BY <1>2, SameMetadata DEF SkippedBefore
  <2>5. SkipInv /\ pos' = next
    BY <1>1, <1>2, <2>0 DEF MetadataInv
  <2> QED
    BY <1>2, <2>3, <2>4, <2>5 DEF SkipInv
<1>e. /\ EntriesInv /\ n = Len(imports)
      /\ \A i \in 1..n : imports[i].line \in Lines /\ imports[i].line < pos
  BY <1>1 DEF MetadataInv, EntriesInv, n
<1>10. EntriesInv'
  <2>1. ASSUME NEW i \in 1..(n + k)
        PROVE  /\ imports'[i].line \in Lines /\ imports'[i].line < pos + 1
               /\ imports'[i].flags = FlagsOfLines[imports'[i].line]
    <3>1. CASE i \in 1..n
      BY <1>0, <1>e, <1>8, <3>1 DEF EntriesInv
    <3>2. CASE i \in (n + 1)..(n + k)
      BY <1>0, <1>1, <1>5, <1>8, <3>2
    <3> QED
      BY <1>4, <3>1, <3>2 DEF n
  <2>2. ASSUME NEW i \in 1..(n + k), NEW j \in 1..(n + k), i < j
        PROVE  imports'[i].line <= imports'[j].line
    <3>1. CASE j \in 1..n
      <4>1. i \in 1..n
        BY <1>4, <2>2, <3>1 DEF n
      <4> QED
        BY <1>e, <1>8, <2>2, <3>1, <4>1 DEF EntriesInv
    <3>2. CASE j \in (n + 1)..(n + k)
      <4>1. imports'[j].line = pos
        BY <1>5, <1>8, <3>2
      <4> QED
        BY <1>0, <2>1, <4>1
    <3> QED
      BY <1>4, <3>1, <3>2 DEF n
  <2> QED
    BY <1>2, <1>8, <2>1, <2>2, SameMetadata DEF EntriesInv
<1>11. CountsInv'
  <2>1. ASSUME NEW p \in Lines, p # pos
        PROVE  EntryCount(p)' = EntryCount(p)
    <3>1. {i \in 1..(n + k) : imports'[i].line = p} = {i \in 1..n : imports[i].line = p}
      BY <1>4, <1>5, <1>8, <2>1 DEF n
    <3> QED
      BY <1>8, <1>e, <3>1 DEF EntryCount
  <2>2. \A p \in Lines : p = pos => EntryCount(p)' = k
    <3>1. {i \in 1..(n + k) : imports'[i].line = pos} = (n + 1)..(n + k)
      <4>1. \A i \in 1..n : imports'[i].line # pos
        BY <1>0, <1>8, <1>e
      <4>2. \A i \in (n + 1)..(n + k) : imports'[i].line = pos
        BY <1>5, <1>8
      <4>3. n \in Nat /\ k \in Nat
        BY <1>4 DEF n
      <4> QED
        BY <4>1, <4>2, <4>3
    <3>2. Cardinality((n + 1)..(n + k)) = k
      <4>1. n + 1 \in Int /\ n + k \in Int /\ n + 1 <= n + k /\ (n + k) - (n + 1) + 1 = k
        BY <1>4 DEF n
      <4> QED
        BY <4>1, FS_Interval
    <3>3. \A p \in Lines : EntryCount(p)' = Cardinality({i \in 1..(n + k) : imports'[i].line = p})
      BY <1>8 DEF EntryCount
    <3> QED
      BY <3>1, <3>2, <3>3
  <2>3. ASSUME NEW p \in Lines
        PROVE  EntryCount(p)' = IF p < pos + 1 /\ p \in ImportLines \cap EmittedLines
                                THEN Aliases(Kind(p)) ELSE 0
    <3>1. CASE p = pos
      <4>1. p < pos + 1 /\ p \in ImportLines \cap EmittedLines /\ k = Aliases(Kind(p))
        BY <1>0, <1>1, <3>1 DEF ImportLines, k
      <4> QED
        BY <2>2, <3>1, <4>1
    <3>2. CASE p # pos
      <4>1. p < pos + 1 <=> p < pos
        BY <1>0, <3>2
      <4> QED
        BY <1>1, <2>1, <3>2, <4>1 DEF MetadataInv, CountsInv
    <3> QED
      BY <3>1, <3>2
  <2>4. \A p \in Lines : (Aliases(Kind(p)))' = Aliases(Kind(p))
    BY <1>2 DEF Aliases, Kind
  <2> QED
    BY <1>2, <2>3, <2>4, SameMetadata DEF CountsInv
<1> QED
  BY <1>1, <1>2, <1>8, <1>9, <1>10, <1>11 DEF MetadataInv

\* Nothing a step leaves alone changes what is known.
LEMMA MetadataUnchanged ==
    ASSUME IInv, MetadataInv, ClausesInv', phase # "parse", phase' # "parse",
           UNCHANGED <<prog, stop, skip_function_bodies, pos, imports, skipped_lines>>
    PROVE  MetadataInv'
<1>1. SkippedBefore(pos)' = SkippedBefore(pos)
  BY SameMetadata DEF SkippedBefore
<1>2. SkipInv'
  BY <1>1 DEF MetadataInv, SkipInv
<1>3. EntriesInv'
  BY SameMetadata DEF MetadataInv, EntriesInv
<1>4. CountsInv'
  <2>1. \A p : EntryCount(p)' = EntryCount(p)
    BY DEF EntryCount
  <2>2. \A p \in Lines : (Aliases(Kind(p)))' = Aliases(Kind(p))
    BY DEF Aliases, Kind
  <2> QED
    BY <2>1, <2>2, SameMetadata DEF MetadataInv, CountsInv
<1> QED
  BY <1>2, <1>3, <1>4 DEF MetadataInv

\* Every step of the walk preserves the invariant.
LEMMA MetadataStep ==
    IInv /\ GetattrInv /\ EffectsInv /\ MetadataInv /\ [Next]_vars => MetadataInv'
<1> SUFFICES ASSUME IInv, GetattrInv, EffectsInv, MetadataInv, [Next]_vars PROVE MetadataInv'
  OBVIOUS
<1>0. /\ Len(prog) \in Nat /\ Len(frames) \in Nat /\ Lines = 1..Len(prog)
      /\ pos \in Nat /\ stop \in Nat
  BY TreeType DEF IInv, TypeInv
<1>i. ClausesInv'
  BY ClausesStep DEF MetadataInv
<1>n. \A p \in EmittedLines : p \in Nat
  BY <1>0 DEF EmittedLines
<1>a. ASSUME NEW kinds, At(kinds)
      PROVE  phase = "serialize" /\ pos \in Lines /\ pos <= stop /\ Kind(pos) \in kinds
  BY <1>a, NextEmitted DEF MetadataInv
\* A line that is no import and no branch, with what of its block is hidden.
<1>b. ASSUME NEW kinds, At(kinds), kinds \cap Imports = {}, kinds \cap Branches = {},
             NEW next \in Nat, pos' = next, pos <= next,
             UNCHANGED <<prog, phase, stop, skip_function_bodies, imports, skipped_lines>>,
             \A p \in Lines : pos < p /\ p < next => p \notin EmittedLines
      PROVE  MetadataInv'
  <2>1. phase = "serialize" /\ phase' = "serialize" /\ Kind(pos) \in kinds
    BY <1>a, <1>b
  <2>2. pos \notin ImportLines /\ pos \notin UnreachableBranches
    BY <1>b, <2>1 DEF ImportLines, UnreachableBranches, UnreachableBranch
  <2>3. ASSUME NEW p \in EmittedLines, pos <= p, p < next
        PROVE  p = pos
    BY <1>0, <1>n, <1>b, <2>3 DEF EmittedLines
  <2>4. /\ \A p \in ImportLines \cap EmittedLines : ~(pos <= p /\ p < next)
        /\ \A p \in UnreachableBranches \cap EmittedLines : ~(pos <= p /\ p < next)
    BY <2>2, <2>3
  <2>5. SkippedBefore(next) = SkippedBefore(pos)
    BY <1>b, <2>4, SkippedNothing
  <2>6. skipped_lines' = (stop + 1)..Len(prog) \cup SkippedBefore(next)
    BY <1>b, <2>1, <2>5 DEF MetadataInv, SkipInv
  <2> QED
    BY <1>i, <1>b, <2>1, <2>4, <2>6, MetadataPassed
<1>c. \A p \in Lines : ~(pos < p /\ p < pos + 1)
  BY <1>0
<1>d. pos + 1 \in Nat /\ pos <= pos + 1
  BY <1>0
\* A block that is no branch.
<1>e. ASSUME NEW kinds, At(kinds), kinds \cap Imports = {}, kinds \cap Branches = {},
             NEW class, NEW function, OpenBlock(class, function, NoFlags)
      PROVE  MetadataInv'
  <2>1. Kind(pos) \in kinds
    BY <1>a, <1>e
  <2>2. NoFlags.unreachable <=> pos \in UnreachableBranches
    BY <1>e, <2>1 DEF NoFlags, UnreachableBranches, UnreachableBranch
  <2> QED
    BY <1>i, <1>e, <2>2, MetadataOpened
<1>1. CASE AddLine
  <2>1. phase = "parse" /\ phase' = "parse" /\ UNCHANGED imports
    BY <1>1 DEF AddLine
  <2> QED
    BY <1>i, <2>1 DEF MetadataInv
<1>2. CASE StartModule
  <2>1. /\ phase = "parse" /\ phase' = "serialize" /\ UNCHANGED <<prog, pos, imports>>
        /\ skipped_lines' = (stop' + 1)..Len(prog)
    BY <1>2 DEF StartModule
  <2>2. pos = 1 /\ imports = << >>
    BY <2>1 DEF IInv, ParseInv, MetadataInv
  <2>3. SkipInv'
    <3>1. SkippedBefore(pos)' = {}
      <4>1. \A h \in Lines' : ~(h < pos')
        BY <1>0, <2>1, <2>2 DEF Lines
      <4> QED
        BY <4>1 DEF SkippedBefore, EmittedLines
    <3> QED
      BY <2>1, <3>1 DEF SkipInv
  <2>4. EntriesInv'
    BY <2>1, <2>2 DEF EntriesInv
  <2>5. CountsInv'
    <3>1. ASSUME NEW p \in Lines'
          PROVE  EntryCount(p)' = 0 /\ ~(p < pos')
      <4>1. {i \in 1..Len(imports') : imports'[i].line = p} = {}
        BY <2>1, <2>2
      <4>2. ~(p < pos')
        BY <1>0, <2>1, <2>2 DEF Lines
      <4> QED
        BY <4>1, <4>2, FS_EmptySet DEF EntryCount
    <3> QED
      BY <3>1 DEF CountsInv
  <2> QED
    BY <1>i, <2>1, <2>3, <2>4, <2>5 DEF MetadataInv
<1>3. CASE SimpleStmt
  <2>1. Simple \cap Imports = {} /\ Simple \cap Branches = {}
    BY DEF Simple, Imports, Branches, Cases
  <2> QED
    BY <1>3, <2>1, <1>b, <1>c, <1>d DEF SimpleStmt
<1>4. CASE ImportStmt
  BY <1>i, <1>4, ImportsCollected
<1>5. CASE FunctionDef
  <2>1. Funcs \cap Imports = {} /\ Funcs \cap Branches = {}
    BY DEF Funcs, Imports, Branches, Cases
  <2> QED
    BY <1>5, <2>1, <1>e DEF FunctionDef
<1>6. CASE FunctionOmitted
  <2>1. /\ At(Funcs) /\ ~SerializesBody(pos)
        /\ UNCHANGED <<prog, phase, stop, skip_function_bodies, imports, skipped_lines>>
    BY <1>6 DEF FunctionOmitted
  <2>2. PICK last \in pos..Len(prog) : Body(pos) = (pos + 1)..last /\ pos' = last + 1
    BY <1>6 DEF FunctionOmitted
  <2>3. Funcs \cap Imports = {} /\ Funcs \cap Branches = {}
    BY DEF Funcs, Imports, Branches, Cases
  <2>4. pos \in Lines /\ Omitted(pos)
    <3>1. pos \in Lines /\ Kind(pos) \in Funcs /\ (in_class <=> InClass(pos))
      BY <2>1, NextEmitted DEF MetadataInv
    <3> QED
      BY <2>1, <3>1 DEF Omitted, SerializesBody, HasExternallyVisibleEffect
  <2>5. ASSUME NEW p \in Lines, pos < p, p < last + 1
        PROVE  p \notin EmittedLines
    <3>1. p \in (pos + 1)..last
      BY <1>0, <2>2, <2>5
    <3> QED
      BY <2>2, <2>4, <3>1 DEF Body, EmittedLines, Emitted
  <2>6. last + 1 \in Nat /\ pos <= last + 1
    BY <1>0, <2>2
  <2> QED
    BY <2>1, <2>2, <2>3, <2>5, <2>6, <1>b
<1>7. CASE ClassDef
  <2>1. {"class"} \cap Imports = {} /\ {"class"} \cap Branches = {}
    BY DEF Imports, Branches, Cases
  <2> QED
    BY <1>7, <2>1, <1>e DEF ClassDef
<1>8. CASE Branch
  <2>1. At(Branches) /\ OpenBlock(in_class, in_function, BranchFlags(pos))
    BY <1>8 DEF Branch
  <2>2. pos \in Lines /\ Kind(pos) \in Branches
    BY <2>1, <1>a
  <2>3. BranchFlags(pos).unreachable <=> pos \in UnreachableBranches
    BY <2>2, FlagsExact DEF UnreachableBranches, EffectsInv, MetadataInv
  <2>4. Branches \cap Imports = {}
    BY DEF Imports, Branches, Cases
  <2> QED
    BY <1>i, <2>1, <2>3, <2>4, MetadataOpened
<1>9. CASE Plain
  <2> DEFINE kinds == {"loop", "loop_else", "try", "except", "try_else", "finally"}
  <2>1. kinds \cap Imports = {} /\ kinds \cap Branches = {}
    BY DEF Imports, Branches, Cases
  <2> QED
    BY <1>9, <2>1, <1>e DEF Plain
<1>10. CASE Match
  <2>1. {"match"} \cap Imports = {} /\ {"match"} \cap Branches = {}
    BY DEF Imports, Branches, Cases
  <2> QED
    BY <1>10, <2>1, <1>b, <1>c, <1>d DEF Match
<1>11. CASE EndBlock
  BY <1>i, <1>11, MetadataUnchanged DEF EndBlock
<1>12. CASE Finish
  BY <1>i, <1>12, MetadataUnchanged DEF Finish
<1>13. CASE UNCHANGED vars
  <2>1. UNCHANGED <<prog, phase, stop, skip_function_bodies, pos, imports, skipped_lines>>
    BY <1>13 DEF vars
  <2>2. CASE phase = "parse"
    BY <1>i, <2>1, <2>2 DEF MetadataInv
  <2>3. CASE phase # "parse"
    BY <1>i, <2>1, <2>3, MetadataUnchanged
  <2> QED
    BY <2>2, <2>3
<1> QED
  BY <1>1, <1>2, <1>3, <1>4, <1>5, <1>6, <1>7, <1>8, <1>9, <1>10, <1>11, <1>12,
     <1>13 DEF Next, Serialize, Done

\* At the end all that is kept is passed.
LEMMA SkippedMeaning == IInv /\ GetattrInv /\ EffectsInv /\ MetadataInv => SkippedLinesExact
<1> SUFFICES ASSUME IInv, GetattrInv, EffectsInv, MetadataInv, phase = "done"
             PROVE  skipped_lines =
                      {p \in Lines :
                          \/ ~Kept(p)
                          \/ \E h \in Lines : Inside(h, p) /\ UnreachableBranch(h) /\ Emitted(h)}
  BY DEF SkippedLinesExact
<1>0. /\ Len(prog) \in Nat /\ Lines = 1..Len(prog) /\ stop \in 0..Len(prog) /\ pos \in Nat
      /\ pos > stop /\ KeptLines = 1..stop
  BY TreeType DEF IInv, TypeInv, GetattrInv
<1>1. \A p \in Lines : ~Kept(p) <=> p \in (stop + 1)..Len(prog)
  BY <1>0 DEF KeptLines
<1>2. \A h \in Lines : Emitted(h) => h < pos
  BY <1>0, <1>1 DEF Emitted
<1>3. ASSUME NEW p \in Lines
      PROVE  p \in SkippedBefore(pos) <=>
               \E h \in Lines : Inside(h, p) /\ UnreachableBranch(h) /\ Emitted(h)
  BY <1>2 DEF SkippedBefore, UnreachableBranches, EmittedLines
<1>4. skipped_lines = (stop + 1)..Len(prog) \cup SkippedBefore(pos)
  BY DEF MetadataInv, SkipInv
<1>5. (stop + 1)..Len(prog) \subseteq Lines /\ SkippedBefore(pos) \subseteq Lines
  BY <1>0 DEF SkippedBefore
<1> QED
  BY <1>1, <1>3, <1>4, <1>5

\* At the end there is an entry for each name of each import that is kept.
LEMMA ImportsMeaning == IInv /\ GetattrInv /\ EffectsInv /\ MetadataInv => ImportMetadataExact
<1> SUFFICES ASSUME IInv, GetattrInv, EffectsInv, MetadataInv
             PROVE  ImportMetadataExact
  OBVIOUS
<1>0. /\ Len(prog) \in Nat /\ Lines = 1..Len(prog) /\ stop \in 0..Len(prog) /\ pos \in Nat
  BY TreeType DEF IInv, TypeInv
<1>1. /\ \A i, j \in 1..Len(imports) : i < j => imports[i].line <= imports[j].line
      /\ \A i \in 1..Len(imports) : imports[i].flags = ReferenceFlags(imports[i].line)
  <2>1. CASE phase = "parse"
    <3>1. imports = << >>
      BY <2>1 DEF MetadataInv
    <3> QED
      BY <3>1
  <2>2. CASE phase # "parse"
    BY <2>2 DEF MetadataInv, EntriesInv, FlagsOfLines
  <2> QED
    BY <2>1, <2>2
<1>2. ASSUME phase = "done", NEW p \in Lines
      PROVE  EntryCount(p) = IF Kind(p) \in Imports /\ Emitted(p) THEN Aliases(Kind(p)) ELSE 0
  <2>1. pos > stop /\ KeptLines = 1..stop
    BY <1>2 DEF GetattrInv
  <2>2. Emitted(p) => p < pos
    BY <1>0, <2>1 DEF Emitted, KeptLines
  <2>3. CountsInv
    BY <1>2 DEF MetadataInv
  <2> QED
    BY <2>2, <2>3 DEF CountsInv, ImportLines, EmittedLines
<1> QED
  BY <1>1, <1>2 DEF ImportMetadataExact, EntryCount
-----------------------------------------------------------------------------
\* Nothing is skipped or collected while the file is parsed.
LEMMA MetadataInit == Init => MetadataInv
<1> SUFFICES ASSUME Init PROVE MetadataInv
  OBVIOUS
<1>1. Lines = {} /\ imports = << >> /\ phase = "parse"
  BY DEF Init, Lines
<1> QED
  BY <1>1 DEF MetadataInv, ClausesInv

\* The invariant of the whole specification.
LEMMA MetadataInvariant == Spec => [](IInv /\ GetattrInv /\ EffectsInv /\ MetadataInv)
<1>1. Init => GetattrInv /\ EffectsInv
  BY DEF Init, GetattrInv, EffectsInv, HeadsInv, Lines
<1> QED
  BY <1>1, MetadataInit, Invariant, GetattrStep, EffectsStep, MetadataStep, PTL DEF Spec

\* For every program, the lines whose `type: ignore' comments are not reported
\* are those of unreachable blocks that are written and those behind a failing
\* assert (skip_lines, with_branch_flags, Mod::serialize).
THEOREM SkippedLines == Spec => []SkippedLinesExact
  BY MetadataInvariant, SkippedMeaning, PTL

\* For every program, the metadata has an entry for each name of each import
\* that is written, in source order, with the flags of the blocks around it
\* (Stmt::Import, Stmt::ImportFrom, make_import_flags).
THEOREM ImportMetadata == Spec => []ImportMetadataExact
  BY MetadataInvariant, ImportsMeaning, PTL
-----------------------------------------------------------------------------
(* The round trip.  For every program, a reader that knows the grammar only  *)
(* finds in the tokens the statements the serializer was given.  The two     *)
(* never meet: at each step of the walk the invariant says what the reader   *)
(* expects after the tokens written so far - in each open block, as many     *)
(* statements as are left of it, then its end and what is left of its own    *)
(* statement - and that it has found the statements that are written whole,  *)
(* each in a block it knows by the place of the block's token.               *)

IsSeq(s) == \E S : s \in Seq(S)

\* Concatenation by another name, which the provers do not take apart.
Cat(s, t) == s \o t

\* What is expected next, and then.
Push(a, s) == Cat(<<a>>, s)

LEMMA CatSeq ==
    ASSUME NEW s, NEW t, IsSeq(s), IsSeq(t)
    PROVE  IsSeq(Cat(s, t))
<1>1. PICK S : s \in Seq(S)
    BY DEF IsSeq
<1>2. PICK T : t \in Seq(T)
    BY DEF IsSeq
<1>3. s \o t \in Seq(S \cup T)
    BY <1>1, <1>2, ToldConcat
<1> QED
    BY <1>3 DEF IsSeq, Cat

LEMMA CatThree ==
    ASSUME NEW s, NEW t, NEW u, IsSeq(s), IsSeq(t), IsSeq(u)
    PROVE  Cat(Cat(s, t), u) = Cat(s, Cat(t, u))
<1>1. PICK S : s \in Seq(S)
    BY DEF IsSeq
<1>2. PICK T : t \in Seq(T)
    BY DEF IsSeq
<1>3. PICK U : u \in Seq(U)
    BY DEF IsSeq
<1> DEFINE X == S \cup T \cup U
<1>4. s \in Seq(X) /\ t \in Seq(X) /\ u \in Seq(X)
    BY <1>1, <1>2, <1>3, SeqMonotonic
<1> HIDE DEF X
<1> QED
    BY <1>4, ConcatAssociative DEF Cat

LEMMA ShortSeq ==
    /\ IsSeq(<< >>)
    /\ \A a : IsSeq(<<a>>)
    /\ \A a, b : IsSeq(<<a, b>>)
    /\ \A a, b, c : IsSeq(<<a, b, c>>)
    /\ \A a, b, c, d : IsSeq(<<a, b, c, d>>)
<1>1. IsSeq(<< >>)
  <2>1. << >> \in Seq({})
    OBVIOUS
  <2> QED
    BY <2>1 DEF IsSeq
<1>2. ASSUME NEW a PROVE IsSeq(<<a>>)
  <2>1. <<a>> \in Seq({a})
    OBVIOUS
  <2> QED
    BY <2>1 DEF IsSeq
<1>3. ASSUME NEW a, NEW b PROVE IsSeq(<<a, b>>)
  <2>1. <<a, b>> \in Seq({a, b})
    OBVIOUS
  <2> QED
    BY <2>1 DEF IsSeq
<1>4. ASSUME NEW a, NEW b, NEW c PROVE IsSeq(<<a, b, c>>)
  <2>1. <<a, b, c>> \in Seq({a, b, c})
    OBVIOUS
  <2> QED
    BY <2>1 DEF IsSeq
<1>5. ASSUME NEW a, NEW b, NEW c, NEW d PROVE IsSeq(<<a, b, c, d>>)
  <2>1. <<a, b, c, d>> \in Seq({a, b, c, d})
    OBVIOUS
  <2> QED
    BY <2>1 DEF IsSeq
<1> QED
    BY <1>1, <1>2, <1>3, <1>4, <1>5

LEMMA Pushed ==
    ASSUME NEW a, NEW s, IsSeq(s)
    PROVE  /\ IsSeq(Push(a, s))
           /\ Push(a, s) # << >>
           /\ Head(Push(a, s)) = a
           /\ Tail(Push(a, s)) = s
<1>1. PICK S : s \in Seq(S)
    BY DEF IsSeq
<1> DEFINE X == S \cup {a}
<1>2. s \in Seq(X) /\ <<a>> \in Seq(X)
    BY <1>1, SeqMonotonic
<1> HIDE DEF X
<1> DEFINE p == Push(a, s)
<1>3. p \in Seq(X) /\ Len(p) = 1 + Len(s) /\ Len(s) \in Nat
    BY <1>2, ConcatProperties DEF Push, Cat
<1>4. p[1] = a /\ \A i \in 1..Len(s) : p[i + 1] = s[i]
    BY <1>2 DEF Push, Cat
<1> HIDE DEF p
<1>5. p # << >> /\ Head(p) = a
    BY <1>3, <1>4
<1>6. Tail(p) = s
  <2>1. Tail(p) \in Seq(X) /\ Len(Tail(p)) = Len(s)
    BY <1>3, <1>5
  <2>2. \A i \in 1..Len(s) : Tail(p)[i] = s[i]
    BY <1>3, <1>4, <1>5
  <2> QED
    BY <1>2, <2>1, <2>2, SeqEqual
<1> QED
    BY <1>3, <1>5, <1>6 DEF IsSeq, p

LEMMA ShortCat ==
    /\ \A a, b : <<a, b>> = Cat(<<a>>, <<b>>)
    /\ \A a, b, c : <<a, b, c>> = Cat(<<a>>, <<b, c>>)
    /\ \A a, b, c : <<a, b, c>> = Cat(<<a, b>>, <<c>>)
    /\ \A a, b, c, d : <<a, b, c, d>> = Cat(<<a>>, <<b, c, d>>)
<1>1. ASSUME NEW a, NEW b PROVE <<a, b>> = Cat(<<a>>, <<b>>)
  <2> DEFINE X == {a, b}
             p == <<a>> \o <<b>>
  <2>1. <<a, b>> \in Seq(X) /\ <<a>> \in Seq(X) /\ <<b>> \in Seq(X)
    OBVIOUS
  <2>2. p \in Seq(X) /\ Len(p) = 2 /\ p[1] = a /\ p[2] = b
    BY <2>1
  <2> HIDE DEF X, p
  <2>3. Len(<<a, b>>) = 2 /\ <<a, b>>[1] = a /\ <<a, b>>[2] = b
    OBVIOUS
  <2>4. \A i \in 1..2 : i = 1 \/ i = 2
    OBVIOUS
  <2>5. p = <<a, b>>
    BY <2>1, <2>2, <2>3, <2>4, SeqEqual
  <2> QED
    BY <2>5 DEF p, Cat
<1>2. \A a, b, c : <<a, b, c>> = <<a>> \o <<b, c>>
    OBVIOUS
<1>3. \A a, b, c : <<a, b, c>> = <<a, b>> \o <<c>>
    OBVIOUS
<1>4. \A a, b, c, d : <<a, b, c, d>> = <<a>> \o <<b, c, d>>
    OBVIOUS
<1> QED
    BY <1>1, <1>2, <1>3, <1>4 DEF Cat

LEMMA PushConcat ==
    ASSUME NEW t, IsSeq(t)
    PROVE  /\ Cat(<< >>, t) = t
           /\ \A a : Cat(<<a>>, t) = Push(a, t)
           /\ \A a, b : Cat(<<a, b>>, t) = Push(a, Push(b, t))
           /\ \A a, b, c : Cat(<<a, b, c>>, t) = Push(a, Push(b, Push(c, t)))
           /\ \A a, b, c, d : Cat(<<a, b, c, d>>, t) = Push(a, Push(b, Push(c, Push(d, t))))
           /\ \A a, s : IsSeq(s) => Cat(Push(a, s), t) = Push(a, Cat(s, t))
<1>1. Cat(<< >>, t) = t
  <2>1. PICK T : t \in Seq(T)
    BY DEF IsSeq
  <2> QED
    BY <2>1, ConcatEmptySeq DEF Cat
<1>2. ASSUME NEW a, NEW s, IsSeq(s) PROVE Cat(Push(a, s), t) = Push(a, Cat(s, t))
  <2> DEFINE one == <<a>>
  <2>1. IsSeq(one)
    BY ShortSeq
  <2> HIDE DEF one
  <2>2. Cat(Cat(one, s), t) = Cat(one, Cat(s, t))
    BY <2>1, <1>2, CatThree
  <2> QED
    BY <2>2 DEF Push, one
<1>3. \A a : Cat(<<a>>, t) = Push(a, t)
    BY DEF Push
<1>4. ASSUME NEW a, NEW s, IsSeq(s), NEW all, all = Cat(<<a>>, s)
      PROVE  Cat(all, t) = Push(a, Cat(s, t))
    BY <1>2, <1>4 DEF Push
<1>5. ASSUME NEW a, NEW b PROVE Cat(<<a, b>>, t) = Push(a, Push(b, t))
  <2> DEFINE all == <<a, b>>
             s == <<b>>
  <2>1. IsSeq(s) /\ all = Cat(<<a>>, s) /\ Cat(s, t) = Push(b, t)
    BY <1>3, ShortCat, ShortSeq
  <2> HIDE DEF all, s
  <2> QED
    BY <2>1, <1>4 DEF all
<1>6. ASSUME NEW a, NEW b, NEW c PROVE Cat(<<a, b, c>>, t) = Push(a, Push(b, Push(c, t)))
  <2> DEFINE all == <<a, b, c>>
             s == <<b, c>>
  <2>1. IsSeq(s) /\ all = Cat(<<a>>, s) /\ Cat(s, t) = Push(b, Push(c, t))
    BY <1>5, ShortCat, ShortSeq
  <2> HIDE DEF all, s
  <2> QED
    BY <2>1, <1>4 DEF all
<1>7. ASSUME NEW a, NEW b, NEW c, NEW d
      PROVE  Cat(<<a, b, c, d>>, t) = Push(a, Push(b, Push(c, Push(d, t))))
  <2> DEFINE all == <<a, b, c, d>>
             s == <<b, c, d>>
  <2>1. IsSeq(s) /\ all = Cat(<<a>>, s) /\ Cat(s, t) = Push(b, Push(c, Push(d, t)))
    BY <1>6, ShortCat, ShortSeq
  <2> HIDE DEF all, s
  <2> QED
    BY <2>1, <1>4 DEF all
<1> QED
    BY <1>1, <1>2, <1>3, <1>5, <1>6, <1>7

\* Tokens written one by one.
LEMMA WrittenOneByOne ==
    ASSUME NEW b, IsSeq(b)
    PROVE  /\ Cat(b, << >>) = b
           /\ \A x : Cat(b, <<x>>) = Append(b, x)
           /\ \A x, y : Cat(b, <<x, y>>) = Append(Append(b, x), y)
           /\ \A x, y, z : Cat(b, <<x, y, z>>) = Append(Append(Append(b, x), y), z)
           /\ \A x : IsSeq(Append(b, x)) /\ Len(Append(b, x)) = Len(b) + 1
           /\ Len(b) \in Nat
<1>1. PICK S : b \in Seq(S)
    BY DEF IsSeq
<1>2. Len(b) \in Nat /\ Cat(b, << >>) = b
    BY <1>1, ConcatEmptySeq, LenProperties DEF Cat
<1>3. ASSUME NEW c, IsSeq(c), NEW x
      PROVE  Cat(c, <<x>>) = Append(c, x) /\ IsSeq(Append(c, x)) /\ Len(Append(c, x)) = Len(c) + 1
  <2>1. PICK T : c \in Seq(T)
    BY <1>3 DEF IsSeq
  <2> DEFINE X == T \cup {x}
  <2>2. c \in Seq(X) /\ x \in X
    BY <2>1, SeqMonotonic
  <2> HIDE DEF X
  <2> QED
    BY <2>2, AppendProperties, AppendIsConcat DEF IsSeq, Cat
<1>4. ASSUME NEW x, NEW y
      PROVE  Cat(b, <<x, y>>) = Append(Append(b, x), y)
  <2> DEFINE r == <<x>>
             u == <<y>>
  <2>1. IsSeq(r) /\ IsSeq(u) /\ <<x, y>> = Cat(r, u)
    BY ShortSeq, ShortCat
  <2> HIDE DEF r, u
  <2>2. Cat(Cat(b, r), u) = Cat(b, Cat(r, u))
    BY <2>1, CatThree
  <2>3. Cat(b, r) = Append(b, x) /\ Cat(Append(b, x), u) = Append(Append(b, x), y)
    BY <1>3 DEF r, u
  <2> QED
    BY <2>1, <2>2, <2>3
<1>5. ASSUME NEW x, NEW y, NEW z
      PROVE  Cat(b, <<x, y, z>>) = Append(Append(Append(b, x), y), z)
  <2> DEFINE r == <<x, y>>
             u == <<z>>
  <2>1. IsSeq(r) /\ IsSeq(u) /\ <<x, y, z>> = Cat(r, u)
    BY ShortSeq, ShortCat
  <2>3. Cat(b, r) = Append(Append(b, x), y)
    BY <1>4
  <2>4. IsSeq(Append(Append(b, x), y))
    BY <1>3
  <2>5. Cat(Append(Append(b, x), y), u) = Append(Append(Append(b, x), y), z)
    BY <1>3, <2>4
  <2> HIDE DEF r, u
  <2>2. Cat(Cat(b, r), u) = Cat(b, Cat(r, u))
    BY <2>1, CatThree
  <2> QED
    BY <2>1, <2>2, <2>3, <2>5
<1> QED
    BY <1>2, <1>3, <1>4, <1>5
-----------------------------------------------------------------------------
(* Repeated symbols. *)

LEMMA RepeatOne ==
    ASSUME NEW a
    PROVE  /\ Repeat(0, <<a>>) = << >>
           /\ \A n \in Nat : /\ IsSeq(Repeat(n, <<a>>))
                            /\ Repeat(n + 1, <<a>>) = Push(a, Repeat(n, <<a>>))
<1> DEFINE all(n) == [i \in 1..n |-> a]
<1>1. \A n \in Nat : Repeat(n, <<a>>) = all(n)
  <2> TAKE n \in Nat
  <2>1. Len(<<a>>) = 1 /\ n * Len(<<a>>) = n
    OBVIOUS
  <2>2. \A i \in 1..n : <<a>>[1 + ((i - 1) % 1)] = a
    OBVIOUS
  <2> QED
    BY <2>1, <2>2 DEF Repeat
<1>2. \A n \in Nat : all(n) \in Seq({a}) /\ Len(all(n)) = n
    OBVIOUS
<1>3. ASSUME NEW n \in Nat
      PROVE  all(n + 1) = Push(a, all(n))
  <2>1. all(n) \in Seq({a}) /\ all(n + 1) \in Seq({a}) /\ <<a>> \in Seq({a}) /\ n + 1 \in Nat
    BY <1>2
  <2>2. Len(all(n)) = n /\ Len(all(n + 1)) = n + 1
    BY <1>2, <2>1
  <2>3. \A i \in 1..(n + 1) : all(n + 1)[i] = a
    OBVIOUS
  <2>4. \A i \in 1..n : all(n)[i] = a
    OBVIOUS
  <2> HIDE DEF all
  <2> DEFINE p == <<a>> \o all(n)
  <2>5. p \in Seq({a}) /\ Len(p) = n + 1
    BY <2>1, <2>2
  <2>6. \A i \in 1..(n + 1) : p[i] = a
    BY <2>5, ElementOfSeq
  <2> HIDE DEF p
  <2>7. p = all(n + 1)
    BY <2>1, <2>2, <2>3, <2>5, <2>6, SeqEqual
  <2> QED
    BY <2>7 DEF p, Push, Cat
<1>4. all(0) = << >>
    OBVIOUS
<1> HIDE DEF all
<1>5. 0 \in Nat /\ \A n \in Nat : n + 1 \in Nat
    OBVIOUS
<1> QED
    BY <1>1, <1>2, <1>3, <1>4, <1>5 DEF IsSeq

LEMMA RepeatTwo ==
    ASSUME NEW a, NEW b
    PROVE  /\ Repeat(0, <<a, b>>) = << >>
           /\ \A n \in Nat : /\ IsSeq(Repeat(n, <<a, b>>))
                            /\ Repeat(n + 1, <<a, b>>) = Push(a, Push(b, Repeat(n, <<a, b>>)))
<1> DEFINE all(n) == [i \in 1..(n * 2) |-> <<a, b>>[1 + ((i - 1) % 2)]]
           X == {a, b}
<1>1. \A n \in Nat : Repeat(n, <<a, b>>) = all(n)
  <2>1. Len(<<a, b>>) = 2
    OBVIOUS
  <2> QED
    BY <2>1 DEF Repeat
<1>2. \A n \in Nat : all(n) \in Seq(X) /\ Len(all(n)) = n * 2
  <2> TAKE n \in Nat
  <2>1. n * 2 \in Nat
    OBVIOUS
  <2>2. \A i \in 1..(n * 2) : <<a, b>>[1 + ((i - 1) % 2)] \in X
    OBVIOUS
  <2> QED
    BY <2>1, <2>2
<1>3. ASSUME NEW n \in Nat
      PROVE  all(n + 1) = Push(a, Push(b, all(n)))
  <2> DEFINE m == n * 2
  <2>1. all(n) \in Seq(X) /\ all(n + 1) \in Seq(X) /\ <<a, b>> \in Seq(X) /\ n + 1 \in Nat
    BY <1>2
  <2>2. m \in Nat /\ (n + 1) * 2 = m + 2 /\ Len(all(n)) = m /\ Len(all(n + 1)) = m + 2
    BY <1>2, <2>1
  <2>3. all(n + 1)[1] = a /\ all(n + 1)[2] = b
    BY <2>2
  <2>4. \A i \in 1..m : all(n + 1)[i + 2] = all(n)[i]
    <3> TAKE i \in 1..m
    <3>1. i + 2 \in 1..((n + 1) * 2) /\ i \in 1..(n * 2)
      BY <2>2
    <3>2. ((i + 2) - 1) % 2 = (i - 1) % 2
      BY <2>2
    <3> QED
      BY <3>1, <3>2
  <2> HIDE DEF all, m
  <2> DEFINE p == <<a, b>> \o all(n)
  <2>5. p \in Seq(X) /\ Len(p) = m + 2
    BY <2>1, <2>2
  <2>6. p[1] = a /\ p[2] = b /\ \A i \in 1..m : p[i + 2] = all(n)[i]
    BY <2>1, <2>2
  <2> HIDE DEF p
  <2>7. \A i \in 1..(m + 2) : p[i] = all(n + 1)[i]
    <3> TAKE i \in 1..(m + 2)
    <3>1. CASE i = 1
      BY <3>1, <2>3, <2>6
    <3>2. CASE i = 2
      BY <3>2, <2>3, <2>6
    <3>3. CASE i \in 3..(m + 2)
      <4>1. i - 2 \in 1..m /\ (i - 2) + 2 = i
        BY <3>3, <2>2
      <4> QED
        BY <4>1, <2>4, <2>6
    <3> QED
      BY <3>1, <3>2, <3>3, <2>2
  <2>8. p = all(n + 1)
    BY <2>1, <2>2, <2>5, <2>7, SeqEqual
  <2>9. IsSeq(all(n))
    BY <2>1 DEF IsSeq
  <2>10. Cat(<<a, b>>, all(n)) = Push(a, Push(b, all(n)))
    BY <2>9, PushConcat
  <2> QED
    BY <2>8, <2>10 DEF p, Cat
<1>4. all(0) = << >>
    OBVIOUS
<1> HIDE DEF all
<1>5. 0 \in Nat /\ \A n \in Nat : n + 1 \in Nat
    OBVIOUS
<1> QED
    BY <1>1, <1>2, <1>3, <1>4, <1>5 DEF IsSeq
-----------------------------------------------------------------------------
(* The reader, on any tokens. *)

Start == [expected |-> <<<<"statements">>>>, found |-> << >>]

\* One more token.
Advance(before, token, i) ==
    LET symbol == IF before.expected = << >> THEN <<"nothing">> ELSE Head(before.expected)
    IN IF token[1] # Takes(symbol[1])
       THEN [before EXCEPT !.expected = <<<<"nothing">>>>]
       ELSE [expected |-> Cat(Following(symbol, token, i), Tail(before.expected)),
             found |-> IF symbol[1] # "location" THEN before.found
                       ELSE Append(before.found, [line |-> token[2], tag |-> symbol[2],
                                                  parent |-> symbol[3]])]

IsReading(R, b) ==
    R = [i \in 0..Len(b) |-> IF i = 0 THEN Start ELSE Advance(R[i - 1], b[i], i)]

\* The reader expects e and has found f after the tokens of b.
After(b, e, f) ==
    \E R : IsReading(R, b) /\ R[Len(b)] = [expected |-> e, found |-> f]

LEMMA AfterNothing == After(<< >>, <<<<"statements">>>>, << >>)
<1> DEFINE R == [i \in 0..0 |-> Start]
<1>1. Len(<< >>) = 0
    OBVIOUS
<1>2. IsReading(R, << >>)
    BY <1>1 DEF IsReading
<1>3. R[0] = Start
    OBVIOUS
<1> HIDE DEF R
<1> QED
    BY <1>1, <1>2, <1>3 DEF After, Start

LEMMA ReadToken ==
    ASSUME NEW b, IsSeq(b), NEW rest, IsSeq(rest), NEW f, NEW sym, NEW t,
           t[1] = Takes(sym[1]), After(b, Push(sym, rest), f)
    PROVE  After(Append(b, t), Cat(Following(sym, t, Len(b) + 1), rest),
                 IF sym[1] # "location" THEN f
                 ELSE Append(f, [line |-> t[2], tag |-> sym[2], parent |-> sym[3]]))
<1>1. PICK R : IsReading(R, b) /\ R[Len(b)] = [expected |-> Push(sym, rest), found |-> f]
    BY DEF After
<1> DEFINE n == Len(b)
           c == Append(b, t)
           last == Advance(R[n], t, n + 1)
           Q == [i \in 0..(n + 1) |-> IF i <= n THEN R[i] ELSE last]
<1>2. n \in Nat /\ Len(c) = n + 1
    BY WrittenOneByOne
<1>3. c[n + 1] = t /\ \A i \in 1..n : c[i] = b[i]
  <2>1. PICK S : b \in Seq(S)
    BY DEF IsSeq
  <2> QED
    BY <2>1, <1>2 DEF c
<1>4. \A i \in 0..n : R[i] = IF i = 0 THEN Start ELSE Advance(R[i - 1], b[i], i)
  <2>1. R = [i \in 0..n |-> IF i = 0 THEN Start ELSE Advance(R[i - 1], b[i], i)]
    BY <1>1, Zenon DEF IsReading, n
  <2> HIDE DEF n
  <2> QED
    BY <2>1
<1> HIDE DEF n, c, last
<1>5. \A i \in 0..(n + 1) : Q[i] = IF i = 0 THEN Start ELSE Advance(Q[i - 1], c[i], i)
  <2> TAKE i \in 0..(n + 1)
  <2>1. CASE i = 0
    <3>1. Q[0] = R[0] /\ R[0] = Start
      BY <1>2, <1>4
    <3> QED
      BY <2>1, <3>1
  <2>2. CASE i \in 1..n
    <3>1. Q[i] = R[i] /\ Q[i - 1] = R[i - 1] /\ i # 0 /\ i \in 0..n
      BY <2>2, <1>2
    <3>2. R[i] = Advance(R[i - 1], b[i], i)
      BY <3>1, <1>4
    <3> HIDE DEF Q
    <3> QED
      BY <3>1, <3>2, <2>2, <1>3, Zenon
  <2>3. CASE i = n + 1
    <3>1. Q[n + 1] = last /\ Q[(n + 1) - 1] = R[n] /\ n + 1 # 0
      BY <1>2
    <3> HIDE DEF Q
    <3> QED
      BY <3>1, <2>3, <1>3 DEF last
  <2> QED
    BY <2>1, <2>2, <2>3, <1>2
<1>6. IsReading(Q, c)
  <2>1. Q = [i \in 0..(n + 1) |-> Q[i]]
    OBVIOUS
  <2> HIDE DEF Q
  <2>2. Q = [i \in 0..(n + 1) |-> IF i = 0 THEN Start ELSE Advance(Q[i - 1], c[i], i)]
    BY <2>1, <1>5
  <2> QED
    BY <2>2, <1>2 DEF IsReading
<1> DEFINE e2 == Cat(Following(sym, t, n + 1), rest)
           f2 == IF sym[1] # "location" THEN f
                 ELSE Append(f, [line |-> t[2], tag |-> sym[2], parent |-> sym[3]])
<1>7. last = [expected |-> e2, found |-> f2]
  <2> DEFINE p == Push(sym, rest)
  <2>1. p # << >> /\ Head(p) = sym /\ Tail(p) = rest
    BY Pushed
  <2>2. R[n] = [expected |-> p, found |-> f]
    BY <1>1 DEF n
  <2> HIDE DEF p
  <2>3. R[n].expected = p /\ R[n].found = f
    BY <2>2
  <2> QED
    BY <2>1, <2>3 DEF last, Advance
<1>8. Q[Len(c)] = last
    BY <1>2
<1> HIDE DEF Q, e2, f2
<1>9. After(c, e2, f2)
    BY <1>6, <1>7, <1>8 DEF After
<1> QED
    BY <1>9 DEF c, e2, f2, n

\* A run of the reader on the tokens written is what it gives back.
LEMMA ReadingIs ==
    ASSUME BytesInv, NEW e, NEW f, After(bytes, e, f)
    PROVE  Reading[Len(bytes)] = [expected |-> e, found |-> f]
<1>1. PICK R : IsReading(R, bytes) /\ R[Len(bytes)] = [expected |-> e, found |-> f]
    BY DEF After
<1> DEFINE n == Len(bytes)
           Equation(g) == g = [i \in 0..n |-> IF i = 0 THEN Start ELSE Advance(g[i - 1], bytes[i], i)]
<1>2. n \in Nat
    BY WrittenOneByOne DEF BytesInv, IsSeq
<1>3. Reading = CHOOSE g : Equation(g)
    BY DEF Reading, Advance, Start, Cat
<1>4. Equation(R)
    BY <1>1, Zenon DEF IsReading, n
<1>5. Equation(CHOOSE g : Equation(g))
    BY <1>4, Zenon
<1>6. Equation(Reading)
    BY <1>3, <1>5, Zenon
<1>7. \A i \in 0..n : Reading[i] = R[i]
  <2> DEFINE Wrong == {i \in 0..n : Reading[i] # R[i]}
  <2>1. SUFFICES ASSUME Wrong # {} PROVE FALSE
    OBVIOUS
  <2>2. PICK m \in Wrong : \A q \in Wrong : m <= q
    <3>1. Wrong \in SUBSET Nat
      BY <1>2
    <3> HIDE DEF Wrong
    <3> QED
      BY <2>1, <3>1, LeastIn
  <2>3. m \in 0..n /\ Reading[m] # R[m]
    OBVIOUS
  <2>4. \A g : Equation(g) =>
           /\ g[0] = Start
           /\ \A i \in 1..n : g[i] = Advance(g[i - 1], bytes[i], i)
    <3> TAKE g
    <3> HAVE Equation(g)
    <3> HIDE DEF n
    <3>1. \A i \in 0..n : g[i] = IF i = 0 THEN Start ELSE Advance(g[i - 1], bytes[i], i)
      OBVIOUS
    <3> QED
      BY <3>1, <1>2
  <2>5. m # 0
    BY <2>3, <2>4, <1>4, <1>6
  <2>6. m - 1 \in 0..n /\ m \in 1..n
    BY <2>3, <2>5, <1>2
  <2>7. Reading[m - 1] = R[m - 1]
    <3>1. m - 1 \notin Wrong
      BY <2>2, <2>3, <2>6, <1>2
    <3> QED
      BY <3>1, <2>6
  <2> HIDE DEF Equation
  <2> QED
    BY <2>3, <2>4, <2>6, <2>7, <1>4, <1>6, Zenon
<1> QED
    BY <1>1, <1>2, <1>7
-----------------------------------------------------------------------------
(* The symbols, one by one. *)

LEMMA ReadPlain ==
    ASSUME NEW b, IsSeq(b), NEW rest, IsSeq(rest), NEW f
    PROVE  /\ After(b, Push(<<"end">>, rest), f) => After(Append(b, End), rest, f)
           /\ \A p : After(b, Push(<<"expr">>, rest), f) => After(Append(b, Expr(p)), rest, f)
           /\ \A p : After(b, Push(<<"place">>, rest), f) => After(Append(b, Loc(p)), rest, f)
           /\ \A n : After(b, Push(<<"names">>, rest), f) => After(Append(b, Num(n)), rest, f)
           /\ \A x : After(b, Push(<<"flags">>, rest), f)
                       => After(Append(b, <<"flags", x>>), rest, f)
           /\ \A p, tag, at :
                 After(b, Push(<<"location", tag, at>>, rest), f)
                   => After(Append(b, Loc(p)), rest,
                            Append(f, [line |-> p, tag |-> tag, parent |-> at]))
<1> DEFINE n == Len(b) + 1
<1>0. Cat(<< >>, rest) = rest
    BY PushConcat
<1>1. ASSUME NEW sym, NEW t, t[1] = Takes(sym[1]), Following(sym, t, n) = << >>,
             sym[1] # "location", After(b, Push(sym, rest), f)
      PROVE  After(Append(b, t), rest, f)
    BY <1>0, <1>1, ReadToken
<1>2. After(b, Push(<<"end">>, rest), f) => After(Append(b, End), rest, f)
    BY <1>1 DEF End, Takes, Following
<1>3. \A p : After(b, Push(<<"expr">>, rest), f) => After(Append(b, Expr(p)), rest, f)
    BY <1>1 DEF Expr, Takes, Following
<1>4. \A p : After(b, Push(<<"place">>, rest), f) => After(Append(b, Loc(p)), rest, f)
    BY <1>1 DEF Loc, Takes, Following
<1>5. \A k : After(b, Push(<<"names">>, rest), f) => After(Append(b, Num(k)), rest, f)
    BY <1>1 DEF Num, Takes, Following
<1>6. \A x : After(b, Push(<<"flags">>, rest), f) => After(Append(b, <<"flags", x>>), rest, f)
    BY <1>1 DEF Takes, Following
<1>7. ASSUME NEW p, NEW tag, NEW at, After(b, Push(<<"location", tag, at>>, rest), f)
      PROVE  After(Append(b, Loc(p)), rest, Append(f, [line |-> p, tag |-> tag, parent |-> at]))
  <2> DEFINE sym == <<"location", tag, at>>
             t == Loc(p)
  <2>1. t[1] = Takes(sym[1]) /\ Following(sym, t, n) = << >> /\ sym[1] = "location"
        /\ sym[2] = tag /\ sym[3] = at /\ t[2] = p
    BY DEF Loc, Takes, Following
  <2>2. After(b, Push(sym, rest), f)
    BY <1>7
  <2> HIDE DEF sym, t
  <2>3. After(Append(b, t), Cat(<< >>, rest), Append(f, [line |-> t[2], tag |-> sym[2], parent |-> sym[3]]))
    BY <2>1, <2>2, ReadToken
  <2> QED
    BY <2>1, <2>3, <1>0 DEF t
<1> QED
    BY <1>2, <1>3, <1>4, <1>5, <1>6, <1>7

LEMMA ReadCount ==
    ASSUME NEW b, IsSeq(b), NEW rest, IsSeq(rest), NEW f, NEW n
    PROVE  /\ After(b, Push(<<"statements">>, rest), f)
                => After(Append(b, Num(n)), Cat(Repeat(n, <<<<"statement", 0>>>>), rest), f)
           /\ After(b, Push(<<"blocks">>, rest), f)
                => After(Append(b, Num(n)), Cat(Repeat(n, <<<<"block">>>>), rest), f)
           /\ After(b, Push(<<"clauses">>, rest), f)
                => After(Append(b, Num(n)), Cat(Repeat(n, <<<<"expr">>, <<"block">>>>), rest), f)
<1> DEFINE i == Len(b) + 1
<1>1. ASSUME NEW sym, NEW s, Takes(sym[1]) = "int", Following(sym, Num(n), i) = s,
             sym[1] # "location", After(b, Push(sym, rest), f)
      PROVE  After(Append(b, Num(n)), Cat(s, rest), f)
  <2>1. Num(n)[1] = "int"
    BY DEF Num
  <2> QED
    BY <2>1, <1>1, ReadToken
<1>2. After(b, Push(<<"statements">>, rest), f)
        => After(Append(b, Num(n)), Cat(Repeat(n, <<<<"statement", 0>>>>), rest), f)
    BY <1>1 DEF Num, Takes, Following
<1>3. After(b, Push(<<"blocks">>, rest), f)
        => After(Append(b, Num(n)), Cat(Repeat(n, <<<<"block">>>>), rest), f)
    BY <1>1 DEF Num, Takes, Following
<1>4. After(b, Push(<<"clauses">>, rest), f)
        => After(Append(b, Num(n)), Cat(Repeat(n, <<<<"expr">>, <<"block">>>>), rest), f)
    BY <1>1 DEF Num, Takes, Following
<1> QED
    BY <1>2, <1>3, <1>4

LEMMA ReadOptional ==
    ASSUME NEW b, IsSeq(b), NEW rest, IsSeq(rest), NEW f,
           After(b, Push(<<"optional block">>, rest), f)
    PROVE  /\ After(Append(b, Bool(TRUE)), Push(<<"block">>, rest), f)
           /\ After(Append(b, Bool(FALSE)), rest, f)
<1> DEFINE i == Len(b) + 1
           sym == <<"optional block">>
<1>1. ASSUME NEW c PROVE After(Append(b, Bool(c)), Cat(Following(sym, Bool(c), i), rest), f)
  <2> DEFINE t == Bool(c)
  <2>1. t[1] = Takes(sym[1]) /\ sym[1] # "location"
    BY DEF Bool, Takes
  <2> HIDE DEF t, sym
  <2>2. After(b, Push(sym, rest), f)
    BY DEF sym
  <2>3. After(Append(b, t), Cat(Following(sym, t, i), rest), f)
    BY <2>1, <2>2, ReadToken
  <2> QED
    BY <2>3 DEF t
<1>2. Following(sym, Bool(TRUE), i) = <<<<"block">>>> /\ Following(sym, Bool(FALSE), i) = << >>
    BY DEF Bool, Following
<1>3. Cat(<<<<"block">>>>, rest) = Push(<<"block">>, rest) /\ Cat(<< >>, rest) = rest
    BY PushConcat
<1> HIDE DEF sym, i
<1> QED
    BY <1>1, <1>2, <1>3

LEMMA BlockRest ==
    ASSUME NEW place, IsSeq(place), NEW many, IsSeq(many), NEW ends, IsSeq(ends),
           NEW rest, IsSeq(rest)
    PROVE  Cat(Cat(Cat(place, many), ends), rest) = Cat(place, Cat(many, Cat(ends, rest)))
<1>1. IsSeq(Cat(place, many)) /\ IsSeq(Cat(ends, rest))
    BY CatSeq
<1>2. Cat(Cat(Cat(place, many), ends), rest) = Cat(Cat(place, many), Cat(ends, rest))
    BY <1>1, CatThree
<1>3. Cat(Cat(place, many), Cat(ends, rest)) = Cat(place, Cat(many, Cat(ends, rest)))
    BY <1>1, CatThree
<1> QED
    BY <1>2, <1>3

LEMMA ReadBlock ==
    ASSUME NEW b, IsSeq(b), NEW rest, IsSeq(rest), NEW f, NEW n \in Nat, NEW u
    PROVE  /\ After(b, Push(<<"block">>, rest), f) =>
                After(Append(b, Block(n, u)),
                      IF n = 0 THEN Push(<<"place">>, Push(<<"end">>, rest))
                      ELSE Cat(Repeat(n, <<<<"statement", Len(b) + 1>>>>), Push(<<"end">>, rest)), f)
           /\ After(b, Push(<<"unlocated block">>, rest), f) =>
                After(Append(b, Block(n, u)),
                      Cat(Repeat(n, <<<<"statement", Len(b) + 1>>>>), Push(<<"end">>, rest)), f)
<1> DEFINE i == Len(b) + 1
           t == Block(n, u)
           many == Repeat(n, <<<<"statement", i>>>>)
           place == IF n = 0 THEN <<<<"place">>>> ELSE << >>
           ends == <<<<"end">>>>
           end == Push(<<"end">>, rest)
           located == <<"block">>
           unlocated == <<"unlocated block">>
           none == << >>
<1>1. /\ t[1] = Takes(located[1]) /\ located[1] # "location"
      /\ t[1] = Takes(unlocated[1]) /\ unlocated[1] # "location"
    BY DEF Block, Takes
<1>2. /\ Following(located, t, i) = Cat(Cat(place, many), ends)
      /\ Following(unlocated, t, i) = Cat(Cat(none, many), ends)
    BY DEF Following, Block, Cat
<1>3. IsSeq(many) /\ (n = 0 => many = none)
    BY RepeatOne
<1>4. IsSeq(place) /\ IsSeq(ends) /\ IsSeq(end) /\ IsSeq(none)
    BY ShortSeq, Pushed
<1>5. end = Cat(ends, rest)
    BY DEF Push
<1>6. (n = 0 => Cat(place, end) = Push(<<"place">>, end)) /\ (n # 0 => place = none)
    BY DEF Push
<1> SUFFICES /\ After(b, Push(located, rest), f) =>
                  After(Append(b, t),
                    IF n = 0 THEN Push(<<"place">>, end) ELSE Cat(many, end), f)
             /\ After(b, Push(unlocated, rest), f) => After(Append(b, t), Cat(many, end), f)
    OBVIOUS
<1> HIDE DEF located, unlocated, none, t, many, place, ends, end, i
<1>7. ASSUME NEW p, IsSeq(p)
      PROVE  Cat(Cat(Cat(p, many), ends), rest) = Cat(p, Cat(many, end))
    BY <1>3, <1>4, <1>5, <1>7, BlockRest
<1>8. Cat(none, Cat(many, end)) = Cat(many, end)
  <2>1. IsSeq(Cat(many, end))
    BY <1>3, <1>4, CatSeq
  <2> QED
    BY <2>1, PushConcat DEF none
<1>9. ASSUME After(b, Push(unlocated, rest), f)
      PROVE  After(Append(b, t), Cat(many, end), f)
  <2>1. After(Append(b, t), Cat(Following(unlocated, t, i), rest), f)
    BY <1>1, <1>9, ReadToken DEF i
  <2> QED
    BY <2>1, <1>2, <1>4, <1>7, <1>8
<1>10. ASSUME After(b, Push(located, rest), f)
      PROVE  After(Append(b, t), Cat(place, Cat(many, end)), f)
  <2>1. After(Append(b, t), Cat(Following(located, t, i), rest), f)
    BY <1>1, <1>10, ReadToken DEF i
  <2> QED
    BY <2>1, <1>2, <1>4, <1>7
<1>11. n = 0 => Cat(place, Cat(many, end)) = Push(<<"place">>, end)
  <2>1. n = 0 => Cat(many, end) = end
    BY <1>3, <1>4, PushConcat DEF none
  <2> QED
    BY <2>1, <1>6
<1> QED
    BY <1>6, <1>8, <1>9, <1>10, <1>11

LEMMA ReadStatement ==
    ASSUME NEW b, IsSeq(b), NEW rest, IsSeq(rest), NEW f, NEW name, NEW at,
           After(b, Push(<<"statement", at>>, rest), f)
    PROVE  After(Append(b, Tag(name)),
                 Cat(Parts(name), Push(<<"location", name, at>>,
                    (IF name = "import" /\ CacheVersion >= CV_IMPORT_FLAGS
                     THEN Push(<<"flags">>, Push(<<"end">>, rest)) ELSE Push(<<"end">>, rest)))), f)
<1> DEFINE i == Len(b) + 1
           sym == <<"statement", at>>
           t == Tag(name)
           parts == Parts(name)
           loc == <<<<"location", name, at>>>>
           flagged == name = "import" /\ CacheVersion >= CV_IMPORT_FLAGS
           flags == IF flagged THEN <<<<"flags">>>> ELSE << >>
           end == Push(<<"end">>, rest)
<1>1. t[1] = Takes(sym[1]) /\ sym[1] # "location"
    BY DEF Tag, Takes
<1>2. Following(sym, t, i) = Cat(Cat(Cat(parts, loc), flags), <<<<"end">>>>)
    BY DEF Following, Tag, Cat
<1>3. After(b, Push(sym, rest), f)
    OBVIOUS
<1> HIDE DEF t, sym
<1>4. After(Append(b, t), Cat(Following(sym, t, i), rest), f)
    BY <1>1, <1>3, ReadToken
<1>5. IsSeq(parts) /\ IsSeq(loc) /\ IsSeq(flags) /\ IsSeq(<<<<"end">>>>) /\ IsSeq(end)
    BY ShortSeq, Pushed DEF Parts
<1> DEFINE after == IF flagged THEN Push(<<"flags">>, end) ELSE end
<1>6. Cat(flags, end) = after /\ IsSeq(after)
    BY <1>5, PushConcat, Pushed DEF flags
<1>7. Cat(loc, after) = Push(<<"location", name, at>>, after)
    BY DEF Push
<1> HIDE DEF parts, loc, flags, after
<1>8. IsSeq(Cat(parts, loc)) /\ IsSeq(Cat(Cat(parts, loc), flags))
    BY <1>5, CatSeq
<1>9. Cat(Cat(Cat(Cat(parts, loc), flags), <<<<"end">>>>), rest) = Cat(Cat(Cat(parts, loc), flags), end)
    BY <1>5, <1>8, CatThree DEF Push
<1>10. Cat(Cat(Cat(parts, loc), flags), end) = Cat(Cat(parts, loc), after)
    BY <1>5, <1>6, <1>8, CatThree
<1>11. Cat(Cat(parts, loc), after) = Cat(parts, Cat(loc, after))
    BY <1>5, <1>6, CatThree
<1> QED
    BY <1>2, <1>4, <1>7, <1>9, <1>10, <1>11 DEF t, parts, after
-----------------------------------------------------------------------------
(* Statements and their clauses. *)

TreeInv ==
    /\ \A p \in Lines : p + 1 \in Lines =>
          /\ Kind(p) \notin OpensBlock => Depth(p + 1) <= Depth(p)
          /\ Kind(p) \in NeedsBody => Depth(p + 1) = Depth(p) + 1
    /\ phase # "parse" /\ Len(prog) # 0 => Kind(Len(prog)) \notin NeedsBody

\* n is the first line after the block of h.
NextAfter(h, n) == h < n /\ \A q \in (h + 1)..(n - 1) : Depth(q) > Depth(h)

LEMMA HeadIs ==
    ASSUME IInv, HeadsInv, NEW h \in Lines
    PROVE  /\ HeadOf(h) \in Lines /\ HeadOf(h) <= h
           /\ Depth(HeadOf(h)) = Depth(h) /\ Kind(HeadOf(h)) \notin Clauses
           /\ \A q \in Lines : HeadOf(h) < q /\ q <= h /\ Depth(q) = Depth(h) => Kind(q) \in Clauses
<1>0. Len(prog) \in Nat /\ Lines = 1..Len(prog)
    BY TreeType
<1> DEFINE S == {q \in 1..h : Depth(q) = Depth(h) /\ Kind(q) \notin Clauses}
<1>1. \E m \in S : \A q \in S : q <= m
  <2>1. CASE Kind(h) \notin Clauses
    <3>1. h \in S /\ \A q \in S : q <= h
        BY <1>0, <2>1
    <3> QED
        BY <3>1
  <2>2. CASE Kind(h) \in Clauses
    <3>1. PICK q \in 1..(h - 1) : ClauseFollows(h, q)
        BY <2>2 DEF HeadsInv
    <3>2. q \in S
        BY <1>0, <3>1 DEF ClauseFollows, Openers, Clauses, Cases
    <3>3. \A r \in S : r <= q
        BY <1>0, <2>2, <3>1 DEF ClauseFollows
    <3> QED
        BY <3>2, <3>3
  <2> QED
    BY <2>1, <2>2
<1>2. HeadOf(h) \in S /\ \A q \in S : q <= HeadOf(h)
  <2> HIDE DEF S
  <2>1. HeadOf(h) = CHOOSE m \in S : \A q \in S : q <= m
    BY DEF HeadOf, Highest, S
  <2> QED
    BY <1>1, <2>1
<1> QED
    BY <1>0, <1>2

LEMMA HeadIsThe ==
    ASSUME IInv, HeadsInv, NEW h \in Lines, NEW g \in Lines, g <= h,
           Depth(g) = Depth(h), Kind(g) \notin Clauses,
           \A q \in Lines : g < q /\ q <= h /\ Depth(q) = Depth(h) => Kind(q) \in Clauses
    PROVE  HeadOf(h) = g
<1>0. Len(prog) \in Nat /\ Lines = 1..Len(prog)
    BY TreeType
<1> DEFINE m == HeadOf(h)
<1>1. /\ m \in Lines /\ m <= h /\ Depth(m) = Depth(h) /\ Kind(m) \notin Clauses
      /\ \A q \in Lines : m < q /\ q <= h /\ Depth(q) = Depth(h) => Kind(q) \in Clauses
    BY HeadIs
<1> HIDE DEF m
<1>2. ~(g < m) /\ ~(m < g)
    BY <1>1
<1> QED
    BY <1>0, <1>1, <1>2 DEF m

\* A statement is not interrupted by the end of a block around it.
LEMMA HeadEncloses ==
    ASSUME IInv, HeadsInv, ClausesInv, NEW h \in Lines, NEW r \in Lines, HeadOf(h) <= r, r <= h
    PROVE  Depth(r) >= Depth(h)
<1>0. Len(prog) \in Nat /\ Lines = 1..Len(prog) /\ \A q \in Lines : Depth(q) \in Nat
    BY TreeType
<1> DEFINE S == {c \in Lines : \E q \in Lines : HeadOf(c) <= q /\ q <= c /\ Depth(q) < Depth(c)}
<1>1. SUFFICES ASSUME S # {} PROVE FALSE
    BY <1>0
<1>2. PICK c \in S : \A q \in S : c <= q
  <2>1. S \in SUBSET Nat
    BY <1>0
  <2> HIDE DEF S
  <2> QED
    BY <1>1, <2>1, LeastIn
<1>3. PICK q \in Lines : c \in Lines /\ HeadOf(c) <= q /\ q <= c /\ Depth(q) < Depth(c)
    OBVIOUS
<1>4. HeadOf(c) # c
    BY <1>0, <1>3
<1>5. Kind(c) \in Clauses
    BY <1>3, <1>4, HeadKnown
<1> DEFINE p == Previous(c)
<1>6. /\ p \in Lines /\ p < c /\ Precedes(p, c) /\ HeadOf(c) = HeadOf(p)
    BY <1>3, <1>5, ClauseAfter
<1> HIDE DEF p
<1>7. p \notin S
    BY <1>0, <1>2, <1>3, <1>6
<1>8. Depth(p) = Depth(c) /\ \A r_1 \in (p + 1)..(c - 1) : Depth(r_1) > Depth(c)
    BY <1>6 DEF Precedes
<1>9. ~(q <= p)
    BY <1>3, <1>6, <1>7, <1>8
<1> QED
    BY <1>0, <1>3, <1>6, <1>8, <1>9

\* A clause after the block of a line continues its statement.
LEMMA ClauseNextTo ==
    ASSUME IInv, HeadsInv, ClausesInv, NEW h \in Lines, NEW n \in Lines, NextAfter(h, n),
           Depth(n) = Depth(h), Kind(n) \in Clauses
    PROVE  Previous(n) = h /\ Kind(h) \in Follows(Kind(n)) /\ HeadOf(n) = HeadOf(h)
<1>0. Len(prog) \in Nat /\ Lines = 1..Len(prog) /\ \A q \in Lines : Depth(q) \in Nat
    BY TreeType
<1> DEFINE p == Previous(n)
<1>1. /\ p \in Lines /\ p < n /\ Precedes(p, n) /\ HeadOf(n) = HeadOf(p)
    BY ClauseAfter
<1> HIDE DEF p
<1>2. /\ Depth(p) = Depth(n) /\ Kind(p) \in Follows(Kind(n))
      /\ \A r \in (p + 1)..(n - 1) : Depth(r) > Depth(n)
    BY <1>1 DEF Precedes
<1>3. ~(p < h) /\ ~(h < p)
    BY <1>0, <1>1, <1>2 DEF NextAfter
<1>4. p = h
    BY <1>0, <1>1, <1>3
<1> QED
    BY <1>1, <1>2, <1>4 DEF p

\* A block does not start with a clause.
LEMMA NoClauseBelow ==
    ASSUME IInv, HeadsInv, ClausesInv, NEW h \in Lines, NEW n \in Lines, n = h + 1, Depth(n) > Depth(h)
    PROVE  Kind(n) \notin Clauses
<1>0. Len(prog) \in Nat /\ Lines = 1..Len(prog) /\ \A q \in Lines : Depth(q) \in Nat
    BY TreeType
<1> SUFFICES ASSUME Kind(n) \in Clauses PROVE FALSE
    OBVIOUS
<1> DEFINE p == Previous(n)
<1>1. /\ p \in Lines /\ p < n /\ Precedes(p, n)
    BY ClauseAfter
<1> HIDE DEF p
<1>2. Depth(p) = Depth(n) /\ \A r \in (p + 1)..(n - 1) : Depth(r) > Depth(n)
    BY <1>1 DEF Precedes
<1>3. p # h /\ ~(p < h)
    BY <1>0, <1>1, <1>2
<1> QED
    BY <1>0, <1>1, <1>3

\* The clauses that may come later in the statement of a line.
Later(kind) ==
    CASE kind \in {"if", "elif"}      -> {"elif", "else"}
      [] kind \in {"match"} \cup Cases -> Cases
      [] kind = "loop"                -> {"loop_else"}
      [] kind \in {"try", "except"}   -> {"except", "try_else", "finally"}
      [] kind = "try_else"            -> {"finally"}
      [] OTHER                        -> {}

LEMMA LaterFollows ==
    ASSUME NEW k \in Kinds, NEW c \in Clauses, k \in Follows(c)
    PROVE  /\ c \in Later(k)
           /\ \A x \in Kinds : k \in Later(x) => c \in Later(x)
<1>1. c \in Later(k)
    BY DEF Later, Follows, Clauses, Cases
<1>2. ASSUME NEW x \in Kinds, k \in Later(x)
      PROVE  c \in Later(x)
    BY <1>2 DEF Later, Follows, Clauses, Cases
<1> QED
    BY <1>1, <1>2

LEMMA ClauseOrder ==
    ASSUME IInv, HeadsInv, ClausesInv, NEW h \in Lines, NEW c \in Lines, h < c,
           Depth(c) = Depth(h), HeadOf(c) = HeadOf(h)
    PROVE  Kind(c) \in Later(Kind(h))
<1>0. Len(prog) \in Nat /\ Lines = 1..Len(prog) /\ \A q \in Lines : Depth(q) \in Nat /\ Kind(q) \in Kinds
  <2>1. \A q \in 1..Len(prog) : prog[q] \in LineType
    BY DEF IInv, TypeInv
  <2> QED
    BY <2>1, TreeType DEF Kind, LineType
<1> DEFINE S == {d \in Lines : /\ h < d /\ Depth(d) = Depth(h) /\ HeadOf(d) = HeadOf(h)
                              /\ Kind(d) \notin Later(Kind(h))}
<1>1. SUFFICES ASSUME S # {} PROVE FALSE
    OBVIOUS
<1>2. PICK d \in S : \A q \in S : d <= q
  <2>1. S \in SUBSET Nat
    BY <1>0
  <2> HIDE DEF S
  <2> QED
    BY <1>1, <2>1, LeastIn
<1>3. /\ d \in Lines /\ h < d /\ Depth(d) = Depth(h) /\ HeadOf(d) = HeadOf(h)
      /\ Kind(d) \notin Later(Kind(h))
    OBVIOUS
<1>h. HeadOf(h) \in Lines /\ HeadOf(h) <= h
    BY HeadIs
<1>4. Kind(d) \in Clauses
  <2>1. HeadOf(d) # d
    BY <1>0, <1>3, <1>h
  <2> QED
    BY <1>3, <2>1, HeadKnown
<1> DEFINE p == Previous(d)
<1>5. /\ p \in Lines /\ p < d /\ Precedes(p, d) /\ HeadOf(d) = HeadOf(p)
    BY <1>3, <1>4, ClauseAfter
<1> HIDE DEF p
<1>6. /\ Depth(p) = Depth(d) /\ Kind(p) \in Follows(Kind(d))
      /\ \A r \in (p + 1)..(d - 1) : Depth(r) > Depth(d)
    BY <1>5 DEF Precedes
<1>7. ~(p < h)
    BY <1>0, <1>3, <1>5, <1>6
<1>8. CASE p = h
    BY <1>0, <1>3, <1>4, <1>6, <1>8, LaterFollows
<1>9. CASE h < p
  <2>1. Kind(p) \in Later(Kind(h))
    <3>1. p \notin S
        BY <1>0, <1>2, <1>3, <1>5
    <3> QED
        BY <1>3, <1>5, <1>6, <1>9, <3>1
  <2> QED
    BY <1>0, <1>3, <1>4, <1>5, <1>6, <2>1, LaterFollows
<1> QED
    BY <1>0, <1>5, <1>7, <1>8, <1>9

\* The clauses of the statement of h that come after h.
ClausesAfter(h, kinds) == {c \in ClausesOf(HeadOf(h), kinds) : h < c}

LEMMA ClausesAfterAre ==
    ASSUME IInv, HeadsInv, NEW h \in Lines, NEW kinds
    PROVE  /\ \A c : c \in ClausesAfter(h, kinds) <=>
                 /\ c \in Lines /\ h < c /\ Depth(c) = Depth(h)
                 /\ Kind(c) \in kinds /\ HeadOf(c) = HeadOf(h)
           /\ IsFiniteSet(ClausesAfter(h, kinds))
           /\ Cardinality(ClausesAfter(h, kinds)) \in Nat
<1>0. Len(prog) \in Nat /\ Lines = 1..Len(prog)
    BY TreeType
<1>1. /\ HeadOf(h) \in Lines /\ HeadOf(h) <= h /\ Depth(HeadOf(h)) = Depth(h)
    BY HeadIs
<1>2. ASSUME NEW c
      PROVE  c \in ClausesAfter(h, kinds) <=>
                 /\ c \in Lines /\ h < c /\ Depth(c) = Depth(h)
                 /\ Kind(c) \in kinds /\ HeadOf(c) = HeadOf(h)
    BY <1>0, <1>1 DEF ClausesAfter, ClausesOf
<1>3. ClausesAfter(h, kinds) \subseteq Lines
    BY <1>2
<1>4. IsFiniteSet(Lines)
    BY <1>0, FS_Interval
<1>5. IsFiniteSet(ClausesAfter(h, kinds))
    BY <1>3, <1>4, FS_Subset
<1> QED
    BY <1>2, <1>5, FS_CardinalityType

\* One of them next, and then those after it.
LEMMA ClausesNext ==
    ASSUME IInv, HeadsInv, NEW h \in Lines, NEW n \in Lines, NextAfter(h, n),
           Depth(n) = Depth(h), HeadOf(n) = HeadOf(h), NEW kinds
    PROVE  /\ Kind(n) \notin kinds => ClausesAfter(h, kinds) = ClausesAfter(n, kinds)
           /\ Kind(n) \in kinds => /\ ClausesAfter(h, kinds) = ClausesAfter(n, kinds) \cup {n}
                                   /\ Cardinality(ClausesAfter(h, kinds)) = Cardinality(ClausesAfter(n, kinds)) + 1
<1>0. Len(prog) \in Nat /\ Lines = 1..Len(prog) /\ \A q \in Lines : Depth(q) \in Nat
    BY TreeType
<1>1. ASSUME NEW c \in Lines, Depth(c) = Depth(h)
      PROVE  h < c <=> n < c \/ c = n
  <2>1. c \notin (h + 1)..(n - 1)
    BY <1>0, <1>1 DEF NextAfter
  <2> QED
    BY <1>0, <1>1, <2>1 DEF NextAfter
<1>2. \A c : c \in ClausesAfter(h, kinds) <=> c \in ClausesAfter(n, kinds) \/ (c = n /\ Kind(n) \in kinds)
    BY <1>1, ClausesAfterAre
<1>3. n \notin ClausesAfter(n, kinds)
    BY <1>0 DEF ClausesAfter
<1>4. IsFiniteSet(ClausesAfter(n, kinds))
    BY ClausesAfterAre
<1>5. Kind(n) \in kinds => ClausesAfter(h, kinds) = ClausesAfter(n, kinds) \cup {n}
    BY <1>2
<1>6. ClausesAfter(h, kinds) = ClausesAfter(n, kinds) \cup {n}
         => Cardinality(ClausesAfter(h, kinds)) = Cardinality(ClausesAfter(n, kinds)) + 1
  <2> DEFINE S == ClausesAfter(n, kinds)
  <2> HIDE DEF S
  <2>1. Cardinality(S \cup {n}) = Cardinality(S) + 1
    BY <1>3, <1>4, FS_AddElement DEF S
  <2> QED
    BY <2>1 DEF S
<1>7. Kind(n) \notin kinds => ClausesAfter(h, kinds) = ClausesAfter(n, kinds)
    BY <1>2
<1> QED
    BY <1>5, <1>6, <1>7

\* No clause next, and no clause at all.
LEMMA NoClauses ==
    ASSUME IInv, HeadsInv, ClausesInv, NEW h \in Lines, NEW n \in 1..(Len(prog) + 1), NextAfter(h, n),
           n \in Lines => Depth(n) <= Depth(h) /\ (Depth(n) = Depth(h) => Kind(n) \notin Clauses),
           NEW kinds
    PROVE  ClausesAfter(h, kinds) = {} /\ Cardinality(ClausesAfter(h, kinds)) = 0
<1>0. Len(prog) \in Nat /\ Lines = 1..Len(prog) /\ \A q \in Lines : Depth(q) \in Nat
    BY TreeType
<1>1. ASSUME NEW c, c \in ClausesAfter(h, kinds)
      PROVE  FALSE
  <2>1. c \in Lines /\ h < c /\ Depth(c) = Depth(h) /\ HeadOf(c) = HeadOf(h)
    BY <1>1, ClausesAfterAre
  <2>2. HeadOf(h) \in Lines /\ HeadOf(h) <= h
    BY HeadIs
  <2>3. n <= c /\ n \in Lines /\ HeadOf(c) < n
    BY <1>0, <2>1, <2>2 DEF NextAfter
  <2>4. Depth(n) >= Depth(c)
    BY <1>0, <2>1, <2>2, <2>3, HeadEncloses
  <2>5. Depth(n) = Depth(c)
    BY <1>0, <2>1, <2>3, <2>4
  <2>6. Kind(n) \in Clauses
    BY <2>1, <2>3, <2>5, HeadIs
  <2> QED
    BY <2>1, <2>3, <2>5, <2>6
<1> QED
    BY <1>1, FS_EmptySet

\* None of these kinds come later.
LEMMA NoneLater ==
    ASSUME IInv, HeadsInv, ClausesInv, NEW h \in Lines, NEW kinds, kinds \cap Later(Kind(h)) = {}
    PROVE  ClausesAfter(h, kinds) = {} /\ Cardinality(ClausesAfter(h, kinds)) = 0
<1>1. ASSUME NEW c, c \in ClausesAfter(h, kinds)
      PROVE  FALSE
  <2>1. c \in Lines /\ h < c /\ Depth(c) = Depth(h) /\ HeadOf(c) = HeadOf(h) /\ Kind(c) \in kinds
    BY <1>1, ClausesAfterAre
  <2>2. Kind(c) \in Later(Kind(h))
    BY <2>1, ClauseOrder
  <2> QED
    BY <2>1, <2>2
<1> QED
    BY <1>1, FS_EmptySet

\* The clauses of a header are all after it.
LEMMA ClausesOfHeader ==
    ASSUME IInv, HeadsInv, NEW h \in Lines, Kind(h) \notin Clauses, NEW kinds
    PROVE  ClausesAfter(h, kinds) = ClausesOf(h, kinds)
<1>1. HeadOf(h) = h
    BY HeadKnown
<1> QED
    BY <1>1 DEF ClausesAfter, ClausesOf

\* The else of a try is the clause before its finally, if there is one.
LEMMA ElseBeforeFinally ==
    ASSUME IInv, HeadsInv, ClausesInv, NEW h \in Lines, NEW n \in Lines, NextAfter(h, n),
           Depth(n) = Depth(h), Kind(n) = "finally"
    PROVE  (ClausesOf(HeadOf(n), {"try_else"}) = {}) <=> Kind(h) # "try_else"
<1>0. Len(prog) \in Nat /\ Lines = 1..Len(prog) /\ \A q \in Lines : Depth(q) \in Nat
    BY TreeType
<1>1. Kind(h) \in {"try", "except", "try_else"} /\ HeadOf(n) = HeadOf(h)
    BY ClauseNextTo DEF Clauses, Follows, Cases
<1> DEFINE m == HeadOf(n)
<1>2. m \in Lines /\ m <= h /\ Depth(m) = Depth(h) /\ Kind(m) \notin Clauses
    BY <1>1, HeadIs
<1>3. CASE Kind(h) = "try_else"
  <2>1. h # m
    BY <1>2, <1>3 DEF Clauses
  <2>2. h \in ClausesOf(m, {"try_else"})
    BY <1>0, <1>1, <1>2, <1>3, <2>1 DEF ClausesOf
  <2> QED
    BY <1>3, <2>2
<1>4. CASE Kind(h) # "try_else"
  <2>1. ASSUME NEW c, c \in ClausesOf(m, {"try_else"})
        PROVE  FALSE
    <3>1. c \in Lines /\ m < c /\ Depth(c) = Depth(h) /\ Kind(c) = "try_else" /\ HeadOf(c) = HeadOf(h)
        BY <1>1, <1>2, <2>1 DEF ClausesOf
    <3>2. CASE c < h
      <4>1. Kind(h) \in Later("try_else")
        BY <1>0, <3>1, <3>2, ClauseOrder
      <4> QED
        BY <1>1, <4>1 DEF Later, Cases
    <3>3. CASE c = h
        BY <1>4, <3>1, <3>3
    <3>4. CASE h < c
      <4>1. c # n /\ ~(c < n)
        BY <1>0, <3>1, <3>4 DEF NextAfter
      <4>2. Kind(c) \in Later("finally")
        BY <1>0, <1>1, <3>1, <4>1, ClauseOrder
      <4> QED
        BY <4>2 DEF Later, Cases
    <3> QED
        BY <1>0, <3>1, <3>2, <3>3, <3>4
  <2> QED
    BY <1>4, <2>1
<1> QED
    BY <1>3, <1>4
-----------------------------------------------------------------------------
(* Where the tree is cut. *)

LEMMA StopIs ==
    ASSUME IInv, GetattrInv, phase # "parse", stop < Len(prog)
    PROVE  stop \in Lines /\ Depth(stop) = 0 /\ Kind(stop) = "assert"
<1>0. Len(prog) \in Nat /\ Lines = 1..Len(prog) /\ stop \in 0..Len(prog)
    BY TreeType DEF IInv, TypeInv
<1>1. KeptLines = 1..stop
    BY DEF GetattrInv
<1>2. PICK q \in 1..stop : Depth(q) = 0 /\ Kind(q) = "assert" /\ prog[q].truth \in FalseForMypy
  <2> DEFINE n == stop + 1
  <2>1. n \in Lines /\ n \notin KeptLines /\ n - 1 = stop
    BY <1>0, <1>1
  <2> HIDE DEF n
  <2>2. ~Kept(n)
    BY <2>1 DEF KeptLines
  <2> QED
    BY <2>1, <2>2 DEF Kept
<1>3. stop \in KeptLines
    BY <1>0, <1>1
<1>4. ~(q < stop)
    BY <1>0, <1>2, <1>3 DEF KeptLines, Kept
<1> QED
    BY <1>0, <1>2, <1>4

\* No block is cut.
LEMMA KeptTogether ==
    ASSUME IInv, GetattrInv, phase # "parse", NEW h \in Lines, h <= stop, Kind(h) # "assert",
           NEW n \in Lines, NextAfter(h, n)
    PROVE  n <= stop
<1>0. /\ Len(prog) \in Nat /\ Lines = 1..Len(prog) /\ stop \in 0..Len(prog)
      /\ \A q \in Lines : Depth(q) \in Nat
    BY TreeType DEF IInv, TypeInv
<1> SUFFICES ASSUME stop < n PROVE FALSE
    BY <1>0
<1>1. stop \in Lines /\ Depth(stop) = 0 /\ Kind(stop) = "assert"
    BY <1>0, StopIs
<1>2. h < stop
    BY <1>0, <1>1
<1>3. Depth(stop) > Depth(h)
    BY <1>0, <1>1, <1>2 DEF NextAfter
<1> QED
    BY <1>0, <1>1, <1>3
-----------------------------------------------------------------------------
(* The statements of a block, and those still to come. *)

\* The statements of the block of h, or of the module as far as it is kept.
StmtsOf(h) ==
    IF h = 0 THEN {p \in 1..stop : Depth(p) = 0 /\ Kind(p) \notin Clauses} ELSE Stmts(h)
StmtsFrom(h, n) == {p \in StmtsOf(h) : n <= p}
Left(h, n) == Cardinality(StmtsFrom(h, n))

\* The line of the i-th of some open blocks; the module is the block of 0.
BlockLine(fs, i) == IF i = 0 THEN 0 ELSE fs[i].line

FrameKinds == \A i \in 1..Len(frames) : Kind(frames[i].line) \in OpensBlock

LEMMA FrameLines ==
    ASSUME IInv
    PROVE  \A i \in 0..Len(frames) :
              LET g == BlockLine(frames, i)
              IN /\ g = 0 <=> i = 0
                 /\ i # 0 => /\ g = frames[i].line /\ g \in Lines /\ g < pos /\ Depth(g) = i - 1
                             /\ \A q \in Lines : g < q /\ q < pos => Depth(q) >= i
<1>0. /\ Len(prog) \in Nat /\ Lines = 1..Len(prog) /\ Len(frames) \in Nat
      /\ pos \in 1..(Len(prog) + 1)
    BY TreeType DEF IInv, TypeInv
<1> TAKE i \in 0..Len(frames)
<1>1. CASE i = 0
    BY <1>1 DEF BlockLine
<1>2. CASE i \in 1..Len(frames)
  <2>1. /\ frames[i].line \in 1..(pos - 1) /\ Depth(frames[i].line) = i - 1
        /\ \A q \in (frames[i].line + 1)..(pos - 1) : Depth(q) >= i
    BY <1>2 DEF IInv, StackInv
  <2> DEFINE g == frames[i].line
  <2>2. BlockLine(frames, i) = g
    BY <1>0, <1>2 DEF BlockLine
  <2>3. g \in 1..(pos - 1) /\ Depth(g) = i - 1 /\ \A q \in (g + 1)..(pos - 1) : Depth(q) >= i
    BY <2>1
  <2> HIDE DEF g
  <2>4. g \in Lines /\ g < pos /\ g # 0 /\ i # 0 /\ \A q \in Lines : g < q /\ q < pos => Depth(q) >= i
    BY <1>0, <1>2, <2>3
  <2> QED
    BY <2>2, <2>3, <2>4 DEF g
<1> QED
    BY <1>0, <1>1, <1>2

\* They are at the level of their block.
LEMMA StmtsAre ==
    ASSUME IInv, NEW i \in 0..Len(frames)
    PROVE  LET g == BlockLine(frames, i)
           IN /\ \A p \in StmtsOf(g) : p \in Lines /\ Depth(p) = i /\ Kind(p) \notin Clauses
              /\ \A n : IsFiniteSet(StmtsFrom(g, n)) /\ Left(g, n) \in Nat
<1>0. /\ Len(prog) \in Nat /\ Lines = 1..Len(prog) /\ stop \in 0..Len(prog) /\ Len(frames) \in Nat
      /\ \A q \in Lines : Depth(q) \in Nat
    BY TreeType DEF IInv, TypeInv
<1> DEFINE g == BlockLine(frames, i)
<1>1. (g = 0 <=> i = 0) /\ (i # 0 => Depth(g) = i - 1)
    BY FrameLines
<1> HIDE DEF g
<1>2. ASSUME NEW p \in StmtsOf(g)
      PROVE  p \in Lines /\ Depth(p) = i /\ Kind(p) \notin Clauses
    BY <1>0, <1>1 DEF StmtsOf, Stmts, Body
<1>3. ASSUME NEW n
      PROVE  IsFiniteSet(StmtsFrom(g, n)) /\ Left(g, n) \in Nat
  <2>1. StmtsFrom(g, n) \subseteq Lines /\ IsFiniteSet(Lines)
    BY <1>0, <1>2, FS_Interval DEF StmtsFrom
  <2>2. IsFiniteSet(StmtsFrom(g, n))
    BY <2>1, FS_Subset
  <2> QED
    BY <2>2, FS_CardinalityType DEF Left
<1> QED
    BY <1>2, <1>3 DEF g

\* Next in the innermost block, the walk is in no other.
LEMMA NextStatement ==
    ASSUME IInv, pos \in Lines, pos <= stop, Depth(pos) = Len(frames), Kind(pos) \notin Clauses
    PROVE  pos \in StmtsOf(BlockLine(frames, Len(frames)))
<1>0. /\ Len(prog) \in Nat /\ Lines = 1..Len(prog) /\ stop \in 0..Len(prog) /\ Len(frames) \in Nat
      /\ \A q \in Lines : Depth(q) \in Nat
    BY TreeType DEF IInv, TypeInv
<1> DEFINE k == Len(frames)
           g == BlockLine(frames, k)
<1>1. /\ g = 0 <=> k = 0
      /\ k # 0 => /\ g \in Lines /\ g < pos /\ Depth(g) = k - 1
                  /\ \A q \in Lines : g < q /\ q < pos => Depth(q) >= k
  <2>1. k \in 0..Len(frames)
    BY <1>0
  <2> QED
    BY <2>1, FrameLines
<1>2. Depth(pos) = k /\ k \in Nat
    BY <1>0
<1> SUFFICES pos \in StmtsOf(g)
    OBVIOUS
<1> HIDE DEF g, k
<1>3. CASE k = 0
    BY <1>0, <1>1, <1>2, <1>3 DEF StmtsOf
<1>4. CASE k # 0
  <2>1. \A q \in (g + 1)..pos : q \in Lines /\ Depth(q) > Depth(g)
    BY <1>0, <1>1, <1>2, <1>4
  <2>2. pos \in Stmts(g)
    BY <1>0, <1>1, <1>2, <1>4, <2>1 DEF Stmts, Body, Inside
  <2> QED
    BY <1>1, <1>4, <2>2 DEF StmtsOf
<1> QED
    BY <1>3, <1>4

\* Passing a line with what is below it.
LEMMA StmtsPassed ==
    ASSUME IInv, pos \in Lines, pos <= stop, Depth(pos) = Len(frames),
           NEW n \in Nat, pos < n, \A q \in Lines : pos < q /\ q < n => Depth(q) > Len(frames),
           NEW i \in 0..Len(frames)
    PROVE  Left(BlockLine(frames, i), pos) =
              IF i = Len(frames) /\ Kind(pos) \notin Clauses
              THEN Left(BlockLine(frames, i), n) + 1 ELSE Left(BlockLine(frames, i), n)
<1>0. /\ Len(prog) \in Nat /\ Lines = 1..Len(prog) /\ Len(frames) \in Nat
      /\ \A q \in Lines : Depth(q) \in Nat
    BY TreeType
<1> DEFINE g == BlockLine(frames, i)
<1>1. /\ \A p \in StmtsOf(g) : p \in Lines /\ Depth(p) = i /\ Kind(p) \notin Clauses
      /\ IsFiniteSet(StmtsFrom(g, n)) /\ Left(g, n) \in Nat
    BY StmtsAre
<1>2. i = Len(frames) /\ Kind(pos) \notin Clauses => pos \in StmtsOf(g)
    BY NextStatement
<1> HIDE DEF g
<1>3. ASSUME NEW p \in StmtsOf(g), p # pos
      PROVE  pos <= p <=> n <= p
    BY <1>0, <1>1, <1>3
<1>4. CASE i = Len(frames) /\ Kind(pos) \notin Clauses
  <2>1. StmtsFrom(g, pos) = StmtsFrom(g, n) \cup {pos}
    BY <1>0, <1>2, <1>3, <1>4 DEF StmtsFrom
  <2>2. pos \notin StmtsFrom(g, n)
    BY <1>0 DEF StmtsFrom
  <2> DEFINE S == StmtsFrom(g, n)
  <2> HIDE DEF S
  <2>3. Cardinality(S \cup {pos}) = Cardinality(S) + 1
    BY <1>1, <2>2, FS_AddElement DEF S
  <2>4. Left(g, pos) = Left(g, n) + 1
    BY <2>1, <2>3 DEF Left, S
  <2> QED
    BY <1>4, <2>4 DEF g
<1>5. CASE ~(i = Len(frames) /\ Kind(pos) \notin Clauses)
  <2>1. pos \notin StmtsOf(g)
    BY <1>1, <1>5
  <2>2. StmtsFrom(g, pos) = StmtsFrom(g, n)
    BY <1>3, <2>1 DEF StmtsFrom
  <2>3. Left(g, pos) = Left(g, n)
    BY <2>2 DEF Left
  <2> QED
    BY <1>5, <2>3 DEF g
<1> QED
    BY <1>4, <1>5

\* The block of a line that is opened.
LEMMA StmtsOpened ==
    ASSUME IInv, pos \in Lines
    PROVE  Left(pos, pos + 1) = Cardinality(Stmts(pos)) /\ IsFiniteSet(Stmts(pos))
           /\ Cardinality(Stmts(pos)) \in Nat
<1>0. Len(prog) \in Nat /\ Lines = 1..Len(prog)
    BY TreeType
<1>1. \A p \in Stmts(pos) : p \in Lines /\ pos + 1 <= p
    BY <1>0 DEF Stmts, Body, Inside
<1>2. StmtsOf(pos) = Stmts(pos)
    BY <1>0 DEF StmtsOf
<1>3. StmtsFrom(pos, pos + 1) = Stmts(pos)
    BY <1>1, <1>2 DEF StmtsFrom
<1>4. Stmts(pos) \subseteq Lines /\ IsFiniteSet(Lines)
    BY <1>0, <1>1, FS_Interval
<1>5. IsFiniteSet(Stmts(pos))
    BY <1>4, FS_Subset
<1> QED
    BY <1>3, <1>5, FS_CardinalityType DEF Left

\* At its end a block has no more statements.
LEMMA StmtsEnded ==
    ASSUME IInv, GetattrInv, EffectsInv, FrameKinds, phase # "parse", frames # << >>,
           pos <= stop => Depth(pos) < Len(frames)
    PROVE  LET g == BlockLine(frames, Len(frames))
           IN /\ g = frames[Len(frames)].line /\ g \in Lines /\ g <= stop
              /\ Depth(g) = Len(frames) - 1 /\ NextAfter(g, pos)
              /\ pos \in Lines => pos <= stop
              /\ Left(g, pos) = 0
<1>0. /\ Len(prog) \in Nat /\ Lines = 1..Len(prog) /\ stop \in 0..Len(prog) /\ Len(frames) \in Nat
      /\ \A q \in Lines : Depth(q) \in Nat
      /\ pos \in 1..(Len(prog) + 1)
    BY TreeType DEF IInv, TypeInv
<1> DEFINE k == Len(frames)
           g == BlockLine(frames, k)
<1>1. k \in 1..Len(frames) /\ k \in 0..Len(frames) /\ k # 0
  <2>1. frames \in Seq(Frame) /\ frames # << >>
    BY DEF IInv, TypeInv
  <2> QED
    BY <1>0, <2>1
<1>2. /\ g = frames[k].line /\ g \in Lines /\ g < pos /\ Depth(g) = k - 1
      /\ \A q \in Lines : g < q /\ q < pos => Depth(q) >= k
    BY <1>1, FrameLines
<1>3. g <= stop
    BY <1>1, <1>2 DEF EffectsInv, FramesShown
<1>4. Kind(g) \in OpensBlock
    BY <1>1, <1>2 DEF FrameKinds
<1>d. pos <= stop => Depth(pos) < k
    OBVIOUS
<1>k. k \in Nat /\ k # 0
    BY <1>0, <1>1
<1> HIDE DEF g, k
<1>5. NextAfter(g, pos)
  <2>1. \A q \in (g + 1)..(pos - 1) : q \in Lines /\ g < q /\ q < pos
    BY <1>0, <1>2
  <2>2. ASSUME NEW q \in (g + 1)..(pos - 1)
        PROVE  Depth(q) > Depth(g)
    BY <1>0, <1>2, <1>k, <2>1
  <2> QED
    BY <1>2, <2>2 DEF NextAfter
<1>6. pos \in Lines => pos <= stop
  <2>1. Kind(g) # "assert"
    BY <1>4 DEF OpensBlock, Headers, Clauses, Funcs, Cases
  <2> QED
    BY <1>2, <1>3, <1>5, <2>1, KeptTogether
<1>7. \A p \in StmtsOf(g) : ~(pos <= p)
  <2> SUFFICES ASSUME NEW p \in Stmts(g), pos <= p PROVE FALSE
    BY <1>0, <1>2 DEF StmtsOf
  <2>1. p \in Lines /\ Inside(g, p)
    BY DEF Stmts, Body
  <2>2. pos \in Lines /\ pos \in (g + 1)..p
    BY <1>0, <1>2, <2>1
  <2>3. Depth(pos) > Depth(g)
    BY <2>1, <2>2 DEF Inside
  <2>4. Depth(pos) < k
    BY <1>6, <1>d, <2>2
  <2> QED
    BY <1>0, <1>2, <1>k, <2>2, <2>3, <2>4
<1>8. StmtsFrom(g, pos) = {}
    BY <1>7 DEF StmtsFrom
<1>9. Left(g, pos) = 0
    BY <1>8, FS_EmptySet DEF Left
<1> QED
    BY <1>2, <1>3, <1>5, <1>6, <1>9 DEF g, k
-----------------------------------------------------------------------------
(* The block a line is in. *)

LEMMA HighestIs ==
    ASSUME NEW S \in SUBSET Nat, NEW m \in S, \A q \in S : q <= m
    PROVE  Highest(S) = m
<1>1. ASSUME NEW p \in S, \A q \in S : q <= p
      PROVE  p = m
    BY <1>1
<1>2. (CHOOSE p \in S : \A q \in S : q <= p) = m
    BY <1>1
<1> QED
    BY <1>2 DEF Highest

LEMMA BlockOfNext ==
    ASSUME IInv, pos \in Lines, Depth(pos) = Len(frames)
    PROVE  BlockOf(pos) = BlockLine(frames, Len(frames))
<1>0. /\ Len(prog) \in Nat /\ Lines = 1..Len(prog) /\ Len(frames) \in Nat
    BY TreeType
<1> DEFINE k == Len(frames)
           g == BlockLine(frames, k)
           S == {0} \cup {h \in Lines : Inside(h, pos)}
<1>1. \A i \in 1..k : /\ frames[i].line \in Lines /\ frames[i].line < pos
                      /\ Depth(frames[i].line) = i - 1
                      /\ \A q \in Lines : frames[i].line < q /\ q < pos => Depth(q) >= i
  <2> TAKE i \in 1..k
  <2>1. i \in 0..Len(frames) /\ i # 0
    BY <1>0
  <2> QED
    BY <2>1, FrameLines
<1>2. \A h \in Lines : Inside(h, pos) <=> \E i \in 1..k : frames[i].line = h
  <2> TAKE h \in Lines
  <2>1. {h} \in SUBSET Lines
    OBVIOUS
  <2>2. (\E h_1 \in Lines : Inside(h_1, pos) /\ h_1 \in {h}) <=> Around({h}, frames, Len(frames))
    BY <2>1, OpenBlocksEnclose
  <2> QED
    BY <2>2 DEF Around
<1>3. g = IF k = 0 THEN 0 ELSE frames[k].line
    BY DEF BlockLine
<1>4. k \in Nat
    BY <1>0
<1> HIDE DEF k, g
<1>5. g \in S
  <2>1. CASE k = 0
    BY <1>3, <2>1
  <2>2. CASE k # 0
    <3>1. k \in 1..k
        BY <1>4, <2>2
    <3>2. g = frames[k].line
        BY <1>3, <2>2
    <3> QED
        BY <1>1, <1>2, <3>1, <3>2
  <2> QED
    BY <2>1, <2>2
<1>6. ASSUME NEW h \in S
      PROVE  h <= g
  <2>1. CASE k = 0
    <3>1. h = 0
        BY <1>2, <1>4, <2>1
    <3> QED
        BY <1>3, <2>1, <3>1
  <2>2. CASE k # 0
    <3>1. k \in 1..k /\ g = frames[k].line
        BY <1>3, <1>4, <2>2
    <3>2. g \in Lines /\ g < pos /\ \A q \in Lines : g < q /\ q < pos => Depth(q) >= k
        BY <1>1, <3>1
    <3>3. CASE h = 0
        BY <1>0, <3>2, <3>3
    <3>4. CASE h # 0
      <4>1. PICK i \in 1..k : frames[i].line = h
        BY <1>2, <3>4
      <4>2. h \in Lines /\ h < pos /\ Depth(h) = i - 1
        BY <1>1, <4>1
      <4>3. ~(g < h)
        BY <1>4, <3>2, <4>2
      <4> QED
        BY <1>0, <3>2, <4>2, <4>3
    <3> QED
        BY <3>3, <3>4
  <2> QED
    BY <2>1, <2>2
<1>7. S \in SUBSET Nat
    BY <1>0
<1> HIDE DEF S
<1>8. Highest(S) = g
    BY <1>5, <1>6, <1>7, HighestIs
<1> QED
    BY <1>8 DEF BlockOf, S, g, k

LEMMA BlockOfIs ==
    ASSUME IInv, NEW p \in Lines
    PROVE  /\ BlockOf(p) = 0 => \A h \in Lines : ~Inside(h, p)
           /\ BlockOf(p) # 0 => /\ BlockOf(p) \in Lines /\ Inside(BlockOf(p), p)
                                /\ \A h \in Lines : Inside(h, p) => h <= BlockOf(p)
<1>0. Len(prog) \in Nat /\ Lines = 1..Len(prog)
    BY TreeType
<1> DEFINE S == {0} \cup {h \in Lines : Inside(h, p)}
           T == {p - h : h \in S}
<1>1. \A h \in S : h \in Nat /\ h < p
    BY <1>0 DEF Inside
<1>2. T \in SUBSET Nat /\ T # {}
    BY <1>0, <1>1
<1>3. PICK t \in T : \A u \in T : t <= u
  <2> HIDE DEF T
  <2> QED
    BY <1>2, LeastIn
<1>4. PICK m \in S : t = p - m
    OBVIOUS
<1>5. \A h \in S : h <= m
  <2> TAKE h \in S
  <2>1. p - h \in T
    OBVIOUS
  <2>2. p - m <= p - h
    BY <1>3, <1>4, <2>1
  <2> QED
    BY <1>0, <1>1, <2>2
<1>6. Highest(S) = m
  <2>1. S \in SUBSET Nat
    BY <1>1
  <2> HIDE DEF S
  <2> QED
    BY <1>5, <2>1, HighestIs
<1>7. BlockOf(p) = m
    BY <1>6 DEF BlockOf
<1> QED
    BY <1>0, <1>1, <1>4, <1>5, <1>7

\* What the block token of h says.
BlockUnreachable(h) == UnreachableBranch(h) \/ Unreachable(h)

LEMMA UnreachableIs ==
    ASSUME IInv, NEW p \in Lines
    PROVE  Unreachable(p) <=> BlockOf(p) # 0 /\ BlockUnreachable(BlockOf(p))
<1>0. Len(prog) \in Nat /\ Lines = 1..Len(prog)
    BY TreeType
<1> DEFINE g == BlockOf(p)
<1>1. /\ g = 0 => \A h \in Lines : ~Inside(h, p)
      /\ g # 0 => g \in Lines /\ Inside(g, p) /\ \A h \in Lines : Inside(h, p) => h <= g
    BY BlockOfIs
<1> SUFFICES Unreachable(p) <=> g # 0 /\ BlockUnreachable(g)
    OBVIOUS
<1> HIDE DEF g
<1>2. ASSUME Unreachable(p)
      PROVE  g # 0 /\ BlockUnreachable(g)
  <2>1. PICK h \in Lines : Inside(h, p) /\ UnreachableBranch(h)
    BY <1>2 DEF Unreachable
  <2>2. g # 0 /\ g \in Lines /\ Inside(g, p) /\ h <= g
    BY <1>1, <2>1
  <2>3. CASE h = g
    BY <2>1, <2>2, <2>3 DEF BlockUnreachable
  <2>4. CASE h # g
    <3>1. Inside(h, g)
        BY <1>0, <2>1, <2>2, <2>4 DEF Inside
    <3> QED
        BY <2>1, <2>2, <3>1 DEF BlockUnreachable, Unreachable
  <2> QED
    BY <2>3, <2>4
<1>3. ASSUME g # 0, BlockUnreachable(g)
      PROVE  Unreachable(p)
  <2>1. g \in Lines /\ Inside(g, p)
    BY <1>1, <1>3
  <2>2. CASE UnreachableBranch(g)
    BY <2>1, <2>2 DEF Unreachable
  <2>3. CASE Unreachable(g)
    <3>1. PICK h \in Lines : Inside(h, g) /\ UnreachableBranch(h)
        BY <2>3 DEF Unreachable
    <3>2. Inside(h, p)
        BY <2>1, <3>1, InsideTransitive
    <3> QED
        BY <3>1, <3>2 DEF Unreachable
  <2> QED
    BY <1>3, <2>2, <2>3 DEF BlockUnreachable
<1> QED
    BY <1>2, <1>3
-----------------------------------------------------------------------------
(* What is left of a statement. *)

Optional == <<"optional block">>
BlockSymbol == <<"block">>
Conditioned == <<<<"expr">>, <<"block">>>>

Many(h, kinds) == Cardinality(ClausesAfter(h, kinds))

\* The location and the end of a statement, and what follows it.
Located(loc, s) == Push(loc, Push(<<"end">>, s))

Conditions(h, kinds, t) == Cat(Repeat(Many(h, kinds), Conditioned), t)
Handlers(h, t) == Cat(Repeat(Many(h, {"except"}), <<BlockSymbol>>), t)

\* The symbols expected after the block of h and what is written with it, when
\* the statement's location is loc and s follows the statement.
Rest(h, loc, s) ==
    CASE Kind(h) \in {"if", "elif"} -> Conditions(h, {"elif"}, Push(Optional, Located(loc, s)))
      [] Kind(h) \in {"match"} \cup Cases -> Conditions(h, Cases, Located(loc, s))
      [] Kind(h) = "loop" -> Push(<<"unlocated block">>, Located(loc, s))
      [] Kind(h) \in {"try", "except"} ->
           Handlers(h, Push(Optional, Push(Optional, Located(loc, s))))
      [] Kind(h) = "try_else" -> Push(Optional, Located(loc, s))
      [] OTHER -> Located(loc, s)

\* The same at the end of the block, before the number of clauses is written.
AfterBlock(h, loc, s) ==
    CASE Kind(h) = "if"  -> Push(<<"clauses">>, Push(Optional, Located(loc, s)))
      [] Kind(h) = "try" -> Push(<<"blocks">>, Push(Optional, Push(Optional, Located(loc, s))))
      [] OTHER -> Rest(h, loc, s)

LEMMA RestIs ==
    ASSUME NEW h, NEW loc, NEW s
    PROVE  /\ Kind(h) \in {"if", "elif"} =>
                Rest(h, loc, s) = Conditions(h, {"elif"}, Push(Optional, Located(loc, s)))
           /\ Kind(h) \in {"match"} \cup Cases =>
                Rest(h, loc, s) = Conditions(h, Cases, Located(loc, s))
           /\ Kind(h) = "loop" => Rest(h, loc, s) = Push(<<"unlocated block">>, Located(loc, s))
           /\ Kind(h) \in {"try", "except"} =>
                Rest(h, loc, s) = Handlers(h, Push(Optional, Push(Optional, Located(loc, s))))
           /\ Kind(h) = "try_else" => Rest(h, loc, s) = Push(Optional, Located(loc, s))
           /\ Kind(h) \in {"else", "loop_else", "finally"} \cup Funcs \cup {"class"} =>
                Rest(h, loc, s) = Located(loc, s)
<1> DEFINE l == Located(loc, s)
<1> HIDE DEF l
<1>1. Kind(h) \in {"if", "elif"} => Rest(h, loc, s) = Conditions(h, {"elif"}, Push(Optional, l))
    BY DEF Rest, Cases, l
<1>2. Kind(h) \in {"match"} \cup Cases => Rest(h, loc, s) = Conditions(h, Cases, l)
    BY DEF Rest, Cases, l
<1>3. Kind(h) = "loop" => Rest(h, loc, s) = Push(<<"unlocated block">>, l)
    BY DEF Rest, Cases, l
<1>4. Kind(h) \in {"try", "except"} => Rest(h, loc, s) = Handlers(h, Push(Optional, Push(Optional, l)))
    BY DEF Rest, Cases, l
<1>5. Kind(h) = "try_else" => Rest(h, loc, s) = Push(Optional, l)
    BY DEF Rest, Cases, l
<1>6. Kind(h) \in {"else", "loop_else", "finally"} \cup Funcs \cup {"class"} => Rest(h, loc, s) = l
    BY DEF Rest, Cases, l, Funcs
<1> QED
    BY <1>1, <1>2, <1>3, <1>4, <1>5, <1>6 DEF l

LEMMA LocatedSeq ==
    ASSUME NEW loc, NEW s, IsSeq(s)
    PROVE  /\ IsSeq(Located(loc, s))
           /\ IsSeq(Push(Optional, Located(loc, s)))
           /\ IsSeq(Push(Optional, Push(Optional, Located(loc, s))))
<1>1. IsSeq(Located(loc, s))
    BY Pushed DEF Located
<1>2. \A a, t : IsSeq(t) => IsSeq(Push(a, t))
    BY Pushed
<1> QED
    BY <1>1, <1>2

LEMMA ManySeq ==
    ASSUME IInv, HeadsInv, NEW h \in Lines, NEW kinds, NEW t, IsSeq(t)
    PROVE  /\ IsSeq(Conditions(h, kinds, t)) /\ IsSeq(Handlers(h, t))
           /\ Many(h, kinds) = 0 => Conditions(h, kinds, t) = t
           /\ Many(h, {"except"}) = 0 => Handlers(h, t) = t
<1>1. Many(h, kinds) \in Nat /\ Many(h, {"except"}) \in Nat
    BY ClausesAfterAre DEF Many
<1>2. /\ \A n \in Nat : IsSeq(Repeat(n, Conditioned)) /\ IsSeq(Repeat(n, <<BlockSymbol>>))
      /\ Repeat(0, Conditioned) = << >> /\ Repeat(0, <<BlockSymbol>>) = << >>
    BY RepeatOne, RepeatTwo DEF Conditioned
<1>3. Cat(<< >>, t) = t
    BY PushConcat
<1> QED
    BY <1>1, <1>2, <1>3, CatSeq DEF Conditions, Handlers

LEMMA RestSeq ==
    ASSUME IInv, HeadsInv, NEW h \in Lines, NEW loc, NEW s, IsSeq(s)
    PROVE  IsSeq(Rest(h, loc, s)) /\ IsSeq(AfterBlock(h, loc, s))
<1> DEFINE l == Located(loc, s)
           o == Push(Optional, l)
           p == Push(Optional, o)
<1>1. IsSeq(l) /\ IsSeq(o) /\ IsSeq(p)
    BY LocatedSeq
<1>2. \A a, t : IsSeq(t) => IsSeq(Push(a, t))
    BY Pushed
<1>3. /\ \A kinds, t : IsSeq(t) => IsSeq(Conditions(h, kinds, t)) 
      /\ \A t : IsSeq(t) => IsSeq(Handlers(h, t))
    BY ManySeq
<1> HIDE DEF l, o, p
<1>4. IsSeq(Conditions(h, {"elif"}, o)) /\ IsSeq(Conditions(h, Cases, l)) /\ IsSeq(Handlers(h, p))
      /\ IsSeq(Push(<<"unlocated block">>, l)) /\ IsSeq(Push(<<"clauses">>, o)) /\ IsSeq(Push(<<"blocks">>, p))
    BY <1>1, <1>2, <1>3
<1>5. IsSeq(Rest(h, loc, s))
    BY <1>1, <1>4, Zenon DEF Rest, l, o, p
<1> QED
    BY <1>4, <1>5, Zenon DEF AfterBlock, l, o, p

\* The number of clauses, or of handlers, of a header.
LEMMA ReadHeadCount ==
    ASSUME IInv, HeadsInv, NEW h \in Lines, NEW b, IsSeq(b), NEW loc, NEW s, IsSeq(s), NEW f,
           After(b, AfterBlock(h, loc, s), f)
    PROVE  After(Cat(b, HeadCount(h)), Rest(h, loc, s), f)
<1> DEFINE l == Located(loc, s)
           o == Push(Optional, l)
           p == Push(Optional, o)
<1>1. IsSeq(l) /\ IsSeq(o) /\ IsSeq(p)
    BY LocatedSeq
<1>2. \A x : Cat(b, <<x>>) = Append(b, x)
    BY WrittenOneByOne
<1>3. Cat(b, << >>) = b
    BY WrittenOneByOne
<1>4. CASE Kind(h) = "if"
  <2> DEFINE n == Cardinality(ClausesOf(h, {"elif"}))
  <2>1. AfterBlock(h, loc, s) = Push(<<"clauses">>, o)
    BY <1>4 DEF AfterBlock
  <2>2. HeadCount(h) = <<Num(n)>>
    BY <1>4 DEF HeadCount
  <2>3. Rest(h, loc, s) = Conditions(h, {"elif"}, o)
    BY <1>4, RestIs
  <2>4. n = Many(h, {"elif"})
    BY <1>4, ClausesOfHeader DEF Many, Clauses, Cases
  <2> HIDE DEF n, o
  <2>5. After(Append(b, Num(n)), Cat(Repeat(n, Conditioned), o), f)
    BY <1>1, <2>1, ReadCount DEF Conditioned
  <2> QED
    BY <1>2, <2>2, <2>3, <2>4, <2>5 DEF Conditions
<1>5. CASE Kind(h) = "try"
  <2> DEFINE n == Cardinality(ClausesOf(h, {"except"}))
  <2>1. AfterBlock(h, loc, s) = Push(<<"blocks">>, p)
    BY <1>5 DEF AfterBlock
  <2>2. HeadCount(h) = <<Num(n)>>
    BY <1>5 DEF HeadCount
  <2>3. Rest(h, loc, s) = Handlers(h, p)
    BY <1>5, RestIs
  <2>4. n = Many(h, {"except"})
    BY <1>5, ClausesOfHeader DEF Many, Clauses, Cases
  <2> HIDE DEF n, p
  <2>5. After(Append(b, Num(n)), Cat(Repeat(n, <<BlockSymbol>>), p), f)
    BY <1>1, <2>1, ReadCount DEF BlockSymbol
  <2> QED
    BY <1>2, <2>2, <2>3, <2>4, <2>5 DEF Handlers
<1>6. CASE Kind(h) # "if" /\ Kind(h) # "try"
  <2>1. AfterBlock(h, loc, s) = Rest(h, loc, s)
    BY <1>6 DEF AfterBlock
  <2>2. HeadCount(h) = << >>
    BY <1>6 DEF HeadCount
  <2> QED
    BY <1>3, <2>1, <2>2
<1> QED
    BY <1>4, <1>5, <1>6

\* The tokens in two parts.
LEMMA ReadParts ==
    ASSUME NEW b, IsSeq(b), NEW x, IsSeq(x), NEW y, IsSeq(y), NEW e, NEW f,
           After(Cat(Cat(b, x), y), e, f)
    PROVE  After(Cat(b, Cat(x, y)), e, f)
<1>1. Cat(Cat(b, x), y) = Cat(b, Cat(x, y))
    BY CatThree
<1> QED
    BY <1>1

LEMMA ReadEmptyBlock ==
    ASSUME NEW b, IsSeq(b), NEW rest, IsSeq(rest), NEW f, NEW p, NEW u,
           After(b, Push(BlockSymbol, rest), f)
    PROVE  After(Cat(b, EmptyBlock(p, u)), rest, f)
<1> DEFINE end == Push(<<"end">>, rest)
           b1 == Append(b, Block(0, u))
           b2 == Append(b1, Loc(p))
<1>1. IsSeq(end) /\ IsSeq(Push(<<"place">>, end))
    BY Pushed
<1>2. IsSeq(b1) /\ IsSeq(b2) /\ Cat(b, EmptyBlock(p, u)) = Append(b2, End)
  <2>1. IsSeq(b1)
    BY WrittenOneByOne
  <2> QED
    BY <2>1, WrittenOneByOne DEF EmptyBlock
<1>3. After(b1, Push(<<"place">>, end), f)
  <2>1. 0 \in Nat
    OBVIOUS
  <2> QED
    BY <2>1, ReadBlock DEF BlockSymbol
<1> HIDE DEF b1, b2
<1>4. After(Append(b1, Loc(p)), end, f)
    BY <1>1, <1>2, <1>3, ReadPlain
<1>5. After(Append(b2, End), rest, f)
    BY <1>2, <1>4, ReadPlain DEF b2
<1> QED
    BY <1>2, <1>5

LEMMA ReadLocated ==
    ASSUME NEW b, IsSeq(b), NEW s, IsSeq(s), NEW f, NEW p, NEW tag, NEW at,
           After(b, Located(<<"location", tag, at>>, s), f)
    PROVE  After(Cat(b, <<Loc(p), End>>), s, Append(f, [line |-> p, tag |-> tag, parent |-> at]))
<1> DEFINE end == Push(<<"end">>, s)
           b1 == Append(b, Loc(p))
           g == Append(f, [line |-> p, tag |-> tag, parent |-> at])
<1>1. IsSeq(end)
    BY Pushed
<1>2. IsSeq(b1) /\ Cat(b, <<Loc(p), End>>) = Append(b1, End)
    BY WrittenOneByOne
<1>3. After(b, Push(<<"location", tag, at>>, end), f)
    BY DEF Located
<1> HIDE DEF end
<1>4. After(b1, end, g)
    BY <1>1, <1>3, ReadPlain
<1> HIDE DEF b1, g
<1>5. After(Append(b1, End), s, g)
    BY <1>2, <1>4, ReadPlain DEF end
<1> QED
    BY <1>2, <1>5 DEF g

\* What is written for the parts a statement does not have.
AbsentParts(h, unreachable) ==
    CASE Kind(h) \in {"if", "elif"} ->
           IF ElseFlags(Analyzer[h]).unreachable
           THEN Cat(<<Bool(TRUE)>>, EmptyBlock(HeadOf(h), TRUE)) ELSE <<Bool(FALSE)>>
      [] Kind(h) = "loop" -> <<Block(0, unreachable), End>>
      [] Kind(h) \in {"try", "except"} -> <<Bool(FALSE), Bool(FALSE)>>
      [] Kind(h) = "try_else" -> <<Bool(FALSE)>>
      [] OTHER -> << >>

LEMMA StmtEndIs ==
    ASSUME NEW h, NEW u
    PROVE  /\ StmtEnd(h, u) = Cat(AbsentParts(h, u), <<Loc(HeadOf(h)), End>>)
           /\ IsSeq(AbsentParts(h, u)) /\ IsSeq(<<Loc(HeadOf(h)), End>>)
<1>1. StmtEnd(h, u) = Cat(AbsentParts(h, u), <<Loc(HeadOf(h)), End>>)
    BY Zenon DEF StmtEnd, AbsentParts, Cat
<1>2. /\ IsSeq(<<Bool(TRUE)>>) /\ IsSeq(<<Bool(FALSE)>>) /\ IsSeq(<<Block(0, u), End>>)
      /\ IsSeq(<<Bool(FALSE), Bool(FALSE)>>) /\ IsSeq(<< >>)
      /\ IsSeq(<<Loc(HeadOf(h)), End>>) /\ IsSeq(EmptyBlock(HeadOf(h), TRUE))
    BY ShortSeq DEF EmptyBlock
<1>3. IsSeq(Cat(<<Bool(TRUE)>>, EmptyBlock(HeadOf(h), TRUE)))
    BY <1>2, CatSeq
<1>4. IsSeq(AbsentParts(h, u))
    BY <1>2, <1>3, Zenon DEF AbsentParts
<1> QED
    BY <1>1, <1>2, <1>4

LEMMA ReadAbsent ==
    ASSUME IInv, HeadsInv, NEW h \in Lines, Kind(h) \in OpensBlock,
           \A kinds : Many(h, kinds) = 0,
           NEW b, IsSeq(b), NEW s, IsSeq(s), NEW f, NEW loc, NEW u,
           After(b, Rest(h, loc, s), f)
    PROVE  After(Cat(b, AbsentParts(h, u)), Located(loc, s), f)
<1> DEFINE l == Located(loc, s)
           o == Push(Optional, l)
           p == Push(Optional, o)
<1>1. IsSeq(l) /\ IsSeq(o) /\ IsSeq(p)
    BY LocatedSeq
<1>2. /\ Cat(b, << >>) = b
      /\ \A x : Cat(b, <<x>>) = Append(b, x) /\ IsSeq(Append(b, x))
      /\ \A x, y : Cat(b, <<x, y>>) = Append(Append(b, x), y)
    BY WrittenOneByOne
<1> SUFFICES After(Cat(b, AbsentParts(h, u)), l, f)
    OBVIOUS
<1> HIDE DEF l
<1>o. ASSUME NEW c, IsSeq(c), NEW t, IsSeq(t), After(c, Push(Optional, t), f)
      PROVE  After(Append(c, Bool(FALSE)), t, f) /\ After(Append(c, Bool(TRUE)), Push(BlockSymbol, t), f)
    BY <1>o, ReadOptional DEF Optional, BlockSymbol
<1> HIDE DEF o, p
<1>3. CASE Kind(h) \in {"if", "elif"}
  <2>1. Rest(h, loc, s) = o
    <3>1. Rest(h, loc, s) = Conditions(h, {"elif"}, o)
        BY <1>3, RestIs, ZenonT(60) DEF o, l
    <3>2. Conditions(h, {"elif"}, o) = o
        BY <1>1, ManySeq
    <3> QED
        BY <3>1, <3>2
  <2>2. After(Append(b, Bool(FALSE)), l, f) /\ After(Append(b, Bool(TRUE)), Push(BlockSymbol, l), f)
    BY <1>1, <1>o, <2>1 DEF o
  <2>3. CASE ElseFlags(Analyzer[h]).unreachable
    <3>1. AbsentParts(h, u) = Cat(<<Bool(TRUE)>>, EmptyBlock(HeadOf(h), TRUE))
        BY <1>3, <2>3, Zenon DEF AbsentParts
    <3> DEFINE x == <<Bool(TRUE)>>
               y == EmptyBlock(HeadOf(h), TRUE)
    <3>2. IsSeq(x) /\ IsSeq(y) /\ Cat(b, x) = Append(b, Bool(TRUE)) /\ IsSeq(Append(b, Bool(TRUE)))
        BY <1>2, ShortSeq DEF EmptyBlock
    <3>3. After(Cat(Append(b, Bool(TRUE)), y), l, f)
        BY <1>1, <2>2, <3>2, ReadEmptyBlock
    <3> HIDE DEF x, y
    <3>4. After(Cat(b, Cat(x, y)), l, f)
        BY <3>2, <3>3, ReadParts
    <3> QED
        BY <3>1, <3>4 DEF x, y
  <2>4. CASE ~ElseFlags(Analyzer[h]).unreachable
    <3>1. AbsentParts(h, u) = <<Bool(FALSE)>>
        BY <1>3, <2>4, Zenon DEF AbsentParts
    <3> QED
        BY <1>2, <2>2, <3>1
  <2> QED
    BY <2>3, <2>4
<1>4. CASE Kind(h) = "loop"
  <2>1. Rest(h, loc, s) = Push(<<"unlocated block">>, l)
    BY <1>4, RestIs DEF l
  <2>2. AbsentParts(h, u) = <<Block(0, u), End>>
    BY <1>4 DEF AbsentParts
  <2> DEFINE e == Push(<<"end">>, l)
             c == Append(b, Block(0, u))
  <2>3. IsSeq(e) /\ IsSeq(c) /\ 0 \in Nat
    BY <1>1, <1>2, Pushed
  <2>4. After(c, Cat(Repeat(0, <<<<"statement", Len(b) + 1>>>>), e), f)
    BY <1>1, <2>1, <2>3, ReadBlock
  <2>5. Cat(Repeat(0, <<<<"statement", Len(b) + 1>>>>), e) = e
    <3>1. Repeat(0, <<<<"statement", Len(b) + 1>>>>) = << >>
        BY RepeatOne
    <3> HIDE DEF e
    <3> QED
        BY <3>1, <2>3, PushConcat
  <2> HIDE DEF c
  <2>6. After(Append(c, End), l, f)
    BY <1>1, <2>3, <2>4, <2>5, ReadPlain
  <2> QED
    BY <1>2, <2>2, <2>6 DEF c
<1>5. CASE Kind(h) \in {"try", "except"}
  <2>1. Rest(h, loc, s) = p
    <3>1. Rest(h, loc, s) = Handlers(h, p)
        BY <1>5, RestIs DEF o, p, l
    <3>2. Handlers(h, p) = p
        BY <1>1, ManySeq
    <3> QED
        BY <3>1, <3>2
  <2>2. AbsentParts(h, u) = <<Bool(FALSE), Bool(FALSE)>>
    BY <1>5, Zenon DEF AbsentParts
  <2> DEFINE c == Append(b, Bool(FALSE))
  <2>3. IsSeq(c) /\ After(c, o, f)
    BY <1>1, <1>2, <1>o, <2>1 DEF p
  <2> HIDE DEF c
  <2>4. After(Append(c, Bool(FALSE)), l, f)
    BY <1>1, <1>o, <2>3 DEF o
  <2> QED
    BY <1>2, <2>2, <2>4 DEF c
<1>6. CASE Kind(h) = "try_else"
  <2>1. Rest(h, loc, s) = o
    BY <1>6, RestIs DEF o, l
  <2>2. AbsentParts(h, u) = <<Bool(FALSE)>>
    BY <1>6 DEF AbsentParts
  <2> QED
    BY <1>1, <1>2, <1>o, <2>1, <2>2 DEF o
<1>7. CASE Kind(h) \in Cases
  <2>1. Rest(h, loc, s) = l
    <3>1. Rest(h, loc, s) = Conditions(h, Cases, l)
        BY <1>7, RestIs DEF l
    <3>2. Conditions(h, Cases, l) = l
        BY <1>1, ManySeq
    <3> QED
        BY <3>1, <3>2
  <2>2. AbsentParts(h, u) = << >>
    BY <1>7 DEF AbsentParts, Cases
  <2> QED
    BY <1>2, <2>1, <2>2
<1>8. CASE Kind(h) \in {"else", "loop_else", "finally"} \cup Funcs \cup {"class"}
  <2>1. Rest(h, loc, s) = l
    BY <1>8, RestIs DEF l
  <2>2. AbsentParts(h, u) = << >>
    BY <1>8 DEF AbsentParts, Funcs
  <2> QED
    BY <1>2, <2>1, <2>2
<1> QED
    BY <1>3, <1>4, <1>5, <1>6, <1>7, <1>8 DEF OpensBlock, Headers, Clauses

LEMMA ReadStmtEnd ==
    ASSUME IInv, HeadsInv, NEW h \in Lines, Kind(h) \in OpensBlock,
           \A kinds : Many(h, kinds) = 0,
           NEW b, IsSeq(b), NEW s, IsSeq(s), NEW f, NEW tag, NEW at, NEW u,
           After(b, Rest(h, <<"location", tag, at>>, s), f)
    PROVE  After(Cat(b, StmtEnd(h, u)), s,
                 Append(f, [line |-> HeadOf(h), tag |-> tag, parent |-> at]))
<1> DEFINE x == AbsentParts(h, u)
           y == <<Loc(HeadOf(h)), End>>
           loc == <<"location", tag, at>>
<1>1. IsSeq(x) /\ IsSeq(y) /\ StmtEnd(h, u) = Cat(x, y)
    BY StmtEndIs
<1>2. After(Cat(b, x), Located(loc, s), f)
    BY ReadAbsent
<1>3. IsSeq(Cat(b, x))
    BY <1>1, CatSeq
<1>4. After(Cat(Cat(b, x), y), s, Append(f, [line |-> HeadOf(h), tag |-> tag, parent |-> at]))
    BY <1>2, <1>3, ReadLocated
<1> HIDE DEF x, y
<1>5. After(Cat(b, Cat(x, y)), s, Append(f, [line |-> HeadOf(h), tag |-> tag, parent |-> at]))
    BY <1>1, <1>4, ReadParts
<1> QED
    BY <1>1, <1>5
-----------------------------------------------------------------------------
(* What precedes the block of a line. *)

\* How the block of a line is expected.
BlockSymbolOf(n) == IF Kind(n) = "loop_else" THEN <<"unlocated block">> ELSE BlockSymbol

LEMMA IntroIs ==
    ASSUME NEW n
    PROVE  /\ Kind(n) \in Funcs => Intro(n) = <<Tag("func")>>
           /\ Kind(n) \in {"class", "try"} => Intro(n) = <<Tag(Kind(n))>>
           /\ Kind(n) \in {"if", "loop"} => Intro(n) = <<Tag(Kind(n)), Expr(n)>>
           /\ Kind(n) \in {"elif"} \cup Cases => Intro(n) = <<Expr(n)>>
           /\ Kind(n) \in {"else", "try_else"} => Intro(n) = <<Bool(TRUE)>>
           /\ Kind(n) = "finally" => 
                Intro(n) = IF ClausesOf(HeadOf(n), {"try_else"}) = {}
                           THEN <<Bool(FALSE), Bool(TRUE)>> ELSE <<Bool(TRUE)>>
           /\ Kind(n) \in {"loop_else", "except"} => Intro(n) = << >>
<1>1. Kind(n) \in Funcs => Intro(n) = <<Tag("func")>>
    BY DEF Intro, Funcs, Cases
<1>2. Kind(n) \in {"class", "try"} => Intro(n) = <<Tag(Kind(n))>>
    BY DEF Intro, Funcs, Cases
<1>3. Kind(n) \in {"if", "loop"} => Intro(n) = <<Tag(Kind(n)), Expr(n)>>
    BY DEF Intro, Funcs, Cases
<1>4. Kind(n) \in {"elif"} \cup Cases => Intro(n) = <<Expr(n)>>
    BY DEF Intro, Funcs, Cases
<1>5. Kind(n) \in {"else", "try_else"} => Intro(n) = <<Bool(TRUE)>>
    BY DEF Intro, Funcs, Cases
<1>6. Kind(n) \in {"loop_else", "except"} => Intro(n) = << >>
    BY DEF Intro, Funcs, Cases
<1>7. ASSUME Kind(n) = "finally"
      PROVE  Intro(n) = IF ClausesOf(HeadOf(n), {"try_else"}) = {}
                        THEN <<Bool(FALSE), Bool(TRUE)>> ELSE <<Bool(TRUE)>>
  <2> DEFINE none == ClausesOf(HeadOf(n), {"try_else"}) = {}
             yes == <<Bool(TRUE)>>
             no == <<Bool(FALSE)>>
  <2>1. Intro(n) = Cat(IF none THEN no ELSE << >>, yes)
    BY <1>7 DEF Intro, Funcs, Cases, Cat
  <2>2. Cat(<< >>, yes) = yes
    BY ShortSeq, PushConcat
  <2>3. Cat(no, yes) = <<Bool(FALSE), Bool(TRUE)>>
    BY ShortCat
  <2> HIDE DEF none, no, yes
  <2>4. Intro(n) = IF none THEN <<Bool(FALSE), Bool(TRUE)>> ELSE yes
    BY <2>1, <2>2, <2>3
  <2> QED
    BY <2>4 DEF none, yes
<1> QED
    BY <1>1, <1>2, <1>3, <1>4, <1>5, <1>6, <1>7

LEMMA IntroSeq ==
    ASSUME NEW n, Kind(n) \in OpensBlock
    PROVE  IsSeq(Intro(n))
<1>1. /\ IsSeq(<< >>) /\ \A a : IsSeq(<<a>>) /\ \A b, c : IsSeq(<<b, c>>)
    BY ShortSeq
<1>2. CASE Kind(n) = "finally"
    BY <1>1, <1>2, IntroIs
<1>3. CASE Kind(n) \in Funcs
    BY <1>1, <1>3, IntroIs
<1>4. CASE Kind(n) \in {"class", "try"}
    BY <1>1, <1>4, IntroIs
<1>5. CASE Kind(n) \in {"if", "loop"}
    BY <1>1, <1>5, IntroIs
<1>6. CASE Kind(n) \in {"elif"} \cup Cases
    BY <1>1, <1>6, IntroIs
<1>7. CASE Kind(n) \in {"else", "try_else"}
    BY <1>1, <1>7, IntroIs
<1>8. CASE Kind(n) \in {"loop_else", "except"}
    BY <1>1, <1>8, IntroIs
<1> QED
    BY <1>2, <1>3, <1>4, <1>5, <1>6, <1>7, <1>8 DEF OpensBlock, Headers, Clauses

\* A header starts a statement.
LEMMA ReadHeader ==
    ASSUME NEW n, Kind(n) \in Headers \ {"match"}, NEW b, IsSeq(b), NEW s, IsSeq(s), NEW f, NEW at,
           After(b, Push(<<"statement", at>>, s), f)
    PROVE  After(Cat(b, Intro(n)),
                 Push(BlockSymbol, AfterBlock(n, <<"location", TagOf(Kind(n)), at>>, s)), f)
<1> DEFINE name == TagOf(Kind(n))
           loc == <<"location", name, at>>
           l == Located(loc, s)
           o == Push(Optional, l)
           p == Push(Optional, o)
           b1 == Append(b, Tag(name))
<1>1. IsSeq(l) /\ IsSeq(o) /\ IsSeq(p)
    BY LocatedSeq
<1>2. IsSeq(b1) /\ Cat(b, <<Tag(name)>>) = b1 /\ Cat(b, <<Tag(name), Expr(n)>>) = Append(b1, Expr(n))
    BY WrittenOneByOne
<1>3. name # "import"
    BY DEF TagOf, Funcs, Headers, Imports
<1>4. After(b1, Cat(Parts(name), l), f)
    BY <1>3, ReadStatement DEF Located
<1> SUFFICES After(Cat(b, Intro(n)), Push(BlockSymbol, AfterBlock(n, loc, s)), f)
    OBVIOUS
<1>5. CASE Kind(n) \in Funcs \cup {"class"}
  <2>1. name = IF Kind(n) = "class" THEN "class" ELSE "func"
    BY <1>5 DEF TagOf, Funcs, Imports
  <2>2. Parts(name) = <<BlockSymbol>>
    BY <2>1 DEF Parts, BlockSymbol
  <2>3. Intro(n) = <<Tag(name)>>
    BY <1>5, <2>1, IntroIs
  <2>4. AfterBlock(n, loc, s) = l
    <3>1. AfterBlock(n, loc, s) = Rest(n, loc, s)
        BY <1>5 DEF AfterBlock, Funcs
    <3>2. Rest(n, loc, s) = l
        BY <1>5, RestIs, ZenonT(60)
    <3> QED
        BY <3>1, <3>2
  <2> HIDE DEF l, b1, name, loc
  <2>5. Cat(<<BlockSymbol>>, l) = Push(BlockSymbol, l)
    BY DEF Push
  <2> QED
    BY <1>2, <1>4, <2>2, <2>3, <2>4, <2>5
<1>6. CASE Kind(n) = "try"
  <2>1. name = "try"
    BY <1>6 DEF TagOf, Funcs, Imports
  <2>2. Parts(name) = <<BlockSymbol, <<"blocks">>, Optional, Optional>>
    BY <2>1 DEF Parts, BlockSymbol, Optional
  <2>3. Intro(n) = <<Tag(name)>>
    BY <1>6, <2>1, IntroIs
  <2>4. AfterBlock(n, loc, s) = Push(<<"blocks">>, p)
    BY <1>6 DEF AfterBlock
  <2> HIDE DEF l, b1, name, loc
  <2>5. Cat(<<BlockSymbol, <<"blocks">>, Optional, Optional>>, l) = Push(BlockSymbol, Push(<<"blocks">>, p))
    <3>1. \A a, c, d, e : Cat(<<a, c, d, e>>, l) = Push(a, Push(c, Push(d, Push(e, l))))
        BY <1>1, PushConcat
    <3> QED
        BY <3>1
  <2> HIDE DEF o, p
  <2> QED
    BY <1>2, <1>4, <2>2, <2>3, <2>4, <2>5
<1>7. CASE Kind(n) = "if"
  <2>1. name = "if"
    BY <1>7 DEF TagOf, Funcs, Imports
  <2>2. Parts(name) = <<<<"expr">>, BlockSymbol, <<"clauses">>, Optional>>
    BY <2>1 DEF Parts, BlockSymbol, Optional
  <2>3. Intro(n) = <<Tag(name), Expr(n)>>
    BY <1>7, <2>1, IntroIs
  <2>4. AfterBlock(n, loc, s) = Push(<<"clauses">>, o)
    BY <1>7 DEF AfterBlock
  <2> HIDE DEF l, b1, name, loc
  <2> DEFINE e == Push(BlockSymbol, Push(<<"clauses">>, o))
  <2>5. Cat(<<<<"expr">>, BlockSymbol, <<"clauses">>, Optional>>, l) = Push(<<"expr">>, e)
    <3>1. \A a, c, d, g : Cat(<<a, c, d, g>>, l) = Push(a, Push(c, Push(d, Push(g, l))))
        BY <1>1, PushConcat
    <3> QED
        BY <3>1
  <2>6. IsSeq(e)
    BY <1>1, Pushed
  <2> HIDE DEF e
  <2>7. After(b1, Push(<<"expr">>, e), f)
    BY <1>4, <2>2, <2>5
  <2>8. After(Append(b1, Expr(n)), e, f)
    BY <1>2, <2>6, <2>7, ReadPlain
  <2> QED
    BY <1>2, <2>3, <2>4, <2>8 DEF e
<1>8. CASE Kind(n) = "loop"
  <2>1. name = "loop"
    BY <1>8 DEF TagOf, Funcs, Imports
  <2>2. Parts(name) = <<<<"expr">>, BlockSymbol, <<"unlocated block">>>>
    BY <2>1 DEF Parts, BlockSymbol, Optional
  <2>3. Intro(n) = <<Tag(name), Expr(n)>>
    BY <1>8, <2>1, IntroIs
  <2>4. AfterBlock(n, loc, s) = Push(<<"unlocated block">>, l)
    <3>1. AfterBlock(n, loc, s) = Rest(n, loc, s)
        BY <1>8 DEF AfterBlock
    <3>2. Rest(n, loc, s) = Push(<<"unlocated block">>, l)
        BY <1>8, RestIs, ZenonT(60)
    <3> QED
        BY <3>1, <3>2
  <2> HIDE DEF l, b1, name, loc
  <2> DEFINE e == Push(BlockSymbol, Push(<<"unlocated block">>, l))
  <2>5. Cat(<<<<"expr">>, BlockSymbol, <<"unlocated block">>>>, l) = Push(<<"expr">>, e)
    <3>1. \A a, c, d : Cat(<<a, c, d>>, l) = Push(a, Push(c, Push(d, l)))
        BY <1>1, PushConcat
    <3> QED
        BY <3>1
  <2>6. IsSeq(e)
    BY <1>1, Pushed
  <2> HIDE DEF e
  <2>7. After(b1, Push(<<"expr">>, e), f)
    BY <1>4, <2>2, <2>5
  <2>8. After(Append(b1, Expr(n)), e, f)
    BY <1>2, <2>6, <2>7, ReadPlain
  <2> QED
    BY <1>2, <2>3, <2>4, <2>8 DEF e
<1> QED
    BY <1>5, <1>6, <1>7, <1>8 DEF Headers

\* A clause is the next part of its statement.
LEMMA ReadClause ==
    ASSUME IInv, HeadsInv, ClausesInv, NEW h \in Lines, NEW n \in Lines, NextAfter(h, n),
           Depth(n) = Depth(h), Kind(n) \in Clauses,
           NEW b, IsSeq(b), NEW loc, NEW s, IsSeq(s), NEW f, After(b, Rest(h, loc, s), f)
    PROVE  After(Cat(b, Intro(n)), Push(BlockSymbolOf(n), Rest(n, loc, s)), f)
<1> DEFINE l == Located(loc, s)
           o == Push(Optional, l)
           p == Push(Optional, o)
           r == Rest(n, loc, s)
<1>1. IsSeq(l) /\ IsSeq(o) /\ IsSeq(p) /\ IsSeq(r) /\ IsSeq(Push(BlockSymbol, r))
    BY LocatedSeq, RestSeq, Pushed
<1>2. /\ Cat(b, << >>) = b
      /\ \A x : Cat(b, <<x>>) = Append(b, x) /\ IsSeq(Append(b, x))
      /\ \A x, y : Cat(b, <<x, y>>) = Append(Append(b, x), y)
    BY WrittenOneByOne
<1>3. Kind(h) \in Follows(Kind(n)) /\ HeadOf(n) = HeadOf(h)
    BY ClauseNextTo
<1>o. ASSUME NEW c, IsSeq(c), NEW t, IsSeq(t), After(c, Push(Optional, t), f)
      PROVE  After(Append(c, Bool(FALSE)), t, f) /\ After(Append(c, Bool(TRUE)), Push(BlockSymbol, t), f)
    BY <1>o, ReadOptional DEF Optional, BlockSymbol
<1>m. ASSUME NEW kinds, Kind(n) \in kinds
      PROVE  Many(h, kinds) = Many(n, kinds) + 1 /\ Many(n, kinds) \in Nat
    BY <1>3, <1>m, ClausesNext, ClausesAfterAre DEF Many
<1>z. ASSUME NEW kinds, Kind(n) \notin kinds, kinds \cap Later(Kind(n)) = {}
      PROVE  Many(h, kinds) = 0
  <2>1. ClausesAfter(h, kinds) = ClausesAfter(n, kinds)
    BY <1>3, <1>z, ClausesNext
  <2>2. Cardinality(ClausesAfter(n, kinds)) = 0
    BY <1>z, NoneLater
  <2> QED
    BY <2>1, <2>2 DEF Many
\* One more of the same.
<1>c. ASSUME NEW kinds, Kind(n) \in kinds, NEW t, IsSeq(t)
      PROVE  Conditions(h, kinds, t) = Push(<<"expr">>, Push(BlockSymbol, Conditions(n, kinds, t)))
  <2> DEFINE k == Many(n, kinds)
             more == Repeat(k, Conditioned)
             tail == Push(BlockSymbol, more)
  <2>1. k \in Nat /\ Many(h, kinds) = k + 1
    BY <1>c, <1>m
  <2> HIDE DEF k
  <2>2. IsSeq(more) /\ Repeat(k + 1, Conditioned) = Push(<<"expr">>, tail)
    BY <2>1, RepeatTwo DEF Conditioned, BlockSymbol
  <2> HIDE DEF more
  <2>3. IsSeq(tail)
    BY <2>2, Pushed
  <2>4. Cat(tail, t) = Push(BlockSymbol, Cat(more, t))
    BY <1>c, <2>2, PushConcat
  <2> HIDE DEF tail
  <2>5. Cat(Push(<<"expr">>, tail), t) = Push(<<"expr">>, Cat(tail, t))
    BY <1>c, <2>3, PushConcat
  <2> QED
    BY <2>1, <2>2, <2>4, <2>5 DEF Conditions, k, more
<1>h. ASSUME Kind(n) = "except", NEW t, IsSeq(t)
      PROVE  Handlers(h, t) = Push(BlockSymbol, Handlers(n, t))
  <2> DEFINE k == Many(n, {"except"})
             more == Repeat(k, <<BlockSymbol>>)
  <2>1. k \in Nat /\ Many(h, {"except"}) = k + 1
    BY <1>h, <1>m
  <2> HIDE DEF k
  <2>2. IsSeq(more) /\ Repeat(k + 1, <<BlockSymbol>>) = Push(BlockSymbol, more)
    BY <2>1, RepeatOne
  <2> HIDE DEF more
  <2>4. Cat(Push(BlockSymbol, more), t) = Push(BlockSymbol, Cat(more, t))
    BY <1>h, <2>2, PushConcat
  <2> QED
    BY <2>1, <2>2, <2>4 DEF Handlers, k, more
\* An expression and a block.
<1>e. ASSUME Rest(h, loc, s) = Push(<<"expr">>, Push(BlockSymbol, r)), Intro(n) = <<Expr(n)>>
      PROVE  After(Cat(b, Intro(n)), Push(BlockSymbol, r), f)
  <2> DEFINE e == Push(BlockSymbol, r)
  <2>1. After(b, Push(<<"expr">>, e), f) /\ IsSeq(e)
    BY <1>1, <1>e
  <2> HIDE DEF e
  <2>2. After(Append(b, Expr(n)), e, f)
    BY <2>1, ReadPlain
  <2> QED
    BY <1>2, <1>e, <2>2 DEF e
<1> SUFFICES After(Cat(b, Intro(n)), Push(BlockSymbolOf(n), r), f)
    OBVIOUS
<1>4. CASE Kind(n) = "elif"
  <2>1. Kind(h) \in {"if", "elif"} /\ BlockSymbolOf(n) = BlockSymbol
    BY <1>3, <1>4 DEF Follows, BlockSymbolOf, Cases
  <2>2. Rest(h, loc, s) = Conditions(h, {"elif"}, o) /\ r = Conditions(n, {"elif"}, o)
    BY <1>4, <2>1, RestIs, ZenonT(60)
  <2>3. Intro(n) = <<Expr(n)>>
    BY <1>4, IntroIs
  <2> HIDE DEF o, r
  <2>4. Rest(h, loc, s) = Push(<<"expr">>, Push(BlockSymbol, r))
    BY <1>1, <1>4, <1>c, <2>2
  <2> QED
    BY <1>e, <2>1, <2>3, <2>4
<1>5. CASE Kind(n) \in Cases
  <2>1. Kind(h) \in {"match"} \cup Cases /\ BlockSymbolOf(n) = BlockSymbol
    BY <1>3, <1>5 DEF Follows, BlockSymbolOf, Cases
  <2>2. Rest(h, loc, s) = Conditions(h, Cases, l) /\ r = Conditions(n, Cases, l)
    BY <1>5, <2>1, RestIs, ZenonT(60)
  <2>3. Intro(n) = <<Expr(n)>>
    BY <1>5, IntroIs
  <2> HIDE DEF l, r
  <2>4. Rest(h, loc, s) = Push(<<"expr">>, Push(BlockSymbol, r))
    BY <1>1, <1>5, <1>c, <2>2
  <2> QED
    BY <1>e, <2>1, <2>3, <2>4
<1>6. CASE Kind(n) = "else"
  <2>1. Kind(h) \in {"if", "elif"} /\ BlockSymbolOf(n) = BlockSymbol
    BY <1>3, <1>6 DEF Follows, BlockSymbolOf, Cases
  <2>2. Many(h, {"elif"}) = 0
    <3>1. {"elif"} \cap Later(Kind(n)) = {} /\ Kind(n) \notin {"elif"}
        BY <1>6 DEF Later, Cases
    <3> QED
        BY <1>z, <3>1
  <2>3. Rest(h, loc, s) = o
    <3>1. Rest(h, loc, s) = Conditions(h, {"elif"}, o)
        BY <2>1, RestIs, ZenonT(60)
    <3>2. Conditions(h, {"elif"}, o) = o
        BY <1>1, <2>2, ManySeq
    <3> QED
        BY <3>1, <3>2
  <2>4. r = l /\ Intro(n) = <<Bool(TRUE)>>
    BY <1>6, RestIs, IntroIs, ZenonT(60)
  <2> HIDE DEF l, r
  <2>5. After(Append(b, Bool(TRUE)), Push(BlockSymbol, l), f)
    BY <1>1, <1>o, <2>3
  <2> QED
    BY <1>2, <2>1, <2>4, <2>5
<1>7. CASE Kind(n) = "loop_else"
  <2>1. Kind(h) = "loop" /\ BlockSymbolOf(n) = <<"unlocated block">>
    BY <1>3, <1>7 DEF Follows, BlockSymbolOf, Cases
  <2>2. Rest(h, loc, s) = Push(<<"unlocated block">>, l) /\ r = l /\ Intro(n) = << >>
    BY <1>7, <2>1, RestIs, IntroIs, ZenonT(60)
  <2> HIDE DEF l, r
  <2> QED
    BY <1>2, <2>1, <2>2
<1>8. CASE Kind(n) = "except"
  <2>1. Kind(h) \in {"try", "except"} /\ BlockSymbolOf(n) = BlockSymbol
    BY <1>3, <1>8 DEF Follows, BlockSymbolOf, Cases
  <2>2. Rest(h, loc, s) = Handlers(h, p) /\ r = Handlers(n, p)
    BY <1>8, <2>1, RestIs, ZenonT(60)
  <2>3. Intro(n) = << >>
    BY <1>8, IntroIs
  <2> HIDE DEF p, r
  <2>4. Rest(h, loc, s) = Push(BlockSymbol, r)
    BY <1>1, <1>8, <1>h, <2>2
  <2> QED
    BY <1>2, <2>1, <2>3, <2>4
<1>9. CASE Kind(n) = "try_else"
  <2>1. Kind(h) = "except" /\ BlockSymbolOf(n) = BlockSymbol
    BY <1>3, <1>9 DEF Follows, BlockSymbolOf, Cases
  <2>2. Many(h, {"except"}) = 0
    <3>1. {"except"} \cap Later(Kind(n)) = {} /\ Kind(n) \notin {"except"}
        BY <1>9 DEF Later, Cases
    <3> QED
        BY <1>z, <3>1
  <2>3. Rest(h, loc, s) = p
    <3>1. Rest(h, loc, s) = Handlers(h, p)
        BY <2>1, RestIs
    <3>2. Handlers(h, p) = p
        BY <1>1, <2>2, ManySeq
    <3> QED
        BY <3>1, <3>2
  <2>4. r = o /\ Intro(n) = <<Bool(TRUE)>>
    BY <1>9, RestIs, IntroIs, ZenonT(60)
  <2> HIDE DEF o, r
  <2>5. After(Append(b, Bool(TRUE)), Push(BlockSymbol, o), f)
    BY <1>1, <1>o, <2>3
  <2> QED
    BY <1>2, <2>1, <2>4, <2>5
<1>10. CASE Kind(n) = "finally"
  <2>1. Kind(h) \in {"try", "except", "try_else"} /\ BlockSymbolOf(n) = BlockSymbol
    BY <1>3, <1>10 DEF Follows, BlockSymbolOf, Cases
  <2>2. r = l /\ Intro(n) = IF Kind(h) # "try_else" THEN <<Bool(FALSE), Bool(TRUE)>> ELSE <<Bool(TRUE)>>
    BY <1>10, RestIs, IntroIs, ElseBeforeFinally
  <2>3. CASE Kind(h) = "try_else"
    <3>1. Rest(h, loc, s) = o
        BY <2>3, RestIs
    <3> HIDE DEF l, r
    <3>2. After(Append(b, Bool(TRUE)), Push(BlockSymbol, l), f)
        BY <1>1, <1>o, <3>1
    <3> QED
        BY <1>2, <2>1, <2>2, <2>3, <3>2
  <2>4. CASE Kind(h) # "try_else"
    <3>1. Many(h, {"except"}) = 0
      <4>1. {"except"} \cap Later(Kind(n)) = {} /\ Kind(n) \notin {"except"}
        BY <1>10 DEF Later, Cases
      <4> QED
        BY <1>z, <4>1
    <3>2. Rest(h, loc, s) = p
      <4>1. Rest(h, loc, s) = Handlers(h, p)
        BY <2>1, <2>4, RestIs
      <4>2. Handlers(h, p) = p
        BY <1>1, <3>1, ManySeq
      <4> QED
        BY <4>1, <4>2
    <3> DEFINE c == Append(b, Bool(FALSE))
    <3>3. After(c, o, f) /\ IsSeq(c)
        BY <1>1, <1>2, <1>o, <3>2
    <3> HIDE DEF l, r, c
    <3>4. After(Append(c, Bool(TRUE)), Push(BlockSymbol, l), f)
        BY <1>1, <1>o, <3>3
    <3> QED
        BY <1>2, <2>1, <2>2, <2>4, <3>4 DEF c
  <2> QED
    BY <2>3, <2>4
<1> QED
    BY <1>4, <1>5, <1>6, <1>7, <1>8, <1>9, <1>10 DEF Clauses
-----------------------------------------------------------------------------
(* The start of a block. *)

\* Tokens already written stay where they are.
LEMMA TokensKept ==
    ASSUME NEW b, IsSeq(b), NEW t, IsSeq(t)
    PROVE  /\ IsSeq(Cat(b, t)) /\ Len(b) \in Nat /\ Len(t) \in Nat
           /\ Len(Cat(b, t)) = Len(b) + Len(t)
           /\ \A i \in 1..Len(b) : Cat(b, t)[i] = b[i]
<1>1. PICK S : b \in Seq(S)
    BY DEF IsSeq
<1>2. PICK T : t \in Seq(T)
    BY DEF IsSeq
<1> DEFINE X == S \cup T
<1>3. b \in Seq(X) /\ t \in Seq(X)
    BY <1>1, <1>2, SeqMonotonic
<1> HIDE DEF X
<1>4. Len(b) \in Nat /\ Len(t) \in Nat
    BY <1>3, LenProperties
<1>5. /\ b \o t \in Seq(X)
      /\ Len(b \o t) = Len(b) + Len(t)
      /\ \A i \in 1..Len(b) + Len(t) : (b \o t)[i] = IF i <= Len(b) THEN b[i] ELSE t[i - Len(b)]
    BY <1>3, ConcatProperties
<1> QED
    BY <1>4, <1>5 DEF Cat, IsSeq

LEMMA ReadBlockStart ==
    ASSUME NEW n, NEW b, IsSeq(b), NEW r, IsSeq(r), NEW f, NEW u,
           IsFiniteSet(Stmts(n)), Cardinality(Stmts(n)) \in Nat,
           Kind(n) = "loop_else" => Stmts(n) # {},
           After(b, Push(BlockSymbolOf(n), r), f)
    PROVE  /\ IsSeq(BlockStart(n, u))
           /\ After(Cat(b, BlockStart(n, u)),
                    Cat(Repeat(Cardinality(Stmts(n)), <<<<"statement", Len(b) + 1>>>>),
                        Push(<<"end">>, r)), f)
           /\ Len(b) + 1 <= Len(Cat(b, BlockStart(n, u)))
           /\ Cat(b, BlockStart(n, u))[Len(b) + 1] = Block(Cardinality(Stmts(n)), u)
<1> DEFINE c == Cardinality(Stmts(n))
           token == Block(c, u)
           b1 == Append(b, token)
           end == Push(<<"end">>, r)
           sym == <<"statement", Len(b) + 1>>
           more == Repeat(c, <<sym>>)
<1>1. IsSeq(b1) /\ Len(b1) = Len(b) + 1 /\ Len(b) \in Nat /\ Cat(b, <<token>>) = b1
    BY WrittenOneByOne
<1>2. IsSeq(end)
    BY Pushed
<1>3. (c = 0) <=> Stmts(n) = {}
    BY FS_EmptySet
<1>4. b1[Len(b) + 1] = token
  <2>1. PICK S : b \in Seq(S)
    BY DEF IsSeq
  <2> DEFINE X == S \cup {token}
  <2>2. b \in Seq(X) /\ token \in X
    BY <2>1, SeqMonotonic
  <2> HIDE DEF X, token
  <2> QED
    BY <2>2, AppendProperties
<1>5. CASE Stmts(n) = {}
  <2> DEFINE loc == Loc(n)
  <2>1. BlockStart(n, u) = <<token, loc>>
    <3>1. BlockStart(n, u) = Cat(<<token>>, <<loc>>)
        BY <1>5 DEF BlockStart, Cat
    <3> HIDE DEF token, loc
    <3> QED
        BY <3>1, ShortCat
  <2>2. Kind(n) # "loop_else"
    BY <1>5
  <2>3. After(b1, Push(<<"place">>, end), f)
    <3>1. c = 0 /\ c \in Nat
        BY <1>3, <1>5
    <3>2. After(b, Push(<<"block">>, r), f)
        BY <2>2 DEF BlockSymbolOf, BlockSymbol
    <3> HIDE DEF c
    <3> QED
        BY <3>1, <3>2, ReadBlock
  <2>4. Cat(b, <<token, loc>>) = Append(b1, loc)
    BY WrittenOneByOne
  <2>5. After(Append(b1, loc), end, f)
    <3> HIDE DEF b1, end
    <3> QED
        BY <1>1, <1>2, <2>3, ReadPlain
  <2>6. Cat(more, end) = end
    <3>1. more = << >>
        BY <1>3, <1>5, RepeatOne
    <3> QED
        BY <1>2, <3>1, PushConcat
  <2>7. IsSeq(<<token, loc>>)
    BY ShortSeq
  <2>8. /\ Append(b1, loc)[Len(b) + 1] = token
        /\ Len(b) + 1 <= Len(Append(b1, loc))
    <3> HIDE DEF b1
    <3>1. /\ Append(b1, loc) = Cat(b1, <<loc>>) /\ IsSeq(<<loc>>)
          /\ Len(Append(b1, loc)) = Len(b1) + 1
        BY <1>1, WrittenOneByOne, ShortSeq
    <3>2. Len(b) + 1 \in 1..Len(b1)
        BY <1>1
    <3>3. Cat(b1, <<loc>>)[Len(b) + 1] = b1[Len(b) + 1]
        BY <1>1, <3>1, <3>2, TokensKept
    <3> QED
        BY <1>1, <1>4, <3>1, <3>3
  <2> HIDE DEF token, loc, more, end, b1
  <2>9. After(Cat(b, BlockStart(n, u)), Cat(more, end), f)
    BY <2>1, <2>4, <2>5, <2>6
  <2> QED
    BY <2>1, <2>4, <2>7, <2>8, <2>9 DEF token, more, end, c
<1>6. CASE Stmts(n) # {}
  <2>1. BlockStart(n, u) = <<token>>
    <3>1. BlockStart(n, u) = Cat(<<token>>, << >>)
        BY <1>6 DEF BlockStart, Cat
    <3>2. IsSeq(<<token>>)
        BY ShortSeq
    <3> HIDE DEF token
    <3> QED
        BY <3>1, <3>2, WrittenOneByOne
  <2>2. After(b1, Cat(more, end), f)
    <3>1. c # 0 /\ c \in Nat
        BY <1>3, <1>6
    <3>2. CASE Kind(n) = "loop_else"
        <4>1. After(b, Push(<<"unlocated block">>, r), f)
            BY <3>2 DEF BlockSymbolOf
        <4> HIDE DEF c
        <4> QED
            BY <3>1, <4>1, ReadBlock
    <3>3. CASE Kind(n) # "loop_else"
        <4>1. After(b, Push(<<"block">>, r), f)
            BY <3>3 DEF BlockSymbolOf, BlockSymbol
        <4> HIDE DEF c
        <4> QED
            BY <3>1, <4>1, ReadBlock
    <3> QED
        BY <3>2, <3>3
  <2>3. IsSeq(<<token>>) /\ Len(b) + 1 <= Len(b1)
    BY <1>1, ShortSeq
  <2> HIDE DEF token, more, end, b1
  <2>4. After(Cat(b, BlockStart(n, u)), Cat(more, end), f)
    BY <1>1, <2>1, <2>2
  <2> QED
    BY <1>1, <1>4, <2>1, <2>3, <2>4 DEF token, more, end, c
<1> QED
    BY <1>5, <1>6
-----------------------------------------------------------------------------
(* The blocks around a statement and its clauses. *)

\* A clause is in the block its statement is in.
LEMMA SameBlock ==
    ASSUME IInv, HeadsInv, ClausesInv, NEW h \in Lines
    PROVE  BlockOf(HeadOf(h)) = BlockOf(h)
<1>0. /\ Len(prog) \in Nat /\ Lines = 1..Len(prog)
      /\ \A q \in Lines : Depth(q) \in Nat
    BY TreeType
<1> DEFINE p == HeadOf(h)
<1>1. p \in Lines /\ p <= h /\ Depth(p) = Depth(h)
    BY HeadIs
<1>2. \A r \in Lines : p <= r /\ r <= h => Depth(r) >= Depth(h)
    BY HeadEncloses
<1> HIDE DEF p
<1>3. ASSUME NEW g \in Lines
      PROVE  Inside(g, p) <=> Inside(g, h)
  <2>1. ASSUME Inside(g, p)
        PROVE  Inside(g, h)
    <3>1. g < p /\ \A q \in (g + 1)..p : Depth(q) > Depth(g)
        BY <2>1 DEF Inside
    <3>2. p \in (g + 1)..p
        BY <1>0, <1>1, <3>1
    <3>3. ASSUME NEW q \in (g + 1)..h
          PROVE  Depth(q) > Depth(g)
      <4>1. CASE q <= p
        BY <1>0, <1>1, <3>1, <4>1
      <4>2. CASE q > p
        <5>1. q \in Lines /\ p <= q /\ q <= h
            BY <1>0, <1>1, <4>2
        <5>2. Depth(q) >= Depth(h) /\ Depth(p) > Depth(g)
            BY <1>2, <3>1, <3>2, <5>1
        <5> QED
            BY <1>0, <1>1, <5>1, <5>2
      <4> QED
        BY <1>0, <1>1, <4>1, <4>2
    <3> QED
        BY <1>0, <1>1, <3>1, <3>3 DEF Inside
  <2>2. ASSUME Inside(g, h)
        PROVE  Inside(g, p)
    <3>1. g < h /\ \A q \in (g + 1)..h : Depth(q) > Depth(g)
        BY <2>2 DEF Inside
    <3>2. Depth(h) > Depth(g)
        BY <1>0, <3>1
    <3>3. g < p
        BY <1>0, <1>1, <1>2, <3>1, <3>2
    <3> QED
        BY <1>0, <1>1, <3>1, <3>3 DEF Inside
  <2> QED
    BY <2>1, <2>2
<1>4. {g \in Lines : Inside(g, p)} = {g \in Lines : Inside(g, h)}
    BY <1>3
<1> QED
    BY <1>4 DEF BlockOf, p

\* The block around an open block is the next one out.
LEMMA BlockOfFrame ==
    ASSUME IInv, NEW i \in 1..Len(frames)
    PROVE  BlockOf(frames[i].line) = BlockLine(frames, i - 1)
<1>0. /\ Len(prog) \in Nat /\ Lines = 1..Len(prog) /\ Len(frames) \in Nat
      /\ \A q \in Lines : Depth(q) \in Nat
    BY TreeType
<1> DEFINE h == frames[i].line
           g == BlockLine(frames, i - 1)
           S == {0} \cup {q \in Lines : Inside(q, h)}
<1>1. h \in Lines /\ h < pos /\ Depth(h) = i - 1
  <2>1. i \in 0..Len(frames) /\ i # 0
    BY <1>0
  <2> QED
    BY <2>1, FrameLines DEF BlockLine
<1>2. /\ g = 0 <=> i = 1
      /\ i # 1 => /\ g \in Lines /\ g < pos /\ Depth(g) = i - 2
                  /\ \A q \in Lines : g < q /\ q < pos => Depth(q) >= i - 1
  <2>1. i - 1 \in 0..Len(frames) /\ (i - 1) - 1 = i - 2
    BY <1>0
  <2> QED
    BY <2>1, FrameLines
<1>3. \A q \in Lines : h < q /\ q < pos => Depth(q) >= i
  <2>1. i \in 0..Len(frames) /\ i # 0
    BY <1>0
  <2> QED
    BY <2>1, FrameLines DEF BlockLine
<1> HIDE DEF h, g
<1>4. i # 1 => g < h /\ Inside(g, h)
  <2> SUFFICES ASSUME i # 1
               PROVE  g < h /\ Inside(g, h)
    OBVIOUS
  <2>1. g < h
    BY <1>0, <1>1, <1>2, <1>3, TreeType DEF IInv, TypeInv
  <2>2. ASSUME NEW q \in (g + 1)..h
        PROVE  Depth(q) > Depth(g)
    <3>1. q \in Lines /\ g < q /\ q < pos /\ g \in Lines /\ Depth(g) = i - 2
        BY <1>0, <1>1, <1>2, <2>1, TreeType
    <3>2. Depth(q) >= i - 1
        BY <1>2, <3>1
    <3> QED
        BY <1>0, <3>1, <3>2
  <2> QED
    BY <2>1, <2>2 DEF Inside
<1>5. g \in S
    BY <1>2, <1>4
<1>6. ASSUME NEW q \in S
      PROVE  q <= g
  <2>1. CASE q = 0
    BY <1>0, <1>2, <2>1
  <2>2. CASE q \in Lines /\ Inside(q, h)
    <3>1. q < h /\ Depth(h) > Depth(q) /\ \A r \in (q + 1)..h : Depth(r) > Depth(q)
        BY <1>0, <1>1, <2>2 DEF Inside
    <3>2. i # 1
        BY <1>0, <1>1, <2>2, <3>1
    <3>3. ~(g < q)
        BY <1>0, <1>1, <1>2, <2>2, <3>1, <3>2, TreeType
    <3> QED
        BY <1>0, <1>2, <2>2, <3>2, <3>3
  <2> QED
    BY <2>1, <2>2
<1>7. S \in SUBSET Nat
    BY <1>0
<1> HIDE DEF S
<1>8. Highest(S) = g
    BY <1>5, <1>6, <1>7, HighestIs
<1> QED
    BY <1>8 DEF S, BlockOf, h, g
-----------------------------------------------------------------------------
(* What is expected in the open blocks. *)

\* The location of the statement of h, when the block token of line g is at place[g].
LocOf(h, place) == <<"location", TagOf(Kind(HeadOf(h))), place[BlockOf(HeadOf(h))]>>

\* What follows the statements of the i-th of the open blocks, and exp[i] what is
\* expected from the next of them on.
Base(exp, place, fs, i) ==
    IF i = 0 THEN << >>
    ELSE Push(<<"end">>, AfterBlock(fs[i].line, LocOf(fs[i].line, place), exp[i - 1]))

Level(exp, place, fs, n, i) ==
    Cat(Repeat(Left(BlockLine(fs, i), n), <<<<"statement", place[BlockLine(fs, i)]>>>>),
        Base(exp, place, fs, i))

Stack(exp, place, fs, n) ==
    \A i \in 0..Len(fs) : IsSeq(exp[i]) /\ exp[i] = Level(exp, place, fs, n, i)

LEMMA BaseSeq ==
    ASSUME IInv, HeadsInv, NEW exp, NEW place, NEW n, Stack(exp, place, frames, n),
           NEW i \in 0..Len(frames)
    PROVE  IsSeq(Base(exp, place, frames, i))
<1>0. Len(frames) \in Nat
    BY TreeType
<1>1. CASE i = 0
    BY <1>1, ShortSeq DEF Base
<1>2. CASE i # 0
  <2> DEFINE h == frames[i].line
             loc == LocOf(h, place)
             s == exp[i - 1]
  <2>1. h \in Lines
    BY <1>2, FrameLines
  <2>2. IsSeq(s)
    <3>1. i - 1 \in 0..Len(frames)
        BY <1>0, <1>2
    <3> QED
        BY <3>1 DEF Stack
  <2>3. Base(exp, place, frames, i) = Push(<<"end">>, AfterBlock(h, loc, s))
    BY <1>2 DEF Base
  <2> HIDE DEF h, loc, s
  <2>4. IsSeq(AfterBlock(h, loc, s))
    BY <2>1, <2>2, RestSeq
  <2> QED
    BY <2>3, <2>4, Pushed
<1> QED
    BY <1>1, <1>2

\* A statement of the innermost block passed, with all that is below it.
LEMMA StackPassed ==
    ASSUME IInv, HeadsInv, pos \in Lines, pos <= stop, Depth(pos) = Len(frames),
           NEW n \in Nat, pos < n, \A q \in Lines : pos < q /\ q < n => Depth(q) > Len(frames),
           NEW exp, NEW place, Stack(exp, place, frames, pos)
    PROVE  /\ Kind(pos) \in Clauses => Stack(exp, place, frames, n)
           /\ Kind(pos) \notin Clauses =>
                \E e : /\ Stack(e, place, frames, n)
                       /\ IsSeq(e[Len(frames)])
                       /\ exp[Len(frames)] =
                            Push(<<"statement", place[BlockLine(frames, Len(frames))]>>,
                                 e[Len(frames)])
<1>0. Len(frames) \in Nat
    BY TreeType
<1>1. ASSUME NEW i \in 0..Len(frames), ~(i = Len(frames) /\ Kind(pos) \notin Clauses)
      PROVE  Level(exp, place, frames, n, i) = exp[i] /\ IsSeq(exp[i])
  <2>1. Left(BlockLine(frames, i), pos) = Left(BlockLine(frames, i), n)
    BY <1>1, StmtsPassed
  <2> QED
    BY <2>1 DEF Level, Stack
<1>2. CASE Kind(pos) \in Clauses
    BY <1>1, <1>2 DEF Stack
<1>3. CASE Kind(pos) \notin Clauses
  <2> DEFINE k == Len(frames)
             g == BlockLine(frames, k)
             sym == <<"statement", place[g]>>
             base == Base(exp, place, frames, k)
             x == Cat(Repeat(Left(g, n), <<sym>>), base)
             e == [i \in 0..k |-> IF i = k THEN x ELSE exp[i]]
  <2>1. k \in 0..Len(frames) /\ k \in Nat
    BY <1>0
  <2>2. Left(g, pos) = Left(g, n) + 1 /\ Left(g, n) \in Nat
    BY <1>3, <2>1, StmtsPassed, StmtsAre
  <2>3. IsSeq(base)
    BY <2>1, BaseSeq
  <2>4. exp[k] = Cat(Repeat(Left(g, pos), <<sym>>), base)
    BY <2>1 DEF Stack, Level
  <2>5. IsSeq(x) /\ exp[k] = Push(sym, x)
    <3> DEFINE left == Left(g, n)
               more == Repeat(left, <<sym>>)
    <3>1. left \in Nat /\ exp[k] = Cat(Repeat(left + 1, <<sym>>), base)
        BY <2>2, <2>4
    <3> HIDE DEF left, sym, base
    <3>2. IsSeq(more) /\ Repeat(left + 1, <<sym>>) = Push(sym, more)
        BY <3>1, RepeatOne
    <3> HIDE DEF more
    <3>3. Cat(Push(sym, more), base) = Push(sym, Cat(more, base)) /\ IsSeq(Cat(more, base))
        BY <2>3, <3>2, PushConcat, CatSeq
    <3> QED
        BY <3>1, <3>2, <3>3 DEF more, left
  <2>6. \A i \in 0..k : Base(e, place, frames, i) = Base(exp, place, frames, i)
    <3> HIDE DEF x
    <3> TAKE i \in 0..k
    <3>1. i # 0 => e[i - 1] = exp[i - 1]
        BY <2>1
    <3> HIDE DEF e
    <3> QED
        BY <3>1 DEF Base
  <2>7. e[k] = x /\ \A i \in 0..k : i # k => e[i] = exp[i]
    BY <2>1
  <2>8. Level(e, place, frames, n, k) = x
    BY <2>1, <2>6 DEF Level
  <2> HIDE DEF e, x, k
  <2>9. ASSUME NEW i \in 0..k
        PROVE  IsSeq(e[i]) /\ e[i] = Level(e, place, frames, n, i)
    <3>1. CASE i = k
        BY <2>5, <2>7, <2>8, <3>1
    <3>2. CASE i # k
      <4>1. e[i] = exp[i]
        BY <2>7, <3>2
      <4>2. Level(exp, place, frames, n, i) = exp[i] /\ IsSeq(exp[i])
        BY <1>1, <3>2 DEF k
      <4>3. Level(e, place, frames, n, i) = Level(exp, place, frames, n, i)
        BY <2>6 DEF Level
      <4> QED
        BY <4>1, <4>2, <4>3
    <3> QED
        BY <3>1, <3>2
  <2>10. Stack(e, place, frames, n) /\ IsSeq(e[k]) /\ exp[k] = Push(sym, e[k])
    BY <2>5, <2>7, <2>9 DEF Stack, k
  <2> QED
    BY <1>3, <2>10 DEF k
<1> QED
    BY <1>2, <1>3

\* The place of the next line's block is not one the open blocks know.
LEMMA LocPlaced ==
    ASSUME IInv, HeadsInv, NEW h \in Lines, h <= pos, NEW place, NEW place2,
           \A x \in Nat : x # pos => place2[x] = place[x]
    PROVE  LocOf(h, place2) = LocOf(h, place)
<1>0. /\ Len(prog) \in Nat /\ Lines = 1..Len(prog) /\ pos \in Nat
    BY TreeType
<1> DEFINE p == HeadOf(h)
           g == BlockOf(p)
<1>1. p \in Lines /\ p <= h
    BY HeadIs
<1> HIDE DEF p
<1>2. g = 0 \/ (g \in Lines /\ Inside(g, p))
    BY <1>1, BlockOfIs
<1> HIDE DEF g
<1>3. g \in Nat /\ g # pos
    BY <1>0, <1>1, <1>2 DEF Inside
<1> QED
    BY <1>3 DEF LocOf, g, p

LEMMA StackPlaced ==
    ASSUME IInv, HeadsInv, pos \in Lines, NEW place, NEW place2,
           \A x \in Nat : x # pos => place2[x] = place[x],
           NEW exp, NEW n, Stack(exp, place, frames, n)
    PROVE  Stack(exp, place2, frames, n)
<1>0. /\ Len(prog) \in Nat /\ Lines = 1..Len(prog) /\ pos \in Nat /\ Len(frames) \in Nat
    BY TreeType
<1> SUFFICES ASSUME NEW i \in 0..Len(frames)
             PROVE  Level(exp, place2, frames, n, i) = Level(exp, place, frames, n, i)
    BY DEF Stack
<1> DEFINE g == BlockLine(frames, i)
<1>1. g \in Nat /\ g # pos
  <2>1. (g = 0 <=> i = 0) /\ (i # 0 => g \in Lines /\ g < pos)
    BY FrameLines
  <2> QED
    BY <1>0, <2>1
<1>2. place2[g] = place[g]
    BY <1>1
<1>3. Base(exp, place2, frames, i) = Base(exp, place, frames, i)
  <2>1. CASE i = 0
    BY <2>1 DEF Base
  <2>2. CASE i # 0
    <3> DEFINE h == frames[i].line
    <3>1. h \in Lines /\ h <= pos
        BY <1>0, <2>2, FrameLines
    <3> HIDE DEF h
    <3>2. LocOf(h, place2) = LocOf(h, place)
        BY <3>1, LocPlaced
    <3> QED
        BY <3>2 DEF Base, h
  <2> QED
    BY <2>1, <2>2
<1> QED
    BY <1>2, <1>3 DEF Level

\* A block opened: its statements are expected, and then the rest of its own.
LEMMA StackOpened ==
    ASSUME IInv, HeadsInv, pos \in Lines, NEW exp, NEW place,
           Stack(exp, place, frames, pos + 1), NEW fr \in Frame, fr.line = pos
    PROVE  \E e : /\ Stack(e, place, Append(frames, fr), pos + 1)
                  /\ e[Len(frames) + 1] =
                       Cat(Repeat(Cardinality(Stmts(pos)), <<<<"statement", place[pos]>>>>),
                           Push(<<"end">>, AfterBlock(pos, LocOf(pos, place), exp[Len(frames)])))
<1>0. /\ Len(prog) \in Nat /\ Lines = 1..Len(prog) /\ pos \in Nat /\ Len(frames) \in Nat
      /\ frames \in Seq(Frame)
    BY TreeType DEF IInv, TypeInv
<1> DEFINE k == Len(frames)
           fs == Append(frames, fr)
           loc == LocOf(pos, place)
           count == Cardinality(Stmts(pos))
           more == Repeat(count, <<<<"statement", place[pos]>>>>)
           s == exp[k]
           base == Push(<<"end">>, AfterBlock(pos, loc, s))
           y == Cat(more, base)
           e == [i \in 0..(k + 1) |-> IF i = k + 1 THEN y ELSE exp[i]]
<1>1. /\ Len(fs) = k + 1 /\ fs[k + 1] = fr
      /\ \A i \in 1..k : fs[i] = frames[i]
    BY <1>0, AppendProperties
<1>2. IsSeq(y)
  <2>1. IsSeq(s)
    BY <1>0 DEF Stack
  <2> HIDE DEF s
  <2>2. IsSeq(AfterBlock(pos, loc, s))
    BY <2>1, RestSeq
  <2>3. IsSeq(base)
    BY <2>2, Pushed
  <2>4. IsSeq(more)
    <3>1. count \in Nat
        BY StmtsOpened
    <3> HIDE DEF count
    <3> QED
        BY <3>1, RepeatOne
  <2> HIDE DEF base, more
  <2> QED
    BY <2>3, <2>4, CatSeq
<1>3. Left(pos, pos + 1) = count
    BY StmtsOpened
<1> HIDE DEF fs
<1>4. e[k + 1] = y /\ \A i \in 0..k : e[i] = exp[i]
    BY <1>0
<1>5. Level(e, place, fs, pos + 1, k + 1) = y
  <2>1. BlockLine(fs, k + 1) = pos /\ fs[k + 1].line = pos /\ k + 1 # 0
    BY <1>0, <1>1 DEF BlockLine
  <2>2. e[(k + 1) - 1] = s
    BY <1>0, <1>4
  <2> HIDE DEF e
  <2>3. Base(e, place, fs, k + 1) = base
    BY <2>1, <2>2 DEF Base
  <2> QED
    BY <1>3, <2>1, <2>3 DEF Level
<1> HIDE DEF e, y, k
<1>6. ASSUME NEW i \in 0..k
      PROVE  Level(e, place, fs, pos + 1, i) = Level(exp, place, frames, pos + 1, i)
  <2>1. i # 0 => fs[i] = frames[i] /\ e[i - 1] = exp[i - 1]
    BY <1>0, <1>1, <1>4 DEF k
  <2>2. BlockLine(fs, i) = BlockLine(frames, i)
    BY <2>1 DEF BlockLine
  <2>3. Base(e, place, fs, i) = Base(exp, place, frames, i)
    BY <2>1 DEF Base
  <2> QED
    BY <2>2, <2>3 DEF Level
<1>7. ASSUME NEW i \in 0..Len(fs)
      PROVE  IsSeq(e[i]) /\ e[i] = Level(e, place, fs, pos + 1, i)
  <2>1. CASE i = k + 1
    BY <1>2, <1>4, <1>5, <2>1
  <2>2. CASE i # k + 1
    <3>1. i \in 0..k
        BY <1>0, <1>1, <2>2 DEF k
    <3>2. IsSeq(exp[i]) /\ exp[i] = Level(exp, place, frames, pos + 1, i)
        BY <3>1 DEF Stack, k
    <3> QED
        BY <1>4, <1>6, <3>1, <3>2
  <2> QED
    BY <2>1, <2>2
<1>8. Stack(e, place, fs, pos + 1) /\ e[k + 1] = y
    BY <1>4, <1>7 DEF Stack
<1> QED
    BY <1>8 DEF fs, y, k

\* A block closed: the rest of its statement is expected.
LEMMA StackClosed ==
    ASSUME IInv, HeadsInv, frames # << >>, NEW exp, NEW place, Stack(exp, place, frames, pos),
           Left(frames[Len(frames)].line, pos) = 0
    PROVE  LET h == frames[Len(frames)].line
           IN /\ exp[Len(frames)] =
                   Push(<<"end">>, AfterBlock(h, LocOf(h, place), exp[Len(frames) - 1]))
              /\ IsSeq(exp[Len(frames) - 1])
              /\ Stack(exp, place, SubSeq(frames, 1, Len(frames) - 1), pos)
<1>0. Len(frames) \in Nat /\ frames \in Seq(Frame) /\ Len(frames) # 0
    BY TreeType, EmptySeq DEF IInv, TypeInv
<1> DEFINE k == Len(frames)
           fs == SubSeq(frames, 1, k - 1)
           h == frames[k].line
           base == Base(exp, place, frames, k)
<1>1. k \in 0..Len(frames) /\ k - 1 \in 0..Len(frames) /\ k # 0
    BY <1>0
<1>2. Len(fs) = k - 1 /\ \A i \in 1..(k - 1) : fs[i] = frames[i]
  <2>1. \A i \in 1..(k - 1) : frames[i] \in Frame
    BY <1>0
  <2>2. /\ Len(fs) = IF 1 <= k - 1 THEN (k - 1) - 1 + 1 ELSE 0
        /\ \A i \in 1..((k - 1) - 1 + 1) : fs[i] = frames[1 + i - 1]
    BY <1>0, <2>1, SubSeqProperties
  <2>3. k \in Nat /\ k # 0
    BY <1>0
  <2> HIDE DEF fs, k
  <2>4. Len(fs) = k - 1
    BY <2>2, <2>3
  <2>5. ASSUME NEW i \in 1..(k - 1)
        PROVE  fs[i] = frames[i]
    <3>1. i \in 1..((k - 1) - 1 + 1) /\ 1 + i - 1 = i
        BY <2>3
    <3> QED
        BY <2>2, <3>1
  <2> QED
    BY <2>4, <2>5
<1>3. BlockLine(frames, k) = h
    BY <1>1 DEF BlockLine
<1>4. exp[k] = base
  <2>1. IsSeq(base)
    BY <1>1, BaseSeq
  <2>2. exp[k] = Cat(Repeat(0, <<<<"statement", place[h]>>>>), base)
    BY <1>1, <1>3 DEF Stack, Level
  <2> HIDE DEF base
  <2>3. Repeat(0, <<<<"statement", place[h]>>>>) = << >>
    BY RepeatOne
  <2> QED
    BY <2>1, <2>2, <2>3, PushConcat
<1>5. base = Push(<<"end">>, AfterBlock(h, LocOf(h, place), exp[k - 1]))
    BY <1>1 DEF Base
<1>6. IsSeq(exp[k - 1])
    BY <1>1 DEF Stack
<1> HIDE DEF fs
<1>7. ASSUME NEW i \in 0..Len(fs)
      PROVE  IsSeq(exp[i]) /\ exp[i] = Level(exp, place, fs, pos, i)
  <2>1. i \in 0..Len(frames) /\ (i # 0 => fs[i] = frames[i])
    BY <1>0, <1>2
  <2>2. BlockLine(fs, i) = BlockLine(frames, i)
    BY <2>1 DEF BlockLine
  <2>3. Base(exp, place, fs, i) = Base(exp, place, frames, i)
    BY <2>1 DEF Base
  <2>4. IsSeq(exp[i]) /\ exp[i] = Level(exp, place, frames, pos, i)
    BY <2>1 DEF Stack
  <2> QED
    BY <2>2, <2>3, <2>4 DEF Level
<1>8. Stack(exp, place, fs, pos)
    BY <1>7 DEF Stack
<1> QED
    BY <1>4, <1>5, <1>6, <1>8 DEF fs
-----------------------------------------------------------------------------
(* The statements found and the blocks known. *)

\* An entry for a statement whose block is known by place.
FoundAt(p, place) == [line |-> p, tag |-> TagOf(Kind(p)), parent |-> place[BlockOf(p)]]

\* Exactly the statements E are found, each once, in blocks of the lines O.
Found(f, place, O, E) ==
    /\ IsSeq(f)
    /\ \A i \in 1..Len(f) : f[i].line \in E /\ f[i] = FoundAt(f[i].line, place)
    /\ \A i, j \in 1..Len(f) : f[i].line = f[j].line => i = j
    /\ \A p \in E : BlockOf(p) \in O \cup {0} /\ \E i \in 1..Len(f) : f[i].line = p

\* The block tokens of the lines O, in tokens b that tell of the lines before n.
Places(place, O, n, b) ==
    /\ place \in [Nat -> Nat]
    /\ place[0] = 0
    /\ O \subseteq Lines
    /\ \A h \in O : /\ h < n
                    /\ place[h] \in 1..Len(b)
                    /\ b[place[h]][1] = "block"
                    /\ b[place[h]][3] <=> BlockUnreachable(h)
    /\ \A g, h \in O : place[g] = place[h] => g = h

LEMMA FoundOne ==
    ASSUME NEW f, NEW place, NEW O, NEW E, Found(f, place, O, E),
           NEW p, p \notin E, BlockOf(p) \in O \cup {0}
    PROVE  Found(Append(f, FoundAt(p, place)), place, O, E \cup {p})
<1> DEFINE x == FoundAt(p, place)
           g == Append(f, x)
<1>1. x.line = p
    BY DEF FoundAt
<1>2. x = FoundAt(x.line, place)
    BY <1>1
<1>3. PICK S : f \in Seq(S)
    BY DEF Found, IsSeq
<1> HIDE DEF x
<1> DEFINE X == S \cup {x}
<1>4. f \in Seq(X) /\ x \in X
    BY <1>3, SeqMonotonic
<1> HIDE DEF X
<1>5. /\ g \in Seq(X) /\ Len(g) = Len(f) + 1 /\ Len(f) \in Nat
      /\ \A i \in 1..Len(f) : g[i] = f[i]
      /\ g[Len(f) + 1] = x
    BY <1>4, AppendProperties, LenProperties
<1>6. \A i \in 1..Len(g) : i = Len(f) + 1 \/ i \in 1..Len(f)
    BY <1>5
<1> HIDE DEF g
<1>7. IsSeq(g)
    BY <1>5 DEF IsSeq
<1>8. ASSUME NEW i \in 1..Len(g)
      PROVE  g[i].line \in E \cup {p} /\ g[i] = FoundAt(g[i].line, place)
  <2>1. CASE i = Len(f) + 1
    BY <1>1, <1>2, <1>5, <2>1
  <2>2. CASE i \in 1..Len(f)
    BY <1>5, <2>2 DEF Found
  <2> QED
    BY <1>6, <2>1, <2>2
<1>9. ASSUME NEW i \in 1..Len(g), NEW j \in 1..Len(g), g[i].line = g[j].line
      PROVE  i = j
  <2>1. \A k \in 1..Len(f) : g[k].line \in E
    BY <1>5 DEF Found
  <2>2. g[Len(f) + 1].line = p
    BY <1>1, <1>5
  <2>3. CASE i \in 1..Len(f) /\ j \in 1..Len(f)
    BY <1>5, <1>9, <2>3 DEF Found
  <2> QED
    BY <1>6, <1>9, <2>1, <2>2, <2>3
<1>10. ASSUME NEW q \in E \cup {p}
       PROVE  BlockOf(q) \in O \cup {0} /\ \E i \in 1..Len(g) : g[i].line = q
  <2>1. CASE q = p
    <3>1. Len(f) + 1 \in 1..Len(g) /\ g[Len(f) + 1].line = p
        BY <1>1, <1>5
    <3> QED
        BY <2>1, <3>1
  <2>2. CASE q \in E
    <3>1. PICK i \in 1..Len(f) : f[i].line = q
        BY <2>2 DEF Found
    <3>2. i \in 1..Len(g) /\ g[i].line = q
        BY <1>5, <3>1
    <3> QED
        BY <2>2, <3>2 DEF Found
  <2> QED
    BY <2>1, <2>2
<1>11. Found(g, place, O, E \cup {p})
    BY <1>7, <1>8, <1>9, <1>10 DEF Found
<1> QED
    BY <1>11 DEF g, x

\* Another block known.
LEMMA FoundPlaced ==
    ASSUME NEW f, NEW place, NEW O, NEW E, Found(f, place, O, E), NEW n \in Nat, n # 0, n \notin O,
           O \subseteq Nat, NEW place2, \A x \in Nat : x # n => place2[x] = place[x]
    PROVE  Found(f, place2, O \cup {n}, E)
<1>1. \A p \in E : FoundAt(p, place2) = FoundAt(p, place)
  <2> TAKE p \in E
  <2>1. BlockOf(p) \in O \cup {0}
    BY DEF Found
  <2>2. BlockOf(p) \in Nat /\ BlockOf(p) # n
    <3> DEFINE g == BlockOf(p)
    <3>1. g \in O \cup {0}
        BY <2>1
    <3> HIDE DEF g
    <3>2. g \in Nat /\ g # n
        BY <3>1
    <3> QED
        BY <3>2 DEF g
  <2> QED
    BY <2>2 DEF FoundAt
<1> QED
    BY <1>1 DEF Found

\* More tokens.
LEMMA PlacesKept ==
    ASSUME NEW place, NEW O, NEW n \in Nat, NEW m \in Nat, n <= m, Len(prog) \in Nat,
           NEW b, IsSeq(b), NEW t, IsSeq(t), Places(place, O, n, b)
    PROVE  Places(place, O, m, Cat(b, t))
<1>1. /\ Len(b) \in Nat /\ Len(t) \in Nat
      /\ Len(Cat(b, t)) = Len(b) + Len(t)
      /\ \A i \in 1..Len(b) : Cat(b, t)[i] = b[i]
    BY TokensKept
<1>2. ASSUME NEW h \in O
      PROVE  /\ h < m
             /\ place[h] \in 1..Len(Cat(b, t))
             /\ Cat(b, t)[place[h]] = b[place[h]]
  <2>1. h \in Nat /\ h < n /\ place[h] \in 1..Len(b)
    BY DEF Places, Lines
  <2> QED
    BY <1>1, <2>1
<1> QED
    BY <1>2 DEF Places

LEMMA PlaceOneMore ==
    ASSUME NEW place \in [Nat -> Nat], NEW n \in Nat, NEW k \in Nat
    PROVE  LET place2 == [place EXCEPT ![n] = k]
           IN /\ place2 \in [Nat -> Nat] /\ place2[n] = k
              /\ \A x \in Nat : x # n => place2[x] = place[x]
OBVIOUS

\* One more block token, the one just written.
LEMMA PlacesOpened ==
    ASSUME NEW place, NEW O, NEW n \in Lines, NEW b, NEW k \in Nat, k < Len(b), Len(b) \in Nat,
           NEW c, IsSeq(c), k = Len(c), Places(place, O, n, c),
           \A i \in 1..k : b[i] = c[i],
           NEW count, NEW u \in BOOLEAN, b[k + 1] = Block(count, u), u <=> BlockUnreachable(n),
           Len(prog) \in Nat
    PROVE  Places([place EXCEPT ![n] = k + 1], O \cup {n}, n + 1, b)
<1> DEFINE place2 == [place EXCEPT ![n] = k + 1]
<1>1. /\ place \in [Nat -> Nat] /\ place[0] = 0 /\ O \subseteq Lines /\ n \in Nat /\ n # 0
  <2>1. n \in Nat /\ n # 0
    BY DEF Lines
  <2> QED
    BY <2>1 DEF Places
<1>2. /\ place2 \in [Nat -> Nat] /\ place2[n] = k + 1
      /\ \A x \in Nat : x # n => place2[x] = place[x]
  <2>1. k + 1 \in Nat
    OBVIOUS
  <2> QED
    BY <1>1, <2>1, PlaceOneMore, ZenonT(60)
<1> HIDE DEF place2
<1>3. \A h \in O : h \in Nat /\ h < n /\ place[h] \in 1..k
    BY DEF Places, Lines
<1>4. ASSUME NEW h \in O
      PROVE  /\ h < n + 1 /\ place2[h] = place[h] /\ place2[h] \in 1..Len(b)
             /\ b[place2[h]][1] = "block"
             /\ b[place2[h]][3] <=> BlockUnreachable(h)
  <2>1. h \in Nat /\ h < n /\ place[h] \in 1..k /\ place2[h] = place[h]
    BY <1>1, <1>2, <1>3
  <2>2. b[place2[h]] = c[place[h]]
    BY <2>1
  <2>3. c[place[h]][1] = "block" /\ (c[place[h]][3] <=> BlockUnreachable(h))
    BY DEF Places
  <2>4. h < n + 1 /\ place2[h] \in 1..Len(b)
    BY <1>1, <2>1
  <2> QED
    BY <2>1, <2>2, <2>3, <2>4
<1>5. /\ n < n + 1 /\ place2[n] \in 1..Len(b)
      /\ b[place2[n]][1] = "block"
      /\ b[place2[n]][3] <=> BlockUnreachable(n)
  <2>1. Block(count, u)[1] = "block" /\ Block(count, u)[3] = u
    BY DEF Block
  <2>2. n < n + 1 /\ place2[n] \in 1..Len(b)
    <3>1. k + 1 \in 1..Len(b)
        OBVIOUS
    <3> QED
        BY <1>1, <1>2, <3>1
  <2>3. b[place2[n]] = Block(count, u)
    BY <1>2
  <2> QED
    BY <2>1, <2>2, <2>3
<1>6. ASSUME NEW g \in O \cup {n}, NEW h \in O \cup {n}, place2[g] = place2[h]
      PROVE  g = h
  <2>1. \A x \in O : place2[x] = place[x] /\ place2[x] # k + 1
    BY <1>3, <1>4
  <2>2. CASE g \in O /\ h \in O
    BY <1>6, <2>1, <2>2 DEF Places
  <2> QED
    BY <1>2, <1>6, <2>1, <2>2
<1>7. place2[0] = 0 /\ O \cup {n} \subseteq Lines
    BY <1>1, <1>2
<1>8. Places(place2, O \cup {n}, n + 1, b)
    BY <1>2, <1>4, <1>5, <1>6, <1>7 DEF Places
<1> QED
    BY <1>8 DEF place2
-----------------------------------------------------------------------------
(* The reader, at a step of the walk. *)

\* The statements whose blocks are open.
Heads(fs) == {HeadOf(fs[i].line) : i \in 1..Len(fs)}

\* The statement that ended its block at n goes on with a clause.
ClauseNext(fs, n) == n \in Lines /\ n <= stop /\ Depth(n) = Len(fs) /\ Kind(n) \in Clauses

OpenHeads(fs, n) == Heads(fs) \cup (IF ClauseNext(fs, n) THEN {HeadOf(n)} ELSE {})

\* The statements before n that are written.
Whole(n) == {p \in EmittedLines : p < n /\ Kind(p) \notin Clauses}

Expected(exp, place, fs, n) ==
    IF ClauseNext(fs, n) THEN Rest(Previous(n), LocOf(n, place), exp[Len(fs)])
    ELSE exp[Len(fs)]

\* After the tokens b, which the walk has written when the blocks fs are open and
\* n is its next line, all statements but the open ones are found.
StreamWith(place, O, exp, f, fs, n, b) ==
    /\ IsSeq(b)
    /\ Places(place, O, n, b)
    /\ \A i \in 1..Len(fs) : fs[i].line \in O
    /\ Stack(exp, place, fs, n)
    /\ OpenHeads(fs, n) \subseteq Whole(n)
    /\ Found(f, place, O, Whole(n) \ OpenHeads(fs, n))
    /\ After(b, Expected(exp, place, fs, n), f)

StreamState(fs, n, b) == \E place, O, exp, f : StreamWith(place, O, exp, f, fs, n, b)

\* The innermost block is known.
LEMMA InnermostKnown ==
    ASSUME IInv, pos \in Lines, Depth(pos) = Len(frames),
           NEW O, \A i \in 1..Len(frames) : frames[i].line \in O
    PROVE  BlockOf(pos) = BlockLine(frames, Len(frames)) /\ BlockOf(pos) \in O \cup {0}
<1>1. BlockOf(pos) = BlockLine(frames, Len(frames))
    BY BlockOfNext
<1>2. Len(frames) \in Nat
    BY TreeType
<1>3. BlockLine(frames, Len(frames)) \in O \cup {0}
    BY <1>2 DEF BlockLine
<1> QED
    BY <1>1, <1>3

\* A statement written whole.
LEMMA StatementPassed ==
    ASSUME IInv, HeadsInv, pos \in EmittedLines, pos <= stop, Depth(pos) = Len(frames),
           Kind(pos) \notin Clauses,
           NEW n \in Nat, NextAfter(pos, n), \A q \in EmittedLines : ~(pos < q /\ q < n),
           ~ClauseNext(frames, n),
           NEW tokens, IsSeq(tokens), StreamState(frames, pos, bytes),
           \A at, x, f : IsSeq(x) /\ After(bytes, Push(<<"statement", at>>, x), f)
              => After(Cat(bytes, tokens), x,
                       Append(f, [line |-> pos, tag |-> TagOf(Kind(pos)), parent |-> at]))
    PROVE  StreamState(frames, n, Cat(bytes, tokens))
<1>0. /\ Len(prog) \in Nat /\ Lines = 1..Len(prog) /\ pos \in Nat /\ Len(frames) \in Nat
      /\ pos \in Lines /\ EmittedLines \subseteq Nat
    BY TreeType DEF EmittedLines
<1> DEFINE k == Len(frames)
           g == BlockLine(frames, k)
           b == Cat(bytes, tokens)
<1>1. PICK place, O, exp, f : StreamWith(place, O, exp, f, frames, pos, bytes)
    BY DEF StreamState
<1>2. pos < n /\ \A q \in Lines : pos < q /\ q < n => Depth(q) > Len(frames)
  <2>1. pos < n /\ \A q \in (pos + 1)..(n - 1) : Depth(q) > Depth(pos)
    BY DEF NextAfter
  <2> QED
    BY <1>0, <2>1
<1>3. ~ClauseNext(frames, pos)
    BY DEF ClauseNext
<1>4. OpenHeads(frames, pos) = Heads(frames) /\ OpenHeads(frames, n) = Heads(frames)
    BY <1>3 DEF OpenHeads
<1>5. Whole(n) = Whole(pos) \cup {pos} /\ pos \notin Whole(pos)
  <2>1. \A q \in EmittedLines : q < n <=> q < pos \/ q = pos
    BY <1>0, <1>2
  <2>2. ~(pos < pos)
    BY <1>0
  <2> QED
    BY <2>1, <2>2 DEF Whole
<1>6. Stack(exp, place, frames, pos)
    BY <1>1 DEF StreamWith
<1>7. PICK e : /\ Stack(e, place, frames, n) /\ IsSeq(e[k])
               /\ exp[k] = Push(<<"statement", place[g]>>, e[k])
    BY <1>0, <1>2, <1>6, StackPassed
<1>8. \A i \in 1..Len(frames) : frames[i].line \in O
    BY <1>1 DEF StreamWith
<1>9. BlockOf(pos) = g /\ BlockOf(pos) \in O \cup {0}
    BY <1>0, <1>8, InnermostKnown
<1>10. After(bytes, Push(<<"statement", place[g]>>, e[k]), f)
  <2>1. After(bytes, Expected(exp, place, frames, pos), f)
    BY <1>1 DEF StreamWith
  <2>2. Expected(exp, place, frames, pos) = exp[k]
    BY <1>3 DEF Expected
  <2> QED
    BY <1>7, <2>1, <2>2
<1> DEFINE f2 == Append(f, FoundAt(pos, place))
<1>11. After(b, e[k], f2)
  <2>1. FoundAt(pos, place) = [line |-> pos, tag |-> TagOf(Kind(pos)), parent |-> place[g]]
    BY <1>9 DEF FoundAt
  <2> HIDE DEF g, k
  <2> QED
    BY <1>7, <1>10, <2>1
<1>12. Expected(e, place, frames, n) = e[k]
    BY DEF Expected
<1>13. Found(f2, place, O, Whole(n) \ Heads(frames))
  <2> DEFINE E == Whole(pos) \ Heads(frames)
  <2>1. Found(f, place, O, E)
    BY <1>1, <1>4 DEF StreamWith
  <2>2. Heads(frames) \subseteq Whole(pos)
    BY <1>1, <1>4 DEF StreamWith
  <2>3. pos \notin E /\ Whole(n) \ Heads(frames) = E \cup {pos}
    BY <1>5, <2>2
  <2> HIDE DEF E
  <2> QED
    BY <1>9, <2>1, <2>3, FoundOne
<1>14. Heads(frames) \subseteq Whole(n)
    BY <1>1, <1>4, <1>5 DEF StreamWith
<1>15. IsSeq(b) /\ Places(place, O, n, b)
  <2>1. IsSeq(bytes) /\ Places(place, O, pos, bytes) /\ pos <= n
    BY <1>0, <1>1, <1>2 DEF StreamWith
  <2> QED
    BY <1>0, <2>1, CatSeq, PlacesKept
<1> HIDE DEF f2, b, g, k
<1>16. StreamWith(place, O, e, f2, frames, n, b)
    BY <1>4, <1>7, <1>8, <1>11, <1>12, <1>13, <1>14, <1>15 DEF StreamWith
<1> QED
    BY <1>16 DEF StreamState, b

\* The line written for a statement is not that of another that is open.
LEMMA HeadsDiffer ==
    ASSUME IInv, HeadsInv
    PROVE  \A i \in 1..Len(frames) : /\ frames[i].line \in Lines /\ frames[i].line < pos
                                     /\ HeadOf(frames[i].line) \in Lines
                                     /\ Depth(HeadOf(frames[i].line)) = i - 1
<1>0. Len(frames) \in Nat
    BY TreeType
<1> TAKE i \in 1..Len(frames)
<1>1. i \in 0..Len(frames) /\ i # 0
    BY <1>0
<1>2. frames[i].line \in Lines /\ frames[i].line < pos /\ Depth(frames[i].line) = i - 1
    BY <1>1, FrameLines
<1> QED
    BY <1>2, HeadIs

\* The else of a loop has statements.
LEMMA LoopElseHasBody ==
    ASSUME IInv, HeadsInv, ClausesInv, TreeInv, phase # "parse", pos \in Lines,
           Kind(pos) = "loop_else"
    PROVE  Stmts(pos) # {}
<1>0. /\ Len(prog) \in Nat /\ Lines = 1..Len(prog) /\ pos \in Nat
      /\ \A q \in Lines : Depth(q) \in Nat
    BY TreeType
<1> DEFINE n == pos + 1
<1>1. Kind(pos) \in NeedsBody
    BY DEF NeedsBody
<1>2. n \in Lines
  <2>1. pos # Len(prog)
    BY <1>0, <1>1 DEF TreeInv
  <2> QED
    BY <1>0, <2>1
<1>3. Depth(n) = Depth(pos) + 1
    BY <1>1, <1>2 DEF TreeInv
<1> HIDE DEF n
<1>4. n = pos + 1 /\ Depth(n) > Depth(pos)
    BY <1>0, <1>3 DEF n
<1>5. Kind(n) \notin Clauses
    BY <1>2, <1>4, NoClauseBelow
<1>6. Inside(pos, n)
    BY <1>0, <1>4 DEF Inside
<1> QED
    BY <1>2, <1>3, <1>5, <1>6 DEF Stmts, Body

\* A block opened, after what precedes it.
LEMMA BlockOpened ==
    ASSUME IInv, HeadsInv, ClausesInv, TreeInv, phase # "parse",
           pos \in EmittedLines, Depth(pos) = Len(frames), pos <= stop, Kind(pos) \in OpensBlock,
           NEW fr \in Frame, fr.line = pos,
           NEW place, NEW O, NEW f, IsSeq(bytes), Places(place, O, pos, bytes),
           \A i \in 1..Len(frames) : frames[i].line \in O,
           OpenHeads(frames, pos) \subseteq Whole(pos),
           Found(f, place, O, Whole(pos) \ OpenHeads(frames, pos)),
           NEW exp, Stack(exp, place, frames, pos + 1),
           After(Cat(bytes, Intro(pos)),
                 Push(BlockSymbolOf(pos),
                      AfterBlock(pos, LocOf(pos, place), exp[Len(frames)])), f),
           NEW u \in BOOLEAN, u <=> BlockUnreachable(pos)
    PROVE  StreamState(Append(frames, fr), pos + 1,
                       Cat(bytes, Cat(Intro(pos), BlockStart(pos, u))))
<1>0. /\ Len(prog) \in Nat /\ Lines = 1..Len(prog) /\ pos \in Nat /\ Len(frames) \in Nat
      /\ pos \in Lines /\ EmittedLines \subseteq Nat /\ frames \in Seq(Frame)
      /\ \A q \in Lines : Depth(q) \in Nat
    BY TreeType DEF EmittedLines, IInv, TypeInv
<1> DEFINE k == Len(frames)
           fs == Append(frames, fr)
           b1 == Cat(bytes, Intro(pos))
           b2 == Cat(b1, BlockStart(pos, u))
           m == Len(b1)
           place2 == [place EXCEPT ![pos] = m + 1]
           count == Cardinality(Stmts(pos))
           s == exp[k]
           r == AfterBlock(pos, LocOf(pos, place), s)
<1>1. IsSeq(Intro(pos)) /\ IsSeq(b1) /\ m \in Nat
    BY IntroSeq, TokensKept
<1>2. IsSeq(s) /\ IsSeq(r)
  <2>1. IsSeq(s)
    BY <1>0 DEF Stack
  <2> HIDE DEF s
  <2> QED
    BY <1>0, <2>1, RestSeq
<1>3. /\ IsSeq(BlockStart(pos, u))
      /\ After(b2, Cat(Repeat(count, <<<<"statement", m + 1>>>>), Push(<<"end">>, r)), f)
      /\ m + 1 <= Len(b2)
      /\ b2[m + 1] = Block(count, u)
  <2>1. /\ IsFiniteSet(Stmts(pos)) /\ Cardinality(Stmts(pos)) \in Nat
        /\ Kind(pos) = "loop_else" => Stmts(pos) # {}
    BY <1>0, StmtsOpened, LoopElseHasBody
  <2>2. After(b1, Push(BlockSymbolOf(pos), r), f)
    OBVIOUS
  <2> HIDE DEF b1, r
  <2> QED
    BY <1>1, <1>2, <2>1, <2>2, ReadBlockStart
<1>4. /\ IsSeq(b2) /\ Len(b2) \in Nat /\ \A i \in 1..m : b2[i] = b1[i]
      /\ b2 = Cat(bytes, Cat(Intro(pos), BlockStart(pos, u)))
  <2>1. /\ IsSeq(b2) /\ \A i \in 1..m : b2[i] = b1[i]
    BY <1>1, <1>3, TokensKept
  <2>2. Len(b2) \in Nat
    BY <2>1, WrittenOneByOne
  <2>3. b2 = Cat(bytes, Cat(Intro(pos), BlockStart(pos, u)))
    BY <1>1, <1>3, CatThree
  <2> QED
    BY <2>1, <2>2, <2>3
<1>5. Places(place, O, pos, b1)
    BY <1>0, <1>1, PlacesKept
<1> HIDE DEF b1, b2, m
<1>6. Places(place2, O \cup {pos}, pos + 1, b2)
  <2>1. m < Len(b2) /\ m = Len(b1)
    BY <1>1, <1>3, <1>4 DEF m
  <2> QED
    BY <1>0, <1>1, <1>3, <1>4, <1>5, <2>1, PlacesOpened
<1>7. /\ place \in [Nat -> Nat] /\ O \subseteq Lines /\ \A h \in O : h < pos
    BY DEF Places
<1>8. /\ place2[pos] = m + 1
      /\ \A x \in Nat : x # pos => place2[x] = place[x]
  <2>1. m + 1 \in Nat
    BY <1>1
  <2> QED
    BY <1>0, <1>7, <2>1, PlaceOneMore
<1> HIDE DEF place2
<1>9. Stack(exp, place2, frames, pos + 1)
    BY <1>0, <1>8, StackPlaced
<1>10. LocOf(pos, place2) = LocOf(pos, place)
  <2>1. pos <= pos
    BY <1>0
  <2> QED
    BY <1>0, <1>8, <2>1, LocPlaced
<1>11. PICK e : /\ Stack(e, place2, fs, pos + 1)
                /\ e[k + 1] = Cat(Repeat(count, <<<<"statement", place2[pos]>>>>),
                                  Push(<<"end">>, AfterBlock(pos, LocOf(pos, place2), s)))
    BY <1>0, <1>9, StackOpened
<1>12. After(b2, e[k + 1], f)
    BY <1>3, <1>8, <1>10, <1>11
<1>13. /\ Len(fs) = k + 1 /\ fs[k + 1] = fr
       /\ \A i \in 1..k : fs[i] = frames[i]
    BY <1>0, AppendProperties
<1> HIDE DEF fs, b2, s, r, count
<1>14. ASSUME NEW i \in 1..Len(fs)
       PROVE  i = k + 1 \/ i \in 1..k
    BY <1>0, <1>13
<1>15. \A i \in 1..Len(fs) : fs[i].line \in O \cup {pos}
    BY <1>13, <1>14
<1>16. ~ClauseNext(fs, pos + 1)
  <2> SUFFICES ASSUME pos + 1 \in Lines, Depth(pos + 1) = Len(fs)
               PROVE  Kind(pos + 1) \notin Clauses
    BY DEF ClauseNext
  <2> DEFINE n == pos + 1
  <2>1. n \in Lines /\ n = pos + 1 /\ Depth(n) > Depth(pos)
    BY <1>0, <1>13
  <2> HIDE DEF n
  <2>2. Kind(n) \notin Clauses
    BY <1>0, <2>1, NoClauseBelow
  <2> QED
    BY <2>2 DEF n
<1>17. OpenHeads(fs, pos + 1) = Heads(frames) \cup {HeadOf(pos)}
  <2>1. OpenHeads(fs, pos + 1) = Heads(fs)
    BY <1>16 DEF OpenHeads
  <2>2. ASSUME NEW x
        PROVE  x \in Heads(fs) <=> x \in Heads(frames) \cup {HeadOf(pos)}
    <3>1. ASSUME x \in Heads(fs)
          PROVE  x \in Heads(frames) \cup {HeadOf(pos)}
      <4>1. PICK i \in 1..Len(fs) : x = HeadOf(fs[i].line)
        BY <3>1 DEF Heads
      <4> QED
        BY <1>13, <1>14, <4>1 DEF Heads
    <3>2. ASSUME x \in Heads(frames)
          PROVE  x \in Heads(fs)
      <4>1. PICK i \in 1..k : x = HeadOf(frames[i].line)
        BY <3>2 DEF Heads
      <4>2. i \in 1..Len(fs) /\ x = HeadOf(fs[i].line)
        BY <1>0, <1>13, <4>1
      <4> QED
        BY <4>2 DEF Heads
    <3>3. HeadOf(pos) \in Heads(fs)
      <4>1. k + 1 \in 1..Len(fs)
        BY <1>0, <1>13
      <4> QED
        BY <1>13, <4>1 DEF Heads
    <3> QED
        BY <3>1, <3>2, <3>3
  <2> QED
    BY <2>1, <2>2
<1>18. /\ Whole(pos + 1) \ OpenHeads(fs, pos + 1) = Whole(pos) \ OpenHeads(frames, pos)
       /\ OpenHeads(fs, pos + 1) \subseteq Whole(pos + 1)
  <2>1. \A q \in EmittedLines : q < pos + 1 <=> q < pos \/ q = pos
    BY <1>0
  <2>2. ~(pos < pos)
    BY <1>0
  <2>3. CASE Kind(pos) \in Clauses
    <3>1. Whole(pos + 1) = Whole(pos)
        BY <2>1, <2>3 DEF Whole
    <3>2. OpenHeads(frames, pos) = Heads(frames) \cup {HeadOf(pos)}
        BY <1>0, <2>3 DEF OpenHeads, ClauseNext
    <3> QED
        BY <1>17, <3>1, <3>2
  <2>4. CASE Kind(pos) \notin Clauses
    <3>1. Whole(pos + 1) = Whole(pos) \cup {pos} /\ pos \notin Whole(pos)
        BY <2>1, <2>2, <2>4 DEF Whole
    <3>2. OpenHeads(frames, pos) = Heads(frames)
        BY <2>4 DEF OpenHeads, ClauseNext
    <3>3. HeadOf(pos) = pos
        BY <1>0, <2>4, HeadKnown
    <3> QED
        BY <1>17, <3>1, <3>2, <3>3
  <2> QED
    BY <2>3, <2>4
<1>19. Found(f, place2, O \cup {pos}, Whole(pos + 1) \ OpenHeads(fs, pos + 1))
  <2> DEFINE E == Whole(pos) \ OpenHeads(frames, pos)
  <2>1. Found(f, place, O, E)
    OBVIOUS
  <2> HIDE DEF E
  <2>2. pos # 0 /\ pos \notin O /\ O \subseteq Nat
    <3>1. pos # 0 /\ ~(pos < pos)
        BY <1>0
    <3>2. O \subseteq Nat
        BY <1>0, <1>7
    <3> QED
        BY <1>7, <3>1, <3>2
  <2>3. Found(f, place2, O \cup {pos}, E)
    BY <1>0, <1>8, <2>1, <2>2, FoundPlaced
  <2> QED
    BY <1>18, <2>3 DEF E
<1>20. Expected(e, place2, fs, pos + 1) = e[k + 1]
    BY <1>13, <1>16 DEF Expected
<1>21. StreamWith(place2, O \cup {pos}, e, f, fs, pos + 1, b2)
    BY <1>4, <1>6, <1>11, <1>12, <1>15, <1>18, <1>19, <1>20 DEF StreamWith
<1> QED
    BY <1>4, <1>21 DEF StreamState, fs

\* A header starts a statement and opens its block.
LEMMA HeaderOpened ==
    ASSUME IInv, HeadsInv, ClausesInv, TreeInv, phase # "parse",
           pos \in EmittedLines, Depth(pos) = Len(frames), pos <= stop,
           Kind(pos) \in Headers \ {"match"}, NEW fr \in Frame, fr.line = pos,
           NEW u \in BOOLEAN, u <=> BlockUnreachable(pos), StreamState(frames, pos, bytes)
    PROVE  StreamState(Append(frames, fr), pos + 1,
                       Cat(bytes, Cat(Intro(pos), BlockStart(pos, u))))
<1>0. /\ pos \in Lines /\ pos \in Nat /\ pos + 1 \in Nat /\ pos < pos + 1 /\ Len(frames) \in Nat
      /\ \A q \in Lines : ~(pos < q /\ q < pos + 1)
    BY TreeType DEF EmittedLines
<1> DEFINE k == Len(frames)
           g == BlockLine(frames, k)
<1>1. PICK place, O, exp, f : StreamWith(place, O, exp, f, frames, pos, bytes)
    BY DEF StreamState
<1>2. Kind(pos) \notin Clauses /\ Kind(pos) \in OpensBlock /\ Kind(pos) # "loop_else"
    BY DEF Headers, Funcs, Clauses, Cases, OpensBlock
<1>3. /\ IsSeq(bytes) /\ Places(place, O, pos, bytes)
      /\ \A i \in 1..Len(frames) : frames[i].line \in O
      /\ Stack(exp, place, frames, pos)
      /\ OpenHeads(frames, pos) \subseteq Whole(pos)
      /\ Found(f, place, O, Whole(pos) \ OpenHeads(frames, pos))
      /\ After(bytes, Expected(exp, place, frames, pos), f)
    BY <1>1 DEF StreamWith
<1>4. PICK e : /\ Stack(e, place, frames, pos + 1) /\ IsSeq(e[k])
               /\ exp[k] = Push(<<"statement", place[g]>>, e[k])
  <2> DEFINE n == pos + 1
  <2>1. n \in Nat /\ pos < n /\ \A q \in Lines : pos < q /\ q < n => Depth(q) > Len(frames)
    BY <1>0
  <2> HIDE DEF n
  <2>2. \E e : /\ Stack(e, place, frames, n) /\ IsSeq(e[k])
               /\ exp[k] = Push(<<"statement", place[g]>>, e[k])
    BY <1>0, <1>2, <1>3, <2>1, StackPassed
  <2> QED
    BY <2>2 DEF n
<1>5. Expected(exp, place, frames, pos) = exp[k]
    BY <1>2 DEF Expected, ClauseNext
<1>6. LocOf(pos, place) = <<"location", TagOf(Kind(pos)), place[g]>>
  <2>1. HeadOf(pos) = pos
    BY <1>0, <1>2, HeadKnown
  <2>2. BlockOf(pos) = g
    BY <1>0, BlockOfNext
  <2> QED
    BY <2>1, <2>2 DEF LocOf
<1>7. After(Cat(bytes, Intro(pos)), Push(BlockSymbol, AfterBlock(pos, LocOf(pos, place), e[k])), f)
  <2> DEFINE s == e[k]
             at == place[g]
  <2>1. IsSeq(s) /\ After(bytes, Push(<<"statement", at>>, s), f)
    BY <1>3, <1>4, <1>5
  <2> HIDE DEF s, at
  <2>2. After(Cat(bytes, Intro(pos)),
              Push(BlockSymbol, AfterBlock(pos, <<"location", TagOf(Kind(pos)), at>>, s)), f)
    BY <1>3, <2>1, ReadHeader
  <2> QED
    BY <1>6, <2>2 DEF s, at
<1>8. BlockSymbolOf(pos) = BlockSymbol
    BY <1>2 DEF BlockSymbolOf
<1> HIDE DEF g
<1> QED
    BY <1>2, <1>3, <1>4, <1>7, <1>8, BlockOpened

\* A clause opens another block of its statement.
LEMMA ClauseOpened ==
    ASSUME IInv, HeadsInv, ClausesInv, TreeInv, phase # "parse",
           pos \in EmittedLines, Depth(pos) = Len(frames), pos <= stop,
           Kind(pos) \in Clauses, NEW fr \in Frame, fr.line = pos,
           NEW u \in BOOLEAN, u <=> BlockUnreachable(pos), StreamState(frames, pos, bytes)
    PROVE  StreamState(Append(frames, fr), pos + 1,
                       Cat(bytes, Cat(Intro(pos), BlockStart(pos, u))))
<1>0. /\ pos \in Lines /\ pos \in Nat /\ pos + 1 \in Nat /\ pos < pos + 1 /\ Len(frames) \in Nat
      /\ \A q \in Lines : ~(pos < q /\ q < pos + 1)
      /\ Len(prog) \in Nat /\ Lines = 1..Len(prog)
    BY TreeType DEF EmittedLines
<1> DEFINE k == Len(frames)
           h == Previous(pos)
           loc(place) == LocOf(pos, place)
<1>1. PICK place, O, exp, f : StreamWith(place, O, exp, f, frames, pos, bytes)
    BY DEF StreamState
<1>2. Kind(pos) \in OpensBlock /\ Kind(pos) \notin {"if", "try"}
    BY DEF Headers, Funcs, Clauses, Cases, OpensBlock
<1>3. /\ IsSeq(bytes) /\ Places(place, O, pos, bytes)
      /\ \A i \in 1..Len(frames) : frames[i].line \in O
      /\ Stack(exp, place, frames, pos)
      /\ OpenHeads(frames, pos) \subseteq Whole(pos)
      /\ Found(f, place, O, Whole(pos) \ OpenHeads(frames, pos))
      /\ After(bytes, Expected(exp, place, frames, pos), f)
    BY <1>1 DEF StreamWith
<1>4. Stack(exp, place, frames, pos + 1)
  <2>1. \A q \in Lines : pos < q /\ q < pos + 1 => Depth(q) > Len(frames)
    BY <1>0
  <2> QED
    BY <1>0, <1>3, <2>1, StackPassed
<1>5. Expected(exp, place, frames, pos) = Rest(h, LocOf(pos, place), exp[k])
    BY <1>0 DEF Expected, ClauseNext
<1>6. h \in Lines /\ NextAfter(h, pos) /\ Depth(pos) = Depth(h)
    BY <1>0, ClauseAfter DEF Precedes, NextAfter
<1>7. After(Cat(bytes, Intro(pos)),
            Push(BlockSymbolOf(pos), AfterBlock(pos, LocOf(pos, place), exp[k])), f)
  <2> DEFINE s == exp[k]
             at == LocOf(pos, place)
  <2>1. IsSeq(s) /\ After(bytes, Rest(h, at, s), f)
    BY <1>0, <1>3, <1>5 DEF Stack
  <2> HIDE DEF s, at, h
  <2>2. After(Cat(bytes, Intro(pos)), Push(BlockSymbolOf(pos), Rest(pos, at, s)), f)
    BY <1>0, <1>3, <1>6, <2>1, ReadClause
  <2>3. AfterBlock(pos, at, s) = Rest(pos, at, s)
    BY <1>2 DEF AfterBlock
  <2> QED
    BY <2>2, <2>3 DEF s, at
<1> HIDE DEF h
<1> QED
    BY <1>2, <1>3, <1>4, <1>7, BlockOpened

\* A block ends, and with its last block its statement.
LEMMA BlockEnded ==
    ASSUME IInv, GetattrInv, EffectsInv, ClausesInv, FrameKinds, phase # "parse",
           frames # << >>, pos <= stop => Depth(pos) < Len(frames),
           NEW u, StreamState(frames, pos, bytes)
    PROVE  LET h == frames[Len(frames)].line
           IN StreamState(SubSeq(frames, 1, Len(frames) - 1), pos,
                          Cat(bytes, Cat(Cat(<<End>>, HeadCount(h)),
                                         IF Continues THEN << >> ELSE StmtEnd(h, u))))
<1>0. /\ Len(prog) \in Nat /\ Lines = 1..Len(prog) /\ pos \in Nat /\ Len(frames) \in Nat
      /\ pos \in 1..(Len(prog) + 1) /\ stop \in 0..Len(prog)
      /\ frames \in Seq(Frame) /\ Len(frames) # 0
      /\ \A q \in Lines : Depth(q) \in Nat
    BY TreeType, EmptySeq DEF IInv, TypeInv
<1>h. HeadsInv
    BY DEF EffectsInv
<1> DEFINE k == Len(frames)
           h == frames[k].line
           fs == SubSeq(frames, 1, k - 1)
           p == HeadOf(h)
<1>1. PICK place, O, exp, f : StreamWith(place, O, exp, f, frames, pos, bytes)
    BY DEF StreamState
<1>2. /\ IsSeq(bytes) /\ Places(place, O, pos, bytes)
      /\ \A i \in 1..Len(frames) : frames[i].line \in O
      /\ Stack(exp, place, frames, pos)
      /\ OpenHeads(frames, pos) \subseteq Whole(pos)
      /\ Found(f, place, O, Whole(pos) \ OpenHeads(frames, pos))
      /\ After(bytes, Expected(exp, place, frames, pos), f)
    BY <1>1 DEF StreamWith
<1>3. ~ClauseNext(frames, pos)
    BY <1>0 DEF ClauseNext
<1>4. /\ h \in Lines /\ h <= stop /\ Depth(h) = k - 1 /\ NextAfter(h, pos)
      /\ pos \in Lines => pos <= stop
      /\ Left(h, pos) = 0
  <2>1. BlockLine(frames, k) = h
    BY <1>0 DEF BlockLine
  <2> QED
    BY <2>1, StmtsEnded
<1>5. k \in 1..Len(frames) /\ Kind(h) \in OpensBlock
    BY <1>0 DEF FrameKinds
<1>6. Len(fs) = k - 1 /\ \A i \in 1..(k - 1) : fs[i] = frames[i]
  <2>1. \A i \in 1..(k - 1) : frames[i] \in Frame
    BY <1>0
  <2>2. /\ Len(fs) = IF 1 <= k - 1 THEN (k - 1) - 1 + 1 ELSE 0
        /\ \A i \in 1..((k - 1) - 1 + 1) : fs[i] = frames[1 + i - 1]
    BY <1>0, <2>1, SubSeqProperties
  <2>3. k \in Nat /\ k # 0
    BY <1>0
  <2> HIDE DEF fs, k
  <2>4. Len(fs) = k - 1
    BY <2>2, <2>3
  <2>5. ASSUME NEW i \in 1..(k - 1)
        PROVE  fs[i] = frames[i]
    <3>1. i \in 1..((k - 1) - 1 + 1) /\ 1 + i - 1 = i
        BY <2>3
    <3> QED
        BY <2>2, <3>1
  <2> QED
    BY <2>4, <2>5
<1> DEFINE loc == LocOf(h, place)
           s == exp[k - 1]
           c == Append(bytes, End)
           d == Cat(c, HeadCount(h))
<1>7. /\ exp[k] = Push(<<"end">>, AfterBlock(h, loc, s))
      /\ IsSeq(s)
      /\ Stack(exp, place, fs, pos)
    BY <1>h, <1>2, <1>4, StackClosed
<1>8. IsSeq(HeadCount(h))
  <2>1. \A n : IsSeq(<<Num(n)>>)
    BY ShortSeq
  <2> QED
    BY <2>1, ShortSeq DEF HeadCount
<1>9. IsSeq(c) /\ IsSeq(d) /\ IsSeq(<<End>>) /\ Cat(bytes, <<End>>) = c
    BY <1>2, <1>8, WrittenOneByOne, ShortSeq, CatSeq
<1>t. Cat(bytes, Cat(<<End>>, HeadCount(h))) = d
  <2> DEFINE first == <<End>>
             second == HeadCount(h)
  <2>1. IsSeq(bytes) /\ IsSeq(first) /\ IsSeq(second) /\ Cat(bytes, first) = c
    BY <1>2, <1>8, <1>9
  <2> HIDE DEF first, second, c
  <2>2. Cat(Cat(bytes, first), second) = Cat(bytes, Cat(first, second))
    BY <2>1, CatThree
  <2> QED
    BY <2>1, <2>2 DEF first, second
<1>10. After(d, Rest(h, loc, s), f)
  <2>1. Expected(exp, place, frames, pos) = exp[k]
    BY <1>3 DEF Expected
  <2>2. IsSeq(AfterBlock(h, loc, s))
    BY <1>h, <1>4, <1>7, RestSeq
  <2>3. After(bytes, Push(<<"end">>, AfterBlock(h, loc, s)), f)
    BY <1>2, <1>7, <2>1
  <2>4. After(c, AfterBlock(h, loc, s), f)
    BY <1>2, <2>2, <2>3, ReadPlain
  <2> HIDE DEF c, loc, s, h
  <2> QED
    BY <1>h, <1>4, <1>7, <1>9, <2>4, ReadHeadCount
<1> HIDE DEF fs
<1>11. ASSUME NEW x
       PROVE  x \in Heads(frames) <=> x \in Heads(fs) \cup {p}
  <2>1. \A i \in 1..k : i = k \/ i \in 1..(k - 1)
    BY <1>0
  <2>2. \A i \in 1..(k - 1) : i \in 1..k /\ fs[i] = frames[i]
    BY <1>0, <1>6
  <2> QED
    BY <1>5, <1>6, <2>1, <2>2 DEF Heads
<1>12. p \notin Heads(fs)
  <2> SUFFICES ASSUME p \in Heads(fs)
               PROVE  FALSE
    OBVIOUS
  <2>1. PICK i \in 1..(k - 1) : p = HeadOf(fs[i].line)
    BY <1>6 DEF Heads
  <2>2. i \in 1..k /\ fs[i] = frames[i] /\ i # k
    BY <1>0, <1>6
  <2>3. Depth(p) = i - 1
    BY <1>h, <2>1, <2>2, HeadsDiffer
  <2>4. Depth(p) = k - 1
    BY <1>h, <1>5, HeadsDiffer
  <2> HIDE DEF p
  <2> QED
    BY <1>0, <2>2, <2>3, <2>4
<1>13. OpenHeads(frames, pos) = Heads(fs) \cup {p}
    BY <1>3, <1>11 DEF OpenHeads
<1>14. \A i \in 1..Len(fs) : fs[i].line \in O
  <2> TAKE i \in 1..Len(fs)
  <2>1. i \in 1..Len(frames) /\ fs[i] = frames[i]
    BY <1>0, <1>6
  <2> QED
    BY <1>2, <2>1
<1> HIDE DEF p
<1>15. CASE Continues
  <2>1. pos \in Lines /\ pos <= stop /\ Depth(pos) = k - 1 /\ Kind(pos) \in Clauses
    BY <1>0, <1>15 DEF Continues
  <2>2. ClauseNext(fs, pos)
    BY <1>6, <2>1 DEF ClauseNext
  <2>3. Previous(pos) = h /\ HeadOf(pos) = HeadOf(h)
    <3> HIDE DEF h
    <3> QED
        BY <1>h, <1>4, <2>1, ClauseNextTo
  <2>4. Expected(exp, place, fs, pos) = Rest(h, loc, s)
    <3>1. LocOf(pos, place) = LocOf(h, place)
        BY <2>3 DEF LocOf
    <3> QED
        BY <1>6, <2>2, <2>3, <3>1 DEF Expected
  <2>5. OpenHeads(fs, pos) = OpenHeads(frames, pos)
    BY <1>13, <2>2, <2>3 DEF OpenHeads, p
  <2>6. /\ IsSeq(d) /\ Places(place, O, pos, d)
        /\ Cat(bytes, Cat(Cat(<<End>>, HeadCount(h)), << >>)) = d
    <3>1. Cat(Cat(<<End>>, HeadCount(h)), << >>) = Cat(<<End>>, HeadCount(h))
          /\ IsSeq(Cat(<<End>>, HeadCount(h)))
        BY <1>8, <1>9, CatSeq, WrittenOneByOne
    <3>2. Cat(bytes, Cat(<<End>>, HeadCount(h))) = d
        BY <1>t
    <3>3. Places(place, O, pos, Cat(bytes, Cat(<<End>>, HeadCount(h))))
        BY <1>0, <1>2, <3>1, PlacesKept
    <3> QED
        BY <1>9, <3>1, <3>2, <3>3
  <2>7. StreamWith(place, O, exp, f, fs, pos, d)
    <3> HIDE DEF d, loc, s
    <3> QED
        BY <1>2, <1>7, <1>10, <1>14, <2>4, <2>5, <2>6 DEF StreamWith
  <2> QED
    BY <1>15, <2>6, <2>7 DEF StreamState, fs
<1>16. CASE ~Continues
  <2> DEFINE e == StmtEnd(h, u)
             f2 == Append(f, FoundAt(p, place))
             b == Cat(d, e)
  <2>1. ~ClauseNext(fs, pos)
    BY <1>6, <1>16 DEF ClauseNext, Continues
  <2>2. \A kinds : Many(h, kinds) = 0
    <3>1. pos \in Lines => Depth(pos) <= Depth(h) /\ (Depth(pos) = Depth(h) => Kind(pos) \notin Clauses)
        BY <1>0, <1>4, <1>16 DEF Continues
    <3> HIDE DEF h
    <3> QED
        BY <1>h, <1>0, <1>4, <3>1, NoClauses DEF Many
  <2>3. After(b, s, f2)
    <3>1. loc = <<"location", TagOf(Kind(p)), place[BlockOf(p)]>>
        BY DEF LocOf, p
    <3> DEFINE tag == TagOf(Kind(p))
               at == place[BlockOf(p)]
    <3>2. After(d, Rest(h, <<"location", tag, at>>, s), f)
        BY <1>10, <3>1
    <3>3. FoundAt(p, place) = [line |-> HeadOf(h), tag |-> tag, parent |-> at]
        BY DEF FoundAt, p
    <3> HIDE DEF tag, at, d, s, h
    <3>4. After(Cat(d, StmtEnd(h, u)), s, Append(f, [line |-> HeadOf(h), tag |-> tag, parent |-> at]))
        BY <1>h, <1>4, <1>5, <1>7, <1>9, <2>2, <3>2, ReadStmtEnd
    <3> QED
        BY <3>3, <3>4
  <2>4. IsSeq(e)
    BY StmtEndIs, CatSeq
  <2>5. Found(f2, place, O, Whole(pos) \ OpenHeads(fs, pos))
    <3> DEFINE E == Whole(pos) \ OpenHeads(frames, pos)
    <3>1. p \notin E /\ Whole(pos) \ OpenHeads(fs, pos) = E \cup {p}
        BY <1>2, <1>12, <1>13, <2>1 DEF OpenHeads
    <3>2. BlockOf(p) \in O \cup {0}
        <4>1. BlockOf(p) = BlockLine(frames, k - 1)
            BY <1>h, <1>4, <1>5, SameBlock, BlockOfFrame DEF p
        <4>2. k - 1 = 0 \/ k - 1 \in 1..Len(frames)
            <5>1. \A j \in Nat : j # 0 => j - 1 = 0 \/ j - 1 \in 1..j
                OBVIOUS
            <5> QED
                BY <1>0, <5>1
        <4> QED
            BY <1>2, <4>1, <4>2 DEF BlockLine
    <3>3. Found(f, place, O, E)
        BY <1>2
    <3> HIDE DEF E
    <3> QED
        BY <3>1, <3>2, <3>3, FoundOne
  <2>6. OpenHeads(fs, pos) \subseteq Whole(pos)
    BY <1>2, <1>13, <2>1 DEF OpenHeads
  <2>7. Expected(exp, place, fs, pos) = s
    BY <1>6, <2>1 DEF Expected
  <2>8. /\ IsSeq(b) /\ Places(place, O, pos, b)
        /\ Cat(bytes, Cat(Cat(<<End>>, HeadCount(h)), e)) = b
    <3> DEFINE t == Cat(Cat(<<End>>, HeadCount(h)), e)
    <3>1. IsSeq(t) /\ IsSeq(Cat(<<End>>, HeadCount(h)))
        BY <1>8, <1>9, <2>4, CatSeq
    <3>2. Cat(bytes, t) = Cat(Cat(bytes, Cat(<<End>>, HeadCount(h))), e)
        BY <1>2, <2>4, <3>1, CatThree
    <3>3. Cat(bytes, Cat(<<End>>, HeadCount(h))) = d
        BY <1>t
    <3> HIDE DEF t, d, e
    <3>4. Places(place, O, pos, Cat(bytes, t))
        BY <1>0, <1>2, <3>1, PlacesKept
    <3> QED
        BY <1>2, <3>1, <3>2, <3>3, <3>4, CatSeq DEF t
  <2> HIDE DEF b, f2, d, s, e
  <2>9. StreamWith(place, O, exp, f2, fs, pos, b)
    BY <1>7, <1>14, <2>3, <2>5, <2>6, <2>7, <2>8 DEF StreamWith
  <2> QED
    BY <1>16, <2>8, <2>9 DEF StreamState, fs, e
<1> QED
    BY <1>15, <1>16
-----------------------------------------------------------------------------
(* Statements written in one step. *)

\* All but the location and the end.
LEMMA ReadStart ==
    ASSUME NEW b, IsSeq(b), NEW x, IsSeq(x), NEW f, NEW at, NEW name, name # "import",
           After(b, Push(<<"statement", at>>, x), f)
    PROVE  After(Append(b, Tag(name)), Cat(Parts(name), Located(<<"location", name, at>>, x)), f)
    BY ReadStatement DEF Located

LEMMA WrittenFirst ==
    ASSUME NEW b, IsSeq(b), NEW t, NEW y, NEW z
    PROVE  Cat(b, <<t, y, z>>) = Cat(Append(b, t), <<y, z>>)
<1> DEFINE c == Append(b, t)
<1>1. IsSeq(c) /\ Cat(b, <<t, y, z>>) = Append(Append(c, y), z)
    BY WrittenOneByOne
<1> HIDE DEF c
<1>2. Cat(c, <<y, z>>) = Append(Append(c, y), z)
    BY <1>1, WrittenOneByOne
<1> QED
    BY <1>1, <1>2 DEF c

LEMMA ReadSimple ==
    ASSUME NEW p, Kind(p) \in Simple, NEW b, IsSeq(b), NEW x, IsSeq(x), NEW f, NEW at,
           After(b, Push(<<"statement", at>>, x), f)
    PROVE  /\ IsSeq(<<Tag(Kind(p)), Loc(p), End>>)
           /\ After(Cat(b, <<Tag(Kind(p)), Loc(p), End>>), x,
                    Append(f, [line |-> p, tag |-> TagOf(Kind(p)), parent |-> at]))
<1> DEFINE name == Kind(p)
           loc == <<"location", name, at>>
           b1 == Append(b, Tag(name))
           l == Located(loc, x)
<1>1. name # "import" /\ Parts(name) = << >> /\ TagOf(name) = name
    BY DEF Simple, Parts, TagOf, Funcs, Imports
<1>2. IsSeq(l)
    BY LocatedSeq
<1>3. After(b1, l, f)
  <2>1. After(b1, Cat(Parts(name), l), f)
    BY <1>1, ReadStart
  <2> HIDE DEF l, b1
  <2> QED
    BY <1>1, <1>2, <2>1, PushConcat
<1>4. IsSeq(b1)
    BY WrittenOneByOne
<1>5. After(Cat(b1, <<Loc(p), End>>), x, Append(f, [line |-> p, tag |-> name, parent |-> at]))
  <2> HIDE DEF b1, name
  <2> QED
    BY <1>3, <1>4, ReadLocated
<1>6. Cat(b, <<Tag(name), Loc(p), End>>) = Cat(b1, <<Loc(p), End>>)
    BY WrittenFirst
<1> QED
    BY <1>1, <1>5, <1>6, ShortSeq

LEMMA ReadImport ==
    ASSUME NEW p, Kind(p) \in Imports, NEW b, IsSeq(b), NEW x, IsSeq(x), NEW f, NEW at,
           NEW flags, After(b, Push(<<"statement", at>>, x), f)
    PROVE  LET written == (<<Tag("import"), Num(Aliases(Kind(p))), Loc(p)>>
                              \o (IF CacheVersion >= CV_IMPORT_FLAGS
                                  THEN <<<<"flags", flags>>>> ELSE << >>)) \o <<End>>
           IN /\ IsSeq(written)
              /\ After(Cat(b, written), x,
                       Append(f, [line |-> p, tag |-> TagOf(Kind(p)), parent |-> at]))
<1> DEFINE new == CacheVersion >= CV_IMPORT_FLAGS
           loc == <<"location", "import", at>>
           a == Num(Aliases(Kind(p)))
           t == <<"flags", flags>>
           head == <<Tag("import"), a, Loc(p)>>
           maybe == IF new THEN <<t>> ELSE << >>
           written == Cat(Cat(head, maybe), <<End>>)
           found == Append(f, [line |-> p, tag |-> "import", parent |-> at])
           b1 == Append(b, Tag("import"))
           b2 == Append(b1, a)
           b3 == Append(b2, Loc(p))
           end == Push(<<"end">>, x)
           rest == IF new THEN Push(<<"flags">>, end) ELSE end
<1>1. TagOf(Kind(p)) = "import"
    BY DEF TagOf, Imports, Funcs
<1>2. IsSeq(b1) /\ IsSeq(b2) /\ IsSeq(b3)
  <2>1. IsSeq(b1)
    BY WrittenOneByOne
  <2>2. IsSeq(b2)
    BY <2>1, WrittenOneByOne
  <2> QED
    BY <2>1, <2>2, WrittenOneByOne
<1>3. IsSeq(end) /\ IsSeq(Push(<<"flags">>, end))
    BY Pushed
<1>4. IsSeq(rest) /\ IsSeq(Push(loc, rest))
  <2>1. IsSeq(rest)
    BY <1>3
  <2> HIDE DEF rest, loc
  <2> QED
    BY <2>1, Pushed
<1>5. After(b1, Push(<<"names">>, Push(loc, rest)), f)
  <2>1. After(b1, Cat(Parts("import"), Push(loc, rest)), f)
    BY ReadStatement
  <2>2. Parts("import") = <<<<"names">>>>
    BY DEF Parts
  <2> HIDE DEF b1, loc, rest
  <2>3. Cat(<<<<"names">>>>, Push(loc, rest)) = Push(<<"names">>, Push(loc, rest))
    BY DEF Push
  <2> QED
    BY <2>1, <2>2, <2>3
<1> HIDE DEF b1
<1>6. After(b2, Push(loc, rest), f)
  <2> DEFINE r == Push(loc, rest)
  <2>1. IsSeq(r) /\ After(b1, Push(<<"names">>, r), f)
    BY <1>4, <1>5
  <2> HIDE DEF r
  <2> QED
    BY <1>2, <2>1, ReadPlain DEF r
<1> HIDE DEF b2
<1>7. After(b3, rest, found)
  <2> HIDE DEF rest
  <2> QED
    BY <1>2, <1>4, <1>6, ReadPlain
<1>8. Cat(b, head) = b3 /\ IsSeq(head) /\ IsSeq(<<End>>) /\ IsSeq(maybe)
    BY WrittenOneByOne, ShortSeq, SMTT(60) DEF b1, b2
<1> HIDE DEF b3, found, head
<1>9. After(Cat(b3, maybe), end, found) /\ IsSeq(Cat(b3, maybe))
  <2>1. CASE new
    <3>1. After(b3, Push(<<"flags">>, end), found)
        BY <1>7, <2>1
    <3> HIDE DEF end
    <3>2. After(Append(b3, t), end, found)
        BY <1>2, <1>3, <3>1, ReadPlain
    <3>3. Cat(b3, maybe) = Append(b3, t) /\ IsSeq(Append(b3, t))
        BY <1>2, <2>1, WrittenOneByOne
    <3> QED
        BY <3>2, <3>3
  <2>2. CASE ~new
    <3>1. After(b3, end, found)
        BY <1>7, <2>2
    <3> HIDE DEF end
    <3>2. Cat(b3, maybe) = b3
        BY <1>2, <2>2, WrittenOneByOne
    <3> QED
        BY <1>2, <3>1, <3>2
  <2> QED
    BY <2>1, <2>2
<1> HIDE DEF maybe
<1>10. After(Append(Cat(b3, maybe), End), x, found)
  <2> DEFINE c == Cat(b3, maybe)
  <2>1. IsSeq(c) /\ After(c, Push(<<"end">>, x), found)
    BY <1>9
  <2> HIDE DEF c
  <2> QED
    BY <2>1, ReadPlain DEF c
<1>11. Cat(b, written) = Append(Cat(b3, maybe), End) /\ IsSeq(written)
  <2> DEFINE last == <<End>>
  <2>1. IsSeq(last) /\ Cat(Cat(b3, maybe), last) = Append(Cat(b3, maybe), End)
    BY <1>8, <1>9, WrittenOneByOne
  <2> HIDE DEF last
  <2>2. IsSeq(Cat(head, maybe))
    BY <1>8, CatSeq
  <2>3. Cat(b, Cat(Cat(head, maybe), last)) = Cat(Cat(b, Cat(head, maybe)), last)
    BY <2>1, <2>2, CatThree
  <2>4. Cat(b, Cat(head, maybe)) = Cat(Cat(b, head), maybe)
    BY <1>8, CatThree
  <2>5. IsSeq(Cat(Cat(head, maybe), last))
    BY <2>1, <2>2, CatSeq
  <2> QED
    BY <1>8, <2>1, <2>3, <2>4, <2>5 DEF last
<1>12. /\ IsSeq(written)
       /\ After(Cat(b, written), x, found)
    BY <1>10, <1>11
<1> QED
    BY <1>1, <1>12 DEF found, Cat, head, maybe

\* A function without its body.
LEMMA ReadOmitted ==
    ASSUME IInv, HeadsInv, ClausesInv, NEW p \in Lines, Kind(p) \in Funcs,
           NEW b, IsSeq(b), NEW x, IsSeq(x), NEW f, NEW at, NEW u,
           After(b, Push(<<"statement", at>>, x), f)
    PROVE  LET written == Cat(Cat(Intro(p), EmptyBlock(p, u)), StmtEnd(p, u))
           IN /\ IsSeq(written)
              /\ After(Cat(b, written), x,
                       Append(f, [line |-> p, tag |-> TagOf(Kind(p)), parent |-> at]))
<1> DEFINE tag == TagOf(Kind(p))
           loc == <<"location", tag, at>>
           first == Intro(p)
           block == EmptyBlock(p, u)
           last == StmtEnd(p, u)
           r == Rest(p, loc, x)
<1>1. Kind(p) \in Headers \ {"match"} /\ Kind(p) \in OpensBlock /\ Kind(p) \notin Clauses
    BY DEF Funcs, Headers, OpensBlock, Clauses, Cases
<1>2. IsSeq(first) /\ IsSeq(block) /\ IsSeq(last)
  <2>1. IsSeq(block)
    BY ShortSeq DEF EmptyBlock
  <2>2. IsSeq(last)
    BY StmtEndIs, CatSeq
  <2> QED
    BY <1>1, <2>1, <2>2, IntroSeq
<1>3. AfterBlock(p, loc, x) = r /\ IsSeq(r)
    BY RestSeq DEF AfterBlock, Funcs
<1>4. After(Cat(b, first), Push(BlockSymbol, r), f)
    BY <1>1, <1>3, ReadHeader
<1>5. IsSeq(Cat(b, first))
    BY <1>2, CatSeq
<1> HIDE DEF first, last, r
<1>6. After(Cat(Cat(b, first), block), r, f)
    BY <1>3, <1>4, <1>5, ReadEmptyBlock
<1> HIDE DEF block
<1>7. IsSeq(Cat(Cat(b, first), block))
    BY <1>2, <1>5, CatSeq
<1>8. \A kinds : Many(p, kinds) = 0
  <2>1. Later(Kind(p)) = {}
    BY DEF Later, Funcs, Cases
  <2> QED
    BY <2>1, NoneLater DEF Many
<1>9. After(Cat(Cat(Cat(b, first), block), last), x,
            Append(f, [line |-> p, tag |-> tag, parent |-> at]))
  <2> DEFINE c == Cat(Cat(b, first), block)
  <2>1. HeadOf(p) = p
    BY <1>1, HeadKnown
  <2>2. IsSeq(c) /\ After(c, Rest(p, <<"location", tag, at>>, x), f)
    BY <1>6, <1>7 DEF r
  <2> HIDE DEF c, tag
  <2>3. After(Cat(c, StmtEnd(p, u)), x, Append(f, [line |-> HeadOf(p), tag |-> tag, parent |-> at]))
    BY <1>1, <1>8, <2>2, ReadStmtEnd
  <2> QED
    BY <2>1, <2>3 DEF c, last
<1>10. Cat(b, Cat(Cat(first, block), last)) = Cat(Cat(Cat(b, first), block), last)
  <2>1. IsSeq(Cat(first, block))
    BY <1>2, CatSeq
  <2>2. Cat(b, Cat(Cat(first, block), last)) = Cat(Cat(b, Cat(first, block)), last)
    BY <1>2, <2>1, CatThree
  <2>3. Cat(b, Cat(first, block)) = Cat(Cat(b, first), block)
    BY <1>2, CatThree
  <2> QED
    BY <2>2, <2>3
<1>11. IsSeq(Cat(Cat(first, block), last))
    BY <1>2, CatSeq
<1> QED
    BY <1>9, <1>10, <1>11 DEF first, block, last

\* A match up to its first case.
LEMMA ReadMatch ==
    ASSUME IInv, HeadsInv, NEW p \in Lines, Kind(p) = "match",
           NEW b, IsSeq(b), NEW x, IsSeq(x), NEW f, NEW at,
           After(b, Push(<<"statement", at>>, x), f)
    PROVE  LET written == <<Tag("match"), Expr(p), Num(Cardinality(ClausesOf(p, Cases)))>>
           IN /\ IsSeq(written)
              /\ After(Cat(b, written), Rest(p, <<"location", TagOf(Kind(p)), at>>, x), f)
<1> DEFINE count == Cardinality(ClausesOf(p, Cases))
           loc == <<"location", "match", at>>
           l == Located(loc, x)
           b1 == Append(b, Tag("match"))
           b2 == Append(b1, Expr(p))
           b3 == Append(b2, Num(count))
<1>1. TagOf(Kind(p)) = "match"
    BY DEF TagOf, Imports, Funcs
<1>2. IsSeq(l)
    BY LocatedSeq
<1>3. IsSeq(b1) /\ IsSeq(b2)
  <2>1. IsSeq(b1)
    BY WrittenOneByOne
  <2> QED
    BY <2>1, WrittenOneByOne
<1>4. Cat(b, <<Tag("match"), Expr(p), Num(count)>>) = b3
    BY WrittenOneByOne
<1>5. After(b1, Push(<<"expr">>, Push(<<"clauses">>, l)), f)
  <2>1. After(b1, Cat(Parts("match"), l), f)
    BY ReadStart
  <2>2. Parts("match") = <<<<"expr">>, <<"clauses">>>>
    BY DEF Parts
  <2> HIDE DEF l
  <2>3. \A a, c : Cat(<<a, c>>, l) = Push(a, Push(c, l))
    BY <1>2, PushConcat
  <2> QED
    BY <2>1, <2>2, <2>3
<1> HIDE DEF b1, l
<1>6. After(b2, Push(<<"clauses">>, l), f)
  <2> DEFINE r == Push(<<"clauses">>, l)
  <2>1. IsSeq(r) /\ After(b1, Push(<<"expr">>, r), f)
    BY <1>2, <1>5, Pushed
  <2> HIDE DEF r
  <2> QED
    BY <1>3, <2>1, ReadPlain DEF r
<1> HIDE DEF b2, count
<1>7. After(b3, Cat(Repeat(count, Conditioned), l), f)
    BY <1>2, <1>3, <1>6, ReadCount DEF Conditioned
<1>8. Rest(p, loc, x) = Cat(Repeat(count, Conditioned), l)
  <2>1. Rest(p, loc, x) = Conditions(p, Cases, l)
    BY RestIs, ZenonT(60) DEF l
  <2>2. Many(p, Cases) = count
    <3>1. Kind(p) \notin Clauses
        BY DEF Clauses, Cases
    <3> QED
        BY <3>1, ClausesOfHeader DEF Many, count
  <2> QED
    BY <2>1, <2>2 DEF Conditions
<1> HIDE DEF b3
<1> QED
    BY <1>1, <1>4, <1>7, <1>8, ShortSeq DEF count
-----------------------------------------------------------------------------
(* The steps of the walk. *)

\* What is known of the line that is serialized.
LEMMA AtLine ==
    ASSUME IInv, GetattrInv, EffectsInv, ClausesInv, NEW kinds, At(kinds)
    PROVE  /\ phase = "serialize" /\ phase # "parse" /\ pos \in Lines /\ pos <= stop
           /\ Kind(pos) \in kinds /\ pos \in EmittedLines /\ Depth(pos) = Len(frames)
           /\ HeadsInv /\ IsSeq(bytes)
           /\ pos + 1 \in Nat /\ NextAfter(pos, pos + 1)
           /\ \A q \in EmittedLines : ~(pos < q /\ q < pos + 1)
<1>1. /\ phase = "serialize" /\ pos \in Lines /\ pos <= stop /\ Kind(pos) \in kinds
      /\ pos \in EmittedLines
    BY NextEmitted
<1>2. Depth(pos) = Len(frames)
    BY DEF At
<1>3. HeadsInv /\ IsSeq(bytes)
    BY <1>1 DEF EffectsInv, BytesInv, IsSeq
<1>4. pos \in Nat /\ EmittedLines \subseteq Nat
    BY TreeType DEF EmittedLines
<1>5. pos + 1 \in Nat /\ NextAfter(pos, pos + 1)
    BY <1>4 DEF NextAfter
<1>6. \A q \in EmittedLines : ~(pos < q /\ q < pos + 1)
    BY <1>4
<1> QED
    BY <1>1, <1>2, <1>3, <1>5, <1>6

\* No clause continues these lines.
LEMMA NotContinued ==
    ASSUME IInv, HeadsInv, ClausesInv, pos \in Lines, Depth(pos) = Len(frames),
           NEW n, NextAfter(pos, n), Kind(pos) \in Simple \cup Imports \cup Funcs
    PROVE  ~ClauseNext(frames, n)
<1> SUFFICES ASSUME n \in Lines, Depth(n) = Len(frames), Kind(n) \in Clauses
             PROVE  FALSE
    BY DEF ClauseNext
<1>1. Kind(pos) \in Follows(Kind(n))
    BY ClauseNextTo
<1>2. Follows(Kind(n)) \subseteq {"if", "elif", "match", "loop", "try", "except", "try_else"} \cup Cases
    BY DEF Follows, Clauses, Cases
<1> QED
    BY <1>1, <1>2 DEF Simple, Imports, Funcs, Cases

LEMMA SimpleStep ==
    ASSUME IInv, GetattrInv, EffectsInv, ClausesInv, StreamState(frames, pos, bytes), SimpleStmt
    PROVE  StreamState(frames', pos', bytes')
<1> DEFINE n == pos + 1
           tokens == <<Tag(Kind(pos)), Loc(pos), End>>
<1>1. At(Simple) /\ pos' = n /\ frames' = frames /\ bytes' = Cat(bytes, tokens)
    BY DEF SimpleStmt, Write, Cat
<1>2. /\ pos \in Lines /\ pos <= stop /\ Kind(pos) \in Simple /\ pos \in EmittedLines
      /\ Depth(pos) = Len(frames) /\ HeadsInv /\ IsSeq(bytes)
      /\ n \in Nat /\ NextAfter(pos, n) /\ \A q \in EmittedLines : ~(pos < q /\ q < n)
    BY <1>1, AtLine
<1> HIDE DEF n
<1>3. Kind(pos) \notin Clauses
    BY <1>2 DEF Simple, Clauses, Cases
<1>4. ~ClauseNext(frames, n)
    BY <1>2, NotContinued
<1>5. IsSeq(tokens)
    BY ShortSeq
<1>6. \A at, x, f : IsSeq(x) /\ After(bytes, Push(<<"statement", at>>, x), f)
         => After(Cat(bytes, tokens), x,
                  Append(f, [line |-> pos, tag |-> TagOf(Kind(pos)), parent |-> at]))
    BY <1>2, ReadSimple
<1> HIDE DEF tokens
<1>7. StreamState(frames, n, Cat(bytes, tokens))
    BY <1>2, <1>3, <1>4, <1>5, <1>6, StatementPassed
<1> QED
    BY <1>1, <1>7

LEMMA ImportStep ==
    ASSUME IInv, GetattrInv, EffectsInv, ClausesInv, StreamState(frames, pos, bytes), ImportStmt
    PROVE  StreamState(frames', pos', bytes')
<1> DEFINE n == pos + 1
           flags == MakeImportFlags(Kind(pos) = "lazy_import")
           tokens == (<<Tag("import"), Num(Aliases(Kind(pos))), Loc(pos)>>
                         \o (IF CacheVersion >= CV_IMPORT_FLAGS
                             THEN <<<<"flags", flags>>>> ELSE << >>)) \o <<End>>
<1>1. At(Imports) /\ pos' = n /\ frames' = frames /\ bytes' = Cat(bytes, tokens)
    BY DEF ImportStmt, Write, Cat
<1>2. /\ pos \in Lines /\ pos <= stop /\ Kind(pos) \in Imports /\ pos \in EmittedLines
      /\ Depth(pos) = Len(frames) /\ HeadsInv /\ IsSeq(bytes)
      /\ n \in Nat /\ NextAfter(pos, n) /\ \A q \in EmittedLines : ~(pos < q /\ q < n)
    BY <1>1, AtLine
<1> HIDE DEF n, flags
<1>3. Kind(pos) \notin Clauses
    BY <1>2 DEF Imports, Clauses, Cases
<1>4. ~ClauseNext(frames, n)
    BY <1>2, NotContinued
<1>5. ASSUME NEW at, NEW x, NEW f, IsSeq(x), After(bytes, Push(<<"statement", at>>, x), f)
      PROVE  /\ IsSeq(tokens)
             /\ After(Cat(bytes, tokens), x,
                      Append(f, [line |-> pos, tag |-> TagOf(Kind(pos)), parent |-> at]))
    BY <1>2, <1>5, ReadImport
<1>6. IsSeq(tokens)
  <2> DEFINE a == <<Tag("import"), Num(Aliases(Kind(pos))), Loc(pos)>>
             c == IF CacheVersion >= CV_IMPORT_FLAGS THEN <<<<"flags", flags>>>> ELSE << >>
             e == <<End>>
  <2>1. IsSeq(a) /\ IsSeq(c) /\ IsSeq(e)
    BY ShortSeq
  <2>2. tokens = Cat(Cat(a, c), e)
    BY DEF Cat
  <2> HIDE DEF a, c, e, tokens
  <2> QED
    BY <2>1, <2>2, CatSeq
<1> HIDE DEF tokens
<1>7. StreamState(frames, n, Cat(bytes, tokens))
    BY <1>2, <1>3, <1>4, <1>5, <1>6, StatementPassed
<1> QED
    BY <1>1, <1>7

LEMMA OmittedStep ==
    ASSUME IInv, GetattrInv, EffectsInv, ClausesInv, StreamState(frames, pos, bytes), FunctionOmitted
    PROVE  StreamState(frames', pos', bytes')
<1>0. /\ Len(prog) \in Nat /\ Lines = 1..Len(prog) /\ pos \in Nat
      /\ \A q \in Lines : Depth(q) \in Nat
    BY TreeType
<1> DEFINE u == current_unreachable
           tokens == Cat(Cat(Intro(pos), EmptyBlock(pos, u)), StmtEnd(pos, u))
<1>1. At(Funcs) /\ ~SerializesBody(pos) /\ frames' = frames /\ bytes' = Cat(bytes, tokens)
    BY DEF FunctionOmitted, Write, Cat
<1>2. PICK last \in pos..Len(prog) : Body(pos) = (pos + 1)..last /\ pos' = last + 1
    BY DEF FunctionOmitted
<1> DEFINE n == last + 1
<1>3. /\ pos \in Lines /\ pos <= stop /\ Kind(pos) \in Funcs /\ pos \in EmittedLines
      /\ Depth(pos) = Len(frames) /\ HeadsInv /\ IsSeq(bytes)
    BY <1>1, AtLine
<1>4. Omitted(pos)
  <2>1. in_class <=> InClass(pos)
    BY <1>1, NextEmitted
  <2> QED
    BY <1>1, <1>3, <2>1 DEF Omitted, SerializesBody, HasExternallyVisibleEffect
<1>5. \A q \in (pos + 1)..last : q \in Lines /\ Inside(pos, q)
    BY <1>2 DEF Body
<1>6. n \in Nat /\ pos < n /\ \A q \in Nat : pos < q /\ q < n => q \in (pos + 1)..last
    BY <1>0, <1>2
<1>7. NextAfter(pos, n)
  <2>1. ASSUME NEW q \in (pos + 1)..(n - 1)
        PROVE  Depth(q) > Depth(pos)
    <3>1. q \in (pos + 1)..last /\ q \in (pos + 1)..q
        BY <1>0, <1>2
    <3> QED
        BY <1>5, <3>1 DEF Inside
  <2> QED
    BY <1>6, <2>1 DEF NextAfter
<1>8. \A q \in EmittedLines : ~(pos < q /\ q < n)
  <2> SUFFICES ASSUME NEW q \in EmittedLines, pos < q, q < n
               PROVE  FALSE
    OBVIOUS
  <2>1. q \in Nat /\ q \in Lines
    BY <1>0 DEF EmittedLines
  <2>2. Inside(pos, q)
    BY <1>5, <1>6, <2>1
  <2> QED
    BY <1>3, <1>4, <2>2 DEF EmittedLines, Emitted
<1>9. Kind(pos) \notin Clauses
    BY <1>3 DEF Funcs, Clauses, Cases
<1> HIDE DEF n
<1>10. ~ClauseNext(frames, n)
    BY <1>3, <1>7, NotContinued
<1>11. ASSUME NEW at, NEW x, NEW f, IsSeq(x), After(bytes, Push(<<"statement", at>>, x), f)
       PROVE  After(Cat(bytes, tokens), x,
                    Append(f, [line |-> pos, tag |-> TagOf(Kind(pos)), parent |-> at]))
  <2> HIDE DEF u
  <2> QED
    BY <1>3, <1>11, ReadOmitted
<1>12. IsSeq(tokens)
  <2>1. IsSeq(Intro(pos)) /\ IsSeq(EmptyBlock(pos, u)) /\ IsSeq(StmtEnd(pos, u))
    <3>1. IsSeq(Intro(pos))
        BY <1>3, IntroSeq DEF OpensBlock, Headers, Funcs
    <3>2. IsSeq(EmptyBlock(pos, u))
        BY ShortSeq DEF EmptyBlock
    <3>3. IsSeq(StmtEnd(pos, u))
        BY StmtEndIs, CatSeq
    <3> QED
        BY <3>1, <3>2, <3>3
  <2> HIDE DEF u
  <2> QED
    BY <2>1, CatSeq
<1> HIDE DEF tokens
<1>13. StreamState(frames, n, Cat(bytes, tokens))
    BY <1>3, <1>6, <1>7, <1>8, <1>9, <1>10, <1>11, <1>12, StatementPassed
<1> QED
    BY <1>1, <1>2, <1>13 DEF n

\* A block opened.
LEMMA OpenStep ==
    ASSUME IInv, GetattrInv, EffectsInv, ClausesInv, TreeInv, StreamState(frames, pos, bytes),
           NEW kinds, kinds \subseteq OpensBlock, At(kinds),
           NEW class, NEW function, NEW flags, OpenBlock(class, function, flags),
           flags.unreachable <=> UnreachableBranch(pos)
    PROVE  StreamState(frames', pos', bytes')
<1>1. /\ pos \in Lines /\ pos <= stop /\ Kind(pos) \in kinds /\ pos \in EmittedLines
      /\ Depth(pos) = Len(frames) /\ HeadsInv /\ phase # "parse"
    BY AtLine
<1>2. current_unreachable <=> Unreachable(pos)
    BY NextEmitted
<1>3. /\ in_class \in BOOLEAN /\ in_function \in BOOLEAN /\ current_unreachable \in BOOLEAN
      /\ current_mypy_only \in BOOLEAN /\ pos \in Nat
    BY TreeType DEF IInv, TypeInv
<1>4. PICK fr \in Frame : frames' = Append(frames, fr) /\ fr.line = pos
    BY <1>3 DEF OpenBlock, Frame
<1>5. PICK u \in BOOLEAN : u = current_unreachable' /\ (u <=> BlockUnreachable(pos))
    BY <1>2, <1>3 DEF OpenBlock, WithBranchFlags, BlockUnreachable
<1>6. pos' = pos + 1 /\ bytes' = Cat(bytes, Cat(Intro(pos), BlockStart(pos, u)))
    BY <1>5 DEF OpenBlock, Write, Cat
<1>7. Kind(pos) \in Clauses \/ Kind(pos) \in Headers \ {"match"}
    BY <1>1 DEF OpensBlock
<1>8. StreamState(Append(frames, fr), pos + 1, Cat(bytes, Cat(Intro(pos), BlockStart(pos, u))))
  <2>1. CASE Kind(pos) \in Clauses
    BY <1>1, <1>4, <1>5, <2>1, ClauseOpened
  <2>2. CASE Kind(pos) \in Headers \ {"match"}
    BY <1>1, <1>4, <1>5, <2>2, HeaderOpened
  <2> QED
    BY <1>7, <2>1, <2>2
<1> QED
    BY <1>4, <1>6, <1>8

LEMMA EndStep ==
    ASSUME IInv, GetattrInv, EffectsInv, ClausesInv, FrameKinds, StreamState(frames, pos, bytes),
           EndBlock
    PROVE  StreamState(frames', pos', bytes')
<1> DEFINE ends(v) == Cat(bytes, Cat(Cat(<<End>>, HeadCount(frames[Len(frames)].line)),
                                     IF Continues THEN << >>
                                     ELSE StmtEnd(frames[Len(frames)].line, v)))
           outer == SubSeq(frames, 1, Len(frames) - 1)
           u == frames[Len(frames)].unreachable
<1>1. /\ phase # "parse" /\ frames # << >>
      /\ pos <= stop => Depth(pos) < Len(frames)
    BY DEF EndBlock
<1>2. frames' = outer /\ pos' = pos /\ bytes' = ends(u)
    BY DEF EndBlock, Write, Cat
<1>3. ASSUME NEW v
      PROVE  StreamState(outer, pos, ends(v))
    BY <1>1, BlockEnded
<1> HIDE DEF outer, ends, u
<1> QED
    BY <1>2, <1>3

\* A match goes on exactly when it has cases.
LEMMA CaseNext ==
    ASSUME IInv, GetattrInv, HeadsInv, ClausesInv, TreeInv, phase # "parse",
           pos \in Lines, pos <= stop, Depth(pos) = Len(frames), Kind(pos) = "match",
           NEW n, n = pos + 1
    PROVE  /\ ClausesOf(pos, Cases) = {} => ~ClauseNext(frames, n)
           /\ ClausesOf(pos, Cases) # {} => /\ ClauseNext(frames, n) /\ n \in Lines
                                            /\ Previous(n) = pos /\ HeadOf(n) = pos
<1>0. /\ Len(prog) \in Nat /\ Lines = 1..Len(prog) /\ pos \in Nat /\ n \in 1..(Len(prog) + 1)
      /\ n \in Nat /\ NextAfter(pos, n)
  <2>1. Len(prog) \in Nat /\ Lines = 1..Len(prog) /\ pos \in Nat
    BY TreeType
  <2>2. n \in 1..(Len(prog) + 1) /\ n \in Nat
    BY <2>1
  <2>3. NextAfter(pos, n)
    BY <2>1 DEF NextAfter
  <2> QED
    BY <2>1, <2>2, <2>3
<1>1. Kind(pos) \notin Clauses /\ Kind(pos) \notin OpensBlock /\ Kind(pos) # "assert"
    BY DEF Clauses, Cases, OpensBlock, Headers, Funcs
<1>2. HeadOf(pos) = pos
    BY <1>1, HeadKnown
<1>3. ASSUME n \in Lines, Depth(n) = Depth(pos), Kind(n) \in Clauses
      PROVE  Previous(n) = pos /\ HeadOf(n) = pos /\ n \in ClausesOf(pos, Cases)
  <2>1. Previous(n) = pos /\ Kind(pos) \in Follows(Kind(n)) /\ HeadOf(n) = pos
    BY <1>0, <1>2, <1>3, ClauseNextTo
  <2>2. Kind(n) \in Cases
    BY <1>3, <2>1 DEF Follows, Clauses, Cases
  <2>3. n > pos
    BY <1>0
  <2> QED
    BY <1>3, <2>1, <2>2, <2>3 DEF ClausesOf
<1>4. ClausesOf(pos, Cases) = {} => ~ClauseNext(frames, n)
    BY <1>3 DEF ClauseNext
<1>5. ASSUME ClausesOf(pos, Cases) # {}
      PROVE  ClauseNext(frames, n) /\ n \in Lines /\ Previous(n) = pos /\ HeadOf(n) = pos
  <2>1. ClausesAfter(pos, Cases) # {}
    BY <1>1, <1>5, ClausesOfHeader
  <2>2. n \in Lines => Depth(n) <= Depth(pos)
    BY <1>1 DEF TreeInv
  <2>3. n \in Lines /\ Depth(n) = Depth(pos) /\ Kind(n) \in Clauses
    BY <1>0, <2>1, <2>2, NoClauses
  <2>4. n <= stop
    BY <1>0, <1>1, <2>3, KeptTogether
  <2> QED
    BY <1>3, <2>3, <2>4 DEF ClauseNext
<1> QED
    BY <1>4, <1>5

\* A match without cases is written whole.
LEMMA MatchAlone ==
    ASSUME IInv, GetattrInv, HeadsInv, ClausesInv, TreeInv, phase # "parse",
           pos \in EmittedLines, pos <= stop, Depth(pos) = Len(frames), Kind(pos) = "match",
           ClausesOf(pos, Cases) = {}, IsSeq(bytes),
           NEW n \in Nat, n = pos + 1, NextAfter(pos, n), \A q \in EmittedLines : ~(pos < q /\ q < n),
           StreamState(frames, pos, bytes), NEW first,
           first = <<Tag("match"), Expr(pos), Num(Cardinality(ClausesOf(pos, Cases)))>>
    PROVE  StreamState(frames, n, Cat(bytes, Cat(first, <<Loc(pos), End>>)))
<1> DEFINE last == <<Loc(pos), End>>
           tokens == Cat(first, last)
<1>0. pos \in Lines /\ Kind(pos) \notin Clauses
    BY DEF EmittedLines, Clauses, Cases
<1>1. IsSeq(first) /\ IsSeq(last) /\ IsSeq(tokens)
    BY ShortSeq, CatSeq
<1>2. ~ClauseNext(frames, n)
    BY <1>0, CaseNext
<1>3. ASSUME NEW at, NEW x, NEW f, IsSeq(x), After(bytes, Push(<<"statement", at>>, x), f)
      PROVE  After(Cat(bytes, tokens), x,
                   Append(f, [line |-> pos, tag |-> TagOf(Kind(pos)), parent |-> at]))
  <2> DEFINE b == Cat(bytes, first)
             tag == TagOf(Kind(pos))
             loc == <<"location", tag, at>>
             l == Located(loc, x)
  <2>1. After(b, Rest(pos, loc, x), f)
    BY <1>0, <1>3, ReadMatch
  <2>2. Rest(pos, loc, x) = l
    <3>1. Rest(pos, loc, x) = Conditions(pos, Cases, l)
        BY RestIs, ZenonT(60)
    <3>2. Many(pos, Cases) = 0
        BY <1>0, ClausesOfHeader, FS_EmptySet DEF Many
    <3>3. IsSeq(l)
        BY <1>3, LocatedSeq
    <3> HIDE DEF l
    <3> QED
        BY <1>0, <3>1, <3>2, <3>3, ManySeq
  <2>3. IsSeq(b)
    BY <1>1, CatSeq
  <2> HIDE DEF b, tag
  <2>4. After(Cat(b, last), x, Append(f, [line |-> pos, tag |-> tag, parent |-> at]))
    BY <1>3, <2>1, <2>2, <2>3, ReadLocated
  <2>5. Cat(b, last) = Cat(bytes, tokens)
    BY <1>1, CatThree DEF b
  <2> QED
    BY <2>4, <2>5 DEF tag
<1> HIDE DEF tokens
<1>4. StreamState(frames, n, Cat(bytes, tokens))
    BY <1>0, <1>1, <1>2, <1>3, StatementPassed
<1> QED
    BY <1>4 DEF tokens

\* With cases it is open until its last.
LEMMA MatchOpened ==
    ASSUME IInv, GetattrInv, HeadsInv, ClausesInv, TreeInv, phase # "parse",
           pos \in EmittedLines, pos <= stop, Depth(pos) = Len(frames), Kind(pos) = "match",
           ClausesOf(pos, Cases) # {}, IsSeq(bytes),
           NEW n \in Nat, n = pos + 1, \A q \in EmittedLines : ~(pos < q /\ q < n),
           StreamState(frames, pos, bytes), NEW first,
           first = <<Tag("match"), Expr(pos), Num(Cardinality(ClausesOf(pos, Cases)))>>
    PROVE  StreamState(frames, n, Cat(bytes, first))
<1>0. /\ Len(prog) \in Nat /\ Lines = 1..Len(prog) /\ pos \in Nat /\ Len(frames) \in Nat
      /\ pos \in Lines /\ EmittedLines \subseteq Nat /\ pos < n /\ pos <= n
      /\ \A q \in Lines : ~(pos < q /\ q < n)
    BY TreeType DEF EmittedLines
<1> DEFINE k == Len(frames)
           g == BlockLine(frames, k)
           b == Cat(bytes, first)
<1>1. PICK place, O, exp, f : StreamWith(place, O, exp, f, frames, pos, bytes)
    BY DEF StreamState
<1>2. /\ Places(place, O, pos, bytes)
      /\ \A i \in 1..Len(frames) : frames[i].line \in O
      /\ Stack(exp, place, frames, pos)
      /\ OpenHeads(frames, pos) \subseteq Whole(pos)
      /\ Found(f, place, O, Whole(pos) \ OpenHeads(frames, pos))
      /\ After(bytes, Expected(exp, place, frames, pos), f)
    BY <1>1 DEF StreamWith
<1>3. Kind(pos) \notin Clauses /\ ~ClauseNext(frames, pos) /\ HeadOf(pos) = pos
  <2>1. Kind(pos) \notin Clauses
    BY DEF Clauses, Cases
  <2> QED
    BY <1>0, <2>1, HeadKnown DEF ClauseNext
<1>4. ClauseNext(frames, n) /\ n \in Lines /\ Previous(n) = pos /\ HeadOf(n) = pos
    BY <1>0, CaseNext
<1>5. PICK e : /\ Stack(e, place, frames, n) /\ IsSeq(e[k])
               /\ exp[k] = Push(<<"statement", place[g]>>, e[k])
    BY <1>0, <1>2, <1>3, StackPassed
<1>6. BlockOf(pos) = g
    BY <1>0, <1>2, InnermostKnown
<1>7. IsSeq(first) /\ After(b, Expected(e, place, frames, n), f)
  <2> DEFINE x == e[k]
             at == place[g]
  <2>1. IsSeq(x) /\ After(bytes, Push(<<"statement", at>>, x), f)
    <3>1. Expected(exp, place, frames, pos) = exp[k]
        BY <1>3 DEF Expected
    <3> QED
        BY <1>2, <1>5, <3>1
  <2>2. LocOf(n, place) = <<"location", TagOf(Kind(pos)), at>>
    BY <1>4, <1>6 DEF LocOf
  <2>3. Expected(e, place, frames, n) = Rest(pos, LocOf(n, place), x)
    BY <1>4 DEF Expected
  <2> HIDE DEF x, at
  <2>4. IsSeq(first) /\ After(b, Rest(pos, <<"location", TagOf(Kind(pos)), at>>, x), f)
    BY <1>0, <2>1, ReadMatch
  <2> QED
    BY <2>2, <2>3, <2>4
<1>8. OpenHeads(frames, pos) = Heads(frames) /\ OpenHeads(frames, n) = Heads(frames) \cup {pos}
    BY <1>3, <1>4 DEF OpenHeads
<1>9. Whole(n) = Whole(pos) \cup {pos} /\ pos \notin Whole(pos)
  <2>1. \A q \in EmittedLines : q < n <=> q < pos \/ q = pos
    BY <1>0
  <2>2. ~(pos < pos)
    BY <1>0
  <2> QED
    BY <1>3, <2>1, <2>2 DEF Whole
<1>10. /\ OpenHeads(frames, n) \subseteq Whole(n)
       /\ Whole(n) \ OpenHeads(frames, n) = Whole(pos) \ OpenHeads(frames, pos)
    BY <1>2, <1>8, <1>9
<1>11. Places(place, O, n, b) /\ IsSeq(b)
    BY <1>0, <1>2, <1>7, PlacesKept, CatSeq
<1> HIDE DEF b, g, k
<1>12. StreamWith(place, O, e, f, frames, n, b)
    BY <1>2, <1>5, <1>7, <1>10, <1>11 DEF StreamWith
<1> QED
    BY <1>12 DEF StreamState, b

LEMMA MatchStep ==
    ASSUME IInv, GetattrInv, EffectsInv, ClausesInv, TreeInv, StreamState(frames, pos, bytes), Match
    PROVE  StreamState(frames', pos', bytes')
<1> DEFINE n == pos + 1
           first == <<Tag("match"), Expr(pos), Num(Cardinality(ClausesOf(pos, Cases)))>>
           last == IF ClausesOf(pos, Cases) = {} THEN <<Loc(pos), End>> ELSE << >>
<1>1. At({"match"}) /\ pos' = n /\ frames' = frames /\ bytes' = Cat(bytes, Cat(first, last))
    BY DEF Match, Write, Cat
<1>2. /\ phase # "parse" /\ pos \in Lines /\ pos <= stop /\ Kind(pos) = "match"
      /\ pos \in EmittedLines /\ Depth(pos) = Len(frames) /\ HeadsInv /\ IsSeq(bytes)
      /\ n \in Nat /\ NextAfter(pos, n) /\ \A q \in EmittedLines : ~(pos < q /\ q < n)
  <2>1. /\ phase # "parse" /\ pos \in Lines /\ pos <= stop /\ Kind(pos) \in {"match"}
        /\ pos \in EmittedLines /\ Depth(pos) = Len(frames) /\ HeadsInv /\ IsSeq(bytes)
        /\ n \in Nat /\ NextAfter(pos, n) /\ \A q \in EmittedLines : ~(pos < q /\ q < n)
    BY <1>1, AtLine
  <2> HIDE DEF n
  <2> QED
    BY <2>1
<1>3. n = pos + 1
    OBVIOUS
<1>4. IsSeq(first)
    BY ShortSeq
<1> HIDE DEF n
<1>5. CASE ClausesOf(pos, Cases) = {}
  <2>1. last = <<Loc(pos), End>>
    BY <1>5
  <2>2. StreamState(frames, n, Cat(bytes, Cat(first, <<Loc(pos), End>>)))
    BY <1>2, <1>3, <1>5, MatchAlone
  <2> HIDE DEF last, first
  <2> QED
    BY <1>1, <2>1, <2>2
<1>6. CASE ClausesOf(pos, Cases) # {}
  <2>1. last = << >>
    BY <1>6
  <2>2. StreamState(frames, n, Cat(bytes, first))
    BY <1>2, <1>3, <1>6, MatchOpened
  <2> HIDE DEF last, first
  <2>3. Cat(first, last) = first
    BY <1>4, <2>1, WrittenOneByOne
  <2> QED
    BY <1>1, <2>2, <2>3
<1> QED
    BY <1>5, <1>6
-----------------------------------------------------------------------------
(* The state the reader is in depends on the tree and where it is cut only. *)

LEMMA SameLines ==
    ASSUME UNCHANGED <<prog, skip_function_bodies, stop>>
    PROVE  /\ Lines' = Lines /\ EmittedLines' = EmittedLines
           /\ \A p : Kind(p)' = Kind(p) /\ Depth(p)' = Depth(p)
           /\ \A p : HeadOf(p)' = HeadOf(p) /\ Previous(p)' = Previous(p) /\ BlockOf(p)' = BlockOf(p)
           /\ \A p : BlockUnreachable(p)' <=> BlockUnreachable(p)
           /\ \A p, n : Left(p, n)' = Left(p, n)
           /\ \A p, kinds : Many(p, kinds)' = Many(p, kinds)
<1>1. Lines' = Lines /\ EmittedLines' = EmittedLines /\ \A h, p : Inside(h, p)' <=> Inside(h, p)
    BY SameMetadata
<1>2. (\A p : Kind(p)' = Kind(p)) /\ (\A p : Depth(p)' = Depth(p))
    BY DEF Kind, Depth
<1>3. \A p : HeadOf(p)' = HeadOf(p) /\ Previous(p)' = Previous(p)
    BY <1>2 DEF HeadOf, Previous, Highest
<1>4. \A p : BlockOf(p)' = BlockOf(p)
    BY <1>1 DEF BlockOf, Highest
<1>5. \A p : BlockUnreachable(p)' <=> BlockUnreachable(p)
  <2>1. \A h : Before(h)' = Before(h)
    BY <1>1, <1>2, <1>3 DEF Before
  <2>2. \A h : UnreachableBranch(h)' <=> UnreachableBranch(h)
    BY <1>2, <2>1 DEF UnreachableBranch, Decides
  <2> QED
    BY <1>1, <2>2 DEF BlockUnreachable, Unreachable
<1>6. \A p, n : Left(p, n)' = Left(p, n)
  <2>1. \A p : Stmts(p)' = Stmts(p)
    BY <1>1, <1>2 DEF Stmts, Body
  <2>2. \A p : StmtsOf(p)' = StmtsOf(p)
    BY <1>2, <2>1 DEF StmtsOf
  <2>3. \A p, n : StmtsFrom(p, n)' = StmtsFrom(p, n)
    BY <2>2 DEF StmtsFrom
  <2> QED
    BY <2>3 DEF Left
<1>7. \A p, kinds : Many(p, kinds)' = Many(p, kinds)
  <2>1. \A p, kinds : ClausesOf(p, kinds)' = ClausesOf(p, kinds)
    BY <1>1, <1>2, <1>3 DEF ClausesOf
  <2>2. \A p, kinds : ClausesAfter(p, kinds)' = ClausesAfter(p, kinds)
    BY <1>3, <2>1 DEF ClausesAfter
  <2> QED
    BY <2>2 DEF Many
<1> QED
    BY <1>1, <1>2, <1>3, <1>4, <1>5, <1>6, <1>7

LEMMA SameExpected ==
    ASSUME UNCHANGED <<prog, skip_function_bodies, stop>>
    PROVE  /\ \A exp, place, fs, n : Stack(exp, place, fs, n)' <=> Stack(exp, place, fs, n)
           /\ \A exp, place, fs, n : Expected(exp, place, fs, n)' = Expected(exp, place, fs, n)
           /\ \A fs, n : ClauseNext(fs, n)' <=> ClauseNext(fs, n)
<1>1. \A h, place : LocOf(h, place)' = LocOf(h, place)
    BY SameLines DEF LocOf
<1>2. \A h, kinds, t : Conditions(h, kinds, t)' = Conditions(h, kinds, t) /\ Handlers(h, t)' = Handlers(h, t)
    BY SameLines DEF Conditions, Handlers
<1>3. \A h, loc, s : Rest(h, loc, s)' = Rest(h, loc, s)
    BY <1>2, SameLines DEF Rest
<1>4. \A h, loc, s : AfterBlock(h, loc, s)' = AfterBlock(h, loc, s)
    BY <1>3, SameLines DEF AfterBlock
<1>5. \A exp, place, fs, i : Base(exp, place, fs, i)' = Base(exp, place, fs, i)
    BY <1>1, <1>4 DEF Base
<1>6. \A exp, place, fs, n, i : Level(exp, place, fs, n, i)' = Level(exp, place, fs, n, i)
    BY <1>5, SameLines DEF Level
<1>7. \A exp, place, fs, n : Stack(exp, place, fs, n)' <=> Stack(exp, place, fs, n)
    BY <1>6 DEF Stack
<1>8. \A fs, n : ClauseNext(fs, n)' <=> ClauseNext(fs, n)
    BY SameLines DEF ClauseNext
<1>9. \A exp, place, fs, n : Expected(exp, place, fs, n)' = Expected(exp, place, fs, n)
    BY <1>1, <1>3, <1>8, SameLines DEF Expected
<1> QED
    BY <1>7, <1>8, <1>9

LEMMA SameStream ==
    ASSUME UNCHANGED <<prog, skip_function_bodies, stop>>
    PROVE  \A fs, n, b : StreamState(fs, n, b)' <=> StreamState(fs, n, b)
<1>1. ASSUME NEW place, NEW O, NEW n, NEW b
      PROVE  Places(place, O, n, b)' <=> Places(place, O, n, b)
  <2>1. \A h : (b[place[h]][3] <=> BlockUnreachable(h))' <=> (b[place[h]][3] <=> BlockUnreachable(h))
    BY SameLines
  <2> QED
    BY <2>1, SameLines DEF Places
<1>2. \A p, place : FoundAt(p, place)' = FoundAt(p, place)
    BY SameLines DEF FoundAt
<1>3. \A f, place, O, E : Found(f, place, O, E)' <=> Found(f, place, O, E)
    BY <1>2, SameLines DEF Found
<1>4. \A fs, n : OpenHeads(fs, n)' = OpenHeads(fs, n)
  <2>1. \A fs : Heads(fs)' = Heads(fs)
    BY SameLines DEF Heads
  <2> QED
    BY <2>1, SameLines, SameExpected DEF OpenHeads
<1>5. \A n : Whole(n)' = Whole(n)
    BY SameLines DEF Whole
<1>6. ASSUME NEW place, NEW O, NEW exp, NEW f, NEW fs, NEW n, NEW b
      PROVE  StreamWith(place, O, exp, f, fs, n, b)' <=> StreamWith(place, O, exp, f, fs, n, b)
  <2>1. /\ Places(place, O, n, b)' <=> Places(place, O, n, b)
        /\ Stack(exp, place, fs, n)' <=> Stack(exp, place, fs, n)
        /\ OpenHeads(fs, n)' = OpenHeads(fs, n) /\ Whole(n)' = Whole(n)
        /\ Expected(exp, place, fs, n)' = Expected(exp, place, fs, n)
    BY <1>1, <1>4, <1>5, SameExpected
  <2>2. Found(f, place, O, Whole(n) \ OpenHeads(fs, n))'
          <=> Found(f, place, O, Whole(n) \ OpenHeads(fs, n))
    BY <1>3, <2>1
  <2> QED
    BY <2>1, <2>2 DEF StreamWith
<1> QED
    BY <1>6 DEF StreamState

\* Before the first statement.
LEMMA Started ==
    ASSUME IInv, ClausesInv, frames = << >>, pos = 1,
           bytes = <<Num(Cardinality({p \in 1..stop : Depth(p) = 0 /\ Kind(p) \notin Clauses}))>>
    PROVE  StreamState(frames, pos, bytes)
<1>0. Len(prog) \in Nat /\ Lines = 1..Len(prog) /\ EmittedLines \subseteq Lines
    BY TreeType DEF EmittedLines
<1> DEFINE place == [x \in Nat |-> 0]
           sym == <<<<"statement", 0>>>>
           more == Repeat(Left(0, 1), sym)
           exp == [i \in {0} |-> more]
<1>1. Left(0, 1) = Cardinality({p \in 1..stop : Depth(p) = 0 /\ Kind(p) \notin Clauses})
  <2>1. \A p \in 1..stop : 1 <= p
    BY DEF IInv, TypeInv
  <2>2. StmtsFrom(0, 1) = {p \in 1..stop : Depth(p) = 0 /\ Kind(p) \notin Clauses}
    BY <2>1 DEF StmtsFrom, StmtsOf
  <2> QED
    BY <2>2 DEF Left
<1>2. Left(0, 1) \in Nat
  <2>1. Len(frames) = 0 /\ BlockLine(frames, 0) = 0
    BY DEF BlockLine
  <2>2. 0 \in 0..Len(frames)
    BY <2>1
  <2> QED
    BY <2>1, <2>2, StmtsAre
<1>3. IsSeq(more) /\ Cat(more, << >>) = more
    BY <1>2, RepeatOne, WrittenOneByOne
<1>4. After(bytes, more, << >>)
  <2>1. <<<<"statements">>>> = Push(<<"statements">>, << >>)
    <3>1. \A a : Cat(<<a>>, << >>) = Push(a, << >>) /\ IsSeq(<<a>>)
        BY ShortSeq, PushConcat
    <3>2. \A a : Cat(<<a>>, << >>) = <<a>>
        BY <3>1, WrittenOneByOne
    <3> QED
        BY <3>1, <3>2
  <2>2. IsSeq(<< >>) /\ After(<< >>, Push(<<"statements">>, << >>), << >>)
    BY <2>1, AfterNothing, ShortSeq
  <2> DEFINE c == Left(0, 1)
             token == Num(c)
             empty == << >>
  <2>3. After(Append(empty, Num(c)), Cat(Repeat(c, <<<<"statement", 0>>>>), << >>), << >>)
    <3> HIDE DEF c
    <3> QED
        BY <2>2, ReadCount
  <2>4. Append(empty, token) = <<token>>
    <3>1. Cat(empty, <<token>>) = Append(empty, token)
        BY <2>2, WrittenOneByOne
    <3>2. IsSeq(<<token>>)
        BY ShortSeq
    <3>3. Cat(empty, <<token>>) = <<token>>
        BY <3>2, PushConcat
    <3> QED
        BY <3>1, <3>3
  <2>5. bytes = <<token>>
    BY <1>1
  <2> HIDE DEF token, more, empty
  <2> QED
    BY <1>3, <2>3, <2>4, <2>5 DEF token, more
<1>5. ~ClauseNext(<< >>, 1)
  <2>1. 1 \in Lines => Kind(1) \notin Clauses
    BY DEF ClausesInv
  <2> QED
    BY <2>1 DEF ClauseNext
<1>6. Len(<< >>) = 0 /\ \A i \in 1..Len(<< >>) : FALSE
    OBVIOUS
<1>7. OpenHeads(<< >>, 1) = {} /\ Whole(1) = {}
  <2>1. Heads(<< >>) = {}
    BY <1>6 DEF Heads
  <2>2. \A p \in EmittedLines : ~(p < 1)
    BY <1>0
  <2> QED
    BY <1>5, <2>1, <2>2 DEF OpenHeads, Whole
<1>8. Found(<< >>, place, {}, {})
    BY <1>6, ShortSeq DEF Found
<1>9. Places(place, {}, 1, bytes)
    BY DEF Places
<1>10. Stack(exp, place, << >>, 1)
  <2>1. BlockLine(<< >>, 0) = 0 /\ place[0] = 0 /\ exp[0] = more
    BY DEF BlockLine
  <2>2. Base(exp, place, << >>, 0) = << >>
    BY DEF Base
  <2>3. Level(exp, place, << >>, 1, 0) = Cat(more, << >>)
    BY <2>1, <2>2 DEF Level
  <2>4. \A i \in 0..Len(<< >>) : i = 0
    BY <1>6
  <2> HIDE DEF exp, more, place
  <2> QED
    BY <1>3, <2>1, <2>3, <2>4 DEF Stack
<1>11. Expected(exp, place, << >>, 1) = more
    BY <1>5, <1>6 DEF Expected
<1>12. IsSeq(bytes)
    BY ShortSeq
<1> HIDE DEF exp, more, place
<1>13. StreamWith(place, {}, exp, << >>, << >>, 1, bytes)
    BY <1>4, <1>6, <1>7, <1>8, <1>9, <1>10, <1>11, <1>12 DEF StreamWith
<1> QED
    BY <1>13 DEF StreamState
-----------------------------------------------------------------------------
(* The specification. *)

StreamInv ==
    /\ TreeInv
    /\ FrameKinds
    /\ phase # "parse" => StreamState(frames, pos, bytes)
    /\ phase = "done" => frames = << >>

\* The parser lets no block be empty that must not be.
LEMMA TreeStep == IInv /\ TreeInv /\ [Next]_vars => TreeInv'
<1> SUFFICES ASSUME IInv, TreeInv, [Next]_vars PROVE TreeInv'
    OBVIOUS
<1>0. Len(prog) \in Nat /\ Lines = 1..Len(prog) /\ prog \in Seq(LineType)
    BY TreeType DEF IInv, TypeInv
<1>1. CASE AddLine
  <2>1. PICK n \in Nat, line \in LineType :
              /\ n = Len(prog) /\ Fits(line)
              /\ line.kind \notin Conditional => line.truth = "Unknown"
              /\ Lines' = 1..(n + 1)
              /\ \A p \in 1..n : prog'[p] = prog[p]
              /\ prog'[n + 1] = line
    BY <1>1, LineAdded
  <2>2. \A p \in 1..n : Kind(p)' = Kind(p) /\ Depth(p)' = Depth(p)
    <3> TAKE p \in 1..n
    <3> QED
        BY <2>1 DEF Kind, Depth
  <2>3. Kind(n + 1)' = line.kind /\ Depth(n + 1)' = line.depth
    <3>1. (prog[n + 1].kind)' = line.kind /\ (prog[n + 1].depth)' = line.depth
        BY <2>1
    <3> QED
        BY <3>1 DEF Kind, Depth
  <2>4. phase' = "parse"
    BY <1>1 DEF AddLine
  <2>5. ASSUME NEW p \in 1..n, p + 1 \in 1..n
        PROVE  /\ Kind(p)' \notin OpensBlock => Depth(p + 1)' <= Depth(p)'
               /\ Kind(p)' \in NeedsBody => Depth(p + 1)' = Depth(p)' + 1
    <3>1. /\ Kind(p) \notin OpensBlock => Depth(p + 1) <= Depth(p)
          /\ Kind(p) \in NeedsBody => Depth(p + 1) = Depth(p) + 1
        BY <1>0, <2>1, <2>5 DEF TreeInv
    <3> DEFINE q == p + 1
    <3>2. Depth(q)' = Depth(q)
        BY <2>2, <2>5
    <3> QED
        BY <2>2, <3>1, <3>2
  <2>6. ASSUME n # 0
        PROVE  /\ Kind(n)' \notin OpensBlock => Depth(n + 1)' <= Depth(n)'
               /\ Kind(n)' \in NeedsBody => Depth(n + 1)' = Depth(n)' + 1
    <3>1. n \in 1..n /\ n > 0
        BY <2>1, <2>6
    <3>2. /\ line.depth <= IF n = 0 THEN 0
                           ELSE IF Kind(n) \in OpensBlock THEN Depth(n) + 1 ELSE Depth(n)
          /\ n > 0 /\ Kind(n) \in NeedsBody => line.depth = Depth(n) + 1
        BY <2>1 DEF Fits
    <3>3. Kind(n)' = Kind(n) /\ Depth(n)' = Depth(n)
        BY <2>2, <3>1
    <3> QED
        BY <2>3, <2>6, <3>1, <3>2, <3>3
  <2>7. ASSUME NEW p \in 1..(n + 1), p + 1 \in 1..(n + 1)
        PROVE  /\ Kind(p)' \notin OpensBlock => Depth(p + 1)' <= Depth(p)'
               /\ Kind(p)' \in NeedsBody => Depth(p + 1)' = Depth(p)' + 1
    <3>1. CASE p = n
        BY <2>6, <2>7, <3>1
    <3>2. CASE p # n
      <4>1. p \in 1..n /\ p + 1 \in 1..n
        BY <2>1, <2>7, <3>2
      <4> QED
        BY <2>5, <4>1
    <3> QED
        BY <3>1, <3>2
  <2>8. \A p \in Lines' : p + 1 \in Lines' =>
           /\ Kind(p)' \notin OpensBlock => Depth(p + 1)' <= Depth(p)'
           /\ Kind(p)' \in NeedsBody => Depth(p + 1)' = Depth(p)' + 1
    BY <2>1, <2>7
  <2> QED
    BY <2>4, <2>8 DEF TreeInv
<1>2. CASE StartModule
  <2>1. UNCHANGED prog /\ (prog # << >> => Kind(Len(prog)) \notin NeedsBody)
    BY <1>2 DEF StartModule
  <2>2. Len(prog) # 0 => prog # << >>
    BY <1>0
  <2> QED
    BY <2>1, <2>2 DEF TreeInv, Lines, Kind, Depth
<1>3. CASE UNCHANGED prog /\ (phase = "parse" => phase' = "parse")
    BY <1>3 DEF TreeInv, Lines, Kind, Depth
<1>4. Serialize => phase = "serialize" /\ UNCHANGED prog
    BY DEF Serialize, SimpleStmt, ImportStmt, FunctionDef, FunctionOmitted, ClassDef, Branch,
       Plain, Match, EndBlock, Finish, OpenBlock, At
<1>5. Done \/ UNCHANGED vars => UNCHANGED <<prog, phase>>
    BY DEF Done, vars
<1> QED
    BY <1>1, <1>2, <1>3, <1>4, <1>5 DEF Next

\* Only lines with a block are open.
LEMMA FrameStep == IInv /\ FrameKinds /\ [Next]_vars => FrameKinds'
<1> SUFFICES ASSUME IInv, FrameKinds, [Next]_vars PROVE FrameKinds'
    OBVIOUS
<1>0. /\ Len(frames) \in Nat /\ frames \in Seq(Frame) /\ Len(prog) \in Nat /\ Lines = 1..Len(prog)
      /\ \A i \in 1..Len(frames) : frames[i].line \in Lines
  <2>1. frames \in Seq(Frame) /\ Len(frames) \in Nat /\ Len(prog) \in Nat /\ Lines = 1..Len(prog)
    BY TreeType DEF IInv, TypeInv
  <2>2. pos \in 1..(Len(prog) + 1) /\ \A i \in 1..Len(frames) : frames[i].line \in 1..(pos - 1)
    BY DEF IInv, TypeInv, StackInv
  <2> QED
    BY <2>1, <2>2
<1>a. ASSUME UNCHANGED <<prog, frames>>
      PROVE  FrameKinds'
    BY <1>a DEF FrameKinds, Kind
<1>b. ASSUME NEW kinds, kinds \subseteq OpensBlock, At(kinds), NEW class, NEW function, NEW flags,
             OpenBlock(class, function, flags)
      PROVE  FrameKinds'
  <2>1. Kind(pos) \in OpensBlock /\ UNCHANGED prog
    BY <1>b DEF At, OpenBlock
  <2>2. PICK fr : frames' = Append(frames, fr) /\ fr.line = pos
    BY <1>b DEF OpenBlock
  <2>3. fr \in Frame
    BY <1>b, <2>2 DEF OpenBlock, Frame, IInv, TypeInv
  <2>4. /\ Len(frames') = Len(frames) + 1
        /\ \A i \in 1..Len(frames) : frames'[i] = frames[i]
        /\ frames'[Len(frames) + 1] = fr
    BY <1>0, <2>2, <2>3, AppendProperties
  <2>5. ASSUME NEW i \in 1..(Len(frames) + 1)
        PROVE  (Kind(frames[i].line))' \in OpensBlock
    <3>1. i \in 1..Len(frames) \/ i = Len(frames) + 1
        BY <1>0
    <3>2. CASE i \in 1..Len(frames)
        BY <2>1, <2>4, <3>2 DEF FrameKinds, Kind
    <3>3. CASE i = Len(frames) + 1
        BY <2>1, <2>2, <2>4, <3>3 DEF Kind
    <3> QED
        BY <3>1, <3>2, <3>3
  <2> QED
    BY <2>4, <2>5 DEF FrameKinds
<1>1. CASE AddLine
  <2>1. frames' = << >>
    BY <1>1 DEF AddLine, IInv, ParseInv
  <2> QED
    BY <2>1 DEF FrameKinds
<1>2. CASE StartModule \/ SimpleStmt \/ ImportStmt \/ FunctionOmitted \/ Match \/ Finish \/ Done
    BY <1>2, <1>a DEF StartModule, SimpleStmt, ImportStmt, FunctionOmitted, Match, Finish, Done, vars
<1>3. /\ Funcs \subseteq OpensBlock /\ {"class"} \subseteq OpensBlock /\ Branches \subseteq OpensBlock
      /\ {"loop", "loop_else", "try", "except", "try_else", "finally"} \subseteq OpensBlock
    BY DEF OpensBlock, Headers, Funcs, Branches, Clauses, Cases
<1>4. CASE FunctionDef \/ ClassDef \/ Branch \/ Plain
    BY <1>4, <1>3, <1>b DEF FunctionDef, ClassDef, Branch, Plain
<1>5. CASE EndBlock
  <2> DEFINE k == Len(frames)
  <2>1. frames # << >> /\ frames' = SubSeq(frames, 1, k - 1) /\ UNCHANGED prog
    BY <1>5 DEF EndBlock
  <2>2. k \in Nat /\ k # 0
    BY <1>0, <2>1, EmptySeq
  <2>3. \A i \in 1..(k - 1) : frames[i] \in Frame
    BY <1>0
  <2>4. /\ Len(frames') = IF 1 <= k - 1 THEN (k - 1) - 1 + 1 ELSE 0
        /\ \A i \in 1..((k - 1) - 1 + 1) : frames'[i] = frames[1 + i - 1]
    BY <1>0, <2>1, <2>2, <2>3, SubSeqProperties
  <2>5. \A i \in 1..k : Kind(frames[i].line) \in OpensBlock
    BY DEF FrameKinds
  <2> HIDE DEF k
  <2>6. Len(frames') = k - 1
    BY <2>2, <2>4
  <2>7. ASSUME NEW i \in 1..(k - 1)
        PROVE  frames'[i] = frames[i] /\ i \in 1..k
    <3>1. i \in 1..((k - 1) - 1 + 1) /\ 1 + i - 1 = i
        BY <2>2
    <3> QED
        BY <2>2, <2>4, <3>1
  <2> QED
    BY <2>1, <2>5, <2>6, <2>7 DEF FrameKinds, Kind
<1> QED
    BY <1>1, <1>2, <1>4, <1>5, <1>a DEF Next, Serialize, vars

LEMMA StartedPrimed ==
    (IInv /\ ClausesInv /\ frames = << >> /\ pos = 1
        /\ bytes = <<Num(Cardinality({p \in 1..stop : Depth(p) = 0 /\ Kind(p) \notin Clauses}))>>
        => StreamState(frames, pos, bytes))'
<1>1. IInv /\ ClausesInv /\ frames = << >> /\ pos = 1
        /\ bytes = <<Num(Cardinality({p \in 1..stop : Depth(p) = 0 /\ Kind(p) \notin Clauses}))>>
        => StreamState(frames, pos, bytes)
    BY Started
<1> QED
    BY <1>1, PTL

\* Every step of the walk leaves the reader where the next one needs it.
LEMMA StreamStep ==
    IInv /\ GetattrInv /\ EffectsInv /\ MetadataInv /\ StreamInv /\ [Next]_vars => StreamInv'
<1> SUFFICES ASSUME IInv, GetattrInv, EffectsInv, MetadataInv, StreamInv, [Next]_vars
             PROVE  StreamInv'
    OBVIOUS
<1>1. TreeInv' /\ FrameKinds'
    BY TreeStep, FrameStep DEF StreamInv
<1>2. /\ ClausesInv /\ TreeInv /\ FrameKinds
      /\ phase # "parse" => StreamState(frames, pos, bytes)
    BY DEF MetadataInv, StreamInv
\* The walk goes on.
<1>a. ASSUME UNCHANGED <<prog, skip_function_bodies, stop>>, phase' # "done",
             StreamState(frames', pos', bytes')
      PROVE  StreamInv'
  <2>1. StreamState(frames, pos, bytes)'
    BY <1>a, SameStream
  <2> QED
    BY <1>1, <1>a, <2>1 DEF StreamInv
<1>b. ASSUME NEW kinds, kinds \subseteq OpensBlock, At(kinds), NEW class, NEW function, NEW flags,
             OpenBlock(class, function, flags), flags.unreachable <=> UnreachableBranch(pos)
      PROVE  StreamInv'
  <2>1. phase = "serialize" /\ UNCHANGED <<prog, skip_function_bodies, stop, phase>>
    BY <1>b DEF At, OpenBlock
  <2>2. StreamState(frames', pos', bytes')
    BY <1>2, <1>b, <2>1, OpenStep
  <2> QED
    BY <1>a, <2>1, <2>2
\* A block that is no branch.
<1>c. ASSUME NEW kinds, kinds \subseteq OpensBlock, kinds \cap Branches = {}, At(kinds),
             NEW class, NEW function, OpenBlock(class, function, NoFlags)
      PROVE  StreamInv'
  <2>1. Kind(pos) \in kinds
    BY <1>c DEF At
  <2>2. NoFlags.unreachable <=> UnreachableBranch(pos)
    BY <1>c, <2>1 DEF NoFlags, UnreachableBranch
  <2> QED
    BY <1>b, <1>c, <2>2
<1>3. CASE AddLine
  <2>1. phase' = "parse"
    BY <1>3 DEF AddLine
  <2> QED
    BY <1>1, <2>1 DEF StreamInv
<1>4. CASE StartModule
  <2>1. IInv' /\ ClausesInv'
    BY StepInvariant, ClausesStep DEF MetadataInv
  <2>2. phase = "parse" /\ phase' = "serialize" /\ UNCHANGED <<prog, pos, frames>>
    BY <1>4 DEF StartModule, context
  <2>3. frames' = << >> /\ pos' = 1
    BY <2>2 DEF IInv, ParseInv
  <2>4. (bytes = <<Num(Cardinality({p \in 1..stop : Depth(p) = 0 /\ Kind(p) \notin Clauses}))>>)'
    <3>1. PICK last : /\ stop' = last
                      /\ bytes' = <<Num(Cardinality({p \in 1..last :
                                     Depth(p) = 0 /\ Kind(p) \notin Clauses}))>>
        BY <1>4 DEF StartModule
    <3>2. {p \in 1..last : Depth(p) = 0 /\ Kind(p) \notin Clauses} =
            {p \in 1..stop' : Depth(p)' = 0 /\ Kind(p)' \notin Clauses}
        BY <2>2, <3>1 DEF Depth, Kind
    <3> QED
        BY <3>1, <3>2 DEF Num
  <2>5. StreamState(frames, pos, bytes)'
    BY <2>1, <2>3, <2>4, StartedPrimed
  <2> QED
    BY <1>1, <2>2, <2>5 DEF StreamInv
<1>5. CASE SimpleStmt
  <2>1. phase = "serialize" /\ phase' = "serialize" /\ UNCHANGED <<prog, skip_function_bodies, stop>>
    BY <1>5 DEF SimpleStmt, At
  <2>2. StreamState(frames', pos', bytes')
    BY <1>2, <1>5, <2>1, SimpleStep
  <2> QED
    BY <1>a, <2>1, <2>2
<1>6. CASE ImportStmt
  <2>1. phase = "serialize" /\ phase' = "serialize" /\ UNCHANGED <<prog, skip_function_bodies, stop>>
    BY <1>6 DEF ImportStmt, At
  <2>2. StreamState(frames', pos', bytes')
    BY <1>2, <1>6, <2>1, ImportStep
  <2> QED
    BY <1>a, <2>1, <2>2
<1>7. CASE FunctionOmitted
  <2>1. phase = "serialize" /\ phase' = "serialize" /\ UNCHANGED <<prog, skip_function_bodies, stop>>
    BY <1>7 DEF FunctionOmitted, At
  <2>2. StreamState(frames', pos', bytes')
    BY <1>2, <1>7, <2>1, OmittedStep
  <2> QED
    BY <1>a, <2>1, <2>2
<1>8. CASE Match
  <2>1. phase = "serialize" /\ phase' = "serialize" /\ UNCHANGED <<prog, skip_function_bodies, stop>>
    BY <1>8 DEF Match, At
  <2>2. StreamState(frames', pos', bytes')
    BY <1>2, <1>8, <2>1, MatchStep
  <2> QED
    BY <1>a, <2>1, <2>2
<1>9. CASE EndBlock
  <2>1. phase = "serialize" /\ phase' = "serialize" /\ UNCHANGED <<prog, skip_function_bodies, stop>>
    BY <1>9 DEF EndBlock
  <2>2. StreamState(frames', pos', bytes')
    BY <1>2, <1>9, <2>1, EndStep
  <2> QED
    BY <1>a, <2>1, <2>2
<1>10. CASE FunctionDef
  <2>1. Funcs \subseteq OpensBlock /\ Funcs \cap Branches = {}
    BY DEF Funcs, OpensBlock, Headers, Branches, Cases
  <2> QED
    BY <1>c, <1>10, <2>1 DEF FunctionDef
<1>11. CASE ClassDef
  <2>1. {"class"} \subseteq OpensBlock /\ {"class"} \cap Branches = {}
    BY DEF OpensBlock, Headers, Branches, Cases
  <2> QED
    BY <1>c, <1>11, <2>1 DEF ClassDef
<1>12. CASE Plain
  <2> DEFINE kinds == {"loop", "loop_else", "try", "except", "try_else", "finally"}
  <2>1. kinds \subseteq OpensBlock /\ kinds \cap Branches = {}
    BY DEF OpensBlock, Headers, Clauses, Branches, Cases
  <2> QED
    BY <1>c, <1>12, <2>1 DEF Plain
<1>13. CASE Branch
  <2>1. At(Branches) /\ OpenBlock(in_class, in_function, BranchFlags(pos))
    BY <1>13 DEF Branch
  <2>2. pos \in Lines /\ Kind(pos) \in Branches
    BY <1>2, <2>1, NextEmitted
  <2>3. BranchFlags(pos).unreachable <=> UnreachableBranch(pos)
    BY <2>2, FlagsExact DEF EffectsInv, MetadataInv
  <2>4. Branches \subseteq OpensBlock
    BY DEF OpensBlock, Headers, Clauses, Branches, Cases
  <2> QED
    BY <1>b, <2>1, <2>3, <2>4
<1>14. CASE Finish \/ Done \/ UNCHANGED vars
  <2>1. /\ UNCHANGED <<prog, skip_function_bodies, stop, pos, frames, bytes>>
        /\ phase' # "parse" => phase # "parse"
        /\ phase' = "done" => frames = << >>
    BY <1>14 DEF Finish, Done, vars, StreamInv
  <2>2. ASSUME phase' # "parse"
        PROVE  StreamState(frames, pos, bytes)'
    <3>1. StreamState(frames', pos', bytes')
        BY <1>2, <2>1, <2>2
    <3> QED
        BY <2>1, <3>1, SameStream
  <2> QED
    BY <1>1, <2>1, <2>2 DEF StreamInv
<1> QED
    BY <1>3, <1>4, <1>5, <1>6, <1>7, <1>8, <1>9, <1>10, <1>11, <1>12, <1>13, <1>14
    DEF Next, Serialize

\* A statement is found once, so there are as many entries as statements.
LEMMA FoundCount ==
    ASSUME NEW f, NEW place, NEW O, NEW E, Found(f, place, O, E), NEW L,
           L = {f[i].line : i \in 1..Len(f)}
    PROVE  Cardinality(L) = Len(f)
<1> DEFINE g == [i \in 1..Len(f) |-> f[i].line]
<1>1. Len(f) \in Nat /\ \A i, j \in 1..Len(f) : f[i].line = f[j].line => i = j
  <2>1. PICK S : f \in Seq(S)
    BY DEF Found, IsSeq
  <2> QED
    BY <2>1, LenProperties DEF Found
<1>2. g \in Injection(1..Len(f), L)
    BY <1>1 DEF Injection, IsInjective
<1>3. g \in Surjection(1..Len(f), L)
    BY DEF Surjection
<1>4. ExistsBijection(1..Len(f), L)
    BY <1>2, <1>3 DEF ExistsBijection, Bijection
<1> QED
    BY <1>1, <1>4, FS_CountingElements

\* At the end nothing is expected, and all that is emitted is found.
LEMMA AllFound ==
    ASSUME IInv, GetattrInv, StreamInv, phase = "done"
    PROVE  \E place, O, f :
              /\ Places(place, O, pos, bytes)
              /\ Found(f, place, O, {p \in EmittedLines : Kind(p) \notin Clauses})
              /\ IsSeq(bytes) /\ After(bytes, << >>, f)
<1>0. /\ Len(prog) \in Nat /\ Lines = 1..Len(prog) /\ stop \in 0..Len(prog) /\ pos \in Nat
      /\ pos > stop /\ KeptLines = 1..stop /\ frames = << >> /\ Len(frames) = 0
    BY TreeType DEF IInv, TypeInv, GetattrInv, StreamInv
<1>1. PICK place, O, exp, f : StreamWith(place, O, exp, f, frames, pos, bytes)
    BY DEF StreamInv, StreamState
<1>2. ~ClauseNext(frames, pos)
    BY <1>0 DEF ClauseNext
<1>3. OpenHeads(frames, pos) = {}
  <2>1. Heads(frames) = {}
    BY <1>0 DEF Heads
  <2> QED
    BY <1>2, <2>1 DEF OpenHeads
<1>4. Whole(pos) = {p \in EmittedLines : Kind(p) \notin Clauses}
  <2>1. \A p \in EmittedLines : p < pos
    BY <1>0 DEF EmittedLines, Emitted, KeptLines
  <2> QED
    BY <2>1 DEF Whole
<1>5. Left(0, pos) = 0
  <2>1. \A p \in 1..stop : ~(pos <= p)
    BY <1>0
  <2>2. StmtsFrom(0, pos) = {}
    BY <2>1 DEF StmtsFrom, StmtsOf
  <2> QED
    BY <2>2, FS_EmptySet DEF Left
<1>6. Expected(exp, place, frames, pos) = << >>
  <2>1. Expected(exp, place, frames, pos) = exp[0]
    BY <1>0, <1>2 DEF Expected
  <2>2. exp[0] = Level(exp, place, frames, pos, 0)
    BY <1>0, <1>1 DEF StreamWith, Stack
  <2> DEFINE sym == <<"statement", place[0]>>
  <2>3. Level(exp, place, frames, pos, 0) = Cat(Repeat(0, <<sym>>), << >>)
    BY <1>5 DEF Level, BlockLine, Base
  <2>4. Cat(Repeat(0, <<sym>>), << >>) = << >>
    <3> HIDE DEF sym
    <3>1. Repeat(0, <<sym>>) = << >>
        BY RepeatOne
    <3>2. Cat(<< >>, << >>) = << >>
        BY ShortSeq, PushConcat
    <3> QED
        BY <3>1, <3>2
  <2> QED
    BY <2>1, <2>2, <2>3, <2>4
<1>7. /\ Places(place, O, pos, bytes) /\ IsSeq(bytes)
      /\ Found(f, place, O, Whole(pos) \ OpenHeads(frames, pos))
      /\ After(bytes, Expected(exp, place, frames, pos), f)
    BY <1>1 DEF StreamWith
<1>8. Found(f, place, O, {p \in EmittedLines : Kind(p) \notin Clauses})
    BY <1>3, <1>4, <1>7
<1> QED
    BY <1>6, <1>7, <1>8

LEMMA StreamMeaning == IInv /\ GetattrInv /\ StreamInv => StreamReadsBack
<1> SUFFICES ASSUME IInv, GetattrInv, StreamInv, phase = "done"
             PROVE  LET r == Reading[Len(bytes)]
                        stmts == {r.found[i] : i \in 1..Len(r.found)}
                        marked == {i \in 1..Len(bytes) : bytes[i][1] = "block" /\ bytes[i][3]}
                    IN /\ r.expected = << >>
                       /\ {<<n.line, n.tag>> : n \in stmts} =
                            {<<p, TagOf(Kind(p))>> :
                                p \in {q \in Lines : Kind(q) \notin Clauses /\ Emitted(q)}}
                       /\ Len(r.found) = Cardinality({n.line : n \in stmts})
                       /\ \A n \in stmts : n.parent \in marked <=> Unreachable(n.line)
                       /\ \A m, n \in stmts :
                             m.parent = n.parent <=> BlockOf(m.line) = BlockOf(n.line)
    BY DEF StreamReadsBack
<1> DEFINE E == {p \in EmittedLines : Kind(p) \notin Clauses}
<1>1. PICK place, O, f : /\ Places(place, O, pos, bytes) /\ Found(f, place, O, E)
                         /\ IsSeq(bytes) /\ After(bytes, << >>, f)
    BY AllFound
<1> DEFINE stmts == {f[i] : i \in 1..Len(f)}
           marked == {i \in 1..Len(bytes) : bytes[i][1] = "block" /\ bytes[i][3]}
<1>2. Reading[Len(bytes)] = [expected |-> << >>, found |-> f]
    BY <1>1, ReadingIs DEF BytesInv, IsSeq
<1>3. E = {q \in Lines : Kind(q) \notin Clauses /\ Emitted(q)} /\ E \subseteq Lines
    BY DEF EmittedLines
<1>4. /\ \A i \in 1..Len(f) : f[i].line \in E /\ f[i] = FoundAt(f[i].line, place)
      /\ \A p \in E : BlockOf(p) \in O \cup {0} /\ \E i \in 1..Len(f) : f[i].line = p
    BY <1>1 DEF Found
<1>5. \A n \in stmts : n.line \in E /\ n = FoundAt(n.line, place)
    BY <1>4
<1>6. \A p \in E : BlockOf(p) \in O \cup {0} /\ FoundAt(p, place) \in stmts
  <2> TAKE p \in E
  <2>1. PICK i \in 1..Len(f) : f[i].line = p
    BY <1>4
  <2> QED
    BY <1>4, <2>1
<1>7. \A p : /\ FoundAt(p, place).line = p /\ FoundAt(p, place).tag = TagOf(Kind(p))
             /\ FoundAt(p, place).parent = place[BlockOf(p)]
    BY DEF FoundAt
<1>8. /\ place[0] = 0 /\ O \subseteq Lines /\ \A g, h \in O : place[g] = place[h] => g = h
      /\ \A h \in O : /\ place[h] \in 1..Len(bytes) /\ bytes[place[h]][1] = "block"
                      /\ bytes[place[h]][3] <=> BlockUnreachable(h)
    BY <1>1 DEF Places
<1>9. \A h \in O : h # 0 /\ place[h] # 0
    BY <1>8, TreeType
<1>10. {<<n.line, n.tag>> : n \in stmts} = {<<p, TagOf(Kind(p))>> : p \in E}
  <2> HIDE DEF E, stmts
  <2> QED
    BY <1>5, <1>6, <1>7
<1>11. Len(f) = Cardinality({n.line : n \in stmts})
  <2>1. {n.line : n \in stmts} = {f[i].line : i \in 1..Len(f)}
    OBVIOUS
  <2> HIDE DEF E
  <2> QED
    BY <1>1, <2>1, FoundCount
<1>12. ASSUME NEW n \in stmts
       PROVE  n.parent \in marked <=> Unreachable(n.line)
  <2> DEFINE p == n.line
             h == BlockOf(p)
  <2>1. p \in Lines /\ h \in O \cup {0} /\ n.parent = place[h]
    <3>1. p \in E /\ n = FoundAt(p, place)
        BY <1>5, <1>12
    <3> HIDE DEF E, p, stmts
    <3> QED
        BY <1>3, <1>6, <1>7, <3>1
  <2> HIDE DEF p, stmts
  <2>2. Unreachable(p) <=> h # 0 /\ BlockUnreachable(h)
    BY <2>1, UnreachableIs
  <2>3. CASE h = 0
    <3>1. n.parent = 0
        BY <1>8, <2>1, <2>3
    <3> QED
        BY <2>2, <2>3, <3>1 DEF p
  <2>4. CASE h \in O
    <3> HIDE DEF h
    <3> QED
        BY <1>8, <1>9, <2>1, <2>2, <2>4 DEF p
  <2> QED
    BY <2>1, <2>3, <2>4
<1>13. ASSUME NEW m \in stmts, NEW n \in stmts
       PROVE  m.parent = n.parent <=> BlockOf(m.line) = BlockOf(n.line)
  <2>1. /\ BlockOf(m.line) \in O \cup {0} /\ m.parent = place[BlockOf(m.line)]
        /\ BlockOf(n.line) \in O \cup {0} /\ n.parent = place[BlockOf(n.line)]
    <3> HIDE DEF E, stmts
    <3> QED
        BY <1>5, <1>6, <1>7, <1>13
  <2> QED
    BY <1>8, <1>9, <2>1
<1>14. Reading[Len(bytes)].expected = << >> /\ Reading[Len(bytes)].found = f
    BY <1>2
<1>15. {Reading[Len(bytes)].found[i] : i \in 1..Len(Reading[Len(bytes)].found)} = stmts
    BY <1>14
<1>16. {<<n.line, n.tag>> : n \in stmts} =
         {<<p, TagOf(Kind(p))>> : p \in {q \in Lines : Kind(q) \notin Clauses /\ Emitted(q)}}
    BY <1>3, <1>10
<1>17. /\ \A n \in stmts : n.parent \in marked <=> Unreachable(n.line)
       /\ \A m, n \in stmts : m.parent = n.parent <=> BlockOf(m.line) = BlockOf(n.line)
    BY <1>12, <1>13
<1> HIDE DEF E, stmts
<1> QED
    BY <1>11, <1>14, <1>15, <1>16, <1>17, Zenon
-----------------------------------------------------------------------------
LEMMA StreamInvariant ==
    Spec => [](IInv /\ GetattrInv /\ EffectsInv /\ MetadataInv /\ StreamInv)
<1>1. Init => StreamInv
    BY DEF Init, StreamInv, TreeInv, FrameKinds, Lines
<1>2. IInv /\ GetattrInv /\ EffectsInv /\ MetadataInv /\ StreamInv /\ [Next]_vars => StreamInv'
    BY StreamStep
<1> QED
    BY <1>1, <1>2, MetadataInvariant, PTL DEF Spec

\* For every program, a reader that knows the grammar only consumes the whole
\* stream and finds the statements that are kept, each once, with its tag, in the
\* blocks they are in, and marked unreachable exactly if they are
\* (Stmt::serialize, serialize_block, serialize_if_stmt, Mod::serialize).
THEOREM StreamRoundTrip == Spec => []StreamReadsBack
    BY StreamInvariant, StreamMeaning, PTL
=============================================================================
