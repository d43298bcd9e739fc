------------------------- MODULE SerializeFileProofs ------------------------
(***************************************************************************)
(* What a call returns is of the text it returns the hash of, for all      *)
(* contents of the file, however often others rewrite it.                  *)
(***************************************************************************)
EXTENDS SerializeFile, FiniteSetTheorems, SequenceTheorems, TLAPS
-----------------------------------------------------------------------------
(* What the collection of comments has collected, between any two parts of any  *)
(* file: of the parts already taken, for each line the first of a kind that     *)
(* counts, in the order of the lines, and an error for each of the others.      *)

FileInv ==
    /\ cache_version \in Nat
    /\ comments \in Seq(Comments)
    /\ \A i \in 1..Len(comments) : comments[i].parts # << >>
    /\ \A i, j \in 1..Len(comments) : i < j => comments[i].line < comments[j].line

\* The part at j of comment i is what ends the loop in commented out code.
Unknown(i, j) ==
    /\ comments[i].parts[j] \notin Parsed \cup {"blank"}
    /\ j > 1 => comments[i].parts[j - 1] # "blank"

\* Where the loop over the parts is.
LoopInv ==
    /\ at \in 0..Len(comments)
    /\ next_part \in Nat \ {0}
    /\ ignore_next \in BOOLEAN /\ stopped \in BOOLEAN
    /\ \A i \in 1..Len(comments) : i = at =>
          /\ next_part <= Len(comments[i].parts) + 1
          /\ ignore_next <=> next_part > 1 /\ comments[i].parts[next_part - 1] = "blank"
          /\ stopped <=> /\ SkipCommented(comments[i])
                         /\ \E j \in 1..(next_part - 1) : Unknown(i, j)

\* The parts of comment i that count and have been looked at.
Taken(i, kinds) ==
    {k \in Counted(comments[i], kinds) : i < at \/ (i = at /\ k < next_part)}

LEMMA FileType ==
    ASSUME FileInv
    PROVE  /\ Len(comments) \in Nat
           /\ \A i \in 1..Len(comments) :
                 /\ comments[i] \in Comments
                 /\ comments[i].line \in Nat
                 /\ comments[i].parts \in Seq(Kinds)
                 /\ Len(comments[i].parts) \in Nat \ {0}
                 /\ \A k \in 1..Len(comments[i].parts) : comments[i].parts[k] \in Kinds
<1>1. comments \in Seq(Comments)
  BY DEF FileInv
<1>2. ASSUME NEW i \in 1..Len(comments)
      PROVE  /\ comments[i] \in Comments
             /\ comments[i].line \in Nat
             /\ comments[i].parts \in Seq(Kinds)
  <2>1. comments[i] \in Comments
    BY <1>1, ElementOfSeq
  <2> QED
    BY <2>1 DEF Comments
<1>3. ASSUME NEW i \in 1..Len(comments)
      PROVE  /\ Len(comments[i].parts) \in Nat \ {0}
             /\ \A k \in 1..Len(comments[i].parts) : comments[i].parts[k] \in Kinds
  BY <1>2, EmptySeq, ElementOfSeq DEF FileInv
<1> QED
  BY <1>1, <1>2, <1>3

\* The part looked at counts as the loop decides, and behind the loop none does.
LEMMA CountsNow ==
    ASSUME FileInv, LoopInv, PartsLeft
    PROVE  /\ at \in 1..Len(comments) /\ next_part \in 1..Len(comments[at].parts)
           /\ Counts(comments[at], next_part) <=> CurrentPart \in Parsed /\ ~ignore_next
<1>1. at \in 1..Len(comments) /\ next_part \in 1..Len(comments[at].parts)
  BY FileType DEF LoopInv, PartsLeft
<1>2. ~(/\ SkipCommented(comments[at])
        /\ \E j \in 1..(next_part - 1) : Unknown(at, j))
  BY <1>1 DEF LoopInv, PartsLeft
<1>3. ignore_next <=> next_part > 1 /\ comments[at].parts[next_part - 1] = "blank"
  BY <1>1 DEF LoopInv
<1>4. SkipCommented(comments[at]) =>
         \A j \in 1..(next_part - 1) :
            \/ comments[at].parts[j] \in Parsed \cup {"blank"}
            \/ j > 1 /\ comments[at].parts[j - 1] = "blank"
  BY <1>2 DEF Unknown
<1> QED
  BY <1>1, <1>3, <1>4 DEF Counts, CurrentPart, SkipCommented

LEMMA NoneBehind ==
    ASSUME FileInv, LoopInv, at > 0, ~PartsLeft, NEW kinds
    PROVE  \A k \in Counted(comments[at], kinds) : k < next_part
<1>1. at \in 1..Len(comments) /\ next_part \in Nat /\ Len(comments[at].parts) \in Nat
  BY FileType DEF LoopInv
<1>2. SUFFICES ASSUME NEW k \in Counted(comments[at], kinds), ~(k < next_part)
               PROVE  FALSE
  OBVIOUS
<1>3. k \in 1..Len(comments[at].parts) /\ Counts(comments[at], k)
  BY DEF Counted
<1>4. stopped
  BY <1>1, <1>2, <1>3 DEF PartsLeft
<1>5. PICK j \in 1..(next_part - 1) : SkipCommented(comments[at]) /\ Unknown(at, j)
  BY <1>1, <1>4 DEF LoopInv
<1>6. j \in 1..(k - 1)
  BY <1>1, <1>2, <1>3
<1> QED
  BY <1>3, <1>5, <1>6 DEF Counts, Unknown, SkipCommented

LEMMA SameComments ==
    ASSUME UNCHANGED <<comments, cache_version>>, FileInv
    PROVE  /\ FileInv'
           /\ \A i, kinds : Counted(comments[i], kinds)' = Counted(comments[i], kinds)
           /\ \A i : SkipCommented(comments[i])' <=> SkipCommented(comments[i])
           /\ \A i, j : Unknown(i, j)' <=> Unknown(i, j)
BY DEF FileInv, Counted, Counts, SkipCommented, Unknown

\* A turn of the loop over the parts.
LEMMA TakenTurn ==
    ASSUME FileInv, LoopInv, Turn, NEW kinds, NEW i \in 1..Len(comments)
    PROVE  Taken(i, kinds)' =
              IF i = at /\ CurrentPart \in kinds /\ CurrentPart \in Parsed /\ ~ignore_next
              THEN Taken(i, kinds) \cup {next_part}
              ELSE Taken(i, kinds)
<1>1. /\ at \in 1..Len(comments) /\ next_part \in 1..Len(comments[at].parts)
      /\ Counts(comments[at], next_part) <=> CurrentPart \in Parsed /\ ~ignore_next
  BY CountsNow DEF Turn
<1>2. at' = at /\ next_part' = next_part + 1 /\ UNCHANGED <<comments, cache_version>>
  BY DEF Turn
<1>3. Taken(i, kinds)' =
         {k \in Counted(comments[i], kinds) : i < at \/ (i = at /\ k < next_part + 1)}
  BY <1>2, SameComments DEF Taken
<1>4. \A k \in Counted(comments[i], kinds) : k \in Nat
  BY FileType DEF Counted
<1>5. next_part \in Counted(comments[at], kinds)
         <=> CurrentPart \in kinds /\ CurrentPart \in Parsed /\ ~ignore_next
  BY <1>1 DEF Counted, CurrentPart
<1>6. \A k \in Counted(comments[i], kinds) : k < next_part + 1 <=> k < next_part \/ k = next_part
  BY <1>1, <1>4
<1> QED
  BY <1>1, <1>3, <1>5, <1>6 DEF Taken

LEMMA TakenNext ==
    ASSUME FileInv, LoopInv, NextComment, NEW kinds, NEW i \in 1..Len(comments)
    PROVE  Taken(i, kinds)' = Taken(i, kinds)
<1>1. at \in Nat /\ next_part \in Nat /\ ~PartsLeft
      /\ at' = at + 1 /\ next_part' = 1 /\ UNCHANGED <<comments, cache_version>>
  BY FileType DEF LoopInv, NextComment
<1>2. Taken(i, kinds)' =
         {k \in Counted(comments[i], kinds) : i < at + 1 \/ (i = at + 1 /\ k < 1)}
  BY <1>1, SameComments DEF Taken
<1>3. \A k \in Counted(comments[i], kinds) : k \in Nat /\ k >= 1
  BY FileType DEF Counted
<1>4. i = at => \A k \in Counted(comments[i], kinds) : k < next_part
  BY <1>1, NoneBehind
<1>5. \A k \in Counted(comments[i], kinds) :
         (i < at + 1 \/ (i = at + 1 /\ k < 1)) <=> (i < at \/ (i = at /\ k < next_part))
  BY <1>1, <1>3, <1>4
<1> QED
  BY <1>2, <1>5 DEF Taken

LEMMA TakenAll ==
    ASSUME FileInv, LoopInv, Collected, NEW kinds, NEW i \in 1..Len(comments)
    PROVE  Taken(i, kinds) = Counted(comments[i], kinds)
<1>1. at = Len(comments) /\ at \in Nat /\ at > 0
  BY FileType DEF Collected
<1>2. i = at => \A k \in Counted(comments[i], kinds) : k < next_part
  BY <1>1, NoneBehind DEF Collected
<1> QED
  BY <1>1, <1>2 DEF Taken
-----------------------------------------------------------------------------
LEMMA LoopStep == FileInv /\ LoopInv /\ TCStep => LoopInv'
<1> SUFFICES ASSUME FileInv, LoopInv, TCStep PROVE LoopInv'
  OBVIOUS
<1>0. Len(comments) \in Nat /\ at \in 0..Len(comments) /\ next_part \in Nat \ {0}
  BY FileType DEF LoopInv
<1>1. UNCHANGED <<comments, cache_version>>
  BY DEF TCStep, NextComment, Pass, InvalidIgnore, TypeIgnore, MypyIgnore, TypeAnnotation,
     Part, Turn
<1>2. CASE NextComment
  <2>1. at' = at + 1 /\ next_part' = 1 /\ ignore_next' = FALSE /\ stopped' = FALSE
        /\ at < Len(comments)
    BY <1>2 DEF NextComment
  <2>2. /\ ~ignore_next' /\ ~stopped' /\ ignore_next' \in BOOLEAN /\ stopped' \in BOOLEAN
        /\ at' \in 0..Len(comments) /\ next_part' \in Nat \ {0}
    <3>1. ~ignore_next' /\ ~stopped' /\ ignore_next' \in BOOLEAN /\ stopped' \in BOOLEAN
      BY <2>1
    <3>2. at' \in 0..Len(comments) /\ next_part' \in Nat \ {0}
      BY <1>0, <2>1
    <3> QED
      BY <3>1, <3>2
  <2>3. ASSUME NEW i \in 1..Len(comments)
        PROVE  /\ next_part' <= Len(comments[i].parts) + 1
               /\ ~(next_part' > 1)
               /\ \A j : j \notin 1..(next_part' - 1)
    BY <2>1, FileType
  <2> QED
    BY <1>1, <2>2, <2>3 DEF LoopInv
<1>3. ASSUME Turn,
             stopped' \in BOOLEAN,
             stopped' <=> /\ CurrentPart \notin Parsed \cup {"blank"} /\ ~ignore_next
                          /\ SkipCommented(comments[at])
      PROVE  LoopInv'
  <2>1. /\ at \in 1..Len(comments) /\ next_part \in 1..Len(comments[at].parts)
        /\ Len(comments[at].parts) \in Nat
    BY <1>3, CountsNow, FileType DEF Turn
  <2>2. /\ at' = at /\ next_part' = next_part + 1 /\ ~stopped
        /\ ignore_next' = (CurrentPart = "blank")
    BY <1>3 DEF Turn, PartsLeft, IgnoreNext
  <2>3. ignore_next' <=> CurrentPart = "blank"
    BY <2>2
  <2>4. ignore_next <=> next_part > 1 /\ comments[at].parts[next_part - 1] = "blank"
    BY <2>1 DEF LoopInv
  <2>5. ~(SkipCommented(comments[at]) /\ \E j \in 1..(next_part - 1) : Unknown(at, j))
    BY <2>1, <2>2 DEF LoopInv
  <2>6. Unknown(at, next_part) <=> CurrentPart \notin Parsed \cup {"blank"} /\ ~ignore_next
    BY <2>1, <2>4 DEF Unknown, CurrentPart
  <2>7. stopped' <=> SkipCommented(comments[at]) /\ Unknown(at, next_part)
    BY <1>3, <2>2, <2>6
  <2>8. \A j \in 1..next_part : j \in 1..(next_part - 1) \/ j = next_part
    BY <2>1
  <2>9. stopped' <=> SkipCommented(comments[at]) /\ \E j \in 1..next_part : Unknown(at, j)
    BY <2>1, <2>5, <2>7, <2>8
  <2>10. ignore_next' \in BOOLEAN /\ stopped' \in BOOLEAN
    BY <1>3, <2>2
  <2>11. next_part' - 1 = next_part /\ next_part' > 1 /\ next_part' \in Nat \ {0}
         /\ next_part' <= Len(comments[at].parts) + 1
    BY <2>1, <2>2
  <2>12. next_part' > 1 /\ comments[at].parts[next_part] = CurrentPart
    BY <2>11 DEF CurrentPart
  <2> HIDE DEF CurrentPart
  <2>13. SUFFICES ASSUME NEW i \in 1..Len(comments), i = at
                  PROVE  /\ next_part' <= Len(comments[i].parts) + 1
                         /\ ignore_next' <=> comments[i].parts[next_part] = "blank"
                         /\ stopped' <=> /\ SkipCommented(comments[i])
                                         /\ \E j \in 1..next_part : Unknown(i, j)
    BY <1>0, <1>1, <2>2, <2>10, <2>11, SameComments DEF LoopInv
  <2>14. next_part' <= Len(comments[i].parts) + 1
    BY <2>11, <2>13
  <2>15. ignore_next' <=> comments[i].parts[next_part] = "blank"
    BY <2>3, <2>12, <2>13
  <2>16. stopped' <=> SkipCommented(comments[i]) /\ \E j \in 1..next_part : Unknown(i, j)
    BY <2>9, <2>13
  <2> QED
    BY <2>14, <2>15, <2>16
<1>4. CASE Pass
  <2>1. stopped' = (~ignore_next /\ CurrentPart # "blank" /\ SkipCommented(comments[at]))
    BY <1>4 DEF Pass
  <2>2. stopped' \in BOOLEAN
    BY <2>1, Zenon
  <2>3. stopped' <=> ~ignore_next /\ CurrentPart # "blank" /\ SkipCommented(comments[at])
    BY <2>1, Zenon
  <2> QED
    BY <1>3, <1>4, <2>2, <2>3 DEF Pass
<1>5. ASSUME NEW kinds, kinds \subseteq Parsed, Part(kinds)
      PROVE  LoopInv'
  <2>1. Turn /\ stopped' = stopped /\ CurrentPart \in Parsed
    BY <1>5 DEF Part
  <2>2. stopped' \in BOOLEAN /\ ~stopped'
    BY <2>1 DEF LoopInv, Turn, PartsLeft
  <2> QED
    BY <1>3, <2>1, <2>2
<1> QED
  BY <1>2, <1>4, <1>5 DEF TCStep, InvalidIgnore, TypeIgnore, MypyIgnore, TypeAnnotation, Parsed
-----------------------------------------------------------------------------
(* The lists of ignores. *)

Lists == {"type", "mypy"}
List(l)    == IF l = "type" THEN type_ignore_lines ELSE mypy_ignore_lines
KindsOf(l) == IF l = "type" THEN Ignores ELSE MypyIgnores
Seen(l)    == IF l = "type" THEN seen_type_ignore ELSE seen_mypy_ignore

Entry(i, k) == <<comments[i].line, comments[i].parts[k]>>
FirstTaken(i, kinds, k) == k \in Taken(i, kinds) /\ \A j \in Taken(i, kinds) : k <= j

\* A list has an entry for each comment of which a part was taken, and nothing
\* else, in the order of the lines.
ListTaken(l) ==
    /\ List(l) \in Seq(Nat \X Kinds)
    /\ \A e \in 1..Len(List(l)) :
          \E i \in 1..Len(comments), k \in Nat :
             FirstTaken(i, KindsOf(l), k) /\ List(l)[e] = Entry(i, k)
    /\ \A i \in 1..Len(comments) :
          Taken(i, KindsOf(l)) # {} =>
             \E e \in 1..Len(List(l)), k \in Nat :
                FirstTaken(i, KindsOf(l), k) /\ List(l)[e] = Entry(i, k)
    /\ \A d, e \in 1..Len(List(l)) : d < e => List(l)[d][1] < List(l)[e][1]

\* The flag says whether the list has an entry for the comment looked at.
SeenTaken(l) ==
    /\ Seen(l) \in BOOLEAN
    /\ \A i \in 1..Len(comments) : i = at => (Seen(l) <=> Taken(i, KindsOf(l)) # {})

ListsInv == \A l \in Lists : ListTaken(l) /\ SeenTaken(l)

\* Nothing is taken, or a part that is not the first of its comment.
LEMMA ListSame ==
    ASSUME NEW l \in Lists, ListTaken(l), UNCHANGED comments, List(l)' = List(l),
           \A i \in 1..Len(comments), k \in Nat :
              FirstTaken(i, KindsOf(l), k) => FirstTaken(i, KindsOf(l), k)',
           \A i \in 1..Len(comments) : Taken(i, KindsOf(l))' # {} => Taken(i, KindsOf(l)) # {}
    PROVE  ListTaken(l)'
<1>1. \A i, k : Entry(i, k)' = Entry(i, k)
  BY DEF Entry
<1>2. KindsOf(l)' = KindsOf(l)
  BY DEF KindsOf
<1> QED
  BY <1>1, <1>2, ZenonT(60) DEF ListTaken

\* The first part of a comment is taken.
LEMMA ListAdded ==
    ASSUME FileInv, LoopInv, NEW l \in Lists, ListTaken(l), UNCHANGED comments,
           NEW n \in 1..Len(comments), n = at,
           NEW p \in 1..Len(comments[n].parts), p \in Nat,
           Taken(n, KindsOf(l)) = {}, Taken(n, KindsOf(l))' = {p},
           \A i \in 1..Len(comments) : i # n => Taken(i, KindsOf(l))' = Taken(i, KindsOf(l)),
           List(l)' = Append(List(l), Entry(n, p))
    PROVE  ListTaken(l)'
<1> DEFINE len == Len(List(l))
<1>0. Len(comments) \in Nat /\ len \in Nat /\ List(l) \in Seq(Nat \X Kinds)
  BY FileType DEF ListTaken
<1>1. Entry(n, p) \in Nat \X Kinds
  BY FileType DEF Entry
<1>2. /\ List(l)' \in Seq(Nat \X Kinds)
      /\ Len(List(l)') = len + 1
      /\ \A e \in 1..len : List(l)'[e] = List(l)[e]
      /\ List(l)'[len + 1] = Entry(n, p)
  BY <1>0, <1>1, AppendProperties
<1>3. \A i, k : Entry(i, k)' = Entry(i, k)
  BY DEF Entry
<1>4. FirstTaken(n, KindsOf(l), p)'
  BY DEF FirstTaken
<1>5. ASSUME NEW i \in 1..Len(comments), NEW k \in Nat, FirstTaken(i, KindsOf(l), k)
      PROVE  FirstTaken(i, KindsOf(l), k)' /\ i < n
  <2>1. i # n /\ k \in Taken(i, KindsOf(l))
    BY <1>5 DEF FirstTaken
  <2>2. i < n
    BY <1>0, <2>1 DEF Taken
  <2> QED
    BY <1>5, <2>1, <2>2 DEF FirstTaken
<1>6. ASSUME NEW e \in 1..len
      PROVE  \E i \in 1..Len(comments), k \in Nat :
                /\ FirstTaken(i, KindsOf(l), k)' /\ i < n
                /\ List(l)'[e] = Entry(i, k)
  <2>1. PICK i \in 1..Len(comments), k \in Nat :
           FirstTaken(i, KindsOf(l), k) /\ List(l)[e] = Entry(i, k)
    BY DEF ListTaken
  <2> QED
    BY <2>1, <1>2, <1>5
<1>7. \A e \in 1..(len + 1) : e \in 1..len \/ e = len + 1
  BY <1>0
<1>8. ASSUME NEW e \in 1..(len + 1)
      PROVE  \E i \in 1..Len(comments), k \in Nat :
                FirstTaken(i, KindsOf(l), k)' /\ List(l)'[e] = Entry(i, k)
  BY <1>2, <1>4, <1>6, <1>7
<1>9. ASSUME NEW i \in 1..Len(comments), Taken(i, KindsOf(l))' # {}
      PROVE  \E e \in 1..(len + 1), k \in Nat :
                FirstTaken(i, KindsOf(l), k)' /\ List(l)'[e] = Entry(i, k)
  <2>0. 1..len \subseteq 1..(len + 1) /\ len + 1 \in 1..(len + 1)
    BY <1>0
  <2>1. CASE i = n
    BY <1>2, <1>4, <2>0, <2>1
  <2>2. CASE i # n
    <3>1. PICK e \in 1..len, k \in Nat :
             FirstTaken(i, KindsOf(l), k) /\ List(l)[e] = Entry(i, k)
      BY <1>9, <2>2 DEF ListTaken
    <3>2. FirstTaken(i, KindsOf(l), k)' /\ List(l)'[e] = Entry(i, k) /\ e \in 1..(len + 1)
      BY <1>2, <1>5, <2>0, <3>1
    <3> QED
      BY <3>2
  <2> QED
    BY <2>1, <2>2
<1>10. ASSUME NEW d \in 1..(len + 1), NEW e \in 1..(len + 1), d < e
       PROVE  List(l)'[d][1] < List(l)'[e][1]
  <2>1. d \in 1..len
    BY <1>0, <1>10
  <2>2. CASE e \in 1..len
    BY <1>2, <1>10, <2>1, <2>2 DEF ListTaken
  <2>3. CASE e = len + 1
    <3>1. PICK i \in 1..Len(comments), k \in Nat : i < n /\ List(l)'[d] = Entry(i, k)
      BY <1>6, <2>1
    <3>2. comments[i].line < comments[n].line
      BY <3>1 DEF FileInv
    <3> QED
      BY <1>2, <2>3, <3>1, <3>2 DEF Entry
  <2> QED
    BY <1>7, <2>2, <2>3
<1>11. KindsOf(l)' = KindsOf(l)
  BY DEF KindsOf
<1>12. PICK m \in Nat : m = len + 1
  BY <1>0
<1>13. Len(List(l)') = m /\ List(l)' \in Seq(Nat \X Kinds)
  BY <1>2, <1>12
<1> HIDE DEF len
<1>14. ASSUME NEW e \in 1..m
       PROVE  (\E i \in 1..Len(comments), k \in Nat :
                 FirstTaken(i, KindsOf(l), k) /\ List(l)[e] = Entry(i, k))'
  BY <1>3, <1>8, <1>11, <1>12
<1>15. ASSUME NEW i \in 1..Len(comments), (Taken(i, KindsOf(l)) # {})'
       PROVE  (\E e \in 1..m, k \in Nat :
                 FirstTaken(i, KindsOf(l), k) /\ List(l)[e] = Entry(i, k))'
  BY <1>3, <1>9, <1>11, <1>12, <1>15
<1> QED
  BY <1>10, <1>12, <1>13, <1>14, <1>15 DEF ListTaken

LEMMA ListsKept ==
    ASSUME NEW l \in Lists, ListTaken(l), SeenTaken(l),
           UNCHANGED <<comments, at>>, List(l)' = List(l),
           Seen(l)' \in BOOLEAN, Seen(l)' <=> Seen(l),
           \A i \in 1..Len(comments) : Taken(i, KindsOf(l))' = Taken(i, KindsOf(l))
    PROVE  ListTaken(l)' /\ SeenTaken(l)'
<1>1. KindsOf(l)' = KindsOf(l)
  BY DEF KindsOf
<1>2. \A i \in 1..Len(comments), k \in Nat :
         FirstTaken(i, KindsOf(l), k) => FirstTaken(i, KindsOf(l), k)'
  BY DEF FirstTaken
<1>3. ListTaken(l)'
  BY <1>2, ListSame
<1>4. SeenTaken(l)'
  BY <1>1 DEF SeenTaken
<1> QED
  BY <1>3, <1>4

LEMMA ListsTook ==
    ASSUME FileInv, LoopInv, NEW l \in Lists, ListTaken(l), SeenTaken(l),
           Turn, ~ignore_next, CurrentPart \in KindsOf(l),
           Seen(l)' \in BOOLEAN, Seen(l)',
           Seen(l) => List(l)' = List(l),
           ~Seen(l) => List(l)' = Append(List(l), <<Line, CurrentPart>>)
    PROVE  ListTaken(l)' /\ SeenTaken(l)'
<1>0. /\ at \in 1..Len(comments) /\ next_part \in 1..Len(comments[at].parts)
      /\ UNCHANGED <<comments, at>> /\ Len(comments) \in Nat
      /\ CurrentPart \in Parsed
  BY CountsNow, FileType DEF Turn, KindsOf, Parsed
<1>1. PICK n \in 1..Len(comments), p \in Nat : n = at /\ p = next_part
  BY <1>0
<1>2. Taken(n, KindsOf(l))' = Taken(n, KindsOf(l)) \cup {p}
  BY <1>0, <1>1, TakenTurn
<1>3. \A i \in 1..Len(comments) : i # n => Taken(i, KindsOf(l))' = Taken(i, KindsOf(l))
  BY <1>0, <1>1, TakenTurn
<1>4. KindsOf(l)' = KindsOf(l)
  BY DEF KindsOf
<1>5. SeenTaken(l)'
  BY <1>0, <1>1, <1>2, <1>4 DEF SeenTaken
<1>6. CASE Seen(l)
  <2>1. Taken(n, KindsOf(l)) # {}
    BY <1>1, <1>6 DEF SeenTaken
  <2>2. \A k \in Taken(n, KindsOf(l)) : k \in Nat /\ k < p
    BY <1>0, <1>1, FileType DEF Taken, Counted
  <2>3. ASSUME NEW k \in Nat, FirstTaken(n, KindsOf(l), k)
        PROVE  FirstTaken(n, KindsOf(l), k)'
    <3>1. k \in Taken(n, KindsOf(l)) /\ k <= p /\ \A j \in Taken(n, KindsOf(l)) : k <= j
      BY <2>2, <2>3 DEF FirstTaken
    <3>2. k \in Taken(n, KindsOf(l))' /\ \A j \in Taken(n, KindsOf(l))' : k <= j
      BY <1>2, <3>1
    <3> QED
      BY <1>4, <3>2 DEF FirstTaken
  <2>4. ASSUME NEW i \in 1..Len(comments), NEW k \in Nat, FirstTaken(i, KindsOf(l), k)
        PROVE  FirstTaken(i, KindsOf(l), k)'
    BY <1>3, <2>3, <2>4 DEF FirstTaken
  <2>5. \A i \in 1..Len(comments) : Taken(i, KindsOf(l))' # {} => Taken(i, KindsOf(l)) # {}
    BY <1>3, <2>1
  <2>6. ListTaken(l)'
    BY <1>0, <1>6, <2>4, <2>5, ListSame
  <2> QED
    BY <1>5, <2>6
<1>7. CASE ~Seen(l)
  <2>1. Taken(n, KindsOf(l)) = {}
    BY <1>1, <1>7 DEF SeenTaken
  <2>2. Taken(n, KindsOf(l))' = {p}
    BY <1>2, <2>1
  <2>3. List(l)' = Append(List(l), Entry(n, p)) /\ p \in 1..Len(comments[n].parts)
    BY <1>0, <1>1, <1>7 DEF Entry, Line, CurrentPart
  <2>4. ListTaken(l)'
    BY <1>0, <1>1, <1>3, <2>1, <2>2, <2>3, ListAdded
  <2> QED
    BY <1>5, <2>4
<1> QED
  BY <1>6, <1>7

LEMMA ListsStep == FileInv /\ LoopInv /\ ListsInv /\ TCStep => ListsInv'
<1> SUFFICES ASSUME FileInv, LoopInv, ListsInv, TCStep, NEW l \in Lists
             PROVE  ListTaken(l)' /\ SeenTaken(l)'
  BY DEF ListsInv, Lists
<1>0. ListTaken(l) /\ SeenTaken(l) /\ Seen(l) \in BOOLEAN
  BY DEF ListsInv, SeenTaken
<1>1. CASE NextComment
  <2>1. /\ Len(comments) \in Nat /\ at \in 0..Len(comments) /\ at' = at + 1
        /\ UNCHANGED comments /\ List(l)' = List(l) /\ KindsOf(l)' = KindsOf(l)
    BY <1>1, FileType DEF NextComment, LoopInv, List, KindsOf
  <2>2. Seen(l)' = FALSE
    BY <1>1 DEF NextComment, Seen
  <2>3. \A i \in 1..Len(comments) : Taken(i, KindsOf(l))' = Taken(i, KindsOf(l))
    BY <1>1, TakenNext
  <2>4. \A i \in 1..Len(comments), k \in Nat :
           FirstTaken(i, KindsOf(l), k) => FirstTaken(i, KindsOf(l), k)'
    BY <2>1, <2>3 DEF FirstTaken
  <2>5. ListTaken(l)'
    BY <1>0, <2>1, <2>3, <2>4, ListSame
  <2>6. \A i \in 1..Len(comments) : i = at' => Taken(i, KindsOf(l)) = {}
    BY <2>1 DEF Taken
  <2>7. Seen(l)' \in BOOLEAN /\ ~Seen(l)'
    BY <2>2
  <2>8. SeenTaken(l)'
    BY <2>1, <2>3, <2>6, <2>7 DEF SeenTaken
  <2> QED
    BY <2>5, <2>8
\* A part that is not of the kinds of the list.
<1>2. ASSUME Turn, CurrentPart \notin KindsOf(l) \/ CurrentPart \notin Parsed \/ ignore_next,
             List(l)' = List(l), Seen(l)' = Seen(l)
      PROVE  ListTaken(l)' /\ SeenTaken(l)'
  <2>1. UNCHANGED <<comments, at>>
    BY <1>2 DEF Turn
  <2>2. \A i \in 1..Len(comments) : Taken(i, KindsOf(l))' = Taken(i, KindsOf(l))
    BY <1>2, TakenTurn
  <2>3. Seen(l)' \in BOOLEAN /\ (Seen(l)' <=> Seen(l))
    BY <1>0, <1>2
  <2> QED
    BY <1>0, <1>2, <2>1, <2>2, <2>3, ListsKept
<1>3. CASE Pass
  BY <1>2, <1>3 DEF Pass, List, Seen
<1>4. CASE InvalidIgnore
  BY <1>2, <1>4 DEF InvalidIgnore, Part, List, Seen, KindsOf, Invalid, Ignores, MypyIgnores
<1>5. CASE TypeAnnotation
  BY <1>2, <1>5 DEF TypeAnnotation, Part, List, Seen, KindsOf, Annotations, Ignores, MypyIgnores
<1>6. CASE TypeIgnore
  <2>1. Turn /\ ~ignore_next /\ CurrentPart \in Ignores
    BY <1>6 DEF TypeIgnore, Part
  <2>2. CASE l = "type"
    <3>1. Seen(l) <=> seen_type_ignore
      BY <2>2, Zenon DEF Seen
    <3>2. Seen(l)' = TRUE
      BY <1>6, <2>2 DEF TypeIgnore, Seen
    <3>3. /\ Seen(l) => List(l)' = List(l)
          /\ ~Seen(l) => List(l)' = Append(List(l), <<Line, CurrentPart>>)
      BY <1>6, <2>2, <3>1 DEF TypeIgnore, List
    <3>4. Seen(l)' \in BOOLEAN /\ Seen(l)' /\ CurrentPart \in KindsOf(l)
      BY <2>1, <2>2, <3>2 DEF KindsOf
    <3> QED
      BY <1>0, <2>1, <3>3, <3>4, ListsTook
  <2>3. CASE l # "type"
    BY <1>2, <1>6, <2>1, <2>3 DEF TypeIgnore, List, Seen, KindsOf, Ignores, MypyIgnores
  <2> QED
    BY <2>2, <2>3
<1>7. CASE MypyIgnore
  <2>1. Turn /\ ~ignore_next /\ CurrentPart \in MypyIgnores
    BY <1>7 DEF MypyIgnore, Part
  <2>2. CASE l # "type"
    <3>1. Seen(l) <=> seen_mypy_ignore
      BY <2>2, Zenon DEF Seen
    <3>2. Seen(l)' = TRUE
      BY <1>7, <2>2 DEF MypyIgnore, Seen
    <3>3. /\ Seen(l) => List(l)' = List(l)
          /\ ~Seen(l) => List(l)' = Append(List(l), <<Line, CurrentPart>>)
      BY <1>7, <2>2, <3>1 DEF MypyIgnore, MypyIgnoreLines, List
    <3>4. Seen(l)' \in BOOLEAN /\ Seen(l)' /\ CurrentPart \in KindsOf(l)
      BY <2>1, <2>2, <3>2 DEF KindsOf
    <3> QED
      BY <1>0, <2>1, <3>3, <3>4, ListsTook
  <2>3. CASE l = "type"
    BY <1>2, <1>7, <2>1, <2>3 DEF MypyIgnore, List, Seen, KindsOf, Ignores, MypyIgnores
  <2> QED
    BY <2>2, <2>3
<1> QED
  BY <1>1, <1>3, <1>4, <1>5, <1>6, <1>7 DEF TCStep

LEMMA MinIs ==
    ASSUME NEW S \in SUBSET Nat, NEW k \in S, \A j \in S : k <= j
    PROVE  Min(S) = k
<1>1. \A x \in S : (\A y \in S : x <= y) => x = k
  OBVIOUS
<1>2. \E x \in S : \A y \in S : x <= y
  OBVIOUS
<1>3. (CHOOSE x \in S : \A y \in S : x <= y) = k
  BY <1>1, <1>2
<1> QED
  BY <1>3 DEF Min

LEMMA FirstIs ==
    ASSUME FileInv, LoopInv, Collected, NEW kinds, NEW i \in 1..Len(comments), NEW k,
           FirstTaken(i, kinds, k)
    PROVE  i \in With(kinds) /\ First(comments[i], kinds) = comments[i].parts[k]
<1>1. Taken(i, kinds) = Counted(comments[i], kinds) /\ Counted(comments[i], kinds) \subseteq Nat
  BY TakenAll, FileType DEF Counted
<1>2. Min(Counted(comments[i], kinds)) = k
  BY <1>1, MinIs DEF FirstTaken
<1> QED
  BY <1>1, <1>2 DEF First, With, FirstTaken

\* Of a whole file every list has what is stated.
LEMMA ListsMeaning ==
    ASSUME FileInv, LoopInv, ListsInv, Collected
    PROVE  IgnoresAsStated
<1>1. ASSUME NEW l \in Lists
      PROVE  ListsFirst(List(l), KindsOf(l))
  <2>1. ListTaken(l)
    BY DEF ListsInv
  <2>2. DOMAIN List(l) = 1..Len(List(l))
    BY <2>1, LenProperties DEF ListTaken
  <2> DEFINE stated == {<<comments[i].line, First(comments[i], KindsOf(l))>> :
                           i \in With(KindsOf(l))}
  <2>3. ASSUME NEW e \in 1..Len(List(l))
        PROVE  List(l)[e] \in stated
    <3>1. PICK i \in 1..Len(comments), k \in Nat :
             FirstTaken(i, KindsOf(l), k) /\ List(l)[e] = Entry(i, k)
      BY <2>1 DEF ListTaken
    <3> QED
      BY <3>1, FirstIs DEF Entry
  <2>4. ASSUME NEW i \in With(KindsOf(l))
        PROVE  \E e \in 1..Len(List(l)) :
                  List(l)[e] = <<comments[i].line, First(comments[i], KindsOf(l))>>
    <3>1. i \in 1..Len(comments) /\ Taken(i, KindsOf(l)) # {}
      BY TakenAll DEF With
    <3>2. PICK e \in 1..Len(List(l)), k \in Nat :
             FirstTaken(i, KindsOf(l), k) /\ List(l)[e] = Entry(i, k)
      BY <2>1, <3>1 DEF ListTaken
    <3> QED
      BY <3>1, <3>2, FirstIs DEF Entry
  <2>5. ToSet(List(l)) = stated
    BY <2>2, <2>3, <2>4 DEF ToSet
  <2> QED
    BY <2>1, <2>5 DEF ListsFirst, ListTaken
<1>2. ListsFirst(List("type"), KindsOf("type")) /\ ListsFirst(List("mypy"), KindsOf("mypy"))
  BY <1>1 DEF Lists
<1> QED
  BY <1>2 DEF IgnoresAsStated, List, KindsOf
-----------------------------------------------------------------------------
(* The annotations. *)

Annotation(i, k) == <<comments[i].line, Recorded(comments[i].parts[k])>>

AnnotationsInv ==
    /\ \A x \in type_comments :
          \E i \in 1..Len(comments), k \in Nat :
             FirstTaken(i, Annotations, k) /\ x = Annotation(i, k)
    /\ \A i \in 1..Len(comments) :
          Taken(i, Annotations) # {} =>
             \E k \in Nat : FirstTaken(i, Annotations, k) /\ Annotation(i, k) \in type_comments

\* There is one for the line exactly if one was taken of the comment.
LEMMA AllowedIfNone ==
    ASSUME FileInv, AnnotationsInv, NEW n \in 1..Len(comments)
    PROVE  AnnotationAllowed(comments[n].line) <=> Taken(n, Annotations) = {}
<1>1. ASSUME Taken(n, Annotations) # {}
      PROVE  ~AnnotationAllowed(comments[n].line)
  <2>1. PICK k \in Nat : Annotation(n, k) \in type_comments
    BY <1>1 DEF AnnotationsInv
  <2>2. Annotation(n, k)[1] = comments[n].line
    BY DEF Annotation
  <2> QED
    BY <2>1, <2>2 DEF AnnotationAllowed
<1>2. ASSUME ~AnnotationAllowed(comments[n].line)
      PROVE  Taken(n, Annotations) # {}
  <2>1. PICK x \in type_comments : x[1] = comments[n].line
    BY <1>2 DEF AnnotationAllowed
  <2>2. PICK i \in 1..Len(comments), k \in Nat :
           FirstTaken(i, Annotations, k) /\ x = Annotation(i, k)
    BY DEF AnnotationsInv
  <2>3. comments[i].line = comments[n].line
    BY <2>1, <2>2 DEF Annotation
  <2>4. i = n
    <3>1. Len(comments) \in Nat /\ comments[i].line \in Nat
      BY FileType
    <3>2. ~(i < n) /\ ~(n < i)
      BY <2>3, <3>1 DEF FileInv
    <3> QED
      BY <3>1, <3>2
  <2> QED
    BY <2>2, <2>4 DEF FirstTaken
<1> QED
  BY <1>1, <1>2

LEMMA AnnotationsKept ==
    ASSUME AnnotationsInv, UNCHANGED <<comments, type_comments>>,
           \A i \in 1..Len(comments), k \in Nat :
              FirstTaken(i, Annotations, k) => FirstTaken(i, Annotations, k)',
           \A i \in 1..Len(comments) : Taken(i, Annotations)' # {} => Taken(i, Annotations) # {}
    PROVE  AnnotationsInv'
<1>1. \A i, k : Annotation(i, k)' = Annotation(i, k)
  BY DEF Annotation
<1> QED
  BY <1>1 DEF AnnotationsInv

LEMMA AnnotationsStep ==
    FileInv /\ LoopInv /\ AnnotationsInv /\ TCStep => AnnotationsInv'
<1> SUFFICES ASSUME FileInv, LoopInv, AnnotationsInv, TCStep PROVE AnnotationsInv'
  OBVIOUS
<1>1. ASSUME UNCHANGED <<comments, type_comments>>,
             \A i \in 1..Len(comments) : Taken(i, Annotations)' = Taken(i, Annotations)
      PROVE  AnnotationsInv'
  BY <1>1, AnnotationsKept DEF FirstTaken
<1>2. CASE NextComment
  BY <1>1, <1>2, TakenNext DEF NextComment
<1>3. ASSUME Turn, CurrentPart \notin Annotations \/ CurrentPart \notin Parsed \/ ignore_next,
             UNCHANGED type_comments
      PROVE  AnnotationsInv'
  <2>1. \A i \in 1..Len(comments) : Taken(i, Annotations)' = Taken(i, Annotations)
    BY <1>3, TakenTurn
  <2> QED
    BY <1>1, <1>3, <2>1 DEF Turn
<1>4. CASE Pass
  BY <1>3, <1>4 DEF Pass
<1>5. CASE InvalidIgnore
  BY <1>3, <1>5 DEF InvalidIgnore, Part, Invalid, Annotations
<1>6. CASE TypeIgnore
  BY <1>3, <1>6 DEF TypeIgnore, Part, Ignores, Annotations
<1>7. CASE MypyIgnore
  BY <1>3, <1>7 DEF MypyIgnore, Part, MypyIgnores, Annotations
<1>8. CASE TypeAnnotation
  <2>0. /\ Turn /\ ~ignore_next /\ CurrentPart \in Annotations /\ CurrentPart \in Parsed
        /\ at \in 1..Len(comments) /\ next_part \in 1..Len(comments[at].parts)
        /\ UNCHANGED comments /\ Len(comments) \in Nat
    BY <1>8, CountsNow, FileType DEF TypeAnnotation, Part, Turn, Parsed
  <2>1. PICK n \in 1..Len(comments), p \in Nat : n = at /\ p = next_part
    BY <2>0
  <2>2. Taken(n, Annotations)' = Taken(n, Annotations) \cup {p}
    BY <2>0, <2>1, TakenTurn
  <2>3. \A i \in 1..Len(comments) : i # n => Taken(i, Annotations)' = Taken(i, Annotations)
    BY <2>0, <2>1, TakenTurn
  <2>4. \A k \in Taken(n, Annotations) : k \in Nat /\ k < p
    BY <2>0, <2>1, FileType DEF Taken, Counted
  <2>5. ASSUME NEW i \in 1..Len(comments), NEW k \in Nat, FirstTaken(i, Annotations, k)
        PROVE  FirstTaken(i, Annotations, k)'
    <3>1. CASE i # n
      BY <2>3, <2>5, <3>1 DEF FirstTaken
    <3>2. CASE i = n
      <4>1. k \in Taken(n, Annotations) /\ k <= p /\ \A j \in Taken(n, Annotations) : k <= j
        BY <2>4, <2>5, <3>2 DEF FirstTaken
      <4>2. k \in Taken(n, Annotations)' /\ \A j \in Taken(n, Annotations)' : k <= j
        BY <2>2, <4>1
      <4> QED
        BY <3>2, <4>2 DEF FirstTaken
    <3> QED
      BY <3>1, <3>2
  <2>6. AnnotationAllowed(Line) <=> Taken(n, Annotations) = {}
    BY <2>1, AllowedIfNone DEF Line
  <2>7. CASE Taken(n, Annotations) # {}
    <3>1. UNCHANGED type_comments
      BY <1>8, <2>6, <2>7 DEF TypeAnnotation
    <3>2. \A i \in 1..Len(comments) : Taken(i, Annotations)' # {} => Taken(i, Annotations) # {}
      BY <2>3, <2>7
    <3> QED
      BY <2>0, <2>5, <3>1, <3>2, AnnotationsKept
  <2>8. CASE Taken(n, Annotations) = {}
    <3>1. AnnotationAllowed(Line)
      BY <2>6, <2>8
    <3>2. type_comments' = type_comments \cup {Annotation(n, p)}
      <4>1. type_comments' = {x \in type_comments : x[1] # Line} \cup {<<Line, Recorded(CurrentPart)>>}
        BY <1>8, <3>1 DEF TypeAnnotation
      <4>2. {x \in type_comments : x[1] # Line} = type_comments
        BY <3>1 DEF AnnotationAllowed
      <4>3. <<Line, Recorded(CurrentPart)>> = Annotation(n, p)
        BY <2>1 DEF Annotation, Line, CurrentPart
      <4> QED
        BY <4>1, <4>2, <4>3
    <3>3. \A i, k : Annotation(i, k)' = Annotation(i, k)
      BY <2>0 DEF Annotation
    <3>4. FirstTaken(n, Annotations, p)'
      BY <2>1, <2>2, <2>8 DEF FirstTaken
    <3>5. ASSUME NEW x \in type_comments'
          PROVE  \E i \in 1..Len(comments), k \in Nat :
                    FirstTaken(i, Annotations, k)' /\ x = Annotation(i, k)
      <4>1. CASE x \in type_comments
        <5>1. PICK i \in 1..Len(comments), k \in Nat :
                 FirstTaken(i, Annotations, k) /\ x = Annotation(i, k)
          BY <4>1 DEF AnnotationsInv
        <5> QED
          BY <2>5, <5>1
      <4>2. CASE x = Annotation(n, p)
        BY <3>4, <4>2
      <4> QED
        BY <3>2, <4>1, <4>2
    <3>6. ASSUME NEW i \in 1..Len(comments), Taken(i, Annotations)' # {}
          PROVE  \E k \in Nat : FirstTaken(i, Annotations, k)' /\ Annotation(i, k) \in type_comments'
      <4>1. CASE i = n
        BY <3>2, <3>4, <4>1
      <4>2. CASE i # n
        <5>1. PICK k \in Nat : FirstTaken(i, Annotations, k) /\ Annotation(i, k) \in type_comments
          BY <2>3, <3>6, <4>2 DEF AnnotationsInv
        <5> QED
          BY <2>5, <3>2, <5>1
      <4> QED
        BY <4>1, <4>2
    <3> QED
      BY <2>0, <3>3, <3>5, <3>6 DEF AnnotationsInv
  <2> QED
    BY <2>7, <2>8
<1> QED
  BY <1>2, <1>4, <1>5, <1>6, <1>7, <1>8 DEF TCStep
-----------------------------------------------------------------------------
(* The errors. *)

Messages == Invalid \cup {"Multiple type ignores", "Multiple mypy ignores",
                          "Multiple type comments"}

ErrorsOf(i) == {e \in 1..Len(tc_errors) : tc_errors[e][1] = comments[i].line}
Errors(i)   == Cardinality(ErrorsOf(i))
Count(i, kinds) == Cardinality(Taken(i, kinds))
Repeated(i, kinds) == IF Count(i, kinds) > 1 THEN Count(i, kinds) - 1 ELSE 0

ErrorsInv ==
    /\ tc_errors \in Seq(Nat \X Messages)
    /\ \A i \in 1..Len(comments) :
          Errors(i) = Count(i, Invalid) + Repeated(i, Ignores)
                         + Repeated(i, MypyIgnores) + Repeated(i, Annotations)

LEMMA FiniteBelow ==
    ASSUME NEW n \in Nat, NEW S \in SUBSET (1..n)
    PROVE  IsFiniteSet(S)
<1>1. IsFiniteSet(1..n)
  BY FS_Interval
<1> QED
  BY <1>1, FS_Subset

LEMMA CountType ==
    ASSUME FileInv, NEW kinds, NEW i \in 1..Len(comments)
    PROVE  /\ IsFiniteSet(Taken(i, kinds)) /\ Count(i, kinds) \in Nat
           /\ Count(i, kinds) = 0 <=> Taken(i, kinds) = {}
<1>1. Taken(i, kinds) \in SUBSET (1..Len(comments[i].parts)) /\ Len(comments[i].parts) \in Nat
  BY FileType DEF Taken, Counted
<1>2. IsFiniteSet(Taken(i, kinds))
  BY <1>1, FiniteBelow
<1> QED
  BY <1>2, FS_CardinalityType, FS_EmptySet DEF Count

\* A turn adds one to the count of one kind at most.
LEMMA CountTurn ==
    ASSUME FileInv, LoopInv, Turn, NEW kinds, NEW i \in 1..Len(comments)
    PROVE  Count(i, kinds)' =
              IF i = at /\ CurrentPart \in kinds /\ CurrentPart \in Parsed /\ ~ignore_next
              THEN Count(i, kinds) + 1
              ELSE Count(i, kinds)
<1>1. next_part \in Nat
  BY DEF LoopInv
<1>2. CASE i = at /\ CurrentPart \in kinds /\ CurrentPart \in Parsed /\ ~ignore_next
  <2>1. Taken(i, kinds)' = Taken(i, kinds) \cup {next_part}
    BY <1>2, TakenTurn
  <2>2. next_part \notin Taken(i, kinds)
    BY <1>1, <1>2 DEF Taken
  <2>3. Cardinality(Taken(i, kinds) \cup {next_part}) = Cardinality(Taken(i, kinds)) + 1
    BY <2>2, CountType, FS_AddElement
  <2> QED
    BY <1>2, <2>1, <2>3 DEF Count
<1>3. CASE ~(i = at /\ CurrentPart \in kinds /\ CurrentPart \in Parsed /\ ~ignore_next)
  <2>1. Taken(i, kinds)' = Taken(i, kinds)
    BY <1>3, TakenTurn
  <2> QED
    BY <1>3, <2>1 DEF Count
<1> QED
  BY <1>2, <1>3

\* An error is one of the line it is reported for, and of no other.
LEMMA ErrorAdded ==
    ASSUME FileInv, ErrorsInv, UNCHANGED comments, NEW n \in 1..Len(comments),
           NEW message \in Messages,
           tc_errors' = Append(tc_errors, <<comments[n].line, message>>)
    PROVE  /\ tc_errors' \in Seq(Nat \X Messages)
           /\ \A i \in 1..Len(comments) : Errors(i)' = IF i = n THEN Errors(i) + 1 ELSE Errors(i)
<1> DEFINE error == <<comments[n].line, message>>
<1>0. PICK len \in Nat : len = Len(tc_errors)
  BY DEF ErrorsInv
<1>1. error \in Nat \X Messages
  BY FileType
<1>2. /\ tc_errors' \in Seq(Nat \X Messages)
      /\ Len(tc_errors') = len + 1
      /\ \A e \in 1..len : tc_errors'[e] = tc_errors[e]
      /\ tc_errors'[len + 1] = error
  BY <1>0, <1>1, AppendProperties DEF ErrorsInv
<1>3. ASSUME NEW i \in 1..Len(comments)
      PROVE  Errors(i)' = IF i = n THEN Errors(i) + 1 ELSE Errors(i)
  <2>1. ErrorsOf(i) \in SUBSET (1..len)
    BY <1>0 DEF ErrorsOf
  <2>2. IsFiniteSet(ErrorsOf(i)) /\ len + 1 \notin ErrorsOf(i)
    <3>1. IsFiniteSet(ErrorsOf(i))
      BY <2>1, FiniteBelow
    <3>2. len + 1 \notin 1..len
      OBVIOUS
    <3> QED
      BY <2>1, <3>1, <3>2
  <2>3. ErrorsOf(i)' = {e \in 1..(len + 1) : tc_errors'[e][1] = comments[i].line}
    BY <1>2 DEF ErrorsOf
  <2>4. \A e \in 1..(len + 1) : e \in 1..len \/ e = len + 1
    BY <1>0
  <2>5. 1..len \subseteq 1..(len + 1) /\ len + 1 \in 1..(len + 1)
    BY <1>0
  <2>6. error[1] = comments[n].line
    OBVIOUS
  <2>7. comments[i].line = comments[n].line <=> i = n
    <3>1. Len(comments) \in Nat /\ comments[i].line \in Nat /\ comments[n].line \in Nat
      BY FileType
    <3>2. i < n \/ n < i => comments[i].line # comments[n].line
      BY <3>1 DEF FileInv
    <3> QED
      BY <3>1, <3>2
  <2> HIDE DEF error
  <2>8. CASE i = n
    <3>1. ErrorsOf(i)' = ErrorsOf(i) \cup {len + 1}
      BY <1>0, <1>2, <2>3, <2>4, <2>5, <2>6, <2>7, <2>8 DEF ErrorsOf
    <3>2. Cardinality(ErrorsOf(i) \cup {len + 1}) = Cardinality(ErrorsOf(i)) + 1
      BY <2>2, FS_AddElement
    <3> QED
      BY <2>8, <3>1, <3>2 DEF Errors
  <2>9. CASE i # n
    <3>1. ErrorsOf(i)' = ErrorsOf(i)
      BY <1>0, <1>2, <2>3, <2>4, <2>5, <2>6, <2>7, <2>9 DEF ErrorsOf
    <3> QED
      BY <2>9, <3>1 DEF Errors
  <2> QED
    BY <2>8, <2>9
<1> QED
  BY <1>2, <1>3

LEMMA ErrorsKept ==
    ASSUME ErrorsInv, UNCHANGED <<comments, tc_errors>>,
           \A i \in 1..Len(comments) :
              /\ Count(i, Invalid)' = Count(i, Invalid)
              /\ Repeated(i, Ignores)' = Repeated(i, Ignores)
              /\ Repeated(i, MypyIgnores)' = Repeated(i, MypyIgnores)
              /\ Repeated(i, Annotations)' = Repeated(i, Annotations)
    PROVE  ErrorsInv'
<1>1. \A i : Errors(i)' = Errors(i)
  BY DEF Errors, ErrorsOf
<1> QED
  BY <1>1 DEF ErrorsInv

LEMMA ErrorsStep ==
    FileInv /\ LoopInv /\ ListsInv /\ AnnotationsInv /\ ErrorsInv /\ TCStep => ErrorsInv'
<1> SUFFICES ASSUME FileInv, LoopInv, ListsInv, AnnotationsInv, ErrorsInv, TCStep
             PROVE  ErrorsInv'
  OBVIOUS
<1>1. CASE NextComment
  <2>1. \A kinds : \A i \in 1..Len(comments) : Count(i, kinds)' = Count(i, kinds)
    BY <1>1, TakenNext DEF Count
  <2>2. \A kinds : \A i \in 1..Len(comments) : Repeated(i, kinds)' = Repeated(i, kinds)
    BY <2>1 DEF Repeated
  <2> QED
    BY <1>1, <2>1, <2>2, ErrorsKept DEF NextComment
<1>2. CASE Pass
  <2>1. \A kinds : \A i \in 1..Len(comments) : Count(i, kinds)' = Count(i, kinds)
    BY <1>2, CountTurn DEF Pass
  <2>2. \A kinds : \A i \in 1..Len(comments) : Repeated(i, kinds)' = Repeated(i, kinds)
    BY <2>1 DEF Repeated
  <2> QED
    BY <1>2, <2>1, <2>2, ErrorsKept DEF Pass, Turn
\* A part that counts, and what else of its kinds was taken of the comment.
<1>3. ASSUME NEW kinds \in {Invalid, Ignores, MypyIgnores, Annotations}, Part(kinds)
      PROVE  /\ at \in 1..Len(comments) /\ UNCHANGED comments
             /\ \A others \in {Invalid, Ignores, MypyIgnores, Annotations} :
                   \A i \in 1..Len(comments) :
                      Count(i, others)' = IF i = at /\ others = kinds THEN Count(i, others) + 1
                                          ELSE Count(i, others)
  <2>1. /\ Turn /\ CurrentPart \in kinds /\ ~ignore_next
        /\ at \in 1..Len(comments) /\ UNCHANGED comments
    BY <1>3, CountsNow DEF Part, Turn
  <2>2. CurrentPart \in Parsed
    BY <2>1 DEF Parsed
  <2>3. \A others \in {Invalid, Ignores, MypyIgnores, Annotations} :
           CurrentPart \in others <=> others = kinds
    BY <2>1 DEF Invalid, Ignores, MypyIgnores, Annotations
  <2> QED
    BY <2>1, <2>2, <2>3, CountTurn
<1>4. ASSUME NEW kinds \in {Ignores, MypyIgnores, Annotations}, Part(kinds),
             NEW message \in Messages, NEW n \in 1..Len(comments), n = at,
             IF Taken(n, kinds) = {} THEN UNCHANGED tc_errors
             ELSE tc_errors' = Append(tc_errors, <<comments[n].line, message>>)
      PROVE  ErrorsInv'
  <2>1. /\ UNCHANGED comments
        /\ \A others \in {Invalid, Ignores, MypyIgnores, Annotations} :
              \A i \in 1..Len(comments) :
                 Count(i, others)' = IF i = n /\ others = kinds THEN Count(i, others) + 1
                                     ELSE Count(i, others)
    BY <1>3, <1>4
  <2>2. \A others \in {Invalid, Ignores, MypyIgnores, Annotations} :
           \A i \in 1..Len(comments) : Count(i, others) \in Nat
    BY CountType
  <2>3. Count(n, kinds) = 0 <=> Taken(n, kinds) = {}
    BY <1>4, CountType
  <2>4. ASSUME NEW others \in {Ignores, MypyIgnores, Annotations}, NEW i \in 1..Len(comments)
        PROVE  /\ Repeated(i, others) \in Nat
               /\ Repeated(i, others)' =
                     IF i = n /\ others = kinds /\ Taken(n, kinds) # {}
                     THEN Repeated(i, others) + 1
                     ELSE Repeated(i, others)
    BY <2>1, <2>2, <2>3, SMTT(60) DEF Repeated
  <2>5. Invalid # kinds
    BY <1>4 DEF Invalid, Ignores, MypyIgnores, Annotations
  <2>6. CASE Taken(n, kinds) = {}
    BY <1>4, <2>1, <2>4, <2>5, <2>6, ErrorsKept
  <2>7. CASE Taken(n, kinds) # {}
    <3>1. /\ tc_errors' \in Seq(Nat \X Messages)
          /\ \A i \in 1..Len(comments) : Errors(i)' = IF i = n THEN Errors(i) + 1 ELSE Errors(i)
      BY <1>4, <2>1, <2>7, ErrorAdded
    <3>2. Ignores # MypyIgnores /\ Ignores # Annotations /\ MypyIgnores # Annotations
      BY DEF Ignores, MypyIgnores, Annotations
    <3>3. ASSUME NEW i \in 1..Len(comments)
          PROVE  Errors(i)' = Count(i, Invalid)' + Repeated(i, Ignores)'
                                 + Repeated(i, MypyIgnores)' + Repeated(i, Annotations)'
      <4>1. Errors(i) = Count(i, Invalid) + Repeated(i, Ignores)
                           + Repeated(i, MypyIgnores) + Repeated(i, Annotations)
        BY DEF ErrorsInv
      <4>2. Count(i, Invalid)' = Count(i, Invalid) /\ Count(i, Invalid) \in Nat
        BY <2>1, <2>2, <2>5
      <4>3. CASE i # n
        BY <2>4, <3>1, <4>1, <4>2, <4>3
      <4>4. CASE i = n
        <5>1. /\ Repeated(i, Ignores) \in Nat
              /\ Repeated(i, Ignores)' = Repeated(i, Ignores) + (IF kinds = Ignores THEN 1 ELSE 0)
          BY <2>4, <2>7, <4>4
        <5>2. /\ Repeated(i, MypyIgnores) \in Nat
              /\ Repeated(i, MypyIgnores)'
                    = Repeated(i, MypyIgnores) + (IF kinds = MypyIgnores THEN 1 ELSE 0)
          BY <2>4, <2>7, <4>4
        <5>3. /\ Repeated(i, Annotations) \in Nat
              /\ Repeated(i, Annotations)'
                    = Repeated(i, Annotations) + (IF kinds = Annotations THEN 1 ELSE 0)
          BY <2>4, <2>7, <4>4
        <5>4. (IF kinds = Ignores THEN 1 ELSE 0) + (IF kinds = MypyIgnores THEN 1 ELSE 0)
                 + (IF kinds = Annotations THEN 1 ELSE 0) = 1
          BY <1>4, <3>2
        <5> QED
          BY <3>1, <4>1, <4>2, <4>4, <5>1, <5>2, <5>3, <5>4
      <4> QED
        BY <4>3, <4>4
    <3> QED
      BY <2>1, <3>1, <3>3 DEF ErrorsInv
  <2> QED
    BY <2>6, <2>7
<1>5. CASE InvalidIgnore
  <2>1. Part(Invalid) /\ CurrentPart \in Invalid
    BY <1>5 DEF InvalidIgnore, Part
  <2>2. PICK n \in 1..Len(comments) : n = at
    BY <1>3, <2>1
  <2>3. /\ UNCHANGED comments
        /\ \A others \in {Invalid, Ignores, MypyIgnores, Annotations} :
              \A i \in 1..Len(comments) :
                 Count(i, others)' = IF i = n /\ others = Invalid THEN Count(i, others) + 1
                                     ELSE Count(i, others)
    BY <1>3, <2>1, <2>2
  <2>4. tc_errors' = Append(tc_errors, <<comments[n].line, CurrentPart>>)
    BY <1>5, <2>2 DEF InvalidIgnore, Error, Line
  <2>5. CurrentPart \in Messages
    BY <2>1 DEF Messages
  <2>6. /\ tc_errors' \in Seq(Nat \X Messages)
        /\ \A i \in 1..Len(comments) : Errors(i)' = IF i = n THEN Errors(i) + 1 ELSE Errors(i)
    BY <2>3, <2>4, <2>5, ErrorAdded
  <2>7. Invalid \notin {Ignores, MypyIgnores, Annotations}
    BY DEF Invalid, Ignores, MypyIgnores, Annotations
  <2>8. \A others \in {Ignores, MypyIgnores, Annotations} :
           \A i \in 1..Len(comments) : Repeated(i, others)' = Repeated(i, others)
    BY <2>3, <2>7 DEF Repeated
  <2>9. ASSUME NEW others \in {Ignores, MypyIgnores, Annotations}, NEW i \in 1..Len(comments)
        PROVE  Repeated(i, others) \in Nat
    BY CountType DEF Repeated
  <2>10. \A i \in 1..Len(comments) :
            Count(i, Invalid)' = (IF i = n THEN Count(i, Invalid) + 1 ELSE Count(i, Invalid))
            /\ Count(i, Invalid) \in Nat
    BY <2>3, CountType
  <2>11. ASSUME NEW i \in 1..Len(comments)
         PROVE  Errors(i)' = Count(i, Invalid)' + Repeated(i, Ignores)'
                                + Repeated(i, MypyIgnores)' + Repeated(i, Annotations)'
    <3>1. Errors(i) = Count(i, Invalid) + Repeated(i, Ignores)
                         + Repeated(i, MypyIgnores) + Repeated(i, Annotations)
      BY DEF ErrorsInv
    <3>2. /\ Repeated(i, Ignores)' = Repeated(i, Ignores) /\ Repeated(i, Ignores) \in Nat
          /\ Repeated(i, MypyIgnores)' = Repeated(i, MypyIgnores)
          /\ Repeated(i, MypyIgnores) \in Nat
          /\ Repeated(i, Annotations)' = Repeated(i, Annotations)
          /\ Repeated(i, Annotations) \in Nat
      BY <2>8, <2>9
    <3>3. CASE i = n
      <4>1. Errors(i)' = Errors(i) + 1 /\ Count(i, Invalid)' = Count(i, Invalid) + 1
        BY <2>6, <2>10, <3>3
      <4> QED
        BY <2>10, <3>1, <3>2, <4>1
    <3>4. CASE i # n
      <4>1. Errors(i)' = Errors(i) /\ Count(i, Invalid)' = Count(i, Invalid)
        BY <2>6, <2>10, <3>4
      <4> QED
        BY <3>1, <3>2, <4>1
    <3> QED
      BY <3>3, <3>4
  <2> QED
    BY <2>3, <2>6, <2>11 DEF ErrorsInv
<1>6. CASE TypeIgnore
  <2>1. Part(Ignores)
    BY <1>6 DEF TypeIgnore
  <2>2. PICK n \in 1..Len(comments) : n = at
    BY <1>3, <2>1
  <2>3. seen_type_ignore <=> Taken(n, Ignores) # {}
    <3>1. SeenTaken("type")
      BY DEF ListsInv, Lists
    <3> QED
      BY <2>2, <3>1 DEF SeenTaken, Seen, KindsOf
  <2>4. IF Taken(n, Ignores) = {} THEN UNCHANGED tc_errors
        ELSE tc_errors' = Append(tc_errors, <<comments[n].line, "Multiple type ignores">>)
    BY <1>6, <2>2, <2>3 DEF TypeIgnore, Error, Line
  <2> QED
    BY <1>4, <2>1, <2>2, <2>4 DEF Messages
<1>7. CASE MypyIgnore
  <2>1. Part(MypyIgnores)
    BY <1>7 DEF MypyIgnore
  <2>2. PICK n \in 1..Len(comments) : n = at
    BY <1>3, <2>1
  <2>3. seen_mypy_ignore <=> Taken(n, MypyIgnores) # {}
    <3>1. SeenTaken("mypy")
      BY DEF ListsInv, Lists
    <3> QED
      BY <2>2, <3>1 DEF SeenTaken, Seen, KindsOf
  <2>4. IF Taken(n, MypyIgnores) = {} THEN UNCHANGED tc_errors
        ELSE tc_errors' = Append(tc_errors, <<comments[n].line, "Multiple mypy ignores">>)
    BY <1>7, <2>2, <2>3 DEF MypyIgnore, Error, Line
  <2> QED
    BY <1>4, <2>1, <2>2, <2>4 DEF Messages
<1>8. CASE TypeAnnotation
  <2>1. Part(Annotations)
    BY <1>8 DEF TypeAnnotation
  <2>2. PICK n \in 1..Len(comments) : n = at
    BY <1>3, <2>1
  <2>3. AnnotationAllowed(Line) <=> Taken(n, Annotations) = {}
    BY <2>2, AllowedIfNone DEF Line
  <2>4. IF Taken(n, Annotations) = {} THEN UNCHANGED tc_errors
        ELSE tc_errors' = Append(tc_errors, <<comments[n].line, "Multiple type comments">>)
    BY <1>8, <2>2, <2>3 DEF TypeAnnotation, Error, Line
  <2> QED
    BY <1>4, <2>1, <2>2, <2>4 DEF Messages
<1> QED
  BY <1>1, <1>2, <1>5, <1>6, <1>7, <1>8 DEF TCStep

LEMMA MaxOne ==
    ASSUME NEW n \in Nat
    PROVE  Max({1, n}) - 1 = IF n > 1 THEN n - 1 ELSE 0
<1> DEFINE m == IF n > 1 THEN n ELSE 1
<1>1. m \in {1, n} /\ \A y \in {1, n} : m >= y
  OBVIOUS
<1>2. \A x \in {1, n} : (\A y \in {1, n} : x >= y) => x = m
  OBVIOUS
<1> HIDE DEF m
<1>3. (CHOOSE x \in {1, n} : \A y \in {1, n} : x >= y) = m
  BY <1>1, <1>2
<1> QED
  BY <1>3 DEF Max, m

\* Of a whole file every annotation and error is as stated.
LEMMA AnnotationsMeaning ==
    ASSUME FileInv, LoopInv, AnnotationsInv, ErrorsInv, Collected
    PROVE  AnnotationsAsStated
<1> DEFINE stated == {<<comments[i].line, Recorded(First(comments[i], Annotations))>> :
                         i \in With(Annotations)}
<1>1. ASSUME NEW x \in type_comments
      PROVE  x \in stated
  <2>1. PICK i \in 1..Len(comments), k \in Nat :
           FirstTaken(i, Annotations, k) /\ x = Annotation(i, k)
    BY DEF AnnotationsInv
  <2>2. i \in With(Annotations) /\ First(comments[i], Annotations) = comments[i].parts[k]
    BY <2>1, FirstIs
  <2>3. x = <<comments[i].line, Recorded(First(comments[i], Annotations))>>
    BY <2>1, <2>2 DEF Annotation
  <2> QED
    BY <2>2, <2>3
<1>2. ASSUME NEW i \in With(Annotations)
      PROVE  <<comments[i].line, Recorded(First(comments[i], Annotations))>> \in type_comments
  <2>1. i \in 1..Len(comments) /\ Taken(i, Annotations) # {}
    BY TakenAll DEF With
  <2>2. PICK k \in Nat : FirstTaken(i, Annotations, k) /\ Annotation(i, k) \in type_comments
    BY <2>1 DEF AnnotationsInv
  <2> QED
    BY <2>1, <2>2, FirstIs DEF Annotation
<1>3. type_comments = stated
  BY <1>1, <1>2
<1>4. ASSUME NEW i \in 1..Len(comments), NEW kinds
      PROVE  /\ Count(i, kinds) = Cardinality(Counted(comments[i], kinds))
             /\ Repeated(i, kinds) = Max({1, Cardinality(Counted(comments[i], kinds))}) - 1
  <2>1. Count(i, kinds) = Cardinality(Counted(comments[i], kinds)) /\ Count(i, kinds) \in Nat
    BY TakenAll, CountType DEF Count
  <2> QED
    BY <2>1, MaxOne DEF Repeated
<1>5. ASSUME NEW i \in 1..Len(comments)
      PROVE  Cardinality({e \in 1..Len(tc_errors) : tc_errors[e][1] = comments[i].line}) =
                Cardinality(Counted(comments[i], Invalid))
                  + (Max({1, Cardinality(Counted(comments[i], Ignores))}) - 1)
                  + (Max({1, Cardinality(Counted(comments[i], MypyIgnores))}) - 1)
                  + (Max({1, Cardinality(Counted(comments[i], Annotations))}) - 1)
  BY <1>4 DEF ErrorsInv, Errors, ErrorsOf
<1> QED
  BY <1>3, <1>5 DEF AnnotationsAsStated
-----------------------------------------------------------------------------
(* The inline configuration. *)

ConfigsInv ==
    /\ mypy_comments \in Seq(Nat \X Kinds)
    /\ \A e \in 1..Len(mypy_comments) :
          \E i \in 1..Len(comments) :
             i <= at /\ IsInlineConfig(comments[i]) /\ mypy_comments[e] = Entry(i, 1)
    /\ \A i \in 1..Len(comments) :
          i <= at /\ IsInlineConfig(comments[i]) =>
             \E e \in 1..Len(mypy_comments) : mypy_comments[e] = Entry(i, 1)
    /\ \A d, e \in 1..Len(mypy_comments) : d < e => mypy_comments[d][1] < mypy_comments[e][1]

LEMMA ConfigsStep == FileInv /\ LoopInv /\ ConfigsInv /\ TCStep => ConfigsInv'
<1> SUFFICES ASSUME FileInv, LoopInv, ConfigsInv, TCStep PROVE ConfigsInv'
  OBVIOUS
<1>0. Len(comments) \in Nat /\ at \in 0..Len(comments)
  BY FileType DEF LoopInv
<1>1. ASSUME UNCHANGED <<comments, at, mypy_comments>>
      PROVE  ConfigsInv'
  BY <1>1 DEF ConfigsInv, IsInlineConfig, Entry
<1>2. CASE NextComment
  <2>1. PICK n \in 1..Len(comments) :
           /\ n = at + 1 /\ at' = n /\ UNCHANGED comments
           /\ mypy_comments' = IF IsInlineConfig(comments[n])
                               THEN Append(mypy_comments, <<comments[n].line, comments[n].parts[1]>>)
                               ELSE mypy_comments
    <3>1. at + 1 \in 1..Len(comments) /\ at' = at + 1 /\ UNCHANGED comments
      BY <1>0, <1>2 DEF NextComment
    <3>2. mypy_comments' = IF IsInlineConfig(comments[at + 1])
                           THEN Append(mypy_comments,
                                       <<comments[at + 1].line, comments[at + 1].parts[1]>>)
                           ELSE mypy_comments
      BY <1>2 DEF NextComment
    <3> QED
      BY <3>1, <3>2
  <2>2. /\ \A i : Entry(i, 1)' = Entry(i, 1)
        /\ \A i : IsInlineConfig(comments[i])' <=> IsInlineConfig(comments[i])
    BY <2>1 DEF Entry, IsInlineConfig
  <2>3. \A i \in 1..Len(comments) : i <= n <=> i <= at \/ i = n
    BY <1>0, <2>1
  <2>4. CASE ~IsInlineConfig(comments[n])
    BY <2>1, <2>2, <2>3, <2>4 DEF ConfigsInv
  <2>5. CASE IsInlineConfig(comments[n])
    <3>0. PICK len \in Nat : len = Len(mypy_comments)
      BY DEF ConfigsInv
    <3>1. Entry(n, 1) \in Nat \X Kinds
      BY FileType DEF Entry
    <3>2. /\ mypy_comments' \in Seq(Nat \X Kinds)
          /\ Len(mypy_comments') = len + 1
          /\ \A e \in 1..len : mypy_comments'[e] = mypy_comments[e]
          /\ mypy_comments'[len + 1] = Entry(n, 1)
      BY <2>1, <2>5, <3>0, <3>1, AppendProperties, SMTT(60) DEF ConfigsInv, Entry
    <3>3. \A e \in 1..(len + 1) : e \in 1..len \/ e = len + 1
      OBVIOUS
    <3>4. 1..len \subseteq 1..(len + 1) /\ len + 1 \in 1..(len + 1)
      OBVIOUS
    <3>5. ASSUME NEW e \in 1..(len + 1)
          PROVE  \E i \in 1..Len(comments) :
                    i <= n /\ IsInlineConfig(comments[i]) /\ mypy_comments'[e] = Entry(i, 1)
      <4>1. CASE e \in 1..len
        <5>1. PICK i \in 1..Len(comments) :
                 i <= at /\ IsInlineConfig(comments[i]) /\ mypy_comments[e] = Entry(i, 1)
          BY <3>0, <4>1 DEF ConfigsInv
        <5> QED
          BY <2>3, <3>2, <4>1, <5>1
      <4>2. CASE e = len + 1
        BY <2>3, <2>5, <3>2, <4>2
      <4> QED
        BY <3>3, <4>1, <4>2
    <3>6. ASSUME NEW i \in 1..Len(comments), i <= n, IsInlineConfig(comments[i])
          PROVE  \E e \in 1..(len + 1) : mypy_comments'[e] = Entry(i, 1)
      <4>1. CASE i = n
        BY <3>2, <3>4, <4>1
      <4>2. CASE i # n
        <5>1. PICK e \in 1..len : mypy_comments[e] = Entry(i, 1)
          BY <2>3, <3>0, <3>6, <4>2 DEF ConfigsInv
        <5> QED
          BY <3>2, <3>4, <5>1
      <4> QED
        BY <4>1, <4>2
    <3>7. ASSUME NEW d \in 1..(len + 1), NEW e \in 1..(len + 1), d < e
          PROVE  mypy_comments'[d][1] < mypy_comments'[e][1]
      <4>1. d \in 1..len
        BY <3>7
      <4>2. CASE e \in 1..len
        BY <3>0, <3>2, <3>7, <4>1, <4>2 DEF ConfigsInv
      <4>3. CASE e = len + 1
        <5>1. PICK i \in 1..Len(comments) : i <= at /\ mypy_comments[d] = Entry(i, 1)
          BY <3>0, <4>1 DEF ConfigsInv
        <5>2. comments[i].line < comments[n].line
          BY <1>0, <2>1, <5>1 DEF FileInv
        <5> QED
          BY <3>2, <4>1, <4>3, <5>1, <5>2 DEF Entry
      <4> QED
        BY <3>3, <4>2, <4>3
    <3>8. PICK m \in Nat : m = len + 1 /\ Len(mypy_comments') = m
      BY <3>2
    <3>9. ASSUME NEW e \in 1..m
          PROVE  (\E i \in 1..Len(comments) :
                    i <= at /\ IsInlineConfig(comments[i]) /\ mypy_comments[e] = Entry(i, 1))'
      BY <2>1, <2>2, <3>5, <3>8
    <3>10. ASSUME NEW i \in 1..Len(comments), (i <= at /\ IsInlineConfig(comments[i]))'
           PROVE  (\E e \in 1..m : mypy_comments[e] = Entry(i, 1))'
      BY <2>1, <2>2, <3>6, <3>8, <3>10
    <3>11. \A d, e \in 1..m : d < e => mypy_comments'[d][1] < mypy_comments'[e][1]
      BY <3>7, <3>8
    <3>12. Len(comments') = Len(comments) /\ mypy_comments' \in Seq(Nat \X Kinds)
      BY <2>1, <3>2
    <3> QED
      BY <3>8, <3>9, <3>10, <3>11, <3>12 DEF ConfigsInv
  <2> QED
    BY <2>4, <2>5
<1> QED
  BY <1>1, <1>2 DEF TCStep, Pass, InvalidIgnore, TypeIgnore, MypyIgnore, TypeAnnotation,
     Part, Turn
-----------------------------------------------------------------------------
TCInv == FileInv /\ LoopInv /\ ListsInv /\ AnnotationsInv /\ ErrorsInv /\ ConfigsInv

LEMMA TCInvStep == TCInv /\ TCStep => TCInv'
<1> SUFFICES ASSUME TCInv, TCStep PROVE TCInv'
  OBVIOUS
<1>1. FileInv'
  <2>1. UNCHANGED <<comments, cache_version>>
    BY DEF TCStep, NextComment, Pass, InvalidIgnore, TypeIgnore, MypyIgnore, TypeAnnotation,
       Part, Turn
  <2> QED
    BY <2>1, SameComments DEF TCInv
<1> QED
  BY <1>1, LoopStep, ListsStep, AnnotationsStep, ErrorsStep, ConfigsStep DEF TCInv

\* Before the first comment nothing is collected.
AtStart ==
    /\ at = 0 /\ next_part = 1 /\ ignore_next = FALSE /\ stopped = FALSE
    /\ seen_type_ignore = FALSE /\ seen_mypy_ignore = FALSE
    /\ type_ignore_lines = << >> /\ mypy_ignore_lines = << >>
    /\ type_comments = {} /\ mypy_comments = << >> /\ tc_errors = << >>

LEMMA TCInvStart == FileInv /\ AtStart => TCInv
<1> SUFFICES ASSUME FileInv, AtStart PROVE TCInv
  OBVIOUS
<1>0. Len(comments) \in Nat /\ \A i \in 1..Len(comments) : ~(i <= at) /\ i # at /\ ~(i < at)
  BY FileType DEF AtStart
<1>1. \A i \in 1..Len(comments) : \A kinds : Taken(i, kinds) = {}
  BY <1>0 DEF Taken
<1>2. \A S : << >> \in Seq(S) /\ Len(<< >>) = 0
  BY EmptySeq
<1>3. \A e : e \notin 1..0
  OBVIOUS
<1>4. LoopInv
  <2>1. ignore_next \in BOOLEAN /\ stopped \in BOOLEAN
    BY DEF AtStart
  <2>2. at \in 0..Len(comments) /\ next_part \in Nat \ {0}
    BY <1>0 DEF AtStart
  <2> QED
    BY <1>0, <2>1, <2>2 DEF LoopInv
<1>5. ListsInv
  <2>1. ASSUME NEW l \in Lists
        PROVE  ListTaken(l) /\ SeenTaken(l)
    <3>1. List(l) = << >> /\ Seen(l) \in BOOLEAN
      BY DEF AtStart, List, Seen
    <3> QED
      BY <1>0, <1>1, <1>2, <1>3, <3>1 DEF ListTaken, SeenTaken
  <2> QED
    BY <2>1 DEF ListsInv
<1>6. AnnotationsInv
  BY <1>1 DEF AnnotationsInv, AtStart
<1>7. ErrorsInv
  <2>1. ASSUME NEW i \in 1..Len(comments)
        PROVE  /\ Errors(i) = 0
               /\ \A kinds : Count(i, kinds) = 0 /\ Repeated(i, kinds) = 0
    <3>1. ErrorsOf(i) = {}
      BY <1>2, <1>3 DEF ErrorsOf, AtStart
    <3> QED
      BY <1>1, <3>1, FS_EmptySet DEF Errors, Count, Repeated
  <2> QED
    BY <1>2, <2>1 DEF ErrorsInv, AtStart
<1>8. ConfigsInv
  BY <1>0, <1>2, <1>3 DEF ConfigsInv, AtStart
<1> QED
  BY <1>4, <1>5, <1>6, <1>7, <1>8 DEF TCInv
-----------------------------------------------------------------------------
(* The call. *)

Early   == {"read", "failed", "hash", "parse"}      \* nothing is parsed yet
Decided == {"walk", "retain", "done"}               \* the module is ignored, or not
After   == {"ignores"} \cup Decided

\* The text, its hash and its comments are one.
TextInv ==
    /\ stage \in Early \cup {"comments"} \cup After
    /\ disk \in Contents \cup {Unreadable}
    /\ source = NoSource \/ source \in Contents \cup {Unreadable}
    /\ stage \notin {"read", "failed"} => text \in Contents
    /\ stage \notin {"read", "failed", "hash"} => hash = text
    /\ stage \notin Early => comments = text.comments /\ errors.blocker = text.errors
    /\ stage \in Early => comments = << >>
    /\ errors \in [blocker : Nat, module : {0, 1}, walk : Nat]

Dropped == stage \in Decided /\ top_unreachable

CommentsInv ==
    /\ FileInv /\ LoopInv /\ AnnotationsInv /\ ErrorsInv /\ ConfigsInv
    /\ stage \in Early => AtStart
    /\ stage \in After => Collected
    /\ Dropped => type_ignore_lines = << >> /\ mypy_ignore_lines = << >>
    /\ ~Dropped => ListsInv

\* The errors for codes in the comment that ignores the module.
CodesReported ==
    \A c \in FirstBefore :
        /\ (\A part \in Listed(c) : Codes(part)) => errors.module = 1
        /\ (\A part \in Listed(c) : ~Codes(part)) => errors.module = 0

ModuleInv ==
    /\ top_unreachable \in BOOLEAN
    /\ stage \notin Decided => errors.module = 0
    /\ stage \in Decided =>
          /\ top_unreachable <=> Before # {}
          /\ errors.module = 1 => Before # {}
          /\ CodesReported

OptionsInv ==
    /\ skip_function_bodies \in BOOLEAN /\ asked.skip_function_bodies \in BOOLEAN
    /\ stage \notin After =>
          /\ skip_function_bodies <=> asked.skip_function_bodies
          /\ always_true = asked.always_true /\ always_false = asked.always_false
    /\ stage \in After =>
          /\ skip_function_bodies <=> asked.skip_function_bodies \/ IgnoreErrors
          /\ always_true = asked.always_true \cup Named("always_true")
          /\ always_false = asked.always_false \cup Named("always_false")

ResultInv ==
    /\ stage \in {"retain", "done"} /\ ~top_unreachable => skipped_lines = text.skipped[Truth]
    /\ stage = "done" =>
          /\ result = IF top_unreachable THEN "ignored" ELSE "tree"
          /\ retained = [type |-> Retained(type_ignore_lines), mypy |-> Retained(mypy_ignore_lines)]
    /\ Returned => stage = "done"

SFInv == TextInv /\ CommentsInv /\ ModuleInv /\ OptionsInv /\ ResultInv
-----------------------------------------------------------------------------
LEMMA TextStart == Init => TextInv
BY SourcesAssumption DEF Init, TextInv, Early, Decided, After

LEMMA TextStep == TextInv /\ [Next]_vars => TextInv'
<1> SUFFICES ASSUME TextInv, [Next]_vars PROVE TextInv'
  OBVIOUS
<1> USE DEF Early, Decided, After
<1>1. CASE Read
  <2> DEFINE read == IF source = NoSource THEN disk ELSE source
  <2>1. read \in Contents \cup {Unreadable}
    BY DEF TextInv
  <2>2. /\ stage = "read" /\ UNCHANGED <<comments, disk, source, errors>>
        /\ IF read = Unreadable THEN stage' = "failed" /\ UNCHANGED text
           ELSE stage' = "hash" /\ text' = read
    BY <1>1 DEF Read, AfterRead, tcvars
  <2> QED
    BY <2>1, <2>2 DEF TextInv
<1>2. CASE Hash
  BY <1>2 DEF Hash, Hashed, TextInv, tcvars
<1>3. CASE Parse
  <2>1. /\ stage = "parse" /\ stage' = "comments" /\ comments' = text.comments
        /\ errors' = [errors EXCEPT !.blocker = text.errors]
        /\ UNCHANGED <<disk, source, text, hash>>
    BY <1>3 DEF Parse
  <2>2. text.errors \in Nat
    BY <2>1 DEF TextInv, Contents
  <2> QED
    BY <2>1, <2>2 DEF TextInv
<1>4. CASE Collect
  <2>1. UNCHANGED <<comments, disk, source, stage, text, hash, errors>>
    BY <1>4 DEF Collect, TCStep, NextComment, Pass, InvalidIgnore, TypeIgnore, MypyIgnore,
       TypeAnnotation, Part, Turn
  <2> QED
    BY <2>1 DEF TextInv
<1>5. CASE Override
  BY <1>5 DEF Override, TextInv, tcvars
<1>6. CASE IgnoreModule
  <2>1. /\ stage = "ignores" /\ stage' = "walk" /\ UNCHANGED <<comments, disk, source, text, hash>>
        /\ errors' = [errors EXCEPT !.module = IF Codes(FirstIgnore[2]) THEN 1 ELSE 0]
           \/ UNCHANGED errors
    BY <1>6 DEF IgnoreModule
  <2> QED
    BY <2>1 DEF TextInv
<1>7. CASE Walk
  <2>1. /\ stage = "walk" /\ stage' = "retain" /\ UNCHANGED <<comments, disk, source, text, hash>>
        /\ errors' = [errors EXCEPT !.walk = text.extra_errors] \/ UNCHANGED errors
    BY <1>7 DEF Walk, tcvars
  <2>2. text.extra_errors \in Nat
    BY <2>1 DEF TextInv, Contents
  <2> QED
    BY <2>1, <2>2 DEF TextInv
<1>8. CASE Retain
  BY <1>8 DEF Retain, TextInv, tcvars
<1>9. CASE Rewrite
  BY <1>9, SourcesAssumption DEF Rewrite, TextInv, tcvars
<1>10. CASE UNCHANGED vars
  BY <1>10 DEF vars, tcvars, TextInv
<1> QED
  BY <1>1, <1>2, <1>3, <1>4, <1>5, <1>6, <1>7, <1>8, <1>9, <1>10 DEF Next, Step, Done
-----------------------------------------------------------------------------
LEMMA ContentFile ==
    ASSUME NEW file \in Files \cup {<< >>}
    PROVE  /\ file \in Seq(Comments)
           /\ \A i \in 1..Len(file) : file[i].parts # << >>
           /\ \A i, j \in 1..Len(file) : i < j => file[i].line < file[j].line
<1>1. CASE file \in Files
  BY <1>1, FilesAssumption
<1>2. CASE file = << >>
  <2>1. file \in Seq(Comments) /\ Len(file) = 0
    BY <1>2, EmptySeq
  <2>2. \A i : i \notin 1..0
    OBVIOUS
  <2> QED
    BY <2>1, <2>2
<1> QED
  BY <1>1, <1>2

LEMMA CommentsStart == Init => CommentsInv
<1> SUFFICES ASSUME Init PROVE CommentsInv
  OBVIOUS
<1>1. AtStart /\ comments = << >> /\ cache_version \in Nat /\ stage = "read"
  BY FilesAssumption DEF Init, AtStart
<1>2. FileInv
  BY <1>1, ContentFile DEF FileInv
<1> QED
  BY <1>1, <1>2, TCInvStart DEF TCInv, CommentsInv, Dropped, Early, Decided, After

\* The lists of ignores may change without the rest.
LEMMA Unlisted ==
    ASSUME UNCHANGED <<comments, cache_version, at, next_part, ignore_next, stopped,
                       type_comments, mypy_comments, tc_errors>>
    PROVE  /\ FileInv => FileInv'
           /\ LoopInv => LoopInv'
           /\ AnnotationsInv => AnnotationsInv'
           /\ ErrorsInv => ErrorsInv'
           /\ ConfigsInv => ConfigsInv'
           /\ Collected' <=> Collected
<1>1. /\ \A i, kinds : Taken(i, kinds)' = Taken(i, kinds)
      /\ \A i, kinds, k : FirstTaken(i, kinds, k)' <=> FirstTaken(i, kinds, k)
  BY DEF Taken, FirstTaken, Counted, Counts
<1>2. FileInv => FileInv'
  BY DEF FileInv
<1>3. LoopInv => LoopInv'
  BY DEF LoopInv, Unknown, SkipCommented
<1>4. AnnotationsInv => AnnotationsInv'
  BY <1>1 DEF AnnotationsInv, Annotation
<1>5. ErrorsInv => ErrorsInv'
  <2>1. /\ \A i, kinds : Repeated(i, kinds)' = Repeated(i, kinds)
        /\ \A i, kinds : Count(i, kinds)' = Count(i, kinds)
        /\ \A i : Errors(i)' = Errors(i)
    BY <1>1 DEF Repeated, Count, Errors, ErrorsOf
  <2> QED
    BY <2>1 DEF ErrorsInv
<1>6. ConfigsInv => ConfigsInv'
  BY DEF ConfigsInv, IsInlineConfig, Entry
<1>7. Collected' <=> Collected
  BY DEF Collected, PartsLeft
<1> QED
  BY <1>2, <1>3, <1>4, <1>5, <1>6, <1>7

LEMMA ListsUnchanged ==
    ASSUME UNCHANGED tcvars, ListsInv
    PROVE  ListsInv'
<1>1. UNCHANGED <<comments, cache_version, at, next_part, seen_type_ignore, seen_mypy_ignore,
                  type_ignore_lines, mypy_ignore_lines>>
  BY DEF tcvars, parsing, collected
<1>2. ASSUME NEW l \in Lists
      PROVE  ListTaken(l)' /\ SeenTaken(l)'
  <2>1. ListTaken(l) /\ SeenTaken(l)
    BY DEF ListsInv
  <2>2. KindsOf(l)' = KindsOf(l) /\ List(l)' = List(l)
    BY <1>1 DEF List, KindsOf
  <2>3. \A i : Taken(i, KindsOf(l))' = Taken(i, KindsOf(l))
    BY <1>1, <2>2 DEF Taken, Counted, Counts
  <2>4. \A i, k : FirstTaken(i, KindsOf(l), k)' <=> FirstTaken(i, KindsOf(l), k)
    BY <2>3 DEF FirstTaken
  <2>5. ListTaken(l)'
    BY <1>1, <2>1, <2>2, <2>3, <2>4, ListSame
  <2>6. SeenTaken(l)'
    BY <1>1, <2>1, <2>3 DEF SeenTaken, Seen
  <2> QED
    BY <2>5, <2>6
<1> QED
  BY <1>2 DEF ListsInv

LEMMA CommentsKept ==
    ASSUME CommentsInv, UNCHANGED tcvars,
           stage' \in Early => AtStart, stage' \in After => Collected, Dropped' <=> Dropped
    PROVE  CommentsInv'
<1>1. /\ UNCHANGED <<comments, cache_version, at, next_part, ignore_next, stopped,
                     type_comments, mypy_comments, tc_errors>>
      /\ UNCHANGED <<type_ignore_lines, mypy_ignore_lines, seen_type_ignore, seen_mypy_ignore>>
  BY DEF tcvars, parsing, collected
<1>2. AtStart' <=> AtStart
  BY <1>1 DEF AtStart
<1>3. /\ FileInv /\ LoopInv /\ AnnotationsInv /\ ErrorsInv /\ ConfigsInv
      /\ Dropped => type_ignore_lines = << >> /\ mypy_ignore_lines = << >>
      /\ ~Dropped => ListsInv
  BY DEF CommentsInv
<1>4. FileInv' /\ LoopInv' /\ AnnotationsInv' /\ ErrorsInv' /\ ConfigsInv'
      /\ (Collected' <=> Collected)
  BY <1>1, <1>3, Unlisted
<1>5. /\ Dropped' => type_ignore_lines' = << >> /\ mypy_ignore_lines' = << >>
      /\ ~Dropped' => ListsInv'
  BY <1>1, <1>3, ListsUnchanged
<1> QED
  BY <1>2, <1>4, <1>5 DEF CommentsInv, Early, After, Decided

LEMMA CommentsStep == TextInv /\ CommentsInv /\ [Next]_vars => CommentsInv'
<1> SUFFICES ASSUME TextInv, CommentsInv, [Next]_vars PROVE CommentsInv'
  OBVIOUS
<1>1. ASSUME UNCHANGED tcvars, stage \in Early, stage' \in Early
      PROVE  CommentsInv'
  <2>1. ~Dropped /\ ~Dropped' /\ AtStart /\ stage' \notin After
    BY <1>1 DEF Dropped, Early, After, Decided, CommentsInv
  <2> QED
    BY <1>1, <2>1, CommentsKept
<1>2. CASE Read
  BY <1>1, <1>2 DEF Read, AfterRead, Early
<1>3. CASE Hash
  BY <1>1, <1>3 DEF Hash, Early
<1>4. CASE Parse
  <2>1. /\ stage = "parse" /\ stage' = "comments" /\ comments' = text.comments
        /\ UNCHANGED <<cache_version, parsing, collected>>
    BY <1>4 DEF Parse
  <2>2. comments' \in Files /\ cache_version' \in Nat
    BY <2>1 DEF TextInv, Contents, CommentsInv, FileInv
  <2>3. FileInv'
    BY <2>2, ContentFile DEF FileInv
  <2>4. AtStart'
    BY <2>1 DEF CommentsInv, AtStart, Early, parsing, collected
  <2>5. (FileInv /\ AtStart => TCInv)'
    BY TCInvStart, PTL
  <2>6. TCInv'
    BY <2>3, <2>4, <2>5
  <2> QED
    BY <2>1, <2>6 DEF TCInv, CommentsInv, Dropped, Early, After, Decided
<1>5. CASE Collect
  <2>1. stage = "comments" /\ UNCHANGED stage /\ TCStep
    BY <1>5 DEF Collect
  <2>2. TCInv
    BY <2>1 DEF CommentsInv, TCInv, Dropped, Decided
  <2>3. TCInv'
    BY <2>1, <2>2, TCInvStep
  <2> QED
    BY <2>1, <2>3 DEF TCInv, CommentsInv, Dropped, Early, After, Decided
<1>6. CASE Override
  <2>1. /\ stage = "comments" /\ Collected /\ stage' = "ignores" /\ UNCHANGED tcvars
    BY <1>6 DEF Override
  <2>2. ~Dropped /\ ~Dropped' /\ stage' \notin Early
    BY <2>1 DEF Dropped, Decided, Early
  <2> QED
    BY <2>1, <2>2, CommentsKept
<1>7. CASE IgnoreModule
  <2>1. /\ stage = "ignores" /\ stage' = "walk"
        /\ UNCHANGED <<comments, cache_version, at, next_part, ignore_next, stopped,
                       seen_type_ignore, seen_mypy_ignore,
                       type_comments, mypy_comments, tc_errors>>
        /\ top_unreachable' => type_ignore_lines' = << >> /\ mypy_ignore_lines' = << >>
        /\ ~top_unreachable' => UNCHANGED <<type_ignore_lines, mypy_ignore_lines>>
    BY <1>7 DEF IgnoreModule, parsing
  <2>2. ListsInv /\ Collected /\ FileInv /\ LoopInv /\ AnnotationsInv /\ ErrorsInv /\ ConfigsInv
    BY <2>1 DEF CommentsInv, Dropped, Decided, After
  <2>3. FileInv' /\ LoopInv' /\ AnnotationsInv' /\ ErrorsInv' /\ ConfigsInv' /\ Collected'
    BY <2>1, <2>2, Unlisted
  <2>4. ~top_unreachable' => ListsInv'
    <3>1. ~top_unreachable' => UNCHANGED tcvars
      BY <2>1 DEF tcvars, parsing, collected
    <3> QED
      BY <2>2, <3>1, ListsUnchanged
  <2>5. Dropped' <=> top_unreachable'
    BY <2>1 DEF Dropped, Decided
  <2> QED
    BY <2>1, <2>3, <2>4, <2>5 DEF CommentsInv, Early, After, Decided
<1>8. ASSUME UNCHANGED tcvars, UNCHANGED top_unreachable, stage \in Decided, stage' \in Decided
      PROVE  CommentsInv'
  <2>1. (Dropped' <=> Dropped) /\ Collected /\ stage' \notin Early
    BY <1>8 DEF Dropped, Early, After, Decided, CommentsInv
  <2> QED
    BY <1>8, <2>1, CommentsKept
<1>9. CASE Walk
  BY <1>8, <1>9 DEF Walk, Decided
<1>10. CASE Retain
  BY <1>8, <1>10 DEF Retain, Decided
<1>11. ASSUME UNCHANGED <<tcvars, stage, top_unreachable>>
       PROVE  CommentsInv'
  <2>1. UNCHANGED tcvars /\ (Dropped' <=> Dropped)
    BY <1>11 DEF Dropped
  <2> QED
    BY <1>11, <2>1, CommentsKept DEF CommentsInv
<1>12. CASE Rewrite
  BY <1>11, <1>12 DEF Rewrite
<1>13. CASE UNCHANGED vars
  BY <1>11, <1>13 DEF vars
<1> QED
  BY <1>2, <1>3, <1>4, <1>5, <1>6, <1>7, <1>9, <1>10, <1>12, <1>13 DEF Next, Step, Done
-----------------------------------------------------------------------------
(* The ignores, of the comments that state them. *)

\* A comment of the hashed text is one of those collected.
LEMMA CommentType ==
    ASSUME FileInv, comments = hash.comments
    PROVE  /\ \A c : c \in ToSet(hash.comments) <=> \E i \in 1..Len(comments) : c = comments[i]
           /\ \A c \in ToSet(hash.comments) : c.line \in Nat
           /\ \A c, d \in ToSet(hash.comments) : c.line = d.line => c = d
<1>1. DOMAIN comments = 1..Len(comments)
  BY LenProperties DEF FileInv
<1>2. \A c : c \in ToSet(hash.comments) <=> \E i \in 1..Len(comments) : c = comments[i]
  BY <1>1 DEF ToSet
<1>3. \A i \in 1..Len(comments) : comments[i].line \in Nat
  BY FileType
<1>4. ASSUME NEW i \in 1..Len(comments), NEW j \in 1..Len(comments),
             comments[i].line = comments[j].line
      PROVE  i = j
  <2>1. i \in Nat /\ j \in Nat /\ comments[i].line \in Nat
    BY <1>3, FileType
  <2>2. ~(i < j) /\ ~(j < i)
    BY <1>3, <1>4 DEF FileInv
  <2> QED
    BY <2>1, <2>2
<1> QED
  BY <1>2, <1>3, <1>4

LEMMA ListStated ==
    ASSUME FileInv, LoopInv, ListsInv, Collected, comments = hash.comments, NEW l \in Lists
    PROVE  /\ List(l) \in Seq(Nat \X Kinds)
           /\ \A e \in 1..Len(List(l)) :
                 \E c \in Stated(KindsOf(l)) : List(l)[e] = <<c.line, First(c, KindsOf(l))>>
           /\ \A c \in Stated(KindsOf(l)) :
                 \E e \in 1..Len(List(l)) : List(l)[e] = <<c.line, First(c, KindsOf(l))>>
           /\ \A d, e \in 1..Len(List(l)) : d < e => List(l)[d][1] < List(l)[e][1]
<1>1. ListTaken(l)
  BY DEF ListsInv
<1>2. ASSUME NEW e \in 1..Len(List(l))
      PROVE  \E c \in Stated(KindsOf(l)) : List(l)[e] = <<c.line, First(c, KindsOf(l))>>
  <2>1. PICK i \in 1..Len(comments), k \in Nat :
           FirstTaken(i, KindsOf(l), k) /\ List(l)[e] = Entry(i, k)
    BY <1>1 DEF ListTaken
  <2>2. comments[i] \in Stated(KindsOf(l)) /\ First(comments[i], KindsOf(l)) = comments[i].parts[k]
    BY <2>1, FirstIs, CommentType DEF With, Stated
  <2> QED
    BY <2>1, <2>2 DEF Entry
<1>3. ASSUME NEW c \in Stated(KindsOf(l))
      PROVE  \E e \in 1..Len(List(l)) : List(l)[e] = <<c.line, First(c, KindsOf(l))>>
  <2>1. PICK i \in 1..Len(comments) : c = comments[i] /\ Counted(comments[i], KindsOf(l)) # {}
    BY CommentType DEF Stated
  <2>2. Taken(i, KindsOf(l)) # {}
    BY <2>1, TakenAll
  <2>3. PICK e \in 1..Len(List(l)), k \in Nat :
           FirstTaken(i, KindsOf(l), k) /\ List(l)[e] = Entry(i, k)
    BY <1>1, <2>2 DEF ListTaken
  <2> QED
    BY <2>1, <2>3, FirstIs DEF Entry
<1> QED
  BY <1>1, <1>2, <1>3 DEF ListTaken

\* The head of a list is its first line.
LEMMA HeadStated ==
    ASSUME FileInv, LoopInv, ListsInv, Collected, comments = hash.comments, NEW l \in Lists
    PROVE  /\ List(l) = << >> <=> Stated(KindsOf(l)) = {}
           /\ List(l) # << >> =>
                 \E c \in Stated(KindsOf(l)) :
                    /\ Head(List(l)) = <<c.line, First(c, KindsOf(l))>>
                    /\ \A d \in Stated(KindsOf(l)) : c.line <= d.line
<1>1. /\ List(l) \in Seq(Nat \X Kinds)
      /\ \A e \in 1..Len(List(l)) :
            \E c \in Stated(KindsOf(l)) : List(l)[e] = <<c.line, First(c, KindsOf(l))>>
      /\ \A c \in Stated(KindsOf(l)) :
            \E e \in 1..Len(List(l)) : List(l)[e] = <<c.line, First(c, KindsOf(l))>>
      /\ \A d, e \in 1..Len(List(l)) : d < e => List(l)[d][1] < List(l)[e][1]
  BY ListStated
<1>2. List(l) = << >> <=> Len(List(l)) = 0
  BY <1>1, EmptySeq
<1>3. Len(List(l)) \in Nat
  BY <1>1, LenProperties
<1>4. ASSUME List(l) # << >>
      PROVE  \E c \in Stated(KindsOf(l)) :
                /\ Head(List(l)) = <<c.line, First(c, KindsOf(l))>>
                /\ \A d \in Stated(KindsOf(l)) : c.line <= d.line
  <2>1. 1 \in 1..Len(List(l)) /\ Head(List(l)) = List(l)[1]
    BY <1>1, <1>2, <1>3, <1>4, HeadTailProperties
  <2>2. PICK c \in Stated(KindsOf(l)) : List(l)[1] = <<c.line, First(c, KindsOf(l))>>
    BY <1>1, <2>1
  <2>3. ASSUME NEW d \in Stated(KindsOf(l))
        PROVE  c.line <= d.line
    <3>1. PICK e \in 1..Len(List(l)) : List(l)[e] = <<d.line, First(d, KindsOf(l))>>
      BY <1>1
    <3>2. List(l)[1][1] = c.line /\ List(l)[e][1] = d.line
      BY <2>2, <3>1
    <3>3. c.line \in Nat /\ d.line \in Nat
      BY CommentType DEF Stated
    <3>4. 1 < e => c.line < d.line
      BY <1>1, <2>1, <3>2
    <3>5. e = 1 \/ 1 < e
      BY <1>3
    <3> QED
      BY <3>2, <3>3, <3>4, <3>5
  <2> QED
    BY <2>1, <2>2, <2>3
<1>5. Stated(KindsOf(l)) = {} => Len(List(l)) = 0
  BY <1>1, <1>3
<1>6. Len(List(l)) = 0 => Stated(KindsOf(l)) = {}
  BY <1>1
<1> QED
  BY <1>2, <1>4, <1>5, <1>6

AllIgnores == Ignores \cup MypyIgnores

LEMMA StatedAll ==
    /\ \A c : c \in Stated(AllIgnores) <=>
                 c \in Stated(KindsOf("type")) \/ c \in Stated(KindsOf("mypy"))
    /\ \A l \in Lists : \A c \in Stated(KindsOf(l)) : First(c, KindsOf(l)) \in Listed(c)
<1>1. KindsOf("type") = Ignores /\ KindsOf("mypy") = MypyIgnores
  BY DEF KindsOf
<1>2. \A c : Counted(c, AllIgnores) # {} <=>
                Counted(c, Ignores) # {} \/ Counted(c, MypyIgnores) # {}
  BY DEF Counted, AllIgnores
<1>3. \A c : c \in Stated(AllIgnores) <=>
                c \in Stated(KindsOf("type")) \/ c \in Stated(KindsOf("mypy"))
  BY <1>1, <1>2 DEF Stated
<1>4. ASSUME NEW l \in Lists, NEW c \in Stated(KindsOf(l))
      PROVE  First(c, KindsOf(l)) \in Listed(c)
  <2>1. KindsOf(l) \in {k \in {Ignores, MypyIgnores} : Counted(c, k) # {}}
    BY <1>1 DEF Lists, Stated
  <2> QED
    BY <2>1 DEF Listed
<1> QED
  BY <1>3, <1>4

\* What the code takes for the first ignore is one of the first comment with one.
LEMMA FirstIgnoreExact ==
    ASSUME FileInv, LoopInv, ListsInv, Collected, comments = hash.comments
    PROVE  /\ type_ignore_lines = << >> /\ mypy_ignore_lines = << >> => Stated(AllIgnores) = {}
           /\ type_ignore_lines # << >> \/ mypy_ignore_lines # << >> =>
                 \E c \in Stated(AllIgnores) :
                    /\ FirstIgnore[1] = c.line
                    /\ FirstIgnore[2] \in Listed(c)
                    /\ \A d \in Stated(AllIgnores) : c.line <= d.line
<1> DEFINE T == Stated(KindsOf("type"))
           M == Stated(KindsOf("mypy"))
           IsHead(list, S) == \E c \in S : /\ Head(list)[1] = c.line /\ Head(list)[2] \in Listed(c)
                                           /\ \A d \in S : c.line <= d.line
           IsFirst(e) == \E c \in Stated(AllIgnores) :
                            /\ e[1] = c.line /\ e[2] \in Listed(c)
                            /\ \A d \in Stated(AllIgnores) : c.line <= d.line
<1>1. ASSUME NEW l \in Lists
      PROVE  /\ List(l) = << >> <=> Stated(KindsOf(l)) = {}
             /\ List(l) # << >> => IsHead(List(l), Stated(KindsOf(l)))
  <2>1. List(l) = << >> <=> Stated(KindsOf(l)) = {}
    BY HeadStated
  <2>2. ASSUME List(l) # << >>
        PROVE  IsHead(List(l), Stated(KindsOf(l)))
    <3>1. PICK c \in Stated(KindsOf(l)) :
             /\ Head(List(l)) = <<c.line, First(c, KindsOf(l))>>
             /\ \A d \in Stated(KindsOf(l)) : c.line <= d.line
      BY <2>2, HeadStated
    <3>2. First(c, KindsOf(l)) \in Listed(c)
      BY StatedAll
    <3>3. Head(List(l))[1] = c.line /\ Head(List(l))[2] = First(c, KindsOf(l))
      BY <3>1
    <3> QED
      BY <3>1, <3>2, <3>3
  <2> QED
    BY <2>1, <2>2
<1>2. List("type") = type_ignore_lines /\ List("mypy") = mypy_ignore_lines
      /\ "type" \in Lists /\ "mypy" \in Lists
  BY DEF List, Lists
<1>3. /\ type_ignore_lines = << >> <=> T = {}
      /\ type_ignore_lines # << >> => IsHead(type_ignore_lines, T)
  <2>1. /\ List("type") = << >> <=> T = {}
        /\ List("type") # << >> => IsHead(List("type"), T)
    BY <1>1, <1>2
  <2> QED
    BY <1>2, <2>1
<1>4. /\ mypy_ignore_lines = << >> <=> M = {}
      /\ mypy_ignore_lines # << >> => IsHead(mypy_ignore_lines, M)
  <2>1. /\ List("mypy") = << >> <=> M = {}
        /\ List("mypy") # << >> => IsHead(List("mypy"), M)
    BY <1>1, <1>2
  <2> QED
    BY <1>2, <2>1
<1>5. /\ \A c : c \in Stated(AllIgnores) <=> c \in T \/ c \in M
      /\ \A c \in Stated(AllIgnores) : c.line \in Nat
  BY StatedAll, CommentType DEF Stated
<1> HIDE DEF T, M
<1>6. ASSUME type_ignore_lines # << >>, mypy_ignore_lines = << >>
      PROVE  IsFirst(FirstIgnore)
  <2>1. FirstIgnore = Head(type_ignore_lines)
    BY <1>6 DEF FirstIgnore
  <2> QED
    BY <1>3, <1>4, <1>5, <1>6, <2>1
<1>7. ASSUME mypy_ignore_lines # << >>, type_ignore_lines = << >>
      PROVE  IsFirst(FirstIgnore)
  <2>1. FirstIgnore = Head(mypy_ignore_lines)
    BY <1>7 DEF FirstIgnore
  <2> QED
    BY <1>3, <1>4, <1>5, <1>7, <2>1
<1>8. ASSUME type_ignore_lines # << >>, mypy_ignore_lines # << >>
      PROVE  IsFirst(FirstIgnore)
  <2>1. PICK t \in T : /\ Head(type_ignore_lines)[1] = t.line
                       /\ Head(type_ignore_lines)[2] \in Listed(t)
                       /\ \A d \in T : t.line <= d.line
    BY <1>3, <1>8
  <2>2. PICK m \in M : /\ Head(mypy_ignore_lines)[1] = m.line
                       /\ Head(mypy_ignore_lines)[2] \in Listed(m)
                       /\ \A d \in M : m.line <= d.line
    BY <1>4, <1>8
  <2>3. t.line \in Nat /\ m.line \in Nat
    BY <1>5
  <2>4. CASE t.line < m.line
    <3>1. FirstIgnore = Head(type_ignore_lines)
      BY <1>8, <2>1, <2>2, <2>4 DEF FirstIgnore
    <3>2. \A d \in Stated(AllIgnores) : t.line <= d.line
      BY <1>5, <2>1, <2>2, <2>3, <2>4
    <3> QED
      BY <1>5, <2>1, <3>1, <3>2
  <2>5. CASE ~(t.line < m.line)
    <3>1. FirstIgnore = Head(mypy_ignore_lines)
      BY <1>8, <2>1, <2>2, <2>5 DEF FirstIgnore
    <3>2. \A d \in Stated(AllIgnores) : m.line <= d.line
      BY <1>5, <2>1, <2>2, <2>3, <2>5
    <3> QED
      BY <1>5, <2>2, <3>1, <3>2
  <2> QED
    BY <2>4, <2>5
<1> QED
  BY <1>3, <1>4, <1>5, <1>6, <1>7, <1>8
-----------------------------------------------------------------------------
LEMMA ModuleStart == Init => ModuleInv
<1> SUFFICES ASSUME Init PROVE ModuleInv
  OBVIOUS
<1>1. top_unreachable \in BOOLEAN
  BY DEF Init
<1>2. errors.module = 0 /\ stage \notin Decided
  BY DEF Init, Decided
<1> QED
  BY <1>1, <1>2 DEF ModuleInv

LEMMA ModuleKept ==
    ASSUME ModuleInv, UNCHANGED <<cache_version, top_unreachable>>, errors'.module = errors.module,
           \/ stage' \notin Decided /\ stage \notin Decided
           \/ stage' \in Decided /\ stage \in Decided /\ UNCHANGED hash
    PROVE  ModuleInv'
<1>1. CASE stage' \notin Decided /\ stage \notin Decided
  BY <1>1 DEF ModuleInv, Decided
<1>2. CASE stage' \in Decided /\ stage \in Decided /\ UNCHANGED hash
  <2>1. Before' = Before
    BY <1>2 DEF Before, Stated, Counted, Counts
  <2>2. FirstBefore' = FirstBefore /\ \A c : Listed(c)' = Listed(c)
    BY <2>1 DEF FirstBefore, Listed, First, Counted, Counts
  <2>3. CodesReported'
    BY <1>2, <2>2 DEF CodesReported, ModuleInv
  <2> QED
    BY <1>2, <2>1, <2>3 DEF ModuleInv, Decided
<1> QED
  BY <1>1, <1>2

LEMMA ModuleStep == TextInv /\ CommentsInv /\ ModuleInv /\ [Next]_vars => ModuleInv'
<1> SUFFICES ASSUME TextInv, CommentsInv, ModuleInv, [Next]_vars PROVE ModuleInv'
  OBVIOUS
<1>0. errors \in [blocker : Nat, module : {0, 1}, walk : Nat]
  BY DEF TextInv
<1>1. CASE Read
  BY <1>1, ModuleKept DEF Read, AfterRead, Decided, tcvars
<1>2. CASE Hash
  BY <1>2, ModuleKept DEF Hash, Decided, tcvars
<1>3. CASE Parse
  <2>1. errors'.module = errors.module
    BY <1>0, <1>3 DEF Parse
  <2> QED
    BY <1>3, <2>1, ModuleKept DEF Parse, Decided
<1>4. CASE Collect
  <2>1. stage = "comments" /\ UNCHANGED <<cache_version, stage, top_unreachable, errors>>
    BY <1>4 DEF Collect, TCStep, NextComment, Pass, InvalidIgnore, TypeIgnore, MypyIgnore,
       TypeAnnotation, Part, Turn
  <2> QED
    BY <2>1, ModuleKept DEF Decided
<1>5. CASE Override
  BY <1>5, ModuleKept DEF Override, Decided, tcvars
<1>6. CASE IgnoreModule
  <2> DEFINE listed == type_ignore_lines # << >> \/ mypy_ignore_lines # << >>
  <2>1. /\ stage = "ignores" /\ stage' = "walk" /\ UNCHANGED <<cache_version, text, hash>>
        /\ top_unreachable' = (listed /\ FirstIgnore[1] < text.first_statement)
        /\ top_unreachable' =>
              errors' = [errors EXCEPT !.module = IF Codes(FirstIgnore[2]) THEN 1 ELSE 0]
        /\ ~top_unreachable' => UNCHANGED errors
    BY <1>6 DEF IgnoreModule
  <2>2. /\ FileInv /\ LoopInv /\ ListsInv /\ Collected
        /\ comments = hash.comments /\ hash = text /\ hash.first_statement \in Nat
        /\ errors.module = 0
    BY <2>1 DEF TextInv, CommentsInv, ModuleInv, Dropped, Early, After, Decided, Contents
  <2>3. top_unreachable' \in BOOLEAN
        /\ (top_unreachable' <=> listed /\ FirstIgnore[1] < hash.first_statement)
    <3>1. top_unreachable' = (listed /\ FirstIgnore[1] < hash.first_statement)
      BY <2>1, <2>2
    <3> HIDE DEF listed
    <3> QED
      BY <3>1, Zenon
  <2>4. Before = {c \in Stated(AllIgnores) : c.line < hash.first_statement}
    BY DEF Before, AllIgnores
  <2>5. \A c \in Stated(AllIgnores) : c \in ToSet(hash.comments) /\ c.line \in Nat
    BY <2>2, CommentType DEF Stated
  <2>6. /\ Before' = Before /\ FirstBefore' = FirstBefore
        /\ \A c : Listed(c)' = Listed(c)
    BY <2>1 DEF Before, FirstBefore, Stated, Listed, First, Counted, Counts
  <2>7. CASE ~listed
    <3>1. Before = {} /\ ~top_unreachable'
      BY <2>2, <2>3, <2>4, <2>7, FirstIgnoreExact
    <3>2. errors'.module = 0 /\ FirstBefore' = {}
      BY <2>1, <2>2, <2>6, <3>1 DEF FirstBefore
    <3>3. CodesReported'
      BY <3>2 DEF CodesReported
    <3> QED
      BY <2>1, <2>3, <2>6, <3>1, <3>2, <3>3 DEF ModuleInv, Decided
  <2>8. CASE listed
    <3>1. PICK c \in Stated(AllIgnores) :
             /\ FirstIgnore[1] = c.line
             /\ FirstIgnore[2] \in Listed(c)
             /\ \A d \in Stated(AllIgnores) : c.line <= d.line
      BY <2>2, <2>8, FirstIgnoreExact
    <3> HIDE DEF listed
    <3>2. top_unreachable' <=> c.line < hash.first_statement
      BY <2>3, <2>8, <3>1
    <3>3. top_unreachable' <=> Before # {}
      BY <2>2, <2>4, <2>5, <3>1, <3>2
    <3>4. CASE ~top_unreachable'
      <4>1. Before = {} /\ errors'.module = 0 /\ FirstBefore' = {}
        BY <2>1, <2>2, <2>6, <3>3, <3>4 DEF FirstBefore
      <4>2. CodesReported'
        BY <4>1 DEF CodesReported
      <4> QED
        BY <2>1, <2>3, <2>6, <3>3, <4>1, <4>2 DEF ModuleInv, Decided
    <3>5. CASE top_unreachable'
      <4>1. errors'.module = IF Codes(FirstIgnore[2]) THEN 1 ELSE 0
        BY <1>0, <2>1, <3>5
      <4>2. ASSUME NEW d \in FirstBefore
            PROVE  d = c
        <5>1. c \in Before /\ d \in Before
          BY <2>4, <3>2, <3>5, <4>2 DEF FirstBefore
        <5>2. d.line <= c.line /\ c.line <= d.line /\ d.line \in Nat /\ c.line \in Nat
          BY <2>4, <2>5, <3>1, <5>1 DEF FirstBefore
        <5>3. d.line = c.line
          BY <5>2
        <5> QED
          BY <2>2, <2>4, <2>5, <5>1, <5>3, CommentType
      <4>3. CodesReported'
        <5>1. ASSUME NEW d \in FirstBefore
              PROVE  /\ (\A part \in Listed(d) : Codes(part)) => errors'.module = 1
                     /\ (\A part \in Listed(d) : ~Codes(part)) => errors'.module = 0
          BY <3>1, <4>1, <4>2
        <5>2. \A part : Codes(part)' <=> Codes(part)
          BY DEF Codes
        <5> QED
          BY <2>6, <5>1, <5>2 DEF CodesReported
      <4> QED
        BY <2>1, <2>3, <2>6, <3>3, <3>5, <4>3 DEF ModuleInv, Decided
    <3> QED
      BY <3>4, <3>5
  <2> QED
    BY <2>7, <2>8
<1>7. CASE Walk
  <2>1. errors'.module = errors.module
    BY <1>0, <1>7 DEF Walk
  <2> QED
    BY <1>7, <2>1, ModuleKept DEF Walk, Decided, tcvars
<1>8. CASE Retain
  BY <1>8, ModuleKept DEF Retain, Decided, tcvars
<1>9. CASE Rewrite
  BY <1>9, ModuleKept DEF Rewrite, tcvars
<1>10. CASE UNCHANGED vars
  BY <1>10, ModuleKept DEF vars, tcvars
<1> QED
  BY <1>1, <1>2, <1>3, <1>4, <1>5, <1>6, <1>7, <1>8, <1>9, <1>10 DEF Next, Step, Done
-----------------------------------------------------------------------------
(* The options. *)

LEMMA OptionsStart == Init => OptionsInv
<1> SUFFICES ASSUME Init PROVE OptionsInv
  OBVIOUS
<1>1. /\ skip_function_bodies \in BOOLEAN /\ asked.skip_function_bodies = skip_function_bodies
      /\ always_true = asked.always_true /\ always_false = asked.always_false
  BY DEF Init
<1>2. stage \notin After
  BY DEF Init, After, Decided
<1> QED
  BY <1>1, <1>2 DEF OptionsInv

LEMMA OptionsKept ==
    ASSUME OptionsInv, UNCHANGED options,
           \/ stage' \notin After /\ stage \notin After
           \/ stage' \in After /\ stage \in After /\ UNCHANGED mypy_comments
    PROVE  OptionsInv'
<1>1. UNCHANGED <<skip_function_bodies, asked, always_true, always_false>>
  BY DEF options
<1>2. UNCHANGED mypy_comments =>
         /\ IgnoreErrors' <=> IgnoreErrors
         /\ \A kind : Named(kind)' = Named(kind)
  BY DEF IgnoreErrors, Named, LastOf
<1> QED
  BY <1>1, <1>2 DEF OptionsInv, After, Decided

LEMMA OptionsStep == OptionsInv /\ [Next]_vars => OptionsInv'
<1> SUFFICES ASSUME OptionsInv, [Next]_vars PROVE OptionsInv'
  OBVIOUS
<1>1. CASE Read
  BY <1>1, OptionsKept DEF Read, AfterRead, After, Decided
<1>2. CASE Hash
  BY <1>2, OptionsKept DEF Hash, After, Decided
<1>3. CASE Parse
  BY <1>3, OptionsKept DEF Parse, After, Decided
<1>4. CASE Collect
  BY <1>4, OptionsKept DEF Collect, After, Decided
<1>5. CASE Override
  <2>1. /\ stage = "comments" /\ stage' = "ignores" /\ UNCHANGED <<asked, mypy_comments>>
        /\ skip_function_bodies' = (skip_function_bodies \/ IgnoreErrors)
        /\ always_true' = always_true \cup Named("always_true")
        /\ always_false' = always_false \cup Named("always_false")
    BY <1>5 DEF Override, Extended, tcvars, collected
  <2>2. skip_function_bodies' \in BOOLEAN
        /\ (skip_function_bodies' <=> skip_function_bodies \/ IgnoreErrors)
    BY <2>1, Zenon
  <2>3. (IgnoreErrors' <=> IgnoreErrors) /\ \A kind : Named(kind)' = Named(kind)
    BY <2>1 DEF IgnoreErrors, Named, LastOf
  <2>4. /\ asked'.skip_function_bodies \in BOOLEAN
        /\ asked'.skip_function_bodies <=> skip_function_bodies
        /\ always_true = asked'.always_true /\ always_false = asked'.always_false
    BY <2>1 DEF OptionsInv, After, Decided
  <2> QED
    BY <2>1, <2>2, <2>3, <2>4 DEF OptionsInv, After, Decided
<1>6. CASE IgnoreModule
  BY <1>6, OptionsKept DEF IgnoreModule, After, Decided
<1>7. CASE Walk
  BY <1>7, OptionsKept DEF Walk, After, Decided, tcvars, collected
<1>8. CASE Retain
  BY <1>8, OptionsKept DEF Retain, After, Decided, tcvars, collected
<1>9. CASE Rewrite
  BY <1>9, OptionsKept DEF Rewrite, tcvars, collected
<1>10. CASE UNCHANGED vars
  BY <1>10, OptionsKept DEF vars, options, tcvars, collected
<1> QED
  BY <1>1, <1>2, <1>3, <1>4, <1>5, <1>6, <1>7, <1>8, <1>9, <1>10 DEF Next, Step, Done

\* The last directive of the kind, in the comments.
LEMMA IgnoreErrorsExact ==
    ASSUME FileInv, ConfigsInv, at = Len(comments), comments = hash.comments
    PROVE  IgnoreErrors <=>
              \E c \in {x \in ToSet(hash.comments) : x.first /\ x.parts[1] = "ignore_errors_on"} :
                 \A d \in {x \in ToSet(hash.comments) :
                              x.first /\ x.parts[1] = "ignore_errors_off"} : d.line < c.line
<1> DEFINE Says(kind) == {x \in ToSet(hash.comments) : x.first /\ x.parts[1] = kind}
           IsOf(e, c, kind) == mypy_comments[e][1] = c.line /\ mypy_comments[e][2] = kind
           Directives == {"ignore_errors_on", "ignore_errors_off"}
<1>0. Directives \subseteq Configs /\ "mypy_ignore" \notin Directives
  BY DEF Configs
<1>1. ASSUME NEW kind \in Directives, NEW c \in Says(kind)
      PROVE  \E e \in 1..Len(mypy_comments) : IsOf(e, c, kind)
  <2>1. PICK i \in 1..Len(comments) : c = comments[i]
    BY CommentType
  <2>2. i <= at /\ IsInlineConfig(comments[i])
    BY <1>0, <2>1, FileType DEF IsInlineConfig
  <2>3. PICK e \in 1..Len(mypy_comments) : mypy_comments[e] = Entry(i, 1)
    BY <2>2 DEF ConfigsInv
  <2> QED
    BY <2>1, <2>3 DEF Entry
<1>2. ASSUME NEW kind \in Directives, NEW e \in 1..Len(mypy_comments),
             mypy_comments[e][2] = kind
      PROVE  \E c \in Says(kind) : IsOf(e, c, kind)
  <2>1. PICK i \in 1..Len(comments) :
           IsInlineConfig(comments[i]) /\ mypy_comments[e] = Entry(i, 1)
    BY DEF ConfigsInv
  <2>2. mypy_comments[e][1] = comments[i].line /\ comments[i].parts[1] = kind
    BY <1>2, <2>1 DEF Entry
  <2>3. comments[i] \in Says(kind)
    BY <2>1, <2>2, CommentType DEF IsInlineConfig
  <2> QED
    BY <1>2, <2>2, <2>3
<1>3. /\ Len(mypy_comments) \in Nat
      /\ \A d, e \in 1..Len(mypy_comments) : d < e => mypy_comments[d][1] < mypy_comments[e][1]
      /\ \A kind : \A c \in Says(kind) : c.line \in Nat
  BY CommentType, LenProperties DEF ConfigsInv
<1> HIDE DEF Says
<1>4. ASSUME NEW e \in 1..Len(mypy_comments), mypy_comments[e][2] = "ignore_errors_on",
             \A j \in (e + 1)..Len(mypy_comments) : mypy_comments[j][2] # "ignore_errors_off"
      PROVE  \E c \in Says("ignore_errors_on") :
                \A d \in Says("ignore_errors_off") : d.line < c.line
  <2>1. PICK c \in Says("ignore_errors_on") : IsOf(e, c, "ignore_errors_on")
    BY <1>2, <1>4
  <2>2. ASSUME NEW d \in Says("ignore_errors_off")
        PROVE  d.line < c.line
    <3>1. PICK j \in 1..Len(mypy_comments) : IsOf(j, d, "ignore_errors_off")
      BY <1>1
    <3>2. j # e /\ j \notin (e + 1)..Len(mypy_comments)
      BY <1>4, <3>1
    <3>3. j < e
      BY <1>3, <3>2
    <3> QED
      BY <1>3, <2>1, <3>1, <3>3
  <2> QED
    BY <2>2
<1>5. ASSUME NEW c \in Says("ignore_errors_on"),
             \A d \in Says("ignore_errors_off") : d.line < c.line
      PROVE  \E e \in 1..Len(mypy_comments) :
                /\ mypy_comments[e][2] = "ignore_errors_on"
                /\ \A j \in (e + 1)..Len(mypy_comments) :
                      mypy_comments[j][2] # "ignore_errors_off"
  <2>1. PICK e \in 1..Len(mypy_comments) : IsOf(e, c, "ignore_errors_on")
    BY <1>1
  <2>2. ASSUME NEW j \in (e + 1)..Len(mypy_comments), mypy_comments[j][2] = "ignore_errors_off"
        PROVE  FALSE
    <3>1. j \in 1..Len(mypy_comments) /\ e < j
      BY <1>3
    <3>2. PICK d \in Says("ignore_errors_off") : IsOf(j, d, "ignore_errors_off")
      BY <1>2, <2>2, <3>1
    <3>3. c.line < d.line
      BY <1>3, <2>1, <3>1, <3>2
    <3>4. d.line < c.line /\ c.line \in Nat /\ d.line \in Nat
      BY <1>3, <1>5
    <3> QED
      BY <3>3, <3>4
  <2> QED
    BY <2>1, <2>2
<1>6. IgnoreErrors <=>
         \E e \in 1..Len(mypy_comments) :
            /\ mypy_comments[e][2] = "ignore_errors_on"
            /\ \A j \in (e + 1)..Len(mypy_comments) : mypy_comments[j][2] # "ignore_errors_off"
  BY DEF IgnoreErrors, LastOf
<1>7. IgnoreErrors <=> \E c \in Says("ignore_errors_on") :
                          \A d \in Says("ignore_errors_off") : d.line < c.line
  BY <1>4, <1>5, <1>6
<1> QED
  BY <1>7 DEF Says
\* A directive of the kind, in the comments.
LEMMA NamedExact ==
    ASSUME FileInv, ConfigsInv, at = Len(comments), comments = hash.comments,
           NEW kind \in {"always_true", "always_false"}
    PROVE  "N" \in Named(kind) <=> \E c \in ToSet(hash.comments) : c.first /\ c.parts[1] = kind
<1>0. kind \in Configs /\ kind # "mypy_ignore"
  BY DEF Configs
<1>1. ASSUME NEW c \in ToSet(hash.comments), c.first, c.parts[1] = kind
      PROVE  \E e \in 1..Len(mypy_comments) : mypy_comments[e][2] = kind
  <2>1. PICK i \in 1..Len(comments) : c = comments[i]
    BY CommentType
  <2>2. i <= at /\ IsInlineConfig(comments[i])
    BY <1>0, <1>1, <2>1, FileType DEF IsInlineConfig
  <2>3. PICK e \in 1..Len(mypy_comments) : mypy_comments[e] = Entry(i, 1)
    BY <2>2 DEF ConfigsInv
  <2> QED
    BY <1>1, <2>1, <2>3 DEF Entry
<1>2. ASSUME NEW e \in 1..Len(mypy_comments), mypy_comments[e][2] = kind
      PROVE  \E c \in ToSet(hash.comments) : c.first /\ c.parts[1] = kind
  <2>1. PICK i \in 1..Len(comments) :
           IsInlineConfig(comments[i]) /\ mypy_comments[e] = Entry(i, 1)
    BY DEF ConfigsInv
  <2>2. comments[i].first /\ comments[i].parts[1] = kind
    BY <1>2, <2>1 DEF Entry, IsInlineConfig
  <2>3. comments[i] \in ToSet(hash.comments)
    BY <2>1, CommentType
  <2> QED
    BY <2>2, <2>3
<1>3. LastOf(kind, {}) <=> \E e \in 1..Len(mypy_comments) : mypy_comments[e][2] = kind
  BY DEF LastOf
<1>4. "N" \in Named(kind) <=> LastOf(kind, {})
  BY DEF Named
<1> QED
  BY <1>1, <1>2, <1>3, <1>4

\* What the walk is told of N, when the directives have been taken in.
LEMMA TruthExact ==
    ASSUME FileInv, ConfigsInv, at = Len(comments), comments = hash.comments,
           OptionsInv, stage \in After
    PROVE  Truth = HashTruth
<1> DEFINE directed(kind) == \E c \in ToSet(hash.comments) : c.first /\ c.parts[1] = kind
<1>1. /\ "N" \in Named("always_true") <=> directed("always_true")
      /\ "N" \in Named("always_false") <=> directed("always_false")
  BY NamedExact
<1>2. /\ "N" \in always_true <=> "N" \in asked.always_true \/ directed("always_true")
      /\ "N" \in always_false <=> "N" \in asked.always_false \/ directed("always_false")
  BY <1>1 DEF OptionsInv
<1>3. "N" \in always_false \ always_true <=> "N" \in always_false /\ "N" \notin always_true
  OBVIOUS
<1> DEFINE T == "N" \in always_true
           F == "N" \in always_false
<1>4. /\ T => Truth = "always true"
      /\ ~T /\ F => Truth = "always false"
      /\ ~T /\ ~F => Truth = "open"
  BY <1>3 DEF Truth
<1>5. /\ T => HashTruth = "always true"
      /\ ~T /\ F => HashTruth = "always false"
      /\ ~T /\ ~F => HashTruth = "open"
  BY <1>2 DEF HashTruth
<1> HIDE DEF T, F
<1>6. CASE T
  <2>1. Truth = "always true" /\ HashTruth = "always true"
    BY <1>4, <1>5, <1>6
  <2> QED
    BY <2>1, Zenon
<1>7. CASE ~T /\ F
  <2>1. Truth = "always false" /\ HashTruth = "always false"
    BY <1>4, <1>5, <1>7
  <2> QED
    BY <2>1, Zenon
<1>8. CASE ~T /\ ~F
  <2>1. Truth = "open" /\ HashTruth = "open"
    BY <1>4, <1>5, <1>8
  <2> QED
    BY <2>1, Zenon
<1> QED
  BY <1>6, <1>7, <1>8
-----------------------------------------------------------------------------
(* What is returned. *)

LEMMA ResultStart == Init => ResultInv
BY DEF Init, ResultInv, Returned

LEMMA ResultKept ==
    ASSUME ResultInv, UNCHANGED <<retained, result, always_true, always_false>>,
           \/ stage' \notin {"retain", "done"} /\ stage # "done"
           \/ UNCHANGED <<stage, text, top_unreachable, skipped_lines, type_ignore_lines,
                          mypy_ignore_lines>>
    PROVE  ResultInv'
<1>1. CASE stage' \notin {"retain", "done"} /\ stage # "done"
  BY <1>1 DEF ResultInv, Returned
<1>2. CASE UNCHANGED <<stage, text, top_unreachable, skipped_lines, type_ignore_lines,
                       mypy_ignore_lines>>
  <2>1. /\ Truth' = Truth
        /\ Retained(type_ignore_lines)' = Retained(type_ignore_lines)
        /\ Retained(mypy_ignore_lines)' = Retained(mypy_ignore_lines)
    BY <1>2 DEF Truth, Retained
  <2> QED
    BY <1>2, <2>1 DEF ResultInv, Returned
<1> QED
  BY <1>1, <1>2

LEMMA ResultStep == ResultInv /\ ModuleInv /\ [Next]_vars => ResultInv'
<1> SUFFICES ASSUME ResultInv, ModuleInv, [Next]_vars PROVE ResultInv'
  OBVIOUS
<1>1. CASE Read
  <2>1. stage' \in {"read", "failed", "hash"} /\ result' \in {"error", "none"}
    BY <1>1 DEF Read, AfterRead
  <2> QED
    BY <2>1 DEF ResultInv, Returned
<1>2. CASE Hash
  BY <1>2, ResultKept DEF Hash, options, outcome
<1>3. CASE Parse
  BY <1>3, ResultKept DEF Parse, options, outcome
<1>4. CASE Collect
  BY <1>4, ResultKept DEF Collect, options, outcome
<1>5. CASE Override
  <2>1. stage = "comments" /\ stage' = "ignores" /\ UNCHANGED result
    BY <1>5 DEF Override, outcome
  <2> QED
    BY <2>1 DEF ResultInv, Returned
<1>6. CASE IgnoreModule
  BY <1>6, ResultKept DEF IgnoreModule, options, outcome
<1>7. CASE Walk
  <2>1. /\ stage = "walk" /\ stage' = "retain"
        /\ UNCHANGED <<text, top_unreachable, result, always_true, always_false>>
        /\ ~top_unreachable => skipped_lines' = text.skipped[Truth]
    BY <1>7 DEF Walk, options, outcome
  <2>2. Truth' = Truth
    BY <2>1 DEF Truth
  <2> QED
    BY <2>1, <2>2 DEF ResultInv, Returned
<1>8. CASE Retain
  <2>1. /\ stage = "retain" /\ stage' = "done"
        /\ UNCHANGED <<text, top_unreachable, skipped_lines, type_ignore_lines, mypy_ignore_lines,
                       always_true, always_false>>
        /\ retained' = [type |-> Retained(type_ignore_lines), mypy |-> Retained(mypy_ignore_lines)]
        /\ result' = IF top_unreachable THEN "ignored" ELSE "tree"
    BY <1>8 DEF Retain, options, tcvars, collected
  <2>2. /\ Truth' = Truth
        /\ Retained(type_ignore_lines)' = Retained(type_ignore_lines)
        /\ Retained(mypy_ignore_lines)' = Retained(mypy_ignore_lines)
    BY <2>1 DEF Truth, Retained
  <2> QED
    BY <2>1, <2>2 DEF ResultInv, Returned
<1>9. CASE Rewrite
  BY <1>9, ResultKept DEF Rewrite, options, outcome, tcvars, collected
<1>10. CASE UNCHANGED vars
  BY <1>10, ResultKept DEF vars, options, outcome, tcvars, collected
<1> QED
  BY <1>1, <1>2, <1>3, <1>4, <1>5, <1>6, <1>7, <1>8, <1>9, <1>10 DEF Next, Step, Done
-----------------------------------------------------------------------------
LEMMA Invariant == Spec => []SFInv
<1>1. Init => SFInv
  BY TextStart, CommentsStart, ModuleStart, OptionsStart, ResultStart DEF SFInv
<1>2. SFInv /\ [Next]_vars => SFInv'
  BY TextStep, CommentsStep, ModuleStep, OptionsStep, ResultStep DEF SFInv
<1> QED
  BY <1>1, <1>2, PTL DEF Spec

\* IgnoresExact, for any contents of the file and any number of rewrites.
THEOREM IgnoresOfHash == Spec => []IgnoresExact
<1>1. ASSUME SFInv PROVE IgnoresExact
  <2> SUFFICES ASSUME stage = "comments" PROVE comments = hash.comments /\ IgnoresAsStated
    BY DEF IgnoresExact
  <2>1. comments = hash.comments /\ FileInv /\ LoopInv /\ ListsInv
    BY <1>1 DEF SFInv, TextInv, CommentsInv, Dropped, Early, After, Decided
  <2>2. Collected => IgnoresAsStated
    BY <2>1, ListsMeaning
  <2> QED
    BY <2>1, <2>2 DEF IgnoresAsStated
<1>2. SFInv => IgnoresExact
  BY <1>1
<1> QED
  BY <1>2, Invariant, PTL

\* AnnotationsExact, likewise: the type comments and the errors are of the text
\* that is hashed.
THEOREM AnnotationsOfHash == Spec => []AnnotationsExact
<1>1. ASSUME SFInv PROVE AnnotationsExact
  <2> SUFFICES ASSUME stage \notin Early PROVE comments = hash.comments /\ AnnotationsAsStated
    BY DEF AnnotationsExact, Early
  <2>1. comments = hash.comments /\ FileInv /\ LoopInv /\ AnnotationsInv /\ ErrorsInv
    BY <1>1 DEF SFInv, TextInv, CommentsInv, Early
  <2>2. Collected => AnnotationsAsStated
    BY <2>1, AnnotationsMeaning
  <2> QED
    BY <2>1, <2>2 DEF AnnotationsAsStated
<1>2. SFInv => AnnotationsExact
  BY <1>1
<1> QED
  BY <1>2, Invariant, PTL

\* WholeModuleExact, likewise: a module is ignored, and its errors reported, for
\* the comments of the text that is hashed.
THEOREM WholeModuleOfHash == Spec => []WholeModuleExact
<1>1. ASSUME SFInv, Returned
      PROVE  /\ result = "ignored" <=> Before # {}
             /\ errors.blocker = hash.errors
             /\ errors.module = 1 => Before # {}
             /\ CodesReported
  <2>1. stage = "done" /\ (result = "ignored" <=> top_unreachable)
    BY <1>1 DEF SFInv, ResultInv
  <2>2. errors.blocker = hash.errors
    BY <1>1, <2>1 DEF SFInv, TextInv, Early, After, Decided
  <2> QED
    BY <1>1, <2>1, <2>2 DEF SFInv, ModuleInv, Decided
<1>2. SFInv => WholeModuleExact
  BY <1>1 DEF WholeModuleExact, CodesReported
<1> QED
  BY <1>2, Invariant, PTL

\* RetainedExact, likewise: the ignores returned are those of the hashed text
\* outside the lines its walk skips.
THEOREM RetainedOfHash == Spec => []RetainedExact
<1> DEFINE kept(kinds) == IF result = "ignored" THEN {}
                          ELSE {c.line : c \in Stated(kinds)} \ hash.skipped[HashTruth]
           lines(entries) == {entry[1] : entry \in entries}
<1>1. ASSUME SFInv, Returned
      PROVE  \A l \in Lists : lines(Retained(List(l))) = kept(KindsOf(l))
  <2>1. stage = "done" /\ (result = "ignored" <=> top_unreachable)
    BY <1>1 DEF SFInv, ResultInv
  <2>2. CASE top_unreachable
    <3>1. \A l \in Lists : List(l) = << >>
      BY <1>1, <2>1, <2>2 DEF SFInv, CommentsInv, Dropped, Decided, List
    <3>2. Len(<< >>) = 0 /\ \A i : i \notin 1..0
      BY EmptySeq
    <3>3. \A l \in Lists : Retained(List(l)) = {}
      BY <3>1, <3>2 DEF Retained
    <3> QED
      BY <2>1, <2>2, <3>3
  <2>3. CASE ~top_unreachable
    <3>0. /\ FileInv /\ LoopInv /\ ListsInv /\ ConfigsInv /\ Collected /\ OptionsInv
          /\ comments = hash.comments /\ stage \in After
          /\ skipped_lines = hash.skipped[Truth]
      BY <1>1, <2>1, <2>3 DEF SFInv, TextInv, CommentsInv, ResultInv, Dropped, Early, After, Decided
    <3>1. /\ FileInv /\ LoopInv /\ ListsInv /\ Collected /\ comments = hash.comments
          /\ skipped_lines = hash.skipped[HashTruth]
      BY <3>0, TruthExact DEF Collected
    <3>2. ASSUME NEW l \in Lists
          PROVE  lines(Retained(List(l))) = kept(KindsOf(l))
      <4>1. /\ \A e \in 1..Len(List(l)) :
                  \E c \in Stated(KindsOf(l)) : List(l)[e] = <<c.line, First(c, KindsOf(l))>>
            /\ \A c \in Stated(KindsOf(l)) :
                  \E e \in 1..Len(List(l)) : List(l)[e] = <<c.line, First(c, KindsOf(l))>>
        BY <3>1, ListStated
      <4>2. \A x : x \in lines(Retained(List(l))) <=>
                      \E e \in 1..Len(List(l)) : List(l)[e][1] \notin skipped_lines /\ x = List(l)[e][1]
        BY DEF Retained
      <4>3. \A x : (\E e \in 1..Len(List(l)) : x = List(l)[e][1])
                      <=> \E c \in Stated(KindsOf(l)) : x = c.line
        <5>1. ASSUME NEW e \in 1..Len(List(l))
              PROVE  \E c \in Stated(KindsOf(l)) : List(l)[e][1] = c.line
          BY <4>1
        <5>2. ASSUME NEW c \in Stated(KindsOf(l))
              PROVE  \E e \in 1..Len(List(l)) : c.line = List(l)[e][1]
          <6>1. PICK e \in 1..Len(List(l)) : List(l)[e] = <<c.line, First(c, KindsOf(l))>>
            BY <4>1
          <6> QED
            BY <6>1
        <5> QED
          BY <5>1, <5>2
      <4>4. kept(KindsOf(l)) = {c.line : c \in Stated(KindsOf(l))} \ skipped_lines
        BY <2>1, <2>3, <3>1
      <4>5. \A x : x \in kept(KindsOf(l)) <=>
                      x \notin skipped_lines /\ \E c \in Stated(KindsOf(l)) : x = c.line
        BY <4>4
      <4> HIDE DEF kept, lines
      <4>6. \A x : x \in lines(Retained(List(l))) <=> x \in kept(KindsOf(l))
        BY <4>2, <4>3, <4>5
      <4>7. lines(Retained(List(l))) \subseteq kept(KindsOf(l))
            /\ kept(KindsOf(l)) \subseteq lines(Retained(List(l)))
        BY <4>6
      <4> QED
        BY <4>7
    <3> QED
      BY <3>2
  <2> QED
    BY <2>2, <2>3
<1>2. ASSUME SFInv, Returned
      PROVE  lines(retained.type) = kept(Ignores) /\ lines(retained.mypy) = kept(MypyIgnores)
  <2>1. retained.type = Retained(type_ignore_lines) /\ retained.mypy = Retained(mypy_ignore_lines)
    BY <1>2 DEF SFInv, ResultInv
  <2>2. /\ "type" \in Lists /\ List("type") = type_ignore_lines /\ KindsOf("type") = Ignores
        /\ "mypy" \in Lists /\ List("mypy") = mypy_ignore_lines /\ KindsOf("mypy") = MypyIgnores
    BY DEF Lists, List, KindsOf
  <2> HIDE DEF kept, lines
  <2>3. /\ lines(Retained(List("type"))) = kept(KindsOf("type"))
        /\ lines(Retained(List("mypy"))) = kept(KindsOf("mypy"))
    BY <1>1, <1>2, <2>2
  <2> QED
    BY <2>1, <2>2, <2>3
<1>3. SFInv => RetainedExact
  BY <1>2 DEF RetainedExact
<1> QED
  BY <1>3, Invariant, PTL

\* SkipsExact, likewise: bodies are skipped for what the hashed text says.
THEOREM SkipsOfHash == Spec => []SkipsExact
<1>1. ASSUME SFInv, Returned
      PROVE  skip_function_bodies <=>
                \/ asked.skip_function_bodies
                \/ \E c \in {x \in ToSet(hash.comments) : x.first /\ x.parts[1] = "ignore_errors_on"} :
                      \A d \in {x \in ToSet(hash.comments) :
                                   x.first /\ x.parts[1] = "ignore_errors_off"} : d.line < c.line
  <2>1. stage = "done"
    BY <1>1 DEF SFInv, ResultInv
  <2>2. FileInv /\ ConfigsInv /\ at = Len(comments) /\ comments = hash.comments
    BY <1>1, <2>1 DEF SFInv, TextInv, CommentsInv, Collected, Early, After, Decided
  <2>3. skip_function_bodies <=> asked.skip_function_bodies \/ IgnoreErrors
    BY <1>1, <2>1 DEF SFInv, OptionsInv, After, Decided
  <2> QED
    BY <2>2, <2>3, IgnoreErrorsExact
<1>2. SFInv => SkipsExact
  BY <1>1 DEF SkipsExact
<1> QED
  BY <1>2, Invariant, PTL
=============================================================================
