----------------------- MODULE FunctionSignatureProofs -----------------------
(***************************************************************************)
(* Type comments of functions, of any length, and definitions with any     *)
(* number of parameters: a comment is read as what its brackets and commas *)
(* say, every parameter gets the type that is meant for it, the            *)
(* contradictions are reported, and of any body the right ones are left out. *)
(***************************************************************************)
EXTENDS FunctionSignature, FiniteSetTheorems, SequenceTheorems, WellFoundedInduction, TLAPS

\* What holds of 0 and with any number of the next holds of all.
LEMMA AllNumbers ==
    ASSUME NEW S,
           0 \in S,
           \A k \in Nat : k \in S => k + 1 \in S
    PROVE  \A k \in Nat : k \in S
<1> DEFINE R == OpToRel(<, Nat)
           T == Nat \ S
<1>1. \A i, j \in Nat : i < j => <<i, j>> \in R
  BY DEF OpToRel
<1>2. IsWellFoundedOn(R, Nat)
  BY NatLessThanWellFounded
<1> HIDE DEF R
<1>3. ASSUME T # {}
      PROVE  FALSE
  <2>1. T \in SUBSET Nat
    OBVIOUS
  <2>2. PICK m \in T : \A q \in T : ~(<<q, m>> \in R)
    BY <1>2, <1>3, <2>1, WFMin
  <2>3. m \in Nat /\ m \notin S /\ m # 0
    BY <2>2
  <2>4. m - 1 \in Nat /\ m - 1 < m
    BY <2>3
  <2>5. <<m - 1, m>> \in R
    BY <1>1, <2>3, <2>4
  <2>6. m - 1 \notin T
    BY <2>2, <2>5
  <2>7. m - 1 \in S
    BY <2>4, <2>6
  <2>8. (m - 1) + 1 \in S
    BY <2>4, <2>7
  <2> QED
    BY <2>3, <2>8
<1> QED
  BY <1>3

-----------------------------------------------------------------------------
(* The recursive functions are what they say.                                *)

LEMMA TurnsStep ==
    ASSUME NEW text, Len(text) \in Nat \ {0}
    PROVE  /\ Turns(text)[1] = [nesting |-> 1, start |-> 2, end |-> 1, star_stripped |-> FALSE,
                                args |-> << >>, exit |-> "none"]
           /\ \A i \in 2..Len(text) : Turns(text)[i] = Turn(text, Turns(text)[i - 1], i)
<1> DEFINE first == [nesting |-> 1, start |-> 2, end |-> 1, star_stripped |-> FALSE,
                     args |-> << >>, exit |-> "none"]
           Step(f, i) == IF i = 1 THEN first ELSE Turn(text, f[i - 1], i)
           Upto(f, k) == f = [i \in 1..k |-> Step(f, i)]
           S == {k \in Nat : \E f : Upto(f, k)}
<1> HIDE DEF first
<1>1. 0 \in S
  <2> DEFINE f == [i \in 1..0 |-> 0]
  <2>1. f = [i \in 1..0 |-> Step(f, i)]
    OBVIOUS
  <2> QED
    BY <2>1
<1>2. ASSUME NEW k \in Nat, k \in S
      PROVE  k + 1 \in S
  <2>1. PICK f : Upto(f, k)
    BY <1>2
  <2> DEFINE g == [i \in 1..(k + 1) |-> IF i <= k THEN f[i] ELSE Step(f, i)]
  <2>2. ASSUME NEW i \in 1..(k + 1)
        PROVE  g[i] = Step(g, i)
    <3>1. g[i] = Step(f, i)
      BY <2>1
    <3>2. i # 1 => g[i - 1] = f[i - 1]
      OBVIOUS
    <3> HIDE DEF g
    <3> QED
      BY <3>1, <3>2
  <2>3. Upto(g, k + 1)
    <3>1. g = [i \in 1..(k + 1) |-> g[i]]
      OBVIOUS
    <3> HIDE DEF g
    <3> QED
      BY <2>2, <3>1
  <2> HIDE DEF g
  <2> QED
    BY <2>3
<1>3. Len(text) \in S
  <2> HIDE DEF S
  <2> QED
    BY <1>1, <1>2, AllNumbers
<1>4. Turns(text) = CHOOSE f : Upto(f, Len(text))
  BY DEF Turns, first
<1>5. Upto(Turns(text), Len(text))
  BY <1>3, <1>4
<1> DEFINE f == Turns(text)
<1>6. f = [i \in 1..Len(text) |-> Step(f, i)]
  BY <1>5
<1> HIDE DEF f
<1>7. \A i \in 1..Len(text) : f[i] = Step(f, i)
  BY <1>6
<1>8. f[1] = first
  BY <1>7
<1>9. \A i \in 2..Len(text) : f[i] = Turn(text, f[i - 1], i)
  BY <1>7
<1> QED
  BY <1>8, <1>9 DEF f, first

LEMMA ParsingStep ==
    ASSUME NEW text, Len(text) \in Nat
    PROVE  /\ Parsing(text)[0] = [want |-> "element", groups |-> <<Group(FALSE)>>]
           /\ \A i \in 1..Len(text) :
                 Parsing(text)[i] = ParseToken(Parsing(text)[i - 1], text[i])
<1> DEFINE first == [want |-> "element", groups |-> <<Group(FALSE)>>]
           Step(f, i) == IF i = 0 THEN first ELSE ParseToken(f[i - 1], text[i])
           Upto(f, k) == f = [i \in 0..k |-> Step(f, i)]
           S == {k \in Nat : \E f : Upto(f, k)}
<1> HIDE DEF first
<1>1. 0 \in S
  <2> DEFINE f == [i \in {0} |-> first]
  <2>1. f = [i \in 0..0 |-> Step(f, i)]
    OBVIOUS
  <2> QED
    BY <2>1
<1>2. ASSUME NEW k \in Nat, k \in S
      PROVE  k + 1 \in S
  <2>1. PICK f : Upto(f, k)
    BY <1>2
  <2> DEFINE g == [i \in 0..(k + 1) |-> IF i <= k THEN f[i] ELSE Step(f, i)]
  <2>2. ASSUME NEW i \in 0..(k + 1)
        PROVE  g[i] = Step(g, i)
    <3>1. g[i] = Step(f, i)
      BY <2>1
    <3>2. i # 0 => g[i - 1] = f[i - 1]
      OBVIOUS
    <3> HIDE DEF g
    <3> QED
      BY <3>1, <3>2
  <2>3. Upto(g, k + 1)
    <3>1. g = [i \in 0..(k + 1) |-> g[i]]
      OBVIOUS
    <3> HIDE DEF g
    <3> QED
      BY <2>2, <3>1
  <2> HIDE DEF g
  <2> QED
    BY <2>3
<1>3. Len(text) \in S
  <2> HIDE DEF S
  <2> QED
    BY <1>1, <1>2, AllNumbers
<1>4. Parsing(text) = CHOOSE f : Upto(f, Len(text))
  BY DEF Parsing, first
<1>5. Upto(Parsing(text), Len(text))
  BY <1>3, <1>4
<1> DEFINE f == Parsing(text)
<1>6. f = [i \in 0..Len(text) |-> Step(f, i)]
  BY <1>5
<1> HIDE DEF f
<1>7. \A i \in 0..Len(text) : f[i] = Step(f, i)
  BY <1>6
<1>8. f[0] = first
  BY <1>7
<1>9. \A i \in 1..Len(text) : f[i] = ParseToken(f[i - 1], text[i])
  BY <1>7
<1> QED
  BY <1>8, <1>9 DEF f, first

LEMMA SeparatorsStep ==
    ASSUME NEW text, Closing(text) \in Nat \ {0}
    PROVE  /\ Separators(text)[1] = <<1>>
           /\ \A i \in 2..Closing(text) :
                 Separators(text)[i] =
                    IF i = Closing(text) \/ IsComma(text, i)
                    THEN Append(Separators(text)[i - 1], i) ELSE Separators(text)[i - 1]
<1> DEFINE Step(f, i) == CASE i = 1 -> <<1>>
                           [] i > 1 /\ (i = Closing(text) \/ IsComma(text, i)) -> Append(f[i - 1], i)
                           [] OTHER -> f[i - 1]
           Upto(f, k) == f = [i \in 1..k |-> Step(f, i)]
           S == {k \in Nat : \E f : Upto(f, k)}
<1>1. 0 \in S
  <2> DEFINE f == [i \in 1..0 |-> 0]
  <2>1. f = [i \in 1..0 |-> Step(f, i)]
    OBVIOUS
  <2> QED
    BY <2>1
<1>2. ASSUME NEW k \in Nat, k \in S
      PROVE  k + 1 \in S
  <2>1. PICK f : Upto(f, k)
    BY <1>2
  <2> DEFINE g == [i \in 1..(k + 1) |-> IF i <= k THEN f[i] ELSE Step(f, i)]
  <2>2. ASSUME NEW i \in 1..(k + 1)
        PROVE  g[i] = Step(g, i)
    <3> HIDE DEF Step
    <3>1. g[i] = Step(f, i)
      BY <2>1
    <3>2. i # 1 => g[i - 1] = f[i - 1]
      OBVIOUS
    <3> HIDE DEF g
    <3> QED
      BY <3>1, <3>2 DEF Step
  <2>3. Upto(g, k + 1)
    <3>1. g = [i \in 1..(k + 1) |-> g[i]]
      OBVIOUS
    <3> HIDE DEF g
    <3> QED
      BY <2>2, <3>1
  <2> HIDE DEF g
  <2> QED
    BY <2>3
<1>3. Closing(text) \in S
  <2> HIDE DEF S
  <2> QED
    BY <1>1, <1>2, AllNumbers
<1>4. Separators(text) = CHOOSE f : Upto(f, Closing(text))
  BY DEF Separators
<1>5. Upto(Separators(text), Closing(text))
  BY <1>3, <1>4
<1> DEFINE f == Separators(text)
<1>6. f = [i \in 1..Closing(text) |-> Step(f, i)]
  BY <1>5
<1> HIDE DEF f
<1>7. \A i \in 1..Closing(text) : f[i] = Step(f, i)
  BY <1>6
<1>8. f[1] = <<1>>
  BY <1>7
<1>9. \A i \in 2..Closing(text) :
         f[i] = IF i = Closing(text) \/ IsComma(text, i) THEN Append(f[i - 1], i) ELSE f[i - 1]
  BY <1>7
<1> QED
  BY <1>8, <1>9 DEF f

-----------------------------------------------------------------------------
(* Counting                                                                  *)

LEMMA CountedNext ==
    ASSUME NEW S, NEW n \in Nat
    PROVE  /\ Cardinality({k \in 1..n : k \in S}) \in Nat
           /\ Cardinality({k \in 1..(n + 1) : k \in S}) =
                 IF n + 1 \in S THEN Cardinality({k \in 1..n : k \in S}) + 1
                 ELSE Cardinality({k \in 1..n : k \in S})
<1> DEFINE T == {k \in 1..n : k \in S}
<1>1. IsFiniteSet(T) /\ Cardinality(T) \in Nat
  <2>1. IsFiniteSet(1..n)
    BY FS_Interval
  <2>2. T \in SUBSET (1..n)
    OBVIOUS
  <2> HIDE DEF T
  <2>3. IsFiniteSet(T)
    BY <2>1, <2>2, FS_Subset
  <2> QED
    BY <2>3, FS_CardinalityType
<1>2. CASE n + 1 \in S
  <2>1. {k \in 1..(n + 1) : k \in S} = T \cup {n + 1} /\ n + 1 \notin T
    BY <1>2
  <2> HIDE DEF T
  <2>2. Cardinality(T \cup {n + 1}) = Cardinality(T) + 1
    BY <1>1, <2>1, FS_AddElement
  <2> QED
    BY <1>1, <1>2, <2>1, <2>2 DEF T
<1>3. CASE n + 1 \notin S
  <2>1. {k \in 1..(n + 1) : k \in S} = T
    BY <1>3
  <2> QED
    BY <1>1, <1>3, <2>1
<1> QED
  BY <1>2, <1>3

-----------------------------------------------------------------------------
(* Brackets                                                                  *)

\* What a bracket adds to the depth.
Adds(token) == CASE token = "(" -> 1 [] token = ")" -> -1 [] OTHER -> 0

LEMMA DepthNext ==
    ASSUME NEW text, NEW i \in Nat
    PROVE  /\ Depth(text, 0) = 0
           /\ Depth(text, i) \in Int
           /\ Depth(text, i + 1) = Depth(text, i) + Adds(text[i + 1])
<1> DEFINE O == {k \in Nat : text[k] = "("}
           C == {k \in Nat : text[k] = ")"}
           o(n) == Cardinality({k \in 1..n : k \in O})
           c(n) == Cardinality({k \in 1..n : k \in C})
<1>1. ASSUME NEW n \in Nat
      PROVE  Depth(text, n) = o(n) - c(n)
  <2>1. {k \in 1..n : text[k] = "("} = {k \in 1..n : k \in O}
        /\ {k \in 1..n : text[k] = ")"} = {k \in 1..n : k \in C}
    OBVIOUS
  <2> HIDE DEF O, C
  <2> QED
    BY <2>1 DEF Depth
<1>2. o(0) = 0 /\ c(0) = 0
  <2>1. {k \in 1..0 : k \in O} = {} /\ {k \in 1..0 : k \in C} = {}
    OBVIOUS
  <2> HIDE DEF O, C
  <2> QED
    BY <2>1, FS_EmptySet
<1>3. /\ i + 1 \in O <=> text[i + 1] = "("
      /\ i + 1 \in C <=> text[i + 1] = ")"
  OBVIOUS
<1> HIDE DEF O, C
<1>4. o(i) \in Nat /\ o(i + 1) = IF i + 1 \in O THEN o(i) + 1 ELSE o(i)
  BY CountedNext
<1>5. c(i) \in Nat /\ c(i + 1) = IF i + 1 \in C THEN c(i) + 1 ELSE c(i)
  BY CountedNext
<1> HIDE DEF o, c
<1>6. i + 1 \in Nat
  OBVIOUS
<1>7. Depth(text, 0) = 0 /\ Depth(text, i) = o(i) - c(i) /\ Depth(text, i + 1) = o(i + 1) - c(i + 1)
  BY <1>1, <1>2, <1>6
<1> QED
  BY <1>3, <1>4, <1>5, <1>7 DEF Adds

LEMMA ClosingIs ==
    ASSUME NEW text, Len(text) \in Nat
    PROVE  /\ Closing(text) \in 1..(Len(text) + 1)
           /\ Closing(text) <= Len(text) => Depth(text, Closing(text)) = 0
           /\ \A i \in 1..(Closing(text) - 1) : Depth(text, i) # 0
<1> DEFINE S == {i \in 1..Len(text) : Depth(text, i) = 0} \cup {Len(text) + 1}
<1>1. S \in SUBSET Nat /\ S # {}
  OBVIOUS
<1>2. \E m \in S : \A q \in S : m <= q
  <2> DEFINE T == {k \in Nat : \A q \in S : k <= q}
  <2>1. 0 \in T
    OBVIOUS
  <2>2. CASE \A k \in Nat : k \in T => k + 1 \in T
    <3>1. \A k \in Nat : k \in T
      <4> HIDE DEF T
      <4> QED
        BY <2>1, <2>2, AllNumbers
    <3>2. Len(text) + 2 \in T
      BY <3>1
    <3> QED
      BY <3>2
  <2>3. CASE \E k \in Nat : k \in T /\ k + 1 \notin T
    <3>1. PICK k \in Nat : k \in T /\ k + 1 \notin T
      BY <2>3
    <3>2. PICK q \in S : ~(k + 1 <= q)
      BY <3>1
    <3>3. k <= q /\ q \in Nat
      BY <1>1, <3>1
    <3>4. q = k
      BY <3>2, <3>3
    <3> HIDE DEF S
    <3> QED
      BY <3>1, <3>4
  <2> QED
    BY <2>2, <2>3
<1>3. Closing(text) = CHOOSE m \in S : \A q \in S : m <= q
  BY DEF Closing, Min
<1>4. Closing(text) \in S /\ \A q \in S : Closing(text) <= q
  <2> HIDE DEF S
  <2> QED
    BY <1>2, <1>3
<1>5. \A i \in 1..(Closing(text) - 1) : i \notin S /\ i \in 1..Len(text)
  BY <1>4
<1> QED
  BY <1>4, <1>5

\* Up to the end of a signature its first bracket is open.
LEMMA DepthInside ==
    ASSUME NEW text, Len(text) \in Nat \ {0}, text[1] = "("
    PROVE  \A i \in 1..(Closing(text) - 1) : Depth(text, i) \in Nat \ {0}
<1> DEFINE S == {k \in Nat : k + 1 <= Closing(text) - 1 => Depth(text, k + 1) \in Nat \ {0}}
<1>0. Closing(text) \in Nat
  BY ClosingIs
<1>1. 0 \in S
  <2>1. Depth(text, 0 + 1) = Depth(text, 0) + Adds(text[0 + 1]) /\ Depth(text, 0) = 0
    BY DepthNext
  <2>2. Depth(text, 1) = 1
    BY <2>1 DEF Adds
  <2> QED
    BY <2>2
<1>2. ASSUME NEW k \in Nat, k \in S
      PROVE  k + 1 \in S
  <2> SUFFICES ASSUME (k + 1) + 1 <= Closing(text) - 1
               PROVE  Depth(text, (k + 1) + 1) \in Nat \ {0}
    OBVIOUS
  <2>1. Depth(text, k + 1) \in Nat \ {0}
    BY <1>0, <1>2
  <2>2. Depth(text, (k + 1) + 1) = Depth(text, k + 1) + Adds(text[(k + 1) + 1])
    BY DepthNext
  <2>3. (k + 1) + 1 \in 1..(Closing(text) - 1)
    BY <1>0
  <2>4. Depth(text, (k + 1) + 1) # 0
    BY <2>3, ClosingIs
  <2> HIDE DEF S
  <2> DEFINE d == Depth(text, k + 1)
             e == Depth(text, (k + 1) + 1)
             a == Adds(text[(k + 1) + 1])
  <2>5. a \in {-1, 0, 1}
    BY DEF Adds
  <2> HIDE DEF d, e, a
  <2>6. d \in Nat \ {0} /\ e = d + a /\ e # 0
    BY <2>1, <2>2, <2>4 DEF d, e, a
  <2>7. e \in Nat \ {0}
    BY <2>5, <2>6
  <2> QED
    BY <2>7 DEF e
<1>3. \A k \in Nat : k \in S
  <2> HIDE DEF S
  <2> QED
    BY <1>1, <1>2, AllNumbers
<1>4. ASSUME NEW i \in 1..(Closing(text) - 1)
      PROVE  Depth(text, i) \in Nat \ {0}
  <2>1. i - 1 \in Nat /\ (i - 1) + 1 = i
    OBVIOUS
  <2>2. i - 1 \in S
    BY <1>3, <2>1
  <2> QED
    BY <2>1, <2>2
<1> QED
  BY <1>4

-----------------------------------------------------------------------------
(* Separators                                                                *)

\* Places up to i, in order, from the first bracket on.
InOrder(places, i) ==
    /\ places \in Seq(Nat) /\ Len(places) >= 1 /\ places[1] = 1
    /\ \A m \in 1..Len(places) : places[m] \in 1..i
    /\ \A m \in 1..(Len(places) - 1) : places[m] < places[m + 1]

\* The places up to i, and others behind.
Continues(longer, places, i) ==
    /\ longer \in Seq(Nat) /\ Len(places) <= Len(longer)
    /\ \A m \in 1..Len(places) : longer[m] = places[m]
    /\ \A m \in (Len(places) + 1)..Len(longer) : longer[m] > i

LEMMA InOrderNext ==
    ASSUME NEW i \in Nat, NEW places, InOrder(places, i)
    PROVE  InOrder(places, i + 1) /\ InOrder(Append(places, i + 1), i + 1)
<1>1. places \in Seq(Nat) /\ Len(places) \in Nat \ {0} /\ i + 1 \in Nat
  BY DEF InOrder
<1> DEFINE n == Len(places)
           q == Append(places, i + 1)
<1>2. /\ q \in Seq(Nat) /\ Len(q) = n + 1 /\ q[n + 1] = i + 1
      /\ \A m \in 1..n : q[m] = places[m]
  BY <1>1, AppendProperties
<1> HIDE DEF q
<1>3. InOrder(places, i + 1)
  BY <1>1 DEF InOrder
<1>4. q[1] = 1 /\ Len(q) >= 1
  BY <1>1, <1>2 DEF InOrder
<1>5. ASSUME NEW m \in 1..Len(q)
      PROVE  q[m] \in 1..(i + 1)
  <2>1. CASE m = n + 1
    BY <1>2, <2>1
  <2>2. CASE m # n + 1
    <3>1. m \in 1..n
      BY <1>1, <1>2, <2>2
    <3>2. q[m] = places[m] /\ places[m] \in 1..i
      BY <1>2, <3>1 DEF InOrder
    <3> QED
      BY <3>2
  <2> QED
    BY <2>1, <2>2
<1>6. ASSUME NEW m \in 1..(Len(q) - 1)
      PROVE  q[m] < q[m + 1]
  <2>1. CASE m = n
    BY <1>1, <1>2, <2>1 DEF InOrder
  <2>2. CASE m # n
    <3>1. m \in 1..(n - 1) /\ m + 1 \in 1..n /\ m \in 1..n
      BY <1>1, <1>2, <2>2
    <3> QED
      BY <1>2, <3>1 DEF InOrder
  <2> QED
    BY <2>1, <2>2
<1>7. InOrder(q, i + 1)
  BY <1>2, <1>4, <1>5, <1>6 DEF InOrder
<1> QED
  BY <1>3, <1>7 DEF q

LEMMA ContinuesNext ==
    ASSUME NEW i \in Nat, NEW j \in Nat, i <= j, NEW places, Len(places) \in Nat,
           NEW longer, Continues(longer, places, i)
    PROVE  Continues(Append(longer, j + 1), places, i)
<1> DEFINE n == Len(longer)
           q == Append(longer, j + 1)
<1>1. longer \in Seq(Nat) /\ j + 1 \in Nat /\ n \in Nat
  BY DEF Continues
<1>2. /\ q \in Seq(Nat) /\ Len(q) = n + 1 /\ q[n + 1] = j + 1
      /\ \A m \in 1..n : q[m] = longer[m]
  BY <1>1, AppendProperties
<1> HIDE DEF q
<1>3. \A m \in 1..Len(places) : q[m] = places[m]
  BY <1>1, <1>2 DEF Continues
<1>4. ASSUME NEW m \in (Len(places) + 1)..Len(q)
      PROVE  q[m] > i
  <2>1. CASE m = n + 1
    BY <1>2, <2>1
  <2>2. CASE m # n + 1
    <3>1. m \in 1..n /\ m \in (Len(places) + 1)..n
      BY <1>1, <1>2, <2>2
    <3> QED
      BY <1>2, <3>1 DEF Continues
  <2> QED
    BY <2>1, <2>2
<1>5. Len(places) <= Len(q)
  BY <1>1, <1>2 DEF Continues
<1> QED
  BY <1>2, <1>3, <1>4, <1>5 DEF Continues, q

LEMMA SeparatorsInOrder ==
    ASSUME NEW text, Len(text) \in Nat
    PROVE  \A i \in 1..Closing(text) : InOrder(Separators(text)[i], i)
<1> DEFINE E(i) == Separators(text)[i]
           S == {k \in Nat : k + 1 <= Closing(text) => InOrder(E(k + 1), k + 1)}
<1>0. Closing(text) \in Nat \ {0}
  BY ClosingIs
<1>1. 0 \in S
  <2>1. E(1) = <<1>>
    BY <1>0, SeparatorsStep
  <2>2. InOrder(<<1>>, 1)
    <3>1. <<1>> \in Seq(Nat) /\ Len(<<1>>) = 1 /\ <<1>>[1] = 1
      OBVIOUS
    <3> QED
      BY <3>1 DEF InOrder
  <2> HIDE DEF E
  <2>3. InOrder(E(0 + 1), 0 + 1)
    BY <2>1, <2>2
  <2> QED
    BY <2>3
<1>2. ASSUME NEW k \in Nat, k \in S
      PROVE  k + 1 \in S
  <2> SUFFICES ASSUME (k + 1) + 1 <= Closing(text)
               PROVE  InOrder(E((k + 1) + 1), (k + 1) + 1)
    OBVIOUS
  <2>1. InOrder(E(k + 1), k + 1)
    BY <1>0, <1>2
  <2>2. k + 1 \in Nat /\ (k + 1) + 1 \in 2..Closing(text) /\ ((k + 1) + 1) - 1 = k + 1
    BY <1>0
  <2> HIDE DEF S
  <2>3. E((k + 1) + 1) \in {E(k + 1), Append(E(k + 1), (k + 1) + 1)}
    BY <1>0, <2>2, SeparatorsStep
  <2> HIDE DEF E
  <2>4. InOrder(E(k + 1), (k + 1) + 1) /\ InOrder(Append(E(k + 1), (k + 1) + 1), (k + 1) + 1)
    BY <2>1, <2>2, InOrderNext
  <2> QED
    BY <2>3, <2>4
<1>3. \A k \in Nat : k \in S
  <2> HIDE DEF S
  <2> QED
    BY <1>1, <1>2, AllNumbers
<1>4. ASSUME NEW i \in 1..Closing(text)
      PROVE  InOrder(E(i), i)
  <2>1. i - 1 \in Nat /\ (i - 1) + 1 = i
    OBVIOUS
  <2>2. i - 1 \in S
    BY <1>3, <2>1
  <2> HIDE DEF E
  <2>3. (i - 1) + 1 <= Closing(text) => InOrder(E((i - 1) + 1), (i - 1) + 1)
    BY <2>2
  <2> QED
    BY <1>0, <2>1, <2>3
<1> QED
  BY <1>4

LEMMA SeparatorsContinue ==
    ASSUME NEW text, Len(text) \in Nat, NEW i \in 1..Closing(text)
    PROVE  Continues(Separators(text)[Closing(text)], Separators(text)[i], i)
<1> DEFINE E(j) == Separators(text)[j]
           S == {k \in Nat : i + k <= Closing(text) => Continues(E(i + k), E(i), i)}
<1>0. Closing(text) \in Nat \ {0} /\ i \in Nat \ {0}
  BY ClosingIs
<1>1. InOrder(E(i), i)
  BY SeparatorsInOrder
<1>2. E(i) \in Seq(Nat) /\ Len(E(i)) \in Nat
  BY <1>1 DEF InOrder
<1>3. 0 \in S
  <2> HIDE DEF E
  <2>1. Continues(E(i), E(i), i)
    BY <1>2 DEF Continues
  <2>2. i + 0 = i
    BY <1>0
  <2> QED
    BY <2>1, <2>2
<1>4. ASSUME NEW k \in Nat, k \in S
      PROVE  k + 1 \in S
  <2> SUFFICES ASSUME i + (k + 1) <= Closing(text)
               PROVE  Continues(E(i + (k + 1)), E(i), i)
    OBVIOUS
  <2>1. Continues(E(i + k), E(i), i)
    BY <1>0, <1>4
  <2>2. i + (k + 1) \in 2..Closing(text) /\ (i + (k + 1)) - 1 = i + k /\ i + k \in Nat
        /\ i <= i + k /\ i + (k + 1) = (i + k) + 1
    BY <1>0
  <2> HIDE DEF S
  <2>3. E(i + (k + 1)) \in {E(i + k), Append(E(i + k), (i + k) + 1)}
    BY <1>0, <2>2, SeparatorsStep
  <2> HIDE DEF E
  <2>4. Continues(Append(E(i + k), (i + k) + 1), E(i), i)
    BY <1>0, <1>2, <2>1, <2>2, ContinuesNext
  <2> QED
    BY <2>1, <2>3, <2>4
<1>5. \A k \in Nat : k \in S
  <2> HIDE DEF S
  <2> QED
    BY <1>3, <1>4, AllNumbers
<1>6. Closing(text) - i \in Nat /\ i + (Closing(text) - i) = Closing(text)
  BY <1>0
<1>7. Closing(text) - i \in S
  BY <1>5, <1>6
<1> HIDE DEF E
<1>8. Continues(E(i + (Closing(text) - i)), E(i), i)
  BY <1>0, <1>6, <1>7
<1> QED
  BY <1>6, <1>8 DEF E

-----------------------------------------------------------------------------
(* The loop of parse_func_type_comment                                       *)

Loop(nesting, start, end, stripped, args, exit) ==
    [nesting |-> nesting, start |-> start, end |-> end, star_stripped |-> stripped,
     args |-> args, exit |-> exit]

\* What a turn makes of the token at i, at the depth d behind it.
Turned(text, i, s, e, b, a, d, p, r) ==
    /\ text[i] = "," /\ d = 1 => r = Loop(d, i + 1, i, FALSE, p, "none")
    /\ text[i] = "*" /\ d = 1 /\ b => r = Loop(d, s, e, b, a, "rejected")
    /\ text[i] = "*" /\ d = 1 /\ ~b /\ s = i => r = Loop(d, i + 1, i, TRUE, a, "none")
    /\ text[i] = "*" /\ d = 1 /\ ~b /\ s # i => r = Loop(d, s, e, b, a, "none")
    /\ text[i] = ")" /\ d = 0 => r = Loop(d, s, i, b, IF e < s THEN a ELSE p, "closed")
    /\ ~(text[i] \in {",", "*"} /\ d = 1) /\ ~(text[i] = ")" /\ d = 0) =>
          r = Loop(d, s, i, b, a, "none")

LEMMA TurnIs ==
    ASSUME NEW text, NEW i, NEW n, NEW s, NEW e, NEW b \in BOOLEAN, NEW a,
           NEW d, d = Nested(n, text[i]),
           NEW p, p = Append(a, SubSeq(text, s, e)),
           NEW r, r = Turn(text, Loop(n, s, e, b, a, "none"), i)
    PROVE  Turned(text, i, s, e, b, a, d, p, r)
<1> USE DEF Turned
<1> DEFINE l == Loop(n, s, e, b, a, "none")
<1>1. /\ l.exit = "none" /\ l.nesting = n /\ l.start = s /\ l.end = e /\ l.star_stripped = b
      /\ l.args = a
  BY DEF Loop
<1>2. [l EXCEPT !.nesting = d] = Loop(d, s, e, b, a, "none")
  BY DEF Loop
<1>3. [[l EXCEPT !.nesting = d] EXCEPT !.args = Append(@, SubSeq(text, s, e))]
        = Loop(d, s, e, b, p, "none")
  <2> DEFINE m == [l EXCEPT !.nesting = d]
  <2> HIDE DEF m
  <2>1. m = Loop(d, s, e, b, a, "none")
    BY <1>2, Zenon DEF m
  <2>2. m.args = a
    BY <2>1 DEF Loop
  <2>3. [m EXCEPT !.args = Append(@, SubSeq(text, s, e))] = [m EXCEPT !.args = p]
    BY <2>2, Zenon
  <2>4. \A v : [m EXCEPT !.args = v] = Loop(d, s, e, b, v, "none")
    BY <2>1 DEF Loop
  <2>5. [m EXCEPT !.args = p] = Loop(d, s, e, b, p, "none")
    BY <2>4, Zenon
  <2> QED
    BY <2>3, <2>5, Zenon DEF m
<1>4. CASE text[i] = "," /\ d = 1
  BY <1>1, <1>3, <1>4 DEF Turn, ArgumentFrom, Loop
<1>5. CASE text[i] = "*" /\ d = 1
  BY <1>1, <1>2, <1>5 DEF Turn, Loop
<1>6. CASE text[i] = ")" /\ d = 0
  BY <1>1, <1>2, <1>3, <1>6 DEF Turn, Loop
<1>7. CASE ~(text[i] \in {",", "*"} /\ d = 1) /\ ~(text[i] = ")" /\ d = 0)
  BY <1>1, <1>2, <1>7 DEF Turn, Loop
<1> QED
  BY <1>4, <1>5, <1>6, <1>7

LEMMA TurnEnded ==
    ASSUME NEW text, NEW i, NEW loop, loop.exit # "none"
    PROVE  Turn(text, loop, i) = loop
  BY DEF Turn

-----------------------------------------------------------------------------
(* The text between two separators                                           *)

LEMMA Piece ==
    ASSUME NEW S, NEW text \in Seq(S), NEW a \in 1..(Len(text) + 1), NEW b \in (a - 1)..Len(text)
    PROVE  /\ SubSeq(text, a, b) \in Seq(S)
           /\ Len(SubSeq(text, a, b)) = (b - a) + 1
           /\ \A i \in 1..((b - a) + 1) : SubSeq(text, a, b)[i] = text[(a + i) - 1]
<1>1. Len(text) \in Nat /\ a \in Int /\ b \in Int
  BY LenProperties
<1>2. \A i \in a..b : text[i] \in S
  BY <1>1, ElementOfSeq
<1> DEFINE p == SubSeq(text, a, b)
<1>3. p \in Seq(S) /\ Len(p) = IF a <= b THEN (b - a) + 1 ELSE 0
  BY <1>1, <1>2, SubSeqProperties
<1>4. \A i \in 1..((b - a) + 1) : p[i] = text[(a + i) - 1]
  BY <1>1, <1>2, SubSeqProperties
<1> HIDE DEF p
<1>5. Len(p) = (b - a) + 1
  BY <1>1, <1>3
<1> QED
  BY <1>3, <1>4, <1>5 DEF p

\* A type without the star in front of it.
LEMMA TypeOfPiece ==
    ASSUME NEW S, NEW text \in Seq(S), NEW a \in 1..(Len(text) + 1), NEW b \in (a - 1)..Len(text),
           NEW s, IF a <= b /\ text[a] = "*" THEN s = a + 1 ELSE s = a
    PROVE  /\ Type(SubSeq(text, a, b)) = SubSeq(text, s, b)
           /\ Starred(SubSeq(text, a, b)) <=> a <= b /\ text[a] = "*"
<1> DEFINE p == SubSeq(text, a, b)
<1>1. Len(text) \in Nat
  BY LenProperties
<1>2. CASE a > b
  <2>1. p = << >>
    BY <1>1, <1>2, SubSeqEmpty
  <2>2. ~Starred(p) /\ Type(p) = p
    BY <2>1 DEF Starred, Type
  <2>3. s = a
    BY <1>1, <1>2
  <2> HIDE DEF p
  <2> QED
    BY <1>1, <1>2, <2>2, <2>3 DEF p
<1>3. CASE a <= b
  <2>1. a \in 1..Len(text) /\ b \in a..Len(text)
    BY <1>1, <1>3
  <2>2. Head(p) = text[a] /\ Tail(p) = SubSeq(text, a + 1, b)
    BY <2>1, HeadTailOfSubSeq
  <2>3. p # << >>
    <3>1. p \in Seq(S) /\ Len(p) = (b - a) + 1
      BY Piece
    <3> HIDE DEF p
    <3> QED
      BY <1>1, <1>3, <3>1, EmptySeq
  <2> HIDE DEF p
  <2>4. Starred(p) <=> text[a] = "*"
    BY <2>2, <2>3 DEF Starred
  <2>5. CASE text[a] = "*"
    BY <1>3, <2>2, <2>4, <2>5 DEF Type, p
  <2>6. CASE text[a] # "*"
    BY <1>3, <2>4, <2>6 DEF Type, p
  <2> QED
    BY <2>5, <2>6
<1> QED
  BY <1>1, <1>2, <1>3

\* What is left of a text with stars at its end.
LEMMA WithoutStars ==
    ASSUME NEW S, NEW text \in Seq(S), NEW s \in 1..(Len(text) + 1),
           NEW b \in (s - 1)..Len(text), NEW e \in (s - 1)..b,
           \A k \in (e + 1)..b : text[k] = "*"
    PROVE  ReadAs(SubSeq(text, s, e), SubSeq(text, s, b))
<1> DEFINE stars == b - e
           p == SubSeq(text, e + 1, b)
           q == [i \in 1..stars |-> "*"]
<1>1. Len(text) \in Nat
  BY LenProperties
<1>2. /\ e + 1 \in 1..(Len(text) + 1) /\ b \in ((e + 1) - 1)..Len(text)
      /\ stars \in Nat /\ (b - (e + 1)) + 1 = stars /\ stars \in 0..((b - s) + 1)
  BY <1>1
<1>3. /\ p \in Seq(S) /\ Len(p) = stars
      /\ \A i \in 1..stars : p[i] = text[((e + 1) + i) - 1]
  <2>1. /\ p \in Seq(S) /\ Len(p) = (b - (e + 1)) + 1
        /\ \A i \in 1..((b - (e + 1)) + 1) : p[i] = text[((e + 1) + i) - 1]
    BY <1>2, Piece
  <2> HIDE DEF p, stars
  <2> QED
    BY <1>2, <2>1
<1>4. p = q
  <2>1. \A i \in 1..stars : ((e + 1) + i) - 1 \in (e + 1)..b
    BY <1>1, <1>2
  <2>2. \A i \in 1..stars : p[i] = "*"
    BY <1>3, <2>1
  <2>3. p = [i \in 1..Len(p) |-> p[i]]
    <3> HIDE DEF p
    <3> QED
      BY <1>3, LenProperties
  <2> HIDE DEF p, stars
  <2> QED
    BY <1>3, <2>2, <2>3
<1>5. SubSeq(text, s, e) \o p = SubSeq(text, s, b)
  <2>1. e \in (s - 1)..Len(text) /\ b \in e..Len(text)
    BY <1>1
  <2> QED
    BY <2>1, ConcatAdjacentSubSeq
<1>6. Len(SubSeq(text, s, b)) = (b - s) + 1
  BY Piece
<1> HIDE DEF p, stars
<1>7. stars \in 0..Len(SubSeq(text, s, b))
  BY <1>2, <1>6
<1> QED
  BY <1>4, <1>5, <1>7 DEF ReadAs

LEMMA PieceRead ==
    ASSUME NEW S, NEW text \in Seq(S), NEW a \in 1..(Len(text) + 1), NEW b \in (a - 1)..Len(text),
           NEW s, IF a <= b /\ text[a] = "*" THEN s = a + 1 ELSE s = a,
           NEW e \in (s - 1)..b,
           \A k \in (e + 1)..b : text[k] = "*"
    PROVE  ReadAs(SubSeq(text, s, e), Type(SubSeq(text, a, b)))
<1>1. Type(SubSeq(text, a, b)) = SubSeq(text, s, b)
  BY TypeOfPiece
<1>2. Len(text) \in Nat
  BY LenProperties
<1>3. s \in 1..(Len(text) + 1) /\ b \in (s - 1)..Len(text)
  BY <1>2
<1>4. ReadAs(SubSeq(text, s, e), SubSeq(text, s, b))
  BY <1>3, WithoutStars
<1> QED
  BY <1>1, <1>4

-----------------------------------------------------------------------------
(* The invariant of the loop, before the signature is closed                 *)

\* Of the argument that starts at f, up to i.
Current(text, i, f, s, e, b) ==
    /\ f \in 2..(i + 1)
    /\ IF f <= i /\ text[f] = "*" THEN s = f + 1 /\ b ELSE s = f /\ ~b
    /\ e \in (s - 1)..i
    /\ \A k \in (e + 1)..i : text[k] = "*"
    /\ IF b THEN e = i ELSE f <= i => e >= f

\* Of the arguments that lie between places.
Arguments(text, places, args) ==
    /\ args \in Seq(Seq(TokenKinds)) /\ Len(args) = Len(places) - 1
    /\ \A m \in 1..(Len(places) - 1) :
          ReadAs(args[m], Type(SubSeq(text, places[m] + 1, places[m + 1] - 1)))

LastPlace(text, i) == Separators(text)[i][Len(Separators(text)[i])]

Opened(text, i) ==
    /\ Depth(text, LastPlace(text, i)) = 1
    /\ \E s, e, a : \E b \in BOOLEAN :
          /\ Turns(text)[i] = Loop(Depth(text, i), s, e, b, a, "none")
          /\ Arguments(text, Separators(text)[i], a)
          /\ Current(text, i, LastPlace(text, i) + 1, s, e, b)

\* A star in an argument with a star before it.
TwoStars(text, k) ==
    /\ k < Closing(text) /\ text[k] = "*" /\ Depth(text, k) = 1
    /\ LastPlace(text, k) + 1 < k /\ text[LastPlace(text, k) + 1] = "*"

Rejected(text, i) ==
    Turns(text)[i].exit = "rejected" /\ \E k \in 2..Len(text) : TwoStars(text, k)

LEMMA CurrentNext ==
    ASSUME NEW text, NEW i \in Nat \ {0}, NEW f, NEW s, NEW e, NEW b \in BOOLEAN,
           Current(text, i, f, s, e, b)
    PROVE  /\ text[i + 1] = "*" /\ ~b /\ s = i + 1 =>
                 Current(text, i + 1, f, (i + 1) + 1, i + 1, TRUE)
           /\ text[i + 1] = "*" /\ ~b /\ s # i + 1 => Current(text, i + 1, f, s, e, b)
           /\ text[i + 1] # "*" \/ f <= i => Current(text, i + 1, f, s, i + 1, b)
           /\ Current(text, i + 1, (i + 1) + 1, (i + 1) + 1, i + 1, FALSE)
<1>1. f \in Int /\ f \in 2..(i + 1) /\ i + 1 \in Nat /\ i \in Int
  BY DEF Current
<1>2. s \in Int /\ e \in Int
  BY <1>1 DEF Current
<1>3. ASSUME text[i + 1] = "*", ~b, s = i + 1
      PROVE  Current(text, i + 1, f, (i + 1) + 1, i + 1, TRUE)
  <2>1. f = i + 1
    BY <1>1, <1>3 DEF Current
  <2>2. text[f] = "*"
    BY <1>3, <2>1
  <2> QED
    BY <1>1, <2>1, <2>2 DEF Current
<1>4. ASSUME text[i + 1] = "*", ~b, s # i + 1
      PROVE  Current(text, i + 1, f, s, e, b)
  <2>1. s = f /\ f <= i /\ text[f] # "*" /\ e >= f
    BY <1>1, <1>4 DEF Current
  <2>2. \A k \in (e + 1)..(i + 1) : text[k] = "*"
    <3>1. \A k \in (e + 1)..(i + 1) : k = i + 1 \/ k \in (e + 1)..i
      BY <1>1, <1>2
    <3> QED
      BY <1>4, <3>1 DEF Current
  <2>3. e \in (s - 1)..(i + 1) /\ f \in 2..((i + 1) + 1)
    BY <1>1, <1>2 DEF Current
  <2> QED
    BY <1>4, <2>1, <2>2, <2>3, <1>1 DEF Current
<1>5. ASSUME text[i + 1] # "*" \/ f <= i
      PROVE  Current(text, i + 1, f, s, i + 1, b)
  <2>1. \A k \in ((i + 1) + 1)..(i + 1) : text[k] = "*"
    BY <1>1
  <2>2. f <= i + 1 /\ text[f] = "*" <=> f <= i /\ text[f] = "*"
    BY <1>1, <1>5
  <2>3. IF f <= i + 1 /\ text[f] = "*" THEN s = f + 1 /\ b ELSE s = f /\ ~b
    BY <2>2 DEF Current
  <2>4. i + 1 \in (s - 1)..(i + 1) /\ f \in 2..((i + 1) + 1)
    BY <1>1, <1>2 DEF Current
  <2>5. f <= i + 1 => i + 1 >= f
    BY <1>1
  <2> QED
    BY <2>1, <2>3, <2>4, <2>5 DEF Current
<1>6. Current(text, i + 1, (i + 1) + 1, (i + 1) + 1, i + 1, FALSE)
  BY <1>1 DEF Current
<1> QED
  BY <1>3, <1>4, <1>5, <1>6

LEMMA ArgumentsNext ==
    ASSUME NEW text, NEW i \in Nat, NEW places, InOrder(places, i), NEW args,
           Arguments(text, places, args), NEW v \in Seq(TokenKinds),
           ReadAs(v, Type(SubSeq(text, places[Len(places)] + 1, i)))
    PROVE  Arguments(text, Append(places, i + 1), Append(args, v))
<1> DEFINE n == Len(places)
           P == Append(places, i + 1)
           A == Append(args, v)
<1>1. places \in Seq(Nat) /\ n \in Nat \ {0} /\ i + 1 \in Nat /\ (i + 1) - 1 = i
  BY DEF InOrder
<1>2. args \in Seq(Seq(TokenKinds)) /\ Len(args) = n - 1
  BY DEF Arguments
<1>3. /\ P \in Seq(Nat) /\ Len(P) = n + 1 /\ P[n + 1] = i + 1
      /\ \A m \in 1..n : P[m] = places[m]
  BY <1>1, AppendProperties
<1>4. /\ A \in Seq(Seq(TokenKinds)) /\ Len(A) = (n - 1) + 1 /\ A[(n - 1) + 1] = v
      /\ \A m \in 1..(n - 1) : A[m] = args[m]
  BY <1>2, AppendProperties
<1> HIDE DEF P, A
<1>5. Len(A) = n /\ A[n] = v /\ Len(P) - 1 = n
  BY <1>1, <1>3, <1>4
<1>6. ASSUME NEW m \in 1..n
      PROVE  ReadAs(A[m], Type(SubSeq(text, P[m] + 1, P[m + 1] - 1)))
  <2>1. CASE m = n
    <3>1. P[m] = places[n] /\ P[m + 1] - 1 = i /\ A[m] = v
      BY <1>1, <1>3, <1>5, <2>1
    <3> QED
      BY <3>1
  <2>2. CASE m # n
    <3>1. m \in 1..(n - 1) /\ m + 1 \in 1..n
      BY <1>1, <2>2
    <3>2. P[m] = places[m] /\ P[m + 1] = places[m + 1] /\ A[m] = args[m]
      BY <1>3, <1>4, <3>1
    <3>3. ReadAs(args[m], Type(SubSeq(text, places[m] + 1, places[m + 1] - 1)))
      BY <3>1 DEF Arguments
    <3> QED
      BY <3>2, <3>3
  <2> QED
    BY <2>1, <2>2
<1> QED
  BY <1>4, <1>5, <1>6 DEF Arguments, P, A

IsSignature(text) == text \in Seq(TokenKinds) /\ Len(text) \in Nat \ {0} /\ text[1] = "("

LEMMA OpenedFirst ==
    ASSUME NEW text, IsSignature(text)
    PROVE  Opened(text, 1) /\ Closing(text) \in 2..(Len(text) + 1)
<1>1. Len(text) \in Nat \ {0} /\ text[1] = "("
  BY DEF IsSignature
<1>2. Depth(text, 0 + 1) = Depth(text, 0) + Adds(text[0 + 1]) /\ Depth(text, 0) = 0
  BY DepthNext
<1>3. Depth(text, 1) = 1
  BY <1>1, <1>2 DEF Adds
<1>4. Closing(text) \in 1..(Len(text) + 1) /\ Closing(text) # 1
  BY <1>1, <1>3, ClosingIs
<1>5. Separators(text)[1] = <<1>>
  BY <1>1, <1>4, SeparatorsStep
<1>6. Turns(text)[1] = Loop(1, 2, 1, FALSE, << >>, "none")
  BY <1>1, TurnsStep DEF Loop
<1>7. Len(<<1>>) = 1 /\ <<1>>[1] = 1
  OBVIOUS
<1>8. LastPlace(text, 1) = 1
  BY <1>5, <1>7 DEF LastPlace
<1>9. Arguments(text, <<1>>, << >>)
  <2>1. << >> \in Seq(Seq(TokenKinds)) /\ Len(<< >>) = 0
    OBVIOUS
  <2> QED
    BY <1>7, <2>1 DEF Arguments
<1>10. Current(text, 1, 2, 2, 1, FALSE)
  BY DEF Current
<1>11. LastPlace(text, 1) + 1 = 2
  BY <1>8
<1>12. Opened(text, 1)
  BY <1>3, <1>5, <1>6, <1>8, <1>9, <1>10, <1>11 DEF Opened
<1> QED
  BY <1>1, <1>4, <1>12

LEMMA OpenedNext ==
    ASSUME NEW text, IsSignature(text), NEW i \in Nat \ {0}, i + 1 < Closing(text),
           Opened(text, i)
    PROVE  Opened(text, i + 1) \/ Rejected(text, i + 1)
<1> DEFINE P == Separators(text)[i]
           Q == Separators(text)[i + 1]
           f == LastPlace(text, i) + 1
           d == Depth(text, i + 1)
           t == text[i + 1]
           r == Turns(text)[i + 1]
<1>1. text \in Seq(TokenKinds) /\ Len(text) \in Nat \ {0} /\ text[1] = "("
  BY DEF IsSignature
<1>2. Closing(text) \in 2..(Len(text) + 1) /\ Closing(text) \in Nat
  BY <1>1, OpenedFirst
<1>3. /\ i + 1 \in 2..Closing(text) /\ (i + 1) - 1 = i /\ i + 1 # Closing(text)
      /\ i + 1 \in 2..Len(text) /\ i \in 1..Closing(text) /\ i \in 1..(Closing(text) - 1)
      /\ i + 1 \in 1..(Closing(text) - 1)
  BY <1>1, <1>2
<1>4. PICK s, e, a : \E b \in BOOLEAN :
          /\ Turns(text)[i] = Loop(Depth(text, i), s, e, b, a, "none")
          /\ Arguments(text, P, a)
          /\ Current(text, i, f, s, e, b)
  BY DEF Opened
<1>5. PICK b \in BOOLEAN :
          /\ Turns(text)[i] = Loop(Depth(text, i), s, e, b, a, "none")
          /\ Arguments(text, P, a)
          /\ Current(text, i, f, s, e, b)
  BY <1>4
<1>6. Depth(text, i) \in Nat \ {0} /\ d \in Nat \ {0}
  BY <1>1, <1>3, DepthInside
<1>7. d = Depth(text, i) + Adds(t)
  BY DepthNext
<1>8. d = Nested(Depth(text, i), t)
  BY <1>6, <1>7 DEF Nested, Adds
<1>9. r = Turn(text, Loop(Depth(text, i), s, e, b, a, "none"), i + 1)
  BY <1>1, <1>3, <1>5, TurnsStep
<1>10. Q = IF t = "," /\ d = 1 THEN Append(P, i + 1) ELSE P
  <2>1. \A j \in 2..Closing(text) :
           Separators(text)[j] = IF j = Closing(text) \/ IsComma(text, j)
                                 THEN Append(Separators(text)[j - 1], j)
                                 ELSE Separators(text)[j - 1]
    BY <1>1, <1>2, SeparatorsStep
  <2>2. Q = IF IsComma(text, i + 1) THEN Append(P, i + 1) ELSE P
    BY <1>3, <2>1
  <2> QED
    BY <2>2 DEF IsComma
<1>11. InOrder(P, i)
  BY <1>1, <1>3, SeparatorsInOrder
<1>12. f \in 2..(i + 1) /\ LastPlace(text, i) \in 1..i
  BY <1>11 DEF InOrder, LastPlace
<1> DEFINE p == Append(a, SubSeq(text, s, e))
<1> HIDE DEF f, P, Q
<1>13. /\ t = "," /\ d = 1 => r = Loop(d, (i + 1) + 1, i + 1, FALSE, p, "none")
       /\ t = "*" /\ d = 1 /\ b => r = Loop(d, s, e, b, a, "rejected")
       /\ t = "*" /\ d = 1 /\ ~b /\ s = i + 1 => r = Loop(d, (i + 1) + 1, i + 1, TRUE, a, "none")
       /\ t = "*" /\ d = 1 /\ ~b /\ s # i + 1 => r = Loop(d, s, e, b, a, "none")
       /\ ~(t \in {",", "*"} /\ d = 1) /\ ~(t = ")" /\ d = 0) =>
             r = Loop(d, s, i + 1, b, a, "none")
  <2> DEFINE n == Depth(text, i)
             j == i + 1
  <2>1. d = Nested(n, text[j]) /\ r = Turn(text, Loop(n, s, e, b, a, "none"), j)
    BY <1>8, <1>9
  <2> HIDE DEF n, j, d, r, p
  <2>2. p = Append(a, SubSeq(text, s, e))
    BY DEF p
  <2>3. Turned(text, j, s, e, b, a, d, p, r)
    BY <2>1, <2>2, TurnIs
  <2> QED
    BY <2>3 DEF j, Turned
<1>14. /\ t = "*" /\ ~b /\ s = i + 1 => Current(text, i + 1, f, (i + 1) + 1, i + 1, TRUE)
       /\ t = "*" /\ ~b /\ s # i + 1 => Current(text, i + 1, f, s, e, b)
       /\ t # "*" \/ f <= i => Current(text, i + 1, f, s, i + 1, b)
       /\ Current(text, i + 1, (i + 1) + 1, (i + 1) + 1, i + 1, FALSE)
  BY <1>5, CurrentNext
<1> HIDE DEF P, Q, f, d, t, r, p
<1>15. ASSUME Q = P, NEW s2, NEW e2, NEW b2 \in BOOLEAN, r = Loop(d, s2, e2, b2, a, "none"),
              Current(text, i + 1, f, s2, e2, b2)
       PROVE  Opened(text, i + 1)
  <2>1. LastPlace(text, i + 1) = LastPlace(text, i)
    BY <1>15 DEF LastPlace, P, Q
  <2>2. Depth(text, LastPlace(text, i + 1)) = 1
    BY <2>1 DEF Opened
  <2>3. Current(text, i + 1, LastPlace(text, i + 1) + 1, s2, e2, b2)
    BY <1>15, <2>1 DEF f
  <2>4. Arguments(text, Separators(text)[i + 1], a)
    BY <1>5, <1>15 DEF Q
  <2>5. Turns(text)[i + 1] = Loop(Depth(text, i + 1), s2, e2, b2, a, "none")
    BY <1>15 DEF r, d
  <2> QED
    BY <2>2, <2>3, <2>4, <2>5 DEF Opened
<1>16. CASE t = "," /\ d = 1
  <2>1. Q = Append(P, i + 1) /\ r = Loop(d, (i + 1) + 1, i + 1, FALSE, p, "none")
    BY <1>10, <1>13, <1>16
  <2>2. P \in Seq(Nat) /\ i + 1 \in Nat
    BY <1>11 DEF InOrder
  <2>3. LastPlace(text, i + 1) = i + 1
    <3>1. Len(Q) = Len(P) + 1 /\ Q[Len(P) + 1] = i + 1
      BY <2>1, <2>2, AppendProperties
    <3> QED
      BY <3>1 DEF LastPlace, Q
  <2>4. Depth(text, LastPlace(text, i + 1)) = 1
    BY <1>16, <2>3 DEF d
  <2>5. /\ f \in 1..(Len(text) + 1) /\ i \in (f - 1)..Len(text)
        /\ IF f <= i /\ text[f] = "*" THEN s = f + 1 ELSE s = f
        /\ e \in (s - 1)..i /\ \A k \in (e + 1)..i : text[k] = "*"
    BY <1>1, <1>3, <1>5, <1>12 DEF Current
  <2>6. ReadAs(SubSeq(text, s, e), Type(SubSeq(text, f, i)))
    BY <1>1, <2>5, PieceRead
  <2>7. SubSeq(text, s, e) \in Seq(TokenKinds)
    <3>1. s \in 1..(Len(text) + 1) /\ e \in (s - 1)..Len(text)
      BY <1>1, <1>3, <1>12, <2>5
    <3> QED
      BY <1>1, <3>1, Piece
  <2>8. f = P[Len(P)] + 1
    BY DEF f, P, LastPlace
  <2> DEFINE v == SubSeq(text, s, e)
  <2> HIDE DEF v
  <2>9. Arguments(text, Append(P, i + 1), Append(a, v))
    <3>1. v \in Seq(TokenKinds) /\ ReadAs(v, Type(SubSeq(text, P[Len(P)] + 1, i))) /\ i \in Nat
      BY <2>6, <2>7, <2>8 DEF v
    <3> QED
      BY <1>5, <1>11, <3>1, ArgumentsNext
  <2>10. Arguments(text, Separators(text)[i + 1], p)
    BY <2>1, <2>9, Zenon DEF p, v, Q
  <2>11. Current(text, i + 1, LastPlace(text, i + 1) + 1, (i + 1) + 1, i + 1, FALSE)
    BY <1>14, <2>3
  <2>12. Turns(text)[i + 1] = Loop(Depth(text, i + 1), (i + 1) + 1, i + 1, FALSE, p, "none")
    BY <2>1 DEF r, d
  <2>13. Opened(text, i + 1)
    BY <2>4, <2>10, <2>11, <2>12, Zenon DEF Opened
  <2> QED
    BY <2>13
<1>17. CASE t = "*" /\ d = 1
  <2>0. Q = P
    BY <1>10, <1>17
  <2>1. CASE b
    <3>1. r.exit = "rejected"
      BY <1>13, <1>17, <2>1 DEF Loop
    <3>2. LastPlace(text, i + 1) + 1 = f
      BY <2>0 DEF LastPlace, P, Q, f
    <3>3. f <= i /\ text[f] = "*"
      BY <1>5, <2>1 DEF Current
    <3>4. TwoStars(text, i + 1)
      BY <1>3, <1>12, <1>17, <3>2, <3>3 DEF TwoStars, t, d
    <3> QED
      BY <1>3, <3>1, <3>4 DEF Rejected, r
  <2>2. CASE ~b /\ s = i + 1
    BY <1>13, <1>14, <1>15, <1>17, <2>0, <2>2
  <2>3. CASE ~b /\ s # i + 1
    BY <1>13, <1>14, <1>15, <1>17, <2>0, <2>3
  <2> QED
    BY <2>1, <2>2, <2>3
<1>18. CASE ~(t = "," /\ d = 1) /\ ~(t = "*" /\ d = 1)
  <2>0. Q = P
    BY <1>10, <1>18
  <2>1. r = Loop(d, s, i + 1, b, a, "none")
    BY <1>6, <1>13, <1>18
  <2>2. t # "*" \/ f <= i
    <3> SUFFICES ASSUME t = "*", ~(f <= i) PROVE FALSE
      OBVIOUS
    <3>1. LastPlace(text, i) = i
      BY <1>12 DEF f
    <3>2. Depth(text, i) = 1
      BY <3>1 DEF Opened
    <3>3. d = 1
      BY <1>7, <3>2 DEF Adds
    <3> QED
      BY <1>18, <3>3
  <2>3. Current(text, i + 1, f, s, i + 1, b)
    BY <1>14, <2>2
  <2>4. Opened(text, i + 1)
    BY <1>15, <2>0, <2>1, <2>3
  <2> QED
    BY <2>4
<1> QED
  BY <1>16, <1>17, <1>18

-----------------------------------------------------------------------------
(* The elements of a signature                                               *)

Places(text) == Separators(text)[Closing(text)]
Between(text, m) == SubSeq(text, Places(text)[m] + 1, Places(text)[m + 1] - 1)
Left(text) == Len(Places(text)) - 1

LEMMA PlacesAre ==
    ASSUME NEW text, IsSignature(text)
    PROVE  /\ InOrder(Places(text), Closing(text))
           /\ Left(text) \in Nat \ {0}
           /\ Places(text)[Left(text) + 1] = Closing(text)
           /\ Places(text)[Left(text)] = LastPlace(text, Closing(text) - 1)
           /\ Places(text) = Append(Separators(text)[Closing(text) - 1], Closing(text))
           /\ Left(text) = Len(Separators(text)[Closing(text) - 1])
<1> DEFINE c == Closing(text)
           P == Separators(text)[c - 1]
<1>1. Len(text) \in Nat \ {0}
  BY DEF IsSignature
<1>2. c \in Nat /\ c \in 2..(Len(text) + 1)
  BY <1>1, OpenedFirst
<1>3. c \in 1..c /\ c - 1 \in 1..c /\ c \in 2..c /\ c \in Nat \ {0}
  BY <1>2
<1>4. InOrder(Places(text), c) /\ InOrder(P, c - 1)
  BY <1>1, <1>3, SeparatorsInOrder DEF Places
<1>5. Places(text) = Append(P, c)
  <2>1. \A j \in 2..Closing(text) :
           Separators(text)[j] = IF j = Closing(text) \/ IsComma(text, j)
                                 THEN Append(Separators(text)[j - 1], j)
                                 ELSE Separators(text)[j - 1]
    BY <1>1, <1>3, SeparatorsStep
  <2> QED
    BY <1>3, <2>1 DEF Places
<1> HIDE DEF P
<1>6. P \in Seq(Nat) /\ Len(P) \in Nat \ {0}
  BY <1>4 DEF InOrder
<1>7. /\ Len(Places(text)) = Len(P) + 1 /\ Places(text)[Len(P) + 1] = c
      /\ Places(text)[Len(P)] = P[Len(P)]
  BY <1>2, <1>5, <1>6, AppendProperties
<1>8. Left(text) = Len(P)
  BY <1>6, <1>7 DEF Left
<1>9. Places(text)[Left(text)] = LastPlace(text, c - 1)
  BY <1>7, <1>8 DEF LastPlace, P
<1> HIDE DEF c
<1> QED
  BY <1>4, <1>5, <1>6, <1>7, <1>8, <1>9 DEF P, c

LEMMA BetweenPlaces ==
    ASSUME NEW text, IsSignature(text), NEW m \in 1..Left(text)
    PROVE  /\ Places(text)[m] \in Nat /\ Places(text)[m + 1] \in Nat
           /\ Places(text)[m] + 1 \in 1..(Len(text) + 1)
           /\ Places(text)[m + 1] - 1 \in Places(text)[m]..Len(text)
           /\ Between(text, m) \in Seq(TokenKinds)
           /\ Len(Between(text, m)) = (Places(text)[m + 1] - 1) - Places(text)[m]
           /\ \A i \in 1..((Places(text)[m + 1] - 1) - Places(text)[m]) :
                 Between(text, m)[i] = text[Places(text)[m] + i]
<1> DEFINE a == Places(text)[m] + 1
           b == Places(text)[m + 1] - 1
<1>1. text \in Seq(TokenKinds) /\ Len(text) \in Nat
  BY DEF IsSignature
<1>2. Closing(text) \in 2..(Len(text) + 1)
  BY OpenedFirst
<1>3. m \in 1..Len(Places(text)) /\ m + 1 \in 1..Len(Places(text))
      /\ m \in 1..(Len(Places(text)) - 1)
  BY PlacesAre DEF Left
<1>4. /\ Places(text)[m] \in 1..Closing(text) /\ Places(text)[m + 1] \in 1..Closing(text)
      /\ Places(text)[m] < Places(text)[m + 1]
  BY <1>3, PlacesAre DEF InOrder
<1>5. a \in 1..(Len(text) + 1) /\ b \in (a - 1)..Len(text) /\ a - 1 = Places(text)[m]
  BY <1>1, <1>2, <1>4
<1>6. /\ SubSeq(text, a, b) \in Seq(TokenKinds)
      /\ Len(SubSeq(text, a, b)) = (b - a) + 1
      /\ \A i \in 1..((b - a) + 1) : SubSeq(text, a, b)[i] = text[(a + i) - 1]
  BY <1>1, <1>5, Piece
<1>7. (b - a) + 1 = b - Places(text)[m] /\ \A i \in Nat : (a + i) - 1 = Places(text)[m] + i
  BY <1>1, <1>4
<1>8. Between(text, m) = SubSeq(text, a, b)
  BY DEF Between
<1> HIDE DEF a, b
<1>9. Len(Between(text, m)) = b - Places(text)[m]
  BY <1>6, <1>7, <1>8
<1>10. ASSUME NEW i \in 1..(b - Places(text)[m])
       PROVE  Between(text, m)[i] = text[Places(text)[m] + i]
  <2>1. i \in 1..((b - a) + 1) /\ i \in Nat
    BY <1>7
  <2> QED
    BY <1>6, <1>7, <1>8, <2>1
<1>11. Between(text, m) \in Seq(TokenKinds)
  BY <1>6, <1>8
<1> QED
  BY <1>1, <1>2, <1>4, <1>9, <1>10, <1>11, <1>5, SMTT(60) DEF a, b

LEMMA ElementsAre ==
    ASSUME NEW text, IsSignature(text)
    PROVE  /\ Len(Elements(text)) = IF Between(text, Left(text)) \in {<< >>, <<"*">>}
                                    THEN Left(text) - 1 ELSE Left(text)
           /\ \A m \in 1..Len(Elements(text)) : Elements(text)[m] = Between(text, m)
<1> DEFINE n == Left(text)
           p == [m \in 1..n |-> Between(text, m)]
<1>1. n \in Nat \ {0}
  BY PlacesAre
<1>2. Elements(text) = IF Last(p) \in {<< >>, <<"*">>} THEN Front(p) ELSE p
  BY DEF Elements, Left, Between, Places
<1>3. \A m \in 1..n : Between(text, m) \in Seq(TokenKinds)
  BY BetweenPlaces
<1>4. p \in Seq(Seq(TokenKinds)) /\ Len(p) = n /\ \A m \in 1..n : p[m] = Between(text, m)
  <2> HIDE DEF n
  <2> QED
    BY <1>1, <1>3
<1> HIDE DEF p
<1>5. Last(p) = Between(text, n)
  BY <1>1, <1>4 DEF Last
<1>6. Front(p) = SubSeq(p, 1, n - 1)
  BY <1>4 DEF Front
<1>7. /\ Len(SubSeq(p, 1, n - 1)) = n - 1
      /\ \A m \in 1..(n - 1) : SubSeq(p, 1, n - 1)[m] = p[m]
  <2>1. 1 \in 1..(Len(p) + 1) /\ n - 1 \in (1 - 1)..Len(p)
    BY <1>1, <1>4
  <2> DEFINE k == n - 1
             q == SubSeq(p, 1, k)
  <2>2. /\ Len(q) = (k - 1) + 1
        /\ \A m \in 1..((k - 1) + 1) : q[m] = p[(1 + m) - 1]
    BY <1>4, <2>1, Piece
  <2>3. (k - 1) + 1 = k /\ k \in Nat /\ \A m \in 1..k : (1 + m) - 1 = m
    BY <1>1
  <2> HIDE DEF k, q
  <2>4. Len(q) = k /\ \A m \in 1..k : q[m] = p[m]
    BY <2>2, <2>3
  <2> QED
    BY <2>4 DEF k, q
<1> HIDE DEF n
<1>8. CASE Last(p) \in {<< >>, <<"*">>}
  <2>1. Elements(text) = SubSeq(p, 1, n - 1)
    BY <1>2, <1>6, <1>8
  <2>2. Len(Elements(text)) = n - 1
    BY <1>7, <2>1
  <2>3. \A m \in 1..(n - 1) : Elements(text)[m] = Between(text, m)
    BY <1>1, <1>4, <1>7, <2>1
  <2> QED
    BY <1>5, <1>8, <2>2, <2>3 DEF n
<1>9. CASE Last(p) \notin {<< >>, <<"*">>}
  <2>1. Elements(text) = p
    BY <1>2, <1>9
  <2> QED
    BY <1>4, <1>5, <1>9, <2>1 DEF n
<1> QED
  BY <1>8, <1>9

\* The arguments read are the elements.
Final(text, args) ==
    /\ args \in Seq(Seq(TokenKinds)) /\ Len(args) = Len(Elements(text))
    /\ \A n \in 1..Len(Elements(text)) : ReadAs(args[n], Type(Elements(text)[n]))

Closed(text, i) ==
    \E s, b, a : Turns(text)[i] = Loop(0, s, Closing(text), b, a, "closed") /\ Final(text, a)

\* The argument before the closing bracket is left out as the element is.
LEMMA LastElement ==
    ASSUME NEW text, IsSignature(text), NEW s, NEW e, NEW b \in BOOLEAN,
           Current(text, Closing(text) - 1, LastPlace(text, Closing(text) - 1) + 1, s, e, b)
    PROVE  /\ e < s <=> Between(text, Left(text)) \in {<< >>, <<"*">>}
           /\ ReadAs(SubSeq(text, s, e), Type(Between(text, Left(text))))
           /\ SubSeq(text, s, e) \in Seq(TokenKinds)
<1> DEFINE c == Closing(text)
           n == Left(text)
           f == LastPlace(text, c - 1) + 1
           p == Between(text, n)
<1>1. text \in Seq(TokenKinds) /\ Len(text) \in Nat
  BY DEF IsSignature
<1>2. c \in 2..(Len(text) + 1) /\ c \in Nat
  BY <1>1, OpenedFirst
<1>3. n \in Nat \ {0} /\ n \in 1..n
  BY PlacesAre
<1>4. Places(text)[n] + 1 = f /\ Places(text)[n + 1] = c
  BY PlacesAre
<1>5. /\ f - 1 \in Nat /\ f \in 1..(Len(text) + 1) /\ c - 1 \in (f - 1)..Len(text)
      /\ p \in Seq(TokenKinds) /\ Len(p) = (c - 1) - (f - 1)
      /\ \A i \in 1..((c - 1) - (f - 1)) : p[i] = text[(f - 1) + i]
  <2>1. /\ Places(text)[n] \in Nat
        /\ Places(text)[n] + 1 \in 1..(Len(text) + 1)
        /\ Places(text)[n + 1] - 1 \in Places(text)[n]..Len(text)
        /\ p \in Seq(TokenKinds)
        /\ Len(p) = (Places(text)[n + 1] - 1) - Places(text)[n]
        /\ \A i \in 1..((Places(text)[n + 1] - 1) - Places(text)[n]) :
                 p[i] = text[Places(text)[n] + i]
    BY <1>3, BetweenPlaces
  <2>2. Places(text)[n] = f - 1
    BY <1>4, <2>1
  <2> HIDE DEF p, f, n, c
  <2> QED
    BY <1>4, <2>1, <2>2
<1>6. p = SubSeq(text, f, c - 1)
  BY <1>4 DEF Between
<1> HIDE DEF f, c, p, n
<1>7. Current(text, c - 1, f, s, e, b)
  BY DEF c, f
<1>8. /\ IF f <= c - 1 /\ text[f] = "*" THEN s = f + 1 ELSE s = f
      /\ e \in (s - 1)..(c - 1) /\ \A k \in (e + 1)..(c - 1) : text[k] = "*"
  BY <1>7 DEF Current
<1>9. ReadAs(SubSeq(text, s, e), Type(p))
  <2> DEFINE k == c - 1
  <2>1. /\ f \in 1..(Len(text) + 1) /\ k \in (f - 1)..Len(text)
        /\ IF f <= k /\ text[f] = "*" THEN s = f + 1 ELSE s = f
        /\ e \in (s - 1)..k /\ \A q \in (e + 1)..k : text[q] = "*"
    BY <1>5, <1>8
  <2> HIDE DEF k
  <2>2. ReadAs(SubSeq(text, s, e), Type(SubSeq(text, f, k)))
    BY <1>1, <2>1, PieceRead
  <2> QED
    BY <1>6, <2>2 DEF k
<1>10. SubSeq(text, s, e) \in Seq(TokenKinds)
  <2>1. s \in 1..(Len(text) + 1) /\ e \in (s - 1)..Len(text)
    BY <1>1, <1>2, <1>5, <1>8
  <2> QED
    BY <1>1, <2>1, Piece
<1>11. f \in Nat /\ e \in Int /\ s \in Int
  BY <1>2, <1>5, <1>8
<1>12. ASSUME e < s
       PROVE  p \in {<< >>, <<"*">>}
  <2>1. CASE b
    <3>1. e = c - 1 /\ s = f + 1 /\ f <= c - 1 /\ text[f] = "*"
      BY <1>7, <2>1 DEF Current
    <3>2. f = c - 1
      BY <1>2, <1>11, <1>12, <3>1
    <3>3. Len(p) = 1 /\ p[1] = text[f]
      <4>1. (c - 1) - (f - 1) = 1 /\ (f - 1) + 1 = f
        BY <1>2, <1>11, <3>2
      <4> QED
        BY <1>5, <4>1
    <3>4. /\ p \in Seq(TokenKinds \cup {"*"}) /\ <<"*">> \in Seq(TokenKinds \cup {"*"})
          /\ Len(<<"*">>) = 1 /\ <<"*">>[1] = "*"
      BY <1>5, SeqMonotonic
    <3>5. p = <<"*">>
      <4>1. \A i \in 1..Len(p) : p[i] = <<"*">>[i]
        BY <3>1, <3>3, <3>4
      <4> QED
        BY <3>3, <3>4, <4>1, SeqEqual
    <3> QED
      BY <3>5
  <2>2. CASE ~b
    <3>1. s = f /\ (f <= c - 1 => e >= f)
      BY <1>7, <2>2 DEF Current
    <3>2. ~(f <= c - 1)
      BY <1>11, <1>12, <3>1
    <3>3. Len(p) = 0
      BY <1>2, <1>5, <1>11, <3>2
    <3> QED
      BY <1>5, <3>3, EmptySeq
  <2> QED
    BY <2>1, <2>2
<1>13. ASSUME ~(e < s)
       PROVE  p \notin {<< >>, <<"*">>}
  <2>1. CASE b
    <3>1. e = c - 1 /\ s = f + 1
      BY <1>7, <2>1 DEF Current
    <3>2. Len(p) >= 2
      BY <1>2, <1>5, <1>11, <1>13, <3>1
    <3>3. Len(<< >>) = 0 /\ Len(<<"*">>) = 1
      OBVIOUS
    <3>4. p # << >>
      BY <3>2, <3>3
    <3>5. ASSUME p = <<"*">>
          PROVE  FALSE
      <4>1. Len(p) = 1
        BY <3>3, <3>5, Zenon
      <4> QED
        BY <3>2, <4>1
    <3> QED
      BY <3>4, <3>5
  <2>2. CASE ~b
    <3>1. s = f /\ ~(f <= c - 1 /\ text[f] = "*")
      BY <1>7, <2>2 DEF Current
    <3>2. f <= c - 1
      BY <1>2, <1>8, <1>11, <1>13, <3>1
    <3>3. Len(p) >= 1 /\ p[1] = text[f]
      <4>1. (f - 1) + 1 = f /\ 1 \in 1..((c - 1) - (f - 1)) /\ (c - 1) - (f - 1) >= 1
        BY <1>2, <1>11, <3>2
      <4> QED
        BY <1>5, <4>1
    <3>4. Len(<< >>) = 0 /\ <<"*">>[1] = "*"
      OBVIOUS
    <3>5. p # << >>
      BY <3>3, <3>4
    <3>6. p # <<"*">>
      BY <3>1, <3>2, <3>3, <3>4
    <3> QED
      BY <3>5, <3>6
  <2> QED
    BY <2>1, <2>2
<1> QED
  BY <1>9, <1>10, <1>12, <1>13 DEF p, n

LEMMA OpenedLast ==
    ASSUME NEW text, IsSignature(text), Closing(text) <= Len(text),
           Opened(text, Closing(text) - 1)
    PROVE  Closed(text, Closing(text))
<1> DEFINE c == Closing(text)
           i == c - 1
           P == Separators(text)[i]
           f == LastPlace(text, i) + 1
           r == Turns(text)[c]
<1>1. text \in Seq(TokenKinds) /\ Len(text) \in Nat \ {0} /\ text[1] = "("
  BY DEF IsSignature
<1>2. c \in 2..Len(text) /\ i \in 1..(c - 1) /\ i \in Nat /\ c = i + 1
  BY <1>1, OpenedFirst
<1>3. PICK s, e, a : \E b \in BOOLEAN :
          /\ Turns(text)[i] = Loop(Depth(text, i), s, e, b, a, "none")
          /\ Arguments(text, P, a)
          /\ Current(text, i, f, s, e, b)
  BY DEF Opened
<1>4. PICK b \in BOOLEAN :
          /\ Turns(text)[i] = Loop(Depth(text, i), s, e, b, a, "none")
          /\ Arguments(text, P, a)
          /\ Current(text, i, f, s, e, b)
  BY <1>3
<1>5. Depth(text, i) \in Nat \ {0} /\ Depth(text, c) = 0
  BY <1>1, <1>2, DepthInside, ClosingIs
<1>6. Depth(text, c) = Depth(text, i) + Adds(text[c])
  BY <1>2, DepthNext
<1>7. text[c] = ")" /\ 0 = Nested(Depth(text, i), text[c])
  BY <1>5, <1>6 DEF Nested, Adds
<1>8. r = Turn(text, Loop(Depth(text, i), s, e, b, a, "none"), c)
  BY <1>1, <1>2, <1>4, TurnsStep
<1> DEFINE v == SubSeq(text, s, e)
           p == Append(a, v)
<1>9. r = Loop(0, s, c, b, IF e < s THEN a ELSE p, "closed")
  <2> DEFINE n == Depth(text, i)
             d == 0
  <2>1. d = Nested(n, text[c]) /\ r = Turn(text, Loop(n, s, e, b, a, "none"), c)
    BY <1>7, <1>8
  <2> HIDE DEF n, d, r, p, c
  <2>2. p = Append(a, SubSeq(text, s, e))
    BY DEF p
  <2>3. Turned(text, c, s, e, b, a, d, p, r)
    BY <2>1, <2>2, TurnIs
  <2> QED
    BY <1>7, <2>3 DEF Turned, d
<1>10. /\ e < s <=> Between(text, Left(text)) \in {<< >>, <<"*">>}
       /\ ReadAs(v, Type(Between(text, Left(text))))
       /\ v \in Seq(TokenKinds)
  BY <1>4, LastElement
<1> HIDE DEF v, r, P, f, c
<1>11. /\ Left(text) \in Nat \ {0} /\ Left(text) = Len(P)
       /\ Places(text) = Append(P, c) /\ c \in Nat
  BY <1>2, PlacesAre DEF P, c
<1>12. InOrder(P, i)
  BY <1>1, <1>2, SeparatorsInOrder DEF P, c
<1>13. a \in Seq(Seq(TokenKinds)) /\ Len(a) = Left(text) - 1
  BY <1>4, <1>11 DEF Arguments
<1>14. \A m \in 1..(Left(text) - 1) : ReadAs(a[m], Type(Between(text, m)))
  <2>1. P \in Seq(Nat)
    BY <1>12 DEF InOrder
  <2>2. \A m \in 1..Len(P) : Places(text)[m] = P[m]
    BY <1>11, <2>1, AppendProperties
  <2>3. ASSUME NEW m \in 1..(Left(text) - 1)
        PROVE  ReadAs(a[m], Type(Between(text, m)))
    <3>1. m \in 1..(Len(P) - 1) /\ m \in 1..Len(P) /\ m + 1 \in 1..Len(P)
      BY <1>11
    <3>2. ReadAs(a[m], Type(SubSeq(text, P[m] + 1, P[m + 1] - 1)))
      BY <1>4, <3>1 DEF Arguments
    <3> QED
      BY <2>2, <3>1, <3>2 DEF Between
  <2> QED
    BY <2>3
<1>15. CASE e < s
  <2>1. Len(Elements(text)) = Left(text) - 1
    BY <1>10, <1>15, ElementsAre
  <2>2. ASSUME NEW m \in 1..Len(Elements(text))
        PROVE  ReadAs(a[m], Type(Elements(text)[m]))
    BY <1>14, <2>1, ElementsAre
  <2>3. Final(text, a)
    BY <1>13, <2>1, <2>2 DEF Final
  <2>4. r = Loop(0, s, c, b, a, "closed")
    BY <1>9, <1>15
  <2> QED
    BY <2>3, <2>4 DEF Closed, r, c
<1>16. CASE ~(e < s)
  <2>1. Len(Elements(text)) = Left(text)
    BY <1>10, <1>16, ElementsAre
  <2>2. /\ p \in Seq(Seq(TokenKinds)) /\ Len(p) = (Left(text) - 1) + 1
        /\ p[(Left(text) - 1) + 1] = v
        /\ \A m \in 1..(Left(text) - 1) : p[m] = a[m]
    BY <1>10, <1>13, AppendProperties
  <2> HIDE DEF p
  <2>3. Len(p) = Left(text) /\ p[Left(text)] = v
    BY <1>11, <2>2
  <2>4. ASSUME NEW m \in 1..Len(Elements(text))
        PROVE  ReadAs(p[m], Type(Elements(text)[m]))
    <3>1. Elements(text)[m] = Between(text, m) /\ m \in 1..Left(text)
      BY <2>1, ElementsAre
    <3>2. CASE m = Left(text)
      BY <1>10, <2>3, <3>1, <3>2
    <3>3. CASE m # Left(text)
      <4>1. m \in 1..(Left(text) - 1)
        BY <1>11, <3>1, <3>3
      <4> QED
        BY <1>14, <2>2, <3>1, <4>1
    <3> QED
      BY <3>2, <3>3
  <2>5. Final(text, p)
    BY <2>1, <2>2, <2>3, <2>4 DEF Final
  <2>6. r = Loop(0, s, c, b, p, "closed")
    BY <1>9, <1>16
  <2> QED
    BY <2>5, <2>6 DEF Closed, r, c
<1> QED
  BY <1>15, <1>16

LEMMA LoopExact ==
    ASSUME NEW text, IsSignature(text)
    PROVE  \A i \in 1..Len(text) : \/ i < Closing(text) /\ Opened(text, i)
                                   \/ i >= Closing(text) /\ Closed(text, i)
                                   \/ Rejected(text, i)
<1> DEFINE State(i) == \/ i < Closing(text) /\ Opened(text, i)
                       \/ i >= Closing(text) /\ Closed(text, i)
                       \/ Rejected(text, i)
           S == {k \in Nat : k + 1 <= Len(text) => State(k + 1)}
<1>1. Len(text) \in Nat \ {0} /\ Closing(text) \in 2..(Len(text) + 1) /\ Closing(text) \in Nat
  BY OpenedFirst DEF IsSignature
<1>2. 0 \in S
  <2>1. Opened(text, 0 + 1) /\ 0 + 1 < Closing(text)
    BY <1>1, OpenedFirst
  <2> QED
    BY <2>1
<1>3. ASSUME NEW k \in Nat, k \in S
      PROVE  k + 1 \in S
  <2> DEFINE i == k + 1
  <2> SUFFICES ASSUME i + 1 <= Len(text)
               PROVE  State(i + 1)
    OBVIOUS
  <2>1. i \in Nat \ {0} /\ i \in 1..Len(text) /\ i + 1 \in 2..Len(text) /\ (i + 1) - 1 = i
    BY <1>1
  <2>2. State(i)
    BY <1>1, <1>3, <2>1
  <2> HIDE DEF i, S
  <2>3. Turns(text)[i + 1] = Turn(text, Turns(text)[i], i + 1)
    BY <1>1, <2>1, TurnsStep
  <2>4. CASE i + 1 < Closing(text) /\ Opened(text, i)
    BY <2>1, <2>4, OpenedNext
  <2>5. CASE i + 1 = Closing(text) /\ Opened(text, i)
    <3>1. Closing(text) - 1 = i /\ Closing(text) <= Len(text)
      BY <1>1, <2>1, <2>5
    <3>2. Closed(text, i + 1)
      BY <2>5, <3>1, OpenedLast
    <3> QED
      BY <1>1, <2>5, <3>2
  <2>6. CASE i >= Closing(text) /\ Closed(text, i)
    <3>1. PICK s, b, a : /\ Turns(text)[i] = Loop(0, s, Closing(text), b, a, "closed")
                         /\ Final(text, a)
      BY <2>6 DEF Closed
    <3>2. Turns(text)[i].exit # "none"
      BY <3>1 DEF Loop
    <3>3. Turns(text)[i + 1] = Turns(text)[i]
      BY <2>3, <3>2, TurnEnded
    <3>4. Closed(text, i + 1)
      BY <3>1, <3>3, Zenon DEF Closed
    <3> QED
      BY <1>1, <2>1, <2>6, <3>4
  <2>7. CASE Rejected(text, i)
    <3>1. Turns(text)[i].exit # "none"
      BY <2>7 DEF Rejected
    <3>2. Turns(text)[i + 1] = Turns(text)[i]
      BY <2>3, <3>1, TurnEnded
    <3> QED
      BY <2>7, <3>2 DEF Rejected
  <2>8. i < Closing(text) => i + 1 < Closing(text) \/ i + 1 = Closing(text)
    BY <1>1, <2>1
  <2> QED
    BY <2>2, <2>4, <2>5, <2>6, <2>7, <2>8
<1>4. \A k \in Nat : k \in S
  <2> HIDE DEF S
  <2> QED
    BY <1>2, <1>3, AllNumbers
<1>5. ASSUME NEW i \in 1..Len(text)
      PROVE  State(i)
  <2>1. i - 1 \in Nat /\ (i - 1) + 1 = i /\ i <= Len(text)
    BY <1>1
  <2>2. i - 1 \in S
    BY <1>4, <2>1
  <2> HIDE DEF State
  <2> QED
    BY <2>1, <2>2
<1> QED
  BY <1>5

\* What the comment is taken apart into.
Signature(text) ==
    /\ IsSignature(text)
    /\ Closing(text) < Len(text) /\ text[Closing(text) + 1] = "->"

LEMMA ParsedIs ==
    ASSUME NEW text \in Seq(TokenKinds), text # << >>,
           NEW parsed, parsed = ParseFuncTypeComment(text)
    PROVE  /\ parsed # None =>
                 /\ Signature(text)
                 /\ Final(text, parsed.args)
                 /\ parsed.ret = SubSeq(text, Closing(text) + 2, Len(text))
           /\ Signature(text) /\ parsed = None => \E k \in 2..Len(text) : TwoStars(text, k)
<1> DEFINE n == Len(text)
           loop == Turns(text)[n]
           c == Closing(text)
<1>1. n \in Nat \ {0}
  BY EmptySeq, LenProperties
<1>2. IsSignature(text) <=> text[1] = "("
  BY <1>1 DEF IsSignature
<1>3. parsed = IF text[1] = "(" /\ loop.exit = "closed" /\ loop.end < n /\ text[loop.end + 1] = "->"
               THEN [args |-> loop.args, ret |-> SubSeq(text, loop.end + 2, n)] ELSE None
  BY DEF ParseFuncTypeComment
<1>4. CASE text[1] # "("
  BY <1>2, <1>3, <1>4 DEF Signature
<1>5. CASE text[1] = "(" /\ n < c
  <2>1. Opened(text, n) \/ Rejected(text, n)
    BY <1>1, <1>2, <1>5, LoopExact, ClosingIs
  <2>2. loop.exit # "closed"
    <3>1. CASE Opened(text, n)
      BY <3>1 DEF Opened, Loop
    <3>2. CASE Rejected(text, n)
      BY <3>2 DEF Rejected
    <3> QED
      BY <2>1, <3>1, <3>2
  <2>3. c \in Nat
    BY <1>1, ClosingIs
  <2>4. ~(c < n)
    BY <1>1, <1>5, <2>3
  <2> QED
    BY <1>3, <2>2, <2>4 DEF Signature
<1>6. CASE text[1] = "(" /\ ~(n < c) /\ Rejected(text, n)
  BY <1>3, <1>6 DEF Rejected
<1>7. CASE text[1] = "(" /\ ~(n < c) /\ ~Rejected(text, n)
  <2>1. Closed(text, n)
    <3>1. n \in 1..n /\ IsSignature(text)
      BY <1>1, <1>2, <1>7
    <3> QED
      BY <1>7, <3>1, LoopExact
  <2>2. PICK s, b, a : loop = Loop(0, s, c, b, a, "closed") /\ Final(text, a)
    BY <2>1 DEF Closed
  <2>3. loop.exit = "closed" /\ loop.end = c /\ loop.args = a
    BY <2>2 DEF Loop
  <2> DEFINE ret == SubSeq(text, c + 2, n)
  <2>4. parsed = IF c < n /\ text[c + 1] = "->" THEN [args |-> a, ret |-> ret] ELSE None
    BY <1>3, <1>7, <2>3
  <2> HIDE DEF ret, loop
  <2>5. CASE ~(c < n /\ text[c + 1] = "->")
    BY <2>4, <2>5 DEF Signature
  <2>6. CASE c < n /\ text[c + 1] = "->"
    <3>1. parsed = [args |-> a, ret |-> ret]
      BY <2>4, <2>6
    <3>2. parsed.args = a /\ parsed.ret = ret
      BY <3>1
    <3>3. parsed # None
      <4>1. ret \in Seq(TokenKinds)
        <5>1. c + 2 \in 1..(n + 1) /\ n \in ((c + 2) - 1)..n
          BY <1>1, <2>6, ClosingIs
        <5> QED
          BY <5>1, Piece DEF ret
      <4>2. <<"none">> \notin Seq(TokenKinds)
        <5>1. <<"none">>[1] = "none" /\ 1 \in 1..Len(<<"none">>)
          OBVIOUS
        <5>2. "none" \notin TokenKinds
          BY DEF TokenKinds
        <5> DEFINE word == <<"none">>
        <5>3. word[1] = "none" /\ 1 \in 1..Len(word)
          BY <5>1
        <5> HIDE DEF word
        <5>4. word \notin Seq(TokenKinds)
          BY <5>2, <5>3, ElementOfSeq
        <5> QED
          BY <5>4 DEF word
      <4>3. None.ret = <<"none">>
        BY DEF None
      <4> QED
        BY <3>2, <4>1, <4>2, <4>3
    <3>4. Signature(text)
      BY <1>2, <1>7, <2>6 DEF Signature
    <3> QED
      BY <2>2, <3>2, <3>3, <3>4 DEF ret
  <2> QED
    BY <2>5, <2>6
<1> QED
  BY <1>4, <1>5, <1>6, <1>7

-----------------------------------------------------------------------------
(* Texts that do not parse                                                   *)

IsParse(parse) == parse = [want |-> parse.want, groups |-> parse.groups]
Failed == [want |-> "failed", groups |-> << >>]

LEMMA ParseTokenIs ==
    ASSUME NEW parse, IsParse(parse), NEW token
    PROVE  /\ IsParse(ParseToken(parse, token))
           /\ parse = Failed => ParseToken(parse, token) = Failed
           /\ token = "->" => ParseToken(parse, token) = Failed
           /\ token = "*" => ParseToken(parse, token).want \in {"failed", "operand"}
           /\ token = ")" /\ parse.want \in {"failed", "operand"} =>
                 ParseToken(parse, token) = Failed
<1> DEFINE w == parse.want
           g == parse.groups
<1>1. parse = [want |-> w, groups |-> g]
  BY DEF IsParse
<1> HIDE DEF w, g
<1>2. \A x, y : IsParse([want |-> x, groups |-> y])
  BY DEF IsParse
<1>3. \A x : [parse EXCEPT !.want = x] = [want |-> x, groups |-> g]
  BY <1>1
<1> DEFINE r == ParseToken(parse, token)
<1>4. w = "failed" \/ g = << >> => r = Failed
  BY <1>1 DEF ParseToken, Failed
<1>5. CASE w # "failed" /\ g # << >> /\ token = "("
  <2>1. r = [want |-> "element", groups |-> Append(g, Group(w = "operator"))]
    BY <1>1, <1>5 DEF ParseToken
  <2> HIDE DEF r
  <2>2. IsParse(r)
    BY <1>2, <2>1
  <2> QED
    BY <1>1, <1>5, <2>2 DEF r, Failed
<1>6. CASE w # "failed" /\ g # << >> /\ token \in {"x", "..."}
  <2>1. r \in {[want |-> "operator", groups |-> g], Failed}
    BY <1>1, <1>3, <1>6 DEF ParseToken, Failed
  <2> HIDE DEF r
  <2>2. IsParse(r)
    BY <1>2, <2>1 DEF Failed
  <2> QED
    BY <1>1, <1>6, <2>2 DEF r, Failed
<1>7. CASE w # "failed" /\ g # << >> /\ token = "*"
  <2>1. \/ r = [want |-> "operand", groups |-> g]
        \/ r = [want |-> "operand", groups |-> [g EXCEPT ![Len(g)].starred = TRUE]]
        \/ r = Failed
    BY <1>1, <1>3, <1>7 DEF ParseToken, Failed
  <2> HIDE DEF r
  <2>2. IsParse(r) /\ r.want \in {"failed", "operand"}
    BY <1>2, <2>1 DEF Failed
  <2> QED
    BY <1>1, <1>7, <2>2 DEF r, Failed
<1>8. CASE w # "failed" /\ g # << >> /\ token = ","
  <2>1. \/ r = [want |-> "element", groups |-> [g EXCEPT ![Len(g)].commas = TRUE]]
        \/ r = Failed
    BY <1>1, <1>8 DEF ParseToken, Failed
  <2> HIDE DEF r
  <2>2. IsParse(r)
    BY <1>2, <2>1 DEF Failed
  <2> QED
    BY <1>1, <1>8, <2>2 DEF r, Failed
<1>9. CASE w # "failed" /\ g # << >> /\ token = ")"
  <2>1. r \in {[want |-> "operator", groups |-> Front(g)], Failed}
    BY <1>1, <1>9 DEF ParseToken, Failed
  <2>2. w = "operand" => r = Failed
    BY <1>1, <1>9 DEF ParseToken, Failed
  <2> HIDE DEF r
  <2>3. IsParse(r)
    BY <1>2, <2>1 DEF Failed
  <2> QED
    BY <1>1, <1>9, <2>2, <2>3 DEF r, Failed
<1>10. CASE w # "failed" /\ g # << >> /\ token \notin {"(", "x", "...", "*", ",", ")"}
  <2>1. r = Failed
    BY <1>1, <1>10 DEF ParseToken, Failed
  <2> HIDE DEF r
  <2>2. IsParse(r)
    BY <1>2, <2>1 DEF Failed
  <2> QED
    BY <1>1, <1>10, <2>1, <2>2 DEF r, Failed
<1>11. CASE w = "failed" \/ g = << >>
  <2>1. r = Failed
    BY <1>4, <1>11
  <2> HIDE DEF r
  <2>2. IsParse(r) /\ r.want = "failed"
    BY <1>2, <2>1 DEF Failed
  <2> QED
    BY <2>1, <2>2 DEF r
<1> QED
  BY <1>5, <1>6, <1>7, <1>8, <1>9, <1>10, <1>11

LEMMA ParsingIsParse ==
    ASSUME NEW text, Len(text) \in Nat
    PROVE  \A i \in 0..Len(text) : IsParse(Parsing(text)[i])
<1> DEFINE S == {k \in Nat : k <= Len(text) => IsParse(Parsing(text)[k])}
<1>1. 0 \in S
  <2>1. Parsing(text)[0] = [want |-> "element", groups |-> <<Group(FALSE)>>]
    BY ParsingStep
  <2>2. IsParse(Parsing(text)[0])
    BY <2>1 DEF IsParse
  <2> QED
    BY <2>2
<1>2. ASSUME NEW k \in Nat, k \in S
      PROVE  k + 1 \in S
  <2> SUFFICES ASSUME k + 1 <= Len(text)
               PROVE  IsParse(Parsing(text)[k + 1])
    OBVIOUS
  <2>1. IsParse(Parsing(text)[k]) /\ k + 1 \in 1..Len(text) /\ (k + 1) - 1 = k
    BY <1>2
  <2>2. Parsing(text)[k + 1] = ParseToken(Parsing(text)[k], text[k + 1])
    BY <2>1, ParsingStep
  <2> QED
    BY <2>1, <2>2, ParseTokenIs
<1>3. \A k \in Nat : k \in S
  <2> HIDE DEF S
  <2> QED
    BY <1>1, <1>2, AllNumbers
<1> QED
  BY <1>3

LEMMA ArrowFails ==
    ASSUME NEW text, Len(text) \in Nat, NEW i \in 1..Len(text), text[i] = "->"
    PROVE  ~Parses(text)
<1> DEFINE S == {k \in Nat : i + k <= Len(text) => Parsing(text)[i + k] = Failed}
<1>1. 0 \in S
  <2>1. Parsing(text)[i] = ParseToken(Parsing(text)[i - 1], text[i]) /\ i - 1 \in 0..Len(text)
    BY ParsingStep
  <2>2. IsParse(Parsing(text)[i - 1])
    BY <2>1, ParsingIsParse
  <2>3. Parsing(text)[i] = Failed
    BY <2>1, <2>2, ParseTokenIs
  <2> QED
    BY <2>3
<1>2. ASSUME NEW k \in Nat, k \in S
      PROVE  k + 1 \in S
  <2> SUFFICES ASSUME i + (k + 1) <= Len(text)
               PROVE  Parsing(text)[i + (k + 1)] = Failed
    OBVIOUS
  <2> DEFINE j == i + (k + 1)
  <2>1. j \in 1..Len(text) /\ j - 1 = i + k /\ i + k <= Len(text) /\ j - 1 \in 0..Len(text)
    OBVIOUS
  <2>2. Parsing(text)[j - 1] = Failed
    BY <1>2, <2>1
  <2> HIDE DEF j
  <2>3. Parsing(text)[j] = ParseToken(Parsing(text)[j - 1], text[j])
    BY <2>1, ParsingStep
  <2>4. Parsing(text)[j] = Failed
    BY <2>1, <2>2, <2>3, ParsingIsParse, ParseTokenIs
  <2> QED
    BY <2>4 DEF j
<1>3. \A k \in Nat : k \in S
  <2> HIDE DEF S
  <2> QED
    BY <1>1, <1>2, AllNumbers
<1>4. Len(text) - i \in Nat /\ i + (Len(text) - i) = Len(text)
  OBVIOUS
<1>5. Parsing(text)[Len(text)] = Failed
  BY <1>3, <1>4
<1>6. ParseToken(Failed, ")") = Failed
  <2>1. IsParse(Failed)
    BY DEF IsParse, Failed
  <2> QED
    BY <2>1, ParseTokenIs
<1>7. ParseToken(Parsing(text)[Len(text)], ")").want = "failed"
  BY <1>5, <1>6 DEF Failed
<1> QED
  BY <1>7 DEF Parses

LEMMA StarFails ==
    ASSUME NEW text, Len(text) \in Nat \ {0}, text[Len(text)] = "*"
    PROVE  ~Parses(text)
<1> DEFINE n == Len(text)
           parse == Parsing(text)[n]
<1>1. n \in 1..n /\ n - 1 \in 0..n /\ n \in 0..n
  OBVIOUS
<1>2. parse = ParseToken(Parsing(text)[n - 1], "*")
  BY <1>1, ParsingStep
<1>3. IsParse(Parsing(text)[n - 1]) /\ IsParse(parse)
  BY <1>1, ParsingIsParse
<1>4. parse.want \in {"failed", "operand"}
  BY <1>2, <1>3, ParseTokenIs
<1> HIDE DEF parse, n
<1>5. ParseToken(parse, ")") = Failed
  BY <1>3, <1>4, ParseTokenIs
<1>6. ParseToken(parse, ")").want = "failed"
  BY <1>5 DEF Failed
<1> QED
  BY <1>6 DEF Parses, parse, n

\* A type that parses has no star at its end to drop.
LEMMA ReadWhole ==
    ASSUME NEW S, NEW arg \in Seq(S), NEW type, ReadAs(arg, type), Parses(type)
    PROVE  arg = type
<1>1. PICK stars \in 0..Len(type) : arg \o [i \in 1..stars |-> "*"] = type
  BY DEF ReadAs
<1> DEFINE s == [i \in 1..stars |-> "*"]
           X == S \cup {"*"}
<1>2. CASE stars \in Nat
  <2>1. s \in Seq(X) /\ Len(s) = stars /\ \A i \in 1..stars : s[i] = "*"
    BY <1>2
  <2>2. arg \in Seq(X)
    BY SeqMonotonic
  <2> HIDE DEF s, X
  <2>3. /\ arg \o s \in Seq(X) /\ Len(arg \o s) = Len(arg) + stars
        /\ \A i \in 1..Len(arg) + stars :
              (arg \o s)[i] = IF i <= Len(arg) THEN arg[i] ELSE s[i - Len(arg)]
    BY <2>1, <2>2, ConcatProperties
  <2>4. CASE stars = 0
    <3>1. s = << >>
      BY <2>1, <2>4, EmptySeq
    <3> QED
      BY <1>1, <2>2, <3>1, ConcatEmptySeq DEF s
  <2>5. CASE stars # 0
    <3>1. Len(arg) \in Nat
      BY LenProperties
    <3>2. Len(type) = Len(arg) + stars
      BY <1>1, <2>3 DEF s
    <3>3. Len(type) \in 1..Len(arg) + stars /\ ~(Len(type) <= Len(arg))
          /\ Len(type) - Len(arg) = stars /\ stars \in 1..stars
      BY <1>2, <2>5, <3>1, <3>2
    <3>4. type[Len(type)] = "*"
      <4>1. (arg \o s)[Len(type)] = s[Len(type) - Len(arg)]
        BY <2>3, <3>3
      <4>2. s[Len(type) - Len(arg)] = "*"
        BY <2>1, <3>3
      <4> QED
        BY <1>1, <4>1, <4>2 DEF s
    <3>5. Len(type) \in Nat \ {0}
      BY <1>2, <2>5, <3>1, <3>2
    <3> QED
      BY <3>4, <3>5, StarFails
  <2> QED
    BY <2>4, <2>5
<1> QED
  BY <1>2

-----------------------------------------------------------------------------
(* Every signature is recognized.                                            *)

\* In a piece of a text the depth counts from its start.
LEMMA DepthShift ==
    ASSUME NEW text, NEW piece, NEW a \in Nat, NEW n \in Nat,
           \A i \in 1..n : piece[i] = text[a + i]
    PROVE  \A i \in 0..n : Depth(piece, i) = Depth(text, a + i) - Depth(text, a)
<1> DEFINE S == {k \in Nat : k <= n => Depth(piece, k) = Depth(text, a + k) - Depth(text, a)}
<1>1. 0 \in S
  <2>1. Depth(piece, 0) = 0 /\ Depth(text, a) \in Int
    BY DepthNext
  <2> QED
    BY <2>1
<1>2. ASSUME NEW k \in Nat, k \in S
      PROVE  k + 1 \in S
  <2> SUFFICES ASSUME k + 1 <= n
               PROVE  Depth(piece, k + 1) = Depth(text, a + (k + 1)) - Depth(text, a)
    OBVIOUS
  <2> DEFINE j == a + k
  <2>1. j \in Nat /\ k + 1 \in 1..n /\ a + (k + 1) = j + 1
    OBVIOUS
  <2>2. Depth(piece, k) = Depth(text, j) - Depth(text, a)
    BY <1>2
  <2>3. piece[k + 1] = text[j + 1]
    BY <2>1
  <2> HIDE DEF j, S
  <2>4. Depth(piece, k + 1) = Depth(piece, k) + Adds(piece[k + 1])
    BY DepthNext
  <2>5. Depth(text, j + 1) = Depth(text, j) + Adds(text[j + 1]) /\ Depth(text, j) \in Int
        /\ Depth(text, a) \in Int
    BY <2>1, DepthNext
  <2>6. Adds(text[j + 1]) \in Int
    BY DEF Adds
  <2> QED
    BY <2>1, <2>2, <2>3, <2>4, <2>5, <2>6
<1>3. \A k \in Nat : k \in S
  <2> HIDE DEF S
  <2> QED
    BY <1>1, <1>2, AllNumbers
<1> QED
  BY <1>3

\* An argument starts where no bracket but the first is open.
LEMMA PlaceDepth ==
    ASSUME NEW text, IsSignature(text)
    PROVE  \A i \in 1..(Closing(text) - 1) : Depth(text, LastPlace(text, i)) = 1
<1> DEFINE c == Closing(text)
           S == {k \in Nat : k + 1 <= c - 1 => Depth(text, LastPlace(text, k + 1)) = 1}
<1>1. Len(text) \in Nat \ {0} /\ c \in 2..(Len(text) + 1) /\ c \in Nat
  BY OpenedFirst DEF IsSignature
<1>2. 0 \in S
  <2>1. Depth(text, LastPlace(text, 1)) = 1
    BY OpenedFirst DEF Opened
  <2> QED
    BY <2>1
<1>3. ASSUME NEW k \in Nat, k \in S
      PROVE  k + 1 \in S
  <2> DEFINE i == k + 1
  <2> SUFFICES ASSUME i + 1 <= c - 1
               PROVE  Depth(text, LastPlace(text, i + 1)) = 1
    OBVIOUS
  <2>1. i \in Nat /\ i \in 1..c /\ i + 1 \in 2..c /\ i + 1 # c /\ (i + 1) - 1 = i /\ i <= c - 1
    BY <1>1
  <2>2. Depth(text, LastPlace(text, i)) = 1
    BY <1>3, <2>1
  <2> HIDE DEF i, S
  <2>3. Separators(text)[i + 1] = IF i + 1 = c \/ IsComma(text, i + 1)
                                  THEN Append(Separators(text)[i], i + 1) ELSE Separators(text)[i]
    BY <1>1, <2>1, SeparatorsStep
  <2> DEFINE P == Separators(text)[i]
  <2>4. InOrder(P, i)
    BY <1>1, <2>1, SeparatorsInOrder
  <2>5. P \in Seq(Nat)
    BY <2>4 DEF InOrder
  <2> HIDE DEF P, c
  <2>6. CASE IsComma(text, i + 1)
    <3>1. Separators(text)[i + 1] = Append(P, i + 1)
      BY <2>3, <2>6 DEF P
    <3> DEFINE Q == Append(P, i + 1)
    <3>2. Q[Len(Q)] = i + 1
      BY <2>1, <2>5, AppendProperties
    <3>3. LastPlace(text, i + 1) = i + 1
      BY <3>1, <3>2 DEF LastPlace
    <3> QED
      BY <2>6, <3>3 DEF IsComma
  <2>7. CASE ~IsComma(text, i + 1)
    <3>1. Separators(text)[i + 1] = Separators(text)[i]
      BY <2>1, <2>3, <2>7
    <3> QED
      BY <2>2, <3>1 DEF LastPlace
  <2> QED
    BY <2>6, <2>7
<1>4. \A k \in Nat : k \in S
  <2> HIDE DEF S
  <2> QED
    BY <1>2, <1>3, AllNumbers
<1>5. ASSUME NEW i \in 1..(c - 1)
      PROVE  Depth(text, LastPlace(text, i)) = 1
  <2>1. i - 1 \in Nat /\ (i - 1) + 1 = i /\ i <= c - 1
    BY <1>1
  <2>2. i - 1 \in S
    BY <1>4, <2>1
  <2> QED
    BY <2>1, <2>2
<1> QED
  BY <1>5

\* What is rejected for its stars has an argument with two.
LEMMA TwoStarsElement ==
    ASSUME NEW text, IsSignature(text), NEW k \in 2..Len(text), TwoStars(text, k)
    PROVE  ~OneStar(text)
<1> DEFINE c == Closing(text)
           P == Separators(text)[k]
           m == Len(P)
           p == LastPlace(text, k)
<1>1. Len(text) \in Nat /\ c \in Nat /\ k \in Nat /\ k \in 1..c /\ k < c /\ k \in 1..(c - 1)
  BY OpenedFirst DEF IsSignature, TwoStars
<1>2. /\ text[k] = "*" /\ Depth(text, k) = 1 /\ p + 1 < k /\ text[p + 1] = "*"
  BY DEF TwoStars
<1>3. InOrder(P, k) /\ Continues(Places(text), P, k)
  BY <1>1, SeparatorsInOrder, SeparatorsContinue DEF Places
<1>4. m \in Nat \ {0} /\ m \in 1..Len(P) /\ p = P[m] /\ p \in 1..k
  <2>1. m \in Nat \ {0} /\ p = P[m]
    BY <1>3 DEF InOrder, LastPlace
  <2>2. m \in 1..m
    BY <2>1
  <2> QED
    BY <1>3, <2>1, <2>2 DEF InOrder
<1> HIDE DEF c, m, p
<1>5. /\ Places(text)[m] = p /\ m <= Len(Places(text))
      /\ \A q \in (m + 1)..Len(Places(text)) : Places(text)[q] > k
  BY <1>3, <1>4 DEF Continues, m
<1>6. Left(text) \in Nat \ {0} /\ Len(Places(text)) = Left(text) + 1
      /\ Places(text)[Left(text) + 1] = c
  <2>1. Left(text) \in Nat \ {0} /\ Places(text)[Left(text) + 1] = c
    BY PlacesAre DEF c
  <2>2. Len(Places(text)) \in Nat
    BY PlacesAre DEF InOrder
  <2> QED
    BY <2>1, <2>2 DEF Left
<1>7. m \in 1..Left(text) /\ m + 1 \in (m + 1)..Len(Places(text))
  <2>1. m # Left(text) + 1
    BY <1>1, <1>2, <1>4, <1>5, <1>6
  <2> QED
    BY <1>4, <1>5, <1>6, <2>1
<1> DEFINE q == Places(text)[m + 1]
           el == Between(text, m)
<1>8. q > k /\ q \in Nat
  BY <1>5, <1>7, BetweenPlaces
<1>9. Len(el) = (q - 1) - p /\ \A i \in 1..((q - 1) - p) : el[i] = text[p + i]
  BY <1>5, <1>7, BetweenPlaces, SMTT(60)
<1> HIDE DEF q, el
<1>10. 1 \in 1..((q - 1) - p) /\ k - p \in 2..((q - 1) - p) /\ p + (k - p) = k /\ p \in Nat
       /\ (q - 1) - p \in Nat
  <2>1. p \in Nat /\ k \in Nat /\ q \in Nat /\ p + 1 < k /\ q > k
    BY <1>1, <1>2, <1>4, <1>8
  <2> QED
    BY <2>1
<1>11. Len(el) >= 2 /\ el # << >> /\ el # <<"*">>
  <2>1. Len(el) >= 2
    BY <1>9, <1>10
  <2> DEFINE star == <<"*">>
  <2>2. Len(<< >>) = 0 /\ Len(star) = 1
    OBVIOUS
  <2>3. ~(0 >= 2) /\ ~(1 >= 2)
    OBVIOUS
  <2> HIDE DEF star
  <2>4. el # << >> /\ el # star
    BY <2>1, <2>2, <2>3, Zenon
  <2> QED
    BY <2>1, <2>4 DEF star
<1>12. m \in 1..Len(Elements(text)) /\ Elements(text)[m] = el
  <2>1. Len(Elements(text)) = IF Between(text, Left(text)) \in {<< >>, <<"*">>}
                              THEN Left(text) - 1 ELSE Left(text)
    BY ElementsAre
  <2>2. m \in 1..Len(Elements(text))
    <3>1. CASE m = Left(text)
      <4>1. Between(text, Left(text)) \notin {<< >>, <<"*">>}
        BY <1>11, <3>1 DEF el
      <4> QED
        BY <1>7, <2>1, <4>1
    <3>2. CASE m # Left(text)
      BY <1>6, <1>7, <2>1, <3>2
    <3> QED
      BY <3>1, <3>2
  <2> QED
    BY <2>2, ElementsAre DEF el
<1>13. Starred(el)
  <2> DEFINE a == p + 1
             b == q - 1
             s == a + 1
  <2>1. a \in 1..(Len(text) + 1) /\ b \in (a - 1)..Len(text) /\ a <= b
    <3>1. /\ Places(text)[m] + 1 \in 1..(Len(text) + 1)
          /\ Places(text)[m + 1] - 1 \in Places(text)[m]..Len(text)
      BY <1>7, BetweenPlaces
    <3>2. p \in Nat /\ k \in Nat /\ q \in Nat /\ p + 1 < k /\ q > k /\ (p + 1) - 1 = p
      BY <1>1, <1>2, <1>8, <1>10
    <3> QED
      BY <1>5, <3>1, <3>2 DEF q
  <2>2. text \in Seq(TokenKinds) /\ text[a] = "*"
    BY <1>2 DEF IsSignature
  <2>3. IF a <= b /\ text[a] = "*" THEN s = a + 1 ELSE s = a
    BY <2>1, <2>2
  <2>4. el = SubSeq(text, a, b)
    BY <1>5 DEF el, q, Between
  <2> HIDE DEF a, b, s
  <2> QED
    BY <2>1, <2>2, <2>3, <2>4, TypeOfPiece
<1>14. el[k - p] = "*" /\ k - p \in 2..Len(el)
  <2>1. k - p \in 1..((q - 1) - p)
    BY <1>10
  <2>2. el[k - p] = text[p + (k - p)]
    BY <1>9, <2>1
  <2> QED
    BY <1>2, <1>9, <1>10, <2>2
<1>15. Depth(el, k - p) = 0
  <2>1. Depth(text, p) = 1
    BY <1>1, PlaceDepth DEF c, p
  <2>2. \A i \in 0..((q - 1) - p) : Depth(el, i) = Depth(text, p + i) - Depth(text, p)
    BY <1>9, <1>10, DepthShift
  <2>3. k - p \in 0..((q - 1) - p)
    BY <1>10
  <2>4. Depth(el, k - p) = Depth(text, p + (k - p)) - Depth(text, p)
    BY <2>2, <2>3
  <2> QED
    BY <1>2, <1>10, <2>1, <2>4
<1>16. ~(el[k - p] # "*" \/ Depth(el, k - p) > 0)
  BY <1>14, <1>15
<1> QED
  BY <1>12, <1>13, <1>14, <1>16 DEF OneStar

LEMMA ParsedComment ==
    ASSUME NEW text \in Seq(TokenKinds), NEW parsed, parsed = ParsedTypeComment(text)
    PROVE  /\ parsed.kind \in {"none", "regular", "function", "invalid"}
           /\ parsed.kind = "function" <=>
                 /\ text # << >> /\ ~Parses(text)
                 /\ ParseFuncTypeComment(text) # None
                 /\ \A i \in 1..Len(ParseFuncTypeComment(text).args) :
                       Parses(ParseFuncTypeComment(text).args[i])
                 /\ Parses(ParseFuncTypeComment(text).ret)
           /\ parsed.kind = "function" => parsed.args = ParseFuncTypeComment(text).args
<1> DEFINE of(kind, args) == [kind |-> kind, args |-> args]
           taken == ParseFuncTypeComment(text)
           good == /\ \A i \in 1..Len(taken.args) : Parses(taken.args[i])
                   /\ Parses(taken.ret)
           whole == Parses(text)
<1>1. parsed = CASE text = << >> -> of("none", << >>)
                 [] text # << >> /\ whole -> of("regular", << >>)
                 [] text # << >> /\ ~whole /\ taken # None /\ good -> of("function", taken.args)
                 [] OTHER -> of("invalid", << >>)
  BY DEF ParsedTypeComment, NoComment
<1> HIDE DEF taken, good, whole
<1>2. CASE text = << >>
  BY <1>1, <1>2
<1>3. CASE text # << >> /\ whole
  BY <1>1, <1>3 DEF whole
<1>4. CASE text # << >> /\ ~whole /\ taken # None /\ good
  <2>1. parsed = [kind |-> "function", args |-> taken.args]
    BY <1>1, <1>4
  <2>2. parsed.kind = "function" /\ parsed.args = taken.args
    BY <2>1
  <2> QED
    BY <1>4, <2>2 DEF taken, good, whole
<1>5. CASE text # << >> /\ ~whole /\ ~(taken # None /\ good)
  <2>1. parsed = [kind |-> "invalid", args |-> << >>]
    BY <1>1, <1>5
  <2>2. parsed.kind = "invalid"
    BY <2>1
  <2> QED
    BY <1>5, <2>2 DEF taken, good, whole
<1> QED
  BY <1>2, <1>3, <1>4, <1>5

\* What the arguments of a function's comment are.
LEMMA FunctionArguments ==
    ASSUME NEW text \in Seq(TokenKinds), NEW parsed, parsed = ParsedTypeComment(text),
           parsed.kind = "function"
    PROVE  /\ Signature(text) /\ Final(text, parsed.args)
           /\ \A i \in 1..Len(parsed.args) : Parses(parsed.args[i])
<1> DEFINE taken == ParseFuncTypeComment(text)
<1>1. text # << >> /\ taken # None /\ parsed.args = taken.args
      /\ \A i \in 1..Len(taken.args) : Parses(taken.args[i])
  BY ParsedComment
<1> HIDE DEF taken
<1>2. Signature(text) /\ Final(text, taken.args)
  BY <1>1, ParsedIs DEF taken
<1> QED
  BY <1>1, <1>2

LEMMA ReadRightAlways ==
    ASSUME NEW text \in Seq(TokenKinds), text # << >>
    PROVE  ReadRight(text, ParsedTypeComment(text))
<1> DEFINE parsed == ParsedTypeComment(text)
           taken == ParseFuncTypeComment(text)
<1>1. Len(text) \in Nat \ {0}
  BY EmptySeq, LenProperties
<1>2. ASSUME parsed.kind = "function"
      PROVE  /\ Closing(text) < Len(text) /\ text[Closing(text) + 1] = "->"
             /\ Len(parsed.args) = Len(Elements(text))
             /\ \A n \in 1..Len(Elements(text)) : ReadAs(parsed.args[n], Type(Elements(text)[n]))
  <2> HIDE DEF parsed
  <2>1. Signature(text) /\ Final(text, parsed.args)
    BY <1>2, FunctionArguments DEF parsed
  <2> QED
    BY <2>1 DEF Signature, Final
<1>3. ASSUME WellFormed(text), OneStar(text)
      PROVE  parsed.kind = "function"
  <2>1. Signature(text) /\ IsSignature(text)
    BY <1>1, <1>3 DEF WellFormed, Signature, IsSignature
  <2>2. Closing(text) + 1 \in 1..Len(text) /\ text[Closing(text) + 1] = "->"
    BY <1>1, <2>1, ClosingIs DEF Signature
  <2>3. ~Parses(text)
    BY <1>1, <2>2, ArrowFails
  <2> HIDE DEF taken
  <2>4. taken # None
    <3>1. ASSUME taken = None
          PROVE  FALSE
      <4>1. \E k \in 2..Len(text) : TwoStars(text, k)
        BY <2>1, <3>1, ParsedIs DEF taken
      <4>2. PICK k \in 2..Len(text) : TwoStars(text, k)
        BY <4>1
      <4> QED
        BY <1>3, <2>1, <4>2, TwoStarsElement
    <3> QED
      BY <3>1
  <2>5. /\ Final(text, taken.args)
        /\ taken.ret = SubSeq(text, Closing(text) + 2, Len(text))
    BY <2>4, ParsedIs DEF taken
  <2>6. \A n \in 1..Len(Elements(text)) : Parses(Type(Elements(text)[n]))
    BY <1>3 DEF WellFormed, IsType
  <2>7. Parses(SubSeq(text, Closing(text) + 2, Len(text)))
    BY <1>3 DEF WellFormed, IsType
  <2>8. Parses(taken.ret)
    BY <2>5, <2>7
  <2>9. ASSUME NEW i \in 1..Len(taken.args)
        PROVE  Parses(taken.args[i])
    <3> DEFINE type == Type(Elements(text)[i])
    <3>1. i \in 1..Len(Elements(text)) /\ taken.args \in Seq(Seq(TokenKinds))
      BY <2>5, <2>9 DEF Final
    <3>2. ReadAs(taken.args[i], type) /\ Parses(type)
      BY <2>5, <2>6, <3>1 DEF Final
    <3>3. taken.args[i] \in Seq(TokenKinds)
      BY <2>9, <3>1, ElementOfSeq
    <3> HIDE DEF type
    <3>4. taken.args[i] = type
      BY <3>2, <3>3, ReadWhole
    <3> QED
      BY <3>2, <3>4
  <2> QED
    BY <1>3, <2>3, <2>4, <2>8, <2>9, ParsedComment, <1>1 DEF taken
<1> QED
  BY <1>2, <1>3 DEF ReadRight

-----------------------------------------------------------------------------
(* An ellipsis is one with or without stars at its end.                      *)

LEMMA ReadAsIs ==
    ASSUME NEW S, NEW arg \in Seq(S), NEW type \in Seq(S), ReadAs(arg, type)
    PROVE  /\ Len(arg) <= Len(type)
           /\ \A i \in 1..Len(arg) : type[i] = arg[i]
           /\ \A i \in (Len(arg) + 1)..Len(type) : type[i] = "*"
<1>1. PICK stars \in 0..Len(type) : arg \o [i \in 1..stars |-> "*"] = type
  BY DEF ReadAs
<1> DEFINE s == [i \in 1..stars |-> "*"]
           X == S \cup {"*"}
<1>2. Len(arg) \in Nat /\ Len(type) \in Nat
  BY LenProperties
<1>3. stars \in Nat
  BY <1>1, <1>2
<1>4. s \in Seq(X) /\ Len(s) = stars /\ \A i \in 1..stars : s[i] = "*"
  BY <1>3
<1>5. arg \in Seq(X)
  BY SeqMonotonic
<1>6. arg \o s = type
  BY <1>1
<1> HIDE DEF s, X
<1>7. /\ Len(arg \o s) = Len(arg) + stars
      /\ \A i \in 1..Len(arg) + stars :
            (arg \o s)[i] = IF i <= Len(arg) THEN arg[i] ELSE s[i - Len(arg)]
  BY <1>4, <1>5, ConcatProperties
<1>8. /\ Len(type) = Len(arg) + stars
      /\ \A i \in 1..Len(arg) + stars :
            type[i] = IF i <= Len(arg) THEN arg[i] ELSE s[i - Len(arg)]
  BY <1>6, <1>7
<1>9. ASSUME NEW i \in (Len(arg) + 1)..Len(type)
      PROVE  type[i] = "*"
  <2>1. i \in 1..Len(arg) + stars /\ ~(i <= Len(arg)) /\ i - Len(arg) \in 1..stars
    BY <1>2, <1>3, <1>8
  <2> QED
    BY <1>4, <1>8, <2>1
<1>10. \A i \in 1..Len(arg) : type[i] = arg[i]
  BY <1>2, <1>3, <1>8
<1>11. Len(arg) <= Len(type)
  BY <1>2, <1>3, <1>8
<1> QED
  BY <1>9, <1>10, <1>11

LEMMA EllipsisEnd ==
    ASSUME NEW text, Len(text) \in Nat, IsEllipsis(text)
    PROVE  Len(text) >= 1 /\ text[Len(text)] # "*"
<1>1. PICK n \in 0..Len(text) :
          /\ Len(text) = 2 * n + 1 /\ text[n + 1] = "..."
          /\ \A i \in 1..n : text[i] = "(" /\ text[2 * n + 2 - i] = ")"
  BY DEF IsEllipsis
<1>2. CASE n = 0
  BY <1>1, <1>2
<1>3. CASE n # 0
  <2>1. 1 \in 1..n /\ 2 * n + 2 - 1 = Len(text)
    BY <1>1, <1>3
  <2>2. text[2 * n + 2 - 1] = ")"
    BY <1>1, <2>1
  <2> QED
    BY <1>1, <2>1, <2>2
<1> QED
  BY <1>2, <1>3

LEMMA EllipsisIs ==
    ASSUME NEW arg \in Seq(TokenKinds), NEW type \in Seq(TokenKinds),
           ReadAs(arg, type), Parses(arg)
    PROVE  Ellipsis(type) <=> IsEllipsis(arg)
<1> DEFINE k == Len(arg)
           m == Len(type)
<1>1. k \in Nat /\ m \in Nat
  BY LenProperties
<1>2. /\ k <= m /\ \A i \in 1..k : type[i] = arg[i]
      /\ \A i \in (k + 1)..m : type[i] = "*"
  BY ReadAsIs
<1>3. ASSUME NEW n \in 1..m
      PROVE  /\ SubSeq(type, 1, n) \in Seq(TokenKinds)
             /\ Len(SubSeq(type, 1, n)) = n
             /\ \A i \in 1..n : SubSeq(type, 1, n)[i] = type[i]
  <2> DEFINE u == SubSeq(type, 1, n)
  <2>1. 1 \in 1..(m + 1) /\ n \in (1 - 1)..m
    BY <1>1
  <2>2. u \in Seq(TokenKinds) /\ Len(u) = (n - 1) + 1
        /\ \A i \in 1..((n - 1) + 1) : u[i] = type[(1 + i) - 1]
    BY <2>1, Piece
  <2>3. (n - 1) + 1 = n /\ \A i \in 1..n : (1 + i) - 1 = i
    BY <1>1
  <2> HIDE DEF u
  <2>4. u \in Seq(TokenKinds) /\ Len(u) = n /\ \A i \in 1..n : u[i] = type[i]
    BY <2>2, <2>3
  <2> QED
    BY <2>4 DEF u
<1>4. ASSUME NEW n \in 1..m, n = k
      PROVE  SubSeq(type, 1, n) = arg
  <2> DEFINE u == SubSeq(type, 1, n)
  <2>1. u \in Seq(TokenKinds) /\ Len(u) = k /\ \A i \in 1..k : u[i] = type[i]
    BY <1>3, <1>4
  <2> HIDE DEF u
  <2>2. \A i \in 1..k : u[i] = arg[i]
    BY <1>2, <2>1
  <2>3. u = arg
    BY <2>1, <2>2, SeqEqual
  <2> QED
    BY <2>3 DEF u
<1>5. ASSUME Ellipsis(type)
      PROVE  IsEllipsis(arg)
  <2>1. PICK n \in 1..m : IsEllipsis(SubSeq(type, 1, n)) /\ ReadAs(SubSeq(type, 1, n), type)
    BY <1>5 DEF Ellipsis
  <2> DEFINE u == SubSeq(type, 1, n)
  <2>2. u \in Seq(TokenKinds) /\ Len(u) = n /\ \A i \in 1..n : u[i] = type[i]
    BY <1>3
  <2>3. IsEllipsis(u) /\ ReadAs(u, type)
    BY <2>1
  <2> HIDE DEF u
  <2>4. u[n] # "*"
    BY <1>1, <2>2, <2>3, EllipsisEnd
  <2>5. \A i \in (n + 1)..m : type[i] = "*"
    BY <2>2, <2>3, ReadAsIs
  <2>6. ~(k < n)
    BY <1>1, <1>2, <2>2, <2>4
  <2>7. ~(k > n)
    <3>1. ASSUME k > n
          PROVE  FALSE
      <4>1. k \in (n + 1)..m /\ k \in 1..k /\ k \in Nat \ {0}
        BY <1>1, <1>2, <3>1
      <4>2. arg[k] = "*"
        BY <1>2, <2>5, <4>1
      <4> QED
        BY <4>1, <4>2, StarFails
    <3> QED
      BY <3>1
  <2>8. n = k
    BY <1>1, <2>6, <2>7
  <2> QED
    BY <1>4, <2>3, <2>8 DEF u
<1>6. ASSUME IsEllipsis(arg)
      PROVE  Ellipsis(type)
  <2>1. k >= 1
    BY <1>1, <1>6, EllipsisEnd
  <2>2. k \in 1..m
    BY <1>1, <1>2, <2>1
  <2>3. SubSeq(type, 1, k) = arg
    BY <1>4, <2>2
  <2> HIDE DEF k, m
  <2>4. IsEllipsis(SubSeq(type, 1, k)) /\ ReadAs(SubSeq(type, 1, k), type)
    BY <1>6, <2>3
  <2> QED
    BY <2>2, <2>4 DEF Ellipsis, m
<1> QED
  BY <1>5, <1>6

-----------------------------------------------------------------------------
(* The definition                                                            *)

IsDefinition ==
    /\ func.parameters \in Seq(Parameters)
    /\ func.colon \in 1..MaxLine
    /\ func.comments \in [1..MaxLine -> Seq(TokenKinds)]
    /\ type_comments = [l \in 1..MaxLine |-> ParsedTypeComment(func.comments[l])]
    /\ func.returns \in BOOLEAN
    /\ Empty => ~func.returns

\* The argument of the function's comment that a parameter gets.
Given(i) ==
    LET n == FromFunction(Stated, i)
    IN IF n > 0 THEN type_comments[Decisive].args[n] ELSE NoType

\* The parameters whose own comments are looked at, and those that are written.
Owned == CASE stage = "own" -> idx - 1 [] stage = "scan" -> 0 [] OTHER -> Count
WrittenArguments ==
    CASE stage \in {"scan", "own"} -> 0 [] stage = "arguments" -> idx - 1 [] OTHER -> Count

\* The comments behind the one looked at are not for the function.
Scanning ==
    /\ ~Empty
    /\ line \in func.colon..MaxLine
    /\ \A l \in (line + 1)..MaxLine : type_comments[l].kind \in {"none", "regular"}
    /\ idx = 1 /\ ret_type = NoType /\ errors = << >>
    /\ arg_types = [i \in 1..Count |-> NoType]

\* The type of a parameter, when n own comments are looked at.
ArgType(i, n) ==
    CASE Given(i) # NoType -> Given(i)
      [] Given(i) = NoType /\ FromOwn(i) /\ i <= n -> <<"own", func.parameters[i].line>>
      [] OTHER -> NoType

One(condition) == IF condition THEN 1 ELSE 0

\* How often a message is in a sequence of them.
Times(messages, message) == Cardinality({e \in 1..Len(messages) : messages[e] = message})
Messages == {Duplicate, "too many", "too few", "invalid"}

\* The parameters with a contradiction, up to n.
TwoComments(n) == {i \in 1..n : FromFunction(Stated, i) > 0 /\ FromOwn(i)}
BesideAnnotations(n) ==
    {i \in 1..n : func.parameters[i].annotated /\ (FromFunction(Stated, i) > 0 \/ FromOwn(i))}

TooMany == Counts(Stated) /\ Len(Stated) > Count
TooFew  == Counts(Stated) /\ Len(Stated) < Count /\ ~(in_class /\ Len(Stated) = Count - 1)

\* The subtraction of find_func_type_comment overflows where that is checked.
Overflowed == overflow_checks /\ in_class /\ Count = 0 /\ TooMany

NumberTooMany == IF TooMany THEN 1 ELSE 0
NumberTooFew  == IF TooFew THEN 1 ELSE 0
NumberInvalid == IF Decisive > 0 /\ ~IsFunction THEN 1 ELSE 0
NumberReturns == IF func.returns /\ IsFunction THEN 1 ELSE 0

Errors ==
    /\ errors \in Seq(Messages)
    /\ Times(errors, Duplicate) = Cardinality(TwoComments(Owned))
                               + Cardinality(BesideAnnotations(WrittenArguments))
                               + (IF stage = "done" THEN NumberReturns ELSE 0)
    /\ Times(errors, "too many") = NumberTooMany
    /\ Times(errors, "too few") = NumberTooFew
    /\ Times(errors, "invalid") = NumberInvalid

IsSequence(s) == Len(s) \in Nat /\ s = [i \in 1..Len(s) |-> s[i]]

Written ==
    /\ IsSequence(written)
    /\ Len(written) = IF stage = "done" THEN Count + 1 ELSE WrittenArguments
    /\ \A i \in 1..WrittenArguments :
          written[i].type = IF func.parameters[i].annotated THEN <<"annotation">> ELSE arg_types[i]
    /\ stage = "done" =>
          /\ Last(written).type = IF func.returns THEN <<"annotation">> ELSE ret_type
          /\ Last(written).type_comment <=>
                ret_type # NoType \/ \E i \in 1..Count : arg_types[i] # NoType

Found ==
    /\ ret_type = IF IsFunction THEN <<"return">> ELSE NoType
    /\ Decisive \in 0..MaxLine
    /\ arg_types = [i \in 1..Count |-> ArgType(i, Owned)]
    /\ Errors

SigInv ==
    /\ IsDefinition
    /\ stage \in {"scan", "own", "arguments", "return", "done"}
    /\ idx \in 1..(Count + 1)
    /\ stage = "own" => ~Empty
    /\ stage \in {"return", "done"} => idx = Count + 1
    /\ IF stage = "scan" THEN Scanning ELSE Found
    /\ Written

\* A search that ends has not overflowed.
PanicInv ==
    /\ stage # "panicked" => SigInv
    /\ stage # "scan" => (stage = "panicked" <=> Overflowed)

LEMMA NoTypeIs ==
    /\ NoType \notin Seq(TokenKinds)
    /\ NoType # <<"return">> /\ NoType # <<"annotation">>
    /\ \A l : <<"own", l>> # NoType
<1> DEFINE t == NoType
<1>1. t[1] = "none" /\ Len(t) = 1
  BY DEF NoType
<1>2. \A l : <<"own", l>>[1] = "own"
  OBVIOUS
<1>3. <<"return">>[1] = "return" /\ <<"annotation">>[1] = "annotation"
  OBVIOUS
<1> HIDE DEF t
<1>4. t \notin Seq(TokenKinds)
  <2>1. "none" \notin TokenKinds
    BY DEF TokenKinds
  <2>2. 1 \in 1..Len(t)
    BY <1>1
  <2> QED
    BY <1>1, <2>1, <2>2, ElementOfSeq
<1>5. t # <<"return">> /\ t # <<"annotation">>
  BY <1>1, <1>3
<1>6. \A l : <<"own", l>> # t
  BY <1>1, <1>2
<1> QED
  BY <1>4, <1>5, <1>6 DEF t

LEMMA ElementType ==
    ASSUME NEW text, IsSignature(text), NEW n \in 1..Len(Elements(text))
    PROVE  Type(Elements(text)[n]) \in Seq(TokenKinds)
<1> DEFINE e == Elements(text)[n]
<1>1. n \in 1..Left(text) /\ e = Between(text, n)
  <2>1. Len(Elements(text)) \in {Left(text) - 1, Left(text)} /\ Left(text) \in Nat
    BY ElementsAre, PlacesAre
  <2>2. e = Between(text, n)
    BY ElementsAre
  <2> QED
    BY <2>1, <2>2
<1>2. e \in Seq(TokenKinds)
  BY <1>1, BetweenPlaces
<1> HIDE DEF e
<1>3. CASE Starred(e)
  <2>1. e # << >>
    BY <1>3 DEF Starred
  <2>2. Tail(e) \in Seq(TokenKinds)
    BY <1>2, <2>1, HeadTailProperties
  <2> QED
    BY <1>3, <2>2 DEF Type, e
<1>4. CASE ~Starred(e)
  BY <1>2, <1>4 DEF Type, e
<1> QED
  BY <1>3, <1>4

LEMMA MaxIs ==
    ASSUME NEW S, S \subseteq Nat, NEW d \in S, \A q \in S : d >= q
    PROVE  Max(S) = d
<1>1. \A m \in S : (\A q \in S : m >= q) => m = d
  <2>1. ASSUME NEW m \in S, \A q \in S : m >= q
        PROVE  m = d
    <3>1. m >= d /\ d >= m /\ m \in Nat /\ d \in Nat
      BY <2>1
    <3> QED
      BY <3>1
  <2> QED
    BY <2>1
<1>2. Max(S) \in S /\ \A q \in S : Max(S) >= q
  BY DEF Max
<1> QED
  BY <1>1, <1>2

LEMMA KindsAre ==
    ASSUME IsDefinition, NEW l \in 1..MaxLine
    PROVE  /\ func.comments[l] \in Seq(TokenKinds)
           /\ type_comments[l] = ParsedTypeComment(func.comments[l])
           /\ type_comments[l].kind \in {"none", "regular", "function", "invalid"}
<1>1. /\ func.comments[l] \in Seq(TokenKinds)
      /\ type_comments[l] = ParsedTypeComment(func.comments[l])
  BY DEF IsDefinition
<1> QED
  BY <1>1, ParsedComment

\* The search ends at the comment that decides.
LEMMA DecisiveIs ==
    ASSUME IsDefinition, ~Empty, NEW d \in func.colon..MaxLine,
           \A l \in (d + 1)..MaxLine : type_comments[l].kind \in {"none", "regular"}
    PROVE  /\ type_comments[d].kind \in {"function", "invalid"} => Decisive = d
           /\ d = func.colon /\ type_comments[d].kind \in {"none", "regular"} => Decisive = 0
<1> DEFINE S == {0} \cup {l \in func.colon..MaxLine :
                             ~Empty /\ type_comments[l].kind \in {"function", "invalid"}}
<1>1. func.colon \in 1..MaxLine /\ MaxLine \in Nat /\ d \in Nat /\ func.colon \in Nat \ {0}
  BY SignatureAssumption DEF IsDefinition
<1>2. S \subseteq Nat /\ 0 \in S
  BY <1>1
<1>3. \A q \in S : q # 0 => q \in func.colon..MaxLine
                            /\ type_comments[q].kind \in {"function", "invalid"}
  OBVIOUS
<1>4. \A q \in S : q <= d
  <2>1. ASSUME NEW q \in S, ~(q <= d)
        PROVE  FALSE
    <3>1. q \in (d + 1)..MaxLine /\ q # 0
      BY <1>1, <1>2, <1>3, <2>1
    <3>2. type_comments[q].kind \in {"none", "regular"}
      BY <3>1
    <3>3. type_comments[q].kind \in {"function", "invalid"}
      BY <1>3, <2>1, <3>1
    <3> QED
      BY <3>2, <3>3
  <2> QED
    BY <2>1
<1>5. Decisive = Max(S)
  BY DEF Decisive
<1>6. ASSUME type_comments[d].kind \in {"function", "invalid"}
      PROVE  Decisive = d
  <2>1. d \in S
    BY <1>6
  <2> HIDE DEF S
  <2>2. \A q \in S : d >= q
    BY <1>1, <1>2, <1>4
  <2> QED
    BY <1>2, <1>5, <2>1, <2>2, MaxIs
<1>7. ASSUME d = func.colon, type_comments[d].kind \in {"none", "regular"}
      PROVE  Decisive = 0
  <2>1. \A q \in S : q = 0
    BY <1>1, <1>3, <1>4, <1>7
  <2> HIDE DEF S
  <2>2. \A q \in S : 0 >= q
    BY <2>1
  <2> QED
    BY <1>2, <1>5, <2>2, MaxIs
<1> QED
  BY <1>6, <1>7

LEMMA DecisiveOfEmpty ==
    ASSUME Empty
    PROVE  Decisive = 0
<1>1. Decisive = Max({0})
  <2>1. {l \in func.colon..MaxLine :
            ~Empty /\ type_comments[l].kind \in {"function", "invalid"}} = {}
    OBVIOUS
  <2>2. Decisive = Max({0} \cup {})
    BY <2>1 DEF Decisive
  <2>3. {0} \cup {} = {0}
    OBVIOUS
  <2> QED
    BY <2>2, <2>3
<1>2. {0} \subseteq Nat /\ 0 \in {0} /\ \A q \in {0} : 0 >= q
  OBVIOUS
<1> QED
  BY <1>1, <1>2, MaxIs

LEMMA NotFunction ==
    ASSUME ~IsFunction
    PROVE  /\ Stated = << >> /\ ~Counts(Stated)
           /\ \A i : FromFunction(Stated, i) = 0 /\ Given(i) = NoType
<1>1. Stated = << >>
  BY DEF Stated
<1>2. ~Counts(Stated)
  BY DEF Counts
<1>3. \A i : FromFunction(Stated, i) = 0
  BY <1>2 DEF FromFunction
<1>4. \A i : Given(i) = NoType
  BY <1>3 DEF Given
<1> QED
  BY <1>1, <1>2, <1>3, <1>4

LEMMA FunctionIs ==
    ASSUME IsDefinition, IsFunction, Decisive \in 1..MaxLine,
           NEW a, a = type_comments[Decisive].args
    PROVE  /\ Stated = Elements(func.comments[Decisive])
           /\ a \in Seq(Seq(TokenKinds)) /\ Len(a) = Len(Stated)
           /\ \A n \in 1..Len(Stated) : ReadAs(a[n], Type(Stated[n]))
           /\ Counts(Stated) <=> ~(Len(a) = 1 /\ IsEllipsis(a[1]))
<1> DEFINE text == func.comments[Decisive]
           p == type_comments[Decisive]
<1>1. text \in Seq(TokenKinds) /\ p = ParsedTypeComment(text)
  BY KindsAre
<1>2. p.kind = "function"
  BY DEF IsFunction
<1>3. Stated = Elements(text)
  BY DEF Stated, ElementsOf
<1> HIDE DEF p, text
<1>4. /\ Signature(text) /\ Final(text, a)
      /\ \A i \in 1..Len(a) : Parses(a[i])
  BY <1>1, <1>2, FunctionArguments DEF p
<1>5. /\ a \in Seq(Seq(TokenKinds)) /\ Len(a) = Len(Stated)
      /\ \A n \in 1..Len(Stated) : ReadAs(a[n], Type(Stated[n]))
  BY <1>3, <1>4 DEF Final
<1>6. ASSUME Len(a) = 1
      PROVE  Ellipsis(Type(Stated[1])) <=> IsEllipsis(a[1])
  <2>1. 1 \in 1..Len(a) /\ 1 \in 1..Len(Stated)
    BY <1>5, <1>6
  <2>2. a[1] \in Seq(TokenKinds) /\ Parses(a[1]) /\ ReadAs(a[1], Type(Stated[1]))
    BY <1>4, <1>5, <2>1, ElementOfSeq
  <2>3. Type(Stated[1]) \in Seq(TokenKinds)
    BY <1>3, <1>4, <2>1, ElementType DEF Signature
  <2> QED
    BY <2>2, <2>3, EllipsisIs
<1>7. Counts(Stated) <=> ~(Len(a) = 1 /\ IsEllipsis(a[1]))
  BY <1>5, <1>6 DEF Counts
<1> QED
  BY <1>3, <1>5, <1>7 DEF text

LEMMA CountOne ==
    ASSUME NEW S, NEW n \in Nat
    PROVE  /\ Cardinality({k \in 1..n : k \in S}) \in Nat
           /\ Cardinality({k \in 1..(n + 1) : k \in S}) =
                 Cardinality({k \in 1..n : k \in S}) + One(n + 1 \in S)
<1> DEFINE c == Cardinality({k \in 1..n : k \in S})
           d == Cardinality({k \in 1..(n + 1) : k \in S})
<1>1. c \in Nat /\ d = IF n + 1 \in S THEN c + 1 ELSE c
  BY CountedNext
<1> HIDE DEF c, d
<1>2. d = c + One(n + 1 \in S)
  BY <1>1 DEF One
<1> QED
  BY <1>1, <1>2 DEF c, d

LEMMA TimesNext ==
    ASSUME NEW M, NEW messages \in Seq(M), NEW new \in M, NEW message
    PROVE  /\ Times(messages, message) \in Nat
           /\ Times(Append(messages, new), message) = Times(messages, message) + One(new = message)
<1> DEFINE n == Len(messages)
           q == Append(messages, new)
           S == {k \in Nat : q[k] = message}
<1>1. n \in Nat
  BY LenProperties
<1>2. Len(q) = n + 1 /\ q[n + 1] = new /\ \A k \in 1..n : q[k] = messages[k]
  BY <1>1, AppendProperties
<1> HIDE DEF q, n
<1>3. Times(messages, message) = Cardinality({k \in 1..n : k \in S})
  <2>1. {e \in 1..n : messages[e] = message} = {k \in 1..n : k \in S}
    BY <1>1, <1>2
  <2> QED
    BY <2>1 DEF Times, n
<1>4. Times(q, message) = Cardinality({k \in 1..(n + 1) : k \in S})
  <2>1. {e \in 1..(n + 1) : q[e] = message} = {k \in 1..(n + 1) : k \in S}
    BY <1>1
  <2> QED
    BY <1>2, <2>1 DEF Times
<1>5. n + 1 \in S <=> new = message
  BY <1>1, <1>2
<1> HIDE DEF S
<1>6. /\ Cardinality({k \in 1..n : k \in S}) \in Nat
      /\ Cardinality({k \in 1..(n + 1) : k \in S}) =
            Cardinality({k \in 1..n : k \in S}) + One(n + 1 \in S)
  BY <1>1, CountOne
<1>7. One(n + 1 \in S) = One(new = message)
  BY <1>5 DEF One
<1> QED
  BY <1>3, <1>4, <1>6, <1>7 DEF q

LEMMA TimesNone ==
    ASSUME NEW message
    PROVE  Times(<< >>, message) = 0
<1>1. {e \in 1..Len(<< >>) : << >>[e] = message} = {}
  OBVIOUS
<1> QED
  BY <1>1, FS_EmptySet DEF Times

\* The parameters with a contradiction are counted one by one.
LEMMA ContradictionsNext ==
    ASSUME NEW n \in Nat
    PROVE  /\ Cardinality(TwoComments(0)) = 0 /\ Cardinality(BesideAnnotations(0)) = 0
           /\ Cardinality(TwoComments(n)) \in Nat /\ Cardinality(BesideAnnotations(n)) \in Nat
           /\ Cardinality(TwoComments(n + 1)) = Cardinality(TwoComments(n))
                 + One(FromFunction(Stated, n + 1) > 0 /\ FromOwn(n + 1))
           /\ Cardinality(BesideAnnotations(n + 1)) = Cardinality(BesideAnnotations(n))
                 + One(/\ func.parameters[n + 1].annotated
                       /\ FromFunction(Stated, n + 1) > 0 \/ FromOwn(n + 1))
<1> DEFINE two(i) == FromFunction(Stated, i) > 0 /\ FromOwn(i)
           beside(i) == /\ func.parameters[i].annotated
                        /\ FromFunction(Stated, i) > 0 \/ FromOwn(i)
           T == {i \in Nat : two(i)}
           B == {i \in Nat : beside(i)}
<1>1. \A k \in Nat : TwoComments(k) = {i \in 1..k : two(i)}
                     /\ BesideAnnotations(k) = {i \in 1..k : beside(i)}
  BY DEF TwoComments, BesideAnnotations
<1> HIDE DEF two, beside
<1>2. \A k \in Nat : TwoComments(k) = {i \in 1..k : i \in T}
                     /\ BesideAnnotations(k) = {i \in 1..k : i \in B}
  BY <1>1
<1>3. n + 1 \in Nat /\ 0 \in Nat /\ (n + 1 \in T <=> two(n + 1)) /\ (n + 1 \in B <=> beside(n + 1))
  OBVIOUS
<1> HIDE DEF T, B
<1>4. /\ Cardinality(TwoComments(n)) \in Nat
      /\ Cardinality(TwoComments(n + 1)) = Cardinality(TwoComments(n)) + One(n + 1 \in T)
  <2>1. TwoComments(n) = {i \in 1..n : i \in T} /\ TwoComments(n + 1) = {i \in 1..(n + 1) : i \in T}
    BY <1>2, <1>3
  <2> QED
    BY <2>1, CountOne
<1>5. /\ Cardinality(BesideAnnotations(n)) \in Nat
      /\ Cardinality(BesideAnnotations(n + 1)) = Cardinality(BesideAnnotations(n)) + One(n + 1 \in B)
  <2>1. /\ BesideAnnotations(n) = {i \in 1..n : i \in B}
        /\ BesideAnnotations(n + 1) = {i \in 1..(n + 1) : i \in B}
    BY <1>2, <1>3
  <2> QED
    BY <2>1, CountOne
<1>6. Cardinality(TwoComments(0)) = 0 /\ Cardinality(BesideAnnotations(0)) = 0
  <2>1. TwoComments(0) = {} /\ BesideAnnotations(0) = {}
    BY <1>2, <1>3
  <2> QED
    BY <2>1, FS_EmptySet
<1>7. One(n + 1 \in T) = One(two(n + 1)) /\ One(n + 1 \in B) = One(beside(n + 1))
  BY <1>3 DEF One
<1>8. /\ Cardinality(TwoComments(n + 1)) = Cardinality(TwoComments(n)) + One(two(n + 1))
      /\ Cardinality(BesideAnnotations(n + 1)) =
            Cardinality(BesideAnnotations(n)) + One(beside(n + 1))
  BY <1>4, <1>5, <1>7
<1> QED
  BY <1>4, <1>5, <1>6, <1>8 DEF two, beside

-----------------------------------------------------------------------------
(* What a step leaves alone.                                                 *)

LEMMA Same ==
    ASSUME UNCHANGED static
    PROVE  /\ Decisive' = Decisive /\ (IsFunction' <=> IsFunction) /\ Stated' = Stated
           /\ Count' = Count /\ (Empty' <=> Empty)
           /\ \A i : /\ FromFunction(Stated, i)' = FromFunction(Stated, i)
                     /\ Given(i)' = Given(i) /\ (FromOwn(i)' <=> FromOwn(i))
           /\ NumberTooMany' = NumberTooMany /\ NumberTooFew' = NumberTooFew
           /\ NumberInvalid' = NumberInvalid /\ NumberReturns' = NumberReturns
           /\ (IsDefinition' <=> IsDefinition) /\ (Overflowed' <=> Overflowed)
<1>1. func' = func /\ type_comments' = type_comments /\ overflow_checks' = overflow_checks
  BY DEF static
<1>2. Empty' <=> Empty
  BY <1>1 DEF Empty
<1>3. Count' = Count
  BY <1>1 DEF Count
<1>4. Decisive' = Decisive
  BY <1>1 DEF Decisive, Empty
<1>5. IsFunction' <=> IsFunction
  BY <1>1, <1>4 DEF IsFunction
<1>6. Stated' = Stated
  BY <1>1, <1>4, <1>5 DEF Stated, ElementsOf
<1>7. Counts(Stated)' <=> Counts(Stated)
  BY <1>5, <1>6 DEF Counts
<1>8. in_class' <=> in_class
  BY <1>1 DEF in_class
<1>9. \A i : FromFunction(Stated, i)' = FromFunction(Stated, i)
  BY <1>3, <1>6, <1>7, <1>8 DEF FromFunction
<1>10. \A i : Given(i)' = Given(i)
  BY <1>1, <1>4, <1>9 DEF Given
<1>11. \A i : FromOwn(i)' <=> FromOwn(i)
  BY <1>1, <1>2 DEF FromOwn, HasOwn
<1>12. NumberTooMany' = NumberTooMany
  BY <1>3, <1>6, <1>7 DEF NumberTooMany, TooMany
<1>13. NumberTooFew' = NumberTooFew
  BY <1>3, <1>6, <1>7, <1>8 DEF NumberTooFew, TooFew
<1>14. NumberInvalid' = NumberInvalid
  BY <1>4, <1>5 DEF NumberInvalid
<1>15. NumberReturns' = NumberReturns
  BY <1>1, <1>5 DEF NumberReturns
<1>16. IsDefinition' <=> IsDefinition
  BY <1>1, <1>2 DEF IsDefinition
<1>17. Overflowed' <=> Overflowed
  BY <1>1, <1>3, <1>6, <1>7, <1>8 DEF Overflowed, TooMany
<1> QED
  BY <1>2, <1>3, <1>4, <1>5, <1>6, <1>9, <1>10, <1>11, <1>12, <1>13, <1>14, <1>15, <1>16, <1>17

LEMMA Later ==
    ASSUME UNCHANGED static, NEW n, Owned' = n, NEW w, WrittenArguments' = w
    PROVE  /\ arg_types' = [i \in 1..Count |-> ArgType(i, n)] =>
                 (arg_types = [i \in 1..Count |-> ArgType(i, Owned)])'
           /\ /\ errors' \in Seq(Messages)
              /\ Times(errors', Duplicate) = Cardinality(TwoComments(n))
                    + Cardinality(BesideAnnotations(w))
                    + (IF stage' = "done" THEN NumberReturns ELSE 0)
              /\ Times(errors', "too many") = NumberTooMany
              /\ Times(errors', "too few") = NumberTooFew
              /\ Times(errors', "invalid") = NumberInvalid
              => Errors'
<1>1. func' = func
  BY DEF static
<1>2. /\ Decisive' = Decisive /\ (IsFunction' <=> IsFunction) /\ Count' = Count
      /\ \A i : /\ FromFunction(Stated, i)' = FromFunction(Stated, i)
                /\ Given(i)' = Given(i) /\ (FromOwn(i)' <=> FromOwn(i))
      /\ NumberTooMany' = NumberTooMany /\ NumberTooFew' = NumberTooFew
      /\ NumberInvalid' = NumberInvalid /\ NumberReturns' = NumberReturns
  BY Same
<1>3. TwoComments(Owned)' = TwoComments(n)
  BY <1>2 DEF TwoComments
<1>4. BesideAnnotations(WrittenArguments)' = BesideAnnotations(w)
  BY <1>1, <1>2 DEF BesideAnnotations
<1>5. ASSUME NEW i
      PROVE  ArgType(i, Owned)' = ArgType(i, n)
  BY <1>1, <1>2 DEF ArgType
<1>6. ASSUME arg_types' = [i \in 1..Count |-> ArgType(i, n)]
      PROVE  (arg_types = [i \in 1..Count |-> ArgType(i, Owned)])'
  BY <1>2, <1>5, <1>6
<1>7. ASSUME errors' \in Seq(Messages),
             Times(errors', Duplicate) = Cardinality(TwoComments(n))
                    + Cardinality(BesideAnnotations(w))
                    + (IF stage' = "done" THEN NumberReturns ELSE 0),
             Times(errors', "too many") = NumberTooMany,
             Times(errors', "too few") = NumberTooFew,
             Times(errors', "invalid") = NumberInvalid
      PROVE  Errors'
  BY <1>2, <1>3, <1>4, <1>7 DEF Errors
<1> QED
  BY <1>6, <1>7

LEMMA OwnedIs ==
    /\ stage = "scan" => Owned = 0
    /\ stage = "own" => Owned = idx - 1
    /\ stage \in {"arguments", "return", "done"} => Owned = Count
    /\ stage \in {"scan", "own"} => WrittenArguments = 0
    /\ stage = "arguments" => WrittenArguments = idx - 1
    /\ stage \in {"return", "done"} => WrittenArguments = Count
  BY DEF Owned, WrittenArguments

\* What parameters get from the comment of the function.
LEMMA GivenIs ==
    ASSUME IsDefinition, Decisive \in 0..MaxLine, Count \in Nat, NEW i \in 1..Count
    PROVE  /\ FromFunction(Stated, i) \in 0..Len(Stated)
           /\ Given(i) # NoType <=> FromFunction(Stated, i) > 0
           /\ FromFunction(Stated, i) > 0 =>
                 /\ IsFunction
                 /\ Given(i) = type_comments[Decisive].args[FromFunction(Stated, i)]
<1> DEFINE n == FromFunction(Stated, i)
<1>1. CASE ~IsFunction
  <2>1. Stated = << >> /\ n = 0 /\ Given(i) = NoType
    BY <1>1, NotFunction
  <2>2. Len(Stated) = 0
    BY <2>1
  <2> QED
    BY <2>1, <2>2
<1>2. CASE IsFunction
  <2> DEFINE a == type_comments[Decisive].args
  <2>1. Decisive \in 1..MaxLine
    BY <1>2, SignatureAssumption DEF IsFunction
  <2>2. a \in Seq(Seq(TokenKinds)) /\ Len(a) = Len(Stated)
    BY <1>2, <2>1, FunctionIs
  <2>3. Len(Stated) \in Nat
    BY <2>2, LenProperties
  <2>4. n \in 0..Len(Stated)
    BY <2>3 DEF FromFunction
  <2>5. Given(i) = IF n > 0 THEN a[n] ELSE NoType
    BY DEF Given
  <2> HIDE DEF n, a
  <2>6. n > 0 => a[n] # NoType
    <3>1. ASSUME n > 0
          PROVE  a[n] # NoType
      <4>1. n \in 1..Len(a)
        BY <2>2, <2>3, <2>4, <3>1
      <4>2. a[n] \in Seq(TokenKinds)
        BY <2>2, <4>1, ElementOfSeq
      <4> QED
        BY <4>2, NoTypeIs
    <3> QED
      BY <3>1
  <2>7. Given(i) # NoType <=> n > 0
    BY <2>5, <2>6
  <2> QED
    BY <1>2, <2>4, <2>5, <2>7 DEF n, a
<1> QED
  BY <1>1, <1>2

LEMMA PutFirst ==
    ASSUME NEW X, NEW x \in X, NEW s \in Seq(X)
    PROVE  /\ <<x>> \o s \in Seq(X) /\ Len(<<x>> \o s) = 1 + Len(s)
           /\ \A i \in 1..(1 + Len(s)) : (<<x>> \o s)[i] = IF i = 1 THEN x ELSE s[i - 1]
<1> DEFINE one == <<x>>
<1>1. one \in Seq(X) /\ Len(one) = 1 /\ one[1] = x
  OBVIOUS
<1> HIDE DEF one
<1>2. /\ Len(one \o s) = Len(one) + Len(s)
      /\ \A i \in 1..Len(one) + Len(s) :
            (one \o s)[i] = IF i <= Len(one) THEN one[i] ELSE s[i - Len(one)]
      /\ one \o s \in Seq(X)
  BY <1>1, ConcatProperties
<1>3. \A i \in 1..(1 + Len(s)) : i <= 1 <=> i = 1
  BY LenProperties
<1>4. \A i \in 1..(1 + Len(s)) : (one \o s)[i] = IF i = 1 THEN x ELSE s[i - 1]
  BY <1>1, <1>2, <1>3
<1> QED
  BY <1>1, <1>2, <1>4 DEF one

LEMMA AssignedIs ==
    ASSUME IsDefinition, IsFunction, Decisive \in 1..MaxLine, Count \in Nat,
           arg_types = [i \in 1..Count |-> NoType],
           NEW a, a = type_comments[Decisive].args
    PROVE  [i \in 1..Count |-> Given(i)] =
              IF Len(a) = 1 /\ IsEllipsis(a[1]) THEN arg_types ELSE Assigned(a)
<1> DEFINE n == Len(Stated)
           ellipsis == Len(a) = 1 /\ IsEllipsis(a[1])
<1>1. /\ a \in Seq(Seq(TokenKinds)) /\ Len(a) = n /\ n \in Nat
      /\ Counts(Stated) <=> ~ellipsis
  BY FunctionIs, LenProperties
<1>2. \A i : Given(i) = IF FromFunction(Stated, i) > 0 THEN a[FromFunction(Stated, i)] ELSE NoType
  BY DEF Given
<1>3. \A i : FromFunction(Stated, i) = CASE Counts(Stated) /\ n = Count -> i
                                         [] Counts(Stated) /\ n = Count - 1 /\ in_class -> i - 1
                                         [] OTHER -> 0
  BY DEF FromFunction
<1> DEFINE q == <<NoType>> \o a
<1>4. Assigned(a) = CASE Len(a) = Count -> a [] Shifts(Len(a)) -> q [] OTHER -> arg_types
  BY DEF Assigned
<1> HIDE DEF n, ellipsis, q
<1>5. CASE ellipsis \/ (n # Count /\ ~(in_class /\ n = Count - 1))
  <2>1. \A i : FromFunction(Stated, i) = 0
    BY <1>1, <1>3, <1>5
  <2>2. \A i : Given(i) = NoType
    BY <1>2, <2>1
  <2>3. ~ellipsis => Assigned(a) = arg_types
    BY <1>1, <1>5, <1>4 DEF Shifts
  <2> QED
    BY <2>2, <2>3 DEF ellipsis
<1>6. CASE ~ellipsis /\ n = Count
  <2>1. \A i \in 1..Count : FromFunction(Stated, i) = i
    BY <1>1, <1>3, <1>6
  <2>2. \A i \in 1..Count : Given(i) = a[i]
    BY <1>2, <2>1
  <2>3. Assigned(a) = a
    BY <1>1, <1>6, <1>4 DEF Shifts
  <2>4. a = [i \in 1..Count |-> a[i]]
    BY <1>1, <1>6
  <2> QED
    BY <1>6, <2>2, <2>3, <2>4 DEF ellipsis
<1>7. CASE ~ellipsis /\ n # Count /\ in_class /\ n = Count - 1
  <2>1. \A i \in 1..Count : FromFunction(Stated, i) = i - 1
    BY <1>1, <1>3, <1>7
  <2>2. \A i \in 1..Count : Given(i) = IF i > 1 THEN a[i - 1] ELSE NoType
    BY <1>2, <2>1
  <2> DEFINE X == Seq(TokenKinds) \cup {NoType}
  <2>3. Assigned(a) = q
    BY <1>1, <1>7, <1>4 DEF Shifts
  <2>4. NoType \in X
    OBVIOUS
  <2>5. a \in Seq(X)
    BY <1>1, SeqMonotonic
  <2>6. q = <<NoType>> \o a
    BY DEF q
  <2> HIDE DEF X, n, ellipsis, q
  <2>7. /\ <<NoType>> \o a \in Seq(X) /\ Len(<<NoType>> \o a) = 1 + Len(a)
        /\ \A i \in 1..(1 + Len(a)) : (<<NoType>> \o a)[i] = IF i = 1 THEN NoType ELSE a[i - 1]
    BY <2>4, <2>5, PutFirst
  <2>8. /\ q \in Seq(X) /\ Len(q) = 1 + n
        /\ \A i \in 1..(1 + n) : q[i] = IF i = 1 THEN NoType ELSE a[i - 1]
    BY <1>1, <2>6, <2>7, Zenon
  <2>9. 1 + n = Count
    BY <1>1, <1>7
  <2>10. q = [i \in 1..Count |-> q[i]]
    BY <2>8, <2>9
  <2>11. ASSUME NEW i \in 1..Count
        PROVE  q[i] = Given(i)
    <3>1. CASE i = 1
      BY <2>2, <2>9, <2>8, <3>1
    <3>2. CASE i # 1
      <4>1. i > 1 /\ ~(i <= 1)
        BY <3>2
      <4> QED
        BY <2>2, <2>9, <2>8, <4>1
    <3> QED
      BY <3>1, <3>2
  <2>12. q = [i \in 1..Count |-> Given(i)]
    BY <2>10, <2>11
  <2> QED
    BY <1>7, <2>3, <2>12 DEF ellipsis
<1> QED
  BY <1>5, <1>6, <1>7

-----------------------------------------------------------------------------
(* The invariant holds at first.                                             *)

LEMMA DefinitionIs ==
    ASSUME NEW ps \in Seq(Parameters), NEW colon \in 1..MaxLine,
           NEW comments \in [1..MaxLine -> Seq(TokenKinds)], NEW bodies,
           type_comments = [l \in 1..MaxLine |-> ParsedTypeComment(comments[l])],
           func \in Definition(ps, colon, comments, bodies),
           Empty => ~func.returns
    PROVE  IsDefinition
<1>1. /\ func.parameters = ps /\ func.colon = colon /\ func.comments = comments
      /\ func.returns \in BOOLEAN
  BY DEF Definition
<1> QED
  BY <1>1 DEF IsDefinition

LEMMA InitDefinition ==
    ASSUME Init
    PROVE  IsDefinition
<1>1. MaxLine \in Nat \ {0} /\ MaxParameters \in Nat /\ 1 \in 1..MaxLine
  BY SignatureAssumption
<1>2. ASSUME NEW ps \in ParameterLists
      PROVE  ps \in Seq(Parameters)
  <2>1. PICK m \in 0..MaxParameters : ps \in [1..m -> Parameters]
    BY DEF ParameterLists, SeqOf
  <2> QED
    BY <1>1, <2>1
<1>3. << >> \in Seq(TokenKinds) /\ << >> \in Seq(Parameters)
      /\ \A text \in Texts \cup OddTexts : text \in Seq(TokenKinds)
  BY SignatureAssumption
<1> DEFINE First  == \E ps \in ParameterLists, colon \in 1..MaxLine :
                        \E comments \in [1..MaxLine -> Texts \cup {NoComment}] :
                           /\ type_comments = [l \in 1..MaxLine |-> ParsedTypeComment(comments[l])]
                           /\ func \in Definition(ps, colon, comments, {<< >>, Pass})
                           /\ Empty => ~func.returns
           Odd(text) == [l \in 1..MaxLine |-> IF l = 1 THEN text ELSE NoComment]
           Second == \E text \in OddTexts :
                        /\ type_comments = [l \in 1..MaxLine |-> ParsedTypeComment(Odd(text)[l])]
                        /\ func \in Definition(<< >>, 1, Odd(text), {Pass})
                        /\ ~func.returns
           None3  == [l \in 1..MaxLine |-> NoComment]
           Third  == \E ps \in ParameterLists :
                        /\ type_comments = [l \in 1..MaxLine |-> ParsedTypeComment(None3[l])]
                        /\ func \in Definition(ps, 1, None3, Bodies)
                        /\ ~func.returns
<1>4. First \/ Second \/ Third
  BY Zenon DEF Init
<1>5. CASE First
  <2>1. PICK ps \in ParameterLists, colon \in 1..MaxLine :
                \E comments \in [1..MaxLine -> Texts \cup {NoComment}] :
                   /\ type_comments = [l \in 1..MaxLine |-> ParsedTypeComment(comments[l])]
                   /\ func \in Definition(ps, colon, comments, {<< >>, Pass})
                   /\ Empty => ~func.returns
    BY <1>5
  <2>2. PICK comments \in [1..MaxLine -> Texts \cup {NoComment}] :
                   /\ type_comments = [l \in 1..MaxLine |-> ParsedTypeComment(comments[l])]
                   /\ func \in Definition(ps, colon, comments, {<< >>, Pass})
                   /\ Empty => ~func.returns
    BY <2>1
  <2>3. comments \in [1..MaxLine -> Seq(TokenKinds)]
    BY <1>3 DEF NoComment
  <2>4. ps \in Seq(Parameters)
    BY <1>2
  <2> QED
    BY <2>2, <2>3, <2>4, DefinitionIs
<1>6. CASE Second
  <2>1. PICK text \in OddTexts :
           /\ type_comments = [l \in 1..MaxLine |-> ParsedTypeComment(Odd(text)[l])]
           /\ func \in Definition(<< >>, 1, Odd(text), {Pass})
           /\ ~func.returns
    BY <1>6
  <2> DEFINE comments == Odd(text)
  <2>2. comments \in [1..MaxLine -> Seq(TokenKinds)]
    BY <1>3 DEF NoComment
  <2> HIDE DEF Odd
  <2> QED
    BY <1>1, <1>3, <2>1, <2>2, DefinitionIs
<1>7. CASE Third
  <2>1. PICK ps \in ParameterLists :
           /\ type_comments = [l \in 1..MaxLine |-> ParsedTypeComment(None3[l])]
           /\ func \in Definition(ps, 1, None3, Bodies)
           /\ ~func.returns
    BY <1>7
  <2>2. None3 \in [1..MaxLine -> Seq(TokenKinds)]
    BY <1>3 DEF NoComment
  <2>3. ps \in Seq(Parameters)
    BY <1>2
  <2> HIDE DEF None3
  <2> QED
    BY <1>1, <2>1, <2>2, <2>3, DefinitionIs
<1> QED
  BY <1>4, <1>5, <1>6, <1>7

LEMMA InitInv ==
    ASSUME Init
    PROVE  SigInv
<1>1. IsDefinition
  BY InitDefinition
<1>2. /\ arg_types = [i \in 1..Count |-> NoType]
      /\ ret_type = NoType
      /\ line = MaxLine /\ idx = 1
      /\ errors = << >> /\ written = << >>
      /\ stage = IF Empty THEN "arguments" ELSE "scan"
  BY DEF Init, Count
<1>3. Count \in Nat
  BY <1>1, LenProperties DEF IsDefinition, Count
<1>4. idx \in 1..(Count + 1)
  BY <1>2, <1>3
<1>5. MaxLine \in Nat /\ func.colon \in 1..MaxLine
  BY <1>1, SignatureAssumption DEF IsDefinition
<1>6. WrittenArguments = 0
  BY <1>2, OwnedIs
<1>7. Written
  <2>1. Len(written) = 0 /\ stage # "done" /\ IsSequence(written)
    BY <1>2 DEF IsSequence
  <2> QED
    BY <1>6, <2>1 DEF Written
<1>8. CASE ~Empty
  <2>1. stage = "scan"
    BY <1>2, <1>8
  <2>2. line \in func.colon..MaxLine /\ (line + 1)..MaxLine = {}
    BY <1>2, <1>5
  <2>3. Scanning
    BY <1>2, <1>8, <2>2 DEF Scanning
  <2> QED
    BY <1>1, <1>4, <1>7, <2>1, <2>3 DEF SigInv
<1>9. CASE Empty
  <2>1. stage = "arguments" /\ Owned = Count
    BY <1>2, <1>9, OwnedIs
  <2>2. Decisive = 0 /\ ~IsFunction
    BY <1>9, DecisiveOfEmpty DEF IsFunction
  <2>3. \A i : ~FromOwn(i)
    BY <1>9 DEF FromOwn
  <2>4. ~Counts(Stated) /\ \A i : FromFunction(Stated, i) = 0 /\ Given(i) = NoType
    BY <2>2, NotFunction
  <2>5. arg_types = [i \in 1..Count |-> ArgType(i, Owned)]
    <3>1. \A i : ArgType(i, Owned) = NoType
      BY <2>3, <2>4 DEF ArgType
    <3> QED
      BY <1>2, <3>1
  <2>6. /\ Times(errors, Duplicate) = 0 /\ Times(errors, "too many") = 0
        /\ Times(errors, "too few") = 0 /\ Times(errors, "invalid") = 0
    BY <1>2, TimesNone
  <2>7. Cardinality(TwoComments(Owned)) = 0 /\ Cardinality(BesideAnnotations(WrittenArguments)) = 0
    <3>1. TwoComments(Owned) = {}
      BY <2>3 DEF TwoComments
    <3>2. BesideAnnotations(WrittenArguments) = BesideAnnotations(0)
      BY <1>6
    <3>3. Cardinality(BesideAnnotations(0)) = 0
      BY ContradictionsNext
    <3> QED
      BY <3>1, <3>2, <3>3, FS_EmptySet
  <2>8. errors \in Seq(Messages)
    BY <1>2
  <2>9. /\ (IF stage = "done" THEN NumberReturns ELSE 0) = 0
        /\ NumberTooMany = 0 /\ NumberTooFew = 0 /\ NumberInvalid = 0
    BY <2>1, <2>2, <2>4 DEF NumberTooMany, NumberTooFew, NumberInvalid, TooMany, TooFew
  <2>10. Errors
    <3>1. Times(errors, Duplicate) = Cardinality(TwoComments(Owned))
             + Cardinality(BesideAnnotations(WrittenArguments))
             + (IF stage = "done" THEN NumberReturns ELSE 0)
      <4>1. 0 = 0 + 0 + 0
        OBVIOUS
      <4> QED
        BY <2>6, <2>7, <2>9, <4>1, Zenon
    <3> QED
      BY <2>6, <2>8, <2>9, <3>1, Zenon DEF Errors
  <2>11. ret_type = IF IsFunction THEN <<"return">> ELSE NoType
    BY <1>2, <2>2
  <2>12. Found
    BY <1>5, <2>2, <2>5, <2>10, <2>11 DEF Found
  <2> QED
    BY <1>1, <1>4, <1>7, <2>1, <2>12 DEF SigInv
<1> QED
  BY <1>8, <1>9

-----------------------------------------------------------------------------
(* Every step keeps it.                                                      *)

LEMMA SigIs ==
    ASSUME SigInv
    PROVE  /\ IsDefinition /\ Count \in Nat /\ idx \in 1..(Count + 1)
           /\ MaxLine \in Nat \ {0} /\ func.colon \in 1..MaxLine
           /\ stage \in {"own", "arguments", "return", "done"} => Found
<1>1. IsDefinition
  BY DEF SigInv
<1>2. Count \in Nat
  BY <1>1, LenProperties DEF IsDefinition, Count
<1>3. MaxLine \in Nat \ {0} /\ func.colon \in 1..MaxLine
  BY <1>1, SignatureAssumption DEF IsDefinition
<1>4. stage \in {"own", "arguments", "return", "done"} => Found
  BY DEF SigInv
<1> QED
  BY <1>1, <1>2, <1>3, <1>4 DEF SigInv

\* The search for comments ends.
SearchEnd ==
    /\ stage = "scan" /\ stage' = "own"
    /\ UNCHANGED <<static, idx, written>>
    /\ Decisive \in 0..MaxLine
    /\ ret_type' = IF IsFunction THEN <<"return">> ELSE NoType
    /\ arg_types' = [i \in 1..Count |-> Given(i)]
    /\ errors' \in Seq(Messages)
    /\ Times(errors', Duplicate) = 0
    /\ Times(errors', "too many") = NumberTooMany
    /\ Times(errors', "too few") = NumberTooFew
    /\ Times(errors', "invalid") = NumberInvalid

LEMMA SearchEnds ==
    ASSUME SigInv, SearchEnd
    PROVE  SigInv'
<1>1. UNCHANGED static /\ stage = "scan" /\ stage' = "own" /\ idx' = idx /\ written' = written
  BY DEF SearchEnd
<1>2. Count \in Nat /\ Scanning /\ IsDefinition
  BY <1>1, SigIs DEF SigInv
<1>3. idx = 1 /\ ~Empty
  BY <1>2 DEF Scanning
<1>4. /\ Decisive' = Decisive /\ (IsFunction' <=> IsFunction) /\ Count' = Count
      /\ (Empty' <=> Empty) /\ (IsDefinition' <=> IsDefinition)
  BY <1>1, Same
<1>5. Owned' = 0 /\ WrittenArguments' = 0
  BY <1>1, <1>3 DEF Owned, WrittenArguments
<1>6. [i \in 1..Count |-> ArgType(i, 0)] = [i \in 1..Count |-> Given(i)]
  <2>1. \A i \in 1..Count : ~(i <= 0)
    BY <1>2
  <2>2. \A i \in 1..Count : ArgType(i, 0) = Given(i)
    BY <2>1 DEF ArgType
  <2> QED
    BY <2>2
<1>7. (arg_types = [i \in 1..Count |-> ArgType(i, Owned)])'
  <2>1. arg_types' = [i \in 1..Count |-> ArgType(i, 0)]
    BY <1>6, Zenon DEF SearchEnd
  <2> QED
    BY <1>1, <1>5, <2>1, Later
<1>8. Errors'
  <2>1. (IF stage' = "done" THEN NumberReturns ELSE 0) = 0
    BY <1>1
  <2>2. Cardinality(TwoComments(0)) = 0 /\ Cardinality(BesideAnnotations(0)) = 0
    BY ContradictionsNext
  <2>3. 0 = 0 + 0 + 0
    OBVIOUS
  <2>4. Times(errors', Duplicate) = 0
    BY DEF SearchEnd
  <2>5. Times(errors', Duplicate) = Cardinality(TwoComments(0))
                    + Cardinality(BesideAnnotations(0))
                    + (IF stage' = "done" THEN NumberReturns ELSE 0)
    BY <2>1, <2>2, <2>3, <2>4, Zenon
  <2>6. /\ errors' \in Seq(Messages)
        /\ Times(errors', "too many") = NumberTooMany
        /\ Times(errors', "too few") = NumberTooFew
        /\ Times(errors', "invalid") = NumberInvalid
    BY DEF SearchEnd
  <2> QED
    BY <1>1, <1>5, <2>5, <2>6, Later
<1>9. Found'
  <2>1. ret_type' = IF IsFunction THEN <<"return">> ELSE NoType
    BY DEF SearchEnd
  <2>2. Decisive \in 0..MaxLine
    BY DEF SearchEnd
  <2>3. (ret_type = IF IsFunction THEN <<"return">> ELSE NoType)'
    BY <1>4, <2>1
  <2> QED
    BY <1>4, <1>7, <1>8, <2>2, <2>3 DEF Found
<1>10. Written'
  <2>1. Len(written) = 0 /\ IsSequence(written)
    BY <1>1, OwnedIs DEF SigInv, Written
  <2> QED
    BY <1>1, <1>5, <2>1 DEF Written, IsSequence
<1>11. idx' \in 1..(Count + 1)'
  BY <1>1, <1>2, <1>3, <1>4
<1> QED
  BY <1>1, <1>2, <1>3, <1>4, <1>9, <1>10, <1>11 DEF SigInv

\* One message is reported.
LEMMA OneMessage ==
    ASSUME NEW v \in Messages
    PROVE  /\ Append(<< >>, v) \in Seq(Messages)
           /\ \A m : Times(Append(<< >>, v), m) = One(v = m)
<1> DEFINE none == << >>
<1>1. none \in Seq(Messages)
  OBVIOUS
<1>2. \A m : Times(none, m) = 0
  BY TimesNone
<1> HIDE DEF none
<1>3. Append(none, v) \in Seq(Messages)
  BY <1>1, AppendProperties
<1>4. ASSUME NEW m
      PROVE  Times(Append(none, v), m) = One(v = m)
  <2>1. Times(Append(none, v), m) = 0 + One(v = m)
    BY <1>1, <1>2, TimesNext
  <2>2. 0 + One(v = m) = One(v = m)
    BY DEF One
  <2> QED
    BY <2>1, <2>2
<1> QED
  BY <1>3, <1>4 DEF none

LEMMA FunctionCommentInv ==
    ASSUME SigInv, FunctionComment
    PROVE  SigInv'
<1> DEFINE a == type_comments[line].args
           n == Len(a)
           ellipsis == n = 1 /\ IsEllipsis(a[1])
           right == ellipsis \/ n = Count \/ Shifts(n)
           message == IF n > Count THEN "too many" ELSE "too few"
<1>1. stage = "scan" /\ type_comments[line].kind = "function"
  BY DEF FunctionComment
<1>2. /\ IsDefinition /\ Count \in Nat /\ MaxLine \in Nat /\ func.colon \in 1..MaxLine
      /\ Scanning
  BY <1>1, SigIs DEF SigInv
<1>3. /\ ~Empty /\ line \in func.colon..MaxLine
      /\ \A l \in (line + 1)..MaxLine : type_comments[l].kind \in {"none", "regular"}
  BY <1>2 DEF Scanning
<1>4. Decisive = line /\ line \in 1..MaxLine /\ line > 0
  <2>1. Decisive = line
    BY <1>1, <1>2, <1>3, DecisiveIs
  <2> QED
    BY <1>2, <1>3, <2>1
<1>5. IsFunction
  BY <1>1, <1>4 DEF IsFunction
<1>6. a = type_comments[Decisive].args
  BY <1>4
<1>7. arg_types = [i \in 1..Count |-> NoType] /\ errors = << >>
  BY <1>2 DEF Scanning
<1>8. errors' = IF right THEN errors ELSE Append(errors, message)
  BY DEF FunctionComment
<1>9. arg_types' = IF ellipsis THEN arg_types ELSE Assigned(a)
  BY DEF FunctionComment
<1> HIDE DEF a
<1>10. n = Len(Stated) /\ n \in Nat /\ (Counts(Stated) <=> ~ellipsis)
  <2>1. a \in Seq(Seq(TokenKinds)) /\ Len(a) = Len(Stated)
        /\ (Counts(Stated) <=> ~(Len(a) = 1 /\ IsEllipsis(a[1])))
    BY <1>2, <1>4, <1>5, <1>6, FunctionIs
  <2>2. Len(a) \in Nat
    BY <2>1, LenProperties
  <2> QED
    BY <2>1, <2>2
<1>11. arg_types' = [i \in 1..Count |-> Given(i)]
  <2>1. [i \in 1..Count |-> Given(i)] =
              IF Len(a) = 1 /\ IsEllipsis(a[1]) THEN arg_types ELSE Assigned(a)
    BY <1>2, <1>4, <1>5, <1>6, <1>7, AssignedIs
  <2> QED
    BY <1>9, <2>1, Zenon
<1>12. /\ right => ~TooMany /\ ~TooFew
       /\ ~right /\ n > Count => TooMany /\ ~TooFew
       /\ ~right /\ ~(n > Count) => ~TooMany /\ TooFew
  <2> HIDE DEF ellipsis, n
  <2> QED
    BY <1>2, <1>10 DEF TooMany, TooFew, Shifts
<1> HIDE DEF n, right
<1>13. NumberInvalid = 0
  BY <1>5 DEF NumberInvalid
<1>14. /\ errors' \in Seq(Messages) /\ Times(errors', Duplicate) = 0
       /\ Times(errors', "too many") = NumberTooMany
       /\ Times(errors', "too few") = NumberTooFew
       /\ Times(errors', "invalid") = 0
  <2>1. CASE right
    <3>1. errors' = << >>
      BY <1>7, <1>8, <2>1
    <3>2. NumberTooMany = 0 /\ NumberTooFew = 0
      BY <1>12, <2>1 DEF NumberTooMany, NumberTooFew
    <3>3. << >> \in Seq(Messages)
      OBVIOUS
    <3>4. \A m : Times(<< >>, m) = 0
      BY TimesNone
    <3> QED
      BY <3>1, <3>2, <3>3, <3>4, Zenon
  <2>2. CASE ~right /\ n > Count
    <3> DEFINE e == Append(<< >>, "too many")
    <3>1. errors' = e
      BY <1>7, <1>8, <2>2
    <3>2. NumberTooMany = 1 /\ NumberTooFew = 0
      BY <1>12, <2>2 DEF NumberTooMany, NumberTooFew
    <3>3. "too many" \in Messages
      BY DEF Messages
    <3> HIDE DEF message
    <3>4. e \in Seq(Messages) /\ \A m : Times(e, m) = One("too many" = m)
      BY <3>3, OneMessage
    <3>5. /\ One("too many" = Duplicate) = 0 /\ One("too many" = "too many") = 1
          /\ One("too many" = "too few") = 0 /\ One("too many" = "invalid") = 0
      BY DEF One, Duplicate
    <3> QED
      BY <3>1, <3>2, <3>4, <3>5, Zenon
  <2>3. CASE ~right /\ ~(n > Count)
    <3> DEFINE e == Append(<< >>, "too few")
    <3>1. errors' = e
      BY <1>7, <1>8, <2>3
    <3>2. NumberTooMany = 0 /\ NumberTooFew = 1
      BY <1>12, <2>3 DEF NumberTooMany, NumberTooFew
    <3>3. "too few" \in Messages
      BY DEF Messages
    <3> HIDE DEF message
    <3>4. e \in Seq(Messages) /\ \A m : Times(e, m) = One("too few" = m)
      BY <3>3, OneMessage
    <3>5. /\ One("too few" = Duplicate) = 0 /\ One("too few" = "too many") = 0
          /\ One("too few" = "too few") = 1 /\ One("too few" = "invalid") = 0
      BY DEF One, Duplicate
    <3> QED
      BY <3>1, <3>2, <3>4, <3>5, Zenon
  <2> QED
    BY <2>1, <2>2, <2>3
<1>15. ret_type' = IF IsFunction THEN <<"return">> ELSE NoType
  BY <1>5 DEF FunctionComment
<1>16. Decisive \in 0..MaxLine
  BY <1>2, <1>4
<1>17. Times(errors', "invalid") = NumberInvalid
  BY <1>13, <1>14
<1>18. stage' = "own" /\ UNCHANGED <<static, idx, written>>
  BY DEF FunctionComment
<1>19. SearchEnd
  BY <1>1, <1>11, <1>14, <1>15, <1>16, <1>17, <1>18, Zenon DEF SearchEnd
<1> QED
  BY <1>19, SearchEnds

LEMMA NoFunctionTypes ==
    ASSUME ~IsFunction
    PROVE  /\ NumberTooMany = 0 /\ NumberTooFew = 0
           /\ [i \in 1..Count |-> Given(i)] = [i \in 1..Count |-> NoType]
<1>1. ~Counts(Stated) /\ \A i : Given(i) = NoType
  BY NotFunction
<1>2. NumberTooMany = 0 /\ NumberTooFew = 0
  BY <1>1 DEF NumberTooMany, NumberTooFew, TooMany, TooFew
<1> QED
  BY <1>1, <1>2

LEMMA InvalidCommentInv ==
    ASSUME SigInv, InvalidComment
    PROVE  SigInv'
<1>1. stage = "scan" /\ type_comments[line].kind = "invalid"
  BY DEF InvalidComment
<1>2. /\ IsDefinition /\ Count \in Nat /\ MaxLine \in Nat /\ func.colon \in 1..MaxLine
      /\ Scanning
  BY <1>1, SigIs DEF SigInv
<1>3. /\ ~Empty /\ line \in func.colon..MaxLine
      /\ \A l \in (line + 1)..MaxLine : type_comments[l].kind \in {"none", "regular"}
  BY <1>2 DEF Scanning
<1>4. Decisive = line /\ line \in 1..MaxLine /\ line > 0
  <2>1. Decisive = line
    BY <1>1, <1>2, <1>3, DecisiveIs
  <2> QED
    BY <1>2, <1>3, <2>1
<1>5. ~IsFunction
  BY <1>1, <1>4 DEF IsFunction
<1>6. arg_types = [i \in 1..Count |-> NoType] /\ errors = << >> /\ ret_type = NoType
  BY <1>2 DEF Scanning
<1>7. NumberTooMany = 0 /\ NumberTooFew = 0 /\ NumberInvalid = 1
  BY <1>4, <1>5, NoFunctionTypes DEF NumberInvalid
<1>8. arg_types' = [i \in 1..Count |-> Given(i)]
  <2>1. arg_types' = arg_types
    BY DEF InvalidComment
  <2> QED
    BY <1>5, <1>6, <2>1, NoFunctionTypes, Zenon
<1>9. /\ errors' \in Seq(Messages) /\ Times(errors', Duplicate) = 0
      /\ Times(errors', "too many") = NumberTooMany
      /\ Times(errors', "too few") = NumberTooFew
      /\ Times(errors', "invalid") = NumberInvalid
  <2> DEFINE e == Append(<< >>, "invalid")
  <2>1. errors' = e
    BY <1>6 DEF InvalidComment
  <2>2. "invalid" \in Messages
    BY DEF Messages
  <2>3. e \in Seq(Messages) /\ \A m : Times(e, m) = One("invalid" = m)
    BY <2>2, OneMessage
  <2>4. /\ One("invalid" = Duplicate) = 0 /\ One("invalid" = "too many") = 0
        /\ One("invalid" = "too few") = 0 /\ One("invalid" = "invalid") = 1
    BY DEF One, Duplicate
  <2> QED
    BY <1>7, <2>1, <2>3, <2>4, Zenon
<1>10. ret_type' = IF IsFunction THEN <<"return">> ELSE NoType
  BY <1>5, <1>6 DEF InvalidComment
<1>11. Decisive \in 0..MaxLine
  BY <1>2, <1>4
<1>12. stage' = "own" /\ UNCHANGED <<static, idx, written>>
  BY DEF InvalidComment
<1>13. SearchEnd
  BY <1>1, <1>8, <1>9, <1>10, <1>11, <1>12, Zenon DEF SearchEnd
<1> QED
  BY <1>13, SearchEnds

LEMMA OtherCommentInv ==
    ASSUME SigInv, OtherComment
    PROVE  SigInv'
<1>1. stage = "scan" /\ type_comments[line].kind \in {"none", "regular"}
  BY DEF OtherComment
<1>2. /\ IsDefinition /\ Count \in Nat /\ MaxLine \in Nat /\ func.colon \in 1..MaxLine
      /\ Scanning /\ idx \in 1..(Count + 1)
  BY <1>1, SigIs DEF SigInv
<1>3. /\ ~Empty /\ line \in func.colon..MaxLine
      /\ \A l \in (line + 1)..MaxLine : type_comments[l].kind \in {"none", "regular"}
  BY <1>2 DEF Scanning
<1>4. arg_types = [i \in 1..Count |-> NoType] /\ errors = << >> /\ ret_type = NoType /\ idx = 1
  BY <1>2 DEF Scanning
<1>5. UNCHANGED <<static, idx, arg_types, ret_type, errors, written>>
  BY DEF OtherComment
<1>6. CASE line = func.colon
  <2>1. stage' = "own"
    BY <1>6 DEF OtherComment
  <2>2. Decisive = 0
    BY <1>1, <1>2, <1>3, <1>6, DecisiveIs
  <2>3. ~IsFunction
    BY <2>2 DEF IsFunction
  <2>4. NumberTooMany = 0 /\ NumberTooFew = 0 /\ NumberInvalid = 0
    BY <2>2, <2>3, NoFunctionTypes DEF NumberInvalid
  <2>5. arg_types' = [i \in 1..Count |-> Given(i)]
    BY <1>4, <1>5, <2>3, NoFunctionTypes, Zenon
  <2>6. /\ errors' \in Seq(Messages) /\ Times(errors', Duplicate) = 0
        /\ Times(errors', "too many") = NumberTooMany
        /\ Times(errors', "too few") = NumberTooFew
        /\ Times(errors', "invalid") = NumberInvalid
    <3>1. errors' = << >> /\ << >> \in Seq(Messages)
      BY <1>4, <1>5
    <3>2. \A m : Times(<< >>, m) = 0
      BY TimesNone
    <3> QED
      BY <2>4, <3>1, <3>2, Zenon
  <2>7. ret_type' = IF IsFunction THEN <<"return">> ELSE NoType
    BY <1>4, <1>5, <2>3
  <2>8. Decisive \in 0..MaxLine
    BY <1>2, <2>2
  <2>9. UNCHANGED <<static, idx, written>>
    BY <1>5
  <2>10. SearchEnd
    BY <1>1, <2>1, <2>5, <2>6, <2>7, <2>8, <2>9, Zenon DEF SearchEnd
  <2> QED
    BY <2>10, SearchEnds
<1>7. CASE line # func.colon
  <2>1. line' = line - 1 /\ stage' = stage
    BY <1>7 DEF OtherComment
  <2>2. func' = func /\ type_comments' = type_comments /\ UNCHANGED static
    BY <1>5 DEF static
  <2>3. Count' = Count /\ (Empty' <=> Empty) /\ (IsDefinition' <=> IsDefinition)
    BY <2>2, Same
  <2>4. line' \in func.colon..MaxLine
    BY <1>2, <1>3, <1>7, <2>1
  <2>5. ASSUME NEW l \in (line' + 1)..MaxLine
        PROVE  type_comments[l].kind \in {"none", "regular"}
    <3>1. l = line \/ l \in (line + 1)..MaxLine
      BY <1>2, <1>3, <2>1
    <3> QED
      BY <1>1, <1>3, <3>1
  <2>6. idx' = 1 /\ ret_type' = NoType /\ errors' = << >>
        /\ arg_types' = [i \in 1..Count |-> NoType]
    BY <1>4, <1>5
  <2>7. Scanning'
    BY <1>3, <2>2, <2>3, <2>4, <2>5, <2>6 DEF Scanning
  <2>8. Written'
    <3>1. Len(written) = 0 /\ IsSequence(written)
      BY <1>1, OwnedIs DEF SigInv, Written
    <3>2. WrittenArguments' = 0 /\ stage' # "done" /\ written' = written
      BY <1>1, <1>5, <2>1 DEF WrittenArguments
    <3> QED
      BY <3>1, <3>2 DEF Written, IsSequence
  <2>9. idx' \in 1..(Count + 1)'
    BY <1>2, <1>5, <2>3
  <2> QED
    BY <1>1, <1>2, <2>1, <2>3, <2>7, <2>8, <2>9 DEF SigInv
<1> QED
  BY <1>6, <1>7

\* A contradiction met is counted.
LEMMA ErrorsNext ==
    ASSUME Errors, UNCHANGED static, NEW n, Owned' = n, NEW w, WrittenArguments' = w,
           NEW k \in {0, 1},
           errors' = IF k = 1 THEN Append(errors, Duplicate) ELSE errors,
           Cardinality(TwoComments(n)) + Cardinality(BesideAnnotations(w))
              + (IF stage' = "done" THEN NumberReturns ELSE 0)
            = Cardinality(TwoComments(Owned)) + Cardinality(BesideAnnotations(WrittenArguments))
              + (IF stage = "done" THEN NumberReturns ELSE 0) + k
    PROVE  Errors'
<1>1. errors \in Seq(Messages) /\ Duplicate \in Messages
  BY DEF Errors, Messages
<1>2. ASSUME NEW m, NEW j \in {0, 1}, m = Duplicate <=> j = 1
      PROVE  Times(errors', m) = Times(errors, m) + (IF j = 1 THEN k ELSE 0)
  <2>1. Times(errors, m) \in Nat
        /\ Times(Append(errors, Duplicate), m) = Times(errors, m) + One(Duplicate = m)
    BY <1>1, TimesNext
  <2>2. One(Duplicate = m) = IF j = 1 THEN 1 ELSE 0
    BY <1>2 DEF One
  <2>3. CASE k = 1
    BY <2>1, <2>2, <2>3
  <2>4. CASE k = 0
    BY <2>1, <2>4
  <2> QED
    BY <2>3, <2>4
<1>3. /\ Times(errors', Duplicate) = Times(errors, Duplicate) + k
      /\ Times(errors', "too many") = Times(errors, "too many") + 0
      /\ Times(errors', "too few") = Times(errors, "too few") + 0
      /\ Times(errors', "invalid") = Times(errors, "invalid") + 0
  <2>1. "too many" # Duplicate /\ "too few" # Duplicate /\ "invalid" # Duplicate
    BY DEF Duplicate
  <2>2. ASSUME NEW m, m # Duplicate
        PROVE  Times(errors', m) = Times(errors, m) + 0
    <3>1. Times(errors', m) = Times(errors, m) + (IF 0 = 1 THEN k ELSE 0)
      BY <1>2, <2>2
    <3> QED
      BY <3>1
  <2>3. Times(errors', Duplicate) = Times(errors, Duplicate) + (IF 1 = 1 THEN k ELSE 0)
    BY <1>2
  <2> QED
    BY <2>1, <2>2, <2>3
<1>4. Times(errors, "too many") \in Nat /\ Times(errors, "too few") \in Nat
      /\ Times(errors, "invalid") \in Nat
  BY <1>1, TimesNext
<1>5. /\ Times(errors', "too many") = NumberTooMany
      /\ Times(errors', "too few") = NumberTooFew
      /\ Times(errors', "invalid") = NumberInvalid
  <2>1. /\ Times(errors, "too many") = NumberTooMany
        /\ Times(errors, "too few") = NumberTooFew
        /\ Times(errors, "invalid") = NumberInvalid
    BY Zenon DEF Errors
  <2>2. \A x \in Nat : x + 0 = x
    OBVIOUS
  <2>3. /\ Times(errors', "too many") = Times(errors, "too many")
        /\ Times(errors', "too few") = Times(errors, "too few")
        /\ Times(errors', "invalid") = Times(errors, "invalid")
    BY <1>3, <1>4, <2>2, Zenon
  <2> QED
    BY <2>1, <2>3, Zenon
<1>6. Times(errors', Duplicate) = Cardinality(TwoComments(n)) + Cardinality(BesideAnnotations(w))
              + (IF stage' = "done" THEN NumberReturns ELSE 0)
  <2>1. Times(errors, Duplicate) = Cardinality(TwoComments(Owned))
                                     + Cardinality(BesideAnnotations(WrittenArguments))
                                     + (IF stage = "done" THEN NumberReturns ELSE 0)
    BY DEF Errors
  <2> QED
    BY <1>3, <2>1, Zenon
<1>7. errors' \in Seq(Messages)
  <2>1. Append(errors, Duplicate) \in Seq(Messages)
    BY <1>1, AppendProperties
  <2> QED
    BY <1>1, <2>1
<1> QED
  BY <1>5, <1>6, <1>7, Later

LEMMA OwnCommentInv ==
    ASSUME SigInv, OwnComment
    PROVE  SigInv'
<1> DEFINE p == func.parameters[idx]
           j == idx - 1
           k == IF HasOwn(p) /\ Given(idx) # NoType THEN 1 ELSE 0
<1>1. stage = "own" /\ idx <= Count /\ idx' = idx + 1
  BY DEF OwnComment
<1>2. UNCHANGED static /\ stage' = stage /\ ret_type' = ret_type /\ written' = written
  BY DEF OwnComment
<1>3. /\ IsDefinition /\ Count \in Nat /\ idx \in 1..(Count + 1) /\ Found /\ ~Empty
  BY <1>1, SigIs DEF SigInv
<1>4. idx \in 1..Count /\ j \in Nat /\ j + 1 = idx /\ idx \in Nat
  BY <1>1, <1>3
<1>5. Owned = j /\ WrittenArguments = 0
  BY <1>1, OwnedIs
<1>6. Count' = Count /\ (Empty' <=> Empty) /\ (IsDefinition' <=> IsDefinition)
      /\ (IsFunction' <=> IsFunction) /\ Decisive' = Decisive
  BY <1>2, Same
<1>7. Owned' = idx /\ WrittenArguments' = 0
  <2>1. Owned' = idx' - 1
    BY <1>1, <1>2 DEF Owned
  <2>2. WrittenArguments' = 0
    BY <1>1, <1>2 DEF WrittenArguments
  <2> QED
    BY <1>1, <1>4, <2>1, <2>2
<1>8. HasOwn(p) <=> FromOwn(idx)
  BY <1>3 DEF FromOwn
<1>9. arg_types = [i \in 1..Count |-> ArgType(i, j)]
  BY <1>3, <1>5 DEF Found
<1>10. arg_types[idx] = IF Given(idx) # NoType THEN Given(idx) ELSE NoType
  <2>1. arg_types[idx] = ArgType(idx, j)
    BY <1>4, <1>9
  <2>2. ~(idx <= j)
    BY <1>4
  <2>3. ArgType(idx, j) = IF Given(idx) # NoType THEN Given(idx) ELSE NoType
    BY <2>2 DEF ArgType
  <2> QED
    BY <2>1, <2>3
<1>11. Keeps(arg_types[idx]) <=> Given(idx) # NoType
  BY <1>10 DEF Keeps
<1>12. /\ ~HasOwn(p) => arg_types' = arg_types /\ errors' = errors
       /\ HasOwn(p) /\ Keeps(arg_types[idx]) =>
             arg_types' = arg_types /\ errors' = Append(errors, Duplicate)
       /\ HasOwn(p) /\ ~Keeps(arg_types[idx]) =>
             arg_types' = [arg_types EXCEPT ![idx] = <<"own", p.line>>] /\ errors' = errors
  BY DEF OwnComment
<1>13. \A i \in 1..Count : i # idx => ArgType(i, idx) = ArgType(i, j)
  <2>1. \A i \in 1..Count : i # idx => (i <= idx <=> i <= j)
    BY <1>4
  <2> QED
    BY <2>1 DEF ArgType
<1> HIDE DEF j, p
<1>14. arg_types' = [i \in 1..Count |-> ArgType(i, idx)]
  <2>1. CASE ~HasOwn(p) \/ Keeps(arg_types[idx])
    <3>1. arg_types' = arg_types
      BY <1>12, <2>1
    <3>2. ArgType(idx, idx) = ArgType(idx, j)
      BY <1>8, <1>11, <2>1 DEF ArgType
    <3>3. \A i \in 1..Count : ArgType(i, idx) = ArgType(i, j)
      BY <1>13, <3>2
    <3> QED
      BY <1>9, <3>1, <3>3
  <2>2. CASE HasOwn(p) /\ ~Keeps(arg_types[idx])
    <3>1. arg_types' = [arg_types EXCEPT ![idx] = <<"own", p.line>>]
      BY <1>12, <2>2
    <3>2. idx <= idx
      BY <1>4
    <3>3. ArgType(idx, idx) = <<"own", p.line>>
      BY <1>8, <1>11, <2>2, <3>2 DEF ArgType, p
    <3> DEFINE v == <<"own", p.line>>
    <3> HIDE DEF v
    <3>4. [arg_types EXCEPT ![idx] = v] = [i \in 1..Count |-> IF i = idx THEN v ELSE ArgType(i, j)]
      BY <1>4, <1>9
    <3>5. \A i \in 1..Count : (IF i = idx THEN v ELSE ArgType(i, j)) = ArgType(i, idx)
      BY <1>13, <3>3 DEF v
    <3>6. [arg_types EXCEPT ![idx] = v] = [i \in 1..Count |-> ArgType(i, idx)]
      BY <3>4, <3>5
    <3> QED
      BY <3>1, <3>6 DEF v
  <2> QED
    BY <2>1, <2>2
<1>15. k \in {0, 1} /\ errors' = IF k = 1 THEN Append(errors, Duplicate) ELSE errors
  <2>1. CASE k = 1
    BY <1>11, <1>12, <2>1
  <2>2. CASE k = 0
    BY <1>11, <1>12, <2>2
  <2> QED
    BY <2>1, <2>2
<1>16. Decisive \in 0..MaxLine /\ Errors /\ ret_type = IF IsFunction THEN <<"return">> ELSE NoType
  BY <1>3 DEF Found
<1>17. One(FromFunction(Stated, idx) > 0 /\ FromOwn(idx)) = k
  <2>1. Given(idx) # NoType <=> FromFunction(Stated, idx) > 0
    BY <1>3, <1>4, <1>16, GivenIs
  <2> QED
    BY <1>8, <2>1 DEF One
<1>18. Cardinality(TwoComments(idx)) = Cardinality(TwoComments(j)) + k
       /\ Cardinality(TwoComments(j)) \in Nat
  <2>1. /\ Cardinality(TwoComments(j)) \in Nat
        /\ Cardinality(TwoComments(j + 1)) = Cardinality(TwoComments(j))
                 + One(FromFunction(Stated, j + 1) > 0 /\ FromOwn(j + 1))
    BY <1>4, ContradictionsNext
  <2> QED
    BY <1>4, <1>17, <2>1
<1>19. Errors'
  <2> DEFINE t == Cardinality(TwoComments(j))
             b == Cardinality(BesideAnnotations(0))
             e == IF stage = "done" THEN NumberReturns ELSE 0
  <2>1. t \in Nat /\ b \in Nat
    BY <1>18, ContradictionsNext
  <2>2. e = 0 /\ (IF stage' = "done" THEN NumberReturns ELSE 0) = 0
    BY <1>1, <1>2
  <2> HIDE DEF t, b, e, k
  <2>3. t + k + b + 0 = t + b + 0 + k
    BY <1>15, <2>1
  <2>4. Cardinality(TwoComments(idx)) + Cardinality(BesideAnnotations(0))
              + (IF stage' = "done" THEN NumberReturns ELSE 0)
            = Cardinality(TwoComments(Owned)) + Cardinality(BesideAnnotations(WrittenArguments))
              + (IF stage = "done" THEN NumberReturns ELSE 0) + k
    BY <1>5, <1>18, <2>2, <2>3, Zenon DEF t, b, e
  <2> QED
    BY <1>2, <1>7, <1>15, <1>16, <2>4, ErrorsNext
<1>20. (arg_types = [i \in 1..Count |-> ArgType(i, Owned)])'
  BY <1>2, <1>7, <1>14, Later
<1>21. Found'
  <2>1. (ret_type = IF IsFunction THEN <<"return">> ELSE NoType)'
    BY <1>2, <1>6, <1>16
  <2> QED
    BY <1>6, <1>16, <1>19, <1>20, <2>1 DEF Found
<1>22. Written'
  <2>1. Len(written) = 0 /\ IsSequence(written)
    BY <1>1, <1>5 DEF SigInv, Written
  <2> QED
    BY <1>1, <1>2, <1>7, <2>1 DEF Written, IsSequence
<1>23. idx' \in 1..(Count + 1)'
  BY <1>1, <1>3, <1>4, <1>6
<1> QED
  BY <1>1, <1>2, <1>3, <1>6, <1>21, <1>22, <1>23 DEF SigInv

LEMMA OwnDoneInv ==
    ASSUME SigInv, OwnDone
    PROVE  SigInv'
<1>1. stage = "own" /\ idx > Count /\ stage' = "arguments" /\ idx' = 1
  BY DEF OwnDone
<1>2. UNCHANGED <<static, arg_types, ret_type, errors, written>>
  BY DEF OwnDone
<1>3. /\ IsDefinition /\ Count \in Nat /\ idx \in 1..(Count + 1) /\ Found
  BY <1>1, SigIs
<1>4. idx - 1 = Count
  BY <1>1, <1>3
<1>5. Owned = Count /\ WrittenArguments = 0
  BY <1>1, <1>4, OwnedIs
<1>6. Count' = Count /\ (IsDefinition' <=> IsDefinition)
      /\ (IsFunction' <=> IsFunction) /\ Decisive' = Decisive
  BY <1>2, Same
<1>7. Owned' = Count /\ WrittenArguments' = 0
  BY <1>1, <1>6 DEF Owned, WrittenArguments
<1>8. /\ Decisive \in 0..MaxLine /\ Errors
      /\ arg_types = [i \in 1..Count |-> ArgType(i, Owned)]
      /\ ret_type = IF IsFunction THEN <<"return">> ELSE NoType
  BY <1>3 DEF Found
<1>9. Errors'
  <2>1. (IF stage' = "done" THEN NumberReturns ELSE 0) = (IF stage = "done" THEN NumberReturns ELSE 0)
    BY <1>1
  <2>2. /\ errors' \in Seq(Messages)
        /\ Times(errors', Duplicate) = Cardinality(TwoComments(Count))
              + Cardinality(BesideAnnotations(0))
              + (IF stage' = "done" THEN NumberReturns ELSE 0)
        /\ Times(errors', "too many") = NumberTooMany
        /\ Times(errors', "too few") = NumberTooFew
        /\ Times(errors', "invalid") = NumberInvalid
    BY <1>2, <1>5, <1>8, <2>1, Zenon DEF Errors
  <2> QED
    BY <1>2, <1>7, <2>2, Later
<1>10. (arg_types = [i \in 1..Count |-> ArgType(i, Owned)])'
  <2>1. arg_types' = [i \in 1..Count |-> ArgType(i, Count)]
    BY <1>2, <1>5, <1>8, Zenon
  <2> QED
    BY <1>2, <1>7, <2>1, Later
<1>11. Found'
  <2>1. (ret_type = IF IsFunction THEN <<"return">> ELSE NoType)'
    <3>1. ret_type' = IF IsFunction THEN <<"return">> ELSE NoType
      BY <1>2, <1>8, Zenon
    <3> QED
      BY <1>6, <3>1
  <2> QED
    BY <1>6, <1>8, <1>9, <1>10, <2>1 DEF Found
<1>12. Written'
  <2>1. Len(written) = 0 /\ IsSequence(written)
    BY <1>1, <1>5 DEF SigInv, Written
  <2> QED
    BY <1>1, <1>2, <1>7, <2>1 DEF Written, IsSequence
<1>13. idx' \in 1..(Count + 1)'
  BY <1>1, <1>3, <1>6
<1> QED
  BY <1>1, <1>3, <1>6, <1>11, <1>12, <1>13 DEF SigInv

LEMMA AppendAny ==
    ASSUME NEW s, IsSequence(s), NEW v
    PROVE  /\ IsSequence(Append(s, v)) /\ Len(Append(s, v)) = Len(s) + 1
           /\ \A i \in 1..Len(s) : Append(s, v)[i] = s[i]
           /\ Append(s, v)[Len(s) + 1] = v /\ Last(Append(s, v)) = v
<1> DEFINE n == Len(s)
           S == {s[i] : i \in 1..n} \cup {v}
           q == Append(s, v)
<1>1. n \in Nat /\ s = [i \in 1..n |-> s[i]]
  BY DEF IsSequence
<1>2. s \in Seq(S) /\ v \in S
  <2>1. \A i \in 1..n : s[i] \in S
    OBVIOUS
  <2> HIDE DEF S
  <2>2. [i \in 1..n |-> s[i]] \in Seq(S)
    BY <1>1, <2>1
  <2> QED
    BY <1>1, <2>2 DEF S
<1> HIDE DEF S
<1>3. q \in Seq(S) /\ Len(q) = n + 1 /\ q[n + 1] = v /\ \A i \in 1..n : q[i] = s[i]
  BY <1>2, AppendProperties
<1> HIDE DEF q
<1>4. IsSequence(q)
  BY <1>1, <1>3 DEF IsSequence
<1>5. Last(q) = v
  BY <1>3 DEF Last
<1> QED
  BY <1>3, <1>4, <1>5 DEF q

\* A parameter has a type comment if one was for it.
LEMMA CommentIs ==
    ASSUME IsDefinition, Decisive \in 0..MaxLine, Count \in Nat, NEW i \in 1..Count
    PROVE  ArgType(i, Count) # NoType <=> FromFunction(Stated, i) > 0 \/ FromOwn(i)
<1>1. Given(i) # NoType <=> FromFunction(Stated, i) > 0
  BY GivenIs
<1>2. i <= Count
  OBVIOUS
<1>3. <<"own", func.parameters[i].line>> # NoType
  BY NoTypeIs
<1> QED
  BY <1>1, <1>2, <1>3 DEF ArgType

LEMMA ArgumentInv ==
    ASSUME SigInv, Argument
    PROVE  SigInv'
<1> DEFINE p == func.parameters[idx]
           j == idx - 1
           comment == arg_types[idx]
           k == IF p.annotated /\ comment # NoType THEN 1 ELSE 0
           v == [kind     |-> Kind(p),
                 type     |-> IF p.annotated THEN <<"annotation">> ELSE comment,
                 pos_only |-> PosOnly(p)]
<1>1. stage = "arguments" /\ idx <= Count /\ idx' = idx + 1
  BY DEF Argument
<1>2. UNCHANGED static /\ stage' = stage /\ ret_type' = ret_type /\ arg_types' = arg_types
  BY DEF Argument
<1>3. errors' = IF p.annotated /\ comment # NoType THEN Append(errors, Duplicate) ELSE errors
  BY DEF Argument
<1>4. written' = Append(written, v)
  BY DEF Argument
<1>5. v.type = IF p.annotated THEN <<"annotation">> ELSE comment
  OBVIOUS
<1> HIDE DEF v
<1>6. /\ IsDefinition /\ Count \in Nat /\ idx \in 1..(Count + 1) /\ Found
  BY <1>1, SigIs
<1>7. idx \in 1..Count /\ j \in Nat /\ j + 1 = idx /\ idx \in Nat
  BY <1>1, <1>6
<1>8. Owned = Count /\ WrittenArguments = j
  BY <1>1, OwnedIs
<1>9. Count' = Count /\ (IsDefinition' <=> IsDefinition)
      /\ (IsFunction' <=> IsFunction) /\ Decisive' = Decisive
  BY <1>2, Same
<1>10. Owned' = Count /\ WrittenArguments' = idx
  <2>1. WrittenArguments' = idx' - 1
    BY <1>1, <1>2 DEF WrittenArguments
  <2>2. Owned' = Count
    BY <1>1, <1>2, <1>9 DEF Owned
  <2> QED
    BY <1>1, <1>7, <2>1, <2>2
<1>11. /\ Decisive \in 0..MaxLine /\ Errors
       /\ arg_types = [i \in 1..Count |-> ArgType(i, Owned)]
       /\ ret_type = IF IsFunction THEN <<"return">> ELSE NoType
  BY <1>6 DEF Found
<1>12. comment = ArgType(idx, Count)
  BY <1>7, <1>8, <1>11
<1> HIDE DEF comment
<1>13. comment # NoType <=> FromFunction(Stated, idx) > 0 \/ FromOwn(idx)
  BY <1>6, <1>7, <1>11, <1>12, CommentIs
<1>14. One(p.annotated /\ (FromFunction(Stated, idx) > 0 \/ FromOwn(idx))) = k
  BY <1>13 DEF One
<1>15. Cardinality(BesideAnnotations(idx)) = Cardinality(BesideAnnotations(j)) + k
       /\ Cardinality(BesideAnnotations(j)) \in Nat
  <2>1. /\ Cardinality(BesideAnnotations(j)) \in Nat
        /\ Cardinality(BesideAnnotations(j + 1)) = Cardinality(BesideAnnotations(j))
                 + One(/\ func.parameters[j + 1].annotated
                       /\ FromFunction(Stated, j + 1) > 0 \/ FromOwn(j + 1))
    BY <1>7, ContradictionsNext
  <2> QED
    BY <1>7, <1>14, <2>1
<1>16. k \in {0, 1} /\ errors' = IF k = 1 THEN Append(errors, Duplicate) ELSE errors
  BY <1>3
<1> HIDE DEF j, p, k
<1>17. Errors'
  <2> DEFINE t == Cardinality(TwoComments(Count))
             b == Cardinality(BesideAnnotations(j))
             e == IF stage = "done" THEN NumberReturns ELSE 0
  <2>1. t \in Nat /\ b \in Nat
    BY <1>6, <1>15, ContradictionsNext
  <2>2. e = 0 /\ (IF stage' = "done" THEN NumberReturns ELSE 0) = 0
    BY <1>1, <1>2
  <2> HIDE DEF t, b, e
  <2>3. t + (b + k) + 0 = t + b + 0 + k
    BY <1>16, <2>1
  <2>4. Cardinality(TwoComments(Count)) + Cardinality(BesideAnnotations(idx))
              + (IF stage' = "done" THEN NumberReturns ELSE 0)
            = Cardinality(TwoComments(Owned)) + Cardinality(BesideAnnotations(WrittenArguments))
              + (IF stage = "done" THEN NumberReturns ELSE 0) + k
    BY <1>8, <1>15, <2>2, <2>3, Zenon DEF t, b, e
  <2> QED
    BY <1>2, <1>10, <1>11, <1>16, <2>4, ErrorsNext
<1>18. (arg_types = [i \in 1..Count |-> ArgType(i, Owned)])'
  <2>1. arg_types' = [i \in 1..Count |-> ArgType(i, Count)]
    BY <1>2, <1>8, <1>11, Zenon
  <2> QED
    BY <1>2, <1>10, <2>1, Later
<1>19. Found'
  <2>1. (ret_type = IF IsFunction THEN <<"return">> ELSE NoType)'
    BY <1>2, <1>9, <1>11
  <2> QED
    BY <1>9, <1>11, <1>17, <1>18, <2>1 DEF Found
<1>20. Written'
  <2>1. IsSequence(written) /\ Len(written) = j
    BY <1>1, <1>8 DEF SigInv, Written
  <2>2. \A i \in 1..j :
           written[i].type = IF func.parameters[i].annotated THEN <<"annotation">> ELSE arg_types[i]
    BY <1>8 DEF SigInv, Written
  <2> DEFINE q == Append(written, v)
  <2>3. /\ IsSequence(q) /\ Len(q) = j + 1
        /\ \A i \in 1..j : q[i] = written[i]
        /\ q[j + 1] = v
    BY <2>1, AppendAny
  <2> HIDE DEF q
  <2>4. ASSUME NEW i \in 1..idx
        PROVE  q[i].type = IF func.parameters[i].annotated THEN <<"annotation">> ELSE arg_types[i]
    <3>1. CASE i = idx
      BY <1>5, <1>7, <2>3, <3>1 DEF p, comment
    <3>2. CASE i # idx
      <4>1. i \in 1..j
        BY <1>7, <3>2
      <4> QED
        BY <2>2, <2>3, <4>1
    <3> QED
      BY <3>1, <3>2
  <2>5. written' = q
    BY <1>4 DEF q
  <2>6. IsSequence(written)' /\ Len(written') = idx
    BY <1>7, <2>3, <2>5 DEF IsSequence
  <2>7. func' = func
    BY <1>2 DEF static
  <2>8. \A i \in 1..WrittenArguments' :
           written'[i].type = IF func'.parameters[i].annotated THEN <<"annotation">> ELSE arg_types'[i]
    BY <1>2, <1>10, <2>4, <2>5, <2>7
  <2> QED
    BY <1>1, <1>2, <1>10, <2>6, <2>8 DEF Written
<1>21. idx' \in 1..(Count + 1)'
  BY <1>1, <1>6, <1>7, <1>9
<1> QED
  BY <1>1, <1>2, <1>6, <1>9, <1>19, <1>20, <1>21 DEF SigInv

LEMMA BodyInv ==
    ASSUME SigInv, Body
    PROVE  SigInv'
<1>1. stage = "arguments" /\ idx > Count /\ stage' = "return" /\ idx' = idx
  BY DEF Body
<1>2. UNCHANGED <<static, arg_types, ret_type, errors, written>>
  BY DEF Body
<1>3. /\ IsDefinition /\ Count \in Nat /\ idx \in 1..(Count + 1) /\ Found
  BY <1>1, SigIs
<1>4. idx = Count + 1 /\ idx - 1 = Count
  BY <1>1, <1>3
<1>5. Owned = Count /\ WrittenArguments = Count
  BY <1>1, <1>4, OwnedIs
<1>6. Count' = Count /\ (IsDefinition' <=> IsDefinition)
      /\ (IsFunction' <=> IsFunction) /\ Decisive' = Decisive
  BY <1>2, Same
<1>7. Owned' = Count /\ WrittenArguments' = Count
  BY <1>1, <1>6 DEF Owned, WrittenArguments
<1>8. /\ Decisive \in 0..MaxLine /\ Errors
      /\ arg_types = [i \in 1..Count |-> ArgType(i, Owned)]
      /\ ret_type = IF IsFunction THEN <<"return">> ELSE NoType
  BY <1>3 DEF Found
<1>9. Errors'
  <2>1. (IF stage' = "done" THEN NumberReturns ELSE 0) = (IF stage = "done" THEN NumberReturns ELSE 0)
    BY <1>1
  <2>2. /\ errors' \in Seq(Messages)
        /\ Times(errors', Duplicate) = Cardinality(TwoComments(Count))
              + Cardinality(BesideAnnotations(Count))
              + (IF stage' = "done" THEN NumberReturns ELSE 0)
        /\ Times(errors', "too many") = NumberTooMany
        /\ Times(errors', "too few") = NumberTooFew
        /\ Times(errors', "invalid") = NumberInvalid
    BY <1>2, <1>5, <1>8, <2>1, Zenon DEF Errors
  <2> QED
    BY <1>2, <1>7, <2>2, Later
<1>10. (arg_types = [i \in 1..Count |-> ArgType(i, Owned)])'
  <2>1. arg_types' = [i \in 1..Count |-> ArgType(i, Count)]
    BY <1>2, <1>5, <1>8, Zenon
  <2> QED
    BY <1>2, <1>7, <2>1, Later
<1>11. Found'
  <2>1. (ret_type = IF IsFunction THEN <<"return">> ELSE NoType)'
    <3>1. ret_type' = IF IsFunction THEN <<"return">> ELSE NoType
      BY <1>2, <1>8, Zenon
    <3> QED
      BY <1>6, <3>1
  <2> QED
    BY <1>6, <1>8, <1>9, <1>10, <2>1 DEF Found
<1>12. Written'
  <2>1. /\ IsSequence(written) /\ Len(written) = Count
        /\ \A i \in 1..Count :
              written[i].type = IF func.parameters[i].annotated THEN <<"annotation">> ELSE arg_types[i]
    BY <1>1, <1>5 DEF SigInv, Written
  <2>2. func' = func
    BY <1>2 DEF static
  <2>3. \A i \in 1..WrittenArguments' :
           written'[i].type = IF func'.parameters[i].annotated THEN <<"annotation">> ELSE arg_types'[i]
    BY <1>2, <1>7, <2>1, <2>2
  <2>4. IsSequence(written)' /\ Len(written') = WrittenArguments'
    BY <1>2, <1>7, <2>1 DEF IsSequence
  <2> QED
    BY <1>1, <2>3, <2>4 DEF Written
<1>13. idx' \in 1..(Count + 1)' /\ idx' = (Count + 1)'
  BY <1>1, <1>3, <1>4, <1>6
<1> QED
  BY <1>1, <1>3, <1>6, <1>11, <1>12, <1>13 DEF SigInv

LEMMA ReturnInv ==
    ASSUME SigInv, Return
    PROVE  SigInv'
<1> DEFINE k == IF func.returns /\ ret_type # NoType THEN 1 ELSE 0
           flag == ret_type # NoType \/ \E i \in 1..Count : arg_types[i] # NoType
           v == [type         |-> IF func.returns THEN <<"annotation">> ELSE ret_type,
                 type_comment |-> flag]
<1>1. stage = "return" /\ stage' = "done" /\ idx' = idx
  BY DEF Return
<1>2. UNCHANGED static /\ ret_type' = ret_type /\ arg_types' = arg_types
  BY DEF Return
<1>3. errors' = IF func.returns /\ ret_type # NoType THEN Append(errors, Duplicate) ELSE errors
  BY DEF Return
<1>4. written' = Append(written, v)
  BY DEF Return
<1> HIDE DEF flag
<1>5. v.type = (IF func.returns THEN <<"annotation">> ELSE ret_type) /\ v.type_comment = flag
  OBVIOUS
<1> HIDE DEF v
<1>6. /\ IsDefinition /\ Count \in Nat /\ idx \in 1..(Count + 1) /\ Found /\ idx = Count + 1
  BY <1>1, SigIs DEF SigInv
<1>7. Owned = Count /\ WrittenArguments = Count
  BY <1>1, OwnedIs
<1>8. Count' = Count /\ (IsDefinition' <=> IsDefinition)
      /\ (IsFunction' <=> IsFunction) /\ Decisive' = Decisive
  BY <1>2, Same
<1>9. Owned' = Count /\ WrittenArguments' = Count
  BY <1>1, <1>8 DEF Owned, WrittenArguments
<1>10. /\ Decisive \in 0..MaxLine /\ Errors
       /\ arg_types = [i \in 1..Count |-> ArgType(i, Owned)]
       /\ ret_type = IF IsFunction THEN <<"return">> ELSE NoType
  BY <1>6 DEF Found
<1>11. ret_type # NoType <=> IsFunction
  BY <1>10, NoTypeIs
<1>12. k = NumberReturns
  BY <1>11 DEF NumberReturns
<1>13. k \in {0, 1} /\ errors' = IF k = 1 THEN Append(errors, Duplicate) ELSE errors
  BY <1>3
<1> HIDE DEF k
<1>14. Errors'
  <2> DEFINE t == Cardinality(TwoComments(Count))
             b == Cardinality(BesideAnnotations(Count))
             e == IF stage = "done" THEN NumberReturns ELSE 0
  <2>1. t \in Nat /\ b \in Nat
    BY <1>6, ContradictionsNext
  <2>2. e = 0 /\ (IF stage' = "done" THEN NumberReturns ELSE 0) = k
    BY <1>1, <1>12
  <2> HIDE DEF t, b, e
  <2>3. t + b + k = t + b + 0 + k
    BY <1>13, <2>1
  <2>4. Cardinality(TwoComments(Count)) + Cardinality(BesideAnnotations(Count))
              + (IF stage' = "done" THEN NumberReturns ELSE 0)
            = Cardinality(TwoComments(Owned)) + Cardinality(BesideAnnotations(WrittenArguments))
              + (IF stage = "done" THEN NumberReturns ELSE 0) + k
    BY <1>7, <2>2, <2>3, Zenon DEF t, b, e
  <2> QED
    BY <1>2, <1>9, <1>10, <1>13, <2>4, ErrorsNext
<1>15. (arg_types = [i \in 1..Count |-> ArgType(i, Owned)])'
  <2>1. arg_types' = [i \in 1..Count |-> ArgType(i, Count)]
    BY <1>2, <1>7, <1>10, Zenon
  <2> QED
    BY <1>2, <1>9, <2>1, Later
<1>16. Found'
  <2>1. (ret_type = IF IsFunction THEN <<"return">> ELSE NoType)'
    BY <1>2, <1>8, <1>10
  <2> QED
    BY <1>8, <1>10, <1>14, <1>15, <2>1 DEF Found
<1>17. Written'
  <2>1. /\ IsSequence(written) /\ Len(written) = Count
        /\ \A i \in 1..Count :
              written[i].type = IF func.parameters[i].annotated THEN <<"annotation">> ELSE arg_types[i]
    BY <1>1, <1>7 DEF SigInv, Written
  <2> DEFINE q == Append(written, v)
  <2>2. /\ IsSequence(q) /\ Len(q) = Count + 1
        /\ \A i \in 1..Count : q[i] = written[i]
        /\ Last(q) = v
    BY <2>1, AppendAny
  <2> HIDE DEF q
  <2>3. written' = q
    BY <1>4 DEF q
  <2>4. func' = func
    BY <1>2 DEF static
  <2>5. \A i \in 1..WrittenArguments' :
           written'[i].type = IF func'.parameters[i].annotated THEN <<"annotation">> ELSE arg_types'[i]
    BY <1>2, <1>9, <2>1, <2>2, <2>3, <2>4
  <2>6. IsSequence(written)' /\ Len(written') = (Count + 1)'
    BY <1>8, <2>2, <2>3 DEF IsSequence
  <2>7. Last(written)' = v
    BY <2>2, <2>3 DEF Last
  <2>8. Last(written)'.type = (IF func'.returns THEN <<"annotation">> ELSE ret_type')
    BY <1>2, <1>5, <2>4, <2>7
  <2>9. Last(written)'.type_comment <=>
           (ret_type # NoType \/ \E i \in 1..Count : arg_types[i] # NoType)'
    <3>1. Last(written)'.type_comment = flag
      BY <1>5, <2>7
    <3>2. flag <=> (ret_type # NoType \/ \E i \in 1..Count : arg_types[i] # NoType)'
      BY <1>2, <1>8 DEF flag
    <3> QED
      BY <3>1, <3>2
  <2> QED
    BY <1>1, <2>5, <2>6, <2>8, <2>9 DEF Written
<1>18. idx' \in 1..(Count + 1)' /\ idx' = (Count + 1)'
  BY <1>1, <1>6, <1>8
<1> QED
  BY <1>1, <1>6, <1>8, <1>16, <1>17, <1>18 DEF SigInv

LEMMA StutterInv ==
    ASSUME SigInv, UNCHANGED vars
    PROVE  SigInv'
<1>1. UNCHANGED static /\ UNCHANGED <<stage, line, idx, arg_types, ret_type, errors, written>>
  BY DEF vars, static
<1>2. /\ IsDefinition /\ Count \in Nat /\ idx \in 1..(Count + 1)
  BY SigIs
<1>3. Count' = Count /\ (IsDefinition' <=> IsDefinition) /\ (Empty' <=> Empty)
      /\ (IsFunction' <=> IsFunction) /\ Decisive' = Decisive
  BY <1>1, Same
<1>4. Owned' = Owned /\ WrittenArguments' = WrittenArguments
  BY <1>1, <1>3 DEF Owned, WrittenArguments
<1>5. func' = func /\ type_comments' = type_comments
  BY <1>1 DEF static
<1>6. Written'
  <2>1. Written
    BY DEF SigInv
  <2> QED
    BY <1>1, <1>3, <1>4, <1>5, <2>1 DEF Written, IsSequence, Last
<1>7. Scanning => Scanning'
  BY <1>1, <1>3, <1>5 DEF Scanning
<1>8. ASSUME Found
      PROVE  Found'
  <2>1. /\ Decisive \in 0..MaxLine /\ Errors
        /\ arg_types = [i \in 1..Count |-> ArgType(i, Owned)]
        /\ ret_type = IF IsFunction THEN <<"return">> ELSE NoType
    BY <1>8 DEF Found
  <2>2. Errors'
    <3>1. (IF stage' = "done" THEN NumberReturns ELSE 0) = (IF stage = "done" THEN NumberReturns ELSE 0)
      BY <1>1
    <3>2. /\ errors' \in Seq(Messages)
          /\ Times(errors', Duplicate) = Cardinality(TwoComments(Owned))
                + Cardinality(BesideAnnotations(WrittenArguments))
                + (IF stage' = "done" THEN NumberReturns ELSE 0)
          /\ Times(errors', "too many") = NumberTooMany
          /\ Times(errors', "too few") = NumberTooFew
          /\ Times(errors', "invalid") = NumberInvalid
      BY <1>1, <2>1, <3>1, Zenon DEF Errors
    <3> QED
      BY <1>1, <1>4, <3>2, Later
  <2>3. (arg_types = [i \in 1..Count |-> ArgType(i, Owned)])'
    <3>1. arg_types' = [i \in 1..Count |-> ArgType(i, Owned)]
      BY <1>1, <2>1, Zenon
    <3> QED
      BY <1>1, <1>4, <3>1, Later
  <2>4. (ret_type = IF IsFunction THEN <<"return">> ELSE NoType)'
    BY <1>1, <1>3, <2>1
  <2> QED
    BY <1>3, <2>1, <2>2, <2>3, <2>4 DEF Found
<1>9. IF stage = "scan" THEN Scanning' ELSE Found'
  BY <1>7, <1>8 DEF SigInv
<1> QED
  BY <1>1, <1>2, <1>3, <1>6, <1>9 DEF SigInv

\* The comment of the function a search has come to is the one that decides.
LEMMA CommentDecides ==
    ASSUME SigInv, stage = "scan", type_comments[line].kind = "function"
    PROVE  /\ Count \in Nat /\ IsFunction
           /\ Overflows(type_comments[line].args) <=> Overflowed
<1> DEFINE a == type_comments[line].args
<1>1. /\ IsDefinition /\ Count \in Nat /\ MaxLine \in Nat /\ func.colon \in 1..MaxLine
      /\ Scanning
  BY SigIs DEF SigInv
<1>2. /\ ~Empty /\ line \in func.colon..MaxLine
      /\ \A l \in (line + 1)..MaxLine : type_comments[l].kind \in {"none", "regular"}
  BY <1>1 DEF Scanning
<1>3. Decisive = line /\ line \in 1..MaxLine /\ line > 0
  <2>1. Decisive = line
    BY <1>1, <1>2, DecisiveIs
  <2> QED
    BY <1>1, <1>2, <2>1
<1>4. IsFunction
  BY <1>3 DEF IsFunction
<1>5. a = type_comments[Decisive].args /\ Decisive \in 1..MaxLine
  BY <1>3
<1> HIDE DEF a
<1>6. a \in Seq(Seq(TokenKinds)) /\ Len(a) = Len(Stated)
      /\ (Counts(Stated) <=> ~(Len(a) = 1 /\ IsEllipsis(a[1])))
  BY <1>1, <1>4, <1>5, FunctionIs
<1>7. Len(a) \in Nat
  BY <1>6, LenProperties
<1>8. Overflows(a) <=> overflow_checks /\ in_class /\ Count = 0 /\ Len(Stated) # 0 /\ Counts(Stated)
  BY <1>6 DEF Overflows
<1>9. Overflowed <=> overflow_checks /\ in_class /\ Count = 0 /\ Counts(Stated) /\ Len(Stated) > 0
  BY DEF Overflowed, TooMany
<1> QED
  BY <1>1, <1>4, <1>6, <1>7, <1>8, <1>9 DEF a

LEMMA NotOverflowed ==
    ASSUME ~IsFunction
    PROVE  ~Overflowed
BY NotFunction DEF Overflowed, TooMany

LEMMA SearchNotOverflowed ==
    ASSUME SigInv, stage = "scan", FunctionComment \/ InvalidComment \/ OtherComment,
           stage' # "scan"
    PROVE  ~Overflowed
<1>1. CASE FunctionComment
  BY <1>1, CommentDecides DEF FunctionComment
<1>2. CASE InvalidComment \/ OtherComment
  <2>1. /\ IsDefinition /\ Count \in Nat /\ MaxLine \in Nat /\ func.colon \in 1..MaxLine
        /\ Scanning
    BY SigIs DEF SigInv
  <2>2. /\ ~Empty /\ line \in func.colon..MaxLine
        /\ \A l \in (line + 1)..MaxLine : type_comments[l].kind \in {"none", "regular"}
    BY <2>1 DEF Scanning
  <2>3. CASE InvalidComment
    <3>1. type_comments[line].kind = "invalid"
      BY <2>3 DEF InvalidComment
    <3>2. Decisive = line
      BY <2>1, <2>2, <3>1, DecisiveIs
    <3> QED
      BY <3>1, <3>2, NotOverflowed DEF IsFunction
  <2>4. CASE OtherComment
    <3>1. line = func.colon /\ type_comments[line].kind \in {"none", "regular"}
      BY <2>4 DEF OtherComment
    <3>2. Decisive = 0
      BY <2>1, <2>2, <3>1, DecisiveIs
    <3> QED
      BY <3>2, NotOverflowed DEF IsFunction
  <2> QED
    BY <1>2, <2>3, <2>4
<1> QED
  BY <1>1, <1>2

LEMMA StageNext ==
    /\ FunctionComment \/ InvalidComment \/ OtherComment =>
          UNCHANGED static /\ stage = "scan" /\ stage' \in {"scan", "own"}
    /\ OwnComment \/ OwnDone \/ Argument \/ Body \/ Return =>
          /\ UNCHANGED static /\ stage \notin {"scan", "panicked"}
          /\ stage' \notin {"scan", "panicked"}
    /\ SubtractionPanics => UNCHANGED static /\ stage = "scan" /\ stage' = "panicked"
    /\ Done \/ UNCHANGED vars => UNCHANGED static /\ stage' = stage
<1>1. FunctionComment \/ InvalidComment \/ OtherComment =>
          UNCHANGED static /\ stage = "scan" /\ stage' \in {"scan", "own"}
  BY DEF FunctionComment, InvalidComment, OtherComment
<1>2. OwnComment \/ OwnDone \/ Argument \/ Body \/ Return =>
          /\ UNCHANGED static /\ stage \notin {"scan", "panicked"}
          /\ stage' \notin {"scan", "panicked"}
  BY DEF OwnComment, OwnDone, Argument, Body, Return
<1>3. SubtractionPanics => UNCHANGED static /\ stage = "scan" /\ stage' = "panicked"
  BY DEF SubtractionPanics
<1>4. Done \/ UNCHANGED vars => UNCHANGED static /\ stage' = stage
  BY DEF Done, vars, static
<1> QED
  BY <1>1, <1>2, <1>3, <1>4

LEMMA NextInv ==
    ASSUME SigInv, [Next]_vars, ~SubtractionPanics
    PROVE  SigInv'
<1>1. CASE FunctionComment
  BY <1>1, FunctionCommentInv
<1>2. CASE InvalidComment
  BY <1>2, InvalidCommentInv
<1>3. CASE OtherComment
  BY <1>3, OtherCommentInv
<1>4. CASE OwnComment
  BY <1>4, OwnCommentInv
<1>5. CASE OwnDone
  BY <1>5, OwnDoneInv
<1>6. CASE Argument
  BY <1>6, ArgumentInv
<1>7. CASE Body
  BY <1>7, BodyInv
<1>8. CASE Return
  BY <1>8, ReturnInv
<1>9. CASE Done
  BY <1>9, StutterInv DEF Done
<1>10. CASE UNCHANGED vars
  BY <1>10, StutterInv
<1> QED
  BY <1>1, <1>2, <1>3, <1>4, <1>5, <1>6, <1>7, <1>8, <1>9, <1>10 DEF Next

LEMMA PanicNext ==
    ASSUME PanicInv, [Next]_vars
    PROVE  PanicInv'
<1>1. UNCHANGED static /\ (Overflowed' <=> Overflowed)
  <2>1. UNCHANGED static
    BY StageNext, Zenon DEF Next
  <2> QED
    BY <2>1, Same
<1>2. CASE SubtractionPanics
  <2>1. stage = "scan" /\ stage' = "panicked"
    BY <1>2, StageNext
  <2>2. SigInv
    BY <2>1 DEF PanicInv
  <2>3. Overflowed
    BY <1>2, <2>1, <2>2, CommentDecides DEF SubtractionPanics
  <2> QED
    BY <1>1, <2>1, <2>3 DEF PanicInv
<1>3. CASE FunctionComment \/ InvalidComment \/ OtherComment
  <2>1. stage = "scan" /\ stage' # "panicked" /\ ~SubtractionPanics
    BY <1>3, StageNext
  <2>2. SigInv
    BY <2>1 DEF PanicInv
  <2>3. SigInv'
    BY <2>1, <2>2, NextInv
  <2>4. stage' # "scan" => ~Overflowed
    BY <1>3, <2>1, <2>2, SearchNotOverflowed
  <2> QED
    BY <1>1, <2>1, <2>3, <2>4 DEF PanicInv
<1>4. CASE OwnComment \/ OwnDone \/ Argument \/ Body \/ Return
  <2>1. stage \notin {"scan", "panicked"} /\ stage' \notin {"scan", "panicked"} /\ ~SubtractionPanics
    BY <1>4, StageNext
  <2>2. SigInv /\ ~Overflowed
    BY <2>1 DEF PanicInv
  <2>3. SigInv'
    BY <2>1, <2>2, NextInv
  <2> QED
    BY <1>1, <2>1, <2>2, <2>3 DEF PanicInv
<1>5. CASE Done \/ UNCHANGED vars
  <2>1. stage' = stage
    BY <1>5, StageNext
  <2>2. SigInv => SigInv'
    BY <1>5, StutterInv DEF Done
  <2> QED
    BY <1>1, <2>1, <2>2 DEF PanicInv
<1> QED
  BY <1>2, <1>3, <1>4, <1>5, Zenon DEF Next

LEMMA PanicInit ==
    ASSUME Init
    PROVE  PanicInv
<1>1. SigInv /\ stage = IF Empty THEN "arguments" ELSE "scan"
  BY InitInv DEF Init
<1>2. Empty => ~Overflowed
  <2>1. Empty => ~IsFunction
    BY DecisiveOfEmpty DEF IsFunction
  <2> QED
    BY <2>1, NotOverflowed
<1> QED
  BY <1>1, <1>2 DEF PanicInv

LEMMA SignatureInvariant == Spec => []PanicInv
<1>1. Init => PanicInv
  BY PanicInit
<1>2. PanicInv /\ [Next]_vars => PanicInv'
  BY PanicNext
<1> QED
  BY <1>1, <1>2, PTL DEF Spec

-----------------------------------------------------------------------------
(* What the invariant says at the end.                                       *)

LEMMA TypesAtEnd ==
    ASSUME SigInv
    PROVE  TypesExact
<1> SUFFICES ASSUME stage = "done"
             PROVE  TypesExact
  BY DEF TypesExact
<1> DEFINE from == [i \in 1..Count |-> FromFunction(Stated, i)]
           a == type_comments[Decisive].args
<1>1. IsDefinition /\ Count \in Nat /\ Found
  BY SigIs
<1>2. /\ Decisive \in 0..MaxLine
      /\ arg_types = [i \in 1..Count |-> ArgType(i, Owned)]
      /\ ret_type = IF IsFunction THEN <<"return">> ELSE NoType
  BY <1>1 DEF Found
<1>3. Owned = Count /\ WrittenArguments = Count
  BY OwnedIs
<1>4. Written
  BY DEF SigInv
<1>5. /\ Len(written) = Count + 1
      /\ \A i \in 1..Count :
            written[i].type = IF func.parameters[i].annotated THEN <<"annotation">> ELSE arg_types[i]
  BY <1>3, <1>4 DEF Written
<1>6. /\ Last(written).type = IF func.returns THEN <<"annotation">> ELSE ret_type
      /\ Last(written).type_comment <=>
            ret_type # NoType \/ \E i \in 1..Count : arg_types[i] # NoType
  BY <1>4 DEF Written
<1>7. ASSUME NEW i \in 1..Count
      PROVE  /\ from[i] = FromFunction(Stated, i) /\ from[i] \in Nat
             /\ arg_types[i] = ArgType(i, Count)
             /\ from[i] > 0 => IsFunction /\ Given(i) = a[from[i]] /\ from[i] \in 1..Len(Stated)
             /\ from[i] > 0 <=> Given(i) # NoType
  <2>1. from[i] = FromFunction(Stated, i)
    OBVIOUS
  <2>2. arg_types[i] = ArgType(i, Count)
    BY <1>2, <1>3
  <2> DEFINE n == FromFunction(Stated, i)
  <2>3. /\ n \in 0..Len(Stated)
        /\ Given(i) # NoType <=> n > 0
        /\ n > 0 => IsFunction /\ Given(i) = a[n]
    BY <1>1, <1>2, GivenIs
  <2>4. Len(Stated) \in Nat
    <3>1. CASE IsFunction
      <4>1. Decisive \in 1..MaxLine
        BY <1>2, <3>1, SignatureAssumption DEF IsFunction
      <4>2. a \in Seq(Seq(TokenKinds)) /\ Len(a) = Len(Stated)
        BY <1>1, <3>1, <4>1, FunctionIs
      <4> QED
        BY <4>2, LenProperties
    <3>2. CASE ~IsFunction
      <4>1. Stated = << >>
        BY <3>2, NotFunction
      <4> QED
        BY <4>1
    <3> QED
      BY <3>1, <3>2
  <2> HIDE DEF n, from, a
  <2>5. n \in Nat /\ (n > 0 => n \in 1..Len(Stated))
    BY <2>3, <2>4
  <2> QED
    BY <2>1, <2>2, <2>3, <2>5 DEF n
<1> HIDE DEF from
<1>8. ASSUME NEW i \in 1..Count, ~func.parameters[i].annotated
      PROVE  /\ from[i] > 0 => ReadAs(written[i].type, Type(Stated[from[i]]))
             /\ from[i] = 0 /\ FromOwn(i) => written[i].type = <<"own", func.parameters[i].line>>
             /\ from[i] = 0 /\ ~FromOwn(i) => written[i].type = NoType
  <2>1. written[i].type = ArgType(i, Count)
    BY <1>5, <1>7, <1>8
  <2>2. i <= Count
    BY <1>1
  <2>3. CASE from[i] > 0
    <3>1. Given(i) # NoType /\ Given(i) = a[from[i]] /\ from[i] \in 1..Len(Stated) /\ IsFunction
      BY <1>7, <2>3
    <3>2. ArgType(i, Count) = Given(i)
      BY <3>1 DEF ArgType
    <3>3. Decisive \in 1..MaxLine
      BY <1>2, <3>1, SignatureAssumption DEF IsFunction
    <3>4. \A n \in 1..Len(Stated) : ReadAs(a[n], Type(Stated[n]))
      BY <1>1, <3>1, <3>3, FunctionIs
    <3>5. ReadAs(written[i].type, Type(Stated[from[i]]))
      BY <2>1, <3>1, <3>2, <3>4
    <3>6. from[i] # 0
      BY <2>3
    <3> QED
      BY <3>5, <3>6
  <2>4. CASE ~(from[i] > 0)
    <3>1. Given(i) = NoType
      BY <1>7, <2>4
    <3>2. FromOwn(i) => ArgType(i, Count) = <<"own", func.parameters[i].line>>
      BY <2>2, <3>1 DEF ArgType
    <3>3. ~FromOwn(i) => ArgType(i, Count) = NoType
      BY <3>1 DEF ArgType
    <3> QED
      BY <2>1, <2>4, <3>2, <3>3
  <2> QED
    BY <2>3, <2>4
<1>9. \A i \in 1..Count :
         CASE func.parameters[i].annotated -> written[i].type = <<"annotation">>
           [] ~func.parameters[i].annotated /\ from[i] > 0 ->
                ReadAs(written[i].type, Type(Stated[from[i]]))
           [] ~func.parameters[i].annotated /\ from[i] = 0 /\ FromOwn(i) ->
                written[i].type = <<"own", func.parameters[i].line>>
           [] OTHER -> written[i].type = NoType
  <2>1. ASSUME NEW i \in 1..Count
        PROVE  CASE func.parameters[i].annotated -> written[i].type = <<"annotation">>
                 [] ~func.parameters[i].annotated /\ from[i] > 0 ->
                      ReadAs(written[i].type, Type(Stated[from[i]]))
                 [] ~func.parameters[i].annotated /\ from[i] = 0 /\ FromOwn(i) ->
                      written[i].type = <<"own", func.parameters[i].line>>
                 [] OTHER -> written[i].type = NoType
    <3>1. from[i] \in Nat
      BY <1>7
    <3>2. CASE func.parameters[i].annotated
      BY <1>5, <3>2
    <3>3. CASE ~func.parameters[i].annotated /\ from[i] > 0
      BY <1>8, <3>1, <3>3
    <3>4. CASE ~func.parameters[i].annotated /\ from[i] = 0 /\ FromOwn(i)
      BY <1>8, <3>4
    <3>5. CASE ~func.parameters[i].annotated /\ from[i] = 0 /\ ~FromOwn(i)
      BY <1>8, <3>5
    <3> QED
      BY <3>1, <3>2, <3>3, <3>4, <3>5
  <2> QED
    BY <2>1
<1>10. Last(written).type = CASE func.returns -> <<"annotation">>
                              [] ~func.returns /\ IsFunction -> <<"return">>
                              [] OTHER -> NoType
  BY <1>2, <1>6
<1>11. Last(written).type_comment <=> IsFunction \/ \E i \in 1..Count : FromOwn(i)
  <2>1. ret_type # NoType <=> IsFunction
    BY <1>2, NoTypeIs
  <2>2. \A i \in 1..Count : arg_types[i] # NoType <=> FromFunction(Stated, i) > 0 \/ FromOwn(i)
    BY <1>1, <1>2, <1>7, CommentIs
  <2>3. \A i \in 1..Count : FromFunction(Stated, i) > 0 => IsFunction
    BY <1>7
  <2> QED
    BY <1>6, <2>1, <2>2, <2>3
<1> QED
  BY <1>5, <1>9, <1>10, <1>11, Zenon DEF TypesExact, from

LEMMA Disjoint ==
    ASSUME NEW a, NEW b, NEW u, IsFiniteSet(a), IsFiniteSet(b), a \cap b = {}, u = a \cup b
    PROVE  /\ IsFiniteSet(u) /\ Cardinality(u) = Cardinality(a) + Cardinality(b)
           /\ Cardinality(a) \in Nat /\ Cardinality(b) \in Nat
<1>1. Cardinality(a) \in Nat /\ Cardinality(b) \in Nat
  BY FS_CardinalityType
<1>2. /\ IsFiniteSet(a \cup b)
      /\ Cardinality(a \cup b) = Cardinality(a) + Cardinality(b) - Cardinality(a \cap b)
  BY FS_Union
<1>3. Cardinality(a \cap b) = 0
  <2>1. Cardinality({}) = 0
    BY FS_EmptySet
  <2> QED
    BY <2>1, Zenon
<1>4. Cardinality(a \cup b) = Cardinality(a) + Cardinality(b)
  BY <1>1, <1>2, <1>3
<1> QED
  BY <1>1, <1>2, <1>4, Zenon

\* The messages of a sequence, counted one kind at a time, are all.
LEMMA TimesAll ==
    ASSUME NEW messages \in Seq(Messages)
    PROVE  Len(messages) = Times(messages, Duplicate) + Times(messages, "too many")
                           + Times(messages, "too few") + Times(messages, "invalid")
<1> DEFINE n == Len(messages)
           S(m) == {e \in 1..n : messages[e] = m}
           A == S(Duplicate) \cup S("too many")
           B == S("too few") \cup S("invalid")
<1>1. n \in Nat /\ IsFiniteSet(1..n) /\ Cardinality(1..n) = n
  <2>1. n \in Nat
    BY LenProperties
  <2>2. IsFiniteSet(1..n) /\ Cardinality(1..n) = IF 1 > n THEN 0 ELSE n - 1 + 1
    BY <2>1, FS_Interval
  <2> QED
    BY <2>1, <2>2
<1>2. \A m : IsFiniteSet(S(m)) /\ Cardinality(S(m)) \in Nat
  <2> TAKE m
  <2>1. S(m) \in SUBSET (1..n)
    OBVIOUS
  <2> HIDE DEF S, n
  <2>2. IsFiniteSet(S(m))
    BY <1>1, <2>1, FS_Subset
  <2> QED
    BY <2>2, FS_CardinalityType
<1>3. /\ Duplicate # "too many" /\ Duplicate # "too few" /\ Duplicate # "invalid"
  BY DEF Duplicate
<1>4. S(Duplicate) \cap S("too many") = {} /\ S("too few") \cap S("invalid") = {} /\ A \cap B = {}
  BY <1>3
<1>5. 1..n = A \cup B
  <2>1. \A e \in 1..n : messages[e] \in Messages
    BY ElementOfSeq
  <2> QED
    BY <2>1 DEF Messages
<1> DEFINE a == S(Duplicate)
           b == S("too many")
           c == S("too few")
           d == S("invalid")
<1>6. /\ IsFiniteSet(a) /\ IsFiniteSet(b) /\ IsFiniteSet(c) /\ IsFiniteSet(d)
      /\ Cardinality(a) \in Nat /\ Cardinality(b) \in Nat /\ Cardinality(c) \in Nat /\ Cardinality(d) \in Nat
  BY <1>2
<1>7. a \cap b = {} /\ c \cap d = {} /\ A \cap B = {} /\ A = a \cup b /\ B = c \cup d
  BY <1>4
<1>8. /\ Times(messages, Duplicate) = Cardinality(a) /\ Times(messages, "too many") = Cardinality(b)
      /\ Times(messages, "too few") = Cardinality(c) /\ Times(messages, "invalid") = Cardinality(d)
  BY DEF Times
<1> HIDE DEF a, b, c, d, A, B, S, n
<1>9. IsFiniteSet(A) /\ Cardinality(A) = Cardinality(a) + Cardinality(b)
  BY <1>6, <1>7, Disjoint, Zenon
<1>10. IsFiniteSet(B) /\ Cardinality(B) = Cardinality(c) + Cardinality(d)
  BY <1>6, <1>7, Disjoint, Zenon
<1>11. Cardinality(1..n) = Cardinality(A) + Cardinality(B)
  BY <1>5, <1>7, <1>9, <1>10, Disjoint, Zenon
<1>12. n = (Cardinality(a) + Cardinality(b)) + (Cardinality(c) + Cardinality(d))
  BY <1>1, <1>9, <1>10, <1>11, Zenon
<1> DEFINE i == Cardinality(a)
           j == Cardinality(b)
           k == Cardinality(c)
           l == Cardinality(d)
<1>13. i \in Nat /\ j \in Nat /\ k \in Nat /\ l \in Nat /\ n = (i + j) + (k + l)
  BY <1>6, <1>12, Zenon
<1>14. Len(messages) = n
  BY Zenon DEF n
<1>15. /\ Times(messages, Duplicate) = i /\ Times(messages, "too many") = j
       /\ Times(messages, "too few") = k /\ Times(messages, "invalid") = l
  BY <1>8, Zenon
<1> HIDE DEF i, j, k, l
<1>16. n = i + j + k + l
  BY <1>13
<1> QED
  BY <1>14, <1>15, <1>16, Zenon

LEMMA ContradictionsAtEnd ==
    ASSUME PanicInv
    PROVE  ContradictionsReported
<1> SUFFICES ASSUME stage \in {"done", "panicked"}
             PROVE  ContradictionsReported
  BY DEF ContradictionsReported
<1> DEFINE too_many == Counts(Stated) /\ Len(Stated) > Count
           overflowed == overflow_checks /\ in_class /\ Count = 0 /\ too_many
<1>1. overflowed <=> stage = "panicked"
  BY DEF PanicInv, Overflowed, TooMany
<1>2. CASE overflowed
  BY <1>1, <1>2 DEF ContradictionsReported
<1> SUFFICES ASSUME ~overflowed
             PROVE  ContradictionsReported
  BY <1>2
<1>3. SigInv /\ stage = "done"
  BY <1>1 DEF PanicInv
<1> HIDE DEF too_many, overflowed
<1> DEFINE function == {i \in 1..Count : FromFunction(Stated, i) > 0}
           own == {i \in 1..Count : FromOwn(i)}
           annotated == {i \in 1..Count : func.parameters[i].annotated}
<1>4. Found /\ Owned = Count /\ WrittenArguments = Count
  BY <1>3, SigIs, OwnedIs
<1>5. Errors
  BY <1>4 DEF Found
<1>6. TwoComments(Count) = function \cap own
  BY DEF TwoComments
<1>7. BesideAnnotations(Count) = annotated \cap (function \cup own)
  BY DEF BesideAnnotations
<1>8. (IF stage = "done" THEN NumberReturns ELSE 0) = IF func.returns /\ IsFunction THEN 1 ELSE 0
  BY <1>3 DEF NumberReturns
<1>9. Cardinality({e \in 1..Len(errors) : errors[e] = Duplicate})
         = Cardinality(function \cap own) + Cardinality(annotated \cap (function \cup own))
           + (IF func.returns /\ IsFunction THEN 1 ELSE 0)
  <2>1. Times(errors, Duplicate) = Cardinality(TwoComments(Owned))
                                     + Cardinality(BesideAnnotations(WrittenArguments))
                                     + (IF stage = "done" THEN NumberReturns ELSE 0)
    BY <1>5 DEF Errors
  <2> HIDE DEF function, own, annotated
  <2> QED
    BY <1>4, <1>6, <1>7, <1>8, <2>1, Zenon DEF Times
<1>10. Cardinality({e \in 1..Len(errors) : errors[e] = "too many"})
         = IF Counts(Stated) /\ Len(Stated) > Count THEN 1 ELSE 0
  BY <1>5 DEF Errors, Times, NumberTooMany, TooMany
<1>11. Cardinality({e \in 1..Len(errors) : errors[e] = "too few"})
         = IF Counts(Stated) /\ Len(Stated) < Count /\ ~(in_class /\ Len(Stated) = Count - 1)
           THEN 1 ELSE 0
  BY <1>5 DEF Errors, Times, NumberTooFew, TooFew
<1>12. Cardinality({e \in 1..Len(errors) : errors[e] = "invalid"})
         = IF Decisive > 0 /\ ~IsFunction THEN 1 ELSE 0
  BY <1>5 DEF Errors, Times, NumberInvalid
<1>13. Len(errors) = Cardinality({e \in 1..Len(errors) : errors[e] = Duplicate})
                     + Cardinality({e \in 1..Len(errors) : errors[e] = "too many"})
                     + Cardinality({e \in 1..Len(errors) : errors[e] = "too few"})
                     + Cardinality({e \in 1..Len(errors) : errors[e] = "invalid"})
  <2>1. errors \in Seq(Messages)
    BY <1>5 DEF Errors
  <2> QED
    BY <2>1, TimesAll, Zenon DEF Times
<1> QED
  BY <1>3, <1>9, <1>10, <1>11, <1>12, <1>13, Zenon
     DEF ContradictionsReported, overflowed, too_many

LEMMA CommentsRead ==
    ASSUME SigInv, NEW l \in 1..MaxLine, func.comments[l] # NoComment
    PROVE  ReadRight(func.comments[l], type_comments[l])
<1>1. /\ func.comments[l] \in Seq(TokenKinds)
      /\ type_comments[l] = ParsedTypeComment(func.comments[l])
  BY SigIs, KindsAre
<1> QED
  BY <1>1, ReadRightAlways DEF NoComment

\* Of any comment in any definition: it is read as a function's only if it has
\* the form of one, with the arguments that stand between its own commas; and a
\* signature is recognized (parse_func_type_comment, function_comment_to_expr).
THEOREM CommentsAreRead == Spec => []SignaturesRead
<1>1. PanicInv => SignaturesRead
  BY CommentsRead DEF SignaturesRead, PanicInv
<1> QED
  BY <1>1, SignatureInvariant, PTL

\* Of any definition with any comments: every parameter and the return value get
\* the type that is meant for them (find_func_type_comment, serialize_argument).
THEOREM TypesAreMeant == Spec => []TypesExact
<1>1. PanicInv => TypesExact
  BY TypesAtEnd DEF TypesExact, PanicInv
<1> QED
  BY <1>1, SignatureInvariant, PTL

\* Of any definition with any comments, before and behind the colon: what contradicts
\* the last function or invalid comment between colon and body, the parameters' own
\* regular comments and the annotations is reported, once, and nothing else; or the
\* call panics, in a build that checks arithmetic, for a method without parameters
\* (find_func_type_comment, serialize_argument, Stmt::FunctionDef).
THEOREM ContradictionsAreReported == Spec => []ContradictionsReported
<1>1. PanicInv => ContradictionsReported
  BY ContradictionsAtEnd
<1> QED
  BY <1>1, SignatureInvariant, PTL
-----------------------------------------------------------------------------
(* Trees.                                                                    *)

\* A recursion B in which the value of each element of D is made from the values
\* of lower ones is the recursion of a function.
Recursion(D, V, H, B) ==
    /\ V # {} /\ H \in [D -> Nat] /\ B \in [[D -> V] -> [D -> V]]
    /\ \A g, h \in [D -> V] : \A x \in D :
          (\A y \in D : H[y] < H[x] => g[y] = h[y]) => B[g][x] = B[h][x]

LEMMA FixedPoint ==
    ASSUME NEW D, NEW V, NEW H, NEW B, Recursion(D, V, H, B)
    PROVE  \E f \in [D -> V] : f = B[f]
<1> USE DEF Recursion
<1>0. PICK v0 \in V : TRUE
  OBVIOUS
<1> DEFINE Good(g, k) == g \in [D -> V] /\ \A x \in D : H[x] < k => g[x] = B[g][x]
           S == {k \in Nat : \E g : Good(g, k)}
<1>1. 0 \in S
  <2>1. Good([x \in D |-> v0], 0)
    BY <1>0
  <2> QED
    BY <2>1
<1>2. ASSUME NEW k \in Nat, k \in S
      PROVE  k + 1 \in S
  <2>1. PICK g : Good(g, k)
    BY <1>2
  <2> DEFINE h == B[g]
  <2>2. h \in [D -> V]
    BY <2>1
  <2>3. ASSUME NEW x \in D, H[x] < k + 1
        PROVE  h[x] = B[h][x]
    <3>1. \A y \in D : H[y] < H[x] => g[y] = h[y]
      BY <2>1, <2>3
    <3> QED
      BY <2>1, <2>2, <3>1
  <2>4. Good(h, k + 1)
    BY <2>2, <2>3
  <2> QED
    BY <2>4
<1>3. \A k \in Nat : \E g : Good(g, k)
  <2> HIDE DEF Good
  <2>1. 0 \in S
    BY <1>1
  <2>2. \A k \in Nat : k \in S => k + 1 \in S
    BY <1>2
  <2>3. \A k \in Nat : k \in S
    <3> HIDE DEF S
    <3> QED
      BY <2>1, <2>2, AllNumbers
  <2> QED
    BY <2>3
<1>4. ASSUME NEW g, NEW h, NEW i \in Nat, NEW j \in Nat, Good(g, i), Good(h, j)
      PROVE  \A k \in Nat : k <= i /\ k <= j => \A x \in D : H[x] < k => g[x] = h[x]
  <2> DEFINE T == {k \in Nat : k <= i /\ k <= j => \A x \in D : H[x] < k => g[x] = h[x]}
  <2>1. 0 \in T
    OBVIOUS
  <2>2. ASSUME NEW k \in Nat, k \in T
        PROVE  k + 1 \in T
    <3>1. SUFFICES ASSUME k + 1 <= i, k + 1 <= j, NEW x \in D, H[x] < k + 1
                   PROVE  g[x] = h[x]
      OBVIOUS
    <3>2. \A y \in D : H[y] < H[x] => g[y] = h[y]
      BY <2>2, <3>1
    <3>3. B[g][x] = B[h][x]
      BY <1>4, <3>2
    <3> QED
      BY <1>4, <3>1, <3>3
  <2>3. \A k \in Nat : k \in T
    <3> HIDE DEF T
    <3> QED
      BY <2>1, <2>2, AllNumbers
  <2> QED
    BY <2>3
<1> DEFINE upto == [k \in Nat |-> CHOOSE g : Good(g, k)]
           f == [x \in D |-> upto[H[x] + 1][x]]
<1>5. \A k \in Nat : Good(upto[k], k)
  BY <1>3
<1>6. f \in [D -> V]
  <2>1. ASSUME NEW x \in D
        PROVE  upto[H[x] + 1][x] \in V
    <3>1. H[x] + 1 \in Nat
      OBVIOUS
    <3> QED
      BY <1>5, <3>1
  <2> QED
    BY <2>1
<1>7. ASSUME NEW x \in D
      PROVE  f[x] = B[f][x]
  <2> DEFINE g == upto[H[x] + 1]
  <2>1. H[x] + 1 \in Nat /\ Good(g, H[x] + 1)
    <3>1. H[x] + 1 \in Nat
      OBVIOUS
    <3> HIDE DEF Good, upto
    <3> QED
      BY <1>5, <3>1
  <2>2. ASSUME NEW y \in D, H[y] < H[x]
        PROVE  f[y] = g[y]
    <3> DEFINE h == upto[H[y] + 1]
    <3>1. H[y] + 1 \in Nat /\ Good(h, H[y] + 1)
      <4>1. H[y] + 1 \in Nat
        OBVIOUS
      <4> HIDE DEF Good, upto
      <4> QED
        BY <1>5, <4>1
    <3>2. f[y] = h[y]
      OBVIOUS
    <3>3. H[y] + 1 <= H[x] + 1 /\ H[y] < H[y] + 1 /\ H[y] + 1 <= H[y] + 1
      BY <2>2
    <3> HIDE DEF Good, g, h, f, upto
    <3>4. g[y] = h[y]
      BY <1>4, <2>1, <3>1, <3>3
    <3> QED
      BY <3>2, <3>4
  <2>3. f[x] = g[x]
    OBVIOUS
  <2>4. g[x] = B[g][x]
    BY <2>1
  <2>5. g \in [D -> V]
    BY <2>1
  <2> HIDE DEF Good, g, f, upto
  <2>6. B[f][x] = B[g][x]
    BY <1>6, <2>2, <2>5
  <2> QED
    BY <2>3, <2>4, <2>6
<1>8. f = B[f]
  <2>1. B[f] \in [D -> V]
    BY <1>6
  <2> HIDE DEF f
  <2> QED
    BY <1>6, <1>7, <2>1
<1> QED
  BY <1>6, <1>8

Nodes == Exprs \cup Stmts

\* What holds of a node when it holds of all lower ones holds of all.
LEMMA AllNodes ==
    ASSUME NEW S,
           \A n \in Nodes : (\A m \in Nodes : Height(m) < Height(n) => m \in S) => n \in S
    PROVE  \A n \in Nodes : n \in S
<1> DEFINE T == {k \in Nat : \A n \in Nodes : Height(n) < k => n \in S}
<1>1. \A n \in Nodes : Height(n) \in Nat
  BY NodesAssumption DEF Nodes
<1>2. 0 \in T
  BY <1>1
<1>3. ASSUME NEW k \in Nat, k \in T
      PROVE  k + 1 \in T
  <2>1. SUFFICES ASSUME NEW n \in Nodes, Height(n) < k + 1
                 PROVE  n \in S
    OBVIOUS
  <2>2. \A m \in Nodes : Height(m) < Height(n) => m \in S
    BY <1>1, <1>3, <2>1
  <2> QED
    BY <2>2
<1>4. \A k \in Nat : k \in T
  <2> HIDE DEF T
  <2> QED
    BY <1>2, <1>3, AllNumbers
<1>5. \A n \in Nodes : Height(n) + 1 \in Nat /\ Height(n) < Height(n) + 1
  BY <1>1
<1> QED
  BY <1>4, <1>5

LEMMA ToSetConcat ==
    ASSUME NEW S, NEW a \in Seq(S), NEW b \in Seq(S)
    PROVE  a \o b \in Seq(S) /\ ToSet(a \o b) = ToSet(a) \cup ToSet(b)
<1>1. a \o b \in Seq(S) /\ Len(a \o b) = Len(a) + Len(b)
  OBVIOUS
<1>2. \A i \in 1..Len(a) : (a \o b)[i] = a[i]
  OBVIOUS
<1>3. \A i \in 1..Len(b) : (a \o b)[Len(a) + i] = b[i]
  OBVIOUS
<1>4. DOMAIN a = 1..Len(a) /\ DOMAIN b = 1..Len(b) /\ DOMAIN (a \o b) = 1..(Len(a) + Len(b))
  BY <1>1
<1>5. Len(a) \in Nat /\ Len(b) \in Nat
  OBVIOUS
<1> DEFINE c == a \o b
<1> HIDE DEF c
<1>6. ASSUME NEW i \in 1..(Len(a) + Len(b))
      PROVE  c[i] \in ToSet(a) \cup ToSet(b)
  <2>1. CASE i <= Len(a)
    <3>1. i \in 1..Len(a)
      BY <1>5, <2>1
    <3> QED
      BY <1>2, <1>4, <3>1 DEF c, ToSet
  <2>2. CASE i > Len(a)
    <3>1. i - Len(a) \in 1..Len(b) /\ Len(a) + (i - Len(a)) = i
      BY <1>5, <2>2
    <3> QED
      BY <1>3, <1>4, <3>1 DEF c, ToSet
  <2> QED
    BY <1>5, <2>1, <2>2
<1>7. \A i \in 1..Len(a) : i \in 1..(Len(a) + Len(b))
  BY <1>5
<1>8. \A i \in 1..Len(b) : Len(a) + i \in 1..(Len(a) + Len(b))
  BY <1>5
<1>9. ToSet(c) = {c[i] : i \in 1..(Len(a) + Len(b))}
  BY <1>4 DEF c, ToSet
<1>10. \A i \in 1..Len(a) : c[i] = a[i]
  BY <1>2 DEF c
<1>11. \A i \in 1..Len(b) : c[Len(a) + i] = b[i]
  BY <1>3 DEF c
<1>12. ToSet(a) \subseteq ToSet(c)
  BY <1>4, <1>7, <1>9, <1>10 DEF ToSet
<1>13. ToSet(b) \subseteq ToSet(c)
  BY <1>4, <1>8, <1>9, <1>11 DEF ToSet
<1>14. ToSet(c) \subseteq ToSet(a) \cup ToSet(b)
  BY <1>6, <1>9
<1> QED
  BY <1>1, <1>12, <1>13, <1>14 DEF c

LEMMA ToSetIn ==
    ASSUME NEW S, NEW a \in Seq(S)
    PROVE  /\ ToSet(a) \subseteq S /\ \A i \in DOMAIN a : a[i] \in ToSet(a) /\ a[i] \in S
           /\ Len(a) \in Nat /\ DOMAIN a = 1..Len(a)
BY DEF ToSet

LEMMA NodeIs ==
    ASSUME NEW n \in Nodes
    PROVE  /\ n.heads \in Seq(Exprs) /\ n.targets \in Seq(Exprs) /\ n.parts \in Seq(Exprs)
           /\ n.body \in Seq(Stmts)
           /\ n \in Exprs => n.targets = << >> /\ n.body = << >> /\ n.kind \notin Definitions
           /\ n \in Stmts => n.parts = << >> /\ n.kind \notin Yields \cup {"lambda"}
           /\ n \in Stmts /\ n.targets # << >> => n.kind \in Assignments
<1>1. << >> \in Seq(Exprs) /\ << >> \in Seq(Stmts)
  OBVIOUS
<1>2. CASE n \in Exprs
  <2>1. n \in [kind : STRING, id : Nat, heads : Seq(Exprs), targets : {<< >>},
               parts : Seq(Exprs), body : {<< >>}]
    BY <1>2, NodesAssumption
  <2>2. /\ n.heads \in Seq(Exprs) /\ n.targets = << >> /\ n.parts \in Seq(Exprs) /\ n.body = << >>
    BY <2>1
  <2>3. n \notin Stmts \/ n.parts = << >>
    <3>1. n \in Stmts => n \in [kind : STRING, id : Nat, heads : Seq(Exprs), targets : Seq(Exprs),
                                parts : {<< >>}, body : Seq(Stmts)]
      BY NodesAssumption
    <3> QED
      BY <3>1
  <2>4. n.kind \notin Definitions /\ (n \in Stmts => n.kind \notin Yields \cup {"lambda"})
    BY <1>2, NodesAssumption
  <2> QED
    BY <1>1, <2>2, <2>3, <2>4
<1>3. CASE n \in Stmts
  <2>1. n \in [kind : STRING, id : Nat, heads : Seq(Exprs), targets : Seq(Exprs),
               parts : {<< >>}, body : Seq(Stmts)]
    BY <1>3, NodesAssumption
  <2>2. /\ n.heads \in Seq(Exprs) /\ n.targets \in Seq(Exprs) /\ n.parts = << >> /\ n.body \in Seq(Stmts)
    BY <2>1
  <2>3. n.kind \notin Yields \cup {"lambda"} /\ (n.targets # << >> => n.kind \in Assignments)
    BY <1>3, NodesAssumption
  <2> QED
    BY <1>1, <1>2, <2>2, <2>3
<1> QED
  BY <1>2, <1>3 DEF Nodes

LEMMA InnerIs ==
    ASSUME NEW n \in Nodes
    PROVE  /\ Inner(n) \in Seq(Nodes) /\ Scope(n) \in Seq(Nodes)
           /\ ToSet(Inner(n)) = ToSet(n.heads) \cup ToSet(n.targets) \cup ToSet(n.parts) \cup ToSet(n.body)
           /\ ToSet(Scope(n)) = IF n.kind \in Definitions \cup {"lambda"} THEN ToSet(n.heads)
                                ELSE ToSet(Inner(n))
           /\ \A m \in ToSet(Inner(n)) : m \in Nodes /\ Height(m) < Height(n)
<1>1. n.heads \in Seq(Nodes) /\ n.targets \in Seq(Nodes) /\ n.parts \in Seq(Nodes) /\ n.body \in Seq(Nodes)
  <2>1. \A S, T : S \subseteq T => Seq(S) \subseteq Seq(T)
    OBVIOUS
  <2>2. Exprs \subseteq Nodes /\ Stmts \subseteq Nodes
    BY DEF Nodes
  <2> QED
    BY <2>1, <2>2, NodeIs
<1> DEFINE a == n.heads \o n.targets
           b == a \o n.parts
           c == b \o n.body
<1>2. a \in Seq(Nodes) /\ ToSet(a) = ToSet(n.heads) \cup ToSet(n.targets)
  BY <1>1, ToSetConcat
<1> HIDE DEF a
<1>3. b \in Seq(Nodes) /\ ToSet(b) = ToSet(a) \cup ToSet(n.parts)
  BY <1>1, <1>2, ToSetConcat
<1> HIDE DEF b
<1>4. c \in Seq(Nodes) /\ ToSet(c) = ToSet(b) \cup ToSet(n.body)
  BY <1>1, <1>3, ToSetConcat
<1>5. Inner(n) = c
  BY DEF Inner, a, b
<1> HIDE DEF c
<1>6. \A i \in DOMAIN Inner(n) : Height(Inner(n)[i]) < Height(n)
  BY NodesAssumption DEF Nodes
<1>7. \A m \in ToSet(Inner(n)) : m \in Nodes /\ Height(m) < Height(n)
  BY <1>4, <1>5, <1>6, ToSetIn DEF ToSet
<1> QED
  BY <1>1, <1>2, <1>3, <1>4, <1>5, <1>7 DEF Scope

LEMMA ScopeLower ==
    ASSUME NEW n \in Nodes
    PROVE  \A m \in ToSet(Scope(n)) : m \in Nodes /\ m \in ToSet(Inner(n)) /\ Height(m) < Height(n)
BY InnerIs

(* Visits.                                                                   *)

LEMMA EachSteps ==
    ASSUME NEW visit, NEW d, NEW nodes, Len(nodes) \in Nat
    PROVE  \E after : /\ after[0] = d
                      /\ \A i \in 1..Len(nodes) : after[i] = visit[nodes[i]][after[i - 1]]
                      /\ VisitEach(visit, d, nodes) = after[Len(nodes)]
<1> DEFINE N == Len(nodes)
           Step(f, i) == IF i = 0 THEN d ELSE visit[nodes[i]][f[i - 1]]
           Upto(f, k) == f = [i \in 0..k |-> Step(f, i)]
           S == {k \in Nat : \E f : Upto(f, k)}
           after == CHOOSE f : Upto(f, N)
<1>1. 0 \in S
  <2> DEFINE f == [i \in {0} |-> d]
  <2>1. f = [i \in 0..0 |-> Step(f, i)]
    OBVIOUS
  <2> QED
    BY <2>1
<1>2. ASSUME NEW k \in Nat, k \in S
      PROVE  k + 1 \in S
  <2>1. PICK f : Upto(f, k)
    BY <1>2
  <2> DEFINE g == [i \in 0..(k + 1) |-> IF i <= k THEN f[i] ELSE Step(f, i)]
  <2>2. ASSUME NEW i \in 0..(k + 1)
        PROVE  g[i] = Step(g, i)
    <3>1. g[i] = Step(f, i)
      BY <2>1
    <3>2. i # 0 => g[i - 1] = f[i - 1]
      OBVIOUS
    <3> HIDE DEF g
    <3> QED
      BY <3>1, <3>2
  <2>3. Upto(g, k + 1)
    <3>1. g = [i \in 0..(k + 1) |-> g[i]]
      OBVIOUS
    <3> HIDE DEF g
    <3> QED
      BY <2>2, <3>1
  <2> HIDE DEF g
  <2> QED
    BY <2>3
<1>3. \A k \in Nat : k \in S
  <2> HIDE DEF S
  <2> QED
    BY <1>1, <1>2, AllNumbers
<1>4. Upto(after, N)
  <2> HIDE DEF Upto
  <2> QED
    BY <1>3
<1>5. VisitEach(visit, d, nodes) = after[N]
  BY DEF VisitEach
<1> HIDE DEF after
<1>6. \A i \in 0..N : after[i] = Step(after, i)
  BY <1>4
<1>7. after[0] = d
  BY <1>6
<1>8. \A i \in 1..N : after[i] = visit[nodes[i]][after[i - 1]]
  BY <1>6
<1> QED
  BY <1>5, <1>7, <1>8

\* What each visit takes from T[i - 1] to T[i], all of them take from T[0] to the last.
LEMMA EachKeeps ==
    ASSUME NEW visit, NEW d, NEW nodes, Len(nodes) \in Nat, NEW T, d \in T[0],
           \A i \in 1..Len(nodes) : \A c \in T[i - 1] : visit[nodes[i]][c] \in T[i]
    PROVE  VisitEach(visit, d, nodes) \in T[Len(nodes)]
<1>1. PICK after : /\ after[0] = d
                   /\ \A i \in 1..Len(nodes) : after[i] = visit[nodes[i]][after[i - 1]]
                   /\ VisitEach(visit, d, nodes) = after[Len(nodes)]
  BY EachSteps
<1> DEFINE S == {k \in Nat : k <= Len(nodes) => after[k] \in T[k]}
<1>2. 0 \in S
  BY <1>1
<1>3. ASSUME NEW k \in Nat, k \in S
      PROVE  k + 1 \in S
  <2>1. SUFFICES ASSUME k + 1 <= Len(nodes)
                 PROVE  after[k + 1] \in T[k + 1]
    OBVIOUS
  <2>2. k + 1 \in 1..Len(nodes) /\ (k + 1) - 1 = k /\ after[k] \in T[k]
    BY <1>3, <2>1
  <2>3. after[k + 1] = visit[nodes[k + 1]][after[k]]
    BY <1>1, <2>2
  <2> QED
    BY <2>2, <2>3
<1>4. \A k \in Nat : k \in S
  <2> HIDE DEF S
  <2> QED
    BY <1>2, <1>3, AllNumbers
<1> QED
  BY <1>1, <1>4

LEMMA EachSame ==
    ASSUME NEW g, NEW h, NEW d, NEW nodes, Len(nodes) \in Nat,
           \A i \in 1..Len(nodes) : g[nodes[i]] = h[nodes[i]]
    PROVE  VisitEach(g, d, nodes) = VisitEach(h, d, nodes)
<1>1. PICK after : /\ after[0] = d
                   /\ \A i \in 1..Len(nodes) : after[i] = h[nodes[i]][after[i - 1]]
                   /\ VisitEach(h, d, nodes) = after[Len(nodes)]
  BY EachSteps
<1> DEFINE T == [i \in 0..Len(nodes) |-> {after[i]}]
<1>2. d \in T[0]
  BY <1>1
<1>3. ASSUME NEW i \in 1..Len(nodes), NEW c \in T[i - 1]
      PROVE  g[nodes[i]][c] \in T[i]
  BY <1>1
<1>4. T[Len(nodes)] = {after[Len(nodes)]}
  OBVIOUS
<1> HIDE DEF T
<1>5. VisitEach(g, d, nodes) \in T[Len(nodes)]
  BY <1>2, <1>3, EachKeeps
<1> QED
  BY <1>1, <1>4, <1>5

LEMMA EachDetects ==
    ASSUME NEW visit, NEW d \in Detectors, NEW nodes, Len(nodes) \in Nat,
           \A i \in 1..Len(nodes) : visit[nodes[i]] \in [Detectors -> Detectors]
    PROVE  VisitEach(visit, d, nodes) \in Detectors
<1> DEFINE T == [i \in 0..Len(nodes) |-> Detectors]
<1>1. d \in T[0] /\ T[Len(nodes)] = Detectors
  OBVIOUS
<1>2. ASSUME NEW i \in 1..Len(nodes), NEW c \in T[i - 1]
      PROVE  visit[nodes[i]][c] \in T[i]
  OBVIOUS
<1> HIDE DEF T
<1>3. VisitEach(visit, d, nodes) \in T[Len(nodes)]
  BY <1>1, <1>2, EachKeeps
<1> QED
  BY <1>1, <1>3

HeightOf(D) == [n \in D |-> Height(n)]

LEMMA HeightsAre == HeightOf(Exprs) \in [Exprs -> Nat] /\ HeightOf(Stmts) \in [Stmts -> Nat]
                    /\ HeightOf(Nodes) \in [Nodes -> Nat]
BY NodesAssumption DEF HeightOf, Nodes

ExprBody(visit, e, d) ==
    CASE FoundBoth(d) \/ e.kind = "lambda"      -> d
      [] ~FoundBoth(d) /\ e.kind \in Yields     -> [d EXCEPT !.contains_yield = TRUE]
      [] OTHER                                  -> VisitEach(visit, d, e.heads \o e.parts)

LEMMA ExprsOf ==
    ASSUME NEW e \in Exprs
    PROVE  /\ e.heads \o e.parts \in Seq(Exprs)
           /\ ToSet(e.heads \o e.parts) = ToSet(Inner(e))
           /\ \A i \in 1..Len(e.heads \o e.parts) :
                 (e.heads \o e.parts)[i] \in Exprs /\ Height((e.heads \o e.parts)[i]) < Height(e)
           /\ Len(e.heads \o e.parts) \in Nat
<1>1. e \in Nodes
  BY DEF Nodes
<1>2. e.heads \in Seq(Exprs) /\ e.parts \in Seq(Exprs) /\ e.targets = << >> /\ e.body = << >>
  BY <1>1, NodeIs
<1> DEFINE s == e.heads \o e.parts
<1>3. s \in Seq(Exprs) /\ ToSet(s) = ToSet(e.heads) \cup ToSet(e.parts)
  BY <1>2, ToSetConcat
<1>4. ToSet(<< >>) = {}
  BY DEF ToSet
<1>5. ToSet(Inner(e)) = ToSet(s)
  BY <1>1, <1>2, <1>3, <1>4, InnerIs
<1> HIDE DEF s
<1>6. \A i \in 1..Len(s) : s[i] \in Exprs /\ Height(s[i]) < Height(e)
  BY <1>1, <1>3, <1>5, InnerIs, ToSetIn
<1> QED
  BY <1>3, <1>5, <1>6, ToSetIn DEF s

LEMMA VisitExprIs ==
    /\ VisitExpr \in [Exprs -> [Detectors -> Detectors]]
    /\ \A e \in Exprs : \A d \in Detectors : VisitExpr[e][d] = ExprBody(VisitExpr, e, d)
<1> DEFINE V == [Detectors -> Detectors]
           B == [g \in [Exprs -> V] |-> [e \in Exprs |-> [d \in Detectors |-> ExprBody(g, e, d)]]]
           H == HeightOf(Exprs)
           v0 == [d \in Detectors |-> d]
<1>1. ASSUME NEW g, NEW e \in Exprs, NEW d \in Detectors,
             \A x \in Exprs : Height(x) < Height(e) => g[x] \in V
      PROVE  ExprBody(g, e, d) \in Detectors
  <2> DEFINE s == e.heads \o e.parts
  <2>1. Len(s) \in Nat /\ \A i \in 1..Len(s) : s[i] \in Exprs /\ Height(s[i]) < Height(e)
    BY ExprsOf
  <2>2. \A i \in 1..Len(s) : g[s[i]] \in V
    BY <1>1, <2>1
  <2> HIDE DEF s
  <2>3. VisitEach(g, d, s) \in Detectors
    BY <2>1, <2>2, EachDetects
  <2>4. [d EXCEPT !.contains_yield = TRUE] \in Detectors
    BY DEF Detectors
  <2> QED
    BY <2>3, <2>4 DEF ExprBody, s
<1>2. B \in [[Exprs -> V] -> [Exprs -> V]]
  <2>1. ASSUME NEW g \in [Exprs -> V], NEW e \in Exprs, NEW d \in Detectors
        PROVE  ExprBody(g, e, d) \in Detectors
    BY <1>1
  <2> QED
    BY <2>1
<1>3. ASSUME NEW g \in [Exprs -> V], NEW h \in [Exprs -> V], NEW e \in Exprs,
             \A y \in Exprs : H[y] < H[e] => g[y] = h[y]
      PROVE  B[g][e] = B[h][e]
  <2>1. ASSUME NEW d \in Detectors
        PROVE  ExprBody(g, e, d) = ExprBody(h, e, d)
    <3> DEFINE s == e.heads \o e.parts
    <3>1. s \in Seq(Exprs) /\ Len(s) \in Nat
          /\ \A i \in 1..Len(s) : s[i] \in Exprs /\ Height(s[i]) < Height(e)
      BY ExprsOf
    <3>2. \A i \in 1..Len(s) : g[s[i]] = h[s[i]]
      BY <1>3, <3>1 DEF HeightOf
    <3> HIDE DEF s
    <3>3. VisitEach(g, d, s) = VisitEach(h, d, s)
      BY <3>1, <3>2, EachSame
    <3> QED
      BY <3>3 DEF ExprBody, s
  <2> QED
    BY <2>1
<1>4. v0 \in V /\ H \in [Exprs -> Nat]
  BY HeightsAre
<1>5. \A f : f \in [Exprs -> V] => B[f] = [e \in Exprs |-> [d \in Detectors |-> ExprBody(f, e, d)]]
  OBVIOUS
<1> HIDE DEF B, H, v0, V
<1>6. \E f \in [Exprs -> V] : f = B[f]
  <2>1. \A g, h \in [Exprs -> V] : \A e \in Exprs :
           (\A y \in Exprs : H[y] < H[e] => g[y] = h[y]) => B[g][e] = B[h][e]
    BY <1>3
  <2>2. Recursion(Exprs, V, H, B)
    BY <1>2, <1>4, <2>1 DEF Recursion
  <2> QED
    BY <2>2, FixedPoint
<1>7. \E f : f = [e \in Exprs |-> [d \in Detectors |-> ExprBody(f, e, d)]]
  <2>1. PICK f \in [Exprs -> V] : f = B[f]
    BY <1>6
  <2>2. f = [e \in Exprs |-> [d \in Detectors |-> ExprBody(f, e, d)]]
    BY <1>5, <2>1
  <2> QED
    BY <2>2
<1> DEFINE f == VisitExpr
<1>8. f = CHOOSE g : g = [e \in Exprs |-> [d \in Detectors |-> ExprBody(g, e, d)]]
  BY DEF VisitExpr, ExprBody
<1> HIDE DEF f
<1>9. f = [e \in Exprs |-> [d \in Detectors |-> ExprBody(f, e, d)]]
  BY <1>7, <1>8
<1>10. \A e \in Exprs : f[e] = [d \in Detectors |-> ExprBody(f, e, d)]
  BY <1>9
<1>11. \A e \in Exprs : f[e] \in V
  <2> DEFINE S == {n \in Nodes : n \in Exprs => f[n] \in V}
  <2>1. ASSUME NEW n \in Nodes, \A m \in Nodes : Height(m) < Height(n) => m \in S
        PROVE  n \in S
    <3>1. SUFFICES ASSUME n \in Exprs
                   PROVE  f[n] \in V
      OBVIOUS
    <3>2. \A x \in Exprs : Height(x) < Height(n) => f[x] \in V
      BY <2>1 DEF Nodes
    <3>3. \A d \in Detectors : ExprBody(f, n, d) \in Detectors
      BY <1>1, <3>1, <3>2 DEF V
    <3> QED
      BY <1>10, <3>1, <3>3 DEF V
  <2>2. \A n \in Nodes : n \in S
    <3> HIDE DEF S
    <3> QED
      BY <2>1, AllNodes
  <2> QED
    BY <2>2 DEF Nodes
<1>12. f \in [Exprs -> V]
  BY <1>9, <1>11
<1>13. \A e \in Exprs : \A d \in Detectors : f[e][d] = ExprBody(f, e, d)
  BY <1>10
<1> QED
  BY <1>12, <1>13 DEF f, V

AttributeOf(e, param) == e.kind = "attribute" /\ e.parts[1].kind = "name" /\ e.parts[1].id = param
Holds(e) == e.kind \in Displays \cup {"starred"}

LEMMA PartsOf ==
    ASSUME NEW e \in Exprs
    PROVE  /\ DOMAIN e.parts = 1..Len(e.parts) /\ Len(e.parts) \in Nat /\ e.parts \in Seq(Exprs)
           /\ \A i \in DOMAIN e.parts : e.parts[i] \in Exprs /\ Height(e.parts[i]) < Height(e)
<1>1. e \in Nodes
  BY DEF Nodes
<1>2. e.parts \in Seq(Exprs) /\ ToSet(e.parts) \subseteq ToSet(Inner(e))
  BY <1>1, NodeIs, InnerIs
<1> QED
  BY <1>1, <1>2, InnerIs, ToSetIn

LEMMA ContainsIs ==
    ASSUME NEW param, NEW e \in Exprs
    PROVE  ContainsParamAttribute(param)[e] <=>
              \/ AttributeOf(e, param)
              \/ Holds(e) /\ \E i \in DOMAIN e.parts : ContainsParamAttribute(param)[e.parts[i]]
<1> DEFINE Value(g, x) == \/ AttributeOf(x, param)
                          \/ Holds(x) /\ \E i \in DOMAIN x.parts : g[x.parts[i]]
           B == [g \in [Exprs -> BOOLEAN] |-> [x \in Exprs |-> Value(g, x)]]
           H == HeightOf(Exprs)
<1>1. B \in [[Exprs -> BOOLEAN] -> [Exprs -> BOOLEAN]]
  OBVIOUS
<1>2. ASSUME NEW g \in [Exprs -> BOOLEAN], NEW h \in [Exprs -> BOOLEAN], NEW x \in Exprs,
             \A y \in Exprs : H[y] < H[x] => g[y] = h[y]
      PROVE  B[g][x] = B[h][x]
  <2>1. \A i \in DOMAIN x.parts : g[x.parts[i]] = h[x.parts[i]]
    BY <1>2, PartsOf DEF HeightOf
  <2>2. Value(g, x) = Value(h, x)
    BY <2>1 DEF Holds, AttributeOf
  <2>3. B[g][x] = Value(g, x) /\ B[h][x] = Value(h, x)
    OBVIOUS
  <2> HIDE DEF B
  <2> QED
    BY <2>2, <2>3, Zenon
<1>3. H \in [Exprs -> Nat]
  BY HeightsAre
<1>4. \A g : g \in [Exprs -> BOOLEAN] => B[g] = [x \in Exprs |-> Value(g, x)]
  OBVIOUS
<1> HIDE DEF B, H
<1>5. \E g \in [Exprs -> BOOLEAN] : g = B[g]
  <2>1. \A g, h \in [Exprs -> BOOLEAN] : \A x \in Exprs :
           (\A y \in Exprs : H[y] < H[x] => g[y] = h[y]) => B[g][x] = B[h][x]
    BY <1>2
  <2>2. Recursion(Exprs, BOOLEAN, H, B)
    BY <1>1, <1>3, <2>1 DEF Recursion
  <2> QED
    BY <2>2, FixedPoint
<1>6. \E g : g = [x \in Exprs |-> Value(g, x)]
  <2>1. PICK g \in [Exprs -> BOOLEAN] : g = B[g]
    BY <1>5
  <2>2. g = [x \in Exprs |-> Value(g, x)]
    BY <1>4, <2>1
  <2> QED
    BY <2>2
<1> DEFINE f == ContainsParamAttribute(param)
<1>7. f = CHOOSE g : g = [x \in Exprs |-> Value(g, x)]
  BY DEF ContainsParamAttribute, AttributeOf, Holds
<1> HIDE DEF f
<1>8. f = [x \in Exprs |-> Value(f, x)]
  BY <1>6, <1>7
<1>9. f[e] = Value(f, e)
  BY <1>8
<1> QED
  BY <1>9 DEF f

LEMMA EvaluatedIs ==
    ASSUME NEW n \in Nodes
    PROVE  Evaluated[n] = {n} \cup UNION {Evaluated[m] : m \in ToSet(Scope(n))}
<1> DEFINE V == SUBSET Nodes
           Value(g, x) == {x} \cup UNION {g[Scope(x)[i]] : i \in DOMAIN Scope(x)}
           B == [g \in [Nodes -> V] |-> [x \in Nodes |-> Value(g, x)]]
           H == HeightOf(Nodes)
<1>1. \A x \in Nodes : \A i \in DOMAIN Scope(x) : Scope(x)[i] \in Nodes /\ Height(Scope(x)[i]) < Height(x)
  BY InnerIs, ScopeLower DEF ToSet
<1>2. B \in [[Nodes -> V] -> [Nodes -> V]]
  <2>1. ASSUME NEW g \in [Nodes -> V], NEW x \in Nodes
        PROVE  Value(g, x) \in V
    BY <1>1
  <2> QED
    BY <2>1
<1>3. ASSUME NEW g \in [Nodes -> V], NEW h \in [Nodes -> V], NEW x \in Nodes,
             \A y \in Nodes : H[y] < H[x] => g[y] = h[y]
      PROVE  B[g][x] = B[h][x]
  <2>1. \A i \in DOMAIN Scope(x) : g[Scope(x)[i]] = h[Scope(x)[i]]
    BY <1>1, <1>3 DEF HeightOf
  <2>2. Value(g, x) = Value(h, x)
    BY <2>1
  <2>3. B[g][x] = Value(g, x) /\ B[h][x] = Value(h, x)
    OBVIOUS
  <2> HIDE DEF B, Value
  <2> QED
    BY <2>2, <2>3
<1>4. H \in [Nodes -> Nat] /\ V # {}
  BY HeightsAre
<1>5. \A g : g \in [Nodes -> V] => B[g] = [x \in Nodes |-> Value(g, x)]
  OBVIOUS
<1> HIDE DEF B, H, V
<1>6. \E g \in [Nodes -> V] : g = B[g]
  <2>1. \A g, h \in [Nodes -> V] : \A x \in Nodes :
           (\A y \in Nodes : H[y] < H[x] => g[y] = h[y]) => B[g][x] = B[h][x]
    BY <1>3
  <2>2. Recursion(Nodes, V, H, B)
    BY <1>2, <1>4, <2>1 DEF Recursion
  <2> QED
    BY <2>2, FixedPoint
<1>7. \E g : g = [x \in Nodes |-> Value(g, x)]
  <2>1. PICK g \in [Nodes -> V] : g = B[g]
    BY <1>6
  <2>2. g = [x \in Nodes |-> Value(g, x)]
    BY <1>5, <2>1
  <2> QED
    BY <2>2
<1> DEFINE f == Evaluated
<1>8. f = CHOOSE g : g = [x \in Nodes |-> Value(g, x)]
  BY DEF Evaluated, Nodes
<1> HIDE DEF f
<1>9. f = [x \in Nodes |-> Value(f, x)]
  BY <1>7, <1>8
<1>10. f[n] = {n} \cup UNION {f[Scope(n)[i]] : i \in DOMAIN Scope(n)}
  BY <1>9
<1>11. {f[Scope(n)[i]] : i \in DOMAIN Scope(n)} = {f[m] : m \in ToSet(Scope(n))}
  BY DEF ToSet
<1> QED
  BY <1>10, <1>11 DEF f

LEMMA LeavesIs ==
    ASSUME NEW e \in Exprs
    PROVE  Leaves[e] = IF Holds(e) THEN UNION {Leaves[e.parts[i]] : i \in DOMAIN e.parts} ELSE {e}
<1> DEFINE V == SUBSET Exprs
           Value(g, x) == IF Holds(x) THEN UNION {g[x.parts[i]] : i \in DOMAIN x.parts} ELSE {x}
           B == [g \in [Exprs -> V] |-> [x \in Exprs |-> Value(g, x)]]
           H == HeightOf(Exprs)
<1>2. B \in [[Exprs -> V] -> [Exprs -> V]]
  <2>1. ASSUME NEW g \in [Exprs -> V], NEW x \in Exprs
        PROVE  Value(g, x) \in V
    BY PartsOf
  <2> QED
    BY <2>1
<1>3. ASSUME NEW g \in [Exprs -> V], NEW h \in [Exprs -> V], NEW x \in Exprs,
             \A y \in Exprs : H[y] < H[x] => g[y] = h[y]
      PROVE  B[g][x] = B[h][x]
  <2>1. \A i \in DOMAIN x.parts : g[x.parts[i]] = h[x.parts[i]]
    BY <1>3, PartsOf DEF HeightOf
  <2>2. {g[x.parts[i]] : i \in DOMAIN x.parts} = {h[x.parts[i]] : i \in DOMAIN x.parts}
    BY <2>1
  <2>4. Value(g, x) = Value(h, x)
    BY <2>2 DEF Holds
  <2>3. B[g][x] = Value(g, x) /\ B[h][x] = Value(h, x)
    OBVIOUS
  <2> HIDE DEF B, Value
  <2> QED
    BY <2>3, <2>4
<1>4. H \in [Exprs -> Nat] /\ V # {}
  BY HeightsAre
<1>5. \A g : g \in [Exprs -> V] => B[g] = [x \in Exprs |-> Value(g, x)]
  OBVIOUS
<1> HIDE DEF B, H, V
<1>6. \E g \in [Exprs -> V] : g = B[g]
  <2>1. \A g, h \in [Exprs -> V] : \A x \in Exprs :
           (\A y \in Exprs : H[y] < H[x] => g[y] = h[y]) => B[g][x] = B[h][x]
    BY <1>3
  <2>2. Recursion(Exprs, V, H, B)
    BY <1>2, <1>4, <2>1 DEF Recursion
  <2> QED
    BY <2>2, FixedPoint
<1>7. \E g : g = [x \in Exprs |-> Value(g, x)]
  <2>1. PICK g \in [Exprs -> V] : g = B[g]
    BY <1>6
  <2>2. g = [x \in Exprs |-> Value(g, x)]
    BY <1>5, <2>1
  <2> QED
    BY <2>2
<1> DEFINE f == Leaves
<1>8. f = CHOOSE g : g = [x \in Exprs |-> Value(g, x)]
  BY DEF Leaves, Holds
<1> HIDE DEF f
<1>9. f = [x \in Exprs |-> Value(f, x)]
  <2> HIDE DEF Value
  <2> QED
    BY <1>7, <1>8, Zenon
<1>10. \A g, h : g = [x \in Exprs |-> Value(h, x)] => \A x \in Exprs : g[x] = Value(h, x)
  OBVIOUS
<1>11. f[e] = Value(f, e)
  <2> HIDE DEF Value
  <2> QED
    BY <1>9, <1>10, Zenon
<1> QED
  BY <1>11 DEF f

AssignsAttribute(param, s) ==
    /\ s.kind \in Assignments
    /\ \E i \in DOMAIN s.targets : ContainsParamAttribute(param)[s.targets[i]]

StmtBody(param, visit, s, d) ==
    CASE FoundBoth(d) \/ s.kind \in Definitions      -> d
      [] ~FoundBoth(d) /\ AssignsAttribute(param, s) -> [d EXCEPT !.defines_attributes = TRUE]
      [] OTHER -> VisitEach(visit, VisitEach(VisitExpr, d, s.heads \o s.targets), s.body)

LEMMA StmtsOf ==
    ASSUME NEW s \in Stmts
    PROVE  /\ s.heads \o s.targets \in Seq(Exprs) /\ s.body \in Seq(Stmts)
           /\ ToSet(s.heads \o s.targets) = ToSet(s.heads) \cup ToSet(s.targets)
           /\ ToSet(Inner(s)) = ToSet(s.heads \o s.targets) \cup ToSet(s.body)
           /\ \A i \in 1..Len(s.heads \o s.targets) :
                 (s.heads \o s.targets)[i] \in Exprs /\ Height((s.heads \o s.targets)[i]) < Height(s)
           /\ Len(s.heads \o s.targets) \in Nat
           /\ \A i \in 1..Len(s.body) : s.body[i] \in Stmts /\ Height(s.body[i]) < Height(s)
           /\ Len(s.body) \in Nat
<1>1. s \in Nodes
  BY DEF Nodes
<1>2. s.heads \in Seq(Exprs) /\ s.targets \in Seq(Exprs) /\ s.parts = << >> /\ s.body \in Seq(Stmts)
  BY <1>1, NodeIs
<1> DEFINE a == s.heads \o s.targets
<1>3. a \in Seq(Exprs) /\ ToSet(a) = ToSet(s.heads) \cup ToSet(s.targets)
  BY <1>2, ToSetConcat
<1>4. ToSet(<< >>) = {}
  BY DEF ToSet
<1>5. ToSet(Inner(s)) = ToSet(a) \cup ToSet(s.body)
  BY <1>1, <1>2, <1>3, <1>4, InnerIs
<1> HIDE DEF a
<1>6. \A i \in 1..Len(a) : a[i] \in Exprs /\ Height(a[i]) < Height(s)
  BY <1>1, <1>3, <1>5, InnerIs, ToSetIn
<1>7. \A i \in 1..Len(s.body) : s.body[i] \in Stmts /\ Height(s.body[i]) < Height(s)
  BY <1>1, <1>2, <1>5, InnerIs, ToSetIn
<1> QED
  BY <1>2, <1>3, <1>5, <1>6, <1>7, ToSetIn DEF a

LEMMA VisitStmtIs ==
    ASSUME NEW param
    PROVE  /\ VisitStmt(param) \in [Stmts -> [Detectors -> Detectors]]
           /\ \A s \in Stmts : \A d \in Detectors :
                 VisitStmt(param)[s][d] = StmtBody(param, VisitStmt(param), s, d)
<1> DEFINE V == [Detectors -> Detectors]
           B == [g \in [Stmts -> V] |-> [s \in Stmts |-> [d \in Detectors |-> StmtBody(param, g, s, d)]]]
           H == HeightOf(Stmts)
           v0 == [d \in Detectors |-> d]
<1>0. ASSUME NEW s \in Stmts, NEW d \in Detectors
      PROVE  VisitEach(VisitExpr, d, s.heads \o s.targets) \in Detectors
  <2> DEFINE a == s.heads \o s.targets
  <2>1. Len(a) \in Nat /\ \A i \in 1..Len(a) : a[i] \in Exprs
    BY StmtsOf
  <2> HIDE DEF a
  <2>2. \A i \in 1..Len(a) : VisitExpr[a[i]] \in V
    BY <2>1, VisitExprIs
  <2>3. VisitEach(VisitExpr, d, a) \in Detectors
    BY <2>1, <2>2, EachDetects
  <2> QED
    BY <2>3 DEF a
<1>1. ASSUME NEW g, NEW s \in Stmts, NEW d \in Detectors,
             \A x \in Stmts : Height(x) < Height(s) => g[x] \in V
      PROVE  StmtBody(param, g, s, d) \in Detectors
  <2> DEFINE e == VisitEach(VisitExpr, d, s.heads \o s.targets)
  <2>1. Len(s.body) \in Nat /\ \A i \in 1..Len(s.body) : s.body[i] \in Stmts /\ Height(s.body[i]) < Height(s)
    BY StmtsOf
  <2>2. \A i \in 1..Len(s.body) : g[s.body[i]] \in V
    BY <1>1, <2>1
  <2>3. e \in Detectors
    BY <1>0
  <2> HIDE DEF e
  <2>4. VisitEach(g, e, s.body) \in Detectors
    BY <2>1, <2>2, <2>3, EachDetects
  <2>5. [d EXCEPT !.defines_attributes = TRUE] \in Detectors
    BY DEF Detectors
  <2> QED
    BY <2>4, <2>5 DEF StmtBody, e
<1>2. B \in [[Stmts -> V] -> [Stmts -> V]]
  <2>1. ASSUME NEW g \in [Stmts -> V], NEW s \in Stmts, NEW d \in Detectors
        PROVE  StmtBody(param, g, s, d) \in Detectors
    BY <1>1
  <2> QED
    BY <2>1
<1>3. ASSUME NEW g \in [Stmts -> V], NEW h \in [Stmts -> V], NEW s \in Stmts,
             \A y \in Stmts : H[y] < H[s] => g[y] = h[y]
      PROVE  B[g][s] = B[h][s]
  <2>1. ASSUME NEW d \in Detectors
        PROVE  StmtBody(param, g, s, d) = StmtBody(param, h, s, d)
    <3> DEFINE e == VisitEach(VisitExpr, d, s.heads \o s.targets)
    <3>1. Len(s.body) \in Nat /\ \A i \in 1..Len(s.body) : s.body[i] \in Stmts /\ Height(s.body[i]) < Height(s)
      BY StmtsOf
    <3>2. \A i \in 1..Len(s.body) : g[s.body[i]] = h[s.body[i]]
      BY <1>3, <3>1 DEF HeightOf
    <3> HIDE DEF e
    <3>3. VisitEach(g, e, s.body) = VisitEach(h, e, s.body)
      BY <3>1, <3>2, EachSame
    <3> QED
      BY <3>3 DEF StmtBody, e
  <2> QED
    BY <2>1
<1>4. v0 \in V /\ H \in [Stmts -> Nat]
  BY HeightsAre
<1>5. \A f : f \in [Stmts -> V] => B[f] = [s \in Stmts |-> [d \in Detectors |-> StmtBody(param, f, s, d)]]
  OBVIOUS
<1> HIDE DEF B, H, v0, V
<1>6. \E f \in [Stmts -> V] : f = B[f]
  <2>1. \A g, h \in [Stmts -> V] : \A s \in Stmts :
           (\A y \in Stmts : H[y] < H[s] => g[y] = h[y]) => B[g][s] = B[h][s]
    BY <1>3
  <2>2. Recursion(Stmts, V, H, B)
    BY <1>2, <1>4, <2>1 DEF Recursion
  <2> QED
    BY <2>2, FixedPoint
<1>7. \E f : f = [s \in Stmts |-> [d \in Detectors |-> StmtBody(param, f, s, d)]]
  <2>1. PICK f \in [Stmts -> V] : f = B[f]
    BY <1>6
  <2>2. f = [s \in Stmts |-> [d \in Detectors |-> StmtBody(param, f, s, d)]]
    BY <1>5, <2>1
  <2> QED
    BY <2>2
<1> DEFINE f == VisitStmt(param)
<1>8. f = CHOOSE g : g = [s \in Stmts |-> [d \in Detectors |-> StmtBody(param, g, s, d)]]
  BY DEF VisitStmt, StmtBody, AssignsAttribute
<1> HIDE DEF f
<1>9. f = [s \in Stmts |-> [d \in Detectors |-> StmtBody(param, f, s, d)]]
  BY <1>7, <1>8
<1>10. \A s \in Stmts : f[s] = [d \in Detectors |-> StmtBody(param, f, s, d)]
  BY <1>9
<1>11. \A s \in Stmts : f[s] \in V
  <2> DEFINE S == {n \in Nodes : n \in Stmts => f[n] \in V}
  <2>1. ASSUME NEW n \in Nodes, \A m \in Nodes : Height(m) < Height(n) => m \in S
        PROVE  n \in S
    <3>1. SUFFICES ASSUME n \in Stmts
                   PROVE  f[n] \in V
      OBVIOUS
    <3>2. \A x \in Stmts : Height(x) < Height(n) => f[x] \in V
      BY <2>1 DEF Nodes
    <3>3. \A d \in Detectors : StmtBody(param, f, n, d) \in Detectors
      BY <1>1, <3>1, <3>2 DEF V
    <3> QED
      BY <1>10, <3>1, <3>3 DEF V
  <2>2. \A n \in Nodes : n \in S
    <3> HIDE DEF S
    <3> QED
      BY <2>1, AllNodes
  <2> QED
    BY <2>2 DEF Nodes
<1>12. f \in [Stmts -> V]
  BY <1>9, <1>11
<1>13. \A s \in Stmts : \A d \in Detectors : f[s][d] = StmtBody(param, f, s, d)
  BY <1>10
<1> QED
  BY <1>12, <1>13 DEF f, V

\* What an assignment to e contains is what its leaves are.
LEMMA LeafIs ==
    ASSUME NEW param
    PROVE  \A e \in Exprs : ContainsParamAttribute(param)[e] <=> \E t \in Leaves[e] : AttributeOf(t, param)
<1> DEFINE C == ContainsParamAttribute(param)
           S == {n \in Nodes : n \in Exprs => (C[n] <=> \E t \in Leaves[n] : AttributeOf(t, param))}
<1>1. ASSUME NEW n \in Nodes, \A m \in Nodes : Height(m) < Height(n) => m \in S
      PROVE  n \in S
  <2>1. SUFFICES ASSUME n \in Exprs
                 PROVE  C[n] <=> \E t \in Leaves[n] : AttributeOf(t, param)
    OBVIOUS
  <2>2. C[n] <=> \/ AttributeOf(n, param)
                 \/ Holds(n) /\ \E i \in DOMAIN n.parts : C[n.parts[i]]
    BY <2>1, ContainsIs, Zenon
  <2>3. Leaves[n] = IF Holds(n) THEN UNION {Leaves[n.parts[i]] : i \in DOMAIN n.parts} ELSE {n}
    BY <2>1, LeavesIs
  <2> HIDE DEF C
  <2>4. CASE Holds(n)
    <3>1. ~AttributeOf(n, param)
      BY <2>4 DEF Holds, AttributeOf, Displays
    <3>2. \A i \in DOMAIN n.parts : C[n.parts[i]] <=> \E t \in Leaves[n.parts[i]] : AttributeOf(t, param)
      BY <1>1, <2>1, PartsOf DEF Nodes
    <3>3. Leaves[n] = UNION {Leaves[n.parts[i]] : i \in DOMAIN n.parts}
      BY <2>3, <2>4
    <3>4. (\E t \in Leaves[n] : AttributeOf(t, param)) <=>
             \E i \in DOMAIN n.parts : \E t \in Leaves[n.parts[i]] : AttributeOf(t, param)
      BY <3>3, Zenon
    <3> QED
      BY <2>2, <2>4, <3>1, <3>2, <3>4, Zenon
  <2>5. CASE ~Holds(n)
    <3>1. Leaves[n] = {n}
      BY <2>3, <2>5
    <3>2. (\E t \in Leaves[n] : AttributeOf(t, param)) <=> AttributeOf(n, param)
      <4>1. \A t : t \in {n} <=> t = n
        OBVIOUS
      <4> QED
        BY <3>1, <4>1, Zenon
    <3> QED
      BY <2>2, <2>5, <3>2, Zenon
  <2> QED
    BY <2>4, <2>5
<1>2. \A n \in Nodes : n \in S
  <2> HIDE DEF S
  <2> QED
    BY <1>1, AllNodes
<1> QED
  BY <1>2 DEF Nodes

Yielding(n) == \E m \in Evaluated[n] : m.kind \in Yields
OwnBinding(n, param) == \E i \in DOMAIN n.targets : \E t \in Leaves[n.targets[i]] : AttributeOf(t, param)
Binding(n, param) == \E m \in Evaluated[n] : OwnBinding(m, param)
OwnHiding(n) == n.kind \in Definitions \cup {"lambda"} /\ \E i \in DOMAIN n.heads : Yielding(n.heads[i])
Hiding(n) == \E m \in Evaluated[n] : OwnHiding(m)

LEMMA NodeHas ==
    ASSUME NEW n \in Nodes, NEW param
    PROVE  /\ Yielding(n) <=> n.kind \in Yields \/ \E m \in ToSet(Scope(n)) : Yielding(m)
           /\ Binding(n, param) <=> OwnBinding(n, param) \/ \E m \in ToSet(Scope(n)) : Binding(m, param)
           /\ Hiding(n) <=> OwnHiding(n) \/ \E m \in ToSet(Scope(n)) : Hiding(m)
<1>1. Evaluated[n] = {n} \cup UNION {Evaluated[m] : m \in ToSet(Scope(n))}
  BY EvaluatedIs
<1>2. \A x : x \in Evaluated[n] <=> x = n \/ \E m \in ToSet(Scope(n)) : x \in Evaluated[m]
  BY <1>1
<1>3. Yielding(n) <=> n.kind \in Yields \/ \E m \in ToSet(Scope(n)) : Yielding(m)
  BY <1>2, Zenon DEF Yielding
<1>4. Binding(n, param) <=> OwnBinding(n, param) \/ \E m \in ToSet(Scope(n)) : Binding(m, param)
  BY <1>2, Zenon DEF Binding
<1>5. Hiding(n) <=> OwnHiding(n) \/ \E m \in ToSet(Scope(n)) : Hiding(m)
  BY <1>2, Zenon DEF Hiding
<1> QED
  BY <1>3, <1>4, <1>5

\* Expressions assign to nothing.
LEMMA ExprsBindNot ==
    ASSUME NEW param
    PROVE  \A e \in Exprs : ~Binding(e, param)
<1> DEFINE S == {n \in Nodes : n \in Exprs => ~Binding(n, param)}
<1>1. ASSUME NEW n \in Nodes, \A m \in Nodes : Height(m) < Height(n) => m \in S
      PROVE  n \in S
  <2>1. SUFFICES ASSUME n \in Exprs
                 PROVE  ~Binding(n, param)
    OBVIOUS
  <2>2. ~OwnBinding(n, param)
    BY <2>1, NodeIs DEF OwnBinding
  <2>3. \A m \in ToSet(Scope(n)) : m \in Exprs /\ m \in Nodes /\ Height(m) < Height(n)
    <3>1. ToSet(Inner(n)) = ToSet(n.heads \o n.parts) /\ n.heads \o n.parts \in Seq(Exprs)
      BY <2>1, ExprsOf
    <3>2. ToSet(Inner(n)) \subseteq Exprs
      BY <3>1, ToSetIn
    <3> QED
      BY <3>2, ScopeLower
  <2>4. \A m \in ToSet(Scope(n)) : ~Binding(m, param)
    BY <1>1, <2>3
  <2>5. Binding(n, param) <=> OwnBinding(n, param) \/ \E m \in ToSet(Scope(n)) : Binding(m, param)
    BY NodeHas
  <2> QED
    BY <2>2, <2>4, <2>5, Zenon
<1>2. \A n \in Nodes : n \in S
  <2> HIDE DEF S
  <2> QED
    BY <1>1, AllNodes
<1> QED
  BY <1>2 DEF Nodes

\* What a definition hides does not show.
LEMMA DefinitionsShowNot ==
    ASSUME NEW n \in Nodes, n.kind \in Definitions \cup {"lambda"}, ~Hiding(n), NEW param
    PROVE  ~Yielding(n) /\ ~Binding(n, param)
<1>1. ToSet(Scope(n)) = ToSet(n.heads) /\ n.heads \in Seq(Exprs) /\ Scope(n) \in Seq(Nodes)
  BY InnerIs, NodeIs
<1>2. \A m \in ToSet(Scope(n)) : m \in Exprs /\ \E i \in DOMAIN n.heads : m = n.heads[i]
  BY <1>1, ToSetIn DEF ToSet
<1>3. ~OwnHiding(n)
  BY NodeHas, Zenon
<1>4. \A m \in ToSet(Scope(n)) : ~Yielding(m)
  BY <1>2, <1>3, Zenon DEF OwnHiding
<1>5. n.kind \notin Yields
  BY DEF Yields, Definitions
<1>6. \A m \in ToSet(Scope(n)) : ~Binding(m, param)
  BY <1>2, ExprsBindNot, Zenon
<1>7. n.targets = << >>
  <2>1. n.kind \notin Assignments
    BY DEF Assignments, Definitions
  <2> QED
    BY <2>1, NodeIs DEF Nodes
<1>8. ~OwnBinding(n, param)
  BY <1>7 DEF OwnBinding
<1>9. /\ Yielding(n) <=> n.kind \in Yields \/ \E m \in ToSet(Scope(n)) : Yielding(m)
      /\ Binding(n, param) <=> OwnBinding(n, param) \/ \E m \in ToSet(Scope(n)) : Binding(m, param)
  BY NodeHas, Zenon
<1> QED
  BY <1>4, <1>5, <1>6, <1>8, <1>9, Zenon

\* After a visit of all of ns the detector d is r.
FoundIn(d, r, ns, param) ==
    /\ r \in Detectors
    /\ r.defines_attributes <=> d.defines_attributes \/ \E n \in ns : Binding(n, param)
    /\ d.contains_yield => r.contains_yield
    /\ r.contains_yield => d.contains_yield \/ \E n \in ns : Yielding(n)
    /\ ~r.defines_attributes /\ (\E n \in ns : Yielding(n)) => r.contains_yield

LEMMA FoundNothing ==
    ASSUME NEW d \in Detectors, NEW ns, NEW param,
           FoundBoth(d) \/ \A n \in ns : ~Yielding(n) /\ ~Binding(n, param)
    PROVE  FoundIn(d, d, ns, param)
BY Zenon DEF FoundIn, FoundBoth

LEMMA FoundThen ==
    ASSUME NEW d, NEW c, NEW r, NEW ms, NEW ns, NEW param,
           FoundIn(d, c, ms, param), FoundIn(c, r, ns, param)
    PROVE  FoundIn(d, r, ms \cup ns, param)
<1>1. (\E n \in ms \cup ns : Yielding(n)) <=> (\E n \in ms : Yielding(n)) \/ (\E n \in ns : Yielding(n))
  BY Zenon
<1>2. (\E n \in ms \cup ns : Binding(n, param)) <=>
         (\E n \in ms : Binding(n, param)) \/ (\E n \in ns : Binding(n, param))
  BY Zenon
<1> QED
  BY <1>1, <1>2, Zenon DEF FoundIn

LEMMA EachFinds ==
    ASSUME NEW visit, NEW d \in Detectors, NEW nodes, Len(nodes) \in Nat, DOMAIN nodes = 1..Len(nodes),
           NEW param,
           \A i \in 1..Len(nodes) : \A c \in Detectors : FoundIn(c, visit[nodes[i]][c], {nodes[i]}, param)
    PROVE  FoundIn(d, VisitEach(visit, d, nodes), ToSet(nodes), param)
<1> DEFINE upto(k) == {nodes[i] : i \in 1..k}
           T == [k \in 0..Len(nodes) |-> {r \in Detectors : FoundIn(d, r, upto(k), param)}]
<1>1. d \in T[0]
  <2>1. upto(0) = {}
    OBVIOUS
  <2>2. FoundIn(d, d, {}, param)
    BY FoundNothing
  <2> QED
    BY <2>1, <2>2
<1>2. ASSUME NEW i \in 1..Len(nodes), NEW c \in T[i - 1]
      PROVE  visit[nodes[i]][c] \in T[i]
  <2>1. i - 1 \in 0..Len(nodes) /\ i \in 0..Len(nodes)
    OBVIOUS
  <2>2. c \in Detectors /\ FoundIn(d, c, upto(i - 1), param)
    BY <2>1, <1>2
  <2>3. FoundIn(c, visit[nodes[i]][c], {nodes[i]}, param)
    BY <2>2
  <2>4. upto(i) = upto(i - 1) \cup {nodes[i]}
    <3>1. \A j \in 1..i : j \in 1..(i - 1) \/ j = i
      OBVIOUS
    <3>2. \A j \in 1..(i - 1) : j \in 1..i
      OBVIOUS
    <3>3. i \in 1..i
      OBVIOUS
    <3> QED
      BY <3>1, <3>2, <3>3
  <2> HIDE DEF upto
  <2>5. FoundIn(d, visit[nodes[i]][c], upto(i), param)
    BY <2>2, <2>3, <2>4, FoundThen
  <2>6. visit[nodes[i]][c] \in Detectors
    BY <2>3 DEF FoundIn
  <2> QED
    BY <2>1, <2>5, <2>6
<1>3. Len(nodes) \in 0..Len(nodes)
  OBVIOUS
<1>4. T[Len(nodes)] = {r \in Detectors : FoundIn(d, r, upto(Len(nodes)), param)}
  BY <1>3
<1>5. upto(Len(nodes)) = ToSet(nodes)
  BY DEF ToSet
<1> HIDE DEF T, upto
<1>6. VisitEach(visit, d, nodes) \in T[Len(nodes)]
  BY <1>1, <1>2, EachKeeps
<1> QED
  BY <1>4, <1>5, <1>6

\* What shows of a node that shows nothing itself is what shows of what is in it.
LEMMA FoundWithin ==
    ASSUME NEW d, NEW r, NEW n \in Nodes, NEW param, n.kind \notin Yields, ~OwnBinding(n, param),
           FoundIn(d, r, ToSet(Scope(n)), param)
    PROVE  FoundIn(d, r, {n}, param)
<1>1. Yielding(n) <=> \E m \in ToSet(Scope(n)) : Yielding(m)
  BY NodeHas, Zenon
<1>2. Binding(n, param) <=> \E m \in ToSet(Scope(n)) : Binding(m, param)
  BY NodeHas, Zenon
<1>3. (\E m \in {n} : Yielding(m)) <=> Yielding(n)
  BY Zenon
<1>4. (\E m \in {n} : Binding(m, param)) <=> Binding(n, param)
  BY Zenon
<1> QED
  BY <1>1, <1>2, <1>3, <1>4, Zenon DEF FoundIn

LEMMA VisitExprFinds ==
    ASSUME NEW param
    PROVE  \A e \in Exprs : ~Hiding(e) => \A d \in Detectors : FoundIn(d, VisitExpr[e][d], {e}, param)
<1> DEFINE S == {n \in Nodes : n \in Exprs /\ ~Hiding(n) =>
                                  \A d \in Detectors : FoundIn(d, VisitExpr[n][d], {n}, param)}
<1>1. ASSUME NEW n \in Nodes, \A m \in Nodes : Height(m) < Height(n) => m \in S
      PROVE  n \in S
  <2>1. SUFFICES ASSUME n \in Exprs, ~Hiding(n), NEW d \in Detectors
                 PROVE  FoundIn(d, VisitExpr[n][d], {n}, param)
    OBVIOUS
  <2>2. VisitExpr[n][d] = ExprBody(VisitExpr, n, d)
    BY <2>1, VisitExprIs
  <2>3. CASE FoundBoth(d)
    <3>1. VisitExpr[n][d] = d
      BY <2>2, <2>3 DEF ExprBody
    <3> QED
      BY <2>1, <2>3, <3>1, FoundNothing
  <2>4. CASE ~FoundBoth(d) /\ n.kind = "lambda"
    <3>1. VisitExpr[n][d] = d
      BY <2>2, <2>4 DEF ExprBody, Yields
    <3>2. ~Yielding(n) /\ ~Binding(n, param)
      BY <2>1, <2>4, DefinitionsShowNot
    <3>3. \A m \in {n} : ~Yielding(m) /\ ~Binding(m, param)
      BY <3>2, Zenon
    <3> QED
      BY <2>1, <3>1, <3>3, FoundNothing
  <2>5. CASE ~FoundBoth(d) /\ n.kind # "lambda" /\ n.kind \in Yields
    <3> DEFINE r == [d EXCEPT !.contains_yield = TRUE]
    <3>1. VisitExpr[n][d] = r
      BY <2>2, <2>5 DEF ExprBody
    <3>2. r \in Detectors /\ r.contains_yield /\ (r.defines_attributes <=> d.defines_attributes)
      BY <2>1 DEF Detectors
    <3>3. Yielding(n)
      BY <2>5, NodeHas, Zenon
    <3>4. ~Binding(n, param)
      BY <2>1, ExprsBindNot
    <3>5. (\E m \in {n} : Yielding(m)) /\ ~\E m \in {n} : Binding(m, param)
      BY <3>3, <3>4, Zenon
    <3> HIDE DEF r
    <3>6. FoundIn(d, r, {n}, param)
      BY <3>2, <3>5, Zenon DEF FoundIn
    <3> QED
      BY <3>1, <3>6
  <2>6. CASE ~FoundBoth(d) /\ n.kind # "lambda" /\ n.kind \notin Yields
    <3> DEFINE a == n.heads \o n.parts
    <3>1. VisitExpr[n][d] = VisitEach(VisitExpr, d, a)
      BY <2>2, <2>6 DEF ExprBody
    <3>2. /\ a \in Seq(Exprs) /\ ToSet(a) = ToSet(Inner(n)) /\ Len(a) \in Nat
          /\ \A i \in 1..Len(a) : a[i] \in Exprs /\ Height(a[i]) < Height(n)
      BY <2>1, ExprsOf
    <3>3. n.kind \notin Definitions
      BY <2>1, NodeIs
    <3>4. ToSet(Scope(n)) = ToSet(a)
      BY <2>6, <3>2, <3>3, InnerIs
    <3> HIDE DEF a
    <3>5. DOMAIN a = 1..Len(a) /\ \A i \in 1..Len(a) : a[i] \in ToSet(a)
      BY <3>2, ToSetIn
    <3>6. \A i \in 1..Len(a) : ~Hiding(a[i])
      BY <2>1, <3>4, <3>5, NodeHas, Zenon
    <3>7. \A i \in 1..Len(a) : a[i] \in S
      BY <1>1, <3>2 DEF Nodes
    <3>8. \A i \in 1..Len(a) : \A c \in Detectors : FoundIn(c, VisitExpr[a[i]][c], {a[i]}, param)
      BY <3>2, <3>6, <3>7
    <3>9. FoundIn(d, VisitEach(VisitExpr, d, a), ToSet(a), param)
      BY <2>1, <3>2, <3>5, <3>8, EachFinds
    <3>10. ~OwnBinding(n, param)
      BY <2>1, NodeIs DEF OwnBinding
    <3> QED
      BY <2>6, <3>1, <3>4, <3>9, <3>10, FoundWithin
  <2> QED
    BY <2>3, <2>4, <2>5, <2>6
<1>2. \A n \in Nodes : n \in S
  <2> HIDE DEF S
  <2> QED
    BY <1>1, AllNodes
<1> QED
  BY <1>2 DEF Nodes

LEMMA AssignsIs ==
    ASSUME NEW s \in Stmts, NEW param
    PROVE  AssignsAttribute(param, s) <=> OwnBinding(s, param)
<1>1. s \in Nodes
  BY DEF Nodes
<1>2. s.targets \in Seq(Exprs) /\ (s.targets # << >> => s.kind \in Assignments)
  BY <1>1, NodeIs
<1>3. \A i \in DOMAIN s.targets : s.targets[i] \in Exprs
  BY <1>2
<1>4. \A i \in DOMAIN s.targets :
         ContainsParamAttribute(param)[s.targets[i]] <=> \E t \in Leaves[s.targets[i]] : AttributeOf(t, param)
  BY <1>3, LeafIs
<1>5. \A i \in DOMAIN s.targets : s.kind \in Assignments
  BY <1>2
<1> QED
  BY <1>4, <1>5, Zenon DEF AssignsAttribute, OwnBinding

LEMMA VisitStmtFinds ==
    ASSUME NEW param
    PROVE  \A s \in Stmts : ~Hiding(s) => \A d \in Detectors : FoundIn(d, VisitStmt(param)[s][d], {s}, param)
<1> DEFINE visit == VisitStmt(param)
           S == {n \in Nodes : n \in Stmts /\ ~Hiding(n) =>
                                  \A d \in Detectors : FoundIn(d, visit[n][d], {n}, param)}
<1>1. ASSUME NEW n \in Nodes, \A m \in Nodes : Height(m) < Height(n) => m \in S
      PROVE  n \in S
  <2>1. SUFFICES ASSUME n \in Stmts, ~Hiding(n), NEW d \in Detectors
                 PROVE  FoundIn(d, visit[n][d], {n}, param)
    OBVIOUS
  <2>2. visit[n][d] = StmtBody(param, visit, n, d)
    BY <2>1, VisitStmtIs
  <2>3. CASE FoundBoth(d)
    <3>1. visit[n][d] = d
      BY <2>2, <2>3 DEF StmtBody
    <3> QED
      BY <2>1, <2>3, <3>1, FoundNothing
  <2>4. CASE ~FoundBoth(d) /\ n.kind \in Definitions
    <3>0. (FoundBoth(d) \/ n.kind \in Definitions) /\ ~AssignsAttribute(param, n)
      BY <2>4 DEF AssignsAttribute, Definitions, Assignments
    <3>1. visit[n][d] = d
      BY <2>2, <3>0 DEF StmtBody
    <3>2. ~Yielding(n) /\ ~Binding(n, param)
      BY <2>1, <2>4, DefinitionsShowNot
    <3>3. \A m \in {n} : ~Yielding(m) /\ ~Binding(m, param)
      BY <3>2, Zenon
    <3> QED
      BY <2>1, <3>1, <3>3, FoundNothing
  <2>5. CASE ~FoundBoth(d) /\ n.kind \notin Definitions /\ AssignsAttribute(param, n)
    <3> DEFINE r == [d EXCEPT !.defines_attributes = TRUE]
    <3>1. visit[n][d] = r
      BY <2>2, <2>5, Zenon DEF StmtBody
    <3>2. r \in Detectors /\ r.defines_attributes /\ (r.contains_yield <=> d.contains_yield)
      BY <2>1 DEF Detectors
    <3>3. Binding(n, param)
      <4>1. OwnBinding(n, param)
        BY <2>1, <2>5, AssignsIs
      <4> QED
        BY <4>1, NodeHas, Zenon
    <3>4. \E m \in {n} : Binding(m, param)
      BY <3>3, Zenon
    <3> HIDE DEF r
    <3>5. FoundIn(d, r, {n}, param)
      BY <3>2, <3>4, Zenon DEF FoundIn
    <3> QED
      BY <3>1, <3>5
  <2>6. CASE ~FoundBoth(d) /\ n.kind \notin Definitions /\ ~AssignsAttribute(param, n)
    <3> DEFINE a == n.heads \o n.targets
               e == VisitEach(VisitExpr, d, a)
               r == VisitEach(visit, e, n.body)
    <3>1. visit[n][d] = r
      BY <2>2, <2>6, Zenon DEF StmtBody
    <3>2. /\ a \in Seq(Exprs) /\ n.body \in Seq(Stmts) /\ ToSet(Inner(n)) = ToSet(a) \cup ToSet(n.body)
          /\ Len(a) \in Nat /\ Len(n.body) \in Nat
          /\ \A i \in 1..Len(a) : a[i] \in Exprs /\ Height(a[i]) < Height(n)
          /\ \A i \in 1..Len(n.body) : n.body[i] \in Stmts /\ Height(n.body[i]) < Height(n)
      BY <2>1, StmtsOf
    <3>3. n.kind \notin Yields \cup {"lambda"}
      BY <2>1, NodeIs
    <3>4. ToSet(Scope(n)) = ToSet(a) \cup ToSet(n.body)
      BY <2>6, <3>2, <3>3, InnerIs
    <3> HIDE DEF a
    <3>5. /\ DOMAIN a = 1..Len(a) /\ \A i \in 1..Len(a) : a[i] \in ToSet(a)
          /\ DOMAIN n.body = 1..Len(n.body) /\ \A i \in 1..Len(n.body) : n.body[i] \in ToSet(n.body)
      BY <3>2, ToSetIn
    <3>6. \A m \in ToSet(Scope(n)) : ~Hiding(m)
      BY <2>1, NodeHas, Zenon
    <3>7. \A i \in 1..Len(a) : ~Hiding(a[i])
      BY <3>4, <3>5, <3>6
    <3>8. \A i \in 1..Len(n.body) : ~Hiding(n.body[i])
      BY <3>4, <3>5, <3>6
    <3>9. \A i \in 1..Len(a) : \A c \in Detectors : FoundIn(c, VisitExpr[a[i]][c], {a[i]}, param)
      BY <3>2, <3>7, VisitExprFinds
    <3>10. FoundIn(d, e, ToSet(a), param)
      BY <2>1, <3>2, <3>5, <3>9, EachFinds
    <3>11. \A i \in 1..Len(n.body) : n.body[i] \in S
      BY <1>1, <3>2 DEF Nodes
    <3> HIDE DEF e, visit
    <3>12. \A i \in 1..Len(n.body) : \A c \in Detectors : FoundIn(c, visit[n.body[i]][c], {n.body[i]}, param)
      BY <3>2, <3>8, <3>11
    <3>13. e \in Detectors
      BY <3>10 DEF FoundIn
    <3>14. FoundIn(e, r, ToSet(n.body), param)
      BY <3>2, <3>5, <3>12, <3>13, EachFinds
    <3> HIDE DEF r
    <3>15. FoundIn(d, r, ToSet(Scope(n)), param)
      BY <3>4, <3>10, <3>14, FoundThen
    <3>16. ~OwnBinding(n, param)
      BY <2>1, <2>6, AssignsIs
    <3> QED
      BY <3>1, <3>3, <3>15, <3>16, FoundWithin
  <2> QED
    BY <2>3, <2>4, <2>5, <2>6
<1>2. \A n \in Nodes : n \in S
  <2> HIDE DEF S
  <2> QED
    BY <1>1, AllNodes
<1> QED
  BY <1>2 DEF Nodes

\* What the visitor finds of a body, when no yield is hidden in it, is what Python says shows of it.
LEMMA EffectIs ==
    ASSUME NEW body \in Seq(Stmts), ~HiddenYield(body), NEW param
    PROVE  HasExternallyVisibleEffect(body, param) <=>
              IsTrivialBody(body) \/ IsGenerator(body) \/ DefinesAttribute(body, param)
<1> DEFINE visit == VisitStmt(param)
           found == VisitEach(visit, Detector, body)
<1>1. /\ Len(body) \in Nat /\ DOMAIN body = 1..Len(body)
      /\ \A i \in 1..Len(body) : body[i] \in Stmts /\ body[i] \in ToSet(body)
  BY ToSetIn
<1>2. \A n : n \in InBody(body) <=> \E i \in DOMAIN body : n \in Evaluated[body[i]]
  BY DEF InBody
<1>3. \A i \in 1..Len(body) : ~Hiding(body[i])
  BY <1>1, <1>2, Zenon DEF HiddenYield, Hiding, OwnHiding, Yielding
<1>4. \A i \in 1..Len(body) : \A c \in Detectors : FoundIn(c, visit[body[i]][c], {body[i]}, param)
  BY <1>1, <1>3, VisitStmtFinds
<1>5. Detector \in Detectors /\ ~Detector.defines_attributes /\ ~Detector.contains_yield
  BY DEF Detector, Detectors
<1> HIDE DEF visit
<1>6. FoundIn(Detector, found, ToSet(body), param)
  BY <1>1, <1>4, <1>5, EachFinds
<1>7. HasExternallyVisibleEffect(body, param) <=>
         IsTrivialBody(body) \/ found.defines_attributes \/ found.contains_yield
  BY Zenon DEF HasExternallyVisibleEffect, visit
<1> HIDE DEF found
<1>8. found.defines_attributes \/ found.contains_yield <=>
         (\E n \in ToSet(body) : Yielding(n)) \/ \E n \in ToSet(body) : Binding(n, param)
  BY <1>5, <1>6, Zenon DEF FoundIn
<1>9. (\E n \in ToSet(body) : Yielding(n)) <=> IsGenerator(body)
  BY <1>2, Zenon DEF ToSet, IsGenerator, Yielding
<1>10. (\E n \in ToSet(body) : Binding(n, param)) <=> DefinesAttribute(body, param)
  <2>1. \A t : t \in Bound(body) <=> \E s \in InBody(body) : \E i \in DOMAIN s.targets : t \in Leaves[s.targets[i]]
    BY DEF Bound
  <2>2. DefinesAttribute(body, param) <=> \E s \in InBody(body) : OwnBinding(s, param)
    BY <2>1, Zenon DEF DefinesAttribute, OwnBinding, AttributeOf
  <2>3. (\E n \in ToSet(body) : Binding(n, param)) <=> \E i \in DOMAIN body : Binding(body[i], param)
    BY Zenon DEF ToSet
  <2> QED
    BY <1>2, <2>2, <2>3, Zenon DEF Binding
<1> QED
  BY <1>7, <1>8, <1>9, <1>10, Zenon

-----------------------------------------------------------------------------
(* Which bodies are left out.                                                *)

InOrderOfSections ==
    /\ func.parameters \in Seq(Parameters)
    /\ \A i \in 2..Count : Place(func.parameters[i - 1].section) <= Place(func.parameters[i].section)

BodyDecided ==
    skip_function_bodies =>
        /\ func.body \in Seq(Stmts)
        /\ InOrderOfSections
        /\ stage \in {"return", "done"} => (block = "serialized" <=> SerializesBody)

LEMMA InitBody ==
    ASSUME Init
    PROVE  BodyDecided
<1>1. stage \notin {"return", "done"}
  BY DEF Init
<1>2. ASSUME skip_function_bodies
      PROVE  func.body \in Seq(Stmts) /\ InOrderOfSections
  <2>1. PICK ps \in ParameterLists : func \in Definition(ps, 1, [l \in 1..MaxLine |-> NoComment], Bodies)
    BY <1>2, Zenon DEF Init
  <2>2. func.parameters = ps /\ func.body \in Bodies
    BY <2>1 DEF Definition
  <2>3. func.body \in Seq(Stmts)
    BY <2>2, SignatureAssumption
  <2>4. \A i \in 2..Len(ps) : Place(ps[i - 1].section) <= Place(ps[i].section)
    BY DEF ParameterLists
  <2>5. func.parameters \in Seq(Parameters)
    BY InitDefinition DEF IsDefinition
  <2> QED
    BY <2>2, <2>3, <2>4, <2>5 DEF InOrderOfSections, Count
<1> QED
  BY <1>1, <1>2, Zenon DEF BodyDecided

LEMMA NextBody ==
    ASSUME BodyDecided, [Next]_vars
    PROVE  BodyDecided'
<1>1. UNCHANGED static
  BY StageNext, Zenon DEF Next
<1>2. func' = func /\ skip_function_bodies' = skip_function_bodies
  BY <1>1 DEF static
<1>3. (SerializesBody <=> SerializesBody') /\ (InOrderOfSections <=> InOrderOfSections')
  <2>1. Count' = Count /\ FirstParamName' = FirstParamName /\ (in_class' <=> in_class)
    BY <1>2 DEF Count, FirstParamName, in_class
  <2> QED
    BY <1>2, <2>1 DEF SerializesBody, InOrderOfSections
<1>4. CASE Body
  <2>1. block' = "serialized" <=> SerializesBody
    BY <1>4 DEF Body
  <2> QED
    BY <1>2, <1>3, <2>1, Zenon DEF BodyDecided
<1>5. CASE Return
  <2>1. block' = block /\ stage \in {"return", "done"}
    BY <1>5 DEF Return
  <2> QED
    BY <1>2, <1>3, <2>1, Zenon DEF BodyDecided
<1>6. CASE UNCHANGED vars
  <2>1. block' = block /\ stage' = stage
    BY <1>6 DEF vars
  <2> QED
    BY <1>2, <1>3, <2>1, Zenon DEF BodyDecided
<1>7. CASE \/ FunctionComment \/ SubtractionPanics \/ InvalidComment \/ OtherComment \/ OwnComment
           \/ OwnDone \/ Argument
  <2>1. stage' \notin {"return", "done"}
    BY <1>7 DEF FunctionComment, SubtractionPanics, InvalidComment, OtherComment, OwnComment, OwnDone, Argument
  <2> QED
    BY <1>2, <1>3, <2>1, Zenon DEF BodyDecided
<1> QED
  BY <1>4, <1>5, <1>6, <1>7 DEF Next, Done

LEMMA BodyInvariant == Spec => []BodyDecided
<1>1. Init => BodyDecided
  BY InitBody
<1>2. BodyDecided /\ [Next]_vars => BodyDecided'
  BY NextBody
<1> QED
  BY <1>1, <1>2, PTL DEF Spec

LEMMA MinIs ==
    ASSUME NEW S, S \subseteq Nat, NEW d \in S, \A q \in S : d <= q
    PROVE  Min(S) = d
<1>1. \A m \in S : (\A q \in S : m <= q) => m = d
  <2>1. ASSUME NEW m \in S, \A q \in S : m <= q
        PROVE  m = d
    <3>1. m <= d /\ d <= m /\ m \in Nat /\ d \in Nat
      BY <2>1
    <3> QED
      BY <3>1
  <2> QED
    BY <2>1
<1>2. Min(S) \in S /\ \A q \in S : Min(S) <= q
  BY DEF Min
<1> QED
  BY <1>1, <1>2

LEMMA PlacesOfSections ==
    /\ Place("posonly") = 1 /\ Place("args") = 2
    /\ \A s \in ToSet(Sections) : /\ Place(s) \in 1..5 /\ Sections[Place(s)] = s
<1>1. \A i \in 1..5 : Sections[i] \in {"posonly", "args", "vararg", "kwonly", "kwarg"}
  BY DEF Sections
<1>2. Sections[1] = "posonly" /\ Sections[2] = "args" /\ Sections[3] = "vararg"
      /\ Sections[4] = "kwonly" /\ Sections[5] = "kwarg"
  BY DEF Sections
<1>3. \A i \in 1..5 : (Sections[i] = "posonly" => i = 1) /\ (Sections[i] = "args" => i = 2)
  BY DEF Sections
<1>4. \A s \in ToSet(Sections) : \E i \in 1..5 : Sections[i] = s
  BY DEF ToSet, Sections
<1>5. \A s : (\E i \in 1..5 : Sections[i] = s) => Place(s) \in 1..5 /\ Sections[Place(s)] = s
  BY DEF Place
<1> HIDE DEF Sections
<1> QED
  BY <1>2, <1>3, <1>4, <1>5

\* The first parameter is the name's if it is positional.
LEMMA FirstIs ==
    ASSUME InOrderOfSections
    PROVE  FirstParamName = IF Count > 0 /\ func.parameters[1].section \in {"posonly", "args"}
                            THEN 1 ELSE NoName
<1> DEFINE ps == func.parameters
           at(section) == {i \in 1..Count : ps[i].section = section}
<1>1. Count \in Nat /\ \A i \in 1..Count : ps[i].section \in ToSet(Sections)
  <2>1. ps \in Seq(Parameters)
    BY DEF InOrderOfSections
  <2>2. Len(ps) \in Nat /\ \A i \in 1..Len(ps) : ps[i] \in Parameters
    BY <2>1
  <2>3. \A p \in Parameters : p.section \in ToSet(Sections)
    BY SignatureAssumption
  <2> QED
    BY <2>2, <2>3 DEF Count
<1>2. \A i \in 1..Count : Place(ps[i].section) \in 1..5
  BY <1>1, PlacesOfSections
<1>3. \A i \in 1..Count : Place(ps[1].section) <= Place(ps[i].section)
  <2> DEFINE S == {k \in Nat : k + 1 <= Count => Place(ps[1].section) <= Place(ps[k + 1].section)}
  <2>1. 0 \in S
    <3>1. 0 + 1 <= Count => Place(ps[1].section) \in 1..5
      BY <1>1, <1>2
    <3> QED
      BY <3>1
  <2>2. ASSUME NEW k \in Nat, k \in S
        PROVE  k + 1 \in S
    <3>1. SUFFICES ASSUME (k + 1) + 1 <= Count
                   PROVE  Place(ps[1].section) <= Place(ps[(k + 1) + 1].section)
      OBVIOUS
    <3>2. k + 1 <= Count /\ k + 1 \in 1..Count /\ (k + 1) + 1 \in 1..Count /\ 1 \in 1..Count
          /\ (k + 1) + 1 \in 2..Count /\ ((k + 1) + 1) - 1 = k + 1
      BY <1>1, <3>1
    <3>3. Place(ps[k + 1].section) <= Place(ps[(k + 1) + 1].section)
      BY <3>2 DEF InOrderOfSections
    <3>4. Place(ps[1].section) <= Place(ps[k + 1].section)
      BY <2>2, <3>2
    <3>5. Place(ps[1].section) \in Int /\ Place(ps[k + 1].section) \in Int
          /\ Place(ps[(k + 1) + 1].section) \in Int
      BY <1>2, <3>2
    <3> QED
      BY <3>3, <3>4, <3>5
  <2>3. \A k \in Nat : k \in S
    <3> HIDE DEF S
    <3> QED
      BY <2>1, <2>2, AllNumbers
  <2>4. ASSUME NEW i \in 1..Count
        PROVE  Place(ps[1].section) <= Place(ps[i].section)
    <3>1. i - 1 \in Nat /\ (i - 1) + 1 = i /\ i <= Count
      BY <1>1
    <3> QED
      BY <2>3, <3>1
  <2> QED
    BY <2>4
<1>4. FirstParamName = CASE at("posonly") # {} -> Min(at("posonly"))
                         [] at("posonly") = {} /\ at("args") # {} -> Min(at("args"))
                         [] OTHER -> NoName
  BY DEF FirstParamName
<1>5. ASSUME NEW section, NEW d \in at(section), d = 1
      PROVE  Min(at(section)) = 1
  <2>1. at(section) \subseteq Nat /\ 1 \in at(section) /\ \A q \in at(section) : 1 <= q
    BY <1>5
  <2> HIDE DEF at
  <2> QED
    BY <2>1, MinIs
<1>6. CASE at("posonly") # {}
  <2>1. PICK i \in 1..Count : ps[i].section = "posonly"
    BY <1>6
  <2>2. 1 \in 1..Count
    BY <1>1
  <2>3. Place(ps[1].section) = 1
    <3>1. Place(ps[1].section) <= 1
      BY <1>3, <2>1, PlacesOfSections
    <3> QED
      BY <1>2, <2>2, <3>1
  <2>4. ps[1].section = "posonly"
    BY <1>1, <2>2, <2>3, PlacesOfSections DEF Sections
  <2>5. Min(at("posonly")) = 1
    BY <1>5, <2>2, <2>4
  <2> HIDE DEF at
  <2>6. FirstParamName = 1
    BY <1>4, <1>6, <2>5
  <2> QED
    BY <1>1, <2>2, <2>4, <2>6
<1>7. CASE at("posonly") = {} /\ at("args") # {}
  <2>1. PICK i \in 1..Count : ps[i].section = "args"
    BY <1>7
  <2>2. 1 \in 1..Count
    BY <1>1
  <2>3. Place(ps[1].section) \in {1, 2}
    <3>1. Place(ps[1].section) <= 2
      BY <1>3, <2>1, PlacesOfSections
    <3> QED
      BY <1>2, <2>2, <3>1
  <2>4. ps[1].section # "posonly"
    BY <1>7, <2>2
  <2>5. ps[1].section = "args"
    BY <1>1, <2>2, <2>3, <2>4, PlacesOfSections DEF Sections
  <2>6. Min(at("args")) = 1
    BY <1>5, <2>2, <2>5
  <2> HIDE DEF at
  <2>7. FirstParamName = 1
    BY <1>4, <1>7, <2>6
  <2> QED
    BY <1>1, <2>2, <2>5, <2>7
<1>8. CASE at("posonly") = {} /\ at("args") = {}
  <2>1. ~(Count > 0 /\ ps[1].section \in {"posonly", "args"})
    <3>1. Count > 0 => 1 \in 1..Count
      BY <1>1
    <3> QED
      BY <1>8, <3>1
  <2> HIDE DEF at
  <2>2. FirstParamName = NoName
    BY <1>4, <1>8
  <2> QED
    BY <2>1, <2>2
<1> QED
  BY <1>6, <1>7, <1>8

LEMMA BodyAtEnd ==
    ASSUME BodyDecided, stage = "done", skip_function_bodies,
           ~HiddenYield(func.body), ~EmptyTarget(func.body)
    PROVE  block = "serialized" <=>
              \/ IsTrivialBody(func.body)
              \/ IsGenerator(func.body)
              \/ /\ in_class /\ Count > 0 /\ func.parameters[1].section \in {"posonly", "args"}
                 /\ DefinesAttribute(func.body, 1)
<1> DEFINE positional == Count > 0 /\ func.parameters[1].section \in {"posonly", "args"}
           name == IF in_class THEN FirstParamName ELSE NoName
<1>1. func.body \in Seq(Stmts) /\ InOrderOfSections /\ (block = "serialized" <=> SerializesBody)
  BY Zenon DEF BodyDecided
<1>2. SerializesBody <=> HasExternallyVisibleEffect(func.body, name)
  BY Zenon DEF SerializesBody
<1>3. name = IF in_class /\ positional THEN 1 ELSE NoName
  BY <1>1, FirstIs, Zenon
<1> HIDE DEF name
<1>4. HasExternallyVisibleEffect(func.body, name) <=>
         IsTrivialBody(func.body) \/ IsGenerator(func.body) \/ DefinesAttribute(func.body, name)
  BY <1>1, EffectIs
<1>5. CASE in_class /\ positional
  <2>1. name = 1
    BY <1>3, <1>5
  <2> QED
    BY <1>1, <1>2, <1>4, <1>5, <2>1, Zenon
<1>6. CASE ~(in_class /\ positional)
  <2>1. name = NoName
    BY <1>3, <1>6
  <2>2. ~DefinesAttribute(func.body, name)
    BY <2>1, Zenon DEF EmptyTarget
  <2> QED
    BY <1>1, <1>2, <1>4, <1>6, <2>2, Zenon
<1> QED
  BY <1>5, <1>6

\* Of any function, whatever is in its body: when bodies are skipped, exactly
\* those are left out that do not show outside (has_externally_visible_effect,
\* EffectDetector, contains_param_attribute).
THEOREM BodiesAreExact == Spec => []BodiesExact
<1>1. BodyDecided => BodiesExact
  BY BodyAtEnd, Zenon DEF BodiesExact
<1> QED
  BY <1>1, BodyInvariant, PTL
=============================================================================
