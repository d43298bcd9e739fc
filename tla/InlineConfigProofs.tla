------------------------- MODULE InlineConfigProofs -------------------------
(***************************************************************************)
(* Inline configuration of any number of comments and directives with any  *)
(* keys and words: what the scanner has taken and what is left of a text   *)
(* are at every character those of a place in its directives (ScanInv), so *)
(* that each part is a directive and its names are those written.          *)
(***************************************************************************)
EXTENDS InlineConfig, SequenceTheorems, WellFoundedInduction, TLAPS

\* What holds of 0 and with any number of the next holds of all.
LEMMA AllNumbers ==
    ASSUME NEW S,
           0 \in S,
           \A k \in Nat : k \in S => k + 1 \in S
    PROVE  \A k \in Nat : k \in S
<1> DEFINE R == OpToRel(<, Nat)
           T == Nat \ S
<1>1. \A i, j \in Nat : i < j => <<i, j>> \in R
  BY DEF OpToRel
<1>2. IsWellFoundedOn(R, Nat)
  BY NatLessThanWellFounded
<1> HIDE DEF R
<1>3. ASSUME T # {}
      PROVE  FALSE
  <2>1. T \in SUBSET Nat
    OBVIOUS
  <2>2. PICK m \in T : \A q \in T : ~(<<q, m>> \in R)
    BY <1>2, <1>3, <2>1, WFMin
  <2>3. m \in Nat /\ m \notin S /\ m # 0
    BY <2>2
  <2>4. m - 1 \in Nat /\ m - 1 < m
    BY <2>3
  <2>5. <<m - 1, m>> \in R
    BY <1>1, <2>3, <2>4
  <2>6. m - 1 \notin T
    BY <2>2, <2>5
  <2>7. m - 1 \in S
    BY <2>4, <2>6
  <2>8. (m - 1) + 1 \in S
    BY <2>4, <2>7
  <2> QED
    BY <2>3, <2>8
<1> QED
  BY <1>3

-----------------------------------------------------------------------------
(* Sequences of tokens.                                                      *)

Tokens == Keys \cup Words \cup Marks \cup {"True"}

Cons(x, s) == <<x>> \o s

LEMMA ConsIs ==
    ASSUME NEW X, NEW x \in X, NEW s \in Seq(X)
    PROVE  /\ Cons(x, s) \in Seq(X) /\ Len(Cons(x, s)) = 1 + Len(s)
           /\ Cons(x, s)[1] = x /\ \A i \in 1..Len(s) : Cons(x, s)[1 + i] = s[i]
           /\ Cons(x, s) # << >> /\ Head(Cons(x, s)) = x /\ Tail(Cons(x, s)) = s
<1> DEFINE one == <<x>>
           c == one \o s
<1>1. one \in Seq(X) /\ Len(one) = 1 /\ one[1] = x
  OBVIOUS
<1> HIDE DEF one
<1>2. /\ Len(one \o s) = Len(one) + Len(s)
      /\ \A i \in 1..Len(one) + Len(s) :
            (one \o s)[i] = IF i <= Len(one) THEN one[i] ELSE s[i - Len(one)]
      /\ one \o s \in Seq(X)
  BY <1>1, ConcatProperties
<1>3. Len(s) \in Nat
  BY LenProperties
<1> HIDE DEF c
<1>4. c \in Seq(X) /\ Len(c) = 1 + Len(s) /\ c[1] = x
  BY <1>1, <1>2, <1>3 DEF c
<1>5. ASSUME NEW i \in 1..Len(s)
      PROVE  c[1 + i] = s[i]
  <2>1. 1 + i \in 1..(1 + Len(s)) /\ ~(1 + i <= 1) /\ (1 + i) - 1 = i
    BY <1>3
  <2> QED
    BY <1>1, <1>2, <2>1 DEF c
<1>6. c # << >>
  BY <1>3, <1>4
<1>7. Head(c) = x /\ Tail(c) \in Seq(X) /\ Len(Tail(c)) = Len(s)
      /\ \A i \in 1..Len(s) : Tail(c)[i] = c[i + 1]
  BY <1>3, <1>4, <1>6, HeadTailProperties
<1>8. \A i \in 1..Len(s) : Tail(c)[i] = s[i]
  BY <1>3, <1>5, <1>7
<1>9. Tail(c) = s
  BY <1>3, <1>7, <1>8, SeqEqual
<1> QED
  BY <1>4, <1>5, <1>6, <1>7, <1>9 DEF c, one, Cons

\* The first place of a token.
LEMMA FirstIs ==
    ASSUME NEW text, Len(text) \in Nat, NEW tokens,
           NEW n \in 1..(Len(text) + 1),
           n <= Len(text) => text[n] \in tokens,
           \A i \in 1..(n - 1) : text[i] \notin tokens
    PROVE  First(text, tokens) = n
<1> DEFINE S == {i \in 1..Len(text) : text[i] \in tokens} \cup {Len(text) + 1}
<1>1. n \in S
  BY n <= Len(text) \/ n = Len(text) + 1
<1>2. \A i \in S : i \in 1..(Len(text) + 1) /\ n <= i
  OBVIOUS
<1> HIDE DEF S
<1>3. \A m \in S : (\A i \in S : m <= i) => m = n
  BY <1>1, <1>2
<1>4. Min(S) = n
  BY <1>1, <1>2, <1>3 DEF Min
<1> QED
  BY <1>4 DEF First, S

LEMMA TrimIs ==
    ASSUME NEW text, Len(text) \in Nat, NEW a \in 1..Len(text), NEW b \in 1..Len(text),
           text[a] # "blank", text[b] # "blank",
           \A i \in 1..Len(text) : i < a \/ i > b => text[i] = "blank"
    PROVE  Trim(text) = SubSeq(text, a, b)
<1> DEFINE S == {i \in 1..Len(text) : text[i] # "blank"}
<1>1. a \in S /\ b \in S /\ a \in Nat /\ b \in Nat
  OBVIOUS
<1>2. ASSUME NEW i \in S
      PROVE  i \in Nat /\ a <= i /\ i <= b
  <2>1. i \in 1..Len(text) /\ ~(i < a \/ i > b)
    OBVIOUS
  <2> QED
    BY <1>1, <2>1
<1> HIDE DEF S
<1>3. Min(S) = a
  <2>1. \A m \in S : (\A i \in S : m <= i) => m = a
    BY <1>1, <1>2
  <2> QED
    BY <1>1, <1>2, <2>1 DEF Min
<1>4. Max(S) = b
  <2>1. \A m \in S : (\A i \in S : m >= i) => m = b
    BY <1>1, <1>2
  <2> QED
    BY <1>1, <1>2, <2>1 DEF Max
<1> QED
  BY <1>1, <1>3, <1>4 DEF Trim, S
-----------------------------------------------------------------------------
(* The recursive functions are what they say.                                *)

LEMMA SplitStep ==
    ASSUME NEW text, Len(text) \in Nat
    PROVE  /\ SplitCommas(text)[0] = [pieces |-> << >>, from |-> 1]
           /\ \A i \in 1..Len(text) : SplitCommas(text)[i] = SplitAt(text, SplitCommas(text)[i - 1], i)
<1> DEFINE first == [pieces |-> << >>, from |-> 1]
           Step(f, i) == IF i = 0 THEN first ELSE SplitAt(text, f[i - 1], i)
           Upto(f, k) == f = [i \in 0..k |-> Step(f, i)]
           S == {k \in Nat : \E f : Upto(f, k)}
<1> HIDE DEF first
<1>1. 0 \in S
  <2> DEFINE f == [i \in {0} |-> first]
  <2>1. f = [i \in 0..0 |-> Step(f, i)]
    OBVIOUS
  <2> QED
    BY <2>1
<1>2. ASSUME NEW k \in Nat, k \in S
      PROVE  k + 1 \in S
  <2>1. PICK f : Upto(f, k)
    BY <1>2
  <2> DEFINE g == [i \in 0..(k + 1) |-> IF i <= k THEN f[i] ELSE Step(f, i)]
  <2>2. ASSUME NEW i \in 0..(k + 1)
        PROVE  g[i] = Step(g, i)
    <3>1. g[i] = Step(f, i)
      BY <2>1
    <3>2. i # 0 => g[i - 1] = f[i - 1]
      OBVIOUS
    <3> HIDE DEF g
    <3> QED
      BY <3>1, <3>2
  <2>3. Upto(g, k + 1)
    <3>1. g = [i \in 0..(k + 1) |-> g[i]]
      OBVIOUS
    <3> HIDE DEF g
    <3> QED
      BY <2>2, <3>1
  <2> HIDE DEF g
  <2> QED
    BY <2>3
<1>3. Len(text) \in S
  <2> HIDE DEF S
  <2> QED
    BY <1>1, <1>2, AllNumbers
<1>4. SplitCommas(text) = CHOOSE f : Upto(f, Len(text))
  BY DEF SplitCommas, first
<1>5. Upto(SplitCommas(text), Len(text))
  BY <1>3, <1>4
<1> DEFINE f == SplitCommas(text)
<1>6. f = [i \in 0..Len(text) |-> Step(f, i)]
  BY <1>5
<1> HIDE DEF f
<1>7. \A i \in 0..Len(text) : f[i] = Step(f, i)
  BY <1>6
<1>8. f[0] = first
  BY <1>7
<1>9. \A i \in 1..Len(text) : f[i] = SplitAt(text, f[i - 1], i)
  BY <1>7
<1> QED
  BY <1>8, <1>9 DEF f, first

LEMMA PartsStep ==
    ASSUME NEW texts, Len(texts) \in Nat
    PROVE  /\ ParseParts(texts)[0] = NoOverrides
           /\ \A i \in 1..Len(texts) : ParseParts(texts)[i] = WithPart(ParseParts(texts)[i - 1], Trim(texts[i]))
<1> DEFINE first == NoOverrides
           Step(f, i) == IF i = 0 THEN first ELSE WithPart(f[i - 1], Trim(texts[i]))
           Upto(f, k) == f = [i \in 0..k |-> Step(f, i)]
           S == {k \in Nat : \E f : Upto(f, k)}
<1> HIDE DEF first
<1>1. 0 \in S
  <2> DEFINE f == [i \in {0} |-> first]
  <2>1. f = [i \in 0..0 |-> Step(f, i)]
    OBVIOUS
  <2> QED
    BY <2>1
<1>2. ASSUME NEW k \in Nat, k \in S
      PROVE  k + 1 \in S
  <2>1. PICK f : Upto(f, k)
    BY <1>2
  <2> DEFINE g == [i \in 0..(k + 1) |-> IF i <= k THEN f[i] ELSE Step(f, i)]
  <2>2. ASSUME NEW i \in 0..(k + 1)
        PROVE  g[i] = Step(g, i)
    <3>1. g[i] = Step(f, i)
      BY <2>1
    <3>2. i # 0 => g[i - 1] = f[i - 1]
      OBVIOUS
    <3> HIDE DEF g
    <3> QED
      BY <3>1, <3>2
  <2>3. Upto(g, k + 1)
    <3>1. g = [i \in 0..(k + 1) |-> g[i]]
      OBVIOUS
    <3> HIDE DEF g
    <3> QED
      BY <2>2, <3>1
  <2> HIDE DEF g
  <2> QED
    BY <2>3
<1>3. Len(texts) \in S
  <2> HIDE DEF S
  <2> QED
    BY <1>1, <1>2, AllNumbers
<1>4. ParseParts(texts) = CHOOSE f : Upto(f, Len(texts))
  BY DEF ParseParts, first
<1>5. Upto(ParseParts(texts), Len(texts))
  BY <1>3, <1>4
<1> DEFINE f == ParseParts(texts)
<1>6. f = [i \in 0..Len(texts) |-> Step(f, i)]
  BY <1>5
<1> HIDE DEF f
<1>7. \A i \in 0..Len(texts) : f[i] = Step(f, i)
  BY <1>6
<1>8. f[0] = first
  BY <1>7
<1>9. \A i \in 1..Len(texts) : f[i] = WithPart(f[i - 1], Trim(texts[i]))
  BY <1>7
<1> QED
  BY <1>8, <1>9 DEF f, first

LEMMA NamesStep ==
    ASSUME NEW said, Len(said) \in Nat, NEW key
    PROVE  /\ Names(said, key)[0] = << >>
           /\ \A i \in 1..Len(said) : Names(said, key)[i] = NamesAt(Names(said, key)[i - 1], said[i], key)
<1> DEFINE first == << >>
           Step(f, i) == IF i = 0 THEN first ELSE NamesAt(f[i - 1], said[i], key)
           Upto(f, k) == f = [i \in 0..k |-> Step(f, i)]
           S == {k \in Nat : \E f : Upto(f, k)}
<1> HIDE DEF first
<1>1. 0 \in S
  <2> DEFINE f == [i \in {0} |-> first]
  <2>1. f = [i \in 0..0 |-> Step(f, i)]
    OBVIOUS
  <2> QED
    BY <2>1
<1>2. ASSUME NEW k \in Nat, k \in S
      PROVE  k + 1 \in S
  <2>1. PICK f : Upto(f, k)
    BY <1>2
  <2> DEFINE g == [i \in 0..(k + 1) |-> IF i <= k THEN f[i] ELSE Step(f, i)]
  <2>2. ASSUME NEW i \in 0..(k + 1)
        PROVE  g[i] = Step(g, i)
    <3>1. g[i] = Step(f, i)
      BY <2>1
    <3>2. i # 0 => g[i - 1] = f[i - 1]
      OBVIOUS
    <3> HIDE DEF g
    <3> QED
      BY <3>1, <3>2
  <2>3. Upto(g, k + 1)
    <3>1. g = [i \in 0..(k + 1) |-> g[i]]
      OBVIOUS
    <3> HIDE DEF g
    <3> QED
      BY <2>2, <3>1
  <2> HIDE DEF g
  <2> QED
    BY <2>3
<1>3. Len(said) \in S
  <2> HIDE DEF S
  <2> QED
    BY <1>1, <1>2, AllNumbers
<1>4. Names(said, key) = CHOOSE f : Upto(f, Len(said))
  BY DEF Names, first
<1>5. Upto(Names(said, key), Len(said))
  BY <1>3, <1>4
<1> DEFINE f == Names(said, key)
<1>6. f = [i \in 0..Len(said) |-> Step(f, i)]
  BY <1>5
<1> HIDE DEF f
<1>7. \A i \in 0..Len(said) : f[i] = Step(f, i)
  BY <1>6
<1>8. f[0] = first
  BY <1>7
<1>9. \A i \in 1..Len(said) : f[i] = NamesAt(f[i - 1], said[i], key)
  BY <1>7
<1> QED
  BY <1>8, <1>9 DEF f, first
LEMMA TextStep ==
    ASSUME NEW said, Len(said) \in Nat
    PROVE  /\ TextFrom(said)[Len(said) + 1] = <<"end">>
           /\ \A n \in 1..Len(said) :
                 TextFrom(said)[n] = (IF n = 1 THEN << >> ELSE <<"comma", "blank">>)
                                        \o Text(said[n]) \o TextFrom(said)[n + 1]
<1> DEFINE last == <<"end">>
           With(f, n) == (IF n = 1 THEN << >> ELSE <<"comma", "blank">>) \o Text(said[n]) \o f[n + 1]
           L == Len(said)
           Step(f, n) == IF n > L THEN last ELSE With(f, n)
           From(f, k) == f = [n \in (L + 1 - k)..(L + 1) |-> Step(f, n)]
           S == {k \in Nat : k <= L => \E f : From(f, k)}
<1>1. TextFrom(said) = CHOOSE f : f = [n \in 1..(L + 1) |-> Step(f, n)]
  BY DEF TextFrom
<1>2. \A f, g, n : f[n + 1] = g[n + 1] => With(f, n) = With(g, n)
  OBVIOUS
<1>3. L \in Nat
  OBVIOUS
<1> HIDE DEF last, With, L
<1>4. 0 \in S
  <2> DEFINE f == [n \in {L + 1} |-> last]
  <2>1. f = [n \in (L + 1 - 0)..(L + 1) |-> Step(f, n)]
    BY <1>3
  <2> HIDE DEF f
  <2> QED
    BY <2>1
<1>5. ASSUME NEW k \in Nat, k \in S
      PROVE  k + 1 \in S
  <2> SUFFICES ASSUME k + 1 <= L
               PROVE  \E f : From(f, k + 1)
    OBVIOUS
  <2>1. PICK f : From(f, k)
    BY <1>3, <1>5
  <2> DEFINE m == L + 1 - (k + 1)
             g == [n \in m..(L + 1) |-> IF n = m THEN Step(f, m) ELSE f[n]]
  <2>2. m \in Nat /\ m < L + 1 /\ m + 1 = L + 1 - k
    BY <1>3
  <2>3. \A n \in (m + 1)..(L + 1) : g[n] = f[n] /\ f[n] = Step(f, n)
    BY <1>3, <2>1, <2>2
  <2>4. g[m] = Step(f, m) /\ g = [n \in m..(L + 1) |-> g[n]]
    BY <1>3, <2>2
  <2> HIDE DEF g, m
  <2>5. ASSUME NEW n \in m..(L + 1)
        PROVE  g[n] = Step(g, n)
    <3>1. n \in Int /\ (n = m \/ n \in (m + 1)..(L + 1))
      BY <1>3, <2>2
    <3>2. g[n] = Step(f, n)
      BY <2>3, <2>4, <3>1
    <3>3. ~(n > L) => n + 1 \in (m + 1)..(L + 1)
      BY <1>3, <2>2, <3>1
    <3>4. ~(n > L) => With(f, n) = With(g, n)
      BY <1>2, <2>3, <3>3
    <3> QED
      BY <3>2, <3>4
  <2>6. g = [n \in m..(L + 1) |-> Step(g, n)]
    BY <2>4, <2>5
  <2> QED
    BY <2>6 DEF m
<1>6. \E f : From(f, L)
  <2>1. L \in S
    <3> HIDE DEF S
    <3> QED
      BY <1>3, <1>4, <1>5, AllNumbers
  <2> QED
    BY <1>3, <2>1
<1>7. L + 1 - L = 1
  BY <1>3
<1>8. \E f : f = [n \in 1..(L + 1) |-> Step(f, n)]
  BY <1>6, <1>7
<1> DEFINE f == TextFrom(said)
<1>9. f = [n \in 1..(L + 1) |-> Step(f, n)]
  BY <1>1, <1>8
<1> HIDE DEF f
<1>10. \A n \in 1..(L + 1) : f[n] = Step(f, n)
  BY <1>9
<1>11. f[L + 1] = last
  BY <1>3, <1>10
<1>12. \A n \in 1..L : f[n] = With(f, n)
  BY <1>3, <1>10
<1> QED
  BY <1>11, <1>12 DEF f, last, With, L
-----------------------------------------------------------------------------
(* Directives and their texts.                                               *)

W == Words \cup {"True"}

LEMMA NoMarks == \A w \in W \cup Keys : w \in Tokens /\ w \notin Marks
  BY InlineAssumption DEF W, Tokens, Marks

LEMMA DirectiveIs ==
    ASSUME NEW d \in Directives
    PROVE  /\ d.key \in Keys /\ d.values \in Seq(Words) /\ Len(d.values) \in Nat
           /\ Given(d) \in Seq(W) /\ Len(Given(d)) \in Nat \ {0}
           /\ Len(d.values) = 0 => Given(d) = <<"True">>
           /\ Len(d.values) > 0 => Given(d) = d.values
<1>1. d.key \in Keys /\ d.values \in SeqsUpTo(Words, MaxNames)
  BY DEF Directives
<1>2. PICK k \in 0..MaxNames : d.values \in [1..k -> Words]
  BY <1>1 DEF SeqsUpTo
<1>3. k \in Nat /\ d.values = [i \in 1..k |-> d.values[i]] /\ \A i \in 1..k : d.values[i] \in Words
  BY <1>2, InlineAssumption
<1>4. d.values \in Seq(Words) /\ Len(d.values) \in Nat
  BY <1>3, IsASeq, LenProperties
<1>5. CASE d.values = << >>
  <2>1. Given(d) = <<"True">>
    BY <1>5 DEF Given
  <2>2. <<"True">> \in Seq(W) /\ Len(<<"True">>) = 1
    BY DEF W
  <2> QED
    BY <1>1, <1>4, <1>5, <2>1, <2>2
<1>6. CASE d.values # << >>
  <2>1. Given(d) = d.values
    BY <1>6 DEF Given
  <2>2. Len(d.values) > 0
    BY <1>4, <1>6
  <2>3. d.values \in Seq(W)
    BY <1>4, SeqMonotonic DEF W
  <2> QED
    BY <1>1, <1>4, <2>1, <2>2, <2>3
<1> QED
  BY <1>5, <1>6

LEMMA Thirds ==
    ASSUME NEW k \in Nat
    PROVE  /\ k > 0 => (3 * k - 2) % 3 = 1 /\ ((3 * k - 2) + 2) \div 3 = k
           /\ k > 0 => (3 * k - 1) % 3 = 2
           /\ (3 * k) % 3 = 0
  OBVIOUS

LEMMA ThirdOf ==
    ASSUME NEW i \in Nat \ {0}
    PROVE  \E k \in Nat \ {0} : i = 3 * k - 2 \/ i = 3 * k - 1 \/ i = 3 * k
<1> DEFINE k == (i + 2) \div 3
<1>1. k \in Nat \ {0} /\ (i = 3 * k - 2 \/ i = 3 * k - 1 \/ i = 3 * k)
  OBVIOUS
<1> HIDE DEF k
<1> QED
  BY <1>1

LEMMA ListedIs ==
    ASSUME NEW values \in Seq(W), Len(values) \in Nat \ {0}
    PROVE  /\ Listed(values) \in Seq(Tokens) /\ Len(Listed(values)) = 3 * Len(values) - 2
           /\ \A k \in 1..Len(values) : Listed(values)[3 * k - 2] = values[k]
           /\ \A k \in 1..(Len(values) - 1) :
                 Listed(values)[3 * k - 1] = "comma" /\ Listed(values)[3 * k] = "blank"
<1> DEFINE L == Len(values)
           s == Listed(values)
           At(i) == CASE i % 3 = 1 -> values[(i + 2) \div 3] [] i % 3 = 2 -> "comma" [] OTHER -> "blank"
<1>1. s = [i \in 1..(3 * L - 2) |-> At(i)]
  BY DEF Listed
<1>2. L \in Nat \ {0} /\ \A k \in 1..L : values[k] \in W
  BY ElementOfSeq
<1> HIDE DEF s, L, At
<1>3. \A i \in 1..(3 * L - 2) : s[i] = At(i)
  BY <1>1
<1>4. ASSUME NEW k \in 1..L
      PROVE  s[3 * k - 2] = values[k]
  <2>1. 3 * k - 2 \in 1..(3 * L - 2) /\ k \in Nat /\ k > 0
    BY <1>2
  <2>2. At(3 * k - 2) = values[k]
    <3>1. (3 * k - 2) % 3 = 1 /\ ((3 * k - 2) + 2) \div 3 = k
      BY <2>1, Thirds
    <3> DEFINE j == 3 * k - 2
    <3> HIDE DEF j
    <3>2. j % 3 = 1 /\ (j + 2) \div 3 = k => At(j) = values[k]
      BY DEF At
    <3> QED
      BY <3>1, <3>2 DEF j
  <2> QED
    BY <1>3, <2>1, <2>2
<1>5. ASSUME NEW k \in 1..(L - 1)
      PROVE  s[3 * k - 1] = "comma" /\ s[3 * k] = "blank"
  <2>1. /\ 3 * k - 1 \in 1..(3 * L - 2) /\ 3 * k \in 1..(3 * L - 2) /\ k \in Nat /\ k > 0
    BY <1>2
  <2>2. At(3 * k - 1) = "comma" /\ At(3 * k) = "blank"
    <3>1. (3 * k - 1) % 3 = 2 /\ (3 * k) % 3 = 0
      BY <2>1, Thirds
    <3> DEFINE j == 3 * k - 1
               m == 3 * k
    <3> HIDE DEF j, m
    <3>2. (j % 3 = 2 => At(j) = "comma") /\ (m % 3 = 0 => At(m) = "blank")
      BY DEF At
    <3> QED
      BY <3>1, <3>2 DEF j, m
  <2> QED
    BY <1>3, <2>1, <2>2
<1>6. ASSUME NEW i \in 1..(3 * L - 2)
      PROVE  s[i] \in Tokens
  <2>1. i \in Nat \ {0}
    BY <1>2
  <2>2. PICK k \in Nat \ {0} : i = 3 * k - 2 \/ i = 3 * k - 1 \/ i = 3 * k
    BY <2>1, ThirdOf
  <2>3. CASE i = 3 * k - 2
    <3>1. k \in 1..L
      BY <1>2, <2>2, <2>3
    <3> QED
      BY <1>2, <1>4, <2>3, <3>1, NoMarks
  <2>4. CASE i = 3 * k - 1 \/ i = 3 * k
    <3>1. k \in 1..(L - 1)
      BY <1>2, <2>2, <2>4
    <3>2. s[i] \in {"comma", "blank"}
      BY <1>5, <2>4, <3>1
    <3> QED
      BY <3>2 DEF Tokens, Marks
  <2> QED
    BY <2>2, <2>3, <2>4
<1>7. 3 * L - 2 \in Nat /\ s = [i \in 1..(3 * L - 2) |-> s[i]]
  BY <1>1, <1>2
<1>8. s \in Seq(Tokens) /\ Len(s) = 3 * L - 2
  BY <1>6, <1>7, IsASeq
<1> QED
  BY <1>4, <1>5, <1>8 DEF s, L
LEMMA SingleIs ==
    ASSUME NEW X, NEW s \in Seq(X), Len(s) = 1
    PROVE  s = <<s[1]>>
<1> DEFINE t == <<s[1]>>
<1>1. s[1] \in X
  <2>1. 1 \in 1..Len(s)
    OBVIOUS
  <2> QED
    BY <2>1, ElementOfSeq
<1>2. t \in Seq(X) /\ Len(t) = 1 /\ t[1] = s[1]
  BY <1>1
<1> HIDE DEF t
<1>3. \A i \in 1..Len(s) : s[i] = t[i]
  BY <1>2
<1>4. s = t
  BY <1>2, <1>3, SeqEqual
<1> QED
  BY <1>4 DEF t

LEMMA TrimToOne ==
    ASSUME NEW s \in Seq(Tokens), NEW a \in 1..Len(s), NEW w, s[a] = w, w # "blank",
           \A i \in 1..Len(s) : i # a => s[i] = "blank"
    PROVE  Trim(s) = <<w>>
<1>1. Len(s) \in Nat
  BY LenProperties
<1>2. a \in Nat /\ \A i \in 1..Len(s) : i < a \/ i > a => i # a
  BY <1>1
<1>3. Trim(s) = SubSeq(s, a, a)
  BY <1>1, <1>2, TrimIs
<1>4. /\ SubSeq(s, a, a) \in Seq(Tokens) /\ Len(SubSeq(s, a, a)) = 1
      /\ SubSeq(s, a, a)[1] = s[a]
  <2>1. a \in 1..(Len(s) + 1) /\ a \in (a - 1)..Len(s) /\ a - a + 1 = 1 /\ a + 1 - 1 = a /\ a <= a
    BY <1>1
  <2> QED
    BY <1>1, <1>2, <2>1, SubSeqProperties
<1> QED
  BY <1>3, <1>4, SingleIs

\* What stands between two commas of a list is a word.
LEMMA PieceOf ==
    ASSUME NEW values \in Seq(W), Len(values) \in Nat \ {0}, NEW k \in 0..(Len(values) - 1)
    PROVE  Trim(SubSeq(Listed(values), IF k = 0 THEN 1 ELSE 3 * k, 3 * k + 1)) = <<values[k + 1]>>
<1> DEFINE s == Listed(values)
           L == Len(values)
           from == IF k = 0 THEN 1 ELSE 3 * k
           t == SubSeq(s, from, 3 * k + 1)
<1>1. /\ s \in Seq(Tokens) /\ Len(s) = 3 * L - 2
      /\ \A j \in 1..L : s[3 * j - 2] = values[j]
      /\ \A j \in 1..(L - 1) : s[3 * j] = "blank"
  BY ListedIs
<1>2. L \in Nat \ {0} /\ k \in 0..(L - 1)
  OBVIOUS
<1>3. values[k + 1] \in W
  BY ElementOfSeq
<1>4. values[k + 1] # "blank"
  BY <1>3, NoMarks DEF Marks
<1> HIDE DEF s, L
<1>5. k + 1 \in 1..L /\ 3 * (k + 1) - 2 = 3 * k + 1
  BY <1>2
<1>6. s[3 * k + 1] = values[k + 1]
  BY <1>1, <1>5
<1>7. CASE k = 0
  <2>1. 1 \in 1..(Len(s) + 1) /\ 1 \in 0..Len(s)
    BY <1>1, <1>2
  <2>2. /\ SubSeq(s, 1, 1) \in Seq(Tokens) /\ Len(SubSeq(s, 1, 1)) = 1
        /\ SubSeq(s, 1, 1)[1] = s[1]
    BY <1>1, <2>1, SubSeqProperties
  <2>3. t = SubSeq(s, 1, 1)
    BY <1>7
  <2> HIDE DEF t
  <2>4. t[1] = values[k + 1] /\ 1 \in 1..Len(t) /\ \A i \in 1..Len(t) : i = 1
    BY <1>6, <1>7, <2>2, <2>3
  <2>5. Trim(t) = <<values[k + 1]>>
    BY <1>4, <2>2, <2>3, <2>4, TrimToOne
  <2> QED
    BY <2>5 DEF t, s
<1>8. CASE k > 0
  <2> DEFINE m == 3 * k
  <2>1. m \in Nat /\ m \in 1..Len(s) /\ m + 1 \in 1..Len(s) /\ k \in 1..(L - 1)
    BY <1>1, <1>2, <1>8
  <2>2. s[m] = "blank" /\ s[m + 1] = values[k + 1]
    BY <1>1, <1>6, <2>1
  <2>3. t = SubSeq(s, m, m + 1)
    BY <1>8
  <2> HIDE DEF m, t
  <2>4. /\ t \in Seq(Tokens) /\ Len(t) = 2 /\ t[1] = s[m] /\ t[2] = s[m + 1]
    <3>1. /\ m \in 1..(Len(s) + 1) /\ m + 1 \in (m - 1)..Len(s) /\ (m + 1) - m + 1 = 2
          /\ m <= m + 1 /\ m + 1 - 1 = m /\ m + 2 - 1 = m + 1 /\ 1 \in 1..2 /\ 2 \in 1..2
      BY <1>1, <1>2, <2>1
    <3>2. /\ SubSeq(s, m, m + 1) \in Seq(Tokens)
          /\ Len(SubSeq(s, m, m + 1)) = IF m <= m + 1 THEN (m + 1) - m + 1 ELSE 0
          /\ \A i \in 1..((m + 1) - m + 1) : SubSeq(s, m, m + 1)[i] = s[m + i - 1]
      BY <1>1, <3>1, SubSeqProperties
    <3> QED
      BY <2>3, <3>1, <3>2
  <2>5. t[2] = values[k + 1] /\ 2 \in 1..Len(t) /\ \A i \in 1..Len(t) : i # 2 => t[i] = "blank"
    <3>1. \A i \in 1..Len(t) : i = 1 \/ i = 2
      BY <2>4
    <3> QED
      BY <2>2, <2>4, <3>1
  <2>6. Trim(t) = <<values[k + 1]>>
    BY <1>4, <2>4, <2>5, TrimToOne
  <2> QED
    BY <2>6 DEF t, s
<1> QED
  BY <1>2, <1>7, <1>8
LEMMA AtComma ==
    ASSUME NEW text, NEW split, NEW i, text[i] = "comma"
    PROVE  SplitAt(text, split, i) =
              [pieces |-> Kept(split.pieces, Trim(SubSeq(text, split.from, i - 1))), from |-> i + 1]
<1>1. ~(text[i] # "comma")
  OBVIOUS
<1> QED
  BY <1>1, Zenon DEF SplitAt

\* The words of a list are its names.
LEMMA NamesOfListed ==
    ASSUME NEW values \in Seq(W), Len(values) \in Nat \ {0}
    PROVE  NamesOf(Listed(values)) = [j \in 1..Len(values) |-> <<values[j]>>]
<1> DEFINE s == Listed(values)
           L == Len(values)
           f == SplitCommas(s)
           Words1(k) == [j \in 1..k |-> <<values[j]>>]
           From(k) == IF k = 0 THEN 1 ELSE 3 * k
           At(k) == [pieces |-> Words1(k), from |-> From(k)]
           Piece1(k) == Trim(SubSeq(s, From(k), 3 * k + 1))
           S == {k \in Nat : k < L => f[3 * k + 1] = At(k)}
<1>1. /\ s \in Seq(Tokens) /\ Len(s) = 3 * L - 2
      /\ \A j \in 1..L : s[3 * j - 2] = values[j]
      /\ \A j \in 1..(L - 1) : s[3 * j - 1] = "comma" /\ s[3 * j] = "blank"
  BY ListedIs
<1>2. L \in Nat \ {0} /\ \A j \in 1..L : values[j] \in W
  BY ElementOfSeq
<1>3. f[0] = [pieces |-> << >>, from |-> 1] /\ \A i \in 1..Len(s) : f[i] = SplitAt(s, f[i - 1], i)
  BY <1>1, <1>2, SplitStep
<1>4. \A k \in 0..(L - 1) : Piece1(k) = <<values[k + 1]>>
  BY PieceOf
<1> HIDE DEF s, L, f, Words1, From, Piece1
<1>5. ASSUME NEW k \in Nat, k < L
      PROVE  Kept(Words1(k), Piece1(k)) = Words1(k + 1)
  <2>1. Piece1(k) = <<values[k + 1]>> /\ <<values[k + 1]>> # << >>
    BY <1>2, <1>4, <1>5
  <2>2. Kept(Words1(k), Piece1(k)) = Append(Words1(k), <<values[k + 1]>>)
    BY <2>1 DEF Kept
  <2>3. Append(Words1(k), <<values[k + 1]>>) = Words1(k + 1)
    BY DEF Words1
  <2> QED
    BY <2>2, <2>3
<1>6. \A j \in 1..L : s[3 * j - 2] # "comma"
  BY <1>1, <1>2, NoMarks DEF Marks
<1>7. 0 \in S
  <2>1. 1 \in 1..Len(s) /\ 3 * 1 - 2 = 1 /\ 1 \in 1..L /\ 1 - 1 = 0 /\ 3 * 0 + 1 = 1
    BY <1>1, <1>2
  <2>2. f[1] = f[0]
    BY <1>3, <1>6, <2>1 DEF SplitAt
  <2>3. At(0) = [pieces |-> << >>, from |-> 1]
    BY DEF Words1, From
  <2> QED
    BY <1>3, <2>1, <2>2, <2>3
<1>8. ASSUME NEW k \in Nat, k \in S
      PROVE  k + 1 \in S
  <2> SUFFICES ASSUME k + 1 < L
               PROVE  f[3 * (k + 1) + 1] = At(k + 1)
    OBVIOUS
  <2> DEFINE m == 3 * k + 1
  <2>1. f[m] = At(k)
    BY <1>2, <1>8
  <2>2. /\ m \in Nat /\ m + 1 \in 1..Len(s) /\ m + 2 \in 1..Len(s) /\ m + 3 \in 1..Len(s)
        /\ k + 1 \in 1..(L - 1) /\ k + 2 \in 1..L
        /\ 3 * (k + 1) - 1 = m + 1 /\ 3 * (k + 1) = m + 2 /\ 3 * (k + 2) - 2 = m + 3
        /\ (m + 1) - 1 = m /\ (m + 2) - 1 = m + 1 /\ (m + 3) - 1 = m + 2 /\ (m + 1) + 1 = m + 2
        /\ 3 * (k + 1) + 1 = m + 3
    BY <1>1, <1>2
  <2>3. Piece1(k) = Trim(SubSeq(s, From(k), m))
    BY DEF Piece1
  <2>4. From(k + 1) = m + 2
    BY DEF From
  <2> HIDE DEF m
  <2>5. s[m + 1] = "comma" /\ s[m + 2] # "comma" /\ s[m + 3] # "comma"
    BY <1>1, <1>6, <2>2
  <2>6. f[m + 1] = SplitAt(s, f[m], m + 1)
    BY <1>3, <2>2
  <2>7. SplitAt(s, f[m], m + 1) = [pieces |-> Kept(f[m].pieces, Trim(SubSeq(s, f[m].from, (m + 1) - 1))),
                                   from |-> (m + 1) + 1]
    BY <2>5, AtComma
  <2>8. f[m].pieces = Words1(k) /\ f[m].from = From(k)
    BY <2>1
  <2>9. f[m + 1] = [pieces |-> Kept(Words1(k), Piece1(k)), from |-> m + 2]
    BY <2>2, <2>3, <2>6, <2>7, <2>8
  <2>10. f[m + 1] = At(k + 1)
    <3>1. k < L
      BY <1>2
    <3>2. Kept(Words1(k), Piece1(k)) = Words1(k + 1)
      BY <1>5, <3>1
    <3> QED
      BY <2>4, <2>9, <3>2, Zenon
  <2>11. f[m + 2] = SplitAt(s, f[m + 1], m + 2) /\ f[m + 3] = SplitAt(s, f[m + 2], m + 3)
    BY <1>3, <2>2
  <2>12. f[m + 2] = f[m + 1] /\ f[m + 3] = f[m + 2]
    BY <2>5, <2>11 DEF SplitAt
  <2> QED
    BY <2>2, <2>10, <2>12
<1>9. \A k \in Nat : k \in S
  <2> HIDE DEF S
  <2> QED
    BY <1>7, <1>8, AllNumbers
<1>10. L - 1 \in Nat /\ L - 1 < L /\ 3 * (L - 1) + 1 = Len(s) /\ (L - 1) + 1 = L
  BY <1>1, <1>2
<1>11. f[Len(s)] = At(L - 1)
  BY <1>9, <1>10
<1>12. NamesOf(s) = Kept(f[Len(s)].pieces, Trim(SubSeq(s, f[Len(s)].from, Len(s))))
  BY DEF NamesOf, f
<1>13. Piece1(L - 1) = Trim(SubSeq(s, From(L - 1), Len(s)))
  BY <1>10 DEF Piece1
<1>14. f[Len(s)].pieces = Words1(L - 1) /\ f[Len(s)].from = From(L - 1)
  BY <1>11
<1>15. NamesOf(s) = Kept(Words1(L - 1), Piece1(L - 1))
  BY <1>12, <1>13, <1>14
<1>16. NamesOf(s) = Words1(L)
  BY <1>5, <1>10, <1>15
<1> QED
  BY <1>16 DEF Words1, s, L
-----------------------------------------------------------------------------
(* What a directive is in the parts, without the quotes of a list, and what  *)
(* is read from it.                                                          *)

Piece(d) ==
    CASE Len(d.values) = 0 -> <<d.key>>
      [] Len(d.values) = 1 -> <<d.key, "blank", "equals", d.values[1]>>
      [] OTHER -> <<d.key, "equals">> \o Listed(d.values)

LEMMA ListedTrimmed ==
    ASSUME NEW values \in Seq(W), Len(values) \in Nat \ {0}
    PROVE  /\ Trim(Listed(values)) = Listed(values)
           /\ \A i \in 1..Len(Listed(values)) : Listed(values)[i] \notin {"quote", "equals", "end"}
           /\ Len(values) = 1 => Listed(values) = <<values[1]>>
           /\ Listed(values)[1] # "blank" /\ Listed(values)[Len(Listed(values))] # "blank"
<1> DEFINE s == Listed(values)
           L == Len(values)
<1>1. /\ s \in Seq(Tokens) /\ Len(s) = 3 * L - 2
      /\ \A j \in 1..L : s[3 * j - 2] = values[j]
      /\ \A j \in 1..(L - 1) : s[3 * j - 1] = "comma" /\ s[3 * j] = "blank"
  BY ListedIs
<1>2. L \in Nat \ {0} /\ \A j \in 1..L : values[j] \in W
  BY ElementOfSeq
<1>3. Len(values) = 1 => L = 1
  OBVIOUS
<1> HIDE DEF s, L
<1>4. \A j \in 1..L : s[3 * j - 2] \notin Marks
  BY <1>1, <1>2, NoMarks
<1>5. s[1] # "blank" /\ s[Len(s)] # "blank"
  <2>1. 1 \in 1..L /\ L \in 1..L /\ 3 * 1 - 2 = 1 /\ 3 * L - 2 = Len(s)
    BY <1>1, <1>2
  <2> QED
    BY <1>4, <2>1 DEF Marks
<1>6. Trim(s) = s
  <2>1. 1 \in 1..Len(s) /\ Len(s) \in 1..Len(s) /\ Len(s) \in Nat
    BY <1>1, <1>2
  <2>2. \A i \in 1..Len(s) : i < 1 \/ i > Len(s) => s[i] = "blank"
    BY <2>1
  <2>3. Trim(s) = SubSeq(s, 1, Len(s))
    BY <1>5, <2>1, <2>2, TrimIs
  <2> QED
    BY <1>1, <2>3, SubSeqFull
<1>7. ASSUME NEW i \in 1..Len(s)
      PROVE  s[i] \notin {"quote", "equals", "end"}
  <2>1. i \in Nat \ {0}
    BY <1>1, <1>2
  <2>2. PICK k \in Nat \ {0} : i = 3 * k - 2 \/ i = 3 * k - 1 \/ i = 3 * k
    BY <2>1, ThirdOf
  <2>3. CASE i = 3 * k - 2
    <3>1. k \in 1..L
      BY <1>1, <1>2, <2>2, <2>3
    <3> QED
      BY <1>4, <2>3, <3>1 DEF Marks
  <2>4. CASE i = 3 * k - 1 \/ i = 3 * k
    <3>1. k \in 1..(L - 1)
      BY <1>1, <1>2, <2>2, <2>4
    <3> QED
      BY <1>1, <2>4, <3>1
  <2> QED
    BY <2>2, <2>3, <2>4
<1>8. L = 1 => s = <<values[1]>>
  <2> SUFFICES ASSUME L = 1
               PROVE  s = <<values[1]>>
    OBVIOUS
  <2>1. Len(s) = 1 /\ 1 \in 1..L /\ 3 * 1 - 2 = 1
    BY <1>1
  <2>2. s[1] = values[1]
    BY <1>1, <2>1
  <2> QED
    BY <1>1, <2>1, <2>2, SingleIs
<1> QED
  BY <1>3, <1>5, <1>6, <1>7, <1>8 DEF s

LEMMA PieceBare ==
    ASSUME NEW d \in Directives, Len(d.values) = 0
    PROVE  /\ Piece(d) \in Seq(Tokens) /\ Len(Piece(d)) \in Nat \ {0}
           /\ Piece(d)[1] # "blank" /\ Piece(d)[Len(Piece(d))] # "blank"
           /\ Key(Piece(d)) = <<d.key>> /\ Value(Piece(d)) = Listed(Given(d))
<1> DEFINE t == <<d.key>>
<1>1. Piece(d) = t
  BY DEF Piece
<1>2. d.key \in Tokens /\ d.key \notin Marks /\ Given(d) = <<"True">>
  BY DirectiveIs, NoMarks
<1>3. t \in Seq(Tokens) /\ Len(t) = 1 /\ t[1] = d.key
  BY <1>2
<1> HIDE DEF t
<1>4. Equals(t) = 2
  <2>1. 2 \in 1..(Len(t) + 1) /\ Len(t) \in Nat /\ ~(2 <= Len(t))
    BY <1>3
  <2>2. \A i \in 1..(2 - 1) : t[i] \notin {"equals"}
    <3>1. \A i \in 1..(2 - 1) : i = 1
      OBVIOUS
    <3> QED
      BY <1>2, <1>3, <3>1 DEF Marks
  <2> QED
    BY <2>1, <2>2, FirstIs DEF Equals
<1>5. Key(t) = t /\ Value(t) = <<"True">>
  BY <1>3, <1>4 DEF Key, Value
<1>6. Listed(Given(d)) = <<"True">>
  <2>1. Given(d) \in Seq(W) /\ Len(Given(d)) \in Nat \ {0} /\ Len(Given(d)) = 1 /\ Given(d)[1] = "True"
    BY <1>2, DirectiveIs
  <2> QED
    BY <2>1, ListedTrimmed
<1> QED
  BY <1>1, <1>2, <1>3, <1>5, <1>6 DEF t, Marks

LEMMA PieceSingle ==
    ASSUME NEW d \in Directives, Len(d.values) = 1
    PROVE  /\ Piece(d) \in Seq(Tokens) /\ Len(Piece(d)) \in Nat \ {0}
           /\ Piece(d)[1] # "blank" /\ Piece(d)[Len(Piece(d))] # "blank"
           /\ Key(Piece(d)) = <<d.key>> /\ Value(Piece(d)) = Listed(Given(d))
<1> DEFINE v == d.values[1]
           t == <<d.key, "blank", "equals", v>>
<1>1. Piece(d) = t
  BY DEF Piece
<1>2. d.key \in Tokens /\ d.key \notin Marks /\ Given(d) = d.values /\ d.values \in Seq(W)
  BY DirectiveIs, NoMarks
<1>3. v \in Tokens /\ v \notin Marks
  <2>1. 1 \in 1..Len(d.values)
    OBVIOUS
  <2>2. v \in W
    BY <1>2, <2>1, ElementOfSeq
  <2> QED
    BY <2>2, NoMarks
<1>4. "blank" \in Tokens /\ "equals" \in Tokens
  BY DEF Tokens, Marks
<1> HIDE DEF v
<1>5. t \in Seq(Tokens) /\ Len(t) = 4 /\ t[1] = d.key /\ t[2] = "blank" /\ t[3] = "equals" /\ t[4] = v
  BY <1>2, <1>3, <1>4
<1> HIDE DEF t
<1>6. d.key # "equals" /\ d.key # "blank" /\ v # "blank"
  BY <1>2, <1>3 DEF Marks
<1>7. Equals(t) = 3
  <2>1. 3 \in 1..(Len(t) + 1) /\ Len(t) \in Nat /\ t[3] \in {"equals"}
    BY <1>5
  <2>2. \A i \in 1..(3 - 1) : t[i] \notin {"equals"}
    <3>1. \A i \in 1..(3 - 1) : i = 1 \/ i = 2
      OBVIOUS
    <3> QED
      BY <1>5, <1>6, <3>1
  <2> QED
    BY <2>1, <2>2, FirstIs DEF Equals
<1>8. Key(t) = Trim(SubSeq(t, 1, 2)) /\ Value(t) = Trim(SubSeq(t, 4, 4))
  BY <1>5, <1>7 DEF Key, Value
<1>9. /\ SubSeq(t, 1, 2) \in Seq(Tokens) /\ Len(SubSeq(t, 1, 2)) = 2
      /\ SubSeq(t, 1, 2)[1] = d.key /\ SubSeq(t, 1, 2)[2] = "blank"
  BY <1>2, <1>4, <1>5, SubSeqProperties
<1>10. /\ SubSeq(t, 4, 4) \in Seq(Tokens) /\ Len(SubSeq(t, 4, 4)) = 1
       /\ SubSeq(t, 4, 4)[1] = v
  BY <1>3, <1>5, SubSeqProperties
<1>11. Trim(SubSeq(t, 1, 2)) = <<d.key>>
  <2> DEFINE p == SubSeq(t, 1, 2)
  <2>1. p \in Seq(Tokens) /\ 1 \in 1..Len(p) /\ p[1] = d.key /\ \A i \in 1..Len(p) : i = 1 \/ i = 2
    BY <1>9
  <2>2. p[2] = "blank"
    BY <1>9
  <2> HIDE DEF p
  <2>3. Trim(p) = <<d.key>>
    BY <1>6, <2>1, <2>2, TrimToOne
  <2> QED
    BY <2>3 DEF p
<1>12. Trim(SubSeq(t, 4, 4)) = <<v>>
  <2> DEFINE p == SubSeq(t, 4, 4)
  <2>1. p \in Seq(Tokens) /\ 1 \in 1..Len(p) /\ p[1] = v /\ \A i \in 1..Len(p) : i = 1
    BY <1>10
  <2> HIDE DEF p
  <2>2. Trim(p) = <<v>>
    BY <1>6, <2>1, TrimToOne
  <2> QED
    BY <2>2 DEF p
<1>13. Listed(Given(d)) = <<v>>
  BY <1>2, ListedTrimmed DEF v
<1> QED
  BY <1>1, <1>5, <1>6, <1>8, <1>11, <1>12, <1>13 DEF t

LEMMA PieceList ==
    ASSUME NEW d \in Directives, Len(d.values) > 1
    PROVE  /\ Piece(d) \in Seq(Tokens) /\ Len(Piece(d)) \in Nat \ {0}
           /\ Piece(d)[1] # "blank" /\ Piece(d)[Len(Piece(d))] # "blank"
           /\ Key(Piece(d)) = <<d.key>> /\ Value(Piece(d)) = Listed(Given(d))
<1> DEFINE s == Listed(d.values)
           h == <<d.key, "equals">>
           t == h \o s
<1>1. Piece(d) = t
  <2> DEFINE n == Len(d.values)
  <2>1. n \in Nat /\ n > 1
    BY DirectiveIs
  <2> HIDE DEF n
  <2>2. n # 0 /\ n # 1
    BY <2>1
  <2> QED
    BY <2>2 DEF Piece, n
<1>2. /\ d.key \in Tokens /\ d.key \notin Marks /\ Given(d) = d.values /\ d.values \in Seq(W)
      /\ Len(d.values) \in Nat \ {0}
  BY DirectiveIs, NoMarks
<1>3. /\ s \in Seq(Tokens) /\ Len(s) \in Nat \ {0} /\ Trim(s) = s /\ s[Len(s)] # "blank"
  BY <1>2, ListedIs, ListedTrimmed
<1>4. "blank" \in Tokens /\ "equals" \in Tokens
  BY DEF Tokens, Marks
<1>5. h \in Seq(Tokens) /\ Len(h) = 2 /\ h[1] = d.key /\ h[2] = "equals"
  BY <1>2, <1>4
<1> HIDE DEF s, h
<1>6. /\ t \in Seq(Tokens) /\ Len(t) = Len(h) + Len(s)
      /\ \A i \in 1..Len(h) + Len(s) : t[i] = IF i <= Len(h) THEN h[i] ELSE s[i - Len(h)]
  BY <1>3, <1>5, ConcatProperties
<1> HIDE DEF t
<1>7. t \in Seq(Tokens) /\ Len(t) = 2 + Len(s) /\ t[1] = d.key /\ t[2] = "equals"
  BY <1>3, <1>5, <1>6
<1>8. ASSUME NEW i \in 1..Len(s)
      PROVE  t[2 + i] = s[i]
  <2>1. 2 + i \in 1..Len(h) + Len(s) /\ ~(2 + i <= Len(h)) /\ (2 + i) - Len(h) = i
    BY <1>3, <1>5
  <2> QED
    BY <1>6, <2>1
<1>9. d.key # "equals" /\ d.key # "blank"
  BY <1>2 DEF Marks
<1>10. Equals(t) = 2
  <2>1. 2 \in 1..(Len(t) + 1) /\ Len(t) \in Nat /\ t[2] \in {"equals"}
    BY <1>3, <1>7
  <2>2. \A i \in 1..(2 - 1) : t[i] \notin {"equals"}
    <3>1. \A i \in 1..(2 - 1) : i = 1
      OBVIOUS
    <3> QED
      BY <1>7, <1>9, <3>1
  <2> QED
    BY <2>1, <2>2, FirstIs DEF Equals
<1>11. Key(t) = Trim(SubSeq(t, 1, 1)) /\ Value(t) = Trim(SubSeq(t, 3, Len(t)))
  BY <1>3, <1>7, <1>10 DEF Key, Value
<1>12. Trim(SubSeq(t, 1, 1)) = <<d.key>>
  <2> DEFINE p == SubSeq(t, 1, 1)
  <2>1. p \in Seq(Tokens) /\ Len(p) = 1 /\ p[1] = d.key
    BY <1>2, <1>7, SubSeqProperties
  <2> HIDE DEF p
  <2>2. 1 \in 1..Len(p) /\ \A i \in 1..Len(p) : i = 1
    BY <2>1
  <2>3. Trim(p) = <<d.key>>
    BY <1>9, <2>1, <2>2, TrimToOne
  <2> QED
    BY <2>3 DEF p
<1>13. SubSeq(t, 3, Len(t)) = s
  <2> DEFINE p == SubSeq(t, 3, Len(t))
             l == Len(s)
  <2>1. l \in Nat /\ Len(t) = 2 + l /\ 3 \in Int /\ 2 + l \in Int /\ (2 + l) - 3 + 1 = l /\ (3 <= 2 + l <=> l > 0)
    BY <1>3, <1>7
  <2>2. \A i \in 3..(2 + l) : t[i] \in Tokens
    BY <1>7, <2>1, ElementOfSeq
  <2>3. /\ SubSeq(t, 3, 2 + l) \in Seq(Tokens)
        /\ Len(SubSeq(t, 3, 2 + l)) = IF 3 <= 2 + l THEN (2 + l) - 3 + 1 ELSE 0
        /\ \A i \in 1..(2 + l) - 3 + 1 : SubSeq(t, 3, 2 + l)[i] = t[3 + i - 1]
    BY <2>1, <2>2, SubSeqProperties
  <2> HIDE DEF l
  <2>4. p = SubSeq(t, 3, 2 + l)
    BY <2>1
  <2> HIDE DEF p
  <2>5. p \in Seq(Tokens) /\ Len(p) = l /\ \A i \in 1..l : p[i] = t[2 + i]
    <3>1. \A i \in 1..l : 3 + i - 1 = 2 + i
      BY <2>1
    <3> QED
      BY <1>3, <2>1, <2>3, <2>4, <3>1
  <2>6. \A i \in 1..Len(p) : p[i] = s[i]
    BY <1>8, <2>5 DEF l
  <2>7. p = s
    BY <1>3, <2>5, <2>6, SeqEqual DEF l
  <2> QED
    BY <2>7 DEF p
<1>14. t[Len(t)] # "blank"
  <2>1. Len(s) \in 1..Len(s)
    BY <1>3
  <2>2. t[2 + Len(s)] = s[Len(s)]
    BY <1>8, <2>1
  <2> QED
    BY <1>3, <1>7, <2>2
<1>15. Key(t) = <<d.key>> /\ Value(t) = s
  BY <1>3, <1>11, <1>12, <1>13
<1>16. Listed(Given(d)) = s
  BY <1>2 DEF s
<1>17. Len(t) \in Nat \ {0}
  BY <1>3, <1>7
<1> QED
  BY <1>1, <1>7, <1>9, <1>14, <1>15, <1>16, <1>17 DEF t

LEMMA PieceIs ==
    ASSUME NEW d \in Directives
    PROVE  /\ Piece(d) \in Seq(Tokens) /\ Len(Piece(d)) \in Nat \ {0}
           /\ Piece(d)[1] # "blank" /\ Piece(d)[Len(Piece(d))] # "blank"
           /\ Key(Piece(d)) = <<d.key>> /\ Value(Piece(d)) = Listed(Given(d))
<1>1. Len(d.values) \in Nat
  BY DirectiveIs
<1>2. Len(d.values) = 0 \/ Len(d.values) = 1 \/ Len(d.values) > 1
  <2> DEFINE n == Len(d.values)
  <2>1. n \in Nat
    BY <1>1
  <2> HIDE DEF n
  <2>2. n = 0 \/ n = 1 \/ n > 1
    BY <2>1
  <2> QED
    BY <2>2 DEF n
<1> QED
  BY <1>2, PieceBare, PieceSingle, PieceList
-----------------------------------------------------------------------------
(* What a part adds to the overrides.                                        *)

Lead(n) == IF n = 1 THEN << >> ELSE <<"blank">>

LEMMA BlankIs ==
    ASSUME NEW s \in Seq(Tokens), "blank" \in Tokens
    PROVE  /\ Cons("blank", s) \in Seq(Tokens) /\ Len(Cons("blank", s)) = 1 + Len(s)
           /\ Cons("blank", s)[1] = "blank" /\ \A i \in 1..Len(s) : Cons("blank", s)[1 + i] = s[i]
           /\ Cons("blank", s) # << >> /\ Tail(Cons("blank", s)) = s
<1> DEFINE Is(b) == /\ Cons(b, s) \in Seq(Tokens) /\ Len(Cons(b, s)) = 1 + Len(s)
                    /\ Cons(b, s)[1] = b /\ \A i \in 1..Len(s) : Cons(b, s)[1 + i] = s[i]
                    /\ Cons(b, s) # << >> /\ Tail(Cons(b, s)) = s
<1>1. ASSUME NEW b \in Tokens
      PROVE  Is(b)
  <2>1. /\ Cons(b, s) \in Seq(Tokens) /\ Len(Cons(b, s)) = 1 + Len(s)
        /\ Cons(b, s)[1] = b /\ \A i \in 1..Len(s) : Cons(b, s)[1 + i] = s[i]
    BY ConsIs
  <2>2. Cons(b, s) # << >> /\ Tail(Cons(b, s)) = s
    BY ConsIs
  <2> QED
    BY <2>1, <2>2
<1> HIDE DEF Is
<1>2. Is("blank")
  BY <1>1
<1> QED
  BY <1>2 DEF Is

LEMMA TrimPart ==
    ASSUME NEW d \in Directives, NEW n
    PROVE  /\ Trim(Lead(n) \o Piece(d)) = Piece(d)
           /\ Lead(n) \o Piece(d) \in Seq(Tokens)
           /\ Piece(d) # << >>
<1> DEFINE p == Piece(d)
<1>1. p \in Seq(Tokens) /\ Len(p) \in Nat \ {0} /\ p[1] # "blank" /\ p[Len(p)] # "blank"
  BY PieceIs
<1> HIDE DEF p
<1>2. CASE n = 1
  <2>1. Lead(n) \o p = p
    BY <1>1, <1>2, ConcatEmptySeq DEF Lead
  <2>2. 1 \in 1..Len(p) /\ Len(p) \in 1..Len(p) /\ Len(p) \in Nat
    BY <1>1
  <2>3. \A i \in 1..Len(p) : i < 1 \/ i > Len(p) => p[i] = "blank"
    BY <2>2
  <2>4. Trim(p) = SubSeq(p, 1, Len(p))
    BY <1>1, <2>2, <2>3, TrimIs
  <2>5. Trim(p) = p
    BY <1>1, <2>4, SubSeqFull
  <2>6. p # << >>
    BY <1>1
  <2> QED
    BY <1>1, <2>1, <2>5, <2>6 DEF p
<1>3. CASE n # 1
  <2> DEFINE c == Cons("blank", p)
  <2>1. Lead(n) \o p = c
    BY <1>3 DEF Lead, Cons
  <2>2. "blank" \in Tokens
    BY DEF Tokens, Marks
  <2>3. /\ c \in Seq(Tokens) /\ Len(c) = 1 + Len(p) /\ c[1] = "blank"
        /\ \A i \in 1..Len(p) : c[1 + i] = p[i]
        /\ c # << >> /\ Tail(c) = p
    BY <1>1, <2>2, BlankIs DEF c
  <2> HIDE DEF c
  <2>4. 2 \in 1..Len(c) /\ Len(c) \in 1..Len(c) /\ Len(c) \in Nat /\ 1 + 1 = 2
        /\ 1 \in 1..Len(p) /\ Len(p) \in 1..Len(p)
    BY <1>1, <2>3
  <2>5. c[2] # "blank" /\ c[Len(c)] # "blank"
    BY <1>1, <2>3, <2>4
  <2>6. \A i \in 1..Len(c) : i < 2 \/ i > Len(c) => c[i] = "blank"
    <3>1. \A i \in 1..Len(c) : i < 2 \/ i > Len(c) => i = 1
      BY <2>4
    <3> QED
      BY <2>3, <3>1
  <2>7. Trim(c) = SubSeq(c, 2, Len(c))
    BY <2>4, <2>5, <2>6, TrimIs
  <2>8. Trim(c) = p
    BY <2>3, <2>7, TailIsSubSeq
  <2>9. p # << >>
    BY <1>1
  <2> QED
    BY <2>1, <2>3, <2>8, <2>9 DEF p
<1> QED
  BY <1>2, <1>3

Overrides == [always_true : Seq(Seq(Tokens)), always_false : Seq(Seq(Tokens)),
              ignore_errors : {"none", "true", "false"}]

Judged(d) == IF Says(d, "ignore_errors") THEN ParseBool(Given(d)) ELSE "none"

\* A list of several words is no truth value, with or without its commas.
LEMMA ListedBool ==
    ASSUME NEW g \in Seq(W), Len(g) \in Nat \ {0}
    PROVE  ParseBool(Listed(g)) = ParseBool(g)
<1>1. ASSUME NEW S
      PROVE  Listed(g) \in {<<w>> : w \in S} <=> g \in {<<w>> : w \in S}
  <2> DEFINE s == Listed(g)
  <2>1. Len(s) = 3 * Len(g) - 2 /\ (Len(g) = 1 => s = <<g[1]>>)
    BY ListedIs, ListedTrimmed
  <2>2. Len(g) = 1 => g = <<g[1]>>
    BY SingleIs
  <2> HIDE DEF s
  <2>3. CASE Len(g) = 1
    <3>1. s = g
      BY <2>1, <2>2, <2>3
    <3> QED
      BY <3>1 DEF s
  <2>4. CASE Len(g) # 1
    <3> DEFINE n == Len(g)
               m == Len(s)
    <3>1. m # 1
      <4>1. n \in Nat \ {0} /\ n # 1 /\ m = 3 * n - 2
        BY <2>1, <2>4
      <4> HIDE DEF n, m
      <4> QED
        BY <4>1
    <3>2. \A w : Len(<<w>>) = 1
      OBVIOUS
    <3>3. \A w : s # <<w>> /\ g # <<w>>
      BY <2>4, <3>1, <3>2
    <3> QED
      BY <3>3 DEF s
  <2> QED
    BY <2>3, <2>4
<1>2. /\ Listed(g) \in {<<w>> : w \in Trues} <=> g \in {<<w>> : w \in Trues}
      /\ Listed(g) \in {<<w>> : w \in Falses} <=> g \in {<<w>> : w \in Falses}
  BY <1>1
<1> QED
  BY <1>2, Zenon DEF ParseBool

LEMMA NewNames ==
    ASSUME NEW d \in Directives
    PROVE  [j \in 1..Len(Given(d)) |-> <<Given(d)[j]>>] \in Seq(Seq(Tokens))
<1> DEFINE g == Given(d)
<1>1. g \in Seq(W) /\ Len(g) \in Nat
  BY DirectiveIs
<1> HIDE DEF g
<1>2. \A j \in 1..Len(g) : g[j] \in Tokens
  BY <1>1, ElementOfSeq, NoMarks
<1>3. \A j \in 1..Len(g) : <<g[j]>> \in Seq(Tokens)
  BY <1>2
<1>4. [j \in 1..Len(g) |-> <<g[j]>>] \in Seq(Seq(Tokens))
  BY <1>1, <1>3, IsASeq
<1> QED
  BY <1>4 DEF g

LEMMA NamesAtIs ==
    ASSUME NEW d \in Directives, NEW key, NEW a \in Seq(Seq(Tokens)), NEW b \in Seq(Seq(Tokens))
    PROVE  /\ NamesAt(b, d, key) \in Seq(Seq(Tokens))
           /\ a \o NamesAt(b, d, key) = NamesAt(a \o b, d, key)
<1> DEFINE c == [j \in 1..Len(Given(d)) |-> <<Given(d)[j]>>]
<1>1. c \in Seq(Seq(Tokens))
  BY NewNames
<1>2. \A e : NamesAt(e, d, key) = IF Says(d, key) THEN e \o c ELSE e
  BY DEF NamesAt
<1> HIDE DEF c
<1>3. b \o c \in Seq(Seq(Tokens))
  BY <1>1, ConcatProperties
<1>4. (a \o b) \o c = a \o (b \o c)
  <2> DEFINE X == Seq(Tokens)
  <2>1. a \in Seq(X) /\ b \in Seq(X) /\ c \in Seq(X)
    BY <1>1
  <2> HIDE DEF X
  <2> QED
    BY <2>1, ConcatAssociative, SMTT(60)
<1> QED
  BY <1>2, <1>3, <1>4

LEMMA Once ==
    \A d : /\ Says(d, "always_true") => ~Says(d, "always_false") /\ ~Says(d, "ignore_errors")
           /\ Says(d, "always_false") => ~Says(d, "ignore_errors")
<1>1. <<"always_true">> # <<"always_false">> /\ <<"always_true">> # <<"ignore_errors">>
      /\ <<"always_false">> # <<"ignore_errors">>
  OBVIOUS
<1> QED
  BY <1>1, Zenon DEF Says

LEMMA WithPiece ==
    ASSUME NEW d \in Directives, NEW r \in Overrides
    PROVE  /\ WithPart(r, Piece(d)) \in Overrides
           /\ WithPart(r, Piece(d)).always_true = NamesAt(r.always_true, d, "always_true")
           /\ WithPart(r, Piece(d)).always_false = NamesAt(r.always_false, d, "always_false")
           /\ WithPart(r, Piece(d)).ignore_errors = Latest(r.ignore_errors, Judged(d))
<1> DEFINE p == Piece(d)
           g == Given(d)
           c == [j \in 1..Len(g) |-> <<g[j]>>]
           t == Says(d, "always_true")
           f == Says(d, "always_false")
           i == Says(d, "ignore_errors")
<1>1. p # << >>
  BY TrimPart
<1>2. Key(p) = <<d.key>> /\ Value(p) = Listed(g)
  BY PieceIs
<1>3. g \in Seq(W) /\ Len(g) \in Nat \ {0}
  BY DirectiveIs
<1>4. NamesOf(Value(p)) = c /\ ParseBool(Value(p)) = ParseBool(g)
  BY <1>2, <1>3, NamesOfListed, ListedBool
<1>5. c \in Seq(Seq(Tokens))
  BY NewNames
<1>6. /\ t <=> Normalized(Key(p)) = <<"always_true">>
      /\ f <=> Normalized(Key(p)) = <<"always_false">>
      /\ i <=> Normalized(Key(p)) = <<"ignore_errors">>
  BY <1>2 DEF Says
<1>7. /\ NamesAt(r.always_true, d, "always_true") = IF t THEN r.always_true \o c ELSE r.always_true
      /\ NamesAt(r.always_false, d, "always_false") = IF f THEN r.always_false \o c ELSE r.always_false
      /\ Judged(d) = IF i THEN ParseBool(g) ELSE "none"
  BY DEF NamesAt, Judged
<1>8. (t => ~f /\ ~i) /\ (f => ~i)
  BY Once
<1>9. ParseBool(g) \in {"none", "true", "false"}
  BY DEF ParseBool
<1>10. WithPart(r, p) =
          CASE p = << >> -> r
            [] p # << >> /\ Normalized(Key(p)) = <<"always_true">> ->
                 [r EXCEPT !.always_true = r.always_true \o NamesOf(Value(p))]
            [] p # << >> /\ Normalized(Key(p)) = <<"always_false">> ->
                 [r EXCEPT !.always_false = r.always_false \o NamesOf(Value(p))]
            [] p # << >> /\ Normalized(Key(p)) = <<"ignore_errors">> ->
                 [r EXCEPT !.ignore_errors = Latest(r.ignore_errors, ParseBool(Value(p)))]
            [] OTHER -> r
  BY DEF WithPart
<1> HIDE DEF p, c, g, t, f, i
<1>11. WithPart(r, p) =
          CASE t -> [r EXCEPT !.always_true = r.always_true \o c]
            [] f -> [r EXCEPT !.always_false = r.always_false \o c]
            [] i -> [r EXCEPT !.ignore_errors = Latest(r.ignore_errors, ParseBool(g))]
            [] OTHER -> r
  BY <1>1, <1>4, <1>6, <1>8, <1>10
<1>12. r.always_true \o c \in Seq(Seq(Tokens)) /\ r.always_false \o c \in Seq(Seq(Tokens))
  BY <1>5, ConcatProperties DEF Overrides
<1>13. Latest(r.ignore_errors, ParseBool(g)) \in {"none", "true", "false"}
       /\ Latest(r.ignore_errors, "none") = r.ignore_errors
  BY <1>9 DEF Latest, Overrides
<1>14. CASE t
  <2>1. WithPart(r, p) = [r EXCEPT !.always_true = r.always_true \o c]
    BY <1>11, <1>14, <1>8
  <2> QED
    BY <1>7, <1>8, <1>12, <1>13, <1>14, <2>1 DEF Overrides, p
<1>15. CASE f
  <2>1. WithPart(r, p) = [r EXCEPT !.always_false = r.always_false \o c]
    BY <1>11, <1>15, <1>8
  <2> QED
    BY <1>7, <1>8, <1>12, <1>13, <1>15, <2>1 DEF Overrides, p
<1>16. CASE i
  <2>1. WithPart(r, p) = [r EXCEPT !.ignore_errors = Latest(r.ignore_errors, ParseBool(g))]
    BY <1>11, <1>16, <1>8
  <2> QED
    BY <1>7, <1>8, <1>12, <1>13, <1>16, <2>1 DEF Overrides, p
<1>17. CASE ~t /\ ~f /\ ~i
  <2>1. WithPart(r, p) = r
    BY <1>11, <1>17
  <2> QED
    BY <1>7, <1>8, <1>13, <1>17, <2>1 DEF Overrides, p
<1> QED
  BY <1>14, <1>15, <1>16, <1>17
-----------------------------------------------------------------------------
(* The verdict on ignore_errors after some of the directives.                *)

Single(said, n, words) ==
    {k \in 1..n : Says(said[k], "ignore_errors") /\ Given(said[k]) \in {<<w>> : w \in words}}

Verdict(said, n) ==
    LET last == Max(Single(said, n, Trues \cup Falses) \cup {0})
    IN CASE last = 0 -> "none"
         [] last \in Single(said, n, Trues) -> "true"
         [] OTHER -> "false"

LEMMA LastIsVerdict ==
    LastIgnoreErrors <=> ignore_errors = Verdict(directives, Len(directives))
  BY Zenon DEF LastIgnoreErrors, Verdict, Single

LEMMA GreatestIs ==
    ASSUME NEW S, NEW n \in S, n \in Nat, \A i \in S : i \in Nat /\ i <= n
    PROVE  Max(S) = n
<1>1. \A m \in S : (\A i \in S : m >= i) => m = n
  OBVIOUS
<1> QED
  BY <1>1 DEF Max

LEMMA VerdictStep ==
    ASSUME NEW said, NEW n \in Nat
    PROVE  Verdict(said, n + 1) = Latest(Verdict(said, n), Judged(said[n + 1]))
<1> DEFINE d == said[n + 1]
           says == Says(d, "ignore_errors")
           good(words) == Given(d) \in {<<w>> : w \in words}
           all == Trues \cup Falses
           last(m) == Max(Single(said, m, all) \cup {0})
<1>1. \A words : \A k : k \in Single(said, n + 1, words) <=>
          \/ k \in Single(said, n, words)
          \/ k = n + 1 /\ says /\ good(words)
  <2> SUFFICES ASSUME NEW words, NEW k
               PROVE  k \in Single(said, n + 1, words) <=>
                        \/ k \in Single(said, n, words)
                        \/ k = n + 1 /\ says /\ good(words)
    OBVIOUS
  <2>1. k \in 1..(n + 1) <=> k \in 1..n \/ k = n + 1
    OBVIOUS
  <2> QED
    BY <2>1 DEF Single
<1>2. \A words : \A k \in Single(said, n, words) : k \in Nat /\ k <= n /\ k # 0 /\ k # n + 1
  BY DEF Single
<1>3. /\ good(all) <=> good(Trues) \/ good(Falses)
      /\ good(Trues) => ~good(Falses)
  <2>1. \A a \in Trues, b \in Falses : a # b
    BY DEF Trues, Falses
  <2>2. \A a, b : <<a>> = <<b>> => a = b
    OBVIOUS
  <2> QED
    BY <2>1, <2>2
<1>4. Judged(d) = IF says THEN (CASE good(Trues) -> "true" [] good(Falses) -> "false" [] OTHER -> "none")
                  ELSE "none"
  BY DEF Judged, ParseBool
<1>5. \A m : Verdict(said, m) = CASE last(m) = 0 -> "none"
                                  [] last(m) \in Single(said, m, Trues) -> "true"
                                  [] OTHER -> "false"
  BY DEF Verdict
<1>6. CASE says /\ good(all)
  <2>1. last(n + 1) = n + 1
    <3> DEFINE S == Single(said, n + 1, all) \cup {0}
    <3>1. n + 1 \in S
      BY <1>1, <1>6
    <3>2. \A i \in S : i \in Nat /\ i <= n + 1
      BY <1>1, <1>2
    <3> HIDE DEF S
    <3>3. Max(S) = n + 1
      BY <3>1, <3>2, GreatestIs
    <3> QED
      BY <3>3 DEF S
  <2>2. n + 1 \in Single(said, n + 1, Trues) <=> good(Trues)
    BY <1>1, <1>2, <1>6
  <2>3. n + 1 # 0
    OBVIOUS
  <2> HIDE DEF last, says, good, d, all
  <2>4. Verdict(said, n + 1) = IF good(Trues) THEN "true" ELSE "false"
    BY <1>5, <2>1, <2>2, <2>3
  <2>5. Judged(d) = IF good(Trues) THEN "true" ELSE "false"
    <3>1. CASE good(Trues)
      BY <1>3, <1>4, <1>6, <3>1, Zenon
    <3>2. CASE ~good(Trues)
      <4>1. good(Falses)
        BY <1>3, <1>6, <3>2, Zenon
      <4> QED
        BY <1>4, <1>6, <3>2, <4>1, Zenon
    <3> QED
      BY <3>1, <3>2
  <2>6. Judged(d) # "none"
    BY <2>5
  <2>7. Latest(Verdict(said, n), Judged(d)) = Judged(d)
    BY <2>6, Zenon DEF Latest
  <2> QED
    BY <2>4, <2>5, <2>7, Zenon DEF d
<1>7. CASE ~(says /\ good(all))
  <2>1. /\ Single(said, n + 1, all) = Single(said, n, all)
        /\ Single(said, n + 1, Trues) = Single(said, n, Trues)
    <3>1. ~(says /\ good(Trues))
      BY <1>3, <1>7
    <3> HIDE DEF says, good, d, all
    <3>2. \A k : k \in Single(said, n + 1, all) <=> k \in Single(said, n, all)
      BY <1>1, <1>7, Zenon
    <3>3. \A k : k \in Single(said, n + 1, Trues) <=> k \in Single(said, n, Trues)
      BY <1>1, <3>1, Zenon
    <3> QED
      BY <3>2, <3>3
  <2>2. Verdict(said, n + 1) = Verdict(said, n)
    BY <2>1 DEF Verdict
  <2> HIDE DEF says, good, d, all
  <2>3. Judged(d) = "none"
    BY <1>3, <1>4, <1>7
  <2>4. Latest(Verdict(said, n), Judged(d)) = Verdict(said, n)
    BY <2>3, Zenon DEF Latest
  <2> QED
    BY <2>2, <2>4 DEF d
<1> QED
  BY <1>6, <1>7

LEMMA VerdictFirst ==
    ASSUME NEW said
    PROVE  Verdict(said, 0) = "none"
<1> DEFINE S == Single(said, 0, Trues \cup Falses) \cup {0}
<1>1. S = {0}
  BY DEF Single
<1> HIDE DEF S
<1>2. Max(S) = 0
  BY <1>1, GreatestIs
<1>3. Verdict(said, 0) = CASE Max(S) = 0 -> "none"
                           [] Max(S) \in Single(said, 0, Trues) -> "true"
                           [] OTHER -> "false"
  BY DEF Verdict, S
<1>4. Max(S) = 0 => Verdict(said, 0) = "none"
  <2> DEFINE m == Max(S)
             T == Single(said, 0, Trues)
  <2>1. 0 \notin T
    BY DEF Single
  <2> HIDE DEF m, T
  <2> QED
    BY <1>3, <2>1 DEF m, T
<1> QED
  BY <1>2, <1>4

LEMMA VerdictIn ==
    ASSUME NEW said, NEW n
    PROVE  Verdict(said, n) \in {"none", "true", "false"}
  BY Zenon DEF Verdict

LEMMA LatestIs ==
    \A a, b, c : /\ Latest(Latest(a, b), c) = Latest(a, Latest(b, c))
                 /\ Latest(a, "none") = a
  BY DEF Latest

\* Directives that follow change nothing of what those before say.
LEMMA Prefix ==
    ASSUME NEW a \in Seq(Directives), NEW b \in Seq(Directives)
    PROVE  /\ a \o b \in Seq(Directives) /\ Len(a \o b) = Len(a) + Len(b)
           /\ \A k \in 1..Len(b) : (a \o b)[Len(a) + k] = b[k]
           /\ \A key : Names(a \o b, key)[Len(a)] = Names(a, key)[Len(a)]
           /\ Verdict(a \o b, Len(a)) = Verdict(a, Len(a))
<1> DEFINE c == a \o b
           L == Len(a)
           M == Len(b)
<1>1. /\ c \in Seq(Directives) /\ Len(c) = L + M
      /\ \A i \in 1..(L + M) : c[i] = IF i <= L THEN a[i] ELSE b[i - L]
  BY ConcatProperties
<1>2. L \in Nat /\ M \in Nat
  BY LenProperties
<1>3. L = Len(a)
  OBVIOUS
<1> HIDE DEF c, L, M
<1>4. \A i \in 1..L : c[i] = a[i]
  BY <1>1, <1>2
<1>5. \A k \in 1..M : c[L + k] = b[k]
  <2> SUFFICES ASSUME NEW k \in 1..M
               PROVE  c[L + k] = b[k]
    OBVIOUS
  <2>1. L + k \in 1..(L + M) /\ ~(L + k <= L) /\ (L + k) - L = k
    BY <1>2
  <2> QED
    BY <1>1, <2>1
<1>6. ASSUME NEW key
      PROVE  Names(c, key)[L] = Names(a, key)[L]
  <2> DEFINE f == Names(c, key)
             g == Names(a, key)
             S == {n \in Nat : n <= L => f[n] = g[n]}
  <2>1. /\ f[0] = << >>
        /\ \A i \in 1..(L + M) : f[i] = NamesAt(f[i - 1], c[i], key)
    <3>1. Len(c) \in Nat
      BY <1>1, <1>2
    <3>2. /\ f[0] = << >>
          /\ \A i \in 1..Len(c) : f[i] = NamesAt(f[i - 1], c[i], key)
      BY <3>1, NamesStep
    <3> QED
      BY <1>1, <3>2
  <2>2. /\ g[0] = << >>
        /\ \A i \in 1..L : g[i] = NamesAt(g[i - 1], a[i], key)
    BY <1>2, <1>3, NamesStep
  <2> HIDE DEF f, g
  <2>3. 0 \in S
    BY <2>1, <2>2
  <2>4. ASSUME NEW n \in Nat, n \in S
        PROVE  n + 1 \in S
    <3> SUFFICES ASSUME n + 1 <= L
                 PROVE  f[n + 1] = g[n + 1]
      OBVIOUS
    <3>1. n + 1 \in 1..L /\ n + 1 \in 1..(L + M) /\ (n + 1) - 1 = n /\ n <= L
      BY <1>2
    <3>2. f[n + 1] = NamesAt(f[n], c[n + 1], key) /\ g[n + 1] = NamesAt(g[n], a[n + 1], key)
      BY <2>1, <2>2, <3>1
    <3>3. f[n] = g[n] /\ c[n + 1] = a[n + 1]
      BY <1>4, <2>4, <3>1
    <3> QED
      BY <3>2, <3>3
  <2>5. \A n \in Nat : n \in S
    <3> HIDE DEF S
    <3> QED
      BY <2>3, <2>4, AllNumbers
  <2> QED
    BY <1>2, <2>5 DEF f, g
<1>7. Verdict(c, L) = Verdict(a, L)
  <2>1. ASSUME NEW words
        PROVE  Single(c, L, words) = Single(a, L, words)
    <3>1. ASSUME NEW k \in 1..L
          PROVE  /\ Says(c[k], "ignore_errors") <=> Says(a[k], "ignore_errors")
                 /\ Given(c[k]) = Given(a[k])
      BY <1>4, Zenon
    <3> QED
      BY <3>1 DEF Single
  <2>2. /\ Single(c, L, Trues) = Single(a, L, Trues)
        /\ Single(c, L, Trues \cup Falses) = Single(a, L, Trues \cup Falses)
    BY <2>1
  <2> DEFINE V(A, T) == CASE Max(A \cup {0}) = 0 -> "none"
                          [] Max(A \cup {0}) \in T -> "true"
                          [] OTHER -> "false"
  <2>3. /\ Verdict(c, L) = V(Single(c, L, Trues \cup Falses), Single(c, L, Trues))
        /\ Verdict(a, L) = V(Single(a, L, Trues \cup Falses), Single(a, L, Trues))
    BY DEF Verdict
  <2> HIDE DEF V
  <2> QED
    BY <2>2, <2>3, Zenon
<1> QED
  BY <1>1, <1>5, <1>6, <1>7 DEF c, L, M

-----------------------------------------------------------------------------
(* A comment merged.                                                         *)

Part(said, n)  == Lead(n) \o Piece(said[n])
Parts(said, n) == [m \in 1..n |-> Part(said, m)]
AllParts(said) == IF said = << >> THEN << << >> >> ELSE Parts(said, Len(said))

LEMMA NamesTyped ==
    ASSUME NEW said \in Seq(Directives), NEW key
    PROVE  \A n \in 0..Len(said) : Names(said, key)[n] \in Seq(Seq(Tokens))
<1> DEFINE f == Names(said, key)
           L == Len(said)
           X == Seq(Seq(Tokens))
           S == {n \in Nat : n <= L => f[n] \in X}
<1>1. L \in Nat /\ \A i \in 1..L : said[i] \in Directives
  BY ElementOfSeq
<1>2. /\ f[0] = << >>
      /\ \A i \in 1..L : f[i] = NamesAt(f[i - 1], said[i], key)
  BY <1>1, NamesStep
<1>3. \A d \in Directives : \A b \in X : NamesAt(b, d, key) \in X
  BY NamesAtIs
<1>4. << >> \in X
  OBVIOUS
<1> HIDE DEF f, L, X
<1>5. 0 \in S
  BY <1>2, <1>4
<1>6. ASSUME NEW n \in Nat, n \in S
      PROVE  n + 1 \in S
  <2> SUFFICES ASSUME n + 1 <= L
               PROVE  f[n + 1] \in X
    OBVIOUS
  <2>1. n + 1 \in 1..L /\ (n + 1) - 1 = n /\ n <= L
    BY <1>1
  <2>2. f[n + 1] = NamesAt(f[n], said[n + 1], key)
    BY <1>2, <2>1
  <2> QED
    BY <1>1, <1>3, <1>6, <2>1, <2>2
<1>7. \A n \in Nat : n \in S
  <2> HIDE DEF S
  <2> QED
    BY <1>5, <1>6, AllNumbers
<1>8. \A n \in 0..L : f[n] \in X
  BY <1>1, <1>7
<1> QED
  BY <1>8 DEF f, L, X

LEMMA MergeIs ==
    ASSUME NEW a \in Seq(Directives), NEW b \in Seq(Directives), b # << >>
    PROVE  LET r == ParseParts(Parts(b, Len(b)))[Len(Parts(b, Len(b)))]
               n == Len(a \o b)
           IN /\ r \in Overrides
              /\ Names(a, "always_true")[Len(a)] \o r.always_true = Names(a \o b, "always_true")[n]
              /\ Names(a, "always_false")[Len(a)] \o r.always_false = Names(a \o b, "always_false")[n]
              /\ Latest(Verdict(a, Len(a)), r.ignore_errors) = Verdict(a \o b, n)
<1> DEFINE c == a \o b
           L == Len(a)
           M == Len(b)
           ps == Parts(b, M)
           f == ParseParts(ps)
           tn == Names(c, "always_true")
           fn == Names(c, "always_false")
           tn0 == Names(a, "always_true")[L]
           fn0 == Names(a, "always_false")[L]
           v0 == Verdict(a, L)
           S == {k \in Nat : k <= M => /\ f[k] \in Overrides
                                       /\ tn[L + k] \in Seq(Seq(Tokens)) /\ fn[L + k] \in Seq(Seq(Tokens))
                                       /\ tn0 \o f[k].always_true = tn[L + k]
                                       /\ fn0 \o f[k].always_false = fn[L + k]
                                       /\ Latest(v0, f[k].ignore_errors) = Verdict(c, L + k)}
<1>1. L \in Nat /\ M \in Nat /\ M # 0
  BY LenProperties, EmptySeq
<1>2. /\ c \in Seq(Directives) /\ Len(c) = L + M /\ \A k \in 1..M : c[L + k] = b[k]
      /\ tn[L] = tn0 /\ fn[L] = fn0 /\ Verdict(c, L) = v0
  BY Prefix
<1>3. tn0 \in Seq(Seq(Tokens)) /\ fn0 \in Seq(Seq(Tokens))
  BY <1>1, NamesTyped
<1>4. /\ \A i \in 1..(L + M) : tn[i] = NamesAt(tn[i - 1], c[i], "always_true")
      /\ \A i \in 1..(L + M) : fn[i] = NamesAt(fn[i - 1], c[i], "always_false")
  <2>1. Len(c) \in Nat
    BY <1>1, <1>2
  <2>2. /\ \A i \in 1..Len(c) : tn[i] = NamesAt(tn[i - 1], c[i], "always_true")
        /\ \A i \in 1..Len(c) : fn[i] = NamesAt(fn[i - 1], c[i], "always_false")
    BY <2>1, NamesStep
  <2> QED
    BY <1>2, <2>2
<1>5. Len(ps) = M /\ \A k \in 1..M : ps[k] = Part(b, k)
  BY <1>1 DEF Parts
<1>6. f[0] = NoOverrides /\ \A k \in 1..M : f[k] = WithPart(f[k - 1], Trim(ps[k]))
  BY <1>1, <1>5, PartsStep
<1>7. \A k \in 1..M : b[k] \in Directives /\ Trim(ps[k]) = Piece(b[k])
  <2> SUFFICES ASSUME NEW k \in 1..M
               PROVE  b[k] \in Directives /\ Trim(ps[k]) = Piece(b[k])
    OBVIOUS
  <2>1. b[k] \in Directives
    BY ElementOfSeq
  <2>2. ps[k] = Lead(k) \o Piece(b[k])
    BY <1>5 DEF Part
  <2> HIDE DEF ps
  <2> QED
    BY <2>1, <2>2, TrimPart
<1> HIDE DEF c, L, M, ps, f, tn, fn, tn0, fn0, v0
<1>8. 0 \in S
  <2>1. /\ NoOverrides \in Overrides /\ NoOverrides.always_true = << >>
        /\ NoOverrides.always_false = << >> /\ NoOverrides.ignore_errors = "none"
    BY DEF NoOverrides, Overrides
  <2>2. tn0 \o << >> = tn0 /\ fn0 \o << >> = fn0
    <3> DEFINE X == Seq(Tokens)
    <3>1. tn0 \in Seq(X) /\ fn0 \in Seq(X)
      BY <1>3
    <3> HIDE DEF X
    <3> QED
      BY <3>1, ConcatEmptySeq
  <2>3. Latest(v0, "none") = v0
    BY LatestIs
  <2> DEFINE r == f[0]
  <2>4. r = NoOverrides
    BY <1>6
  <2>5. L + 0 = L
    BY <1>1
  <2>6. /\ r.always_true = << >> /\ r.always_false = << >> /\ r.ignore_errors = "none"
        /\ r \in Overrides
    BY <2>1, <2>4
  <2> HIDE DEF r
  <2>7. /\ tn[L + 0] \in Seq(Seq(Tokens)) /\ fn[L + 0] \in Seq(Seq(Tokens))
    BY <1>2, <1>3, <2>5
  <2>8. tn0 \o r.always_true = tn[L + 0] /\ fn0 \o r.always_false = fn[L + 0]
    BY <1>2, <2>2, <2>5, <2>6, Zenon
  <2>9. Latest(v0, r.ignore_errors) = Verdict(c, L + 0)
    BY <1>2, <2>3, <2>5, <2>6, Zenon
  <2> QED
    BY <2>6, <2>7, <2>8, <2>9 DEF r
<1>9. ASSUME NEW k \in Nat, k \in S
      PROVE  k + 1 \in S
  <2> SUFFICES ASSUME k + 1 <= M
               PROVE  k + 1 \in S
    OBVIOUS
  <2> DEFINE d == b[k + 1]
             r == f[k]
             q == f[k + 1]
             i == L + k
  <2>1. k + 1 \in 1..M /\ (k + 1) - 1 = k /\ k <= M
    BY <1>1
  <2>2. /\ i \in Nat /\ i + 1 \in 1..(L + M) /\ (i + 1) - 1 = i /\ L + (k + 1) = i + 1
    BY <1>1, <2>1
  <2>3. d \in Directives /\ c[i + 1] = d
    BY <1>2, <1>7, <2>1, <2>2
  <2>4. q = WithPart(r, Piece(d))
    BY <1>6, <1>7, <2>1
  <2>5. /\ r \in Overrides /\ tn[i] \in Seq(Seq(Tokens)) /\ fn[i] \in Seq(Seq(Tokens))
        /\ tn0 \o r.always_true = tn[i] /\ fn0 \o r.always_false = fn[i]
        /\ Latest(v0, r.ignore_errors) = Verdict(c, i)
    BY <1>9, <2>1
  <2>6. tn[i + 1] = NamesAt(tn[i], d, "always_true") /\ fn[i + 1] = NamesAt(fn[i], d, "always_false")
    BY <1>4, <2>2, <2>3
  <2> HIDE DEF d, r, q, i
  <2>7. /\ q \in Overrides
        /\ q.always_true = NamesAt(r.always_true, d, "always_true")
        /\ q.always_false = NamesAt(r.always_false, d, "always_false")
        /\ q.ignore_errors = Latest(r.ignore_errors, Judged(d))
    BY <2>3, <2>4, <2>5, WithPiece
  <2>8. r.always_true \in Seq(Seq(Tokens)) /\ r.always_false \in Seq(Seq(Tokens))
    BY <2>5 DEF Overrides
  <2>9. /\ tn0 \o NamesAt(r.always_true, d, "always_true") = NamesAt(tn0 \o r.always_true, d, "always_true")
        /\ fn0 \o NamesAt(r.always_false, d, "always_false") = NamesAt(fn0 \o r.always_false, d, "always_false")
    BY <1>3, <2>3, <2>8, NamesAtIs
  <2>10. tn0 \o q.always_true = tn[i + 1] /\ fn0 \o q.always_false = fn[i + 1]
    BY <2>5, <2>6, <2>7, <2>9, Zenon
  <2>11. tn[i + 1] \in Seq(Seq(Tokens)) /\ fn[i + 1] \in Seq(Seq(Tokens))
    <3>1. /\ NamesAt(tn[i], d, "always_true") \in Seq(Seq(Tokens))
          /\ NamesAt(fn[i], d, "always_false") \in Seq(Seq(Tokens))
      BY <2>3, <2>5, NamesAtIs
    <3> QED
      BY <2>6, <3>1
  <2>12. Latest(v0, q.ignore_errors) = Verdict(c, i + 1)
    <3>1. Verdict(c, i + 1) = Latest(Verdict(c, i), Judged(d))
      BY <2>2, <2>3, VerdictStep
    <3>2. Latest(v0, Latest(r.ignore_errors, Judged(d))) = Latest(Latest(v0, r.ignore_errors), Judged(d))
      BY LatestIs
    <3> QED
      BY <2>5, <2>7, <3>1, <3>2
  <2>13. /\ tn[L + (k + 1)] = tn[i + 1] /\ fn[L + (k + 1)] = fn[i + 1]
         /\ Verdict(c, L + (k + 1)) = Verdict(c, i + 1)
    BY <2>2
  <2>14. k + 1 \in Nat
    OBVIOUS
  <2> QED
    BY <2>7, <2>10, <2>11, <2>12, <2>13, <2>14, Zenon DEF q
<1>10. M \in S
  <2> HIDE DEF S
  <2> QED
    BY <1>1, <1>8, <1>9, AllNumbers
<1>11. /\ f[M] \in Overrides /\ tn0 \o f[M].always_true = tn[L + M]
       /\ fn0 \o f[M].always_false = fn[L + M] /\ Latest(v0, f[M].ignore_errors) = Verdict(c, L + M)
  BY <1>1, <1>10
<1>12. Len(c) = L + M
  BY <1>2
<1> QED
  BY <1>5, <1>11, <1>12 DEF c, L, M, ps, f, tn, fn, tn0, fn0, v0

LEMMA MergeOneEmpty ==
    ASSUME NEW ps, Len(ps) = 1, ps[1] = << >>
    PROVE  ParseParts(ps)[Len(ps)] = NoOverrides
<1>2. /\ ParseParts(ps)[0] = NoOverrides
      /\ \A i \in 1..Len(ps) : ParseParts(ps)[i] = WithPart(ParseParts(ps)[i - 1], Trim(ps[i]))
  <2>1. Len(ps) \in Nat
    OBVIOUS
  <2> QED
    BY <2>1, PartsStep
<1>3. ParseParts(ps)[1] = WithPart(NoOverrides, Trim(<< >>))
  <2>1. 1 \in 1..Len(ps) /\ 1 - 1 = 0
    OBVIOUS
  <2> QED
    BY <1>2, <2>1
<1>4. Trim(<< >>) = << >>
  <2>1. {i \in 1..Len(<< >>) : << >>[i] # "blank"} = {}
    OBVIOUS
  <2> QED
    BY <2>1 DEF Trim
<1>5. \A r : WithPart(r, << >>) = r
  BY DEF WithPart
<1> QED
  BY <1>3, <1>4, <1>5

LEMMA MergeEmpty ==
    ASSUME NEW ps, ps = << << >> >>
    PROVE  ParseParts(ps)[Len(ps)] = NoOverrides
<1>1. Len(ps) = 1 /\ ps[1] = << >>
  OBVIOUS
<1> QED
  BY <1>1, MergeOneEmpty

-----------------------------------------------------------------------------
(* What is left of a text.                                                   *)

\* A text of one token and more.
Front(s, x, t) == /\ s \in Seq(Tokens) /\ t \in Seq(Tokens) /\ Len(s) = 1 + Len(t)
                  /\ s # << >> /\ Head(s) = x /\ Tail(s) = t

LEMMA FrontIs ==
    ASSUME NEW x \in Tokens, NEW t \in Seq(Tokens)
    PROVE  Front(Cons(x, t), x, t) /\ Cons(x, t) \in Seq(Tokens)
<1>1. /\ Cons(x, t) \in Seq(Tokens) /\ Len(Cons(x, t)) = 1 + Len(t)
      /\ Cons(x, t) # << >> /\ Head(Cons(x, t)) = x
  BY ConsIs
<1>2. Tail(Cons(x, t)) = t
  BY ConsIs
<1> QED
  BY <1>1, <1>2 DEF Front

LEMMA MarksAreTokens == \A m \in Marks : m \in Tokens
  BY DEF Tokens

\* What a directive and what follows it look like.
Whole(d, rest) ==
    CASE Len(d.values) = 0 -> Cons(d.key, rest)
      [] Len(d.values) = 1 -> Cons(d.key, Cons("blank", Cons("equals", Cons(d.values[1], rest))))
      [] OTHER -> Cons(d.key, Cons("equals", Cons("quote", Listed(d.values) \o Cons("quote", rest))))

LEMMA JoinIs ==
    ASSUME NEW X, NEW p \in Seq(X), NEW q \in Seq(X), NEW r \in Seq(X),
           Len(r) = Len(p) + Len(q),
           \A i \in 1..Len(p) : r[i] = p[i],
           \A i \in 1..Len(q) : r[Len(p) + i] = q[i]
    PROVE  p \o q = r
<1> DEFINE c == p \o q
<1>1. /\ c \in Seq(X) /\ Len(c) = Len(p) + Len(q)
      /\ \A i \in 1..Len(p) + Len(q) : c[i] = IF i <= Len(p) THEN p[i] ELSE q[i - Len(p)]
  BY ConcatProperties
<1>2. Len(p) \in Nat /\ Len(q) \in Nat
  BY LenProperties
<1> HIDE DEF c
<1>3. ASSUME NEW i \in 1..Len(c)
      PROVE  c[i] = r[i]
  <2>1. CASE i <= Len(p)
    <3>1. i \in 1..Len(p) /\ i \in 1..Len(p) + Len(q)
      BY <1>1, <1>2, <2>1
    <3> QED
      BY <1>1, <2>1, <3>1
  <2>2. CASE ~(i <= Len(p))
    <3>1. /\ i - Len(p) \in 1..Len(q) /\ i \in 1..Len(p) + Len(q) /\ Len(p) + (i - Len(p)) = i
      BY <1>1, <1>2, <2>2
    <3>2. r[i] = q[i - Len(p)]
      BY <3>1
    <3> QED
      BY <1>1, <2>2, <3>1, <3>2
  <2> QED
    BY <2>1, <2>2
<1>4. c = r
  BY <1>1, <1>3, SeqEqual
<1> QED
  BY <1>4 DEF c

LEMMA PairIs ==
    ASSUME NEW X, NEW a \in X, NEW b \in X, NEW s \in Seq(X)
    PROVE  <<a, b>> \o s = Cons(a, Cons(b, s))
<1> DEFINE p == <<a>>
           q == <<b>>
<1>0. p \o q = <<a, b>>
  <2> DEFINE r == <<a, b>>
  <2>1. r \in Seq(X) /\ Len(r) = 2 /\ r[1] = a /\ r[2] = b
    OBVIOUS
  <2>2. p \in Seq(X) /\ Len(p) = 1 /\ p[1] = a
    OBVIOUS
  <2>3. q \in Seq(X) /\ Len(q) = 1 /\ q[1] = b
    OBVIOUS
  <2> HIDE DEF p, q, r
  <2>4. \A i \in 1..Len(p) : r[i] = p[i]
    <3>1. \A i \in 1..Len(p) : i = 1 \/ i = 1
      BY <2>2
    <3> QED
      BY <2>1, <2>2, <3>1
  <2>5. \A i \in 1..Len(q) : r[Len(p) + i] = q[i]
    <3>1. \A i \in 1..Len(q) : i = 1 \/ i = 1
      BY <2>3
    <3>2. Len(p) + 1 = 2 /\ Len(p) + 1 = 2
      BY <2>2
    <3> QED
      BY <2>1, <2>3, <3>1, <3>2
  <2>6. Len(r) = Len(p) + Len(q)
    BY <2>1, <2>2, <2>3
  <2>7. p \o q = r
    BY <2>1, <2>2, <2>3, <2>4, <2>5, <2>6, JoinIs
  <2> QED
    BY <2>7 DEF r
<1>1. p \in Seq(X) /\ q \in Seq(X)
  OBVIOUS
<1> HIDE DEF p, q
<1>2. (p \o q) \o s = p \o (q \o s)
  BY <1>1, ConcatAssociative, SMTT(60)
<1>3. p \o (q \o s) = Cons(a, Cons(b, s))
  BY DEF Cons, p, q
<1> QED
  BY <1>0, <1>2, <1>3

LEMMA FourIs ==
    ASSUME NEW X, NEW a \in X, NEW b \in X, NEW c \in X, NEW d \in X, NEW s \in Seq(X)
    PROVE  <<a, b, c, d>> \o s = Cons(a, Cons(b, Cons(c, Cons(d, s))))
<1> DEFINE p == <<a, b>>
           q == <<c, d>>
<1>0. p \o q = <<a, b, c, d>>
  <2> DEFINE r == <<a, b, c, d>>
  <2>1. r \in Seq(X) /\ Len(r) = 4 /\ r[1] = a /\ r[2] = b /\ r[3] = c /\ r[4] = d
    OBVIOUS
  <2>2. p \in Seq(X) /\ Len(p) = 2 /\ p[1] = a /\ p[2] = b
    OBVIOUS
  <2>3. q \in Seq(X) /\ Len(q) = 2 /\ q[1] = c /\ q[2] = d
    OBVIOUS
  <2> HIDE DEF p, q, r
  <2>4. \A i \in 1..Len(p) : r[i] = p[i]
    <3>1. \A i \in 1..Len(p) : i = 1 \/ i = 2
      BY <2>2
    <3> QED
      BY <2>1, <2>2, <3>1
  <2>5. \A i \in 1..Len(q) : r[Len(p) + i] = q[i]
    <3>1. \A i \in 1..Len(q) : i = 1 \/ i = 2
      BY <2>3
    <3>2. Len(p) + 1 = 3 /\ Len(p) + 2 = 4
      BY <2>2
    <3> QED
      BY <2>1, <2>3, <3>1, <3>2
  <2>6. Len(r) = Len(p) + Len(q)
    BY <2>1, <2>2, <2>3
  <2>7. p \o q = r
    BY <2>1, <2>2, <2>3, <2>4, <2>5, <2>6, JoinIs
  <2> QED
    BY <2>7 DEF r
<1>1. p \in Seq(X) /\ q \in Seq(X)
  OBVIOUS
<1>2. q \o s = Cons(c, Cons(d, s))
  BY PairIs
<1>3. Cons(d, s) \in Seq(X)
  BY ConsIs
<1>4. Cons(c, Cons(d, s)) \in Seq(X)
  BY <1>3, ConsIs
<1>5. p \o Cons(c, Cons(d, s)) = Cons(a, Cons(b, Cons(c, Cons(d, s))))
  BY <1>4, PairIs
<1> HIDE DEF p, q
<1>6. (p \o q) \o s = p \o (q \o s)
  BY <1>1, ConcatAssociative, SMTT(60)
<1> QED
  BY <1>0, <1>2, <1>5, <1>6

LEMMA ThreeIs ==
    ASSUME NEW X, NEW a \in X, NEW b \in X, NEW c \in X, NEW s \in Seq(X)
    PROVE  <<a, b, c>> \o s = Cons(a, Cons(b, Cons(c, s)))
<1> DEFINE p == <<a, b>>
           q == <<c>>
<1>0. p \o q = <<a, b, c>>
  <2> DEFINE r == <<a, b, c>>
  <2>1. r \in Seq(X) /\ Len(r) = 3 /\ r[1] = a /\ r[2] = b /\ r[3] = c
    OBVIOUS
  <2>2. p \in Seq(X) /\ Len(p) = 2 /\ p[1] = a /\ p[2] = b
    OBVIOUS
  <2>3. q \in Seq(X) /\ Len(q) = 1 /\ q[1] = c
    OBVIOUS
  <2> HIDE DEF p, q, r
  <2>4. \A i \in 1..Len(p) : r[i] = p[i]
    <3>1. \A i \in 1..Len(p) : i = 1 \/ i = 2
      BY <2>2
    <3> QED
      BY <2>1, <2>2, <3>1
  <2>5. \A i \in 1..Len(q) : r[Len(p) + i] = q[i]
    <3>1. \A i \in 1..Len(q) : i = 1 \/ i = 1
      BY <2>3
    <3>2. Len(p) + 1 = 3 /\ Len(p) + 1 = 3
      BY <2>2
    <3> QED
      BY <2>1, <2>3, <3>1, <3>2
  <2>6. Len(r) = Len(p) + Len(q)
    BY <2>1, <2>2, <2>3
  <2>7. p \o q = r
    BY <2>1, <2>2, <2>3, <2>4, <2>5, <2>6, JoinIs
  <2> QED
    BY <2>7 DEF r
<1>1. p \in Seq(X) /\ q \in Seq(X)
  OBVIOUS
<1>2. q \o s = Cons(c, s)
  BY DEF Cons
<1>3. Cons(c, s) \in Seq(X)
  BY ConsIs
<1>4. p \o Cons(c, s) = Cons(a, Cons(b, Cons(c, s)))
  BY <1>3, PairIs
<1> HIDE DEF p, q
<1>5. (p \o q) \o s = p \o (q \o s)
  BY <1>1, ConcatAssociative, SMTT(60)
<1> QED
  BY <1>0, <1>2, <1>4, <1>5

LEMMA WholeIs ==
    ASSUME NEW d \in Directives, NEW rest \in Seq(Tokens)
    PROVE  /\ Text(d) \in Seq(Tokens) /\ Whole(d, rest) \in Seq(Tokens)
           /\ Text(d) \o rest = Whole(d, rest)
<1> DEFINE k == d.key
           v == d.values[1]
           n == Len(d.values)
           s == Listed(d.values)
           b == "blank"
           e == "equals"
           q == "quote"
<1>1. k \in Tokens /\ n \in Nat
  BY DirectiveIs, NoMarks
<1>2. n = 1 => v \in Tokens
  <2> SUFFICES ASSUME n = 1
               PROVE  v \in Tokens
    OBVIOUS
  <2>1. d.values \in Seq(Words) /\ 1 \in 1..Len(d.values)
    BY DirectiveIs
  <2>2. v \in Words
    BY <2>1, ElementOfSeq
  <2> QED
    BY <2>2 DEF Tokens
<1>3. n > 1 => s \in Seq(Tokens)
  <2> SUFFICES ASSUME n > 1
               PROVE  s \in Seq(Tokens)
    OBVIOUS
  <2>1. d.values \in Seq(W) /\ Len(d.values) \in Nat \ {0}
    BY <1>1, DirectiveIs
  <2> QED
    BY <2>1, ListedIs
<1>4. b \in Tokens /\ e \in Tokens /\ q \in Tokens
  BY DEF Tokens, Marks
<1>5. Text(d) = CASE n = 0 -> <<k>>
                  [] n = 1 -> <<k, b, e, v>>
                  [] OTHER -> (<<k, e, q>> \o s) \o <<q>>
  BY DEF Text
<1>6. Whole(d, rest) = CASE n = 0 -> Cons(k, rest)
                         [] n = 1 -> Cons(k, Cons(b, Cons(e, Cons(v, rest))))
                         [] OTHER -> Cons(k, Cons(e, Cons(q, s \o Cons(q, rest))))
  BY DEF Whole
<1> HIDE DEF k, v, n, s, b, e, q
<1>7. CASE n = 0
  <2>1. Text(d) = <<k>> /\ Whole(d, rest) = Cons(k, rest)
    BY <1>5, <1>6, <1>7
  <2>2. <<k>> \in Seq(Tokens) /\ Cons(k, rest) \in Seq(Tokens) /\ <<k>> \o rest = Cons(k, rest)
    <3>1. <<k>> \in Seq(Tokens)
      BY <1>1
    <3>2. Cons(k, rest) \in Seq(Tokens)
      BY <1>1, FrontIs
    <3> QED
      BY <3>1, <3>2, Zenon DEF Cons
  <2> QED
    BY <2>1, <2>2, Zenon
<1>8. CASE n = 1
  <2>1. Text(d) = <<k, b, e, v>> /\ Whole(d, rest) = Cons(k, Cons(b, Cons(e, Cons(v, rest))))
    BY <1>5, <1>6, <1>8
  <2>2. <<k, b, e, v>> \in Seq(Tokens)
    BY <1>1, <1>2, <1>4, <1>8
  <2>3. Cons(v, rest) \in Seq(Tokens)
    BY <1>2, <1>8, FrontIs
  <2>4. Cons(e, Cons(v, rest)) \in Seq(Tokens)
    BY <1>4, <2>3, FrontIs
  <2>5. Cons(b, Cons(e, Cons(v, rest))) \in Seq(Tokens)
    BY <1>4, <2>4, FrontIs
  <2>6. Cons(k, Cons(b, Cons(e, Cons(v, rest)))) \in Seq(Tokens)
    BY <1>1, <2>5, FrontIs
  <2>7. <<k, b, e, v>> \o rest = Cons(k, Cons(b, Cons(e, Cons(v, rest))))
    BY <1>1, <1>2, <1>4, <1>8, FourIs
  <2> QED
    BY <2>1, <2>2, <2>6, <2>7, Zenon
<1>9. CASE n > 1
  <2> DEFINE h == <<k, e, q>>
             l == <<q>>
             t == Cons(q, rest)
  <2>1. Text(d) = (h \o s) \o l /\ Whole(d, rest) = Cons(k, Cons(e, Cons(q, s \o t)))
    <3>1. n # 0 /\ n # 1
      BY <1>9, <1>1
    <3> QED
      BY <1>5, <1>6, <3>1
  <2>2. h \in Seq(Tokens) /\ l \in Seq(Tokens) /\ l \o rest = t
    <3>1. h \in Seq(Tokens)
      BY <1>1, <1>4
    <3>2. l \in Seq(Tokens)
      BY <1>4
    <3>3. l \o rest = t
      BY Zenon DEF Cons
    <3> QED
      BY <3>1, <3>2, <3>3
  <2>3. t \in Seq(Tokens)
    BY <1>4, FrontIs
  <2>4. s \in Seq(Tokens)
    BY <1>3, <1>9
  <2>5. s \o t \in Seq(Tokens)
    BY <2>3, <2>4, ConcatProperties
  <2>6. h \o (s \o t) = Cons(k, Cons(e, Cons(q, s \o t)))
    <3> DEFINE y == s \o t
    <3>1. y \in Seq(Tokens)
      BY <2>5
    <3> HIDE DEF y, t
    <3>2. <<k, e, q>> \o y = Cons(k, Cons(e, Cons(q, y)))
      BY <1>1, <1>4, <3>1, ThreeIs
    <3> QED
      BY <3>2 DEF y
  <2>7. Cons(q, s \o t) \in Seq(Tokens)
    BY <1>4, <2>5, FrontIs
  <2>8. Cons(e, Cons(q, s \o t)) \in Seq(Tokens)
    BY <1>4, <2>7, FrontIs
  <2>9. Cons(k, Cons(e, Cons(q, s \o t))) \in Seq(Tokens)
    BY <1>1, <2>8, FrontIs
  <2> HIDE DEF h, l, t
  <2>10. h \o s \in Seq(Tokens)
    BY <2>2, <2>4, ConcatProperties
  <2>11. (h \o s) \o l \in Seq(Tokens)
    BY <2>2, <2>10, ConcatProperties
  <2>12. ((h \o s) \o l) \o rest = (h \o s) \o (l \o rest)
    <3> DEFINE g == h \o s
    <3>1. g \in Seq(Tokens) /\ l \in Seq(Tokens) /\ rest \in Seq(Tokens)
      BY <2>2, <2>10
    <3> HIDE DEF g
    <3>2. (g \o l) \o rest = g \o (l \o rest)
      BY <3>1, ConcatAssociative, SMTT(60)
    <3> QED
      BY <3>2 DEF g
  <2>13. (h \o s) \o t = h \o (s \o t)
    BY <2>2, <2>3, <2>4, ConcatAssociative, SMTT(60)
  <2> QED
    BY <2>1, <2>2, <2>6, <2>9, <2>11, <2>12, <2>13, Zenon
<1>10. n = 0 \/ n = 1 \/ n > 1
  BY <1>1
<1> QED
  BY <1>7, <1>8, <1>9, <1>10

\* The text from a directive on.
LEMMA TextIs ==
    ASSUME NEW said \in Seq(Directives), NEW n \in 1..Len(said),
           TextFrom(said)[n + 1] \in Seq(Tokens)
    PROVE  LET w == Whole(said[n], TextFrom(said)[n + 1])
           IN /\ w \in Seq(Tokens)
              /\ n = 1 => TextFrom(said)[n] = w
              /\ n # 1 => TextFrom(said)[n] = Cons("comma", Cons("blank", w))
              /\ TextFrom(said)[n] \in Seq(Tokens)
<1> DEFINE f == TextFrom(said)
           d == said[n]
           w == Whole(d, f[n + 1])
           x == Text(d)
           c == "comma"
           b == "blank"
           r == f[n + 1]
<1>1. Len(said) \in Nat
  BY LenProperties
<1>2. f[n] = ((IF n = 1 THEN << >> ELSE <<c, b>>) \o x) \o r
  BY <1>1, TextStep
<1>3. d \in Directives
  BY ElementOfSeq
<1>4. x \in Seq(Tokens) /\ w \in Seq(Tokens) /\ x \o r = w /\ r \in Seq(Tokens)
  BY <1>3, WholeIs
<1>5. c \in Tokens /\ b \in Tokens
  BY DEF Tokens, Marks
<1> HIDE DEF f, d, w, x, c, b, r
<1>6. CASE n = 1
  <2>1. f[n] = (<< >> \o x) \o r
    BY <1>2, <1>6
  <2>2. << >> \o x = x
    BY <1>4, ConcatEmptySeq
  <2> QED
    BY <1>4, <1>6, <2>1, <2>2 DEF f, d, w, r
<1>7. CASE n # 1
  <2> DEFINE h == <<c, b>>
  <2>1. f[n] = (h \o x) \o r
    BY <1>2, <1>7
  <2>2. h \in Seq(Tokens)
    BY <1>5
  <2>3. h \o w = Cons(c, Cons(b, w))
    BY <1>4, <1>5, PairIs, SMTT(60)
  <2>4. Cons(b, w) \in Seq(Tokens)
    BY <1>4, <1>5, FrontIs
  <2>5. Cons(c, Cons(b, w)) \in Seq(Tokens)
    BY <1>5, <2>4, FrontIs
  <2> HIDE DEF h
  <2>6. (h \o x) \o r = h \o (x \o r)
    <3>1. h \in Seq(Tokens) /\ x \in Seq(Tokens) /\ r \in Seq(Tokens)
      BY <1>4, <2>2
    <3> QED
      BY <3>1, ConcatAssociative, SMTT(60)
  <2>7. f[n] = Cons(c, Cons(b, w))
    BY <1>4, <2>1, <2>3, <2>6, Zenon
  <2>8. f[n] \in Seq(Tokens)
    BY <2>5, <2>7, Zenon
  <2> QED
    BY <1>4, <1>7, <2>7, <2>8 DEF f, d, w, r, c, b
<1> QED
  BY <1>6, <1>7

LEMMA TextEnd ==
    ASSUME NEW said \in Seq(Directives)
    PROVE  TextFrom(said)[Len(said) + 1] = Cons("end", << >>)
<1>1. Len(said) \in Nat
  BY LenProperties
<1>2. TextFrom(said)[Len(said) + 1] = <<"end">>
  BY <1>1, TextStep
<1>3. <<"end">> = Cons("end", << >>)
  BY DEF Cons
<1> QED
  BY <1>2, <1>3, Zenon

LEMMA TextTyped ==
    ASSUME NEW said \in Seq(Directives)
    PROVE  \A n \in 1..(Len(said) + 1) : TextFrom(said)[n] \in Seq(Tokens)
<1> DEFINE f == TextFrom(said)
           L == Len(said)
           S == {k \in Nat : k <= L => f[L + 1 - k] \in Seq(Tokens)}
<1>1. L \in Nat
  BY LenProperties
<1>2. f[L + 1] \in Seq(Tokens)
  <2>1. f[L + 1] = Cons("end", << >>)
    BY TextEnd
  <2>2. "end" \in Tokens /\ << >> \in Seq(Tokens)
    BY DEF Tokens, Marks
  <2>3. Cons("end", << >>) \in Seq(Tokens)
    BY <2>2, FrontIs
  <2> QED
    BY <2>1, <2>3, Zenon
<1>3. \A n \in 1..L : f[n + 1] \in Seq(Tokens) => f[n] \in Seq(Tokens)
  BY TextIs
<1> HIDE DEF f, L
<1>4. 0 \in S
  BY <1>1, <1>2
<1>5. ASSUME NEW k \in Nat, k \in S
      PROVE  k + 1 \in S
  <2> SUFFICES ASSUME k + 1 <= L
               PROVE  f[L + 1 - (k + 1)] \in Seq(Tokens)
    OBVIOUS
  <2> DEFINE m == L + 1 - (k + 1)
  <2>1. m \in 1..L /\ m + 1 = L + 1 - k /\ k <= L
    BY <1>1
  <2> HIDE DEF m
  <2>2. f[m] \in Seq(Tokens)
    BY <1>3, <1>5, <2>1
  <2> QED
    BY <2>2 DEF m
<1>6. \A k \in Nat : k \in S
  <2> HIDE DEF S
  <2> QED
    BY <1>4, <1>5, AllNumbers
<1>7. ASSUME NEW n \in 1..(L + 1)
      PROVE  f[n] \in Seq(Tokens)
  <2>1. L + 1 - n \in Nat /\ L + 1 - n <= L /\ L + 1 - (L + 1 - n) = n
    BY <1>1
  <2> QED
    BY <1>6, <2>1
<1> QED
  BY <1>7 DEF f, L

-----------------------------------------------------------------------------
(* What is taken: one character, or what stands in quotes.                   *)

LEMMA Shift ==
    ASSUME NEW x \in Tokens, NEW s \in Seq(Tokens), NEW t \in Seq(Tokens)
    PROVE  s \o Cons(x, t) = Append(s, x) \o t /\ Append(s, x) \in Seq(Tokens)
<1> DEFINE one == <<x>>
<1>1. one \in Seq(Tokens)
  OBVIOUS
<1>2. Append(s, x) = s \o one
  BY AppendIsConcat
<1>3. Append(s, x) \in Seq(Tokens)
  BY AppendProperties
<1>4. Cons(x, t) = one \o t
  BY Zenon DEF Cons
<1> HIDE DEF one
<1>5. (s \o one) \o t = s \o (one \o t)
  BY <1>1, ConcatAssociative, SMTT(60)
<1> QED
  BY <1>2, <1>3, <1>4, <1>5, Zenon

LEMMA ShiftLast ==
    ASSUME NEW x \in Tokens, NEW s \in Seq(Tokens)
    PROVE  s \o Cons(x, << >>) = Append(s, x)
<1>1. << >> \in Seq(Tokens)
  OBVIOUS
<1>2. s \o Cons(x, << >>) = Append(s, x) \o << >> /\ Append(s, x) \in Seq(Tokens)
  BY <1>1, Shift
<1> DEFINE a == Append(s, x)
<1>3. a \in Seq(Tokens)
  BY <1>2
<1> HIDE DEF a
<1>4. a \o << >> = a
  BY <1>3, ConcatEmptySeq
<1> QED
  BY <1>2, <1>4, Zenon DEF a

LEMMA PieceAs ==
    ASSUME NEW d \in Directives, NEW s \in Seq(Tokens)
    PROVE  /\ Len(d.values) = 0 => s \o Piece(d) = Append(s, d.key)
           /\ Len(d.values) = 1 =>
                 s \o Piece(d) = Append(Append(Append(Append(s, d.key), "blank"), "equals"), d.values[1])
           /\ Len(d.values) > 1 =>
                 s \o Piece(d) = Append(Append(s, d.key), "equals") \o Listed(d.values)
<1> DEFINE k == d.key
           v == d.values[1]
           n == Len(d.values)
           l == Listed(d.values)
           b == "blank"
           e == "equals"
<1>1. k \in Tokens /\ n \in Nat
  BY DirectiveIs, NoMarks
<1>2. n = 1 => v \in Tokens
  <2> SUFFICES ASSUME n = 1
               PROVE  v \in Tokens
    OBVIOUS
  <2>1. d.values \in Seq(Words) /\ 1 \in 1..Len(d.values)
    BY DirectiveIs
  <2>2. v \in Words
    BY <2>1, ElementOfSeq
  <2> QED
    BY <2>2 DEF Tokens
<1>3. n > 1 => l \in Seq(Tokens)
  <2> SUFFICES ASSUME n > 1
               PROVE  l \in Seq(Tokens)
    OBVIOUS
  <2>1. d.values \in Seq(W) /\ Len(d.values) \in Nat \ {0}
    BY <1>1, DirectiveIs
  <2> QED
    BY <2>1, ListedIs
<1>4. b \in Tokens /\ e \in Tokens
  BY DEF Tokens, Marks
<1>5. Piece(d) = CASE n = 0 -> <<k>>
                   [] n = 1 -> <<k, b, e, v>>
                   [] OTHER -> <<k, e>> \o l
  BY DEF Piece
<1>6. << >> \in Seq(Tokens)
  OBVIOUS
<1> HIDE DEF k, v, n, l, b, e
<1>7. ASSUME n = 0
      PROVE  s \o Piece(d) = Append(s, k)
  <2>1. Piece(d) = <<k>>
    BY <1>5, <1>7
  <2>2. Append(s, k) = s \o <<k>>
    BY <1>1, AppendIsConcat
  <2> QED
    BY <2>1, <2>2, Zenon
<1>8. ASSUME n = 1
      PROVE  s \o Piece(d) = Append(Append(Append(Append(s, k), b), e), v)
  <2> DEFINE p == <<k, b, e, v>>
             t3 == Cons(v, << >>)
             t2 == Cons(e, t3)
             t1 == Cons(b, t2)
  <2>1. Piece(d) = p
    BY <1>5, <1>8
  <2>2. p \o << >> = Cons(k, t1)
    <3> DEFINE y == << >>
    <3>1. y \in Seq(Tokens) /\ v \in Tokens
      BY <1>2, <1>8
    <3> HIDE DEF y
    <3>2. <<k, b, e, v>> \o y = Cons(k, Cons(b, Cons(e, Cons(v, y))))
      BY <1>1, <1>4, <3>1, FourIs
    <3> QED
      BY <3>2, Zenon DEF y
  <2>3. p \in Seq(Tokens)
    BY <1>1, <1>2, <1>4, <1>8
  <2>4. t3 \in Seq(Tokens)
    BY <1>2, <1>6, <1>8, FrontIs
  <2>5. t2 \in Seq(Tokens)
    BY <1>4, <2>4, FrontIs
  <2>6. t1 \in Seq(Tokens)
    BY <1>4, <2>5, FrontIs
  <2> HIDE DEF p, t1, t2
  <2>7. p \o << >> = p
    BY <2>3, ConcatEmptySeq
  <2> DEFINE s1 == Append(s, k)
             s2 == Append(s1, b)
             s3 == Append(s2, e)
  <2>8. s \o Cons(k, t1) = s1 \o t1 /\ s1 \in Seq(Tokens)
    BY <1>1, <2>6, Shift
  <2> HIDE DEF s1
  <2>9. s1 \o Cons(b, t2) = s2 \o t2 /\ s2 \in Seq(Tokens)
    BY <1>4, <2>5, <2>8, Shift
  <2> HIDE DEF s2, t3
  <2>10. s2 \o Cons(e, t3) = s3 \o t3 /\ s3 \in Seq(Tokens)
    BY <1>4, <2>4, <2>9, Shift
  <2> HIDE DEF s3
  <2>11. s3 \o Cons(v, << >>) = Append(s3, v)
    BY <1>2, <1>8, <2>10, ShiftLast
  <2>12. s \o p = Append(s3, v)
    BY <2>2, <2>7, <2>8, <2>9, <2>10, <2>11, Zenon DEF t1, t2, t3
  <2> QED
    BY <2>1, <2>12, Zenon DEF s1, s2, s3
<1>9. ASSUME n > 1
      PROVE  s \o Piece(d) = Append(Append(s, k), e) \o l
  <2> DEFINE t == Cons(e, l)
             s1 == Append(s, k)
  <2>1. Piece(d) = <<k, e>> \o l
    <3>1. n # 0 /\ n # 1
      BY <1>1, <1>9
    <3> QED
      BY <1>5, <3>1
  <2>2. l \in Seq(Tokens)
    BY <1>3, <1>9
  <2>3. <<k, e>> \o l = Cons(k, t)
    BY <1>1, <1>4, <2>2, PairIs
  <2>4. t \in Seq(Tokens)
    BY <1>4, <2>2, FrontIs
  <2> HIDE DEF t
  <2>5. s \o Cons(k, t) = s1 \o t /\ s1 \in Seq(Tokens)
    BY <1>1, <2>4, Shift
  <2> HIDE DEF s1
  <2>6. s1 \o Cons(e, l) = Append(s1, e) \o l
    BY <1>4, <2>2, <2>5, Shift
  <2> QED
    BY <2>1, <2>3, <2>5, <2>6, Zenon DEF t, s1
<1> QED
  BY <1>7, <1>8, <1>9 DEF k, v, n, l, b, e

\* What a quote takes in is the list, and the text behind its end is left.
LEMMA QuotedIs ==
    ASSUME NEW l \in Seq(Tokens), NEW rest \in Seq(Tokens), NEW c,
           \A i \in 1..Len(l) : l[i] \notin {"quote", "end"},
           c = Cons("quote", l \o Cons("quote", rest))
    PROVE  LET q == First(Tail(c), {"quote", "end"}) - 1
           IN SubSeq(c, 2, q + 1) = l /\ c[q + 2] = "quote" /\ SubSeq(c, q + 3, Len(c)) = rest
<1> DEFINE x == "quote"
           t == Cons(x, rest)
           u == l \o t
           n == Len(l)
           m == Len(rest)
<1>1. x \in Tokens
  BY DEF Tokens, Marks
<1>2. n \in Nat /\ m \in Nat /\ \A i \in 1..n : l[i] \in Tokens
  BY LenProperties, ElementOfSeq
<1>3. c = Cons(x, u)
  OBVIOUS
<1>4. /\ t \in Seq(Tokens) /\ Len(t) = 1 + m /\ t[1] = x /\ \A i \in 1..m : t[1 + i] = rest[i]
  <2> HIDE DEF x
  <2> QED
    BY <1>1, ConsIs
<1> HIDE DEF t
<1>5. /\ u \in Seq(Tokens) /\ Len(u) = n + Len(t)
      /\ \A i \in 1..n + Len(t) : u[i] = IF i <= n THEN l[i] ELSE t[i - n]
  <2>1. l \in Seq(Tokens) /\ t \in Seq(Tokens)
    BY <1>4
  <2> QED
    BY <2>1, ConcatProperties
<1> HIDE DEF n, m, u
<1>6. /\ u \in Seq(Tokens) /\ Len(u) = n + 1 + m
      /\ \A i \in 1..n : u[i] = l[i]
  <2>1. \A i \in 1..n : i \in 1..(n + Len(t)) /\ i <= n
    BY <1>2, <1>4
  <2> QED
    BY <1>2, <1>4, <1>5, <2>1
<1>7. u[n + 1] = x
  <2>1. n + 1 \in 1..(n + Len(t)) /\ ~(n + 1 <= n) /\ (n + 1) - n = 1
    BY <1>2, <1>4
  <2> QED
    BY <1>4, <1>5, <2>1
<1>8. ASSUME NEW i \in 1..m
      PROVE  u[n + 1 + i] = rest[i]
  <2>1. n + 1 + i \in 1..(n + Len(t)) /\ ~(n + 1 + i <= n) /\ (n + 1 + i) - n = 1 + i
    BY <1>2, <1>4
  <2> QED
    BY <1>4, <1>5, <2>1
<1>9. Front(c, x, u)
  <2> HIDE DEF x
  <2> QED
    BY <1>1, <1>3, <1>6, FrontIs
<1>10. /\ c \in Seq(Tokens) /\ Len(c) = n + m + 2 /\ Tail(c) = u
       /\ \A i \in 1..Len(u) : c[1 + i] = u[i]
  <2>1. c \in Seq(Tokens) /\ Len(c) = 1 + Len(u) /\ Tail(c) = u
    BY <1>9 DEF Front
  <2>2. Len(c) = n + m + 2
    BY <1>2, <1>6, <2>1
  <2>3. \A i \in 1..Len(u) : c[1 + i] = u[i]
    <3>1. x \in Tokens /\ u \in Seq(Tokens)
      BY <1>1, <1>6
    <3> HIDE DEF x
    <3>2. \A i \in 1..Len(u) : Cons(x, u)[1 + i] = u[i]
      BY <3>1, ConsIs
    <3> QED
      BY <1>3, <3>2, Zenon
  <2> QED
    BY <2>1, <2>2, <2>3
<1>11. First(u, {"quote", "end"}) = n + 1
  <2>1. /\ Len(u) \in Nat /\ n + 1 \in 1..(Len(u) + 1) /\ n + 1 <= Len(u)
        /\ (n + 1) - 1 = n
    BY <1>2, <1>6
  <2>2. u[n + 1] \in {"quote", "end"}
    BY <1>7
  <2>3. \A i \in 1..n : u[i] \notin {"quote", "end"}
    BY <1>6 DEF n
  <2> QED
    BY <2>1, <2>2, <2>3, FirstIs
<1> DEFINE q == First(Tail(c), {"quote", "end"}) - 1
<1>12. q = n
  <2>1. First(Tail(c), {"quote", "end"}) = n + 1
    BY <1>10, <1>11, Zenon
  <2> QED
    BY <1>2, <2>1
<1>13. /\ q + 1 = n + 1 /\ q + 2 = 1 + (n + 1) /\ q + 3 = n + 3 /\ n + 1 \in 1..Len(u)
  BY <1>2, <1>6, <1>12
<1>14. \A i \in 1..(n + m + 2) : c[i] \in Tokens
  BY <1>10, ElementOfSeq
<1>15. SubSeq(c, 2, n + 1) = l
  <2> DEFINE p == SubSeq(c, 2, n + 1)
  <2>1. /\ 2 \in Int /\ n + 1 \in Int /\ (n + 1) - 2 + 1 = n /\ (2 <= n + 1 <=> n > 0)
        /\ \A i \in 2..(n + 1) : i \in 1..(n + m + 2)
    BY <1>2
  <2>2. /\ p \in Seq(Tokens) /\ Len(p) = (IF 2 <= n + 1 THEN (n + 1) - 2 + 1 ELSE 0)
        /\ \A i \in 1..(n + 1) - 2 + 1 : p[i] = c[2 + i - 1]
    BY <1>14, <2>1, SubSeqProperties
  <2> HIDE DEF p
  <2>3. Len(p) = n
    BY <1>2, <2>1, <2>2
  <2>4. ASSUME NEW i \in 1..n
        PROVE  p[i] = l[i]
    <3>1. i \in 1..Len(u) /\ i \in 1..(n + 1) - 2 + 1 /\ 2 + i - 1 = 1 + i
      BY <1>2, <1>6
    <3> QED
      BY <1>6, <1>10, <2>2, <3>1
  <2>5. p = l
    BY <2>2, <2>3, <2>4, SeqEqual DEF n
  <2> QED
    BY <2>5 DEF p
<1>16. SubSeq(c, n + 3, n + m + 2) = rest
  <2> DEFINE p == SubSeq(c, n + 3, n + m + 2)
             a == n + 3
             z == n + m + 2
  <2>1. /\ a \in Int /\ z \in Int /\ z - a + 1 = m /\ (a <= z <=> m > 0)
        /\ \A i \in a..z : i \in 1..(n + m + 2)
    BY <1>2
  <2>2. /\ SubSeq(c, a, z) \in Seq(Tokens) /\ Len(SubSeq(c, a, z)) = (IF a <= z THEN z - a + 1 ELSE 0)
        /\ \A i \in 1..z - a + 1 : SubSeq(c, a, z)[i] = c[a + i - 1]
    <3> HIDE DEF a, z
    <3> QED
      BY <1>14, <2>1, SubSeqProperties
  <2>3. p = SubSeq(c, a, z)
    OBVIOUS
  <2> HIDE DEF p
  <2>4. Len(p) = m /\ p \in Seq(Tokens)
    <3> HIDE DEF a, z
    <3> QED
      BY <1>2, <2>1, <2>2, <2>3
  <2>5. ASSUME NEW i \in 1..m
        PROVE  p[i] = rest[i]
    <3>1. /\ n + 1 + i \in 1..Len(u) /\ i \in 1..z - a + 1
          /\ a + i - 1 = 1 + (n + 1 + i)
      BY <1>2, <1>6
    <3>2. c[1 + (n + 1 + i)] = u[n + 1 + i]
      BY <1>10, <3>1
    <3> HIDE DEF a, z
    <3>3. p[i] = c[1 + (n + 1 + i)]
      BY <2>2, <2>3, <3>1
    <3> QED
      BY <1>8, <3>2, <3>3
  <2>6. p = rest
    BY <2>4, <2>5, SeqEqual DEF m
  <2> QED
    BY <2>6 DEF p
<1>17. c[q + 2] = "quote"
  BY <1>7, <1>10, <1>13
<1> HIDE DEF q
<1>18. SubSeq(c, 2, q + 1) = l /\ SubSeq(c, q + 3, Len(c)) = rest
  BY <1>10, <1>13, <1>15, <1>16
<1> QED
  BY <1>17, <1>18 DEF q

-----------------------------------------------------------------------------
(* The places in a directive: what is left, and what is taken behind the     *)
(* lead.                                                                     *)

FromValue(d, rest) ==
    IF Len(d.values) = 1 THEN Cons(d.values[1], rest)
    ELSE Cons("quote", Listed(d.values) \o Cons("quote", rest))
FromEquals(d, rest) == Cons("equals", FromValue(d, rest))
FromBlank(d, rest)  == Cons("blank", FromEquals(d, rest))

Within(d, rest, lead, c, cur) ==
    \/ c = Whole(d, rest) /\ cur = lead
    \/ /\ Len(d.values) = 1 /\ c = FromBlank(d, rest)
       /\ cur = Append(lead, d.key)
    \/ /\ Len(d.values) = 1 /\ c = FromEquals(d, rest)
       /\ cur = Append(Append(lead, d.key), "blank")
    \/ /\ Len(d.values) = 1 /\ c = FromValue(d, rest)
       /\ cur = Append(Append(Append(lead, d.key), "blank"), "equals")
    \/ /\ Len(d.values) > 1 /\ c = FromEquals(d, rest)
       /\ cur = Append(lead, d.key)
    \/ /\ Len(d.values) > 1 /\ c = FromValue(d, rest)
       /\ cur = Append(Append(lead, d.key), "equals")
    \/ c = rest /\ cur = lead \o Piece(d)

LEMMA FromAre ==
    ASSUME NEW d \in Directives, NEW rest \in Seq(Tokens)
    PROVE  /\ Len(d.values) = 0 => Front(Whole(d, rest), d.key, rest)
           /\ Len(d.values) = 1 => Front(Whole(d, rest), d.key, FromBlank(d, rest))
           /\ Len(d.values) > 1 => Front(Whole(d, rest), d.key, FromEquals(d, rest))
           /\ Len(d.values) > 0 => /\ Front(FromBlank(d, rest), "blank", FromEquals(d, rest))
                                   /\ Front(FromEquals(d, rest), "equals", FromValue(d, rest))
           /\ Len(d.values) = 1 => Front(FromValue(d, rest), d.values[1], rest)
           /\ Len(d.values) > 1 =>
                 Front(FromValue(d, rest), "quote", Listed(d.values) \o Cons("quote", rest))
           /\ d.key \notin Marks /\ (Len(d.values) = 1 => d.values[1] \notin Marks)
           /\ Len(d.values) \in Nat
           /\ Len(d.values) > 1 => /\ Listed(d.values) \in Seq(Tokens)
                                   /\ \A i \in 1..Len(Listed(d.values)) :
                                         Listed(d.values)[i] \notin {"quote", "end"}
<1> DEFINE k == d.key
           v == d.values[1]
           n == Len(d.values)
           l == Listed(d.values)
           b == "blank"
           e == "equals"
           q == "quote"
           fv == FromValue(d, rest)
           fe == FromEquals(d, rest)
           fb == FromBlank(d, rest)
           w == Whole(d, rest)
<1>1. k \in Tokens /\ k \notin Marks /\ n \in Nat
  BY DirectiveIs, NoMarks
<1>2. n = 1 => v \in Tokens /\ v \notin Marks
  <2> SUFFICES ASSUME n = 1
               PROVE  v \in Tokens /\ v \notin Marks
    OBVIOUS
  <2>1. d.values \in Seq(Words) /\ 1 \in 1..Len(d.values)
    BY DirectiveIs
  <2>2. v \in Words
    BY <2>1, ElementOfSeq
  <2> QED
    BY <2>2, NoMarks DEF W
<1>3. n > 1 => l \in Seq(Tokens) /\ \A i \in 1..Len(l) : l[i] \notin {"quote", "end"}
  <2> SUFFICES ASSUME n > 1
               PROVE  l \in Seq(Tokens) /\ \A i \in 1..Len(l) : l[i] \notin {"quote", "end"}
    OBVIOUS
  <2>1. d.values \in Seq(W) /\ Len(d.values) \in Nat \ {0}
    BY <1>1, DirectiveIs
  <2>2. l \in Seq(Tokens)
    BY <2>1, ListedIs
  <2>3. \A i \in 1..Len(l) : l[i] \notin {"quote", "equals", "end"}
    BY <2>1, ListedTrimmed
  <2> QED
    BY <2>2, <2>3
<1>4. b \in Tokens /\ e \in Tokens /\ q \in Tokens
  BY DEF Tokens, Marks
<1>5. /\ n = 0 => w = Cons(k, rest)
      /\ n = 1 => w = Cons(k, fb)
      /\ n > 1 => w = Cons(k, fe)
      /\ fb = Cons(b, fe) /\ fe = Cons(e, fv)
      /\ n = 1 => fv = Cons(v, rest)
      /\ n > 1 => fv = Cons(q, l \o Cons(q, rest))
  <2>1. w = CASE n = 0 -> Cons(k, rest)
              [] n = 1 -> Cons(k, Cons(b, Cons(e, Cons(v, rest))))
              [] OTHER -> Cons(k, Cons(e, Cons(q, l \o Cons(q, rest))))
    BY DEF Whole
  <2>2. fv = IF n = 1 THEN Cons(v, rest) ELSE Cons(q, l \o Cons(q, rest))
    BY Zenon DEF FromValue
  <2>3. fe = Cons(e, fv) /\ fb = Cons(b, fe)
    BY Zenon DEF FromEquals, FromBlank
  <2> HIDE DEF k, v, n, l, b, e, q, fv, fe, fb, w
  <2>4. n > 1 => n # 0 /\ n # 1
    BY <1>1
  <2>5. ASSUME n = 0
        PROVE  w = Cons(k, rest)
    BY <2>1, <2>5
  <2>6. ASSUME n = 1
        PROVE  w = Cons(k, fb) /\ fv = Cons(v, rest)
    <3>1. w = Cons(k, Cons(b, Cons(e, Cons(v, rest))))
      BY <2>1, <2>6
    <3>2. fv = Cons(v, rest)
      BY <2>2, <2>6
    <3> QED
      BY <2>3, <3>1, <3>2, Zenon
  <2>7. ASSUME n > 1
        PROVE  w = Cons(k, fe) /\ fv = Cons(q, l \o Cons(q, rest))
    <3>1. w = Cons(k, Cons(e, Cons(q, l \o Cons(q, rest))))
      BY <2>1, <2>4, <2>7
    <3>2. fv = Cons(q, l \o Cons(q, rest))
      BY <2>2, <2>4, <2>7
    <3> QED
      BY <2>3, <3>1, <3>2, Zenon
  <2> QED
    BY <2>3, <2>5, <2>6, <2>7
<1> HIDE DEF k, v, n, l, b, e, q, fv, fe, fb, w
<1>6. ASSUME n = 1
      PROVE  Front(fv, v, rest) /\ fv \in Seq(Tokens)
  BY <1>2, <1>5, <1>6, FrontIs
<1>7. ASSUME n > 1
      PROVE  Front(fv, q, l \o Cons(q, rest)) /\ fv \in Seq(Tokens)
  <2>1. Cons(q, rest) \in Seq(Tokens)
    BY <1>4, FrontIs
  <2>2. l \in Seq(Tokens)
    BY <1>3, <1>7
  <2> DEFINE t == Cons(q, rest)
  <2>3. t \in Seq(Tokens)
    BY <2>1
  <2> HIDE DEF t
  <2> DEFINE u == l \o t
  <2>4. u \in Seq(Tokens)
    BY <2>2, <2>3, ConcatProperties
  <2> HIDE DEF u
  <2>5. Front(Cons(q, u), q, u) /\ Cons(q, u) \in Seq(Tokens)
    BY <1>4, <2>4, FrontIs
  <2>6. fv = Cons(q, u)
    BY <1>5, <1>7, Zenon DEF u, t
  <2> QED
    BY <2>5, <2>6, Zenon DEF u, t
<1>8. ASSUME n > 0
      PROVE  /\ Front(fe, e, fv) /\ fe \in Seq(Tokens) /\ Front(fb, b, fe) /\ fb \in Seq(Tokens)
  <2>1. fv \in Seq(Tokens)
    <3>1. n = 1 \/ n > 1
      BY <1>1, <1>8
    <3> QED
      BY <1>6, <1>7, <3>1
  <2>2. Front(fe, e, fv) /\ fe \in Seq(Tokens)
    BY <1>4, <1>5, <2>1, FrontIs
  <2>3. Front(fb, b, fe) /\ fb \in Seq(Tokens)
    BY <1>4, <1>5, <2>2, FrontIs
  <2> QED
    BY <2>2, <2>3
<1>9. /\ n = 0 => Front(w, k, rest)
      /\ n = 1 => Front(w, k, fb)
      /\ n > 1 => Front(w, k, fe)
  <2>1. n = 1 \/ n > 1 => n > 0
    BY <1>1
  <2>2. ASSUME n = 0
        PROVE  Front(w, k, rest)
    BY <1>1, <1>5, <2>2, FrontIs
  <2>3. ASSUME n = 1
        PROVE  Front(w, k, fb)
    BY <1>1, <1>5, <1>8, <2>1, <2>3, FrontIs
  <2>4. ASSUME n > 1
        PROVE  Front(w, k, fe)
    BY <1>1, <1>5, <1>8, <2>1, <2>4, FrontIs
  <2> QED
    BY <2>2, <2>3, <2>4
<1> QED
  BY <1>1, <1>2, <1>3, <1>6, <1>7, <1>8, <1>9, Zenon DEF k, v, n, l, b, e, q, fv, fe, fb, w

\* In a directive, an ordinary character is taken and the next place reached.
LEMMA CharacterIs ==
    ASSUME NEW d \in Directives, NEW rest \in Seq(Tokens), NEW lead \in Seq(Tokens),
           NEW c, NEW cur, Within(d, rest, lead, c, cur),
           Head(rest) \in {"comma", "end"},
           Head(c) \notin {"comma", "quote", "end"}
    PROVE  Within(d, rest, lead, Tail(c), Append(cur, Head(c)))
<1> DEFINE k == d.key
           v == d.values[1]
           n == Len(d.values)
           fv == FromValue(d, rest)
           fe == FromEquals(d, rest)
           fb == FromBlank(d, rest)
           w == Whole(d, rest)
           p == lead \o Piece(d)
           x == Head(c)
           t == Tail(c)
           b == "blank"
           e == "equals"
           a1 == Append(lead, k)
           a2 == Append(a1, b)
           a3 == Append(a2, e)
           e2 == Append(a1, e)
           In(s, u) == Within(d, rest, lead, s, u)
<1>1. /\ n = 0 => Head(w) = k /\ Tail(w) = rest
      /\ n = 1 => Head(w) = k /\ Tail(w) = fb
      /\ n > 1 => Head(w) = k /\ Tail(w) = fe
      /\ n > 0 => Head(fb) = b /\ Tail(fb) = fe /\ Head(fe) = e /\ Tail(fe) = fv
      /\ n = 1 => Head(fv) = v /\ Tail(fv) = rest
      /\ n > 1 => Head(fv) = "quote"
      /\ n \in Nat
  BY FromAre DEF Front
<1>2. /\ n = 0 => p = a1
      /\ n = 1 => p = Append(a3, v)
  BY PieceAs
<1>3. \A s, u : In(s, u) <=>
         \/ s = w /\ u = lead
         \/ n = 1 /\ s = fb /\ u = a1
         \/ n = 1 /\ s = fe /\ u = a2
         \/ n = 1 /\ s = fv /\ u = a3
         \/ n > 1 /\ s = fe /\ u = a1
         \/ n > 1 /\ s = fv /\ u = e2
         \/ s = rest /\ u = p
  BY DEF Within
<1>4. In(c, cur)
  OBVIOUS
<1>5. x \notin {"comma", "quote", "end"}
  OBVIOUS
<1>6. x = Head(c) /\ t = Tail(c)
  OBVIOUS
<1>7. a1 = Append(lead, k) /\ a2 = Append(a1, b) /\ a3 = Append(a2, e) /\ e2 = Append(a1, e)
  OBVIOUS
<1> HIDE DEF k, v, n, fv, fe, fb, w, p, x, t, b, e, a1, a2, a3, e2, In
<1> SUFFICES In(t, Append(cur, x))
  BY DEF In, t, x
<1>8. (n = 1 \/ n > 1) => n > 0
  BY <1>1
<1>9. CASE c = w /\ cur = lead
  <2>1. n = 0 \/ n = 1 \/ n > 1
    BY <1>1
  <2>2. CASE n = 0
    <3>1. t = rest /\ Append(cur, x) = p
      BY <1>1, <1>2, <1>6, <1>7, <1>9, <2>2, Zenon
    <3> QED
      BY <1>3, <3>1, Zenon
  <2>3. CASE n = 1
    <3>1. t = fb /\ Append(cur, x) = a1
      BY <1>1, <1>6, <1>7, <1>9, <2>3, Zenon
    <3> QED
      BY <1>3, <2>3, <3>1, Zenon
  <2>4. CASE n > 1
    <3>1. t = fe /\ Append(cur, x) = a1
      BY <1>1, <1>6, <1>7, <1>9, <2>4, Zenon
    <3> QED
      BY <1>3, <2>4, <3>1, Zenon
  <2> QED
    BY <2>1, <2>2, <2>3, <2>4
<1>10. CASE n = 1 /\ c = fb /\ cur = a1
  <2>1. t = fe /\ Append(cur, x) = a2
    BY <1>1, <1>6, <1>7, <1>8, <1>10, Zenon
  <2> QED
    BY <1>3, <1>10, <2>1, Zenon
<1>11. CASE n = 1 /\ c = fe /\ cur = a2
  <2>1. t = fv /\ Append(cur, x) = a3
    BY <1>1, <1>6, <1>7, <1>8, <1>11, Zenon
  <2> QED
    BY <1>3, <1>11, <2>1, Zenon
<1>12. CASE n = 1 /\ c = fv /\ cur = a3
  <2>1. t = rest /\ Append(cur, x) = p
    BY <1>1, <1>2, <1>6, <1>12, Zenon
  <2> QED
    BY <1>3, <2>1, Zenon
<1>13. CASE n > 1 /\ c = fe /\ cur = a1
  <2>1. t = fv /\ Append(cur, x) = e2
    BY <1>1, <1>6, <1>7, <1>8, <1>13, Zenon
  <2> QED
    BY <1>3, <1>13, <2>1, Zenon
<1>14. CASE n > 1 /\ c = fv /\ cur = e2
  BY <1>1, <1>5, <1>6, <1>14
<1>15. CASE c = rest /\ cur = p
  BY <1>5, <1>6, <1>15
<1> QED
  BY <1>3, <1>4, <1>9, <1>10, <1>11, <1>12, <1>13, <1>14, <1>15, Zenon

\* At a quote, what it takes in ends the directive.
LEMMA QuoteIs ==
    ASSUME NEW d \in Directives, NEW rest \in Seq(Tokens), NEW lead \in Seq(Tokens),
           NEW c, NEW cur, Within(d, rest, lead, c, cur),
           Head(rest) \in {"comma", "end"},
           Head(c) = "quote"
    PROVE  LET q == First(Tail(c), {"quote", "end"}) - 1
           IN /\ cur \o SubSeq(c, 2, q + 1) = lead \o Piece(d)
              /\ c[q + 2] = "quote"
              /\ SubSeq(c, q + 3, Len(c)) = rest
<1> DEFINE n == Len(d.values)
           l == Listed(d.values)
           e2 == Append(Append(lead, d.key), "equals")
<1>1. n > 1 /\ c = FromValue(d, rest) /\ cur = e2
  <2> DEFINE k == d.key
             v == d.values[1]
             fv == FromValue(d, rest)
             fe == FromEquals(d, rest)
             fb == FromBlank(d, rest)
             w == Whole(d, rest)
  <2>1. /\ n = 0 => Head(w) = k
        /\ n = 1 => Head(w) = k
        /\ n > 1 => Head(w) = k
        /\ n > 0 => Head(fb) = "blank" /\ Head(fe) = "equals"
        /\ n = 1 => Head(fv) = v
        /\ n \in Nat
        /\ k \notin Marks /\ (n = 1 => v \notin Marks)
    BY FromAre DEF Front
  <2>2. \/ c = w
        \/ n = 1 /\ c = fb
        \/ n = 1 /\ c = fe
        \/ n = 1 /\ c = fv
        \/ n > 1 /\ c = fe
        \/ n > 1 /\ c = fv /\ cur = e2
        \/ c = rest
    BY DEF Within
  <2>3. n = 0 \/ n = 1 \/ n > 1
    <3> HIDE DEF n
    <3> QED
      BY <2>1
  <2>4. "quote" \in Marks
    BY DEF Marks
  <2> HIDE DEF k, v, n, fv, fe, fb, w, e2
  <2>5. Head(w) # "quote" /\ (n = 1 => Head(fv) # "quote")
    BY <2>1, <2>3, <2>4
  <2>6. (n = 1 \/ n > 1) => Head(fb) # "quote" /\ Head(fe) # "quote"
    BY <2>1
  <2>7. Head(rest) # "quote"
    OBVIOUS
  <2> QED
    BY <2>2, <2>5, <2>6, <2>7 DEF fv
<1>2. /\ l \in Seq(Tokens) /\ \A i \in 1..Len(l) : l[i] \notin {"quote", "end"}
  BY <1>1, FromAre
<1>3. c = Cons("quote", l \o Cons("quote", rest))
  <2>1. n # 1
    <3> HIDE DEF n
    <3> QED
      BY <1>1
  <2>2. ~(Len(d.values) = 1)
    BY <2>1
  <2> QED
    BY <1>1, <2>2, Zenon DEF FromValue
<1>4. lead \o Piece(d) = e2 \o l
  BY <1>1, PieceAs
<1>5. LET q == First(Tail(c), {"quote", "end"}) - 1
      IN SubSeq(c, 2, q + 1) = l /\ c[q + 2] = "quote" /\ SubSeq(c, q + 3, Len(c)) = rest
  <2> HIDE DEF l
  <2> QED
    BY <1>2, <1>3, QuotedIs
<1> QED
  BY <1>1, <1>4, <1>5, Zenon

\* At a comma or at the end the directive is taken.
LEMMA TakenIs ==
    ASSUME NEW d \in Directives, NEW rest \in Seq(Tokens), NEW lead \in Seq(Tokens),
           NEW c, NEW cur, Within(d, rest, lead, c, cur),
           rest # << >>
    PROVE  /\ c # << >>
           /\ Head(c) \in {"comma", "end"} => c = rest /\ cur = lead \o Piece(d)
<1> DEFINE n == Len(d.values)
           k == d.key
           v == d.values[1]
           fv == FromValue(d, rest)
           fe == FromEquals(d, rest)
           fb == FromBlank(d, rest)
           w == Whole(d, rest)
           p == lead \o Piece(d)
<1>1. /\ n = 0 => Head(w) = k /\ w # << >>
      /\ n = 1 => Head(w) = k /\ w # << >>
      /\ n > 1 => Head(w) = k /\ w # << >>
      /\ n > 0 => Head(fb) = "blank" /\ Head(fe) = "equals" /\ fb # << >> /\ fe # << >>
      /\ n = 1 => Head(fv) = v /\ fv # << >>
      /\ n > 1 => Head(fv) = "quote" /\ fv # << >>
      /\ n \in Nat
      /\ k \notin Marks /\ (n = 1 => v \notin Marks)
  BY FromAre DEF Front
<1>2. \/ c = w
      \/ n = 1 /\ c = fb
      \/ n = 1 /\ c = fe
      \/ n = 1 /\ c = fv
      \/ n > 1 /\ c = fe
      \/ n > 1 /\ c = fv
      \/ c = rest /\ cur = p
  BY DEF Within
<1>3. n = 0 \/ n = 1 \/ n > 1
  <2> HIDE DEF n
  <2> QED
    BY <1>1
<1>4. "comma" \in Marks /\ "end" \in Marks
  BY DEF Marks
<1> HIDE DEF n, k, v, fv, fe, fb, w, p
<1>5. w # << >> /\ Head(w) \notin {"comma", "end"}
  BY <1>1, <1>3, <1>4
<1>6. n = 1 => fv # << >> /\ Head(fv) \notin {"comma", "end"}
  BY <1>1, <1>4
<1>7. n > 1 => fv # << >> /\ Head(fv) \notin {"comma", "end"}
  BY <1>1
<1>8. (n = 1 \/ n > 1) => /\ fb # << >> /\ Head(fb) \notin {"comma", "end"}
                          /\ fe # << >> /\ Head(fe) \notin {"comma", "end"}
  BY <1>1
<1> QED
  BY <1>2, <1>5, <1>6, <1>7, <1>8 DEF p

-----------------------------------------------------------------------------
(* The places of the scanner.                                                *)

Reading(said, c, cur, ps) ==
    \E n \in 1..Len(said) :
        /\ ps = Parts(said, n - 1)
        /\ \/ n > 1 /\ c = Cons("blank", Whole(said[n], TextFrom(said)[n + 1])) /\ cur = << >>
           \/ Within(said[n], TextFrom(said)[n + 1], Lead(n), c, cur)

Scanned(said, c, cur, ps) == c = << >> /\ cur = << >> /\ ps = AllParts(said)
Outside(said, c, cur, ps) == said = << >> /\ cur = << >> /\ ps = << >> /\ (c = << >> \/ c = <<"end">>)

\* What is taken and what is left belong together.
Scan(said, c, cur, ps) ==
    Reading(said, c, cur, ps) \/ Scanned(said, c, cur, ps) \/ Outside(said, c, cur, ps)

LEMMA RestIs ==
    ASSUME NEW said \in Seq(Directives), NEW n \in 1..Len(said)
    PROVE  LET d == said[n]
               rest == TextFrom(said)[n + 1]
               w == Whole(said[n], TextFrom(said)[n + 1])
           IN /\ d \in Directives /\ rest \in Seq(Tokens) /\ rest # << >>
              /\ Head(rest) \in {"comma", "end"}
              /\ n = Len(said) => Front(rest, "end", << >>)
              /\ n # Len(said) =>
                    Front(rest, "comma", Cons("blank", Whole(said[n + 1], TextFrom(said)[(n + 1) + 1])))
              /\ Front(Cons("blank", w), "blank", w)
              /\ w = TextFrom(said)[n] \/ n # 1
              /\ Lead(n) \in Seq(Tokens)
<1> DEFINE T == TextFrom(said)
           L == Len(said)
           rest == T[n + 1]
<1>1. L \in Nat
  BY LenProperties
<1>2. said[n] \in Directives
  BY ElementOfSeq
<1>3. \A i \in 1..(L + 1) : T[i] \in Seq(Tokens)
  BY TextTyped
<1>4. n + 1 \in 1..(L + 1)
  BY <1>1
<1>5. rest \in Seq(Tokens)
  BY <1>3, <1>4
<1>6. "blank" \in Tokens /\ "comma" \in Tokens /\ "end" \in Tokens
  BY DEF Tokens, Marks
<1>7. Front(Cons("blank", Whole(said[n], rest)), "blank", Whole(said[n], rest))
  <2>1. Whole(said[n], rest) \in Seq(Tokens)
    BY <1>2, <1>5, WholeIs
  <2> QED
    BY <1>6, <2>1, FrontIs
<1>8. n = 1 => Whole(said[n], rest) = T[n]
  BY <1>5, TextIs
<1>9. n = L => Front(rest, "end", << >>)
  <2> SUFFICES ASSUME n = L
               PROVE  Front(rest, "end", << >>)
    OBVIOUS
  <2>1. rest = Cons("end", << >>)
    BY TextEnd
  <2>2. << >> \in Seq(Tokens)
    OBVIOUS
  <2>3. Front(Cons("end", << >>), "end", << >>)
    BY <1>6, <2>2, FrontIs
  <2> QED
    BY <2>1, <2>3, Zenon
<1>10. n # L => Front(rest, "comma", Cons("blank", Whole(said[n + 1], T[(n + 1) + 1])))
  <2> SUFFICES ASSUME n # L
               PROVE  Front(rest, "comma", Cons("blank", Whole(said[n + 1], T[(n + 1) + 1])))
    OBVIOUS
  <2> DEFINE m == n + 1
             w == Whole(said[m], T[m + 1])
  <2>1. m \in 1..L /\ m # 1 /\ m + 1 \in 1..(L + 1)
    BY <1>1
  <2>2. T[m + 1] \in Seq(Tokens)
    BY <1>3, <2>1
  <2>3. rest = T[m]
    OBVIOUS
  <2> HIDE DEF m, T
  <2>4. w \in Seq(Tokens) /\ T[m] = Cons("comma", Cons("blank", w))
    BY <2>1, <2>2, TextIs DEF T
  <2> HIDE DEF w
  <2>5. Cons("blank", w) \in Seq(Tokens)
    BY <1>6, <2>4, FrontIs
  <2>6. Front(Cons("comma", Cons("blank", w)), "comma", Cons("blank", w))
    BY <1>6, <2>5, FrontIs
  <2> QED
    BY <2>3, <2>4, <2>6, Zenon DEF w, m
<1>11. rest # << >> /\ Head(rest) \in {"comma", "end"}
  <2>1. CASE n = L
    BY <1>9, <2>1 DEF Front
  <2>2. CASE n # L
    <3>1. rest # << >> /\ Head(rest) = "comma"
      BY <1>10, <2>2, Zenon DEF Front
    <3> QED
      BY <3>1
  <2> QED
    BY <2>1, <2>2
<1>12. Lead(n) \in Seq(Tokens)
  <2>1. << >> \in Seq(Tokens) /\ <<"blank">> \in Seq(Tokens)
    BY <1>6
  <2> QED
    BY <2>1, Zenon DEF Lead
<1> QED
  BY <1>2, <1>5, <1>7, <1>8, <1>9, <1>10, <1>11, <1>12, Zenon

LEMMA PartsGrow ==
    ASSUME NEW said, NEW n \in Nat \ {0}
    PROVE  Append(Parts(said, n - 1), Part(said, n)) = Parts(said, n)
  BY DEF Parts

LEMMA EndIs == \A c : c = <<"end">> => c # << >> /\ Head(c) = "end" /\ Tail(c) = << >>
  OBVIOUS

LEMMA ScanCharacter ==
    ASSUME NEW said \in Seq(Directives), NEW c, NEW cur, NEW ps,
           Scan(said, c, cur, ps), c # << >>, Head(c) \notin {"comma", "quote", "end"}
    PROVE  Scan(said, Tail(c), Append(cur, Head(c)), ps)
<1>1. Reading(said, c, cur, ps)
  BY EndIs DEF Scan, Scanned, Outside
<1>2. PICK n \in 1..Len(said) :
        /\ ps = Parts(said, n - 1)
        /\ \/ n > 1 /\ c = Cons("blank", Whole(said[n], TextFrom(said)[n + 1])) /\ cur = << >>
           \/ Within(said[n], TextFrom(said)[n + 1], Lead(n), c, cur)
  BY <1>1, Zenon DEF Reading
<1> DEFINE d == said[n]
           rest == TextFrom(said)[n + 1]
           w == Whole(d, rest)
<1>3. /\ d \in Directives /\ rest \in Seq(Tokens) /\ Lead(n) \in Seq(Tokens)
      /\ Head(rest) \in {"comma", "end"}
      /\ Front(Cons("blank", w), "blank", w)
  BY RestIs, Zenon
<1> HIDE DEF d, rest
<1>4. Within(d, rest, Lead(n), Tail(c), Append(cur, Head(c)))
  <2>1. CASE n > 1 /\ c = Cons("blank", w) /\ cur = << >>
    <3> HIDE DEF w
    <3>1. Head(c) = "blank" /\ Tail(c) = w
      BY <1>3, <2>1, Zenon DEF Front
    <3>2. Append(cur, Head(c)) = <<"blank">>
      BY <2>1, <3>1
    <3>3. n # 1
      BY <2>1
    <3>4. Append(cur, Head(c)) = Lead(n)
      BY <3>2, <3>3 DEF Lead
    <3> QED
      BY <3>1, <3>4, Zenon DEF Within, w
  <2>2. CASE Within(d, rest, Lead(n), c, cur)
    BY <1>3, <2>2, CharacterIs
  <2> QED
    BY <1>2, <2>1, <2>2 DEF d, rest
<1> QED
  BY <1>2, <1>4, Zenon DEF Scan, Reading, d, rest

LEMMA ScanQuote ==
    ASSUME NEW said \in Seq(Directives), NEW c, NEW cur, NEW ps,
           Scan(said, c, cur, ps), c # << >>, Head(c) = "quote"
    PROVE  LET q == First(Tail(c), {"quote", "end"}) - 1
           IN /\ c[q + 2] = "quote"
              /\ Scan(said, SubSeq(c, q + 3, Len(c)), cur \o SubSeq(c, 2, q + 1), ps)
<1>1. Reading(said, c, cur, ps)
  BY EndIs DEF Scan, Scanned, Outside
<1>2. PICK n \in 1..Len(said) :
        /\ ps = Parts(said, n - 1)
        /\ \/ n > 1 /\ c = Cons("blank", Whole(said[n], TextFrom(said)[n + 1])) /\ cur = << >>
           \/ Within(said[n], TextFrom(said)[n + 1], Lead(n), c, cur)
  BY <1>1, Zenon DEF Reading
<1> DEFINE d == said[n]
           rest == TextFrom(said)[n + 1]
           w == Whole(d, rest)
           q == First(Tail(c), {"quote", "end"}) - 1
<1>3. /\ d \in Directives /\ rest \in Seq(Tokens) /\ Lead(n) \in Seq(Tokens)
      /\ Head(rest) \in {"comma", "end"}
      /\ Front(Cons("blank", w), "blank", w)
  BY RestIs, Zenon
<1> HIDE DEF d, rest, w
<1>4. Within(d, rest, Lead(n), c, cur)
  <2>1. Head(Cons("blank", w)) = "blank"
    BY <1>3, Zenon DEF Front
  <2>2. c # Cons("blank", w)
    BY <2>1
  <2> QED
    BY <1>2, <2>2 DEF d, rest, w
<1>5. /\ cur \o SubSeq(c, 2, q + 1) = Lead(n) \o Piece(d)
      /\ c[q + 2] = "quote"
      /\ SubSeq(c, q + 3, Len(c)) = rest
  BY <1>3, <1>4, QuoteIs
<1> HIDE DEF q
<1>6. Within(d, rest, Lead(n), SubSeq(c, q + 3, Len(c)), cur \o SubSeq(c, 2, q + 1))
  BY <1>5, Zenon DEF Within
<1>7. Scan(said, SubSeq(c, q + 3, Len(c)), cur \o SubSeq(c, 2, q + 1), ps)
  BY <1>2, <1>6, Zenon DEF Scan, Reading, d, rest
<1> QED
  BY <1>5, <1>7, Zenon DEF q

\* At a comma or the end of the text.
LEMMA ScanTaken ==
    ASSUME NEW said \in Seq(Directives), NEW c, NEW cur, NEW ps,
           Reading(said, c, cur, ps), Head(c) \in {"comma", "end"}
    PROVE  \E n \in 1..Len(said) :
              /\ Append(ps, cur) = Parts(said, n)
              /\ c = TextFrom(said)[n + 1]
<1>1. PICK n \in 1..Len(said) :
        /\ ps = Parts(said, n - 1)
        /\ \/ n > 1 /\ c = Cons("blank", Whole(said[n], TextFrom(said)[n + 1])) /\ cur = << >>
           \/ Within(said[n], TextFrom(said)[n + 1], Lead(n), c, cur)
  BY Zenon DEF Reading
<1> DEFINE d == said[n]
           rest == TextFrom(said)[n + 1]
           w == Whole(d, rest)
<1>2. /\ d \in Directives /\ rest \in Seq(Tokens) /\ Lead(n) \in Seq(Tokens)
      /\ rest # << >>
      /\ Front(Cons("blank", w), "blank", w)
  BY RestIs, Zenon
<1> HIDE DEF d, rest, w
<1>3. Within(d, rest, Lead(n), c, cur)
  <2>1. Head(Cons("blank", w)) = "blank"
    BY <1>2, Zenon DEF Front
  <2>2. c # Cons("blank", w)
    BY <2>1
  <2> QED
    BY <1>1, <2>2 DEF d, rest, w
<1>4. c = rest /\ cur = Lead(n) \o Piece(d)
  BY <1>2, <1>3, TakenIs
<1>5. cur = Part(said, n)
  BY <1>4, Zenon DEF Part, d
<1>6. n \in Nat \ {0}
  OBVIOUS
<1>7. Append(ps, cur) = Parts(said, n)
  BY <1>1, <1>5, <1>6, PartsGrow
<1> QED
  BY <1>4, <1>7, Zenon DEF rest

LEMMA ScanComma ==
    ASSUME NEW said \in Seq(Directives), NEW c, NEW cur, NEW ps,
           Scan(said, c, cur, ps), c # << >>, Head(c) = "comma"
    PROVE  Scan(said, Tail(c), << >>, Append(ps, cur))
<1>1. Reading(said, c, cur, ps)
  BY EndIs DEF Scan, Scanned, Outside
<1>2. PICK n \in 1..Len(said) :
              /\ Append(ps, cur) = Parts(said, n)
              /\ c = TextFrom(said)[n + 1]
  BY <1>1, ScanTaken
<1>3. Len(said) \in Nat
  BY LenProperties
<1>4. n # Len(said)
  <2>1. n = Len(said) => Head(TextFrom(said)[n + 1]) = "end"
    BY RestIs, Zenon DEF Front
  <2> QED
    BY <1>2, <2>1
<1>5. Tail(c) = Cons("blank", Whole(said[n + 1], TextFrom(said)[(n + 1) + 1]))
  BY <1>2, <1>4, RestIs, Zenon DEF Front
<1> DEFINE m == n + 1
<1>6. m \in 1..Len(said) /\ m > 1 /\ m - 1 = n
  BY <1>3, <1>4
<1>7. Reading(said, Tail(c), << >>, Append(ps, cur))
  <2>1. Append(ps, cur) = Parts(said, m - 1)
    BY <1>2, <1>6
  <2>2. Tail(c) = Cons("blank", Whole(said[m], TextFrom(said)[m + 1]))
    BY <1>5, Zenon
  <2> HIDE DEF m
  <2> QED
    BY <1>6, <2>1, <2>2, Zenon DEF Reading
<1> QED
  BY <1>7, Zenon DEF Scan

LEMMA ScanEnd ==
    ASSUME NEW said \in Seq(Directives), NEW c, NEW cur, NEW ps,
           Scan(said, c, cur, ps), c = <<"end">>
    PROVE  Scan(said, << >>, << >>, Append(ps, cur))
<1>1. c # << >> /\ Head(c) = "end"
  BY EndIs
<1>2. CASE Reading(said, c, cur, ps)
  <2>1. PICK n \in 1..Len(said) :
              /\ Append(ps, cur) = Parts(said, n)
              /\ c = TextFrom(said)[n + 1]
    BY <1>1, <1>2, ScanTaken
  <2>2. n = Len(said)
    <3>1. n # Len(said) => Head(TextFrom(said)[n + 1]) = "comma"
      BY RestIs, Zenon DEF Front
    <3> QED
      BY <1>1, <2>1, <3>1
  <2>3. said # << >>
    BY <2>1
  <2>4. Append(ps, cur) = AllParts(said)
    BY <2>1, <2>2, <2>3, Zenon DEF AllParts
  <2> QED
    BY <2>4, Zenon DEF Scan, Scanned
<1>3. CASE Outside(said, c, cur, ps)
  <2>1. said = << >> /\ cur = << >> /\ ps = << >>
    BY <1>3 DEF Outside
  <2>2. Append(ps, cur) = << << >> >>
    BY <2>1
  <2>3. Append(ps, cur) = AllParts(said)
    BY <2>1, <2>2, Zenon DEF AllParts
  <2> QED
    BY <2>3, Zenon DEF Scan, Scanned
<1>4. ~Scanned(said, c, cur, ps)
  BY <1>1 DEF Scanned
<1> QED
  BY <1>2, <1>3, <1>4 DEF Scan

LEMMA ScanNext ==
    ASSUME NEW said \in Seq(Directives)
    PROVE  Scan(said, TextFrom(said)[1], << >>, << >>)
<1>1. Len(said) \in Nat
  BY LenProperties
<1>2. CASE said = << >>
  <2>1. TextFrom(said)[Len(said) + 1] = <<"end">>
    BY <1>1, TextStep
  <2>2. Len(said) + 1 = 1
    BY <1>2
  <2>3. TextFrom(said)[1] = <<"end">>
    BY <2>1, <2>2
  <2> QED
    BY <1>2, <2>3, Zenon DEF Scan, Outside
<1>3. CASE said # << >>
  <2>1. 1 \in 1..Len(said)
    BY <1>1, <1>3
  <2>2. TextFrom(said)[1] = Whole(said[1], TextFrom(said)[1 + 1])
    <3> DEFINE n == 1
    <3>1. n \in 1..Len(said)
      BY <2>1
    <3>2. Whole(said[n], TextFrom(said)[n + 1]) = TextFrom(said)[n] \/ n # 1
      BY <3>1, RestIs, Zenon
    <3> QED
      BY <3>2
  <2>3. Lead(1) = << >> /\ Parts(said, 1 - 1) = << >>
    BY DEF Lead, Parts
  <2>4. Within(said[1], TextFrom(said)[1 + 1], Lead(1), TextFrom(said)[1], << >>)
    BY <2>2, <2>3, Zenon DEF Within
  <2>5. Reading(said, TextFrom(said)[1], << >>, << >>)
    BY <2>1, <2>3, <2>4, Zenon DEF Reading
  <2> QED
    BY <2>5, Zenon DEF Scan
<1> QED
  BY <1>2, <1>3

LEMMA ScanOver ==
    ASSUME NEW said \in Seq(Directives), NEW c, NEW cur, NEW ps,
           Scan(said, c, cur, ps), c = << >>
    PROVE  cur = << >> /\ (ps # << >> => ps = AllParts(said)) /\ (ps = << >> => said = << >>)
<1>1. ASSUME Reading(said, c, cur, ps)
      PROVE  FALSE
  <2>1. PICK n \in 1..Len(said) :
          /\ ps = Parts(said, n - 1)
          /\ \/ n > 1 /\ c = Cons("blank", Whole(said[n], TextFrom(said)[n + 1])) /\ cur = << >>
             \/ Within(said[n], TextFrom(said)[n + 1], Lead(n), c, cur)
    BY <1>1, Zenon DEF Reading
  <2> DEFINE d == said[n]
             rest == TextFrom(said)[n + 1]
             w == Whole(d, rest)
  <2>2. /\ d \in Directives /\ rest \in Seq(Tokens) /\ Lead(n) \in Seq(Tokens)
        /\ rest # << >>
        /\ Front(Cons("blank", w), "blank", w)
    BY RestIs, Zenon
  <2> HIDE DEF d, rest, w
  <2>3. c # Cons("blank", w)
    BY <2>2, Zenon DEF Front
  <2>4. Within(d, rest, Lead(n), c, cur)
    BY <2>1, <2>3 DEF d, rest, w
  <2> QED
    BY <2>2, <2>4, TakenIs
<1>2. CASE Scanned(said, c, cur, ps)
  <2>1. AllParts(said) # << >>
    <3>1. CASE said = << >>
      BY <3>1 DEF AllParts
    <3>2. CASE said # << >>
      <4>1. Len(said) \in Nat /\ Len(said) # 0
        BY <3>2, LenProperties, EmptySeq
      <4>2. Len(Parts(said, Len(said))) = Len(said)
        BY <4>1 DEF Parts
      <4>3. AllParts(said) = Parts(said, Len(said))
        BY <3>2, Zenon DEF AllParts
      <4> QED
        BY <4>1, <4>2, <4>3
    <3> QED
      BY <3>1, <3>2
  <2> QED
    BY <1>2, <2>1, Zenon DEF Scanned
<1>3. CASE Outside(said, c, cur, ps)
  BY <1>3, Zenon DEF Outside
<1> QED
  BY <1>1, <1>2, <1>3 DEF Scan

-----------------------------------------------------------------------------
(* What holds at every character of every comment.                           *)

TypesInv == directives \in Seq(Directives) /\ comment \in Seq(Directives)
ScanInv  == Scan(comment, chars, current, parts)
IInv     == TypesInv /\ ScanInv /\ NamesReadBack /\ LastIgnoreErrors

LEMMA InitHolds == Init => IInv
<1> SUFFICES ASSUME Init
             PROVE  IInv
  OBVIOUS
<1>1. /\ directives = << >> /\ comment = << >> /\ chars = << >> /\ parts = << >> /\ current = << >>
      /\ always_true = << >> /\ always_false = << >> /\ ignore_errors = "none"
  BY DEF Init
<1>2. TypesInv
  BY <1>1 DEF TypesInv
<1>3. ScanInv
  BY <1>1, Zenon DEF ScanInv, Scan, Outside
<1>4. Len(directives) = 0
  BY <1>1
<1>5. Names(directives, "always_true")[0] = << >> /\ Names(directives, "always_false")[0] = << >>
  BY <1>4, NamesStep
<1>6. NamesReadBack
  BY <1>1, <1>4, <1>5, Zenon DEF NamesReadBack
<1>7. LastIgnoreErrors
  <2>1. Verdict(directives, 0) = "none"
    BY VerdictFirst
  <2> QED
    BY <1>1, <1>4, <2>1, LastIsVerdict, Zenon
<1> QED
  BY <1>2, <1>3, <1>6, <1>7 DEF IInv

\* Between two merges the overrides stay what they are.
LEMMA Same ==
    ASSUME NamesReadBack, LastIgnoreErrors, UNCHANGED <<directives, overrides>>
    PROVE  NamesReadBack' /\ LastIgnoreErrors'
<1>1. /\ directives' = directives /\ always_true' = always_true
      /\ always_false' = always_false /\ ignore_errors' = ignore_errors
  BY DEF overrides
<1> QED
  BY <1>1 DEF NamesReadBack, LastIgnoreErrors

LEMMA NextTextHolds == IInv /\ NextText => IInv'
<1> SUFFICES ASSUME IInv, NextText
             PROVE  IInv'
  OBVIOUS
<1>1. /\ chars = << >> /\ parts = << >>
      /\ comment' \in SeqsUpTo(Directives, MaxDirectives - Len(directives))
      /\ chars' = TextFrom(comment')[1]
      /\ directives' = directives /\ parts' = parts /\ current' = current
      /\ UNCHANGED overrides
  BY DEF NextText, Resolved
<1>2. directives \in Seq(Directives) /\ comment \in Seq(Directives) /\ Scan(comment, chars, current, parts)
  BY DEF IInv, TypesInv, ScanInv
<1>3. comment' \in Seq(Directives)
  <2>1. PICK k \in 0..(MaxDirectives - Len(directives)) : comment' \in [1..k -> Directives]
    BY <1>1 DEF SeqsUpTo
  <2>2. k \in Nat
    BY <1>2, <2>1, InlineAssumption
  <2>3. comment' = [i \in 1..k |-> comment'[i]] /\ \A i \in 1..k : comment'[i] \in Directives
    BY <2>1
  <2> QED
    BY <2>2, <2>3, IsASeq
<1>4. current = << >>
  BY <1>1, <1>2, ScanOver
<1>5. Scan(comment', TextFrom(comment')[1], << >>, << >>)
  BY <1>3, ScanNext
<1>6. ScanInv'
  BY <1>1, <1>4, <1>5, Zenon DEF ScanInv
<1>7. TypesInv'
  BY <1>1, <1>2, <1>3 DEF TypesInv
<1>8. NamesReadBack' /\ LastIgnoreErrors'
  BY <1>1, Same DEF IInv
<1> QED
  BY <1>6, <1>7, <1>8 DEF IInv

LEMMA CommaHolds == IInv /\ Comma => IInv'
<1> SUFFICES ASSUME IInv, Comma
             PROVE  IInv'
  OBVIOUS
<1>1. /\ chars # << >> /\ Head(chars) = "comma"
      /\ parts' = Append(parts, current) /\ current' = << >> /\ chars' = Tail(chars)
      /\ directives' = directives /\ comment' = comment /\ UNCHANGED overrides
  BY DEF Comma
<1>2. directives \in Seq(Directives) /\ comment \in Seq(Directives) /\ Scan(comment, chars, current, parts)
  BY DEF IInv, TypesInv, ScanInv
<1>3. Scan(comment, Tail(chars), << >>, Append(parts, current))
  BY <1>1, <1>2, ScanComma
<1>4. ScanInv'
  BY <1>1, <1>3, Zenon DEF ScanInv
<1>5. TypesInv' /\ NamesReadBack' /\ LastIgnoreErrors'
  BY <1>1, <1>2, Same DEF IInv, TypesInv
<1> QED
  BY <1>4, <1>5 DEF IInv

LEMMA QuoteHolds == IInv /\ Quote => IInv'
<1> SUFFICES ASSUME IInv, Quote
             PROVE  IInv'
  OBVIOUS
<1> DEFINE q == First(Tail(chars), {"quote", "end"}) - 1
<1>1. /\ chars # << >> /\ Head(chars) = "quote"
      /\ current' = current \o SubSeq(chars, 2, q + 1)
      /\ chars' = SubSeq(chars, IF chars[q + 2] = "quote" THEN q + 3 ELSE q + 2, Len(chars))
      /\ directives' = directives /\ comment' = comment /\ parts' = parts /\ UNCHANGED overrides
  BY Zenon DEF Quote, Quoted
<1>2. directives \in Seq(Directives) /\ comment \in Seq(Directives) /\ Scan(comment, chars, current, parts)
  BY DEF IInv, TypesInv, ScanInv
<1>3. /\ chars[q + 2] = "quote"
      /\ Scan(comment, SubSeq(chars, q + 3, Len(chars)), current \o SubSeq(chars, 2, q + 1), parts)
  BY <1>1, <1>2, ScanQuote
<1> HIDE DEF q
<1>4. ScanInv'
  <2>1. chars' = SubSeq(chars, q + 3, Len(chars))
    BY <1>1, <1>3, Zenon
  <2> QED
    BY <1>1, <1>3, <2>1, Zenon DEF ScanInv
<1>5. TypesInv' /\ NamesReadBack' /\ LastIgnoreErrors'
  BY <1>1, <1>2, Same DEF IInv, TypesInv
<1> QED
  BY <1>4, <1>5 DEF IInv

LEMMA CharacterHolds == IInv /\ Character => IInv'
<1> SUFFICES ASSUME IInv, Character
             PROVE  IInv'
  OBVIOUS
<1>1. /\ chars # << >> /\ Head(chars) \notin {"comma", "quote", "end"}
      /\ current' = Append(current, Head(chars)) /\ chars' = Tail(chars)
      /\ directives' = directives /\ comment' = comment /\ parts' = parts /\ UNCHANGED overrides
  BY DEF Character
<1>2. directives \in Seq(Directives) /\ comment \in Seq(Directives) /\ Scan(comment, chars, current, parts)
  BY DEF IInv, TypesInv, ScanInv
<1>3. Scan(comment, Tail(chars), Append(current, Head(chars)), parts)
  BY <1>1, <1>2, ScanCharacter
<1>4. ScanInv'
  BY <1>1, <1>3, Zenon DEF ScanInv
<1>5. TypesInv' /\ NamesReadBack' /\ LastIgnoreErrors'
  BY <1>1, <1>2, Same DEF IInv, TypesInv
<1> QED
  BY <1>4, <1>5 DEF IInv

LEMMA EndOfTextHolds == IInv /\ EndOfText => IInv'
<1> SUFFICES ASSUME IInv, EndOfText
             PROVE  IInv'
  OBVIOUS
<1>1. /\ chars = <<"end">> /\ parts' = Append(parts, current) /\ current' = << >> /\ chars' = << >>
      /\ directives' = directives /\ comment' = comment /\ UNCHANGED overrides
  BY DEF EndOfText
<1>2. directives \in Seq(Directives) /\ comment \in Seq(Directives) /\ Scan(comment, chars, current, parts)
  BY DEF IInv, TypesInv, ScanInv
<1>3. Scan(comment, << >>, << >>, Append(parts, current))
  BY <1>1, <1>2, ScanEnd
<1>4. ScanInv'
  BY <1>1, <1>3, Zenon DEF ScanInv
<1>5. TypesInv' /\ NamesReadBack' /\ LastIgnoreErrors'
  BY <1>1, <1>2, Same DEF IInv, TypesInv
<1> QED
  BY <1>4, <1>5 DEF IInv

LEMMA MergeHolds == IInv /\ Merge => IInv'
<1> SUFFICES ASSUME IInv, Merge
             PROVE  IInv'
  OBVIOUS
<1> DEFINE r == ParseParts(parts)[Len(parts)]
           a == directives
           b == comment
           n == Len(a \o b)
<1>1. /\ chars = << >> /\ parts # << >>
      /\ always_true' = always_true \o r.always_true
      /\ always_false' = always_false \o r.always_false
      /\ ignore_errors' = Latest(ignore_errors, r.ignore_errors)
      /\ directives' = a \o b /\ comment' = << >> /\ parts' = << >>
      /\ chars' = chars /\ current' = current
  BY Zenon DEF Merge
<1>2. a \in Seq(Directives) /\ b \in Seq(Directives) /\ Scan(comment, chars, current, parts)
  BY DEF IInv, TypesInv, ScanInv
<1>3. /\ always_true = Names(a, "always_true")[Len(a)]
      /\ always_false = Names(a, "always_false")[Len(a)]
      /\ ignore_errors = Verdict(a, Len(a))
  BY LastIsVerdict, Zenon DEF IInv, NamesReadBack
<1>4. current = << >> /\ parts = AllParts(b)
  BY <1>1, <1>2, ScanOver
<1>5. /\ Names(a, "always_true")[Len(a)] \o r.always_true = Names(a \o b, "always_true")[n]
      /\ Names(a, "always_false")[Len(a)] \o r.always_false = Names(a \o b, "always_false")[n]
      /\ Latest(Verdict(a, Len(a)), r.ignore_errors) = Verdict(a \o b, n)
  <2>1. CASE b # << >>
    <3>1. parts = Parts(b, Len(b))
      BY <1>4, <2>1, Zenon DEF AllParts
    <3> QED
      BY <1>2, <2>1, <3>1, MergeIs, Zenon
  <2>2. CASE b = << >>
    <3>1. parts = << << >> >>
      BY <1>4, <2>2, Zenon DEF AllParts
    <3>2. r = NoOverrides
      BY <3>1, MergeEmpty
    <3>3. r.always_true = << >> /\ r.always_false = << >> /\ r.ignore_errors = "none"
      BY <3>2 DEF NoOverrides
    <3> DEFINE t == Names(a, "always_true")[Len(a)]
               f == Names(a, "always_false")[Len(a)]
    <3>4. t \in Seq(Seq(Tokens)) /\ f \in Seq(Seq(Tokens))
      <4>1. Len(a) \in 0..Len(a)
        BY <1>2, LenProperties
      <4> QED
        BY <1>2, <4>1, NamesTyped
    <3>5. a \o b = a
      BY <1>2, <2>2, ConcatEmptySeq
    <3> HIDE DEF r, a, b, t, f
    <3>6. t \o << >> = t /\ f \o << >> = f
      <4> DEFINE X == Seq(Tokens)
      <4>1. t \in Seq(X) /\ f \in Seq(X)
        BY <3>4
      <4> HIDE DEF X
      <4> QED
        BY <4>1, ConcatEmptySeq
    <3> QED
      BY <3>3, <3>5, <3>6, LatestIs, Zenon DEF t, f
  <2> QED
    BY <2>1, <2>2
<1> HIDE DEF r
<1>6. NamesReadBack'
  BY <1>1, <1>3, <1>5, Zenon DEF NamesReadBack
<1>7. LastIgnoreErrors'
  <2>1. ignore_errors' = Verdict(a \o b, n)
    BY <1>1, <1>3, <1>5, Zenon
  <2>2. ignore_errors' = Verdict(directives', Len(directives'))
    BY <1>1, <2>1, Zenon
  <2>3. (LastIgnoreErrors <=> ignore_errors = Verdict(directives, Len(directives)))'
    BY LastIsVerdict, PTL
  <2> QED
    BY <2>2, <2>3
<1>8. TypesInv'
  <2>1. a \o b \in Seq(Directives)
    BY <1>2, ConcatProperties
  <2>2. << >> \in Seq(Directives)
    OBVIOUS
  <2> QED
    BY <1>1, <2>1, <2>2, Zenon DEF TypesInv
<1>9. ScanInv'
  BY <1>1, <1>4, Zenon DEF ScanInv, Scan, Outside
<1> QED
  BY <1>6, <1>7, <1>8, <1>9 DEF IInv

LEMMA StutterHolds == IInv /\ UNCHANGED vars => IInv'
<1> SUFFICES ASSUME IInv, UNCHANGED vars
             PROVE  IInv'
  OBVIOUS
<1>1. /\ directives' = directives /\ comment' = comment /\ chars' = chars /\ parts' = parts
      /\ current' = current /\ UNCHANGED overrides
  BY DEF vars, overrides
<1> QED
  BY <1>1, Same, Zenon DEF IInv, TypesInv, ScanInv

LEMMA AlwaysHolds == Spec => []IInv
<1>1. IInv /\ [Next]_vars => IInv'
  BY NextTextHolds, CommaHolds, QuoteHolds, CharacterHolds, EndOfTextHolds, MergeHolds,
     StutterHolds, Zenon DEF Next, Done
<1> QED
  BY <1>1, InitHolds, PTL DEF Spec

\* For any keys and words, any number of comments and of directives in each,
\* and any number of values: the always-true and always-false names are those
\* of the directives merged, in their order and none split or lost, whatever
\* stands between them (split_respecting_quotes, split_commas, merge).
THEOREM NamesAreRead == Spec => []NamesReadBack
  BY AlwaysHolds, PTL DEF IInv

\* The last of all directives of the file with one truth value for
\* ignore_errors decides it, over every comment and bare or unknown values
\* (resolve_overrides, merge, parse_bool).
THEOREM LastDecides == Spec => []LastIgnoreErrors
  BY AlwaysHolds, PTL DEF IInv
=============================================================================
