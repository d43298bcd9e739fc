------------------------ MODULE ExpressionWalkProofs ------------------------
(***************************************************************************)
(* For every tree, however deep, the walk of ExpressionWalk keeps to the   *)
(* file: where each item still to do takes place is known from the path to *)
(* its node, and whether it is done with is_evaluated on is known from the *)
(* values that are put back before it.                                     *)
(***************************************************************************)
EXTENDS ExpressionWalk, SequenceTheorems, FiniteSetTheorems, WellFoundedInduction, TLAPS

\* What holds of 0 and with any number of the next holds up to n.
LEMMA UpTo ==
    ASSUME NEW n \in Nat, NEW S,
           0 \in S,
           \A k \in 0..(n - 1) : k \in S => k + 1 \in S
    PROVE  \A k \in 0..n : k \in S
<1> DEFINE R == OpToRel(<, Nat)
           T == (0..n) \ S
<1>1. \A i, j \in Nat : i < j => <<i, j>> \in R
  BY DEF OpToRel
<1>2. IsWellFoundedOn(R, Nat)
  BY NatLessThanWellFounded
<1> HIDE DEF R
<1>3. ASSUME T # {}
      PROVE  FALSE
  <2>1. T \in SUBSET Nat
    OBVIOUS
  <2>2. PICK m \in T : \A q \in T : ~(<<q, m>> \in R)
    BY <1>2, <1>3, <2>1, WFMin
  <2>3. m \in 0..n /\ m \notin S /\ m # 0
    BY <2>2
  <2>4. m - 1 \in 0..(n - 1) /\ m - 1 \in 0..n /\ m - 1 \in Nat /\ m \in Nat /\ m - 1 < m
    BY <2>3
  <2>5. <<m - 1, m>> \in R
    BY <1>1, <2>4
  <2>6. m - 1 \notin T
    BY <2>2, <2>5
  <2>7. m - 1 \in S
    BY <2>4, <2>6
  <2> HIDE DEF T
  <2>8. (m - 1) + 1 \in S
    BY <2>4, <2>7
  <2> QED
    BY <2>3, <2>8
<1> QED
  BY <1>3
-----------------------------------------------------------------------------
(* Places.                                                                   *)

Places == [path : Seq(Nat), fixed : BOOLEAN]

\* A place that was not relocated is the path to its node.
Anchored(t, n, at) ==
    /\ n \in Nodes /\ at \in Places /\ ~at.fixed
    /\ Descent(t, at.path)[Len(at.path)] = {n}
    /\ NodesAt(t, at.path) = {n}

InFile(t, at)  == at \in Places /\ NodesAt(t, at.path) # {}
AtBinop(t, at) == \E n \in NodesAt(t, at.path) : n.kind = "binop"

\* What is relocated is relocated to a string, or to what a comment is about.
Moved(t, at) == at.fixed /\ InFile(t, at) /\ ~AtBinop(t, at)

LEMMA DescentSteps ==
    ASSUME NEW n, NEW path \in Seq(Nat)
    PROVE  /\ Descent(n, path)[0] = {n}
           /\ \A i \in 1..Len(path) : Descent(n, path)[i] = {m.args[path[i]] : m \in {m \in Descent(n, path)[i - 1] : path[i] \in DOMAIN m.args}}
<1> DEFINE first == {n}
           G(x, i) == {m.args[path[i]] : m \in {m \in x : path[i] \in DOMAIN m.args}}
           N == Len(path)
           Step(f, i) == IF i = 0 THEN first ELSE G(f[i - 1], i)
           Upto(f, k) == f = [i \in 0..k |-> Step(f, i)]
           S == {k \in 0..N : \E f : Upto(f, k)}
<1>0. N \in Nat
  BY LenProperties
<1>4. Descent(n, path) = CHOOSE f : Upto(f, N)
  BY DEF Descent
<1> HIDE DEF first, G, N
<1>1. 0 \in S
  <2> DEFINE f == [i \in {0} |-> first]
  <2>1. f = [i \in 0..0 |-> Step(f, i)]
    OBVIOUS
  <2>2. \E h : Upto(h, 0)
    BY <2>1
  <2>3. 0 \in 0..N
    BY <1>0
  <2> QED
    BY <2>2, <2>3
<1>2. ASSUME NEW k \in 0..(N - 1), k \in S
      PROVE  k + 1 \in S
  <2>1. PICK f : Upto(f, k)
    BY <1>2
  <2> DEFINE g == [i \in 0..(k + 1) |-> IF i <= k THEN f[i] ELSE Step(f, i)]
  <2>2. ASSUME NEW i \in 0..(k + 1)
        PROVE  g[i] = Step(g, i)
    <3>1. g[i] = Step(f, i)
      BY <1>0, <2>1
    <3>2. i # 0 => g[i - 1] = f[i - 1]
      BY <1>0
    <3> HIDE DEF g
    <3> QED
      BY <3>1, <3>2
  <2>3. Upto(g, k + 1)
    <3>1. g = [i \in 0..(k + 1) |-> g[i]]
      OBVIOUS
    <3> HIDE DEF g
    <3> QED
      BY <2>2, <3>1
  <2> HIDE DEF g
  <2> QED
    BY <1>0, <2>3
<1>3. N \in S
  <2> HIDE DEF S
  <2>1. \A k \in 0..N : k \in S
    BY <1>0, <1>1, <1>2, UpTo
  <2> QED
    BY <1>0, <2>1
<1> DEFINE f == Descent(n, path)
<1>6. f = [i \in 0..N |-> Step(f, i)]
  BY <1>3, <1>4
<1> HIDE DEF f
<1>7. \A i \in 0..N : f[i] = Step(f, i)
  BY <1>6
<1>8. f[0] = first
  BY <1>0, <1>7
<1>9. \A i \in 1..N : f[i] = G(f[i - 1], i)
  BY <1>0, <1>7
<1> QED
  BY <1>8, <1>9 DEF f, first, G, N

LEMMA DescentOfAppend ==
    ASSUME NEW t, NEW path \in Seq(Nat), NEW i \in Nat
    PROVE  Descent(t, Append(path, i))[Len(path)] = Descent(t, path)[Len(path)]
<1> DEFINE p == Append(path, i)
           S == {k \in Nat : k <= Len(path) => Descent(t, p)[k] = Descent(t, path)[k]}
<1>1. p \in Seq(Nat) /\ Len(p) = Len(path) + 1 /\ \A k \in 1..Len(path) : p[k] = path[k]
  OBVIOUS
<1>0. Len(path) \in Nat
  OBVIOUS
<1> HIDE DEF p
<1>2. 0 \in S
  BY <1>1, DescentSteps
<1>3. ASSUME NEW k \in 0..(Len(path) - 1), k \in S
      PROVE  k + 1 \in S
  <2>1. k + 1 \in 1..Len(path) /\ k + 1 \in 1..Len(p) /\ k + 1 \in Nat /\ (k + 1) - 1 = k /\ k <= Len(path)
    BY <1>0, <1>1, <1>3
  <2> DEFINE Down(x, j) == {m.args[j] : m \in {m \in x : j \in DOMAIN m.args}}
  <2>2. Descent(t, p)[k + 1] = Down(Descent(t, p)[(k + 1) - 1], p[k + 1])
    <3>1. p \in Seq(Nat) /\ k + 1 \in 1..Len(p)
      BY <1>1, <2>1
    <3>2. \A j \in 1..Len(p) : Descent(t, p)[j] = Down(Descent(t, p)[j - 1], p[j])
      BY <3>1, DescentSteps
    <3> HIDE DEF Down
    <3> QED
      BY <3>1, <3>2
  <2>3. Descent(t, path)[k + 1] = Down(Descent(t, path)[(k + 1) - 1], path[k + 1])
    BY <2>1, DescentSteps
  <2>4. p[k + 1] = path[k + 1]
    BY <1>1, <2>1
  <2>5. Descent(t, p)[k] = Descent(t, path)[k]
    BY <1>3, <2>1
  <2> HIDE DEF Down
  <2> QED
    BY <2>1, <2>2, <2>3, <2>4, <2>5
<1> HIDE DEF S
<1>4. \A k \in 0..Len(path) : k \in S
  BY <1>0, <1>2, <1>3, UpTo
<1>5. Len(path) \in S
  BY <1>0, <1>4
<1> QED
  BY <1>0, <1>5 DEF S, p

\* The root of a tree has the empty path.
LEMMA RootIsAnchored ==
    ASSUME NEW t \in Nodes
    PROVE  Anchored(t, t, Root)
<1>1. Root = [path |-> <<>>, fixed |-> FALSE]
  BY DEF Root, Place
<1>2. <<>> \in Seq(Nat) /\ Len(<<>>) = 0
  OBVIOUS
<1>3. Descent(t, <<>>)[0] = {t}
  BY <1>2, DescentSteps
<1>4. NodesAt(t, <<>>) = {t}
  BY <1>2, <1>3 DEF NodesAt
<1>5. Root \in Places /\ Root.path = <<>> /\ Root.fixed = FALSE
  BY <1>1, <1>2 DEF Places
<1> QED
  BY <1>2, <1>3, <1>4, <1>5 DEF Anchored

\* One step down from a node is its child.
LEMMA Below ==
    ASSUME NEW t, NEW n, NEW at, NEW i, Anchored(t, n, at), i \in DOMAIN n.args
    PROVE  /\ Anchored(t, n.args[i], In(at, i))
           /\ n.args[i] \in Nodes
<1> DEFINE p == Append(at.path, i)
           q == Len(at.path)
<1>1. n \in Nodes /\ n.args \in Seq(Nodes) /\ at \in Places /\ ~at.fixed /\ at.path \in Seq(Nat)
  BY NodesAssumption DEF Anchored, Places
<1>2. i \in 1..Len(n.args) /\ i \in Nat /\ n.args[i] \in Nodes
  BY <1>1
<1>3. p \in Seq(Nat) /\ q \in Nat /\ Len(p) = q + 1 /\ p[q + 1] = i /\ p # <<>> /\ q + 1 \in 1..Len(p)
  BY <1>1, <1>2
<1>4. In(at, i) = [path |-> p, fixed |-> FALSE]
  BY <1>1 DEF In, Place
<1>5. Descent(t, p)[q] = {n}
  BY <1>1, <1>2, DescentOfAppend DEF Anchored
<1> HIDE DEF p, q
<1>6. Descent(t, p)[q + 1] = {m.args[i] : m \in {m \in {n} : i \in DOMAIN m.args}}
  <2>1. (q + 1) - 1 = q
    BY <1>3
  <2> QED
    BY <1>3, <1>5, <2>1, DescentSteps
<1>7. Descent(t, p)[q + 1] = {n.args[i]}
  BY <1>2, <1>6
<1>8. ~ IsName(n, i)
  BY <1>1, <1>2 DEF IsName
<1>9. NodesAt(t, p) = {n.args[i]}
  <2>1. NodesAt(t, p) = Descent(t, p)[q + 1] \cup {m \in Descent(t, p)[q] : IsName(m, i)}
    BY <1>3 DEF NodesAt
  <2> QED
    BY <1>5, <1>7, <1>8, <2>1
<1>10. In(at, i) \in Places /\ In(at, i).path = p /\ In(at, i).fixed = FALSE
  BY <1>3, <1>4 DEF Places
<1> QED
  BY <1>2, <1>3, <1>7, <1>9, <1>10 DEF Anchored

\* The name of a pattern and of what a handler catches is after the last child.
LEMMA NamePlace ==
    ASSUME NEW t, NEW n, NEW at, Anchored(t, n, at), n.kind \in Patterns \cup {"handler"}
    PROVE  InFile(t, In(at, Len(n.args) + 1))
<1> DEFINE i == Len(n.args) + 1
           p == Append(at.path, i)
           q == Len(at.path)
<1>1. n \in Nodes /\ n.args \in Seq(Nodes) /\ at \in Places /\ ~at.fixed /\ at.path \in Seq(Nat)
  BY NodesAssumption DEF Anchored, Places
<1>2. i \in Nat
  BY <1>1
<1>8. IsName(n, i)
  BY DEF IsName
<1> HIDE DEF i
<1>3. p \in Seq(Nat) /\ q \in Nat /\ Len(p) = q + 1 /\ p[q + 1] = i /\ p # <<>>
  BY <1>1, <1>2
<1>4. In(at, i) = [path |-> p, fixed |-> FALSE]
  BY <1>1 DEF In, Place
<1>5. Descent(t, p)[q] = {n}
  BY <1>1, <1>2, DescentOfAppend DEF Anchored
<1> HIDE DEF p, q
<1>9. n \in NodesAt(t, p)
  <2>1. NodesAt(t, p) = Descent(t, p)[q + 1] \cup {m \in Descent(t, p)[q] : IsName(m, i)}
    BY <1>3 DEF NodesAt
  <2> QED
    BY <1>5, <1>8, <2>1
<1>10. In(at, i) \in Places /\ In(at, i).path = p
  BY <1>3, <1>4 DEF Places
<1> QED
  BY <1>9, <1>10 DEF InFile, i

LEMMA AnchoredInFile ==
    ASSUME NEW t, NEW n, NEW at, Anchored(t, n, at)
    PROVE  /\ InFile(t, at)
           /\ AtBinop(t, at) <=> n.kind = "binop"
           /\ at.path \in Seq(Nat)
           /\ n \in Nodes
  BY DEF Anchored, InFile, AtBinop, Places

\* A string, and what a comment is about, may take what it is parsed to.
LEMMA MovedTo ==
    ASSUME NEW t, NEW at, InFile(t, at), ~AtBinop(t, at)
    PROVE  Moved(t, Relocated(at))
<1>1. at \in [path : Seq(Nat), fixed : BOOLEAN]
  BY DEF InFile, Places
<1>2. Relocated(at).path = at.path /\ Relocated(at).fixed = TRUE /\ Relocated(at) \in Places
  BY <1>1 DEF Places, Relocated
<1> QED
  BY <1>2 DEF InFile, Moved, AtBinop
-----------------------------------------------------------------------------
(* Items.  Each is done in a context c: that of is_evaluated.                *)

Serialized == ExprKinds \cup Patterns \cup StmtKinds

\* Types are in the file while is_evaluated is on, and moved while it is off.
TypeAt(t, n, at, c) == n \in Nodes /\ IF c THEN Anchored(t, n, at) ELSE Moved(t, at)

Plain(t, item, c) ==
    /\ item.do = "node" =>
          c /\ Anchored(t, item.node, item.place) /\ item.node.kind \in Serialized
    /\ item.do = "elements" =>
          c /\ Anchored(t, item.node, item.place) /\ item.node.kind = "spec"
    /\ item.do \in {"type", "type in list"} => TypeAt(t, item.node, item.place, c)
    /\ item.do = "location"           => InFile(t, item.place)
    /\ item.do = "error"              => item.place.path \in Seq(Nat)
    /\ item.do = "write"              => item.token[1] \notin {"location", "evaluated"}
    /\ item.do \in {"restore", "leave"} => item.value \in BOOLEAN

\* The flag of a union comes before its location, or the last in a string does
\* before the location of the string.
IsEnd(t, item, c) == item.do = "location" /\ (AtBinop(t, item.place) <=> c)
EndAfter(t, s, k, c) ==
    \/ k + 1 \in DOMAIN s /\ IsEnd(t, s[k + 1], c)
    \/ k + 2 \in DOMAIN s /\ s[k + 1].do = "restore" /\ IsEnd(t, s[k + 2], c)
PlainAt(t, s, k, c) == Plain(t, s[k], c) /\ (s[k].do = "evaluated" => EndAfter(t, s, k, c))

\* The items that are done with a field set are between the step that sets it and
\* the one that puts it back, and are followed by the location of the string.
IsSeq(s) == \E S : s \in Seq(S)
Simple(t, s, c) ==
    /\ IsSeq(s)
    /\ \A k \in 1..Len(s) :
          s[k].do \notin {"restore", "unevaluated", "function"} /\ PlainAt(t, s, k, c)
StringEnds(t, s, k) ==
    /\ k + 1 \in DOMAIN s /\ s[k + 1].do = "location"
    /\ IsSeq(s[k].items)
    /\ Simple(t, s[k].items \o <<s[k + 1]>>, FALSE)
NestedAt(t, s, k, c) ==
    /\ s[k].do = "unevaluated" => Simple(t, s[k].items, FALSE) \/ StringEnds(t, s, k)
    /\ s[k].do = "function"    => c /\ Simple(t, s[k].items, TRUE)
GoodAt(t, s, k, c) == PlainAt(t, s, k, c) /\ NestedAt(t, s, k, c)
Sound(t, s, c) ==
    /\ IsSeq(s)
    /\ \A k \in 1..Len(s) : s[k].do # "restore" /\ GoodAt(t, s, k, c)

\* Only the items from k on matter.
Agree(s, u, k, d) ==
    \A j \in DOMAIN s : j >= k => j + d \in DOMAIN u /\ u[j + d] = s[j]

LEMMA AgreeStep ==
    ASSUME NEW s, NEW u, NEW k \in Int, NEW d \in Int, IsSeq(s), Agree(s, u, k, d), k \in DOMAIN s
    PROVE  /\ k + d \in DOMAIN u /\ u[k + d] = s[k]
           /\ k + 1 \in DOMAIN s => (k + d) + 1 \in DOMAIN u /\ u[(k + d) + 1] = s[k + 1]
           /\ k + 2 \in DOMAIN s =>
                 /\ (k + d) + 2 \in DOMAIN u /\ u[(k + d) + 2] = s[k + 2]
                 /\ k + 1 \in DOMAIN s
<1>1. k + 1 >= k /\ k + 2 >= k /\ (k + 1) + d = (k + d) + 1 /\ (k + 2) + d = (k + d) + 2
  OBVIOUS
<1>2. k + 2 \in DOMAIN s => k + 1 \in DOMAIN s
  BY DEF IsSeq
<1> QED
  BY <1>1, <1>2 DEF Agree

LEMMA PlainAgrees ==
    ASSUME NEW t, NEW s, NEW u, NEW k \in Int, NEW d \in Int, NEW c,
           IsSeq(s), Agree(s, u, k, d), k \in DOMAIN s, PlainAt(t, s, k, c)
    PROVE  PlainAt(t, u, k + d, c)
<1>0. /\ k + d \in DOMAIN u /\ u[k + d] = s[k]
      /\ k + 1 \in DOMAIN s => (k + d) + 1 \in DOMAIN u /\ u[(k + d) + 1] = s[k + 1]
      /\ k + 2 \in DOMAIN s =>
            /\ (k + d) + 2 \in DOMAIN u /\ u[(k + d) + 2] = s[k + 2]
            /\ k + 1 \in DOMAIN s
  BY AgreeStep
<1>1. u[k + d] = s[k]
  BY <1>0
<1>2. EndAfter(t, s, k, c) => EndAfter(t, u, k + d, c)
  BY <1>0 DEF EndAfter
<1> QED
  BY <1>1, <1>2 DEF PlainAt

LEMMA GoodAgrees ==
    ASSUME NEW t, NEW s, NEW u, NEW k \in Int, NEW d \in Int, NEW c,
           IsSeq(s), Agree(s, u, k, d), k \in DOMAIN s, GoodAt(t, s, k, c)
    PROVE  GoodAt(t, u, k + d, c)
<1>0. /\ k + d \in DOMAIN u /\ u[k + d] = s[k]
      /\ k + 1 \in DOMAIN s => (k + d) + 1 \in DOMAIN u /\ u[(k + d) + 1] = s[k + 1]
      /\ k + 2 \in DOMAIN s =>
            /\ (k + d) + 2 \in DOMAIN u /\ u[(k + d) + 2] = s[k + 2]
            /\ k + 1 \in DOMAIN s
  BY AgreeStep
<1>1. u[k + d] = s[k]
  BY <1>0
<1>2. PlainAt(t, u, k + d, c)
  BY PlainAgrees DEF GoodAt
<1>3. StringEnds(t, s, k) => StringEnds(t, u, k + d)
  BY <1>0 DEF StringEnds
<1> QED
  BY <1>1, <1>2, <1>3 DEF GoodAt, NestedAt

LEMMA Joined ==
    ASSUME NEW a, NEW b, IsSeq(a), IsSeq(b)
    PROVE  /\ IsSeq(a \o b)
           /\ Len(a) \in Nat /\ Len(b) \in Nat
           /\ DOMAIN a = 1..Len(a) /\ DOMAIN b = 1..Len(b)
           /\ DOMAIN (a \o b) = 1..(Len(a) + Len(b))
           /\ Len(a \o b) = Len(a) + Len(b)
           /\ \A k \in 1..Len(a) : (a \o b)[k] = a[k]
           /\ \A k \in 1..Len(b) : (a \o b)[Len(a) + k] = b[k]
           /\ Agree(a, a \o b, 0, 0)
           /\ Agree(b, a \o b, 0, Len(a))
<1>1. PICK S : a \in Seq(S)
  BY DEF IsSeq
<1>2. PICK T : b \in Seq(T)
  BY DEF IsSeq
<1>3. a \in Seq(S \cup T) /\ b \in Seq(S \cup T)
  BY <1>1, <1>2, SeqMonotonic
<1>4. /\ a \o b \in Seq(S \cup T)
      /\ Len(a \o b) = Len(a) + Len(b)
      /\ \A i \in 1..(Len(a) + Len(b)) : (a \o b)[i] = IF i <= Len(a) THEN a[i] ELSE b[i - Len(a)]
  BY <1>3, ConcatProperties
<1>5. /\ Len(a) \in Nat /\ Len(b) \in Nat
      /\ DOMAIN a = 1..Len(a) /\ DOMAIN b = 1..Len(b)
  BY <1>1, <1>2
<1>6. DOMAIN (a \o b) = 1..(Len(a) + Len(b))
  BY <1>4, LenProperties
<1>7. IsSeq(a \o b)
  BY <1>4 DEF IsSeq
<1> DEFINE u == a \o b
<1> HIDE DEF u
<1>8. \A k \in 1..Len(a) : u[k] = a[k]
  BY <1>4, <1>5 DEF u
<1>9. \A k \in 1..Len(b) : u[Len(a) + k] = b[k]
  BY <1>4, <1>5 DEF u
<1>10. Agree(a, u, 0, 0)
  BY <1>5, <1>6, <1>8 DEF Agree, u
<1>11. Agree(b, u, 0, Len(a))
  <2>1. \A j \in 1..Len(b) : j + Len(a) = Len(a) + j /\ j + Len(a) \in 1..(Len(a) + Len(b))
    BY <1>5
  <2>2. DOMAIN u = 1..(Len(a) + Len(b))
    BY <1>6 DEF u
  <2> QED
    BY <1>5, <1>9, <2>1, <2>2 DEF Agree
<1> QED
  BY <1>4, <1>5, <1>6, <1>7, <1>8, <1>9, <1>10, <1>11 DEF u

LEMMA AgreeFrom ==
    ASSUME NEW s, NEW u, NEW d, NEW k \in Nat, IsSeq(s), Agree(s, u, 0, d)
    PROVE  Agree(s, u, k, d)
<1>1. \A j \in DOMAIN s : j >= k => j + d \in DOMAIN u /\ u[j + d] = s[j]
  <2> SUFFICES ASSUME NEW j \in DOMAIN s, j >= k PROVE j + d \in DOMAIN u /\ u[j + d] = s[j]
    OBVIOUS
  <2>1. j >= 0
    BY DEF IsSeq
  <2> QED
    BY <2>1 DEF Agree
<1> QED
  BY <1>1 DEF Agree
-----------------------------------------------------------------------------
(* What is joined of good parts is good.                                     *)

LEMMA SimpleJoin ==
    ASSUME NEW t, NEW a, NEW b, NEW c, Simple(t, a, c), Simple(t, b, c)
    PROVE  Simple(t, a \o b, c)
<1> DEFINE u == a \o b
<1>0. IsSeq(a) /\ IsSeq(b)
  BY DEF Simple
<1>1. /\ IsSeq(u)
      /\ Len(a) \in Nat /\ Len(b) \in Nat
      /\ DOMAIN a = 1..Len(a) /\ DOMAIN b = 1..Len(b)
      /\ Len(u) = Len(a) + Len(b)
      /\ \A k \in 1..Len(a) : u[k] = a[k]
      /\ \A k \in 1..Len(b) : u[Len(a) + k] = b[k]
      /\ Agree(a, u, 0, 0)
      /\ Agree(b, u, 0, Len(a))
  BY <1>0, Joined
<1> HIDE DEF u
<1>2. ASSUME NEW k \in 1..Len(a)
      PROVE  u[k].do \notin {"restore", "unevaluated", "function"} /\ PlainAt(t, u, k, c)
  <2>1. a[k].do \notin {"restore", "unevaluated", "function"} /\ PlainAt(t, a, k, c)
    BY DEF Simple
  <2>2. k \in Nat /\ k \in Int /\ k \in DOMAIN a /\ k + 0 = k /\ 0 \in Int
    BY <1>1
  <2>3. Agree(a, u, k, 0)
    BY <1>0, <1>1, <2>2, AgreeFrom
  <2>4. PlainAt(t, u, k + 0, c)
    BY <1>0, <2>1, <2>2, <2>3, PlainAgrees
  <2> QED
    BY <1>1, <2>1, <2>2, <2>4
<1>3. ASSUME NEW k \in 1..Len(b)
      PROVE  u[Len(a) + k].do \notin {"restore", "unevaluated", "function"} /\ PlainAt(t, u, Len(a) + k, c)
  <2>1. b[k].do \notin {"restore", "unevaluated", "function"} /\ PlainAt(t, b, k, c)
    BY DEF Simple
  <2>2. k \in Nat /\ k \in Int /\ k \in DOMAIN b /\ k + Len(a) = Len(a) + k /\ Len(a) \in Int
    BY <1>1
  <2>3. Agree(b, u, k, Len(a))
    BY <1>0, <1>1, <2>2, AgreeFrom
  <2>4. PlainAt(t, u, k + Len(a), c)
    BY <1>0, <2>1, <2>2, <2>3, PlainAgrees
  <2> QED
    BY <1>1, <2>1, <2>2, <2>4
<1>4. ASSUME NEW k \in 1..Len(u)
      PROVE  u[k].do \notin {"restore", "unevaluated", "function"} /\ PlainAt(t, u, k, c)
  <2>1. CASE k <= Len(a)
    <3>1. k \in 1..Len(a)
      BY <1>1, <2>1
    <3> QED
      BY <1>2, <3>1
  <2>2. CASE ~(k <= Len(a))
    <3>1. k - Len(a) \in 1..Len(b) /\ Len(a) + (k - Len(a)) = k
      BY <1>1, <2>2
    <3> DEFINE j == k - Len(a)
    <3> HIDE DEF j
    <3>2. j \in 1..Len(b) /\ Len(a) + j = k
      BY <3>1 DEF j
    <3> QED
      BY <1>3, <3>2
  <2> QED
    BY <2>1, <2>2
<1> QED
  BY <1>1, <1>4 DEF Simple, u

LEMMA SoundJoin ==
    ASSUME NEW t, NEW a, NEW b, NEW c, Sound(t, a, c), Sound(t, b, c)
    PROVE  Sound(t, a \o b, c)
<1> DEFINE u == a \o b
<1>0. IsSeq(a) /\ IsSeq(b)
  BY DEF Sound
<1>1. /\ IsSeq(u)
      /\ Len(a) \in Nat /\ Len(b) \in Nat
      /\ DOMAIN a = 1..Len(a) /\ DOMAIN b = 1..Len(b)
      /\ Len(u) = Len(a) + Len(b)
      /\ \A k \in 1..Len(a) : u[k] = a[k]
      /\ \A k \in 1..Len(b) : u[Len(a) + k] = b[k]
      /\ Agree(a, u, 0, 0)
      /\ Agree(b, u, 0, Len(a))
  BY <1>0, Joined
<1> HIDE DEF u
<1>2. ASSUME NEW k \in 1..Len(a)
      PROVE  u[k].do # "restore" /\ GoodAt(t, u, k, c)
  <2>1. a[k].do # "restore" /\ GoodAt(t, a, k, c)
    BY DEF Sound
  <2>2. k \in Nat /\ k \in Int /\ k \in DOMAIN a /\ k + 0 = k /\ 0 \in Int
    BY <1>1
  <2>3. Agree(a, u, k, 0)
    BY <1>0, <1>1, <2>2, AgreeFrom
  <2>4. GoodAt(t, u, k + 0, c)
    BY <1>0, <2>1, <2>2, <2>3, GoodAgrees
  <2> QED
    BY <1>1, <2>1, <2>2, <2>4
<1>3. ASSUME NEW k \in 1..Len(b)
      PROVE  u[Len(a) + k].do # "restore" /\ GoodAt(t, u, Len(a) + k, c)
  <2>1. b[k].do # "restore" /\ GoodAt(t, b, k, c)
    BY DEF Sound
  <2>2. k \in Nat /\ k \in Int /\ k \in DOMAIN b /\ k + Len(a) = Len(a) + k /\ Len(a) \in Int
    BY <1>1
  <2>3. Agree(b, u, k, Len(a))
    BY <1>0, <1>1, <2>2, AgreeFrom
  <2>4. GoodAt(t, u, k + Len(a), c)
    BY <1>0, <2>1, <2>2, <2>3, GoodAgrees
  <2> QED
    BY <1>1, <2>1, <2>2, <2>4
<1>4. ASSUME NEW k \in 1..Len(u)
      PROVE  u[k].do # "restore" /\ GoodAt(t, u, k, c)
  <2>1. CASE k <= Len(a)
    <3>1. k \in 1..Len(a)
      BY <1>1, <2>1
    <3> QED
      BY <1>2, <3>1
  <2>2. CASE ~(k <= Len(a))
    <3>1. k - Len(a) \in 1..Len(b) /\ Len(a) + (k - Len(a)) = k
      BY <1>1, <2>2
    <3> DEFINE j == k - Len(a)
    <3> HIDE DEF j
    <3>2. j \in 1..Len(b) /\ Len(a) + j = k
      BY <3>1 DEF j
    <3> QED
      BY <1>3, <3>2
  <2> QED
    BY <2>1, <2>2
<1> QED
  BY <1>1, <1>4 DEF Sound, u

LEMMA SimpleIsSound ==
    ASSUME NEW t, NEW s, NEW c, Simple(t, s, c)
    PROVE  Sound(t, s, c)
<1>1. ASSUME NEW k \in 1..Len(s)
      PROVE  s[k].do # "restore" /\ GoodAt(t, s, k, c)
  <2>1. s[k].do \notin {"restore", "unevaluated", "function"} /\ PlainAt(t, s, k, c)
    BY DEF Simple
  <2> QED
    BY <2>1 DEF GoodAt, NestedAt
<1> QED
  BY <1>1 DEF Simple, Sound

LEMMA EmptyIsSeq == IsSeq(<<>>) /\ Len(<<>>) = 0
<1>1. <<>> \in Seq({})
  OBVIOUS
<1> QED
  BY <1>1 DEF IsSeq

LEMMA SimpleEmpty == \A t, c : Simple(t, <<>>, c)
  BY EmptyIsSeq DEF Simple

LEMMA SoundEmpty == \A t, c : Sound(t, <<>>, c)
  BY EmptyIsSeq DEF Sound

LEMMA SimpleJoin3 ==
    ASSUME NEW t, NEW c, NEW a, NEW b, NEW d,
           Simple(t, a, c), Simple(t, b, c), Simple(t, d, c)
    PROVE  Simple(t, a \o b \o d, c)
<1>1. Simple(t, a \o b, c)
  BY SimpleJoin
<1> QED
  BY <1>1, SimpleJoin

LEMMA SimpleJoin4 ==
    ASSUME NEW t, NEW c, NEW a, NEW b, NEW d, NEW e,
           Simple(t, a, c), Simple(t, b, c), Simple(t, d, c), Simple(t, e, c)
    PROVE  Simple(t, a \o b \o d \o e, c)
<1>1. Simple(t, a \o b \o d, c)
  BY SimpleJoin3
<1> QED
  BY <1>1, SimpleJoin

LEMMA SimpleJoin5 ==
    ASSUME NEW t, NEW c, NEW a, NEW b, NEW d, NEW e, NEW f,
           Simple(t, a, c), Simple(t, b, c), Simple(t, d, c), Simple(t, e, c), Simple(t, f, c)
    PROVE  Simple(t, a \o b \o d \o e \o f, c)
<1>1. Simple(t, a \o b \o d \o e, c)
  BY SimpleJoin4
<1> QED
  BY <1>1, SimpleJoin

LEMMA SimpleJoin6 ==
    ASSUME NEW t, NEW c, NEW a, NEW b, NEW d, NEW e, NEW f, NEW g,
           Simple(t, a, c), Simple(t, b, c), Simple(t, d, c), Simple(t, e, c), Simple(t, f, c), Simple(t, g, c)
    PROVE  Simple(t, a \o b \o d \o e \o f \o g, c)
<1>1. Simple(t, a \o b \o d \o e \o f, c)
  BY SimpleJoin5
<1> QED
  BY <1>1, SimpleJoin

LEMMA SimpleJoin7 ==
    ASSUME NEW t, NEW c, NEW a, NEW b, NEW d, NEW e, NEW f, NEW g, NEW h,
           Simple(t, a, c), Simple(t, b, c), Simple(t, d, c), Simple(t, e, c), Simple(t, f, c), Simple(t, g, c), Simple(t, h, c)
    PROVE  Simple(t, a \o b \o d \o e \o f \o g \o h, c)
<1>1. Simple(t, a \o b \o d \o e \o f \o g, c)
  BY SimpleJoin6
<1> QED
  BY <1>1, SimpleJoin

LEMMA SimpleJoin8 ==
    ASSUME NEW t, NEW c, NEW a, NEW b, NEW d, NEW e, NEW f, NEW g, NEW h, NEW i,
           Simple(t, a, c), Simple(t, b, c), Simple(t, d, c), Simple(t, e, c), Simple(t, f, c), Simple(t, g, c), Simple(t, h, c), Simple(t, i, c)
    PROVE  Simple(t, a \o b \o d \o e \o f \o g \o h \o i, c)
<1>1. Simple(t, a \o b \o d \o e \o f \o g \o h, c)
  BY SimpleJoin7
<1> QED
  BY <1>1, SimpleJoin

LEMMA SimpleJoin9 ==
    ASSUME NEW t, NEW c, NEW a, NEW b, NEW d, NEW e, NEW f, NEW g, NEW h, NEW i, NEW j,
           Simple(t, a, c), Simple(t, b, c), Simple(t, d, c), Simple(t, e, c), Simple(t, f, c), Simple(t, g, c), Simple(t, h, c), Simple(t, i, c), Simple(t, j, c)
    PROVE  Simple(t, a \o b \o d \o e \o f \o g \o h \o i \o j, c)
<1>1. Simple(t, a \o b \o d \o e \o f \o g \o h \o i, c)
  BY SimpleJoin8
<1> QED
  BY <1>1, SimpleJoin

LEMMA SoundJoin3 ==
    ASSUME NEW t, NEW c, NEW a, NEW b, NEW d,
           Sound(t, a, c), Sound(t, b, c), Sound(t, d, c)
    PROVE  Sound(t, a \o b \o d, c)
<1>1. Sound(t, a \o b, c)
  BY SoundJoin
<1> QED
  BY <1>1, SoundJoin

LEMMA SoundJoin4 ==
    ASSUME NEW t, NEW c, NEW a, NEW b, NEW d, NEW e,
           Sound(t, a, c), Sound(t, b, c), Sound(t, d, c), Sound(t, e, c)
    PROVE  Sound(t, a \o b \o d \o e, c)
<1>1. Sound(t, a \o b \o d, c)
  BY SoundJoin3
<1> QED
  BY <1>1, SoundJoin

LEMMA SoundJoin5 ==
    ASSUME NEW t, NEW c, NEW a, NEW b, NEW d, NEW e, NEW f,
           Sound(t, a, c), Sound(t, b, c), Sound(t, d, c), Sound(t, e, c), Sound(t, f, c)
    PROVE  Sound(t, a \o b \o d \o e \o f, c)
<1>1. Sound(t, a \o b \o d \o e, c)
  BY SoundJoin4
<1> QED
  BY <1>1, SoundJoin

LEMMA SoundJoin6 ==
    ASSUME NEW t, NEW c, NEW a, NEW b, NEW d, NEW e, NEW f, NEW g,
           Sound(t, a, c), Sound(t, b, c), Sound(t, d, c), Sound(t, e, c), Sound(t, f, c), Sound(t, g, c)
    PROVE  Sound(t, a \o b \o d \o e \o f \o g, c)
<1>1. Sound(t, a \o b \o d \o e \o f, c)
  BY SoundJoin5
<1> QED
  BY <1>1, SoundJoin

LEMMA SoundJoin7 ==
    ASSUME NEW t, NEW c, NEW a, NEW b, NEW d, NEW e, NEW f, NEW g, NEW h,
           Sound(t, a, c), Sound(t, b, c), Sound(t, d, c), Sound(t, e, c), Sound(t, f, c), Sound(t, g, c), Sound(t, h, c)
    PROVE  Sound(t, a \o b \o d \o e \o f \o g \o h, c)
<1>1. Sound(t, a \o b \o d \o e \o f \o g, c)
  BY SoundJoin6
<1> QED
  BY <1>1, SoundJoin

LEMMA SoundJoin8 ==
    ASSUME NEW t, NEW c, NEW a, NEW b, NEW d, NEW e, NEW f, NEW g, NEW h, NEW i,
           Sound(t, a, c), Sound(t, b, c), Sound(t, d, c), Sound(t, e, c), Sound(t, f, c), Sound(t, g, c), Sound(t, h, c), Sound(t, i, c)
    PROVE  Sound(t, a \o b \o d \o e \o f \o g \o h \o i, c)
<1>1. Sound(t, a \o b \o d \o e \o f \o g \o h, c)
  BY SoundJoin7
<1> QED
  BY <1>1, SoundJoin

LEMMA SoundJoin9 ==
    ASSUME NEW t, NEW c, NEW a, NEW b, NEW d, NEW e, NEW f, NEW g, NEW h, NEW i, NEW j,
           Sound(t, a, c), Sound(t, b, c), Sound(t, d, c), Sound(t, e, c), Sound(t, f, c), Sound(t, g, c), Sound(t, h, c), Sound(t, i, c), Sound(t, j, c)
    PROVE  Sound(t, a \o b \o d \o e \o f \o g \o h \o i \o j, c)
<1>1. Sound(t, a \o b \o d \o e \o f \o g \o h \o i, c)
  BY SoundJoin8
<1> QED
  BY <1>1, SoundJoin

-----------------------------------------------------------------------------
(* Single items.                                                             *)

LEMMA OneIsSeq ==
    ASSUME NEW item
    PROVE  /\ IsSeq(<<item>>) /\ Len(<<item>>) = 1 /\ DOMAIN <<item>> = 1..1
           /\ <<item>>[1] = item
<1>1. <<item>> \in Seq({item})
  OBVIOUS
<1>2. Len(<<item>>) = 1 /\ <<item>>[1] = item /\ DOMAIN <<item>> = 1..1
  OBVIOUS
<1> QED
  BY <1>1, <1>2 DEF IsSeq

LEMMA SimpleOne ==
    ASSUME NEW t, NEW c, NEW item,
           item.do \notin {"restore", "unevaluated", "function", "evaluated"},
           Plain(t, item, c)
    PROVE  Simple(t, <<item>>, c)
<1>1. ASSUME NEW k \in 1..Len(<<item>>)
      PROVE  /\ <<item>>[k].do \notin {"restore", "unevaluated", "function"}
             /\ PlainAt(t, <<item>>, k, c)
  <2>1. <<item>>[k] = item
    BY OneIsSeq
  <2> QED
    BY <2>1 DEF PlainAt
<1> QED
  BY <1>1, OneIsSeq DEF Simple

LEMMA SimpleWrite ==
    ASSUME NEW t, NEW c, NEW token, token[1] # "location", token[1] # "evaluated"
    PROVE  Simple(t, Write(token), c)
<1> DEFINE item == [do |-> "write", token |-> token]
<1>1. item.do = "write" /\ item.token = token
  OBVIOUS
<1> HIDE DEF item
<1>2. Plain(t, item, c)
  BY <1>1 DEF Plain
<1>3. Simple(t, <<item>>, c)
  BY <1>1, <1>2, SimpleOne
<1> QED
  BY <1>3 DEF Write, item

LEMMA FirstOfPair == \A a, b : <<a, b>>[1] = a
  BY Zenon

LEMMA SimpleTokens ==
    ASSUME NEW t, NEW c, NEW x
    PROVE  /\ Simple(t, Tag(x), c)
           /\ Simple(t, TaggedInt(x), c)
           /\ Simple(t, RawInt(x), c)
           /\ Simple(t, Bool(x), c)
           /\ Simple(t, Bytes(x), c)
           /\ Simple(t, ListOf(x), c)
           /\ Simple(t, Write(<<"int", x>>), c)
           /\ Simple(t, Write(<<"ints", x>>), c)
           /\ Simple(t, Write(<<"dict", x>>), c)
<1>1. ASSUME NEW w, w # "location", w # "evaluated"
      PROVE  Simple(t, Write(<<w, x>>), c)
  <2> DEFINE token == <<w, x>>
  <2>1. token[1] = w
    BY FirstOfPair
  <2> HIDE DEF token
  <2>2. Simple(t, Write(token), c)
    BY <1>1, <2>1, SimpleWrite
  <2> QED
    BY <2>2 DEF token
<1>2. "tag" # "location" /\ "tag" # "evaluated" /\ "int" # "location" /\ "int" # "evaluated"
  OBVIOUS
<1>3. "raw" # "location" /\ "raw" # "evaluated" /\ "bool" # "location" /\ "bool" # "evaluated"
  OBVIOUS
<1>4. "bytes" # "location" /\ "bytes" # "evaluated" /\ "list" # "location" /\ "list" # "evaluated"
  OBVIOUS
<1>5. "ints" # "location" /\ "ints" # "evaluated" /\ "dict" # "location" /\ "dict" # "evaluated"
  OBVIOUS
<1>6. Simple(t, Write(<<"tag", x>>), c) /\ Simple(t, Write(<<"int", x>>), c)
  BY <1>1, <1>2, Zenon
<1>7. Simple(t, Write(<<"raw", x>>), c) /\ Simple(t, Write(<<"bool", x>>), c)
  BY <1>1, <1>3, Zenon
<1>8. Simple(t, Write(<<"bytes", x>>), c) /\ Simple(t, Write(<<"list", x>>), c)
  BY <1>1, <1>4, Zenon
<1>9. Simple(t, Write(<<"ints", x>>), c) /\ Simple(t, Write(<<"dict", x>>), c)
  BY <1>1, <1>5, Zenon
<1> QED
  BY <1>6, <1>7, <1>8, <1>9, Zenon DEF Tag, TaggedInt, RawInt, Bool, Bytes, ListOf

LEMMA SimpleMarks ==
    ASSUME NEW t, NEW c
    PROVE  Simple(t, LiteralNone, c) /\ Simple(t, End, c)
<1>1. <<"none">>[1] = "none" /\ <<"end">>[1] = "end"
  OBVIOUS
<1>2. "none" # "location" /\ "none" # "evaluated" /\ "end" # "location" /\ "end" # "evaluated"
  OBVIOUS
<1> DEFINE none == <<"none">>
           end == <<"end">>
<1>3. none[1] # "location" /\ none[1] # "evaluated" /\ end[1] # "location" /\ end[1] # "evaluated"
  BY <1>1, <1>2
<1> HIDE DEF none, end
<1>4. Simple(t, Write(none), c) /\ Simple(t, Write(end), c)
  BY <1>3, SimpleWrite
<1> QED
  BY <1>4, Zenon DEF LiteralNone, End, none, end

LEMMA SimpleSteps ==
    ASSUME NEW t, NEW c
    PROVE  /\ Simple(t, ResetSurrogates, c)
           /\ \A part : Simple(t, Check(part), c)
           /\ Simple(t, WriteSurrogates, c)
           /\ Simple(t, MarkTemplate, c)
           /\ Simple(t, WriteUnreachable, c)
           /\ \A n : Simple(t, ImportFlags(n), c)
           /\ \A n, entry : Simple(t, TrackImport(n, entry), c)
<1>1. ASSUME NEW item,
             item.do \in {"reset", "check", "flag", "template", "unreachable", "flags", "import"}
      PROVE  Simple(t, <<item>>, c)
  <2>1. Plain(t, item, c)
    BY <1>1 DEF Plain
  <2> QED
    BY <1>1, <2>1, SimpleOne
<1>2. Simple(t, <<[do |-> "reset"]>>, c)
  BY <1>1
<1>3. Simple(t, <<[do |-> "flag"]>>, c)
  BY <1>1
<1>4. Simple(t, <<[do |-> "template"]>>, c)
  BY <1>1
<1>5. Simple(t, <<[do |-> "unreachable"]>>, c)
  BY <1>1
<1>6. ASSUME NEW part
      PROVE  Simple(t, Check(part), c)
  <2> DEFINE item == [do |-> "check", part |-> part]
  <2>1. item.do = "check"
    OBVIOUS
  <2> HIDE DEF item
  <2> QED
    BY <1>1, <2>1 DEF Check, item
<1>7. ASSUME NEW n
      PROVE  Simple(t, ImportFlags(n), c)
  <2> DEFINE lazy == n.text # <<>>
             item == [do |-> "flags", lazy |-> lazy]
  <2> HIDE DEF lazy
  <2>1. item.do = "flags"
    OBVIOUS
  <2> HIDE DEF item
  <2>2. Simple(t, <<item>>, c)
    BY <1>1, <2>1
  <2> QED
    BY <2>2, Zenon DEF ImportFlags, item, lazy
<1>8. ASSUME NEW n, NEW entry
      PROVE  Simple(t, TrackImport(n, entry), c)
  <2> DEFINE lazy == n.text # <<>>
             item == [do |-> "import", entry |-> entry, lazy |-> lazy]
  <2> HIDE DEF lazy
  <2>1. item.do = "import"
    OBVIOUS
  <2> HIDE DEF item
  <2>2. Simple(t, <<item>>, c)
    BY <1>1, <2>1
  <2> QED
    BY <2>2, Zenon DEF TrackImport, item, lazy
<1> QED
  BY <1>2, <1>3, <1>4, <1>5, <1>6, <1>7, <1>8, Zenon
     DEF ResetSurrogates, WriteSurrogates, MarkTemplate, WriteUnreachable

LEMMA SimpleLocation ==
    ASSUME NEW t, NEW c, NEW at, InFile(t, at)
    PROVE  Simple(t, Location(at), c)
<1> DEFINE item == [do |-> "location", place |-> at]
<1>1. item.do = "location" /\ item.place = at
  OBVIOUS
<1> HIDE DEF item
<1>2. Plain(t, item, c)
  BY <1>1 DEF Plain
<1>3. Simple(t, <<item>>, c)
  BY <1>1, <1>2, SimpleOne
<1> QED
  BY <1>3 DEF Location, item

LEMMA SimpleAddError ==
    ASSUME NEW t, NEW c, NEW at, at.path \in Seq(Nat)
    PROVE  Simple(t, AddError(at), c)
<1> DEFINE item == [do |-> "error", place |-> at]
<1>1. item.do = "error" /\ item.place = at
  OBVIOUS
<1> HIDE DEF item
<1>2. Plain(t, item, c)
  BY <1>1 DEF Plain
<1>3. Simple(t, <<item>>, c)
  BY <1>1, <1>2, SimpleOne
<1> QED
  BY <1>3 DEF AddError, item

LEMMA SimpleSerialize ==
    ASSUME NEW t, NEW n, NEW at, Anchored(t, n, at), n.kind \in Serialized
    PROVE  Simple(t, Serialize(n, at), TRUE)
<1> DEFINE item == [do |-> "node", node |-> n, place |-> at]
<1>1. item.do = "node" /\ item.node = n /\ item.place = at
  OBVIOUS
<1> HIDE DEF item
<1>2. Plain(t, item, TRUE)
  BY <1>1 DEF Plain
<1>3. Simple(t, <<item>>, TRUE)
  BY <1>1, <1>2, SimpleOne
<1> QED
  BY <1>3 DEF Serialize, item

LEMMA SimpleElements ==
    ASSUME NEW t, NEW n, NEW at, Anchored(t, n, at), n.kind = "spec"
    PROVE  Simple(t, SerializeElements(n, at), TRUE)
<1> DEFINE item == [do |-> "elements", node |-> n, place |-> at]
<1>1. item.do = "elements" /\ item.node = n /\ item.place = at
  OBVIOUS
<1> HIDE DEF item
<1>2. Plain(t, item, TRUE)
  BY <1>1 DEF Plain
<1>3. Simple(t, <<item>>, TRUE)
  BY <1>1, <1>2, SimpleOne
<1> QED
  BY <1>3 DEF SerializeElements, item

LEMMA SimpleType ==
    ASSUME NEW t, NEW c, NEW n, NEW at, TypeAt(t, n, at, c)
    PROVE  Simple(t, Type(n, at), c) /\ Simple(t, TypeInList(n, at), c)
<1> DEFINE item == [do |-> "type", node |-> n, place |-> at]
           other == [do |-> "type in list", node |-> n, place |-> at]
<1>1. item.do = "type" /\ item.node = n /\ item.place = at
  OBVIOUS
<1>2. other.do = "type in list" /\ other.node = n /\ other.place = at
  OBVIOUS
<1> HIDE DEF item, other
<1>3. Plain(t, item, c) /\ Plain(t, other, c)
  BY <1>1, <1>2 DEF Plain
<1>4. Simple(t, <<item>>, c) /\ Simple(t, <<other>>, c)
  BY <1>1, <1>2, <1>3, SimpleOne
<1> QED
  BY <1>4 DEF Type, TypeInList, item, other
-----------------------------------------------------------------------------
(* Items that hold others, and the flag of a union with the location after it. *)

LEMMA SimpleFlag ==
    ASSUME NEW t, NEW c, NEW at, InFile(t, at), AtBinop(t, at) <=> c
    PROVE  Simple(t, WriteEvaluated \o Location(at), c)
<1> DEFINE flag == [do |-> "evaluated"]
           loc == [do |-> "location", place |-> at]
           s == <<flag>> \o <<loc>>
<1>1. flag.do = "evaluated" /\ loc.do = "location" /\ loc.place = at
  OBVIOUS
<1> HIDE DEF flag, loc
<1>2. IsSeq(s) /\ Len(s) = 2 /\ DOMAIN s = 1..2 /\ s[1] = flag /\ s[2] = loc
  <2>1. /\ IsSeq(<<flag>>) /\ Len(<<flag>>) = 1 /\ <<flag>>[1] = flag
        /\ IsSeq(<<loc>>) /\ Len(<<loc>>) = 1 /\ <<loc>>[1] = loc
    BY OneIsSeq
  <2> DEFINE a == <<flag>>
             b == <<loc>>
  <2>2. /\ IsSeq(a) /\ Len(a) = 1 /\ a[1] = flag
        /\ IsSeq(b) /\ Len(b) = 1 /\ b[1] = loc
    BY <2>1
  <2> HIDE DEF a, b
  <2>3. /\ IsSeq(a \o b) /\ Len(a \o b) = Len(a) + Len(b) /\ DOMAIN (a \o b) = 1..(Len(a) + Len(b))
        /\ \A k \in 1..Len(a) : (a \o b)[k] = a[k]
        /\ \A k \in 1..Len(b) : (a \o b)[Len(a) + k] = b[k]
    BY <2>2, Joined
  <2> DEFINE u == a \o b
  <2> HIDE DEF u
  <2>4. IsSeq(u) /\ Len(u) = 2 /\ DOMAIN u = 1..2 /\ u[1] = flag /\ u[2] = loc
    <3>1. IsSeq(u) /\ Len(u) = Len(a) + Len(b) /\ DOMAIN u = 1..(Len(a) + Len(b))
      BY <2>3 DEF u
    <3>2. u[1] = a[1]
      BY <2>2, <2>3 DEF u
    <3>3. u[Len(a) + 1] = b[1]
      BY <2>2, <2>3 DEF u
    <3> QED
      BY <2>2, <3>1, <3>2, <3>3
  <2> QED
    BY <2>4 DEF u, a, b
<1> HIDE DEF s
<1>3. PlainAt(t, s, 1, c)
  <2>1. Plain(t, s[1], c)
    BY <1>1, <1>2 DEF Plain
  <2>2. 1 + 1 \in DOMAIN s /\ IsEnd(t, s[1 + 1], c)
    BY <1>1, <1>2 DEF IsEnd
  <2> QED
    BY <2>1, <2>2 DEF PlainAt, EndAfter
<1>4. PlainAt(t, s, 2, c)
  <2>1. Plain(t, s[2], c)
    BY <1>1, <1>2 DEF Plain
  <2> QED
    BY <1>1, <1>2, <2>1 DEF PlainAt
<1>5. ASSUME NEW k \in 1..Len(s)
      PROVE  s[k].do \notin {"restore", "unevaluated", "function"} /\ PlainAt(t, s, k, c)
  <2>1. k = 1 \/ k = 2
    BY <1>2
  <2> QED
    BY <1>1, <1>2, <1>3, <1>4, <2>1
<1>6. Simple(t, s, c)
  BY <1>2, <1>5 DEF Simple
<1> QED
  BY <1>6 DEF s, WriteEvaluated, Location, flag, loc

LEMMA SoundUnevaluated ==
    ASSUME NEW t, NEW c, NEW items, Simple(t, items, FALSE)
    PROVE  Sound(t, Unevaluated(items), c)
<1> DEFINE item == [do |-> "unevaluated", items |-> items]
<1>1. item.do = "unevaluated" /\ item.items = items
  OBVIOUS
<1> HIDE DEF item
<1>2. Plain(t, item, c)
  BY <1>1 DEF Plain
<1>3. ASSUME NEW k \in 1..Len(<<item>>)
      PROVE  <<item>>[k].do # "restore" /\ GoodAt(t, <<item>>, k, c)
  <2>1. <<item>>[k] = item
    BY OneIsSeq
  <2> QED
    BY <1>1, <1>2, <2>1 DEF GoodAt, PlainAt, NestedAt
<1>4. Sound(t, <<item>>, c)
  BY <1>3, OneIsSeq DEF Sound
<1> QED
  BY <1>4 DEF Unevaluated, item

LEMMA SoundInFunction ==
    ASSUME NEW t, NEW items, Simple(t, items, TRUE)
    PROVE  Sound(t, InFunction(items), TRUE)
<1> DEFINE item == [do |-> "function", items |-> items]
<1>1. item.do = "function" /\ item.items = items
  OBVIOUS
<1> HIDE DEF item
<1>2. Plain(t, item, TRUE)
  BY <1>1 DEF Plain
<1>3. ASSUME NEW k \in 1..Len(<<item>>)
      PROVE  <<item>>[k].do # "restore" /\ GoodAt(t, <<item>>, k, TRUE)
  <2>1. <<item>>[k] = item
    BY OneIsSeq
  <2> QED
    BY <1>1, <1>2, <2>1 DEF GoodAt, PlainAt, NestedAt
<1>4. Sound(t, <<item>>, TRUE)
  BY <1>3, OneIsSeq DEF Sound
<1> QED
  BY <1>4 DEF InFunction, item

LEMMA SoundString ==
    ASSUME NEW t, NEW c, NEW items, NEW at,
           IsSeq(items), Simple(t, items \o Location(at), FALSE), InFile(t, at)
    PROVE  Sound(t, Unevaluated(items) \o Location(at), c)
<1> DEFINE item == [do |-> "unevaluated", items |-> items]
           loc == [do |-> "location", place |-> at]
           a == <<item>>
           b == <<loc>>
           u == a \o b
<1>1. item.do = "unevaluated" /\ item.items = items /\ loc.do = "location" /\ loc.place = at
  OBVIOUS
<1>0. Location(at) = <<loc>> /\ Unevaluated(items) = <<item>>
  BY DEF Location, Unevaluated
<1> HIDE DEF item, loc
<1>2. /\ IsSeq(a) /\ Len(a) = 1 /\ a[1] = item
      /\ IsSeq(b) /\ Len(b) = 1 /\ b[1] = loc
  BY OneIsSeq
<1>7. Simple(t, items \o b, FALSE)
  BY <1>0
<1> HIDE DEF a, b
<1>20. IsSeq(a) /\ IsSeq(b)
  BY <1>2
<1>21. /\ IsSeq(a \o b) /\ Len(a \o b) = Len(a) + Len(b) /\ DOMAIN (a \o b) = 1..(Len(a) + Len(b))
       /\ \A k \in 1..Len(a) : (a \o b)[k] = a[k]
       /\ \A k \in 1..Len(b) : (a \o b)[Len(a) + k] = b[k]
  BY <1>20, Joined
<1> HIDE DEF u
<1>3. /\ IsSeq(u) /\ Len(u) = Len(a) + Len(b) /\ DOMAIN u = 1..(Len(a) + Len(b))
      /\ \A k \in 1..Len(a) : u[k] = a[k]
      /\ \A k \in 1..Len(b) : u[Len(a) + k] = b[k]
  BY <1>21 DEF u
<1>4. IsSeq(u) /\ Len(u) = 2 /\ DOMAIN u = 1..2 /\ u[1] = item /\ u[2] = loc
  <2>1. u[1] = a[1] /\ u[Len(a) + 1] = b[1]
    BY <1>2, <1>3
  <2> QED
    BY <1>2, <1>3, <2>1
<1>5. Plain(t, item, c) /\ Plain(t, loc, c)
  BY <1>1 DEF Plain
<1>6. StringEnds(t, u, 1)
  <2>1. <<u[1 + 1]>> = b
    BY <1>4 DEF b
  <2>2. Simple(t, u[1].items \o <<u[1 + 1]>>, FALSE)
    BY <1>1, <1>4, <1>7, <2>1
  <2>3. 1 + 1 \in DOMAIN u /\ u[1 + 1].do = "location" /\ IsSeq(u[1].items)
    BY <1>1, <1>4
  <2> QED
    BY <2>2, <2>3, Zenon DEF StringEnds
<1>8. GoodAt(t, u, 1, c) /\ GoodAt(t, u, 2, c)
  BY <1>1, <1>4, <1>5, <1>6 DEF GoodAt, PlainAt, NestedAt
<1>9. ASSUME NEW k \in 1..Len(u)
      PROVE  u[k].do # "restore" /\ GoodAt(t, u, k, c)
  <2>1. k = 1 \/ k = 2
    BY <1>4
  <2> QED
    BY <1>1, <1>4, <1>8, <2>1
<1>10. Sound(t, u, c)
  BY <1>4, <1>9 DEF Sound
<1> QED
  BY <1>0, <1>10 DEF u, a, b
-----------------------------------------------------------------------------
(* What is joined of the parts for each element of a sequence.               *)

Flattened(seqs) ==
    LET flatten[i \in 1..Len(seqs)] == IF i = 1 THEN seqs[i] ELSE flatten[i - 1] \o seqs[i]
    IN flatten

LEMMA FlattenedSteps ==
    ASSUME NEW n \in Nat, NEW f, Len(f) = n
    PROVE  \A i \in 1..n : Flattened(f)[i] = IF i = 1 THEN f[i] ELSE Flattened(f)[i - 1] \o f[i]
<1> DEFINE Cat(x, i) == x \o f[i]
           Step(g, i) == IF i = 1 THEN f[i] ELSE Cat(g[i - 1], i)
           Upto(g, k) == g = [i \in 1..k |-> Step(g, i)]
           S == {k \in 0..n : \E g : Upto(g, k)}
           all == Flattened(f)
<1>1. all = CHOOSE g : Upto(g, n)
  BY DEF Flattened
<1> HIDE DEF Cat, all
<1>2. 0 \in S
  <2> DEFINE g == [i \in {} |-> f]
  <2>1. g = [i \in 1..0 |-> Step(g, i)]
    OBVIOUS
  <2>2. \E h : Upto(h, 0)
    BY <2>1
  <2>3. 0 \in 0..n
    OBVIOUS
  <2> QED
    BY <2>2, <2>3
<1>3. ASSUME NEW k \in 0..(n - 1), k \in S
      PROVE  k + 1 \in S
  <2>1. PICK g : Upto(g, k)
    BY <1>3
  <2> DEFINE h == [i \in 1..(k + 1) |-> IF i <= k THEN g[i] ELSE Step(g, i)]
  <2>2. ASSUME NEW i \in 1..(k + 1)
        PROVE  h[i] = Step(h, i)
    <3>1. h[i] = Step(g, i)
      BY <2>1
    <3>2. i # 1 => h[i - 1] = g[i - 1]
      OBVIOUS
    <3> HIDE DEF h
    <3> QED
      BY <3>1, <3>2
  <2>3. Upto(h, k + 1)
    <3>1. h = [i \in 1..(k + 1) |-> h[i]]
      OBVIOUS
    <3> HIDE DEF h
    <3> QED
      BY <2>2, <3>1
  <2> HIDE DEF h
  <2> QED
    BY <2>3
<1>4. n \in S
  <2> HIDE DEF S
  <2>1. \A k \in 0..n : k \in S
    BY <1>2, <1>3, UpTo
  <2> QED
    BY <2>1
<1>5. all = [i \in 1..n |-> Step(all, i)]
  BY <1>1, <1>4
<1>6. \A i \in 1..n : all[i] = Step(all, i)
  BY <1>5
<1> QED
  BY <1>6 DEF all, Cat

LEMMA SimpleFlatten ==
    ASSUME NEW t, NEW c, NEW n \in Nat, NEW f, f = [i \in 1..n |-> f[i]],
           \A i \in 1..n : Simple(t, f[i], c)
    PROVE  Simple(t, FlattenSeq(f), c)
<1>1. Len(f) = n /\ f \in Seq({f[i] : i \in 1..n})
  <2> DEFINE F == {f[i] : i \in 1..n}
  <2>1. [i \in 1..n |-> f[i]] \in [1..n -> F]
    OBVIOUS
  <2>2. f \in [1..n -> F]
    BY <2>1
  <2> HIDE DEF F
  <2>3. f \in Seq(F) /\ Len(f) = n
    BY <2>2
  <2> QED
    BY <2>3 DEF F
<1>2. FlattenSeq(f) = IF n = 0 THEN f ELSE Flattened(f)[n]
  BY <1>1 DEF FlattenSeq, Flattened
<1>3. CASE n = 0
  <2>1. f = <<>>
    BY <1>1, <1>3
  <2> QED
    BY <1>2, <1>3, <2>1, SimpleEmpty
<1>4. CASE n # 0
  <2> DEFINE S == {k \in Nat : 1 <= k /\ k <= n => Simple(t, Flattened(f)[k], c)}
  <2>1. 0 \in S
    OBVIOUS
  <2>2. ASSUME NEW k \in 0..(n - 1), k \in S
        PROVE  k + 1 \in S
    <3>1. k + 1 \in 1..n /\ k + 1 \in Nat /\ (k + 1) - 1 = k
      OBVIOUS
    <3>2. Flattened(f)[k + 1] = IF k + 1 = 1 THEN f[k + 1] ELSE Flattened(f)[(k + 1) - 1] \o f[k + 1]
      BY <1>1, <3>1, FlattenedSteps
    <3>3. Simple(t, f[k + 1], c)
      BY <3>1
    <3> DEFINE before == Flattened(f)[k]
               next == f[k + 1]
    <3>4. CASE k = 0
      BY <3>1, <3>2, <3>3, <3>4
    <3>5. CASE k # 0
      <4>1. Simple(t, before, c)
        BY <2>2, <3>5
      <4> HIDE DEF before, next
      <4>2. Simple(t, before \o next, c)
        BY <3>3, <4>1, SimpleJoin DEF next
      <4>3. Flattened(f)[k + 1] = before \o next
        <5>1. k + 1 # 1
          BY <3>5
        <5> QED
          BY <3>1, <3>2, <5>1, Zenon DEF before, next
      <4>4. Simple(t, Flattened(f)[k + 1], c)
        BY <4>2, <4>3, Zenon
      <4> QED
        BY <3>1, <4>4
    <3> QED
      BY <3>4, <3>5
  <2>3. \A k \in 0..n : k \in S
    <3> HIDE DEF S
    <3> QED
      BY <2>1, <2>2, UpTo
  <2>4. Simple(t, Flattened(f)[n], c)
    <3>1. n \in S /\ 1 <= n
      BY <1>4, <2>3
    <3> QED
      BY <3>1
  <2> QED
    BY <1>2, <1>4, <2>4
<1> QED
  BY <1>3, <1>4

LEMMA SoundFlatten ==
    ASSUME NEW t, NEW c, NEW n \in Nat, NEW f, f = [i \in 1..n |-> f[i]],
           \A i \in 1..n : Sound(t, f[i], c)
    PROVE  Sound(t, FlattenSeq(f), c)
<1>1. Len(f) = n /\ f \in Seq({f[i] : i \in 1..n})
  <2> DEFINE F == {f[i] : i \in 1..n}
  <2>1. [i \in 1..n |-> f[i]] \in [1..n -> F]
    OBVIOUS
  <2>2. f \in [1..n -> F]
    BY <2>1
  <2> HIDE DEF F
  <2>3. f \in Seq(F) /\ Len(f) = n
    BY <2>2
  <2> QED
    BY <2>3 DEF F
<1>2. FlattenSeq(f) = IF n = 0 THEN f ELSE Flattened(f)[n]
  BY <1>1 DEF FlattenSeq, Flattened
<1>3. CASE n = 0
  <2>1. f = <<>>
    BY <1>1, <1>3
  <2> QED
    BY <1>2, <1>3, <2>1, SoundEmpty
<1>4. CASE n # 0
  <2> DEFINE S == {k \in Nat : 1 <= k /\ k <= n => Sound(t, Flattened(f)[k], c)}
  <2>1. 0 \in S
    OBVIOUS
  <2>2. ASSUME NEW k \in 0..(n - 1), k \in S
        PROVE  k + 1 \in S
    <3>1. k + 1 \in 1..n /\ k + 1 \in Nat /\ (k + 1) - 1 = k
      OBVIOUS
    <3>2. Flattened(f)[k + 1] = IF k + 1 = 1 THEN f[k + 1] ELSE Flattened(f)[(k + 1) - 1] \o f[k + 1]
      BY <1>1, <3>1, FlattenedSteps
    <3>3. Sound(t, f[k + 1], c)
      BY <3>1
    <3> DEFINE before == Flattened(f)[k]
               next == f[k + 1]
    <3>4. CASE k = 0
      BY <3>1, <3>2, <3>3, <3>4
    <3>5. CASE k # 0
      <4>1. Sound(t, before, c)
        BY <2>2, <3>5
      <4> HIDE DEF before, next
      <4>2. Sound(t, before \o next, c)
        BY <3>3, <4>1, SoundJoin DEF next
      <4>3. Flattened(f)[k + 1] = before \o next
        <5>1. k + 1 # 1
          BY <3>5
        <5> QED
          BY <3>1, <3>2, <5>1, Zenon DEF before, next
      <4>4. Sound(t, Flattened(f)[k + 1], c)
        BY <4>2, <4>3, Zenon
      <4> QED
        BY <3>1, <4>4
    <3> QED
      BY <3>4, <3>5
  <2>3. \A k \in 0..n : k \in S
    <3> HIDE DEF S
    <3> QED
      BY <2>1, <2>2, UpTo
  <2>4. Sound(t, Flattened(f)[n], c)
    <3>1. n \in S /\ 1 <= n
      BY <1>4, <2>3
    <3> QED
      BY <3>1
  <2> QED
    BY <1>2, <1>4, <2>4
<1> QED
  BY <1>3, <1>4

-----------------------------------------------------------------------------
(* Children.                                                                 *)

LEMMA Fields0 ==
    ASSUME NEW n \in Nodes, NEW others, ConsistsOf(n, <<>>, others)
    PROVE  /\ Len(n.args) \in Nat /\ Len(n.args) >= 0 /\ DOMAIN n.args = 1..Len(n.args)
           /\ \A i \in DOMAIN n.args : i > 0 => n.args[i].kind \in others
           /\ others = {} => Len(n.args) = 0
<1>1. n.args \in Seq(Nodes)
  BY NodesAssumption
<1> DEFINE args == n.args
           fixed == <<>>
<1>2. Len(fixed) = 0
  OBVIOUS
<1>3. Len(args) >= Len(fixed) /\ \A i \in DOMAIN args : args[i].kind \in IF i <= Len(fixed) THEN fixed[i] ELSE others
  BY DEF ConsistsOf
<1> HIDE DEF args, fixed
<1>4. Len(args) \in Nat /\ DOMAIN args = 1..Len(args) /\ Len(args) >= 0
  BY <1>1, <1>2, <1>3 DEF args
<1>5. \A i \in DOMAIN args : i > 0 => args[i].kind \in others
  BY <1>2, <1>3, <1>4
<1>6. others = {} => Len(args) = 0
  <2>1. Len(args) > 0 => Len(args) \in DOMAIN args
    BY <1>4
  <2> QED
    BY <1>4, <1>5, <2>1
<1> QED
  BY <1>4, <1>5, <1>6 DEF args

LEMMA Fields1 ==
    ASSUME NEW n \in Nodes, NEW others, NEW A, ConsistsOf(n, <<A>>, others)
    PROVE  /\ Len(n.args) \in Nat /\ Len(n.args) >= 1 /\ DOMAIN n.args = 1..Len(n.args)
           /\ 1 \in DOMAIN n.args /\ n.args[1].kind \in A
           /\ \A i \in DOMAIN n.args : i > 1 => n.args[i].kind \in others
           /\ others = {} => Len(n.args) = 1
<1>1. n.args \in Seq(Nodes)
  BY NodesAssumption
<1> DEFINE args == n.args
           fixed == <<A>>
<1>2. Len(fixed) = 1 /\ fixed[1] = A
  OBVIOUS
<1>3. Len(args) >= Len(fixed) /\ \A i \in DOMAIN args : args[i].kind \in IF i <= Len(fixed) THEN fixed[i] ELSE others
  BY DEF ConsistsOf
<1> HIDE DEF args, fixed
<1>4. Len(args) \in Nat /\ DOMAIN args = 1..Len(args) /\ Len(args) >= 1
  BY <1>1, <1>2, <1>3 DEF args
<1>5. 1 \in DOMAIN args /\ args[1].kind \in A
  BY <1>2, <1>3, <1>4
<1>6. \A i \in DOMAIN args : i > 1 => args[i].kind \in others
  BY <1>2, <1>3, <1>4
<1>7. others = {} => Len(args) = 1
  <2>1. Len(args) > 1 => Len(args) \in DOMAIN args
    BY <1>4
  <2> QED
    BY <1>4, <1>6, <2>1
<1> QED
  BY <1>4, <1>5, <1>6, <1>7 DEF args

LEMMA Fields2 ==
    ASSUME NEW n \in Nodes, NEW others, NEW A, NEW B, ConsistsOf(n, <<A, B>>, others)
    PROVE  /\ Len(n.args) \in Nat /\ Len(n.args) >= 2 /\ DOMAIN n.args = 1..Len(n.args)
           /\ 1 \in DOMAIN n.args /\ n.args[1].kind \in A
           /\ 2 \in DOMAIN n.args /\ n.args[2].kind \in B
           /\ \A i \in DOMAIN n.args : i > 2 => n.args[i].kind \in others
           /\ others = {} => Len(n.args) = 2
<1>1. n.args \in Seq(Nodes)
  BY NodesAssumption
<1> DEFINE args == n.args
           fixed == <<A, B>>
<1>2. Len(fixed) = 2 /\ fixed[1] = A /\ fixed[2] = B
  OBVIOUS
<1>3. Len(args) >= Len(fixed) /\ \A i \in DOMAIN args : args[i].kind \in IF i <= Len(fixed) THEN fixed[i] ELSE others
  BY DEF ConsistsOf
<1> HIDE DEF args, fixed
<1>4. Len(args) \in Nat /\ DOMAIN args = 1..Len(args) /\ Len(args) >= 2
  BY <1>1, <1>2, <1>3 DEF args
<1>5. 1 \in DOMAIN args /\ args[1].kind \in A
  BY <1>2, <1>3, <1>4
<1>6. 2 \in DOMAIN args /\ args[2].kind \in B
  BY <1>2, <1>3, <1>4
<1>7. \A i \in DOMAIN args : i > 2 => args[i].kind \in others
  BY <1>2, <1>3, <1>4
<1>8. others = {} => Len(args) = 2
  <2>1. Len(args) > 2 => Len(args) \in DOMAIN args
    BY <1>4
  <2> QED
    BY <1>4, <1>7, <2>1
<1> QED
  BY <1>4, <1>5, <1>6, <1>7, <1>8 DEF args

LEMMA Fields3 ==
    ASSUME NEW n \in Nodes, NEW others, NEW A, NEW B, NEW D, ConsistsOf(n, <<A, B, D>>, others)
    PROVE  /\ Len(n.args) \in Nat /\ Len(n.args) >= 3 /\ DOMAIN n.args = 1..Len(n.args)
           /\ 1 \in DOMAIN n.args /\ n.args[1].kind \in A
           /\ 2 \in DOMAIN n.args /\ n.args[2].kind \in B
           /\ 3 \in DOMAIN n.args /\ n.args[3].kind \in D
           /\ \A i \in DOMAIN n.args : i > 3 => n.args[i].kind \in others
           /\ others = {} => Len(n.args) = 3
<1>1. n.args \in Seq(Nodes)
  BY NodesAssumption
<1> DEFINE args == n.args
           fixed == <<A, B, D>>
<1>2. Len(fixed) = 3 /\ fixed[1] = A /\ fixed[2] = B /\ fixed[3] = D
  OBVIOUS
<1>3. Len(args) >= Len(fixed) /\ \A i \in DOMAIN args : args[i].kind \in IF i <= Len(fixed) THEN fixed[i] ELSE others
  BY DEF ConsistsOf
<1> HIDE DEF args, fixed
<1>4. Len(args) \in Nat /\ DOMAIN args = 1..Len(args) /\ Len(args) >= 3
  BY <1>1, <1>2, <1>3 DEF args
<1>5. 1 \in DOMAIN args /\ args[1].kind \in A
  BY <1>2, <1>3, <1>4
<1>6. 2 \in DOMAIN args /\ args[2].kind \in B
  BY <1>2, <1>3, <1>4
<1>7. 3 \in DOMAIN args /\ args[3].kind \in D
  BY <1>2, <1>3, <1>4
<1>8. \A i \in DOMAIN args : i > 3 => args[i].kind \in others
  BY <1>2, <1>3, <1>4
<1>9. others = {} => Len(args) = 3
  <2>1. Len(args) > 3 => Len(args) \in DOMAIN args
    BY <1>4
  <2> QED
    BY <1>4, <1>8, <2>1
<1> QED
  BY <1>4, <1>5, <1>6, <1>7, <1>8, <1>9 DEF args

LEMMA Fields4 ==
    ASSUME NEW n \in Nodes, NEW others, NEW A, NEW B, NEW D, NEW E, ConsistsOf(n, <<A, B, D, E>>, others)
    PROVE  /\ Len(n.args) \in Nat /\ Len(n.args) >= 4 /\ DOMAIN n.args = 1..Len(n.args)
           /\ 1 \in DOMAIN n.args /\ n.args[1].kind \in A
           /\ 2 \in DOMAIN n.args /\ n.args[2].kind \in B
           /\ 3 \in DOMAIN n.args /\ n.args[3].kind \in D
           /\ 4 \in DOMAIN n.args /\ n.args[4].kind \in E
           /\ \A i \in DOMAIN n.args : i > 4 => n.args[i].kind \in others
           /\ others = {} => Len(n.args) = 4
<1>1. n.args \in Seq(Nodes)
  BY NodesAssumption
<1> DEFINE args == n.args
           fixed == <<A, B, D, E>>
<1>2. Len(fixed) = 4 /\ fixed[1] = A /\ fixed[2] = B /\ fixed[3] = D /\ fixed[4] = E
  OBVIOUS
<1>3. Len(args) >= Len(fixed) /\ \A i \in DOMAIN args : args[i].kind \in IF i <= Len(fixed) THEN fixed[i] ELSE others
  BY DEF ConsistsOf
<1> HIDE DEF args, fixed
<1>4. Len(args) \in Nat /\ DOMAIN args = 1..Len(args) /\ Len(args) >= 4
  BY <1>1, <1>2, <1>3 DEF args
<1>5. 1 \in DOMAIN args /\ args[1].kind \in A
  BY <1>2, <1>3, <1>4
<1>6. 2 \in DOMAIN args /\ args[2].kind \in B
  BY <1>2, <1>3, <1>4
<1>7. 3 \in DOMAIN args /\ args[3].kind \in D
  BY <1>2, <1>3, <1>4
<1>8. 4 \in DOMAIN args /\ args[4].kind \in E
  BY <1>2, <1>3, <1>4
<1>9. \A i \in DOMAIN args : i > 4 => args[i].kind \in others
  BY <1>2, <1>3, <1>4
<1>10. others = {} => Len(args) = 4
  <2>1. Len(args) > 4 => Len(args) \in DOMAIN args
    BY <1>4
  <2> QED
    BY <1>4, <1>9, <2>1
<1> QED
  BY <1>4, <1>5, <1>6, <1>7, <1>8, <1>9, <1>10 DEF args

LEMMA Fields5 ==
    ASSUME NEW n \in Nodes, NEW others, NEW A, NEW B, NEW D, NEW E, NEW F, ConsistsOf(n, <<A, B, D, E, F>>, others)
    PROVE  /\ Len(n.args) \in Nat /\ Len(n.args) >= 5 /\ DOMAIN n.args = 1..Len(n.args)
           /\ 1 \in DOMAIN n.args /\ n.args[1].kind \in A
           /\ 2 \in DOMAIN n.args /\ n.args[2].kind \in B
           /\ 3 \in DOMAIN n.args /\ n.args[3].kind \in D
           /\ 4 \in DOMAIN n.args /\ n.args[4].kind \in E
           /\ 5 \in DOMAIN n.args /\ n.args[5].kind \in F
           /\ \A i \in DOMAIN n.args : i > 5 => n.args[i].kind \in others
           /\ others = {} => Len(n.args) = 5
<1>1. n.args \in Seq(Nodes)
  BY NodesAssumption
<1> DEFINE args == n.args
           fixed == <<A, B, D, E, F>>
<1>2. Len(fixed) = 5 /\ fixed[1] = A /\ fixed[2] = B /\ fixed[3] = D /\ fixed[4] = E /\ fixed[5] = F
  OBVIOUS
<1>3. Len(args) >= Len(fixed) /\ \A i \in DOMAIN args : args[i].kind \in IF i <= Len(fixed) THEN fixed[i] ELSE others
  BY DEF ConsistsOf
<1> HIDE DEF args, fixed
<1>4. Len(args) \in Nat /\ DOMAIN args = 1..Len(args) /\ Len(args) >= 5
  BY <1>1, <1>2, <1>3 DEF args
<1>5. 1 \in DOMAIN args /\ args[1].kind \in A
  BY <1>2, <1>3, <1>4
<1>6. 2 \in DOMAIN args /\ args[2].kind \in B
  BY <1>2, <1>3, <1>4
<1>7. 3 \in DOMAIN args /\ args[3].kind \in D
  BY <1>2, <1>3, <1>4
<1>8. 4 \in DOMAIN args /\ args[4].kind \in E
  BY <1>2, <1>3, <1>4
<1>9. 5 \in DOMAIN args /\ args[5].kind \in F
  BY <1>2, <1>3, <1>4
<1>10. \A i \in DOMAIN args : i > 5 => args[i].kind \in others
  BY <1>2, <1>3, <1>4
<1>11. others = {} => Len(args) = 5
  <2>1. Len(args) > 5 => Len(args) \in DOMAIN args
    BY <1>4
  <2> QED
    BY <1>4, <1>10, <2>1
<1> QED
  BY <1>4, <1>5, <1>6, <1>7, <1>8, <1>9, <1>10, <1>11 DEF args

LEMMA KindsAreSerialized ==
    /\ ExprKinds \subseteq Serialized /\ Patterns \subseteq Serialized /\ StmtKinds \subseteq Serialized
    /\ "absent" \notin Serialized
  BY DEF Serialized, ExprKinds, NameKinds, NumberKinds, UnaryKinds, BinaryKinds, DisplayKinds,
         GeneratorKinds, Patterns, StmtKinds, WordKinds

LEMMA ArgsAreNodes ==
    ASSUME NEW n \in Nodes
    PROVE  /\ n.args \in Seq(Nodes) /\ Len(n.args) \in Nat /\ DOMAIN n.args = 1..Len(n.args)
           /\ \A i \in DOMAIN n.args : n.args[i] \in Nodes
           /\ n.inner \in Seq(Nodes)
           /\ n.inner # <<>> => n.inner[1] \in Nodes
           /\ n.kind = "absent" => n = Absent
<1>1. n.args \in Seq(Nodes) /\ n.inner \in Seq(Nodes) /\ PartFields(n)
  BY NodesAssumption
<1> DEFINE args == n.args
           inner == n.inner
<1> HIDE DEF args, inner
<1>2. args \in Seq(Nodes) /\ inner \in Seq(Nodes)
  BY <1>1 DEF args, inner
<1>3. Len(args) \in Nat /\ DOMAIN args = 1..Len(args) /\ \A i \in DOMAIN args : args[i] \in Nodes
  BY <1>2
<1>4. inner # <<>> => inner[1] \in Nodes
  BY <1>2
<1>5. n.kind = "absent" => n = Absent
  BY <1>1 DEF PartFields
<1> QED
  BY <1>2, <1>3, <1>4, <1>5 DEF args, inner

LEMMA SimpleChild ==
    ASSUME NEW t, NEW n, NEW at, NEW i, Anchored(t, n, at), i \in DOMAIN n.args,
           n.args[i].kind \in Serialized
    PROVE  Simple(t, Child(n, at, i), TRUE)
<1>1. Anchored(t, n.args[i], In(at, i))
  BY Below
<1> QED
  BY <1>1, SimpleSerialize DEF Child

LEMMA SimpleOptional ==
    ASSUME NEW t, NEW n, NEW at, NEW i, Anchored(t, n, at), i \in DOMAIN n.args,
           n.args[i].kind \in Serialized \cup {"absent"}
    PROVE  Simple(t, Optional(n, at, i), TRUE)
<1>1. CASE n.args[i] = Absent
  <2>1. Optional(n, at, i) = Bool(FALSE)
    BY <1>1 DEF Optional
  <2> QED
    BY <2>1, SimpleTokens
<1>2. CASE n.args[i] # Absent
  <2>1. n.args[i] \in Nodes
    BY Below
  <2>2. n.args[i].kind \in Serialized
    BY <1>2, <2>1, ArgsAreNodes
  <2>3. Optional(n, at, i) = Bool(TRUE) \o Child(n, at, i)
    BY <1>2, Zenon DEF Optional
  <2>4. Simple(t, Bool(TRUE), TRUE)
    BY SimpleTokens
  <2>5. Simple(t, Child(n, at, i), TRUE)
    BY <2>2, SimpleChild
  <2> QED
    BY <2>3, <2>4, <2>5, SimpleJoin
<1> QED
  BY <1>1, <1>2

\* The same of a sequence of the parts for the elements of s.
LEMMA SimpleParts ==
    ASSUME NEW t, NEW c, NEW s, IsSeq(s), NEW f, f = [i \in DOMAIN s |-> f[i]],
           \A i \in DOMAIN s : Simple(t, f[i], c)
    PROVE  Simple(t, FlattenSeq(f), c)
<1>1. DOMAIN s = 1..Len(s) /\ Len(s) \in Nat
  BY DEF IsSeq
<1> DEFINE n == Len(s)
<1> HIDE DEF n
<1>2. f = [i \in 1..n |-> f[i]] /\ n \in Nat /\ \A i \in 1..n : Simple(t, f[i], c)
  BY <1>1, Zenon DEF n
<1> QED
  BY <1>2, SimpleFlatten

LEMMA SoundParts ==
    ASSUME NEW t, NEW c, NEW s, IsSeq(s), NEW f, f = [i \in DOMAIN s |-> f[i]],
           \A i \in DOMAIN s : Sound(t, f[i], c)
    PROVE  Sound(t, FlattenSeq(f), c)
<1>1. DOMAIN s = 1..Len(s) /\ Len(s) \in Nat
  BY DEF IsSeq
<1> DEFINE n == Len(s)
<1> HIDE DEF n
<1>2. f = [i \in 1..n |-> f[i]] /\ n \in Nat /\ \A i \in 1..n : Sound(t, f[i], c)
  BY <1>1, Zenon DEF n
<1> QED
  BY <1>2, SoundFlatten

LEMMA SimpleInts ==
    ASSUME NEW t, NEW c, NEW s, IsSeq(s)
    PROVE  Simple(t, Ints(s), c)
<1> DEFINE f == [i \in DOMAIN s |-> RawInt(s[i])]
<1>1. f = [i \in DOMAIN s |-> f[i]]
  OBVIOUS
<1>2. ASSUME NEW i \in DOMAIN s
      PROVE  Simple(t, f[i], c)
  BY SimpleTokens
<1>3. Ints(s) = Write(<<"ints", Len(s)>>) \o FlattenSeq(f)
  BY Zenon DEF Ints
<1> HIDE DEF f
<1>4. Simple(t, FlattenSeq(f), c)
  BY <1>1, <1>2, SimpleParts
<1>5. Simple(t, Write(<<"ints", Len(s)>>), c)
  BY SimpleTokens
<1> QED
  BY <1>3, <1>4, <1>5, SimpleJoin

LEMMA SimpleChildren ==
    ASSUME NEW t, NEW n, NEW at, Anchored(t, n, at), NEW from \in Nat, NEW to \in Nat,
           from >= 1, from <= to + 1, to <= Len(n.args),
           \A i \in from..to : n.args[i].kind \in Serialized
    PROVE  Simple(t, Children(n, at, from, to), TRUE)
<1> DEFINE m == to - from + 1
           f == [k \in 1..m |-> Child(n, at, from + k - 1)]
<1>1. m \in Nat
  OBVIOUS
<1>2. f = [k \in 1..m |-> f[k]]
  OBVIOUS
<1>3. ASSUME NEW k \in 1..m
      PROVE  Simple(t, f[k], TRUE)
  <2> DEFINE i == from + k - 1
  <2>1. n \in Nodes /\ DOMAIN n.args = 1..Len(n.args)
    BY ArgsAreNodes DEF Anchored
  <2>2. i \in from..to /\ i \in 1..Len(n.args)
    BY <2>1, ArgsAreNodes
  <2>4. f[k] = Child(n, at, i)
    OBVIOUS
  <2> HIDE DEF i
  <2>3. Simple(t, Child(n, at, i), TRUE)
    BY <2>1, <2>2, SimpleChild
  <2> QED
    BY <2>3, <2>4
<1>4. Children(n, at, from, to) = FlattenSeq(f)
  BY DEF Children
<1> HIDE DEF f, m
<1> QED
  BY <1>1, <1>2, <1>3, <1>4, SimpleFlatten

LEMMA SimpleList ==
    ASSUME NEW t, NEW n, NEW at, Anchored(t, n, at), NEW from \in Nat,
           from >= 1, from <= Len(n.args) + 1,
           \A i \in DOMAIN n.args : i >= from => n.args[i].kind \in Serialized
    PROVE  Simple(t, List(n, at, from), TRUE)
<1>1. n \in Nodes /\ Len(n.args) \in Nat /\ DOMAIN n.args = 1..Len(n.args)
  BY ArgsAreNodes DEF Anchored
<1>2. \A i \in from..Len(n.args) : n.args[i].kind \in Serialized
  BY <1>1
<1>5. Len(n.args) <= Len(n.args)
  BY <1>1
<1>3. Simple(t, Children(n, at, from, Len(n.args)), TRUE)
  BY <1>1, <1>2, <1>5, SimpleChildren
<1>4. Simple(t, ListOf(Len(n.args) - from + 1), TRUE)
  BY SimpleTokens
<1> QED
  BY <1>3, <1>4, SimpleJoin DEF List

LEMMA SimpleAll ==
    ASSUME NEW t, NEW n, NEW at, Anchored(t, n, at),
           \A i \in DOMAIN n.args : n.args[i].kind \in Serialized
    PROVE  Simple(t, All(n, at), TRUE)
<1>1. n \in Nodes /\ Len(n.args) \in Nat /\ DOMAIN n.args = 1..Len(n.args)
  BY ArgsAreNodes DEF Anchored
<1>2. \A i \in 1..Len(n.args) : n.args[i].kind \in Serialized
  BY <1>1
<1>5. Len(n.args) <= Len(n.args) /\ 1 \in Nat /\ 1 >= 1 /\ 1 <= Len(n.args) + 1
  BY <1>1
<1>3. Simple(t, Children(n, at, 1, Len(n.args)), TRUE)
  BY <1>1, <1>2, <1>5, SimpleChildren
<1> QED
  BY <1>3 DEF All

LEMMA SimpleOptionalName ==
    ASSUME NEW t, NEW n, NEW at, Anchored(t, n, at), n.kind \in Patterns
    PROVE  Simple(t, OptionalName(n, at), TRUE)
<1>1. CASE n.attr = ""
  <2>1. OptionalName(n, at) = Bool(FALSE)
    BY <1>1, Zenon DEF OptionalName
  <2> QED
    BY <2>1, SimpleTokens
<1>2. CASE n.attr # ""
  <2>1. OptionalName(n, at) = Bool(TRUE) \o Bytes(n.attr) \o Location(In(at, Len(n.args) + 1))
    BY <1>2, Zenon DEF OptionalName
  <2>2. InFile(t, In(at, Len(n.args) + 1))
    BY NamePlace
  <2>3. Simple(t, Location(In(at, Len(n.args) + 1)), TRUE)
    BY <2>2, SimpleLocation
  <2>4. Simple(t, Bool(TRUE), TRUE) /\ Simple(t, Bytes(n.attr), TRUE)
    BY SimpleTokens
  <2> QED
    BY <2>1, <2>3, <2>4, SimpleJoin3
<1> QED
  BY <1>1, <1>2
-----------------------------------------------------------------------------
(* Expressions.                                                              *)

LEMMA TailArgs ==
    ASSUME NEW n \in Nodes, Len(n.args) >= 1
    PROVE  /\ IsSeq(Tail(n.args)) /\ Len(Tail(n.args)) = Len(n.args) - 1
           /\ DOMAIN Tail(n.args) = 1..(Len(n.args) - 1)
           /\ \A i \in DOMAIN Tail(n.args) :
                 i + 1 \in DOMAIN n.args /\ i + 1 > 1 /\ Tail(n.args)[i] = n.args[i + 1]
<1> DEFINE args == n.args
<1>1. args \in Seq(Nodes)
  BY ArgsAreNodes
<1>2. Len(args) >= 1
  OBVIOUS
<1> HIDE DEF args
<1>3. /\ Tail(args) \in Seq(Nodes) /\ Len(Tail(args)) = Len(args) - 1
      /\ \A i \in 1..Len(Tail(args)) : Tail(args)[i] = args[i + 1]
  <2>1. args # <<>>
    BY <1>2
  <2> QED
    BY <1>1, <2>1, HeadTailProperties
<1>4. IsSeq(Tail(args))
  BY <1>3 DEF IsSeq
<1>5. DOMAIN Tail(args) = 1..(Len(args) - 1)
  BY <1>3, LenProperties
<1>6. \A i \in 1..(Len(args) - 1) : i + 1 \in DOMAIN args /\ i + 1 > 1
  BY <1>1
<1> QED
  BY <1>3, <1>4, <1>5, <1>6 DEF args

LEMMA RestOfArgs ==
    ASSUME NEW n \in Nodes, NEW before \in Nat, Len(n.args) >= before
    PROVE  LET rest == SubSeq(n.args, before + 1, Len(n.args)) IN
           /\ IsSeq(rest) /\ Len(rest) = Len(n.args) - before
           /\ DOMAIN rest = 1..(Len(n.args) - before)
           /\ \A i \in DOMAIN rest :
                 before + i \in DOMAIN n.args /\ before + i > before /\ rest[i] = n.args[before + i]
<1> DEFINE args == n.args
           m == Len(args)
           rest == SubSeq(args, before + 1, m)
<1>1. args \in Seq(Nodes) /\ m \in Nat /\ DOMAIN args = 1..m /\ m >= before
  BY ArgsAreNodes
<1> HIDE DEF args, m
<1>2. /\ rest \in Seq(Nodes)
      /\ Len(rest) = IF before + 1 <= m THEN m - (before + 1) + 1 ELSE 0
      /\ \A i \in 1..(m - (before + 1) + 1) : rest[i] = args[(before + 1) + i - 1]
  <2>1. before + 1 \in Int /\ m \in Int /\ \A i \in (before + 1)..m : args[i] \in Nodes
    BY <1>1
  <2> QED
    BY <2>1, SubSeqProperties
<1> HIDE DEF rest
<1>3. Len(rest) = m - before
  BY <1>1, <1>2
<1>4. DOMAIN rest = 1..(m - before)
  BY <1>2, <1>3, LenProperties
<1>5. \A i \in 1..(m - before) :
        before + i \in DOMAIN args /\ before + i > before /\ rest[i] = args[before + i]
  <2>1. \A i \in 1..(m - before) : i \in 1..(m - (before + 1) + 1) /\ (before + 1) + i - 1 = before + i
    BY <1>1
  <2> QED
    BY <1>1, <1>2, <2>1
<1>6. IsSeq(rest)
  BY <1>2 DEF IsSeq
<1> QED
  BY <1>3, <1>4, <1>5, <1>6 DEF rest, m, args

LEMMA SimpleCall ==
    ASSUME NEW t, NEW n, NEW at, Anchored(t, n, at), n.kind = "call"
    PROVE  Simple(t, CallLayout(n, at), TRUE)
<1>1. n \in Nodes
  BY DEF Anchored
<1>2. ConsistsOf(n, <<Expr>>, Expr \cup {"keyword"})
  BY <1>1, NodesAssumption DEF ExprFields
<1> DEFINE args == Tail(n.args)
           Argument(i) == IF args[i].kind \in {"starred", "keyword"}
                          THEN Child(args[i], In(at, i + 1), 1) ELSE Child(n, at, i + 1)
           Kind(i) == CASE args[i].kind = "starred" -> 2
                        [] args[i].kind # "keyword" -> 0
                        [] args[i].attr = ""        -> 4
                        [] OTHER                    -> 3
           Name(i) == IF args[i].kind = "keyword" /\ args[i].attr # ""
                      THEN Bytes(args[i].attr) ELSE LiteralNone
           arguments == [i \in DOMAIN args |-> Argument(i)]
           kinds     == [i \in DOMAIN args |-> Kind(i)]
           names     == [i \in DOMAIN args |-> Name(i)]
<1>3. /\ Len(n.args) >= 1 /\ 1 \in DOMAIN n.args /\ n.args[1].kind \in Expr
      /\ \A i \in DOMAIN n.args : i > 1 => n.args[i].kind \in Expr \cup {"keyword"}
  BY <1>1, <1>2, Fields1
<1>4. /\ IsSeq(args)
      /\ \A i \in DOMAIN args : i + 1 \in DOMAIN n.args /\ i + 1 > 1 /\ args[i] = n.args[i + 1]
  BY <1>1, <1>3, TailArgs
<1>5. CallLayout(n, at) =
           Child(n, at, 1) \o ListOf(Len(args)) \o FlattenSeq(arguments) \o Ints(kinds)
        \o ListOf(Len(args)) \o FlattenSeq(names)
  BY DEF CallLayout, Each
<1>6. IsSeq(kinds)
  <2>1. PICK m \in Nat : DOMAIN args = 1..m
    BY <1>4 DEF IsSeq
  <2> DEFINE S == {Kind(i) : i \in DOMAIN args}
  <2>2. kinds \in [1..m -> S]
    BY <2>1
  <2> HIDE DEF S, kinds
  <2>3. kinds \in Seq(S)
    BY <2>2
  <2> QED
    BY <2>3 DEF IsSeq
<1> HIDE DEF args
<1>7. ASSUME NEW i \in DOMAIN args
      PROVE  Simple(t, arguments[i], TRUE)
  <2>1. i + 1 \in DOMAIN n.args /\ args[i] = n.args[i + 1] /\ args[i].kind \in Expr \cup {"keyword"}
    BY <1>3, <1>4
  <2>2. Anchored(t, args[i], In(at, i + 1)) /\ args[i] \in Nodes
    BY <2>1, Below
  <2>3. CASE args[i].kind \in {"starred", "keyword"}
    <3>1. ConsistsOf(args[i], <<Expr>>, {}) \/ ConsistsOf(args[i], <<Expr \cup Patterns>>, {})
      BY <2>2, <2>3, NodesAssumption DEF ExprFields, PartFields, UnaryKinds
    <3>2. 1 \in DOMAIN args[i].args /\ args[i].args[1].kind \in Expr \cup Patterns
      BY <2>2, <3>1, Fields1
    <3>3. args[i].args[1].kind \in Serialized
      BY <3>2, KindsAreSerialized DEF Expr
    <3>4. Simple(t, Child(args[i], In(at, i + 1), 1), TRUE)
      BY <2>2, <3>2, <3>3, SimpleChild
    <3> QED
      BY <2>3, <3>4
  <2>4. CASE args[i].kind \notin {"starred", "keyword"}
    <3>1. n.args[i + 1].kind \in Serialized
      BY <2>1, <2>4, KindsAreSerialized DEF Expr
    <3>2. Simple(t, Child(n, at, i + 1), TRUE)
      BY <2>1, <3>1, SimpleChild
    <3> QED
      BY <2>4, <3>2
  <2> QED
    BY <2>3, <2>4
<1>8. ASSUME NEW i \in DOMAIN args
      PROVE  Simple(t, names[i], TRUE)
  BY SimpleTokens, SimpleMarks
<1>9. arguments = [i \in DOMAIN args |-> arguments[i]] /\ names = [i \in DOMAIN args |-> names[i]]
  OBVIOUS
<1> HIDE DEF arguments, kinds, names
<1>10. n.args[1].kind \in Serialized
  BY <1>3, KindsAreSerialized DEF Expr
<1>11. Simple(t, Child(n, at, 1), TRUE)
  BY <1>3, <1>10, SimpleChild
<1>12. Simple(t, ListOf(Len(args)), TRUE)
  BY SimpleTokens
<1>13. Simple(t, FlattenSeq(arguments), TRUE)
  BY <1>4, <1>7, <1>9, SimpleParts
<1>14. Simple(t, Ints(kinds), TRUE)
  BY <1>6, SimpleInts
<1>15. Simple(t, FlattenSeq(names), TRUE)
  BY <1>4, <1>8, <1>9, SimpleParts
<1>16. Simple(t, Child(n, at, 1) \o ListOf(Len(args)) \o FlattenSeq(arguments) \o Ints(kinds) \o ListOf(Len(args)) \o FlattenSeq(names), TRUE)
  BY <1>11, <1>12, <1>13, <1>14, <1>15, SimpleJoin6
<1> QED
  BY <1>5, <1>16

LEMMA SimpleParameters ==
    ASSUME NEW t, NEW n, NEW at, Anchored(t, n, at), n.kind = "params", ParametersHave(n, 1)
    PROVE  Simple(t, ParametersLayout(n, at), TRUE)
<1>1. n \in Nodes /\ IsSeq(n.args) /\ at \in Places
  BY ArgsAreNodes DEF Anchored, IsSeq
<1>2. ConsistsOf(n, <<>>, {"param"})
  BY <1>1, NodesAssumption DEF PartFields
<1>3. \A i \in DOMAIN n.args : i > 0 => n.args[i].kind \in {"param"}
  BY <1>1, <1>2, Fields0
<1>4. \A i \in DOMAIN n.args : i > 0
  BY <1>1, ArgsAreNodes
<1> DEFINE Param(i) == LET p == n.args[i] IN
                  Bytes(p.attr) \o TaggedInt(ArgKind(p, p.args[1])) \o Bool(FALSE)
               \o Optional(p, In(at, i), 1) \o Bool(IsPosOnly(p)) \o Location(In(at, i))
           params == [i \in DOMAIN n.args |-> Param(i)]
<1>5. ParametersLayout(n, at) = ListOf(Len(n.args)) \o FlattenSeq(params)
  BY DEF ParametersLayout, Each
<1>6. params = [i \in DOMAIN n.args |-> params[i]]
  OBVIOUS
<1>7. ASSUME NEW i \in DOMAIN n.args
      PROVE  Simple(t, params[i], TRUE)
  <2> DEFINE p == n.args[i]
             kind == ArgKind(p, p.args[1])
             posonly == IsPosOnly(p)
             place == In(at, i)
  <2>1. p \in Nodes /\ p.kind = "param" /\ Anchored(t, p, place)
    BY <1>3, <1>4, Below
  <2>2. ConsistsOf(p, <<>>, OptionalExpr) /\ Len(p.args) = 1
    BY <2>1, NodesAssumption DEF PartFields, ParametersHave
  <2>3. 1 \in DOMAIN p.args /\ p.args[1].kind \in OptionalExpr
    <3>1. /\ DOMAIN p.args = 1..Len(p.args)
          /\ \A j \in DOMAIN p.args : j > 0 => p.args[j].kind \in OptionalExpr
      BY <2>1, <2>2, Fields0
    <3>2. 1 > 0 /\ 1 \in 1..1
      OBVIOUS
    <3> QED
      BY <2>2, <3>1, <3>2
  <2>4. p.args[1].kind \in Serialized \cup {"absent"}
    BY <2>3, KindsAreSerialized DEF OptionalExpr, Maybe
  <2>6. params[i] = Bytes(p.attr) \o TaggedInt(kind) \o Bool(FALSE)
               \o Optional(p, place, 1) \o Bool(posonly) \o Location(place)
    OBVIOUS
  <2>5. Simple(t, Location(place), TRUE)
    BY <2>1, AnchoredInFile, SimpleLocation
  <2> HIDE DEF p, kind, posonly, place, params
  <2>7. Simple(t, Bytes(p.attr), TRUE)
    BY SimpleTokens
  <2>8. Simple(t, TaggedInt(kind), TRUE)
    BY SimpleTokens
  <2>9. Simple(t, Bool(FALSE), TRUE)
    BY SimpleTokens
  <2>10. Simple(t, Optional(p, place, 1), TRUE)
    BY <2>1, <2>3, <2>4, SimpleOptional
  <2>11. Simple(t, Bool(posonly), TRUE)
    BY SimpleTokens
  <2>12. Simple(t, Bytes(p.attr) \o TaggedInt(kind) \o Bool(FALSE) \o Optional(p, place, 1) \o Bool(posonly) \o Location(place), TRUE)
    BY <2>7, <2>8, <2>9, <2>10, <2>11, <2>5, SimpleJoin6
  <2> QED
    BY <2>6, <2>12
<1> HIDE DEF params
<1>8. Simple(t, ListOf(Len(n.args)), TRUE)
  BY SimpleTokens
<1>9. Simple(t, FlattenSeq(params), TRUE)
  BY <1>1, <1>6, <1>7, SimpleParts
<1>10. Simple(t, ListOf(Len(n.args)) \o FlattenSeq(params), TRUE)
  BY <1>8, <1>9, SimpleJoin
<1> QED
  BY <1>5, <1>10

LEMMA SimpleLambda ==
    ASSUME NEW t, NEW n, NEW at, Anchored(t, n, at), n.kind = "lambda"
    PROVE  Simple(t, LambdaLayout(n, at), TRUE)
<1>1. n \in Nodes
  BY DEF Anchored
<1>2. ConsistsOf(n, <<{"params"}, Expr>>, {}) /\ ParametersHave(n.args[1], 1)
  BY <1>1, NodesAssumption DEF ExprFields
<1>3. 1 \in DOMAIN n.args /\ n.args[1].kind \in {"params"} /\ 2 \in DOMAIN n.args /\ n.args[2].kind \in Expr
  BY <1>1, <1>2, Fields2
<1>4. Anchored(t, n.args[1], In(at, 1)) /\ Anchored(t, n.args[2], In(at, 2))
  BY <1>3, Below
<1>5. n.args[2].kind \in Serialized
  BY <1>3, KindsAreSerialized DEF Expr
<1>6. InFile(t, In(at, 2))
  BY <1>4, AnchoredInFile
<1>7. Simple(t, ParametersLayout(n.args[1], In(at, 1)), TRUE)
  BY <1>2, <1>3, <1>4, SimpleParameters
<1>8. Simple(t, Tag("BLOCK"), TRUE)
  BY SimpleTokens
<1>9. Simple(t, ListOf(1), TRUE)
  BY SimpleTokens
<1>10. Simple(t, WriteUnreachable, TRUE)
  BY SimpleSteps
<1>11. Simple(t, Tag("RETURN"), TRUE)
  BY SimpleTokens
<1>12. Simple(t, Bool(TRUE), TRUE)
  BY SimpleTokens
<1>13. Simple(t, Child(n, at, 2), TRUE)
  BY <1>3, <1>5, SimpleChild
<1>14. Simple(t, Location(In(at, 2)), TRUE)
  BY <1>6, SimpleLocation
<1>15. Simple(t, End, TRUE)
  BY SimpleMarks
<1>16. Simple(t, ParametersLayout(n.args[1], In(at, 1)) \o Tag("BLOCK") \o ListOf(1) \o WriteUnreachable \o Tag("RETURN") \o Bool(TRUE) \o Child(n, at, 2) \o Location(In(at, 2)) \o End, TRUE)
  BY <1>7, <1>8, <1>9, <1>10, <1>11, <1>12, <1>13, <1>14, <1>15, SimpleJoin9
<1>17. Simple(t, ParametersLayout(n.args[1], In(at, 1)) \o Tag("BLOCK") \o ListOf(1) \o WriteUnreachable \o Tag("RETURN") \o Bool(TRUE) \o Child(n, at, 2) \o Location(In(at, 2)) \o End \o End, TRUE)
  BY <1>16, <1>15, SimpleJoin
<1> QED
  BY <1>17 DEF LambdaLayout

LEMMA SimpleDict ==
    ASSUME NEW t, NEW n, NEW at, Anchored(t, n, at), n.kind = "dict"
    PROVE  Simple(t, DictLayout(n, at), TRUE)
<1>1. n \in Nodes /\ IsSeq(n.args)
  BY ArgsAreNodes DEF Anchored, IsSeq
<1>2. ConsistsOf(n, <<>>, {"item"})
  BY <1>1, NodesAssumption DEF ExprFields
<1>3. \A i \in DOMAIN n.args : n.args[i].kind = "item"
  <2>1. \A i \in DOMAIN n.args : i > 0 => n.args[i].kind \in {"item"}
    BY <1>1, <1>2, Fields0
  <2> QED
    BY <1>1, <2>1, ArgsAreNodes
<1> DEFINE keys == [i \in DOMAIN n.args |-> Optional(n.args[i], In(at, i), 1)]
           items == [i \in DOMAIN n.args |-> Child(n.args[i], In(at, i), 2)]
<1>4. DictLayout(n, at) =
        ListOf(Len(n.args)) \o FlattenSeq(keys) \o ListOf(Len(n.args)) \o FlattenSeq(items)
  BY DEF DictLayout, Each
<1>5. keys = [i \in DOMAIN n.args |-> keys[i]] /\ items = [i \in DOMAIN n.args |-> items[i]]
  OBVIOUS
<1>6. ASSUME NEW i \in DOMAIN n.args
      PROVE  Simple(t, keys[i], TRUE) /\ Simple(t, items[i], TRUE)
  <2> DEFINE e == n.args[i]
  <2>1. Anchored(t, e, In(at, i)) /\ e \in Nodes /\ e.kind = "item"
    BY <1>3, Below
  <2>7. keys[i] = Optional(e, In(at, i), 1) /\ items[i] = Child(e, In(at, i), 2)
    OBVIOUS
  <2> HIDE DEF e, keys, items
  <2>2. ConsistsOf(e, <<OptionalExpr, Expr>>, {})
    BY <2>1, NodesAssumption DEF PartFields
  <2>3. 1 \in DOMAIN e.args /\ e.args[1].kind \in OptionalExpr /\ 2 \in DOMAIN e.args /\ e.args[2].kind \in Expr
    BY <2>1, <2>2, Fields2
  <2>4. e.args[1].kind \in Serialized \cup {"absent"} /\ e.args[2].kind \in Serialized
    BY <2>3, KindsAreSerialized DEF OptionalExpr, Maybe, Expr
  <2>5. Simple(t, Optional(e, In(at, i), 1), TRUE)
    BY <2>1, <2>3, <2>4, SimpleOptional
  <2>6. Simple(t, Child(e, In(at, i), 2), TRUE)
    BY <2>1, <2>3, <2>4, SimpleChild
  <2> QED
    BY <2>5, <2>6, <2>7
<1> HIDE DEF keys, items
<1>7. Simple(t, ListOf(Len(n.args)), TRUE)
  BY SimpleTokens
<1>8. Simple(t, FlattenSeq(keys), TRUE)
  BY <1>1, <1>5, <1>6, SimpleParts
<1>9. Simple(t, FlattenSeq(items), TRUE)
  BY <1>1, <1>5, <1>6, SimpleParts
<1>10. Simple(t, ListOf(Len(n.args)) \o FlattenSeq(keys) \o ListOf(Len(n.args)) \o FlattenSeq(items), TRUE)
  BY <1>7, <1>8, <1>9, SimpleJoin4
<1> QED
  BY <1>4, <1>10

LEMMA SimpleGenerators ==
    ASSUME NEW t, NEW n, NEW at, NEW before \in Nat, Anchored(t, n, at), Len(n.args) >= before,
           \A i \in DOMAIN n.args : i > before => n.args[i].kind \in {"comprehension"}
    PROVE  Simple(t, GeneratorsLayout(n, at, before), TRUE)
<1>1. n \in Nodes
  BY DEF Anchored
<1> DEFINE gens == SubSeq(n.args, before + 1, Len(n.args))
           targets == [i \in DOMAIN gens |-> Child(gens[i], In(at, before + i), 1)]
           iters == [i \in DOMAIN gens |-> Child(gens[i], In(at, before + i), 2)]
           conds == [i \in DOMAIN gens |-> List(gens[i], In(at, before + i), 3)]
           asyncs == [i \in DOMAIN gens |-> Bool(gens[i].attr = "async")]
<1>2. /\ IsSeq(gens)
      /\ \A i \in DOMAIN gens :
            before + i \in DOMAIN n.args /\ before + i > before /\ gens[i] = n.args[before + i]
  BY <1>1, RestOfArgs
<1>3. GeneratorsLayout(n, at, before) =
           TaggedInt(Len(gens)) \o FlattenSeq(targets) \o FlattenSeq(iters)
        \o FlattenSeq(conds) \o FlattenSeq(asyncs)
  BY DEF GeneratorsLayout, Each
<1>4. /\ targets = [i \in DOMAIN gens |-> targets[i]] /\ iters = [i \in DOMAIN gens |-> iters[i]]
      /\ conds = [i \in DOMAIN gens |-> conds[i]]
  OBVIOUS
<1>5. asyncs = [i \in DOMAIN gens |-> asyncs[i]]
  BY Zenon
<1> HIDE DEF gens
<1>6. ASSUME NEW i \in DOMAIN gens
      PROVE  Simple(t, targets[i], TRUE) /\ Simple(t, iters[i], TRUE) /\ Simple(t, conds[i], TRUE)
  <2> DEFINE g == gens[i]
             place == In(at, before + i)
  <2>1. Anchored(t, g, place) /\ g \in Nodes /\ g.kind = "comprehension"
    BY <1>2, Below
  <2>2. targets[i] = Child(g, place, 1) /\ iters[i] = Child(g, place, 2) /\ conds[i] = List(g, place, 3)
    OBVIOUS
  <2> HIDE DEF g, place, targets, iters, conds
  <2>3. ConsistsOf(g, <<Expr, Expr>>, Expr)
    BY <2>1, NodesAssumption DEF PartFields
  <2>4. /\ 1 \in DOMAIN g.args /\ g.args[1].kind \in Expr /\ 2 \in DOMAIN g.args /\ g.args[2].kind \in Expr
        /\ \A j \in DOMAIN g.args : j > 2 => g.args[j].kind \in Expr
        /\ Len(g.args) >= 2 /\ Len(g.args) \in Nat /\ DOMAIN g.args = 1..Len(g.args)
    BY <2>1, <2>3, Fields2
  <2>5. /\ g.args[1].kind \in Serialized /\ g.args[2].kind \in Serialized
        /\ \A j \in DOMAIN g.args : j >= 3 => g.args[j].kind \in Serialized
    BY <2>4, KindsAreSerialized DEF Expr
  <2>6. Simple(t, Child(g, place, 1), TRUE) /\ Simple(t, Child(g, place, 2), TRUE)
    BY <2>1, <2>4, <2>5, SimpleChild
  <2>7. 3 \in Nat /\ 3 >= 1 /\ 3 <= Len(g.args) + 1
    BY <2>4
  <2>8. Simple(t, List(g, place, 3), TRUE)
    BY <2>1, <2>5, <2>7, SimpleList
  <2> QED
    BY <2>2, <2>6, <2>8
<1>7. ASSUME NEW i \in DOMAIN gens
      PROVE  Simple(t, asyncs[i], TRUE)
  <2> DEFINE async == gens[i].attr = "async"
  <2>1. asyncs[i] = Bool(async)
    BY Zenon
  <2> HIDE DEF async
  <2> QED
    BY <2>1, SimpleTokens, Zenon
<1> HIDE DEF targets, iters, conds, asyncs
<1>8. Simple(t, TaggedInt(Len(gens)), TRUE)
  BY SimpleTokens
<1>9. Simple(t, FlattenSeq(targets), TRUE)
  BY <1>2, <1>4, <1>6, SimpleParts
<1>10. Simple(t, FlattenSeq(iters), TRUE)
  BY <1>2, <1>4, <1>6, SimpleParts
<1>11. Simple(t, FlattenSeq(conds), TRUE)
  BY <1>2, <1>4, <1>6, SimpleParts
<1>12. Simple(t, FlattenSeq(asyncs), TRUE)
  BY <1>2, <1>5, <1>7, SimpleParts
<1>13. Simple(t, TaggedInt(Len(gens)) \o FlattenSeq(targets) \o FlattenSeq(iters) \o FlattenSeq(conds) \o FlattenSeq(asyncs), TRUE)
  BY <1>8, <1>9, <1>10, <1>11, <1>12, SimpleJoin5
<1> QED
  BY <1>3, <1>13

LEMMA SimpleDictCompKey ==
    ASSUME NEW t, NEW n, NEW at, Anchored(t, n, at), n.kind = "dictcomp"
    PROVE  Simple(t, DictCompKey(n, at), TRUE)
<1>1. n \in Nodes /\ InFile(t, at) /\ at.path \in Seq(Nat)
  BY AnchoredInFile
<1>2. ConsistsOf(n, <<OptionalExpr, Expr>>, {"comprehension"})
  BY <1>1, NodesAssumption DEF ExprFields
<1>3. 1 \in DOMAIN n.args /\ n.args[1].kind \in OptionalExpr
  BY <1>1, <1>2, Fields2
<1>4. n.args[1].kind \in Serialized \cup {"absent"}
  BY <1>3, KindsAreSerialized DEF OptionalExpr, Maybe
<1>5. Simple(t, Optional(n, at, 1), TRUE)
  BY <1>3, <1>4, SimpleOptional
<1>6. n.args[1] # Absent => Simple(t, Child(n, at, 1), TRUE)
  <2>1. n.args[1] # Absent => n.args[1].kind \in Serialized
    BY <1>1, <1>3, <1>4, ArgsAreNodes
  <2> QED
    BY <1>3, <2>1, SimpleChild
<1>7. Simple(t, AddError(at), TRUE)
  BY <1>1, SimpleAddError
<1>8. Simple(t, Tag("NAME_EXPR"), TRUE)
  BY SimpleTokens
<1>9. Simple(t, Bytes("None"), TRUE)
  BY SimpleTokens
<1>10. Simple(t, Location(at), TRUE)
  BY <1>1, SimpleLocation
<1>11. Simple(t, AddError(at) \o Tag("NAME_EXPR") \o Bytes("None") \o Location(at), TRUE)
  BY <1>7, <1>8, <1>9, <1>10, SimpleJoin4
<1> DEFINE error == AddError(at) \o Tag("NAME_EXPR") \o Bytes("None") \o Location(at)
<1>12. Simple(t, error, TRUE)
  BY <1>11
<1>13. DictCompKey(n, at) =
        IF cache_version >= CV_DICT_KEY_OPT THEN Optional(n, at, 1)
        ELSE IF n.args[1] # Absent THEN Child(n, at, 1)
        ELSE error
  BY DEF DictCompKey
<1> HIDE DEF error
<1> QED
  BY <1>5, <1>6, <1>12, <1>13, Zenon

-----------------------------------------------------------------------------
(* Strings.                                                                  *)

LEMMA SimpleStringLayout ==
    ASSUME NEW t, NEW c, NEW n \in Nodes
    PROVE  Simple(t, StringLayout(n), c)
<1>1. IsSeq(n.args)
  BY ArgsAreNodes DEF IsSeq
<1> DEFINE checks == [i \in DOMAIN n.args |-> Check(n.args[i])]
<1>2. StringLayout(n) = Bytes(ValueOf(n.args)) \o ResetSurrogates \o FlattenSeq(checks)
  BY DEF StringLayout, Each
<1>3. checks = [i \in DOMAIN n.args |-> checks[i]]
  OBVIOUS
<1>4. \A i \in DOMAIN n.args : Simple(t, checks[i], c)
  BY SimpleSteps
<1> HIDE DEF checks
<1>5. Simple(t, Bytes(ValueOf(n.args)), c)
  BY SimpleTokens
<1>6. Simple(t, ResetSurrogates, c)
  BY SimpleSteps
<1>7. Simple(t, FlattenSeq(checks), c)
  BY <1>1, <1>3, <1>4, SimpleParts
<1>8. Simple(t, Bytes(ValueOf(n.args)) \o ResetSurrogates \o FlattenSeq(checks), c)
  BY <1>5, <1>6, <1>7, SimpleJoin3
<1> QED
  BY <1>2, <1>8

LEMMA SimpleLiteral ==
    ASSUME NEW t, NEW n, NEW at, Anchored(t, n, at)
    PROVE  Simple(t, LiteralLayout(n, at), TRUE)
<1>1. InFile(t, at)
  BY AnchoredInFile
<1>2. Simple(t, Bytes(Value(n)), TRUE)
  BY SimpleTokens
<1>3. Simple(t, Check(n), TRUE)
  BY SimpleSteps
<1>4. Simple(t, Location(at), TRUE)
  BY <1>1, SimpleLocation
<1>5. Simple(t, Bytes(Value(n)) \o Check(n) \o Location(at), TRUE)
  BY <1>2, <1>3, <1>4, SimpleJoin3
<1> QED
  BY <1>5 DEF LiteralLayout

LEMMA SimpleConversion ==
    ASSUME NEW t, NEW e, NEW mark
    PROVE  Simple(t, Conversion(e, mark), TRUE)
<1>1. Simple(t, Bool(TRUE), TRUE)
  BY SimpleTokens
<1>2. Simple(t, Bytes(mark), TRUE)
  BY SimpleTokens
<1>3. Simple(t, Bool(TRUE) \o Bytes(mark), TRUE)
  BY <1>1, <1>2, SimpleJoin
<1>4. Simple(t, Bool(FALSE), TRUE)
  BY SimpleTokens
<1>5. Conversion(e, mark) = IF e.attr = "" THEN Bool(FALSE) ELSE Bool(TRUE) \o Bytes(mark)
  BY DEF Conversion
<1> QED
  BY <1>3, <1>4, <1>5, Zenon

LEMMA Interpolations ==
    ASSUME NEW e \in Nodes, e.kind = "interpolation"
    PROVE  /\ 1 \in DOMAIN e.args /\ e.args[1].kind \in Serialized
           /\ 2 \in DOMAIN e.args /\ (e.args[2] # Absent => e.args[2].kind = "spec")
<1>1. ConsistsOf(e, <<Expr, Maybe({"spec"})>>, {})
  BY NodesAssumption DEF PartFields
<1>2. /\ 1 \in DOMAIN e.args /\ e.args[1].kind \in Expr
      /\ 2 \in DOMAIN e.args /\ e.args[2].kind \in Maybe({"spec"})
  BY <1>1, Fields2
<1>3. e.args[2] \in Nodes /\ e.args[1].kind \in Serialized
  BY <1>2, ArgsAreNodes, KindsAreSerialized DEF Expr
<1>4. e.args[2].kind = "absent" => e.args[2] = Absent
  BY <1>3, ArgsAreNodes
<1> QED
  BY <1>2, <1>3, <1>4 DEF Maybe

LEMMA SimpleDebugText ==
    ASSUME NEW t, NEW e, NEW at, Anchored(t, e, at), e.kind = "interpolation"
    PROVE  Simple(t, DebugText(e, at), TRUE)
<1>1. e \in Nodes /\ 1 \in DOMAIN e.args
  BY Interpolations DEF Anchored
<1>2. InFile(t, In(at, 1))
  BY <1>1, Below, AnchoredInFile
<1>3. Simple(t, Bytes(e.text), TRUE)
  BY SimpleTokens
<1>4. Simple(t, Location(In(at, 1)), TRUE)
  BY <1>2, SimpleLocation
<1>5. Simple(t, Bytes(e.text) \o Location(In(at, 1)), TRUE)
  BY <1>3, <1>4, SimpleJoin
<1> QED
  BY <1>5, SimpleEmpty, Zenon DEF DebugText

LEMMA SimpleSpec ==
    ASSUME NEW t, NEW e, NEW at, Anchored(t, e, at), e.kind = "interpolation"
    PROVE  Simple(t, SpecLayout(e, at), TRUE)
<1>1. e \in Nodes /\ 2 \in DOMAIN e.args /\ (e.args[2] # Absent => e.args[2].kind = "spec")
  BY Interpolations DEF Anchored
<1>2. CASE e.args[2] = Absent
  <2>1. SpecLayout(e, at) = Bool(FALSE)
    BY <1>2 DEF SpecLayout
  <2> QED
    BY <2>1, SimpleTokens
<1>3. CASE e.args[2] # Absent
  <2>1. Anchored(t, e.args[2], In(at, 2)) /\ e.args[2].kind = "spec"
    BY <1>1, <1>3, Below
  <2>2. InFile(t, In(at, 2))
    BY <2>1, AnchoredInFile
  <2>3. SpecLayout(e, at) = Bool(TRUE) \o SerializeElements(e.args[2], In(at, 2)) \o Location(In(at, 2))
    BY <1>3, Zenon DEF SpecLayout
  <2>4. Simple(t, Bool(TRUE), TRUE)
    BY SimpleTokens
  <2>5. Simple(t, SerializeElements(e.args[2], In(at, 2)), TRUE)
    BY <2>1, SimpleElements
  <2>6. Simple(t, Location(In(at, 2)), TRUE)
    BY <2>2, SimpleLocation
  <2>7. Simple(t, Bool(TRUE) \o SerializeElements(e.args[2], In(at, 2)) \o Location(In(at, 2)), TRUE)
    BY <2>4, <2>5, <2>6, SimpleJoin3
  <2> QED
    BY <2>3, <2>7
<1> QED
  BY <1>2, <1>3

LEMMA SimpleInterpolation ==
    ASSUME NEW t, NEW e, NEW place, Anchored(t, e, place), e.kind = "interpolation"
    PROVE  /\ Simple(t, Child(e, place, 1), TRUE)
           /\ Simple(t, SpecLayout(e, place), TRUE)
           /\ Simple(t, DebugText(e, place), TRUE)
  BY Interpolations, SimpleChild, SimpleSpec, SimpleDebugText DEF Anchored

LEMMA SimpleElementsLayout ==
    ASSUME NEW t, NEW n, NEW at, Anchored(t, n, at), n.kind \in {"elements", "spec"}
    PROVE  Simple(t, ElementsLayout(n.args, at), TRUE)
<1>1. n \in Nodes /\ IsSeq(n.args) /\ DOMAIN n.args = 1..Len(n.args)
  BY ArgsAreNodes DEF Anchored, IsSeq
<1>2. \A i \in DOMAIN n.args : n.args[i].kind \in {"part", "interpolation"}
  <2>1. ConsistsOf(n, <<>>, {"part", "interpolation"})
    BY <1>1, NodesAssumption DEF PartFields
  <2>2. \A i \in DOMAIN n.args : i > 0 => n.args[i].kind \in {"part", "interpolation"}
    BY <1>1, <2>1, Fields0
  <2> QED
    BY <1>1, <2>2
<1> DEFINE Element(i) ==
               LET e == n.args[i]  place == In(at, i) IN
               IF e.kind = "part" THEN LiteralLayout(e, place)
               ELSE   DebugText(e, place)
                   \o Tag("FSTRING_INTERPOLATION") \o Child(e, place, 1)
                   \o Conversion(UseR(e), <<"!", UseR(e).attr>>) \o SpecLayout(e, place) \o End
           elements == [i \in DOMAIN n.args |-> Element(i)]
           count == ElementCount(n.args)
<1>3. ElementsLayout(n.args, at) = TaggedInt(count) \o FlattenSeq(elements)
  BY DEF ElementsLayout, Each
<1>4. elements = [i \in DOMAIN n.args |-> elements[i]]
  OBVIOUS
<1> HIDE DEF count
<1>5. ASSUME NEW i \in DOMAIN n.args
      PROVE  Simple(t, elements[i], TRUE)
  <2> DEFINE e == n.args[i]
             place == In(at, i)
             conversion == Conversion(UseR(e), <<"!", UseR(e).attr>>)
  <2>1. Anchored(t, e, place) /\ e.kind \in {"part", "interpolation"}
    BY <1>2, Below
  <2>2. elements[i] =
            IF e.kind = "part" THEN LiteralLayout(e, place)
            ELSE   DebugText(e, place) \o Tag("FSTRING_INTERPOLATION") \o Child(e, place, 1)
                \o conversion \o SpecLayout(e, place) \o End
    BY Zenon
  <2>3. Simple(t, conversion, TRUE)
    BY SimpleConversion
  <2> HIDE DEF e, place, conversion, elements
  <2>4. CASE e.kind = "part"
    BY <2>1, <2>2, <2>4, SimpleLiteral
  <2>5. CASE e.kind = "interpolation"
    <3>1. Simple(t, Child(e, place, 1), TRUE) /\ Simple(t, SpecLayout(e, place), TRUE) /\ Simple(t, DebugText(e, place), TRUE)
      BY <2>1, <2>5, SimpleInterpolation
    <3>2. Simple(t, Tag("FSTRING_INTERPOLATION"), TRUE)
      BY SimpleTokens
    <3>3. Simple(t, End, TRUE)
      BY SimpleMarks
    <3>4. Simple(t, DebugText(e, place) \o Tag("FSTRING_INTERPOLATION") \o Child(e, place, 1) \o conversion \o SpecLayout(e, place) \o End, TRUE)
      BY <3>1, <3>2, <2>3, <3>3, SimpleJoin6
    <3>5. e.kind # "part"
      BY <2>5
    <3> QED
      BY <2>2, <3>4, <3>5, Zenon
  <2> QED
    BY <2>1, <2>4, <2>5
<1> HIDE DEF elements
<1>6. Simple(t, TaggedInt(count), TRUE)
  BY SimpleTokens
<1>7. Simple(t, FlattenSeq(elements), TRUE)
  BY <1>1, <1>4, <1>5, SimpleParts
<1>8. Simple(t, TaggedInt(count) \o FlattenSeq(elements), TRUE)
  BY <1>6, <1>7, SimpleJoin
<1> QED
  BY <1>3, <1>8

LEMMA SimpleFString ==
    ASSUME NEW t, NEW n, NEW at, Anchored(t, n, at), n.kind = "fstring"
    PROVE  Simple(t, FStringLayout(n, at), TRUE)
<1>1. n \in Nodes /\ IsSeq(n.args) /\ DOMAIN n.args = 1..Len(n.args)
  BY ArgsAreNodes DEF Anchored, IsSeq
<1>2. \A i \in DOMAIN n.args : n.args[i].kind \in {"elements", "part"}
  <2>1. ConsistsOf(n, <<>>, {"elements", "part"})
    BY <1>1, NodesAssumption DEF ExprFields
  <2>2. \A i \in DOMAIN n.args : i > 0 => n.args[i].kind \in {"elements", "part"}
    BY <1>1, <2>1, Fields0
  <2> QED
    BY <1>1, <2>2
<1> DEFINE Part(i) == LET part == n.args[i] IN
               IF part.kind = "elements" THEN Bool(TRUE) \o ElementsLayout(part.args, In(at, i))
               ELSE Bool(FALSE) \o LiteralLayout(part, In(at, i))
           parts == [i \in DOMAIN n.args |-> Part(i)]
<1>3. FStringLayout(n, at) =
        TaggedInt(Len(n.args)) \o ResetSurrogates \o FlattenSeq(parts) \o WriteSurrogates
  BY DEF FStringLayout, Each
<1>4. parts = [i \in DOMAIN n.args |-> parts[i]]
  OBVIOUS
<1>5. ASSUME NEW i \in DOMAIN n.args
      PROVE  Simple(t, parts[i], TRUE)
  <2> DEFINE e == n.args[i]
             place == In(at, i)
  <2>1. Anchored(t, e, place) /\ e.kind \in {"elements", "part"}
    BY <1>2, Below
  <2>2. parts[i] = IF e.kind = "elements" THEN Bool(TRUE) \o ElementsLayout(e.args, place)
                   ELSE Bool(FALSE) \o LiteralLayout(e, place)
    BY Zenon
  <2> HIDE DEF e, place, parts
  <2>3. Simple(t, Bool(TRUE), TRUE) /\ Simple(t, Bool(FALSE), TRUE)
    BY SimpleTokens
  <2>4. CASE e.kind = "elements"
    <3>1. Simple(t, ElementsLayout(e.args, place), TRUE)
      BY <2>1, <2>4, SimpleElementsLayout
    <3>2. Simple(t, Bool(TRUE) \o ElementsLayout(e.args, place), TRUE)
      BY <2>3, <3>1, SimpleJoin
    <3> QED
      BY <2>2, <2>4, <3>2, Zenon
  <2>5. CASE e.kind # "elements"
    <3>1. Simple(t, LiteralLayout(e, place), TRUE)
      BY <2>1, SimpleLiteral
    <3>2. Simple(t, Bool(FALSE) \o LiteralLayout(e, place), TRUE)
      BY <2>3, <3>1, SimpleJoin
    <3> QED
      BY <2>2, <2>5, <3>2, Zenon
  <2> QED
    BY <2>4, <2>5
<1> HIDE DEF parts
<1>6. Simple(t, TaggedInt(Len(n.args)), TRUE)
  BY SimpleTokens
<1>7. Simple(t, ResetSurrogates, TRUE)
  BY SimpleSteps
<1>8. Simple(t, FlattenSeq(parts), TRUE)
  BY <1>1, <1>4, <1>5, SimpleParts
<1>9. Simple(t, WriteSurrogates, TRUE)
  BY SimpleSteps
<1>10. Simple(t, TaggedInt(Len(n.args)) \o ResetSurrogates \o FlattenSeq(parts) \o WriteSurrogates, TRUE)
  BY <1>6, <1>7, <1>8, <1>9, SimpleJoin4
<1> QED
  BY <1>3, <1>10

LEMMA SimpleTString ==
    ASSUME NEW t, NEW n, NEW at, Anchored(t, n, at), n.kind = "tstring"
    PROVE  Simple(t, TStringLayout(n, at), TRUE)
<1>1. n \in Nodes /\ IsSeq(n.args) /\ DOMAIN n.args = 1..Len(n.args)
  BY ArgsAreNodes DEF Anchored, IsSeq
<1>2. \A i \in DOMAIN n.args : n.args[i].kind \in {"part", "interpolation"}
  <2>1. ConsistsOf(n, <<>>, {"part", "interpolation"})
    BY <1>1, NodesAssumption DEF ExprFields
  <2>2. \A i \in DOMAIN n.args : i > 0 => n.args[i].kind \in {"part", "interpolation"}
    BY <1>1, <2>1, Fields0
  <2> QED
    BY <1>1, <2>2
<1> DEFINE Element(i) == LET e == n.args[i]  place == In(at, i) IN
               IF e.kind = "part" THEN Bool(FALSE) \o LiteralLayout(e, place)
               ELSE   Bool(TRUE) \o Child(e, place, 1) \o Bytes(e.args[1].kind)
                   \o Conversion(e, <<e.attr>>) \o SpecLayout(e, place)
           elements == [i \in DOMAIN n.args |-> Element(i)]
<1>3. TStringLayout(n, at) =
        TaggedInt(Len(n.args)) \o ResetSurrogates \o FlattenSeq(elements) \o WriteSurrogates
  BY DEF TStringLayout, Each
<1>4. elements = [i \in DOMAIN n.args |-> elements[i]]
  OBVIOUS
<1>5. ASSUME NEW i \in DOMAIN n.args
      PROVE  Simple(t, elements[i], TRUE)
  <2> DEFINE e == n.args[i]
             place == In(at, i)
             conversion == Conversion(e, <<e.attr>>)
  <2>1. Anchored(t, e, place) /\ e.kind \in {"part", "interpolation"}
    BY <1>2, Below
  <2>2. elements[i] =
            IF e.kind = "part" THEN Bool(FALSE) \o LiteralLayout(e, place)
            ELSE Bool(TRUE) \o Child(e, place, 1) \o Bytes(e.args[1].kind) \o conversion \o SpecLayout(e, place)
    BY Zenon
  <2>3. Simple(t, conversion, TRUE)
    BY SimpleConversion
  <2> HIDE DEF e, place, conversion, elements
  <2>4. CASE e.kind = "part"
    <3>1. Simple(t, LiteralLayout(e, place), TRUE)
      BY <2>1, SimpleLiteral
    <3>2. Simple(t, Bool(FALSE), TRUE)
      BY SimpleTokens
    <3>3. Simple(t, Bool(FALSE) \o LiteralLayout(e, place), TRUE)
      BY <3>1, <3>2, SimpleJoin
    <3> QED
      BY <2>2, <2>4, <3>3, Zenon
  <2>5. CASE e.kind = "interpolation"
    <3>1. Simple(t, Child(e, place, 1), TRUE) /\ Simple(t, SpecLayout(e, place), TRUE)
      BY <2>1, <2>5, SimpleInterpolation
    <3>2. Simple(t, Bool(TRUE), TRUE)
      BY SimpleTokens
    <3>3. Simple(t, Bytes(e.args[1].kind), TRUE)
      BY SimpleTokens
    <3>4. Simple(t, Bool(TRUE) \o Child(e, place, 1) \o Bytes(e.args[1].kind) \o conversion \o SpecLayout(e, place), TRUE)
      BY <3>2, <3>1, <3>3, <2>3, SimpleJoin5
    <3>5. e.kind # "part"
      BY <2>5
    <3> QED
      BY <2>2, <3>4, <3>5, Zenon
  <2> QED
    BY <2>1, <2>4, <2>5
<1> HIDE DEF elements
<1>6. Simple(t, TaggedInt(Len(n.args)), TRUE)
  BY SimpleTokens
<1>7. Simple(t, ResetSurrogates, TRUE)
  BY SimpleSteps
<1>8. Simple(t, FlattenSeq(elements), TRUE)
  BY <1>1, <1>4, <1>5, SimpleParts
<1>9. Simple(t, WriteSurrogates, TRUE)
  BY SimpleSteps
<1>10. Simple(t, TaggedInt(Len(n.args)) \o ResetSurrogates \o FlattenSeq(elements) \o WriteSurrogates, TRUE)
  BY <1>6, <1>7, <1>8, <1>9, SimpleJoin4
<1> QED
  BY <1>3, <1>10

-----------------------------------------------------------------------------
(* What an expression is written as.                                         *)

LEMMA TagKinds ==
    /\ DOMAIN InOrder = {"subscript", "yield_from", "await", "named", "starred", "ellipsis"}
    /\ DOMAIN ComprehensionTag = {"generator", "listcomp", "setcomp"}
  BY DEF InOrder, ComprehensionTag

LEMMA ChildKinds ==
    ASSUME NEW n \in Nodes, n.kind \in ExprKinds
    PROVE  /\ n.kind \in UnaryKinds \cup BinaryKinds \cup DisplayKinds \cup {"ellipsis", "boolop", "if", "compare"} =>
                 \A i \in DOMAIN n.args : n.args[i].kind \in Serialized
           /\ n.kind \in {"attribute", "compare"} \cup GeneratorKinds =>
                 1 \in DOMAIN n.args /\ n.args[1].kind \in Serialized /\ Len(n.args) >= 1
           /\ n.kind \in GeneratorKinds =>
                 \A i \in DOMAIN n.args : i > 1 => n.args[i].kind \in {"comprehension"}
           /\ n.kind = "dictcomp" =>
                 /\ 2 \in DOMAIN n.args /\ n.args[2].kind \in Serialized /\ Len(n.args) >= 2
                 /\ \A i \in DOMAIN n.args : i > 2 => n.args[i].kind \in {"comprehension"}
           /\ n.kind = "yield" => 1 \in DOMAIN n.args /\ n.args[1].kind \in Serialized \cup {"absent"}
           /\ n.kind = "slice" => \A i \in 1..3 :
                 i \in DOMAIN n.args /\ n.args[i].kind \in Serialized \cup {"absent"}
           /\ n.kind = "if" => \A i \in 1..3 : i \in DOMAIN n.args
<1>0. ExprFields(n) /\ DOMAIN n.args = 1..Len(n.args) /\ Len(n.args) \in Nat
  BY NodesAssumption, ArgsAreNodes
<1>1. n.kind \in UnaryKinds =>
        \A i \in DOMAIN n.args : n.args[i].kind \in Serialized
  <2>1. SUFFICES ASSUME n.kind \in UnaryKinds PROVE \A i \in DOMAIN n.args : n.args[i].kind \in Serialized
    OBVIOUS
  <2>2. ConsistsOf(n, <<Expr>>, {})
    BY <1>0, <2>1 DEF ExprFields
  <2>3. Len(n.args) = 1 /\ n.args[1].kind \in Expr
    BY <2>2, Fields1
  <2> QED
    BY <1>0, <2>3, KindsAreSerialized DEF Expr
<1>2. n.kind \in BinaryKinds =>
        \A i \in DOMAIN n.args : n.args[i].kind \in Serialized
  <2>1. SUFFICES ASSUME n.kind \in BinaryKinds PROVE \A i \in DOMAIN n.args : n.args[i].kind \in Serialized
    OBVIOUS
  <2>2. ConsistsOf(n, <<Expr, Expr>>, {})
    BY <1>0, <2>1 DEF ExprFields
  <2>3. Len(n.args) = 2 /\ n.args[1].kind \in Expr /\ n.args[2].kind \in Expr
    BY <2>2, Fields2
  <2> QED
    BY <1>0, <2>3, KindsAreSerialized DEF Expr
<1>3. n.kind \in DisplayKinds \cup {"boolop"} =>
        \A i \in DOMAIN n.args : n.args[i].kind \in Serialized
  <2>1. SUFFICES ASSUME n.kind \in DisplayKinds \cup {"boolop"} PROVE \A i \in DOMAIN n.args : n.args[i].kind \in Serialized
    OBVIOUS
  <2>2. ConsistsOf(n, <<>>, Expr)
    BY <1>0, <2>1 DEF ExprFields
  <2>3. \A i \in DOMAIN n.args : i > 0 => n.args[i].kind \in Expr
    BY <2>2, Fields0
  <2> QED
    BY <1>0, <2>3, KindsAreSerialized DEF Expr
<1>4. n.kind = "ellipsis" =>
        \A i \in DOMAIN n.args : n.args[i].kind \in Serialized
  <2>1. SUFFICES ASSUME n.kind = "ellipsis" PROVE \A i \in DOMAIN n.args : n.args[i].kind \in Serialized
    OBVIOUS
  <2>2. ConsistsOf(n, <<>>, {})
    BY <1>0, <2>1 DEF ExprFields
  <2>3. Len(n.args) = 0
    BY <2>2, Fields0
  <2> QED
    BY <1>0, <2>3
<1>5. n.kind = "if" =>
        /\ \A i \in DOMAIN n.args : n.args[i].kind \in Serialized
        /\ \A i \in 1..3 : i \in DOMAIN n.args
  <2>1. SUFFICES ASSUME n.kind = "if"
                 PROVE  /\ \A i \in DOMAIN n.args : n.args[i].kind \in Serialized
                        /\ \A i \in 1..3 : i \in DOMAIN n.args
    OBVIOUS
  <2>2. ConsistsOf(n, <<Expr, Expr, Expr>>, {})
    BY <1>0, <2>1 DEF ExprFields
  <2>3. Len(n.args) = 3 /\ n.args[1].kind \in Expr /\ n.args[2].kind \in Expr /\ n.args[3].kind \in Expr
    BY <2>2, Fields3
  <2> QED
    BY <1>0, <2>3, KindsAreSerialized DEF Expr
<1>6. n.kind = "compare" =>
        /\ 1 \in DOMAIN n.args /\ Len(n.args) >= 1 /\ \A i \in DOMAIN n.args : n.args[i].kind \in Serialized
  <2>1. SUFFICES ASSUME n.kind = "compare"
                 PROVE  1 \in DOMAIN n.args /\ Len(n.args) >= 1 /\ \A i \in DOMAIN n.args : n.args[i].kind \in Serialized
    OBVIOUS
  <2>2. ConsistsOf(n, <<Expr>>, Expr)
    BY <1>0, <2>1 DEF ExprFields
  <2>3. /\ Len(n.args) >= 1 /\ 1 \in DOMAIN n.args /\ n.args[1].kind \in Expr
        /\ \A i \in DOMAIN n.args : i > 1 => n.args[i].kind \in Expr
    BY <2>2, Fields1
  <2>4. \A i \in DOMAIN n.args : i = 1 \/ i > 1
    BY <1>0
  <2> QED
    BY <2>3, <2>4, KindsAreSerialized DEF Expr
<1>7. n.kind \in GeneratorKinds =>
        /\ 1 \in DOMAIN n.args /\ n.args[1].kind \in Serialized /\ Len(n.args) >= 1
        /\ \A i \in DOMAIN n.args : i > 1 => n.args[i].kind \in {"comprehension"}
  <2>1. SUFFICES ASSUME n.kind \in GeneratorKinds
                 PROVE  /\ 1 \in DOMAIN n.args /\ n.args[1].kind \in Serialized /\ Len(n.args) >= 1
                        /\ \A i \in DOMAIN n.args : i > 1 => n.args[i].kind \in {"comprehension"}
    OBVIOUS
  <2>2. ConsistsOf(n, <<Expr>>, {"comprehension"})
    BY <1>0, <2>1 DEF ExprFields
  <2>3. /\ Len(n.args) >= 1 /\ 1 \in DOMAIN n.args /\ n.args[1].kind \in Expr
        /\ \A i \in DOMAIN n.args : i > 1 => n.args[i].kind \in {"comprehension"}
    BY <2>2, Fields1
  <2> QED
    BY <2>3, KindsAreSerialized DEF Expr
<1>8. n.kind = "dictcomp" =>
        /\ 2 \in DOMAIN n.args /\ n.args[2].kind \in Serialized /\ Len(n.args) >= 2
        /\ \A i \in DOMAIN n.args : i > 2 => n.args[i].kind \in {"comprehension"}
  <2>1. SUFFICES ASSUME n.kind = "dictcomp"
                 PROVE  /\ 2 \in DOMAIN n.args /\ n.args[2].kind \in Serialized /\ Len(n.args) >= 2
                        /\ \A i \in DOMAIN n.args : i > 2 => n.args[i].kind \in {"comprehension"}
    OBVIOUS
  <2>2. ConsistsOf(n, <<OptionalExpr, Expr>>, {"comprehension"})
    BY <1>0, <2>1 DEF ExprFields
  <2>3. /\ Len(n.args) >= 2 /\ 2 \in DOMAIN n.args /\ n.args[2].kind \in Expr
        /\ \A i \in DOMAIN n.args : i > 2 => n.args[i].kind \in {"comprehension"}
    BY <2>2, Fields2
  <2> QED
    BY <2>3, KindsAreSerialized DEF Expr
<1>9. n.kind = "yield" => 1 \in DOMAIN n.args /\ n.args[1].kind \in Serialized \cup {"absent"}
  <2>1. SUFFICES ASSUME n.kind = "yield" PROVE 1 \in DOMAIN n.args /\ n.args[1].kind \in Serialized \cup {"absent"}
    OBVIOUS
  <2>2. ConsistsOf(n, <<OptionalExpr>>, {})
    BY <1>0, <2>1 DEF ExprFields
  <2>3. 1 \in DOMAIN n.args /\ n.args[1].kind \in OptionalExpr
    BY <2>2, Fields1
  <2> QED
    BY <2>3, KindsAreSerialized DEF OptionalExpr, Maybe
<1>10. n.kind = "slice" => \A i \in 1..3 :
          i \in DOMAIN n.args /\ n.args[i].kind \in Serialized \cup {"absent"}
  <2>1. SUFFICES ASSUME n.kind = "slice", NEW i \in 1..3
                 PROVE  i \in DOMAIN n.args /\ n.args[i].kind \in Serialized \cup {"absent"}
    OBVIOUS
  <2>2. ConsistsOf(n, <<OptionalExpr, OptionalExpr, OptionalExpr>>, {})
    BY <1>0, <2>1 DEF ExprFields
  <2>3. /\ Len(n.args) = 3 /\ n.args[1].kind \in OptionalExpr /\ n.args[2].kind \in OptionalExpr
        /\ n.args[3].kind \in OptionalExpr
    BY <2>2, Fields3
  <2> QED
    BY <1>0, <2>3, KindsAreSerialized DEF OptionalExpr, Maybe
<1>11. n.kind \in UnaryKinds => 1 \in DOMAIN n.args
  <2>1. SUFFICES ASSUME n.kind \in UnaryKinds PROVE 1 \in DOMAIN n.args
    OBVIOUS
  <2>2. ConsistsOf(n, <<Expr>>, {})
    BY <1>0, <2>1 DEF ExprFields
  <2> QED
    BY <2>2, Fields1
<1>12. "attribute" \in UnaryKinds
  BY DEF UnaryKinds
<1>13. 1 \in DOMAIN n.args => Len(n.args) >= 1
  BY <1>0
<1> QED
  BY <1>1, <1>2, <1>3, <1>4, <1>5, <1>6, <1>7, <1>8, <1>9, <1>10, <1>11, <1>12, <1>13

LEMMA SimpleLists ==
    ASSUME NEW t, NEW n, NEW at, Anchored(t, n, at),
           \A i \in DOMAIN n.args : n.args[i].kind \in Serialized
    PROVE  /\ Simple(t, List(n, at, 1), TRUE)
           /\ Len(n.args) >= 1 => Simple(t, List(n, at, 2), TRUE)
<1>1. Len(n.args) \in Nat
  BY ArgsAreNodes DEF Anchored
<1>2. 1 \in Nat /\ 1 >= 1 /\ 1 <= Len(n.args) + 1 /\ 2 \in Nat /\ 2 >= 1
  BY <1>1
<1>3. Len(n.args) >= 1 => 2 <= Len(n.args) + 1
  BY <1>1
<1> QED
  BY <1>2, <1>3, SimpleList

LEMMA SimpleConstants ==
    ASSUME NEW t, NEW c, NEW m \in Int, m >= 1, NEW v
    PROVE  Simple(t, Ints([i \in 1..(m - 1) |-> v]), c)
<1>1. [i \in 1..(m - 1) |-> v] \in Seq({v})
  <2>1. [i \in 1..(m - 1) |-> v] \in [1..(m - 1) -> {v}] /\ m - 1 \in Nat
    OBVIOUS
  <2> DEFINE f == [i \in 1..(m - 1) |-> v]
  <2> HIDE DEF f
  <2> QED
    BY <2>1 DEF f
<1> QED
  BY <1>1, SimpleInts DEF IsSeq

LEMMA SimpleExprBody ==
    ASSUME NEW t, NEW n, NEW at, Anchored(t, n, at), n.kind \in ExprKinds
    PROVE  Simple(t, ExprBody(n, at), TRUE)
<1>1. n \in Nodes /\ Len(n.args) \in Int
  BY ArgsAreNodes DEF Anchored
<1>2. CASE n.kind \in {"name", "bool", "none"}
  <2>1. n.kind \in {"name", "bool", "none"}
    BY <1>2
  <2>3. Simple(t, Tag("NAME_EXPR"), TRUE)
    BY SimpleTokens
  <2>4. Simple(t, Bytes(n.attr), TRUE)
    BY SimpleTokens
  <2>5. Simple(t, Tag("NAME_EXPR") \o Bytes(n.attr), TRUE)
    BY <2>3, <2>4, SimpleJoin
  <2>6. ExprBody(n, at) = Tag("NAME_EXPR") \o Bytes(n.attr)
    BY <1>2, TagKinds DEF ExprBody
  <2> QED
    BY <2>5, <2>6
<1>3. CASE n.kind \in {"subscript", "yield_from", "await", "named", "starred", "ellipsis"}
  <2>1. n.kind \in {"subscript", "yield_from", "await", "named", "starred", "ellipsis"}
    BY <1>3
  <2>2. \A i \in DOMAIN n.args : n.args[i].kind \in Serialized
    BY <1>1, <1>3, ChildKinds DEF UnaryKinds, BinaryKinds, DisplayKinds, GeneratorKinds
  <2>3. Simple(t, Tag(InOrder[n.kind]), TRUE)
    BY SimpleTokens
  <2>4. Simple(t, All(n, at), TRUE)
    BY <2>1, <2>2, SimpleAll
  <2>5. Simple(t, Tag(InOrder[n.kind]) \o All(n, at), TRUE)
    BY <2>3, <2>4, SimpleJoin
  <2>6. ExprBody(n, at) = Tag(InOrder[n.kind]) \o All(n, at)
    BY <1>3, TagKinds DEF ExprBody
  <2> QED
    BY <2>5, <2>6
<1>4. CASE n.kind = "attribute"
  <2>1. n.kind = "attribute"
    BY <1>4
  <2>2. 1 \in DOMAIN n.args /\ n.args[1].kind \in Serialized
    BY <1>1, <1>4, ChildKinds DEF UnaryKinds, BinaryKinds, DisplayKinds, GeneratorKinds
  <2>3. Simple(t, Tag("MEMBER_EXPR"), TRUE)
    BY SimpleTokens
  <2>4. Simple(t, Child(n, at, 1), TRUE)
    BY <2>2, SimpleChild
  <2>5. Simple(t, Bytes(n.attr), TRUE)
    BY SimpleTokens
  <2>6. Simple(t, Tag("MEMBER_EXPR") \o Child(n, at, 1) \o Bytes(n.attr), TRUE)
    BY <2>3, <2>4, <2>5, SimpleJoin3
  <2>7. ExprBody(n, at) = Tag("MEMBER_EXPR") \o Child(n, at, 1) \o Bytes(n.attr)
    BY <1>4, TagKinds DEF ExprBody
  <2> QED
    BY <2>6, <2>7
<1>5. CASE n.kind = "str"
  <2>1. n.kind = "str"
    BY <1>5
  <2>3. Simple(t, Tag("STR_EXPR"), TRUE)
    BY SimpleTokens
  <2>4. Simple(t, StringLayout(n), TRUE)
    BY <1>1, SimpleStringLayout
  <2>5. Simple(t, WriteSurrogates, TRUE)
    BY SimpleSteps
  <2>6. Simple(t, Tag("STR_EXPR") \o StringLayout(n) \o WriteSurrogates, TRUE)
    BY <2>3, <2>4, <2>5, SimpleJoin3
  <2>7. ExprBody(n, at) = Tag("STR_EXPR") \o StringLayout(n) \o WriteSurrogates
    BY <1>5, TagKinds DEF ExprBody
  <2> QED
    BY <2>6, <2>7
<1>6. CASE n.kind = "call"
  <2>1. n.kind = "call"
    BY <1>6
  <2>3. Simple(t, Tag("CALL_EXPR"), TRUE)
    BY SimpleTokens
  <2>4. Simple(t, CallLayout(n, at), TRUE)
    BY <2>1, SimpleCall
  <2>5. Simple(t, Tag("CALL_EXPR") \o CallLayout(n, at), TRUE)
    BY <2>3, <2>4, SimpleJoin
  <2>6. ExprBody(n, at) = Tag("CALL_EXPR") \o CallLayout(n, at)
    BY <1>6, TagKinds DEF ExprBody
  <2> QED
    BY <2>5, <2>6
<1>7. CASE n.kind = "binop"
  <2>1. n.kind = "binop"
    BY <1>7
  <2>2. \A i \in DOMAIN n.args : n.args[i].kind \in Serialized
    BY <1>1, <1>7, ChildKinds DEF UnaryKinds, BinaryKinds, DisplayKinds, GeneratorKinds
  <2>3. Simple(t, Tag("OP_EXPR"), TRUE)
    BY SimpleTokens
  <2>4. Simple(t, Bytes(n.attr), TRUE)
    BY SimpleTokens
  <2>5. Simple(t, All(n, at), TRUE)
    BY <2>1, <2>2, SimpleAll
  <2>6. Simple(t, Tag("OP_EXPR") \o Bytes(n.attr) \o All(n, at), TRUE)
    BY <2>3, <2>4, <2>5, SimpleJoin3
  <2>7. ExprBody(n, at) = Tag("OP_EXPR") \o Bytes(n.attr) \o All(n, at)
    BY <1>7, TagKinds DEF ExprBody
  <2> QED
    BY <2>6, <2>7
<1>8. CASE n.kind = "int"
  <2>1. n.kind = "int"
    BY <1>8
  <2>3. Simple(t, Tag("INT_EXPR"), TRUE)
    BY SimpleTokens
  <2>4. Simple(t, TaggedInt(n.value), TRUE)
    BY SimpleTokens
  <2>5. Simple(t, Tag("INT_EXPR") \o TaggedInt(n.value), TRUE)
    BY <2>3, <2>4, SimpleJoin
  <2>6. ExprBody(n, at) = Tag("INT_EXPR") \o TaggedInt(n.value)
    BY <1>8, TagKinds DEF ExprBody
  <2> QED
    BY <2>5, <2>6
<1>9. CASE n.kind = "bigint"
  <2>1. n.kind = "bigint"
    BY <1>9
  <2>3. Simple(t, Tag("BIG_INT_EXPR"), TRUE)
    BY SimpleTokens
  <2>4. Simple(t, Bytes(n.attr), TRUE)
    BY SimpleTokens
  <2>5. Simple(t, Tag("BIG_INT_EXPR") \o Bytes(n.attr), TRUE)
    BY <2>3, <2>4, SimpleJoin
  <2>6. ExprBody(n, at) = Tag("BIG_INT_EXPR") \o Bytes(n.attr)
    BY <1>9, TagKinds DEF ExprBody
  <2> QED
    BY <2>5, <2>6
<1>10. CASE n.kind = "float"
  <2>1. n.kind = "float"
    BY <1>10
  <2>3. Simple(t, Tag("FLOAT_EXPR"), TRUE)
    BY SimpleTokens
  <2>4. Simple(t, Bytes(n.attr), TRUE)
    BY SimpleTokens
  <2>5. Simple(t, Tag("FLOAT_EXPR") \o Bytes(n.attr), TRUE)
    BY <2>3, <2>4, SimpleJoin
  <2>6. ExprBody(n, at) = Tag("FLOAT_EXPR") \o Bytes(n.attr)
    BY <1>10, TagKinds DEF ExprBody
  <2> QED
    BY <2>5, <2>6
<1>11. CASE n.kind = "complex"
  <2>1. n.kind = "complex"
    BY <1>11
  <2>3. Simple(t, Tag("COMPLEX_EXPR"), TRUE)
    BY SimpleTokens
  <2>4. Simple(t, Bytes(n.attr), TRUE)
    BY SimpleTokens
  <2>5. Simple(t, Tag("COMPLEX_EXPR") \o Bytes(n.attr) \o Bytes(n.attr), TRUE)
    BY <2>3, <2>4, SimpleJoin3
  <2>6. ExprBody(n, at) = Tag("COMPLEX_EXPR") \o Bytes(n.attr) \o Bytes(n.attr)
    BY <1>11, TagKinds DEF ExprBody
  <2> QED
    BY <2>5, <2>6
<1>12. CASE n.kind \in {"list", "tuple", "set"}
  <2>1. n.kind \in {"list", "tuple", "set"}
    BY <1>12
  <2>2. \A i \in DOMAIN n.args : n.args[i].kind \in Serialized
    BY <1>1, <1>12, ChildKinds DEF UnaryKinds, BinaryKinds, DisplayKinds, GeneratorKinds
  <2>3. Simple(t, Tag(ListTag(n)), TRUE)
    BY SimpleTokens
  <2>4. Simple(t, List(n, at, 1), TRUE)
    BY <2>2, SimpleLists
  <2>5. Simple(t, Tag(ListTag(n)) \o List(n, at, 1), TRUE)
    BY <2>3, <2>4, SimpleJoin
  <2>6. ExprBody(n, at) = Tag(ListTag(n)) \o List(n, at, 1)
    BY <1>12, TagKinds DEF ExprBody
  <2> QED
    BY <2>5, <2>6
<1>13. CASE n.kind \in {"generator", "listcomp", "setcomp"}
  <2>1. n.kind \in {"generator", "listcomp", "setcomp"}
    BY <1>13
  <2>2. /\ 1 \in DOMAIN n.args /\ n.args[1].kind \in Serialized 
        /\ Len(n.args) >= 1 /\ \A i \in DOMAIN n.args : i > 1 => n.args[i].kind \in {"comprehension"}
    BY <1>1, <1>13, ChildKinds DEF UnaryKinds, BinaryKinds, DisplayKinds, GeneratorKinds
  <2>3. Simple(t, Tag(ComprehensionTag[n.kind]), TRUE)
    BY SimpleTokens
  <2>4. Simple(t, Child(n, at, 1), TRUE)
    BY <2>2, SimpleChild
  <2>5. Simple(t, GeneratorsLayout(n, at, 1), TRUE)
    BY <2>2, SimpleGenerators
  <2>6. Simple(t, Tag(ComprehensionTag[n.kind]) \o Child(n, at, 1) \o GeneratorsLayout(n, at, 1), TRUE)
    BY <2>3, <2>4, <2>5, SimpleJoin3
  <2>7. ExprBody(n, at) = Tag(ComprehensionTag[n.kind]) \o Child(n, at, 1) \o GeneratorsLayout(n, at, 1)
    BY <1>13, TagKinds DEF ExprBody
  <2> QED
    BY <2>6, <2>7
<1>14. CASE n.kind = "dictcomp"
  <2>1. n.kind = "dictcomp"
    BY <1>14
  <2>2. /\ 2 \in DOMAIN n.args /\ n.args[2].kind \in Serialized 
        /\ Len(n.args) >= 2 /\ \A i \in DOMAIN n.args : i > 2 => n.args[i].kind \in {"comprehension"}
    BY <1>1, <1>14, ChildKinds DEF UnaryKinds, BinaryKinds, DisplayKinds, GeneratorKinds
  <2>3. Simple(t, Tag("DICT_COMPREHENSION"), TRUE)
    BY SimpleTokens
  <2>4. Simple(t, DictCompKey(n, at), TRUE)
    BY <2>1, SimpleDictCompKey
  <2>5. Simple(t, Child(n, at, 2), TRUE)
    BY <2>2, SimpleChild
  <2>6. Simple(t, GeneratorsLayout(n, at, 2), TRUE)
    BY <2>2, SimpleGenerators
  <2>7. Simple(t, Tag("DICT_COMPREHENSION") \o DictCompKey(n, at) \o Child(n, at, 2) \o GeneratorsLayout(n, at, 2), TRUE)
    BY <2>3, <2>4, <2>5, <2>6, SimpleJoin4
  <2>8. ExprBody(n, at) = Tag("DICT_COMPREHENSION") \o DictCompKey(n, at) \o Child(n, at, 2) \o GeneratorsLayout(n, at, 2)
    BY <1>14, TagKinds DEF ExprBody
  <2> QED
    BY <2>7, <2>8
<1>15. CASE n.kind = "yield"
  <2>1. n.kind = "yield"
    BY <1>15
  <2>2. 1 \in DOMAIN n.args /\ n.args[1].kind \in Serialized \cup {"absent"}
    BY <1>1, <1>15, ChildKinds DEF UnaryKinds, BinaryKinds, DisplayKinds, GeneratorKinds
  <2>3. Simple(t, Tag("YIELD_EXPR"), TRUE)
    BY SimpleTokens
  <2>4. Simple(t, Optional(n, at, 1), TRUE)
    BY <2>2, SimpleOptional
  <2>5. Simple(t, Tag("YIELD_EXPR") \o Optional(n, at, 1), TRUE)
    BY <2>3, <2>4, SimpleJoin
  <2>6. ExprBody(n, at) = Tag("YIELD_EXPR") \o Optional(n, at, 1)
    BY <1>15, TagKinds DEF ExprBody
  <2> QED
    BY <2>5, <2>6
<1>16. CASE n.kind = "boolop"
  <2>1. n.kind = "boolop"
    BY <1>16
  <2>2. \A i \in DOMAIN n.args : n.args[i].kind \in Serialized
    BY <1>1, <1>16, ChildKinds DEF UnaryKinds, BinaryKinds, DisplayKinds, GeneratorKinds
  <2>3. Simple(t, Tag("BOOL_OP_EXPR"), TRUE)
    BY SimpleTokens
  <2>4. Simple(t, Bytes(n.attr), TRUE)
    BY SimpleTokens
  <2>5. Simple(t, List(n, at, 1), TRUE)
    BY <2>2, SimpleLists
  <2>6. Simple(t, Tag("BOOL_OP_EXPR") \o Bytes(n.attr) \o List(n, at, 1), TRUE)
    BY <2>3, <2>4, <2>5, SimpleJoin3
  <2>7. ExprBody(n, at) = Tag("BOOL_OP_EXPR") \o Bytes(n.attr) \o List(n, at, 1)
    BY <1>16, TagKinds DEF ExprBody
  <2> QED
    BY <2>6, <2>7
<1>17. CASE n.kind = "compare"
  <2>1. n.kind = "compare"
    BY <1>17
  <2>2. /\ \A i \in DOMAIN n.args : n.args[i].kind \in Serialized 
        /\ 1 \in DOMAIN n.args /\ n.args[1].kind \in Serialized 
        /\ Len(n.args) >= 1
    BY <1>1, <1>17, ChildKinds DEF UnaryKinds, BinaryKinds, DisplayKinds, GeneratorKinds
  <2>3. Simple(t, Tag("COMPARISON_EXPR"), TRUE)
    BY SimpleTokens
  <2>4. Simple(t, Child(n, at, 1), TRUE)
    BY <2>2, SimpleChild
  <2>5. Simple(t, Ints([i \in 1..(Len(n.args) - 1) |-> n.value]), TRUE)
    BY <1>1, <2>2, SimpleConstants
  <2>6. Simple(t, List(n, at, 2), TRUE)
    BY <2>2, SimpleLists
  <2>7. Simple(t, Tag("COMPARISON_EXPR") \o Child(n, at, 1) \o Ints([i \in 1..(Len(n.args) - 1) |-> n.value]) \o List(n, at, 2), TRUE)
    BY <2>3, <2>4, <2>5, <2>6, SimpleJoin4
  <2>8. ExprBody(n, at) = Tag("COMPARISON_EXPR") \o Child(n, at, 1) \o Ints([i \in 1..(Len(n.args) - 1) |-> n.value]) \o List(n, at, 2)
    BY <1>17, TagKinds DEF ExprBody
  <2> QED
    BY <2>7, <2>8
<1>18. CASE n.kind = "if"
  <2>1. n.kind = "if"
    BY <1>18
  <2>2. /\ 2 \in DOMAIN n.args /\ n.args[2].kind \in Serialized 
        /\ 1 \in DOMAIN n.args /\ n.args[1].kind \in Serialized 
        /\ 3 \in DOMAIN n.args /\ n.args[3].kind \in Serialized
    BY <1>1, <1>18, ChildKinds DEF UnaryKinds, BinaryKinds, DisplayKinds, GeneratorKinds
  <2>3. Simple(t, Tag("CONDITIONAL_EXPR"), TRUE)
    BY SimpleTokens
  <2>4. Simple(t, Child(n, at, 2), TRUE)
    BY <2>2, SimpleChild
  <2>5. Simple(t, Child(n, at, 1), TRUE)
    BY <2>2, SimpleChild
  <2>6. Simple(t, Child(n, at, 3), TRUE)
    BY <2>2, SimpleChild
  <2>7. Simple(t, Tag("CONDITIONAL_EXPR") \o Child(n, at, 2) \o Child(n, at, 1) \o Child(n, at, 3), TRUE)
    BY <2>3, <2>4, <2>5, <2>6, SimpleJoin4
  <2>8. ExprBody(n, at) = Tag("CONDITIONAL_EXPR") \o Child(n, at, 2) \o Child(n, at, 1) \o Child(n, at, 3)
    BY <1>18, TagKinds DEF ExprBody
  <2> QED
    BY <2>7, <2>8
<1>19. CASE n.kind = "unary"
  <2>1. n.kind = "unary"
    BY <1>19
  <2>2. \A i \in DOMAIN n.args : n.args[i].kind \in Serialized
    BY <1>1, <1>19, ChildKinds DEF UnaryKinds, BinaryKinds, DisplayKinds, GeneratorKinds
  <2>3. Simple(t, Tag("UNARY_EXPR"), TRUE)
    BY SimpleTokens
  <2>4. Simple(t, Bytes(n.attr), TRUE)
    BY SimpleTokens
  <2>5. Simple(t, All(n, at), TRUE)
    BY <2>1, <2>2, SimpleAll
  <2>6. Simple(t, Tag("UNARY_EXPR") \o Bytes(n.attr) \o All(n, at), TRUE)
    BY <2>3, <2>4, <2>5, SimpleJoin3
  <2>7. ExprBody(n, at) = Tag("UNARY_EXPR") \o Bytes(n.attr) \o All(n, at)
    BY <1>19, TagKinds DEF ExprBody
  <2> QED
    BY <2>6, <2>7
<1>20. CASE n.kind = "dict"
  <2>1. n.kind = "dict"
    BY <1>20
  <2>3. Simple(t, Tag("DICT_EXPR"), TRUE)
    BY SimpleTokens
  <2>4. Simple(t, DictLayout(n, at), TRUE)
    BY <2>1, SimpleDict
  <2>5. Simple(t, Tag("DICT_EXPR") \o DictLayout(n, at), TRUE)
    BY <2>3, <2>4, SimpleJoin
  <2>6. ExprBody(n, at) = Tag("DICT_EXPR") \o DictLayout(n, at)
    BY <1>20, TagKinds DEF ExprBody
  <2> QED
    BY <2>5, <2>6
<1>21. CASE n.kind = "slice"
  <2>1. n.kind = "slice"
    BY <1>21
  <2>2. /\ 1 \in DOMAIN n.args /\ n.args[1].kind \in Serialized \cup {"absent"} 
        /\ 2 \in DOMAIN n.args /\ n.args[2].kind \in Serialized \cup {"absent"} 
        /\ 3 \in DOMAIN n.args /\ n.args[3].kind \in Serialized \cup {"absent"}
    BY <1>1, <1>21, ChildKinds DEF UnaryKinds, BinaryKinds, DisplayKinds, GeneratorKinds
  <2>3. Simple(t, Tag("SLICE_EXPR"), TRUE)
    BY SimpleTokens
  <2>4. Simple(t, Optional(n, at, 1), TRUE)
    BY <2>2, SimpleOptional
  <2>5. Simple(t, Optional(n, at, 2), TRUE)
    BY <2>2, SimpleOptional
  <2>6. Simple(t, Optional(n, at, 3), TRUE)
    BY <2>2, SimpleOptional
  <2>7. Simple(t, Tag("SLICE_EXPR") \o Optional(n, at, 1) \o Optional(n, at, 2) \o Optional(n, at, 3), TRUE)
    BY <2>3, <2>4, <2>5, <2>6, SimpleJoin4
  <2>8. ExprBody(n, at) = Tag("SLICE_EXPR") \o Optional(n, at, 1) \o Optional(n, at, 2) \o Optional(n, at, 3)
    BY <1>21, TagKinds DEF ExprBody
  <2> QED
    BY <2>7, <2>8
<1>22. CASE n.kind = "fstring"
  <2>1. n.kind = "fstring"
    BY <1>22
  <2>3. Simple(t, Tag("FSTRING_EXPR"), TRUE)
    BY SimpleTokens
  <2>4. Simple(t, FStringLayout(n, at), TRUE)
    BY <2>1, SimpleFString
  <2>5. Simple(t, Tag("FSTRING_EXPR") \o FStringLayout(n, at), TRUE)
    BY <2>3, <2>4, SimpleJoin
  <2>6. ExprBody(n, at) = Tag("FSTRING_EXPR") \o FStringLayout(n, at)
    BY <1>22, TagKinds DEF ExprBody
  <2> QED
    BY <2>5, <2>6
<1>23. CASE n.kind = "lambda"
  <2>1. n.kind = "lambda"
    BY <1>23
  <2>3. Simple(t, Tag("LAMBDA_EXPR"), TRUE)
    BY SimpleTokens
  <2>4. Simple(t, LambdaLayout(n, at), TRUE)
    BY <2>1, SimpleLambda
  <2>5. Simple(t, Tag("LAMBDA_EXPR") \o LambdaLayout(n, at), TRUE)
    BY <2>3, <2>4, SimpleJoin
  <2>6. ExprBody(n, at) = Tag("LAMBDA_EXPR") \o LambdaLayout(n, at)
    BY <1>23, TagKinds DEF ExprBody
  <2> QED
    BY <2>5, <2>6
<1>24. CASE n.kind = "bytes"
  <2>1. n.kind = "bytes"
    BY <1>24
  <2>3. Simple(t, Tag("BYTES_EXPR"), TRUE)
    BY SimpleTokens
  <2>4. Simple(t, Bytes(EscapedBytes(n.args)), TRUE)
    BY SimpleTokens
  <2>5. Simple(t, Tag("BYTES_EXPR") \o Bytes(EscapedBytes(n.args)), TRUE)
    BY <2>3, <2>4, SimpleJoin
  <2>6. ExprBody(n, at) = Tag("BYTES_EXPR") \o Bytes(EscapedBytes(n.args))
    BY <1>24, TagKinds DEF ExprBody
  <2> QED
    BY <2>5, <2>6
<1>25. CASE n.kind = "tstring"
  <2>1. n.kind = "tstring"
    BY <1>25
  <2>3. Simple(t, MarkTemplate, TRUE)
    BY SimpleSteps
  <2>4. Simple(t, Tag("TSTRING_EXPR"), TRUE)
    BY SimpleTokens
  <2>5. Simple(t, TStringLayout(n, at), TRUE)
    BY <2>1, SimpleTString
  <2>6. Simple(t, MarkTemplate \o Tag("TSTRING_EXPR") \o TStringLayout(n, at), TRUE)
    BY <2>3, <2>4, <2>5, SimpleJoin3
  <2>7. ExprBody(n, at) = MarkTemplate \o Tag("TSTRING_EXPR") \o TStringLayout(n, at)
    BY <1>25, TagKinds DEF ExprBody
  <2> QED
    BY <2>6, <2>7
<1> QED
  BY <1>2, <1>3, <1>4, <1>5, <1>6, <1>7, <1>8, <1>9, <1>10, <1>11, <1>12, <1>13, <1>14, <1>15, <1>16, <1>17, <1>18, <1>19, <1>20, <1>21, <1>22, <1>23, <1>24, <1>25 DEF ExprKinds, NameKinds, NumberKinds, UnaryKinds, BinaryKinds, DisplayKinds, GeneratorKinds

LEMMA SimpleExpr ==
    ASSUME NEW t, NEW n, NEW at, Anchored(t, n, at), n.kind \in ExprKinds
    PROVE  Simple(t, ExprLayout(n, at), TRUE)
<1>1. Simple(t, ExprBody(n, at), TRUE)
  BY SimpleExprBody
<1> DEFINE location == IF n.kind = "binop" THEN <<>> ELSE Location(at)
<1>2. Simple(t, location, TRUE)
  <2>1. Simple(t, Location(at), TRUE)
    BY AnchoredInFile, SimpleLocation
  <2> QED
    BY <2>1, SimpleEmpty
<1>3. Simple(t, End, TRUE)
  BY SimpleMarks
<1>4. ExprLayout(n, at) = ExprBody(n, at) \o location \o End
  BY DEF ExprLayout
<1> HIDE DEF location
<1> QED
  BY <1>1, <1>2, <1>3, <1>4, SimpleJoin3

-----------------------------------------------------------------------------
(* Patterns.                                                                 *)

LEMMA KeywordChild ==
    ASSUME NEW t, NEW n, NEW at, Anchored(t, n, at), n.kind = "keyword"
    PROVE  1 \in DOMAIN n.args /\ n.args[1] \in Nodes /\ Anchored(t, n.args[1], In(at, 1))
           /\ Simple(t, Child(n, at, 1), TRUE)
<1>1. n \in Nodes
  BY DEF Anchored
<1>2. ConsistsOf(n, <<Expr \cup Patterns>>, {})
  BY <1>1, NodesAssumption DEF PartFields
<1>3. 1 \in DOMAIN n.args /\ n.args[1].kind \in Expr \cup Patterns
  BY <1>1, <1>2, Fields1
<1>4. n.args[1].kind \in Serialized
  BY <1>3, KindsAreSerialized DEF Expr
<1> QED
  BY <1>3, <1>4, Below, SimpleChild

LEMMA SimpleClassPattern ==
    ASSUME NEW t, NEW n, NEW at, Anchored(t, n, at), n.kind = "class"
    PROVE  Simple(t, ClassPatternLayout(n, at), TRUE)
<1>1. n \in Nodes
  BY DEF Anchored
<1>2. ConsistsOf(n, <<Expr>>, Patterns \cup {"keyword"})
  BY <1>1, NodesAssumption DEF PatternFields
<1>3. /\ Len(n.args) >= 1 /\ 1 \in DOMAIN n.args /\ n.args[1].kind \in Expr
      /\ \A i \in DOMAIN n.args : i > 1 => n.args[i].kind \in Patterns \cup {"keyword"}
  BY <1>1, <1>2, Fields1
<1> DEFINE args == Tail(n.args)
           arguments == [i \in DOMAIN args |-> IF Positional(args[i]) THEN Child(n, at, i + 1) ELSE <<>>]
           keywords == [i \in DOMAIN args |->
                          IF Named(args[i]) THEN Bytes(args[i].attr) \o Child(args[i], In(at, i + 1), 1) ELSE <<>>]
           positional == Count(args, Positional)
           named == Count(args, Named)
<1>4. /\ IsSeq(args)
      /\ \A i \in DOMAIN args : i + 1 \in DOMAIN n.args /\ i + 1 > 1 /\ args[i] = n.args[i + 1]
  BY <1>1, <1>3, TailArgs
<1>5. ClassPatternLayout(n, at) =
           Child(n, at, 1) \o TaggedInt(positional) \o FlattenSeq(arguments)
        \o TaggedInt(named) \o FlattenSeq(keywords)
  BY DEF ClassPatternLayout, EachThat, Each
<1>6. arguments = [i \in DOMAIN args |-> arguments[i]] /\ keywords = [i \in DOMAIN args |-> keywords[i]]
  OBVIOUS
<1> HIDE DEF args, positional, named
<1>7. ASSUME NEW i \in DOMAIN args
      PROVE  Simple(t, arguments[i], TRUE) /\ Simple(t, keywords[i], TRUE)
  <2> DEFINE e == args[i]
             place == In(at, i + 1)
  <2>1. /\ i + 1 \in DOMAIN n.args /\ e = n.args[i + 1] /\ e.kind \in Patterns \cup {"keyword"}
        /\ Anchored(t, e, place)
    BY <1>3, <1>4, Below
  <2>2. arguments[i] = IF e.kind # "keyword" THEN Child(n, at, i + 1) ELSE <<>>
    BY DEF Positional
  <2>3. keywords[i] = IF e.kind = "keyword" THEN Bytes(e.attr) \o Child(e, place, 1) ELSE <<>>
    BY DEF Named
  <2> HIDE DEF arguments, keywords, e, place
  <2>4. Simple(t, <<>>, TRUE)
    BY SimpleEmpty
  <2>5. CASE e.kind = "keyword"
    <3>1. Simple(t, Child(e, place, 1), TRUE) /\ Simple(t, Bytes(e.attr), TRUE)
      BY <2>1, <2>5, KeywordChild, SimpleTokens
    <3>2. Simple(t, Bytes(e.attr) \o Child(e, place, 1), TRUE)
      BY <3>1, SimpleJoin
    <3> QED
      BY <2>2, <2>3, <2>4, <2>5, <3>2, Zenon
  <2>6. CASE e.kind # "keyword"
    <3>1. n.args[i + 1].kind \in Serialized
      BY <2>1, <2>6, KindsAreSerialized
    <3>2. Simple(t, Child(n, at, i + 1), TRUE)
      BY <2>1, <3>1, SimpleChild
    <3> QED
      BY <2>2, <2>3, <2>4, <2>6, <3>2, Zenon
  <2> QED
    BY <2>5, <2>6
<1> HIDE DEF arguments, keywords
<1>8. n.args[1].kind \in Serialized
  BY <1>3, KindsAreSerialized DEF Expr
<1>9. Simple(t, Child(n, at, 1), TRUE)
  BY <1>3, <1>8, SimpleChild
<1>10. Simple(t, TaggedInt(positional), TRUE)
  BY SimpleTokens
<1>11. Simple(t, FlattenSeq(arguments), TRUE)
  BY <1>4, <1>6, <1>7, SimpleParts
<1>12. Simple(t, TaggedInt(named), TRUE)
  BY SimpleTokens
<1>13. Simple(t, FlattenSeq(keywords), TRUE)
  BY <1>4, <1>6, <1>7, SimpleParts
<1>14. Simple(t, Child(n, at, 1) \o TaggedInt(positional) \o FlattenSeq(arguments) \o TaggedInt(named) \o FlattenSeq(keywords), TRUE)
  BY <1>9, <1>10, <1>11, <1>12, <1>13, SimpleJoin5
<1> QED
  BY <1>5, <1>14

LEMMA PatternChildKinds ==
    ASSUME NEW n \in Nodes, n.kind \in Patterns
    PROVE  /\ n.kind \in {"or", "sequence", "mapping"} => \A i \in DOMAIN n.args : n.args[i].kind \in Serialized
           /\ n.kind = "value" => 1 \in DOMAIN n.args /\ n.args[1].kind \in Serialized
           /\ n.kind = "as" => 1 \in DOMAIN n.args /\ n.args[1].kind \in Serialized \cup {"absent"}
<1>0. PatternFields(n) /\ DOMAIN n.args = 1..Len(n.args) /\ Len(n.args) \in Nat
  BY NodesAssumption, ArgsAreNodes
<1>1. ASSUME n.kind \in {"or", "sequence", "mapping"}
      PROVE  \A i \in DOMAIN n.args : n.args[i].kind \in Serialized
  <2>1. ConsistsOf(n, <<>>, Patterns) \/ ConsistsOf(n, <<>>, Expr \cup Patterns)
    BY <1>0, <1>1 DEF PatternFields
  <2>2. \A i \in DOMAIN n.args : i > 0 => n.args[i].kind \in Expr \cup Patterns
    BY <2>1, Fields0
  <2> QED
    BY <1>0, <2>2, KindsAreSerialized DEF Expr
<1>2. ASSUME n.kind = "value"
      PROVE  1 \in DOMAIN n.args /\ n.args[1].kind \in Serialized
  <2>1. ConsistsOf(n, <<Expr>>, {})
    BY <1>0, <1>2 DEF PatternFields
  <2>2. 1 \in DOMAIN n.args /\ n.args[1].kind \in Expr
    BY <2>1, Fields1
  <2> QED
    BY <2>2, KindsAreSerialized DEF Expr
<1>3. ASSUME n.kind = "as"
      PROVE  1 \in DOMAIN n.args /\ n.args[1].kind \in Serialized \cup {"absent"}
  <2>1. ConsistsOf(n, <<Maybe(Patterns)>>, {})
    BY <1>0, <1>3 DEF PatternFields
  <2>2. 1 \in DOMAIN n.args /\ n.args[1].kind \in Maybe(Patterns)
    BY <2>1, Fields1
  <2> QED
    BY <2>2, KindsAreSerialized DEF Maybe
<1> QED
  BY <1>1, <1>2, <1>3

LEMMA SimplePatternBody ==
    ASSUME NEW t, NEW n, NEW at, Anchored(t, n, at), n.kind \in Patterns
    PROVE  Simple(t, PatternBody(n, at), TRUE)
<1>1. n \in Nodes
  BY DEF Anchored
<1>2. Simple(t, OptionalName(n, at), TRUE)
  BY SimpleOptionalName
<1> DEFINE singleton == IF n.attr = "None" THEN LiteralNone ELSE Bool(n.attr = "True")
<1>3. Simple(t, singleton, TRUE)
  <2>1. Simple(t, LiteralNone, TRUE)
    BY SimpleMarks
  <2> DEFINE b == n.attr = "True"
  <2> HIDE DEF b
  <2>2. Simple(t, Bool(b), TRUE)
    BY SimpleTokens
  <2> QED
    BY <2>1, <2>2, Zenon DEF b
<1> HIDE DEF singleton
<1>4. CASE n.kind = "as"
  <2>1. n.kind = "as"
    BY <1>4
  <2>2. 1 \in DOMAIN n.args /\ n.args[1].kind \in Serialized \cup {"absent"}
    BY <1>1, <1>4, PatternChildKinds
  <2>3. Simple(t, Tag("AS_PATTERN"), TRUE)
    BY SimpleTokens
  <2>4. Simple(t, Optional(n, at, 1), TRUE)
    BY <2>2, SimpleOptional
  <2>5. Simple(t, Tag("AS_PATTERN") \o Optional(n, at, 1) \o OptionalName(n, at), TRUE)
    BY <2>3, <2>4, <1>2, SimpleJoin3
  <2>6. PatternBody(n, at) = Tag("AS_PATTERN") \o Optional(n, at, 1) \o OptionalName(n, at)
    BY <1>4 DEF PatternBody
  <2> QED
    BY <2>5, <2>6
<1>5. CASE n.kind = "or"
  <2>1. n.kind = "or"
    BY <1>5
  <2>2. \A i \in DOMAIN n.args : n.args[i].kind \in Serialized
    BY <1>1, <1>5, PatternChildKinds
  <2>3. Simple(t, Tag("OR_PATTERN"), TRUE)
    BY SimpleTokens
  <2>4. Simple(t, TaggedInt(Len(n.args)), TRUE)
    BY SimpleTokens
  <2>5. Simple(t, All(n, at), TRUE)
    BY <2>2, SimpleAll
  <2>6. Simple(t, Tag("OR_PATTERN") \o TaggedInt(Len(n.args)) \o All(n, at), TRUE)
    BY <2>3, <2>4, <2>5, SimpleJoin3
  <2>7. PatternBody(n, at) = Tag("OR_PATTERN") \o TaggedInt(Len(n.args)) \o All(n, at)
    BY <1>5 DEF PatternBody
  <2> QED
    BY <2>6, <2>7
<1>6. CASE n.kind = "value"
  <2>1. n.kind = "value"
    BY <1>6
  <2>2. 1 \in DOMAIN n.args /\ n.args[1].kind \in Serialized
    BY <1>1, <1>6, PatternChildKinds
  <2>3. Simple(t, Tag("VALUE_PATTERN"), TRUE)
    BY SimpleTokens
  <2>4. Simple(t, Child(n, at, 1), TRUE)
    BY <2>2, SimpleChild
  <2>5. Simple(t, Tag("VALUE_PATTERN") \o Child(n, at, 1), TRUE)
    BY <2>3, <2>4, SimpleJoin
  <2>6. PatternBody(n, at) = Tag("VALUE_PATTERN") \o Child(n, at, 1)
    BY <1>6 DEF PatternBody
  <2> QED
    BY <2>5, <2>6
<1>7. CASE n.kind = "singleton"
  <2>1. n.kind = "singleton"
    BY <1>7
  <2>3. Simple(t, Tag("SINGLETON_PATTERN"), TRUE)
    BY SimpleTokens
  <2>4. Simple(t, Tag("SINGLETON_PATTERN") \o singleton, TRUE)
    BY <2>3, <1>3, SimpleJoin
  <2>5. PatternBody(n, at) = Tag("SINGLETON_PATTERN") \o singleton
    BY <1>7 DEF PatternBody, singleton
  <2> QED
    BY <2>4, <2>5
<1>8. CASE n.kind = "sequence"
  <2>1. n.kind = "sequence"
    BY <1>8
  <2>2. \A i \in DOMAIN n.args : n.args[i].kind \in Serialized
    BY <1>1, <1>8, PatternChildKinds
  <2>3. Simple(t, Tag("SEQUENCE_PATTERN"), TRUE)
    BY SimpleTokens
  <2>4. Simple(t, TaggedInt(Len(n.args)), TRUE)
    BY SimpleTokens
  <2>5. Simple(t, All(n, at), TRUE)
    BY <2>2, SimpleAll
  <2>6. Simple(t, Tag("SEQUENCE_PATTERN") \o TaggedInt(Len(n.args)) \o All(n, at), TRUE)
    BY <2>3, <2>4, <2>5, SimpleJoin3
  <2>7. PatternBody(n, at) = Tag("SEQUENCE_PATTERN") \o TaggedInt(Len(n.args)) \o All(n, at)
    BY <1>8 DEF PatternBody
  <2> QED
    BY <2>6, <2>7
<1>9. CASE n.kind = "star"
  <2>1. n.kind = "star"
    BY <1>9
  <2>3. Simple(t, Tag("STARRED_PATTERN"), TRUE)
    BY SimpleTokens
  <2>4. Simple(t, Tag("STARRED_PATTERN") \o OptionalName(n, at), TRUE)
    BY <2>3, <1>2, SimpleJoin
  <2>5. PatternBody(n, at) = Tag("STARRED_PATTERN") \o OptionalName(n, at)
    BY <1>9 DEF PatternBody
  <2> QED
    BY <2>4, <2>5
<1>10. CASE n.kind = "mapping"
  <2>1. n.kind = "mapping"
    BY <1>10
  <2>2. \A i \in DOMAIN n.args : n.args[i].kind \in Serialized
    BY <1>1, <1>10, PatternChildKinds
  <2>3. Simple(t, Tag("MAPPING_PATTERN"), TRUE)
    BY SimpleTokens
  <2>4. Simple(t, TaggedInt(Len(n.args) \div 2), TRUE)
    BY SimpleTokens
  <2>5. Simple(t, All(n, at), TRUE)
    BY <2>2, SimpleAll
  <2>6. Simple(t, Tag("MAPPING_PATTERN") \o TaggedInt(Len(n.args) \div 2) \o All(n, at) \o OptionalName(n, at), TRUE)
    BY <2>3, <2>4, <2>5, <1>2, SimpleJoin4
  <2>7. PatternBody(n, at) = Tag("MAPPING_PATTERN") \o TaggedInt(Len(n.args) \div 2) \o All(n, at) \o OptionalName(n, at)
    BY <1>10 DEF PatternBody
  <2> QED
    BY <2>6, <2>7
<1>11. CASE n.kind = "class"
  <2>1. n.kind = "class"
    BY <1>11
  <2>3. Simple(t, Tag("CLASS_PATTERN"), TRUE)
    BY SimpleTokens
  <2>4. Simple(t, ClassPatternLayout(n, at), TRUE)
    BY <2>1, SimpleClassPattern
  <2>5. Simple(t, Tag("CLASS_PATTERN") \o ClassPatternLayout(n, at), TRUE)
    BY <2>3, <2>4, SimpleJoin
  <2>6. PatternBody(n, at) = Tag("CLASS_PATTERN") \o ClassPatternLayout(n, at)
    BY <1>11 DEF PatternBody
  <2> QED
    BY <2>5, <2>6
<1> QED
  BY <1>4, <1>5, <1>6, <1>7, <1>8, <1>9, <1>10, <1>11 DEF Patterns

LEMMA SimplePattern ==
    ASSUME NEW t, NEW n, NEW at, Anchored(t, n, at), n.kind \in Patterns
    PROVE  Simple(t, PatternLayout(n, at), TRUE)
<1>1. Simple(t, PatternBody(n, at), TRUE)
  BY SimplePatternBody
<1>2. Simple(t, Location(at), TRUE)
  BY AnchoredInFile, SimpleLocation
<1>3. Simple(t, End, TRUE)
  BY SimpleMarks
<1> QED
  BY <1>1, <1>2, <1>3, SimpleJoin3 DEF PatternLayout

-----------------------------------------------------------------------------
(* Types.                                                                    *)

LEMMA TypeBelow ==
    ASSUME NEW t, NEW n, NEW at, NEW c \in BOOLEAN, NEW i, TypeAt(t, n, at, c), i \in DOMAIN n.args
    PROVE  TypeAt(t, n.args[i], In(at, i), c)
<1>1. n.args[i] \in Nodes
  BY ArgsAreNodes DEF TypeAt
<1>2. CASE c
  <2>1. Anchored(t, n.args[i], In(at, i))
    BY <1>2, Below DEF TypeAt
  <2> QED
    BY <1>1, <1>2, <2>1 DEF TypeAt
<1>3. CASE ~c
  <2>1. Moved(t, at)
    BY <1>3 DEF TypeAt
  <2>2. In(at, i) = at
    BY <2>1 DEF Moved, In
  <2> QED
    BY <1>1, <1>3, <2>1, <2>2 DEF TypeAt
<1> QED
  BY <1>2, <1>3

LEMMA TypePlace ==
    ASSUME NEW t, NEW n, NEW at, NEW c \in BOOLEAN, TypeAt(t, n, at, c)
    PROVE  /\ n \in Nodes /\ InFile(t, at)
           /\ AtBinop(t, at) <=> c /\ n.kind = "binop"
  BY AnchoredInFile DEF TypeAt, Moved

LEMMA SimpleChildType ==
    ASSUME NEW t, NEW n, NEW at, NEW c \in BOOLEAN, NEW i, TypeAt(t, n, at, c), i \in DOMAIN n.args
    PROVE  Simple(t, ChildType(n, at, i), c)
  BY TypeBelow, SimpleType DEF ChildType

LEMMA SimpleOptionalType ==
    ASSUME NEW t, NEW n, NEW at, NEW c \in BOOLEAN, NEW i, TypeAt(t, n, at, c), i \in DOMAIN n.args
    PROVE  Simple(t, OptionalType(n, at, i), c)
<1>1. Simple(t, ChildType(n, at, i), c)
  BY SimpleChildType
<1>2. Simple(t, Bool(FALSE), c) /\ Simple(t, Bool(TRUE), c)
  BY SimpleTokens
<1>3. Simple(t, Bool(TRUE) \o ChildType(n, at, i), c)
  BY <1>1, <1>2, SimpleJoin
<1> QED
  BY <1>2, <1>3, Zenon DEF OptionalType

LEMMA SimpleTypesFrom ==
    ASSUME NEW t, NEW n, NEW at, NEW c \in BOOLEAN, TypeAt(t, n, at, c)
    PROVE  Simple(t, TypesFrom(n, at, 1), c)
<1> DEFINE m == Len(n.args)
           k == m - 1 + 1
           f == [i \in 1..k |-> ChildType(n, at, 1 + i - 1)]
<1>1. n \in Nodes /\ m \in Nat /\ DOMAIN n.args = 1..m
  BY ArgsAreNodes DEF TypeAt
<1>2. TypesFrom(n, at, 1) = ListOf(k) \o FlattenSeq(f)
  BY DEF TypesFrom
<1>3. f = [i \in 1..k |-> f[i]]
  OBVIOUS
<1>4. ASSUME NEW i \in 1..k
      PROVE  Simple(t, f[i], c)
  <2>1. i \in DOMAIN n.args /\ 1 + i - 1 = i
    BY <1>1
  <2>2. Simple(t, ChildType(n, at, i), c)
    BY <2>1, SimpleChildType
  <2> QED
    BY <2>1, <2>2
<1>5. k \in Nat
  BY <1>1
<1> HIDE DEF k, m, f
<1>6. Simple(t, FlattenSeq(f), c)
  BY <1>3, <1>4, <1>5, SimpleFlatten
<1>7. Simple(t, ListOf(k), c)
  BY SimpleTokens
<1> QED
  BY <1>2, <1>6, <1>7, SimpleJoin

LEMMA SimpleOriginal ==
    ASSUME NEW t, NEW c, NEW original
    PROVE  Simple(t, Original(original), c)
<1>1. Simple(t, LiteralNone, c)
  BY SimpleMarks
<1>2. Simple(t, Bytes(original[1]), c) /\ Simple(t, Bytes("builtins.str"), c)
  BY SimpleTokens
<1>3. Simple(t, LiteralNone \o LiteralNone, c)
  BY <1>1, SimpleJoin
<1>4. Simple(t, Bytes(original[1]) \o Bytes("builtins.str"), c)
  BY <1>2, SimpleJoin
<1> QED
  BY <1>3, <1>4, Zenon DEF Original

LEMMA SimpleInvalid ==
    ASSUME NEW t, NEW c, NEW note, NEW original
    PROVE  Simple(t, Invalid(note, original), c)
<1> DEFINE noted == IF cache_version < CV_RAW_EXPRESSION_TYPE_NOTES THEN <<>>
                    ELSE IF note = "" THEN LiteralNone ELSE Bytes(note)
           string == Bytes("builtins.str") \o Bytes(original[1])
           any == Bytes("typing.Any") \o LiteralNone \o noted
           rest == IF original # <<>> THEN string ELSE any
<1>1. Simple(t, LiteralNone, c)
  BY SimpleMarks
<1>2. Simple(t, Bytes("builtins.str"), c) /\ Simple(t, Bytes(original[1]), c) /\ Simple(t, Bytes(note), c)
      /\ Simple(t, Bytes("typing.Any"), c) /\ Simple(t, Tag("RAW_EXPRESSION_TYPE"), c)
  BY SimpleTokens
<1>3. Simple(t, <<>>, c)
  BY SimpleEmpty
<1>4. Simple(t, noted, c)
  BY <1>1, <1>2, <1>3, Zenon
<1>5. Invalid(note, original) = Tag("RAW_EXPRESSION_TYPE") \o rest
  BY DEF Invalid
<1> HIDE DEF noted
<1>6. Simple(t, any, c)
  BY <1>1, <1>2, <1>4, SimpleJoin3
<1>7. Simple(t, string, c)
  BY <1>2, SimpleJoin
<1> HIDE DEF any, string
<1>8. Simple(t, rest, c)
  BY <1>6, <1>7, Zenon
<1> HIDE DEF rest
<1> QED
  BY <1>2, <1>5, <1>8, SimpleJoin

LEMMA SimpleUnboundType ==
    ASSUME NEW t, NEW c, NEW name, NEW original
    PROVE  Simple(t, SimpleUnbound(name, original), c)
<1>1. Simple(t, Tag("UNBOUND_TYPE"), c)
  BY SimpleTokens
<1>2. Simple(t, Bytes(name), c)
  BY SimpleTokens
<1>3. Simple(t, ListOf(0), c)
  BY SimpleTokens
<1>4. Simple(t, Bool(FALSE), c)
  BY SimpleTokens
<1>5. Simple(t, Original(original), c)
  BY SimpleOriginal
<1>6. Simple(t, Tag("UNBOUND_TYPE") \o Bytes(name) \o ListOf(0) \o Bool(FALSE) \o Original(original), c)
  BY <1>1, <1>2, <1>3, <1>4, <1>5, SimpleJoin5
<1> QED
  BY <1>6 DEF SimpleUnbound

LEMMA SimpleAttributeType ==
    ASSUME NEW t, NEW c, NEW n, NEW original
    PROVE  Simple(t, AttributeType(n, original), c)
<1>1. Simple(t, Invalid("", original), c)
  BY SimpleInvalid
<1>2. Simple(t, SimpleUnbound(QualifiedTypeName[n], original), c)
  BY SimpleUnboundType
<1> QED
  BY <1>1, <1>2, Zenon DEF AttributeType

LEMMA SimpleSubscriptType ==
    ASSUME NEW t, NEW c \in BOOLEAN, NEW n, NEW sliceAt, NEW original,
           TypeAt(t, n.args[2], sliceAt, c)
    PROVE  Simple(t, SubscriptType(n, sliceAt, original), c)
<1> DEFINE name == QualifiedTypeName[n.args[1]]
           slice == n.args[2]
           empty == slice.args = <<>>
           tuple == TypesFrom(slice, sliceAt, 1) \o Bool(empty)
           one == ListOf(1) \o Type(slice, sliceAt) \o Bool(FALSE)
           arguments == IF slice.kind = "tuple" THEN tuple ELSE one
           unbound == Tag("UNBOUND_TYPE") \o Bytes(name) \o arguments \o Original(original)
<1>1. TypeAt(t, slice, sliceAt, c)
  OBVIOUS
<1>2. SubscriptType(n, sliceAt, original) = IF name = <<>> THEN Invalid("", original) ELSE unbound
  BY Zenon DEF SubscriptType
<1> HIDE DEF name, slice, empty
<1>3. Simple(t, tuple, c)
  <2>1. Simple(t, TypesFrom(slice, sliceAt, 1), c)
    BY <1>1, SimpleTypesFrom
  <2>2. Simple(t, Bool(empty), c)
    BY SimpleTokens
  <2> QED
    BY <2>1, <2>2, SimpleJoin
<1>4. Simple(t, one, c)
  <2>1. Simple(t, Type(slice, sliceAt), c)
    BY <1>1, SimpleType
  <2>2. Simple(t, ListOf(1), c) /\ Simple(t, Bool(FALSE), c)
    BY SimpleTokens
  <2> QED
    BY <2>1, <2>2, SimpleJoin3
<1> HIDE DEF tuple, one
<1>5. Simple(t, arguments, c)
  BY <1>3, <1>4, Zenon
<1> HIDE DEF arguments
<1>6. Simple(t, Tag("UNBOUND_TYPE"), c)
  BY SimpleTokens
<1>7. Simple(t, Bytes(name), c)
  BY SimpleTokens
<1>8. Simple(t, Original(original), c)
  BY SimpleOriginal
<1>9. Simple(t, Tag("UNBOUND_TYPE") \o Bytes(name) \o arguments \o Original(original), c)
  BY <1>6, <1>7, <1>5, <1>8, SimpleJoin4
<1>10. Simple(t, unbound, c)
  BY <1>9
<1> HIDE DEF unbound
<1>11. Simple(t, Invalid("", original), c)
  BY SimpleInvalid
<1> QED
  BY <1>2, <1>10, <1>11, Zenon

LEMMA Reassociated ==
    ASSUME NEW a, NEW b, NEW d, IsSeq(a), IsSeq(b), IsSeq(d)
    PROVE  (a \o b) \o d = a \o (b \o d)
<1>1. PICK A : a \in Seq(A)
  BY DEF IsSeq
<1>2. PICK B : b \in Seq(B)
  BY DEF IsSeq
<1>3. PICK D : d \in Seq(D)
  BY DEF IsSeq
<1> DEFINE S == A \cup B \cup D
<1>4. a \in Seq(S) /\ b \in Seq(S) /\ d \in Seq(S)
  BY <1>1, <1>2, <1>3, SeqMonotonic
<1> HIDE DEF S
<1> QED
  BY <1>4, ConcatAssociative

\* A union has its flag at its end, so it is good with the location after it.
LEMMA SimpleUnion ==
    ASSUME NEW t, NEW c \in BOOLEAN, NEW n, NEW leftAt, NEW rightAt, NEW original, NEW at,
           TypeAt(t, n.args[1], leftAt, c), TypeAt(t, n.args[2], rightAt, c),
           InFile(t, at), AtBinop(t, at) <=> c
    PROVE  /\ IsSeq(UnionType(n, leftAt, rightAt, original))
           /\ Simple(t, UnionType(n, leftAt, rightAt, original) \o Location(at), c)
<1>1. Simple(t, Tag("UNION_TYPE"), c)
  BY SimpleTokens
<1>2. Simple(t, ListOf(2), c)
  BY SimpleTokens
<1>3. Simple(t, Type(n.args[1], leftAt), c)
  BY SimpleType
<1>4. Simple(t, Type(n.args[2], rightAt), c)
  BY SimpleType
<1>5. Simple(t, Bool(TRUE), c)
  BY SimpleTokens
<1>6. Simple(t, Original(original), c)
  BY SimpleOriginal
<1>7. Simple(t, Tag("UNION_TYPE") \o ListOf(2) \o Type(n.args[1], leftAt) \o Type(n.args[2], rightAt) \o Bool(TRUE) \o Original(original), c)
  BY <1>1, <1>2, <1>3, <1>4, <1>5, <1>6, SimpleJoin6
<1> DEFINE operands == Tag("UNION_TYPE") \o ListOf(2) \o Type(n.args[1], leftAt) \o Type(n.args[2], rightAt) \o Bool(TRUE) \o Original(original)
<1>8. UnionType(n, leftAt, rightAt, original) = operands \o WriteEvaluated
  BY DEF UnionType
<1>9. Simple(t, operands, c)
  BY <1>7
<1> HIDE DEF operands
<1>10. IsSeq(operands)
  BY <1>9 DEF Simple
<1>11. IsSeq(WriteEvaluated) /\ IsSeq(Location(at))
  BY OneIsSeq DEF WriteEvaluated, Location
<1>12. IsSeq(operands \o WriteEvaluated)
  BY <1>10, <1>11, Joined
<1>13. (operands \o WriteEvaluated) \o Location(at) = operands \o (WriteEvaluated \o Location(at))
  BY <1>10, <1>11, Reassociated
<1> DEFINE end == WriteEvaluated \o Location(at)
<1>14. Simple(t, end, c)
  BY SimpleFlag
<1> HIDE DEF end
<1>15. Simple(t, operands \o end, c)
  BY <1>9, <1>14, SimpleJoin
<1> QED
  BY <1>8, <1>12, <1>13, <1>15, Zenon DEF end

LEMMA SimpleIntType ==
    ASSUME NEW t, NEW c, NEW value
    PROVE  Simple(t, IntType(value), c)
<1>1. Simple(t, Tag("RAW_EXPRESSION_TYPE"), c)
  BY SimpleTokens
<1>2. Simple(t, Bytes("builtins.int"), c)
  BY SimpleTokens
<1>3. Simple(t, TaggedInt(value[1]), c)
  BY SimpleTokens
<1>4. Simple(t, Tag("RAW_EXPRESSION_TYPE") \o Bytes("builtins.int") \o TaggedInt(value[1]), c)
  BY <1>1, <1>2, <1>3, SimpleJoin3
<1>5. Simple(t, Invalid("", <<>>), c)
  BY SimpleInvalid
<1> QED
  BY <1>4, <1>5, Zenon DEF IntType

LEMMA SimpleTypedDict ==
    ASSUME NEW t, NEW c \in BOOLEAN, NEW n, NEW at, TypeAt(t, n, at, c), n.kind = "dict"
    PROVE  Simple(t, TypedDictType(n, at), c)
<1>1. n \in Nodes /\ IsSeq(n.args) /\ DOMAIN n.args = 1..Len(n.args)
  BY ArgsAreNodes DEF TypeAt, IsSeq
<1>2. \A i \in DOMAIN n.args : n.args[i].kind = "item"
  <2>1. ConsistsOf(n, <<>>, {"item"})
    BY <1>1, NodesAssumption DEF ExprFields
  <2>2. \A i \in DOMAIN n.args : i > 0 => n.args[i].kind \in {"item"}
    BY <1>1, <2>1, Fields0
  <2> QED
    BY <1>1, <2>2
<1> DEFINE Key(i) == LET key == n.args[i].args[1]
                     IN IF key = Absent THEN LiteralNone ELSE Bytes(ValueOf(key.args))
           keys == [i \in DOMAIN n.args |-> Key(i)]
           items == [i \in DOMAIN n.args |-> ChildType(n.args[i], In(at, i), 2)]
           strings == n.args # <<>> /\ \A i \in DOMAIN n.args : IsStringOrNone(n.args[i].args[1])
           whole == Tag("TYPED_DICT_TYPE") \o ListOf(Len(n.args)) \o FlattenSeq(keys)
                    \o ListOf(Len(n.args)) \o FlattenSeq(items)
<1>3. TypedDictType(n, at) = IF strings THEN whole ELSE Invalid("", <<>>)
  BY Zenon DEF TypedDictType, Each
<1>4. keys = [i \in DOMAIN n.args |-> keys[i]] /\ items = [i \in DOMAIN n.args |-> items[i]]
  OBVIOUS
<1>5. ASSUME NEW i \in DOMAIN n.args
      PROVE  Simple(t, keys[i], c)
  <2>1. Simple(t, LiteralNone, c) /\ \A x : Simple(t, Bytes(x), c)
    BY SimpleMarks, SimpleTokens
  <2> QED
    BY <2>1, Zenon
<1>6. ASSUME NEW i \in DOMAIN n.args
      PROVE  Simple(t, items[i], c)
  <2> DEFINE e == n.args[i]
  <2>1. TypeAt(t, e, In(at, i), c) /\ e.kind = "item"
    BY <1>2, TypeBelow
  <2>2. items[i] = ChildType(e, In(at, i), 2)
    OBVIOUS
  <2> HIDE DEF e, items
  <2>3. ConsistsOf(e, <<OptionalExpr, Expr>>, {}) /\ e \in Nodes
    BY <2>1, NodesAssumption DEF PartFields, TypeAt
  <2>4. 2 \in DOMAIN e.args
    BY <2>3, Fields2
  <2> QED
    BY <2>1, <2>2, <2>4, SimpleChildType
<1> HIDE DEF keys, items, strings
<1>7. Simple(t, Tag("TYPED_DICT_TYPE"), c)
  BY SimpleTokens
<1>8. Simple(t, ListOf(Len(n.args)), c)
  BY SimpleTokens
<1>9. Simple(t, FlattenSeq(keys), c)
  BY <1>1, <1>4, <1>5, SimpleParts
<1>10. Simple(t, FlattenSeq(items), c)
  BY <1>1, <1>4, <1>6, SimpleParts
<1>11. Simple(t, Tag("TYPED_DICT_TYPE") \o ListOf(Len(n.args)) \o FlattenSeq(keys) \o ListOf(Len(n.args)) \o FlattenSeq(items), c)
  BY <1>7, <1>8, <1>9, <1>10, SimpleJoin5
<1>12. Simple(t, Invalid("", <<>>), c)
  BY SimpleInvalid
<1> QED
  BY <1>3, <1>11, <1>12, Zenon

LEMMA OperandsAreNodes ==
    ASSUME NEW n \in Nodes, n.kind \in {"subscript", "binop"}
    PROVE  1 \in DOMAIN n.args /\ 2 \in DOMAIN n.args /\ n.args[1] \in Nodes /\ n.args[2] \in Nodes
<1>1. ConsistsOf(n, <<Expr, Expr>>, {})
  BY NodesAssumption DEF ExprFields, BinaryKinds
<1>2. 1 \in DOMAIN n.args /\ 2 \in DOMAIN n.args
  BY <1>1, Fields2
<1> QED
  BY <1>2, ArgsAreNodes

LEMMA StringInFalse ==
    ASSUME NEW t, NEW items, NEW at, Simple(t, items, FALSE), InFile(t, at)
    PROVE  IsSeq(items) /\ Simple(t, items \o Location(at), FALSE)
<1>1. Simple(t, Location(at), FALSE)
  BY SimpleLocation
<1>2. IsSeq(items)
  BY DEF Simple
<1> QED
  BY <1>1, <1>2, SimpleJoin

\* What a string is parsed to is moved to the string.
LEMMA SimpleStringType ==
    ASSUME NEW t, NEW n \in Nodes, NEW at, InFile(t, at), ~AtBinop(t, at)
    PROVE  /\ IsSeq(StringType(n, at))
           /\ Simple(t, StringType(n, at) \o Location(at), FALSE)
<1> DEFINE text == ValueOf(n.args)
           e == n.inner[1]
           here == Relocated(at)
           items == StringType(n, at)
           raw == Tag("RAW_EXPRESSION_TYPE") \o Bytes("builtins.str") \o Bytes(text)
           original == <<text>>
           goal == IsSeq(items) /\ Simple(t, items \o Location(at), FALSE)
<1>1. StringType(n, at) =
        IF n.inner = <<>> THEN raw
        ELSE CASE e.kind \in {"name", "none"} -> SimpleUnbound(e.attr, original)
               [] e.kind = "attribute"        -> AttributeType(e, original)
               [] e.kind = "subscript"        -> SubscriptType(e, here, original)
               [] e.kind = "binop" /\ e.attr = "BitOr" -> UnionType(e, here, here, original)
               [] OTHER                       -> raw
  BY DEF StringType
<1>2. Moved(t, here)
  BY MovedTo
<1>3. n.inner # <<>> => e \in Nodes
  BY ArgsAreNodes
<1> HIDE DEF here, original, text, e
<1>4. Simple(t, raw, FALSE)
  <2>1. Simple(t, Tag("RAW_EXPRESSION_TYPE"), FALSE)
    BY SimpleTokens
  <2>2. Simple(t, Bytes("builtins.str"), FALSE)
    BY SimpleTokens
  <2>3. Simple(t, Bytes(text), FALSE)
    BY SimpleTokens
  <2>4. Simple(t, Tag("RAW_EXPRESSION_TYPE") \o Bytes("builtins.str") \o Bytes(text), FALSE)
    BY <2>1, <2>2, <2>3, SimpleJoin3
  <2> QED
    BY <2>4
<1> HIDE DEF raw
<1>5. ASSUME Simple(t, items, FALSE)
      PROVE  goal
  <2> HIDE DEF items
  <2>1. IsSeq(items) /\ Simple(t, items \o Location(at), FALSE)
    BY <1>5, StringInFalse
  <2> QED
    BY <2>1
<1> SUFFICES goal
  OBVIOUS
<1> HIDE DEF goal
<1>6. CASE n.inner = <<>>
  <2>1. items = raw
    BY <1>1, <1>6
  <2> HIDE DEF items
  <2> QED
    BY <1>4, <1>5, <2>1, Zenon
<1>7. CASE n.inner # <<>> /\ e.kind \in {"name", "none"}
  <2>1. items = SimpleUnbound(e.attr, original)
    BY <1>1, <1>7
  <2>2. Simple(t, SimpleUnbound(e.attr, original), FALSE)
    BY SimpleUnboundType
  <2> HIDE DEF items
  <2> QED
    BY <1>5, <2>1, <2>2, Zenon
<1>8. CASE n.inner # <<>> /\ e.kind = "attribute"
  <2>1. items = AttributeType(e, original)
    BY <1>1, <1>8
  <2>2. Simple(t, AttributeType(e, original), FALSE)
    BY SimpleAttributeType
  <2> HIDE DEF items
  <2> QED
    BY <1>5, <2>1, <2>2, Zenon
<1>9. CASE n.inner # <<>> /\ e.kind = "subscript"
  <2>1. items = SubscriptType(e, here, original)
    BY <1>1, <1>9
  <2>2. TypeAt(t, e.args[2], here, FALSE)
    BY <1>2, <1>3, <1>9, OperandsAreNodes DEF TypeAt
  <2>3. Simple(t, SubscriptType(e, here, original), FALSE)
    BY <2>2, SimpleSubscriptType
  <2> HIDE DEF items
  <2> QED
    BY <1>5, <2>1, <2>3, Zenon
<1>10. CASE n.inner # <<>> /\ e.kind = "binop" /\ e.attr = "BitOr"
  <2>1. items = UnionType(e, here, here, original)
    BY <1>1, <1>10
  <2>2. TypeAt(t, e.args[1], here, FALSE) /\ TypeAt(t, e.args[2], here, FALSE)
    BY <1>2, <1>3, <1>10, OperandsAreNodes DEF TypeAt
  <2>3. AtBinop(t, at) <=> FALSE
    OBVIOUS
  <2>4. /\ IsSeq(UnionType(e, here, here, original))
        /\ Simple(t, UnionType(e, here, here, original) \o Location(at), FALSE)
    BY <2>2, <2>3, SimpleUnion
  <2> HIDE DEF items
  <2> QED
    BY <2>1, <2>4, Zenon DEF goal
<1>11. CASE /\ n.inner # <<>> /\ e.kind \notin {"name", "none", "attribute", "subscript"}
            /\ ~(e.kind = "binop" /\ e.attr = "BitOr")
  <2>1. items = raw
    BY <1>1, <1>11
  <2> HIDE DEF items
  <2> QED
    BY <1>4, <1>5, <2>1, Zenon
<1> QED
  BY <1>6, <1>7, <1>8, <1>9, <1>10, <1>11

LEMMA TypeChildren ==
    ASSUME NEW n \in Nodes
    PROVE  n.kind \in {"starred", "unary"} => 1 \in DOMAIN n.args
<1>1. ASSUME n.kind \in {"starred", "unary"}
      PROVE  1 \in DOMAIN n.args
  <2>1. ConsistsOf(n, <<Expr>>, {})
    BY <1>1, NodesAssumption DEF ExprFields, UnaryKinds
  <2> QED
    BY <2>1, Fields1
<1> QED
  BY <1>1

\* What serialize_type writes up to the location.
LEMMA SoundTypeBody ==
    ASSUME NEW t, NEW c \in BOOLEAN, NEW n, NEW at, TypeAt(t, n, at, c)
    PROVE  Sound(t, TypeBody(n, at) \o Location(at), c)
<1> DEFINE body == TypeBody(n, at)
           goal == Sound(t, body \o Location(at), c)
<1>1. n \in Nodes /\ InFile(t, at) /\ (AtBinop(t, at) <=> c /\ n.kind = "binop")
  BY TypePlace
<1>2. ASSUME Simple(t, body, c)
      PROVE  goal
  <2>1. Simple(t, Location(at), c)
    BY <1>1, SimpleLocation
  <2> HIDE DEF body
  <2>2. Simple(t, body \o Location(at), c)
    BY <1>2, <2>1, SimpleJoin
  <2> QED
    BY <2>2, SimpleIsSound
<1>0. Simple(t, Invalid("", <<>>), c)
  BY SimpleInvalid
<1> SUFFICES goal
  OBVIOUS
<1> HIDE DEF goal
<1>3. CASE n.kind \in {"name", "none"}
  <2>1. n.kind \in {"name", "none"}
    BY <1>3
  <2>3. Simple(t, SimpleUnbound(n.attr, <<>>), c)
    BY SimpleUnboundType
  <2>4. body = SimpleUnbound(n.attr, <<>>)
    BY <1>3 DEF TypeBody
  <2> HIDE DEF body
  <2> QED
    BY <1>2, <2>3, <2>4, Zenon
<1>4. CASE n.kind = "attribute"
  <2>1. n.kind = "attribute"
    BY <1>4
  <2>3. Simple(t, AttributeType(n, <<>>), c)
    BY SimpleAttributeType
  <2>4. body = AttributeType(n, <<>>)
    BY <1>4 DEF TypeBody
  <2> HIDE DEF body
  <2> QED
    BY <1>2, <2>3, <2>4, Zenon
<1>5. CASE n.kind = "subscript"
  <2>1. n.kind = "subscript"
    BY <1>5
  <2>2. TypeAt(t, n.args[2], In(at, 2), c)
    BY <1>1, <1>5, OperandsAreNodes, TypeBelow
  <2>3. Simple(t, SubscriptType(n, In(at, 2), <<>>), c)
    BY <2>2, SimpleSubscriptType
  <2>4. body = SubscriptType(n, In(at, 2), <<>>)
    BY <1>5 DEF TypeBody
  <2> HIDE DEF body
  <2> QED
    BY <1>2, <2>3, <2>4, Zenon
<1>6. CASE n.kind = "bool"
  <2>1. n.kind = "bool"
    BY <1>6
  <2>3. Simple(t, Tag("RAW_EXPRESSION_TYPE"), c)
    BY SimpleTokens
  <2>4. Simple(t, Bytes("builtins.bool"), c)
    BY SimpleTokens
  <2>5. Simple(t, Bool(n.attr = "True"), c)
    BY SimpleTokens
  <2>6. Simple(t, Tag("RAW_EXPRESSION_TYPE") \o Bytes("builtins.bool") \o Bool(n.attr = "True"), c)
    BY <2>3, <2>4, <2>5, SimpleJoin3
  <2>7. body = Tag("RAW_EXPRESSION_TYPE") \o Bytes("builtins.bool") \o Bool(n.attr = "True")
    BY <1>6 DEF TypeBody
  <2> HIDE DEF body
  <2> QED
    BY <1>2, <2>6, <2>7, Zenon
<1>7. CASE n.kind = "int"
  <2>1. n.kind = "int"
    BY <1>7
  <2>3. Simple(t, IntType(IntLiteral[n]), c)
    BY SimpleIntType
  <2>4. body = IntType(IntLiteral[n])
    BY <1>7 DEF TypeBody
  <2> HIDE DEF body
  <2> QED
    BY <1>2, <2>3, <2>4, Zenon
<1>8. CASE n.kind = "unary" /\ n.attr = "USub"
  <2>1. n.kind = "unary" /\ n.attr = "USub"
    BY <1>8
  <2>3. Simple(t, IntType(IntLiteral[n]), c)
    BY SimpleIntType
  <2>4. body = IntType(IntLiteral[n])
    BY <1>8 DEF TypeBody
  <2> HIDE DEF body
  <2> QED
    BY <1>2, <2>3, <2>4, Zenon
<1>9. CASE n.kind = "unary" /\ n.attr = "UAdd"
  <2>1. n.kind = "unary" /\ n.attr = "UAdd"
    BY <1>9
  <2>3. Simple(t, IntType(IntLiteral[n.args[1]]), c)
    BY SimpleIntType
  <2>4. body = IntType(IntLiteral[n.args[1]])
    BY <1>9 DEF TypeBody
  <2> HIDE DEF body
  <2> QED
    BY <1>2, <2>3, <2>4, Zenon
<1>10. CASE n.kind = "list"
  <2>1. n.kind = "list"
    BY <1>10
  <2>2. Simple(t, FlattenSeq([i \in DOMAIN n.args |-> TypeInList(n.args[i], In(at, i))]), c)
    <3> DEFINE f == [i \in DOMAIN n.args |-> TypeInList(n.args[i], In(at, i))]
    <3>1. f = [i \in DOMAIN n.args |-> f[i]]
      OBVIOUS
    <3>2. ASSUME NEW i \in DOMAIN n.args
          PROVE  Simple(t, f[i], c)
      <4>1. TypeAt(t, n.args[i], In(at, i), c)
        BY TypeBelow
      <4> QED
        BY <4>1, SimpleType
    <3>3. IsSeq(n.args)
      BY <1>1, ArgsAreNodes DEF IsSeq
    <3> HIDE DEF f
    <3>4. Simple(t, FlattenSeq(f), c)
      BY <3>1, <3>2, <3>3, SimpleParts
    <3> QED
      BY <3>4 DEF f
  <2>3. Simple(t, Tag("LIST_TYPE"), c)
    BY SimpleTokens
  <2>4. Simple(t, ListOf(Len(n.args)), c)
    BY SimpleTokens
  <2>5. Simple(t, Tag("LIST_TYPE") \o ListOf(Len(n.args)) \o FlattenSeq([i \in DOMAIN n.args |-> TypeInList(n.args[i], In(at, i))]), c)
    BY <2>3, <2>4, <2>2, SimpleJoin3
  <2>6. body = Tag("LIST_TYPE") \o ListOf(Len(n.args)) \o FlattenSeq([i \in DOMAIN n.args |-> TypeInList(n.args[i], In(at, i))])
    BY <1>10 DEF TypeBody, Each
  <2> HIDE DEF body
  <2> QED
    BY <1>2, <2>5, <2>6, Zenon
<1>11. CASE n.kind = "tuple"
  <2>1. n.kind = "tuple"
    BY <1>11
  <2>3. Simple(t, Tag("TUPLE_TYPE"), c)
    BY SimpleTokens
  <2>4. Simple(t, TypesFrom(n, at, 1), c)
    BY SimpleTypesFrom
  <2>5. Simple(t, Bool(TRUE), c)
    BY SimpleTokens
  <2>6. Simple(t, Tag("TUPLE_TYPE") \o TypesFrom(n, at, 1) \o Bool(TRUE), c)
    BY <2>3, <2>4, <2>5, SimpleJoin3
  <2>7. body = Tag("TUPLE_TYPE") \o TypesFrom(n, at, 1) \o Bool(TRUE)
    BY <1>11 DEF TypeBody
  <2> HIDE DEF body
  <2> QED
    BY <1>2, <2>6, <2>7, Zenon
<1>12. CASE n.kind = "dict"
  <2>1. n.kind = "dict"
    BY <1>12
  <2>3. Simple(t, TypedDictType(n, at), c)
    BY <2>1, SimpleTypedDict
  <2>4. body = TypedDictType(n, at)
    BY <1>12 DEF TypeBody
  <2> HIDE DEF body
  <2> QED
    BY <1>2, <2>3, <2>4, Zenon
<1>13. CASE n.kind = "call"
  <2>1. n.kind = "call"
    BY <1>13
  <2>3. Simple(t, Invalid(CallNote(n), <<>>), c)
    BY SimpleInvalid
  <2>4. body = Invalid(CallNote(n), <<>>)
    BY <1>13 DEF TypeBody
  <2> HIDE DEF body
  <2> QED
    BY <1>2, <2>3, <2>4, Zenon
<1>14. CASE n.kind = "ellipsis"
  <2>1. n.kind = "ellipsis"
    BY <1>14
  <2>3. Simple(t, Tag("ELLIPSIS_TYPE"), c)
    BY SimpleTokens
  <2>4. body = Tag("ELLIPSIS_TYPE")
    BY <1>14 DEF TypeBody
  <2> HIDE DEF body
  <2> QED
    BY <1>2, <2>3, <2>4, Zenon
<1>15. CASE n.kind = "starred"
  <2>1. n.kind = "starred"
    BY <1>15
  <2>2. 1 \in DOMAIN n.args
    BY <1>1, <1>15, TypeChildren
  <2>3. Simple(t, Tag("UNPACK_TYPE"), c)
    BY SimpleTokens
  <2>4. Simple(t, ChildType(n, at, 1), c)
    BY <2>2, SimpleChildType
  <2>5. Simple(t, Bool(TRUE), c)
    BY SimpleTokens
  <2>6. Simple(t, Tag("UNPACK_TYPE") \o ChildType(n, at, 1) \o Bool(TRUE), c)
    BY <2>3, <2>4, <2>5, SimpleJoin3
  <2>7. body = Tag("UNPACK_TYPE") \o ChildType(n, at, 1) \o Bool(TRUE)
    BY <1>15 DEF TypeBody
  <2> HIDE DEF body
  <2> QED
    BY <1>2, <2>6, <2>7, Zenon
<1>16. CASE n.kind = "bytes"
  <2>1. n.kind = "bytes"
    BY <1>16
  <2>3. Simple(t, Tag("RAW_EXPRESSION_TYPE"), c)
    BY SimpleTokens
  <2>4. Simple(t, Bytes("builtins.bytes"), c)
    BY SimpleTokens
  <2>5. Simple(t, Bytes(EscapedBytes(n.args)), c)
    BY SimpleTokens
  <2>6. Simple(t, Tag("RAW_EXPRESSION_TYPE") \o Bytes("builtins.bytes") \o Bytes(EscapedBytes(n.args)), c)
    BY <2>3, <2>4, <2>5, SimpleJoin3
  <2>7. body = Tag("RAW_EXPRESSION_TYPE") \o Bytes("builtins.bytes") \o Bytes(EscapedBytes(n.args))
    BY <1>16 DEF TypeBody
  <2> HIDE DEF body
  <2> QED
    BY <1>2, <2>6, <2>7, Zenon
<1>17. CASE n.kind = "binop" /\ n.attr = "BitOr"
  <2>1. body = UnionType(n, In(at, 1), In(at, 2), <<>>)
    BY <1>17 DEF TypeBody
  <2>2. TypeAt(t, n.args[1], In(at, 1), c) /\ TypeAt(t, n.args[2], In(at, 2), c)
    BY <1>1, <1>17, OperandsAreNodes, TypeBelow
  <2>3. AtBinop(t, at) <=> c
    BY <1>1, <1>17
  <2>4. Simple(t, UnionType(n, In(at, 1), In(at, 2), <<>>) \o Location(at), c)
    BY <1>1, <2>2, <2>3, SimpleUnion
  <2>5. Sound(t, UnionType(n, In(at, 1), In(at, 2), <<>>) \o Location(at), c)
    BY <2>4, SimpleIsSound
  <2> HIDE DEF body
  <2> QED
    BY <2>1, <2>5, Zenon DEF goal
<1>18. CASE n.kind = "str"
  <2>1. body = Unevaluated(StringType(n, at))
    BY <1>18 DEF TypeBody
  <2>2. ~AtBinop(t, at)
    BY <1>1, <1>18
  <2>3. IsSeq(StringType(n, at)) /\ Simple(t, StringType(n, at) \o Location(at), FALSE)
    BY <1>1, <2>2, SimpleStringType
  <2>4. Sound(t, Unevaluated(StringType(n, at)) \o Location(at), c)
    BY <1>1, <2>3, SoundString
  <2> HIDE DEF body
  <2> QED
    BY <2>1, <2>4, Zenon DEF goal
<1>19. CASE /\ n.kind \notin {"name", "none", "attribute", "subscript", "bool", "int", "list", "tuple", "dict", "call",
                            "ellipsis", "starred", "bytes", "str"}
            /\ ~(n.kind = "unary" /\ n.attr = "USub") /\ ~(n.kind = "unary" /\ n.attr = "UAdd")
            /\ ~(n.kind = "binop" /\ n.attr = "BitOr")
  <2>1. body = Invalid("", <<>>)
    BY <1>19 DEF TypeBody
  <2> HIDE DEF body
  <2> QED
    BY <1>0, <1>2, <2>1, Zenon
<1> QED
  BY <1>3, <1>4, <1>5, <1>6, <1>7, <1>8, <1>9, <1>10, <1>11, <1>12, <1>13, <1>14, <1>15, <1>16, <1>17, <1>18, <1>19

LEMMA SoundType ==
    ASSUME NEW t, NEW c \in BOOLEAN, NEW n, NEW at, TypeAt(t, n, at, c)
    PROVE  Sound(t, TypeLayout(n, at), c)
<1> DEFINE body == TypeBody(n, at) \o Location(at)
<1>1. Sound(t, body, c)
  BY SoundTypeBody
<1>2. Sound(t, End, c)
  BY SimpleMarks, SimpleIsSound
<1>3. TypeLayout(n, at) = body \o End
  BY DEF TypeLayout
<1> HIDE DEF body
<1> QED
  BY <1>1, <1>2, <1>3, SoundJoin

LEMMA SoundTypeInList ==
    ASSUME NEW t, NEW c \in BOOLEAN, NEW n, NEW at, TypeAt(t, n, at, c)
    PROVE  Sound(t, TypeInListLayout(n, at), c)
<1>1. n \in Nodes /\ InFile(t, at)
  BY TypePlace
<1> DEFINE args == Tail(n.args)
           arguments == [i \in DOMAIN args |-> IF Positional(args[i]) THEN ChildType(n, at, i + 1) ELSE <<>>]
           keywords == [i \in DOMAIN args |->
                IF Named(args[i])
                THEN (IF args[i].attr = "" THEN LiteralNone ELSE Bytes(args[i].attr))
                     \o ChildType(args[i], In(at, i + 1), 1)
                ELSE <<>>]
           positional == Count(args, Positional)
           named == Count(args, Named)
           whole == Tag("CALL_TYPE") \o ChildType(n, at, 1)
                 \o ListOf(positional) \o FlattenSeq(arguments)
                 \o ListOf(named) \o FlattenSeq(keywords) \o Location(at) \o End
<1>2. CASE n.kind # "call"
  <2>1. TypeInListLayout(n, at) = TypeLayout(n, at)
    BY <1>2 DEF TypeInListLayout
  <2> QED
    BY <2>1, SoundType
<1>3. CASE n.kind = "call"
  <2>1. TypeInListLayout(n, at) = whole
    BY <1>3 DEF TypeInListLayout, EachThat, Each
  <2>2. ConsistsOf(n, <<Expr>>, Expr \cup {"keyword"})
    BY <1>1, <1>3, NodesAssumption DEF ExprFields
  <2>3. Len(n.args) >= 1 /\ 1 \in DOMAIN n.args
    BY <1>1, <2>2, Fields1
  <2>4. /\ IsSeq(args)
        /\ \A i \in DOMAIN args : i + 1 \in DOMAIN n.args /\ i + 1 > 1 /\ args[i] = n.args[i + 1]
    BY <1>1, <2>3, TailArgs
  <2>5. arguments = [i \in DOMAIN args |-> arguments[i]] /\ keywords = [i \in DOMAIN args |-> keywords[i]]
    OBVIOUS
  <2> HIDE DEF args, positional, named
  <2>6. ASSUME NEW i \in DOMAIN args
        PROVE  Simple(t, arguments[i], c) /\ Simple(t, keywords[i], c)
    <3> DEFINE e == args[i]
               place == In(at, i + 1)
               name == IF e.attr = "" THEN LiteralNone ELSE Bytes(e.attr)
    <3>1. i + 1 \in DOMAIN n.args /\ e = n.args[i + 1] /\ TypeAt(t, e, place, c) /\ e \in Nodes
      BY <2>4, TypeBelow, TypePlace
    <3>2. arguments[i] = IF Positional(e) THEN ChildType(n, at, i + 1) ELSE <<>>
      OBVIOUS
    <3>3. keywords[i] = IF Named(e) THEN name \o ChildType(e, place, 1) ELSE <<>>
      OBVIOUS
    <3> HIDE DEF arguments, keywords, e, place
    <3>4. Simple(t, name, c)
      <4>1. Simple(t, LiteralNone, c) /\ Simple(t, Bytes(e.attr), c)
        BY SimpleMarks, SimpleTokens
      <4> QED
        BY <4>1, Zenon
    <3> HIDE DEF name
    <3>5. Simple(t, ChildType(n, at, i + 1), c)
      BY <3>1, SimpleChildType
    <3>6. Named(e) => Simple(t, name \o ChildType(e, place, 1), c)
      <4>1. SUFFICES ASSUME e.kind = "keyword" PROVE Simple(t, name \o ChildType(e, place, 1), c)
        BY DEF Named
      <4>2. ConsistsOf(e, <<Expr \cup Patterns>>, {})
        BY <3>1, <4>1, NodesAssumption DEF PartFields
      <4>3. 1 \in DOMAIN e.args
        BY <3>1, <4>2, Fields1
      <4>4. Simple(t, ChildType(e, place, 1), c)
        BY <3>1, <4>3, SimpleChildType
      <4> QED
        BY <3>4, <4>4, SimpleJoin
    <3>7. Simple(t, <<>>, c)
      BY SimpleEmpty
    <3> QED
      BY <3>2, <3>3, <3>5, <3>6, <3>7, Zenon
  <2> HIDE DEF arguments, keywords
  <2>7. Simple(t, Tag("CALL_TYPE"), c)
    BY SimpleTokens
  <2>8. Simple(t, ChildType(n, at, 1), c)
    BY <2>3, SimpleChildType
  <2>9. Simple(t, ListOf(positional), c)
    BY SimpleTokens
  <2>10. Simple(t, FlattenSeq(arguments), c)
    BY <2>4, <2>5, <2>6, SimpleParts
  <2>11. Simple(t, ListOf(named), c)
    BY SimpleTokens
  <2>12. Simple(t, FlattenSeq(keywords), c)
    BY <2>4, <2>5, <2>6, SimpleParts
  <2>13. Simple(t, Location(at), c)
    BY <1>1, SimpleLocation
  <2>14. Simple(t, End, c)
    BY SimpleMarks
  <2>15. Simple(t, Tag("CALL_TYPE") \o ChildType(n, at, 1) \o ListOf(positional) \o FlattenSeq(arguments) \o ListOf(named) \o FlattenSeq(keywords) \o Location(at) \o End, c)
    BY <2>7, <2>8, <2>9, <2>10, <2>11, <2>12, <2>13, <2>14, SimpleJoin8
  <2>16. Sound(t, whole, c)
    BY <2>15, SimpleIsSound
  <2> HIDE DEF whole
  <2> QED
    BY <2>1, <2>16
<1> QED
  BY <1>2, <1>3

-----------------------------------------------------------------------------
(* Parts of statements that hold types.                                      *)

LEMMA AnchoredType ==
    ASSUME NEW t, NEW n, NEW at, Anchored(t, n, at)
    PROVE  TypeAt(t, n, at, TRUE)
  BY DEF TypeAt, Anchored

LEMMA SoundComment ==
    ASSUME NEW t, NEW n, NEW at, Anchored(t, n, at), n.kind # "binop", n.inner # <<>>
    PROVE  Sound(t, CommentType(n, at), TRUE)
<1>1. Moved(t, Relocated(at))
  BY AnchoredInFile, MovedTo
<1>2. n.inner[1] \in Nodes
  BY ArgsAreNodes DEF Anchored
<1>3. TypeAt(t, n.inner[1], Relocated(at), FALSE)
  BY <1>1, <1>2 DEF TypeAt
<1>4. Simple(t, Type(n.inner[1], Relocated(at)), FALSE)
  BY <1>3, SimpleType
<1>5. Sound(t, Unevaluated(Type(n.inner[1], Relocated(at))), TRUE)
  BY <1>4, SoundUnevaluated
<1>6. Sound(t, Bool(TRUE), TRUE)
  BY SimpleTokens, SimpleIsSound
<1> QED
  BY <1>5, <1>6, SoundJoin DEF CommentType

\* The type of an annotation or comment, and the error there is for both.
LEMMA SoundAnnotation ==
    ASSUME NEW t, NEW n, NEW at, NEW i, Anchored(t, n, at), n.kind # "binop", i \in DOMAIN n.args
    PROVE  /\ Sound(t, IF n.args[i] # Absent /\ n.inner # <<>> THEN AddError(at) ELSE <<>>, TRUE)
           /\ Sound(t, IF n.inner # <<>> /\ ~(n.args[i] # Absent)
                       THEN CommentType(n, at) ELSE OptionalType(n, at, i), TRUE)
<1>1. at.path \in Seq(Nat)
  BY AnchoredInFile
<1>2. Sound(t, AddError(at), TRUE)
  BY <1>1, SimpleAddError, SimpleIsSound
<1>3. Sound(t, <<>>, TRUE)
  BY SoundEmpty
<1>4. TypeAt(t, n, at, TRUE)
  BY AnchoredType
<1>5. Simple(t, OptionalType(n, at, i), TRUE)
  BY <1>4, SimpleOptionalType
<1>6. Sound(t, OptionalType(n, at, i), TRUE)
  BY <1>5, SimpleIsSound
<1>7. n.inner # <<>> => Sound(t, CommentType(n, at), TRUE)
  BY SoundComment
<1> QED
  BY <1>2, <1>3, <1>6, <1>7, Zenon

LEMMA SoundTypedParameter ==
    ASSUME NEW t, NEW n, NEW at, Anchored(t, n, at), n.kind = "param", Len(n.args) = 2
    PROVE  Sound(t, TypedParameterLayout(n, at), TRUE)
<1> DEFINE errors == IF n.args[1] # Absent /\ n.inner # <<>> THEN AddError(at) ELSE <<>>
           typed == IF n.inner # <<>> /\ ~(n.args[1] # Absent)
                    THEN CommentType(n, at) ELSE OptionalType(n, at, 1)
           kind == ArgKind(n, n.args[2])
           posonly == IsPosOnly(n)
<1>1. n \in Nodes /\ 1 \in DOMAIN n.args /\ 2 \in DOMAIN n.args
  BY ArgsAreNodes DEF Anchored
<1>2. n.args[2].kind \in Serialized \cup {"absent"}
  <2>1. ConsistsOf(n, <<>>, OptionalExpr)
    BY <1>1, NodesAssumption DEF PartFields
  <2>2. n.args[2].kind \in OptionalExpr
    BY <1>1, <2>1, Fields0
  <2> QED
    BY <2>2, KindsAreSerialized DEF OptionalExpr, Maybe
<1>3. TypedParameterLayout(n, at) =
           Bytes(n.attr) \o TaggedInt(kind) \o errors \o typed
        \o Optional(n, at, 2) \o Bool(posonly) \o Location(at)
  BY DEF TypedParameterLayout
<1>4. Sound(t, errors, TRUE) /\ Sound(t, typed, TRUE)
  BY <1>1, SoundAnnotation
<1>5. InFile(t, at)
  BY AnchoredInFile
<1> HIDE DEF errors, typed, kind, posonly
<1>6. Sound(t, Bytes(n.attr), TRUE)
  BY SimpleTokens, SimpleIsSound
<1>7. Sound(t, TaggedInt(kind), TRUE)
  BY SimpleTokens, SimpleIsSound
<1>8. Sound(t, Optional(n, at, 2), TRUE)
  BY <1>1, <1>2, SimpleOptional, SimpleIsSound
<1>9. Sound(t, Bool(posonly), TRUE)
  BY SimpleTokens, SimpleIsSound
<1>10. Sound(t, Location(at), TRUE)
  BY <1>5, SimpleLocation, SimpleIsSound
<1>11. Sound(t, Bytes(n.attr) \o TaggedInt(kind) \o errors \o typed \o Optional(n, at, 2) \o Bool(posonly) \o Location(at), TRUE)
  BY <1>6, <1>7, <1>4, <1>8, <1>9, <1>10, SoundJoin7
<1> QED
  BY <1>3, <1>11

LEMMA SimpleTypeParam ==
    ASSUME NEW t, NEW n, NEW at, Anchored(t, n, at), Len(n.args) = 2
    PROVE  Simple(t, TypeParamLayout(n, at), TRUE)
<1> DEFINE bound == n.args[1]
           values == Bool(FALSE) \o TypesFrom(bound, In(at, 1), 1)
           type == OptionalType(n, at, 1) \o ListOf(0)
           bounds == IF bound.kind = "tuple" THEN values ELSE type
<1>1. n \in Nodes /\ 1 \in DOMAIN n.args /\ 2 \in DOMAIN n.args
  BY ArgsAreNodes DEF Anchored
<1>2. TypeParamLayout(n, at) = TaggedInt(n.value) \o Bytes(n.attr) \o bounds \o OptionalType(n, at, 2)
  BY DEF TypeParamLayout
<1>3. TypeAt(t, n, at, TRUE)
  BY AnchoredType
<1>4. TypeAt(t, bound, In(at, 1), TRUE)
  BY <1>1, <1>3, TypeBelow
<1> HIDE DEF bound
<1>5. Simple(t, values, TRUE)
  <2>1. Simple(t, TypesFrom(bound, In(at, 1), 1), TRUE)
    BY <1>4, SimpleTypesFrom
  <2>2. Simple(t, Bool(FALSE), TRUE)
    BY SimpleTokens
  <2> QED
    BY <2>1, <2>2, SimpleJoin
<1>6. Simple(t, type, TRUE)
  <2>1. Simple(t, OptionalType(n, at, 1), TRUE)
    BY <1>1, <1>3, SimpleOptionalType
  <2>2. Simple(t, ListOf(0), TRUE)
    BY SimpleTokens
  <2> QED
    BY <2>1, <2>2, SimpleJoin
<1> HIDE DEF values, type
<1>7. Simple(t, bounds, TRUE)
  BY <1>5, <1>6, Zenon
<1> HIDE DEF bounds
<1>8. Simple(t, TaggedInt(n.value), TRUE)
  BY SimpleTokens
<1>9. Simple(t, Bytes(n.attr), TRUE)
  BY SimpleTokens
<1>10. Simple(t, OptionalType(n, at, 2), TRUE)
  BY <1>1, <1>3, SimpleOptionalType
<1>11. Simple(t, TaggedInt(n.value) \o Bytes(n.attr) \o bounds \o OptionalType(n, at, 2), TRUE)
  BY <1>8, <1>9, <1>7, <1>10, SimpleJoin4
<1> QED
  BY <1>2, <1>11

LEMMA SimpleTypeParams ==
    ASSUME NEW t, NEW n, NEW at, Anchored(t, n, at), n.kind = "typeparams"
    PROVE  Simple(t, TypeParamsLayout(n, at), TRUE)
<1> DEFINE params == [i \in DOMAIN n.args |-> TypeParamLayout(n.args[i], In(at, i))]
<1>1. n \in Nodes /\ IsSeq(n.args)
  BY ArgsAreNodes DEF Anchored, IsSeq
<1>2. \A i \in DOMAIN n.args : Len(n.args[i].args) = 2
  BY <1>1, NodesAssumption DEF PartFields, ParametersHave
<1>3. ASSUME NEW i \in DOMAIN n.args
      PROVE  Simple(t, params[i], TRUE)
  BY <1>2, Below, SimpleTypeParam
<1>4. params = [i \in DOMAIN n.args |-> params[i]]
  OBVIOUS
<1>5. TypeParamsLayout(n, at) = FlattenSeq(params)
  BY DEF TypeParamsLayout, Each
<1> HIDE DEF params
<1> QED
  BY <1>1, <1>3, <1>4, <1>5, SimpleParts

LEMMA SoundAssign ==
    ASSUME NEW t, NEW n, NEW at, Anchored(t, n, at), n.kind = "assign"
    PROVE  Sound(t, AssignBody(n, at), TRUE)
<1> DEFINE invalid == AddError(at) \o Bool(TRUE) \o Invalid("", <<>>) \o Location(at) \o End
           type == IF n.inner = <<>> THEN Bool(FALSE)
                   ELSE IF n.inner[1].kind = "invalid" THEN invalid ELSE CommentType(n, at)
<1>1. n \in Nodes /\ InFile(t, at) /\ at.path \in Seq(Nat)
  BY AnchoredInFile
<1>2. /\ Len(n.args) >= 1 /\ Len(n.args) \in Nat /\ 1 \in DOMAIN n.args /\ n.args[1].kind \in Serialized
      /\ \A i \in DOMAIN n.args : i > 1 => n.args[i].kind \in Serialized
  <2>1. ConsistsOf(n, <<Expr>>, Expr)
    BY <1>1, NodesAssumption DEF StmtFields
  <2> QED
    BY <1>1, <2>1, Fields1, KindsAreSerialized DEF Expr
<1>3. AssignBody(n, at) = Tag("ASSIGN") \o List(n, at, 2) \o Child(n, at, 1) \o type \o Bool(FALSE)
  BY DEF AssignBody
<1>4. Sound(t, invalid, TRUE)
  <2>1. Simple(t, AddError(at), TRUE)
    BY <1>1, SimpleAddError
  <2>2. Simple(t, Bool(TRUE), TRUE)
    BY SimpleTokens
  <2>3. Simple(t, Invalid("", <<>>), TRUE)
    BY SimpleInvalid
  <2>4. Simple(t, Location(at), TRUE)
    BY <1>1, SimpleLocation
  <2>5. Simple(t, End, TRUE)
    BY SimpleMarks
  <2>6. Simple(t, AddError(at) \o Bool(TRUE) \o Invalid("", <<>>) \o Location(at) \o End, TRUE)
    BY <2>1, <2>2, <2>3, <2>4, <2>5, SimpleJoin5
  <2> QED
    BY <2>6, SimpleIsSound
<1> HIDE DEF invalid
<1>5. Sound(t, type, TRUE)
  <2>1. Sound(t, Bool(FALSE), TRUE)
    BY SimpleTokens, SimpleIsSound
  <2>2. n.inner # <<>> => Sound(t, CommentType(n, at), TRUE)
    BY SoundComment
  <2> QED
    BY <1>4, <2>1, <2>2, Zenon
<1> HIDE DEF type
<1>6. Simple(t, List(n, at, 2), TRUE)
  <2>1. 2 \in Nat /\ 2 >= 1 /\ 2 <= Len(n.args) + 1
    BY <1>2
  <2>2. \A i \in DOMAIN n.args : i >= 2 => n.args[i].kind \in Serialized
    <3>1. DOMAIN n.args \subseteq Nat
      BY <1>1, ArgsAreNodes
    <3> QED
      BY <1>2, <3>1
  <2> QED
    BY <2>1, <2>2, SimpleList
<1>7. Sound(t, Tag("ASSIGN"), TRUE)
  BY SimpleTokens, SimpleIsSound
<1>8. Sound(t, List(n, at, 2), TRUE)
  BY <1>6, SimpleIsSound
<1>9. Sound(t, Child(n, at, 1), TRUE)
  BY <1>2, SimpleChild, SimpleIsSound
<1>10. Sound(t, Bool(FALSE), TRUE)
  BY SimpleTokens, SimpleIsSound
<1>11. Sound(t, Tag("ASSIGN") \o List(n, at, 2) \o Child(n, at, 1) \o type \o Bool(FALSE), TRUE)
  BY <1>7, <1>8, <1>9, <1>5, <1>10, SoundJoin5
<1> QED
  BY <1>3, <1>11

LEMMA SimpleAnnAssign ==
    ASSUME NEW t, NEW n, NEW at, Anchored(t, n, at), n.kind = "annassign"
    PROVE  Simple(t, AnnAssignBody(n, at), TRUE)
<1> DEFINE temp == Tag("TEMP_NODE") \o End
           value == IF n.args[3] = Absent THEN temp ELSE Child(n, at, 3)
<1>1. n \in Nodes /\ TypeAt(t, n, at, TRUE)
  BY AnchoredInFile, AnchoredType
<1>2. /\ 1 \in DOMAIN n.args /\ n.args[1].kind \in Serialized
      /\ 2 \in DOMAIN n.args
      /\ 3 \in DOMAIN n.args /\ n.args[3].kind \in Serialized \cup {"absent"}
  <2>1. ConsistsOf(n, <<Expr, Expr, OptionalExpr>>, {})
    BY <1>1, NodesAssumption DEF StmtFields
  <2>2. /\ 1 \in DOMAIN n.args /\ n.args[1].kind \in Expr
        /\ 2 \in DOMAIN n.args
        /\ 3 \in DOMAIN n.args /\ n.args[3].kind \in OptionalExpr
    BY <1>1, <2>1, Fields3
  <2> QED
    BY <2>2, KindsAreSerialized DEF Expr, OptionalExpr, Maybe
<1>3. AnnAssignBody(n, at) =
        Tag("ASSIGN") \o ListOf(1) \o Child(n, at, 1) \o value \o Bool(TRUE) \o ChildType(n, at, 2) \o Bool(TRUE)
  BY DEF AnnAssignBody
<1>4. Simple(t, temp, TRUE)
  BY SimpleTokens, SimpleMarks, SimpleJoin
<1> HIDE DEF temp
<1>5. n.args[3] # Absent => Simple(t, Child(n, at, 3), TRUE)
  <2> SUFFICES ASSUME n.args[3] # Absent PROVE Simple(t, Child(n, at, 3), TRUE)
    OBVIOUS
  <2>1. n.args[3].kind \in Serialized
    BY <1>2, Below, ArgsAreNodes
  <2> QED
    BY <1>2, <2>1, SimpleChild
<1>6. Simple(t, value, TRUE)
  BY <1>4, <1>5, Zenon
<1> HIDE DEF value
<1>7. Simple(t, Tag("ASSIGN"), TRUE)
  BY SimpleTokens
<1>8. Simple(t, ListOf(1), TRUE)
  BY SimpleTokens
<1>9. Simple(t, Child(n, at, 1), TRUE)
  BY <1>2, SimpleChild
<1>10. Simple(t, Bool(TRUE), TRUE)
  BY SimpleTokens
<1>11. Simple(t, ChildType(n, at, 2), TRUE)
  BY <1>1, <1>2, SimpleChildType
<1>12. Simple(t, Tag("ASSIGN") \o ListOf(1) \o Child(n, at, 1) \o value \o Bool(TRUE) \o ChildType(n, at, 2) \o Bool(TRUE), TRUE)
  BY <1>7, <1>8, <1>9, <1>6, <1>10, <1>11, SimpleJoin7
<1> QED
  BY <1>3, <1>12

LEMMA SimpleTypeAlias ==
    ASSUME NEW t, NEW n, NEW at, Anchored(t, n, at), n.kind = "typealias"
    PROVE  Simple(t, TypeAliasBody(n, at), TRUE)
<1> DEFINE params == n.args[2]
<1>1. n \in Nodes
  BY AnchoredInFile
<1>2. /\ 1 \in DOMAIN n.args /\ n.args[1].kind \in Serialized
      /\ 2 \in DOMAIN n.args /\ params.kind = "typeparams"
      /\ 3 \in DOMAIN n.args /\ n.args[3].kind \in Serialized
  <2>1. ConsistsOf(n, <<Expr, {"typeparams"}, Expr>>, {})
    BY <1>1, NodesAssumption DEF StmtFields
  <2>2. /\ 1 \in DOMAIN n.args /\ n.args[1].kind \in Expr
        /\ 2 \in DOMAIN n.args /\ n.args[2].kind \in {"typeparams"}
        /\ 3 \in DOMAIN n.args /\ n.args[3].kind \in Expr
    BY <1>1, <2>1, Fields3
  <2> QED
    BY <2>2, KindsAreSerialized DEF Expr
<1>3. Anchored(t, params, In(at, 2))
  BY <1>2, Below
<1>4. TypeAliasBody(n, at) =
        Tag("TYPE_ALIAS_STMT") \o Child(n, at, 1) \o RawInt(Len(params.args))
        \o TypeParamsLayout(params, In(at, 2)) \o Child(n, at, 3)
  BY DEF TypeAliasBody
<1> HIDE DEF params
<1>5. Simple(t, Tag("TYPE_ALIAS_STMT"), TRUE)
  BY SimpleTokens
<1>6. Simple(t, Child(n, at, 1), TRUE)
  BY <1>2, SimpleChild
<1>7. Simple(t, RawInt(Len(params.args)), TRUE)
  BY SimpleTokens
<1>8. Simple(t, TypeParamsLayout(params, In(at, 2)), TRUE)
  BY <1>2, <1>3, SimpleTypeParams
<1>9. Simple(t, Child(n, at, 3), TRUE)
  BY <1>2, SimpleChild
<1>10. Simple(t, Tag("TYPE_ALIAS_STMT") \o Child(n, at, 1) \o RawInt(Len(params.args)) \o TypeParamsLayout(params, In(at, 2)) \o Child(n, at, 3), TRUE)
  BY <1>5, <1>6, <1>7, <1>8, <1>9, SimpleJoin5
<1> QED
  BY <1>4, <1>10

LEMMA SimpleDelete ==
    ASSUME NEW t, NEW n, NEW at, Anchored(t, n, at), n.kind = "delete"
    PROVE  Simple(t, DeleteBody(n, at), TRUE)
<1> DEFINE tuple == Tag("TUPLE_EXPR") \o List(n, at, 1) \o Location(at) \o End
           targets == IF Len(n.args) = 1 THEN Child(n, at, 1) ELSE tuple
<1>1. n \in Nodes /\ InFile(t, at)
  BY AnchoredInFile
<1>2. Len(n.args) \in Nat /\ DOMAIN n.args = 1..Len(n.args) /\ \A i \in DOMAIN n.args : n.args[i].kind \in Serialized
  <2>1. ConsistsOf(n, <<>>, Expr)
    BY <1>1, NodesAssumption DEF StmtFields
  <2>2. /\ Len(n.args) \in Nat /\ DOMAIN n.args = 1..Len(n.args)
        /\ \A i \in DOMAIN n.args : i > 0 => n.args[i].kind \in Expr
    BY <1>1, <2>1, Fields0
  <2> QED
    BY <2>2, KindsAreSerialized DEF Expr
<1>3. DeleteBody(n, at) = Tag("DEL_STMT") \o targets
  BY DEF DeleteBody
<1>4. Simple(t, List(n, at, 1), TRUE)
  <2>1. 1 \in Nat /\ 1 >= 1 /\ 1 <= Len(n.args) + 1
    BY <1>2
  <2> QED
    BY <1>2, <2>1, SimpleList
<1>5. Simple(t, Tag("TUPLE_EXPR"), TRUE)
  BY SimpleTokens
<1>6. Simple(t, Location(at), TRUE)
  BY <1>1, SimpleLocation
<1>7. Simple(t, End, TRUE)
  BY SimpleMarks
<1>8. Simple(t, Tag("TUPLE_EXPR") \o List(n, at, 1) \o Location(at) \o End, TRUE)
  BY <1>5, <1>4, <1>6, <1>7, SimpleJoin4
<1>9. Simple(t, tuple, TRUE)
  BY <1>8
<1> HIDE DEF tuple
<1>10. Len(n.args) = 1 => Simple(t, Child(n, at, 1), TRUE)
  <2>1. Len(n.args) = 1 => 1 \in DOMAIN n.args
    BY <1>2
  <2> QED
    BY <1>2, <2>1, SimpleChild
<1>11. Simple(t, targets, TRUE)
  BY <1>9, <1>10, Zenon
<1> HIDE DEF targets
<1>12. Simple(t, Tag("DEL_STMT"), TRUE)
  BY SimpleTokens
<1> QED
  BY <1>3, <1>11, <1>12, SimpleJoin

-----------------------------------------------------------------------------
(* Statements.                                                               *)

LEMMA SimpleBlockLayout ==
    ASSUME NEW t, NEW n, NEW at, NEW place, Anchored(t, n, at), n.kind = "block", InFile(t, place)
    PROVE  Simple(t, BlockLayout(n, at, place), TRUE) /\ Simple(t, ElseOfLoop(n, at), TRUE)
<1> DEFINE located == IF n.args = <<>> THEN Location(place) ELSE <<>>
<1>1. n \in Nodes
  BY AnchoredInFile
<1>2. \A i \in DOMAIN n.args : n.args[i].kind \in Serialized
  <2>1. ConsistsOf(n, <<>>, StmtKinds)
    BY <1>1, NodesAssumption DEF PartFields
  <2>2. /\ DOMAIN n.args = 1..Len(n.args) /\ Len(n.args) \in Nat
        /\ \A i \in DOMAIN n.args : i > 0 => n.args[i].kind \in StmtKinds
    BY <1>1, <2>1, Fields0
  <2> QED
    BY <2>2, KindsAreSerialized
<1>3. Simple(t, located, TRUE)
  BY SimpleLocation, SimpleEmpty, Zenon
<1>4. BlockLayout(n, at, place) =
        Tag("BLOCK") \o ListOf(Len(n.args)) \o WriteUnreachable \o located \o All(n, at) \o End
  BY DEF BlockLayout
<1>5. ElseOfLoop(n, at) = Tag("BLOCK") \o ListOf(Len(n.args)) \o WriteUnreachable \o All(n, at) \o End
  BY DEF ElseOfLoop
<1>6. Simple(t, All(n, at), TRUE)
  BY <1>2, SimpleAll
<1> HIDE DEF located
<1>7. Simple(t, Tag("BLOCK"), TRUE)
  BY SimpleTokens
<1>8. Simple(t, ListOf(Len(n.args)), TRUE)
  BY SimpleTokens
<1>9. Simple(t, WriteUnreachable, TRUE)
  BY SimpleSteps
<1>10. Simple(t, End, TRUE)
  BY SimpleMarks
<1>11. Simple(t, Tag("BLOCK") \o ListOf(Len(n.args)) \o WriteUnreachable \o located \o All(n, at) \o End, TRUE)
  BY <1>7, <1>8, <1>9, <1>3, <1>6, <1>10, SimpleJoin6
<1>12. Simple(t, Tag("BLOCK") \o ListOf(Len(n.args)) \o WriteUnreachable \o All(n, at) \o End, TRUE)
  BY <1>7, <1>8, <1>9, <1>6, <1>10, SimpleJoin5
<1> QED
  BY <1>4, <1>5, <1>11, <1>12

LEMMA SimpleBlock ==
    ASSUME NEW t, NEW n, NEW at, NEW i, NEW place, Anchored(t, n, at), i \in DOMAIN n.args,
           n.args[i].kind = "block", InFile(t, place)
    PROVE  Simple(t, Block(n, at, i, place), TRUE)
<1>1. Anchored(t, n.args[i], In(at, i))
  BY Below
<1> QED
  BY <1>1, SimpleBlockLayout DEF Block

LEMMA SimpleElse ==
    ASSUME NEW t, NEW n, NEW at, NEW i, Anchored(t, n, at), i \in DOMAIN n.args,
           n.args[i].kind = "block"
    PROVE  Simple(t, ElseOfLoop(n.args[i], In(at, i)), TRUE)
<1>1. Anchored(t, n.args[i], In(at, i))
  BY Below
<1>2. InFile(t, In(at, i))
  BY <1>1, AnchoredInFile
<1> QED
  BY <1>1, <1>2, SimpleBlockLayout

LEMMA SimpleOptionalBlock ==
    ASSUME NEW t, NEW n, NEW at, NEW i, Anchored(t, n, at), i \in DOMAIN n.args,
           n.args[i].kind = "block"
    PROVE  Simple(t, OptionalBlock(n, at, i), TRUE)
<1>1. Simple(t, Block(n, at, i, at), TRUE)
  BY AnchoredInFile, SimpleBlock
<1>2. Simple(t, Bool(FALSE), TRUE) /\ Simple(t, Bool(TRUE), TRUE)
  BY SimpleTokens
<1>3. Simple(t, Bool(TRUE) \o Block(n, at, i, at), TRUE)
  BY <1>1, <1>2, SimpleJoin
<1> QED
  BY <1>2, <1>3, Zenon DEF OptionalBlock

LEMMA SimpleIf ==
    ASSUME NEW t, NEW n, NEW at, Anchored(t, n, at), n.kind = "if_stmt"
    PROVE  Simple(t, IfLayout(n, at), TRUE)
<1>1. n \in Nodes /\ InFile(t, at)
  BY AnchoredInFile
<1>2. /\ 1 \in DOMAIN n.args /\ n.args[1].kind \in Serialized
      /\ 2 \in DOMAIN n.args /\ n.args[2].kind = "block"
      /\ Len(n.args) >= 2 /\ Len(n.args) \in Nat /\ DOMAIN n.args = 1..Len(n.args)
      /\ \A i \in DOMAIN n.args : i > 2 => n.args[i].kind = "clause"
  <2>1. ConsistsOf(n, <<Expr, {"block"}>>, {"clause"})
    BY <1>1, NodesAssumption DEF StmtFields
  <2>2. /\ 1 \in DOMAIN n.args /\ n.args[1].kind \in Expr
        /\ 2 \in DOMAIN n.args /\ n.args[2].kind \in {"block"}
        /\ Len(n.args) >= 2 /\ Len(n.args) \in Nat /\ DOMAIN n.args = 1..Len(n.args)
        /\ \A i \in DOMAIN n.args : i > 2 => n.args[i].kind \in {"clause"}
    BY <1>1, <2>1, Fields2
  <2> QED
    BY <2>2, KindsAreSerialized DEF Expr, OptionalExpr, Maybe
<1> DEFINE clauses == SubSeq(n.args, 3, Len(n.args))
           IsElse(c) == c.args[1] = Absent
           test == [i \in DOMAIN clauses |->
                      IF IsElse(clauses[i]) THEN Bool(TRUE) ELSE Child(clauses[i], In(at, i + 2), 1)]
           parts == [i \in DOMAIN clauses |->
                      (IF IsElse(clauses[i]) THEN Bool(TRUE) ELSE Child(clauses[i], In(at, i + 2), 1))
                      \o Block(clauses[i], In(at, i + 2), 2, In(at, i + 2))]
           hasElse == clauses # <<>> /\ IsElse(Last(clauses))
           count == Len(clauses) - IF hasElse THEN 1 ELSE 0
           noElse == IF hasElse THEN <<>> ELSE Bool(FALSE)
<1>3. /\ IsSeq(clauses)
      /\ \A i \in DOMAIN clauses : 2 + i \in DOMAIN n.args /\ 2 + i > 2 /\ clauses[i] = n.args[2 + i]
  <2>1. 2 \in Nat /\ 2 + 1 = 3
    OBVIOUS
  <2> DEFINE rest == SubSeq(n.args, 2 + 1, Len(n.args))
  <2>2. /\ IsSeq(rest)
        /\ \A i \in DOMAIN rest : 2 + i \in DOMAIN n.args /\ 2 + i > 2 /\ rest[i] = n.args[2 + i]
    BY <1>1, <1>2, <2>1, RestOfArgs
  <2>3. rest = clauses
    BY <2>1
  <2> HIDE DEF rest, clauses
  <2> QED
    BY <2>2, <2>3
<1>4. IfLayout(n, at) =
           Tag("IF") \o Child(n, at, 1) \o Block(n, at, 2, at)
        \o TaggedInt(count) \o FlattenSeq(parts) \o noElse
  BY DEF IfLayout, Each
<1>5. parts = [i \in DOMAIN clauses |-> parts[i]]
  OBVIOUS
<1> HIDE DEF clauses
<1>6. ASSUME NEW i \in DOMAIN clauses
      PROVE  Simple(t, parts[i], TRUE)
  <2> DEFINE m == clauses[i]
             place == In(at, i + 2)
             first == IF IsElse(m) THEN Bool(TRUE) ELSE Child(m, place, 1)
  <2>1. parts[i] = first \o Block(m, place, 2, place)
    OBVIOUS
  <2>2. Anchored(t, m, place) /\ m.kind = "clause"
    <3>0. i \in Int
      BY <1>3 DEF IsSeq
    <3>1. 2 + i \in DOMAIN n.args /\ m = n.args[2 + i] /\ m.kind = "clause" /\ 2 + i = i + 2
      BY <1>2, <1>3, <3>0
    <3> QED
      BY <3>1, Below
  <2> HIDE DEF parts, m, place
  <2>3. m \in Nodes /\ InFile(t, place)
    BY <2>2, AnchoredInFile
  <2>4. /\ 1 \in DOMAIN m.args /\ m.args[1].kind \in Serialized \cup {"absent"}
        /\ 2 \in DOMAIN m.args /\ m.args[2].kind = "block"
        /\ Len(m.args) >= 2 /\ Len(m.args) \in Nat /\ DOMAIN m.args = 1..Len(m.args)
    <3>1. ConsistsOf(m, <<OptionalExpr, {"block"}>>, {})
      BY <2>2, <2>3, NodesAssumption DEF PartFields
    <3>2. /\ 1 \in DOMAIN m.args /\ m.args[1].kind \in OptionalExpr
          /\ 2 \in DOMAIN m.args /\ m.args[2].kind \in {"block"}
          /\ Len(m.args) >= 2 /\ Len(m.args) \in Nat /\ DOMAIN m.args = 1..Len(m.args)
      BY <2>2, <2>3, <3>1, Fields2
    <3> QED
      BY <3>2, KindsAreSerialized DEF Expr, OptionalExpr, Maybe
  <2>5. ~IsElse(m) => Simple(t, Child(m, place, 1), TRUE)
    <3> SUFFICES ASSUME m.args[1] # Absent PROVE Simple(t, Child(m, place, 1), TRUE)
      OBVIOUS
    <3>1. m.args[1].kind \in Serialized
      BY <2>3, <2>4, ArgsAreNodes
    <3> QED
      BY <2>2, <2>4, <3>1, SimpleChild
  <2>6. Simple(t, Bool(TRUE), TRUE)
    BY SimpleTokens
  <2>7. Simple(t, first, TRUE)
    BY <2>5, <2>6, Zenon
  <2>8. Simple(t, Block(m, place, 2, place), TRUE)
    BY <2>2, <2>3, <2>4, SimpleBlock
  <2> HIDE DEF first
  <2> QED
    BY <2>1, <2>7, <2>8, SimpleJoin
<1> HIDE DEF parts, hasElse, count
<1>7. Simple(t, FlattenSeq(parts), TRUE)
  BY <1>3, <1>5, <1>6, SimpleParts
<1>8. Simple(t, noElse, TRUE)
  BY SimpleTokens, SimpleEmpty, Zenon
<1> HIDE DEF noElse
<1>9. Simple(t, Tag("IF"), TRUE)
  BY SimpleTokens
<1>10. Simple(t, Child(n, at, 1), TRUE)
  BY <1>2, SimpleChild
<1>11. Simple(t, Block(n, at, 2, at), TRUE)
  BY <1>1, <1>2, SimpleBlock
<1>12. Simple(t, TaggedInt(count), TRUE)
  BY SimpleTokens
<1>13. Simple(t, Tag("IF") \o Child(n, at, 1) \o Block(n, at, 2, at) \o TaggedInt(count) \o FlattenSeq(parts) \o noElse, TRUE)
  BY <1>9, <1>10, <1>11, <1>12, <1>7, <1>8, SimpleJoin6
<1> QED
  BY <1>4, <1>13

LEMMA SimpleMatch ==
    ASSUME NEW t, NEW n, NEW at, Anchored(t, n, at), n.kind = "match"
    PROVE  Simple(t, MatchLayout(n, at), TRUE)
<1>1. n \in Nodes
  BY AnchoredInFile
<1>2. /\ 1 \in DOMAIN n.args /\ n.args[1].kind \in Serialized
      /\ Len(n.args) >= 1 /\ Len(n.args) \in Nat /\ DOMAIN n.args = 1..Len(n.args)
      /\ \A i \in DOMAIN n.args : i > 1 => n.args[i].kind = "case"
  <2>1. ConsistsOf(n, <<Expr>>, {"case"})
    BY <1>1, NodesAssumption DEF StmtFields
  <2>2. /\ 1 \in DOMAIN n.args /\ n.args[1].kind \in Expr
        /\ Len(n.args) >= 1 /\ Len(n.args) \in Nat /\ DOMAIN n.args = 1..Len(n.args)
        /\ \A i \in DOMAIN n.args : i > 1 => n.args[i].kind \in {"case"}
    BY <1>1, <2>1, Fields1
  <2> QED
    BY <2>2, KindsAreSerialized DEF Expr, OptionalExpr, Maybe
<1> DEFINE cases == Tail(n.args)
           parts == [i \in DOMAIN cases |->
                 Child(n.args[i + 1], In(at, i + 1), 1) \o Optional(n.args[i + 1], In(at, i + 1), 2)
                 \o Block(n.args[i + 1], In(at, i + 1), 3, In(at, i + 1))]
<1>3. /\ IsSeq(cases)
      /\ \A i \in DOMAIN cases : i + 1 \in DOMAIN n.args /\ i + 1 > 1
  BY <1>1, <1>2, TailArgs
<1>4. MatchLayout(n, at) = Tag("MATCH_STMT") \o Child(n, at, 1) \o TaggedInt(Len(n.args) - 1) \o FlattenSeq(parts)
  BY DEF MatchLayout, Each
<1>5. parts = [i \in DOMAIN cases |-> parts[i]]
  OBVIOUS
<1> HIDE DEF cases
<1>6. ASSUME NEW i \in DOMAIN cases
      PROVE  Simple(t, parts[i], TRUE)
  <2> DEFINE m == n.args[i + 1]
             place == In(at, i + 1)
  <2>1. parts[i] = Child(m, place, 1) \o Optional(m, place, 2) \o Block(m, place, 3, place)
    OBVIOUS
  <2>2. Anchored(t, m, place) /\ m.kind = "case"
    BY <1>2, <1>3, Below
  <2> HIDE DEF parts, m, place
  <2>3. m \in Nodes /\ InFile(t, place)
    BY <2>2, AnchoredInFile
  <2>4. /\ 1 \in DOMAIN m.args /\ m.args[1].kind \in Serialized
        /\ 2 \in DOMAIN m.args /\ m.args[2].kind \in Serialized \cup {"absent"}
        /\ 3 \in DOMAIN m.args /\ m.args[3].kind = "block"
        /\ Len(m.args) >= 3 /\ Len(m.args) \in Nat /\ DOMAIN m.args = 1..Len(m.args)
    <3>1. ConsistsOf(m, <<Patterns, OptionalExpr, {"block"}>>, {})
      BY <2>2, <2>3, NodesAssumption DEF PartFields
    <3>2. /\ 1 \in DOMAIN m.args /\ m.args[1].kind \in Patterns
          /\ 2 \in DOMAIN m.args /\ m.args[2].kind \in OptionalExpr
          /\ 3 \in DOMAIN m.args /\ m.args[3].kind \in {"block"}
          /\ Len(m.args) >= 3 /\ Len(m.args) \in Nat /\ DOMAIN m.args = 1..Len(m.args)
      BY <2>2, <2>3, <3>1, Fields3
    <3> QED
      BY <3>2, KindsAreSerialized DEF Expr, OptionalExpr, Maybe
  <2>5. Simple(t, Child(m, place, 1), TRUE)
    BY <2>2, <2>4, SimpleChild
  <2>6. Simple(t, Optional(m, place, 2), TRUE)
    BY <2>2, <2>4, SimpleOptional
  <2>7. Simple(t, Block(m, place, 3, place), TRUE)
    BY <2>2, <2>3, <2>4, SimpleBlock
  <2>8. Simple(t, Child(m, place, 1) \o Optional(m, place, 2) \o Block(m, place, 3, place), TRUE)
    BY <2>5, <2>6, <2>7, SimpleJoin3
  <2> QED
    BY <2>1, <2>8
<1> HIDE DEF parts
<1>7. Simple(t, Tag("MATCH_STMT"), TRUE)
  BY SimpleTokens
<1>8. Simple(t, Child(n, at, 1), TRUE)
  BY <1>2, SimpleChild
<1>9. Simple(t, TaggedInt(Len(n.args) - 1), TRUE)
  BY SimpleTokens
<1>10. Simple(t, FlattenSeq(parts), TRUE)
  BY <1>3, <1>5, <1>6, SimpleParts
<1>11. Simple(t, Tag("MATCH_STMT") \o Child(n, at, 1) \o TaggedInt(Len(n.args) - 1) \o FlattenSeq(parts), TRUE)
  BY <1>7, <1>8, <1>9, <1>10, SimpleJoin4
<1> QED
  BY <1>4, <1>11

LEMMA SimpleWith ==
    ASSUME NEW t, NEW n, NEW at, Anchored(t, n, at), n.kind = "with"
    PROVE  Simple(t, WithLayout(n, at), TRUE)
<1>1. n \in Nodes /\ InFile(t, at)
  BY AnchoredInFile
<1>2. /\ 1 \in DOMAIN n.args /\ n.args[1].kind = "block"
      /\ Len(n.args) >= 1 /\ Len(n.args) \in Nat /\ DOMAIN n.args = 1..Len(n.args)
      /\ \A i \in DOMAIN n.args : i > 1 => n.args[i].kind = "withitem"
  <2>1. ConsistsOf(n, <<{"block"}>>, {"withitem"})
    BY <1>1, NodesAssumption DEF StmtFields
  <2>2. /\ 1 \in DOMAIN n.args /\ n.args[1].kind \in {"block"}
        /\ Len(n.args) >= 1 /\ Len(n.args) \in Nat /\ DOMAIN n.args = 1..Len(n.args)
        /\ \A i \in DOMAIN n.args : i > 1 => n.args[i].kind \in {"withitem"}
    BY <1>1, <2>1, Fields1
  <2> QED
    BY <2>2, KindsAreSerialized DEF Expr, OptionalExpr, Maybe
<1> DEFINE items == Tail(n.args)
           async == n.attr = "async"
           parts == [i \in DOMAIN items |->
                 Child(n.args[i + 1], In(at, i + 1), 1) \o Optional(n.args[i + 1], In(at, i + 1), 2)]
<1>3. /\ IsSeq(items)
      /\ \A i \in DOMAIN items : i + 1 \in DOMAIN n.args /\ i + 1 > 1
  BY <1>1, <1>2, TailArgs
<1>4. WithLayout(n, at) =
           Tag("WITH_STMT") \o TaggedInt(Len(n.args) - 1) \o FlattenSeq(parts)
        \o Block(n, at, 1, at) \o Bool(async)
  BY Zenon DEF WithLayout, Each
<1>5. parts = [i \in DOMAIN items |-> parts[i]]
  OBVIOUS
<1> HIDE DEF items, async
<1>6. ASSUME NEW i \in DOMAIN items
      PROVE  Simple(t, parts[i], TRUE)
  <2> DEFINE m == n.args[i + 1]
             place == In(at, i + 1)
  <2>1. parts[i] = Child(m, place, 1) \o Optional(m, place, 2)
    OBVIOUS
  <2>2. Anchored(t, m, place) /\ m.kind = "withitem"
    BY <1>2, <1>3, Below
  <2> HIDE DEF parts, m, place
  <2>3. m \in Nodes
    BY <2>2, AnchoredInFile
  <2>4. /\ 1 \in DOMAIN m.args /\ m.args[1].kind \in Serialized
        /\ 2 \in DOMAIN m.args /\ m.args[2].kind \in Serialized \cup {"absent"}
        /\ Len(m.args) >= 2 /\ Len(m.args) \in Nat /\ DOMAIN m.args = 1..Len(m.args)
    <3>1. ConsistsOf(m, <<Expr, OptionalExpr>>, {})
      BY <2>2, <2>3, NodesAssumption DEF PartFields
    <3>2. /\ 1 \in DOMAIN m.args /\ m.args[1].kind \in Expr
          /\ 2 \in DOMAIN m.args /\ m.args[2].kind \in OptionalExpr
          /\ Len(m.args) >= 2 /\ Len(m.args) \in Nat /\ DOMAIN m.args = 1..Len(m.args)
      BY <2>2, <2>3, <3>1, Fields2
    <3> QED
      BY <3>2, KindsAreSerialized DEF Expr, OptionalExpr, Maybe
  <2>5. Simple(t, Child(m, place, 1), TRUE)
    BY <2>2, <2>4, SimpleChild
  <2>6. Simple(t, Optional(m, place, 2), TRUE)
    BY <2>2, <2>4, SimpleOptional
  <2>7. Simple(t, Child(m, place, 1) \o Optional(m, place, 2), TRUE)
    BY <2>5, <2>6, SimpleJoin
  <2> QED
    BY <2>1, <2>7
<1> HIDE DEF parts
<1>7. Simple(t, Tag("WITH_STMT"), TRUE)
  BY SimpleTokens
<1>8. Simple(t, TaggedInt(Len(n.args) - 1), TRUE)
  BY SimpleTokens
<1>9. Simple(t, FlattenSeq(parts), TRUE)
  BY <1>3, <1>5, <1>6, SimpleParts
<1>10. Simple(t, Block(n, at, 1, at), TRUE)
  BY <1>1, <1>2, SimpleBlock
<1>11. Simple(t, Bool(async), TRUE)
  BY SimpleTokens
<1>12. Simple(t, Tag("WITH_STMT") \o TaggedInt(Len(n.args) - 1) \o FlattenSeq(parts) \o Block(n, at, 1, at) \o Bool(async), TRUE)
  BY <1>7, <1>8, <1>9, <1>10, <1>11, SimpleJoin5
<1> QED
  BY <1>4, <1>12

LEMMA SimpleLoop ==
    ASSUME NEW t, NEW n, NEW at, Anchored(t, n, at), n.kind \in {"while", "for"}
    PROVE  Simple(t, LoopLayout(n, at), TRUE)
<1>1. n \in Nodes /\ InFile(t, at)
  BY AnchoredInFile
<1> DEFINE async == n.attr = "async"
<1>2. CASE n.kind = "while"
  <2>1. /\ 1 \in DOMAIN n.args /\ n.args[1].kind \in Serialized
        /\ 2 \in DOMAIN n.args /\ n.args[2].kind = "block"
        /\ 3 \in DOMAIN n.args /\ n.args[3].kind = "block"
        /\ Len(n.args) >= 3 /\ Len(n.args) \in Nat /\ DOMAIN n.args = 1..Len(n.args)
    <3>1. ConsistsOf(n, <<Expr, {"block"}, {"block"}>>, {})
      BY <1>1, <1>2, NodesAssumption DEF StmtFields
    <3>2. /\ 1 \in DOMAIN n.args /\ n.args[1].kind \in Expr
          /\ 2 \in DOMAIN n.args /\ n.args[2].kind \in {"block"}
          /\ 3 \in DOMAIN n.args /\ n.args[3].kind \in {"block"}
          /\ Len(n.args) >= 3 /\ Len(n.args) \in Nat /\ DOMAIN n.args = 1..Len(n.args)
      BY <1>1, <1>2, <3>1, Fields3
    <3> QED
      BY <3>2, KindsAreSerialized DEF Expr, OptionalExpr, Maybe
  <2>2. LoopLayout(n, at) =
          Tag("WHILE") \o Child(n, at, 1) \o Block(n, at, 2, at) \o ElseOfLoop(n.args[3], In(at, 3))
    BY <1>2 DEF LoopLayout
  <2>3. Simple(t, Tag("WHILE"), TRUE)
    BY SimpleTokens
  <2>4. Simple(t, Child(n, at, 1), TRUE)
    BY <2>1, SimpleChild
  <2>5. Simple(t, Block(n, at, 2, at), TRUE)
    BY <1>1, <2>1, SimpleBlock
  <2>6. Simple(t, ElseOfLoop(n.args[3], In(at, 3)), TRUE)
    BY <2>1, SimpleElse
  <2>7. Simple(t, Tag("WHILE") \o Child(n, at, 1) \o Block(n, at, 2, at) \o ElseOfLoop(n.args[3], In(at, 3)), TRUE)
    BY <2>3, <2>4, <2>5, <2>6, SimpleJoin4
  <2> QED
    BY <2>2, <2>7
<1>3. CASE n.kind = "for"
  <2>1. /\ 1 \in DOMAIN n.args /\ n.args[1].kind \in Serialized
        /\ 2 \in DOMAIN n.args /\ n.args[2].kind \in Serialized
        /\ 3 \in DOMAIN n.args /\ n.args[3].kind = "block"
        /\ 4 \in DOMAIN n.args /\ n.args[4].kind = "block"
        /\ Len(n.args) >= 4 /\ Len(n.args) \in Nat /\ DOMAIN n.args = 1..Len(n.args)
    <3>1. ConsistsOf(n, <<Expr, Expr, {"block"}, {"block"}>>, {})
      BY <1>1, <1>3, NodesAssumption DEF StmtFields
    <3>2. /\ 1 \in DOMAIN n.args /\ n.args[1].kind \in Expr
          /\ 2 \in DOMAIN n.args /\ n.args[2].kind \in Expr
          /\ 3 \in DOMAIN n.args /\ n.args[3].kind \in {"block"}
          /\ 4 \in DOMAIN n.args /\ n.args[4].kind \in {"block"}
          /\ Len(n.args) >= 4 /\ Len(n.args) \in Nat /\ DOMAIN n.args = 1..Len(n.args)
      BY <1>1, <1>3, <3>1, Fields4
    <3> QED
      BY <3>2, KindsAreSerialized DEF Expr, OptionalExpr, Maybe
  <2>2. LoopLayout(n, at) =
             Tag("FOR_STMT") \o Child(n, at, 1) \o Child(n, at, 2) \o Block(n, at, 3, at)
          \o ElseOfLoop(n.args[4], In(at, 4)) \o Bool(async)
    <3>1. n.kind # "while"
      BY <1>3
    <3> QED
      BY <3>1, Zenon DEF LoopLayout
  <2> HIDE DEF async
  <2>3. Simple(t, Tag("FOR_STMT"), TRUE)
    BY SimpleTokens
  <2>4. Simple(t, Child(n, at, 1), TRUE)
    BY <2>1, SimpleChild
  <2>5. Simple(t, Child(n, at, 2), TRUE)
    BY <2>1, SimpleChild
  <2>6. Simple(t, Block(n, at, 3, at), TRUE)
    BY <1>1, <2>1, SimpleBlock
  <2>7. Simple(t, ElseOfLoop(n.args[4], In(at, 4)), TRUE)
    BY <2>1, SimpleElse
  <2>8. Simple(t, Bool(async), TRUE)
    BY SimpleTokens
  <2>9. Simple(t, Tag("FOR_STMT") \o Child(n, at, 1) \o Child(n, at, 2) \o Block(n, at, 3, at) \o ElseOfLoop(n.args[4], In(at, 4)) \o Bool(async), TRUE)
    BY <2>3, <2>4, <2>5, <2>6, <2>7, <2>8, SimpleJoin6
  <2> QED
    BY <2>2, <2>9
<1> QED
  BY <1>2, <1>3

LEMMA SimpleTry ==
    ASSUME NEW t, NEW n, NEW at, Anchored(t, n, at), n.kind = "try"
    PROVE  Simple(t, TryLayout(n, at), TRUE)
<1> DEFINE m == n.args[2]
           handlers == m.args
           there == In(at, 2)
           bare(h) == h.args[1].kind = "tuple" /\ h.args[1].attr = "bare" /\ h.attr = "" /\ PythonVersion < 14
           star == n.attr = "star"
           exceptions == [i \in DOMAIN handlers |->
                 Optional(handlers[i], In(there, i), 1)
                 \o IF bare(handlers[i]) THEN AddError(In(In(there, i), 1)) ELSE <<>>]
           names == [i \in DOMAIN handlers |->
                 IF handlers[i].attr = "" THEN Bool(FALSE)
                 ELSE Bool(TRUE) \o Bytes(handlers[i].attr)
                      \o IF cache_version >= CV_HANDLER_LOCATIONS
                         THEN Location(In(In(there, i), 3)) ELSE <<>>]
           bodies == [i \in DOMAIN handlers |-> Block(handlers[i], In(there, i), 2, In(there, i))]
<1>1. n \in Nodes /\ InFile(t, at)
  BY AnchoredInFile
<1>2. /\ 1 \in DOMAIN n.args /\ n.args[1].kind = "block"
      /\ 2 \in DOMAIN n.args /\ n.args[2].kind = "handlers"
      /\ 3 \in DOMAIN n.args /\ n.args[3].kind = "block"
      /\ 4 \in DOMAIN n.args /\ n.args[4].kind = "block"
      /\ Len(n.args) >= 4 /\ Len(n.args) \in Nat /\ DOMAIN n.args = 1..Len(n.args)
  <2>1. ConsistsOf(n, <<{"block"}, {"handlers"}, {"block"}, {"block"}>>, {})
    BY <1>1, NodesAssumption DEF StmtFields
  <2>2. /\ 1 \in DOMAIN n.args /\ n.args[1].kind \in {"block"}
        /\ 2 \in DOMAIN n.args /\ n.args[2].kind \in {"handlers"}
        /\ 3 \in DOMAIN n.args /\ n.args[3].kind \in {"block"}
        /\ 4 \in DOMAIN n.args /\ n.args[4].kind \in {"block"}
        /\ Len(n.args) >= 4 /\ Len(n.args) \in Nat /\ DOMAIN n.args = 1..Len(n.args)
    BY <1>1, <2>1, Fields4
  <2> QED
    BY <2>2, KindsAreSerialized DEF Expr, OptionalExpr, Maybe
<1>3. TryLayout(n, at) =
           Tag("TRY_STMT") \o Block(n, at, 1, at) \o TaggedInt(Len(handlers))
        \o FlattenSeq(exceptions) \o FlattenSeq(names) \o FlattenSeq(bodies)
        \o OptionalBlock(n, at, 3) \o OptionalBlock(n, at, 4) \o Bool(star)
  BY Zenon DEF TryLayout, Each
<1>4. Anchored(t, m, there) /\ m.kind = "handlers" /\ m \in Nodes
  BY <1>2, Below
<1>5. exceptions = [i \in DOMAIN handlers |-> exceptions[i]] /\ names = [i \in DOMAIN handlers |-> names[i]]
      /\ bodies = [i \in DOMAIN handlers |-> bodies[i]]
  OBVIOUS
<1>6. IsSeq(handlers) /\ \A i \in DOMAIN m.args : m.args[i].kind = "handler"
  <2>1. ConsistsOf(m, <<>>, {"handler"})
    BY <1>4, NodesAssumption DEF PartFields
  <2>2. /\ DOMAIN m.args = 1..Len(m.args) /\ Len(m.args) \in Nat
        /\ \A i \in DOMAIN m.args : i > 0 => m.args[i].kind \in {"handler"}
    BY <1>4, <2>1, Fields0
  <2>3. IsSeq(m.args)
    BY <1>4, ArgsAreNodes DEF IsSeq
  <2> HIDE DEF m
  <2> QED
    BY <2>2, <2>3
<1> HIDE DEF star
<1>7. ASSUME NEW i \in DOMAIN handlers
      PROVE  Simple(t, exceptions[i], TRUE) /\ Simple(t, names[i], TRUE) /\ Simple(t, bodies[i], TRUE)
  <2> DEFINE h == handlers[i]
             place == In(there, i)
             error == IF bare(h) THEN AddError(In(place, 1)) ELSE <<>>
             located == IF cache_version >= CV_HANDLER_LOCATIONS THEN Location(In(place, 3)) ELSE <<>>
             name == Bool(TRUE) \o Bytes(h.attr) \o located
  <2>1. exceptions[i] = Optional(h, place, 1) \o error
    BY Zenon
  <2>2. names[i] = IF h.attr = "" THEN Bool(FALSE) ELSE name
    BY Zenon
  <2>3. bodies[i] = Block(h, place, 2, place)
    OBVIOUS
  <2>4. Anchored(t, h, place) /\ h.kind = "handler"
    BY <1>4, <1>6, Below
  <2> HIDE DEF exceptions, names, bodies, h, place, bare
  <2>5. h \in Nodes /\ InFile(t, place)
    BY <2>4, AnchoredInFile
  <2>6. /\ 1 \in DOMAIN h.args /\ h.args[1].kind \in Serialized \cup {"absent"}
        /\ 2 \in DOMAIN h.args /\ h.args[2].kind = "block"
        /\ Len(h.args) >= 2 /\ Len(h.args) \in Nat /\ DOMAIN h.args = 1..Len(h.args)
    <3>1. ConsistsOf(h, <<OptionalExpr, {"block"}>>, {})
      BY <2>4, <2>5, NodesAssumption DEF PartFields
    <3>2. /\ 1 \in DOMAIN h.args /\ h.args[1].kind \in OptionalExpr
          /\ 2 \in DOMAIN h.args /\ h.args[2].kind \in {"block"}
          /\ Len(h.args) >= 2 /\ Len(h.args) \in Nat /\ DOMAIN h.args = 1..Len(h.args)
      BY <2>4, <2>5, <3>1, Fields2
    <3> QED
      BY <3>2, KindsAreSerialized DEF Expr, OptionalExpr, Maybe
  <2>7. Simple(t, error, TRUE)
    <3>1. In(place, 1).path \in Seq(Nat)
      BY <2>4, <2>6, Below, AnchoredInFile
    <3>2. Simple(t, AddError(In(place, 1)), TRUE)
      BY <3>1, SimpleAddError
    <3>3. Simple(t, <<>>, TRUE)
      BY SimpleEmpty
    <3> QED
      BY <3>2, <3>3, Zenon
  <2>8. Simple(t, located, TRUE)
    <3>1. InFile(t, In(place, Len(h.args) + 1))
      BY <2>4, NamePlace
    <3>2. Len(h.args) = 2
      <4>1. ConsistsOf(h, <<OptionalExpr, {"block"}>>, {})
        BY <2>4, <2>5, NodesAssumption DEF PartFields
      <4> QED
        BY <2>5, <4>1, Fields2
    <3>3. InFile(t, In(place, 3))
      <4>1. Len(h.args) + 1 = 3
        BY <3>2
      <4> QED
        BY <3>1, <4>1
    <3>4. Simple(t, Location(In(place, 3)), TRUE)
      BY <3>3, SimpleLocation
    <3>5. Simple(t, <<>>, TRUE)
      BY SimpleEmpty
    <3> QED
      BY <3>4, <3>5, Zenon
  <2>9. Simple(t, Optional(h, place, 1), TRUE)
    BY <2>4, <2>6, SimpleOptional
  <2> HIDE DEF error, located
  <2>10. Simple(t, Optional(h, place, 1) \o error, TRUE)
    BY <2>7, <2>9, SimpleJoin
  <2>11. Simple(t, Bool(TRUE), TRUE) /\ Simple(t, Bytes(h.attr), TRUE) /\ Simple(t, Bool(FALSE), TRUE)
    BY SimpleTokens
  <2>12. Simple(t, name, TRUE)
    BY <2>8, <2>11, SimpleJoin3
  <2> HIDE DEF name
  <2>13. Simple(t, names[i], TRUE)
    BY <2>2, <2>11, <2>12, Zenon
  <2>14. Simple(t, Block(h, place, 2, place), TRUE)
    BY <2>4, <2>5, <2>6, SimpleBlock
  <2> QED
    BY <2>1, <2>3, <2>10, <2>13, <2>14
<1> HIDE DEF exceptions, names, bodies, handlers
<1>8. Simple(t, Tag("TRY_STMT"), TRUE)
  BY SimpleTokens
<1>9. Simple(t, Block(n, at, 1, at), TRUE)
  BY <1>1, <1>2, SimpleBlock
<1>10. Simple(t, TaggedInt(Len(handlers)), TRUE)
  BY SimpleTokens
<1>11. Simple(t, FlattenSeq(exceptions), TRUE)
  BY <1>5, <1>6, <1>7, SimpleParts
<1>12. Simple(t, FlattenSeq(names), TRUE)
  BY <1>5, <1>6, <1>7, SimpleParts
<1>13. Simple(t, FlattenSeq(bodies), TRUE)
  BY <1>5, <1>6, <1>7, SimpleParts
<1>14. Simple(t, OptionalBlock(n, at, 3), TRUE)
  BY <1>2, SimpleOptionalBlock
<1>15. Simple(t, OptionalBlock(n, at, 4), TRUE)
  BY <1>2, SimpleOptionalBlock
<1>16. Simple(t, Bool(star), TRUE)
  BY SimpleTokens
<1>17. Simple(t, Tag("TRY_STMT") \o Block(n, at, 1, at) \o TaggedInt(Len(handlers)) \o FlattenSeq(exceptions) \o FlattenSeq(names) \o FlattenSeq(bodies) \o OptionalBlock(n, at, 3) \o OptionalBlock(n, at, 4) \o Bool(star), TRUE)
  BY <1>8, <1>9, <1>10, <1>11, <1>12, <1>13, <1>14, <1>15, <1>16, SimpleJoin9
<1> QED
  BY <1>3, <1>17

LEMMA SimpleOptionalTypeParams ==
    ASSUME NEW t, NEW n, NEW at, NEW i, Anchored(t, n, at), i \in DOMAIN n.args,
           n.args[i].kind \in Maybe({"typeparams"})
    PROVE  Simple(t, OptionalTypeParams(n, at, i), TRUE)
<1> DEFINE m == n.args[i]
           params == Bool(TRUE) \o RawInt(Len(m.args)) \o TypeParamsLayout(m, In(at, i))
<1>1. Anchored(t, m, In(at, i)) /\ m \in Nodes
  BY Below
<1>2. m # Absent => m.kind = "typeparams"
  <2>1. m.kind \in {"typeparams", "absent"}
    BY DEF Maybe
  <2> QED
    BY <1>1, <2>1, ArgsAreNodes
<1>3. OptionalTypeParams(n, at, i) = IF m = Absent THEN Bool(FALSE) ELSE params
  BY Zenon DEF OptionalTypeParams
<1> HIDE DEF m
<1>4. m # Absent => Simple(t, params, TRUE)
  <2> SUFFICES ASSUME m # Absent PROVE Simple(t, params, TRUE)
    OBVIOUS
  <2>1. Simple(t, TypeParamsLayout(m, In(at, i)), TRUE)
    BY <1>1, <1>2, SimpleTypeParams
  <2>2. Simple(t, Bool(TRUE), TRUE) /\ Simple(t, RawInt(Len(m.args)), TRUE)
    BY SimpleTokens
  <2> QED
    BY <2>1, <2>2, SimpleJoin3
<1> HIDE DEF params
<1>5. Simple(t, Bool(FALSE), TRUE)
  BY SimpleTokens
<1> QED
  BY <1>3, <1>4, <1>5, Zenon

LEMMA SoundFunction ==
    ASSUME NEW t, NEW n, NEW at, Anchored(t, n, at), n.kind = "def"
    PROVE  Sound(t, FunctionLayout(n, at), TRUE)
<1> DEFINE m == n.args[1]
           there == In(at, 1)
           params == [i \in DOMAIN m.args |-> TypedParameterLayout(m.args[i], In(there, i))]
           async == n.text = <<"async">>
           errors == IF n.args[4] # Absent /\ n.inner # <<>> THEN AddError(at) ELSE <<>>
           typed == IF n.inner # <<>> /\ ~(n.args[4] # Absent)
                    THEN CommentType(n, at) ELSE OptionalType(n, at, 4)
           comment == HasTypeComment(n)
           flag == IF cache_version >= CV_FUNC_TYPE_COMMENT_FLAG THEN Bool(comment) ELSE <<>>
<1>1. n \in Nodes /\ InFile(t, at)
  BY AnchoredInFile
<1>2. /\ 1 \in DOMAIN n.args /\ m.kind = "params"
      /\ 2 \in DOMAIN n.args /\ n.args[2].kind = "block"
      /\ 3 \in DOMAIN n.args /\ n.args[3].kind \in Maybe({"typeparams"})
      /\ 4 \in DOMAIN n.args
      /\ ParametersHave(m, 2)
  <2>1. ConsistsOf(n, <<{"params"}, {"block"}, Maybe({"typeparams"}), OptionalExpr>>, {}) /\ ParametersHave(m, 2)
    BY <1>1, NodesAssumption DEF StmtFields
  <2>2. /\ 1 \in DOMAIN n.args /\ n.args[1].kind \in {"params"}
        /\ 2 \in DOMAIN n.args /\ n.args[2].kind \in {"block"}
        /\ 3 \in DOMAIN n.args /\ n.args[3].kind \in Maybe({"typeparams"})
        /\ 4 \in DOMAIN n.args
    BY <1>1, <2>1, Fields4
  <2> QED
    BY <2>1, <2>2
<1>3. FunctionLayout(n, at) =
           Tag("FUNC_DEF") \o Bytes(n.attr) \o ListOf(Len(m.args)) \o FlattenSeq(params)
        \o InFunction(Block(n, at, 2, at)) \o Bool(async) \o OptionalTypeParams(n, at, 3)
        \o errors \o typed \o flag
  BY Zenon DEF FunctionLayout, Each
<1>4. Anchored(t, m, there) /\ m \in Nodes
  BY <1>2, Below
<1>5. Sound(t, errors, TRUE) /\ Sound(t, typed, TRUE)
  BY <1>1, <1>2, SoundAnnotation
<1>6. params = [i \in DOMAIN m.args |-> params[i]]
  OBVIOUS
<1> HIDE DEF errors, typed, comment, async
<1>7. IsSeq(m.args) /\ \A i \in DOMAIN m.args : m.args[i].kind = "param" /\ Len(m.args[i].args) = 2
  <2>1. ConsistsOf(m, <<>>, {"param"})
    BY <1>2, <1>4, NodesAssumption DEF PartFields
  <2>2. /\ DOMAIN m.args = 1..Len(m.args) /\ Len(m.args) \in Nat
        /\ \A i \in DOMAIN m.args : i > 0 => m.args[i].kind \in {"param"}
    BY <1>4, <2>1, Fields0
  <2>3. IsSeq(m.args)
    BY <1>4, ArgsAreNodes DEF IsSeq
  <2>4. \A i \in DOMAIN m.args : Len(m.args[i].args) = 2
    BY <1>2 DEF ParametersHave
  <2> HIDE DEF m
  <2> QED
    BY <2>2, <2>3, <2>4
<1>8. ASSUME NEW i \in DOMAIN m.args
      PROVE  Sound(t, params[i], TRUE)
  <2>1. Anchored(t, m.args[i], In(there, i))
    BY <1>4, Below
  <2>2. Sound(t, TypedParameterLayout(m.args[i], In(there, i)), TRUE)
    BY <1>7, <2>1, SoundTypedParameter
  <2> QED
    BY <2>2
<1> HIDE DEF params, m
<1>9. Sound(t, flag, TRUE)
  <2>1. Sound(t, Bool(comment), TRUE)
    BY SimpleTokens, SimpleIsSound
  <2> QED
    BY <2>1, SoundEmpty, Zenon
<1> HIDE DEF flag
<1>10. Sound(t, InFunction(Block(n, at, 2, at)), TRUE)
  <2>1. Simple(t, Block(n, at, 2, at), TRUE)
    BY <1>1, <1>2, SimpleBlock
  <2> QED
    BY <2>1, SoundInFunction
<1>11. Sound(t, Tag("FUNC_DEF"), TRUE)
  BY SimpleTokens, SimpleIsSound
<1>12. Sound(t, Bytes(n.attr), TRUE)
  BY SimpleTokens, SimpleIsSound
<1>13. Sound(t, ListOf(Len(m.args)), TRUE)
  BY SimpleTokens, SimpleIsSound
<1>14. Sound(t, FlattenSeq(params), TRUE)
  BY <1>6, <1>7, <1>8, SoundParts
<1>15. Sound(t, Bool(async), TRUE)
  BY SimpleTokens, SimpleIsSound
<1>16. Sound(t, OptionalTypeParams(n, at, 3), TRUE)
  BY <1>2, SimpleOptionalTypeParams, SimpleIsSound
<1>17. Sound(t, Tag("FUNC_DEF") \o Bytes(n.attr) \o ListOf(Len(m.args)) \o FlattenSeq(params) \o InFunction(Block(n, at, 2, at)) \o Bool(async) \o OptionalTypeParams(n, at, 3) \o errors \o typed, TRUE)
  BY <1>11, <1>12, <1>13, <1>14, <1>10, <1>15, <1>16, <1>5, SoundJoin9
<1>18. Sound(t, Tag("FUNC_DEF") \o Bytes(n.attr) \o ListOf(Len(m.args)) \o FlattenSeq(params) \o InFunction(Block(n, at, 2, at)) \o Bool(async) \o OptionalTypeParams(n, at, 3) \o errors \o typed \o flag, TRUE)
  BY <1>17, <1>9, SoundJoin
<1> QED
  BY <1>3, <1>18

LEMMA SimpleDecorated ==
    ASSUME NEW t, NEW n, NEW at, Anchored(t, n, at), n.kind = "decorated"
    PROVE  Simple(t, DecoratedLayout(n, at), TRUE)
<1>1. n \in Nodes
  BY AnchoredInFile
<1>2. /\ 1 \in DOMAIN n.args /\ n.args[1].kind \in Serialized
      /\ Len(n.args) >= 1 /\ Len(n.args) \in Nat
      /\ \A i \in DOMAIN n.args : i >= 2 => n.args[i].kind \in Serialized
  <2>1. ConsistsOf(n, <<{"def"}>>, Expr)
    BY <1>1, NodesAssumption DEF StmtFields
  <2>2. /\ 1 \in DOMAIN n.args /\ n.args[1].kind \in {"def"}
        /\ Len(n.args) >= 1 /\ Len(n.args) \in Nat /\ DOMAIN n.args = 1..Len(n.args)
        /\ \A i \in DOMAIN n.args : i > 1 => n.args[i].kind \in Expr
    BY <1>1, <2>1, Fields1
  <2>3. "def" \in Serialized
    BY DEF Serialized, StmtKinds
  <2> QED
    BY <2>2, <2>3, KindsAreSerialized DEF Expr
<1>3. DecoratedLayout(n, at) =
           Tag("DECORATOR") \o List(n, at, 2) \o Write(<<"int", "line">>) \o Write(<<"int", "column">>)
        \o Child(n, at, 1) \o End
  BY Zenon DEF DecoratedLayout
<1>4. Simple(t, List(n, at, 2), TRUE)
  <2>1. 2 \in Nat /\ 2 >= 1 /\ 2 <= Len(n.args) + 1
    BY <1>2
  <2> QED
    BY <1>2, <2>1, SimpleList
<1> DEFINE line == Write(<<"int", "line">>)
           column == Write(<<"int", "column">>)
<1>5. Simple(t, line, TRUE) /\ Simple(t, column, TRUE)
  BY SimpleTokens
<1> HIDE DEF line, column
<1>6. Simple(t, Tag("DECORATOR"), TRUE)
  BY SimpleTokens
<1>7. Simple(t, Child(n, at, 1), TRUE)
  BY <1>2, SimpleChild
<1>8. Simple(t, End, TRUE)
  BY SimpleMarks
<1>9. Simple(t, Tag("DECORATOR") \o List(n, at, 2) \o line \o column \o Child(n, at, 1) \o End, TRUE)
  BY <1>6, <1>4, <1>5, <1>7, <1>8, SimpleJoin6
<1> QED
  BY <1>3, <1>9, Zenon DEF line, column

\* The expressions below a node that only holds them.
LEMMA SimpleExpressions ==
    ASSUME NEW t, NEW n, NEW at, Anchored(t, n, at), n.kind = "expressions"
    PROVE  Simple(t, List(n, at, 1), TRUE)
<1>1. n \in Nodes
  BY AnchoredInFile
<1>2. ConsistsOf(n, <<>>, Expr)
  BY <1>1, NodesAssumption DEF PartFields
<1>3. /\ DOMAIN n.args = 1..Len(n.args) /\ Len(n.args) \in Nat
      /\ \A i \in DOMAIN n.args : i > 0 => n.args[i].kind \in Expr
  BY <1>1, <1>2, Fields0
<1>4. \A i \in DOMAIN n.args : n.args[i].kind \in Serialized
  BY <1>3, KindsAreSerialized DEF Expr
<1> QED
  BY <1>4, SimpleLists

LEMMA SimpleClass ==
    ASSUME NEW t, NEW n, NEW at, Anchored(t, n, at), n.kind = "classdef"
    PROVE  Simple(t, ClassLayout(n, at), TRUE)
<1> DEFINE m == n.args[5]
           there == In(at, 5)
           bases == List(n.args[2], In(at, 2), 1)
           decorators == List(n.args[3], In(at, 3), 1)
           named(k) == k.attr # ""
           count == Cardinality({i \in DOMAIN m.args : named(m.args[i])})
           keywords == [i \in DOMAIN m.args |->
                 IF named(m.args[i])
                 THEN Bytes(m.args[i].attr) \o Child(m.args[i], In(there, i), 1) ELSE <<>>]
<1>1. n \in Nodes /\ InFile(t, at)
  BY AnchoredInFile
<1>2. /\ 1 \in DOMAIN n.args /\ n.args[1].kind = "block"
      /\ 2 \in DOMAIN n.args /\ n.args[2].kind = "expressions"
      /\ 3 \in DOMAIN n.args /\ n.args[3].kind = "expressions"
      /\ 4 \in DOMAIN n.args /\ n.args[4].kind \in Maybe({"typeparams"})
      /\ 5 \in DOMAIN n.args /\ m.kind = "keywords"
  <2>1. ConsistsOf(n, <<{"block"}, {"expressions"}, {"expressions"}, Maybe({"typeparams"}), {"keywords"}>>, {})
    BY <1>1, NodesAssumption DEF StmtFields
  <2>2. /\ 1 \in DOMAIN n.args /\ n.args[1].kind \in {"block"}
        /\ 2 \in DOMAIN n.args /\ n.args[2].kind \in {"expressions"}
        /\ 3 \in DOMAIN n.args /\ n.args[3].kind \in {"expressions"}
        /\ 4 \in DOMAIN n.args /\ n.args[4].kind \in Maybe({"typeparams"})
        /\ 5 \in DOMAIN n.args /\ n.args[5].kind \in {"keywords"}
    BY <1>1, <2>1, Fields5
  <2> QED
    BY <2>2
<1>3. ClassLayout(n, at) =
           Tag("CLASS_DEF") \o Bytes(n.attr) \o Block(n, at, 1, at) \o bases \o decorators
        \o OptionalTypeParams(n, at, 4) \o Write(<<"dict", count>>) \o FlattenSeq(keywords)
  BY Zenon DEF ClassLayout, Each, EachThat, Count
<1>4. Simple(t, bases, TRUE) /\ Simple(t, decorators, TRUE)
  <2>1. Anchored(t, n.args[2], In(at, 2)) /\ Anchored(t, n.args[3], In(at, 3))
    BY <1>2, Below
  <2> QED
    BY <1>2, <2>1, SimpleExpressions
<1>5. Anchored(t, m, there) /\ m \in Nodes
  BY <1>2, Below
<1>6. keywords = [i \in DOMAIN m.args |-> keywords[i]]
  OBVIOUS
<1>7. IsSeq(m.args) /\ \A i \in DOMAIN m.args : m.args[i].kind = "keyword"
  <2>1. ConsistsOf(m, <<>>, {"keyword"})
    BY <1>2, <1>5, NodesAssumption DEF PartFields
  <2>2. /\ DOMAIN m.args = 1..Len(m.args) /\ Len(m.args) \in Nat
        /\ \A i \in DOMAIN m.args : i > 0 => m.args[i].kind \in {"keyword"}
    BY <1>5, <2>1, Fields0
  <2>3. IsSeq(m.args)
    BY <1>5, ArgsAreNodes DEF IsSeq
  <2> HIDE DEF m
  <2> QED
    BY <2>2, <2>3
<1> HIDE DEF bases, decorators, count
<1>8. ASSUME NEW i \in DOMAIN m.args
      PROVE  Simple(t, keywords[i], TRUE)
  <2> DEFINE k == m.args[i]
             place == In(there, i)
             keyword == Bytes(k.attr) \o Child(k, place, 1)
  <2>1. keywords[i] = IF named(k) THEN keyword ELSE <<>>
    BY Zenon
  <2>2. Anchored(t, k, place) /\ k.kind = "keyword" /\ k \in Nodes
    BY <1>5, <1>7, Below
  <2> HIDE DEF keywords, k, place, named
  <2>3. 1 \in DOMAIN k.args /\ k.args[1].kind \in Serialized
    <3>1. ConsistsOf(k, <<Expr \cup Patterns>>, {})
      BY <2>2, NodesAssumption DEF PartFields
    <3>2. 1 \in DOMAIN k.args /\ k.args[1].kind \in Expr \cup Patterns
      BY <2>2, <3>1, Fields1
    <3> QED
      BY <3>2, KindsAreSerialized DEF Expr
  <2>4. Simple(t, Child(k, place, 1), TRUE)
    BY <2>2, <2>3, SimpleChild
  <2>5. Simple(t, Bytes(k.attr), TRUE)
    BY SimpleTokens
  <2>6. Simple(t, keyword, TRUE)
    BY <2>4, <2>5, SimpleJoin
  <2>7. Simple(t, <<>>, TRUE)
    BY SimpleEmpty
  <2> QED
    BY <2>1, <2>6, <2>7, Zenon
<1> HIDE DEF keywords
<1> DEFINE dict == Write(<<"dict", count>>)
<1>9. Simple(t, dict, TRUE)
  BY SimpleTokens
<1> HIDE DEF dict
<1>10. Simple(t, Tag("CLASS_DEF"), TRUE)
  BY SimpleTokens
<1>11. Simple(t, Bytes(n.attr), TRUE)
  BY SimpleTokens
<1>12. Simple(t, Block(n, at, 1, at), TRUE)
  BY <1>1, <1>2, SimpleBlock
<1>13. Simple(t, OptionalTypeParams(n, at, 4), TRUE)
  BY <1>2, SimpleOptionalTypeParams
<1>14. Simple(t, FlattenSeq(keywords), TRUE)
  BY <1>6, <1>7, <1>8, SimpleParts
<1>15. Simple(t, Tag("CLASS_DEF") \o Bytes(n.attr) \o Block(n, at, 1, at) \o bases \o decorators \o OptionalTypeParams(n, at, 4) \o dict \o FlattenSeq(keywords), TRUE)
  BY <1>10, <1>11, <1>12, <1>4, <1>13, <1>9, <1>14, SimpleJoin8
<1> QED
  BY <1>3, <1>15, Zenon DEF dict

LEMMA SimpleRename ==
    ASSUME NEW t, NEW c, NEW rename
    PROVE  Simple(t, RenameLayout(rename), c)
<1> DEFINE new == Bool(TRUE) \o Bytes(rename[2][1])
           rest == IF rename[2] = <<>> THEN Bool(FALSE) ELSE new
<1>1. RenameLayout(rename) = Bytes(rename[1]) \o rest
  BY Zenon DEF RenameLayout
<1>2. Simple(t, Bool(TRUE), c) /\ Simple(t, Bool(FALSE), c) /\ Simple(t, Bytes(rename[2][1]), c)
      /\ Simple(t, Bytes(rename[1]), c)
  BY SimpleTokens
<1>3. Simple(t, new, c)
  BY <1>2, SimpleJoin
<1> HIDE DEF new
<1>4. Simple(t, rest, c)
  BY <1>2, <1>3, Zenon
<1> HIDE DEF rest
<1> QED
  BY <1>1, <1>2, <1>4, SimpleJoin

LEMMA SimpleImport ==
    ASSUME NEW t, NEW n, NEW at, Anchored(t, n, at)
    PROVE  Simple(t, ImportLayout(n, at), TRUE)
<1> DEFINE entry(i) == [tag |-> "IMPORT_METADATA", module |-> n.args[i].attr, relative |-> 0,
                        names |-> <<Rename(n.args[i])>>, place |-> In(at, i)]
           aliases == [i \in DOMAIN n.args |->
                 RenameLayout(Rename(n.args[i])) \o TrackImport(n, entry(i))]
<1>1. ImportLayout(n, at) =
        Tag("IMPORT") \o TaggedInt(Len(n.args)) \o FlattenSeq(aliases) \o Location(at) \o ImportFlags(n)
  BY Zenon DEF ImportLayout, Each
<1>2. IsSeq(n.args) /\ InFile(t, at)
  BY ArgsAreNodes, AnchoredInFile DEF Anchored, IsSeq
<1> HIDE DEF entry
<1>3. ASSUME NEW i \in DOMAIN n.args
      PROVE  Simple(t, aliases[i], TRUE)
  <2>1. Simple(t, RenameLayout(Rename(n.args[i])), TRUE)
    BY SimpleRename
  <2>2. Simple(t, TrackImport(n, entry(i)), TRUE)
    BY SimpleSteps
  <2>3. aliases[i] = RenameLayout(Rename(n.args[i])) \o TrackImport(n, entry(i))
    OBVIOUS
  <2> HIDE DEF aliases
  <2> QED
    BY <2>1, <2>2, <2>3, SimpleJoin
<1>4. aliases = [i \in DOMAIN n.args |-> aliases[i]]
  OBVIOUS
<1> HIDE DEF aliases
<1>5. Simple(t, Tag("IMPORT"), TRUE)
  BY SimpleTokens
<1>6. Simple(t, TaggedInt(Len(n.args)), TRUE)
  BY SimpleTokens
<1>7. Simple(t, FlattenSeq(aliases), TRUE)
  BY <1>2, <1>3, <1>4, SimpleParts
<1>8. Simple(t, Location(at), TRUE)
  BY <1>2, SimpleLocation
<1>9. Simple(t, ImportFlags(n), TRUE)
  BY SimpleSteps
<1>10. Simple(t, Tag("IMPORT") \o TaggedInt(Len(n.args)) \o FlattenSeq(aliases) \o Location(at) \o ImportFlags(n), TRUE)
  BY <1>5, <1>6, <1>7, <1>8, <1>9, SimpleJoin5
<1> QED
  BY <1>1, <1>10

LEMMA SimpleImportFrom ==
    ASSUME NEW t, NEW n, NEW at, Anchored(t, n, at)
    PROVE  Simple(t, ImportFromLayout(n, at), TRUE)
<1> DEFINE names == [i \in DOMAIN n.args |-> Rename(n.args[i])]
           entry == [tag |-> "IMPORTFROM_METADATA", module |-> n.attr, relative |-> n.value,
                     names |-> names, place |-> at]
           every == [entry EXCEPT !.tag = "IMPORTALL_METADATA", !.names = <<>>]
           renames == [i \in DOMAIN names |-> RenameLayout(names[i])]
           all == Tag("IMPORT_ALL") \o Bytes(n.attr) \o TaggedInt(n.value)
                  \o Location(at) \o ImportFlags(n) \o TrackImport(n, every)
           some == Tag("IMPORT_FROM") \o TaggedInt(n.value) \o Bytes(n.attr) \o TaggedInt(Len(names))
                   \o FlattenSeq(renames) \o TrackImport(n, entry) \o Location(at) \o ImportFlags(n)
<1>1. ImportFromLayout(n, at) = IF IsImportAll(n) THEN all ELSE some
  BY Zenon DEF ImportFromLayout, Each
<1>2. n \in Nodes /\ InFile(t, at)
  BY AnchoredInFile
<1>3. IsSeq(names)
  <2>1. PICK k \in Nat : DOMAIN n.args = 1..k
    BY <1>2, ArgsAreNodes
  <2> DEFINE S == {Rename(n.args[i]) : i \in DOMAIN n.args}
  <2>2. names \in [1..k -> S]
    BY <2>1
  <2> HIDE DEF S, names
  <2>3. names \in Seq(S)
    BY <2>2
  <2> QED
    BY <2>3 DEF IsSeq
<1> HIDE DEF every, entry
<1>4. renames = [i \in DOMAIN names |-> renames[i]]
  OBVIOUS
<1>5. ASSUME NEW i \in DOMAIN names
      PROVE  Simple(t, renames[i], TRUE)
  <2>1. renames[i] = RenameLayout(names[i])
    OBVIOUS
  <2> HIDE DEF renames
  <2> QED
    BY <2>1, SimpleRename
<1> HIDE DEF renames, names
<1>6. Simple(t, Tag("IMPORT_ALL"), TRUE)
  BY SimpleTokens
<1>7. Simple(t, Bytes(n.attr), TRUE)
  BY SimpleTokens
<1>8. Simple(t, TaggedInt(n.value), TRUE)
  BY SimpleTokens
<1>9. Simple(t, Location(at), TRUE)
  BY <1>2, SimpleLocation
<1>10. Simple(t, ImportFlags(n), TRUE)
  BY SimpleSteps
<1>11. Simple(t, TrackImport(n, every), TRUE)
  BY SimpleSteps
<1>12. Simple(t, Tag("IMPORT_ALL") \o Bytes(n.attr) \o TaggedInt(n.value) \o Location(at) \o ImportFlags(n) \o TrackImport(n, every), TRUE)
  BY <1>6, <1>7, <1>8, <1>9, <1>10, <1>11, SimpleJoin6
<1>13. Simple(t, Tag("IMPORT_FROM"), TRUE)
  BY SimpleTokens
<1>14. Simple(t, TaggedInt(Len(names)), TRUE)
  BY SimpleTokens
<1>15. Simple(t, FlattenSeq(renames), TRUE)
  BY <1>3, <1>4, <1>5, SimpleParts
<1>16. Simple(t, TrackImport(n, entry), TRUE)
  BY SimpleSteps
<1>17. Simple(t, Tag("IMPORT_FROM") \o TaggedInt(n.value) \o Bytes(n.attr) \o TaggedInt(Len(names)) \o FlattenSeq(renames) \o TrackImport(n, entry) \o Location(at) \o ImportFlags(n), TRUE)
  BY <1>13, <1>8, <1>7, <1>14, <1>15, <1>16, <1>9, <1>10, SimpleJoin8
<1>18. Simple(t, all, TRUE) /\ Simple(t, some, TRUE)
  BY <1>12, <1>17
<1> HIDE DEF all, some
<1> QED
  BY <1>1, <1>18, Zenon

LEMMA SimpleOptionals ==
    ASSUME NEW t, NEW n, NEW at, Anchored(t, n, at), NEW from \in Nat,
           from >= 1, from <= Len(n.args) + 1,
           \A i \in DOMAIN n.args : i >= from => n.args[i].kind \in Serialized \cup {"absent"}
    PROVE  Simple(t, Optionals(n, at, from), TRUE)
<1> DEFINE m == Len(n.args) - from + 1
           f == [k \in 1..m |-> Optional(n, at, from + k - 1)]
<1>1. Len(n.args) \in Nat /\ DOMAIN n.args = 1..Len(n.args) /\ m \in Nat
  BY ArgsAreNodes DEF Anchored
<1>2. f = [k \in 1..m |-> f[k]]
  OBVIOUS
<1>3. ASSUME NEW k \in 1..m
      PROVE  Simple(t, f[k], TRUE)
  <2> DEFINE i == from + k - 1
  <2>1. i \in DOMAIN n.args /\ i >= from
    BY <1>1
  <2>2. f[k] = Optional(n, at, i)
    OBVIOUS
  <2> HIDE DEF i
  <2>3. Simple(t, Optional(n, at, i), TRUE)
    BY <2>1, SimpleOptional
  <2> QED
    BY <2>2, <2>3
<1>4. Optionals(n, at, from) = FlattenSeq(f)
  BY DEF Optionals
<1> HIDE DEF f, m
<1> QED
  BY <1>1, <1>2, <1>3, <1>4, SimpleFlatten

LEMMA StatementKinds ==
    /\ DOMAIN Alone = {"pass", "break", "continue"}
    /\ DOMAIN NameList = {"global", "nonlocal"}
  BY DEF Alone, NameList

Words(text) == FlattenSeq([i \in DOMAIN text |-> Bytes(text[i])])
LEMMA SimpleNames ==
    ASSUME NEW t, NEW c, NEW text, IsSeq(text)
    PROVE  Simple(t, Words(text), c)
<1> DEFINE f == [i \in DOMAIN text |-> Bytes(text[i])]
<1>1. f = [i \in DOMAIN text |-> f[i]]
  OBVIOUS
<1>2. \A i \in DOMAIN text : Simple(t, f[i], c)
  BY SimpleTokens
<1>3. Words(text) = FlattenSeq(f)
  BY DEF Words
<1> HIDE DEF f
<1> QED
  BY <1>1, <1>2, <1>3, SimpleParts

LEMMA SoundStatementBody ==
    ASSUME NEW t, NEW n, NEW at, Anchored(t, n, at), n.kind \in Statements
    PROVE  Sound(t, StatementBody(n, at), TRUE)
<1> DEFINE body == StatementBody(n, at)
<1>1. n \in Nodes
  BY AnchoredInFile
<1>0. ASSUME Simple(t, body, TRUE)
      PROVE  Sound(t, body, TRUE)
  BY <1>0, SimpleIsSound
<1> SUFFICES Sound(t, body, TRUE)
  OBVIOUS
<1>2. CASE n.kind = "pass"
  <2>5. Simple(t, Tag("PASS_STMT"), TRUE)
    BY SimpleTokens
  <2>6. body = Tag("PASS_STMT")
    BY <1>2, StatementKinds DEF StatementBody, Loops, Alone, NameList, Words, Each
  <2> HIDE DEF body
  <2> QED
    BY <1>0, <2>5, <2>6, Zenon
<1>3. CASE n.kind = "break"
  <2>5. Simple(t, Tag("BREAK_STMT"), TRUE)
    BY SimpleTokens
  <2>6. body = Tag("BREAK_STMT")
    BY <1>3, StatementKinds DEF StatementBody, Loops, Alone, NameList, Words, Each
  <2> HIDE DEF body
  <2> QED
    BY <1>0, <2>5, <2>6, Zenon
<1>4. CASE n.kind = "continue"
  <2>5. Simple(t, Tag("CONTINUE_STMT"), TRUE)
    BY SimpleTokens
  <2>6. body = Tag("CONTINUE_STMT")
    BY <1>4, StatementKinds DEF StatementBody, Loops, Alone, NameList, Words, Each
  <2> HIDE DEF body
  <2> QED
    BY <1>0, <2>5, <2>6, Zenon
<1>5. CASE n.kind = "global"
  <2>1. IsSeq(n.text)
    BY <1>1, NodesAssumption DEF IsSeq
  <2>2. Simple(t, Words(n.text), TRUE)
    BY <2>1, SimpleNames
  <2>5. Simple(t, Tag("GLOBAL_DECL"), TRUE)
    BY SimpleTokens
  <2>6. Simple(t, TaggedInt(Len(n.text)), TRUE)
    BY SimpleTokens
  <2>7. Simple(t, Tag("GLOBAL_DECL") \o TaggedInt(Len(n.text)) \o Words(n.text), TRUE)
    BY <2>5, <2>6, <2>2, SimpleJoin3
  <2>8. body = Tag("GLOBAL_DECL") \o TaggedInt(Len(n.text)) \o Words(n.text)
    BY <1>5, StatementKinds DEF StatementBody, Loops, Alone, NameList, Words, Each
  <2> HIDE DEF body
  <2> QED
    BY <1>0, <2>7, <2>8, Zenon
<1>6. CASE n.kind = "nonlocal"
  <2>1. IsSeq(n.text)
    BY <1>1, NodesAssumption DEF IsSeq
  <2>2. Simple(t, Words(n.text), TRUE)
    BY <2>1, SimpleNames
  <2>5. Simple(t, Tag("NONLOCAL_DECL"), TRUE)
    BY SimpleTokens
  <2>6. Simple(t, TaggedInt(Len(n.text)), TRUE)
    BY SimpleTokens
  <2>7. Simple(t, Tag("NONLOCAL_DECL") \o TaggedInt(Len(n.text)) \o Words(n.text), TRUE)
    BY <2>5, <2>6, <2>2, SimpleJoin3
  <2>8. body = Tag("NONLOCAL_DECL") \o TaggedInt(Len(n.text)) \o Words(n.text)
    BY <1>6, StatementKinds DEF StatementBody, Loops, Alone, NameList, Words, Each
  <2> HIDE DEF body
  <2> QED
    BY <1>0, <2>7, <2>8, Zenon
<1>7. CASE n.kind = "augassign"
  <2>1. /\ 1 \in DOMAIN n.args /\ n.args[1].kind \in Serialized
        /\ 2 \in DOMAIN n.args /\ n.args[2].kind \in Serialized
        /\ Len(n.args) >= 2 /\ Len(n.args) \in Nat /\ DOMAIN n.args = 1..Len(n.args)
    <3>1. ConsistsOf(n, <<Expr, Expr>>, {})
      BY <1>1, <1>7, NodesAssumption DEF StmtFields
    <3>2. /\ 1 \in DOMAIN n.args /\ n.args[1].kind \in Expr
          /\ 2 \in DOMAIN n.args /\ n.args[2].kind \in Expr
          /\ Len(n.args) >= 2 /\ Len(n.args) \in Nat /\ DOMAIN n.args = 1..Len(n.args)
      BY <1>1, <1>7, <3>1, Fields2
    <3> QED
      BY <3>2, KindsAreSerialized DEF Expr, OptionalExpr, Maybe
  <2>2. \A i \in DOMAIN n.args : n.args[i].kind \in Serialized
    <3>1. ConsistsOf(n, <<Expr, Expr>>, {})
      BY <1>1, <1>7, NodesAssumption DEF StmtFields
    <3>2. Len(n.args) = 2
      BY <1>1, <3>1, Fields2
    <3>3. \A i \in DOMAIN n.args : i = 1 \/ i = 2
      BY <2>1, <3>2
    <3> QED
      BY <2>1, <3>3
  <2>5. Simple(t, Tag("OPERATOR_ASSIGNMENT_STMT"), TRUE)
    BY SimpleTokens
  <2>6. Simple(t, Bytes(n.attr), TRUE)
    BY SimpleTokens
  <2>7. Simple(t, All(n, at), TRUE)
    BY <2>2, SimpleAll
  <2>8. Simple(t, Tag("OPERATOR_ASSIGNMENT_STMT") \o Bytes(n.attr) \o All(n, at), TRUE)
    BY <2>5, <2>6, <2>7, SimpleJoin3
  <2>9. body = Tag("OPERATOR_ASSIGNMENT_STMT") \o Bytes(n.attr) \o All(n, at)
    BY <1>7, StatementKinds DEF StatementBody, Loops, Alone, NameList, Words, Each
  <2> HIDE DEF body
  <2> QED
    BY <1>0, <2>8, <2>9, Zenon
<1>8. CASE n.kind = "return"
  <2>1. /\ 1 \in DOMAIN n.args /\ n.args[1].kind \in Serialized \cup {"absent"}
        /\ Len(n.args) >= 1 /\ Len(n.args) \in Nat /\ DOMAIN n.args = 1..Len(n.args)
    <3>1. ConsistsOf(n, <<OptionalExpr>>, {})
      BY <1>1, <1>8, NodesAssumption DEF StmtFields
    <3>2. /\ 1 \in DOMAIN n.args /\ n.args[1].kind \in OptionalExpr
          /\ Len(n.args) >= 1 /\ Len(n.args) \in Nat /\ DOMAIN n.args = 1..Len(n.args)
      BY <1>1, <1>8, <3>1, Fields1
    <3> QED
      BY <3>2, KindsAreSerialized DEF Expr, OptionalExpr, Maybe
  <2>2. \A i \in DOMAIN n.args : n.args[i].kind \in Serialized \cup {"absent"}
    <3>1. ConsistsOf(n, <<OptionalExpr>>, {})
      BY <1>1, <1>8, NodesAssumption DEF StmtFields
    <3>2. Len(n.args) = 1
      BY <1>1, <3>1, Fields1
    <3>3. \A i \in DOMAIN n.args : i = 1
      BY <2>1, <3>2
    <3> QED
      BY <2>1, <3>3
  <2>3. 1 \in Nat /\ 1 >= 1 /\ 1 <= Len(n.args) + 1
    BY <2>1
  <2>4. Simple(t, Optionals(n, at, 1), TRUE)
    BY <2>2, <2>3, SimpleOptionals
  <2>5. Simple(t, Tag("RETURN"), TRUE)
    BY SimpleTokens
  <2>6. Simple(t, Tag("RETURN") \o Optionals(n, at, 1), TRUE)
    BY <2>5, <2>4, SimpleJoin
  <2>7. body = Tag("RETURN") \o Optionals(n, at, 1)
    BY <1>8, StatementKinds DEF StatementBody, Loops, Alone, NameList, Words, Each
  <2> HIDE DEF body
  <2> QED
    BY <1>0, <2>6, <2>7, Zenon
<1>9. CASE n.kind = "raise"
  <2>1. /\ 1 \in DOMAIN n.args /\ n.args[1].kind \in Serialized \cup {"absent"}
        /\ 2 \in DOMAIN n.args /\ n.args[2].kind \in Serialized \cup {"absent"}
        /\ Len(n.args) >= 2 /\ Len(n.args) \in Nat /\ DOMAIN n.args = 1..Len(n.args)
    <3>1. ConsistsOf(n, <<OptionalExpr, OptionalExpr>>, {})
      BY <1>1, <1>9, NodesAssumption DEF StmtFields
    <3>2. /\ 1 \in DOMAIN n.args /\ n.args[1].kind \in OptionalExpr
          /\ 2 \in DOMAIN n.args /\ n.args[2].kind \in OptionalExpr
          /\ Len(n.args) >= 2 /\ Len(n.args) \in Nat /\ DOMAIN n.args = 1..Len(n.args)
      BY <1>1, <1>9, <3>1, Fields2
    <3> QED
      BY <3>2, KindsAreSerialized DEF Expr, OptionalExpr, Maybe
  <2>2. \A i \in DOMAIN n.args : n.args[i].kind \in Serialized \cup {"absent"}
    <3>1. ConsistsOf(n, <<OptionalExpr, OptionalExpr>>, {})
      BY <1>1, <1>9, NodesAssumption DEF StmtFields
    <3>2. Len(n.args) = 2
      BY <1>1, <3>1, Fields2
    <3>3. \A i \in DOMAIN n.args : i = 1 \/ i = 2
      BY <2>1, <3>2
    <3> QED
      BY <2>1, <3>3
  <2>3. 1 \in Nat /\ 1 >= 1 /\ 1 <= Len(n.args) + 1
    BY <2>1
  <2>4. Simple(t, Optionals(n, at, 1), TRUE)
    BY <2>2, <2>3, SimpleOptionals
  <2>5. Simple(t, Tag("RAISE_STMT"), TRUE)
    BY SimpleTokens
  <2>6. Simple(t, Tag("RAISE_STMT") \o Optionals(n, at, 1), TRUE)
    BY <2>5, <2>4, SimpleJoin
  <2>7. body = Tag("RAISE_STMT") \o Optionals(n, at, 1)
    BY <1>9, StatementKinds DEF StatementBody, Loops, Alone, NameList, Words, Each
  <2> HIDE DEF body
  <2> QED
    BY <1>0, <2>6, <2>7, Zenon
<1>10. CASE n.kind = "assert"
  <2>1. /\ 1 \in DOMAIN n.args /\ n.args[1].kind \in Serialized
        /\ 2 \in DOMAIN n.args /\ n.args[2].kind \in Serialized \cup {"absent"}
        /\ Len(n.args) >= 2 /\ Len(n.args) \in Nat /\ DOMAIN n.args = 1..Len(n.args)
    <3>1. ConsistsOf(n, <<Expr, OptionalExpr>>, {})
      BY <1>1, <1>10, NodesAssumption DEF StmtFields
    <3>2. /\ 1 \in DOMAIN n.args /\ n.args[1].kind \in Expr
          /\ 2 \in DOMAIN n.args /\ n.args[2].kind \in OptionalExpr
          /\ Len(n.args) >= 2 /\ Len(n.args) \in Nat /\ DOMAIN n.args = 1..Len(n.args)
      BY <1>1, <1>10, <3>1, Fields2
    <3> QED
      BY <3>2, KindsAreSerialized DEF Expr, OptionalExpr, Maybe
  <2>2. \A i \in DOMAIN n.args : n.args[i].kind \in Serialized \cup {"absent"}
    <3>1. ConsistsOf(n, <<Expr, OptionalExpr>>, {})
      BY <1>1, <1>10, NodesAssumption DEF StmtFields
    <3>2. Len(n.args) = 2
      BY <1>1, <3>1, Fields2
    <3>3. \A i \in DOMAIN n.args : i = 1 \/ i = 2
      BY <2>1, <3>2
    <3> QED
      BY <2>1, <3>3
  <2>3. 2 \in Nat /\ 2 >= 1 /\ 2 <= Len(n.args) + 1
    BY <2>1
  <2>4. Simple(t, Optionals(n, at, 2), TRUE)
    BY <2>2, <2>3, SimpleOptionals
  <2>5. Simple(t, Tag("ASSERT_STMT"), TRUE)
    BY SimpleTokens
  <2>6. Simple(t, Child(n, at, 1), TRUE)
    BY <2>1, SimpleChild
  <2>7. Simple(t, Tag("ASSERT_STMT") \o Child(n, at, 1) \o Optionals(n, at, 2), TRUE)
    BY <2>5, <2>6, <2>4, SimpleJoin3
  <2>8. body = Tag("ASSERT_STMT") \o Child(n, at, 1) \o Optionals(n, at, 2)
    BY <1>10, StatementKinds DEF StatementBody, Loops, Alone, NameList, Words, Each
  <2> HIDE DEF body
  <2> QED
    BY <1>0, <2>7, <2>8, Zenon
<1>11. CASE n.kind = "if_stmt"
  <2>5. Simple(t, IfLayout(n, at), TRUE)
    BY <1>11, SimpleIf
  <2>6. body = IfLayout(n, at)
    BY <1>11, StatementKinds DEF StatementBody, Loops, Alone, NameList, Words, Each
  <2> HIDE DEF body
  <2> QED
    BY <1>0, <2>5, <2>6, Zenon
<1>12. CASE n.kind = "match"
  <2>5. Simple(t, MatchLayout(n, at), TRUE)
    BY <1>12, SimpleMatch
  <2>6. body = MatchLayout(n, at)
    BY <1>12, StatementKinds DEF StatementBody, Loops, Alone, NameList, Words, Each
  <2> HIDE DEF body
  <2> QED
    BY <1>0, <2>5, <2>6, Zenon
<1>13. CASE n.kind = "try"
  <2>5. Simple(t, TryLayout(n, at), TRUE)
    BY <1>13, SimpleTry
  <2>6. body = TryLayout(n, at)
    BY <1>13, StatementKinds DEF StatementBody, Loops, Alone, NameList, Words, Each
  <2> HIDE DEF body
  <2> QED
    BY <1>0, <2>5, <2>6, Zenon
<1>14. CASE n.kind = "with"
  <2>5. Simple(t, WithLayout(n, at), TRUE)
    BY <1>14, SimpleWith
  <2>6. body = WithLayout(n, at)
    BY <1>14, StatementKinds DEF StatementBody, Loops, Alone, NameList, Words, Each
  <2> HIDE DEF body
  <2> QED
    BY <1>0, <2>5, <2>6, Zenon
<1>15. CASE n.kind \in {"while", "for"}
  <2>5. Simple(t, LoopLayout(n, at), TRUE)
    BY <1>15, SimpleLoop
  <2>6. body = LoopLayout(n, at)
    BY <1>15, StatementKinds DEF StatementBody, Loops, Alone, NameList, Words, Each
  <2> HIDE DEF body
  <2> QED
    BY <1>0, <2>5, <2>6, Zenon
<1>16. CASE n.kind = "def"
  <2>5. Sound(t, FunctionLayout(n, at), TRUE)
    BY <1>16, SoundFunction
  <2>6. body = FunctionLayout(n, at)
    BY <1>16, StatementKinds DEF StatementBody, Loops, Alone, NameList, Words, Each
  <2> HIDE DEF body
  <2> QED
    BY <2>5, <2>6, Zenon
<1>17. CASE n.kind = "classdef"
  <2>5. Simple(t, ClassLayout(n, at), TRUE)
    BY <1>17, SimpleClass
  <2>6. body = ClassLayout(n, at)
    BY <1>17, StatementKinds DEF StatementBody, Loops, Alone, NameList, Words, Each
  <2> HIDE DEF body
  <2> QED
    BY <1>0, <2>5, <2>6, Zenon
<1>18. CASE n.kind = "assign"
  <2>5. Sound(t, AssignBody(n, at), TRUE)
    BY <1>18, SoundAssign
  <2>6. body = AssignBody(n, at)
    BY <1>18, StatementKinds DEF StatementBody, Loops, Alone, NameList, Words, Each
  <2> HIDE DEF body
  <2> QED
    BY <2>5, <2>6, Zenon
<1>19. CASE n.kind = "annassign"
  <2>5. Simple(t, AnnAssignBody(n, at), TRUE)
    BY <1>19, SimpleAnnAssign
  <2>6. body = AnnAssignBody(n, at)
    BY <1>19, StatementKinds DEF StatementBody, Loops, Alone, NameList, Words, Each
  <2> HIDE DEF body
  <2> QED
    BY <1>0, <2>5, <2>6, Zenon
<1>20. CASE n.kind = "typealias"
  <2>5. Simple(t, TypeAliasBody(n, at), TRUE)
    BY <1>20, SimpleTypeAlias
  <2>6. body = TypeAliasBody(n, at)
    BY <1>20, StatementKinds DEF StatementBody, Loops, Alone, NameList, Words, Each
  <2> HIDE DEF body
  <2> QED
    BY <1>0, <2>5, <2>6, Zenon
<1>21. CASE n.kind = "delete"
  <2>5. Simple(t, DeleteBody(n, at), TRUE)
    BY <1>21, SimpleDelete
  <2>6. body = DeleteBody(n, at)
    BY <1>21, StatementKinds DEF StatementBody, Loops, Alone, NameList, Words, Each
  <2> HIDE DEF body
  <2> QED
    BY <1>0, <2>5, <2>6, Zenon
<1> QED
  BY <1>2, <1>3, <1>4, <1>5, <1>6, <1>7, <1>8, <1>9, <1>10, <1>11, <1>12, <1>13, <1>14, <1>15, <1>16, <1>17, <1>18, <1>19, <1>20, <1>21, StatementKinds DEF Statements, Loops

\* Whatever is serialized is good where it stands.
LEMMA SoundNode ==
    ASSUME NEW t, NEW n, NEW at, Anchored(t, n, at), n.kind \in Serialized
    PROVE  Sound(t, NodeLayout(n, at), TRUE)
<1>1. n \in Nodes /\ InFile(t, at)
  BY AnchoredInFile
<1>0. /\ Patterns \cap Statements = {} /\ "expr_stmt" \notin Patterns \cup Statements
      /\ "decorated" \notin Patterns \cup Statements /\ "import" \notin Patterns \cup Statements
      /\ "importfrom" \notin Patterns \cup Statements
  BY StatementKinds DEF Patterns, Statements, Loops
<1>2. Sound(t, End, TRUE) /\ Simple(t, End, TRUE) /\ Sound(t, Location(at), TRUE)
  BY <1>1, SimpleMarks, SimpleLocation, SimpleIsSound
<1> DEFINE whole == NodeLayout(n, at)
<1> SUFFICES Sound(t, whole, TRUE)
  OBVIOUS
<1>3. CASE n.kind \in Patterns
  <2>1. whole = PatternLayout(n, at)
    BY <1>0, <1>3 DEF NodeLayout
  <2>2. Simple(t, PatternLayout(n, at), TRUE)
    BY <1>3, SimplePattern
  <2> HIDE DEF whole
  <2> QED
    BY <2>1, <2>2, SimpleIsSound
<1>4. CASE n.kind \in Statements
  <2>1. whole = StatementBody(n, at) \o Location(at) \o End
    BY <1>0, <1>4 DEF NodeLayout
  <2>2. Sound(t, StatementBody(n, at), TRUE)
    BY <1>4, SoundStatementBody
  <2> HIDE DEF whole
  <2> QED
    BY <1>2, <2>1, <2>2, SoundJoin3
<1>5. CASE n.kind = "expr_stmt"
  <2>1. whole = Tag("EXPR_STMT") \o Child(n, at, 1) \o End
    BY <1>0, <1>5 DEF NodeLayout
  <2>2. /\ 1 \in DOMAIN n.args /\ n.args[1].kind \in Serialized
        /\ Len(n.args) >= 1 /\ Len(n.args) \in Nat /\ DOMAIN n.args = 1..Len(n.args)
    <3>1. ConsistsOf(n, <<Expr>>, {})
      BY <1>1, <1>5, NodesAssumption DEF StmtFields
    <3>2. /\ 1 \in DOMAIN n.args /\ n.args[1].kind \in Expr
          /\ Len(n.args) >= 1 /\ Len(n.args) \in Nat /\ DOMAIN n.args = 1..Len(n.args)
      BY <1>1, <1>5, <3>1, Fields1
    <3> QED
      BY <3>2, KindsAreSerialized DEF Expr, OptionalExpr, Maybe
  <2>3. Simple(t, Tag("EXPR_STMT"), TRUE)
    BY SimpleTokens
  <2>4. Simple(t, Child(n, at, 1), TRUE)
    BY <2>2, SimpleChild
  <2>5. Simple(t, End, TRUE)
    BY SimpleMarks
  <2>6. Simple(t, Tag("EXPR_STMT") \o Child(n, at, 1) \o End, TRUE)
    BY <2>3, <2>4, <2>5, SimpleJoin3
  <2> HIDE DEF whole
  <2> QED
    BY <2>1, <2>6, SimpleIsSound
<1>6. CASE n.kind = "decorated"
  <2>1. whole = DecoratedLayout(n, at)
    BY <1>0, <1>6 DEF NodeLayout
  <2>2. Simple(t, DecoratedLayout(n, at), TRUE)
    BY <1>6, SimpleDecorated
  <2> HIDE DEF whole
  <2> QED
    BY <2>1, <2>2, SimpleIsSound
<1>7. CASE n.kind = "import"
  <2>1. whole = ImportLayout(n, at) \o End
    BY <1>0, <1>7 DEF NodeLayout
  <2>2. Simple(t, ImportLayout(n, at), TRUE)
    BY SimpleImport
  <2> HIDE DEF whole
  <2> QED
    BY <1>2, <2>1, <2>2, SimpleJoin, SimpleIsSound
<1>8. CASE n.kind = "importfrom"
  <2>1. whole = ImportFromLayout(n, at) \o End
    BY <1>0, <1>8 DEF NodeLayout
  <2>2. Simple(t, ImportFromLayout(n, at), TRUE)
    BY SimpleImportFrom
  <2> HIDE DEF whole
  <2> QED
    BY <1>2, <2>1, <2>2, SimpleJoin, SimpleIsSound
<1>9. CASE n.kind \notin Patterns \cup Statements \cup {"expr_stmt", "decorated", "import", "importfrom"}
  <2>1. whole = ExprLayout(n, at)
    BY <1>9 DEF NodeLayout
  <2>2. StmtKinds \subseteq Statements \cup {"expr_stmt", "decorated", "import", "importfrom"}
    BY StatementKinds DEF StmtKinds, WordKinds, Statements, Loops
  <2>3. n.kind \in ExprKinds
    BY <1>9, <2>2 DEF Serialized
  <2>4. Simple(t, ExprLayout(n, at), TRUE)
    BY <2>3, SimpleExpr
  <2> HIDE DEF whole
  <2> QED
    BY <2>1, <2>4, SimpleIsSound
<1> QED
  BY <1>3, <1>4, <1>5, <1>6, <1>7, <1>8, <1>9
-----------------------------------------------------------------------------
(* The items still to do, and the contexts they are done in.                 *)

Contexts(s, b, c) ==
    /\ c \in [1..(Len(s) + 1) -> BOOLEAN]
    /\ c[1] = b
    /\ \A k \in 1..Len(s) : c[k + 1] = IF s[k].do = "restore" THEN s[k].value ELSE c[k]

\* Each item is good in the context that is_evaluated, b now, gives it then.
Walk(t, s, b) ==
    /\ IsSeq(s)
    /\ \E c : Contexts(s, b, c) /\ \A k \in 1..Len(s) : GoodAt(t, s, k, c[k])

LEMMA WalkEmpty == \A t : \A b \in BOOLEAN : Walk(t, <<>>, b)
<1> SUFFICES ASSUME NEW t, NEW b \in BOOLEAN
             PROVE  Walk(t, <<>>, b)
  OBVIOUS
<1> DEFINE c == [i \in 1..1 |-> b]
<1>1. IsSeq(<<>>) /\ Len(<<>>) = 0
  BY EmptyIsSeq
<1>2. Contexts(<<>>, b, c)
  BY <1>1 DEF Contexts
<1> QED
  BY <1>1, <1>2 DEF Walk

\* What is put before the items still to do, in the context of the first of them.
LEMMA WalkJoin ==
    ASSUME NEW t, NEW a, NEW s, NEW b \in BOOLEAN, IsSeq(a), Walk(t, s, b),
           \A k \in 1..Len(a) : a[k].do # "restore" /\ GoodAt(t, a \o s, k, b)
    PROVE  Walk(t, a \o s, b)
<1> DEFINE u == a \o s
           n == Len(a)
<1>1. PICK c : Contexts(s, b, c) /\ \A k \in 1..Len(s) : GoodAt(t, s, k, c[k])
  BY DEF Walk
<1>0. IsSeq(s)
  BY DEF Walk
<1>2. /\ IsSeq(u) /\ n \in Nat /\ Len(s) \in Nat
      /\ DOMAIN s = 1..Len(s)
      /\ Len(u) = n + Len(s)
      /\ \A k \in 1..n : u[k] = a[k]
      /\ \A k \in 1..Len(s) : u[n + k] = s[k]
      /\ Agree(s, u, 0, n)
  BY <1>0, Joined
<1>3. \A k \in 1..n : a[k].do # "restore" /\ GoodAt(t, u, k, b)
  OBVIOUS
<1> HIDE DEF u, n
<1> DEFINE d == [k \in 1..(Len(u) + 1) |-> IF k <= n THEN b ELSE c[k - n]]
<1>4. c \in [1..(Len(s) + 1) -> BOOLEAN] /\ c[1] = b
  BY <1>1 DEF Contexts
<1>5. d \in [1..(Len(u) + 1) -> BOOLEAN]
  BY <1>2, <1>4
<1>6. \A k \in 1..n : d[k] = b
  BY <1>2
<1>7. \A k \in 1..(Len(s) + 1) : d[n + k] = c[k]
  BY <1>2
<1> HIDE DEF d
<1>8. d[1] = b
  <2>1. CASE n = 0
    <3>1. 1 \in 1..(Len(s) + 1) /\ n + 1 = 1
      BY <1>2, <2>1
    <3> QED
      BY <1>4, <1>7, <3>1
  <2>2. CASE n # 0
    BY <1>2, <1>6, <2>2
  <2> QED
    BY <2>1, <2>2
<1>9. ASSUME NEW k \in 1..n
      PROVE  /\ d[k + 1] = IF u[k].do = "restore" THEN u[k].value ELSE d[k]
             /\ GoodAt(t, u, k, d[k])
  <2>1. d[k] = b /\ u[k] = a[k] /\ a[k].do # "restore" /\ GoodAt(t, u, k, b)
    BY <1>2, <1>3, <1>6
  <2>2. d[k + 1] = b
    <3>1. CASE k < n
      BY <1>2, <1>6, <3>1
    <3>2. CASE k = n
      <4>1. 1 \in 1..(Len(s) + 1) /\ n + 1 = k + 1
        BY <1>2, <3>2
      <4> QED
        BY <1>4, <1>7, <4>1
    <3> QED
      BY <1>2, <3>1, <3>2
  <2> QED
    BY <2>1, <2>2
<1>10. ASSUME NEW k \in 1..Len(s)
       PROVE  /\ d[(n + k) + 1] = IF u[n + k].do = "restore" THEN u[n + k].value ELSE d[n + k]
              /\ GoodAt(t, u, n + k, d[n + k])
  <2>1. /\ k \in 1..(Len(s) + 1) /\ k + 1 \in 1..(Len(s) + 1) /\ n + (k + 1) = (n + k) + 1
        /\ k \in Nat /\ k \in Int /\ n \in Int /\ k \in DOMAIN s /\ k + n = n + k
    BY <1>2
  <2>2. d[n + k] = c[k] /\ d[(n + k) + 1] = c[k + 1] /\ u[n + k] = s[k]
    BY <1>2, <1>7, <2>1
  <2>3. c[k + 1] = IF s[k].do = "restore" THEN s[k].value ELSE c[k]
    BY <1>1 DEF Contexts
  <2>4. GoodAt(t, s, k, c[k])
    BY <1>1
  <2>5. Agree(s, u, k, n)
    BY <1>0, <1>2, <2>1, AgreeFrom
  <2>6. GoodAt(t, u, k + n, c[k])
    BY <1>0, <2>1, <2>4, <2>5, GoodAgrees
  <2> QED
    BY <2>1, <2>2, <2>3, <2>6
<1>11. ASSUME NEW k \in 1..Len(u)
       PROVE  /\ d[k + 1] = IF u[k].do = "restore" THEN u[k].value ELSE d[k]
              /\ GoodAt(t, u, k, d[k])
  <2>1. CASE k <= n
    <3>1. k \in 1..n
      BY <1>2, <2>1
    <3> QED
      BY <1>9, <3>1
  <2>2. CASE ~(k <= n)
    <3>1. k - n \in 1..Len(s) /\ n + (k - n) = k
      BY <1>2, <2>2
    <3> DEFINE j == k - n
    <3> HIDE DEF j
    <3>2. j \in 1..Len(s) /\ n + j = k
      BY <3>1 DEF j
    <3> QED
      BY <1>10, <3>2
  <2> QED
    BY <2>1, <2>2
<1>12. Contexts(u, b, d)
  BY <1>5, <1>8, <1>11 DEF Contexts
<1>13. Walk(t, u, b)
  BY <1>2, <1>11, <1>12 DEF Walk
<1> QED
  BY <1>13 DEF u

LEMMA WalkPush ==
    ASSUME NEW t, NEW a, NEW s, NEW b \in BOOLEAN, Sound(t, a, b), Walk(t, s, b)
    PROVE  Walk(t, a \o s, b)
<1> DEFINE u == a \o s
<1>0. IsSeq(a) /\ IsSeq(s)
  BY DEF Sound, Walk
<1>1. Len(a) \in Nat /\ DOMAIN a = 1..Len(a) /\ Agree(a, u, 0, 0)
  BY <1>0, Joined
<1> HIDE DEF u
<1>2. ASSUME NEW k \in 1..Len(a)
      PROVE  a[k].do # "restore" /\ GoodAt(t, u, k, b)
  <2>1. a[k].do # "restore" /\ GoodAt(t, a, k, b)
    BY DEF Sound
  <2>2. k \in Nat /\ k \in Int /\ k \in DOMAIN a /\ k + 0 = k /\ 0 \in Int
    BY <1>1
  <2>3. Agree(a, u, k, 0)
    BY <1>0, <1>1, <2>2, AgreeFrom
  <2>4. GoodAt(t, u, k + 0, b)
    BY <1>0, <2>1, <2>2, <2>3, GoodAgrees
  <2> QED
    BY <2>1, <2>2, <2>4
<1> QED
  BY <1>0, <1>2, WalkJoin DEF u

LEMMA WalkOf ==
    ASSUME NEW t, NEW a, NEW b \in BOOLEAN, Sound(t, a, b)
    PROVE  Walk(t, a, b)
<1>1. PICK S : a \in Seq(S)
  BY DEF Sound, IsSeq
<1>2. a \o <<>> = a
  BY <1>1, ConcatEmptySeq
<1>3. Walk(t, a \o <<>>, b)
  BY WalkEmpty, WalkPush
<1> QED
  BY <1>2, <1>3

\* The first item is done.
LEMMA WalkTail ==
    ASSUME NEW t, NEW s, NEW b \in BOOLEAN, Walk(t, s, b), s # <<>>
    PROVE  /\ GoodAt(t, s, 1, b)
           /\ s[1].do = "restore" => s[1].value \in BOOLEAN
           /\ Walk(t, Tail(s), IF s[1].do = "restore" THEN s[1].value ELSE b)
           /\ IsSeq(s) /\ IsSeq(Tail(s)) /\ Len(s) \in Nat /\ Len(s) >= 1
           /\ DOMAIN s = 1..Len(s) /\ Len(Tail(s)) = Len(s) - 1 /\ DOMAIN Tail(s) = 1..(Len(s) - 1)
           /\ \A k \in 1..(Len(s) - 1) : Tail(s)[k] = s[k + 1]
           /\ Agree(s, Tail(s), 2, -1)
<1> DEFINE u == Tail(s)
           n == Len(s) - 1
           v == IF s[1].do = "restore" THEN s[1].value ELSE b
<1>1. PICK c : Contexts(s, b, c) /\ \A k \in 1..Len(s) : GoodAt(t, s, k, c[k])
  BY DEF Walk
<1>0. PICK S : s \in Seq(S)
  BY DEF Walk, IsSeq
<1>2. /\ Len(s) \in Nat /\ Len(s) >= 1 /\ DOMAIN s = 1..Len(s) /\ n \in Nat /\ Len(s) = n + 1
      /\ u \in Seq(S) /\ Len(u) = n /\ DOMAIN u = 1..n
      /\ \A k \in 1..n : u[k] = s[k + 1]
  BY <1>0
<1>3. IsSeq(s) /\ IsSeq(u)
  BY <1>0, <1>2 DEF IsSeq
<1> HIDE DEF u, n
<1>4. c \in [1..(Len(s) + 1) -> BOOLEAN] /\ c[1] = b
  BY <1>1 DEF Contexts
<1>5. 1 \in 1..Len(s) /\ GoodAt(t, s, 1, b)
  BY <1>1, <1>2, <1>4
<1>6. s[1].do = "restore" => s[1].value \in BOOLEAN
  BY <1>5 DEF GoodAt, PlainAt, Plain
<1>7. \A k \in 1..Len(s) : c[k + 1] = IF s[k].do = "restore" THEN s[k].value ELSE c[k]
  BY <1>1 DEF Contexts
<1>8. c[2] = v
  BY <1>4, <1>5, <1>7
<1> HIDE DEF v
<1> DEFINE d == [k \in 1..(n + 1) |-> c[k + 1]]
<1>9. d \in [1..(n + 1) -> BOOLEAN] /\ d[1] = v
  BY <1>2, <1>4, <1>8
<1>10. \A k \in 1..(n + 1) : d[k] = c[k + 1]
  OBVIOUS
<1> HIDE DEF d
<1>11. Agree(s, u, 2, -1)
  <2> SUFFICES ASSUME NEW j \in DOMAIN s, j >= 2
               PROVE  j + (-1) \in DOMAIN u /\ u[j + (-1)] = s[j]
    BY DEF Agree
  <2>1. j + (-1) \in 1..n /\ (j + (-1)) + 1 = j
    BY <1>2
  <2> QED
    BY <1>2, <2>1
<1>12. ASSUME NEW k \in 1..n
       PROVE  /\ d[k + 1] = IF u[k].do = "restore" THEN u[k].value ELSE d[k]
              /\ GoodAt(t, u, k, d[k])
  <2>1. /\ k \in 1..(n + 1) /\ k + 1 \in 1..(n + 1) /\ k + 1 \in 1..Len(s) /\ u[k] = s[k + 1]
        /\ k + 1 \in Int /\ -1 \in Int /\ k + 1 \in DOMAIN s /\ (k + 1) + (-1) = k /\ k + 1 >= 2
    BY <1>2
  <2>2. d[k] = c[k + 1] /\ d[k + 1] = c[(k + 1) + 1]
    BY <1>10, <2>1
  <2>3. GoodAt(t, s, k + 1, c[k + 1])
    BY <1>1, <2>1
  <2>4. Agree(s, u, k + 1, -1)
    <3> SUFFICES ASSUME NEW j \in DOMAIN s, j >= k + 1
                 PROVE  j + (-1) \in DOMAIN u /\ u[j + (-1)] = s[j]
      BY DEF Agree
    <3>1. j >= 2
      BY <1>2, <2>1
    <3> QED
      BY <1>11, <3>1 DEF Agree
  <2>5. GoodAt(t, u, (k + 1) + (-1), c[k + 1])
    BY <1>3, <2>1, <2>3, <2>4, GoodAgrees
  <2> QED
    BY <1>7, <2>1, <2>2, <2>5
<1>13. Contexts(u, v, d)
  BY <1>2, <1>9, <1>12 DEF Contexts
<1>14. Walk(t, u, v)
  BY <1>2, <1>3, <1>12, <1>13 DEF Walk
<1> QED
  BY <1>2, <1>3, <1>5, <1>6, <1>11, <1>14 DEF u, n, v

\* is_evaluated is put back before the items that follow.
LEMMA WalkRestore ==
    ASSUME NEW t, NEW s, NEW b \in BOOLEAN, NEW x \in BOOLEAN, Walk(t, s, b)
    PROVE  Walk(t, Restore(b) \o s, x)
<1> DEFINE item == [do |-> "restore", value |-> b]
           a == <<item>>
           u == a \o s
<1>1. PICK c : Contexts(s, b, c) /\ \A k \in 1..Len(s) : GoodAt(t, s, k, c[k])
  BY DEF Walk
<1>0. IsSeq(s)
  BY DEF Walk
<1>2. item.do = "restore" /\ item.value = b
  OBVIOUS
<1> HIDE DEF item
<1>3. IsSeq(a) /\ Len(a) = 1 /\ a[1] = item
  BY OneIsSeq
<1> HIDE DEF a
<1>14. /\ IsSeq(u) /\ Len(s) \in Nat /\ DOMAIN s = 1..Len(s)
       /\ Len(u) = Len(a) + Len(s)
       /\ \A k \in 1..Len(a) : u[k] = a[k]
       /\ \A k \in 1..Len(s) : u[Len(a) + k] = s[k]
       /\ Agree(s, u, 0, Len(a))
  <2>1. IsSeq(a)
    BY <1>3
  <2> QED
    BY <1>0, <2>1, Joined
<1> HIDE DEF u
<1>4. /\ IsSeq(u) /\ Len(s) \in Nat /\ DOMAIN s = 1..Len(s)
      /\ Len(u) = 1 + Len(s)
      /\ \A k \in 1..Len(s) : u[1 + k] = s[k]
      /\ Agree(s, u, 0, 1)
  BY <1>3, <1>14
<1>5. u[1] = item
  BY <1>3, <1>14
<1> DEFINE d == [k \in 1..(Len(u) + 1) |-> IF k = 1 THEN x ELSE c[k - 1]]
<1>6. c \in [1..(Len(s) + 1) -> BOOLEAN] /\ c[1] = b
  BY <1>1 DEF Contexts
<1>7. d \in [1..(Len(u) + 1) -> BOOLEAN] /\ d[1] = x
  BY <1>4, <1>6
<1>8. \A k \in 1..(Len(s) + 1) : d[1 + k] = c[k]
  BY <1>4
<1> HIDE DEF d
<1>9. GoodAt(t, u, 1, d[1])
  BY <1>2, <1>5 DEF GoodAt, PlainAt, Plain, NestedAt
<1>10. d[1 + 1] = IF u[1].do = "restore" THEN u[1].value ELSE d[1]
  <2>1. 1 \in 1..(Len(s) + 1)
    BY <1>4
  <2> QED
    BY <1>2, <1>5, <1>6, <1>8, <2>1
<1>11. ASSUME NEW k \in 1..Len(s)
       PROVE  /\ d[(1 + k) + 1] = IF u[1 + k].do = "restore" THEN u[1 + k].value ELSE d[1 + k]
              /\ GoodAt(t, u, 1 + k, d[1 + k])
  <2>1. /\ k \in 1..(Len(s) + 1) /\ k + 1 \in 1..(Len(s) + 1) /\ 1 + (k + 1) = (1 + k) + 1
        /\ k \in Nat /\ k \in Int /\ 1 \in Int /\ k \in DOMAIN s /\ k + 1 = 1 + k
    BY <1>4
  <2>2. d[1 + k] = c[k] /\ d[(1 + k) + 1] = c[k + 1] /\ u[1 + k] = s[k]
    BY <1>4, <1>8, <2>1
  <2>3. c[k + 1] = IF s[k].do = "restore" THEN s[k].value ELSE c[k]
    BY <1>1 DEF Contexts
  <2>4. GoodAt(t, s, k, c[k])
    BY <1>1
  <2>5. Agree(s, u, k, 1)
    BY <1>0, <1>4, <2>1, AgreeFrom
  <2>6. GoodAt(t, u, k + 1, c[k])
    BY <1>0, <2>1, <2>4, <2>5, GoodAgrees
  <2> QED
    BY <2>1, <2>2, <2>3, <2>6
<1>12. ASSUME NEW k \in 1..Len(u)
       PROVE  /\ d[k + 1] = IF u[k].do = "restore" THEN u[k].value ELSE d[k]
              /\ GoodAt(t, u, k, d[k])
  <2>1. CASE k = 1
    BY <1>9, <1>10, <2>1
  <2>2. CASE k # 1
    <3>1. k - 1 \in 1..Len(s) /\ 1 + (k - 1) = k
      BY <1>4, <2>2
    <3> DEFINE j == k - 1
    <3> HIDE DEF j
    <3>2. j \in 1..Len(s) /\ 1 + j = k
      BY <3>1 DEF j
    <3> QED
      BY <1>11, <3>2
  <2> QED
    BY <2>1, <2>2
<1>13. Contexts(u, x, d)
  BY <1>7, <1>12 DEF Contexts
<1>15. Walk(t, u, x)
  BY <1>4, <1>12, <1>13 DEF Walk
<1> QED
  BY <1>15 DEF u, a, item, Restore

LEMMA Associative ==
    ASSUME NEW a, NEW b, NEW d, IsSeq(a), IsSeq(b), IsSeq(d)
    PROVE  (a \o b) \o d = a \o (b \o d)
<1>1. PICK S : a \in Seq(S)
  BY DEF IsSeq
<1>2. PICK T : b \in Seq(T)
  BY DEF IsSeq
<1>3. PICK U : d \in Seq(U)
  BY DEF IsSeq
<1> DEFINE V == S \cup T \cup U
<1>4. a \in Seq(V) /\ b \in Seq(V) /\ d \in Seq(V)
  BY <1>1, <1>2, <1>3, SeqMonotonic
<1> HIDE DEF V
<1> QED
  BY <1>4, ConcatAssociative

\* What is written with is_evaluated off, and put back after it: it is good with
\* what follows, also the string whose location is that of the last union in it.
LEMMA WalkUnevaluated ==
    ASSUME NEW t, NEW s, NEW b \in BOOLEAN, Walk(t, s, b), s # <<>>, s[1].do = "unevaluated"
    PROVE  Walk(t, (s[1].items \o Restore(b)) \o Tail(s), FALSE)
<1> DEFINE items == s[1].items
           r == Restore(b)
           rest == r \o Tail(s)
           u == items \o rest
<1>1. /\ GoodAt(t, s, 1, b)
      /\ Walk(t, Tail(s), b)
      /\ IsSeq(Tail(s)) /\ DOMAIN s = 1..Len(s) /\ Len(s) \in Nat
      /\ DOMAIN Tail(s) = 1..(Len(s) - 1)
      /\ \A k \in 1..(Len(s) - 1) : Tail(s)[k] = s[k + 1]
  BY WalkTail
<1>2. Walk(t, rest, FALSE)
  BY <1>1, WalkRestore
<1>3. Simple(t, items, FALSE) \/ StringEnds(t, s, 1)
  BY <1>1 DEF GoodAt, NestedAt
<1>4. IsSeq(items) /\ IsSeq(r)
  BY <1>3, OneIsSeq DEF Simple, StringEnds, Restore
<1>5. (items \o r) \o Tail(s) = u
  <2> HIDE DEF items, r
  <2>1. (items \o r) \o Tail(s) = items \o (r \o Tail(s))
    BY <1>1, <1>4, Associative
  <2> QED
    BY <2>1
<1> SUFFICES Walk(t, u, FALSE)
  BY <1>5
<1>6. CASE Simple(t, items, FALSE)
  <2>1. Sound(t, items, FALSE)
    BY <1>6, SimpleIsSound
  <2> HIDE DEF items, rest
  <2> QED
    BY <1>2, <2>1, WalkPush
<1>7. CASE StringEnds(t, s, 1)
  <2> DEFINE loc == s[2]
             one == <<loc>>
             v == items \o one
             back == [do |-> "restore", value |-> b]
  <2>1. /\ 1 + 1 = 2 /\ 2 \in DOMAIN s /\ loc.do = "location"
        /\ Simple(t, v, FALSE)
    <3>1. 1 + 1 = 2
      OBVIOUS
    <3>2. /\ 1 + 1 \in DOMAIN s /\ s[1 + 1].do = "location"
          /\ Simple(t, s[1].items \o <<s[1 + 1]>>, FALSE)
      BY <1>7 DEF StringEnds
    <3> QED
      BY <3>1, <3>2, Zenon
  <2>2. IsSeq(one) /\ Len(one) = 1 /\ one[1] = loc
    BY OneIsSeq
  <2>3. Tail(s)[1] = loc /\ 1 \in DOMAIN Tail(s) /\ Len(Tail(s)) >= 1
    <3>1. 1 \in 1..(Len(s) - 1)
      BY <1>1, <2>1
    <3>2. Len(Tail(s)) = Len(s) - 1 /\ Len(s) - 1 >= 1
      BY <1>1, <2>1, WalkTail
    <3> QED
      BY <1>1, <2>1, <3>1, <3>2
  <2> HIDE DEF loc, one
  <2>4. IsSeq(r) /\ Len(r) = 1 /\ r[1] = back
    BY OneIsSeq DEF Restore
  <2>5. back.do = "restore"
    OBVIOUS
  <2> HIDE DEF back, r, items
  <2>6. /\ IsSeq(rest) /\ Len(rest) = Len(r) + Len(Tail(s)) /\ Len(Tail(s)) \in Nat
        /\ \A k \in 1..Len(r) : rest[k] = r[k]
        /\ \A k \in 1..Len(Tail(s)) : rest[Len(r) + k] = Tail(s)[k]
    <3>1. IsSeq(r) /\ IsSeq(Tail(s))
      BY <1>1, <2>4
    <3> QED
      BY <3>1, Joined
  <2> HIDE DEF rest
  <2>7. rest[1] = back /\ rest[2] = loc /\ Len(rest) >= 2 /\ Len(rest) \in Nat
    <3>1. 1 \in 1..Len(r) /\ 1 \in 1..Len(Tail(s)) /\ Len(r) + 1 = 2
      BY <2>3, <2>4, <2>6
    <3>2. rest[1] = r[1] /\ rest[Len(r) + 1] = Tail(s)[1]
      BY <2>6, <3>1
    <3> QED
      BY <2>3, <2>4, <2>6, <3>1, <3>2
  <2>8. /\ IsSeq(u) /\ Len(items) \in Nat /\ DOMAIN u = 1..(Len(items) + Len(rest))
        /\ \A k \in 1..Len(items) : u[k] = items[k]
        /\ \A k \in 1..Len(rest) : u[Len(items) + k] = rest[k]
    BY <1>4, <2>6, Joined
  <2>14. /\ DOMAIN v = 1..(Len(items) + Len(one)) /\ Len(v) = Len(items) + Len(one)
         /\ \A k \in 1..Len(items) : v[k] = items[k]
         /\ \A k \in 1..Len(one) : v[Len(items) + k] = one[k]
    <3>1. IsSeq(items) /\ IsSeq(one)
      BY <1>4, <2>2
    <3> QED
      BY <3>1, Joined
  <2> HIDE DEF v
  <2>9. /\ DOMAIN v = 1..(Len(items) + 1) /\ Len(v) = Len(items) + 1
        /\ \A k \in 1..Len(items) : v[k] = items[k]
    BY <2>2, <2>14
  <2>10. v[Len(items) + 1] = loc
    BY <2>2, <2>14
  <2>11. u[Len(items) + 1] = back /\ u[Len(items) + 2] = loc
    BY <2>7, <2>8
  <2> HIDE DEF u
  <2>12. \A k \in 1..Len(v) : v[k].do \notin {"restore", "unevaluated", "function"} /\ PlainAt(t, v, k, FALSE)
    BY <2>1 DEF Simple
  <2>13. ASSUME NEW k \in 1..Len(items)
         PROVE  items[k].do # "restore" /\ GoodAt(t, u, k, FALSE)
    <3>1. k \in 1..Len(v) /\ v[k] = items[k] /\ u[k] = items[k] /\ k + 1 \in 1..Len(v)
      BY <2>8, <2>9
    <3>2. items[k].do \notin {"restore", "unevaluated", "function"} /\ Plain(t, items[k], FALSE)
          /\ (items[k].do = "evaluated" => EndAfter(t, v, k, FALSE))
      BY <2>12, <3>1 DEF PlainAt
    <3>3. ASSUME EndAfter(t, v, k, FALSE)
          PROVE  EndAfter(t, u, k, FALSE)
      <4>1. v[k + 1].do # "restore"
        BY <2>12, <3>1
      <4>2. IsEnd(t, v[k + 1], FALSE)
        BY <3>3, <4>1 DEF EndAfter
      <4>3. CASE k < Len(items)
        <5>1. k + 1 \in 1..Len(items) /\ k + 1 \in DOMAIN u
          BY <2>7, <2>8, <4>3
        <5>2. u[k + 1] = v[k + 1]
          BY <2>8, <2>9, <5>1
        <5> QED
          BY <4>2, <5>1, <5>2 DEF EndAfter
      <4>4. CASE k = Len(items)
        <5>1. k + 1 \in DOMAIN u /\ k + 2 \in DOMAIN u
          BY <2>7, <2>8, <4>4
        <5>2. u[k + 1].do = "restore" /\ u[k + 2] = v[k + 1]
          BY <2>5, <2>10, <2>11, <4>4
        <5> QED
          BY <4>2, <5>1, <5>2 DEF EndAfter
      <4>5. k < Len(items) \/ k = Len(items)
        BY <2>8
      <4> QED
        BY <4>3, <4>4, <4>5
    <3> QED
      BY <3>1, <3>2, <3>3 DEF GoodAt, PlainAt, NestedAt
  <2>15. Walk(t, items \o rest, FALSE)
    BY <1>2, <1>4, <2>13, WalkJoin DEF u
  <2> QED
    BY <2>15 DEF u
<1> QED
  BY <1>3, <1>6, <1>7

\* The body of a function, and in_function put back after it.
LEMMA WalkFunction ==
    ASSUME NEW t, NEW s, NEW b \in BOOLEAN, NEW x \in BOOLEAN, Walk(t, s, b), s # <<>>, s[1].do = "function"
    PROVE  Walk(t, (s[1].items \o <<[do |-> "leave", value |-> x]>>) \o Tail(s), b)
<1> DEFINE items == s[1].items
           leave == [do |-> "leave", value |-> x]
           one == <<leave>>
<1>1. /\ GoodAt(t, s, 1, b)
      /\ Walk(t, Tail(s), b)
  BY WalkTail
<1>2. b = TRUE /\ Simple(t, items, TRUE)
  BY <1>1 DEF GoodAt, NestedAt
<1>3. leave.do = "leave" /\ leave.value = x
  OBVIOUS
<1> HIDE DEF leave
<1>4. Plain(t, leave, TRUE)
  BY <1>3 DEF Plain
<1>5. Simple(t, one, TRUE)
  BY <1>3, <1>4, SimpleOne
<1>6. Sound(t, items \o one, TRUE)
  BY <1>2, <1>5, SimpleJoin, SimpleIsSound
<1> HIDE DEF items, one
<1>7. Walk(t, (items \o one) \o Tail(s), b)
  BY <1>1, <1>2, <1>6, WalkPush
<1> QED
  BY <1>7 DEF items, one, leave

-----------------------------------------------------------------------------
(* What was written.                                                         *)

Flagged(s) == s # <<>> /\ s[Len(s)][1] = "evaluated"
IsUnionAt(t, token) == token[1] = "location" /\ AtBinop(t, [path |-> token[2]])

\* The bytes so far; given says that no location of the file is written.
WrittenWell(t, s, given) ==
    /\ IsSeq(s)
    /\ \A i \in 1..Len(s) :
          /\ s[i][1] = "location" => ~given /\ NodesAt(t, s[i][2]) # {}
          /\ s[i][1] = "evaluated" => s[i][2] \in BOOLEAN /\ (given => ~s[i][2])
    /\ \A i \in 1..(Len(s) - 1) : s[i][1] = "evaluated" => (s[i][2] <=> IsUnionAt(t, s[i + 1]))

\* What a token may be.
TokenIsWell(t, token, given) ==
    /\ token[1] = "location" => ~given /\ NodesAt(t, token[2]) # {}
    /\ token[1] = "evaluated" => token[2] \in BOOLEAN /\ (given => ~token[2])

LEMMA WrittenNothing == \A t, given : WrittenWell(t, <<>>, given) /\ ~Flagged(<<>>)
<1>1. IsSeq(<<>>) /\ Len(<<>>) = 0
  BY EmptyIsSeq
<1> QED
  BY <1>1 DEF WrittenWell, Flagged

LEMMA WrittenNext ==
    ASSUME NEW t, NEW s, NEW given, NEW token,
           WrittenWell(t, s, given), TokenIsWell(t, token, given),
           Flagged(s) => (s[Len(s)][2] <=> IsUnionAt(t, token))
    PROVE  /\ WrittenWell(t, Append(s, token), given)
           /\ Flagged(Append(s, token)) <=> token[1] = "evaluated"
           /\ Append(s, token)[Len(Append(s, token))] = token
<1> DEFINE u == Append(s, token)
           n == Len(s)
<1>1. PICK S : s \in Seq(S)
  BY DEF WrittenWell, IsSeq
<1>2. s \in Seq(S \cup {token}) /\ token \in S \cup {token}
  BY <1>1, SeqMonotonic
<1>3. /\ u \in Seq(S \cup {token}) /\ n \in Nat /\ Len(u) = n + 1
      /\ \A i \in 1..n : u[i] = s[i]
      /\ u[n + 1] = token
  BY <1>2, AppendProperties
<1>4. u # <<>>
  BY <1>3
<1>8. n >= 1 => s # <<>>
  BY <1>1
<1> HIDE DEF u
<1>5. IsSeq(u)
  BY <1>3 DEF IsSeq
<1>6. ASSUME NEW i \in 1..Len(u)
      PROVE  /\ u[i][1] = "location" => ~given /\ NodesAt(t, u[i][2]) # {}
             /\ u[i][1] = "evaluated" => u[i][2] \in BOOLEAN /\ (given => ~u[i][2])
  <2>1. CASE i = n + 1
    BY <1>3, <2>1 DEF TokenIsWell
  <2>2. CASE i # n + 1
    <3>1. i \in 1..Len(s) /\ u[i] = s[i]
      BY <1>3, <2>2
    <3> QED
      BY <3>1 DEF WrittenWell
  <2> QED
    BY <2>1, <2>2
<1>7. ASSUME NEW i \in 1..(Len(u) - 1), u[i][1] = "evaluated"
      PROVE  u[i][2] <=> IsUnionAt(t, u[i + 1])
  <2>1. i \in 1..n /\ u[i] = s[i]
    BY <1>3
  <2>2. CASE i = n
    <3>1. u[i + 1] = token /\ s # <<>>
      BY <1>3, <1>8, <2>1, <2>2
    <3>2. Flagged(s)
      BY <1>7, <2>1, <2>2, <3>1 DEF Flagged
    <3> QED
      BY <2>1, <2>2, <3>1, <3>2
  <2>3. CASE i # n
    <3>1. i \in 1..(Len(s) - 1) /\ u[i + 1] = s[i + 1]
      BY <1>3, <2>1, <2>3
    <3> QED
      BY <1>7, <2>1, <3>1 DEF WrittenWell
  <2> QED
    BY <2>2, <2>3
<1>9. WrittenWell(t, u, given)
  BY <1>5, <1>6, <1>7 DEF WrittenWell
<1>10. Flagged(u) <=> token[1] = "evaluated"
  BY <1>3, <1>4 DEF Flagged
<1>11. u[Len(u)] = token
  BY <1>3
<1> QED
  BY <1>9, <1>10, <1>11 DEF u

\* It is all that the properties ask of the bytes.
LEMMA WrittenIsExact ==
    ASSUME WrittenWell(tree, bytes, location_override)
    PROVE  LocationsInFile /\ EvaluatedExact
<1>1. DOMAIN bytes = 1..Len(bytes) /\ Len(bytes) \in Nat
  BY DEF WrittenWell, IsSeq
<1>2. LocationsInFile
  BY <1>1 DEF LocationsInFile, WrittenWell
<1>3. ASSUME NEW i \in DOMAIN bytes, bytes[i][1] = "evaluated", i < Len(bytes)
      PROVE  bytes[i][2] <=> /\ bytes[i + 1][1] = "location"
                             /\ \E n \in NodesAt(tree, bytes[i + 1][2]) : n.kind = "binop"
  <2>1. i \in 1..(Len(bytes) - 1)
    BY <1>1, <1>3
  <2>2. bytes[i][2] <=> IsUnionAt(tree, bytes[i + 1])
    BY <1>3, <2>1 DEF WrittenWell
  <2>3. [path |-> bytes[i + 1][2]].path = bytes[i + 1][2]
    OBVIOUS
  <2> QED
    BY <2>2, <2>3 DEF IsUnionAt, AtBinop
<1> QED
  BY <1>2, <1>3 DEF EvaluatedExact

-----------------------------------------------------------------------------
(* The invariant.                                                            *)

\* With is_evaluated off from the start, nothing turns it on.
Quiet(s) == IsSeq(s) /\ \A k \in 1..Len(s) : s[k].do = "restore" => ~s[k].value

LEMMA QuietTail ==
    ASSUME NEW s, Quiet(s), s # <<>>
    PROVE  Quiet(Tail(s))
<1> DEFINE u == Tail(s)
<1>1. PICK S : s \in Seq(S)
  BY DEF Quiet, IsSeq
<1>2. /\ u \in Seq(S) /\ Len(s) \in Nat /\ Len(s) >= 1 /\ Len(u) = Len(s) - 1
      /\ \A k \in 1..(Len(s) - 1) : u[k] = s[k + 1]
  BY <1>1
<1> HIDE DEF u
<1>3. ASSUME NEW k \in 1..Len(u), u[k].do = "restore"
      PROVE  ~u[k].value
  <2>1. k + 1 \in 1..Len(s) /\ u[k] = s[k + 1]
    BY <1>2
  <2> QED
    BY <1>3, <2>1 DEF Quiet
<1>4. IsSeq(u)
  BY <1>2 DEF IsSeq
<1> QED
  BY <1>3, <1>4 DEF Quiet, u

LEMMA QuietJoin ==
    ASSUME NEW a, NEW b, Quiet(a), Quiet(b)
    PROVE  Quiet(a \o b)
<1> DEFINE u == a \o b
<1>0. IsSeq(a) /\ IsSeq(b)
  BY DEF Quiet
<1>1. /\ IsSeq(u)
      /\ Len(a) \in Nat /\ Len(b) \in Nat
      /\ Len(u) = Len(a) + Len(b)
      /\ \A k \in 1..Len(a) : u[k] = a[k]
      /\ \A k \in 1..Len(b) : u[Len(a) + k] = b[k]
  BY <1>0, Joined
<1> HIDE DEF u
<1>2. ASSUME NEW k \in 1..Len(u), u[k].do = "restore"
      PROVE  ~u[k].value
  <2>1. CASE k <= Len(a)
    <3>1. k \in 1..Len(a) /\ u[k] = a[k]
      BY <1>1, <2>1
    <3> QED
      BY <1>2, <3>1 DEF Quiet
  <2>2. CASE ~(k <= Len(a))
    <3>1. k - Len(a) \in 1..Len(b) /\ Len(a) + (k - Len(a)) = k
      BY <1>1, <2>2
    <3> DEFINE j == k - Len(a)
    <3> HIDE DEF j
    <3>2. j \in 1..Len(b) /\ Len(a) + j = k
      BY <3>1 DEF j
    <3>3. u[k] = b[j]
      BY <1>1, <3>2
    <3> QED
      BY <1>2, <3>2, <3>3 DEF Quiet
  <2> QED
    BY <2>1, <2>2
<1> QED
  BY <1>1, <1>2 DEF Quiet, u

LEMMA SoundIsQuiet ==
    ASSUME NEW t, NEW a, NEW b, Sound(t, a, b)
    PROVE  Quiet(a)
  BY DEF Sound, Quiet

LEMMA UnevaluatedIsQuiet ==
    ASSUME NEW t, NEW s, NEW b \in BOOLEAN, Walk(t, s, b), s # <<>>, s[1].do = "unevaluated"
    PROVE  Quiet(s[1].items)
<1> DEFINE items == s[1].items
<1>1. GoodAt(t, s, 1, b)
  BY WalkTail
<1>2. Simple(t, items, FALSE) \/ StringEnds(t, s, 1)
  BY <1>1 DEF GoodAt, NestedAt
<1>3. CASE Simple(t, items, FALSE)
  BY <1>3, SimpleIsSound, SoundIsQuiet
<1>4. CASE StringEnds(t, s, 1)
  <2> DEFINE one == <<s[1 + 1]>>
             v == items \o one
  <2>1. IsSeq(items) /\ Simple(t, v, FALSE)
    BY <1>4 DEF StringEnds
  <2>2. IsSeq(one)
    BY OneIsSeq
  <2> HIDE DEF items, one
  <2>3. Quiet(v)
    BY <2>1, SimpleIsSound, SoundIsQuiet
  <2>4. /\ Len(items) \in Nat /\ Len(one) \in Nat /\ Len(v) = Len(items) + Len(one)
        /\ \A k \in 1..Len(items) : v[k] = items[k]
    BY <2>1, <2>2, Joined
  <2> HIDE DEF v
  <2>5. ASSUME NEW k \in 1..Len(items), items[k].do = "restore"
        PROVE  ~items[k].value
    <3>1. k \in 1..Len(v) /\ v[k] = items[k]
      BY <2>4
    <3> QED
      BY <2>3, <2>5, <3>1 DEF Quiet
  <2>6. Quiet(items)
    BY <2>1, <2>5 DEF Quiet
  <2> QED
    BY <2>6 DEF items
<1> QED
  BY <1>2, <1>3, <1>4

\* The items are good where they are done, the bytes are, the flag that was
\* written last has the location it is about after it, and serialize_type_string
\* neither takes a location of the file nor has a type evaluated.
WalkIsGood ==
    /\ Walk(tree, todo, is_evaluated)
    /\ WrittenWell(tree, bytes, location_override)
    /\ Flagged(bytes) => EndAfter(tree, todo, 0, bytes[Len(bytes)][2])
    /\ location_override => ~is_evaluated /\ Quiet(todo)

Inv == TypeOK /\ IsSeq(extra_errors) /\ WalkIsGood

\* A flag that was just written is followed by a location, or is_evaluated is put
\* back before it.
LEMMA AfterFlag ==
    ASSUME NEW t, NEW s, NEW c, EndAfter(t, s, 0, c)
    PROVE  s[1].do \in {"location", "restore"}
<1>1. 0 + 1 = 1
  OBVIOUS
<1> QED
  BY <1>1 DEF EndAfter, IsEnd

\* A step that is neither writes what it likes, if it leaves what is good to do.
LEMMA Onward ==
    ASSUME WalkIsGood, todo[1].do \notin {"location", "restore"},
           tree' = tree, location_override' = location_override,
           Walk(tree, todo', is_evaluated'),
           location_override => ~is_evaluated' /\ Quiet(todo'),
           \/ bytes' = bytes
           \/ \E token : bytes' = Append(bytes, token) /\ token[1] \notin {"location", "evaluated"}
    PROVE  WalkIsGood'
<1>1. ~Flagged(bytes) /\ WrittenWell(tree, bytes, location_override)
  BY AfterFlag DEF WalkIsGood
<1>2. WrittenWell(tree, bytes', location_override) /\ ~Flagged(bytes')
  <2>1. CASE bytes' = bytes
    BY <1>1, <2>1
  <2>2. CASE \E token : bytes' = Append(bytes, token) /\ token[1] \notin {"location", "evaluated"}
    <3>1. PICK token : bytes' = Append(bytes, token) /\ token[1] \notin {"location", "evaluated"}
      BY <2>2
    <3>2. TokenIsWell(tree, token, location_override)
      BY <3>1 DEF TokenIsWell
    <3>3. /\ WrittenWell(tree, Append(bytes, token), location_override)
          /\ Flagged(Append(bytes, token)) <=> token[1] = "evaluated"
      BY <1>1, <3>2, WrittenNext
    <3> QED
      BY <3>1, <3>3
  <2> QED
    BY <2>1, <2>2
<1> QED
  BY <1>2 DEF WalkIsGood

\* The first item is replaced by what is good in its context.
LEMMA Replacing ==
    ASSUME WalkIsGood, is_evaluated \in BOOLEAN, todo # <<>>, todo[1].do \notin {"location", "restore"},
           tree' = tree, location_override' = location_override, is_evaluated' = is_evaluated,
           NEW items, Sound(tree, items, is_evaluated), Replaced(items),
           \/ bytes' = bytes
           \/ \E token : bytes' = Append(bytes, token) /\ token[1] \notin {"location", "evaluated"}
    PROVE  WalkIsGood'
<1>1. Walk(tree, todo, is_evaluated)
  BY DEF WalkIsGood
<1>2. Walk(tree, Tail(todo), is_evaluated)
  BY <1>1, WalkTail
<1>3. Walk(tree, items \o Tail(todo), is_evaluated)
  BY <1>2, WalkPush
<1>4. location_override => Quiet(items \o Tail(todo))
  BY SoundIsQuiet, QuietTail, QuietJoin DEF WalkIsGood
<1>5. todo' = items \o Tail(todo)
  BY DEF Replaced
<1>6. location_override => ~is_evaluated
  BY DEF WalkIsGood
<1> QED
  BY <1>3, <1>4, <1>5, <1>6, Onward

\* A step that only drops the first item.
LEMMA Dropping ==
    ASSUME WalkIsGood, is_evaluated \in BOOLEAN, todo # <<>>, todo[1].do \notin {"location", "restore"},
           tree' = tree, location_override' = location_override, is_evaluated' = is_evaluated,
           Replaced(<<>>),
           \/ bytes' = bytes
           \/ \E token : bytes' = Append(bytes, token) /\ token[1] \notin {"location", "evaluated"}
    PROVE  WalkIsGood'
<1>1. Sound(tree, <<>>, is_evaluated)
  BY SoundEmpty
<1> QED
  BY <1>1, Replacing

LEMMA Dropped ==
    ASSUME Walk(tree, todo, is_evaluated), is_evaluated \in BOOLEAN, todo # <<>>, Replaced(<<>>)
    PROVE  todo' = Tail(todo)
<1>1. PICK S : Tail(todo) \in Seq(S)
  BY WalkTail DEF IsSeq
<1>2. <<>> \o Tail(todo) = Tail(todo)
  BY <1>1, ConcatEmptySeq
<1> QED
  BY <1>2 DEF Replaced

-----------------------------------------------------------------------------
(* The steps.                                                                *)

\* What each step starts from.
LEMMA AtHead ==
    ASSUME Inv, todo # <<>>
    PROVE  /\ WalkIsGood /\ TypeOK /\ ~panicked
           /\ is_evaluated \in BOOLEAN /\ in_function \in BOOLEAN
           /\ Plain(tree, todo[1], is_evaluated)
           /\ Walk(tree, todo, is_evaluated)
<1>1. WalkIsGood /\ TypeOK /\ ~panicked /\ is_evaluated \in BOOLEAN /\ in_function \in BOOLEAN
  BY DEF Inv, TypeOK
<1>2. Walk(tree, todo, is_evaluated)
  BY <1>1 DEF WalkIsGood
<1>3. GoodAt(tree, todo, 1, is_evaluated)
  BY <1>1, <1>2, WalkTail
<1> QED
  BY <1>1, <1>2, <1>3 DEF GoodAt, PlainAt

\* Steps that leave the fields as they are, or set one that is a flag.
LEMMA TypeKept ==
    ASSUME Inv, todo # <<>>, Static, extra_errors' = extra_errors,
           is_evaluated' \in BOOLEAN, has_surrogates' \in BOOLEAN, uses_template_strings' \in BOOLEAN,
           panicked' \in BOOLEAN, panicked' => todo' = <<>>
    PROVE  TypeOK' /\ IsSeq(extra_errors')
<1>1. /\ cache_version' = cache_version /\ current_unreachable' = current_unreachable
      /\ location_override' = location_override /\ in_function' = in_function
  BY DEF Static, origin, importing
<1>2. TypeOK /\ IsSeq(extra_errors)
  BY DEF Inv
<1> QED
  BY <1>1, <1>2 DEF TypeOK

LEMMA FieldsKept ==
    ASSUME Inv, todo # <<>>, Static, UNCHANGED fields
    PROVE  /\ TypeOK' /\ IsSeq(extra_errors')
           /\ tree' = tree /\ location_override' = location_override /\ is_evaluated' = is_evaluated
<1>1. /\ is_evaluated' = is_evaluated /\ has_surrogates' = has_surrogates
      /\ uses_template_strings' = uses_template_strings /\ extra_errors' = extra_errors
      /\ panicked' = panicked
  BY DEF fields
<1>2. TypeOK /\ ~panicked
  BY AtHead
<1>3. tree' = tree /\ location_override' = location_override
  BY DEF Static, origin
<1>4. TypeOK' /\ IsSeq(extra_errors')
  BY <1>1, <1>2, TypeKept DEF TypeOK
<1> QED
  BY <1>1, <1>3, <1>4

LEMMA SerializeNodeKeeps ==
    ASSUME Inv, SerializeNode
    PROVE  Inv'
<1>1. todo # <<>> /\ todo[1].do = "node" /\ Static
  BY DEF SerializeNode, Doing, Static, origin, importing
<1>2. /\ WalkIsGood /\ TypeOK /\ ~panicked
      /\ is_evaluated \in BOOLEAN /\ in_function \in BOOLEAN
      /\ Plain(tree, todo[1], is_evaluated)
      /\ Walk(tree, todo, is_evaluated)
  BY <1>1, AtHead
<1>3. /\ TypeOK' /\ IsSeq(extra_errors')
      /\ tree' = tree /\ location_override' = location_override /\ is_evaluated' = is_evaluated
  BY <1>1, FieldsKept DEF SerializeNode
<1> DEFINE items == NodeLayout(todo[1].node, todo[1].place)
<1>4. Sound(tree, items, is_evaluated)
  <2>1. is_evaluated = TRUE /\ Anchored(tree, todo[1].node, todo[1].place) /\ todo[1].node.kind \in Serialized
    BY <1>1, <1>2 DEF Plain
  <2> QED
    BY <2>1, SoundNode
<1>5. bytes' = bytes /\ Replaced(items)
  BY DEF SerializeNode
<1> HIDE DEF items
<1>6. WalkIsGood'
  BY <1>1, <1>2, <1>3, <1>4, <1>5, Replacing
<1> QED
  BY <1>3, <1>6 DEF Inv

LEMMA SerializeSpecKeeps ==
    ASSUME Inv, SerializeSpec
    PROVE  Inv'
<1>1. todo # <<>> /\ todo[1].do = "elements" /\ Static
  BY DEF SerializeSpec, Doing, Static, origin, importing
<1>2. /\ WalkIsGood /\ TypeOK /\ ~panicked
      /\ is_evaluated \in BOOLEAN /\ in_function \in BOOLEAN
      /\ Plain(tree, todo[1], is_evaluated)
      /\ Walk(tree, todo, is_evaluated)
  BY <1>1, AtHead
<1>3. /\ TypeOK' /\ IsSeq(extra_errors')
      /\ tree' = tree /\ location_override' = location_override /\ is_evaluated' = is_evaluated
  BY <1>1, FieldsKept DEF SerializeSpec
<1> DEFINE items == ElementsLayout(todo[1].node.args, todo[1].place)
<1>4. Sound(tree, items, is_evaluated)
  <2>1. is_evaluated = TRUE /\ Anchored(tree, todo[1].node, todo[1].place) /\ todo[1].node.kind = "spec"
    BY <1>1, <1>2 DEF Plain
  <2> QED
    BY <2>1, SimpleElementsLayout, SimpleIsSound
<1>5. bytes' = bytes /\ Replaced(items)
  BY DEF SerializeSpec
<1> HIDE DEF items
<1>6. WalkIsGood'
  BY <1>1, <1>2, <1>3, <1>4, <1>5, Replacing
<1> QED
  BY <1>3, <1>6 DEF Inv

LEMMA SerializeTypeKeeps ==
    ASSUME Inv, SerializeType
    PROVE  Inv'
<1>1. todo # <<>> /\ todo[1].do = "type" /\ Static
  BY DEF SerializeType, Doing, Static, origin, importing
<1>2. /\ WalkIsGood /\ TypeOK /\ ~panicked
      /\ is_evaluated \in BOOLEAN /\ in_function \in BOOLEAN
      /\ Plain(tree, todo[1], is_evaluated)
      /\ Walk(tree, todo, is_evaluated)
  BY <1>1, AtHead
<1>3. /\ TypeOK' /\ IsSeq(extra_errors')
      /\ tree' = tree /\ location_override' = location_override /\ is_evaluated' = is_evaluated
  BY <1>1, FieldsKept DEF SerializeType
<1> DEFINE items == TypeLayout(todo[1].node, todo[1].place)
<1>4. Sound(tree, items, is_evaluated)
  <2>1. TypeAt(tree, todo[1].node, todo[1].place, is_evaluated)
    BY <1>1, <1>2 DEF Plain
  <2> QED
    BY <1>2, <2>1, SoundType
<1>5. bytes' = bytes /\ Replaced(items)
  BY DEF SerializeType
<1> HIDE DEF items
<1>6. WalkIsGood'
  BY <1>1, <1>2, <1>3, <1>4, <1>5, Replacing
<1> QED
  BY <1>3, <1>6 DEF Inv

LEMMA SerializeTypeInListKeeps ==
    ASSUME Inv, SerializeTypeInList
    PROVE  Inv'
<1>1. todo # <<>> /\ todo[1].do = "type in list" /\ Static
  BY DEF SerializeTypeInList, Doing, Static, origin, importing
<1>2. /\ WalkIsGood /\ TypeOK /\ ~panicked
      /\ is_evaluated \in BOOLEAN /\ in_function \in BOOLEAN
      /\ Plain(tree, todo[1], is_evaluated)
      /\ Walk(tree, todo, is_evaluated)
  BY <1>1, AtHead
<1>3. /\ TypeOK' /\ IsSeq(extra_errors')
      /\ tree' = tree /\ location_override' = location_override /\ is_evaluated' = is_evaluated
  BY <1>1, FieldsKept DEF SerializeTypeInList
<1> DEFINE items == TypeInListLayout(todo[1].node, todo[1].place)
<1>4. Sound(tree, items, is_evaluated)
  <2>1. TypeAt(tree, todo[1].node, todo[1].place, is_evaluated)
    BY <1>1, <1>2 DEF Plain
  <2> QED
    BY <1>2, <2>1, SoundTypeInList
<1>5. bytes' = bytes /\ Replaced(items)
  BY DEF SerializeTypeInList
<1> HIDE DEF items
<1>6. WalkIsGood'
  BY <1>1, <1>2, <1>3, <1>4, <1>5, Replacing
<1> QED
  BY <1>3, <1>6 DEF Inv

LEMMA WriteTokenKeeps ==
    ASSUME Inv, WriteToken
    PROVE  Inv'
<1>1. todo # <<>> /\ todo[1].do = "write" /\ Static
  BY DEF WriteToken, Doing, Static, origin, importing
<1>2. /\ WalkIsGood /\ TypeOK /\ ~panicked
      /\ is_evaluated \in BOOLEAN /\ in_function \in BOOLEAN
      /\ Plain(tree, todo[1], is_evaluated)
      /\ Walk(tree, todo, is_evaluated)
  BY <1>1, AtHead
<1>3. /\ TypeOK' /\ IsSeq(extra_errors')
      /\ tree' = tree /\ location_override' = location_override /\ is_evaluated' = is_evaluated
  BY <1>1, FieldsKept DEF WriteToken
<1>4. \/ bytes' = bytes
      \/ \E token : bytes' = Append(bytes, token) /\ token[1] \notin {"location", "evaluated"}
  BY <1>1, <1>2 DEF WriteToken, Written, Plain
<1>5. Replaced(<<>>)
  BY DEF WriteToken
<1>6. WalkIsGood'
  BY <1>1, <1>2, <1>3, <1>4, <1>5, Dropping
<1> QED
  BY <1>3, <1>6 DEF Inv

LEMMA WriteHasSurrogatesKeeps ==
    ASSUME Inv, WriteHasSurrogates
    PROVE  Inv'
<1>1. todo # <<>> /\ todo[1].do = "flag" /\ Static
  BY DEF WriteHasSurrogates, Doing, Static, origin, importing
<1>2. /\ WalkIsGood /\ TypeOK /\ ~panicked
      /\ is_evaluated \in BOOLEAN /\ in_function \in BOOLEAN
      /\ Plain(tree, todo[1], is_evaluated)
      /\ Walk(tree, todo, is_evaluated)
  BY <1>1, AtHead
<1>3. /\ TypeOK' /\ IsSeq(extra_errors')
      /\ tree' = tree /\ location_override' = location_override /\ is_evaluated' = is_evaluated
  BY <1>1, FieldsKept DEF WriteHasSurrogates
<1>4. \/ bytes' = bytes
      \/ \E token : bytes' = Append(bytes, token) /\ token[1] \notin {"location", "evaluated"}
  <2> DEFINE token == <<"surrogates", has_surrogates>>
  <2>1. token[1] = "surrogates"
    OBVIOUS
  <2>2. bytes' = bytes \/ bytes' = Append(bytes, token)
    BY DEF WriteHasSurrogates, Written
  <2> HIDE DEF token
  <2> QED
    BY <2>1, <2>2
<1>5. Replaced(<<>>)
  BY DEF WriteHasSurrogates
<1>6. WalkIsGood'
  BY <1>1, <1>2, <1>3, <1>4, <1>5, Dropping
<1> QED
  BY <1>3, <1>6 DEF Inv

LEMMA WriteIsUnreachableKeeps ==
    ASSUME Inv, WriteIsUnreachable
    PROVE  Inv'
<1>1. todo # <<>> /\ todo[1].do = "unreachable" /\ Static
  BY DEF WriteIsUnreachable, Doing, Static, origin, importing
<1>2. /\ WalkIsGood /\ TypeOK /\ ~panicked
      /\ is_evaluated \in BOOLEAN /\ in_function \in BOOLEAN
      /\ Plain(tree, todo[1], is_evaluated)
      /\ Walk(tree, todo, is_evaluated)
  BY <1>1, AtHead
<1>3. /\ TypeOK' /\ IsSeq(extra_errors')
      /\ tree' = tree /\ location_override' = location_override /\ is_evaluated' = is_evaluated
  BY <1>1, FieldsKept DEF WriteIsUnreachable
<1>4. \/ bytes' = bytes
      \/ \E token : bytes' = Append(bytes, token) /\ token[1] \notin {"location", "evaluated"}
  <2> DEFINE token == <<"bool", current_unreachable>>
  <2>1. token[1] = "bool"
    OBVIOUS
  <2>2. bytes' = bytes \/ bytes' = Append(bytes, token)
    BY DEF WriteIsUnreachable, Written
  <2> HIDE DEF token
  <2> QED
    BY <2>1, <2>2
<1>5. Replaced(<<>>)
  BY DEF WriteIsUnreachable
<1>6. WalkIsGood'
  BY <1>1, <1>2, <1>3, <1>4, <1>5, Dropping
<1> QED
  BY <1>3, <1>6 DEF Inv

LEMMA WriteImportFlagsKeeps ==
    ASSUME Inv, WriteImportFlags
    PROVE  Inv'
<1>1. todo # <<>> /\ todo[1].do = "flags" /\ Static
  BY DEF WriteImportFlags, Doing, Static, origin, importing
<1>2. /\ WalkIsGood /\ TypeOK /\ ~panicked
      /\ is_evaluated \in BOOLEAN /\ in_function \in BOOLEAN
      /\ Plain(tree, todo[1], is_evaluated)
      /\ Walk(tree, todo, is_evaluated)
  BY <1>1, AtHead
<1>3. /\ TypeOK' /\ IsSeq(extra_errors')
      /\ tree' = tree /\ location_override' = location_override /\ is_evaluated' = is_evaluated
  BY <1>1, FieldsKept DEF WriteImportFlags
<1>4. \/ bytes' = bytes
      \/ \E token : bytes' = Append(bytes, token) /\ token[1] \notin {"location", "evaluated"}
  <2> DEFINE token == <<"flags", MakeImportFlags(todo[1].lazy)>>
  <2>1. token[1] = "flags"
    OBVIOUS
  <2>2. bytes' = bytes \/ bytes' = Append(bytes, token)
    BY DEF WriteImportFlags, Written
  <2> HIDE DEF token
  <2> QED
    BY <2>1, <2>2
<1>5. Replaced(<<>>)
  BY DEF WriteImportFlags
<1>6. WalkIsGood'
  BY <1>1, <1>2, <1>3, <1>4, <1>5, Dropping
<1> QED
  BY <1>3, <1>6 DEF Inv

LEMMA ResetHasSurrogatesKeeps ==
    ASSUME Inv, ResetHasSurrogates
    PROVE  Inv'
<1>1. todo # <<>> /\ todo[1].do = "reset" /\ Static
  BY DEF ResetHasSurrogates, Doing, Static, origin, importing
<1>2. /\ WalkIsGood /\ TypeOK /\ ~panicked
      /\ is_evaluated \in BOOLEAN /\ in_function \in BOOLEAN
      /\ Plain(tree, todo[1], is_evaluated)
      /\ Walk(tree, todo, is_evaluated)
  BY <1>1, AtHead
<1>3. /\ extra_errors' = extra_errors /\ is_evaluated' = is_evaluated /\ bytes' = bytes /\ Replaced(<<>>)
      /\ tree' = tree /\ location_override' = location_override
  BY <1>1 DEF ResetHasSurrogates, Static, origin
<1>4. /\ has_surrogates' \in BOOLEAN /\ uses_template_strings' \in BOOLEAN
      /\ panicked' \in BOOLEAN /\ ~panicked'
  BY <1>2 DEF ResetHasSurrogates, TypeOK
<1>5. TypeOK' /\ IsSeq(extra_errors')
  BY <1>1, <1>2, <1>3, <1>4, TypeKept
<1>6. WalkIsGood'
  BY <1>1, <1>2, <1>3, Dropping
<1> QED
  BY <1>5, <1>6 DEF Inv

LEMMA MarkTemplateStringsKeeps ==
    ASSUME Inv, MarkTemplateStrings
    PROVE  Inv'
<1>1. todo # <<>> /\ todo[1].do = "template" /\ Static
  BY DEF MarkTemplateStrings, Doing, Static, origin, importing
<1>2. /\ WalkIsGood /\ TypeOK /\ ~panicked
      /\ is_evaluated \in BOOLEAN /\ in_function \in BOOLEAN
      /\ Plain(tree, todo[1], is_evaluated)
      /\ Walk(tree, todo, is_evaluated)
  BY <1>1, AtHead
<1>3. /\ extra_errors' = extra_errors /\ is_evaluated' = is_evaluated /\ bytes' = bytes /\ Replaced(<<>>)
      /\ tree' = tree /\ location_override' = location_override
  BY <1>1 DEF MarkTemplateStrings, Static, origin
<1>4. /\ has_surrogates' \in BOOLEAN /\ uses_template_strings' \in BOOLEAN
      /\ panicked' \in BOOLEAN /\ ~panicked'
  BY <1>2 DEF MarkTemplateStrings, TypeOK
<1>5. TypeOK' /\ IsSeq(extra_errors')
  BY <1>1, <1>2, <1>3, <1>4, TypeKept
<1>6. WalkIsGood'
  BY <1>1, <1>2, <1>3, Dropping
<1> QED
  BY <1>5, <1>6 DEF Inv

LEMMA CheckSurrogatesKeeps ==
    ASSUME Inv, CheckSurrogates
    PROVE  Inv'
<1>1. todo # <<>> /\ todo[1].do = "check" /\ Static
  BY DEF CheckSurrogates, Doing, Static, origin, importing
<1>2. /\ WalkIsGood /\ TypeOK /\ ~panicked
      /\ is_evaluated \in BOOLEAN /\ in_function \in BOOLEAN
      /\ Plain(tree, todo[1], is_evaluated)
      /\ Walk(tree, todo, is_evaluated)
  BY <1>1, AtHead
<1>3. /\ extra_errors' = extra_errors /\ is_evaluated' = is_evaluated /\ bytes' = bytes
      /\ tree' = tree /\ location_override' = location_override
  BY <1>1 DEF CheckSurrogates, Static, origin
<1>4. /\ has_surrogates' \in BOOLEAN /\ uses_template_strings' \in BOOLEAN /\ panicked' \in BOOLEAN
      /\ IF panicked' THEN todo' = <<>> ELSE Replaced(<<>>)
  BY <1>2 DEF CheckSurrogates, TypeOK
<1>5. TypeOK' /\ IsSeq(extra_errors')
  BY <1>1, <1>2, <1>3, <1>4, TypeKept
<1>6. WalkIsGood'
  <2>1. CASE panicked'
    <3>1. todo' = <<>> /\ Walk(tree, <<>>, is_evaluated)
      BY <1>2, <1>4, <2>1, WalkEmpty
    <3>2. Quiet(<<>>)
      BY EmptyIsSeq DEF Quiet
    <3>3. location_override => ~is_evaluated
      BY <1>2 DEF WalkIsGood
    <3> QED
      BY <1>1, <1>2, <1>3, <3>1, <3>2, <3>3, Onward
  <2>2. CASE ~panicked'
    <3>1. Replaced(<<>>)
      BY <1>4, <2>2
    <3> QED
      BY <1>1, <1>2, <1>3, <3>1, Dropping
  <2> QED
    BY <2>1, <2>2
<1> QED
  BY <1>5, <1>6 DEF Inv

LEMMA ReportErrorKeeps ==
    ASSUME Inv, ReportError
    PROVE  Inv'
<1>1. todo # <<>> /\ todo[1].do = "error" /\ Static
  BY DEF ReportError, Doing, Static, origin, importing
<1>2. /\ WalkIsGood /\ TypeOK /\ ~panicked
      /\ is_evaluated \in BOOLEAN /\ in_function \in BOOLEAN
      /\ Plain(tree, todo[1], is_evaluated)
      /\ Walk(tree, todo, is_evaluated)
  BY <1>1, AtHead
<1>3. /\ is_evaluated' = is_evaluated /\ bytes' = bytes /\ Replaced(<<>>)
      /\ tree' = tree /\ location_override' = location_override
  BY <1>1 DEF ReportError, Static, origin
<1>4. /\ has_surrogates' = has_surrogates /\ uses_template_strings' = uses_template_strings
      /\ panicked' = panicked /\ cache_version' = cache_version /\ current_unreachable' = current_unreachable
      /\ in_function' = in_function
  BY <1>1 DEF ReportError, Static, origin, importing
<1> DEFINE path == todo[1].place.path
<1>5. extra_errors' = Append(extra_errors, path) /\ path \in Seq(Nat)
  BY <1>1, <1>2 DEF ReportError, Plain
<1> HIDE DEF path
<1>6. extra_errors \in Seq(Seq(Nat))
  <2>1. IsSeq(extra_errors) /\ \A i \in DOMAIN extra_errors : extra_errors[i] \in Seq(Nat)
    BY DEF Inv, TypeOK
  <2> HIDE DEF Inv
  <2>2. PICK S : extra_errors \in Seq(S)
    BY <2>1 DEF IsSeq
  <2>3. Len(extra_errors) \in Nat /\ extra_errors \in [1..Len(extra_errors) -> S]
    BY <2>2, SeqDef
  <2>4. extra_errors \in [1..Len(extra_errors) -> Seq(Nat)]
    BY <2>1, <2>3
  <2> QED
    BY <2>3, <2>4, SeqDef
<1>7. extra_errors' \in Seq(Seq(Nat))
  BY <1>5, <1>6
<1>8. IsSeq(extra_errors') /\ \A i \in DOMAIN extra_errors' : extra_errors'[i] \in Seq(Nat)
  BY <1>7 DEF IsSeq
<1>9. TypeOK'
  BY <1>2, <1>3, <1>4, <1>8 DEF TypeOK
<1>10. WalkIsGood'
  BY <1>1, <1>2, <1>3, Dropping
<1> QED
  BY <1>8, <1>9, <1>10 DEF Inv

LEMMA LeaveFunctionKeeps ==
    ASSUME Inv, LeaveFunction
    PROVE  Inv'
<1>1. todo # <<>> /\ todo[1].do = "leave"
  BY DEF LeaveFunction, Doing
<1>2. /\ WalkIsGood /\ TypeOK /\ ~panicked
      /\ is_evaluated \in BOOLEAN /\ in_function \in BOOLEAN
      /\ Plain(tree, todo[1], is_evaluated)
      /\ Walk(tree, todo, is_evaluated)
  BY <1>1, AtHead
<1>3. /\ tree' = tree /\ location_override' = location_override /\ is_evaluated' = is_evaluated /\ bytes' = bytes
      /\ cache_version' = cache_version /\ current_unreachable' = current_unreachable
      /\ has_surrogates' = has_surrogates /\ uses_template_strings' = uses_template_strings
      /\ extra_errors' = extra_errors /\ panicked' = panicked
  BY DEF LeaveFunction, origin, fields
<1>4. in_function' \in BOOLEAN
  BY <1>1, <1>2 DEF LeaveFunction, Plain
<1>5. TypeOK' /\ IsSeq(extra_errors')
  BY <1>2, <1>3, <1>4 DEF TypeOK, Inv
<1>6. Replaced(<<>>)
  BY DEF LeaveFunction
<1>7. WalkIsGood'
  BY <1>1, <1>2, <1>3, <1>6, Dropping
<1> QED
  BY <1>5, <1>7 DEF Inv

LEMMA PushImportKeeps ==
    ASSUME Inv, PushImport
    PROVE  Inv'
<1>1. todo # <<>> /\ todo[1].do = "import"
  BY DEF PushImport, Doing
<1>2. /\ WalkIsGood /\ TypeOK /\ ~panicked
      /\ is_evaluated \in BOOLEAN /\ in_function \in BOOLEAN
      /\ Plain(tree, todo[1], is_evaluated)
      /\ Walk(tree, todo, is_evaluated)
  BY <1>1, AtHead
<1>3. /\ tree' = tree /\ location_override' = location_override /\ is_evaluated' = is_evaluated /\ bytes' = bytes
      /\ cache_version' = cache_version /\ current_unreachable' = current_unreachable
      /\ has_surrogates' = has_surrogates /\ uses_template_strings' = uses_template_strings
      /\ extra_errors' = extra_errors /\ panicked' = panicked
  BY DEF PushImport, origin, fields
<1>4. in_function' \in BOOLEAN
  BY <1>1, <1>2 DEF PushImport, Plain
<1>5. TypeOK' /\ IsSeq(extra_errors')
  BY <1>2, <1>3, <1>4 DEF TypeOK, Inv
<1>6. Replaced(<<>>)
  BY DEF PushImport
<1>7. WalkIsGood'
  BY <1>1, <1>2, <1>3, <1>6, Dropping
<1> QED
  BY <1>5, <1>7 DEF Inv

LEMMA EnterFunctionKeeps ==
    ASSUME Inv, EnterFunction
    PROVE  Inv'
<1>1. todo # <<>> /\ todo[1].do = "function"
  BY DEF EnterFunction, Doing
<1>2. /\ WalkIsGood /\ TypeOK /\ ~panicked
      /\ is_evaluated \in BOOLEAN /\ in_function \in BOOLEAN
      /\ Plain(tree, todo[1], is_evaluated)
      /\ Walk(tree, todo, is_evaluated)
  BY <1>1, AtHead
<1>3. /\ tree' = tree /\ location_override' = location_override /\ is_evaluated' = is_evaluated /\ bytes' = bytes
      /\ cache_version' = cache_version /\ current_unreachable' = current_unreachable
      /\ has_surrogates' = has_surrogates /\ uses_template_strings' = uses_template_strings
      /\ extra_errors' = extra_errors /\ panicked' = panicked
  BY DEF EnterFunction, origin, fields
<1>4. in_function' \in BOOLEAN
  BY <1>1, <1>2 DEF EnterFunction, Plain
<1>5. TypeOK' /\ IsSeq(extra_errors')
  BY <1>2, <1>3, <1>4 DEF TypeOK, Inv
<1> DEFINE leave == <<[do |-> "leave", value |-> in_function]>>
           items == todo[1].items \o leave
<1>6. todo' = items \o Tail(todo)
  BY DEF EnterFunction, Replaced
<1>7. Walk(tree, items \o Tail(todo), is_evaluated)
  BY <1>1, <1>2, WalkFunction
<1>8. Quiet(items)
  <2>1. GoodAt(tree, todo, 1, is_evaluated)
    BY <1>1, <1>2, WalkTail
  <2>2. Simple(tree, todo[1].items, TRUE)
    BY <1>1, <2>1 DEF GoodAt, NestedAt
  <2>3. Quiet(todo[1].items)
    BY <2>2, SimpleIsSound, SoundIsQuiet
  <2>4. Quiet(leave)
    <3> DEFINE item == [do |-> "leave", value |-> in_function]
    <3>1. item.do = "leave"
      OBVIOUS
    <3> HIDE DEF item
    <3>2. IsSeq(<<item>>) /\ Len(<<item>>) = 1 /\ <<item>>[1] = item
      BY OneIsSeq
    <3>3. Quiet(<<item>>)
      BY <3>1, <3>2 DEF Quiet
    <3> QED
      BY <3>3 DEF item
  <2> HIDE DEF leave
  <2> QED
    BY <2>3, <2>4, QuietJoin
<1> HIDE DEF items
<1>9. location_override => ~is_evaluated /\ Quiet(items \o Tail(todo))
  BY <1>1, <1>2, <1>8, QuietTail, QuietJoin DEF WalkIsGood
<1>10. WalkIsGood'
  BY <1>1, <1>2, <1>3, <1>6, <1>7, <1>9, Onward
<1> QED
  BY <1>5, <1>10 DEF Inv

LEMMA EnterUnevaluatedKeeps ==
    ASSUME Inv, EnterUnevaluated
    PROVE  Inv'
<1>1. todo # <<>> /\ todo[1].do = "unevaluated" /\ Static
  BY DEF EnterUnevaluated, Doing, Static, origin, importing
<1>2. /\ WalkIsGood /\ TypeOK /\ ~panicked
      /\ is_evaluated \in BOOLEAN /\ in_function \in BOOLEAN
      /\ Plain(tree, todo[1], is_evaluated)
      /\ Walk(tree, todo, is_evaluated)
  BY <1>1, AtHead
<1>3. /\ extra_errors' = extra_errors /\ is_evaluated' = FALSE /\ bytes' = bytes
      /\ has_surrogates' = has_surrogates /\ uses_template_strings' = uses_template_strings /\ panicked' = panicked
      /\ tree' = tree /\ location_override' = location_override
  BY <1>1 DEF EnterUnevaluated, Static, origin
<1>4. has_surrogates \in BOOLEAN /\ uses_template_strings \in BOOLEAN /\ panicked \in BOOLEAN
  BY <1>2 DEF TypeOK
<1>5. TypeOK' /\ IsSeq(extra_errors')
  BY <1>1, <1>2, <1>3, <1>4, TypeKept
<1> DEFINE items == todo[1].items \o Restore(is_evaluated)
<1>6. todo' = items \o Tail(todo)
  BY DEF EnterUnevaluated, Replaced
<1>7. Walk(tree, items \o Tail(todo), FALSE)
  BY <1>1, <1>2, WalkUnevaluated
<1>8. location_override => Quiet(items)
  <2> SUFFICES ASSUME location_override
               PROVE  Quiet(items)
    OBVIOUS
  <2>1. Quiet(todo[1].items)
    BY <1>1, <1>2, UnevaluatedIsQuiet
  <2>2. ~is_evaluated
    BY <1>2 DEF WalkIsGood
  <2>3. Quiet(Restore(is_evaluated))
    <3> DEFINE item == [do |-> "restore", value |-> is_evaluated]
    <3>1. ~item.value
      BY <2>2
    <3> HIDE DEF item
    <3>2. IsSeq(<<item>>) /\ Len(<<item>>) = 1 /\ <<item>>[1] = item
      BY OneIsSeq
    <3>3. Quiet(<<item>>)
      BY <3>1, <3>2 DEF Quiet
    <3> QED
      BY <3>3 DEF item, Restore
  <2> QED
    BY <2>1, <2>3, QuietJoin
<1> HIDE DEF items
<1>9. location_override => Quiet(items \o Tail(todo))
  BY <1>1, <1>2, <1>8, QuietTail, QuietJoin DEF WalkIsGood
<1>10. WalkIsGood'
  BY <1>1, <1>2, <1>3, <1>6, <1>7, <1>9, Onward
<1> QED
  BY <1>5, <1>10 DEF Inv

LEMMA LeaveUnevaluatedKeeps ==
    ASSUME Inv, LeaveUnevaluated
    PROVE  Inv'
<1>1. todo # <<>> /\ todo[1].do = "restore" /\ Static
  BY DEF LeaveUnevaluated, Doing, Static, origin, importing
<1>2. /\ WalkIsGood /\ TypeOK /\ ~panicked
      /\ is_evaluated \in BOOLEAN /\ in_function \in BOOLEAN
      /\ Plain(tree, todo[1], is_evaluated)
      /\ Walk(tree, todo, is_evaluated)
  BY <1>1, AtHead
<1>3. /\ extra_errors' = extra_errors /\ is_evaluated' = todo[1].value /\ bytes' = bytes /\ Replaced(<<>>)
      /\ has_surrogates' = has_surrogates /\ uses_template_strings' = uses_template_strings /\ panicked' = panicked
      /\ tree' = tree /\ location_override' = location_override
  BY <1>1 DEF LeaveUnevaluated, Static, origin
<1>4. has_surrogates \in BOOLEAN /\ uses_template_strings \in BOOLEAN /\ panicked \in BOOLEAN
      /\ todo[1].value \in BOOLEAN
  BY <1>1, <1>2 DEF TypeOK, Plain
<1>5. TypeOK' /\ IsSeq(extra_errors')
  BY <1>1, <1>2, <1>3, <1>4, TypeKept
<1>6. todo' = Tail(todo)
  BY <1>1, <1>2, <1>3, Dropped
<1>7. Walk(tree, Tail(todo), todo[1].value)
  BY <1>1, <1>2, WalkTail
<1>8. location_override => ~todo[1].value /\ Quiet(Tail(todo))
  <2>1. 1 \in 1..Len(todo)
    BY <1>1, <1>2, WalkTail
  <2>2. location_override => Quiet(todo)
    BY <1>2 DEF WalkIsGood
  <2>3. location_override => ~todo[1].value
    BY <1>1, <2>1, <2>2 DEF Quiet
  <2> QED
    BY <1>1, <2>2, <2>3, QuietTail
<1>9. ASSUME NEW c, EndAfter(tree, todo, 0, c)
      PROVE  EndAfter(tree, Tail(todo), 0, c)
  <2>1. 0 + 1 = 1 /\ 0 + 2 = 2
    OBVIOUS
  <2>2. 2 \in DOMAIN todo /\ IsEnd(tree, todo[2], c)
    BY <1>1, <1>9, <2>1 DEF EndAfter, IsEnd
  <2>3. /\ DOMAIN todo = 1..Len(todo) /\ Len(todo) \in Nat /\ DOMAIN Tail(todo) = 1..(Len(todo) - 1)
        /\ \A k \in 1..(Len(todo) - 1) : Tail(todo)[k] = todo[k + 1]
    BY <1>1, <1>2, WalkTail
  <2>4. 1 \in 1..(Len(todo) - 1) /\ 1 + 1 = 2
    BY <2>2, <2>3
  <2>5. 1 \in DOMAIN Tail(todo) /\ Tail(todo)[1] = todo[2]
    BY <2>3, <2>4
  <2> QED
    BY <2>1, <2>2, <2>5 DEF EndAfter
<1>10. WrittenWell(tree, bytes, location_override)
       /\ (Flagged(bytes) => EndAfter(tree, todo, 0, bytes[Len(bytes)][2]))
  BY <1>2 DEF WalkIsGood
<1>11. WalkIsGood'
  BY <1>3, <1>6, <1>7, <1>8, <1>9, <1>10 DEF WalkIsGood
<1> QED
  BY <1>5, <1>11 DEF Inv

LEMMA WriteLocationKeeps ==
    ASSUME Inv, WriteLocation
    PROVE  Inv'
<1>1. todo # <<>> /\ todo[1].do = "location" /\ Static
  BY DEF WriteLocation, Doing, Static, origin, importing
<1>2. /\ WalkIsGood /\ TypeOK /\ ~panicked
      /\ is_evaluated \in BOOLEAN /\ in_function \in BOOLEAN
      /\ Plain(tree, todo[1], is_evaluated)
      /\ Walk(tree, todo, is_evaluated)
  BY <1>1, AtHead
<1>3. /\ TypeOK' /\ IsSeq(extra_errors')
      /\ tree' = tree /\ location_override' = location_override /\ is_evaluated' = is_evaluated
  BY <1>1, FieldsKept DEF WriteLocation
<1> DEFINE place == todo[1].place
           token == LocationToken(place)
           last == bytes[Len(bytes)]
<1>4. bytes' = Append(bytes, token) /\ Replaced(<<>>)
  BY DEF WriteLocation, Written
<1>5. todo' = Tail(todo)
  BY <1>1, <1>2, <1>4, Dropped
<1>6. Walk(tree, Tail(todo), is_evaluated)
  BY <1>1, <1>2, WalkTail
<1>7. InFile(tree, place)
  BY <1>1, <1>2 DEF Plain
<1>8. /\ location_override => token[1] = "given"
      /\ ~location_override => token[1] = "location" /\ token[2] = place.path
  BY DEF LocationToken
<1> HIDE DEF place, token
<1>9. TokenIsWell(tree, token, location_override)
  BY <1>7, <1>8 DEF TokenIsWell, InFile
<1>10. ASSUME Flagged(bytes)
       PROVE  last[2] <=> IsUnionAt(tree, token)
  <2>1. 0 + 1 = 1
    OBVIOUS
  <2>2. IsEnd(tree, todo[1], last[2])
    BY <1>1, <1>2, <1>10, <2>1 DEF WalkIsGood, EndAfter
  <2>3. AtBinop(tree, place) <=> last[2]
    BY <2>2 DEF IsEnd, place
  <2>4. last[2] \in BOOLEAN /\ (location_override => ~last[2])
    <3>1. WrittenWell(tree, bytes, location_override) /\ last[1] = "evaluated" /\ bytes # <<>>
      BY <1>2, <1>10 DEF WalkIsGood, Flagged
    <3>2. Len(bytes) \in 1..Len(bytes)
      <4>1. PICK S : bytes \in Seq(S)
        BY <3>1 DEF WrittenWell, IsSeq
      <4> QED
        BY <3>1, <4>1
    <3> QED
      BY <3>1, <3>2 DEF WrittenWell
  <2>5. CASE location_override
    BY <1>8, <2>4, <2>5 DEF IsUnionAt
  <2>6. CASE ~location_override
    <3>1. [path |-> token[2]].path = place.path
      BY <1>8, <2>6
    <3>2. AtBinop(tree, [path |-> token[2]]) <=> AtBinop(tree, place)
      BY <3>1 DEF AtBinop
    <3> QED
      BY <1>8, <2>3, <2>4, <2>6, <3>2 DEF IsUnionAt
  <2> QED
    BY <2>5, <2>6
<1>11. WrittenWell(tree, Append(bytes, token), location_override) /\ ~Flagged(Append(bytes, token))
  <2>1. WrittenWell(tree, bytes, location_override)
    BY <1>2 DEF WalkIsGood
  <2>2. token[1] # "evaluated"
    BY <1>8
  <2> HIDE DEF last
  <2>3. Flagged(bytes) => (bytes[Len(bytes)][2] <=> IsUnionAt(tree, token))
    BY <1>10 DEF last
  <2> QED
    BY <1>9, <2>1, <2>2, <2>3, WrittenNext
<1>12. location_override => ~is_evaluated /\ Quiet(Tail(todo))
  BY <1>1, <1>2, QuietTail DEF WalkIsGood
<1>13. WalkIsGood'
  BY <1>3, <1>4, <1>5, <1>6, <1>11, <1>12 DEF WalkIsGood
<1> QED
  BY <1>3, <1>13 DEF Inv

LEMMA WriteIsEvaluatedKeeps ==
    ASSUME Inv, WriteIsEvaluated
    PROVE  Inv'
<1>1. todo # <<>> /\ todo[1].do = "evaluated" /\ Static
  BY DEF WriteIsEvaluated, Doing, Static, origin, importing
<1>2. /\ WalkIsGood /\ TypeOK /\ ~panicked
      /\ is_evaluated \in BOOLEAN /\ in_function \in BOOLEAN
      /\ Plain(tree, todo[1], is_evaluated)
      /\ Walk(tree, todo, is_evaluated)
  BY <1>1, AtHead
<1>3. /\ TypeOK' /\ IsSeq(extra_errors')
      /\ tree' = tree /\ location_override' = location_override /\ is_evaluated' = is_evaluated
  BY <1>1, FieldsKept DEF WriteIsEvaluated
<1> DEFINE token == <<"evaluated", is_evaluated>>
<1>4. bytes' = Append(bytes, token) /\ Replaced(<<>>)
  BY DEF WriteIsEvaluated, Written
<1>5. todo' = Tail(todo)
  BY <1>1, <1>2, <1>4, Dropped
<1>6. /\ Walk(tree, Tail(todo), is_evaluated)
      /\ GoodAt(tree, todo, 1, is_evaluated)
      /\ DOMAIN todo = 1..Len(todo) /\ Len(todo) \in Nat /\ DOMAIN Tail(todo) = 1..(Len(todo) - 1)
      /\ \A k \in 1..(Len(todo) - 1) : Tail(todo)[k] = todo[k + 1]
  BY <1>1, <1>2, WalkTail
<1>7. token[1] = "evaluated"
  OBVIOUS
<1>8. token[2] = is_evaluated
  OBVIOUS
<1> HIDE DEF token
<1>9. location_override => ~is_evaluated /\ Quiet(Tail(todo))
  BY <1>1, <1>2, QuietTail DEF WalkIsGood
<1>10. TokenIsWell(tree, token, location_override)
  BY <1>2, <1>7, <1>8, <1>9 DEF TokenIsWell
<1>11. WrittenWell(tree, bytes, location_override) /\ ~Flagged(bytes)
  BY <1>1, <1>2, AfterFlag DEF WalkIsGood
<1>12. /\ WrittenWell(tree, Append(bytes, token), location_override)
       /\ Append(bytes, token)[Len(Append(bytes, token))] = token
  BY <1>10, <1>11, WrittenNext
<1>13. EndAfter(tree, Tail(todo), 0, is_evaluated)
  <2>1. 0 + 1 = 1 /\ 0 + 2 = 2 /\ 1 + 1 = 2 /\ 1 + 2 = 3 /\ 2 + 1 = 3
    OBVIOUS
  <2>2. EndAfter(tree, todo, 1, is_evaluated)
    BY <1>1, <1>6 DEF GoodAt, PlainAt
  <2>3. ASSUME 2 \in DOMAIN todo, IsEnd(tree, todo[2], is_evaluated)
        PROVE  EndAfter(tree, Tail(todo), 0, is_evaluated)
    <3>1. 1 \in 1..(Len(todo) - 1)
      BY <1>6, <2>3
    <3>2. 1 \in DOMAIN Tail(todo) /\ Tail(todo)[1] = todo[2]
      BY <1>6, <2>1, <3>1
    <3> QED
      BY <2>1, <2>3, <3>2 DEF EndAfter
  <2>4. ASSUME 3 \in DOMAIN todo, todo[2].do = "restore", IsEnd(tree, todo[3], is_evaluated)
        PROVE  EndAfter(tree, Tail(todo), 0, is_evaluated)
    <3>1. 1 \in 1..(Len(todo) - 1) /\ 2 \in 1..(Len(todo) - 1)
      BY <1>6, <2>4
    <3>2. 2 \in DOMAIN Tail(todo) /\ Tail(todo)[1] = todo[2] /\ Tail(todo)[2] = todo[3]
      BY <1>6, <2>1, <3>1
    <3> QED
      BY <2>1, <2>4, <3>2 DEF EndAfter
  <2> QED
    BY <2>1, <2>2, <2>3, <2>4 DEF EndAfter
<1>14. WalkIsGood'
  BY <1>3, <1>4, <1>5, <1>6, <1>8, <1>9, <1>12, <1>13 DEF WalkIsGood
<1> QED
  BY <1>3, <1>14 DEF Inv

LEMMA SerializeImportsKeeps ==
    ASSUME Inv, SerializeImports
    PROVE  Inv'
<1>1. /\ tree' = tree /\ cache_version' = cache_version /\ current_unreachable' = current_unreachable
      /\ location_override' = location_override /\ todo' = todo /\ bytes' = bytes
      /\ is_evaluated' = is_evaluated /\ has_surrogates' = has_surrogates
      /\ uses_template_strings' = uses_template_strings /\ extra_errors' = extra_errors
      /\ panicked' = panicked /\ in_function' = in_function
  BY DEF SerializeImports, origin, fields
<1> QED
  BY <1>1 DEF Inv, TypeOK, WalkIsGood

LEMMA StutterKeeps ==
    ASSUME Inv, UNCHANGED vars
    PROVE  Inv'
<1>1. /\ tree' = tree /\ cache_version' = cache_version /\ current_unreachable' = current_unreachable
      /\ location_override' = location_override /\ todo' = todo /\ bytes' = bytes
      /\ is_evaluated' = is_evaluated /\ has_surrogates' = has_surrogates
      /\ uses_template_strings' = uses_template_strings /\ extra_errors' = extra_errors
      /\ panicked' = panicked /\ in_function' = in_function
  BY DEF vars, origin, fields, importing
<1> QED
  BY <1>1 DEF Inv, TypeOK, WalkIsGood

LEMMA StepKeeps ==
    ASSUME Inv, [Next]_vars
    PROVE  Inv'
<1>1. ASSUME Next
      PROVE  Inv'
  <2>1. CASE WriteToken
    BY <2>1, WriteTokenKeeps
  <2>2. CASE SerializeNode
    BY <2>2, SerializeNodeKeeps
  <2>3. CASE SerializeSpec
    BY <2>3, SerializeSpecKeeps
  <2>4. CASE SerializeType
    BY <2>4, SerializeTypeKeeps
  <2>5. CASE SerializeTypeInList
    BY <2>5, SerializeTypeInListKeeps
  <2>6. CASE WriteLocation
    BY <2>6, WriteLocationKeeps
  <2>7. CASE EnterUnevaluated
    BY <2>7, EnterUnevaluatedKeeps
  <2>8. CASE LeaveUnevaluated
    BY <2>8, LeaveUnevaluatedKeeps
  <2>9. CASE WriteIsEvaluated
    BY <2>9, WriteIsEvaluatedKeeps
  <2>10. CASE ResetHasSurrogates
    BY <2>10, ResetHasSurrogatesKeeps
  <2>11. CASE CheckSurrogates
    BY <2>11, CheckSurrogatesKeeps
  <2>12. CASE WriteHasSurrogates
    BY <2>12, WriteHasSurrogatesKeeps
  <2>13. CASE MarkTemplateStrings
    BY <2>13, MarkTemplateStringsKeeps
  <2>14. CASE WriteIsUnreachable
    BY <2>14, WriteIsUnreachableKeeps
  <2>15. CASE ReportError
    BY <2>15, ReportErrorKeeps
  <2>16. CASE EnterFunction
    BY <2>16, EnterFunctionKeeps
  <2>17. CASE LeaveFunction
    BY <2>17, LeaveFunctionKeeps
  <2>18. CASE WriteImportFlags
    BY <2>18, WriteImportFlagsKeeps
  <2>19. CASE PushImport
    BY <2>19, PushImportKeeps
  <2>20. CASE SerializeImports
    BY <2>20, SerializeImportsKeeps
  <2> QED
    BY <1>1, <2>1, <2>2, <2>3, <2>4, <2>5, <2>6, <2>7, <2>8, <2>9, <2>10, <2>11, <2>12, <2>13, <2>14, <2>15, <2>16, <2>17, <2>18, <2>19, <2>20 DEF Next
<1> QED
  BY <1>1, StutterKeeps

\* It starts with the tree in an annotation, or the string given.
LEMMA Starts ==
    ASSUME Init
    PROVE  Inv
<1>1. /\ cache_version \in CacheVersions /\ current_unreachable \in BOOLEAN
      /\ bytes = <<>> /\ extra_errors = <<>>
      /\ has_surrogates = FALSE /\ uses_template_strings = FALSE /\ panicked = FALSE
      /\ in_function = FALSE
  BY DEF Init
<1>2. WrittenWell(tree, bytes, location_override) /\ ~Flagged(bytes)
  BY <1>1, WrittenNothing
<1>3. IsSeq(extra_errors) /\ DOMAIN extra_errors = {}
  BY <1>1, EmptyIsSeq
<1>4. CASE /\ tree \in Trees
           /\ todo = Serialize(tree, Root)
           /\ is_evaluated = TRUE /\ location_override = FALSE
  <2>1. tree \in Nodes /\ tree.kind \in Serialized
    BY <1>4, TreesAssumption DEF Serialized
  <2>2. Anchored(tree, tree, Root)
    BY <2>1, RootIsAnchored
  <2>3. Simple(tree, Serialize(tree, Root), TRUE)
    BY <2>1, <2>2, SimpleSerialize
  <2>4. Walk(tree, todo, is_evaluated)
    BY <1>4, <2>3, SimpleIsSound, WalkOf
  <2>5. TypeOK
    BY <1>1, <1>3, <1>4 DEF TypeOK
  <2> QED
    BY <1>2, <1>3, <1>4, <2>4, <2>5 DEF Inv, WalkIsGood
<1>5. CASE /\ tree \in TypeStrings
           /\ todo = StringType(tree, Root) \o Location(Root) \o End
           /\ is_evaluated = FALSE /\ location_override = TRUE
  <2>1. tree \in Nodes /\ tree.kind = "str"
    BY <1>5, TreesAssumption
  <2>2. InFile(tree, Root) /\ ~AtBinop(tree, Root)
    BY <2>1, RootIsAnchored, AnchoredInFile
  <2> DEFINE items == StringType(tree, Root) \o Location(Root)
  <2>3. Simple(tree, items, FALSE)
    BY <2>1, <2>2, SimpleStringType
  <2>4. Simple(tree, End, FALSE)
    BY SimpleMarks
  <2>5. todo = items \o End
    BY <1>5
  <2> HIDE DEF items
  <2>6. Sound(tree, items \o End, FALSE)
    BY <2>3, <2>4, SimpleJoin, SimpleIsSound
  <2>7. Walk(tree, items \o End, FALSE)
    BY <2>6, WalkOf
  <2>8. Quiet(items \o End)
    BY <2>6, SoundIsQuiet
  <2>9. TypeOK
    BY <1>1, <1>3, <1>5 DEF TypeOK
  <2> QED
    BY <1>2, <1>3, <1>5, <2>5, <2>7, <2>8, <2>9 DEF Inv, WalkIsGood
<1> QED
  BY <1>4, <1>5 DEF Init

LEMMA Invariance == Spec => []Inv
<1>1. Init => Inv
  BY Starts
<1>2. Inv /\ [Next]_vars => Inv'
  BY StepKeeps
<1> QED
  BY <1>1, <1>2, PTL DEF Spec

\* Whatever is serialized, the flags of the serializer stay flags, each error has
\* the path to its node, and a panic in parse_int ends the walk.
THEOREM TypeCorrect == Spec => []TypeOK
<1>1. Inv => TypeOK
  BY DEF Inv
<1> QED
  BY <1>1, Invariance, PTL

\* For every tree, string and comment, however deep the strings in it: each
\* location that is written is that of a node of the file, never one of the text
\* that a string or a comment was parsed from.
THEOREM WrittenLocationsAreInFile == Spec => []LocationsInFile
<1>1. Inv => LocationsInFile
  BY WrittenIsExact DEF Inv, WalkIsGood
<1> QED
  BY <1>1, Invariance, PTL

\* For every tree: a union says that it is evaluated exactly if it stands in the
\* file itself, so is_evaluated is put back after every string and comment.
THEOREM EvaluatedIsExact == Spec => []EvaluatedExact
<1>1. Inv => EvaluatedExact
  BY WrittenIsExact DEF Inv, WalkIsGood
<1> QED
  BY <1>1, Invariance, PTL
=============================================================================
