------------------------- MODULE SystemChecksProofs -------------------------
(***************************************************************************)
(* Version checks are answered as Python answers them, for every target    *)
(* version, literal and length of tuple, and negated checks get the        *)
(* opposite answer.                                                        *)
(***************************************************************************)
EXTENDS SystemChecks, SequenceTheorems, TLAPS

FromVersion  == ConsiderSysVersionInfo(expr)
FromPlatform == ConsiderSysPlatform(expr)

\* Where an answer comes from: the version, or else the platform.
Inv ==
    /\ ConditionOK
    /\ version \in Versions
    /\ stage \in {"version", "platform", "done"}
    /\ stage = "platform" => FromVersion = "Unknown"
    /\ stage = "done" =>
         truth = IF FromVersion # "Unknown" THEN FromVersion ELSE FromPlatform

LEMMA InvHolds == Spec => []Inv
<1>1. Init => Inv
  BY DEF Init, Inv
<1>2. Inv /\ [Next]_vars => Inv'
  <2> SUFFICES ASSUME Inv, [Next]_vars PROVE Inv'
    OBVIOUS
  <2>1. UNCHANGED <<expr, version, platform>>
    BY DEF Next, CheckVersion, CheckPlatform, Done, vars
  <2>2. ConditionOK' /\ (version \in Versions)'
    BY <2>1 DEF Inv, ConditionOK
  <2>3. FromVersion' = FromVersion /\ FromPlatform' = FromPlatform
    BY <2>1 DEF FromVersion, FromPlatform, ConsiderSysVersionInfo, CompareVersion,
                ConsiderSysPlatform
  <2>4. CASE CheckVersion
    <3>1. truth' = FromVersion
      BY <2>4 DEF CheckVersion, FromVersion
    <3>2. stage' = IF truth' = "Unknown" THEN "platform" ELSE "done"
      BY <2>4 DEF CheckVersion
    <3> QED BY <2>2, <2>3, <3>1, <3>2 DEF Inv
  <2>5. CASE CheckPlatform
    <3>1. truth' = FromPlatform /\ stage = "platform" /\ stage' = "done"
      BY <2>5 DEF CheckPlatform, FromPlatform
    <3> QED BY <2>2, <2>3, <3>1 DEF Inv
  <2>6. CASE Done \/ UNCHANGED vars
    BY <2>2, <2>3, <2>6 DEF Inv, Done, vars
  <2> QED BY <2>4, <2>5, <2>6 DEF Next
<1> QED
  BY <1>1, <1>2, PTL DEF Spec
-----------------------------------------------------------------------------
(* Tuples of versions. *)

\* What is written after the last component of a tuple that is no shorter than
\* the one it is compared with tells the two apart only where one goes on.
LEMMA LessOfLonger ==
    ASSUME NEW s \in Seq(Nat), NEW t \in Seq(Nat), NEW m \in Nat, Len(t) <= Len(s)
    PROVE  /\ Less(Append(s, m), t) <=> Less(s, t)
           /\ t # s => (Less(t, Append(s, m)) <=> Less(t, s))
<1> DEFINE sm == Append(s, m)
<1>1. /\ Len(s) \in Nat /\ Len(t) \in Nat /\ Len(t) <= Len(s) /\ Len(sm) = Len(s) + 1
      /\ \A i \in 1..Len(s) : sm[i] = s[i]
  OBVIOUS
<1> HIDE DEF sm
<1>2. Less(sm, t) <=> Less(s, t)
  <2>1. ASSUME NEW i \in 1..Len(t)
        PROVE  /\ i <= Len(s) /\ i <= Len(sm) /\ sm[i] = s[i]
               /\ \A j \in 1..(i - 1) : sm[j] = s[j]
    <3>1. i <= Len(s) /\ i <= Len(sm) /\ i \in 1..Len(s)
      BY <1>1
    <3>2. \A j \in 1..(i - 1) : j \in 1..Len(s)
      BY <1>1, <3>1
    <3> QED BY <1>1, <3>1, <3>2
  <2>2. \A i \in 1..Len(t) : i <= Len(s) + 1 /\ i <= Len(sm) + 1
    BY <1>1, <2>1
  <2>3. \A i \in 1..Len(t) :
           (\A j \in 1..(i - 1) : sm[j] = t[j]) <=> \A j \in 1..(i - 1) : s[j] = t[j]
    BY <2>1
  <2>4. \A i \in 1..Len(t) : (i <= Len(sm) => sm[i] < t[i]) <=> (i <= Len(s) => s[i] < t[i])
    BY <2>1
  <2> QED BY <2>2, <2>3, <2>4 DEF Less
<1>3. ASSUME t # s PROVE Less(t, sm) <=> Less(t, s)
  <2>1. ASSUME Less(t, s) PROVE Less(t, sm)
    BY <1>1, <2>1 DEF Less
  <2>2. ASSUME Less(t, sm) PROVE Less(t, s)
    <3>1. PICK i \in 1..Len(sm) : /\ i <= Len(t) + 1
                                  /\ \A j \in 1..(i - 1) : t[j] = sm[j]
                                  /\ i <= Len(t) => t[i] < sm[i]
      BY <2>2 DEF Less
    <3>2. CASE i <= Len(s)
      <4>1. sm[i] = s[i] /\ \A j \in 1..(i - 1) : sm[j] = s[j]
        BY <3>2, <1>1
      <4> QED BY <3>1, <3>2, <4>1 DEF Less
    <3>3. CASE i = Len(s) + 1
      <4>1. Len(t) = Len(s) /\ \A j \in 1..Len(s) : t[j] = s[j]
        BY <3>1, <3>3, <1>1
      <4>2. t = s
        BY <4>1, SMTT(60)
      <4> QED BY <4>2, <1>3
    <3> QED BY <3>1, <3>2, <3>3, <1>1
  <2> QED BY <2>1, <2>2
<1> QED
  BY <1>2, <1>3 DEF sm

\* Every operator but those that AtTheTarget names says the same of a tuple and
\* of what goes on after it.
LEMMA HoldsOfLonger ==
    ASSUME NEW s \in Seq(Nat), NEW t \in Seq(Nat), NEW m \in Nat, NEW op \in Orderings,
           Len(s) = Len(t) \/ Len(s) > Len(t),
           Len(s) = Len(t) \/ op \notin {"==", "!="},
           t # s \/ op \in {"<", ">="}
    PROVE  Holds(Append(s, m), op, t) <=> Holds(s, op, t)
<1>1. /\ Less(Append(s, m), t) <=> Less(s, t)
      /\ t # s => (Less(t, Append(s, m)) <=> Less(t, s))
  BY LessOfLonger
<1>2. CASE op \in {"==", "!="}
  <2>1. Append(s, m) # t
    BY <1>2
  <2> QED BY <1>2, <2>1 DEF Holds
<1>3. CASE op \in {"<", ">=", ">", "<="}
  BY <1>1, <1>3 DEF Holds
<1> QED
  BY <1>2, <1>3 DEF Orderings

\* Those operators say the opposite of a tuple itself and of what goes on after it.
LEMMA HoldsOfNext ==
    ASSUME NEW s \in Seq(Nat), NEW m \in Nat, NEW op \in {"==", "!=", "<=", ">"}
    PROVE  Holds(Append(s, m), op, s) <=> ~Holds(s, op, s)
<1> DEFINE sm == Append(s, m)
<1>1. /\ Len(s) \in Nat /\ Len(sm) = Len(s) + 1
      /\ \A i \in 1..Len(s) : sm[i] = s[i]
  OBVIOUS
<1>2. sm # s
  BY <1>1
<1> HIDE DEF sm
<1>3. Less(s, sm)
  <2>1. Len(s) + 1 \in 1..Len(sm) /\ Len(s) + 1 <= Len(s) + 1 /\ ~(Len(s) + 1 <= Len(s))
    BY <1>1
  <2>2. \A j \in 1..((Len(s) + 1) - 1) : s[j] = sm[j]
    BY <1>1
  <2> QED BY <2>1, <2>2 DEF Less
<1>4. ~Less(s, s)
  <2>1. \A i \in 1..Len(s) : i <= Len(s) /\ s[i] \in Nat /\ ~(s[i] < s[i])
    BY <1>1
  <2> QED BY <2>1 DEF Less
<1> QED
  BY <1>2, <1>3, <1>4 DEF Holds, sm

\* A comparison may be read from the other side (reverse_cmp_op).
LEMMA HoldsReversed ==
    ASSUME NEW s, NEW t, NEW op \in Orderings
    PROVE  /\ Holds(t, ReverseCmpOp(op), s) <=> Holds(s, op, t)
           /\ ReverseCmpOp(op) \in Orderings
BY DEF Holds, ReverseCmpOp, Orderings

LEMMA AppendFacts ==
    ASSUME NEW s \in Seq(Nat), NEW m \in Nat
    PROVE  /\ Append(s, m) \in Seq(Nat) /\ Len(Append(s, m)) = Len(s) + 1
           /\ \A j \in 1..Len(s) : Append(s, m)[j] = s[j]
           /\ Append(s, m)[Len(s) + 1] = m
BY AppendProperties

LEMMA LastIndex ==
    ASSUME NEW n \in Nat, NEW j \in 1..(n + 1)
    PROVE  j \in 1..n \/ j = n + 1
OBVIOUS

\* A part of a sequence that goes on after its end.
LEMMA PartOfLonger ==
    ASSUME NEW s \in Seq(Nat), NEW m \in Nat, NEW i \in 1..Len(s)
    PROVE  /\ \A k \in i..Len(s) : SubSeq(Append(s, m), i, k) = SubSeq(s, i, k)
           /\ SubSeq(Append(s, m), i, Len(s) + 1) = Append(SubSeq(s, i, Len(s)), m)
           /\ \A k \in i..Len(s) : SubSeq(s, i, k) \in Seq(Nat)
<1> DEFINE sm == Append(s, m)
<1>1. /\ Len(s) \in Nat /\ Len(sm) = Len(s) + 1 /\ sm \in Seq(Nat)
      /\ \A j \in 1..Len(s) : sm[j] = s[j] /\ s[j] \in Nat
      /\ sm[Len(s) + 1] = m
  BY AppendProperties, LenProperties, ElementOfSeq
<1> HIDE DEF sm
<1>2. ASSUME NEW k \in i..Len(s)
      PROVE  /\ SubSeq(s, i, k) \in Seq(Nat) /\ Len(SubSeq(s, i, k)) = k - i + 1
             /\ \A j \in 1..(k - i + 1) : SubSeq(s, i, k)[j] = s[i + j - 1]
  <2>1. i \in Int /\ k \in Int /\ i <= k /\ \A j \in i..k : s[j] \in Nat
    BY <1>1
  <2> QED BY <2>1, SubSeqProperties
<1>3. ASSUME NEW k \in i..(Len(s) + 1)
      PROVE  /\ SubSeq(sm, i, k) \in Seq(Nat) /\ Len(SubSeq(sm, i, k)) = k - i + 1
             /\ \A j \in 1..(k - i + 1) : SubSeq(sm, i, k)[j] = sm[i + j - 1]
  <2>1. i \in Int /\ k \in Int /\ i <= k /\ \A j \in i..k : sm[j] \in Nat
    <3>1. ASSUME NEW j \in i..k PROVE sm[j] \in Nat
      <4>1. CASE j <= Len(s)
        <5>1. j \in 1..Len(s)
          BY <1>1, <4>1
        <5> QED BY <1>1, <5>1
      <4>2. CASE j > Len(s)
        <5>1. j = Len(s) + 1
          BY <1>1, <4>2
        <5> QED BY <1>1, <5>1
      <4> QED BY <1>1, <4>1, <4>2
    <3> QED BY <1>1, <3>1
  <2> QED BY <2>1, SubSeqProperties
<1>4. ASSUME NEW k \in i..Len(s) PROVE SubSeq(sm, i, k) = SubSeq(s, i, k)
  <2>1. k \in i..(Len(s) + 1) /\ \A j \in 1..(k - i + 1) : i + j - 1 \in 1..Len(s)
    BY <1>1
  <2> DEFINE short == SubSeq(s, i, k)
             long == SubSeq(sm, i, k)
  <2>2. /\ short \in Seq(Nat) /\ Len(short) = k - i + 1
        /\ \A j \in 1..(k - i + 1) : short[j] = s[i + j - 1]
    BY <1>2
  <2>3. /\ long \in Seq(Nat) /\ Len(long) = k - i + 1
        /\ \A j \in 1..(k - i + 1) : long[j] = sm[i + j - 1]
    BY <1>3, <2>1
  <2> HIDE DEF short, long
  <2>4. Len(short) = Len(long) /\ \A j \in 1..Len(short) : long[j] = short[j]
    BY <1>1, <2>1, <2>2, <2>3
  <2>5. long = short
    BY <2>2, <2>3, <2>4, SeqEqual
  <2> QED BY <2>5 DEF short, long
<1>5. SubSeq(sm, i, Len(s) + 1) = Append(SubSeq(s, i, Len(s)), m)
  <2> DEFINE part == SubSeq(s, i, Len(s))
             whole == SubSeq(sm, i, Len(s) + 1)
             n == Len(s) - i + 1
  <2>0. n \in Nat /\ i + n = Len(s) + 1
    BY <1>1
  <2>1. part \in Seq(Nat) /\ Len(part) = n /\ \A j \in 1..n : part[j] = s[i + j - 1]
    BY <1>1, <1>2
  <2>2. whole \in Seq(Nat) /\ Len(whole) = n + 1 /\ \A j \in 1..(n + 1) : whole[j] = sm[i + j - 1]
    BY <1>1, <1>3
  <2> HIDE DEF part, whole, n
  <2>3. /\ Append(part, m) \in Seq(Nat) /\ Len(Append(part, m)) = n + 1
        /\ \A j \in 1..n : Append(part, m)[j] = part[j]
        /\ Append(part, m)[n + 1] = m
    BY <2>1, AppendFacts
  <2>4. ASSUME NEW j \in 1..(n + 1) PROVE whole[j] = Append(part, m)[j]
    <3>1. CASE j \in 1..n
      <4>1. i + j - 1 \in 1..Len(s)
        BY <3>1, <1>1, <2>0
      <4> QED BY <1>1, <2>1, <2>2, <2>3, <3>1, <4>1
    <3>2. CASE j = n + 1
      <4>1. i + j - 1 = Len(s) + 1
        BY <3>2, <1>1, <2>0
      <4> QED BY <1>1, <2>2, <2>3, <3>2, <4>1
    <3>3. j \in 1..n \/ j = n + 1
      BY <2>0, LastIndex
    <3> QED BY <3>1, <3>2, <3>3
  <2>5. whole = Append(part, m)
    BY <2>2, <2>3, <2>4, SeqEqual
  <2> QED BY <2>5 DEF whole, part
<1> QED
  BY <1>2, <1>4, <1>5 DEF sm
-----------------------------------------------------------------------------
(* The comparisons of an access with a number. *)

OpenEnded(a) == a.kind = "whole" \/ (a.kind = "slice" /\ a.upper = Absent)

\* What is compared: an index with an integer, or a part of the version with a
\* tuple that is no longer.
LEMMA Compared ==
    ASSUME NEW a, NEW n, NEW op, CompareVersion(a, op, n) # "Unknown"
    PROVE  /\ a.kind = "index" => n.kind = "int" /\ a.at \in 0..1
           /\ a.kind # "index" =>
                 /\ n.kind = "tuple" /\ Lower(a) >= 0 /\ Upper(a) <= 2 /\ Lower(a) < Upper(a)
                 /\ Len(Slice(a)) = Len(n.value) \/ Len(Slice(a)) > Len(n.value)
                 /\ Len(Slice(a)) = Len(n.value) \/ op \notin {"==", "!="}
<1>1. a.kind = "index" => n.kind = "int" /\ a.at \in 0..1
  BY DEF CompareVersion
<1>2. a.kind # "index" =>
        n.kind = "tuple" /\ Lower(a) >= 0 /\ Upper(a) <= 2 /\ Lower(a) < Upper(a)
  BY DEF CompareVersion
<1>3. a.kind # "index" => Len(Slice(a)) = Len(n.value) \/ Len(Slice(a)) > Len(n.value)
  BY DEF CompareVersion
<1>4. a.kind # "index" => Len(Slice(a)) = Len(n.value) \/ op \notin {"==", "!="}
  BY DEF CompareVersion
<1> QED
  BY <1>1, <1>2, <1>3, <1>4

\* The bounds of a part are integers, whether they are given or not.
LEMMA Bounds ==
    ASSUME NEW a \in Accesses, a.kind # "index"
    PROVE  /\ Lower(a) \in Int /\ Upper(a) \in Int
           /\ a.kind \in {"whole", "slice"}
<1>1. Literals \subseteq Int
  BY SystemAssumption DEF SystemAssumption
<1>2. CASE a \in [kind : {"whole"}]
  <2>1. a.kind = "whole"
    BY <1>2
  <2> QED BY <2>1 DEF Lower, Upper
<1>3. CASE a \in [kind : {"index"}, at : Literals]
  <2>1. a.kind = "index"
    BY <1>3
  <2> QED BY <2>1
<1>4. CASE a \in [kind : {"slice"}, lower : Literals \cup {Absent},
                  upper : Literals \cup {Absent}, step : {Absent, 1, 2}]
  <2>1. /\ a.kind = "slice"
        /\ a.lower \in Int \/ a.lower = Absent
        /\ a.upper \in Int \/ a.upper = Absent
    BY <1>1, <1>4
  <2>2. Lower(a) \in Int
    BY <2>1 DEF Lower
  <2>3. Upper(a) \in Int
    BY <2>1 DEF Upper
  <2> QED BY <2>1, <2>2, <2>3
<1> QED
  BY <1>2, <1>3, <1>4 DEF Accesses

\* The target has two numbers.
LEMMA TargetIs ==
    ASSUME version \in Versions
    PROVE  version \in Seq(Nat) /\ Len(version) = 2
<1>1. MaxI32 \in Nat /\ version \in (0..MaxI32) \X (0..MaxI32)
  BY SystemAssumption DEF SystemAssumption
<1>2. PICK x \in Nat, y \in Nat : version = <<x, y>>
  <2>1. version = <<version[1], version[2]>> /\ version[1] \in Nat /\ version[2] \in Nat
    BY <1>1
  <2> QED BY <2>1
<1> QED BY <1>2

\* What a part of the version is compared with.
LEMMA TupleIs ==
    ASSUME NEW n \in Numbers, n.kind = "tuple"
    PROVE  n.value \in Seq(Nat)
<1>1. n.value \in Tuples
  BY DEF Numbers
<1>2. Literals \subseteq Nat /\ MaxTuple \in Nat
  BY SystemAssumption DEF SystemAssumption
<1>3. CASE n.value = << >>
  BY <1>3
<1>4. CASE n.value # << >>
  <2>0. n.value \in UNION {[1..k -> Literals] : k \in 1..MaxTuple}
    BY <1>1, <1>4 DEF Tuples
  <2>1. PICK k \in 1..MaxTuple : n.value \in [1..k -> Literals]
    BY <2>0
  <2>2. k \in Nat
    BY <1>2
  <2>3. n.value \in [1..k -> Nat]
    BY <1>2, <2>1
  <2> QED BY <2>2, <2>3
<1> QED BY <1>3, <1>4

\* A part that goes on to the end has the micro version behind it in Python.
LEMMA OpenPart ==
    ASSUME NEW a \in Accesses, NEW n \in Numbers, NEW op, NEW m \in Nat,
           version \in Versions, OpenEnded(a),
           CompareVersion(a, op, n) # "Unknown"
    PROVE  /\ Slice(a) \in Seq(Nat) /\ Slice(a) = SubSeq(version, Lower(a) + 1, 2)
           /\ PythonValue(a, Append(version, m)) = Append(Slice(a), m)
<1> DEFINE actual == Append(version, m)
           slice == Slice(a)
<1>1. version \in Seq(Nat) /\ Len(version) = 2
  BY TargetIs
<1>2. actual \in Seq(Nat) /\ Len(actual) = 3
  <2> HIDE DEF actual
  <2>1. actual \in Seq(Nat) /\ Len(actual) = Len(version) + 1
    BY <1>1, AppendFacts DEF actual
  <2> QED BY <1>1, <2>1
<1>3. a.kind # "index"
  BY DEF OpenEnded
<1>4. Lower(a) \in Int /\ Upper(a) \in Int
  BY <1>3, Bounds
<1>5. Upper(a) = 2 /\ Lower(a) \in 0..1
  <2>1. Lower(a) >= 0 /\ Upper(a) <= 2 /\ Lower(a) < Upper(a)
    BY <1>3, Compared
  <2> QED BY <1>4, <2>1 DEF OpenEnded, Upper
<1>6. PythonValue(a, actual) = SubSeq(actual, Lower(a) + 1, 3)
  <2>1. CASE a.kind = "whole"
    BY <2>1, <1>2, SubSeqFull DEF PythonValue, Lower
  <2>2. CASE a.kind = "slice" /\ a.upper = Absent
    BY <2>2, <1>2 DEF PythonValue
  <2> QED BY <2>1, <2>2 DEF OpenEnded
<1>7. Lower(a) + 1 \in 1..2 /\ slice = SubSeq(version, Lower(a) + 1, 2)
  BY <1>5 DEF Slice
<1>8. Lower(a) + 1 \in 1..Len(version) /\ 2 \in (Lower(a) + 1)..Len(version)
  BY <1>1, <1>7
<1>9. /\ SubSeq(actual, Lower(a) + 1, Len(version) + 1)
            = Append(SubSeq(version, Lower(a) + 1, Len(version)), m)
      /\ SubSeq(version, Lower(a) + 1, 2) \in Seq(Nat)
  BY <1>1, <1>8, PartOfLonger DEF actual
<1>10. SubSeq(actual, Lower(a) + 1, 3) = Append(SubSeq(version, Lower(a) + 1, 2), m)
  <2>1. Len(version) = 2 /\ Len(version) + 1 = 3
    BY <1>1
  <2> QED BY <1>9, <2>1
<1> HIDE DEF slice
<1>11. slice \in Seq(Nat) /\ PythonValue(a, actual) = Append(slice, m)
  BY <1>6, <1>7, <1>9, <1>10
<1> QED BY <1>7, <1>11 DEF slice, actual

\* A comparison that is answered is answered as for every micro version, but
\* for the operators that tell the target from what goes on after it
\* (consider_sys_version_info).
LEMMA CompareVersionExact ==
    ASSUME NEW a \in Accesses, NEW n \in Numbers, NEW op \in Orderings, NEW m \in Nat,
           version \in Versions,
           CompareVersion(a, op, n) # "Unknown"
    PROVE  CompareVersion(a, op, n) =
              LET python == Always(Holds(PythonValue(a, Append(version, m)), op,
                                         PythonValue(n, Append(version, m))))
              IN IF /\ OpenEnded(a)
                    /\ n.value = SubSeq(version, Lower(a) + 1, 2)
                    /\ op \in {"==", "!=", "<=", ">"}
                 THEN Invert(python) ELSE python
<1> DEFINE actual == Append(version, m)
<1>1. version \in Seq(Nat) /\ Len(version) = 2
  BY TargetIs
<1>2. /\ \A i \in 1..2 : actual[i] = version[i]
      /\ actual \in Seq(Nat) /\ Len(actual) = 3
  <2> HIDE DEF actual
  <2>1. /\ actual \in Seq(Nat) /\ Len(actual) = Len(version) + 1
        /\ \A i \in 1..Len(version) : actual[i] = version[i]
    BY <1>1, AppendFacts DEF actual
  <2> QED BY <1>1, <2>1
<1>3. CASE a.kind = "index"
  <2>1. n.kind = "int" /\ a.at \in 0..1 /\ ~OpenEnded(a)
    BY <1>3, Compared DEF OpenEnded
  <2>2. CompareVersion(a, op, n) = Always(Holds(<<version[a.at + 1]>>, op, <<n.value>>))
    BY <1>3, <2>1 DEF CompareVersion, FixedComparison
  <2>3. actual[a.at + 1] = version[a.at + 1]
    BY <1>2, <2>1
  <2> QED BY <1>3, <2>1, <2>2, <2>3 DEF PythonValue, actual
<1>4. CASE a.kind # "index"
  <2> DEFINE slice == Slice(a)
  <2>1. /\ n.kind = "tuple" /\ Lower(a) >= 0 /\ Upper(a) <= 2 /\ Lower(a) < Upper(a)
        /\ Len(slice) = Len(n.value) \/ Len(slice) > Len(n.value)
        /\ Len(slice) = Len(n.value) \/ op \notin {"==", "!="}
    BY <1>4, Compared
  <2>2. CompareVersion(a, op, n) = Always(Holds(slice, op, n.value))
    BY <1>4, <2>1 DEF CompareVersion, FixedComparison
  <2>3. PythonValue(n, actual) = n.value
    BY <2>1 DEF PythonValue
  <2>4. n.value \in Seq(Nat)
    BY <2>1, TupleIs
  <2>5. Lower(a) \in Int /\ Upper(a) \in Int /\ a.kind \in {"whole", "slice"}
    BY <1>4, Bounds
  <2>6. CASE OpenEnded(a)
    <3>1. /\ slice \in Seq(Nat) /\ slice = SubSeq(version, Lower(a) + 1, 2)
          /\ PythonValue(a, actual) = Append(slice, m)
      BY <2>6, OpenPart
    <3> HIDE DEF slice, actual
    <3>2. CASE n.value # slice \/ op \in {"<", ">="}
      <4>1. Holds(Append(slice, m), op, n.value) <=> Holds(slice, op, n.value)
        BY <2>1, <2>4, <3>1, <3>2, HoldsOfLonger
      <4>2. ~(n.value = SubSeq(version, Lower(a) + 1, 2) /\ op \in {"==", "!=", "<=", ">"})
        BY <3>1, <3>2
      <4> QED BY <2>2, <2>3, <3>1, <4>1, <4>2 DEF Always, actual
    <3>3. CASE n.value = slice /\ op \in {"==", "!=", "<=", ">"}
      <4>1. Holds(Append(slice, m), op, n.value) <=> ~Holds(slice, op, n.value)
        BY <3>1, <3>3, HoldsOfNext
      <4>2. Always(Holds(slice, op, n.value)) = Invert(Always(Holds(Append(slice, m), op, n.value)))
        BY <4>1 DEF Always, Invert
      <4> QED BY <2>2, <2>3, <2>6, <3>1, <3>3, <4>2 DEF actual
    <3> QED BY <3>2, <3>3 DEF Orderings
  <2>7. CASE ~OpenEnded(a)
    <3>1. a.kind = "slice" /\ Upper(a) = a.upper
      BY <2>5, <2>7 DEF OpenEnded, Upper
    <3>2. PythonValue(a, actual) = SubSeq(actual, Lower(a) + 1, Upper(a))
      BY <2>7, <3>1 DEF PythonValue, OpenEnded
    <3>3. Lower(a) + 1 \in 1..2 /\ Upper(a) \in (Lower(a) + 1)..2
      BY <2>1, <2>5
    <3>4. SubSeq(actual, Lower(a) + 1, Upper(a)) = slice
      <4>1. Lower(a) + 1 \in 1..Len(version) /\ Upper(a) \in (Lower(a) + 1)..Len(version)
        BY <1>1, <3>3
      <4>2. SubSeq(actual, Lower(a) + 1, Upper(a)) = SubSeq(version, Lower(a) + 1, Upper(a))
        BY <1>1, <4>1, PartOfLonger DEF actual
      <4> QED BY <4>2 DEF Slice
    <3> QED BY <2>2, <2>3, <2>7, <3>2, <3>4 DEF actual
  <2> QED BY <2>6, <2>7
<1> QED
  BY <1>3, <1>4
-----------------------------------------------------------------------------
(* The two sides of a comparison. *)

LEMMA KindOfAccess ==
    ASSUME NEW a \in Accesses
    PROVE  "kind" \in DOMAIN a /\ a.kind \in {"whole", "index", "slice"}
<1>1. CASE a \in [kind : {"whole"}]
  BY <1>1
<1>2. CASE a \in [kind : {"index"}, at : Literals]
  BY <1>2
<1>3. CASE a \in [kind : {"slice"}, lower : Literals \cup {Absent},
                  upper : Literals \cup {Absent}, step : {Absent, 1, 2}]
  BY <1>3
<1> QED
  BY <1>1, <1>2, <1>3 DEF Accesses

LEMMA KindOfNumber ==
    ASSUME NEW n \in Numbers
    PROVE  n.kind \in {"int", "tuple"}
BY DEF Numbers

LEMMA CompareFields ==
    ASSUME NEW l, NEW op, NEW r
    PROVE  /\ Compare(l, op, r).form = "compare" /\ ~Compare(l, op, r).chained
           /\ Compare(l, op, r).left = l /\ Compare(l, op, r).right = r
           /\ Compare(l, op, r).op = op
BY DEF Compare

\* The condition is a comparison of an access with a number.
OfAccess(a, op, n) == expr \in {Compare(a, op, n), Compare(n, op, a)}

LEMMA AnsweredOfVersion ==
    ASSUME Inv, Answered, OfVersion
    PROVE  /\ truth = FromVersion /\ FromVersion # "Unknown"
           /\ \E op \in Orderings, a \in Accesses, n \in Numbers : OfAccess(a, op, n)
<1>1. FromPlatform = "Unknown"
  BY DEF OfVersion, FromPlatform, ConsiderSysPlatform
<1>2. truth = FromVersion /\ FromVersion # "Unknown"
  BY <1>1 DEF Inv, Answered
<1>3. ~expr.chained /\ expr.op \in Orderings
  BY <1>2 DEF FromVersion, ConsiderSysVersionInfo, OrdersTwo
<1>4. ~\E op \in Orderings, n \in Numbers : expr = Chain([kind |-> "whole"], op, n)
  BY <1>3 DEF Chain, Compare
<1>5. ~\E op \in Ops, s \in Strings :
         expr \in {Compare(Platform, op, s), Compare(s, op, Platform)}
  BY CompareFields DEF OfVersion
<1>6. ~\E op \in Ops, s \in Containers : expr = Compare(Platform, op, s)
  BY CompareFields DEF OfVersion
<1>7. ~\E m \in {"startswith", "endswith"}, s \in Strings : expr = Call(m, s)
  BY DEF OfVersion, Call
<1>8. PICK op \in Ops, a \in Accesses, n \in Numbers :
         expr \in {Compare(a, op, n), Compare(n, op, a)}
  BY <1>4, <1>5, <1>6, <1>7 DEF Inv, ConditionOK
<1>9. op \in Orderings
  BY <1>3, <1>8, CompareFields
<1> QED
  BY <1>2, <1>8, <1>9 DEF OfAccess

\* A check of the version that is answered is answered as Python answers it,
\* for every target version, literal, tuple and micro version; and where it is with
\* the target itself, by an operator that sees the micro version, never as Python
\* does (consider_sys_version_info).
THEOREM VersionChecksExact == Spec => []AgreesWithPython
<1>1. Inv => AgreesWithPython
  <2> DEFINE python(m) == Always(PythonHolds(Append(version, m)))
  <2> SUFFICES ASSUME Inv, Answered, OfVersion, NEW m \in Micros
               PROVE  truth = IF AtTheTarget THEN Invert(python(m)) ELSE python(m)
    BY DEF AgreesWithPython
  <2>1. truth = FromVersion /\ FromVersion # "Unknown"
    BY AnsweredOfVersion
  <2>2. PICK op \in Orderings, a \in Accesses, n \in Numbers : OfAccess(a, op, n)
    BY AnsweredOfVersion
  <2>3. /\ "kind" \in DOMAIN a /\ a.kind \in {"whole", "index", "slice"}
        /\ n.kind \in {"int", "tuple"} /\ a # n
        /\ version \in Versions /\ m \in Nat
    BY KindOfAccess, KindOfNumber, SystemAssumption DEF Inv, SystemAssumption
  <2> DEFINE value(o) == Always(Holds(PythonValue(a, Append(version, m)), o,
                                      PythonValue(n, Append(version, m))))
             at(ops, o) == /\ OpenEnded(a)
                           /\ n.value = SubSeq(version, Lower(a) + 1, 2)
                           /\ o \in ops
             late == {"==", "!=", "<=", ">"}
  <2>4. CASE expr = Compare(a, op, n)
    <3>1. expr.left = a /\ expr.right = n /\ expr.op = op
      BY <2>4, CompareFields
    <3>2. Access = a /\ Number = n
      BY <2>3, <3>1 DEF Access, Number
    <3>3. FromVersion = CompareVersion(a, op, n)
      BY <2>1, <2>3, <3>1 DEF FromVersion, ConsiderSysVersionInfo, VersionWithNumber, ContainsSysVersionInfo
    <3>4. AtTheTarget <=> at(late, op)
      BY <3>1, <3>2 DEF AtTheTarget, OpenEnded
    <3>5. CompareVersion(a, op, n) = IF at(late, op) THEN Invert(value(op)) ELSE value(op)
      BY <2>1, <2>3, <3>3, CompareVersionExact
    <3>6. python(m) = value(op)
      BY <3>1 DEF PythonHolds
    <3> HIDE DEF python, value, at
    <3> QED BY <2>1, <3>3, <3>4, <3>5, <3>6
  <2>5. CASE expr = Compare(n, op, a)
    <3>1. expr.left = n /\ expr.right = a /\ expr.op = op
      BY <2>5, CompareFields
    <3>2. Access = a /\ Number = n
      BY <2>3, <3>1 DEF Access, Number
    <3> DEFINE rop == ReverseCmpOp(op)
    <3>3. FromVersion = CompareVersion(a, rop, n)
      BY <2>1, <2>3, <3>1 DEF FromVersion, ConsiderSysVersionInfo, VersionWithNumber, ContainsSysVersionInfo
    <3>4. AtTheTarget <=> at(late, rop)
      <4>1. AtTheTarget <=> at({"==", "!=", ">=", "<"}, op)
        BY <2>3, <3>1, <3>2 DEF AtTheTarget, OpenEnded
      <4>2. rop \in late <=> op \in {"==", "!=", ">=", "<"}
        BY DEF ReverseCmpOp, Orderings
      <4> QED BY <4>1, <4>2
    <3>5. CompareVersion(a, rop, n) = IF at(late, rop) THEN Invert(value(rop)) ELSE value(rop)
      <4>1. rop \in Orderings
        BY HoldsReversed
      <4> HIDE DEF rop
      <4> QED BY <2>1, <2>3, <3>3, <4>1, CompareVersionExact
    <3>6. python(m) = value(rop)
      <4>1. Holds(PythonValue(a, Append(version, m)), rop, PythonValue(n, Append(version, m)))
               <=> Holds(PythonValue(n, Append(version, m)), op, PythonValue(a, Append(version, m)))
        BY HoldsReversed
      <4> QED BY <3>1, <4>1 DEF PythonHolds, Always
    <3> HIDE DEF python, value, at, rop
    <3> QED BY <2>1, <3>3, <3>4, <3>5, <3>6
  <2> QED BY <2>2, <2>4, <2>5 DEF OfAccess
<1> QED
  BY <1>1, InvHolds, PTL

LEMMA ComplementHolds ==
    ASSUME NEW s, NEW t, NEW op \in Orderings
    PROVE  /\ Holds(s, Complement(op), t) <=> ~Holds(s, op, t)
           /\ Complement(op) \in Orderings
           /\ ReverseCmpOp(Complement(op)) = Complement(ReverseCmpOp(op))
           /\ Complement(op) \in {"==", "!="} <=> op \in {"==", "!="}
           /\ ReverseCmpOp(op) \in Orderings
BY DEF Holds, Complement, Orderings, ReverseCmpOp

LEMMA ComplementOfComparison ==
    ASSUME NEW a, NEW n, NEW op \in Orderings, CompareVersion(a, op, n) # "Unknown"
    PROVE  Invert(CompareVersion(a, op, n)) = CompareVersion(a, Complement(op), n)
<1>1. CASE a.kind = "index"
  <2>1. n.kind = "int" /\ a.at \in 0..1
    BY <1>1, Compared
  <2>2. \A o : CompareVersion(a, o, n) = Always(Holds(<<version[a.at + 1]>>, o, <<n.value>>))
    BY <1>1, <2>1 DEF CompareVersion, FixedComparison
  <2>3. Holds(<<version[a.at + 1]>>, Complement(op), <<n.value>>)
           <=> ~Holds(<<version[a.at + 1]>>, op, <<n.value>>)
    BY ComplementHolds
  <2> QED BY <2>2, <2>3 DEF Always, Invert
<1>2. CASE a.kind # "index"
  <2>1. /\ n.kind = "tuple" /\ Lower(a) >= 0 /\ Upper(a) <= 2 /\ Lower(a) < Upper(a)
        /\ Len(Slice(a)) = Len(n.value) \/ Len(Slice(a)) > Len(n.value)
        /\ Len(Slice(a)) = Len(n.value) \/ op \notin {"==", "!="}
    BY <1>2, Compared
  <2>2. \A o : Len(Slice(a)) = Len(n.value) \/ o \notin {"==", "!="} =>
                  CompareVersion(a, o, n) = Always(Holds(Slice(a), o, n.value))
    BY <1>2, <2>1 DEF CompareVersion, FixedComparison
  <2>3. Holds(Slice(a), Complement(op), n.value) <=> ~Holds(Slice(a), op, n.value)
    BY ComplementHolds
  <2>4. Complement(op) \in {"==", "!="} <=> op \in {"==", "!="}
    BY ComplementHolds
  <2> QED BY <2>1, <2>2, <2>3, <2>4 DEF Always, Invert
<1> QED
  BY <1>1, <1>2

LEMMA ComplementOfVersion ==
    ASSUME NEW l, NEW r, NEW op \in Orderings,
           ConsiderSysVersionInfo(Compare(l, op, r)) # "Unknown"
    PROVE  Invert(ConsiderSysVersionInfo(Compare(l, op, r)))
              = ConsiderSysVersionInfo(Compare(l, Complement(op), r))
<1> DEFINE forward  == VersionWithNumber(l, r)
           backward == VersionWithNumber(r, l)
<1>1. \A o \in Orderings :
         ConsiderSysVersionInfo(Compare(l, o, r)) =
            IF forward THEN CompareVersion(l, o, r)
            ELSE IF backward THEN CompareVersion(r, ReverseCmpOp(o), l) ELSE "Unknown"
  BY CompareFields DEF ConsiderSysVersionInfo, OrdersTwo
<1>2. Complement(op) \in Orderings
  BY ComplementHolds
<1>3. CASE forward
  <2>1. CompareVersion(l, op, r) # "Unknown"
    BY <1>1, <1>3
  <2> QED BY <1>1, <1>2, <1>3, <2>1, ComplementOfComparison
<1>4. CASE ~forward /\ backward
  <2>1. CompareVersion(r, ReverseCmpOp(op), l) # "Unknown"
    BY <1>1, <1>4
  <2>2. ReverseCmpOp(op) \in Orderings
        /\ ReverseCmpOp(Complement(op)) = Complement(ReverseCmpOp(op))
    BY ComplementHolds
  <2>3. Invert(CompareVersion(r, ReverseCmpOp(op), l))
           = CompareVersion(r, Complement(ReverseCmpOp(op)), l)
    BY <2>1, <2>2, ComplementOfComparison
  <2> QED BY <1>1, <1>2, <1>4, <2>2, <2>3
<1>5. CASE ~forward /\ ~backward
  BY <1>1, <1>5
<1> QED
  BY <1>3, <1>4, <1>5

LEMMA ComparisonShape ==
    ASSUME ConditionOK, expr.form = "compare"
    PROVE  \E op \in Ops : \E l, r, c :
             expr = [form |-> "compare", left |-> l, op |-> op, right |-> r, chained |-> c]
<1> DEFINE Shape(op, l, r, c) ==
             expr = [form |-> "compare", left |-> l, op |-> op, right |-> r, chained |-> c]
<1>1. ASSUME NEW op \in Ops, NEW l, NEW r, expr = Compare(l, op, r)
      PROVE  Shape(op, l, r, FALSE)
  BY <1>1 DEF Compare
<1>2. ASSUME NEW op \in Ops, NEW l, NEW r, expr = Chain(l, op, r)
      PROVE  Shape(op, l, r, TRUE)
  BY <1>2 DEF Compare, Chain
<1>3. \A m, s : expr # Call(m, s)
  BY DEF Call
<1>4. \/ \E op \in Ops : \E l, r : expr = Compare(l, op, r)
      \/ \E op \in Ops : \E l, r : expr = Chain(l, op, r)
  <2>1. Orderings \subseteq Ops
    BY DEF Ops
  <2> QED BY <1>3, <2>1 DEF ConditionOK
<1> HIDE DEF Shape
<1>5. \E op \in Ops : \E l, r, c : Shape(op, l, r, c)
  BY <1>1, <1>2, <1>4
<1> QED
  BY <1>5 DEF Shape

\* A comparison with the platform is none with the version.
LEMMA PlatformIsNoVersion ==
    ASSUME expr.form = "compare", ~OfVersion
    PROVE  FromVersion = "Unknown"
<1>1. Platform \in {expr.left, expr.right} /\ Platform.kind = "platform"
  BY DEF OfVersion, Platform
<1>2. ~ContainsSysVersionInfo(Platform) /\ ~ContainsIntOrTuple(Platform)
  BY <1>1 DEF ContainsSysVersionInfo, ContainsIntOrTuple
<1> QED
  BY <1>1, <1>2 DEF FromVersion, ConsiderSysVersionInfo, VersionWithNumber

\* A check with the opposite operator gets the opposite answer.
THEOREM ComplementsInvert == Spec => []ComplementInverts
<1>1. Inv => ComplementInverts
  <2> SUFFICES ASSUME Inv, Answered, expr.form = "compare"
               PROVE  Invert(truth) =
                        IF OfVersion
                        THEN ConsiderSysVersionInfo([expr EXCEPT !.op = Complement(@)])
                        ELSE ConsiderSysPlatform([expr EXCEPT !.op = Complement(@)])
    BY DEF ComplementInverts
  <2>1. CASE OfVersion
    <3>1. truth = FromVersion /\ FromVersion # "Unknown"
      BY <2>1, AnsweredOfVersion
    <3>2. PICK op \in Orderings : \E l, r : expr = Compare(l, op, r)
      <4>1. PICK op \in Orderings, a \in Accesses, n \in Numbers : OfAccess(a, op, n)
        BY <2>1, AnsweredOfVersion
      <4>2. expr = Compare(a, op, n) \/ expr = Compare(n, op, a)
        BY <4>1 DEF OfAccess
      <4> QED BY <4>2
    <3>3. PICK l, r : expr = Compare(l, op, r)
      BY <3>2
    <3>4. [expr EXCEPT !.op = Complement(@)] = Compare(l, Complement(op), r)
      <4>1. \A c : expr = [form |-> "compare", left |-> l, op |-> op, right |-> r, chained |-> c]
               => [expr EXCEPT !.op = Complement(@)]
                     = [form |-> "compare", left |-> l, op |-> Complement(op), right |-> r,
                        chained |-> c]
        OBVIOUS
      <4> QED BY <3>3, <4>1 DEF Compare
    <3>5. Invert(ConsiderSysVersionInfo(Compare(l, op, r)))
             = ConsiderSysVersionInfo(Compare(l, Complement(op), r))
      BY <3>1, <3>3, ComplementOfVersion DEF FromVersion
    <3> QED BY <2>1, <3>1, <3>3, <3>4, <3>5 DEF FromVersion
  <2>2. CASE ~OfVersion
    <3>1. PICK op \in Ops : \E l, r, c :
             expr = [form |-> "compare", left |-> l, op |-> op, right |-> r, chained |-> c]
      BY ComparisonShape DEF Inv
    <3>2. PICK l, r, c :
             expr = [form |-> "compare", left |-> l, op |-> op, right |-> r, chained |-> c]
      BY <3>1
    <3>3. truth = FromPlatform /\ FromPlatform # "Unknown"
      BY <2>2, PlatformIsNoVersion DEF Inv, Answered
    <3>4. [expr EXCEPT !.op = Complement(@)] =
             [form |-> "compare", left |-> l, op |-> Complement(op), right |-> r, chained |-> c]
      BY <3>2
    <3>5. Invert(FromPlatform) = ConsiderSysPlatform(
             [form |-> "compare", left |-> l, op |-> Complement(op), right |-> r, chained |-> c])
      BY <3>2, <3>3 DEF FromPlatform, ConsiderSysPlatform, Invert, Always, Complement
    <3> QED BY <2>2, <3>3, <3>4, <3>5
  <2> QED BY <2>1, <2>2
<1> QED
  BY <1>1, InvHolds, PTL
=============================================================================
