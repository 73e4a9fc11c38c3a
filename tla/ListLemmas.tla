----------------------------- MODULE ListLemmas -----------------------------
(***************************************************************************)
(* What the proofs need to know of sequences used as lists: which elements *)
(* are in one, how often, in which order, and what putting one in at       *)
(* either end and taking the first one out do to that.                     *)
(***************************************************************************)
EXTENDS Integers, Sequences, FiniteSets, SequenceTheorems, FiniteSetTheorems, TLAPS

In(f, x) == \E i \in 1 .. Len(f) : f[i] = x

\* Nothing is in the list twice; x is not.
Once(f)      == \A i, j \in 1 .. Len(f) : f[i] = f[j] => i = j
Single(f, x) == \A i, j \in 1 .. Len(f) : f[i] = x /\ f[j] = x => i = j

Before(f, x, y) == \E i, j \in 1 .. Len(f) : i < j /\ f[i] = x /\ f[j] = y

\* How many elements of f are in M.
Where(f, M) == {i \in 1 .. Len(f) : f[i] \in M}
Count(f, M) == Cardinality(Where(f, M))

-----------------------------------------------------------------------------
LEMMA Joined ==
  ASSUME NEW S, NEW f \in Seq(S), NEW g \in Seq(S), Once(f), Once(g),
         \A x \in S : ~(In(f, x) /\ In(g, x))
  PROVE  /\ f \o g \in Seq(S) /\ Once(f \o g)
         /\ \A x : In(f \o g, x) <=> In(f, x) \/ In(g, x)
<1> DEFINE h == f \o g
<1>1. /\ h \in Seq(S) /\ Len(f) \in Nat /\ Len(g) \in Nat /\ Len(h) = Len(f) + Len(g)
      /\ \A i \in 1 .. Len(h) : h[i] = IF i <= Len(f) THEN f[i] ELSE g[i - Len(f)]
  BY ConcatProperties, LenProperties
<1> HIDE DEF h
<1>2. /\ \A i \in 1 .. Len(f) : f[i] \in S
      /\ \A i \in 1 .. Len(g) : g[i] \in S
  BY ElementOfSeq
<1>3. ASSUME NEW x PROVE In(h, x) <=> In(f, x) \/ In(g, x)
  <2>1. ASSUME In(h, x) PROVE In(f, x) \/ In(g, x)
    <3>1. PICK i \in 1 .. Len(h) : h[i] = x
      BY <2>1 DEF In
    <3>2. CASE i <= Len(f)
      BY <1>1, <3>1, <3>2 DEF In
    <3>3. CASE i > Len(f)
      <4>1. i - Len(f) \in 1 .. Len(g) /\ h[i] = g[i - Len(f)]
        BY <1>1, <3>3
      <4> QED
        BY <3>1, <4>1 DEF In
    <3> QED
      BY <1>1, <3>2, <3>3
  <2>2. ASSUME In(f, x) PROVE In(h, x)
    <3>1. PICK i \in 1 .. Len(f) : f[i] = x
      BY <2>2 DEF In
    <3>2. i \in 1 .. Len(h) /\ h[i] = f[i]
      BY <1>1
    <3> QED
      BY <3>1, <3>2 DEF In
  <2>3. ASSUME In(g, x) PROVE In(h, x)
    <3>1. PICK i \in 1 .. Len(g) : g[i] = x
      BY <2>3 DEF In
    <3>2. Len(f) + i \in 1 .. Len(h) /\ h[Len(f) + i] = g[i]
      BY <1>1
    <3> QED
      BY <3>1, <3>2 DEF In
  <2> QED
    BY <2>1, <2>2, <2>3
<1>4. ASSUME NEW i \in 1 .. Len(h), NEW j \in 1 .. Len(h), h[i] = h[j] PROVE i = j
  <2>1. CASE i <= Len(f) /\ j <= Len(f)
    BY SMTT(30), <1>1, <1>4, <2>1 DEF Once
  <2>2. CASE i > Len(f) /\ j > Len(f)
    <3>1. /\ i - Len(f) \in 1 .. Len(g) /\ j - Len(f) \in 1 .. Len(g)
          /\ g[i - Len(f)] = g[j - Len(f)]
      BY <1>1, <1>4, <2>2
    <3>2. i - Len(f) = j - Len(f)
      BY <3>1 DEF Once
    <3> QED
      BY <1>1, <3>2
  <2>3. CASE i <= Len(f) /\ j > Len(f)
    <3>1. i \in 1 .. Len(f) /\ j - Len(f) \in 1 .. Len(g) /\ f[i] = g[j - Len(f)]
      BY <1>1, <1>4, <2>3
    <3> QED
      BY <1>2, <3>1 DEF In
  <2>4. CASE i > Len(f) /\ j <= Len(f)
    <3>1. j \in 1 .. Len(f) /\ i - Len(f) \in 1 .. Len(g) /\ f[j] = g[i - Len(f)]
      BY <1>1, <1>4, <2>4
    <3> QED
      BY <1>2, <3>1 DEF In
  <2> QED
    BY <1>1, <2>1, <2>2, <2>3, <2>4
<1> QED
  BY <1>1, <1>3, <1>4 DEF Once, h

LEMMA Taken ==
  ASSUME NEW S, NEW f \in Seq(S), f # <<>>, Once(f)
  PROVE  /\ Head(f) \in S /\ In(f, Head(f))
         /\ Tail(f) \in Seq(S) /\ Once(Tail(f))
         /\ \A x : In(Tail(f), x) <=> In(f, x) /\ x # Head(f)
<1>1. /\ Len(f) \in Nat /\ Len(f) > 0 /\ Head(f) = f[1] /\ Tail(f) \in Seq(S)
      /\ Len(Tail(f)) = Len(f) - 1
      /\ \A i \in 1 .. Len(Tail(f)) : Tail(f)[i] = f[i + 1]
  BY HeadTailProperties, LenProperties, EmptySeq
<1>2. Head(f) \in S /\ In(f, Head(f))
  BY <1>1, ElementOfSeq DEF In
<1>3. Once(Tail(f))
  <2>1. ASSUME NEW i \in 1 .. Len(Tail(f)), NEW j \in 1 .. Len(Tail(f)),
               Tail(f)[i] = Tail(f)[j]
        PROVE  i = j
    <3>1. i + 1 \in 1 .. Len(f) /\ j + 1 \in 1 .. Len(f) /\ f[i + 1] = f[j + 1]
      BY <1>1, <2>1
    <3>2. i + 1 = j + 1
      BY <3>1 DEF Once
    <3> QED
      BY <1>1, <3>2
  <2> QED
    BY <2>1 DEF Once
<1>4. ASSUME NEW x PROVE In(Tail(f), x) <=> In(f, x) /\ x # Head(f)
  <2>1. ASSUME In(Tail(f), x) PROVE In(f, x) /\ x # Head(f)
    <3>1. PICK i \in 1 .. Len(Tail(f)) : Tail(f)[i] = x
      BY <2>1 DEF In
    <3>2. i + 1 \in 1 .. Len(f) /\ f[i + 1] = x /\ i + 1 # 1 /\ 1 \in 1 .. Len(f)
      BY <1>1, <3>1
    <3>3. f[1] # x
      BY <3>2 DEF Once
    <3> QED
      BY <1>1, <3>2, <3>3 DEF In
  <2>2. ASSUME In(f, x), x # Head(f) PROVE In(Tail(f), x)
    <3>1. PICK i \in 1 .. Len(f) : f[i] = x
      BY <2>2 DEF In
    <3>2. i # 1
      BY <1>1, <2>2, <3>1
    <3>3. i - 1 \in 1 .. Len(Tail(f)) /\ Tail(f)[i - 1] = f[(i - 1) + 1]
      BY <1>1, <3>2
    <3>4. (i - 1) + 1 = i
      BY <1>1
    <3> QED
      BY <3>1, <3>3, <3>4 DEF In
  <2> QED
    BY <2>1, <2>2
<1> QED
  BY <1>1, <1>2, <1>3, <1>4

-----------------------------------------------------------------------------
\* One element more at the front.
LEMMA PutInFront ==
  ASSUME NEW S, NEW f \in Seq(S), NEW h \in S, NEW x, NEW y
  PROVE  LET g == <<h>> \o f
         IN  /\ g \in Seq(S) /\ Len(g) = Len(f) + 1
             /\ In(g, x) <=> x = h \/ In(f, x)
             /\ Single(g, x) <=> Single(f, x) /\ ~(x = h /\ In(f, x))
             /\ Before(g, x, y) <=> Before(f, x, y) \/ (x = h /\ In(f, y))
<1> DEFINE g == <<h>> \o f
           n == Len(f)
<1>1. /\ g \in Seq(S) /\ n \in Nat /\ Len(g) = n + 1 /\ g[1] = h
      /\ \A i \in 1 .. n : g[i + 1] = f[i]
      /\ \A i \in 1 .. n + 1 : i # 1 => i - 1 \in 1 .. n /\ g[i] = f[i - 1]
  <2>1. <<h>> \in Seq(S) /\ Len(<<h>>) = 1 /\ n \in Nat
    BY LenProperties
  <2>2. /\ g \in Seq(S) /\ Len(g) = 1 + n
        /\ \A i \in 1 .. 1 + n : g[i] = IF i <= 1 THEN <<h>>[i] ELSE f[i - 1]
    BY <2>1, ConcatProperties
  <2> HIDE DEF g
  <2> QED
    BY <2>1, <2>2
<1> HIDE DEF g, n
<1>2. In(g, x) <=> x = h \/ In(f, x)
  <2>1. ASSUME In(f, x) PROVE In(g, x)
    <3>1. PICK i \in 1 .. n : f[i] = x
      BY <2>1 DEF In, n
    <3>2. i + 1 \in 1 .. n + 1 /\ g[i + 1] = x
      BY <1>1, <3>1
    <3> QED
      BY <1>1, <3>2 DEF In
  <2>2. x = h => In(g, x)
    BY <1>1 DEF In
  <2>3. ASSUME In(g, x), x # h PROVE In(f, x)
    <3>1. PICK i \in 1 .. n + 1 : g[i] = x
      BY <1>1, <2>3 DEF In
    <3>2. i # 1
      BY <1>1, <2>3, <3>1
    <3> QED
      BY <1>1, <3>1, <3>2 DEF In, n
  <2> QED
    BY <2>1, <2>2, <2>3
<1>3. Single(g, x) <=> Single(f, x) /\ ~(x = h /\ In(f, x))
  <2>1. ASSUME Single(g, x) PROVE Single(f, x) /\ ~(x = h /\ In(f, x))
    <3>1. ASSUME NEW i \in 1 .. n, NEW j \in 1 .. n, f[i] = x, f[j] = x PROVE i = j
      <4>1. i + 1 \in 1 .. Len(g) /\ j + 1 \in 1 .. Len(g) /\ g[i + 1] = x /\ g[j + 1] = x
        BY <1>1, <3>1
      <4>2. i + 1 = j + 1
        BY <2>1, <4>1 DEF Single
      <4> QED
        BY <1>1, <4>2
    <3>2. ASSUME x = h, In(f, x) PROVE FALSE
      <4>1. PICK i \in 1 .. n : f[i] = x
        BY <3>2 DEF In, n
      <4>2. i + 1 \in 1 .. Len(g) /\ g[i + 1] = x /\ 1 \in 1 .. Len(g) /\ g[1] = x /\ i + 1 # 1
        BY <1>1, <3>2, <4>1
      <4> QED
        BY <2>1, <4>2 DEF Single
    <3> QED
      BY <3>1, <3>2 DEF Single, n
  <2>2. ASSUME Single(f, x), ~(x = h /\ In(f, x)) PROVE Single(g, x)
    <3>1. ASSUME NEW i \in 1 .. n + 1, NEW j \in 1 .. n + 1, g[i] = x, g[j] = x PROVE i = j
      <4>1. CASE i = 1 /\ j # 1
        <5>1. x = h /\ j - 1 \in 1 .. n /\ f[j - 1] = x
          BY <1>1, <3>1, <4>1
        <5> QED
          BY <2>2, <5>1 DEF In, n
      <4>2. CASE i # 1 /\ j = 1
        <5>1. x = h /\ i - 1 \in 1 .. n /\ f[i - 1] = x
          BY <1>1, <3>1, <4>2
        <5> QED
          BY <2>2, <5>1 DEF In, n
      <4>3. CASE i # 1 /\ j # 1
        <5>1. i - 1 \in 1 .. n /\ f[i - 1] = x /\ j - 1 \in 1 .. n /\ f[j - 1] = x
          BY <1>1, <3>1, <4>3
        <5>2. i - 1 = j - 1
          BY <2>2, <5>1 DEF Single, n
        <5> QED
          BY <1>1, <5>2
      <4> QED
        BY <4>1, <4>2, <4>3
    <3> QED
      BY <1>1, <3>1 DEF Single
  <2> QED
    BY <2>1, <2>2
<1>4. Before(g, x, y) <=> Before(f, x, y) \/ (x = h /\ In(f, y))
  <2>1. ASSUME Before(f, x, y) PROVE Before(g, x, y)
    <3>1. PICK i, j \in 1 .. n : i < j /\ f[i] = x /\ f[j] = y
      BY <2>1 DEF Before, n
    <3>2. /\ i + 1 \in 1 .. Len(g) /\ j + 1 \in 1 .. Len(g) /\ i + 1 < j + 1
          /\ g[i + 1] = x /\ g[j + 1] = y
      BY SMTT(30), <1>1, <3>1
    <3> QED
      BY <3>2 DEF Before
  <2>2. ASSUME x = h, In(f, y) PROVE Before(g, x, y)
    <3>1. PICK j \in 1 .. n : f[j] = y
      BY <2>2 DEF In, n
    <3>2. 1 \in 1 .. Len(g) /\ j + 1 \in 1 .. Len(g) /\ 1 < j + 1 /\ g[1] = x /\ g[j + 1] = y
      BY SMTT(30), <1>1, <2>2, <3>1
    <3> QED
      BY <3>2 DEF Before
  <2>3. ASSUME Before(g, x, y) PROVE Before(f, x, y) \/ (x = h /\ In(f, y))
    <3>1. PICK i, j \in 1 .. n + 1 : i < j /\ g[i] = x /\ g[j] = y
      BY SMTT(30), <1>1, <2>3 DEF Before
    <3>2. j # 1
      BY SMTT(30), <1>1, <3>1
    <3>3. j - 1 \in 1 .. n /\ f[j - 1] = y
      BY SMTT(30), <1>1, <3>1, <3>2
    <3>4. CASE i = 1
      BY SMTT(30), <1>1, <3>1, <3>3, <3>4 DEF In, n
    <3>5. CASE i # 1
      <4>1. i - 1 \in 1 .. n /\ f[i - 1] = x /\ i - 1 < j - 1
        BY SMTT(30), <1>1, <3>1, <3>5
      <4> QED
        BY <3>3, <4>1 DEF Before, n
    <3> QED
      BY <3>4, <3>5
  <2> QED
    BY <2>1, <2>2, <2>3
<1> QED
  BY <1>1, <1>2, <1>3, <1>4 DEF g, n

LEMMA CountType ==
  ASSUME NEW S, NEW f \in Seq(S), NEW M
  PROVE  IsFiniteSet(Where(f, M)) /\ Count(f, M) \in Nat
<1>1. IsFiniteSet(1 .. Len(f))
  BY LenProperties, FS_Interval
<1>2. Where(f, M) \in SUBSET (1 .. Len(f))
  BY DEF Where
<1> QED
  BY <1>1, <1>2, FS_Subset, FS_CardinalityType DEF Count

LEMMA CountInFront ==
  ASSUME NEW S, NEW f \in Seq(S), NEW h \in S, NEW M
  PROVE  Count(<<h>> \o f, M) = IF h \in M THEN Count(f, M) + 1 ELSE Count(f, M)
<1> DEFINE g == <<h>> \o f
           n == Len(f)
           A == Where(f, M)
           B == {i \in 2 .. n + 1 : g[i] \in M}
           up == [i \in A |-> i + 1]
<1>1. /\ g \in Seq(S) /\ n \in Nat /\ Len(g) = n + 1 /\ g[1] = h
      /\ \A i \in 1 .. n : g[i + 1] = f[i]
      /\ \A i \in 1 .. n + 1 : i # 1 => i - 1 \in 1 .. n /\ g[i] = f[i - 1]
  <2>1. <<h>> \in Seq(S) /\ Len(<<h>>) = 1 /\ n \in Nat
    BY LenProperties
  <2>2. /\ g \in Seq(S) /\ Len(g) = 1 + n
        /\ \A i \in 1 .. 1 + n : g[i] = IF i <= 1 THEN <<h>>[i] ELSE f[i - 1]
    BY <2>1, ConcatProperties
  <2> HIDE DEF g
  <2> QED
    BY <2>1, <2>2
<1> HIDE DEF g
<1>2. A \subseteq 1 .. n /\ B \subseteq 2 .. n + 1
  BY DEF Where
<1>3. \A i \in A : i + 1 \in B
  BY <1>1, <1>2 DEF Where
<1>4. \A i \in B : i - 1 \in A /\ (i - 1) + 1 = i
  <2>1. ASSUME NEW i \in B PROVE i - 1 \in 1 .. n /\ f[i - 1] \in M /\ (i - 1) + 1 = i
    <3>1. i \in 1 .. n + 1 /\ i # 1 /\ g[i] \in M
      BY <1>1, <1>2
    <3> QED
      BY <1>1, <3>1
  <2> QED
    BY <2>1 DEF Where
<1>5. \A i, j \in A : i + 1 = j + 1 => i = j
  BY <1>1, <1>2
<1>6. IsFiniteSet(A) /\ Cardinality(A) = Count(f, M)
  BY CountType DEF Count
<1>7. Where(g, M) = IF h \in M THEN B \cup {1} ELSE B
  <2>1. \A i : i \in 1 .. n + 1 <=> i = 1 \/ i \in 2 .. n + 1
    BY <1>1
  <2> QED
    BY <1>1, <2>1 DEF Where
<1>8. 1 \notin B
  BY <1>1, <1>2
<1>9. IsFiniteSet(B) /\ Cardinality(B) = Cardinality(A)
  <2> HIDE DEF A, B
  <2>1. up \in [A -> B]
    BY <1>3
  <2>2. up \in Injection(A, B)
    <3>1. \A i, j \in A : up[i] = up[j] => i = j
      BY <1>5
    <3> HIDE DEF up
    <3> QED
      BY <2>1, <3>1 DEF Injection, IsInjective
  <2>3. up \in Surjection(A, B)
    <3>1. \A i \in B : \E j \in A : up[j] = i
      BY <1>4
    <3> HIDE DEF up
    <3> QED
      BY <2>1, <3>1 DEF Surjection
  <2> HIDE DEF up
  <2>4. ExistsBijection(A, B)
    BY <2>2, <2>3 DEF ExistsBijection, Bijection
  <2> QED
    BY <1>6, <2>4, FS_Bijection
<1> HIDE DEF A, B
<1>10. Cardinality(B \cup {1}) = Cardinality(B) + 1
  BY <1>8, <1>9, FS_AddElement
<1>11. Count(g, M) = IF h \in M THEN Count(f, M) + 1 ELSE Count(f, M)
  BY <1>6, <1>7, <1>9, <1>10 DEF Count
<1> QED
  BY <1>11 DEF g
-----------------------------------------------------------------------------
\* One element more at the end.
LEMMA PutBehind ==
  ASSUME NEW S, NEW f \in Seq(S), NEW h \in S, NEW x, NEW y
  PROVE  LET g == Append(f, h)
         IN  /\ g \in Seq(S) /\ Len(g) = Len(f) + 1
             /\ In(g, x) <=> x = h \/ In(f, x)
             /\ Single(g, x) <=> Single(f, x) /\ ~(x = h /\ In(f, x))
             /\ Before(g, x, y) <=> Before(f, x, y) \/ (y = h /\ In(f, x))
<1> DEFINE g == Append(f, h)
           n == Len(f)
<1>1. /\ g \in Seq(S) /\ n \in Nat /\ Len(g) = n + 1 /\ g[n + 1] = h
      /\ \A i \in 1 .. n : g[i] = f[i]
  BY AppendProperties, LenProperties
<1> HIDE DEF g, n
<1>2. \A i : i \in 1 .. Len(g) <=> i \in 1 .. n \/ i = n + 1
  BY <1>1
<1>3. n + 1 \notin 1 .. n
  BY <1>1
<1>4. In(g, x) <=> x = h \/ In(f, x)
  BY <1>1, <1>2 DEF In, n
<1>5. Single(g, x) <=> Single(f, x) /\ ~(x = h /\ In(f, x))
  <2>1. ASSUME Single(g, x) PROVE Single(f, x) /\ ~(x = h /\ In(f, x))
    <3>1. Single(f, x)
      BY <1>1, <1>2, <2>1 DEF Single, n
    <3>2. ASSUME x = h, In(f, x) PROVE FALSE
      <4>1. PICK i \in 1 .. n : f[i] = x
        BY <3>2 DEF In, n
      <4>2. i = n + 1
        BY <1>1, <1>2, <2>1, <3>2, <4>1 DEF Single
      <4> QED
        BY <1>3, <4>2
    <3> QED
      BY <3>1, <3>2
  <2>2. ASSUME Single(f, x), ~(x = h /\ In(f, x)) PROVE Single(g, x)
    BY <1>1, <1>2, <2>2 DEF Single, In, n
  <2> QED
    BY <2>1, <2>2
<1>6. Before(g, x, y) <=> Before(f, x, y) \/ (y = h /\ In(f, x))
  <2>1. ASSUME Before(f, x, y) PROVE Before(g, x, y)
    <3>1. PICK i, j \in 1 .. n : i < j /\ f[i] = x /\ f[j] = y
      BY <2>1 DEF Before, n
    <3> QED
      BY <1>1, <1>2, <3>1 DEF Before
  <2>2. ASSUME y = h, In(f, x) PROVE Before(g, x, y)
    <3>1. PICK i \in 1 .. n : f[i] = x
      BY <2>2 DEF In, n
    <3>2. i < n + 1 /\ i \in 1 .. Len(g) /\ n + 1 \in 1 .. Len(g)
      BY <1>1
    <3> QED
      BY <1>1, <2>2, <3>1, <3>2 DEF Before
  <2>3. ASSUME Before(g, x, y) PROVE Before(f, x, y) \/ (y = h /\ In(f, x))
    <3>1. PICK i, j \in 1 .. Len(g) : i < j /\ g[i] = x /\ g[j] = y
      BY <2>3 DEF Before
    <3>2. i \in 1 .. n /\ f[i] = x
      BY <1>1, <3>1
    <3>3. CASE j = n + 1
      BY <1>1, <3>1, <3>2, <3>3 DEF In, n
    <3>4. CASE j \in 1 .. n
      BY <1>1, <3>1, <3>2, <3>4 DEF Before, n
    <3> QED
      BY <1>2, <3>3, <3>4
  <2> QED
    BY <2>1, <2>2, <2>3
<1> QED
  BY <1>1, <1>4, <1>5, <1>6 DEF g, n

LEMMA CountBehind ==
  ASSUME NEW S, NEW f \in Seq(S), NEW h \in S, NEW M
  PROVE  Count(Append(f, h), M) = IF h \in M THEN Count(f, M) + 1 ELSE Count(f, M)
<1> DEFINE g == Append(f, h)
           n == Len(f)
<1>1. /\ g \in Seq(S) /\ n \in Nat /\ Len(g) = n + 1 /\ g[n + 1] = h
      /\ \A i \in 1 .. n : g[i] = f[i]
  BY AppendProperties, LenProperties
<1> HIDE DEF g
<1>2. /\ \A i : i \in 1 .. Len(g) <=> i \in 1 .. n \/ i = n + 1
      /\ n + 1 \notin 1 .. n
  BY <1>1
<1>3. Where(g, M) = IF h \in M THEN Where(f, M) \cup {n + 1} ELSE Where(f, M)
  BY <1>1, <1>2 DEF Where
<1>4. n + 1 \notin Where(f, M)
  BY <1>2 DEF Where
<1>5. Cardinality(Where(f, M) \cup {n + 1}) = Cardinality(Where(f, M)) + 1
  BY <1>4, CountType, FS_AddElement
<1>6. Count(g, M) = IF h \in M THEN Count(f, M) + 1 ELSE Count(f, M)
  BY <1>3, <1>5 DEF Count
<1> QED
  BY <1>6 DEF g

\* A list is its first element and the rest.
LEMMA FirstOut ==
  ASSUME NEW S, NEW f \in Seq(S), f # <<>>
  PROVE  /\ Head(f) \in S /\ Tail(f) \in Seq(S)
         /\ f = <<Head(f)>> \o Tail(f)
         /\ Len(f) = Len(Tail(f)) + 1
<1>1. /\ Len(f) \in Nat /\ Len(f) > 0 /\ Head(f) = f[1] /\ Tail(f) \in Seq(S)
      /\ Len(Tail(f)) = Len(f) - 1
      /\ \A i \in 1 .. Len(Tail(f)) : Tail(f)[i] = f[i + 1]
  BY HeadTailProperties, LenProperties, EmptySeq
<1>2. Head(f) \in S
  BY <1>1, ElementOfSeq
<1> DEFINE h == Head(f)
           t == Tail(f)
           g == <<h>> \o t
<1>3. <<h>> \in Seq(S) /\ Len(<<h>>) = 1
  BY <1>2
<1>4. /\ g \in Seq(S) /\ Len(g) = 1 + Len(t)
      /\ \A i \in 1 .. 1 + Len(t) : g[i] = IF i <= 1 THEN <<h>>[i] ELSE t[i - 1]
  BY <1>1, <1>3, ConcatProperties
<1> HIDE DEF g
<1>5. \A i \in 1 .. Len(f) : f[i] = g[i]
  <2>1. ASSUME NEW i \in 1 .. Len(f) PROVE f[i] = g[i]
    <3>1. CASE i = 1
      BY <1>1, <1>4, <3>1
    <3>2. CASE i # 1
      <4>1. i - 1 \in 1 .. Len(t) /\ (i - 1) + 1 = i /\ i \in 1 .. 1 + Len(t) /\ ~(i <= 1)
        BY <1>1, <3>2
      <4>2. g[i] = t[i - 1] /\ t[i - 1] = f[(i - 1) + 1]
        BY <1>1, <1>4, <4>1
      <4> QED
        BY <4>1, <4>2
    <3> QED
      BY <3>1, <3>2
  <2> QED
    BY <2>1
<1>6. f = g
  BY <1>1, <1>4, <1>5, SeqEqual
<1> QED
  BY <1>1, <1>2, <1>6 DEF g

\* A list without repetitions is no longer than what it is taken from is large.
LEMMA OnceLength ==
  ASSUME NEW S, IsFiniteSet(S), NEW f \in Seq(S), Once(f)
  PROVE  Len(f) = Cardinality({x \in S : In(f, x)})
<1> DEFINE D == 1 .. Len(f)
           R == {x \in S : In(f, x)}
<1>1. Len(f) \in Nat /\ f \in [D -> S]
  BY LenProperties
<1>2. f \in [D -> R]
  BY SMTT(30), <1>1, ElementOfSeq DEF In
<1>3. f \in Injection(D, R) /\ f \in Surjection(D, R)
  BY SMTT(30), <1>2 DEF Injection, IsInjective, Surjection, Once, In
<1>4. ExistsBijection(D, R)
  BY <1>3 DEF ExistsBijection, Bijection
<1>5. IsFiniteSet(D) /\ Cardinality(D) = Len(f)
  BY <1>1, FS_Interval
<1> QED
  BY <1>4, <1>5, FS_Bijection

LEMMA OnceSingle ==
  ASSUME NEW f
  PROVE  Once(f) <=> \A x : Single(f, x)
BY DEF Once, Single

LEMMA BeforeIn ==
  ASSUME NEW f, NEW x, NEW y, Before(f, x, y)
  PROVE  In(f, x) /\ In(f, y)
BY DEF Before, In
=============================================================================
