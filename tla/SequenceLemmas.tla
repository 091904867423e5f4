---------------------------- MODULE SequenceLemmas ----------------------------
(***************************************************************************)
(* Facts about numbers and sequences that the proofs of several components *)
(* rest on.                                                                *)
(***************************************************************************)
EXTENDS Integers, Sequences, SequencesExt, WellFoundedInduction, SequenceTheorems, TLAPS

\* A set of natural numbers has a least element.
LEMMA LeastNat ==
    ASSUME NEW T \in SUBSET Nat, T # {}
    PROVE  \E x \in T : \A y \in T : x <= y
<1>1. PICK x \in T : \A y \in T : ~(<<y, x>> \in OpToRel(<, Nat))
  BY NatLessThanWellFounded, WFMin, Zenon
<1>2. \A y \in T : ~(y < x)
  BY <1>1 DEF OpToRel
<1> QED BY <1>2

\* A set of numbers that are at most n has a greatest element.
LEMMA GreatestUpTo ==
    ASSUME NEW n \in Nat, NEW T \in SUBSET 1..n, T # {}
    PROVE  Max(T) \in T /\ \A y \in T : y <= Max(T)
<1> DEFINE U == {k \in 0..n : n - k \in T}
<1>1. \A y \in T : n - y \in U
  <2> SUFFICES ASSUME NEW y \in T PROVE n - y \in U OBVIOUS
  <2>1. y \in 1..n OBVIOUS
  <2>2. n - y \in 0..n /\ n - (n - y) = y BY <2>1
  <2> QED BY <2>2
<1>2. U \in SUBSET Nat /\ U # {}
  <2>1. U \subseteq 0..n /\ 0..n \subseteq Nat OBVIOUS
  <2>2. PICK y \in T : TRUE OBVIOUS
  <2>3. n - y \in U BY <1>1
  <2> HIDE DEF U
  <2> QED BY <2>1, <2>3
<1>3. PICK m \in U : \A y \in U : m <= y
  <2> HIDE DEF U
  <2> QED BY <1>2, LeastNat
<1>4. n - m \in T /\ m \in 0..n OBVIOUS
<1>5. \A y \in T : n - m >= y
  <2> SUFFICES ASSUME NEW y \in T PROVE n - m >= y OBVIOUS
  <2>1. m <= n - y /\ y \in 1..n BY <1>1, <1>3
  <2> QED BY <1>4, <2>1
<1>6. \E x \in T : \A y \in T : x >= y BY <1>4, <1>5
<1>7. Max(T) \in T /\ \A y \in T : Max(T) >= y BY <1>6, Zenon DEF Max
<1>8. T \subseteq Nat OBVIOUS
<1> QED BY <1>7, <1>8

\* Induction up to a number, for a set T of numbers.
LEMMA UpTo ==
    ASSUME NEW n \in Nat, NEW T, 0 \in T, \A k \in Nat : k < n /\ k \in T => k + 1 \in T
    PROVE  \A k \in 0..n : k \in T
<1> DEFINE U == {k \in 0..n : k \notin T}
<1>1. U = {}
  <2> SUFFICES ASSUME U # {} PROVE FALSE OBVIOUS
  <2>1. U \in SUBSET Nat OBVIOUS
  <2>2. PICK m \in U : \A k \in U : m <= k
    <3> HIDE DEF U
    <3> QED BY <2>1, LeastNat
  <2>3. m # 0 BY <2>2
  <2>4. m - 1 \in 0..n /\ m - 1 \in Nat /\ m - 1 < n /\ m - 1 \notin U BY <2>2, <2>3
  <2>5. m \in T BY <2>2, <2>4
  <2> QED BY <2>2, <2>5
<1> QED BY <1>1

\* The recursive function of FlattenSeq satisfies its equation.
LEMMA FlattenEquation ==
  ASSUME NEW S, NEW ss \in Seq(Seq(S)), ss # <<>>
  PROVE  \E g : /\ g = [i \in 1..Len(ss) |-> IF i = 1 THEN ss[i] ELSE g[i-1] \o ss[i]]
                /\ FlattenSeq(ss) = g[Len(ss)]
<1> DEFINE Step(g, i) == IF i = 1 THEN ss[i] ELSE g[i-1] \o ss[i]
           Good(n) == \E g : g = [i \in 1..n |-> Step(g, i)]
           T == {n \in 0..Len(ss) : ~Good(n)}
<1>1. Good(0)
  <2>1. [i \in 1..0 |-> Step(<<>>, i)] = [i \in 1..0 |-> Step([j \in 1..0 |-> Step(<<>>, j)], i)]
    OBVIOUS
  <2> QED BY <2>1
<1>2. ASSUME NEW n \in Nat, Good(n) PROVE Good(n+1)
  <2>1. PICK g : g = [i \in 1..n |-> Step(g, i)] BY <1>2
  <2> DEFINE h == [i \in 1..(n+1) |-> IF i <= n THEN g[i] ELSE Step(g, i)]
  <2>2. \A i \in 1..(n+1) : Step(h, i) = Step(g, i)
    OBVIOUS
  <2> DEFINE G == [i \in 1..n |-> Step(g, i)]
  <2>0. \A j \in 1..n : G[j] = Step(g, j)
    <3> HIDE DEF Step
    <3> QED OBVIOUS
  <2>00. g = G BY <2>1
  <2>000. \A j \in 1..n : g[j] = Step(g, j)
    <3> HIDE DEF G, Step
    <3> QED BY <2>0, <2>00
  <2>3. ASSUME NEW i \in 1..(n+1) PROVE h[i] = Step(g, i)
    <3>1. h[i] = IF i <= n THEN g[i] ELSE Step(g, i) OBVIOUS
    <3>2. i <= n => i \in 1..n OBVIOUS
    <3> HIDE DEF Step, h
    <3> QED BY <3>1, <3>2, <2>000
  <2> DEFINE k == [i \in 1..(n+1) |-> Step(h, i)]
  <2>4. h = k
    <3> HIDE DEF Step
    <3> QED BY <2>2, <2>3
  <2> QED BY <2>4
<1>3. T = {}
  <2> SUFFICES ASSUME T # {} PROVE FALSE OBVIOUS
  <2> HIDE DEF Good
  <2>0. T \in SUBSET Nat OBVIOUS
  <2>1. PICK m \in T : \A y \in T : m <= y
    <3> HIDE DEF T
    <3> QED BY <2>0, LeastNat
  <2>2. m # 0 BY <1>1, <2>1
  <2>3. m - 1 \in 0..Len(ss) /\ m - 1 \notin T BY <2>1, <2>2
  <2>4. Good(m - 1) BY <2>3
  <2>5. Good((m - 1) + 1) BY <1>2, <2>3, <2>4
  <2> QED BY <2>1, <2>5
<1>4. Good(Len(ss))
  <2> HIDE DEF Good
  <2>1. Len(ss) \in 0..Len(ss) OBVIOUS
  <2> QED BY <1>3, <2>1
<1> DEFINE f == CHOOSE g : g = [i \in 1..Len(ss) |-> IF i = 1 THEN ss[i] ELSE g[i-1] \o ss[i]]
<1>5. f = [i \in 1..Len(ss) |-> IF i = 1 THEN ss[i] ELSE f[i-1] \o ss[i]]
  BY <1>4, Zenon
<1>6. FlattenSeq(ss) = f[Len(ss)]
  BY DEF FlattenSeq
<1> QED BY <1>5, <1>6


\* The elements of a concatenation are those of both sequences.
LEMMA ConcatMembers ==
    ASSUME NEW S, NEW s \in Seq(S), NEW t \in Seq(S)
    PROVE  s \o t \in Seq(S) /\ ToSet(s \o t) = ToSet(s) \cup ToSet(t)
<1>1. /\ s \o t \in Seq(S) /\ Len(s \o t) = Len(s) + Len(t)
      /\ \A i \in 1..Len(s) : (s \o t)[i] = s[i]
      /\ \A i \in 1..Len(t) : (s \o t)[Len(s) + i] = t[i]
  OBVIOUS
<1>2. /\ DOMAIN (s \o t) = 1..(Len(s) + Len(t)) /\ DOMAIN s = 1..Len(s) /\ DOMAIN t = 1..Len(t)
      /\ Len(s) \in Nat /\ Len(t) \in Nat
  BY <1>1
<1>3. \A i \in 1..Len(s) : i \in 1..(Len(s) + Len(t)) BY <1>2
<1>4. \A i \in 1..Len(t) : Len(s) + i \in 1..(Len(s) + Len(t)) BY <1>2
<1>5. \A i \in 1..(Len(s) + Len(t)) : i \in 1..Len(s) \/ \E j \in 1..Len(t) : i = Len(s) + j
  <2> SUFFICES ASSUME NEW i \in 1..(Len(s) + Len(t)), i \notin 1..Len(s)
               PROVE  \E j \in 1..Len(t) : i = Len(s) + j
    OBVIOUS
  <2>1. i - Len(s) \in 1..Len(t) /\ i = Len(s) + (i - Len(s)) BY <1>2
  <2> QED BY <2>1
<1> DEFINE u == s \o t
<1>6. ToSet(u) \subseteq ToSet(s) \cup ToSet(t)
  <2> SUFFICES ASSUME NEW i \in DOMAIN u PROVE u[i] \in ToSet(s) \cup ToSet(t) BY DEF ToSet
  <2>1. CASE i \in 1..Len(s)
    BY <1>1, <1>2, <2>1 DEF ToSet
  <2>2. CASE \E j \in 1..Len(t) : i = Len(s) + j
    BY <1>1, <1>2, <2>2 DEF ToSet
  <2> QED BY <1>2, <1>5, <2>1, <2>2
<1>7. ToSet(s) \subseteq ToSet(u)
  <2> SUFFICES ASSUME NEW i \in DOMAIN s PROVE s[i] \in ToSet(u) BY DEF ToSet
  <2>1. u[i] = s[i] /\ i \in DOMAIN u BY <1>1, <1>2, <1>3
  <2> HIDE DEF u
  <2> QED BY <2>1 DEF ToSet
<1>8. ToSet(t) \subseteq ToSet(u)
  <2> SUFFICES ASSUME NEW i \in DOMAIN t PROVE t[i] \in ToSet(u) BY DEF ToSet
  <2>1. u[Len(s) + i] = t[i] /\ Len(s) + i \in DOMAIN u BY <1>1, <1>2, <1>4
  <2> HIDE DEF u
  <2> QED BY <2>1 DEF ToSet
<1> QED BY <1>1, <1>6, <1>7, <1>8

\* A sequence of members of S that has the elements of the first k sequences.
Collects(f, S, ss, k) ==
    f \in Seq(S) /\ \A x : x \in ToSet(f) <=> \E i \in 1..k : x \in ToSet(ss[i])

LEMMA FlattenPrefixes ==
    ASSUME NEW S, NEW ss \in Seq(Seq(S)), NEW g,
           \A i \in 1..Len(ss) : g[i] = IF i = 1 THEN ss[i] ELSE g[i - 1] \o ss[i]
    PROVE  \A k \in 1..Len(ss) : Collects(g[k], S, ss, k)
<1> DEFINE n == Len(ss)
<1>0. n \in Nat /\ \A i \in 1..n : g[i] = IF i = 1 THEN ss[i] ELSE g[i - 1] \o ss[i] OBVIOUS
<1> DEFINE T == {k \in Nat : k = 0 \/ Collects(g[k], S, ss, k)}
<1>1. \A i \in 1..n : ss[i] \in Seq(S)
  BY ElementOfSeq
<1> HIDE DEF n
<1>2. ASSUME NEW k \in Nat, k < n, k \in T PROVE k + 1 \in T
  <2>1. k + 1 \in 1..n BY <1>0, <1>2
  <2>0. ss[k + 1] \in Seq(S) BY <1>1, <2>1
  <2>2. CASE k = 0
    <3>1. g[1] = ss[1] BY <1>0, <2>1, <2>2
    <3>2. 1..1 = {1} OBVIOUS
    <3>3. Collects(g[1], S, ss, 1) BY <2>0, <2>2, <3>1, <3>2 DEF Collects
    <3> QED BY <2>2, <3>3
  <2>3. CASE k # 0
    <3>1. g[k + 1] = g[k] \o ss[k + 1]
      <4>1. k + 1 # 1 /\ (k + 1) - 1 = k BY <2>3
      <4> QED BY <1>0, <2>1, <4>1
    <3>2. Collects(g[k], S, ss, k) BY <1>2, <2>3
    <3>3. g[k + 1] \in Seq(S) /\ ToSet(g[k + 1]) = ToSet(g[k]) \cup ToSet(ss[k + 1])
      <4>1. g[k] \in Seq(S) BY <3>2 DEF Collects
      <4> QED BY <2>0, <3>1, <4>1, ConcatMembers
    <3>5. 1..(k + 1) = 1..k \cup {k + 1} BY <1>2
    <3>6. Collects(g[k + 1], S, ss, k + 1) BY <3>2, <3>3, <3>5 DEF Collects
    <3> QED BY <3>6
  <2> QED BY <2>2, <2>3
<1>3. \A k \in 0..n : k \in T
  <2>1. 0 \in T OBVIOUS
  <2> HIDE DEF T
  <2> QED BY <1>0, <1>2, <2>1, UpTo
<1>4. \A k \in 1..n : k \in 0..n /\ k # 0 OBVIOUS
<1>5. \A k \in 1..n : Collects(g[k], S, ss, k) BY <1>3, <1>4
<1> QED BY <1>5 DEF n

\* FlattenSeq keeps the elements and adds none.
LEMMA FlattenMembers ==
    ASSUME NEW S, NEW ss \in Seq(Seq(S))
    PROVE  /\ FlattenSeq(ss) \in Seq(S)
           /\ \A x : x \in ToSet(FlattenSeq(ss)) <=> \E i \in DOMAIN ss : x \in ToSet(ss[i])
<1>1. CASE ss = <<>>
  <2>1. FlattenSeq(ss) = <<>> BY <1>1 DEF FlattenSeq
  <2>2. DOMAIN ss = {} /\ DOMAIN FlattenSeq(ss) = {} BY <1>1, <2>1
  <2>3. ToSet(FlattenSeq(ss)) = {} BY <2>2 DEF ToSet
  <2>4. <<>> \in Seq(S) OBVIOUS
  <2> QED BY <2>1, <2>2, <2>3, <2>4
<1>2. CASE ss # <<>>
  <2>1. PICK g : /\ g = [i \in 1..Len(ss) |-> IF i = 1 THEN ss[i] ELSE g[i-1] \o ss[i]]
                 /\ FlattenSeq(ss) = g[Len(ss)]
    BY <1>2, FlattenEquation
  <2> DEFINE G == [i \in 1..Len(ss) |-> IF i = 1 THEN ss[i] ELSE g[i-1] \o ss[i]]
  <2>2. \A i \in 1..Len(ss) : G[i] = IF i = 1 THEN ss[i] ELSE g[i - 1] \o ss[i]
    OBVIOUS
  <2>3. \A i \in 1..Len(ss) : g[i] = IF i = 1 THEN ss[i] ELSE g[i - 1] \o ss[i]
    <3>1. g = G BY <2>1
    <3> HIDE DEF G
    <3> QED BY <2>2, <3>1
  <2> HIDE DEF G
  <2>4. Len(ss) \in 1..Len(ss) /\ DOMAIN ss = 1..Len(ss)
    BY <1>2
  <2>5. \A k \in 1..Len(ss) : Collects(g[k], S, ss, k)
    BY <2>3, FlattenPrefixes
  <2>6. Collects(FlattenSeq(ss), S, ss, Len(ss))
    BY <2>1, <2>4, <2>5
  <2> QED BY <2>4, <2>6 DEF Collects
<1> QED BY <1>1, <1>2

\* The elements of a sequence have its type.
LEMMA ElementType ==
    ASSUME NEW S, NEW s \in Seq(S)
    PROVE  \A i \in DOMAIN s : i \in Nat \ {0} /\ s[i] \in S
<1> QED BY ElementOfSeq


\* The members of sequences that are put together come one after the other.
LEMMA FlattenConcat ==
    ASSUME NEW S, NEW ss \in Seq(Seq(S)), NEW tt \in Seq(Seq(S))
    PROVE  FlattenSeq(ss \o tt) = FlattenSeq(ss) \o FlattenSeq(tt)
<1> DEFINE T == Seq(S)
           uu == ss \o tt
           m == Len(ss)
           n == Len(tt)
<1>0. FlattenSeq(<<>>) = <<>> BY DEF FlattenSeq
<1>1. FlattenSeq(ss) \in Seq(S) /\ FlattenSeq(tt) \in Seq(S) BY FlattenMembers
<1>5. \A a, b, c \in Seq(S) : (a \o b) \o c = a \o (b \o c)
  <2> SUFFICES ASSUME NEW a \in Seq(S), NEW b \in Seq(S), NEW c \in Seq(S) PROVE (a \o b) \o c = a \o (b \o c)
    OBVIOUS
  <2> QED OBVIOUS
<1>2. CASE ss = <<>>
  <2>1. uu = tt BY <1>2
  <2>2. <<>> \o FlattenSeq(tt) = FlattenSeq(tt) BY <1>1
  <2> QED BY <1>0, <1>2, <2>1, <2>2
<1>3. CASE tt = <<>>
  <2>1. uu = ss BY <1>3
  <2>2. FlattenSeq(ss) \o <<>> = FlattenSeq(ss) BY <1>1
  <2> QED BY <1>0, <1>3, <2>1, <2>2
<1>4. CASE ss # <<>> /\ tt # <<>>
  <2>1. /\ m \in Nat \ {0} /\ n \in Nat \ {0} /\ uu \in Seq(T) /\ Len(uu) = m + n /\ uu # <<>>
        /\ \A i \in 1..m : uu[i] = ss[i]
        /\ \A i \in 1..n : uu[m + i] = tt[i]
    BY <1>4
  <2>2. PICK f : /\ f = [i \in 1..m |-> IF i = 1 THEN ss[i] ELSE f[i-1] \o ss[i]] /\ FlattenSeq(ss) = f[m]
    BY <1>4, FlattenEquation
  <2>3. PICK g : /\ g = [i \in 1..n |-> IF i = 1 THEN tt[i] ELSE g[i-1] \o tt[i]] /\ FlattenSeq(tt) = g[n]
    BY <1>4, FlattenEquation
  <2>4. PICK h : /\ h = [i \in 1..Len(uu) |-> IF i = 1 THEN uu[i] ELSE h[i-1] \o uu[i]]
                 /\ FlattenSeq(uu) = h[Len(uu)]
    <3> HIDE DEF uu
    <3> QED BY <2>1, FlattenEquation DEF T
  <2>5. \A i \in 1..m : f[i] = IF i = 1 THEN ss[i] ELSE f[i-1] \o ss[i]
    <3> DEFINE F == [i \in 1..m |-> IF i = 1 THEN ss[i] ELSE f[i-1] \o ss[i]]
    <3>1. \A i \in 1..m : F[i] = IF i = 1 THEN ss[i] ELSE f[i-1] \o ss[i] OBVIOUS
    <3>2. f = F BY <2>2
    <3> HIDE DEF F
    <3> QED BY <3>1, <3>2
  <2>6. \A i \in 1..n : g[i] = IF i = 1 THEN tt[i] ELSE g[i-1] \o tt[i]
    <3> DEFINE F == [i \in 1..n |-> IF i = 1 THEN tt[i] ELSE g[i-1] \o tt[i]]
    <3>1. \A i \in 1..n : F[i] = IF i = 1 THEN tt[i] ELSE g[i-1] \o tt[i] OBVIOUS
    <3>2. g = F BY <2>3
    <3> HIDE DEF F
    <3> QED BY <3>1, <3>2
  <2>7. \A i \in 1..Len(uu) : h[i] = IF i = 1 THEN uu[i] ELSE h[i-1] \o uu[i]
    <3> DEFINE F == [i \in 1..Len(uu) |-> IF i = 1 THEN uu[i] ELSE h[i-1] \o uu[i]]
    <3>1. \A i \in 1..Len(uu) : F[i] = IF i = 1 THEN uu[i] ELSE h[i-1] \o uu[i]
      <4> HIDE DEF uu
      <4> QED OBVIOUS
    <3>2. h = F BY <2>4
    <3> HIDE DEF F, uu
    <3> QED BY <3>1, <3>2
  <2>8. \A k \in 1..n : g[k] \in Seq(S)
    <3>1. \A k \in 1..n : Collects(g[k], S, tt, k)
      <4>1. \A i \in 1..Len(tt) : g[i] = IF i = 1 THEN tt[i] ELSE g[i - 1] \o tt[i] BY <2>6
      <4>2. \A k \in 1..Len(tt) : Collects(g[k], S, tt, k) BY <4>1, FlattenPrefixes
      <4> QED BY <4>2
    <3> QED BY <3>1 DEF Collects
  <2>9. \A i \in 1..m : ss[i] \in Seq(S) OBVIOUS
  <2>10. \A i \in 1..n : tt[i] \in Seq(S) OBVIOUS
  <2> HIDE DEF uu, m, n
  <2>11. \A k \in 0..m : k = 0 \/ h[k] = f[k]
    <3> DEFINE A == {k \in Nat : k = 0 \/ h[k] = f[k]}
    <3>1. ASSUME NEW k \in Nat, k < m, k \in A PROVE k + 1 \in A
      <4>1. k + 1 \in 1..m /\ k + 1 \in 1..Len(uu) BY <2>1, <3>1
      <4>2. CASE k = 0
        <5>1. h[1] = uu[1] /\ f[1] = ss[1] /\ uu[1] = ss[1] BY <2>1, <2>5, <2>7, <4>1, <4>2
        <5> QED BY <4>2, <5>1
      <4>3. CASE k # 0
        <5>1. (k + 1) - 1 = k /\ k + 1 # 1 BY <4>3
        <5>2. h[k + 1] = h[k] \o uu[k + 1] /\ f[k + 1] = f[k] \o ss[k + 1] BY <2>5, <2>7, <4>1, <5>1
        <5>3. uu[k + 1] = ss[k + 1] /\ h[k] = f[k] BY <2>1, <3>1, <4>1, <4>3
        <5>4. h[k + 1] = f[k + 1] /\ k + 1 \in Nat BY <5>2, <5>3
        <5> QED BY <5>4
      <4> QED BY <4>2, <4>3
    <3>2. 0 \in A OBVIOUS
    <3>3. \A k \in 0..m : k \in A
      <4> HIDE DEF A
      <4> QED BY <2>1, <3>1, <3>2, UpTo
    <3> QED BY <3>3
  <2>12. h[m] = f[m]
    <3>1. m \in 0..m /\ m # 0 BY <2>1
    <3> QED BY <2>11, <3>1
  <2>13. f[m] \in Seq(S) BY <1>1, <2>2
  <2>14. \A k \in 0..n : k = 0 \/ h[m + k] = f[m] \o g[k]
    <3> DEFINE A == {k \in Nat : k = 0 \/ h[m + k] = f[m] \o g[k]}
    <3>1. ASSUME NEW k \in Nat, k < n, k \in A PROVE k + 1 \in A
      <4>1. /\ k + 1 \in 1..n /\ m + (k + 1) \in 1..Len(uu) /\ m + (k + 1) # 1 /\ (m + (k + 1)) - 1 = m + k
        BY <2>1, <3>1
      <4>2. h[m + (k + 1)] = h[m + k] \o tt[k + 1]
        <5>1. h[m + (k + 1)] = h[m + k] \o uu[m + (k + 1)] BY <2>7, <4>1
        <5> QED BY <2>1, <4>1, <5>1
      <4>3. CASE k = 0
        <5>0. m + k = m /\ k + 1 = 1 BY <2>1, <4>3
        <5>1. g[k + 1] = tt[k + 1] /\ h[m + k] = f[m] BY <2>6, <2>12, <4>1, <5>0
        <5>2. h[m + (k + 1)] = f[m] \o g[k + 1] /\ k + 1 \in Nat BY <4>2, <5>1
        <5> QED BY <5>2
      <4>4. CASE k # 0
        <5>1. k \in 1..n /\ (k + 1) - 1 = k /\ k + 1 # 1 BY <2>1, <3>1, <4>4
        <5>2. g[k + 1] = g[k] \o tt[k + 1] BY <2>6, <4>1, <5>1
        <5>3. h[m + k] = f[m] \o g[k] BY <3>1, <4>4
        <5>4. g[k] \in Seq(S) /\ tt[k + 1] \in Seq(S) BY <2>8, <2>10, <4>1, <5>1
        <5>5. (f[m] \o g[k]) \o tt[k + 1] = f[m] \o (g[k] \o tt[k + 1]) BY <1>5, <2>13, <5>4
        <5>6. h[m + (k + 1)] = f[m] \o g[k + 1] BY <4>2, <5>2, <5>3, <5>5
        <5>7. k + 1 \in Nat OBVIOUS
        <5> QED BY <5>6, <5>7
      <4> QED BY <4>3, <4>4
    <3>2. 0 \in A OBVIOUS
    <3>3. \A k \in 0..n : k \in A
      <4> HIDE DEF A
      <4> QED BY <2>1, <3>1, <3>2, UpTo
    <3> QED BY <3>3
  <2>15. h[m + n] = f[m] \o g[n]
    <3>1. n \in 0..n /\ n # 0 BY <2>1
    <3> QED BY <2>14, <3>1
  <2> QED BY <2>1, <2>2, <2>3, <2>4, <2>15 DEF uu
<1> QED BY <1>2, <1>3, <1>4

\* No member of a sequence is there twice.
NoRepeat(s) == \A i, j \in DOMAIN s : s[i] = s[j] => i = j

\* Sequences without a common member can be put together.
LEMMA ConcatNoRepeat ==
    ASSUME NEW S, NEW s \in Seq(S), NEW t \in Seq(S), NoRepeat(s), NoRepeat(t), \A x \in ToSet(s) : x \notin ToSet(t)
    PROVE  NoRepeat(s \o t)
<1> DEFINE u == s \o t
           m == Len(s)
           n == Len(t)
<1>1. /\ u \in Seq(S) /\ Len(u) = m + n
      /\ \A i \in 1..m : u[i] = s[i]
      /\ \A i \in 1..n : u[m + i] = t[i]
  OBVIOUS
<1>2. DOMAIN u = 1..(m + n) /\ DOMAIN s = 1..m /\ DOMAIN t = 1..n /\ m \in Nat /\ n \in Nat
  BY <1>1
<1> HIDE DEF u, m, n
<1>3. \A i \in 1..(m + n) : i \in 1..m \/ (i - m \in 1..n /\ u[i] = t[i - m])
  <2> SUFFICES ASSUME NEW i \in 1..(m + n), i \notin 1..m PROVE i - m \in 1..n /\ u[i] = t[i - m] OBVIOUS
  <2>1. i - m \in 1..n /\ i = m + (i - m) BY <1>2
  <2> QED BY <1>1, <2>1
<1>4. \A i \in 1..m : \A j \in 1..n : s[i] # t[j]
  <2> SUFFICES ASSUME NEW i \in 1..m, NEW j \in 1..n PROVE s[i] # t[j] OBVIOUS
  <2>1. s[i] \in ToSet(s) /\ t[j] \in ToSet(t) BY <1>2, Zenon DEF ToSet
  <2> QED BY <2>1
<1>5. ASSUME NEW i \in DOMAIN u, NEW j \in DOMAIN u, u[i] = u[j] PROVE i = j
  <2>1. CASE i \in 1..m /\ j \in 1..m
    <3>1. s[i] = s[j] BY <1>1, <1>5, <2>1
    <3> QED BY <1>2, <2>1, <3>1 DEF NoRepeat
  <2>2. CASE i \notin 1..m /\ j \notin 1..m
    <3>1. i - m \in 1..n /\ j - m \in 1..n /\ t[i - m] = t[j - m] BY <1>2, <1>3, <1>5, <2>2
    <3>2. i - m = j - m BY <1>2, <3>1, Zenon DEF NoRepeat
    <3> QED BY <1>2, <1>5, <3>2
  <2>3. CASE i \in 1..m /\ j \notin 1..m BY <1>1, <1>2, <1>3, <1>4, <1>5, <2>3
  <2>4. CASE i \notin 1..m /\ j \in 1..m BY <1>1, <1>2, <1>3, <1>4, <1>5, <2>4
  <2> QED BY <2>1, <2>2, <2>3, <2>4
<1> QED BY <1>5 DEF NoRepeat, u

\* Also many sequences.
LEMMA FlattenNoRepeat ==
    ASSUME NEW S, NEW ss \in Seq(Seq(S)), \A i \in DOMAIN ss : NoRepeat(ss[i]),
           \A i, j \in DOMAIN ss : i # j => \A x \in ToSet(ss[i]) : x \notin ToSet(ss[j])
    PROVE  NoRepeat(FlattenSeq(ss))
<1>1. CASE ss = <<>>
  <2>1. FlattenSeq(ss) = <<>> BY <1>1 DEF FlattenSeq
  <2> QED BY <2>1 DEF NoRepeat
<1>2. CASE ss # <<>>
  <2>1. PICK g : /\ g = [i \in 1..Len(ss) |-> IF i = 1 THEN ss[i] ELSE g[i-1] \o ss[i]]
                 /\ FlattenSeq(ss) = g[Len(ss)]
    BY <1>2, FlattenEquation
  <2> DEFINE G == [i \in 1..Len(ss) |-> IF i = 1 THEN ss[i] ELSE g[i-1] \o ss[i]]
  <2>2. \A i \in 1..Len(ss) : G[i] = IF i = 1 THEN ss[i] ELSE g[i - 1] \o ss[i]
    OBVIOUS
  <2>3. \A i \in 1..Len(ss) : g[i] = IF i = 1 THEN ss[i] ELSE g[i - 1] \o ss[i]
    <3>1. g = G BY <2>1
    <3> HIDE DEF G
    <3> QED BY <2>2, <3>1
  <2> HIDE DEF G
  <2> DEFINE n == Len(ss)
  <2>4. n \in Nat /\ n \in 1..n /\ DOMAIN ss = 1..n BY <1>2
  <2>5. \A k \in 1..n : Collects(g[k], S, ss, k) BY <2>3, FlattenPrefixes
  <2>6. \A k \in 1..n : ss[k] \in Seq(S) BY ElementOfSeq
  <2>7. \A k \in 1..n : g[k] = IF k = 1 THEN ss[k] ELSE g[k - 1] \o ss[k] BY <2>3
  <2>8. FlattenSeq(ss) = g[n] BY <2>1
  <2> HIDE DEF n
  <2> DEFINE T == {k \in Nat : k = 0 \/ NoRepeat(g[k])}
  <2>9. ASSUME NEW k \in Nat, k < n, k \in T PROVE k + 1 \in T
    <3>1. k + 1 \in 1..n BY <2>4, <2>9
    <3>2. CASE k = 0
      <4>1. g[k + 1] = ss[k + 1] BY <2>7, <3>1, <3>2
      <4>2. NoRepeat(ss[k + 1]) BY <2>4, <3>1
      <4>3. k + 1 \in Nat /\ NoRepeat(g[k + 1]) BY <2>9, <4>1, <4>2
      <4> QED BY <4>3
    <3>3. CASE k # 0
      <4>1. k \in 1..n /\ k + 1 # 1 /\ (k + 1) - 1 = k BY <2>4, <2>9, <3>3
      <4>2. g[k + 1] = g[k] \o ss[k + 1] BY <2>7, <3>1, <4>1
      <4>3. NoRepeat(g[k]) /\ NoRepeat(ss[k + 1]) BY <2>4, <2>9, <3>1, <3>3
      <4>4. g[k] \in Seq(S) /\ ss[k + 1] \in Seq(S) BY <2>5, <2>6, <3>1, <4>1 DEF Collects
      <4>5. \A x \in ToSet(g[k]) : x \notin ToSet(ss[k + 1])
        <5> SUFFICES ASSUME NEW x \in ToSet(g[k]) PROVE x \notin ToSet(ss[k + 1]) OBVIOUS
        <5>1. PICK i \in 1..k : x \in ToSet(ss[i]) BY <2>5, <4>1 DEF Collects
        <5>2. i \in 1..n /\ i # k + 1 BY <2>4, <2>9, <3>1
        <5> QED BY <2>4, <3>1, <5>1, <5>2
      <4>6. NoRepeat(g[k] \o ss[k + 1]) BY <4>3, <4>4, <4>5, ConcatNoRepeat
      <4>7. k + 1 \in Nat /\ NoRepeat(g[k + 1]) BY <2>9, <4>2, <4>6
      <4> QED BY <4>7
    <3> QED BY <3>2, <3>3
  <2>10. \A k \in 0..n : k \in T
    <3>1. 0 \in T OBVIOUS
    <3> HIDE DEF T
    <3> QED BY <2>4, <2>9, <3>1, UpTo
  <2>11. n \in 0..n /\ n # 0 BY <2>4
  <2>12. NoRepeat(g[n]) BY <2>10, <2>11
  <2> QED BY <2>8, <2>12
<1> QED BY <1>1, <1>2

===============================================================================
