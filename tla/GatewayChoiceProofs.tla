-------------------------- MODULE GatewayChoiceProofs --------------------------
(***************************************************************************)
(* Theorems about what GatewayTraffic chooses and what it leaves out, for  *)
(* every cluster and command line: the rule it follows is the one that the *)
(* Gateway API prefers, the problems it drops are counted, and the stage   *)
(* it names when no rule serves the request is the one that stops it.      *)
(***************************************************************************)
EXTENDS GatewayProofs

-------------------------------------------------------------------------------
(* Which rule wins.  A way to serve a request is judged by one number      *)
(* after the other, which is the order of the sequences of these numbers.  *)

\* Of two sequences that are put together the first part decides, then the rest.
LEMMA NumbersSeq ==
    ASSUME NEW n \in Nat, NEW s \in [1..n -> Nat]
    PROVE  s \in Seq(Nat) /\ Len(s) = n
<1>1. s \in Seq(Nat) BY SeqDef
<1>2. DOMAIN s = 1..Len(s) /\ DOMAIN s = 1..n /\ Len(s) \in Nat BY <1>1
<1> QED BY <1>1, <1>2

LEMMA ConcatIs ==
    ASSUME NEW s \in Seq(Nat), NEW u \in Seq(Nat)
    PROVE  /\ s \o u \in Seq(Nat) /\ Len(s \o u) = Len(s) + Len(u)
           /\ \A i \in 1..Len(s) : (s \o u)[i] = s[i]
           /\ \A k \in 1..Len(u) : (s \o u)[Len(s) + k] = u[k]
<1>1. s \o u \in Seq(Nat) OBVIOUS
<1>2. Len(s \o u) = Len(s) + Len(u) OBVIOUS
<1>3. \A i \in 1..Len(s) : (s \o u)[i] = s[i] OBVIOUS
<1>4. \A k \in 1..Len(u) : (s \o u)[Len(s) + k] = u[k] OBVIOUS
<1> QED BY <1>1, <1>2, <1>3, <1>4

LEMMA ConcatNumbers ==
    ASSUME NEW n \in Nat, NEW m \in Nat, NEW s \in [1..n -> Nat], NEW u \in [1..m -> Nat]
    PROVE  /\ s \o u \in [1..(n + m) -> Nat]
           /\ \A i \in 1..n : (s \o u)[i] = s[i]
           /\ \A k \in 1..m : (s \o u)[n + k] = u[k]
<1>1. s \in Seq(Nat) /\ Len(s) = n BY NumbersSeq
<1>2. u \in Seq(Nat) /\ Len(u) = m BY NumbersSeq
<1> DEFINE x == s \o u
<1>3. /\ x \in Seq(Nat) /\ Len(x) = Len(s) + Len(u)
      /\ \A i \in 1..Len(s) : x[i] = s[i]
      /\ \A k \in 1..Len(u) : x[Len(s) + k] = u[k]
  BY <1>1, <1>2, ConcatIs
<1> HIDE DEF x
<1>4. x \in [1..(n + m) -> Nat]
  <2>1. Len(x) = n + m BY <1>1, <1>2, <1>3
  <2>2. x \in [1..Len(x) -> Nat]
    <3>1. x \in Seq(Nat) BY <1>3
    <3> QED BY <3>1, LenProperties
  <2> QED BY <2>1, <2>2
<1>5. (\A i \in 1..n : x[i] = s[i]) /\ (\A k \in 1..m : x[n + k] = u[k]) BY <1>1, <1>2, <1>3
<1> QED BY <1>4, <1>5 DEF x

LEMMA LexConcat ==
    ASSUME NEW n \in Nat, NEW m \in Nat, NEW s \in [1..n -> Nat], NEW t \in [1..n -> Nat],
           NEW u \in [1..m -> Nat], NEW v \in [1..m -> Nat]
    PROVE  /\ s \o u \in [1..(n + m) -> Nat]
           /\ LexLess(s \o u, t \o v) <=> LexLess(s, t) \/ (s = t /\ LexLess(u, v))
<1> DEFINE x == s \o u
           y == t \o v
<1>1. s \in Seq(Nat) /\ t \in Seq(Nat) /\ u \in Seq(Nat) /\ v \in Seq(Nat)
      /\ Len(s) = n /\ Len(t) = n /\ Len(u) = m /\ Len(v) = m
  BY NumbersSeq
<1>a. /\ x \in [1..(n + m) -> Nat]
      /\ \A i \in 1..n : x[i] = s[i]
      /\ \A k \in 1..m : x[n + k] = u[k]
  BY ConcatNumbers
<1>b. /\ y \in [1..(n + m) -> Nat]
      /\ \A i \in 1..n : y[i] = t[i]
      /\ \A k \in 1..m : y[n + k] = v[k]
  BY ConcatNumbers
<1> HIDE DEF x, y
<1>2. /\ x \in [1..(n + m) -> Nat] /\ y \in [1..(n + m) -> Nat]
      /\ \A i \in 1..n : x[i] = s[i] /\ y[i] = t[i]
      /\ \A i \in 1..m : x[n + i] = u[i] /\ y[n + i] = v[i]
  BY <1>a, <1>b
<1>3. DOMAIN x = 1..(n + m) /\ DOMAIN s = 1..n /\ DOMAIN u = 1..m BY <1>2
<1>4. ASSUME LexLess(x, y) PROVE LexLess(s, t) \/ (s = t /\ LexLess(u, v))
  <2>1. PICK i \in 1..(n + m) : x[i] < y[i] /\ \A j \in 1..(i - 1) : x[j] = y[j] BY <1>3, <1>4 DEF LexLess
  <2>2. CASE i <= n
    <3>1. i \in 1..n /\ \A j \in 1..(i - 1) : j \in 1..n BY <2>1, <2>2
    <3>2. s[i] < t[i] /\ \A j \in 1..(i - 1) : s[j] = t[j] BY <1>2, <2>1, <3>1
    <3> QED BY <1>3, <3>1, <3>2 DEF LexLess
  <2>3. CASE ~(i <= n)
    <3> DEFINE k == i - n
    <3>1. k \in 1..m /\ i = n + k BY <2>1, <2>3
    <3>2. \A j \in 1..n : j \in 1..(i - 1) BY <2>1, <2>3
    <3>3. s = t
      <4>1. \A j \in 1..n : s[j] = t[j] BY <1>2, <2>1, <3>2
      <4> QED BY <4>1
    <3>4. ASSUME NEW j \in 1..(k - 1) PROVE u[j] = v[j]
      <4>1. n + j \in 1..(i - 1) /\ j \in 1..m BY <3>1
      <4> QED BY <1>2, <2>1, <4>1
    <3>5. u[k] < v[k] BY <1>2, <2>1, <3>1
    <3> QED BY <1>3, <3>1, <3>3, <3>4, <3>5 DEF LexLess
  <2> QED BY <2>2, <2>3
<1>5. ASSUME LexLess(s, t) PROVE LexLess(x, y)
  <2>1. PICK i \in 1..n : s[i] < t[i] /\ \A j \in 1..(i - 1) : s[j] = t[j] BY <1>3, <1>5 DEF LexLess
  <2>2. i \in 1..(n + m) /\ \A j \in 1..(i - 1) : j \in 1..n BY <2>1
  <2>3. x[i] < y[i] /\ \A j \in 1..(i - 1) : x[j] = y[j] BY <1>2, <2>1, <2>2
  <2> QED BY <1>3, <2>2, <2>3 DEF LexLess
<1>6. ASSUME s = t, LexLess(u, v) PROVE LexLess(x, y)
  <2>1. PICK i \in 1..m : u[i] < v[i] /\ \A j \in 1..(i - 1) : u[j] = v[j] BY <1>3, <1>6 DEF LexLess
  <2> DEFINE k == n + i
  <2>2. k \in 1..(n + m) /\ x[k] < y[k] BY <1>2, <2>1
  <2>3. ASSUME NEW j \in 1..(k - 1) PROVE x[j] = y[j]
    <3>1. CASE j <= n
      <4>1. j \in 1..n BY <3>1
      <4> QED BY <1>2, <1>6, <4>1
    <3>2. CASE ~(j <= n)
      <4> DEFINE o == j - n
      <4>1. o \in 1..(i - 1) /\ o \in 1..m /\ j = n + o BY <2>1, <3>2
      <4> QED BY <1>2, <2>1, <4>1
    <3> QED BY <3>1, <3>2
  <2> QED BY <1>3, <2>2, <2>3 DEF LexLess
<1> QED BY <1>2, <1>4, <1>5, <1>6 DEF x, y

LEMMA LexNot ==
    ASSUME NEW n \in Nat, NEW s \in [1..n -> Nat]
    PROVE  ~LexLess(s, s)
<1> SUFFICES ASSUME LexLess(s, s) PROVE FALSE OBVIOUS
<1>1. PICK i \in 1..n : s[i] < s[i] BY DEF LexLess
<1>2. s[i] \in Nat BY <1>1
<1> QED BY <1>1, <1>2

LEMMA LexOne ==
    ASSUME NEW p \in Nat, NEW q \in Nat
    PROVE  <<p>> \in [1..1 -> Nat] /\ (LexLess(<<p>>, <<q>>) <=> p < q)
<1>1. DOMAIN <<p>> = {1} /\ 1..1 = {1} /\ 1..(1 - 1) = {} OBVIOUS
<1>2. <<p>> = [i \in 1..1 |-> p] OBVIOUS
<1>3. <<p>> \in [1..1 -> Nat] BY <1>2
<1>4. <<p>>[1] = p /\ <<q>>[1] = q OBVIOUS
<1>5. LexLess(<<p>>, <<q>>) <=> \E i \in {1} : <<p>>[i] < <<q>>[i] /\ \A j \in 1..(i - 1) : <<p>>[j] = <<q>>[j]
  BY <1>1 DEF LexLess
<1> QED BY <1>1, <1>3, <1>4, <1>5

\* The elements with the greatest key.
Keyed(W, F) == {w \in W : \A y \in W : ~LexLess(F[w], F[y])}

\* One more number after a key.
OneMore(W, F, G) == [w \in W |-> F[w] \o <<G[w]>>]

LEMMA MostStep ==
    ASSUME NEW W, NEW n \in Nat, NEW F \in [W -> [1..n -> Nat]], NEW G \in [W -> Nat]
    PROVE  /\ API!Most(Keyed(W, F), G) = Keyed(W, OneMore(W, F, G))
           /\ OneMore(W, F, G) \in [W -> [1..(n + 1) -> Nat]]
<1> DEFINE H == [w \in W |-> F[w] \o <<G[w]>>]
<1>1. ASSUME NEW w \in W, NEW y \in W
      PROVE  /\ H[w] \in [1..(n + 1) -> Nat]
             /\ LexLess(H[w], H[y]) <=> LexLess(F[w], F[y]) \/ (F[w] = F[y] /\ G[w] < G[y])
  <2> DEFINE s == F[w]
             t == F[y]
             u == <<G[w]>>
             v == <<G[y]>>
  <2>1. s \in [1..n -> Nat] /\ t \in [1..n -> Nat] OBVIOUS
  <2>2. G[w] \in Nat /\ G[y] \in Nat OBVIOUS
  <2>3. u \in [1..1 -> Nat] /\ v \in [1..1 -> Nat] /\ (LexLess(u, v) <=> G[w] < G[y]) BY <2>2, LexOne
  <2>4. H[w] = s \o u /\ H[y] = t \o v OBVIOUS
  <2> HIDE DEF H, s, t, u, v
  <2>5. 1 \in Nat OBVIOUS
  <2>6. s \o u \in [1..(n + 1) -> Nat] /\ (LexLess(s \o u, t \o v) <=> LexLess(s, t) \/ (s = t /\ LexLess(u, v)))
    BY <2>1, <2>3, <2>5, LexConcat
  <2> QED BY <2>3, <2>4, <2>6 DEF s, t
<1>2. H \in [W -> [1..(n + 1) -> Nat]]
  <2>1. \A w \in W : H[w] \in [1..(n + 1) -> Nat] BY <1>1
  <2> QED BY <2>1
<1> HIDE DEF H
<1>3. ASSUME NEW x \in API!Most(Keyed(W, F), G) PROVE x \in Keyed(W, H)
  <2>1. x \in W /\ \A y \in W : ~LexLess(F[x], F[y]) BY <1>3 DEF API!Most, Keyed
  <2>2. ASSUME NEW y \in W, F[x] = F[y] PROVE ~(G[x] < G[y])
    <3>1. y \in Keyed(W, F) BY <2>1, <2>2 DEF Keyed
    <3>2. G[y] <= G[x] BY <1>3, <3>1 DEF API!Most
    <3> QED BY <2>1, <3>2
  <2> QED BY <1>1, <2>1, <2>2 DEF Keyed
<1>4. ASSUME NEW x \in Keyed(W, H) PROVE x \in API!Most(Keyed(W, F), G)
  <2>1. x \in W /\ \A y \in W : ~LexLess(H[x], H[y]) BY <1>4 DEF Keyed
  <2>2. x \in Keyed(W, F) BY <1>1, <2>1 DEF Keyed
  <2>3. ASSUME NEW y \in Keyed(W, F) PROVE G[y] <= G[x]
    <3>1. y \in W /\ ~LexLess(F[x], F[y]) /\ ~LexLess(F[y], F[x]) BY <2>1, <2>2 DEF Keyed
    <3>2. F[x] \in [1..n -> Nat] /\ F[y] \in [1..n -> Nat] BY <2>1, <3>1
    <3>3. F[x] = F[y] BY <3>1, <3>2, LexTotal
    <3>4. ~(G[x] < G[y]) BY <1>1, <2>1, <3>1, <3>3
    <3> QED BY <2>1, <3>1, <3>4
  <2> QED BY <2>2, <2>3 DEF API!Most
<1> QED BY <1>2, <1>3, <1>4 DEF H, OneMore

\* A set of bounded numbers has a largest, one of bounded sequences a greatest.
LEMMA LargestUpTo ==
    ASSUME NEW b \in Nat, NEW T \in SUBSET (0..b), T # {}
    PROVE  \E x \in T : \A y \in T : y <= x
<1> DEFINE U == {b - y : y \in T}
<1>1. U \in SUBSET Nat /\ U # {}
  <2>1. \A y \in T : b - y \in Nat OBVIOUS
  <2> QED BY <2>1
<1>2. PICK u \in U : \A v \in U : u <= v
  <2> HIDE DEF U
  <2> QED BY <1>1, LeastNat
<1>3. PICK x \in T : u = b - x BY <1>2
<1>4. ASSUME NEW y \in T PROVE y <= x
  <2>1. b - x <= b - y BY <1>2, <1>3
  <2> QED BY <2>1
<1> QED BY <1>4

LEMMA GreatestIs ==
    ASSUME NEW n \in Nat, NEW b \in Nat, NEW S \in SUBSET [1..n -> 0..b], S # {}
    PROVE  Greatest(S) \in S /\ \A t \in S : ~LexLess(Greatest(S), t)
<1> DEFINE Leads(s, k) ==
               \A t \in S : \A i \in 1..k : (\A j \in 1..(i - 1) : s[j] = t[j]) => t[i] <= s[i]
           T == {k \in 0..n : \E s \in S : Leads(s, k)}
<1>1. 0 \in T OBVIOUS
<1>2. ASSUME NEW k \in Nat, k < n, k \in T PROVE k + 1 \in T
  <2>1. PICK s \in S : Leads(s, k) BY <1>2
  <2> DEFINE U == {t \in S : \A j \in 1..k : t[j] = s[j]}
             V == {t[k + 1] : t \in U}
  <2>2. k + 1 \in 1..n BY <1>2
  <2>3. V \in SUBSET (0..b) /\ V # {} BY <2>2
  <2>4. PICK x \in V : \A y \in V : y <= x
    <3> HIDE DEF V
    <3> QED BY <2>3, LargestUpTo
  <2>5. PICK u \in U : x = u[k + 1] BY <2>4
  <2>6. \A t \in U : t[k + 1] <= u[k + 1] BY <2>4, <2>5
  <2>7. u \in S /\ \A j \in 1..k : u[j] = s[j] BY <2>5
  <2>8. ASSUME NEW t \in S, NEW i \in 1..(k + 1), \A j \in 1..(i - 1) : u[j] = t[j]
        PROVE  t[i] <= u[i]
    <3>1. CASE i = k + 1
      <4>1. \A j \in 1..k : t[j] = s[j] BY <2>7, <2>8, <3>1
      <4>2. t \in U BY <4>1
      <4> QED BY <2>6, <3>1, <4>2
    <3>2. CASE i # k + 1
      <4>1. i \in 1..k BY <3>2
      <4>2. \A j \in 1..(i - 1) : s[j] = t[j] BY <2>7, <2>8, <4>1
      <4>3. t[i] <= s[i] BY <2>1, <4>1, <4>2
      <4> QED BY <2>7, <4>1, <4>3
    <3> QED BY <3>1, <3>2
  <2>9. Leads(u, k + 1) BY <2>8
  <2> QED BY <1>2, <2>2, <2>7, <2>9
<1>3. n \in T
  <2>1. \A k \in Nat : k < n /\ k \in T => k + 1 \in T BY <1>2
  <2> HIDE DEF T
  <2>2. \A k \in 0..n : k \in T BY <1>1, <2>1, UpTo
  <2> QED BY <2>2
<1>4. PICK s \in S : Leads(s, n) BY <1>3
<1>5. ASSUME NEW t \in S PROVE ~LexLess(s, t)
  <2> SUFFICES ASSUME LexLess(s, t) PROVE FALSE OBVIOUS
  <2>1. DOMAIN s = 1..n BY <1>4
  <2>2. PICK i \in 1..n : s[i] < t[i] /\ \A j \in 1..(i - 1) : s[j] = t[j] BY <2>1 DEF LexLess
  <2>3. t[i] <= s[i] BY <1>4, <2>2
  <2>4. s[i] \in Nat /\ t[i] \in Nat BY <1>4, <2>2
  <2> QED BY <2>2, <2>3, <2>4
<1> HIDE DEF T, Leads
<1> QED BY <1>4, <1>5 DEF Greatest


\* Two tie-breakers in a row, when a key is ordered as they say.
Follows(W, F, P, G) ==
    \A w \in W : \A y \in W : LexLess(F[w], F[y]) <=> P[w] < P[y] \/ (P[w] = P[y] /\ G[w] < G[y])

LEMMA MostTwo ==
    ASSUME NEW W, NEW P \in [W -> Nat], NEW G \in [W -> Nat], NEW F, Follows(W, F, P, G)
    PROVE  API!Most(API!Most(W, P), G) = Keyed(W, F)
<1>1. ASSUME NEW x \in API!Most(API!Most(W, P), G) PROVE x \in Keyed(W, F)
  <2>1. x \in W /\ \A y \in W : P[y] <= P[x] BY <1>1 DEF API!Most
  <2>2. ASSUME NEW y \in W, P[x] = P[y] PROVE ~(G[x] < G[y])
    <3>1. y \in API!Most(W, P) BY <2>1, <2>2 DEF API!Most
    <3>2. G[y] <= G[x] BY <1>1, <3>1 DEF API!Most
    <3> QED BY <2>1, <3>2
  <2>3. \A y \in W : ~(P[x] < P[y]) BY <2>1
  <2> QED BY <2>1, <2>2, <2>3 DEF Keyed, Follows
<1>2. ASSUME NEW x \in Keyed(W, F) PROVE x \in API!Most(API!Most(W, P), G)
  <2>1. x \in W /\ \A y \in W : ~(P[x] < P[y] \/ (P[x] = P[y] /\ G[x] < G[y]))
    BY <1>2 DEF Keyed, Follows
  <2>2. x \in API!Most(W, P) BY <2>1 DEF API!Most
  <2>3. ASSUME NEW y \in API!Most(W, P) PROVE G[y] <= G[x]
    <3>1. y \in W /\ P[x] <= P[y] /\ P[x] \in Nat /\ P[y] \in Nat BY <2>1, <2>3 DEF API!Most
    <3>2. P[x] = P[y] BY <2>1, <3>1
    <3> QED BY <2>1, <3>1, <3>2
  <2> QED BY <2>2, <2>3 DEF API!Most
<1> QED BY <1>1, <1>2

LEMMA ConcatMakes ==
    ASSUME NEW S, NEW s \in Seq(S), NEW t \in Seq(S), NEW u \in Seq(S), Len(u) = Len(s) + Len(t),
           \A i \in 1..Len(s) : u[i] = s[i], \A k \in 1..Len(t) : u[Len(s) + k] = t[k]
    PROVE  s \o t = u
<1> DEFINE v == s \o t
<1>1. /\ v \in Seq(S) /\ Len(v) = Len(s) + Len(t)
      /\ \A i \in 1..(Len(s) + Len(t)) : v[i] = IF i <= Len(s) THEN s[i] ELSE t[i - Len(s)]
    BY ConcatProperties, Zenon
<1> HIDE DEF v
<1>2. ASSUME NEW i \in 1..Len(v) PROVE v[i] = u[i]
  <2>1. Len(s) \in Nat /\ Len(t) \in Nat OBVIOUS
  <2>2. CASE i <= Len(s) BY <1>1, <2>1, <2>2
  <2>3. CASE ~(i <= Len(s))
    <3>1. i - Len(s) \in 1..Len(t) /\ i = Len(s) + (i - Len(s)) BY <1>1, <2>1, <2>3
    <3> QED BY <1>1, <2>3, <3>1
  <2> QED BY <2>2, <2>3
<1>3. Len(v) = Len(u) BY <1>1
<1>4. v = u BY <1>1, <1>2, <1>3, SeqEqual, Zenon
<1> QED BY <1>4 DEF v

LEMMA OneAndOne ==
    ASSUME NEW a \in Nat, NEW b \in Nat
    PROVE  <<a>> \o <<b>> = <<a, b>>
<1> DEFINE s == <<a>>  t == <<b>>  u == <<a, b>>
<1>1. s \in Seq(Nat) /\ t \in Seq(Nat) /\ u \in Seq(Nat) /\ Len(s) = 1 /\ Len(t) = 1 /\ Len(u) = 2 OBVIOUS
<1>2. (\A i \in 1..1 : u[i] = s[i]) /\ (\A k \in 1..1 : u[1 + k] = t[k]) OBVIOUS
<1> HIDE DEF s, t, u
<1>3. Len(u) = Len(s) + Len(t) /\ (\A i \in 1..Len(s) : u[i] = s[i]) /\ (\A k \in 1..Len(t) : u[Len(s) + k] = t[k])
  BY <1>1, <1>2
<1>4. s \o t = u BY <1>1, <1>3, ConcatMakes, Zenon
<1> QED BY <1>4 DEF s, t, u

LEMMA TwoAndOne ==
    ASSUME NEW a \in Nat, NEW b \in Nat, NEW c \in Nat
    PROVE  <<a, b>> \o <<c>> = <<a, b, c>>
<1> DEFINE s == <<a, b>>  t == <<c>>  u == <<a, b, c>>
<1>1. s \in Seq(Nat) /\ t \in Seq(Nat) /\ u \in Seq(Nat) /\ Len(s) = 2 /\ Len(t) = 1 /\ Len(u) = 3 OBVIOUS
<1>2. (\A i \in 1..2 : u[i] = s[i]) /\ (\A k \in 1..1 : u[2 + k] = t[k]) OBVIOUS
<1> HIDE DEF s, t, u
<1>3. Len(u) = Len(s) + Len(t) /\ (\A i \in 1..Len(s) : u[i] = s[i]) /\ (\A k \in 1..Len(t) : u[Len(s) + k] = t[k])
  BY <1>1, <1>2
<1>4. s \o t = u BY <1>1, <1>3, ConcatMakes, Zenon
<1> QED BY <1>4 DEF s, t, u

LEMMA ThreeAndOne ==
    ASSUME NEW a \in Nat, NEW b \in Nat, NEW c \in Nat, NEW d \in Nat
    PROVE  <<a, b, c>> \o <<d>> = <<a, b, c, d>>
<1> DEFINE s == <<a, b, c>>  t == <<d>>  u == <<a, b, c, d>>
<1>1. s \in Seq(Nat) /\ t \in Seq(Nat) /\ u \in Seq(Nat) /\ Len(s) = 3 /\ Len(t) = 1 /\ Len(u) = 4 OBVIOUS
<1>2. (\A i \in 1..3 : u[i] = s[i]) /\ (\A k \in 1..1 : u[3 + k] = t[k]) OBVIOUS
<1> HIDE DEF s, t, u
<1>3. Len(u) = Len(s) + Len(t) /\ (\A i \in 1..Len(s) : u[i] = s[i]) /\ (\A k \in 1..Len(t) : u[Len(s) + k] = t[k])
  BY <1>1, <1>2
<1>4. s \o t = u BY <1>1, <1>3, ConcatMakes, Zenon
<1> QED BY <1>4 DEF s, t, u

LEMMA TwoAndThree ==
    ASSUME NEW a \in Nat, NEW b \in Nat, NEW c \in Nat, NEW d \in Nat, NEW e \in Nat
    PROVE  <<a, b>> \o <<c, d, e>> = <<a, b, c, d, e>>
<1> DEFINE s == <<a, b>>  t == <<c, d, e>>  u == <<a, b, c, d, e>>
<1>1. s \in Seq(Nat) /\ t \in Seq(Nat) /\ u \in Seq(Nat) /\ Len(s) = 2 /\ Len(t) = 3 /\ Len(u) = 5 OBVIOUS
<1>2. (\A i \in 1..2 : u[i] = s[i]) /\ (\A k \in 1..3 : u[2 + k] = t[k]) OBVIOUS
<1> HIDE DEF s, t, u
<1>3. Len(u) = Len(s) + Len(t) /\ (\A i \in 1..Len(s) : u[i] = s[i]) /\ (\A k \in 1..Len(t) : u[Len(s) + k] = t[k])
  BY <1>1, <1>2
<1>4. s \o t = u BY <1>1, <1>3, ConcatMakes, Zenon
<1> QED BY <1>4 DEF s, t, u

LEMMA FourNumbersAndOne ==
    ASSUME NEW a \in Nat, NEW b \in Nat, NEW c \in Nat, NEW d \in Nat, NEW e \in Nat
    PROVE  <<a, b, c, d>> \o <<e>> = <<a, b, c, d, e>>
<1> DEFINE s == <<a, b, c, d>>  t == <<e>>  u == <<a, b, c, d, e>>
<1>1. s \in Seq(Nat) /\ t \in Seq(Nat) /\ u \in Seq(Nat) /\ Len(s) = 4 /\ Len(t) = 1 /\ Len(u) = 5 OBVIOUS
<1>2. (\A i \in 1..4 : u[i] = s[i]) /\ (\A k \in 1..1 : u[4 + k] = t[k]) OBVIOUS
<1> HIDE DEF s, t, u
<1>3. Len(u) = Len(s) + Len(t) /\ (\A i \in 1..Len(s) : u[i] = s[i]) /\ (\A k \in 1..Len(t) : u[Len(s) + k] = t[k])
  BY <1>1, <1>2
<1>4. s \o t = u BY <1>1, <1>3, ConcatMakes, Zenon
<1> QED BY <1>4 DEF s, t, u

LEMMA ConcatNested ==
    \A s \in Seq(Nat) : \A t \in Seq(Nat) : \A u \in Seq(Nat) : (s \o t) \o u = s \o (t \o u)
<1> SUFFICES ASSUME NEW s \in Seq(Nat), NEW t \in Seq(Nat), NEW u \in Seq(Nat)
             PROVE  (s \o t) \o u = s \o (t \o u)
  OBVIOUS
<1> QED OBVIOUS

LEMMA OneByOne ==
    \A s \in Seq(Nat) : \A a \in Nat : \A b \in Nat : \A c \in Nat : \A d \in Nat : \A e \in Nat :
        (((((s \o <<a>>) \o <<b>>) \o <<c>>) \o <<d>>) \o <<e>>) = s \o <<a, b, c, d, e>>
<1> TAKE s \in Seq(Nat), a \in Nat, b \in Nat, c \in Nat, d \in Nat, e \in Nat
<1> DEFINE t == <<a>>  u == <<a, b>>  v == <<a, b, c>>  x == <<a, b, c, d>>  y == <<a, b, c, d, e>>
           f == <<b>>  g == <<c>>  h == <<d>>  i == <<e>>
<1>1. t \in Seq(Nat) /\ f \in Seq(Nat) OBVIOUS
<1>2. u \in Seq(Nat) /\ g \in Seq(Nat) OBVIOUS
<1>a. v \in Seq(Nat) /\ h \in Seq(Nat) OBVIOUS
<1>b. x \in Seq(Nat) /\ i \in Seq(Nat) OBVIOUS
<1>3. t \o f = u BY OneAndOne
<1>4. u \o g = v BY TwoAndOne
<1>5. v \o h = x BY ThreeAndOne
<1>6. x \o i = y BY FourNumbersAndOne
<1> HIDE DEF t, u, v, x, y, f, g, h, i
<1>7. (s \o t) \o f = s \o (t \o f) BY <1>1, ConcatNested, Zenon
<1>8. (s \o u) \o g = s \o (u \o g) BY <1>2, ConcatNested, Zenon
<1>9. (s \o v) \o h = s \o (v \o h) BY <1>a, ConcatNested, Zenon
<1>10. (s \o x) \o i = s \o (x \o i) BY <1>b, ConcatNested, Zenon
<1>11. ((s \o t) \o f) \o g = s \o v BY <1>3, <1>4, <1>7, <1>8, Zenon
<1>12. (((((s \o t) \o f) \o g) \o h) \o i) = s \o y BY <1>5, <1>6, <1>9, <1>10, <1>11, Zenon
<1> QED BY <1>12 DEF t, y, f, g, h, i

\* And five more after a key.
FiveMore(W, F, A, B, C, D, E) == [w \in W |-> F[w] \o <<A[w], B[w], C[w], D[w], E[w]>>]

FiveCounts(W, A, B, C, D, E) ==
    A \in [W -> Nat] /\ B \in [W -> Nat] /\ C \in [W -> Nat] /\ D \in [W -> Nat] /\ E \in [W -> Nat]

LEMMA MostFive ==
    ASSUME NEW W, NEW F \in [W -> [1..2 -> Nat]], NEW A, NEW B, NEW C, NEW D, NEW E, FiveCounts(W, A, B, C, D, E)
    PROVE  API!Most(API!Most(API!Most(API!Most(API!Most(Keyed(W, F), A), B), C), D), E)
               = Keyed(W, FiveMore(W, F, A, B, C, D, E))
<1> DEFINE F1 == OneMore(W, F, A)
           F2 == OneMore(W, F1, B)
           F3 == OneMore(W, F2, C)
           F4 == OneMore(W, F3, D)
           F5 == OneMore(W, F4, E)
<1>0. A \in [W -> Nat] /\ B \in [W -> Nat] /\ C \in [W -> Nat] /\ D \in [W -> Nat] /\ E \in [W -> Nat]
  BY DEF FiveCounts
<1>1. 2 \in Nat /\ 3 \in Nat /\ 4 \in Nat /\ 5 \in Nat /\ 6 \in Nat /\ 2 + 1 = 3 /\ 3 + 1 = 4 /\ 4 + 1 = 5 /\ 5 + 1 = 6
  OBVIOUS
<1>2. API!Most(Keyed(W, F), A) = Keyed(W, F1) /\ F1 \in [W -> [1..3 -> Nat]]
  <2>1. API!Most(Keyed(W, F), A) = Keyed(W, F1) /\ F1 \in [W -> [1..(2 + 1) -> Nat]] BY <1>0, <1>1, MostStep, Zenon
  <2> HIDE DEF F1
  <2> QED BY <1>1, <2>1
<1> HIDE DEF F1
<1>3. API!Most(Keyed(W, F1), B) = Keyed(W, F2) /\ F2 \in [W -> [1..4 -> Nat]]
  <2>1. API!Most(Keyed(W, F1), B) = Keyed(W, F2) /\ F2 \in [W -> [1..(3 + 1) -> Nat]] BY <1>0, <1>1, <1>2, MostStep, Zenon
  <2> HIDE DEF F2
  <2> QED BY <1>1, <2>1
<1> HIDE DEF F2
<1>4. API!Most(Keyed(W, F2), C) = Keyed(W, F3) /\ F3 \in [W -> [1..5 -> Nat]]
  <2>1. API!Most(Keyed(W, F2), C) = Keyed(W, F3) /\ F3 \in [W -> [1..(4 + 1) -> Nat]] BY <1>0, <1>1, <1>3, MostStep, Zenon
  <2> HIDE DEF F3
  <2> QED BY <1>1, <2>1
<1> HIDE DEF F3
<1>5. API!Most(Keyed(W, F3), D) = Keyed(W, F4) /\ F4 \in [W -> [1..6 -> Nat]]
  <2>1. API!Most(Keyed(W, F3), D) = Keyed(W, F4) /\ F4 \in [W -> [1..(5 + 1) -> Nat]] BY <1>0, <1>1, <1>4, MostStep, Zenon
  <2> HIDE DEF F4
  <2> QED BY <1>1, <2>1
<1> HIDE DEF F4
<1>6. API!Most(Keyed(W, F4), E) = Keyed(W, F5)
  <2>1. API!Most(Keyed(W, F4), E) = Keyed(W, F5) /\ F5 \in [W -> [1..(6 + 1) -> Nat]] BY <1>0, <1>1, <1>5, MostStep, Zenon
  <2> HIDE DEF F5
  <2> QED BY <1>1, <2>1
<1>7. F5 = FiveMore(W, F, A, B, C, D, E)
  <2>1. ASSUME NEW w \in W PROVE F5[w] = F[w] \o <<A[w], B[w], C[w], D[w], E[w]>>
    <3>1. F5[w] = (((((F[w] \o <<A[w]>>) \o <<B[w]>>) \o <<C[w]>>) \o <<D[w]>>) \o <<E[w]>>)
      BY DEF F1, F2, F3, F4, OneMore
    <3> DEFINE s == F[w]
    <3>2. s \in [1..2 -> Nat] OBVIOUS
    <3>3. s \in Seq(Nat)
      <4> HIDE DEF s
      <4> QED BY <1>1, <3>2, NumbersSeq
    <3> DEFINE a == A[w]  b == B[w]  c == C[w]  d == D[w]  e == E[w]
    <3>4a. a \in Nat BY <1>0
    <3>4b. b \in Nat BY <1>0
    <3>4c. c \in Nat BY <1>0
    <3>4d. d \in Nat BY <1>0
    <3>4e. e \in Nat BY <1>0
    <3> HIDE DEF s, a, b, c, d, e, F5
    <3>5. (((((s \o <<a>>) \o <<b>>) \o <<c>>) \o <<d>>) \o <<e>>) = s \o <<a, b, c, d, e>>
      <4>1. \A j \in Nat : \A k \in Nat : \A l \in Nat : \A m \in Nat : \A n \in Nat :
               (((((s \o <<j>>) \o <<k>>) \o <<l>>) \o <<m>>) \o <<n>>) = s \o <<j, k, l, m, n>>
        BY <3>3, OneByOne, Zenon
      <4>2. \A k \in Nat : \A l \in Nat : \A m \in Nat : \A n \in Nat :
               (((((s \o <<a>>) \o <<k>>) \o <<l>>) \o <<m>>) \o <<n>>) = s \o <<a, k, l, m, n>>
        BY <3>4a, <4>1, Zenon
      <4>3. \A l \in Nat : \A m \in Nat : \A n \in Nat :
               (((((s \o <<a>>) \o <<b>>) \o <<l>>) \o <<m>>) \o <<n>>) = s \o <<a, b, l, m, n>>
        BY <3>4b, <4>2, Zenon
      <4>4. \A m \in Nat : \A n \in Nat :
               (((((s \o <<a>>) \o <<b>>) \o <<c>>) \o <<m>>) \o <<n>>) = s \o <<a, b, c, m, n>>
        BY <3>4c, <4>3, Zenon
      <4>5. \A n \in Nat :
               (((((s \o <<a>>) \o <<b>>) \o <<c>>) \o <<d>>) \o <<n>>) = s \o <<a, b, c, d, n>>
        BY <3>4d, <4>4, Zenon
      <4> QED BY <3>4e, <4>5, Zenon
    <3> QED BY <3>1, <3>5 DEF s, a, b, c, d, e
  <2> QED BY <2>1 DEF FiveMore, OneMore
<1> QED BY <1>2, <1>3, <1>4, <1>5, <1>6, <1>7

\* Of the hostnames that match a request one without a wildcard scores most, then
\* one with a wildcard, and then that there is none.
HostKey(pattern) == IF pattern = None THEN <<0, 0>> ELSE HostnameScore(pattern)
PlainLabels(pattern) == IF pattern # None /\ ~pattern.wild THEN Len(pattern.labels) ELSE 0
AllLabels(pattern) == IF pattern = None THEN 0 ELSE Len(pattern.labels)

LEMMA LexTwo ==
    ASSUME NEW a \in Nat, NEW b \in Nat, NEW c \in Nat, NEW d \in Nat
    PROVE  /\ <<a, b>> \in [1..2 -> Nat]
           /\ LexLess(<<a, b>>, <<c, d>>) <=> a < c \/ (a = c /\ b < d)
<1> DEFINE s == <<a>>
           t == <<c>>
           u == <<b>>
           v == <<d>>
<1>1. s \in [1..1 -> Nat] /\ (LexLess(s, t) <=> a < c) BY LexOne
<1>2. t \in [1..1 -> Nat] BY LexOne
<1>3. u \in [1..1 -> Nat] /\ (LexLess(u, v) <=> b < d) BY LexOne
<1>4. v \in [1..1 -> Nat] BY LexOne
<1>5. s \o u = <<a, b>> /\ t \o v = <<c, d>> BY OneAndOne
<1>5a. s = t <=> a = c OBVIOUS
<1>6. 1 \in Nat /\ 1 + 1 = 2 OBVIOUS
<1> HIDE DEF s, t, u, v
<1>7. s \o u \in [1..(1 + 1) -> Nat] /\ (LexLess(s \o u, t \o v) <=> LexLess(s, t) \/ (s = t /\ LexLess(u, v)))
  BY <1>1, <1>2, <1>3, <1>4, <1>6, LexConcat
<1> QED BY <1>1, <1>3, <1>5, <1>5a, <1>6, <1>7

LEMMA HostKeyIs ==
    ASSUME NEW host \in Seq(Labels), NEW h \in Hostname \cup {None}, HostnameMatches(h, host)
    PROVE  /\ PlainLabels(h) \in Nat /\ AllLabels(h) \in Nat /\ Len(host) \in Nat
           /\ \/ PlainLabels(h) = 0 /\ AllLabels(h) = 0 /\ HostKey(h) = <<0, 0>>
              \/ PlainLabels(h) = 0 /\ AllLabels(h) + 1 = Len(host) /\ AllLabels(h) > 0
                 /\ HostKey(h) = <<AllLabels(h), AllLabels(h) + 1>>
              \/ PlainLabels(h) = Len(host) /\ AllLabels(h) = Len(host) /\ Len(host) > 0
                 /\ HostKey(h) = <<Len(host), Len(host)>>
<1>1. CASE h = None BY <1>1 DEF PlainLabels, AllLabels, HostKey
<1>2. CASE h # None
  <2>1. h.wild \in BOOLEAN /\ h.labels \in Seq(Labels) /\ h.labels # <<>> BY <1>2 DEF Hostname
  <2>2. Len(h.labels) \in Nat /\ Len(h.labels) > 0 BY <2>1
  <2>3. CASE h.wild
    <3>1. Len(host) = Len(h.labels) + 1 BY <1>2, <2>3 DEF HostnameMatches
    <3> QED BY <1>2, <2>2, <2>3, <3>1 DEF PlainLabels, AllLabels, HostKey, HostnameScore
  <2>4. CASE ~h.wild
    <3>1. h.labels = host BY <1>2, <2>4 DEF HostnameMatches
    <3> QED BY <1>2, <2>2, <2>4, <3>1 DEF PlainLabels, AllLabels, HostKey, HostnameScore
  <2> QED BY <2>3, <2>4
<1> QED BY <1>1, <1>2

LEMMA HostOrder ==
    ASSUME NEW host \in Seq(Labels), NEW h \in Hostname \cup {None}, HostnameMatches(h, host),
           NEW k \in Hostname \cup {None}, HostnameMatches(k, host)
    PROVE  /\ HostKey(h) \in [1..2 -> Nat]
           /\ LexLess(HostKey(h), HostKey(k))
                <=> \/ PlainLabels(h) < PlainLabels(k)
                    \/ PlainLabels(h) = PlainLabels(k) /\ AllLabels(h) < AllLabels(k)
<1>1. /\ PlainLabels(h) \in Nat /\ AllLabels(h) \in Nat /\ Len(host) \in Nat
      /\ \/ PlainLabels(h) = 0 /\ AllLabels(h) = 0 /\ HostKey(h) = <<0, 0>>
         \/ PlainLabels(h) = 0 /\ AllLabels(h) + 1 = Len(host) /\ AllLabels(h) > 0
            /\ HostKey(h) = <<AllLabels(h), AllLabels(h) + 1>>
         \/ PlainLabels(h) = Len(host) /\ AllLabels(h) = Len(host) /\ Len(host) > 0
            /\ HostKey(h) = <<Len(host), Len(host)>>
  BY HostKeyIs
<1>2. /\ PlainLabels(k) \in Nat /\ AllLabels(k) \in Nat
      /\ \/ PlainLabels(k) = 0 /\ AllLabels(k) = 0 /\ HostKey(k) = <<0, 0>>
         \/ PlainLabels(k) = 0 /\ AllLabels(k) + 1 = Len(host) /\ AllLabels(k) > 0
            /\ HostKey(k) = <<AllLabels(k), AllLabels(k) + 1>>
         \/ PlainLabels(k) = Len(host) /\ AllLabels(k) = Len(host) /\ Len(host) > 0
            /\ HostKey(k) = <<Len(host), Len(host)>>
  BY HostKeyIs
<1> DEFINE a == HostKey(h)[1]
           b == HostKey(h)[2]
           c == HostKey(k)[1]
           d == HostKey(k)[2]
<1>3. HostKey(h) = <<a, b>> /\ a \in Nat /\ b \in Nat BY <1>1
<1>4. HostKey(k) = <<c, d>> /\ c \in Nat /\ d \in Nat BY <1>2
<1>5. \/ PlainLabels(h) = 0 /\ AllLabels(h) = 0 /\ a = 0 /\ b = 0
      \/ PlainLabels(h) = 0 /\ AllLabels(h) + 1 = Len(host) /\ AllLabels(h) > 0 /\ a = AllLabels(h) /\ b = AllLabels(h) + 1
      \/ PlainLabels(h) = Len(host) /\ AllLabels(h) = Len(host) /\ Len(host) > 0 /\ a = Len(host) /\ b = Len(host)
  BY <1>1
<1>6. \/ PlainLabels(k) = 0 /\ AllLabels(k) = 0 /\ c = 0 /\ d = 0
      \/ PlainLabels(k) = 0 /\ AllLabels(k) + 1 = Len(host) /\ AllLabels(k) > 0 /\ c = AllLabels(k) /\ d = AllLabels(k) + 1
      \/ PlainLabels(k) = Len(host) /\ AllLabels(k) = Len(host) /\ Len(host) > 0 /\ c = Len(host) /\ d = Len(host)
  BY <1>2
<1> HIDE DEF a, b, c, d
<1>7. <<a, b>> \in [1..2 -> Nat] /\ (LexLess(<<a, b>>, <<c, d>>) <=> a < c \/ (a = c /\ b < d)) BY <1>3, <1>4, LexTwo
<1>8. (a < c \/ (a = c /\ b < d))
        <=> PlainLabels(h) < PlainLabels(k) \/ (PlainLabels(h) = PlainLabels(k) /\ AllLabels(h) < AllLabels(k))
  <2>1. PlainLabels(h) \in Nat /\ AllLabels(h) \in Nat /\ Len(host) \in Nat /\ PlainLabels(k) \in Nat /\ AllLabels(k) \in Nat
    BY <1>1, <1>2
  <2> QED BY <1>3, <1>4, <1>5, <1>6, <2>1
<1> QED BY <1>3, <1>4, <1>7, <1>8


-------------------------------------------------------------------------------
(* What the numbers of a match are, for a request that it accepts.         *)

ScoreBound ==
    2 * Len(intent.path.segments) + 2 + NameChars(intent.service) + Cardinality(Headers) + Cardinality(Params)

\* The five numbers in the order in which they count.
FirstScore(k) == IF intent.family = "HTTPRoute" THEN PathScore(k)[1] ELSE 0
SecondScore(k) == CASE intent.family = "HTTPRoute" -> PathScore(k)[2]
                    [] intent.family = "GRPCRoute" -> NameChars(k.service)
                    [] OTHER -> 0
ThirdScore(k) == CASE intent.family = "HTTPRoute" -> Given(k.method)
                   [] intent.family = "GRPCRoute" -> Given(k.call)
                   [] OTHER -> 0
FourthScore(k) == IF intent.family = "TLSRoute" THEN 0 ELSE Cardinality(k.headers)
FifthScore(k) == IF intent.family = "HTTPRoute" THEN Cardinality(k.params) ELSE 0

\* A match that the Gateway API and the code read alike: no regular expression,
\* and no slash at the end of a prefix but "/".
PlainPath(path) ==
    /\ path.type # "RegularExpression"
    /\ path.type = "PathPrefix" => path.value = Root \/ ~path.value.slash
Plainly(k) == k \in Match /\ k.type = "Exact" /\ (k.path # None => PlainPath(k.path))

LEMMA CountsAre ==
    ASSUME NEW S \in SUBSET Headers, NEW T \in SUBSET Params
    PROVE  /\ Cardinality(S) \in Nat /\ Cardinality(T) \in Nat
           /\ Cardinality(S) <= Cardinality(Headers) /\ Cardinality(T) <= Cardinality(Params)
           /\ Cardinality(Headers) \in Nat /\ Cardinality(Params) \in Nat
<1>1. IsFiniteSet(Headers) /\ IsFiniteSet(Params) BY TrafficAssumption
<1>2. Cardinality(Headers) \in Nat /\ Cardinality(S) \in Nat /\ Cardinality(S) <= Cardinality(Headers)
  <2>1. IsFiniteSet(S) /\ Cardinality(S) <= Cardinality(Headers) BY <1>1, FS_Subset
  <2> QED BY <1>1, <2>1, FS_CardinalityType
<1>3. Cardinality(Params) \in Nat /\ Cardinality(T) \in Nat /\ Cardinality(T) <= Cardinality(Params)
  <2>1. IsFiniteSet(T) /\ Cardinality(T) <= Cardinality(Params) BY <1>1, FS_Subset
  <2> QED BY <1>1, <2>1, FS_CardinalityType
<1> QED BY <1>2, <1>3

\* The arithmetic of lengths of paths.
LEMMA TwiceMore ==
    ASSUME NEW a \in Nat, NEW b \in Nat, a <= b, NEW s \in {0, 1}
    PROVE  2 * a + s \in Nat /\ 2 * a + s <= 2 * b + 1
<1>1. s = 0 \/ s = 1 OBVIOUS
<1>2. CASE s = 0 BY <1>2
<1>3. CASE s = 1 BY <1>3
<1> QED BY <1>1, <1>2, <1>3

LEMMA SumBounds ==
    ASSUME NEW a \in Nat, NEW b \in Nat, NEW c \in Nat, NEW d \in Nat,
           NEW x \in Nat, NEW y \in Nat, x <= c, y <= d
    PROVE  LET all == 2 * a + 2 + b + c + d
           IN  /\ all \in Nat /\ 2 <= all /\ 2 * a + 1 <= all /\ b <= all /\ x <= all /\ y <= all
<1>1. 2 * a \in Nat OBVIOUS
<1> DEFINE e == 2 * a
<1>2. e \in Nat BY <1>1
<1> HIDE DEF e
<1>3. LET all == e + 2 + b + c + d
      IN  /\ all \in Nat /\ 2 <= all /\ e + 1 <= all /\ b <= all /\ x <= all /\ y <= all
  BY <1>2
<1> QED BY <1>3 DEF e

\* A path, its parts and its length.
LEMMA TextParts ==
    ASSUME NEW text \in PathText
    PROVE  /\ text.segments \in Seq(Segments) /\ text.slash \in BOOLEAN /\ (text.segments = <<>> => text.slash)
           /\ Len(text.segments) \in Nat /\ PathChars(text) \in Nat
           /\ PathChars(text) = 2 * Len(text.segments) + (IF text.slash THEN 1 ELSE 0)
<1>1. text.segments \in Seq(Segments) /\ text.slash \in BOOLEAN /\ (text.segments = <<>> => text.slash)
  BY DEF PathText
<1>2. Len(text.segments) \in Nat BY <1>1
<1>3. PathChars(text) = 2 * Len(text.segments) + (IF text.slash THEN 1 ELSE 0) BY DEF PathChars
<1>4. PathChars(text) \in Nat
  <2> DEFINE a == Len(text.segments)
             s == IF text.slash THEN 1 ELSE 0
  <2>1. a \in Nat /\ s \in {0, 1} /\ PathChars(text) = 2 * a + s BY <1>2, <1>3
  <2> HIDE DEF a, s
  <2>2. a <= a BY <2>1
  <2> QED BY <2>1, <2>2, TwiceMore
<1> QED BY <1>1, <1>2, <1>3, <1>4

\* A prefix of some text is no longer than it.
LEMMA PrefixIs ==
    ASSUME NEW s \in Seq(Segments), NEW t \in Seq(Segments)
    PROVE  IsPrefix(s, t) <=> Len(s) <= Len(t) /\ s = SubSeq(t, 1, Len(s))
<1>1. SubSeq(s, 1, Len(s)) = s BY SubSeqFull
<1> QED BY <1>1 DEF IsPrefix

LEMMA PathScoreIs ==
    ASSUME intent \in Intent, NEW k, Plainly(k), PathMatches(k, intent.path)
    PROVE  /\ PathScore(k) = <<IF k.path # None /\ k.path.type = "Exact" THEN 2 ELSE 1,
                               IF k.path = None THEN 1 ELSE PathChars(k.path.value)>>
           /\ k.path # None => PathChars(k.path.value) \in Nat
                               /\ PathChars(k.path.value) <= 2 * Len(intent.path.segments) + 1
<1>1. intent.path \in PathText BY DEF Intent
<1>2. CASE k.path = None BY <1>2 DEF PathScore
<1>3. CASE k.path # None
  <2> DEFINE want == k.path.value
             path == intent.path
  <2>1. k.path \in Path BY <1>3 DEF Plainly, Match
  <2>2. want \in PathText /\ k.path.type \in {"PathPrefix", "Exact"} BY <1>3, <2>1 DEF Path, Plainly, PlainPath
  <2>3. PathScore(k) = <<PathRank(k.path.type), PathChars(want)>> BY <1>3 DEF PathScore
  <2>4. k.path.type = "Exact" => want = path BY <1>3 DEF PathMatches
  <2>5. k.path.type = "PathPrefix" => IsPrefix(want.segments, path.segments)
    BY <1>3 DEF PathMatches, PrefixMatches
  <2> HIDE DEF want, path
  <2>6. path \in PathText BY <1>1 DEF path
  <2>7. Len(want.segments) <= Len(path.segments)
    <3>1. CASE k.path.type = "Exact" BY <2>4, <2>6, <3>1, TextParts
    <3>2. CASE k.path.type = "PathPrefix" BY <2>2, <2>5, <2>6, <3>2, TextParts, PrefixIs
    <3> QED BY <2>2, <3>1, <3>2
  <2>8. PathChars(want) \in Nat /\ PathChars(want) <= 2 * Len(path.segments) + 1
    <3> DEFINE a == Len(want.segments)
               b == Len(path.segments)
               s == IF want.slash THEN 1 ELSE 0
    <3>1. a \in Nat /\ b \in Nat /\ s \in {0, 1} BY <2>2, <2>6, TextParts
    <3>2. PathChars(want) = 2 * a + s /\ a <= b BY <2>2, <2>7, TextParts
    <3> HIDE DEF a, b, s
    <3>3. 2 * a + s \in Nat /\ 2 * a + s <= 2 * b + 1 BY <3>1, <3>2, TwiceMore
    <3>4. PathChars(want) \in Nat /\ PathChars(want) <= 2 * b + 1 BY <3>2, <3>3
    <3> QED BY <3>4 DEF b
  <2>9. PathRank(k.path.type) = IF k.path.type = "Exact" THEN 2 ELSE 1 BY <2>2 DEF PathRank
  <2> QED BY <1>3, <2>3, <2>8, <2>9 DEF want, path
<1> QED BY <1>2, <1>3

\* A service or a method that a plain match asks for is the request's.
LEMMA PlainNames ==
    ASSUME intent \in Intent, NEW k, Plainly(k)
    PROVE  /\ ServiceMatches(k, intent.service) <=> k.service \in {None, intent.service}
           /\ NameMatches(k.type, k.call, intent.call) <=> k.call \in {None, intent.call}
           /\ NameChars(k.service) \in Nat /\ NameChars(intent.service) \in Nat
           /\ intent.call # None => Len(intent.call) \in Nat /\ Len(intent.call) >= 1
<1>1. k.type = "Exact" /\ k.service \in Name \cup {None} BY DEF Plainly, Match
<1>2. \A want, name : NameMatches(k.type, want, name) <=> want \in {None, name} BY <1>1 DEF NameMatches, ValueMatches
<1>3. \A name \in Name : Len(name) \in Nat /\ Len(name) >= 1 BY DEF Name
<1>4. intent.service \in Name \cup {None} /\ intent.call \in Name \cup {None} BY DEF Intent
<1>5. \A name \in Name \cup {None} : NameChars(name) \in Nat BY <1>3 DEF NameChars
<1> QED BY <1>1, <1>2, <1>3, <1>4, <1>5 DEF ServiceMatches

LEMMA ScoreIs ==
    ASSUME intent \in Intent, NEW k, Plainly(k), SingleMatch(k, intent)
    PROVE  /\ ScoreBound \in Nat
           /\ FirstScore(k) \in 0..ScoreBound /\ SecondScore(k) \in 0..ScoreBound /\ ThirdScore(k) \in 0..ScoreBound
           /\ FourthScore(k) \in 0..ScoreBound /\ FifthScore(k) \in 0..ScoreBound
           /\ MatchScore(k, intent.family)
                = <<FirstScore(k), SecondScore(k), ThirdScore(k), FourthScore(k), FifthScore(k)>>
<1>1. Len(intent.path.segments) \in Nat /\ intent.family \in Family
  <2>1. intent.path \in PathText /\ intent.family \in Family BY DEF Intent
  <2> QED BY <2>1, TextParts
<1>2. k.headers \in SUBSET Headers /\ k.params \in SUBSET Params BY DEF Plainly, Match
<1>3. /\ Cardinality(k.headers) \in Nat /\ Cardinality(k.params) \in Nat
      /\ Cardinality(k.headers) <= Cardinality(Headers) /\ Cardinality(k.params) <= Cardinality(Params)
      /\ Cardinality(Headers) \in Nat /\ Cardinality(Params) \in Nat
  BY <1>2, CountsAre
<1>9. NameChars(k.service) \in Nat /\ NameChars(intent.service) \in Nat BY PlainNames
<1>4. ScoreBound \in Nat /\ 2 <= ScoreBound /\ 2 * Len(intent.path.segments) + 1 <= ScoreBound
      /\ NameChars(intent.service) <= ScoreBound
      /\ Cardinality(k.headers) <= ScoreBound /\ Cardinality(k.params) <= ScoreBound
  BY <1>1, <1>3, <1>9, SumBounds DEF ScoreBound
<1> HIDE DEF ScoreBound
<1>5. \A field : Given(field) \in {0, 1} BY DEF Given
<1>6. CASE intent.family = "GRPCRoute"
  <2>1. MatchScore(k, intent.family) = <<0, NameChars(k.service), Given(k.call), Cardinality(k.headers), 0>>
    BY <1>6 DEF MatchScore
  <2>2. FirstScore(k) = 0 /\ SecondScore(k) = NameChars(k.service) /\ ThirdScore(k) = Given(k.call)
        /\ FourthScore(k) = Cardinality(k.headers) /\ FifthScore(k) = 0
    BY <1>6 DEF FirstScore, SecondScore, ThirdScore, FourthScore, FifthScore
  <2>3. NameChars(k.service) <= ScoreBound
    <3>1. ServiceMatches(k, intent.service) BY <1>6 DEF SingleMatch, GRPCMatches, CallMatches
    <3>2. k.service \in {None, intent.service} BY <3>1, PlainNames
    <3>3. CASE k.service = None BY <1>4, <3>3 DEF NameChars
    <3>4. CASE k.service = intent.service BY <1>4, <3>4
    <3> QED BY <3>2, <3>3, <3>4
  <2>4. Given(k.call) \in {0, 1} BY <1>5
  <2> QED BY <1>3, <1>4, <1>9, <2>1, <2>2, <2>3, <2>4
<1>7. CASE intent.family = "TLSRoute"
  <2>1. MatchScore(k, intent.family) = <<0, 0, 0, 0, 0>> BY <1>7 DEF MatchScore
  <2>2. FirstScore(k) = 0 /\ SecondScore(k) = 0 /\ ThirdScore(k) = 0 /\ FourthScore(k) = 0 /\ FifthScore(k) = 0
    BY <1>7 DEF FirstScore, SecondScore, ThirdScore, FourthScore, FifthScore
  <2> QED BY <1>4, <2>1, <2>2
<1>8. CASE intent.family = "HTTPRoute"
  <2> DEFINE a == IF k.path # None /\ k.path.type = "Exact" THEN 2 ELSE 1
             b == IF k.path = None THEN 1 ELSE PathChars(k.path.value)
             c == Given(k.method)
             d == Cardinality(k.headers)
             e == Cardinality(k.params)
  <2>1. PathMatches(k, intent.path) BY <1>8 DEF SingleMatch, HTTPMatches
  <2>2. PathScore(k) = <<a, b>> /\ a \in 0..ScoreBound /\ b \in 0..ScoreBound
    BY <1>1, <1>4, <2>1, PathScoreIs
  <2>3. c \in 0..ScoreBound /\ d \in 0..ScoreBound /\ e \in 0..ScoreBound
    <3>1. c \in {0, 1} BY <1>5
    <3> QED BY <1>3, <1>4, <3>1
  <2>4. MatchScore(k, intent.family) = PathScore(k) \o <<c, d, e>> BY <1>8 DEF MatchScore
  <2>5. FirstScore(k) = PathScore(k)[1] /\ SecondScore(k) = PathScore(k)[2] /\ ThirdScore(k) = c
        /\ FourthScore(k) = d /\ FifthScore(k) = e
    BY <1>8 DEF FirstScore, SecondScore, ThirdScore, FourthScore, FifthScore
  <2> HIDE DEF a, b, c, d, e
  <2>6. a \in Nat /\ b \in Nat /\ c \in Nat /\ d \in Nat /\ e \in Nat BY <1>4, <2>2, <2>3
  <2>7. <<a, b>> \o <<c, d, e>> = <<a, b, c, d, e>> BY <2>6, TwoAndThree
  <2>8. FirstScore(k) = a /\ SecondScore(k) = b BY <2>2, <2>5
  <2> QED BY <1>4, <2>2, <2>3, <2>4, <2>5, <2>7, <2>8
<1> QED BY <1>1, <1>6, <1>7, <1>8 DEF Family

\* knm and the Gateway API agree on what a match accepts.
LEMMA FitsHold ==
    ASSUME intent \in Intent, NEW k, Plainly(k)
    PROVE  SingleMatch(k, intent) <=> API!Holds(k, intent)
<1>1. intent.family \in Family /\ intent.path \in PathText BY DEF Intent
<1>2. CASE intent.family = "GRPCRoute"
  <2>1. CallMatches(k, intent) <=> k.service \in {None, intent.service} /\ k.call \in {None, intent.call}
    BY PlainNames DEF CallMatches
  <2> QED BY <1>2, <2>1 DEF SingleMatch, GRPCMatches, HeadersMatch, API!Holds
<1>3. CASE intent.family = "TLSRoute"
  BY <1>3 DEF SingleMatch, API!Holds
<1>4. CASE intent.family = "HTTPRoute"
  <2>1. PathMatches(k, intent.path) <=> (k.path # None => API!PathHolds(k.path, intent.path))
    <3>1. CASE k.path = None BY <3>1 DEF PathMatches
    <3>2. CASE k.path # None
      <4>1. k.path \in Path /\ PlainPath(k.path) BY <3>2 DEF Plainly, Match
      <4> DEFINE want == k.path.value
                 path == intent.path
      <4>2. want \in PathText /\ k.path.type \in {"PathPrefix", "Exact"} BY <4>1 DEF Path, PlainPath
      <4>3. CASE k.path.type = "PathPrefix"
        <5>1. PathMatches(k, path) <=> PrefixMatches(want, path) BY <3>2, <4>3 DEF PathMatches
        <5>2. API!PathHolds(k.path, path)
                <=> Len(want.segments) <= Len(path.segments) /\ want.segments = SubSeq(path.segments, 1, Len(want.segments))
          BY <4>3 DEF API!PathHolds
        <5>3. want = Root \/ ~want.slash BY <4>1, <4>3 DEF PlainPath
        <5> HIDE DEF want, path
        <5>4. path \in PathText BY <1>1 DEF path
        <5>5. IsPrefix(want.segments, path.segments)
                <=> Len(want.segments) <= Len(path.segments) /\ want.segments = SubSeq(path.segments, 1, Len(want.segments))
          BY <4>2, <5>4, TextParts, PrefixIs
        <5>6. want.slash => path.slash \/ Len(path.segments) > Len(want.segments)
          <6> SUFFICES ASSUME want.slash, ~path.slash PROVE Len(path.segments) > Len(want.segments) OBVIOUS
          <6>1. want.segments = <<>> BY <5>3 DEF Root
          <6>2. path.segments # <<>> /\ path.segments \in Seq(Segments) BY <5>4, TextParts
          <6> QED BY <6>1, <6>2
        <5> QED BY <3>2, <5>1, <5>2, <5>5, <5>6 DEF PrefixMatches, path
      <4>4. CASE k.path.type = "Exact"
        <5>1. PathMatches(k, path) <=> path = want BY <3>2, <4>4 DEF PathMatches
        <5>2. API!PathHolds(k.path, path) <=> path = want BY <4>4 DEF API!PathHolds
        <5> QED BY <3>2, <5>1, <5>2
      <4> QED BY <4>2, <4>3, <4>4
    <3> QED BY <3>1, <3>2
  <2> QED BY <1>4, <2>1 DEF SingleMatch, HTTPMatches, MethodMatches, HeadersMatch, ParamsMatch, API!Holds
<1> QED BY <1>1, <1>2, <1>3, <1>4 DEF Family


-------------------------------------------------------------------------------
(* The ways to serve a request at a listener, as knm and as the Gateway    *)
(* API see them.                                                           *)

HostsOf(r) ==
    {p \in IF world.routes[r].hostnames = {} THEN {None} ELSE world.routes[r].hostnames :
        HostnameMatches(p, intent.host)}
FitsOf(r, n) == {k \in MatchesOf(world.routes[r].rules[n]) : SingleMatch(k, intent)}
WayFor(r, n, h, k) == [route |-> r, rule |-> n, host |-> h, match |-> k]

IsWay(g, l, w) ==
    /\ w.route \in DOMAIN world.routes /\ Attached(world.routes[w.route], g, l)
    /\ w.rule \in DOMAIN world.routes[w.route].rules
    /\ w.host \in HostsOf(w.route) /\ w.match \in FitsOf(w.route, w.rule)

\* What the comparison with the Gateway API takes for granted.
Agreeing == PathInv /\ SeesAll /\ OneLabelWildcards /\ Comparable

LEMMA AgreeingParts ==
    ASSUME Agreeing
    PROVE  /\ world \in World /\ intent \in Intent
           /\ intent.host \in Seq(Labels) /\ intent.path \in PathText
<1>1. world \in World BY LegalCases DEF Agreeing, Legal
<1>2. intent \in Intent BY DEF Agreeing, SeesAll, PathInv
<1> QED BY <1>1, <1>2 DEF Intent

LEMMA MatchesArePlain ==
    ASSUME Agreeing, NEW r \in DOMAIN world.routes, NEW n \in DOMAIN world.routes[r].rules,
           NEW k \in MatchesOf(world.routes[r].rules[n])
    PROVE  Plainly(k)
<1>1. world.routes \in Seq(Route) BY AgreeingParts DEF World
<1> DEFINE route == world.routes[r]
           rule == route.rules[n]
<1>2. route \in Route /\ route \in ToSet(world.routes) BY <1>1, ElementType DEF ToSet
<1>3. route.rules \in Seq(Rule) BY <1>2 DEF Route
<1>4. rule \in Rule /\ rule \in ToSet(route.rules)
  <2>1. n \in DOMAIN route.rules OBVIOUS
  <2> HIDE DEF route
  <2> QED BY <1>3, <2>1, ElementType DEF ToSet
<1>5. k \in Match BY <1>4 DEF MatchesOf, Rule, AnyMatch, Match
<1>6. k \in EntriesOf(route) BY <1>4 DEF EntriesOf
<1>7. k.type = "Exact" /\ (k.path # None => PlainPath(k.path)) BY <1>2, <1>6 DEF Agreeing, Comparable, PlainPath
<1> QED BY <1>5, <1>7 DEF Plainly

LEMMA HostsAreNamed ==
    ASSUME Agreeing, NEW r \in DOMAIN world.routes
    PROVE  /\ HostsOf(r) = {p \in IF world.routes[r].hostnames = {} THEN {None} ELSE world.routes[r].hostnames :
                               API!Names(p, intent.host)}
           /\ world.routes[r].hostnames \in SUBSET Hostname
           /\ HostsOf(r) # {} <=> RouteHostMatches(world.routes[r], intent.host)
<1>1. world.routes \in Seq(Route) BY AgreeingParts DEF World
<1> DEFINE route == world.routes[r]
<1>2. route \in Route /\ route \in ToSet(world.routes) BY <1>1, ElementType DEF ToSet
<1>3. route.hostnames \in SUBSET Hostname BY <1>2 DEF Route
<1>4. ASSUME NEW p \in route.hostnames PROVE HostnameMatches(p, intent.host) = API!Names(p, intent.host)
  <2>1. p \in UNION ({q.hostnames : q \in ToSet(world.routes)}
                     \cup {{l.hostname : l \in ToSet(g.listeners)} : g \in ToSet(world.gateways)})
    BY <1>2
  <2> QED BY <2>1 DEF Agreeing, OneLabelWildcards
<1>5. HostnameMatches(None, intent.host) /\ API!Names(None, intent.host) BY DEF HostnameMatches, API!Names
<1>6. CASE route.hostnames = {} BY <1>3, <1>5, <1>6 DEF HostsOf, RouteHostMatches
<1>7. CASE route.hostnames # {} BY <1>3, <1>4, <1>7 DEF HostsOf, RouteHostMatches
<1> QED BY <1>6, <1>7

LEMMA WaysAre ==
    ASSUME Agreeing, NEW g, NEW l
    PROVE  /\ \A w \in API!Ways(world.routes, g, l, intent) : IsWay(g, l, w)
           /\ \A r \in DOMAIN world.routes : \A n \in DOMAIN world.routes[r].rules :
                 Attached(world.routes[r], g, l) =>
                     \A h \in HostsOf(r) : \A k \in FitsOf(r, n) :
                         WayFor(r, n, h, k) \in API!Ways(world.routes, g, l, intent)
<1> DEFINE attached == {r \in DOMAIN world.routes : \E i \in DOMAIN world.routes[r].parents :
                           /\ world.routes[r].parents[i].kind /\ world.routes[r].parents[i].gateway = g
                           /\ world.routes[r].parents[i].section \in {0, l}}
<1>1. API!Ways(world.routes, g, l, intent) = UNION {API!WaysOf(world.routes, r, intent) : r \in attached}
  BY DEF API!Ways
<1>2. \A r \in DOMAIN world.routes : r \in attached <=> Attached(world.routes[r], g, l)
  BY DEF Attached, ToSet
<1>3. attached \in SUBSET DOMAIN world.routes OBVIOUS
<1>4. ASSUME NEW r \in DOMAIN world.routes
      PROVE  API!WaysOf(world.routes, r, intent)
               = UNION {{WayFor(r, n, h, k) : h \in HostsOf(r), k \in FitsOf(r, n)} : n \in DOMAIN world.routes[r].rules}
  <2>1. ASSUME NEW n \in DOMAIN world.routes[r].rules
        PROVE  FitsOf(r, n) = {k \in IF world.routes[r].rules[n].matches = {} THEN {API!Everything}
                                     ELSE world.routes[r].rules[n].matches : API!Holds(k, intent)}
    <3>1. API!Everything = AnyMatch BY DEF API!Everything, AnyMatch
    <3>2. \A k \in MatchesOf(world.routes[r].rules[n]) : SingleMatch(k, intent) <=> API!Holds(k, intent)
      BY MatchesArePlain, FitsHold, AgreeingParts
    <3> QED BY <3>1, <3>2 DEF FitsOf, MatchesOf
  <2>2. HostsOf(r) = {p \in IF world.routes[r].hostnames = {} THEN {None} ELSE world.routes[r].hostnames :
                         API!Names(p, intent.host)}
    BY HostsAreNamed
  <2> QED BY <2>1, <2>2 DEF API!WaysOf, WayFor
<1> HIDE DEF attached
<1>5. ASSUME NEW w \in API!Ways(world.routes, g, l, intent) PROVE IsWay(g, l, w)
  <2>1. PICK r \in attached : w \in API!WaysOf(world.routes, r, intent) BY <1>1
  <2>2. r \in DOMAIN world.routes /\ Attached(world.routes[r], g, l) BY <1>2, <1>3
  <2>3. PICK n \in DOMAIN world.routes[r].rules : \E h \in HostsOf(r), k \in FitsOf(r, n) : w = WayFor(r, n, h, k)
    BY <1>4, <2>1, <2>2
  <2>4. PICK h \in HostsOf(r), k \in FitsOf(r, n) : w = WayFor(r, n, h, k) BY <2>3
  <2>5. w.route = r /\ w.rule = n /\ w.host = h /\ w.match = k BY <2>4 DEF WayFor
  <2> QED BY <2>2, <2>3, <2>4, <2>5 DEF IsWay
<1>6. ASSUME NEW r \in DOMAIN world.routes, NEW n \in DOMAIN world.routes[r].rules,
             Attached(world.routes[r], g, l), NEW h \in HostsOf(r), NEW k \in FitsOf(r, n)
      PROVE  WayFor(r, n, h, k) \in API!Ways(world.routes, g, l, intent)
  <2>1. r \in attached BY <1>2, <1>6
  <2>2. WayFor(r, n, h, k) \in API!WaysOf(world.routes, r, intent) BY <1>4
  <2> QED BY <1>1, <2>1, <2>2
<1> QED BY <1>5, <1>6

\* Three tie-breakers in a row by which the smallest number is first.
LEMMA LeastThree ==
    ASSUME NEW W, NEW B \in SUBSET W, NEW f \in [W -> Nat], NEW g \in [W -> Nat], NEW h \in [W -> Nat], NEW w \in W
    PROVE  w \in API!Least(API!Least(API!Least(B, f), g), h)
             <=> /\ w \in B
                 /\ \A y \in B : \/ f[w] < f[y]
                                 \/ f[w] = f[y] /\ g[w] < g[y]
                                 \/ f[w] = f[y] /\ g[w] = g[y] /\ h[w] <= h[y]
<1> DEFINE First(x, y) == \/ f[x] < f[y]
                          \/ f[x] = f[y] /\ g[x] < g[y]
                          \/ f[x] = f[y] /\ g[x] = g[y] /\ h[x] <= h[y]
           L == API!Least(B, f)
           M == API!Least(L, g)
<1>1. \A x \in W : f[x] \in Nat /\ g[x] \in Nat /\ h[x] \in Nat OBVIOUS
<1>2. ASSUME w \in API!Least(M, h), NEW y \in B PROVE w \in B /\ First(w, y)
  <2>1. w \in M /\ w \in L /\ w \in B BY <1>2 DEF API!Least
  <2>2. f[w] <= f[y] BY <2>1 DEF API!Least
  <2>3. CASE f[w] = f[y]
    <3>1. y \in L BY <2>1, <2>3 DEF API!Least
    <3>2. g[w] <= g[y] BY <2>1, <3>1 DEF API!Least
    <3>3. CASE g[w] = g[y]
      <4>1. y \in M BY <2>1, <3>1, <3>3 DEF API!Least
      <4>2. h[w] <= h[y] BY <1>2, <4>1 DEF API!Least
      <4> QED BY <2>1, <2>3, <3>3, <4>2
    <3> QED BY <1>1, <2>1, <2>3, <3>2, <3>3
  <2> QED BY <1>1, <2>1, <2>2, <2>3
<1>3. ASSUME w \in B, \A y \in B : First(w, y) PROVE w \in API!Least(M, h)
  <2>1. w \in L
    <3>1. \A y \in B : f[w] <= f[y] BY <1>1, <1>3
    <3> QED BY <1>3, <3>1 DEF API!Least
  <2>2. \A y \in L : y \in B /\ f[y] = f[w]
    <3>1. ASSUME NEW y \in L PROVE y \in B /\ f[y] <= f[w] BY <1>3, <3>1 DEF API!Least
    <3>2. \A y \in B : f[w] <= f[y] BY <1>1, <1>3
    <3> QED BY <1>1, <1>3, <3>1, <3>2
  <2>3. w \in M
    <3>1. \A y \in L : g[w] <= g[y] BY <1>1, <1>3, <2>2
    <3> QED BY <2>1, <3>1 DEF API!Least
  <2>4. ASSUME NEW y \in M PROVE h[w] <= h[y]
    <3>1. y \in L /\ g[y] <= g[w] BY <2>1, <2>4 DEF API!Least
    <3>2. g[w] <= g[y] BY <2>3, <3>1 DEF API!Least
    <3>3. y \in B /\ f[y] = f[w] BY <2>2, <3>1
    <3> QED BY <1>1, <1>3, <3>1, <3>2, <3>3
  <2> QED BY <2>3, <2>4 DEF API!Least
<1>4. w \in API!Least(M, h) => w \in B BY DEF API!Least
<1> QED BY <1>2, <1>3, <1>4


\* The key of a way: seven numbers, as HostScore and MatchScore give them.
HostKeys(W) == [w \in W |-> HostKey(w.host)]
KeysOf(W) == [w \in W |-> HostKey(w.host) \o MatchScore(w.match, intent.family)]

Created(w) == world.routes[w.route].created

\* The first of the ways with the greatest key: the older route, the first by
\* name, the first rule.
Earlier(w, y) ==
    \/ Created(w) < Created(y)
    \/ Created(w) = Created(y) /\ w.route < y.route
    \/ Created(w) = Created(y) /\ w.route = y.route /\ w.rule <= y.rule

LEMMA WayParts ==
    ASSUME Agreeing, NEW g, NEW l, NEW w, IsWay(g, l, w)
    PROVE  /\ w.host \in Hostname \cup {None} /\ HostnameMatches(w.host, intent.host)
           /\ Plainly(w.match) /\ SingleMatch(w.match, intent)
           /\ Created(w) \in Nat /\ w.route \in Nat /\ w.rule \in Nat
<1>1. w.host \in HostsOf(w.route) /\ w.match \in FitsOf(w.route, w.rule) /\ w.route \in DOMAIN world.routes
      /\ w.rule \in DOMAIN world.routes[w.route].rules
  BY DEF IsWay
<1>2. w.host \in Hostname \cup {None} /\ HostnameMatches(w.host, intent.host)
  <2>1. world.routes[w.route].hostnames \in SUBSET Hostname BY <1>1, HostsAreNamed
  <2> QED BY <1>1, <2>1 DEF HostsOf
<1>3. Plainly(w.match) /\ SingleMatch(w.match, intent) BY <1>1, MatchesArePlain DEF FitsOf
<1>4. w.route \in Nat /\ w.rule \in Nat BY <1>1, AgreeingParts, RouteParts
<1>5. Created(w) \in Nat
  <2>1. world.routes \in Seq(Route) BY AgreeingParts DEF World
  <2>2. world.routes[w.route] \in Route BY <1>1, <2>1, ElementType
  <2> QED BY <2>2 DEF Created, Route
<1> QED BY <1>2, <1>3, <1>4, <1>5

LEMMA HostFollows ==
    ASSUME Agreeing, NEW g, NEW l, NEW W, \A w \in W : IsWay(g, l, w)
    PROVE  /\ HostKeys(W) \in [W -> [1..2 -> Nat]]
           /\ [w \in W |-> PlainLabels(w.host)] \in [W -> Nat]
           /\ [w \in W |-> AllLabels(w.host)] \in [W -> Nat]
           /\ Follows(W, HostKeys(W), [w \in W |-> PlainLabels(w.host)], [w \in W |-> AllLabels(w.host)])
<1>1. ASSUME NEW w \in W
      PROVE  HostKey(w.host) \in [1..2 -> Nat] /\ PlainLabels(w.host) \in Nat /\ AllLabels(w.host) \in Nat
  <2> DEFINE h == w.host
             host == intent.host
  <2>1. h \in Hostname \cup {None} /\ HostnameMatches(h, host) /\ host \in Seq(Labels)
    BY WayParts, AgreeingParts
  <2> HIDE DEF h, host
  <2>2. HostKey(h) \in [1..2 -> Nat] BY <2>1, HostOrder
  <2>3. PlainLabels(h) \in Nat /\ AllLabels(h) \in Nat BY <2>1, HostKeyIs
  <2> QED BY <2>2, <2>3 DEF h
<1>2. ASSUME NEW w \in W, NEW y \in W
      PROVE  LexLess(HostKey(w.host), HostKey(y.host))
               <=> \/ PlainLabels(w.host) < PlainLabels(y.host)
                   \/ PlainLabels(w.host) = PlainLabels(y.host) /\ AllLabels(w.host) < AllLabels(y.host)
  <2> DEFINE h == w.host
             k == y.host
             host == intent.host
  <2>1. h \in Hostname \cup {None} /\ HostnameMatches(h, host) /\ host \in Seq(Labels)
        /\ k \in Hostname \cup {None} /\ HostnameMatches(k, host)
    BY WayParts, AgreeingParts
  <2> HIDE DEF h, k, host
  <2>2. LexLess(HostKey(h), HostKey(k))
          <=> PlainLabels(h) < PlainLabels(k) \/ (PlainLabels(h) = PlainLabels(k) /\ AllLabels(h) < AllLabels(k))
    BY <2>1, HostOrder
  <2> QED BY <2>2 DEF h, k
<1> QED BY <1>1, <1>2 DEF Follows, HostKeys

LEMMA KeysAreFiveMore ==
    ASSUME Agreeing, NEW g, NEW l, NEW W, \A w \in W : IsWay(g, l, w)
    PROVE  KeysOf(W) = FiveMore(W, HostKeys(W), [w \in W |-> FirstScore(w.match)],
                                [w \in W |-> SecondScore(w.match)], [w \in W |-> ThirdScore(w.match)],
                                [w \in W |-> FourthScore(w.match)], [w \in W |-> FifthScore(w.match)])
<1>1. ASSUME NEW w \in W
      PROVE  MatchScore(w.match, intent.family)
               = <<FirstScore(w.match), SecondScore(w.match), ThirdScore(w.match), FourthScore(w.match), FifthScore(w.match)>>
  <2> DEFINE k == w.match
  <2>1. Plainly(k) /\ SingleMatch(k, intent) /\ intent \in Intent BY WayParts, AgreeingParts
  <2> HIDE DEF k
  <2> QED BY <2>1, ScoreIs DEF k
<1> QED BY <1>1 DEF KeysOf, FiveMore, HostKeys

LEMMA ScoresTyped ==
    ASSUME Agreeing, NEW g, NEW l, NEW W, \A w \in W : IsWay(g, l, w)
    PROVE  \A w \in W : /\ FirstScore(w.match) \in Nat /\ SecondScore(w.match) \in Nat /\ ThirdScore(w.match) \in Nat
                        /\ FourthScore(w.match) \in Nat /\ FifthScore(w.match) \in Nat
<1> SUFFICES ASSUME NEW w \in W
             PROVE  /\ FirstScore(w.match) \in Nat /\ SecondScore(w.match) \in Nat /\ ThirdScore(w.match) \in Nat
                    /\ FourthScore(w.match) \in Nat /\ FifthScore(w.match) \in Nat
  OBVIOUS
<1> DEFINE k == w.match
<1>1. Plainly(k) /\ SingleMatch(k, intent) /\ intent \in Intent BY WayParts, AgreeingParts
<1> HIDE DEF k
<1>2. /\ ScoreBound \in Nat /\ FirstScore(k) \in 0..ScoreBound /\ SecondScore(k) \in 0..ScoreBound
      /\ ThirdScore(k) \in 0..ScoreBound /\ FourthScore(k) \in 0..ScoreBound /\ FifthScore(k) \in 0..ScoreBound
  BY <1>1, ScoreIs
<1> QED BY <1>2 DEF k


\* Tie-breakers that order alike, or that do not tell anything apart.
LEMMA MostAlike ==
    ASSUME NEW W, NEW S \in SUBSET W, NEW f, NEW a, \A w, y \in W : f[w] <= f[y] <=> a[w] <= a[y]
    PROVE  API!Most(S, f) = API!Most(S, a)
BY DEF API!Most

LEMMA MostSame ==
    ASSUME NEW W, NEW S \in SUBSET W, NEW a, \A w \in W : a[w] = 0
    PROVE  API!Most(S, a) = S
BY DEF API!Most

LEMMA MostWithin ==
    ASSUME NEW W, NEW S \in SUBSET W, NEW f
    PROVE  API!Most(S, f) \in SUBSET W
BY DEF API!Most

LEMMA BestWays ==
    ASSUME Agreeing, NEW g, NEW l, NEW W, \A w \in W : IsWay(g, l, w)
    PROVE  API!Most(API!Most(API!Most(API!Most(API!Most(API!Most(API!Most(W,
               [w \in W |-> PlainLabels(w.host)]), [w \in W |-> AllLabels(w.host)]),
               [w \in W |-> FirstScore(w.match)]), [w \in W |-> SecondScore(w.match)]), [w \in W |-> ThirdScore(w.match)]),
               [w \in W |-> FourthScore(w.match)]), [w \in W |-> FifthScore(w.match)])
             = Keyed(W, KeysOf(W))
<1> DEFINE P == [w \in W |-> PlainLabels(w.host)]
           G == [w \in W |-> AllLabels(w.host)]
           F == HostKeys(W)
           A == [w \in W |-> FirstScore(w.match)]
           B == [w \in W |-> SecondScore(w.match)]
           C == [w \in W |-> ThirdScore(w.match)]
           D == [w \in W |-> FourthScore(w.match)]
           E == [w \in W |-> FifthScore(w.match)]
<1>1. F \in [W -> [1..2 -> Nat]] /\ P \in [W -> Nat] /\ G \in [W -> Nat] /\ Follows(W, F, P, G) BY HostFollows
<1>2. KeysOf(W) = FiveMore(W, F, A, B, C, D, E) BY KeysAreFiveMore
<1>3. A \in [W -> Nat] /\ B \in [W -> Nat] /\ C \in [W -> Nat] /\ D \in [W -> Nat] /\ E \in [W -> Nat]
  <2>1. \A w \in W : /\ FirstScore(w.match) \in Nat /\ SecondScore(w.match) \in Nat /\ ThirdScore(w.match) \in Nat
                     /\ FourthScore(w.match) \in Nat /\ FifthScore(w.match) \in Nat
    BY ScoresTyped
  <2> QED BY <2>1
<1> HIDE DEF P, G, F, A, B, C, D, E
<1>4. API!Most(API!Most(W, P), G) = Keyed(W, F) BY <1>1, MostTwo
<1>5. API!Most(API!Most(API!Most(API!Most(API!Most(Keyed(W, F), A), B), C), D), E) = Keyed(W, FiveMore(W, F, A, B, C, D, E))
  <2>1. F \in [W -> [1..2 -> Nat]] BY <1>1
  <2>2. FiveCounts(W, A, B, C, D, E) BY <1>3 DEF FiveCounts
  <2> QED BY ONLY <2>1, <2>2, MostFive, SMTT(30)
<1>6. API!Most(API!Most(API!Most(API!Most(API!Most(API!Most(API!Most(W, P), G), A), B), C), D), E) = Keyed(W, KeysOf(W))
  BY <1>2, <1>4, <1>5
<1> QED BY <1>6 DEF P, G, A, B, C, D, E

LEMMA BestHTTP ==
    ASSUME Agreeing, intent.family = "HTTPRoute", NEW g, NEW l, NEW W, \A w \in W : IsWay(g, l, w),
           NEW S \in SUBSET W
    PROVE  /\ API!Most(S, [w \in W |-> IF w.match.path # None /\ w.match.path.type = "Exact" THEN 1 ELSE 0])
                = API!Most(S, [w \in W |-> FirstScore(w.match)])
           /\ API!Most(S, [w \in W |-> API!Characters(w.match.path)]) = API!Most(S, [w \in W |-> SecondScore(w.match)])
<1> DEFINE e == [w \in W |-> IF w.match.path # None /\ w.match.path.type = "Exact" THEN 1 ELSE 0]
           p == [w \in W |-> API!Characters(w.match.path)]
           a == [w \in W |-> FirstScore(w.match)]
           b == [w \in W |-> SecondScore(w.match)]
<1>1. ASSUME NEW w \in W
      PROVE  e[w] \in Nat /\ a[w] = e[w] + 1 /\ b[w] = p[w]
  <2> DEFINE k == w.match
  <2>1. Plainly(k) /\ SingleMatch(k, intent) /\ intent \in Intent BY WayParts, AgreeingParts
  <2>2. PathMatches(k, intent.path) BY <2>1 DEF SingleMatch, HTTPMatches
  <2>3. e[w] = (IF k.path # None /\ k.path.type = "Exact" THEN 1 ELSE 0)
        /\ p[w] = API!Characters(k.path)
        /\ a[w] = FirstScore(k) /\ b[w] = SecondScore(k)
    OBVIOUS
  <2> HIDE DEF k
  <2>4. PathScore(k) = <<IF k.path # None /\ k.path.type = "Exact" THEN 2 ELSE 1,
                         IF k.path = None THEN 1 ELSE PathChars(k.path.value)>>
    BY <2>1, <2>2, PathScoreIs
  <2>5. FirstScore(k) = PathScore(k)[1] /\ SecondScore(k) = PathScore(k)[2] BY DEF FirstScore, SecondScore
  <2>6. API!Characters(k.path) = IF k.path = None THEN 1 ELSE PathChars(k.path.value)
    BY DEF API!Characters, PathChars
  <2> HIDE DEF e, p, a, b
  <2> QED BY <2>3, <2>4, <2>5, <2>6
<1>2. API!Most(S, e) = API!Most(S, a)
  <2> HIDE DEF e, a
  <2>1. \A w, y \in W : e[w] <= e[y] <=> a[w] <= a[y] BY <1>1
  <2> QED BY <2>1, MostAlike
<1>3. API!Most(S, p) = API!Most(S, b)
  <2> HIDE DEF p, b
  <2>1. \A w, y \in W : p[w] <= p[y] <=> b[w] <= b[y] BY <1>1
  <2> QED BY <2>1, MostAlike
<1> QED BY <1>2, <1>3

LEMMA BestGRPC ==
    ASSUME Agreeing, intent.family = "GRPCRoute", NEW g, NEW l, NEW W, \A w \in W : IsWay(g, l, w),
           NEW S \in SUBSET W
    PROVE  API!Most(S, [w \in W |-> API!Letters(w.match.call)]) = API!Most(S, [w \in W |-> ThirdScore(w.match)])
<1> DEFINE c == [w \in W |-> API!Letters(w.match.call)]
           a == [w \in W |-> ThirdScore(w.match)]
           n == IF intent.call = None THEN 1 ELSE Len(intent.call)
<1>1. (n \in Nat /\ n >= 1) \/ W = {}
  <2>1. CASE W # {}
    <3>1. PICK w \in W : TRUE BY <2>1
    <3> DEFINE k == w.match
    <3>2. Plainly(k) /\ intent \in Intent BY WayParts, AgreeingParts
    <3> HIDE DEF k
    <3> QED BY <3>2, PlainNames
  <2> QED BY <2>1
<1> HIDE DEF n
<1>2. ASSUME NEW w \in W PROVE (c[w] = 0 /\ a[w] = 0) \/ (c[w] = n /\ a[w] = 1)
  <2> DEFINE k == w.match
  <2>1. Plainly(k) /\ SingleMatch(k, intent) /\ intent \in Intent BY WayParts, AgreeingParts
  <2>2. c[w] = API!Letters(k.call) /\ a[w] = ThirdScore(k) OBVIOUS
  <2> HIDE DEF k, c, a
  <2>3. NameMatches(k.type, k.call, intent.call) BY <2>1 DEF SingleMatch, GRPCMatches, CallMatches
  <2>4. k.call \in {None, intent.call} BY <2>1, <2>3, PlainNames
  <2>5. ThirdScore(k) = Given(k.call) BY DEF ThirdScore
  <2> QED BY <2>2, <2>4, <2>5 DEF n, Given, API!Letters
<1> HIDE DEF c, a
<1>3. \A w, y \in W : c[w] <= c[y] <=> a[w] <= a[y] BY <1>1, <1>2
<1>4. API!Most(S, c) = API!Most(S, a) BY <1>3, MostAlike
<1> QED BY <1>4 DEF c, a


WaysAt(g, l) == API!Ways(world.routes, g, l, intent)

LEMMA WinnerIs ==
    ASSUME Agreeing, NEW g, NEW l
    PROVE  LET W == WaysAt(g, l)
           IN  API!Winner(world.routes, g, l, intent)
                 = {<<w.route, w.rule>> :
                       w \in API!Least(API!Least(API!Least(Keyed(W, KeysOf(W)), [w \in W |-> Created(w)]),
                                                 [w \in W |-> w.route]), [w \in W |-> w.rule])}
<1> DEFINE W == WaysAt(g, l)
<1>1. \A w \in W : IsWay(g, l, w) BY WaysAre DEF WaysAt
<1> DEFINE P == [w \in W |-> PlainLabels(w.host)]
           G == [w \in W |-> AllLabels(w.host)]
           A == [w \in W |-> FirstScore(w.match)]
           B == [w \in W |-> SecondScore(w.match)]
           C == [w \in W |-> ThirdScore(w.match)]
           D == [w \in W |-> FourthScore(w.match)]
           E == [w \in W |-> FifthScore(w.match)]
           plain == [w \in W |-> IF w.host # None /\ ~w.host.wild THEN Len(w.host.labels) ELSE 0]
           suffix == [w \in W |-> IF w.host = None THEN 0 ELSE Len(w.host.labels)]
           exact == [w \in W |-> IF w.match.path # None /\ w.match.path.type = "Exact" THEN 1 ELSE 0]
           prefix == [w \in W |-> API!Characters(w.match.path)]
           method == [w \in W |-> API!Given(w.match.method)]
           service == [w \in W |-> API!Letters(w.match.service)]
           call == [w \in W |-> API!Letters(w.match.call)]
           headers == [w \in W |-> API!Cardinality(w.match.headers)]
           params == [w \in W |-> API!Cardinality(w.match.params)]
           age == [w \in W |-> world.routes[w.route].created]
           alphabet == [w \in W |-> w.route]
           order == [w \in W |-> w.rule]
           hosts == API!Most(API!Most(W, plain), suffix)
           http == API!Most(API!Most(API!Most(API!Most(API!Most(hosts, exact), prefix), method), headers), params)
           grpc == API!Most(API!Most(API!Most(hosts, service), call), headers)
           best == CASE intent.family = "HTTPRoute" -> http
                     [] intent.family = "GRPCRoute" -> grpc
                     [] intent.family = "TLSRoute"  -> hosts
<1>2. API!Winner(world.routes, g, l, intent)
        = {<<w.route, w.rule>> : w \in API!Least(API!Least(API!Least(best, age), alphabet), order)}
  BY DEF API!Winner, WaysAt
<1> HIDE DEF W
<1>3. API!Most(API!Most(API!Most(API!Most(API!Most(API!Most(API!Most(W, P), G), A), B), C), D), E) = Keyed(W, KeysOf(W))
  BY <1>1, BestWays
<1>4. plain = P /\ suffix = G BY DEF PlainLabels, AllLabels
<1>c. \A S : API!Cardinality(S) = Cardinality(S) BY DEF API!Cardinality, Cardinality
<1>h. headers = [w \in W |-> Cardinality(w.match.headers)] /\ params = [w \in W |-> Cardinality(w.match.params)] BY <1>c
<1>5. intent.family \in {"HTTPRoute", "GRPCRoute", "TLSRoute"} BY AgreeingParts DEF Intent, Family
<1>6. age = [w \in W |-> Created(w)] BY DEF Created
<1>7. best = Keyed(W, KeysOf(W))
  <2>1. CASE intent.family = "HTTPRoute"
    <3>1. method = C /\ headers = D /\ params = E
      BY <1>h, <2>1 DEF ThirdScore, FourthScore, FifthScore, Given, API!Given
    <3>2. \A S \in SUBSET W : API!Most(S, exact) = API!Most(S, A) /\ API!Most(S, prefix) = API!Most(S, B)
      BY <1>1, <2>1, BestHTTP
    <3>3. best = http BY <2>1
    <3> HIDE DEF plain, suffix, exact, prefix, method, headers, params, P, G, A, B, C, D, E, best
    <3>4. hosts \in SUBSET W BY DEF API!Most
    <3> HIDE DEF hosts
    <3>5. API!Most(hosts, exact) = API!Most(hosts, A) /\ API!Most(hosts, A) \in SUBSET W
      BY <3>2, <3>4, MostWithin
    <3>6. API!Most(API!Most(hosts, A), prefix) = API!Most(API!Most(hosts, A), B) BY <3>2, <3>5
    <3>7. http = API!Most(API!Most(API!Most(API!Most(API!Most(hosts, A), B), C), D), E) BY <3>1, <3>5, <3>6
    <3> QED BY <1>3, <1>4, <3>3, <3>7 DEF hosts
  <2>2. CASE intent.family = "GRPCRoute"
    <3>1. service = B /\ headers = D
      BY <1>h, <2>2 DEF SecondScore, FourthScore, NameChars, API!Letters
    <3>8. \A S \in SUBSET W : API!Most(S, call) = API!Most(S, C) BY <1>1, <2>2, BestGRPC
    <3>2. \A w \in W : A[w] = 0 /\ E[w] = 0 BY <2>2 DEF FirstScore, FifthScore
    <3>3. best = grpc BY <2>2
    <3> HIDE DEF plain, suffix, service, call, headers, P, G, A, B, C, D, E, best
    <3>4. hosts \in SUBSET W /\ grpc \in SUBSET W BY DEF API!Most
    <3> HIDE DEF hosts
    <3>5. API!Most(hosts, A) = hosts BY <3>2, <3>4, MostSame
    <3>9. API!Most(hosts, B) \in SUBSET W BY <3>4, MostWithin
    <3>6. grpc = API!Most(API!Most(API!Most(API!Most(hosts, A), B), C), D) BY <3>1, <3>5, <3>8, <3>9
    <3> HIDE DEF grpc
    <3>7. API!Most(grpc, E) = grpc BY <3>2, <3>4, MostSame
    <3> QED BY <1>3, <1>4, <3>3, <3>6, <3>7 DEF hosts
  <2>3. CASE intent.family = "TLSRoute"
    <3>1. \A w \in W : A[w] = 0 /\ B[w] = 0 /\ C[w] = 0 /\ D[w] = 0 /\ E[w] = 0
      BY <2>3 DEF FirstScore, SecondScore, ThirdScore, FourthScore, FifthScore
    <3>2. best = hosts BY <2>3
    <3> HIDE DEF plain, suffix, P, G, A, B, C, D, E, best
    <3>3. hosts \in SUBSET W BY DEF API!Most
    <3> HIDE DEF hosts
    <3>4. API!Most(hosts, A) = hosts /\ API!Most(hosts, B) = hosts /\ API!Most(hosts, C) = hosts
          /\ API!Most(hosts, D) = hosts /\ API!Most(hosts, E) = hosts
      BY <3>1, <3>3, MostSame
    <3> QED BY <1>3, <1>4, <3>2, <3>4 DEF hosts
  <2> QED BY <1>5, <2>1, <2>2, <2>3
<1> HIDE DEF best, P, G, A, B, C, D, E, age, alphabet, order
<1>8. API!Winner(world.routes, g, l, intent)
        = {<<w.route, w.rule>> : w \in API!Least(API!Least(API!Least(Keyed(W, KeysOf(W)), age), alphabet), order)}
  BY <1>2, <1>7
<1> QED BY <1>6, <1>8 DEF W, alphabet, order


\* Scores of seven numbers are ordered.
Seven == [1..7 -> Nat]

LEMMA SevenOrder ==
    /\ \A s \in Seven : \A t \in Seven : s = t \/ LexLess(s, t) \/ LexLess(t, s)
    /\ \A s \in Seven : ~LexLess(s, s)
    /\ \A s \in Seven : \A t \in Seven : \A u \in Seven : LexLess(s, t) /\ LexLess(t, u) => LexLess(s, u)
<1>0. 7 \in Nat OBVIOUS
<1>1. \A s \in Seven : \A t \in Seven : s = t \/ LexLess(s, t) \/ LexLess(t, s)
  <2> SUFFICES ASSUME NEW s \in [1..7 -> Nat], NEW t \in [1..7 -> Nat], s # t
               PROVE  LexLess(s, t) \/ LexLess(t, s)
    BY DEF Seven
  <2> QED BY <1>0, LexTotal, Zenon
<1>2. \A s \in Seven : ~LexLess(s, s)
  <2> SUFFICES ASSUME NEW s \in [1..7 -> Nat] PROVE ~LexLess(s, s) BY DEF Seven
  <2> QED BY <1>0, LexNot, Zenon
<1>3. \A s \in Seven : \A t \in Seven : \A u \in Seven : LexLess(s, t) /\ LexLess(t, u) => LexLess(s, u)
  <2> SUFFICES ASSUME NEW s \in [1..7 -> Nat], NEW t \in [1..7 -> Nat], NEW u \in [1..7 -> Nat],
                      LexLess(s, t), LexLess(t, u)
               PROVE  LexLess(s, u)
    BY DEF Seven
  <2> QED BY <1>0, LexOrder, Zenon
<1> QED BY <1>1, <1>2, <1>3

LEMMA HostKeyBound ==
    ASSUME Agreeing, NEW r \in DOMAIN world.routes, NEW h \in HostsOf(r)
    PROVE  /\ HostKey(h) \in [1..2 -> 0..Len(intent.host)] /\ HostKey(h) \in [1..2 -> Nat]
           /\ ~LexLess(<<0, 0>>, HostKey(h)) => HostKey(h) = <<0, 0>>
<1> DEFINE host == intent.host
<1>1. h \in Hostname \cup {None} /\ HostnameMatches(h, host) /\ host \in Seq(Labels)
  BY HostsAreNamed, AgreeingParts DEF HostsOf
<1> HIDE DEF host
<1>2. /\ PlainLabels(h) \in Nat /\ AllLabels(h) \in Nat /\ Len(host) \in Nat
      /\ \/ PlainLabels(h) = 0 /\ AllLabels(h) = 0 /\ HostKey(h) = <<0, 0>>
         \/ PlainLabels(h) = 0 /\ AllLabels(h) + 1 = Len(host) /\ AllLabels(h) > 0
            /\ HostKey(h) = <<AllLabels(h), AllLabels(h) + 1>>
         \/ PlainLabels(h) = Len(host) /\ AllLabels(h) = Len(host) /\ Len(host) > 0
            /\ HostKey(h) = <<Len(host), Len(host)>>
  BY <1>1, HostKeyIs
<1>3. PICK a \in 0..Len(host), b \in 0..Len(host) : HostKey(h) = <<a, b>> /\ (a > 0 \/ HostKey(h) = <<0, 0>>)
  <2>1. CASE HostKey(h) = <<0, 0>> BY <1>2, <2>1
  <2>2. CASE AllLabels(h) + 1 = Len(host) /\ AllLabels(h) > 0 /\ HostKey(h) = <<AllLabels(h), AllLabels(h) + 1>>
    <3>1. AllLabels(h) \in 0..Len(host) /\ AllLabels(h) + 1 \in 0..Len(host) BY <1>2, <2>2
    <3> QED BY <2>2, <3>1
  <2>3. CASE Len(host) > 0 /\ HostKey(h) = <<Len(host), Len(host)>>
    <3>1. Len(host) \in 0..Len(host) BY <1>2
    <3> QED BY <2>3, <3>1
  <2> QED BY <1>2, <2>1, <2>2, <2>3
<1>4. <<a, b>> \in [1..2 -> 0..Len(host)] /\ a \in Nat /\ b \in Nat BY <1>2
<1>5. <<a, b>> \in [1..2 -> Nat] BY <1>4
<1>6. LexLess(<<0, 0>>, <<a, b>>) <=> 0 < a \/ (0 = a /\ 0 < b) BY <1>4, LexTwo
<1> QED BY <1>3, <1>4, <1>5, <1>6 DEF host

\* The hostname of a route that counts is one that matches the request best.
LEMMA HostBest ==
    ASSUME Agreeing, NEW r \in DOMAIN world.routes, HostsOf(r) # {}
    PROVE  \E h \in HostsOf(r) : /\ HostScore(world.routes[r], intent.host) = HostKey(h)
                                 /\ \A k \in HostsOf(r) : ~LexLess(HostKey(h), HostKey(k))
<1> DEFINE names == {q \in world.routes[r].hostnames : HostnameMatches(q, intent.host)}
           S == {<<0, 0>>} \cup {HostnameScore(p) : p \in names}
           best == Greatest(S)
<1>1. HostScore(world.routes[r], intent.host) = best BY DEF HostScore
<1>2. world.routes[r].hostnames \in SUBSET Hostname /\ Len(intent.host) \in Nat
  BY HostsAreNamed, AgreeingParts
<1>3. \A p \in names : p \in HostsOf(r) /\ p # None /\ HostnameScore(p) = HostKey(p)
  BY <1>2, TrafficAssumption DEF HostsOf, HostKey
<1>4. \A h \in HostsOf(r) : h \in names \/ HostKey(h) = <<0, 0>>
  BY DEF HostsOf, HostKey
<1>5. S \in SUBSET [1..2 -> 0..Len(intent.host)]
  <2>1. \A p \in names : HostnameScore(p) \in [1..2 -> 0..Len(intent.host)] BY <1>3, HostKeyBound
  <2>2. <<0, 0>> \in [1..2 -> 0..Len(intent.host)] BY <1>2
  <2> HIDE DEF names
  <2> QED BY <2>1, <2>2
<1>6. S # {} OBVIOUS
<1>7. \A h \in HostsOf(r) : HostKey(h) \in S BY <1>3, <1>4
<1>8. \A s \in S : s = <<0, 0>> \/ \E h \in HostsOf(r) : s = HostKey(h) BY <1>3
<1> HIDE DEF S, names
<1>9. best \in S /\ \A s \in S : ~LexLess(best, s)
  <2>1. 2 \in Nat OBVIOUS
  <2> QED BY <1>2, <1>5, <1>6, <2>1, GreatestIs
<1> HIDE DEF best
<1>10. CASE best = <<0, 0>>
  <2>1. PICK h \in HostsOf(r) : TRUE OBVIOUS
  <2>2. HostKey(h) = best BY <1>7, <1>9, <1>10, HostKeyBound
  <2> QED BY <1>1, <1>7, <1>9, <2>2
<1>11. CASE best # <<0, 0>>
  <2>1. PICK h \in HostsOf(r) : best = HostKey(h) BY <1>8, <1>9, <1>11
  <2> QED BY <1>1, <1>7, <1>9, <2>1
<1> QED BY <1>10, <1>11

\* The match of a rule that counts is one that accepts the request.
LEMMA MatchBest ==
    ASSUME Agreeing, NEW r \in DOMAIN world.routes, NEW n \in DOMAIN world.routes[r].rules, FitsOf(r, n) # {}
    PROVE  LET S == {MatchScore(m, intent.family) : m \in FitsOf(r, n)}
           IN  /\ \A k \in FitsOf(r, n) : MatchScore(k, intent.family) \in [1..5 -> Nat]
               /\ \E k \in FitsOf(r, n) : /\ Greatest(S) = MatchScore(k, intent.family)
                                          /\ \A m \in FitsOf(r, n) :
                                                ~LexLess(Greatest(S), MatchScore(m, intent.family))
<1> DEFINE S == {MatchScore(m, intent.family) : m \in FitsOf(r, n)}
<1>1. ASSUME NEW k \in FitsOf(r, n)
      PROVE  /\ MatchScore(k, intent.family) \in [1..5 -> Nat] /\ MatchScore(k, intent.family) \in [1..5 -> 0..ScoreBound]
             /\ ScoreBound \in Nat
  <2>1. intent \in Intent /\ Plainly(k) /\ SingleMatch(k, intent) BY AgreeingParts, MatchesArePlain DEF FitsOf
  <2> DEFINE a == FirstScore(k)
             b == SecondScore(k)
             c == ThirdScore(k)
             d == FourthScore(k)
             e == FifthScore(k)
             s == MatchScore(k, intent.family)
             most == ScoreBound
  <2>2. /\ most \in Nat /\ a \in 0..most /\ b \in 0..most /\ c \in 0..most /\ d \in 0..most /\ e \in 0..most
        /\ s = <<a, b, c, d, e>>
    BY <2>1, ScoreIs
  <2>3. s \in [1..5 -> Nat] /\ s \in [1..5 -> 0..most]
    <3> HIDE DEF a, b, c, d, e, s, most
    <3> QED BY <2>2
  <2> QED BY <2>2, <2>3
<1>2. S \in SUBSET [1..5 -> 0..ScoreBound] /\ S # {} /\ ScoreBound \in Nat BY <1>1
<1>3. \A k \in FitsOf(r, n) : MatchScore(k, intent.family) \in S OBVIOUS
<1>4. \A s \in S : \E k \in FitsOf(r, n) : s = MatchScore(k, intent.family) OBVIOUS
<1> HIDE DEF S
<1>5. Greatest(S) \in S /\ \A s \in S : ~LexLess(Greatest(S), s)
  <2>1. 5 \in Nat OBVIOUS
  <2> QED BY <1>2, <2>1, GreatestIs
<1>6. \A k \in FitsOf(r, n) : MatchScore(k, intent.family) \in [1..5 -> Nat] BY <1>1
<1>7. \E k \in FitsOf(r, n) : /\ Greatest(S) = MatchScore(k, intent.family)
                              /\ \A m \in FitsOf(r, n) : ~LexLess(Greatest(S), MatchScore(m, intent.family))
  <2>1. PICK k \in FitsOf(r, n) : Greatest(S) = MatchScore(k, intent.family) BY <1>4, <1>5
  <2> QED BY <1>3, <1>5, <2>1
<1> QED BY <1>6, <1>7 DEF S


\* What a rule scores at a request, and a way to serve it.
ScoreAt(r, n) == RuleScore(world.routes[r], world.routes[r].rules[n], intent)
KeyOfWay(w) == HostKey(w.host) \o MatchScore(w.match, intent.family)

\* Rule n of route r serves the request at a listener.
ServesAt(g, l, r, n) ==
    /\ r \in DOMAIN world.routes /\ n \in DOMAIN world.routes[r].rules
    /\ Attached(world.routes[r], g, l) /\ HostsOf(r) # {} /\ FitsOf(r, n) # {}

LEMMA WayKey ==
    ASSUME Agreeing, NEW g, NEW l, NEW w, IsWay(g, l, w)
    PROVE  KeyOfWay(w) \in Seven
<1>1. w.route \in DOMAIN world.routes /\ w.rule \in DOMAIN world.routes[w.route].rules
      /\ w.host \in HostsOf(w.route) /\ w.match \in FitsOf(w.route, w.rule)
  BY DEF IsWay
<1> DEFINE s == HostKey(w.host)
           u == MatchScore(w.match, intent.family)
<1>2. s \in [1..2 -> Nat] BY <1>1, HostKeyBound
<1>3. u \in [1..5 -> Nat] BY <1>1, MatchBest
<1>4. 2 \in Nat /\ 5 \in Nat /\ 2 + 5 = 7 OBVIOUS
<1>5. s \o u \in [1..7 -> Nat]
  <2> HIDE DEF s, u
  <2>1. s \o u \in [1..(2 + 5) -> Nat] BY <1>2, <1>3, <1>4, ConcatNumbers, Zenon
  <2> QED BY <1>4, <2>1
<1> QED BY <1>5 DEF KeyOfWay, Seven

\* A rule scores what its best way scores.
LEMMA RuleBest ==
    ASSUME Agreeing, NEW g, NEW l, NEW r, NEW n, ServesAt(g, l, r, n)
    PROVE  /\ ScoreAt(r, n) \in Seven
           /\ \E w \in WaysAt(g, l) : w.route = r /\ w.rule = n /\ KeyOfWay(w) = ScoreAt(r, n)
           /\ \A w \in WaysAt(g, l) : w.route = r /\ w.rule = n => ~LexLess(ScoreAt(r, n), KeyOfWay(w))
<1>1. r \in DOMAIN world.routes /\ n \in DOMAIN world.routes[r].rules /\ Attached(world.routes[r], g, l)
      /\ HostsOf(r) # {} /\ FitsOf(r, n) # {}
  BY DEF ServesAt
<1> DEFINE S == {MatchScore(m, intent.family) : m \in FitsOf(r, n)}
           u == Greatest(S)
<1>2. PICK h \in HostsOf(r) : /\ HostScore(world.routes[r], intent.host) = HostKey(h)
                              /\ \A k \in HostsOf(r) : ~LexLess(HostKey(h), HostKey(k))
  BY <1>1, HostBest
<1>3. PICK k \in FitsOf(r, n) : /\ u = MatchScore(k, intent.family)
                                /\ \A m \in FitsOf(r, n) : ~LexLess(u, MatchScore(m, intent.family))
  BY <1>1, MatchBest
<1>4. ScoreAt(r, n) = HostKey(h) \o MatchScore(k, intent.family)
  <2>1. S = {MatchScore(m, intent.family) : m \in {o \in MatchesOf(world.routes[r].rules[n]) : SingleMatch(o, intent)}}
    BY DEF FitsOf
  <2> QED BY <1>2, <1>3, <2>1 DEF ScoreAt, RuleScore
<1> HIDE DEF S, u
<1> DEFINE w == WayFor(r, n, h, k)
<1>5. w \in WaysAt(g, l) /\ IsWay(g, l, w)
  <2>1. w \in WaysAt(g, l) BY <1>1, WaysAre DEF WaysAt
  <2> QED BY <2>1, WaysAre DEF WaysAt
<1>6. w.route = r /\ w.rule = n /\ KeyOfWay(w) = ScoreAt(r, n) BY <1>4 DEF WayFor, KeyOfWay
<1>7. ScoreAt(r, n) \in Seven BY <1>5, <1>6, WayKey
<1>8. ASSUME NEW y \in WaysAt(g, l), y.route = r, y.rule = n
      PROVE  ~LexLess(ScoreAt(r, n), KeyOfWay(y))
  <2>1. y.host \in HostsOf(r) /\ y.match \in FitsOf(r, n) BY <1>8, WaysAre DEF WaysAt, IsWay
  <2> DEFINE s == HostKey(h)
             v == MatchScore(k, intent.family)
             t == HostKey(y.host)
             x == MatchScore(y.match, intent.family)
  <2>2. s \in [1..2 -> Nat] /\ t \in [1..2 -> Nat] BY <1>1, <2>1, HostKeyBound
  <2>3. v \in [1..5 -> Nat] /\ x \in [1..5 -> Nat] BY <1>1, <2>1, MatchBest
  <2>4. ~LexLess(s, t) /\ ~LexLess(v, x) BY <1>2, <1>3, <2>1
  <2>5. ScoreAt(r, n) = s \o v /\ KeyOfWay(y) = t \o x BY <1>4 DEF KeyOfWay
  <2> HIDE DEF s, v, t, x
  <2>6. LexLess(s \o v, t \o x) <=> LexLess(s, t) \/ (s = t /\ LexLess(v, x))
    <3> DEFINE two == 2
               five == 5
    <3>1. /\ two \in Nat /\ s \in [1..two -> Nat] /\ t \in [1..two -> Nat]
          /\ five \in Nat /\ v \in [1..five -> Nat] /\ x \in [1..five -> Nat]
      BY <2>2, <2>3
    <3> HIDE DEF two, five
    <3>2. s \o v \in [1..(two + five) -> Nat]
          /\ (LexLess(s \o v, t \o x) <=> LexLess(s, t) \/ (s = t /\ LexLess(v, x)))
      BY <3>1, LexConcat
    <3> QED BY <3>2
  <2> QED BY <2>4, <2>5, <2>6
<1> QED BY <1>5, <1>6, <1>7, <1>8

LEMMA WayServes ==
    ASSUME Agreeing, NEW g, NEW l, NEW w \in WaysAt(g, l)
    PROVE  ServesAt(g, l, w.route, w.rule) /\ KeyOfWay(w) \in Seven
<1>1. IsWay(g, l, w) BY WaysAre DEF WaysAt
<1> QED BY <1>1, WayKey DEF IsWay, ServesAt

\* At a listener that the request arrives at, knm finds the rules that serve it.
LEMMA FoundServe ==
    ASSUME Agreeing, NEW where \in ToSet(MatchingListeners)
    PROVE  /\ \A r, n : ServesAt(where[1], where[2], r, n) => <<where[1], where[2], r, n>> \in RuleMatchesFound
           /\ \A m \in RuleMatchesFound : SameListener(m, where) =>
                 m = <<where[1], where[2], m[3], m[4]>> /\ ServesAt(where[1], where[2], m[3], m[4])
<1> DEFINE g == where[1]
           l == where[2]
<1>1. g \in Parents /\ l \in DOMAIN world.gateways[g].listeners /\ ListenerMatches(world.gateways[g].listeners[l], intent)
  BY AgreeingParts, MatchingAre
<1>2. RouteScope = DOMAIN world.routes BY DEF Agreeing, SeesAll
<1>3. \A r \in DOMAIN world.routes :
          /\ HostsOf(r) # {} <=> RouteHostMatches(world.routes[r], intent.host)
          /\ \A n \in DOMAIN world.routes[r].rules :
                 FitsOf(r, n) # {} <=> RuleMatches(world.routes[r].rules[n], intent)
  <2>1. \A r \in DOMAIN world.routes : HostsOf(r) # {} <=> RouteHostMatches(world.routes[r], intent.host)
    BY HostsAreNamed
  <2>2. \A r \in DOMAIN world.routes : \A n \in DOMAIN world.routes[r].rules :
            FitsOf(r, n) # {} <=> RuleMatches(world.routes[r].rules[n], intent)
    BY DEF FitsOf, RuleMatches
  <2> QED BY <2>1, <2>2
<1> HIDE DEF g, l
<1>4. ASSUME NEW r, NEW n, ServesAt(g, l, r, n) PROVE <<g, l, r, n>> \in RuleMatchesFound
  <2> DEFINE m == <<g, l, r, n>>
  <2>1. r \in RouteScope /\ n \in DOMAIN world.routes[r].rules BY <1>2, <1>4 DEF ServesAt
  <2>2. m[1] = g /\ m[2] = l /\ m[3] = r /\ m[4] = n OBVIOUS
  <2>3. m \in UNION {{<<p, k, q, i>> : k \in DOMAIN world.gateways[p].listeners, i \in DOMAIN world.routes[q].rules} :
                         p \in Parents, q \in RouteScope}
    <3>1. m \in {<<g, k, r, i>> : k \in DOMAIN world.gateways[g].listeners, i \in DOMAIN world.routes[r].rules}
      BY <1>1, <2>1
    <3> DEFINE At(p, q) ==
                   {<<p, k, q, i>> : k \in DOMAIN world.gateways[p].listeners, i \in DOMAIN world.routes[q].rules}
    <3>2. m \in At(g, r) BY <3>1
    <3> HIDE DEF m, At
    <3>3. m \in UNION {At(p, q) : p \in Parents, q \in RouteScope} BY <1>1, <2>1, <3>2
    <3> QED BY <3>3 DEF At
  <2> HIDE DEF m
  <2>4. /\ ListenerMatches(world.gateways[m[1]].listeners[m[2]], intent)
        /\ Attached(world.routes[m[3]], m[1], m[2])
        /\ RouteHostMatches(world.routes[m[3]], intent.host)
        /\ RuleMatches(world.routes[m[3]].rules[m[4]], intent)
    BY <1>1, <1>3, <1>4, <2>2 DEF ServesAt
  <2>5. m \in RuleMatchesFound BY <2>3, <2>4 DEF RuleMatchesFound, FindRuleMatches
  <2> QED BY <2>5 DEF m
<1>5. ASSUME NEW m \in RuleMatchesFound, m[1] = g, m[2] = l
      PROVE  m = <<g, l, m[3], m[4]>> /\ ServesAt(g, l, m[3], m[4])
  <2>1. IsMatch(m) BY FoundIsMatch
  <2>2. /\ Attached(world.routes[m[3]], m[1], m[2]) /\ RouteHostMatches(world.routes[m[3]], intent.host)
        /\ RuleMatches(world.routes[m[3]].rules[m[4]], intent)
    BY DEF RuleMatchesFound, FindRuleMatches
  <2>3. m[3] \in DOMAIN world.routes /\ m[4] \in DOMAIN world.routes[m[3]].rules /\ m = <<m[1], m[2], m[3], m[4]>>
    BY <1>2, <2>1 DEF IsMatch
  <2> QED BY <1>3, <1>5, <2>2, <2>3 DEF ServesAt
<1> QED BY <1>4, <1>5 DEF SameListener, g, l

\* The ways that the Gateway API takes first.
FirstWays(g, l) ==
    {w \in WaysAt(g, l) :
        /\ \A y \in WaysAt(g, l) : ~LexLess(KeyOfWay(w), KeyOfWay(y))
        /\ \A y \in WaysAt(g, l) :
              (\A z \in WaysAt(g, l) : ~LexLess(KeyOfWay(y), KeyOfWay(z))) => Earlier(w, y)}

LEMMA WinnerFirst ==
    ASSUME Agreeing, NEW g, NEW l
    PROVE  API!Winner(world.routes, g, l, intent) = {<<w.route, w.rule>> : w \in FirstWays(g, l)}
<1> DEFINE W == WaysAt(g, l)
           B == Keyed(W, KeysOf(W))
           f == [w \in W |-> Created(w)]
           a == [w \in W |-> w.route]
           o == [w \in W |-> w.rule]
           won == API!Least(API!Least(API!Least(B, f), a), o)
<1>1. \A w \in W : IsWay(g, l, w) BY WaysAre DEF WaysAt
<1>2. API!Winner(world.routes, g, l, intent) = {<<w.route, w.rule>> : w \in won} BY WinnerIs
<1>3. \A w \in W : Created(w) \in Nat /\ w.route \in Nat /\ w.rule \in Nat BY <1>1, WayParts
<1>4. f \in [W -> Nat] /\ a \in [W -> Nat] /\ o \in [W -> Nat] BY <1>3
<1>5. \A w \in W : KeysOf(W)[w] = KeyOfWay(w) BY DEF KeysOf, KeyOfWay
<1>6. \A w \in W : w \in B <=> \A y \in W : ~LexLess(KeyOfWay(w), KeyOfWay(y)) BY <1>5 DEF Keyed
<1>7. B \in SUBSET W /\ won \in SUBSET W BY DEF Keyed, API!Least
<1>8. \A w \in W : \A y \in W : Earlier(w, y) <=> \/ f[w] < f[y]
                                                  \/ f[w] = f[y] /\ a[w] < a[y]
                                                  \/ f[w] = f[y] /\ a[w] = a[y] /\ o[w] <= o[y]
  BY DEF Earlier
<1> HIDE DEF B, f, a, o, W
<1>9. ASSUME NEW w \in W
      PROVE  w \in won <=> /\ w \in B
                           /\ \A y \in B : \/ f[w] < f[y]
                                           \/ f[w] = f[y] /\ a[w] < a[y]
                                           \/ f[w] = f[y] /\ a[w] = a[y] /\ o[w] <= o[y]
  BY <1>4, <1>7, LeastThree
<1> HIDE DEF won
<1>10. ASSUME NEW w \in W PROVE w \in won <=> w \in FirstWays(g, l)
  <2>1. w \in won <=> w \in B /\ \A y \in B : Earlier(w, y) BY <1>7, <1>8, <1>9
  <2>2. w \in FirstWays(g, l) <=> /\ \A y \in W : ~LexLess(KeyOfWay(w), KeyOfWay(y))
                                  /\ \A y \in W : (\A z \in W : ~LexLess(KeyOfWay(y), KeyOfWay(z))) => Earlier(w, y)
    BY DEF FirstWays, W
  <2> QED BY <1>6, <1>7, <2>1, <2>2
<1>11. FirstWays(g, l) \in SUBSET W BY DEF FirstWays, W
<1>12. won = FirstWays(g, l) BY <1>7, <1>10, <1>11
<1> QED BY <1>2, <1>12


\* What knm compares when it orders the rules that it found at a listener.
LEMMA PrecedenceAt ==
    ASSUME Agreeing, NEW g, NEW l, NEW r, NEW n, NEW q, NEW i, ServesAt(g, l, r, n), ServesAt(g, l, q, i)
    PROVE  PrecedenceLess(world.routes, intent, <<g, l, r, n>>, <<g, l, q, i>>)
             <=> IF ScoreAt(r, n) # ScoreAt(q, i) THEN LexLess(ScoreAt(q, i), ScoreAt(r, n))
                 ELSE IF r = q THEN n < i
                 ELSE IF world.routes[r].created # world.routes[q].created
                      THEN world.routes[r].created < world.routes[q].created
                 ELSE r < q
<1>1. world.routes[r].created # 0 /\ world.routes[q].created # 0
  <2>1. world.routes[r] \in ToSet(world.routes) /\ world.routes[q] \in ToSet(world.routes) BY DEF ServesAt, ToSet
  <2> QED BY <2>1 DEF Agreeing, Comparable
<1> DEFINE m == <<g, l, r, n>>
           o == <<g, l, q, i>>
<1>2. m[3] = r /\ m[4] = n /\ o[3] = q /\ o[4] = i OBVIOUS
<1> HIDE DEF m, o
<1>3. PrecedenceLess(world.routes, intent, m, o)
        <=> IF ScoreAt(r, n) # ScoreAt(q, i) THEN LexLess(ScoreAt(q, i), ScoreAt(r, n))
            ELSE IF r = q THEN n < i
            ELSE IF world.routes[r].created # world.routes[q].created
                 THEN world.routes[q].created = 0
                      \/ (world.routes[r].created # 0 /\ world.routes[r].created < world.routes[q].created)
            ELSE r < q
  BY <1>2 DEF PrecedenceLess, ScoreAt
<1> QED BY <1>1, <1>3 DEF m, o

\* Rule n of route r goes before every other that serves the request.
GoesFirst(g, l, r, n) ==
    /\ ServesAt(g, l, r, n)
    /\ \A q, i : ServesAt(g, l, q, i) /\ ~(r = q /\ n = i) =>
          PrecedenceLess(world.routes, intent, <<g, l, r, n>>, <<g, l, q, i>>)

LEMMA SelectedGoFirst ==
    ASSUME Agreeing, NEW where \in ToSet(MatchingListeners),
           selected = SelectPrecedenceRules(world.routes, intent, RuleMatchesFound)
    PROVE  /\ \A m \in selected : SameListener(m, where) => GoesFirst(where[1], where[2], m[3], m[4])
           /\ \A r, n : GoesFirst(where[1], where[2], r, n) => <<where[1], where[2], r, n>> \in selected
<1> DEFINE g == where[1]
           l == where[2]
<1>1. \A r, n : ServesAt(g, l, r, n) => <<g, l, r, n>> \in RuleMatchesFound BY FoundServe
<1>2. \A m \in RuleMatchesFound : m[1] = g /\ m[2] = l =>
          m = <<g, l, m[3], m[4]>> /\ ServesAt(g, l, m[3], m[4])
  BY FoundServe DEF SameListener
<1> HIDE DEF g, l
<1>3. \A m : m \in selected <=>
          /\ m \in RuleMatchesFound
          /\ \A o \in RuleMatchesFound : m[1] = o[1] /\ m[2] = o[2] /\ m # o =>
                PrecedenceLess(world.routes, intent, m, o)
  BY DEF SelectPrecedenceRules, SameListener
<1>4. ASSUME NEW m \in selected, m[1] = g, m[2] = l PROVE GoesFirst(g, l, m[3], m[4])
  <2>1. m \in RuleMatchesFound BY <1>3
  <2>2. m = <<g, l, m[3], m[4]>> /\ ServesAt(g, l, m[3], m[4]) BY <1>2, <1>4, <2>1
  <2>3. ASSUME NEW q, NEW i, ServesAt(g, l, q, i), ~(m[3] = q /\ m[4] = i)
        PROVE  PrecedenceLess(world.routes, intent, m, <<g, l, q, i>>)
    <3> DEFINE o == <<g, l, q, i>>
    <3>1. o[1] = g /\ o[2] = l /\ o[3] = q /\ o[4] = i OBVIOUS
    <3>2. o \in RuleMatchesFound BY <1>1, <2>3
    <3> HIDE DEF o
    <3>3. m # o BY <2>3, <3>1
    <3>4. PrecedenceLess(world.routes, intent, m, o) BY <1>3, <1>4, <3>1, <3>2, <3>3
    <3> QED BY <3>4 DEF o
  <2>4. \A q, i : ServesAt(g, l, q, i) /\ ~(m[3] = q /\ m[4] = i) =>
            PrecedenceLess(world.routes, intent, <<g, l, m[3], m[4]>>, <<g, l, q, i>>)
    BY <2>2, <2>3, Zenon
  <2> QED BY <2>2, <2>4, Zenon DEF GoesFirst
<1>5. ASSUME NEW r, NEW n, GoesFirst(g, l, r, n) PROVE <<g, l, r, n>> \in selected
  <2> DEFINE m == <<g, l, r, n>>
  <2>1. m[1] = g /\ m[2] = l /\ m[3] = r /\ m[4] = n OBVIOUS
  <2>2. m \in RuleMatchesFound BY <1>1, <1>5 DEF GoesFirst
  <2>3. ASSUME NEW o \in RuleMatchesFound, m[1] = o[1], m[2] = o[2], m # o
        PROVE  PrecedenceLess(world.routes, intent, m, o)
    <3>1. o[1] = g /\ o[2] = l BY <2>1, <2>3
    <3>2. o = <<g, l, o[3], o[4]>> /\ ServesAt(g, l, o[3], o[4]) BY <1>2, <3>1
    <3>3. ~(r = o[3] /\ n = o[4]) BY <2>3, <3>2
    <3>4. PrecedenceLess(world.routes, intent, <<g, l, r, n>>, <<g, l, o[3], o[4]>>)
      BY <1>5, <3>2, <3>3, Zenon DEF GoesFirst
    <3> QED BY <3>2, <3>4, Zenon
  <2> HIDE DEF m
  <2>4. m \in selected BY <1>3, <2>2, <2>3
  <2> QED BY <2>4 DEF m
<1> QED BY <1>4, <1>5 DEF SameListener, g, l

\* The first of the ways is one of the rule that goes first.
LEMMA FirstGoesFirst ==
    ASSUME Agreeing, NEW g, NEW l, NEW w \in FirstWays(g, l)
    PROVE  GoesFirst(g, l, w.route, w.rule)
<1> DEFINE r == w.route
           n == w.rule
           W == WaysAt(g, l)
<1>1. w \in W /\ (\A y \in W : ~LexLess(KeyOfWay(w), KeyOfWay(y)))
      /\ \A y \in W : (\A z \in W : ~LexLess(KeyOfWay(y), KeyOfWay(z))) => Earlier(w, y)
  BY DEF FirstWays
<1>2. ServesAt(g, l, r, n) /\ KeyOfWay(w) \in Seven BY <1>1, WayServes
<1>3. \A y \in W : ServesAt(g, l, y.route, y.rule) /\ KeyOfWay(y) \in Seven BY WayServes
<1>4. /\ ScoreAt(r, n) \in Seven
      /\ \E y \in W : y.route = r /\ y.rule = n /\ KeyOfWay(y) = ScoreAt(r, n)
      /\ \A y \in W : y.route = r /\ y.rule = n => ~LexLess(ScoreAt(r, n), KeyOfWay(y))
  BY <1>2, RuleBest
<1>5. KeyOfWay(w) = ScoreAt(r, n)
  <2> HIDE DEF W
  <2> QED BY <1>1, <1>2, <1>4, SevenOrder
<1>6. ASSUME NEW q, NEW i, ServesAt(g, l, q, i), ~(r = q /\ n = i)
      PROVE  PrecedenceLess(world.routes, intent, <<g, l, r, n>>, <<g, l, q, i>>)
  <2>1. /\ ScoreAt(q, i) \in Seven
        /\ \E y \in W : y.route = q /\ y.rule = i /\ KeyOfWay(y) = ScoreAt(q, i)
    BY <1>6, RuleBest
  <2>2. PICK y \in W : y.route = q /\ y.rule = i /\ KeyOfWay(y) = ScoreAt(q, i) BY <2>1
  <2>3. ~LexLess(ScoreAt(r, n), ScoreAt(q, i)) BY <1>1, <1>5, <2>2
  <2>4. CASE ScoreAt(r, n) # ScoreAt(q, i)
    <3>1. LexLess(ScoreAt(q, i), ScoreAt(r, n)) BY <1>4, <2>1, <2>3, <2>4, SevenOrder
    <3> QED BY <1>2, <1>6, <2>4, <3>1, PrecedenceAt
  <2>5. CASE ScoreAt(r, n) = ScoreAt(q, i)
    <3>1. \A z \in W : ~LexLess(KeyOfWay(y), KeyOfWay(z)) BY <1>1, <1>5, <2>2, <2>5
    <3>2. Earlier(w, y) BY <1>1, <2>2, <3>1
    <3>3. /\ Created(w) = world.routes[r].created /\ Created(y) = world.routes[q].created
          /\ Created(w) \in Nat /\ Created(y) \in Nat /\ r \in Nat /\ q \in Nat /\ n \in Nat /\ i \in Nat
      <4>1. IsWay(g, l, w) /\ IsWay(g, l, y) BY <1>1, <2>2, WaysAre DEF WaysAt
      <4>2. Created(w) \in Nat /\ w.route \in Nat /\ w.rule \in Nat BY <4>1, WayParts
      <4>3. Created(y) \in Nat /\ y.route \in Nat /\ y.rule \in Nat BY <4>1, WayParts
      <4> QED BY <2>2, <4>2, <4>3 DEF Created
    <3>4. \/ world.routes[r].created < world.routes[q].created
          \/ world.routes[r].created = world.routes[q].created /\ r < q
          \/ world.routes[r].created = world.routes[q].created /\ r = q /\ n <= i
      BY <2>2, <3>2, <3>3 DEF Earlier
    <3> HIDE DEF r, n
    <3>5. CASE r = q
      <4>1. n < i BY <1>6, <3>3, <3>4, <3>5
      <4> QED BY <1>2, <1>6, <2>5, <3>5, <4>1, PrecedenceAt
    <3>6. CASE r # q
      <4>1. IF world.routes[r].created # world.routes[q].created
            THEN world.routes[r].created < world.routes[q].created ELSE r < q
        BY <3>3, <3>4, <3>6
      <4> QED BY <1>2, <1>6, <2>5, <3>6, <4>1, PrecedenceAt
    <3> QED BY <3>5, <3>6
  <2> QED BY <2>4, <2>5
<1> QED BY <1>2, <1>6 DEF GoesFirst

\* And the rule that goes first has a way that is first.
LEMMA GoesFirstIsFirst ==
    ASSUME Agreeing, NEW g, NEW l, NEW r, NEW n, GoesFirst(g, l, r, n)
    PROVE  \E w \in FirstWays(g, l) : w.route = r /\ w.rule = n
<1> DEFINE W == WaysAt(g, l)
<1>1. ServesAt(g, l, r, n) BY DEF GoesFirst
<1>2. /\ ScoreAt(r, n) \in Seven
      /\ \E w \in W : w.route = r /\ w.rule = n /\ KeyOfWay(w) = ScoreAt(r, n)
  BY <1>1, RuleBest
<1>3. PICK w \in W : w.route = r /\ w.rule = n /\ KeyOfWay(w) = ScoreAt(r, n) BY <1>2
<1>4. ASSUME NEW y \in W
      PROVE  /\ ScoreAt(y.route, y.rule) \in Seven /\ KeyOfWay(y) \in Seven /\ ServesAt(g, l, y.route, y.rule)
             /\ ~LexLess(ScoreAt(y.route, y.rule), KeyOfWay(y))
             /\ \/ r = y.route /\ n = y.rule
                \/ PrecedenceLess(world.routes, intent, <<g, l, r, n>>, <<g, l, y.route, y.rule>>)
  <2>1. ServesAt(g, l, y.route, y.rule) /\ KeyOfWay(y) \in Seven BY WayServes
  <2>2. ScoreAt(y.route, y.rule) \in Seven BY <2>1, RuleBest
  <2>3. ~LexLess(ScoreAt(y.route, y.rule), KeyOfWay(y)) BY <2>1, RuleBest
  <2> QED BY <2>1, <2>2, <2>3 DEF GoesFirst
<1>5. ASSUME NEW y \in W PROVE ~LexLess(ScoreAt(r, n), ScoreAt(y.route, y.rule))
  <2>1. CASE r = y.route /\ n = y.rule BY <1>2, <2>1, SevenOrder
  <2>2. CASE PrecedenceLess(world.routes, intent, <<g, l, r, n>>, <<g, l, y.route, y.rule>>)
    <3>1. ScoreAt(r, n) = ScoreAt(y.route, y.rule) \/ LexLess(ScoreAt(y.route, y.rule), ScoreAt(r, n))
      BY <1>1, <1>4, <2>2, PrecedenceAt
    <3> QED BY <1>2, <1>4, <3>1, SevenOrder
  <2> QED BY <1>4, <2>1, <2>2
<1>6. \A y \in W : ~LexLess(KeyOfWay(w), KeyOfWay(y))
  <2> SUFFICES ASSUME NEW y \in W PROVE ~LexLess(KeyOfWay(w), KeyOfWay(y)) OBVIOUS
  <2> DEFINE s == ScoreAt(r, n)
             t == ScoreAt(y.route, y.rule)
             k == KeyOfWay(y)
  <2>1. s \in Seven /\ t \in Seven /\ k \in Seven /\ ~LexLess(s, t) /\ ~LexLess(t, k) BY <1>2, <1>4, <1>5
  <2>2. ~LexLess(s, k)
    <3> HIDE DEF s, t, k
    <3> QED BY <2>1, SevenOrder
  <2> QED BY <1>3, <2>2
<1>7. ASSUME NEW y \in W, \A z \in W : ~LexLess(KeyOfWay(y), KeyOfWay(z)) PROVE Earlier(w, y)
  <2> DEFINE q == y.route
             i == y.rule
  <2>1. ScoreAt(r, n) = ScoreAt(q, i)
    <3> DEFINE s == ScoreAt(r, n)
               t == ScoreAt(q, i)
               k == KeyOfWay(y)
    <3>1. s \in Seven /\ t \in Seven /\ k \in Seven /\ ~LexLess(s, t) /\ ~LexLess(t, k) BY <1>2, <1>4, <1>5
    <3>2. ~LexLess(k, s) BY <1>3, <1>7
    <3> HIDE DEF s, t, k
    <3>3. s = t BY <3>1, <3>2, SevenOrder
    <3> QED BY <3>3 DEF s, t
  <2>2. /\ Created(w) = world.routes[r].created /\ Created(y) = world.routes[q].created
        /\ Created(w) \in Nat /\ Created(y) \in Nat /\ r \in Nat /\ q \in Nat /\ n \in Nat /\ i \in Nat
    <3>1. IsWay(g, l, w) /\ IsWay(g, l, y) BY <1>3, WaysAre DEF WaysAt
    <3>2. Created(w) \in Nat /\ w.route \in Nat /\ w.rule \in Nat BY <3>1, WayParts
    <3>3. Created(y) \in Nat /\ y.route \in Nat /\ y.rule \in Nat BY <3>1, WayParts
    <3> QED BY <1>3, <3>2, <3>3 DEF Created
  <2>3. \/ world.routes[r].created < world.routes[q].created
        \/ world.routes[r].created = world.routes[q].created /\ r < q
        \/ world.routes[r].created = world.routes[q].created /\ r = q /\ n <= i
    <3>1. CASE r = q /\ n = i BY <2>2, <3>1
    <3>2. CASE PrecedenceLess(world.routes, intent, <<g, l, r, n>>, <<g, l, q, i>>)
      <4>1. IF r = q THEN n < i
            ELSE IF world.routes[r].created # world.routes[q].created
                 THEN world.routes[r].created < world.routes[q].created
            ELSE r < q
        BY <1>1, <1>4, <2>1, <3>2, PrecedenceAt
      <4> HIDE DEF q, i
      <4> QED BY <2>2, <4>1
    <3> QED BY <1>4, <3>1, <3>2
  <2> QED BY <1>3, <2>2, <2>3 DEF Earlier
<1>8. w \in FirstWays(g, l) BY <1>6, <1>7 DEF FirstWays
<1> QED BY <1>3, <1>8

LEMMA WinnerSelected ==
    ASSUME Agreeing, NEW where \in ToSet(MatchingListeners),
           selected = SelectPrecedenceRules(world.routes, intent, RuleMatchesFound)
    PROVE  API!Winner(world.routes, where[1], where[2], intent)
             = {<<m[3], m[4]>> : m \in {n \in selected : SameListener(n, where)}}
<1> DEFINE g == where[1]
           l == where[2]
           mine == {n \in selected : SameListener(n, where)}
<1>1. API!Winner(world.routes, g, l, intent) = {<<w.route, w.rule>> : w \in FirstWays(g, l)} BY WinnerFirst
<1>2. ASSUME NEW w \in FirstWays(g, l) PROVE \E m \in mine : m[3] = w.route /\ m[4] = w.rule
  <2> DEFINE m == <<g, l, w.route, w.rule>>
  <2>1. m \in selected BY FirstGoesFirst, SelectedGoFirst
  <2>2. m[1] = g /\ m[2] = l /\ m[3] = w.route /\ m[4] = w.rule OBVIOUS
  <2> HIDE DEF m
  <2>3. m \in mine BY <2>1, <2>2 DEF SameListener
  <2> QED BY <2>2, <2>3
<1>3. ASSUME NEW m \in mine PROVE \E w \in FirstWays(g, l) : w.route = m[3] /\ w.rule = m[4]
  <2>1. GoesFirst(g, l, m[3], m[4]) BY SelectedGoFirst
  <2> QED BY <2>1, GoesFirstIsFirst
<1> HIDE DEF g, l, mine
<1>4. {<<w.route, w.rule>> : w \in FirstWays(g, l)} = {<<m[3], m[4]>> : m \in mine} BY <1>2, <1>3
<1> QED BY <1>1, <1>4 DEF g, l, mine

\* What was selected stays.
Followed ==
    pc \in {"parents", "expected", "mirrors", "analyze", "scan", "dataplane", "probe", "conclude", "finish"} =>
        selected = SelectPrecedenceRules(world.routes, intent, RuleMatchesFound)

LEMMA FollowedStep == Followed /\ [Next]_vars => Followed'
<1> SUFFICES ASSUME Followed, [Next]_vars PROVE Followed' OBVIOUS
<1> DEFINE After == {"parents", "expected", "mirrors", "analyze", "scan", "dataplane", "probe", "conclude", "finish"}
<1>1. CASE selectRules
  <2>1. UNCHANGED input /\ UNCHANGED intent /\ selected' = SelectPrecedenceRules(world.routes, intent, RuleMatchesFound)
    BY <1>1 DEF selectRules
  <2>2. RuleMatchesFound' = RuleMatchesFound BY <2>1, SameRequest
  <2>3. world' = world BY <2>1 DEF input
  <2> QED BY <2>1, <2>2, <2>3 DEF Followed
<1>2. CASE UNCHANGED Choice /\ (pc' \in After => pc \in After)
  <2>1. RuleMatchesFound' = RuleMatchesFound BY <1>2, SameRequest DEF Choice
  <2>2. world' = world /\ intent' = intent /\ selected' = selected BY <1>2 DEF Choice, input
  <2> QED BY <1>2, <2>1, <2>2 DEF Followed
<1>3. CASE readOptions
  <2>1. pc' \in {"exit", "cluster"} BY <1>3 DEF readOptions
  <2> QED BY <2>1 DEF Followed
<1>4. CASE reachCluster \/ readLists \/ checkListeners
  <2>1. pc' \notin After BY <1>4 DEF reachCluster, readLists, checkListeners
  <2> QED BY <2>1 DEF Followed
<1>5. CASE checkParents \/ checkExpected \/ checkMirror \/ mirrorsDone
  <2>1. UNCHANGED Choice /\ pc \in After
    <3>1. CASE checkParents \/ checkExpected BY <3>1 DEF checkParents, checkExpected, Choice
    <3>2. CASE checkMirror BY <3>2 DEF checkMirror, Choice
    <3>3. CASE mirrorsDone BY <3>3 DEF mirrorsDone, Choice
    <3> QED BY <1>5, <3>1, <3>2, <3>3
  <2> QED BY <1>2, <2>1
<1>6. CASE analyze \/ analyzed \/ scan \/ scanned
  <2>1. UNCHANGED Choice /\ pc \in After BY <1>6 DEF analyze, analyzed, scan, scanned, Choice
  <2> QED BY <1>2, <2>1
<1>7. CASE dataplane \/ dataplaneDone \/ probe \/ cannotProbe \/ probesDone
  <2>1. UNCHANGED Choice /\ pc \in After
    <3>1. CASE dataplane
      <4>1. pc = "dataplane" /\ UNCHANGED <<input, intent, selected, paths>> BY <3>1, Zenon DEF dataplane
      <4> QED BY <4>1 DEF Choice
    <3>2. CASE probe BY <3>2 DEF probe, Choice
    <3>3. CASE dataplaneDone \/ cannotProbe \/ probesDone
      BY <3>3 DEF dataplaneDone, cannotProbe, probesDone, Choice
    <3> QED BY <1>7, <3>1, <3>2, <3>3
  <2> QED BY <1>2, <2>1
<1>8. CASE conclude \/ finishScan \/ dedupe \/ generic \/ finish
  <2>1. UNCHANGED Choice /\ (pc' \in After => pc \in After)
    BY <1>8 DEF conclude, finishScan, dedupe, generic, finish, Choice
  <2> QED BY <1>2, <2>1
<1>9. CASE UNCHANGED vars
  <2>1. UNCHANGED Choice /\ pc' = pc BY <1>9 DEF vars, Choice
  <2> QED BY <1>2, <2>1
<1> QED BY <1>1, <1>3, <1>4, <1>5, <1>6, <1>7, <1>8, <1>9 DEF Next

\* The rule that the report follows at a listener is the one that serves the
\* request there by the tie-breakers of the Gateway API (gateway.go:5255-5478),
\* for any hostnames, matches and ages of the routes.
THEOREM PrecedenceFollowsAPI == Spec => []PrecedenceIsGatewayAPI
<1>1. Init => Followed BY DEF Init, Followed
<1>2. Followed /\ [Next]_vars => Followed' BY FollowedStep
<1>3. Kept /\ Followed => PrecedenceIsGatewayAPI
  <2> SUFFICES ASSUME Kept, Followed, pc \in {"parents", "finish"}, SeesAll, OneLabelWildcards, Comparable,
                      NEW where \in ToSet(MatchingListeners)
               PROVE  API!Winner(world.routes, where[1], where[2], intent)
                        = {<<m[3], m[4]>> : m \in {n \in selected : SameListener(n, where)}}
    BY DEF PrecedenceIsGatewayAPI
  <2>1. Agreeing BY DEF Agreeing, Kept
  <2>2. selected = SelectPrecedenceRules(world.routes, intent, RuleMatchesFound) BY DEF Followed
  <2> QED BY <2>1, <2>2, WinnerSelected
<1>4. Spec => []Kept BY AlwaysKept
<1> QED BY <1>1, <1>2, <1>3, <1>4, PTL DEF Spec


-------------------------------------------------------------------------------
(* What --limit drops: no problem is added twice.                          *)

LEMMA FewNoRepeat == NoRepeat(<<>>) /\ \A x : NoRepeat(<<x>>)
BY DEF NoRepeat

LEMMA WhenNoRepeat ==
    ASSUME NEW holds \in BOOLEAN, NEW x
    PROVE  NoRepeat(When(holds, x))
BY FewNoRepeat DEF When

LEMMA EachNoRepeat ==
    ASSUME NEW S, NEW E, NEW s \in Seq(E), NEW f, DOMAIN f = DOMAIN s, f = [i \in DOMAIN s |-> f[i]],
           \A i \in DOMAIN s : f[i] \in Seq(S),
           \A i \in DOMAIN s : NoRepeat(f[i]),
           \A i, j \in DOMAIN s : i # j => \A x \in ToSet(f[i]) : x \notin ToSet(f[j])
    PROVE  NoRepeat(FlattenSeq(f))
<1>1. DOMAIN s = 1..Len(s) /\ Len(s) \in Nat OBVIOUS
<1>2. f \in Seq(Seq(S)) BY <1>1
<1> QED BY <1>2, FlattenNoRepeat

LEMMA SortedNoRepeat ==
    ASSUME NEW n \in Nat, NEW S \in SUBSET [1..n -> Nat], IsFiniteSet(S)
    PROVE  NoRepeat(Sorted(S))
<1> DEFINE size == Cardinality(S)
           At(i) == CHOOSE s \in S : Rank(S, s) = i - 1
<1>1. size \in Nat BY FS_CardinalityType
<1>2. \A i \in 1..size : Rank(S, At(i)) = i - 1
  <2> SUFFICES ASSUME NEW i \in 1..size PROVE Rank(S, At(i)) = i - 1 OBVIOUS
  <2>1. i - 1 \in 0..(Cardinality(S) - 1) BY <1>1
  <2>2. \E s \in S : Rank(S, s) = i - 1
    <3> DEFINE k == i - 1
    <3> HIDE DEF k
    <3>1. \E s \in S : Rank(S, s) = k BY <2>1, RankOnto DEF k
    <3> QED BY <3>1 DEF k
  <2> QED BY <2>2
<1>3. Sorted(S) = [i \in 1..size |-> At(i)] BY DEF Sorted, Rank, Before
<1> HIDE DEF At
<1> SUFFICES ASSUME NEW i \in 1..size, NEW j \in 1..size, At(i) = At(j) PROVE i = j BY <1>3 DEF NoRepeat
<1>4. i - 1 = j - 1
  <2>1. Rank(S, At(i)) = i - 1 /\ Rank(S, At(j)) = j - 1 BY <1>2
  <2>2. Rank(S, At(i)) = Rank(S, At(j)) OBVIOUS
  <2> QED BY <2>1, <2>2
<1> HIDE DEF size
<1> QED BY <1>1, <1>4

LEMMA DistinctNoRepeat ==
    ASSUME NEW S, NEW s \in Seq(S)
    PROVE  NoRepeat(Distinct(s))
<1> DEFINE new(i) == \A j \in 1..(i - 1) : s[j] # s[i]
           f == [i \in DOMAIN s |-> When(new(i), s[i])]
<1>1. Distinct(s) = FlattenSeq(f) BY DEF Distinct
<1>2. DOMAIN f = DOMAIN s /\ f = [i \in DOMAIN s |-> f[i]] OBVIOUS
<1>3. ASSUME NEW i \in DOMAIN s
      PROVE  f[i] \in Seq(S) /\ ToSet(f[i]) = (IF new(i) THEN {s[i]} ELSE {}) /\ NoRepeat(f[i])
  <2> DEFINE b == new(i)
             x == s[i]
  <2>1. b \in BOOLEAN /\ x \in S BY ElementType
  <2>2. f[i] = When(b, x) OBVIOUS
  <2>3. b <=> new(i) OBVIOUS
  <2> HIDE DEF b, f, new
  <2>4. When(b, x) \in Seq(S) /\ ToSet(When(b, x)) = (IF b THEN {x} ELSE {}) /\ NoRepeat(When(b, x))
    BY <2>1, WhenIs, WhenNoRepeat
  <2> QED BY <2>2, <2>3, <2>4
<1>4. ASSUME NEW i \in DOMAIN s, NEW j \in DOMAIN s, i # j, NEW x \in ToSet(f[i]) PROVE x \notin ToSet(f[j])
  <2> SUFFICES ASSUME x \in ToSet(f[j]) PROVE FALSE OBVIOUS
  <2>1. new(i) /\ new(j) /\ x = s[i] /\ x = s[j]
    <3> HIDE DEF f, new
    <3> QED BY <1>3, <1>4
  <2>2. DOMAIN s = 1..Len(s) /\ Len(s) \in Nat OBVIOUS
  <2>3. i \in 1..(j - 1) \/ j \in 1..(i - 1) BY <1>4, <2>2
  <2> QED BY <2>1, <2>3
<1> HIDE DEF f
<1>5. NoRepeat(FlattenSeq(f)) BY <1>2, <1>3, <1>4, EachNoRepeat
<1> QED BY <1>1, <1>5

\* Diagnosed problems of some checks, about what some numbers tell.
ProblemsAbout(checks, where) ==
    {p \in ProblemsOf(checks) : p.diagnosed /\ \A k \in DOMAIN where : p.result.about[k] = where[k]}

Tidy(problems, checks, where) == problems \in Seq(ProblemsAbout(checks, where)) /\ NoRepeat(problems)

LEMMA TidyWhen ==
    ASSUME NEW holds \in BOOLEAN, NEW checks, NEW check \in checks, NEW about \in Seq(Nat),
           NEW status \in {"FAIL"} \cup Warnings, NEW where, \A k \in DOMAIN where : about[k] = where[k]
    PROVE  Tidy(When(holds, Problem(check, about, status, TRUE)), checks, where)
<1> DEFINE x == Problem(check, about, status, TRUE)
<1>1. x \in ProblemsOf(checks) BY ProblemType
<1>2. x.diagnosed /\ x.result.about = about BY DEF Problem, Result
<1>3. x \in ProblemsAbout(checks, where) BY <1>1, <1>2 DEF ProblemsAbout
<1> HIDE DEF x
<1>4. When(holds, x) \in Seq(ProblemsAbout(checks, where)) BY <1>3, WhenIs
<1>5. NoRepeat(When(holds, x)) BY WhenNoRepeat
<1> QED BY <1>4, <1>5 DEF Tidy, x

LEMMA AboutMore ==
    ASSUME NEW checks, NEW more, checks \subseteq more, NEW where, NEW less,
           DOMAIN less \subseteq DOMAIN where, \A k \in DOMAIN less : where[k] = less[k]
    PROVE  ProblemsAbout(checks, where) \subseteq ProblemsAbout(more, less)
BY DEF ProblemsAbout, ProblemsOf

LEMMA TidyMore ==
    ASSUME NEW checks, NEW more, checks \subseteq more, NEW where, NEW less,
           DOMAIN less \subseteq DOMAIN where, \A k \in DOMAIN less : where[k] = less[k],
           NEW s, Tidy(s, checks, where)
    PROVE  Tidy(s, more, less)
<1> DEFINE A == ProblemsAbout(checks, where)
           B == ProblemsAbout(more, less)
<1>1. A \subseteq B BY AboutMore
<1>2. s \in Seq(A) /\ NoRepeat(s) BY DEF Tidy
<1> HIDE DEF A, B
<1>3. s \in Seq(B) BY <1>1, <1>2
<1> QED BY <1>2, <1>3 DEF Tidy, B

LEMMA TidyMember ==
    ASSUME NEW checks, NEW where, NEW s, Tidy(s, checks, where), NEW x \in ToSet(s)
    PROVE  x \in ProblemsAbout(checks, where)
<1> DEFINE A == ProblemsAbout(checks, where)
<1>1. s \in Seq(A) BY DEF Tidy
<1> HIDE DEF A
<1>2. PICK i \in DOMAIN s : x = s[i] BY DEF ToSet
<1>3. x \in A BY <1>1, <1>2, ElementType
<1> QED BY <1>3 DEF A

LEMMA TidyConcat ==
    ASSUME NEW c, NEW d, c \cap d = {}, NEW where, NEW s, NEW t, Tidy(s, c, where), Tidy(t, d, where)
    PROVE  Tidy(s \o t, c \cup d, where)
<1> DEFINE A == ProblemsAbout(c \cup d, where)
<1>1. Tidy(s, c \cup d, where) /\ Tidy(t, c \cup d, where)
  <2>1. c \subseteq c \cup d /\ d \subseteq c \cup d /\ DOMAIN where \subseteq DOMAIN where OBVIOUS
  <2> DEFINE e == c \cup d
  <2> HIDE DEF e
  <2>2. Tidy(s, e, where) BY <2>1, TidyMore DEF e
  <2>3. Tidy(t, e, where) BY <2>1, TidyMore DEF e
  <2> QED BY <2>2, <2>3 DEF e
<1>2. s \in Seq(A) /\ t \in Seq(A) /\ NoRepeat(s) /\ NoRepeat(t) BY <1>1 DEF Tidy
<1>3. \A x \in ToSet(s) : x \notin ToSet(t)
  <2>1. \A x \in ToSet(s) : x \in ProblemsAbout(c, where) BY TidyMember
  <2>2. \A x \in ToSet(t) : x \in ProblemsAbout(d, where) BY TidyMember
  <2>3. \A x : ~(x \in ProblemsAbout(c, where) /\ x \in ProblemsAbout(d, where))
    BY DEF ProblemsAbout, ProblemsOf
  <2> QED BY <2>1, <2>2, <2>3
<1> HIDE DEF A
<1>4. s \o t \in Seq(A) BY <1>2, ConcatMembers
<1>5. NoRepeat(s \o t) BY <1>2, <1>3, ConcatNoRepeat
<1> QED BY <1>4, <1>5 DEF Tidy, A

\* The problems of each member of s are tidy, about a place of its own within where.
Spread(s, f, checks, where, place) ==
    /\ DOMAIN f = DOMAIN s /\ f = [i \in DOMAIN s |-> f[i]]
    /\ \A i \in DOMAIN s :
          /\ Tidy(f[i], checks, place[i])
          /\ DOMAIN where \subseteq DOMAIN place[i]
          /\ \A k \in DOMAIN where : place[i][k] = where[k]
    /\ \A i, j \in DOMAIN s : i # j => \E k \in DOMAIN place[i] \cap DOMAIN place[j] : place[i][k] # place[j][k]

LEMMA TidyEach ==
    ASSUME NEW E, NEW s \in Seq(E), NEW f, NEW checks, NEW where, NEW place, Spread(s, f, checks, where, place)
    PROVE  Tidy(FlattenSeq(f), checks, where)
<1> DEFINE A == ProblemsAbout(checks, where)
<1>0. /\ DOMAIN f = DOMAIN s /\ f = [i \in DOMAIN s |-> f[i]]
      /\ \A i \in DOMAIN s :
            /\ Tidy(f[i], checks, place[i])
            /\ DOMAIN where \subseteq DOMAIN place[i]
            /\ \A k \in DOMAIN where : place[i][k] = where[k]
      /\ \A i, j \in DOMAIN s : i # j => \E k \in DOMAIN place[i] \cap DOMAIN place[j] : place[i][k] # place[j][k]
  BY DEF Spread
<1>1. ASSUME NEW i \in DOMAIN s PROVE f[i] \in Seq(A) /\ NoRepeat(f[i])
  <2>1. checks \subseteq checks /\ Tidy(f[i], checks, place[i]) BY <1>0
  <2>2. Tidy(f[i], checks, where)
    <3> DEFINE p == place[i] t == f[i]
    <3>1. DOMAIN where \subseteq DOMAIN p /\ \A k \in DOMAIN where : p[k] = where[k] BY <1>0
    <3>2. Tidy(t, checks, p) BY <2>1
    <3> HIDE DEF p, t
    <3>3. Tidy(t, checks, where) BY <2>1, <3>1, <3>2, TidyMore
    <3> QED BY <3>3 DEF t
  <2> QED BY <2>2 DEF Tidy
<1>2. ASSUME NEW i \in DOMAIN s, NEW j \in DOMAIN s, i # j, NEW x \in ToSet(f[i]) PROVE x \notin ToSet(f[j])
  <2> SUFFICES ASSUME x \in ToSet(f[j]) PROVE FALSE OBVIOUS
  <2>1. x \in ProblemsAbout(checks, place[i])
    <3>1. \A p, t : Tidy(t, checks, p) => \A y \in ToSet(t) : y \in ProblemsAbout(checks, p) BY TidyMember
    <3>2. Tidy(f[i], checks, place[i]) BY <1>0
    <3> QED BY <1>2, <3>1, <3>2
  <2>2. x \in ProblemsAbout(checks, place[j])
    <3>1. \A p, t : Tidy(t, checks, p) => \A y \in ToSet(t) : y \in ProblemsAbout(checks, p) BY TidyMember
    <3>2. Tidy(f[j], checks, place[j]) BY <1>0
    <3> QED BY <3>1, <3>2
  <2>3. PICK k \in DOMAIN place[i] \cap DOMAIN place[j] : place[i][k] # place[j][k] BY <1>0, <1>2
  <2> QED BY <2>1, <2>2, <2>3 DEF ProblemsAbout
<1> HIDE DEF A
<1>3. FlattenSeq(f) \in Seq(A) BY <1>0, <1>1, FlattenEach
<1>4. NoRepeat(FlattenSeq(f)) BY <1>0, <1>1, <1>2, EachNoRepeat
<1> QED BY <1>3, <1>4 DEF Tidy, A

\* Problems whose results differ.
Apart(problems) == \A i, j \in DOMAIN problems : problems[i].result = problems[j].result => i = j

LEMMA ApartIs ==
    ASSUME NEW checks, NEW problems \in Seq(ProblemsOf(checks)), NoRepeat(problems),
           NEW told, \A i \in DOMAIN problems : problems[i].diagnosed = told
    PROVE  Apart(problems)
<1>1. \A p, q \in ProblemsOf(checks) : p.result = q.result /\ p.diagnosed = q.diagnosed => p = q
  BY DEF ProblemsOf
<1>2. \A i \in DOMAIN problems : problems[i] \in ProblemsOf(checks) BY ElementType
<1> QED BY <1>1, <1>2 DEF Apart, NoRepeat

LEMMA TidyApart ==
    ASSUME NEW checks, NEW where, NEW s, Tidy(s, checks, where)
    PROVE  s \in Seq(ProblemsOf(checks)) /\ Apart(s)
<1> DEFINE A == ProblemsAbout(checks, where)
           P == ProblemsOf(checks)
<1>1. A \subseteq P /\ \A p \in A : p.diagnosed /\ p.diagnosed \in BOOLEAN BY DEF ProblemsAbout, ProblemsOf
<1>2. s \in Seq(A) /\ NoRepeat(s) BY DEF Tidy
<1> HIDE DEF A, P
<1>3. s \in Seq(P) BY <1>1, <1>2
<1>4. \A i \in DOMAIN s : s[i].diagnosed = TRUE BY <1>1, <1>2, ElementType
<1>5. Apart(s) BY <1>2, <1>3, <1>4, ApartIs DEF P
<1> QED BY <1>3, <1>5 DEF P


LEMMA FailTidy ==
    ASSUME NEW holds \in BOOLEAN, NEW check, NEW about \in Seq(Nat), NEW where, \A k \in DOMAIN where : about[k] = where[k]
    PROVE  Tidy(When(holds, Fail(check, about)), {check}, where)
<1>1. Fail(check, about) = Problem(check, about, "FAIL", TRUE) BY DEF Fail
<1>2. "FAIL" \in {"FAIL"} \cup Warnings /\ check \in {check} OBVIOUS
<1> QED BY <1>1, <1>2, TidyWhen

LEMMA ListenerTidy ==
    ASSUME world \in World, NEW g \in Parents, NEW l \in DOMAIN world.gateways[g].listeners
    PROVE  Tidy(ListenerProblems(g, l), ListenerChecks, <<g, l>>)
<1> DEFINE listener == world.gateways[g].listeners[l]
           certificates == listener.certificates
           bad(i) == CertificateRefused(g, certificates[i])
           f == [i \in DOMAIN certificates |-> When(bad(i), Fail("certificate", <<g, l, i>>))]
           b1 == listener.programmed = "False"
           b2 == listener.resolved = "False"
           s1 == When(b1, Fail("listener-programmed", <<g, l>>))
           s2 == When(b2, Fail("listener-refs", <<g, l>>))
           s3 == FlattenSeq(f)
           w == <<g, l>>
           place == [i \in DOMAIN certificates |-> <<g, l, i>>]
<1>1. g \in Nat /\ l \in Nat /\ certificates \in Seq(Certificate) BY ScopeParts, GatewayParts
<1>2. w \in Seq(Nat) /\ \A i \in Nat : <<g, l, i>> \in Seq(Nat) BY <1>1
<1>3. ListenerProblems(g, l) = (s1 \o s2) \o s3
  BY DEF ListenerProblems, CertificateRefused
<1>4. b1 \in BOOLEAN /\ b2 \in BOOLEAN OBVIOUS
<1>5. Tidy(s1, {"listener-programmed"}, w)
  <2> HIDE DEF b1
  <2>1. \A k \in DOMAIN w : w[k] = w[k] OBVIOUS
  <2> QED BY <1>2, <1>4, <2>1, FailTidy
<1>6. Tidy(s2, {"listener-refs"}, w)
  <2> HIDE DEF b2
  <2>1. \A k \in DOMAIN w : w[k] = w[k] OBVIOUS
  <2> QED BY <1>2, <1>4, <2>1, FailTidy
<1>7. Tidy(s3, {"certificate"}, w)
  <2>1. ASSUME NEW i \in DOMAIN certificates PROVE Tidy(f[i], {"certificate"}, place[i])
    <3>1. i \in Nat
      <4> HIDE DEF certificates
      <4> QED BY <1>1, ElementType
    <3> DEFINE b == bad(i)
               about == <<g, l, i>>
    <3>2. b \in BOOLEAN BY DEF CertificateRefused
    <3>3. about \in Seq(Nat) /\ \A k \in DOMAIN about : about[k] = about[k] BY <1>2, <3>1
    <3>4. f[i] = When(b, Fail("certificate", about)) /\ place[i] = about OBVIOUS
    <3> HIDE DEF b, about, f, place
    <3>5. Tidy(When(b, Fail("certificate", about)), {"certificate"}, about) BY <3>2, <3>3, FailTidy
    <3> QED BY <3>4, <3>5
  <2>2. DOMAIN f = DOMAIN certificates /\ f = [i \in DOMAIN certificates |-> f[i]] OBVIOUS
  <2>3. \A i \in DOMAIN certificates : DOMAIN w \subseteq DOMAIN place[i] /\ \A k \in DOMAIN w : place[i][k] = w[k]
    OBVIOUS
  <2>4. \A i, j \in DOMAIN certificates : i # j =>
            \E k \in DOMAIN place[i] \cap DOMAIN place[j] : place[i][k] # place[j][k]
    <3> SUFFICES ASSUME NEW i \in DOMAIN certificates, NEW j \in DOMAIN certificates, i # j
                 PROVE  \E k \in DOMAIN place[i] \cap DOMAIN place[j] : place[i][k] # place[j][k]
      OBVIOUS
    <3>1. 3 \in DOMAIN place[i] /\ 3 \in DOMAIN place[j] /\ place[i][3] = i /\ place[j][3] = j OBVIOUS
    <3> QED BY <3>1
  <2> DEFINE c == {"certificate"}
  <2>5. \A i \in DOMAIN certificates : Tidy(f[i], c, place[i]) BY <2>1
  <2>6. certificates \in Seq(Certificate) BY <1>1
  <2> HIDE DEF f, bad, certificates, w, place, c
  <2>8. Spread(certificates, f, c, w, place) BY <2>2, <2>3, <2>4, <2>5 DEF Spread
  <2>7. Tidy(FlattenSeq(f), c, w) BY <2>6, <2>8, TidyEach
  <2> QED BY <2>7 DEF c
<1> HIDE DEF s1, s2, s3, w
<1>8. Tidy(s1 \o s2, {"listener-programmed"} \cup {"listener-refs"}, w)
  <2>1. {"listener-programmed"} \cap {"listener-refs"} = {} OBVIOUS
  <2> QED BY <1>5, <1>6, <2>1, TidyConcat
<1>9. Tidy((s1 \o s2) \o s3, ({"listener-programmed"} \cup {"listener-refs"}) \cup {"certificate"}, w)
  <2> DEFINE c == {"listener-programmed"} \cup {"listener-refs"}
             d == {"certificate"}
             u == s1 \o s2
  <2>1. c \cap d = {} OBVIOUS
  <2>2. Tidy(u, c, w) /\ Tidy(s3, d, w) BY <1>7, <1>8
  <2> HIDE DEF c, d, u
  <2>3. Tidy(u \o s3, c \cup d, w) BY <2>1, <2>2, TidyConcat
  <2> QED BY <2>3 DEF u, c, d
<1>10. ({"listener-programmed"} \cup {"listener-refs"}) \cup {"certificate"} = ListenerChecks BY DEF ListenerChecks
<1> QED BY <1>3, <1>9, <1>10 DEF w

LEMMA StatusTidy ==
    ASSUME world \in World, NEW r \in DOMAIN world.routes, NEW i \in DOMAIN world.routes[r].statuses
    PROVE  Tidy(StatusProblems(r, i), {"rejected", "unresolved", "partial"}, <<r, i>>)
<1> DEFINE status == world.routes[r].statuses[i]
           b1 == status.accepted = "False"
           b2 == status.resolved = "False"
           b3 == status.partial = "True"
           w == <<r, i>>
           s1 == When(b1, Fail("rejected", w))
           s2 == When(b2, Fail("unresolved", w))
           s3 == When(b3, Problem("partial", w, "WARN", TRUE))
<1>1. StatusProblems(r, i) = (s1 \o s2) \o s3 BY DEF StatusProblems
<1>2. r \in Nat /\ i \in Nat
  <2>1. r \in Nat /\ world.routes[r].statuses \in Seq(ParentStatus) BY RouteParts
  <2> QED BY <2>1, ElementType
<1>3. w \in Seq(Nat) /\ \A k \in DOMAIN w : w[k] = w[k] BY <1>2
<1>4. b1 \in BOOLEAN /\ b2 \in BOOLEAN /\ b3 \in BOOLEAN OBVIOUS
<1> HIDE DEF b1, b2, b3, w
<1>5. Tidy(s1, {"rejected"}, w) /\ Tidy(s2, {"unresolved"}, w) BY <1>3, <1>4, FailTidy
<1>6. Tidy(s3, {"partial"}, w)
  <2>1. "WARN" \in {"FAIL"} \cup Warnings /\ "partial" \in {"partial"} BY DEF Warnings
  <2> QED BY <1>3, <1>4, <2>1, TidyWhen
<1> HIDE DEF s1, s2, s3
<1>7. Tidy(s1 \o s2, {"rejected"} \cup {"unresolved"}, w)
  <2>1. {"rejected"} \cap {"unresolved"} = {} OBVIOUS
  <2> QED BY <1>5, <2>1, TidyConcat
<1>8. Tidy((s1 \o s2) \o s3, ({"rejected"} \cup {"unresolved"}) \cup {"partial"}, w)
  <2> DEFINE c == {"rejected"} \cup {"unresolved"}
             d == {"partial"}
             u == s1 \o s2
  <2>1. c \cap d = {} OBVIOUS
  <2>2. Tidy(u, c, w) /\ Tidy(s3, d, w) BY <1>6, <1>7
  <2> HIDE DEF c, d, u
  <2>3. Tidy(u \o s3, c \cup d, w) BY <2>1, <2>2, TidyConcat
  <2> QED BY <2>3 DEF u, c, d
<1>9. ({"rejected"} \cup {"unresolved"}) \cup {"partial"} = {"rejected", "unresolved", "partial"} OBVIOUS
<1> QED BY <1>1, <1>8, <1>9 DEF w


\* One problem for sure.
LEMMA OneTidy ==
    ASSUME NEW checks, NEW check \in checks, NEW about \in Seq(Nat), NEW status \in {"FAIL"} \cup Warnings
    PROVE  Tidy(<<Problem(check, about, status, TRUE)>>, checks, about)
<1>1. When(TRUE, Problem(check, about, status, TRUE)) = <<Problem(check, about, status, TRUE)>> BY DEF When
<1>2. TRUE \in BOOLEAN /\ \A k \in DOMAIN about : about[k] = about[k] OBVIOUS
<1> DEFINE b == TRUE
<1> HIDE DEF b
<1>3. b \in BOOLEAN BY DEF b
<1>4. Tidy(When(b, Problem(check, about, status, TRUE)), checks, about) BY <1>2, <1>3, TidyWhen
<1> QED BY <1>1, <1>4 DEF b

LEMMA RouteTidy ==
    ASSUME world \in World, NEW r \in DOMAIN world.routes
    PROVE  Tidy(RouteProblems(r), RouteChecks, <<r>>)
<1> DEFINE route == world.routes[r]
           parents == route.parents
           statuses == route.statuses
           Lost(parent) == parent.kind /\ parent.gateway # 0 /\ parent.gateway \notin Parents
           f == [i \in DOMAIN parents |-> When(Lost(parents[i]), Fail("parent", <<r, i>>))]
           missing == FlattenSeq(f)
           said == \E i \in DOMAIN statuses : statuses[i].accepted # "absent"
           h == [i \in DOMAIN statuses |-> StatusProblems(r, i)]
           about == FlattenSeq(h)
           w == <<r>>
           none == Problem("no-status", w, "WARN", TRUE)
           last == Problem("not-accepted", w, "WARN", TRUE)
           rest == IF statuses = <<>> THEN <<none>> ELSE IF said THEN about ELSE Append(about, last)
           cp == {"parent"}
           cs == {"rejected", "unresolved", "partial"}
           cn == {"not-accepted"}
           ca == cs \cup cn \cup {"no-status"}
<1>1. RouteProblems(r) = missing \o rest BY DEF RouteProblems
<1>2. r \in Nat /\ parents \in Seq(ParentRef) /\ statuses \in Seq(ParentStatus) BY RouteParts
<1>3. w \in Seq(Nat) /\ \A i \in Nat : <<r, i>> \in Seq(Nat) BY <1>2
<1>4. Tidy(missing, cp, w)
  <2> DEFINE p == [i \in DOMAIN parents |-> <<r, i>>]
             s == parents
  <2>1. ASSUME NEW i \in DOMAIN s PROVE Tidy(f[i], cp, p[i])
    <3>1. parents[i] \in ParentRef /\ i \in Nat BY <1>2, <2>1, ElementType
    <3> DEFINE b == Lost(parents[i])
               to == <<r, i>>
    <3>2. b \in BOOLEAN BY <3>1 DEF ParentRef
    <3>3. to \in Seq(Nat) /\ \A k \in DOMAIN to : to[k] = to[k] BY <1>3, <3>1
    <3>4. f[i] = When(b, Fail("parent", to)) /\ p[i] = to OBVIOUS
    <3> HIDE DEF b, to, f, p
    <3>5. Tidy(When(b, Fail("parent", to)), {"parent"}, to) BY <3>2, <3>3, FailTidy
    <3> QED BY <3>4, <3>5
  <2>2. DOMAIN f = DOMAIN s /\ f = [i \in DOMAIN s |-> f[i]] OBVIOUS
  <2>3. \A i \in DOMAIN s : DOMAIN w \subseteq DOMAIN p[i] /\ \A k \in DOMAIN w : p[i][k] = w[k] OBVIOUS
  <2>6. \A i, j \in DOMAIN s : i # j => \E k \in DOMAIN p[i] \cap DOMAIN p[j] : p[i][k] # p[j][k]
    <3> SUFFICES ASSUME NEW i \in DOMAIN s, NEW j \in DOMAIN s, i # j
                 PROVE  \E k \in DOMAIN p[i] \cap DOMAIN p[j] : p[i][k] # p[j][k]
      OBVIOUS
    <3>1. 2 \in DOMAIN p[i] /\ 2 \in DOMAIN p[j] /\ p[i][2] = i /\ p[j][2] = j OBVIOUS
    <3> QED BY <3>1
  <2>4. s \in Seq(ParentRef) BY <1>2
  <2> HIDE DEF f, w, p, s, cp
  <2>5. Spread(s, f, cp, w, p) BY <2>1, <2>2, <2>3, <2>6 DEF Spread
  <2> QED BY <2>4, <2>5, TidyEach
<1>5. Tidy(about, cs, w)
  <2> DEFINE p == [i \in DOMAIN statuses |-> <<r, i>>]
             s == statuses
  <2>1. ASSUME NEW i \in DOMAIN s PROVE Tidy(h[i], cs, p[i])
    <3>1. h[i] = StatusProblems(r, i) /\ p[i] = <<r, i>> OBVIOUS
    <3> HIDE DEF h, p
    <3> QED BY <3>1, StatusTidy
  <2>2. DOMAIN h = DOMAIN s /\ h = [i \in DOMAIN s |-> h[i]] OBVIOUS
  <2>3. \A i \in DOMAIN s : DOMAIN w \subseteq DOMAIN p[i] /\ \A k \in DOMAIN w : p[i][k] = w[k] OBVIOUS
  <2>6. \A i, j \in DOMAIN s : i # j => \E k \in DOMAIN p[i] \cap DOMAIN p[j] : p[i][k] # p[j][k]
    <3> SUFFICES ASSUME NEW i \in DOMAIN s, NEW j \in DOMAIN s, i # j
                 PROVE  \E k \in DOMAIN p[i] \cap DOMAIN p[j] : p[i][k] # p[j][k]
      OBVIOUS
    <3>1. 2 \in DOMAIN p[i] /\ 2 \in DOMAIN p[j] /\ p[i][2] = i /\ p[j][2] = j OBVIOUS
    <3> QED BY <3>1
  <2>4. s \in Seq(ParentStatus) BY <1>2
  <2> HIDE DEF h, w, p, s, cs
  <2>5. Spread(s, h, cs, w, p) BY <2>1, <2>2, <2>3, <2>6 DEF Spread
  <2> QED BY <2>4, <2>5, TidyEach
<1>7. Tidy(<<none>>, ca, w) /\ Tidy(<<last>>, cn, w)
  <2>1. "WARN" \in {"FAIL"} \cup Warnings /\ "no-status" \in ca /\ "not-accepted" \in cn BY DEF Warnings
  <2> HIDE DEF ca, cn, w
  <2> QED BY <1>3, <2>1, OneTidy
<1> HIDE DEF f, h, none, last, missing, about, w, route
<1>8. Tidy(about, ca, w)
  <2>1. cs \subseteq ca /\ DOMAIN w \subseteq DOMAIN w /\ \A k \in DOMAIN w : w[k] = w[k] OBVIOUS
  <2> HIDE DEF ca, cs
  <2> QED BY <1>5, <2>1, TidyMore
<1>9. Tidy(Append(about, last), ca, w)
  <2> DEFINE t == <<last>>
             u == about \o t
  <2>1. cs \cap cn = {} /\ cs \cup cn \subseteq ca OBVIOUS
  <2>2. Tidy(t, cn, w) BY <1>7
  <2> HIDE DEF cs, cn, ca, t
  <2>3. Tidy(u, cs \cup cn, w) BY <1>5, <2>1, <2>2, TidyConcat
  <2>4. Tidy(u, ca, w)
    <3> DEFINE d == cs \cup cn
    <3>1. d \subseteq ca /\ DOMAIN w \subseteq DOMAIN w /\ \A k \in DOMAIN w : w[k] = w[k] BY <2>1
    <3>2. Tidy(u, d, w) BY <2>3
    <3> HIDE DEF d, u
    <3> QED BY <3>1, <3>2, TidyMore
  <2>5. Append(about, last) = u
    <3>1. about \in Seq(ProblemsAbout(cs, w)) BY <1>5 DEF Tidy
    <3> QED BY <3>1 DEF t
  <2> QED BY <2>4, <2>5
<1>10. Tidy(rest, ca, w) BY <1>7, <1>8, <1>9
<1>11. Tidy(missing \o rest, cp \cup ca, w)
  <2>1. cp \cap ca = {} OBVIOUS
  <2> HIDE DEF cp, ca, rest
  <2> QED BY <1>4, <1>10, <2>1, TidyConcat
<1>12. cp \cup ca = RouteChecks BY DEF RouteChecks
<1> QED BY <1>1, <1>11, <1>12 DEF w


\* The checks whose results count against the limit, and their results.
ProblemChecks ==
    ListNames \cup ListenerChecks \cup Reasons \cup {"redirect", "expected"}
        \cup RouteChecks \cup BackendChecks \cup FilterChecks
Told(results) == {r \in results : r.check \in ProblemChecks}

Smaller(m, n) == IF m <= n THEN m ELSE n

\* As many problems are told as were found, up to the limit.
Full(sofar) ==
    /\ IsFiniteSet(sofar.results)
    /\ Cardinality(Told(sofar.results)) = Smaller(sofar.problems, Limit)
    /\ \A r \in Told(sofar.results) : r.status # "PASS"

LEMMA FirstResults ==
    ASSUME NEW checks, NEW problems \in Seq(ProblemsOf(checks)), Apart(problems), NEW k \in Nat, k <= Len(problems)
    PROVE  /\ IsFiniteSet({problems[j].result : j \in 1..k})
           /\ Cardinality({problems[j].result : j \in 1..k}) = k
<1> DEFINE g == [j \in 1..k |-> problems[j].result]
           R == {problems[j].result : j \in 1..k}
           I == 1..k
<1>1. DOMAIN problems = 1..Len(problems) /\ Len(problems) \in Nat OBVIOUS
<1>2. \A i, j \in I : g[i] = g[j] => i = j BY <1>1 DEF Apart
<1>3. g \in Surjection(I, R) BY DEF Surjection
<1>4. g \in Injection(I, R)
  <2>1. g \in [I -> R] BY <1>3 DEF Surjection
  <2> HIDE DEF g, R, I
  <2> QED BY <1>2, <2>1 DEF Injection, IsInjective
<1>5. IsFiniteSet(I) /\ Cardinality(I) = k
  <2>1. 1 \in Int /\ k \in Int OBVIOUS
  <2> QED BY <2>1, FS_Interval
<1> HIDE DEF g, R, I
<1>6. IsFiniteSet(R) /\ (Cardinality(R) = Cardinality(I) <=> g \in Injection(I, R)) BY <1>3, <1>5, FS_Surjection
<1> QED BY <1>4, <1>5, <1>6 DEF R, I

LEMMA TellsFull ==
    ASSUME opts \in Option, NEW sofar, sofar.problems \in Nat, Full(sofar),
           NEW checks, checks \subseteq ProblemChecks,
           NEW problems \in Seq(ProblemsOf(checks)), Apart(problems),
           \A i \in DOMAIN problems : problems[i].result \notin sofar.results
    PROVE  Full(addProblems(sofar, problems))
<1> DEFINE room == IF sofar.problems >= Limit THEN 0 ELSE Limit - sofar.problems
           kept == {problems[i] : i \in {j \in DOMAIN problems : j <= room}}
           results == {problem.result : problem \in kept}
           after == addProblems(sofar, problems)
           n == Len(problems)
           k == Smaller(n, room)
           R == {problems[j].result : j \in 1..k}
           m == sofar.problems
           T == Told(sofar.results)
<1>0. n \in Nat /\ DOMAIN problems = 1..n /\ m \in Nat /\ Limit \in Nat BY LimitIs
<1>1. room \in Nat /\ k \in Nat /\ k <= n
  <2> HIDE DEF n, m
  <2> QED BY <1>0 DEF Smaller
<1>2. after.results = sofar.results \cup results /\ after.problems = m + n BY DEF addProblems
<1>3. results = R
  <2>1. {j \in DOMAIN problems : j <= room} = 1..k
    <3> HIDE DEF n, room
    <3> QED BY <1>0, <1>1 DEF Smaller
  <2> HIDE DEF room, k
  <2> QED BY <2>1
<1>4. IsFiniteSet(R) /\ Cardinality(R) = k
  <2>1. k \in Nat /\ k <= Len(problems) BY <1>1
  <2> HIDE DEF room, k, kept, results, after
  <2>2. /\ IsFiniteSet({problems[j].result : j \in 1..k})
        /\ Cardinality({problems[j].result : j \in 1..k}) = k
    BY <2>1, FirstResults
  <2> QED BY <2>2
<1>5. \A r \in R : r.check \in ProblemChecks /\ r.status # "PASS" /\ r \notin sofar.results
  <2> SUFFICES ASSUME NEW j \in 1..k
               PROVE  /\ problems[j].result.check \in ProblemChecks /\ problems[j].result.status # "PASS"
                      /\ problems[j].result \notin sofar.results
    OBVIOUS
  <2>1. j \in DOMAIN problems
    <3> HIDE DEF k, n
    <3> QED BY <1>0, <1>1
  <2>2. problems[j] \in ProblemsOf(checks) BY <2>1, ElementType
  <2>3. problems[j].result.check \in checks /\ problems[j].result.status # "PASS" BY <2>2 DEF ProblemsOf, Warnings
  <2> QED BY <2>1, <2>3
<1> HIDE DEF results, R, after, k, n, m, room, kept
<1>6. Told(after.results) = T \cup R BY <1>2, <1>3, <1>5 DEF Told
<1>7. T \cap R = {} BY <1>5 DEF Told
<1>8. IsFiniteSet(sofar.results) /\ Cardinality(T) = Smaller(m, Limit) /\ \A r \in T : r.status # "PASS"
  BY DEF Full, m
<1>9. IsFiniteSet(T)
  <2>1. T \in SUBSET sofar.results BY DEF Told
  <2> QED BY <1>8, <2>1, FS_Subset
<1> HIDE DEF T
<1>10. IsFiniteSet(after.results) BY <1>2, <1>3, <1>4, <1>8, FS_Union
<1>11. Cardinality(T \cup R) = Smaller(m, Limit) + k
  <2>1. Cardinality(T \cup R) = Cardinality(T) + Cardinality(R) - Cardinality({}) BY <1>4, <1>7, <1>9, FS_Union
  <2>2. Cardinality({}) = 0 BY FS_EmptySet
  <2>3. Smaller(m, Limit) \in Nat BY <1>0 DEF Smaller
  <2> QED BY <1>1, <1>4, <1>8, <2>1, <2>2, <2>3
<1>12. Smaller(m, Limit) + k = Smaller(m + n, Limit) BY <1>0 DEF Smaller, k, room, m
<1>13. \A r \in Told(after.results) : r.status # "PASS" BY <1>5, <1>6, <1>8
<1>14. Full(after) BY <1>2, <1>6, <1>10, <1>11, <1>12, <1>13 DEF Full
<1> QED BY <1>14 DEF after

LEMMA AddFull ==
    ASSUME NEW sofar, Full(sofar), NEW results, IsFiniteSet(results), \A r \in results : r.check \notin ProblemChecks,
           NEW diagnoses
    PROVE  Full(Add(sofar, results, diagnoses))
<1> DEFINE after == Add(sofar, results, diagnoses)
<1>1. after.results = sofar.results \cup results /\ after.problems = sofar.problems BY DEF Add
<1> HIDE DEF after
<1>2. Told(after.results) = Told(sofar.results) BY <1>1 DEF Told
<1>3. IsFiniteSet(sofar.results) BY DEF Full
<1>4. IsFiniteSet(after.results) BY <1>1, <1>3, FS_Union
<1>5. Full(after) BY <1>1, <1>2, <1>4 DEF Full
<1> QED BY <1>5 DEF after


-------------------------------------------------------------------------------
(* The problems of each step are apart.                                    *)

\* Problems of some checks, apart from one another, were added.
Tells(older, newer, checks) ==
    \E problems \in Seq(ProblemsOf(checks)) : Apart(problems) /\ newer = addProblems(older, problems)

LEMMA OneTells ==
    ASSUME NEW sofar, NEW checks, NEW problem \in ProblemsOf(checks)
    PROVE  Tells(sofar, addProblem(sofar, problem), checks)
<1> DEFINE problems == <<problem>>
<1>1. problems \in Seq(ProblemsOf(checks)) OBVIOUS
<1>2. Apart(problems) BY DEF Apart
<1>3. addProblem(sofar, problem) = addProblems(sofar, problems) BY DEF addProblem
<1> QED BY <1>1, <1>2, <1>3 DEF Tells

LEMMA ListsTell ==
    ASSUME readLists
    PROVE  report' = report \/ Tells(report, report', ListNames)
<1> DEFINE Failed(list) == Listed(list) /\ Outcome(list) = "error"
           f == [i \in DOMAIN Lists |-> When(Failed(Lists[i]), Problem(Lists[i], <<>>, "api-inspection", FALSE))]
           P == ProblemsOf(ToSet(Lists))
           A == {p \in P : p.diagnosed = FALSE}
<1>1. report' = report \/ report' = addProblems(report, FlattenSeq(f)) BY DEF readLists
<1>2. Lists \in Seq(ToSet(Lists)) BY ListsAre
<1>3. ASSUME NEW i \in DOMAIN Lists
      PROVE  f[i] \in Seq(A) /\ NoRepeat(f[i]) /\ \A x \in ToSet(f[i]) : x.result.check = Lists[i]
  <2> DEFINE b == Failed(Lists[i])
             x == Problem(Lists[i], <<>>, "api-inspection", FALSE)
  <2>1. b \in BOOLEAN BY DEF Listed
  <2>2. Lists[i] \in ToSet(Lists) BY Zenon DEF ToSet
  <2>3. x \in P
    <3>1. <<>> \in Seq(Nat) /\ "api-inspection" \in {"FAIL"} \cup Warnings BY DEF Warnings
    <3> QED BY <2>2, <3>1, ProblemType
  <2>4. f[i] = When(b, x) OBVIOUS
  <2>5. x.diagnosed = FALSE /\ x.result.check = Lists[i] BY DEF Problem, Result
  <2>6. x \in A BY <2>3, <2>5
  <2> HIDE DEF b, x, f, P, A
  <2>7. When(b, x) \in Seq(A) /\ ToSet(When(b, x)) = (IF b THEN {x} ELSE {}) /\ NoRepeat(When(b, x))
    BY <2>1, <2>6, WhenIs, WhenNoRepeat
  <2> QED BY <2>4, <2>5, <2>7
<1>4. DOMAIN f = DOMAIN Lists /\ f = [i \in DOMAIN Lists |-> f[i]] OBVIOUS
<1>5. NoRepeat(Lists)
  <2>1. DOMAIN Lists = 1..20 BY DEF Lists
  <2>2. /\ Lists[1] = "GatewayClass" /\ Lists[2] = "Gateway" /\ Lists[3] = "parents"
        /\ Lists[4] = "HTTPRoute" /\ Lists[5] = "GRPCRoute" /\ Lists[6] = "TLSRoute"
        /\ Lists[7] = "TCPRoute" /\ Lists[8] = "UDPRoute" /\ Lists[9] = "ListenerSet"
        /\ Lists[10] = "BackendTLSPolicy" /\ Lists[11] = "XBackendTrafficPolicy" /\ Lists[12] = "Backend"
        /\ Lists[13] = "BackendTrafficPolicy" /\ Lists[14] = "ClientTrafficPolicy" /\ Lists[15] = "SecurityPolicy"
        /\ Lists[16] = "EnvoyExtensionPolicy" /\ Lists[17] = "EnvoyPatchPolicy" /\ Lists[18] = "EnvoyProxy"
        /\ Lists[19] = "HTTPRouteFilter" /\ Lists[20] = "ReferenceGrant"
    BY DEF Lists
  <2> HIDE DEF Lists
  <2>3. \A i \in 1..20 :
           \/ i = 1 \/ i = 2 \/ i = 3 \/ i = 4 \/ i = 5 \/ i = 6 \/ i = 7 \/ i = 8 \/ i = 9 \/ i = 10
           \/ i = 11 \/ i = 12 \/ i = 13 \/ i = 14 \/ i = 15 \/ i = 16 \/ i = 17 \/ i = 18 \/ i = 19 \/ i = 20
    OBVIOUS
  <2> QED BY <2>1, <2>2, <2>3 DEF NoRepeat
<1> DEFINE problems == FlattenSeq(f)
<1>6. A \subseteq P /\ \A p \in A : p.diagnosed = FALSE OBVIOUS
<1> HIDE DEF f, A, P
<1>7. problems \in Seq(A) BY <1>2, <1>3, <1>4, FlattenEach
<1>8. \A i, j \in DOMAIN Lists : i # j => \A x \in ToSet(f[i]) : x \notin ToSet(f[j])
  <2> SUFFICES ASSUME NEW i \in DOMAIN Lists, NEW j \in DOMAIN Lists, i # j, NEW x \in ToSet(f[i]), x \in ToSet(f[j])
               PROVE  FALSE
    OBVIOUS
  <2>1. x.result.check = Lists[i] /\ x.result.check = Lists[j] BY <1>3
  <2> QED BY <1>5, <2>1 DEF NoRepeat
<1>9. NoRepeat(problems) BY <1>2, <1>3, <1>4, <1>8, EachNoRepeat
<1> HIDE DEF problems
<1>10. problems \in Seq(P) BY <1>6, <1>7
<1>11. \A i \in DOMAIN problems : problems[i].diagnosed = FALSE BY <1>6, <1>7, ElementType
<1>12. Apart(problems) BY <1>9, <1>10, <1>11, ApartIs DEF P
<1>13. P = ProblemsOf(ListNames) BY NamesAre DEF P
<1> QED BY <1>1, <1>10, <1>12, <1>13 DEF Tells, problems

LEMMA TidyTells ==
    ASSUME NEW sofar, NEW checks, NEW where, NEW problems, Tidy(problems, checks, where)
    PROVE  Tells(sofar, addProblems(sofar, problems), checks)
<1>1. problems \in Seq(ProblemsOf(checks)) /\ Apart(problems) BY TidyApart
<1> QED BY <1>1 DEF Tells

LEMMA MatchingNoRepeat ==
    ASSUME world \in World
    PROVE  NoRepeat(MatchingListeners)
<1> DEFINE found == {where \in UNION {{<<g, l>> : l \in DOMAIN world.gateways[g].listeners} : g \in Parents} :
                        ListenerMatches(world.gateways[where[1]].listeners[where[2]], intent)}
<1>1. MatchingListeners = Sorted(found) BY DEF MatchingListeners
<1>2. found \in SUBSET ListenerPairsOf BY DEF ListenerPairsOf
<1>3. ASSUME NEW where \in ListenerPairsOf PROVE where \in [1..2 -> Nat]
  <2>1. PICK g \in Parents : \E l \in DOMAIN world.gateways[g].listeners : where = <<g, l>> BY DEF ListenerPairsOf
  <2>2. PICK l \in DOMAIN world.gateways[g].listeners : where = <<g, l>> BY <2>1
  <2>3. g \in Nat /\ l \in Nat BY ScopeParts, GatewayParts
  <2> QED BY <2>2, <2>3
<1> HIDE DEF found
<1>4. IsFiniteSet(found) BY <1>2, PairsOfFinite, FS_Subset
<1>5. found \in SUBSET [1..2 -> Nat] BY <1>2, <1>3
<1>6. 2 \in Nat OBVIOUS
<1>7. NoRepeat(Sorted(found)) BY <1>4, <1>5, <1>6, SortedNoRepeat
<1> QED BY <1>1, <1>7


LEMMA ElementsFinite ==
    ASSUME NEW S, NEW s \in Seq(S)
    PROVE  IsFiniteSet(ToSet(s))
<1> DEFINE D == DOMAIN s
<1>1. IsFiniteSet(D) BY SequenceFinite
<1>2. DOMAIN s = D OBVIOUS
<1>3. ToSet(s) = {s[i] : i \in D} BY DEF ToSet
<1> HIDE DEF D
<1>4. IsFiniteSet({s[i] : i \in D}) BY <1>1, <1>2, ImageFinite
<1> QED BY <1>3, <1>4

LEMMA ListenersTell ==
    ASSUME world \in World, checkListeners
    PROVE  \E unknown : /\ IsFiniteSet(unknown) /\ \A r \in unknown : r.check = "certificate-kind"
                        /\ Tells(Add(report, unknown, {}), report', ListenerChecks)
<1> DEFINE Found(where) == IF where \in Secured THEN ListenerProblems(where[1], where[2]) ELSE <<>>
           unknown == UNION {UnknownCertificates(where[1], where[2]) : where \in Secured}
           f == [i \in DOMAIN MatchingListeners |-> Found(MatchingListeners[i])]
           middle == Add(report, unknown, {})
           problems == FlattenSeq(f)
           nowhere == <<>>
<1>1. report' = addProblems(middle, problems) BY DEF checkListeners
<1>2. \A r \in unknown : r.check = "certificate-kind" BY DEF UnknownCertificates, Result
<1>3. MatchingListeners \in Seq(ListenerPairsOf) /\ NoRepeat(MatchingListeners) BY MatchingAre, MatchingNoRepeat
<1>4. IsFiniteSet(unknown)
  <2> DEFINE u == [where \in Secured |-> UnknownCertificates(where[1], where[2])]
  <2>1. Secured \in SUBSET ToSet(MatchingListeners) BY DEF Secured
  <2>2. IsFiniteSet(Secured) BY <1>3, <2>1, ElementsFinite, FS_Subset
  <2>3. ASSUME NEW where \in Secured PROVE IsFiniteSet(u[where])
    <3>1. u[where] \in SUBSET {Result("certificate-kind", <<where[1], where[2]>>, "unsupported-ref")}
      BY DEF UnknownCertificates
    <3>2. IsFiniteSet({Result("certificate-kind", <<where[1], where[2]>>, "unsupported-ref")}) BY FS_Singleton
    <3> HIDE DEF u
    <3> QED BY <3>1, <3>2, FS_Subset
  <2>4. DOMAIN u = Secured /\ unknown = UNION {u[where] : where \in Secured} OBVIOUS
  <2> HIDE DEF u, unknown
  <2> QED BY <2>2, <2>3, <2>4, UnionFinite
<1>5. ASSUME NEW i \in DOMAIN MatchingListeners
      PROVE  /\ Tidy(f[i], ListenerChecks, MatchingListeners[i])
             /\ MatchingListeners[i] = <<MatchingListeners[i][1], MatchingListeners[i][2]>>
  <2> DEFINE where == MatchingListeners[i]
  <2>1. where \in ToSet(MatchingListeners) BY Zenon DEF ToSet
  <2>2. where[1] \in Parents /\ where[2] \in DOMAIN world.gateways[where[1]].listeners BY <2>1, MatchingAre
  <2>3. where = <<where[1], where[2]>>
    <3>1. where \in ListenerPairsOf BY <1>3, ElementType
    <3> HIDE DEF where
    <3>2. PICK g \in Parents : \E l \in DOMAIN world.gateways[g].listeners : where = <<g, l>>
      BY <3>1 DEF ListenerPairsOf
    <3> QED BY <3>2
  <2>4. f[i] = IF where \in Secured THEN ListenerProblems(where[1], where[2]) ELSE <<>> OBVIOUS
  <2> HIDE DEF where, f
  <2>5. Tidy(ListenerProblems(where[1], where[2]), ListenerChecks, where) BY <2>2, <2>3, ListenerTidy
  <2>6. Tidy(<<>>, ListenerChecks, where) BY FewNoRepeat DEF Tidy
  <2> QED BY <2>3, <2>4, <2>5, <2>6 DEF where
<1>6. Spread(MatchingListeners, f, ListenerChecks, nowhere, MatchingListeners)
  <2>1. DOMAIN f = DOMAIN MatchingListeners /\ f = [i \in DOMAIN MatchingListeners |-> f[i]] OBVIOUS
  <2>2. \A i \in DOMAIN MatchingListeners :
           DOMAIN nowhere \subseteq DOMAIN MatchingListeners[i]
           /\ \A k \in DOMAIN nowhere : MatchingListeners[i][k] = nowhere[k]
    OBVIOUS
  <2>3. ASSUME NEW i \in DOMAIN MatchingListeners, NEW j \in DOMAIN MatchingListeners, i # j
        PROVE  \E k \in DOMAIN MatchingListeners[i] \cap DOMAIN MatchingListeners[j] :
                  MatchingListeners[i][k] # MatchingListeners[j][k]
    <3> DEFINE p == MatchingListeners[i] q == MatchingListeners[j]
    <3>1. p # q BY <1>3, <2>3 DEF NoRepeat
    <3>2. p = <<p[1], p[2]>> /\ q = <<q[1], q[2]>> BY <1>5
    <3> HIDE DEF p, q
    <3>3. 1 \in DOMAIN p /\ 2 \in DOMAIN p /\ 1 \in DOMAIN q /\ 2 \in DOMAIN q BY <3>2
    <3>4. p[1] # q[1] \/ p[2] # q[2] BY <3>1, <3>2
    <3>5. \E k \in DOMAIN p \cap DOMAIN q : p[k] # q[k] BY <3>3, <3>4
    <3> QED BY <3>5 DEF p, q
  <2> HIDE DEF f, nowhere
  <2> QED BY <1>5, <2>1, <2>2, <2>3 DEF Spread
<1> HIDE DEF f, nowhere, unknown
<1>7. Tidy(problems, ListenerChecks, nowhere) BY <1>3, <1>6, TidyEach
<1> HIDE DEF problems
<1>8. Tells(middle, report', ListenerChecks) BY <1>1, <1>7, TidyTells
<1> QED BY <1>2, <1>4, <1>8 DEF unknown

LEMMA ParentsTell ==
    ASSUME PathInv, checkParents
    PROVE  Tells(report, report', RouteChecks)
<1>1. world \in World BY LegalCases DEF Legal
<1> DEFINE f == [i \in DOMAIN PathRoutes |-> RouteProblems(PathRoutes[i])]
           problems == FlattenSeq(f)
           place == [i \in DOMAIN PathRoutes |-> <<PathRoutes[i]>>]
           nowhere == <<>>
<1>2. report' = addProblems(report, problems) BY DEF checkParents
<1>3. PathRoutes \in Seq(RouteScope) BY PathRoutesAre
<1>4. NoRepeat(PathRoutes)
  <2> DEFINE routes == [i \in DOMAIN paths |-> paths[i][3]]
  <2>1. DOMAIN paths = 1..Len(paths) /\ Len(paths) \in Nat BY DEF PathInv, Chosen
  <2>2. routes \in Seq(RouteScope) BY <2>1, PathParts
  <2>3. PathRoutes = Distinct(routes) BY DEF PathRoutes
  <2> HIDE DEF routes
  <2> QED BY <2>2, <2>3, DistinctNoRepeat
<1>5. ASSUME NEW i \in DOMAIN PathRoutes PROVE Tidy(f[i], RouteChecks, place[i])
  <2> DEFINE r == PathRoutes[i]
  <2>1. r \in RouteScope BY <1>3, ElementType
  <2>2. r \in DOMAIN world.routes BY <2>1 DEF RouteScope
  <2>3. f[i] = RouteProblems(r) /\ place[i] = <<r>> OBVIOUS
  <2> HIDE DEF r, f, place
  <2> QED BY <1>1, <2>2, <2>3, RouteTidy
<1>6. Spread(PathRoutes, f, RouteChecks, nowhere, place)
  <2>1. DOMAIN f = DOMAIN PathRoutes /\ f = [i \in DOMAIN PathRoutes |-> f[i]] OBVIOUS
  <2>2. \A i \in DOMAIN PathRoutes :
           DOMAIN nowhere \subseteq DOMAIN place[i] /\ \A k \in DOMAIN nowhere : place[i][k] = nowhere[k]
    OBVIOUS
  <2>3. ASSUME NEW i \in DOMAIN PathRoutes, NEW j \in DOMAIN PathRoutes, i # j
        PROVE  \E k \in DOMAIN place[i] \cap DOMAIN place[j] : place[i][k] # place[j][k]
    <3>1. PathRoutes[i] # PathRoutes[j] BY <1>4, <2>3 DEF NoRepeat
    <3>2. 1 \in DOMAIN place[i] /\ 1 \in DOMAIN place[j]
          /\ place[i][1] = PathRoutes[i] /\ place[j][1] = PathRoutes[j]
      OBVIOUS
    <3> QED BY <3>1, <3>2
  <2> HIDE DEF f, nowhere, place
  <2> QED BY <1>5, <2>1, <2>2, <2>3 DEF Spread
<1> HIDE DEF f, nowhere, place
<1>7. Tidy(problems, RouteChecks, nowhere) BY <1>3, <1>6, TidyEach
<1> HIDE DEF problems
<1> QED BY <1>2, <1>7, TidyTells

LEMMA MissesTidy == Tidy(FilterMisses, FilterChecks, <<>>)
<1> DEFINE b1 == opts.class # 0
           b2 == opts.gateways # None /\ InNamespace(Scope("Gateway")) = {}
           b3 == opts.routes # None /\ RouteScope = {}
           w == <<>>
           s1 == When(b1, Fail("class-filter", w))
           s2 == When(b2, Fail("gateway-filter", w))
           s3 == When(b3, Fail("route-filter", w))
<1>1. FilterMisses = (s1 \o s2) \o s3 BY DEF FilterMisses, When
<1>2. w \in Seq(Nat) /\ \A k \in DOMAIN w : w[k] = w[k] OBVIOUS
<1>3. b1 \in BOOLEAN /\ b2 \in BOOLEAN /\ b3 \in BOOLEAN OBVIOUS
<1> HIDE DEF b1, b2, b3, w
<1>4. Tidy(s1, {"class-filter"}, w) /\ Tidy(s2, {"gateway-filter"}, w) /\ Tidy(s3, {"route-filter"}, w)
  BY <1>2, <1>3, FailTidy
<1> HIDE DEF s1, s2, s3
<1> DEFINE c == {"class-filter"}
           d == {"gateway-filter"}
           e == {"route-filter"}
           u == s1 \o s2
<1>5. c \cap d = {} /\ (c \cup d) \cap e = {} /\ (c \cup d) \cup e = FilterChecks BY DEF FilterChecks
<1>6. Tidy(s1, c, w) /\ Tidy(s2, d, w) /\ Tidy(s3, e, w) BY <1>4
<1> HIDE DEF c, d, e
<1>7. Tidy(u, c \cup d, w) BY <1>5, <1>6, TidyConcat
<1> DEFINE cd == c \cup d
<1>8. cd \cap e = {} /\ Tidy(u, cd, w) BY <1>5, <1>7
<1> HIDE DEF cd, u
<1>9. Tidy(u \o s3, cd \cup e, w) BY <1>6, <1>8, TidyConcat
<1> QED BY <1>1, <1>5, <1>9 DEF cd, u, w

LEMMA SelectTells ==
    ASSUME selectRules
    PROVE  report' = report \/ Tells(report, report', Reasons \cup {"redirect"})
<1> DEFINE checks == Reasons \cup {"redirect"}
<1>1. ASSUME NEW check \in checks PROVE Tells(report, addProblem(report, Fail(check, <<>>)), checks)
  <2>1. <<>> \in Seq(Nat) OBVIOUS
  <2>2. Fail(check, <<>>) \in ProblemsOf(checks)
    <3> HIDE DEF checks
    <3> QED BY <1>1, <2>1, FailType
  <2> HIDE DEF checks
  <2> QED BY <2>2, OneTells
<1>2. report' = report \/ \E check \in checks : report' = addProblem(report, Fail(check, <<>>))
  <2>1. NoMatchReason(world.gateways, Parents, world.routes, RouteScope, intent) \in Reasons BY ReasonIs
  <2> QED BY <2>1 DEF selectRules
<1> QED BY <1>1, <1>2

LEMMA ExpectedTells ==
    ASSUME checkExpected
    PROVE  report' = report \/ Tells(report, report', {"expected"})
<1> DEFINE problem == Fail("expected", <<>>)
<1>1. report' = report \/ report' = addProblem(report, problem) BY DEF checkExpected
<1>2. problem \in ProblemsOf({"expected"})
  <2>1. <<>> \in Seq(Nat) /\ "expected" \in {"expected"} OBVIOUS
  <2> QED BY <2>1, FailType
<1> HIDE DEF problem
<1> QED BY <1>1, <1>2, OneTells


-------------------------------------------------------------------------------
(* What is said of no problem.                                             *)

\* Finitely many results of some checks are added, of problems none.
Extends(older, newer, checks) ==
    \E results, diagnoses :
        /\ IsFiniteSet(results) /\ \A r \in results : r.check \in checks
        /\ newer = Add(older, results, diagnoses)

OtherChecks ==
    {"options", "context", "namespace", "mirror", "weighted", "services", "dataplane", "probe"} \cup RoundChecks

LEMMA OthersAreNone == \A check \in OtherChecks \cup {"certificate-kind", "matched-backends", "limit"} :
                          check \notin ProblemChecks
BY DEF OtherChecks, RoundChecks, ProbeChecks, ProblemChecks, ListNames, ListenerChecks, Reasons, RouteChecks,
       BackendChecks, FilterChecks

LEMMA OneExtends ==
    ASSUME NEW sofar, NEW checks, NEW check \in checks, NEW about, NEW status, NEW diagnoses
    PROVE  Extends(sofar, Add(sofar, {Result(check, about, status)}, diagnoses), checks)
<1> DEFINE results == {Result(check, about, status)}
<1>1. IsFiniteSet(results) BY FS_Singleton
<1>2. \A r \in results : r.check \in checks BY DEF Result
<1> HIDE DEF results
<1> QED BY <1>1, <1>2 DEF Extends, results

LEMMA ImageExtends ==
    ASSUME NEW sofar, NEW checks, NEW S, IsFiniteSet(S), NEW f, DOMAIN f = S, \A x \in S : f[x].check \in checks,
           NEW diagnoses
    PROVE  Extends(sofar, Add(sofar, {f[x] : x \in S}, diagnoses), checks)
<1> DEFINE results == {f[x] : x \in S}
<1>1. IsFiniteSet(results) BY ImageFinite
<1>2. \A r \in results : r.check \in checks OBVIOUS
<1> HIDE DEF results
<1> QED BY <1>1, <1>2 DEF Extends, results

LEMMA FirstExtend ==
    ASSUME readOptions \/ reachCluster \/ checkMirror \/ cannotProbe
    PROVE  report' = report \/ Extends(report, report', OtherChecks)
<1>1. \A check \in OtherChecks : \A about, status, diagnoses :
         Extends(report, Add(report, {Result(check, about, status)}, diagnoses), OtherChecks)
  BY OneExtends
<1>2. {"options", "context", "namespace", "mirror", "probe"} \subseteq OtherChecks BY DEF OtherChecks
<1>3. report' = report \/ \E check \in {"options", "context", "namespace", "mirror", "probe"} : \E about, status, diagnoses :
                             report' = Add(report, {Result(check, about, status)}, diagnoses)
  <2>1. CASE readOptions BY <2>1 DEF readOptions
  <2>2. CASE reachCluster BY <2>2 DEF reachCluster
  <2>3. CASE checkMirror BY <2>3 DEF checkMirror
  <2>4. CASE cannotProbe BY <2>4 DEF cannotProbe, Skipped
  <2> QED BY <2>1, <2>2, <2>3, <2>4
<1> QED BY <1>1, <1>2, <1>3

LEMMA ReferencesFinite ==
    ASSUME PathInv
    PROVE  IsFiniteSet(References)
<1> DEFINE D == DOMAIN paths
           f == [i \in D |-> ReferenceOf(paths[i])]
<1>1. paths \in Seq(Candidates(selected)) BY DEF PathInv, Chosen
<1>2. IsFiniteSet(D) BY <1>1, SequenceFinite
<1>3. References = {f[i] : i \in D} BY DEF References, ToSet
<1>4. DOMAIN f = D OBVIOUS
<1> HIDE DEF D, f
<1>5. IsFiniteSet({f[i] : i \in D}) BY <1>2, <1>4, ImageFinite
<1> QED BY <1>3, <1>5

LEMMA ScannedExtends ==
    ASSUME Kept, scanned
    PROVE  Extends(report, report', {"weighted"})
<1> DEFINE D == DOMAIN analyses
           mixed == {ref \in D : Mixed(SubSeq(ref, 1, 2))}
           f == [ref \in mixed |-> Result("weighted", SubSeq(ref, 1, 2), "conditional-routing")]
           rules == {SubSeq(ref, 1, 2) : ref \in D}
           results == {Result("weighted", rule, "conditional-routing") : rule \in {r \in rules : Mixed(r)}}
           broken == {ref \in D : Mixed(SubSeq(ref, 1, 2)) /\ Broken(analyses[ref])}
           diagnoses == {Diagnosis("weighted", ref) : ref \in broken}
<1>1. report' = Add(report, results, diagnoses) BY DEF scanned
<1>2. IsFiniteSet(mixed)
  <2>1. mixed \in SUBSET References BY DEF Kept, AnalysisInv
  <2>2. IsFiniteSet(References) BY ReferencesFinite DEF Kept
  <2> HIDE DEF mixed
  <2> QED BY <2>1, <2>2, FS_Subset
<1>3. results = {f[ref] : ref \in mixed} OBVIOUS
<1>4. DOMAIN f = mixed /\ \A ref \in mixed : f[ref].check \in {"weighted"} BY DEF Result
<1> DEFINE checks == {"weighted"}
<1>5. \A ref \in mixed : f[ref].check \in checks BY <1>4
<1> HIDE DEF results, diagnoses, f, mixed, checks
<1>6. Extends(report, Add(report, {f[ref] : ref \in mixed}, diagnoses), checks)
  BY <1>2, <1>4, <1>5, ImageExtends
<1> QED BY <1>1, <1>3, <1>6 DEF checks

LEMMA ServicesExtend ==
    ASSUME NEW g, NEW list \in Implementation, NEW counts, NEW diagnoses
    PROVE  Extends(report, Add(report, DataplaneResults(g, list, counts), diagnoses), {"services", "dataplane"})
<1> DEFINE checks == {"services", "dataplane"}
<1>1. CASE list.error
  <2>1. DataplaneResults(g, list, counts) = {Result("services", <<g>>, "api-inspection")} BY <1>1 DEF DataplaneResults
  <2>2. "services" \in checks OBVIOUS
  <2> HIDE DEF checks
  <2>3. Extends(report, Add(report, {Result("services", <<g>>, "api-inspection")}, diagnoses), checks)
    BY <2>2, OneExtends
  <2> QED BY <2>1, <2>3 DEF checks
<1>2. CASE ~list.error
  <2> DEFINE D == DOMAIN list.services
             S == {j \in D : counts[j] # "ready"}
             f == [i \in S |-> Result("dataplane", <<g, i>>, IF counts[i] = "error" THEN "api-inspection" ELSE "FAIL")]
  <2>1. DataplaneResults(g, list, counts) = {f[i] : i \in S} BY <1>2 DEF DataplaneResults
  <2>2. IsFiniteSet(S)
    <3>1. list.services \in Seq([name : Nat, ports : Seq(Nat)]) BY DEF Implementation
    <3>2. IsFiniteSet(D)
      <4> DEFINE s == list.services
                 E == [name : Nat, ports : Seq(Nat)]
      <4>1. s \in Seq(E) BY <3>1
      <4> HIDE DEF s, E
      <4>2. IsFiniteSet(DOMAIN s) BY <4>1, SequenceFinite
      <4> QED BY <4>2 DEF s
    <3>3. S \in SUBSET D OBVIOUS
    <3> HIDE DEF S, D
    <3> QED BY <3>2, <3>3, FS_Subset
  <2>3. DOMAIN f = S /\ \A i \in S : f[i].check \in checks BY DEF Result
  <2> HIDE DEF f, S, checks
  <2>4. Extends(report, Add(report, {f[i] : i \in S}, diagnoses), checks) BY <2>2, <2>3, ImageExtends
  <2> QED BY <2>1, <2>4 DEF checks
<1> QED BY <1>1, <1>2


LEMMA DataplaneExtends ==
    ASSUME PathInv, dataplane
    PROVE  Extends(report, report', {"services", "dataplane"})
<1> DEFINE g == PathGateways[at]
           NamesIn(list) == [i \in DOMAIN list.services |-> <<world.gateways[g].namespace, list.services[i].name>>]
           CountsOf(list, read) == [i \in DOMAIN NamesIn(list) |-> Recall(ready, NamesIn(list)[i], read[NamesIn(list)[i]])]
           EmptyOf(list, read) == {i \in DOMAIN CountsOf(list, read) : CountsOf(list, read)[i] = "none"}
<1>1. PICK list \in world.implementation[g] :
         \E read \in [ToSet(NamesIn(list)) -> {"error", "none", "ready"}] :
            report' = Add(report, DataplaneResults(g, list, CountsOf(list, read)),
                          {Diagnosis("dataplane", <<g>>) :
                              x \in IF report.diagnoses = {} THEN EmptyOf(list, read) ELSE {}})
  BY Zenon DEF dataplane
<1>2. PICK counts, empty :
         report' = Add(report, DataplaneResults(g, list, counts),
                       {Diagnosis("dataplane", <<g>>) : x \in IF report.diagnoses = {} THEN empty ELSE {}})
  BY <1>1, Zenon
<1> DEFINE diagnoses == {Diagnosis("dataplane", <<g>>) : x \in IF report.diagnoses = {} THEN empty ELSE {}}
<1>3. report' = Add(report, DataplaneResults(g, list, counts), diagnoses) BY <1>2
<1>4. g \in DOMAIN world.gateways
  <2>1. at \in DOMAIN PathGateways BY DEF dataplane
  <2>2. PathGateways \in Seq(Parents) BY PathRoutesAre
  <2>3. PathGateways[at] \in Parents BY <2>1, <2>2, ElementType
  <2> QED BY <2>3, ScopeParts, LegalCases DEF Legal
<1>5. list \in Implementation
  <2>1. Legal BY LegalCases
  <2> HIDE DEF g
  <2>2. world.implementation[g] \subseteq Implementation BY <1>4, <2>1, ImplementationIs
  <2> QED BY <1>1, <2>2
<1> HIDE DEF g, diagnoses
<1> QED BY <1>3, <1>5, ServicesExtend

LEMMA AddressesFinite ==
    ASSUME PathInv, NEW g \in DOMAIN world.gateways
    PROVE  IsFiniteSet(world.gateways[g].addresses)
BY TrafficAssumption DEF PathInv

LEMMA ProbeExtends ==
    ASSUME PathInv, probe
    PROVE  Extends(report, report', RoundChecks)
<1>1. PICK outside, list, after, more, diagnoses, asked, pods :
         /\ ProbeFinds(outside, list, after, more, diagnoses, asked, pods)
         /\ report' = after.report
  BY ProbeIs
<1> DEFINE results == TriedNow(outside) \cup more
<1>2. report' = Add(report, results, diagnoses) BY <1>1 DEF ProbeFinds, Finds
<1>3. at \in DOMAIN paths BY DEF probe
<1>4. IsFiniteSet(TriedNow(outside))
  <2>1. CASE opts.dial = "invalid"
    <3>1. TriedNow(outside) = {Result("dial", Where, "WARN")} BY <2>1 DEF TriedNow, Skipped
    <3> QED BY <3>1, FS_Singleton
  <2>2. CASE opts.dial # "invalid"
    <3> DEFINE D == DOMAIN outside
               f == [a \in D |-> Result("outside", <<paths[at][1], paths[at][2], a>>, outside[a])]
    <3>1. TriedNow(outside) = {f[a] : a \in D} BY <2>2 DEF TriedNow
    <3>2. D \in SUBSET world.gateways[paths[at][1]].addresses BY <1>1 DEF ProbeFinds, Fresh
    <3>3. paths[at][1] \in DOMAIN world.gateways BY <1>3, PathParts, ScopeParts, LegalCases DEF Legal
    <3>4. DOMAIN f = D OBVIOUS
    <3> HIDE DEF D, f
    <3>5. IsFiniteSet(world.gateways[paths[at][1]].addresses) BY <3>3, AddressesFinite
    <3>6. IsFiniteSet(D) BY <3>2, <3>5, FS_Subset
    <3>7. IsFiniteSet({f[a] : a \in D}) BY <3>4, <3>6, ImageFinite
    <3> QED BY <3>1, <3>7
  <2> QED BY <2>1, <2>2
<1>5. IsFiniteSet(more) /\ \A r \in more : r.check \in RoundChecks
  BY <1>1 DEF ProbeFinds, Finds, InsideChecks, RoundChecks, ProbeChecks
<1>6. \A r \in TriedNow(outside) : r.check \in RoundChecks
  BY DEF TriedNow, Skipped, Result, RoundChecks
<1>7. IsFiniteSet(results) BY <1>4, <1>5, FS_Union
<1>8. \A r \in results : r.check \in RoundChecks BY <1>5, <1>6
<1> HIDE DEF results
<1> QED BY <1>2, <1>7, <1>8 DEF Extends

\* The end: problems of filters, then that something was dropped.
LEMMA FinishIs ==
    ASSUME finishScan
    PROVE  /\ Tells(report, addProblems(report, FilterMisses), FilterChecks)
           /\ report' = Add(addProblems(report, FilterMisses), Truncated(addProblems(report, FilterMisses)), {})
           /\ Extends(addProblems(report, FilterMisses), report', {"limit"})
<1> DEFINE all == addProblems(report, FilterMisses)
<1>1. Tells(report, all, FilterChecks) BY MissesTidy, TidyTells
<1>2. report' = Add(all, Truncated(all), {}) BY DEF finishScan
<1> HIDE DEF all
<1>3. IsFiniteSet(Truncated(all)) BY FS_Singleton, FS_EmptySet DEF Truncated
<1>4. \A r \in Truncated(all) : r.check \in {"limit"} BY DEF Truncated, Result
<1>5. Extends(all, report', {"limit"}) BY <1>2, <1>3, <1>4 DEF Extends
<1> QED BY <1>1, <1>2, <1>5 DEF all

\* What is full stays so, if what is added was not there.
LEMMA ExtendsFull ==
    ASSUME NEW older, NEW newer, NEW checks, \A check \in checks : check \notin ProblemChecks,
           Extends(older, newer, checks), Full(older)
    PROVE  /\ Full(newer) /\ newer.problems = older.problems /\ older.results \subseteq newer.results
           /\ \A r \in newer.results : r \in older.results \/ r.check \in checks
<1>1. PICK results, diagnoses :
         /\ IsFiniteSet(results) /\ \A r \in results : r.check \in checks
         /\ newer = Add(older, results, diagnoses)
  BY DEF Extends
<1>2. \A r \in results : r.check \notin ProblemChecks BY <1>1
<1>3. Full(newer) BY <1>1, <1>2, AddFull
<1>4. newer.problems = older.problems /\ newer.results = older.results \cup results BY <1>1 DEF Add
<1> QED BY <1>1, <1>3, <1>4

LEMMA TellsMore ==
    ASSUME opts \in Option, NEW older, older.problems \in Nat, NEW newer, NEW checks, checks \subseteq ProblemChecks,
           Tells(older, newer, checks), Full(older), \A r \in older.results : r.check \notin checks
    PROVE  /\ Full(newer) /\ newer.problems \in Nat /\ older.results \subseteq newer.results
           /\ \A r \in newer.results : r \in older.results \/ r.check \in checks
<1>1. PICK problems \in Seq(ProblemsOf(checks)) : Apart(problems) /\ newer = addProblems(older, problems) BY DEF Tells
<1>2. ASSUME NEW i \in DOMAIN problems PROVE problems[i].result \notin older.results
  <2>1. problems[i] \in ProblemsOf(checks) BY <1>1, ElementType
  <2>2. problems[i].result.check \in checks BY <2>1 DEF ProblemsOf
  <2> QED BY <2>2
<1>3. Full(newer) BY <1>1, <1>2, TellsFull
<1>4. Adds(older, newer, checks) BY <1>1, AddProblemsAre
<1> QED BY <1>3, <1>4 DEF Adds



-------------------------------------------------------------------------------
(* The problems that are counted are told, up to the limit.                *)

\* The checks that no result has yet.
Ahead(p) ==
    CASE p \in {"options", "cluster", "lists"}    -> ProblemChecks
      [] p = "listeners"                          -> ProblemChecks \ ListNames
      [] p = "select"                             -> ProblemChecks \ (ListNames \cup ListenerChecks)
      [] p = "parents"                            -> RouteChecks \cup {"expected"} \cup BackendChecks \cup FilterChecks
      [] p = "expected"                           -> {"expected"} \cup BackendChecks \cup FilterChecks
      [] p \in {"mirrors", "analyze"}             -> BackendChecks \cup FilterChecks
      [] p \in AfterScan \cup {"scan", "finish"}  -> FilterChecks
      [] OTHER                                    -> {}

CountInv ==
    /\ Full(report)
    /\ \A r \in report.results : r.check \notin Ahead(pc)

\* While paths are scanned, what was said of backends is about those before.
ScanInv ==
    pc = "scan" =>
        /\ at >= 1
        /\ \A r \in report.results : r.check \in BackendChecks => r.about \in AllOf(at)

LEMMA AheadAre ==
    /\ \A p \in {"options", "cluster", "lists"} : Ahead(p) = ProblemChecks
    /\ Ahead("listeners") = ProblemChecks \ ListNames
    /\ Ahead("select") = ProblemChecks \ (ListNames \cup ListenerChecks)
    /\ Ahead("parents") = RouteChecks \cup {"expected"} \cup BackendChecks \cup FilterChecks
    /\ Ahead("expected") = {"expected"} \cup BackendChecks \cup FilterChecks
    /\ \A p \in {"mirrors", "analyze"} : Ahead(p) = BackendChecks \cup FilterChecks
    /\ \A p \in AfterScan \cup {"scan", "finish"} : Ahead(p) = FilterChecks
    /\ \A p \in {"dedupe", "generic", "exit", "done"} : Ahead(p) = {}
BY DEF Ahead, AfterScan

LEMMA AheadIs == ASSUME NEW p PROVE Ahead(p) \subseteq ProblemChecks
<1>1. /\ ProblemChecks \ ListNames \subseteq ProblemChecks
      /\ ProblemChecks \ (ListNames \cup ListenerChecks) \subseteq ProblemChecks
      /\ RouteChecks \cup {"expected"} \cup BackendChecks \cup FilterChecks \subseteq ProblemChecks
      /\ {"expected"} \cup BackendChecks \cup FilterChecks \subseteq ProblemChecks
      /\ BackendChecks \cup FilterChecks \subseteq ProblemChecks
      /\ FilterChecks \subseteq ProblemChecks
  BY DEF ProblemChecks
<1> QED BY <1>1 DEF Ahead

\* The checks of each step are ahead of it, and behind the next one.
LEMMA ChecksApart ==
    /\ ListNames \cap (ListenerChecks \cup Reasons \cup {"redirect", "expected"}
                       \cup RouteChecks \cup BackendChecks \cup FilterChecks) = {}
    /\ ListenerChecks \cap (Reasons \cup {"redirect", "expected"}
                            \cup RouteChecks \cup BackendChecks \cup FilterChecks) = {}
    /\ (Reasons \cup {"redirect"}) \cap FilterChecks = {}
    /\ RouteChecks \cap ({"expected"} \cup BackendChecks \cup FilterChecks) = {}
    /\ {"expected"} \cap (BackendChecks \cup FilterChecks) = {}
    /\ BackendChecks \cap FilterChecks = {}
BY DEF ListNames, ListenerChecks, Reasons, RouteChecks, BackendChecks, FilterChecks

LEMMA SameAhead == Ahead(pc)' = Ahead(pc')
BY DEF Ahead

LEMMA SameFull ==
    ASSUME UNCHANGED input, Full(report')
    PROVE  Full(report)'
BY SameLimit DEF Full, Told, Smaller

\* What is said of no problem, or nothing.
LEMMA CountExtends ==
    ASSUME CountInv, UNCHANGED input, Ahead(pc') \subseteq Ahead(pc),
           NEW checks, \A check \in checks : check \notin ProblemChecks,
           report' = report \/ Extends(report, report', checks)
    PROVE  CountInv'
<1>1. Full(report') /\ \A r \in report'.results : r \in report.results \/ r.check \in checks
  <2>1. CASE report' = report BY <2>1 DEF CountInv
  <2>2. CASE Extends(report, report', checks) BY <2>2, ExtendsFull DEF CountInv
  <2> QED BY <2>1, <2>2
<1>2. Full(report)' BY <1>1, SameFull
<1>3. \A r \in report'.results : r.check \notin Ahead(pc') BY <1>1, AheadIs DEF CountInv
<1> QED BY <1>2, <1>3, SameAhead DEF CountInv

\* Problems that were not told before.
LEMMA CountTells ==
    ASSUME Kept, CountInv, UNCHANGED input, Ahead(pc') \subseteq Ahead(pc),
           NEW checks, checks \subseteq Ahead(pc), checks \cap Ahead(pc') = {},
           report' = report \/ Tells(report, report', checks)
    PROVE  CountInv'
<1>1. opts \in Option /\ report.problems \in Nat BY LegalCases DEF Kept, Legal, ReportTyped
<1>2. checks \subseteq ProblemChecks BY AheadIs
<1>3. \A r \in report.results : r.check \notin checks BY DEF CountInv
<1>4. Full(report') /\ \A r \in report'.results : r \in report.results \/ r.check \in checks
  <2>1. CASE report' = report BY <2>1 DEF CountInv
  <2>2. CASE Tells(report, report', checks)
    <3>1. Full(report) BY DEF CountInv
    <3> QED BY <1>1, <1>2, <1>3, <2>2, <3>1, TellsMore
  <2> QED BY <2>1, <2>2
<1>5. Full(report)' BY <1>4, SameFull
<1>6. \A r \in report'.results : r.check \notin Ahead(pc') BY <1>4 DEF CountInv
<1> QED BY <1>5, <1>6, SameAhead DEF CountInv

LEMMA CountFirst ==
    ASSUME Kept, CountInv, readOptions \/ reachCluster \/ readLists \/ selectRules \/ checkParents \/ checkExpected
    PROVE  CountInv'
<1>0. PathInv /\ world \in World BY LegalCases DEF Kept, Legal
<1>1. CASE readOptions \/ reachCluster
  <2>1. UNCHANGED input /\ pc \in {"options", "cluster"} BY <1>1 DEF readOptions, reachCluster
  <2>2. Ahead(pc') \subseteq Ahead(pc) BY <2>1, AheadAre, AheadIs
  <2>3. report' = report \/ Extends(report, report', OtherChecks) BY <1>1, FirstExtend
  <2> QED BY <2>1, <2>2, <2>3, OthersAreNone, CountExtends
<1>2. CASE readLists
  <2>1. UNCHANGED input /\ pc = "lists" /\ pc' \in {"listeners", "generic"} BY <1>2 DEF readLists
  <2>2. Ahead(pc') \subseteq Ahead(pc) /\ ListNames \subseteq Ahead(pc) /\ ListNames \cap Ahead(pc') = {}
    BY <2>1, AheadAre DEF ProblemChecks
  <2>3. report' = report \/ Tells(report, report', ListNames) BY <1>2, ListsTell
  <2> QED BY <2>1, <2>2, <2>3, CountTells
<1>3. CASE selectRules
  <2>1. UNCHANGED input /\ pc = "select" /\ pc' \in {"parents", "finish"} BY <1>3 DEF selectRules
  <2>2. CASE pc' = "parents"
    <3>1. report' = report BY <1>3, <2>2 DEF selectRules
    <3>2. Ahead(pc') \subseteq Ahead(pc) BY <2>1, <2>2, AheadAre, ChecksApart DEF ProblemChecks
    <3> QED BY <2>1, <3>1, <3>2, OthersAreNone, CountExtends
  <2>3. CASE pc' = "finish"
    <3>1. /\ Ahead(pc') \subseteq Ahead(pc) /\ Reasons \cup {"redirect"} \subseteq Ahead(pc)
          /\ (Reasons \cup {"redirect"}) \cap Ahead(pc') = {}
      BY <2>1, <2>3, AheadAre, ChecksApart DEF ProblemChecks
    <3>2. report' = report \/ Tells(report, report', Reasons \cup {"redirect"}) BY <1>3, SelectTells
    <3> QED BY <2>1, <3>1, <3>2, CountTells
  <2> QED BY <2>1, <2>2, <2>3
<1>4. CASE checkParents
  <2>1. UNCHANGED input /\ pc = "parents" /\ pc' = "expected" BY <1>4 DEF checkParents
  <2>2. Ahead(pc') \subseteq Ahead(pc) /\ RouteChecks \subseteq Ahead(pc) /\ RouteChecks \cap Ahead(pc') = {}
    BY <2>1, AheadAre, ChecksApart
  <2>3. Tells(report, report', RouteChecks) BY <1>0, <1>4, ParentsTell
  <2> QED BY <2>1, <2>2, <2>3, CountTells
<1>5. CASE checkExpected
  <2>1. UNCHANGED input /\ pc = "expected" /\ pc' = "mirrors" BY <1>5 DEF checkExpected
  <2>2. Ahead(pc') \subseteq Ahead(pc) /\ {"expected"} \subseteq Ahead(pc) /\ {"expected"} \cap Ahead(pc') = {}
    BY <2>1, AheadAre, ChecksApart
  <2>3. report' = report \/ Tells(report, report', {"expected"}) BY <1>5, ExpectedTells
  <2> QED BY <2>1, <2>2, <2>3, CountTells
<1> QED BY <1>1, <1>2, <1>3, <1>4, <1>5

LEMMA CountListeners ==
    ASSUME Kept, CountInv, checkListeners
    PROVE  CountInv'
<1>1. world \in World /\ opts \in Option /\ report.problems \in Nat BY LegalCases DEF Kept, Legal, ReportTyped
<1>2. UNCHANGED input /\ pc = "listeners" /\ pc' = "select" BY DEF checkListeners
<1>3. PICK unknown : /\ IsFiniteSet(unknown) /\ \A r \in unknown : r.check = "certificate-kind"
                     /\ Tells(Add(report, unknown, {}), report', ListenerChecks)
  BY <1>1, ListenersTell
<1> DEFINE middle == Add(report, unknown, {})
<1>4. "certificate-kind" \notin ProblemChecks BY OthersAreNone
<1>5. middle.results = report.results \cup unknown /\ middle.problems = report.problems BY DEF Add
<1>6. Full(middle) BY <1>3, <1>4, AddFull DEF CountInv
<1> HIDE DEF middle
<1>7. ListenerChecks \subseteq ProblemChecks \ ListNames BY ChecksApart DEF ProblemChecks
<1>8. Ahead(pc) = ProblemChecks \ ListNames /\ Ahead(pc') = ProblemChecks \ (ListNames \cup ListenerChecks)
  BY <1>2, AheadAre
<1>9. \A r \in middle.results : r.check \notin Ahead(pc) BY <1>3, <1>4, <1>5, AheadIs DEF CountInv
<1>10. \A r \in middle.results : r.check \notin ListenerChecks BY <1>7, <1>8, <1>9
<1>11. Tells(middle, report', ListenerChecks) BY <1>3 DEF middle
<1>12. middle.problems \in Nat /\ ListenerChecks \subseteq ProblemChecks BY <1>1, <1>5, <1>7
<1>13. Full(report') /\ \A r \in report'.results : r \in middle.results \/ r.check \in ListenerChecks
  BY <1>1, <1>6, <1>10, <1>11, <1>12, TellsMore
<1>14. Full(report)' BY <1>2, <1>13, SameFull
<1>15. \A r \in report'.results : r.check \notin Ahead(pc') BY <1>8, <1>9, <1>13
<1> QED BY <1>14, <1>15, SameAhead DEF CountInv


\* Each reference is scanned once, so what is said of it is new.
LEMMA CountScan ==
    ASSUME Kept, CountInv, ScanInv, scan
    PROVE  CountInv' /\ ScanInv'
<1>1. /\ pc = "scan" /\ pc' = "scan" /\ at \in DOMAIN paths /\ at' = at + 1
      /\ UNCHANGED Choice /\ UNCHANGED input
  BY DEF scan, Choice
<1>2. paths \in Seq(Candidates(selected)) /\ PathInv /\ ReportTyped BY DEF Kept, PathInv, Chosen
<1>3. PICK ref : ref = ReferenceOf(paths[at]) OBVIOUS
<1>4. at \in Nat /\ AllOf(at + 1) = AllOf(at) \cup {ref} BY <1>1, <1>2, <1>3, NextPath
<1>5. AllOf(at)' = AllOf(at) \cup {ref} /\ at' >= 1
  <2>1. AllOf(at)' = AllOf(at') BY <1>1 DEF AllOf, Choice, ReferenceOf
  <2> QED BY <1>1, <1>4, <2>1
<1>6. opts \in Option /\ report.problems \in Nat BY <1>2, LegalCases DEF Legal, ReportTyped
<1>7. Ahead(pc') = Ahead(pc) /\ BackendChecks \cap Ahead(pc) = {} BY <1>1, AheadAre, ChecksApart
<1>8. CASE report' = report
  <2>1. CountInv' BY <1>1, <1>7, <1>8, OthersAreNone, CountExtends
  <2>2. ScanInv' BY <1>1, <1>5, <1>8 DEF ScanInv
  <2> QED BY <2>1, <2>2
<1>9. CASE report' # report
  <2>1. ~Reported(at) BY <1>9 DEF scan
  <2>2. ref \notin AllOf(at)
    <3>1. DOMAIN paths = 1..Len(paths) /\ Len(paths) \in Nat BY <1>2
    <3>2. \A j \in 1..(at - 1) : ReferenceOf(paths[j]) # ref BY <1>3, <2>1 DEF Reported
    <3>3. \A j \in DOMAIN paths : j < at => j \in 1..(at - 1) BY <1>1, <3>1
    <3> QED BY <3>2, <3>3 DEF AllOf
  <2>3. PICK found : report' = addProblem(report, BackendProblem(ref, found)) BY <1>3, <1>9 DEF scan
  <2> DEFINE problem == BackendProblem(ref, found)
             problems == <<problem>>
  <2>4. problem \in ProblemsOf(BackendChecks) BY <1>1, <1>2, <1>3, ReferenceParts, BackendProblemType
  <2>5. problem.result.about = ref
    <3>1. \E check, status, diagnosed : problem = Problem(check, ref, status, diagnosed) BY DEF BackendProblem
    <3> HIDE DEF problem
    <3> QED BY <3>1 DEF Problem, Result
  <2>6. report' = addProblems(report, problems) BY <2>3 DEF addProblem
  <2> HIDE DEF problem
  <2>7. problems \in Seq(ProblemsOf(BackendChecks)) BY <2>4
  <2>8. Apart(problems) BY DEF Apart
  <2>9. problem.result.check \in BackendChecks BY <2>4 DEF ProblemsOf
  <2>10. problem.result \notin report.results BY <1>1, <2>2, <2>5, <2>9 DEF ScanInv
  <2>11. \A i \in DOMAIN problems : problems[i].result = problem.result OBVIOUS
  <2> HIDE DEF problems
  <2>12. BackendChecks \subseteq ProblemChecks BY DEF ProblemChecks
  <2>13. \A i \in DOMAIN problems : problems[i].result \notin report.results BY <2>10, <2>11
  <2>14. Full(report) BY DEF CountInv
  <2>15. Full(addProblems(report, problems)) BY <1>6, <2>7, <2>8, <2>12, <2>13, <2>14, TellsFull
  <2>16. report'.results \subseteq report.results \cup {problem.result}
    <3>1. \A r \in report'.results : r \in report.results \/ \E i \in DOMAIN problems : r = problems[i].result
      BY <2>6 DEF addProblems
    <3> QED BY <2>11, <3>1
  <2>17. Full(report)' BY <1>1, <2>6, <2>15, SameFull
  <2>18. CountInv' BY <1>7, <2>9, <2>16, <2>17, SameAhead DEF CountInv
  <2>19. \A r \in report'.results : r.check \in BackendChecks => r.about \in AllOf(at)'
    BY <1>1, <1>5, <2>5, <2>16 DEF ScanInv
  <2>20. ScanInv' BY <1>5, <2>19 DEF ScanInv
  <2> QED BY <2>18, <2>20
<1> QED BY <1>8, <1>9

LEMMA CountLast ==
    ASSUME Kept, CountInv,
           \/ checkMirror \/ mirrorsDone \/ analyze \/ analyzed \/ scanned \/ dataplane \/ dataplaneDone
           \/ probe \/ cannotProbe \/ probesDone \/ conclude
    PROVE  CountInv'
<1>0. PathInv /\ ReportTyped BY DEF Kept
<1> DEFINE checks == OtherChecks \cup {"matched-backends"}
<1>1. \A check \in checks : check \notin ProblemChecks BY OthersAreNone
<1>2. ASSUME NEW some, some \subseteq checks, Extends(report, report', some) PROVE Extends(report, report', checks)
  <2> HIDE DEF checks
  <2> QED BY <1>2 DEF Extends
<1>3. report' = report \/ Extends(report, report', checks)
  <2>1. CASE checkMirror \/ cannotProbe
    <3>1. report' = report \/ Extends(report, report', OtherChecks) BY <2>1, FirstExtend
    <3> QED BY <1>2, <3>1
  <2>2. CASE mirrorsDone \/ analyze \/ analyzed \/ dataplaneDone \/ probesDone
    BY <2>2 DEF mirrorsDone, analyze, analyzed, dataplaneDone, probesDone
  <2>3. CASE scanned
    <3>1. Extends(report, report', {"weighted"}) BY <2>3, ScannedExtends
    <3>2. {"weighted"} \subseteq checks BY DEF OtherChecks
    <3> HIDE DEF checks
    <3> QED BY <1>2, <3>1, <3>2
  <2>4. CASE dataplane
    <3>1. Extends(report, report', {"services", "dataplane"}) BY <1>0, <2>4, DataplaneExtends
    <3>2. {"services", "dataplane"} \subseteq checks BY DEF OtherChecks
    <3> HIDE DEF checks
    <3> QED BY <1>2, <3>1, <3>2
  <2>5. CASE probe
    <3>1. Extends(report, report', RoundChecks) BY <1>0, <2>5, ProbeExtends
    <3>2. RoundChecks \subseteq checks BY DEF OtherChecks
    <3> HIDE DEF checks
    <3> QED BY <1>2, <3>1, <3>2
  <2>6. CASE conclude
    <3>1. report' = report \/ report' = Add(report, {Result("matched-backends", <<>>, "PASS")}, {})
      BY <1>0, <2>6, ConcludeAdds
    <3>2. "matched-backends" \in checks OBVIOUS
    <3> HIDE DEF checks
    <3> QED BY <3>1, <3>2, OneExtends
  <2> QED BY <2>1, <2>2, <2>3, <2>4, <2>5, <2>6
<1>4. UNCHANGED input /\ Ahead(pc') \subseteq Ahead(pc)
  <2>1. CASE checkMirror \/ mirrorsDone \/ analyze
    <3>1. UNCHANGED input /\ pc \in {"mirrors", "analyze"} /\ pc' \in {"mirrors", "analyze"}
      BY <2>1 DEF checkMirror, mirrorsDone, analyze
    <3> QED BY <3>1, AheadAre
  <2>2. CASE analyzed
    <3>1. UNCHANGED input /\ pc = "analyze" /\ pc' = "scan" BY <2>2 DEF analyzed
    <3> QED BY <3>1, AheadAre
  <2>3. CASE scanned \/ dataplane \/ dataplaneDone \/ probe \/ cannotProbe \/ probesDone \/ conclude
    <3>1. UNCHANGED input /\ pc \in AfterScan \cup {"scan", "finish"} /\ pc' \in AfterScan \cup {"scan", "finish"}
      <4>1. CASE dataplane BY <4>1, Zenon DEF dataplane, AfterScan
      <4>2. CASE probe BY <4>2, Zenon DEF probe, AfterScan
      <4>3. CASE scanned BY <4>3 DEF scanned, AfterScan
      <4>4. CASE dataplaneDone \/ cannotProbe \/ probesDone \/ conclude
        BY <4>4 DEF dataplaneDone, cannotProbe, probesDone, conclude, AfterScan
      <4> QED BY <2>3, <4>1, <4>2, <4>3, <4>4
    <3> QED BY <3>1, AheadAre
  <2> QED BY <2>1, <2>2, <2>3
<1> HIDE DEF checks
<1> QED BY <1>1, <1>3, <1>4, CountExtends

LEMMA CountEnd ==
    ASSUME Kept, CountInv, finishScan \/ dedupe \/ generic \/ finish
    PROVE  CountInv'
<1>0. opts \in Option /\ report.problems \in Nat BY LegalCases DEF Kept, Legal, ReportTyped
<1>1. UNCHANGED input /\ pc' \in {"dedupe", "generic", "exit", "done"}
  BY DEF finishScan, dedupe, generic, finish
<1>2. Ahead(pc') = {} BY <1>1, AheadAre
<1>3. Full(report')
  <2>1. CASE finishScan
    <3> DEFINE all == addProblems(report, FilterMisses)
    <3>1. Tells(report, all, FilterChecks) /\ Extends(all, report', {"limit"}) BY <2>1, FinishIs
    <3>2. pc = "finish" BY <2>1 DEF finishScan
    <3>3. \A r \in report.results : r.check \notin FilterChecks BY <3>2, AheadAre DEF CountInv
    <3>4. FilterChecks \subseteq ProblemChecks BY DEF ProblemChecks
    <3>5. Full(report) BY DEF CountInv
    <3>6. \A check \in {"limit"} : check \notin ProblemChecks BY OthersAreNone
    <3> HIDE DEF all
    <3>7. Full(all) BY <1>0, <3>1, <3>3, <3>4, <3>5, TellsMore
    <3> DEFINE checks == {"limit"}
    <3>8. Extends(all, report', checks) /\ \A check \in checks : check \notin ProblemChecks BY <3>1, <3>6
    <3> HIDE DEF checks
    <3> QED BY <3>7, <3>8, ExtendsFull
  <2>2. CASE dedupe \/ finish
    <3>1. report'.results = report.results /\ report'.problems = report.problems
      <4>1. CASE dedupe BY <4>1, DedupeKeepsResults DEF Kept
      <4>2. CASE finish BY <4>2 DEF finish
      <4> QED BY <2>2, <4>1, <4>2
    <3> QED BY <3>1 DEF CountInv, Full
  <2>3. CASE generic
    <3>1. report'.results = report.results /\ report'.problems = report.problems BY <2>3 DEF generic, Add
    <3> QED BY <3>1 DEF CountInv, Full
  <2> QED BY <2>1, <2>2, <2>3
<1>4. Full(report)' BY <1>1, <1>3, SameFull
<1> QED BY <1>2, <1>4, SameAhead DEF CountInv


LEMMA CountStutter ==
    ASSUME CountInv, ScanInv, UNCHANGED vars
    PROVE  CountInv' /\ ScanInv'
<1>1. UNCHANGED <<pc, at, report>> /\ UNCHANGED Choice /\ UNCHANGED input BY DEF vars, Choice
<1>2. CountInv' BY <1>1, OthersAreNone, CountExtends
<1>3. AllOf(at)' = AllOf(at) BY <1>1 DEF AllOf, Choice, ReferenceOf
<1>4. ScanInv' BY <1>1, <1>3 DEF ScanInv
<1> QED BY <1>2, <1>4

LEMMA CountStep == Kept /\ CountInv /\ ScanInv /\ [Next]_vars => CountInv'
<1> SUFFICES ASSUME Kept, CountInv, ScanInv, [Next]_vars PROVE CountInv' OBVIOUS
<1> QED BY CountFirst, CountListeners, CountScan, CountLast, CountEnd, CountStutter DEF Next

LEMMA ScanStep == Kept /\ CountInv /\ ScanInv /\ [Next]_vars => ScanInv'
<1> SUFFICES ASSUME Kept, CountInv, ScanInv, [Next]_vars, pc' = "scan" PROVE ScanInv' BY DEF ScanInv
<1>1. CASE scan BY <1>1, CountScan
<1>2. CASE analyzed
  <2>1. pc = "analyze" /\ at' = 1 /\ UNCHANGED report BY <1>2 DEF analyzed
  <2>2. \A r \in report.results : r.check \notin BackendChecks BY <2>1, AheadAre DEF CountInv
  <2> QED BY <2>1, <2>2 DEF ScanInv
<1>3. CASE UNCHANGED vars BY <1>3, CountStutter
<1>4. CASE ~(scan \/ analyzed \/ UNCHANGED vars)
  <2>1. ~dataplane /\ ~probe
    <3>1. dataplane => pc' = "dataplane" BY Zenon DEF dataplane
    <3>2. probe => pc' = "probe" BY Zenon DEF probe
    <3> QED BY <3>1, <3>2
  <2> QED BY <1>4, <2>1
      DEF Next, readOptions, reachCluster, readLists, checkListeners, selectRules, checkParents, checkExpected,
          checkMirror, mirrorsDone, analyze, scanned, dataplaneDone, cannotProbe, probesDone,
          conclude, finishScan, dedupe, generic, finish
<1> QED BY <1>1, <1>2, <1>3, <1>4


-------------------------------------------------------------------------------
(* That problems were dropped is said, and of a success only a few were.   *)

Ended == {"dedupe", "generic", "exit", "done"}

LimitInv ==
    pc \in Ended /\ report.problems > Limit => Result("limit", <<>>, "output-limited") \in report.results

SuccessInv ==
    Said("matched-backends") =>
        pc \in AtEnd /\ report.problems = IF pc = "finish" THEN 0 ELSE Len(FilterMisses)

LEMMA NothingTold ==
    ASSUME opts \in Option, NEW sofar, sofar.problems \in Nat, Full(sofar), Told(sofar.results) = {}
    PROVE  sofar.problems = 0
<1>1. Smaller(sofar.problems, Limit) = 0 BY FS_EmptySet DEF Full
<1> QED BY <1>1, LimitIs DEF Smaller

LEMMA SameMisses ==
    ASSUME UNCHANGED Choice
    PROVE  FilterMisses' = FilterMisses
<1>1. RouteScope' = RouteScope BY SameRequest DEF Choice
<1>2. InNamespace(Scope("Gateway"))' = InNamespace(Scope("Gateway"))
  BY DEF Choice, input, InNamespace, Scope, Outcome, Listed
<1> QED BY <1>1, <1>2 DEF FilterMisses, Choice, input

LEMMA LimitStep == Kept /\ CountInv /\ LimitInv /\ [Next]_vars => LimitInv'
<1> SUFFICES ASSUME Kept, CountInv, LimitInv, [Next]_vars, pc' \in Ended, (report.problems > Limit)'
             PROVE  Result("limit", <<>>, "output-limited") \in report'.results
  BY DEF LimitInv
<1>0. opts \in Option /\ report.problems \in Nat /\ Limit \in Nat
  BY LegalCases, LimitIs DEF Kept, Legal, ReportTyped
<1>1. CASE finishScan
  <2> DEFINE all == addProblems(report, FilterMisses)
  <2>1. report' = Add(all, Truncated(all), {}) BY <1>1 DEF finishScan
  <2> HIDE DEF all
  <2>2. report'.problems = all.problems /\ Truncated(all) \subseteq report'.results BY <2>1 DEF Add
  <2>3. Limit' = Limit
    <3>1. UNCHANGED input BY <1>1 DEF finishScan
    <3> QED BY <3>1, SameLimit
  <2>4. all.problems > Limit BY <2>2, <2>3
  <2>5. Result("limit", <<>>, "output-limited") \in Truncated(all) BY <2>4 DEF Truncated
  <2> QED BY <2>2, <2>5
<1>2. CASE dedupe \/ generic \/ finish \/ UNCHANGED vars
  <2>1. /\ report'.results = report.results /\ report'.problems = report.problems /\ UNCHANGED input
        /\ pc \in Ended
    <3>1. CASE dedupe
      <4>1. report'.results = report.results /\ report'.problems = report.problems
        BY <3>1, DedupeKeepsResults DEF Kept
      <4>2. UNCHANGED input /\ pc = "dedupe" BY <3>1 DEF dedupe
      <4> QED BY <4>1, <4>2 DEF Ended
    <3>2. CASE generic BY <3>2 DEF generic, Add, Ended
    <3>3. CASE finish BY <3>3 DEF finish, Ended
    <3>4. CASE UNCHANGED vars BY <3>4 DEF vars
    <3> QED BY <1>2, <3>1, <3>2, <3>3, <3>4
  <2>2. report.problems > Limit BY <2>1, SameLimit
  <2> QED BY <2>1, <2>2 DEF LimitInv
<1>3. CASE readOptions \/ reachCluster \/ readLists
  <2>1. pc \in {"options", "cluster", "lists"} /\ UNCHANGED input /\ report'.problems = report.problems
    <3>1. CASE readOptions BY <1>3, <3>1 DEF readOptions, Add
    <3>2. CASE reachCluster BY <1>3, <3>2 DEF reachCluster, Add
    <3>3. CASE readLists
      <4>1. pc = "lists" /\ UNCHANGED input /\ pc' \in {"generic", "listeners"} BY <3>3 DEF readLists
      <4>2. pc' = "generic" BY <4>1 DEF Ended
      <4>3. report' = report BY <3>3, <4>2 DEF readLists
      <4> QED BY <4>1, <4>3
    <3> QED BY <1>3, <3>1, <3>2, <3>3
  <2>2. Told(report.results) = {} BY <2>1, AheadAre DEF CountInv, Told
  <2>3. Full(report) BY DEF CountInv
  <2>4. report.problems = 0 BY <1>0, <2>2, <2>3, NothingTold
  <2>5. Limit' = Limit BY <2>1, SameLimit
  <2> QED BY <1>0, <2>1, <2>4, <2>5
<1>4. CASE ~(finishScan \/ dedupe \/ generic \/ finish \/ UNCHANGED vars \/ readOptions \/ reachCluster \/ readLists)
  <2>1. ~dataplane /\ ~probe
    <3>1. dataplane => pc' = "dataplane" BY Zenon DEF dataplane
    <3>2. probe => pc' = "probe" BY Zenon DEF probe
    <3>3. "dataplane" \notin Ended /\ "probe" \notin Ended BY DEF Ended
    <3> QED BY <3>1, <3>2, <3>3
  <2> QED BY <1>4, <2>1
      DEF Next, checkListeners, selectRules, checkParents, checkExpected, checkMirror, mirrorsDone,
          analyze, analyzed, scan, scanned, dataplaneDone, cannotProbe, probesDone, conclude, Ended
<1> QED BY <1>1, <1>2, <1>3, <1>4


\* Before the end nothing but the last look at the report says of a success.
LEMMA SuccessNotYet ==
    ASSUME Kept,
           \/ readOptions \/ reachCluster \/ readLists \/ checkListeners \/ selectRules \/ checkParents
           \/ checkExpected \/ checkMirror \/ mirrorsDone \/ analyze \/ analyzed \/ scan \/ scanned
           \/ dataplane \/ dataplaneDone \/ probe \/ cannotProbe \/ probesDone
    PROVE  /\ Said("matched-backends")' => Said("matched-backends")
           /\ pc \notin AtEnd
<1>0. PathInv /\ ReportTyped /\ opts \in Option BY LegalCases DEF Kept, Legal
<1>1. \E checks : Adds(report, report', checks) /\ "matched-backends" \notin checks
  <2>1. CASE selectRules
    <3>1. Adds(report, report', Reasons \cup {"redirect"}) BY <1>0, <2>1, SelectAdds
    <3>2. "matched-backends" \notin Reasons \cup {"redirect"} BY DEF Reasons
    <3> QED BY <3>1, <3>2
  <2>2. CASE scan
    <3>1. Adds(report, report', BackendChecks) BY <1>0, <2>2, ScanAdds
    <3>2. "matched-backends" \notin BackendChecks BY DEF BackendChecks
    <3> QED BY <3>1, <3>2
  <2>3. CASE scanned
    <3>1. Adds(report, report', {"weighted"}) BY <1>0, <2>3, ScannedAdds
    <3> QED BY <3>1
  <2>4. CASE probe
    <3>1. Adds(report, report', RoundChecks) BY <1>0, <2>4, ProbeAdds
    <3>2. "matched-backends" \notin RoundChecks BY DEF RoundChecks, ProbeChecks
    <3> QED BY <3>1, <3>2
  <2>5. CASE \/ readOptions \/ reachCluster \/ readLists \/ checkListeners \/ checkParents \/ checkExpected
             \/ checkMirror \/ mirrorsDone \/ analyze \/ analyzed \/ dataplane \/ dataplaneDone
             \/ cannotProbe \/ probesDone
    <3>1. Adds(report, report', PlainChecks) BY <1>0, <2>5, PlainAdds
    <3>2. "matched-backends" \notin PlainChecks BY PlainIsNotSpecial DEF SpecialChecks
    <3> QED BY <3>1, <3>2
  <2> QED BY <2>1, <2>2, <2>3, <2>4, <2>5
<1>2. Said("matched-backends")' => Said("matched-backends") BY <1>1, NotSaidYet
<1>3. pc \notin AtEnd
  <2>1. CASE dataplane \/ probe
    <3>1. dataplane => pc = "dataplane" BY Zenon DEF dataplane
    <3>2. probe => pc = "probe" BY Zenon DEF probe
    <3> QED BY <2>1, <3>1, <3>2 DEF AtEnd
  <2>2. CASE ~(dataplane \/ probe)
    BY <2>2 DEF readOptions, reachCluster, readLists, checkListeners, selectRules, checkParents, checkExpected,
                checkMirror, mirrorsDone, analyze, analyzed, scan, scanned, dataplaneDone, cannotProbe, probesDone,
                AtEnd
  <2> QED BY <2>1, <2>2
<1> QED BY <1>2, <1>3

LEMMA SuccessStep == Kept /\ CountInv /\ SuccessInv /\ [Next]_vars => SuccessInv'
<1> SUFFICES ASSUME Kept, CountInv, SuccessInv, [Next]_vars, Said("matched-backends")'
             PROVE  (pc \in AtEnd /\ report.problems = IF pc = "finish" THEN 0 ELSE Len(FilterMisses))'
  BY DEF SuccessInv
<1>0. opts \in Option /\ report.problems \in Nat /\ ReportTyped BY LegalCases DEF Kept, Legal, ReportTyped
<1>1. CASE conclude
  <2>1. pc = "conclude" /\ pc' = "finish" BY <1>1 DEF conclude
  <2>2. ~Said("matched-backends") BY <2>1 DEF SuccessInv, AtEnd
  <2>3. report' # report BY <2>2 DEF Said
  <2>4. report'.problems = report.problems /\ ~Alarmed(report.results)
    BY <1>0, <1>1, <2>3, ConcludeAdds DEF Add
  <2>5. Full(report) BY DEF CountInv
  <2>6. Told(report.results) = {} BY <2>4, <2>5 DEF Full, Alarmed, Told
  <2>7. report.problems = 0 BY <1>0, <2>5, <2>6, NothingTold
  <2> QED BY <2>1, <2>4, <2>7 DEF AtEnd
<1>2. CASE finishScan
  <2>1. pc = "finish" /\ pc' = "dedupe" /\ UNCHANGED Choice BY <1>2 DEF finishScan, Choice
  <2>2. Adds(report, report', EndChecks) BY <1>0, <1>2, FinishAdds
  <2>3. "matched-backends" \notin EndChecks BY DEF EndChecks, FilterChecks
  <2>4. report.problems = 0 BY <2>1, <2>2, <2>3, NotSaidYet DEF SuccessInv
  <2> DEFINE all == addProblems(report, FilterMisses)
  <2>5. report' = Add(all, Truncated(all), {}) BY <1>2 DEF finishScan
  <2>6. all.problems = report.problems + Len(FilterMisses) BY DEF addProblems
  <2>7. Len(FilterMisses) \in Nat BY MissesAre
  <2> HIDE DEF all
  <2>8. report'.problems = Len(FilterMisses) BY <2>4, <2>5, <2>6, <2>7 DEF Add
  <2>9. FilterMisses' = FilterMisses BY <2>1, SameMisses
  <2> QED BY <2>1, <2>8, <2>9 DEF AtEnd
<1>3. CASE dedupe \/ generic \/ finish \/ UNCHANGED vars
  <2>1. /\ report'.results = report.results /\ report'.problems = report.problems /\ UNCHANGED Choice
        /\ pc' = pc \/ {pc, pc'} \subseteq Ended
    <3>1. CASE dedupe
      <4>1. report'.results = report.results /\ report'.problems = report.problems
        BY <3>1, DedupeKeepsResults DEF Kept
      <4>2. UNCHANGED Choice /\ pc = "dedupe" /\ pc' = "generic" BY <3>1 DEF dedupe, Choice
      <4> QED BY <4>1, <4>2 DEF Ended
    <3>2. CASE generic BY <3>2 DEF generic, Add, Ended, Choice
    <3>3. CASE finish BY <3>3 DEF finish, Ended, Choice
    <3>4. CASE UNCHANGED vars BY <3>4 DEF vars, Choice
    <3> QED BY <1>3, <3>1, <3>2, <3>3, <3>4
  <2>2. Said("matched-backends") BY <2>1 DEF Said
  <2>3. FilterMisses' = FilterMisses BY <2>1, SameMisses
  <2>4. Ended \subseteq AtEnd /\ "finish" \notin Ended BY DEF Ended, AtEnd
  <2> QED BY <2>1, <2>2, <2>3, <2>4 DEF SuccessInv
<1>4. CASE ~(conclude \/ finishScan \/ dedupe \/ generic \/ finish \/ UNCHANGED vars)
  <2>1. Said("matched-backends") /\ pc \notin AtEnd BY <1>4, SuccessNotYet DEF Next
  <2> QED BY <2>1 DEF SuccessInv
<1> QED BY <1>1, <1>2, <1>3, <1>4

DropInv == CountInv /\ ScanInv /\ LimitInv /\ SuccessInv

LEMMA InitDrop == Init => DropInv
<1> SUFFICES ASSUME Init PROVE DropInv OBVIOUS
<1>1. pc = "options" /\ report.results = {} /\ report.problems = 0 BY DEF Init
<1>2. Told(report.results) = {} BY <1>1 DEF Told
<1>3. opts \in Option
  <2>1. Kept BY InitKept
  <2> QED BY <2>1, LegalCases DEF Kept, Legal
<1>4. Smaller(report.problems, Limit) = 0 BY <1>1, <1>3, LimitIs DEF Smaller
<1>5. IsFiniteSet(report.results) /\ Cardinality(Told(report.results)) = 0 BY <1>1, <1>2, FS_EmptySet
<1>6. CountInv BY <1>1, <1>2, <1>4, <1>5 DEF CountInv, Full
<1>7. ScanInv BY <1>1 DEF ScanInv
<1>8. LimitInv BY <1>1 DEF LimitInv, Ended
<1>9. SuccessInv BY <1>1 DEF SuccessInv, Said
<1> QED BY <1>6, <1>7, <1>8, <1>9 DEF DropInv

LEMMA DropTold == Kept /\ DropInv => DroppedIsTold
<1> SUFFICES ASSUME Kept, DropInv, pc = "done", report.problems > Limit
             PROVE  /\ Said("limit")
                    /\ Said("matched-backends") => report.problems = Len(FilterMisses)
                    /\ Cardinality({r \in report.results : r.status # "PASS"}) > Limit
  BY DEF DroppedIsTold
<1> DEFINE limited == Result("limit", <<>>, "output-limited")
           T == Told(report.results)
           A == {r \in report.results : r.status # "PASS"}
<1>1. Limit \in Nat /\ report.problems \in Nat BY LegalCases, LimitIs DEF Kept, Legal, ReportTyped
<1>2. limited \in report.results BY DEF DropInv, LimitInv, Ended
<1>3. limited.check = "limit" /\ limited.status # "PASS" BY DEF Result
<1>4. limited \notin T BY <1>3, OthersAreNone DEF Told
<1>5. Full(report) BY DEF DropInv, CountInv
<1>6. Cardinality(T) = Limit BY <1>1, <1>5 DEF Full, Smaller
<1> HIDE DEF limited
<1>7. T \cup {limited} \in SUBSET A BY <1>2, <1>3, <1>5 DEF Full, Told
<1>8. T \in SUBSET report.results /\ A \in SUBSET report.results /\ IsFiniteSet(report.results)
  BY <1>5 DEF Full, Told
<1> HIDE DEF T, A
<1>9. IsFiniteSet(T) /\ IsFiniteSet(A) BY <1>8, FS_Subset
<1>10. Cardinality(T \cup {limited}) = Limit + 1 BY <1>4, <1>6, <1>9, FS_AddElement
<1>11. Cardinality(T \cup {limited}) <= Cardinality(A) BY <1>7, <1>9, FS_Subset
<1>12. Cardinality(A) \in Nat BY <1>9, FS_CardinalityType
<1>13. Cardinality(A) > Limit BY <1>1, <1>10, <1>11, <1>12
<1>14. Said("limit") BY <1>2, <1>3 DEF Said
<1>15. Said("matched-backends") => report.problems = Len(FilterMisses) BY DEF DropInv, SuccessInv
<1> QED BY <1>13, <1>14, <1>15 DEF A

(***************************************************************************)
(* What --limit drops is told, and was preceded by as many problems as     *)
(* were asked for: no problem is told twice, so none of those counted is   *)
(* lost before the limit.  Of a success only filters that matched nothing  *)
(* are dropped (gateway.go:409-426, 435-460).                              *)
(***************************************************************************)
THEOREM DroppedTold == Spec => []DroppedIsTold
<1>1. Kept /\ DropInv /\ [Next]_vars => DropInv' BY CountStep, ScanStep, LimitStep, SuccessStep DEF DropInv
<1>2. Spec => []Kept BY AlwaysKept
<1>3. Init => DropInv BY InitDrop
<1>4. Kept /\ DropInv => DroppedIsTold BY DropTold
<1> QED BY <1>1, <1>2, <1>3, <1>4, PTL DEF Spec


-------------------------------------------------------------------------------
(* Why nothing serves a request.                                           *)

\* An entry of a route is one of its matches, and the routes in scope are all.
LEMMA EntriesAre ==
    ASSUME NEW routes, NEW r
    PROVE  MatchesIn(routes, r) = EntriesOf(routes[r])
BY DEF MatchesIn, EntriesOf

\* A part of a match holds if the code finds that part to match.
LEMMA PartsHold ==
    ASSUME intent \in Intent, NEW k, Plainly(k)
    PROVE  /\ intent.family = "HTTPRoute" =>
                 /\ API!Holds([AnyMatch EXCEPT !.path = k.path], intent) <=> PathMatches(k, intent.path)
                 /\ API!Holds([AnyMatch EXCEPT !.method = k.method], intent) <=> MethodMatches(k, intent.method)
                 /\ API!Holds([AnyMatch EXCEPT !.headers = k.headers], intent) <=> HeadersMatch(k, intent.headers)
                 /\ API!Holds([AnyMatch EXCEPT !.params = k.params], intent) <=> ParamsMatch(k, intent.params)
           /\ intent.family = "GRPCRoute" =>
                 /\ API!Holds([AnyMatch EXCEPT !.service = k.service], intent) <=> ServiceMatches(k, intent.service)
                 /\ API!Holds([AnyMatch EXCEPT !.service = k.service, !.call = k.call], intent) <=> CallMatches(k, intent)
                 /\ API!Holds([AnyMatch EXCEPT !.headers = k.headers], intent) <=> HeadersMatch(k, intent.headers)
<1> DEFINE ofPath == [AnyMatch EXCEPT !.path = k.path]
           ofMethod == [AnyMatch EXCEPT !.method = k.method]
           ofHeaders == [AnyMatch EXCEPT !.headers = k.headers]
           ofParams == [AnyMatch EXCEPT !.params = k.params]
           ofService == [AnyMatch EXCEPT !.service = k.service]
           ofCall == [AnyMatch EXCEPT !.service = k.service, !.call = k.call]
<1>1. AnyMatch \in Match BY DEF AnyMatch, Match
<1>2. k \in Match BY DEF Plainly
<1>3. /\ Plainly(ofPath) /\ Plainly(ofMethod) /\ Plainly(ofHeaders)
      /\ Plainly(ofParams) /\ Plainly(ofService) /\ Plainly(ofCall)
  BY <1>1, <1>2 DEF Plainly, Match, AnyMatch
<1>4. /\ ofPath = [path |-> k.path, method |-> None, headers |-> {}, params |-> {}, type |-> "Exact",
                 service |-> None, call |-> None]
      /\ ofMethod = [path |-> None, method |-> k.method, headers |-> {}, params |-> {}, type |-> "Exact",
                 service |-> None, call |-> None]
      /\ ofHeaders = [path |-> None, method |-> None, headers |-> k.headers, params |-> {}, type |-> "Exact",
                 service |-> None, call |-> None]
      /\ ofParams = [path |-> None, method |-> None, headers |-> {}, params |-> k.params, type |-> "Exact",
                 service |-> None, call |-> None]
      /\ ofService = [path |-> None, method |-> None, headers |-> {}, params |-> {}, type |-> "Exact",
                 service |-> k.service, call |-> None]
      /\ ofCall = [path |-> None, method |-> None, headers |-> {}, params |-> {}, type |-> "Exact",
                 service |-> k.service, call |-> k.call]
  <2>1. ofPath = [path |-> k.path, method |-> None, headers |-> {}, params |-> {}, type |-> "Exact",
                 service |-> None, call |-> None]
    BY DEF AnyMatch
  <2>2. ofMethod = [path |-> None, method |-> k.method, headers |-> {}, params |-> {}, type |-> "Exact",
                 service |-> None, call |-> None]
    BY DEF AnyMatch
  <2>3. ofHeaders = [path |-> None, method |-> None, headers |-> k.headers, params |-> {}, type |-> "Exact",
                 service |-> None, call |-> None]
    BY DEF AnyMatch
  <2>4. ofParams = [path |-> None, method |-> None, headers |-> {}, params |-> k.params, type |-> "Exact",
                 service |-> None, call |-> None]
    BY DEF AnyMatch
  <2>5. ofService = [path |-> None, method |-> None, headers |-> {}, params |-> {}, type |-> "Exact",
                 service |-> k.service, call |-> None]
    BY DEF AnyMatch
  <2>6. ofCall = [path |-> None, method |-> None, headers |-> {}, params |-> {}, type |-> "Exact",
                 service |-> k.service, call |-> k.call]
    <3> DEFINE x == [path |-> None, method |-> None, headers |-> {}, params |-> {}, type |-> "Exact",
                 service |-> k.service, call |-> None]
    <3>1. ofCall = [ofService EXCEPT !.call = k.call]
      OBVIOUS
    <3>2. ofCall = [x EXCEPT !.call = k.call]
      BY <2>5, <3>1
    <3> QED BY <3>2
  <2> QED BY <2>1, <2>2, <2>3, <2>4, <2>5, <2>6
<1> HIDE DEF ofPath, ofMethod, ofHeaders, ofParams, ofService, ofCall
<1>5. \A part \in {ofPath, ofMethod, ofHeaders, ofParams, ofService, ofCall} :
         SingleMatch(part, intent) <=> API!Holds(part, intent)
  BY <1>3, FitsHold
<1>6. ASSUME intent.family = "HTTPRoute"
      PROVE  /\ SingleMatch(ofPath, intent) <=> PathMatches(k, intent.path)
             /\ SingleMatch(ofMethod, intent) <=> MethodMatches(k, intent.method)
             /\ SingleMatch(ofHeaders, intent) <=> HeadersMatch(k, intent.headers)
             /\ SingleMatch(ofParams, intent) <=> ParamsMatch(k, intent.params)
  BY <1>4, <1>6 DEF SingleMatch, HTTPMatches, PathMatches, MethodMatches, HeadersMatch, ParamsMatch
<1>8. k.type = "Exact" BY DEF Plainly
<1>9. NameMatches(k.type, None, intent.call) BY DEF NameMatches
<1>7. ASSUME intent.family = "GRPCRoute"
      PROVE  /\ SingleMatch(ofService, intent) <=> ServiceMatches(k, intent.service)
             /\ SingleMatch(ofCall, intent) <=> CallMatches(k, intent)
             /\ SingleMatch(ofHeaders, intent) <=> HeadersMatch(k, intent.headers)
  BY <1>4, <1>7, <1>8, <1>9 DEF SingleMatch, GRPCMatches, CallMatches, ServiceMatches, NameMatches, HeadersMatch
<1> QED BY <1>5, <1>6, <1>7 DEF ofPath, ofMethod, ofHeaders, ofParams, ofService, ofCall


\* Where the routes of an HTTP request are lost.
LEMMA HTTPReasonIs ==
    ASSUME NEW routes, NEW among
    PROVE  LET reason == HTTPReason(routes, among, intent)
               In(r) == MatchesIn(routes, r)
               Opens(r) == \E k \in In(r) : PathMatches(k, intent.path)
               By(r) == \E k \in In(r) : MethodMatches(k, intent.method)
               With(r) == \E k \in In(r) : HeadersMatch(k, intent.headers)
               And(r) == \E k \in In(r) : ParamsMatch(k, intent.params)
           IN  /\ reason \in {"path", "method", "headers", "params", "backend"}
               /\ reason = "path" => \A r \in among : ~Opens(r)
               /\ reason = "method" => (\A r \in among : ~(Opens(r) /\ By(r))) /\ \E r \in among : Opens(r)
               /\ reason = "headers" => (\A r \in among : ~(Opens(r) /\ By(r) /\ With(r))) /\ \E r \in among : Opens(r) /\ By(r)
               /\ reason = "params" => /\ \A r \in among : ~(Opens(r) /\ By(r) /\ With(r) /\ And(r))
                                       /\ \E r \in among : Opens(r) /\ By(r) /\ With(r)
               /\ reason = "backend" => \E r \in among : Opens(r) /\ By(r) /\ With(r) /\ And(r)
<1> DEFINE reason == HTTPReason(routes, among, intent)
           In(r) == MatchesIn(routes, r)
           Opens(r) == \E k \in In(r) : PathMatches(k, intent.path)
           By(r) == \E k \in In(r) : MethodMatches(k, intent.method)
           With(r) == \E k \in In(r) : HeadersMatch(k, intent.headers)
           And(r) == \E k \in In(r) : ParamsMatch(k, intent.params)
           all == MatchesAmong(routes, among)
           ofPath == {match \in all : PathMatches(match, intent.path)}
           ofMethod == {match \in all : MethodMatches(match, intent.method)}
           ofHeaders == {match \in all : HeadersMatch(match, intent.headers)}
           ofParams == {match \in all : ParamsMatch(match, intent.params)}
           pathRoutes == SomeMatch(routes, among, ofPath)
           methodRoutes == SomeMatch(routes, pathRoutes, ofMethod)
           headerRoutes == SomeMatch(routes, methodRoutes, ofHeaders)
           paramRoutes == SomeMatch(routes, headerRoutes, ofParams)
<1>1. \A r \in among : \A k \in In(r) : k \in all BY DEF MatchesAmong
<1>2. \A from, accepted : SomeMatch(routes, from, accepted) = {r \in from : \E k \in In(r) : k \in accepted}
  BY DEF SomeMatch
<1> HIDE DEF all, In
<1>3. pathRoutes = {r \in among : Opens(r)} BY <1>1, <1>2
<1>4. methodRoutes = {r \in among : Opens(r) /\ By(r)}
  <2> HIDE DEF pathRoutes, Opens
  <2> QED BY <1>1, <1>2, <1>3
<1>5. headerRoutes = {r \in among : Opens(r) /\ By(r) /\ With(r)}
  <2> HIDE DEF methodRoutes, Opens, By
  <2> QED BY <1>1, <1>2, <1>4
<1>6. paramRoutes = {r \in among : Opens(r) /\ By(r) /\ With(r) /\ And(r)}
  <2> HIDE DEF headerRoutes, Opens, By, With
  <2> QED BY <1>1, <1>2, <1>5
<1>7. reason = CASE pathRoutes = {} -> "path"
                 [] pathRoutes # {} /\ methodRoutes = {} -> "method"
                 [] methodRoutes # {} /\ headerRoutes = {} -> "headers"
                 [] headerRoutes # {} /\ paramRoutes = {} -> "params"
                 [] OTHER -> "backend"
  BY DEF HTTPReason, all
<1> HIDE DEF reason, Opens, By, With, And, pathRoutes, methodRoutes, headerRoutes, paramRoutes
<1>8. methodRoutes \subseteq pathRoutes /\ headerRoutes \subseteq methodRoutes /\ paramRoutes \subseteq headerRoutes
  BY <1>3, <1>4, <1>5, <1>6
<1>9. \/ reason = "path" /\ pathRoutes = {}
      \/ reason = "method" /\ pathRoutes # {} /\ methodRoutes = {}
      \/ reason = "headers" /\ methodRoutes # {} /\ headerRoutes = {}
      \/ reason = "params" /\ headerRoutes # {} /\ paramRoutes = {}
      \/ reason = "backend" /\ paramRoutes # {}
  BY <1>7, <1>8
<1>10. CASE reason = "path" /\ pathRoutes = {}
  BY <1>3, <1>10 DEF reason, Opens, By, With, And, In
<1>11. CASE reason = "method" /\ pathRoutes # {} /\ methodRoutes = {}
  BY <1>3, <1>4, <1>11 DEF reason, Opens, By, With, And, In
<1>12. CASE reason = "headers" /\ methodRoutes # {} /\ headerRoutes = {}
  BY <1>4, <1>5, <1>12 DEF reason, Opens, By, With, And, In
<1>13. CASE reason = "params" /\ headerRoutes # {} /\ paramRoutes = {}
  BY <1>5, <1>6, <1>13 DEF reason, Opens, By, With, And, In
<1>14. CASE reason = "backend" /\ paramRoutes # {}
  BY <1>6, <1>14 DEF reason, Opens, By, With, And, In
<1> QED BY <1>9, <1>10, <1>11, <1>12, <1>13, <1>14

\* Where those of a gRPC request are.
LEMMA GRPCReasonIs ==
    ASSUME NEW routes, NEW among
    PROVE  LET reason == GRPCReason(routes, among, intent)
               In(r) == MatchesIn(routes, r)
               Opens(r) == \E k \in In(r) : ServiceMatches(k, intent.service)
               By(r) == \E k \in In(r) : CallMatches(k, intent)
               With(r) == \E k \in In(r) : GRPCMatches(k, intent)
           IN  /\ reason \in {"service", "call", "headers", "backend"}
               /\ reason = "service" => \A r \in among : ~Opens(r)
               /\ reason = "call" => (\A r \in among : ~By(r)) /\ \E r \in among : Opens(r)
               /\ reason = "headers" => (\A r \in among : ~With(r)) /\ \E r \in among : By(r)
               /\ reason = "backend" => \E r \in among : With(r)
<1> DEFINE reason == GRPCReason(routes, among, intent)
           In(r) == MatchesIn(routes, r)
           Opens(r) == \E k \in In(r) : ServiceMatches(k, intent.service)
           By(r) == \E k \in In(r) : CallMatches(k, intent)
           With(r) == \E k \in In(r) : GRPCMatches(k, intent)
           all == MatchesAmong(routes, among)
           ofService == {match \in all : ServiceMatches(match, intent.service)}
           ofCall == {match \in all : CallMatches(match, intent)}
           ofHeaders == {match \in all : GRPCMatches(match, intent)}
           serviceRoutes == SomeMatch(routes, among, ofService)
           callRoutes == SomeMatch(routes, among, ofCall)
           headerRoutes == SomeMatch(routes, among, ofHeaders)
<1>1. \A r \in among : \A k \in In(r) : k \in all BY DEF MatchesAmong
<1>2. \A from, accepted : SomeMatch(routes, from, accepted) = {r \in from : \E k \in In(r) : k \in accepted}
  BY DEF SomeMatch
<1> HIDE DEF all, In
<1>3. serviceRoutes = {r \in among : Opens(r)} BY <1>1, <1>2
<1>4. callRoutes = {r \in among : By(r)} BY <1>1, <1>2
<1>5. headerRoutes = {r \in among : With(r)} BY <1>1, <1>2
<1>6. \A k : (GRPCMatches(k, intent) => CallMatches(k, intent)) /\ (CallMatches(k, intent) => ServiceMatches(k, intent.service))
  BY DEF GRPCMatches, CallMatches
<1>7. reason = CASE serviceRoutes = {} -> "service"
                 [] serviceRoutes # {} /\ callRoutes = {} -> "call"
                 [] callRoutes # {} /\ headerRoutes = {} -> "headers"
                 [] OTHER -> "backend"
  BY DEF GRPCReason, all
<1>8. callRoutes \subseteq serviceRoutes /\ headerRoutes \subseteq callRoutes
  BY <1>3, <1>4, <1>5, <1>6
<1> HIDE DEF reason, Opens, By, With, serviceRoutes, callRoutes, headerRoutes
<1>9. \/ reason = "service" /\ serviceRoutes = {}
      \/ reason = "call" /\ serviceRoutes # {} /\ callRoutes = {}
      \/ reason = "headers" /\ callRoutes # {} /\ headerRoutes = {}
      \/ reason = "backend" /\ headerRoutes # {}
  BY <1>7, <1>8
<1>10. CASE reason = "service" /\ serviceRoutes = {}
  BY <1>3, <1>10 DEF reason, Opens, By, With, In
<1>11. CASE reason = "call" /\ serviceRoutes # {} /\ callRoutes = {}
  BY <1>3, <1>4, <1>11 DEF reason, Opens, By, With, In
<1>12. CASE reason = "headers" /\ callRoutes # {} /\ headerRoutes = {}
  BY <1>4, <1>5, <1>12 DEF reason, Opens, By, With, In
<1>13. CASE reason = "backend" /\ headerRoutes # {}
  BY <1>5, <1>13 DEF reason, Opens, By, With, In
<1> QED BY <1>9, <1>10, <1>11, <1>12, <1>13


LEMMA StagesAre ==
    /\ intent.family = "HTTPRoute" =>
          StagesOf(intent.family)
              = <<"listener-port", "attached", "hostname", "path", "method", "headers", "params", "backend">>
    /\ intent.family = "GRPCRoute" =>
          StagesOf(intent.family) = <<"listener-port", "attached", "hostname", "service", "call", "headers", "backend">>
    /\ intent.family = "TLSRoute" =>
          StagesOf(intent.family) = <<"listener-port", "attached", "hostname", "backend">>
<1>1. CASE intent.family = "HTTPRoute" BY <1>1 DEF StagesOf
<1>2. CASE intent.family = "GRPCRoute" BY <1>2 DEF StagesOf
<1>3. CASE intent.family = "TLSRoute" BY <1>3 DEF StagesOf
<1> QED BY <1>1, <1>2, <1>3

\* What a stage asks of an entry.
Accepts(k, stage) ==
    CASE stage = "path"    -> PathMatches(k, intent.path)
      [] stage = "method"  -> MethodMatches(k, intent.method)
      [] stage = "headers" -> HeadersMatch(k, intent.headers)
      [] stage = "params"  -> ParamsMatch(k, intent.params)
      [] stage = "service" -> ServiceMatches(k, intent.service)
      [] stage = "call"    -> CallMatches(k, intent)
      [] stage = "backend" -> FALSE

EntryStages ==
    CASE intent.family = "HTTPRoute" -> {"path", "method", "headers", "params"}
      [] intent.family = "GRPCRoute" -> {"service", "call", "headers"}
      [] intent.family = "TLSRoute"  -> {}

LEMMA EntryPasses ==
    ASSUME Agreeing, NEW g, NEW l, NEW r \in RouteScope, NEW k \in EntriesOf(world.routes[r]),
           NEW stage \in EntryStages \cup {"backend"}
    PROVE  Passes(g, l, r, k, stage) <=> Accepts(k, stage)
<1>1. r \in DOMAIN world.routes /\ intent \in Intent /\ intent.family \in Family
  BY AgreeingParts DEF Agreeing, SeesAll, Intent
<1>2. Plainly(k)
  <2>1. PICK rule \in ToSet(world.routes[r].rules) : k \in MatchesOf(rule) BY DEF EntriesOf
  <2>2. PICK n \in DOMAIN world.routes[r].rules : rule = world.routes[r].rules[n] BY <2>1 DEF ToSet
  <2> QED BY <1>1, <2>1, <2>2, MatchesArePlain
<1>3. CASE stage = "backend" BY <1>3 DEF Passes, Accepts
<1>4. CASE intent.family = "HTTPRoute" /\ stage \in {"path", "method", "headers", "params"}
  BY <1>1, <1>2, <1>4, PartsHold DEF Passes, Accepts
<1>5. CASE intent.family = "GRPCRoute" /\ stage \in {"service", "call", "headers"}
  BY <1>1, <1>2, <1>5, PartsHold DEF Passes, Accepts
<1> QED BY <1>1, <1>3, <1>4, <1>5 DEF EntryStages, Family

\* The listeners that the request arrives at and the routes that it reaches there.
Arrivals ==
    UNION {{<<g, l>> : l \in {n \in DOMAIN world.gateways[g].listeners :
                                 ListenerMatches(world.gateways[g].listeners[n], intent)}} : g \in Parents}
AttachedRoutes == {r \in RouteScope : \E where \in Arrivals : Attached(world.routes[r], where[1], where[2])}
HostRoutes == {r \in AttachedRoutes : RouteHostMatches(world.routes[r], intent.host)}

\* What routes pass by themselves.
LEMMA RoutesPass ==
    ASSUME Agreeing, NEW g \in Parents, NEW l \in DOMAIN world.gateways[g].listeners, NEW r \in RouteScope, NEW k
    PROVE  /\ Passes(g, l, r, k, "listener-port") <=> <<g, l>> \in Arrivals
           /\ Passes(g, l, r, k, "attached") <=> Attached(world.routes[r], g, l)
           /\ Passes(g, l, r, k, "hostname") <=> RouteHostMatches(world.routes[r], intent.host)
<1>1. Passes(g, l, r, k, "listener-port") <=> <<g, l>> \in Arrivals BY DEF Passes, Arrivals
<1>2. Passes(g, l, r, k, "attached") <=> Attached(world.routes[r], g, l) BY DEF Passes, Attached
<1>3. r \in DOMAIN world.routes BY DEF Agreeing, SeesAll
<1>4. HostsOf(r) # {} <=> RouteHostMatches(world.routes[r], intent.host) BY <1>3, HostsAreNamed
<1>5. HostsOf(r) = {p \in IF world.routes[r].hostnames = {} THEN {None} ELSE world.routes[r].hostnames :
                       API!Names(p, intent.host)}
  BY <1>3, HostsAreNamed
<1>6. API!Names(None, intent.host) BY DEF API!Names
<1>7. HostsOf(r) # {} <=> world.routes[r].hostnames = {} \/ \E h \in world.routes[r].hostnames : API!Names(h, intent.host)
  <2> HIDE DEF HostsOf
  <2> QED BY <1>5, <1>6
<1> QED BY <1>1, <1>2, <1>4, <1>7 DEF Passes

\* One step from a listener to a route and back.
LEMMA PassedIs ==
    ASSUME Agreeing, NEW n \in DOMAIN StagesOf(intent.family)
    PROVE  /\ n = 1 /\ SomePasses(n) => Arrivals # {}
           /\ n = 2 => (SomePasses(n) <=> AttachedRoutes # {})
           /\ n = 3 => (SomePasses(n) <=> HostRoutes # {})
           /\ n > 3 => (SomePasses(n) <=> \E r \in HostRoutes : \E k \in EntriesOf(world.routes[r]) :
                                             \A i \in 4..n : Accepts(k, StagesOf(intent.family)[i]))
<1> DEFINE S == StagesOf(intent.family)
           P(g, l, r, k, i) == Passes(g, l, r, k, S[i])
<1>1. /\ S[1] = "listener-port" /\ S[2] = "attached" /\ S[3] = "hostname" /\ n \in Nat /\ n >= 1
      /\ \A i \in 4..n : S[i] \in EntryStages \cup {"backend"}
  <2>1. intent.family \in Family BY AgreeingParts DEF Intent
  <2>2. CASE intent.family = "HTTPRoute" BY <2>2, StagesAre DEF EntryStages
  <2>3. CASE intent.family = "GRPCRoute" BY <2>3, StagesAre DEF EntryStages
  <2>4. CASE intent.family = "TLSRoute" BY <2>4, StagesAre DEF EntryStages
  <2> QED BY <2>1, <2>2, <2>3, <2>4 DEF Family
<1>2. SomePasses(n) <=> \E g \in Parents, r \in RouteScope : \E l \in DOMAIN world.gateways[g].listeners :
                            \E k \in Asked(world.routes[r], n) : \A i \in 1..n : P(g, l, r, k, i)
  BY DEF SomePasses
<1> HIDE DEF S
<1>3. ASSUME NEW g \in Parents, NEW r \in RouteScope, NEW l \in DOMAIN world.gateways[g].listeners, NEW k
      PROVE  /\ P(g, l, r, k, 1) <=> <<g, l>> \in Arrivals
             /\ P(g, l, r, k, 2) <=> Attached(world.routes[r], g, l)
             /\ P(g, l, r, k, 3) <=> RouteHostMatches(world.routes[r], intent.host)
             /\ k \in EntriesOf(world.routes[r]) => \A i \in 4..n : P(g, l, r, k, i) <=> Accepts(k, S[i])
  BY <1>1, RoutesPass, EntryPasses
<1>4. \A where \in Arrivals : /\ where[1] \in Parents /\ where[2] \in DOMAIN world.gateways[where[1]].listeners
                              /\ where = <<where[1], where[2]>>
  BY DEF Arrivals
<1> HIDE DEF P
<1>5. CASE n = 1
  <2>1. 1 \in 1..n BY <1>5
  <2>2. SUFFICES ASSUME SomePasses(n) PROVE Arrivals # {} BY <1>5
  <2>3. PICK g \in Parents, r \in RouteScope :
           \E l \in DOMAIN world.gateways[g].listeners :
              \E k \in Asked(world.routes[r], n) : \A i \in 1..n : P(g, l, r, k, i)
    BY <1>2, <2>2
  <2>4. PICK l \in DOMAIN world.gateways[g].listeners, k \in Asked(world.routes[r], n) : \A i \in 1..n : P(g, l, r, k, i)
    BY <2>3
  <2> QED BY <1>3, <2>1, <2>4
<1>6. CASE n = 2
  <2>1. 1..n = {1, 2} BY <1>6
  <2>2. \A r : Asked(world.routes[r], n) = {AnyMatch} BY <1>6 DEF Asked
  <2>3. ASSUME SomePasses(n) PROVE AttachedRoutes # {}
    <3>1. PICK g \in Parents, r \in RouteScope :
             \E l \in DOMAIN world.gateways[g].listeners :
                \E k \in Asked(world.routes[r], n) : \A i \in 1..n : P(g, l, r, k, i)
      BY <1>2, <2>3
    <3>2. PICK l \in DOMAIN world.gateways[g].listeners, k \in Asked(world.routes[r], n) : \A i \in 1..n : P(g, l, r, k, i)
      BY <3>1
    <3>3. <<g, l>> \in Arrivals /\ Attached(world.routes[r], g, l) BY <1>3, <2>1, <3>2
    <3> DEFINE where == <<g, l>>
    <3>4. where \in Arrivals /\ Attached(world.routes[r], where[1], where[2]) BY <3>3
    <3> HIDE DEF where
    <3>5. r \in AttachedRoutes BY <3>4 DEF AttachedRoutes
    <3> QED BY <3>5
  <2>4. ASSUME NEW r \in AttachedRoutes PROVE SomePasses(n)
    <3>1. PICK where \in Arrivals : r \in RouteScope /\ Attached(world.routes[r], where[1], where[2])
      BY DEF AttachedRoutes
    <3>2. P(where[1], where[2], r, AnyMatch, 1) /\ P(where[1], where[2], r, AnyMatch, 2) BY <1>3, <1>4, <3>1
    <3>3. \A i \in 1..n : P(where[1], where[2], r, AnyMatch, i) BY <2>1, <3>2
    <3>4. AnyMatch \in Asked(world.routes[r], n) BY <2>2
    <3>5. where[1] \in Parents /\ where[2] \in DOMAIN world.gateways[where[1]].listeners BY <1>4
    <3> QED BY <1>2, <3>1, <3>3, <3>4, <3>5
  <2> QED BY <1>6, <2>3, <2>4
<1>7. CASE n = 3
  <2>1. 1..n = {1, 2, 3} BY <1>7
  <2>2. \A r : Asked(world.routes[r], n) = {AnyMatch} BY <1>7 DEF Asked
  <2>3. ASSUME SomePasses(n) PROVE HostRoutes # {}
    <3>1. PICK g \in Parents, r \in RouteScope :
             \E l \in DOMAIN world.gateways[g].listeners :
                \E k \in Asked(world.routes[r], n) : \A i \in 1..n : P(g, l, r, k, i)
      BY <1>2, <2>3
    <3>2. PICK l \in DOMAIN world.gateways[g].listeners, k \in Asked(world.routes[r], n) : \A i \in 1..n : P(g, l, r, k, i)
      BY <3>1
    <3> QED BY <1>3, <2>1, <3>2 DEF AttachedRoutes, HostRoutes
  <2>4. ASSUME NEW r \in HostRoutes PROVE SomePasses(n)
    <3>1. PICK where \in Arrivals : /\ r \in RouteScope /\ Attached(world.routes[r], where[1], where[2])
                                    /\ RouteHostMatches(world.routes[r], intent.host)
      BY DEF AttachedRoutes, HostRoutes
    <3>2. /\ P(where[1], where[2], r, AnyMatch, 1) /\ P(where[1], where[2], r, AnyMatch, 2)
          /\ P(where[1], where[2], r, AnyMatch, 3)
      BY <1>3, <1>4, <3>1
    <3>3. \A i \in 1..n : P(where[1], where[2], r, AnyMatch, i) BY <2>1, <3>2
    <3>4. AnyMatch \in Asked(world.routes[r], n) BY <2>2
    <3>5. where[1] \in Parents /\ where[2] \in DOMAIN world.gateways[where[1]].listeners BY <1>4
    <3> QED BY <1>2, <3>1, <3>3, <3>4, <3>5
  <2> QED BY <1>7, <2>3, <2>4
<1>8. CASE n > 3
  <2>1. \A i \in 1..n : i = 1 \/ i = 2 \/ i = 3 \/ i \in 4..n BY <1>1, <1>8
  <2>2. {1, 2, 3} \subseteq 1..n /\ 4..n \subseteq 1..n BY <1>1, <1>8
  <2>3. \A r : Asked(world.routes[r], n) = EntriesOf(world.routes[r]) BY <1>1, <1>8 DEF Asked
  <2>4. ASSUME SomePasses(n)
        PROVE  \E r \in HostRoutes : \E k \in EntriesOf(world.routes[r]) : \A i \in 4..n : Accepts(k, S[i])
    <3>1. PICK g \in Parents, r \in RouteScope :
             \E l \in DOMAIN world.gateways[g].listeners :
                \E k \in Asked(world.routes[r], n) : \A i \in 1..n : P(g, l, r, k, i)
      BY <1>2, <2>4
    <3>2. PICK l \in DOMAIN world.gateways[g].listeners, k \in EntriesOf(world.routes[r]) : \A i \in 1..n : P(g, l, r, k, i)
      BY <2>3, <3>1
    <3>3. r \in HostRoutes BY <1>3, <2>2, <3>2 DEF AttachedRoutes, HostRoutes
    <3>4. \A i \in 4..n : Accepts(k, S[i]) BY <1>3, <2>2, <3>2
    <3> QED BY <3>3, <3>4
  <2>5. ASSUME NEW r \in HostRoutes, NEW k \in EntriesOf(world.routes[r]), \A i \in 4..n : Accepts(k, S[i])
        PROVE  SomePasses(n)
    <3>1. PICK where \in Arrivals : /\ r \in RouteScope /\ Attached(world.routes[r], where[1], where[2])
                                    /\ RouteHostMatches(world.routes[r], intent.host)
      BY DEF AttachedRoutes, HostRoutes
    <3>2. /\ P(where[1], where[2], r, k, 1) /\ P(where[1], where[2], r, k, 2) /\ P(where[1], where[2], r, k, 3)
          /\ \A i \in 4..n : P(where[1], where[2], r, k, i)
      BY <1>3, <1>4, <2>5, <3>1
    <3>3. \A i \in 1..n : P(where[1], where[2], r, k, i) BY <2>1, <3>2
    <3>4. where[1] \in Parents /\ where[2] \in DOMAIN world.gateways[where[1]].listeners BY <1>4
    <3>5. k \in Asked(world.routes[r], n) BY <2>3
    <3> QED BY <1>2, <3>1, <3>3, <3>4, <3>5
  <2>6. SomePasses(n) <=> \E r \in HostRoutes : \E k \in EntriesOf(world.routes[r]) : \A i \in 4..n : Accepts(k, S[i])
    BY <2>4, <2>5
  <2> QED BY <1>8, <2>6 DEF S
<1> QED BY <1>1, <1>5, <1>6, <1>7, <1>8 DEF S


\* What is true of the stage that a request is lost at.
OneEntry == \A route \in ToSet(world.routes) : \A m, k \in EntriesOf(route) : m = k
LostAt(n) ==
    /\ StagesOf(intent.family)[n] # "backend" => ~SomePasses(n)
    /\ n \in {3, 4} \/ (n > 4 /\ OneEntry) => SomePasses(n - 1)

FamilyReason ==
    CASE intent.family = "GRPCRoute" -> GRPCReason(world.routes, HostRoutes, intent)
      [] intent.family = "TLSRoute"  -> "backend"
      [] OTHER                       -> HTTPReason(world.routes, HostRoutes, intent)

LEMMA ReasonFrom ==
    LET reason == NoMatchReason(world.gateways, Parents, world.routes, RouteScope, intent)
    IN  \/ reason \in {"no-gateways", "listener"}
        \/ reason = "listener-port" /\ Arrivals = {}
        \/ reason = "attached" /\ AttachedRoutes = {}
        \/ reason = "hostname" /\ AttachedRoutes # {} /\ HostRoutes = {}
        \/ reason = FamilyReason /\ HostRoutes # {}
<1> DEFINE reason == NoMatchReason(world.gateways, Parents, world.routes, RouteScope, intent)
           any == \E g \in Parents : \E l \in ToSet(world.gateways[g].listeners) : HostnameMatches(l.hostname, intent.host)
<1>1. reason = CASE Parents = {} -> "no-gateways"
                 [] Parents # {} /\ Arrivals = {} -> IF any THEN "listener-port" ELSE "listener"
                 [] Arrivals # {} /\ AttachedRoutes = {} -> "attached"
                 [] AttachedRoutes # {} /\ HostRoutes = {} -> "hostname"
                 [] OTHER -> FamilyReason
  BY DEF NoMatchReason, Arrivals, AttachedRoutes, HostRoutes, FamilyReason
<1>2. (Parents = {} => Arrivals = {}) /\ (Arrivals = {} => AttachedRoutes = {}) /\ (AttachedRoutes = {} => HostRoutes = {})
  BY DEF Arrivals, AttachedRoutes, HostRoutes
<1> HIDE DEF reason, any
<1> QED BY <1>1, <1>2 DEF reason

LEMMA PassedBy ==
    ASSUME Agreeing, NEW m \in DOMAIN StagesOf(intent.family), m > 3
    PROVE  SomePasses(m) <=> \E r \in HostRoutes : \E k \in EntriesOf(world.routes[r]) :
                                \A i \in 4..m : Accepts(k, StagesOf(intent.family)[i])
BY PassedIs

LEMMA PassedThree ==
    ASSUME Agreeing
    PROVE  /\ SomePasses(1) => Arrivals # {}
           /\ SomePasses(2) <=> AttachedRoutes # {}
           /\ SomePasses(3) <=> HostRoutes # {}
<1> DEFINE S == StagesOf(intent.family)
<1>1. {1, 2, 3} \subseteq DOMAIN S
  <2>1. intent.family \in Family BY AgreeingParts DEF Intent
  <2> QED BY <2>1, StagesAre DEF Family
<1>2. \A n \in DOMAIN S : /\ n = 1 /\ SomePasses(n) => Arrivals # {}
                          /\ n = 2 => (SomePasses(n) <=> AttachedRoutes # {})
                          /\ n = 3 => (SomePasses(n) <=> HostRoutes # {})
  BY PassedIs
<1> HIDE DEF S
<1> QED BY <1>1, <1>2

\* Routes that accept a request in one part each accept all of it, if they have
\* one entry.
LEMMA EntryIsOne ==
    ASSUME Agreeing, OneEntry, NEW r \in HostRoutes, NEW m \in EntriesOf(world.routes[r]), NEW k \in EntriesOf(world.routes[r])
    PROVE  m = k
<1>1. r \in DOMAIN world.routes BY DEF Agreeing, SeesAll, HostRoutes, AttachedRoutes
<1>2. world.routes[r] \in ToSet(world.routes) BY <1>1 DEF ToSet
<1> QED BY <1>2 DEF OneEntry

LEMMA HTTPLost ==
    ASSUME Agreeing, intent.family = "HTTPRoute", HostRoutes # {}, NEW n \in DOMAIN StagesOf(intent.family),
           StagesOf(intent.family)[n] = HTTPReason(world.routes, HostRoutes, intent)
    PROVE  LostAt(n)
<1> DEFINE S == StagesOf(intent.family)
           reason == HTTPReason(world.routes, HostRoutes, intent)
           In(r) == EntriesOf(world.routes[r])
           Opens(r) == \E k \in In(r) : PathMatches(k, intent.path)
           By(r) == \E k \in In(r) : MethodMatches(k, intent.method)
           With(r) == \E k \in In(r) : HeadersMatch(k, intent.headers)
           And(r) == \E k \in In(r) : ParamsMatch(k, intent.params)
<1>1. S = <<"listener-port", "attached", "hostname", "path", "method", "headers", "params", "backend">>
  BY StagesAre
<1>2. /\ reason \in {"path", "method", "headers", "params", "backend"}
      /\ reason = "path" => \A r \in HostRoutes : ~Opens(r)
      /\ reason = "method" => (\A r \in HostRoutes : ~(Opens(r) /\ By(r))) /\ \E r \in HostRoutes : Opens(r)
      /\ reason = "headers" => (\A r \in HostRoutes : ~(Opens(r) /\ By(r) /\ With(r))) /\ \E r \in HostRoutes : Opens(r) /\ By(r)
      /\ reason = "params" => /\ \A r \in HostRoutes : ~(Opens(r) /\ By(r) /\ With(r) /\ And(r))
                              /\ \E r \in HostRoutes : Opens(r) /\ By(r) /\ With(r)
      /\ reason = "backend" => \E r \in HostRoutes : Opens(r) /\ By(r) /\ With(r) /\ And(r)
  BY HTTPReasonIs, EntriesAre
<1>3. ASSUME NEW m \in 4..8
      PROVE  SomePasses(m) <=> \E r \in HostRoutes : \E k \in In(r) : \A i \in 4..m : Accepts(k, S[i])
  <2>1. m \in DOMAIN StagesOf(intent.family) /\ m > 3 BY <1>1
  <2> QED BY <2>1, PassedBy
<1>4. \A k : /\ Accepts(k, S[4]) <=> PathMatches(k, intent.path)
             /\ Accepts(k, S[5]) <=> MethodMatches(k, intent.method)
             /\ Accepts(k, S[6]) <=> HeadersMatch(k, intent.headers)
             /\ Accepts(k, S[7]) <=> ParamsMatch(k, intent.params)
  <2>1. S[4] = "path" /\ S[5] = "method" /\ S[6] = "headers" /\ S[7] = "params" BY <1>1
  <2> HIDE DEF S
  <2> QED BY <2>1 DEF Accepts
<1>5. /\ n \in 1..8
      /\ reason = "path" => n = 4
      /\ reason = "method" => n = 5
      /\ reason = "headers" => n = 6
      /\ reason = "params" => n = 7
      /\ reason = "backend" => n = 8
  BY <1>1
<1>6. OneEntry => \A r \in HostRoutes : \A m, k \in In(r) : m = k
  BY EntryIsOne
<1>7. S[n] = reason OBVIOUS
<1> HIDE DEF S, reason, In
<1>8. /\ SomePasses(4) <=> \E r \in HostRoutes : \E k \in In(r) : PathMatches(k, intent.path)
      /\ SomePasses(5) <=> \E r \in HostRoutes : \E k \in In(r) :
                              PathMatches(k, intent.path) /\ MethodMatches(k, intent.method)
      /\ SomePasses(6) <=> \E r \in HostRoutes : \E k \in In(r) :
                              /\ PathMatches(k, intent.path) /\ MethodMatches(k, intent.method)
                              /\ HeadersMatch(k, intent.headers)
      /\ SomePasses(7) <=> \E r \in HostRoutes : \E k \in In(r) :
                              /\ PathMatches(k, intent.path) /\ MethodMatches(k, intent.method)
                              /\ HeadersMatch(k, intent.headers) /\ ParamsMatch(k, intent.params)
  <2>1. SomePasses(4) <=> \E r \in HostRoutes : \E k \in In(r) : PathMatches(k, intent.path)
    <3>1. 4..4 = {4} OBVIOUS
    <3> QED BY <1>3, <1>4, <3>1
  <2>2. SomePasses(5) <=> \E r \in HostRoutes : \E k \in In(r) :
                              PathMatches(k, intent.path) /\ MethodMatches(k, intent.method)
    <3>1. 4..5 = {4, 5} OBVIOUS
    <3> QED BY <1>3, <1>4, <3>1
  <2>3. SomePasses(6) <=> \E r \in HostRoutes : \E k \in In(r) :
                              /\ PathMatches(k, intent.path) /\ MethodMatches(k, intent.method)
                              /\ HeadersMatch(k, intent.headers)
    <3>1. 4..6 = {4, 5, 6} OBVIOUS
    <3> QED BY <1>3, <1>4, <3>1
  <2>4. SomePasses(7) <=> \E r \in HostRoutes : \E k \in In(r) :
                              /\ PathMatches(k, intent.path) /\ MethodMatches(k, intent.method)
                              /\ HeadersMatch(k, intent.headers) /\ ParamsMatch(k, intent.params)
    <3>1. 4..7 = {4, 5, 6, 7} OBVIOUS
    <3> QED BY <1>3, <1>4, <3>1
  <2> QED BY <2>1, <2>2, <2>3, <2>4
<1>9. CASE reason = "path"
  <2>1. SomePasses(3) BY PassedThree
  <2> QED BY <1>2, <1>5, <1>8, <1>9, <2>1 DEF LostAt
<1>10. CASE reason = "method"
  BY <1>2, <1>5, <1>8, <1>10 DEF LostAt
<1>11. CASE reason = "headers"
  <2>1. ~SomePasses(6) BY <1>2, <1>8, <1>11
  <2>2. OneEntry => SomePasses(5) BY <1>2, <1>6, <1>8, <1>11
  <2> QED BY <1>5, <1>11, <2>1, <2>2 DEF LostAt
<1>12. CASE reason = "params"
  <2>1. ~SomePasses(7) BY <1>2, <1>8, <1>12
  <2>2. OneEntry => SomePasses(6) BY <1>2, <1>6, <1>8, <1>12
  <2> QED BY <1>5, <1>12, <2>1, <2>2 DEF LostAt
<1>13. CASE reason = "backend"
  <2>1. OneEntry => SomePasses(7) BY <1>2, <1>6, <1>8, <1>13
  <2>2. S[n] = "backend" BY <1>7, <1>13
  <2> QED BY <1>5, <1>13, <2>1, <2>2 DEF LostAt, S
<1> QED BY <1>2, <1>9, <1>10, <1>11, <1>12, <1>13

LEMMA GRPCLost ==
    ASSUME Agreeing, intent.family = "GRPCRoute", HostRoutes # {}, NEW n \in DOMAIN StagesOf(intent.family),
           StagesOf(intent.family)[n] = GRPCReason(world.routes, HostRoutes, intent)
    PROVE  LostAt(n)
<1> DEFINE S == StagesOf(intent.family)
           reason == GRPCReason(world.routes, HostRoutes, intent)
           In(r) == EntriesOf(world.routes[r])
           Opens(r) == \E k \in In(r) : ServiceMatches(k, intent.service)
           By(r) == \E k \in In(r) : CallMatches(k, intent)
           With(r) == \E k \in In(r) : GRPCMatches(k, intent)
<1>1. S = <<"listener-port", "attached", "hostname", "service", "call", "headers", "backend">>
  BY StagesAre
<1>2. /\ reason \in {"service", "call", "headers", "backend"}
      /\ reason = "service" => \A r \in HostRoutes : ~Opens(r)
      /\ reason = "call" => (\A r \in HostRoutes : ~By(r)) /\ \E r \in HostRoutes : Opens(r)
      /\ reason = "headers" => (\A r \in HostRoutes : ~With(r)) /\ \E r \in HostRoutes : By(r)
      /\ reason = "backend" => \E r \in HostRoutes : With(r)
  BY GRPCReasonIs, EntriesAre
<1>3. ASSUME NEW m \in 4..7
      PROVE  SomePasses(m) <=> \E r \in HostRoutes : \E k \in In(r) : \A i \in 4..m : Accepts(k, S[i])
  <2>1. m \in DOMAIN StagesOf(intent.family) /\ m > 3 BY <1>1
  <2> QED BY <2>1, PassedBy
<1>4. \A k : /\ Accepts(k, S[4]) <=> ServiceMatches(k, intent.service)
             /\ Accepts(k, S[5]) <=> CallMatches(k, intent)
             /\ Accepts(k, S[6]) <=> HeadersMatch(k, intent.headers)
  <2>1. S[4] = "service" /\ S[5] = "call" /\ S[6] = "headers" BY <1>1
  <2> HIDE DEF S
  <2> QED BY <2>1 DEF Accepts
<1>5. /\ n \in 1..7
      /\ reason = "service" => n = 4
      /\ reason = "call" => n = 5
      /\ reason = "headers" => n = 6
      /\ reason = "backend" => n = 7
  BY <1>1
<1>6. \A k : /\ GRPCMatches(k, intent) <=> CallMatches(k, intent) /\ HeadersMatch(k, intent.headers)
             /\ CallMatches(k, intent) => ServiceMatches(k, intent.service)
  BY DEF GRPCMatches, CallMatches
<1>7. S[n] = reason OBVIOUS
<1> HIDE DEF S, reason, In
<1>8. /\ SomePasses(4) <=> \E r \in HostRoutes : \E k \in In(r) : ServiceMatches(k, intent.service)
      /\ SomePasses(5) <=> \E r \in HostRoutes : \E k \in In(r) : CallMatches(k, intent)
      /\ SomePasses(6) <=> \E r \in HostRoutes : \E k \in In(r) : GRPCMatches(k, intent)
  <2>1. SomePasses(4) <=> \E r \in HostRoutes : \E k \in In(r) : ServiceMatches(k, intent.service)
    <3>1. 4..4 = {4} OBVIOUS
    <3> QED BY <1>3, <1>4, <3>1
  <2>2. SomePasses(5) <=> \E r \in HostRoutes : \E k \in In(r) : CallMatches(k, intent)
    <3>1. 4..5 = {4, 5} OBVIOUS
    <3> QED BY <1>3, <1>4, <1>6, <3>1
  <2>3. SomePasses(6) <=> \E r \in HostRoutes : \E k \in In(r) : GRPCMatches(k, intent)
    <3>1. 4..6 = {4, 5, 6} OBVIOUS
    <3> QED BY <1>3, <1>4, <1>6, <3>1
  <2> QED BY <2>1, <2>2, <2>3
<1>9. CASE reason = "service"
  <2>1. SomePasses(3) BY PassedThree
  <2> QED BY <1>2, <1>5, <1>8, <1>9, <2>1 DEF LostAt
<1>10. CASE reason = "call" BY <1>2, <1>5, <1>8, <1>10 DEF LostAt
<1>11. CASE reason = "headers" BY <1>2, <1>5, <1>8, <1>11 DEF LostAt
<1>12. CASE reason = "backend"
  <2>1. S[n] = "backend" BY <1>7, <1>12
  <2> QED BY <1>2, <1>5, <1>8, <1>12, <2>1 DEF LostAt, S
<1> QED BY <1>2, <1>9, <1>10, <1>11, <1>12

LEMMA ReasonHolds ==
    ASSUME Agreeing, NEW n \in DOMAIN StagesOf(intent.family),
           NoMatchReason(world.gateways, Parents, world.routes, RouteScope, intent) = StagesOf(intent.family)[n]
    PROVE  LostAt(n)
<1> DEFINE S == StagesOf(intent.family)
           reason == NoMatchReason(world.gateways, Parents, world.routes, RouteScope, intent)
<1>1. \/ intent.family = "HTTPRoute"
         /\ S = <<"listener-port", "attached", "hostname", "path", "method", "headers", "params", "backend">>
      \/ intent.family = "GRPCRoute"
         /\ S = <<"listener-port", "attached", "hostname", "service", "call", "headers", "backend">>
      \/ intent.family = "TLSRoute"
         /\ S = <<"listener-port", "attached", "hostname", "backend">>
  <2>1. intent.family \in Family BY AgreeingParts DEF Intent
  <2> QED BY <2>1, StagesAre DEF Family
<1>2. /\ S[n] \notin {"no-gateways", "listener"}
      /\ S[n] = "listener-port" => n = 1
      /\ S[n] = "attached" => n = 2
      /\ S[n] = "hostname" => n = 3
      /\ intent.family = "TLSRoute" /\ S[n] = "backend" => n = 4
  BY <1>1
<1>3. \/ reason \in {"no-gateways", "listener"}
      \/ reason = "listener-port" /\ Arrivals = {}
      \/ reason = "attached" /\ AttachedRoutes = {}
      \/ reason = "hostname" /\ AttachedRoutes # {} /\ HostRoutes = {}
      \/ reason = FamilyReason /\ HostRoutes # {}
  BY ReasonFrom
<1>4. reason = S[n] OBVIOUS
<1> HIDE DEF S, reason
<1>5. CASE reason = "listener-port" /\ Arrivals = {}
  BY <1>2, <1>4, <1>5, PassedThree DEF LostAt
<1>6. CASE reason = "attached" /\ AttachedRoutes = {}
  BY <1>2, <1>4, <1>6, PassedThree DEF LostAt
<1>7. CASE reason = "hostname" /\ AttachedRoutes # {} /\ HostRoutes = {}
  BY <1>2, <1>4, <1>7, PassedThree DEF LostAt
<1>8. CASE reason = FamilyReason /\ HostRoutes # {}
  <2>1. CASE intent.family = "HTTPRoute" BY <1>4, <1>8, <2>1, HTTPLost DEF FamilyReason, S
  <2>2. CASE intent.family = "GRPCRoute" BY <1>4, <1>8, <2>2, GRPCLost DEF FamilyReason, S
  <2>3. CASE intent.family = "TLSRoute"
    <3>1. n = 4 /\ S[n] = "backend" BY <1>2, <1>4, <1>8, <2>3 DEF FamilyReason
    <3>2. SomePasses(3) BY <1>8, PassedThree
    <3> QED BY <3>1, <3>2 DEF LostAt, S
  <2> QED BY <1>1, <2>1, <2>2, <2>3
<1> QED BY <1>2, <1>3, <1>4, <1>5, <1>6, <1>7, <1>8


\* The reason that is said is the one of the request.
Reason == NoMatchReason(world.gateways, Parents, world.routes, RouteScope, intent)
BeforeChoice == {"options", "cluster", "lists", "listeners", "select"}
OnlyThis(results) == \A r \in results : r.check \in Reasons => r.check = Reason
ReasonInv == paths = <<>> => pc \in BeforeChoice \cup AtEnd /\ OnlyThis(report.results)

LEMMA NoReasonYet ==
    ASSUME CountInv, pc \in BeforeChoice
    PROVE  \A r \in report.results : r.check \notin Reasons
<1>1. Reasons \subseteq ProblemChecks BY DEF ProblemChecks
<1>2. Reasons \subseteq Ahead(pc) BY <1>1, AheadAre, ChecksApart DEF BeforeChoice
<1> QED BY <1>2 DEF CountInv

LEMMA ReasonsApart == (PlainChecks \cup EndChecks) \cap Reasons = {}
BY DEF PlainChecks, SideChecks, EndChecks, Reasons, ListNames, SecureChecks, ListenerChecks, RouteChecks, FilterChecks

LEMMA SameReason ==
    ASSUME UNCHANGED input, UNCHANGED intent
    PROVE  Reason' = Reason
<1>1. Parents' = Parents /\ RouteScope' = RouteScope /\ world' = world BY SameRequest DEF input
<1> QED BY <1>1 DEF Reason

LEMMA ReasonSelected ==
    ASSUME Kept, CountInv, selectRules, paths' = <<>>
    PROVE  ReasonInv'
<1>1. /\ UNCHANGED input /\ UNCHANGED intent /\ pc = "select" /\ pc' = "finish"
      /\ \E check \in {"redirect", Reason} : report' = addProblem(report, Fail(check, <<>>))
  BY DEF selectRules, Reason
<1>2. PICK check \in {"redirect", Reason} : report' = addProblem(report, Fail(check, <<>>)) BY <1>1
<1>3. opts \in Option /\ report.problems \in Nat BY LegalCases DEF Kept, Legal, ReportTyped
<1> DEFINE checks == {check}
<1>4. Adds(report, report', checks)
  <2>1. <<>> \in Seq(Nat) /\ check \in checks OBVIOUS
  <2>2. Fail(check, <<>>) \in ProblemsOf(checks)
    <3> HIDE DEF checks
    <3> QED BY <2>1, FailType
  <2> HIDE DEF checks
  <2> QED BY <1>2, <1>3, <2>2, AddProblemIs
<1>5. \A r \in report.results : r.check \notin Reasons BY <1>1, NoReasonYet DEF BeforeChoice
<1>6. \A r \in report'.results : r \in report.results \/ r.check = check BY <1>4 DEF Adds
<1>7. "redirect" \notin Reasons BY DEF Reasons
<1>8. \A r \in report'.results : r.check \in Reasons => r.check = Reason BY <1>2, <1>5, <1>6, <1>7
<1>9. Reason' = Reason BY <1>1, SameReason
<1>10. pc' \in AtEnd BY <1>1 DEF AtEnd
<1> QED BY <1>8, <1>9, <1>10 DEF ReasonInv, OnlyThis

LEMMA ReasonEarly ==
    ASSUME Kept, CountInv, readOptions \/ reachCluster \/ readLists \/ checkListeners
    PROVE  ReasonInv'
<1>1. pc \in BeforeChoice /\ pc' \in BeforeChoice \cup AtEnd
  <2>1. CASE readOptions BY <2>1 DEF readOptions, BeforeChoice, AtEnd
  <2>2. CASE reachCluster \/ readLists \/ checkListeners
    BY <2>2 DEF reachCluster, readLists, checkListeners, BeforeChoice, AtEnd
  <2> QED BY <2>1, <2>2
<1>2. Adds(report, report', PlainChecks) BY PlainAdds DEF Kept
<1>3. \A r \in report'.results : r.check \notin Reasons BY <1>1, <1>2, NoReasonYet, ReasonsApart DEF Adds
<1> QED BY <1>1, <1>3 DEF ReasonInv, OnlyThis

LEMMA ReasonLate ==
    ASSUME Kept, ReasonInv, finishScan \/ dedupe \/ generic \/ finish \/ UNCHANGED vars
    PROVE  ReasonInv'
<1>1. /\ UNCHANGED Choice
      /\ pc' = pc \/ pc' \in AtEnd
  <2>1. CASE UNCHANGED vars BY <2>1 DEF vars, Choice
  <2>2. CASE finishScan \/ dedupe \/ generic \/ finish
    BY <2>2 DEF finishScan, dedupe, generic, finish, Choice, AtEnd
  <2> QED BY <2>1, <2>2
<1>2. \A r \in report'.results : r \in report.results \/ r.check \notin Reasons
  <2>1. CASE finishScan
    <3>1. opts \in Option BY LegalCases DEF Kept, Legal
    <3>2. Adds(report, report', EndChecks) BY <2>1, <3>1, FinishAdds DEF Kept
    <3> QED BY <3>2, ReasonsApart DEF Adds
  <2>2. CASE dedupe BY <2>2, DedupeKeepsResults DEF Kept
  <2>3. CASE generic \/ finish \/ UNCHANGED vars
    <3>1. Adds(report, report', PlainChecks) BY <2>3, PlainAdds DEF Kept
    <3> QED BY <3>1, ReasonsApart DEF Adds
  <2> QED BY <2>1, <2>2, <2>3
<1>3. Reason' = Reason /\ paths' = paths BY <1>1, SameReason DEF Choice
<1> QED BY <1>1, <1>2, <1>3 DEF ReasonInv, OnlyThis

LEMMA ReasonStep == Kept /\ CountInv /\ ReasonInv /\ [Next]_vars => ReasonInv'
<1> SUFFICES ASSUME Kept, CountInv, ReasonInv, [Next]_vars PROVE ReasonInv' OBVIOUS
<1>1. CASE selectRules BY <1>1, ReasonSelected DEF ReasonInv
<1>2. CASE readOptions \/ reachCluster \/ readLists \/ checkListeners BY <1>2, ReasonEarly
<1>3. CASE finishScan \/ dedupe \/ generic \/ finish \/ UNCHANGED vars BY <1>3, ReasonLate
<1>4. ASSUME pc \notin BeforeChoice \cup AtEnd, UNCHANGED Choice PROVE ReasonInv'
  BY <1>4 DEF ReasonInv, Choice
<1>5. CASE checkParents \/ checkExpected \/ checkMirror \/ mirrorsDone
  BY <1>4, <1>5 DEF checkParents, checkExpected, checkMirror, mirrorsDone, Choice, BeforeChoice, AtEnd
<1>6. CASE analyze \/ analyzed \/ scan \/ scanned
  BY <1>4, <1>6 DEF analyze, analyzed, scan, scanned, Choice, BeforeChoice, AtEnd
<1>7. CASE dataplane
  <2>1. pc = "dataplane" /\ UNCHANGED <<input, intent, selected, paths>> BY <1>7, Zenon DEF dataplane
  <2> QED BY <1>4, <2>1 DEF Choice, BeforeChoice, AtEnd
<1>8. CASE probe
  <2>1. pc = "probe" /\ UNCHANGED <<input, intent, selected, paths>> BY <1>8, Zenon DEF probe
  <2> QED BY <1>4, <2>1 DEF Choice, BeforeChoice, AtEnd
<1>9. CASE dataplaneDone \/ cannotProbe \/ probesDone \/ conclude
  BY <1>4, <1>9 DEF dataplaneDone, cannotProbe, probesDone, conclude, Choice, BeforeChoice, AtEnd
<1> QED BY <1>1, <1>2, <1>3, <1>5, <1>6, <1>7, <1>8, <1>9 DEF Next

(***************************************************************************)
(* The stage that the report names when nothing serves a request is one    *)
(* that nothing passes, and something got there, for any gateways and      *)
(* routes (gatewayExplainNoTrafficMatch, gateway.go:4557-4970).            *)
(***************************************************************************)
THEOREM NoMatchReasonsTrue == Spec => []NoMatchReasonTrue
<1>1. Init => ReasonInv
  <2>1. Init => pc = "options" /\ report.results = {} BY DEF Init
  <2> QED BY <2>1 DEF ReasonInv, OnlyThis, BeforeChoice
<1>2. Kept /\ DropInv /\ ReasonInv /\ [Next]_vars => ReasonInv' BY ReasonStep DEF DropInv
<1>3. Kept /\ ReasonInv => NoMatchReasonTrue
  <2> SUFFICES ASSUME Kept, ReasonInv, SeesAll, OneLabelWildcards, Comparable, paths = <<>>,
                      NEW n \in DOMAIN StagesOf(intent.family),
                      Result(StagesOf(intent.family)[n], <<>>, "FAIL") \in report.results
               PROVE  LostAt(n)
    BY DEF NoMatchReasonTrue, LostAt, OneEntry
  <2> DEFINE stage == StagesOf(intent.family)[n]
  <2>1. Agreeing BY DEF Agreeing, Kept
  <2>2. stage \in Reasons
    <3>1. intent.family \in Family BY <2>1, AgreeingParts DEF Intent
    <3> QED BY <3>1, StagesAre DEF Family, Reasons
  <2>3. Result(stage, <<>>, "FAIL").check = stage BY DEF Result
  <2> HIDE DEF stage
  <2>4. stage = Reason
    <3>1. Result(stage, <<>>, "FAIL") \in report.results BY DEF stage
    <3> QED BY <2>2, <2>3, <3>1 DEF ReasonInv, OnlyThis
  <2> QED BY <2>1, <2>4, ReasonHolds DEF stage, Reason
<1>4. Spec => []Kept BY AlwaysKept
<1>5. Init => DropInv BY InitDrop
<1>6. Kept /\ DropInv /\ [Next]_vars => DropInv' BY CountStep, ScanStep, LimitStep, SuccessStep DEF DropInv
<1> QED BY <1>1, <1>2, <1>3, <1>4, <1>5, <1>6, PTL DEF Spec

================================================================================
