---------------------------- MODULE DataLemmas -------------------------------
(***************************************************************************)
(* Lemmas about the data the models are built from: division and           *)
(* remainders, induction and recursive functions, sequences.  The          *)
(* induction theorems of the library take an operator as a parameter;      *)
(* here the set of the numbers for which something holds takes its place.  *)
(***************************************************************************)
EXTENDS Integers, SequencesExt, SequenceTheorems, WellFoundedInduction, TLAPS

-----------------------------------------------------------------------------
(* Division.                                                               *)

LEMMA Product == ASSUME NEW a \in Nat, NEW b \in Nat PROVE a * b \in Nat
BY SMTT(30)

LEMMA IntProduct == ASSUME NEW a \in Int, NEW b \in Int PROVE a * b \in Int
BY SMTT(30)

LEMMA Divided ==
    ASSUME NEW a \in Int, NEW m \in Nat \ {0}
    PROVE  /\ a \div m \in Int
           /\ a % m \in 0 .. m - 1
           /\ a = m * (a \div m) + (a % m)
BY SMTT(30)

LEMMA QuotientIs ==
    ASSUME NEW a \in Int, NEW m \in Nat \ {0}, NEW q \in Int,
           m * q <= a, a < m * q + m
    PROVE  a \div m = q
<1>1. PICK k \in Int, r \in 0 .. m - 1 : a = m * k + r /\ k = a \div m
  BY Divided
<1>2. CASE k < q
  <2>1. m * k + m <= m * q
    BY <1>2, SMTT(30)
  <2>2. m * k \in Int /\ m * q \in Int
    BY IntProduct
  <2>3. QED
    BY <1>1, <2>1, <2>2
<1>3. CASE k > q
  <2>1. m * q + m <= m * k
    BY <1>3, SMTT(30)
  <2>2. m * k \in Int /\ m * q \in Int
    BY IntProduct
  <2>3. QED
    BY <1>1, <2>1, <2>2
<1>4. QED
  BY <1>1, <1>2, <1>3

LEMMA QuotientNat ==
    ASSUME NEW a \in Nat, NEW m \in Nat \ {0}
    PROVE  a \div m \in Nat
BY SMTT(30)

LEMMA RemainderSame ==
    ASSUME NEW a \in Int, NEW m \in Nat \ {0}, NEW k \in Int
    PROVE  (a + m * k) % m = a % m
<1> DEFINE b == a + m * k
           q == a \div m
           r == a % m
           x == b % m
           mq == m * q
           mk == m * k
<1>1. q \in Int /\ r \in 0 .. m - 1 /\ a = mq + r
  BY Divided
<1>2. mk \in Int /\ b = a + mk
  BY IntProduct
<1> HIDE DEF q
<1>3. mq \in Int /\ q + k \in Int /\ m * (q + k) = mq + mk
  BY <1>1, SMTT(30)
<1> HIDE DEF b, r, mq, mk
<1>4. b \in Int /\ mq + mk <= b /\ b < mq + mk + m
  BY <1>1, <1>2, <1>3
<1>5. m * (q + k) <= b /\ b < m * (q + k) + m
  BY <1>3, <1>4, Zenon
<1>6. b \div m = q + k
  BY <1>3, <1>4, <1>5, QuotientIs
<1>7. b = m * (b \div m) + x /\ x \in 0 .. m - 1
  BY <1>4, Divided
<1> HIDE DEF x
<1>8. b = mq + mk + x
  BY <1>3, <1>6, <1>7, Zenon
<1>9. x = r
  BY <1>1, <1>2, <1>3, <1>7, <1>8
<1>10. QED
  BY <1>9 DEF x, r, b, mk

LEMMA SmallRemainder ==
    ASSUME NEW m \in Nat \ {0}, NEW k \in Int, NEW d \in Nat
    PROVE  (d + m * k) % m <= d
<1>1. (d + m * k) % m = d % m
  BY RemainderSame, d \in Int
<1>2. d % m <= d
  <2>1. m * (d \div m) \in Nat
    BY QuotientNat, Product
  <2>2. d = m * (d \div m) + (d % m) /\ d % m \in 0 .. m - 1
    BY Divided
  <2>3. QED
    BY <2>1, <2>2
<1>3. QED
  BY <1>1, <1>2

\* Two quotients rounded down and their sum.
LEMMA QuotientSum ==
    ASSUME NEW a \in Int, NEW b \in Int, NEW m \in Nat \ {0}
    PROVE  \E e \in {0, 1} : (a + b) \div m = a \div m + b \div m + e
<1>1. PICK p \in Int, r \in 0 .. m - 1 : a = m * p + r /\ p = a \div m
  BY Divided
<1>2. PICK q \in Int, s \in 0 .. m - 1 : b = m * q + s /\ q = b \div m
  BY Divided
<1>3. m * p \in Int /\ m * q \in Int /\ p + q \in Int /\ p + q + 1 \in Int
  BY IntProduct
<1>4. m * (p + q) = m * p + m * q /\ m * (p + q + 1) = m * p + m * q + m
  BY SMTT(30)
<1>5. CASE r + s < m
  <2>1. m * (p + q) <= a + b /\ a + b < m * (p + q) + m
    BY <1>1, <1>2, <1>3, <1>4, <1>5
  <2>2. (a + b) \div m = p + q
    BY <1>3, <2>1, QuotientIs, a + b \in Int
  <2>3. p + q = p + q + 0
    OBVIOUS
  <2>4. QED
    BY <1>1, <1>2, <2>2, <2>3, Zenon
<1>6. CASE r + s >= m
  <2>1. m * (p + q + 1) <= a + b /\ a + b < m * (p + q + 1) + m
    BY <1>1, <1>2, <1>3, <1>4, <1>6
  <2>2. (a + b) \div m = p + q + 1
    BY <1>3, <2>1, QuotientIs, a + b \in Int
  <2>3. QED
    BY <1>1, <1>2, <2>2, Zenon
<1>7. QED
  BY <1>5, <1>6

LEMMA SmallSelf ==
    ASSUME NEW a \in Nat, NEW m \in Nat \ {0}, a < m
    PROVE  a % m = a
<1> DEFINE x == a % m
<1>1. a = m * (a \div m) + x /\ x \in 0 .. m - 1
  BY Divided
<1>2. m * 0 = 0
  OBVIOUS
<1>3. a \div m = 0
  BY <1>2, QuotientIs, 0 \in Int
<1> HIDE DEF x
<1>4. a = 0 + x
  BY <1>1, <1>2, <1>3, Zenon
<1>5. QED
  BY <1>1, <1>4 DEF x

LEMMA RemainderIs ==
    ASSUME NEW a \in Nat, NEW m \in Nat \ {0}, NEW q \in Nat, m * q <= a, a < m * q + m
    PROVE  a % m = a - m * q
<1> DEFINE x == a % m
           y == m * q
<1>1. a = m * (a \div m) + x /\ x \in 0 .. m - 1
  BY Divided
<1>2. a \div m = q
  BY QuotientIs, a \in Int, q \in Int
<1>3. y \in Int
  BY IntProduct
<1> HIDE DEF x
<1>4. a = y + x
  BY <1>1, <1>2
<1> HIDE DEF y
<1>5. x = a - y
  BY <1>1, <1>3, <1>4
<1>6. QED
  BY <1>5 DEF x, y
-----------------------------------------------------------------------------
(* Induction.                                                              *)

\* Every set of natural numbers that is not empty has a least member.
LEMMA Least ==
    ASSUME NEW T \in SUBSET Nat, T # {}
    PROVE  \E x \in T : \A y \in T : x <= y
<1> DEFINE R == OpToRel(<, Nat)
<1>1. IsWellFoundedOn(R, Nat)
  BY NatLessThanWellFounded, Zenon
<1>2. \A x, y \in Nat : x < y => <<x, y>> \in R
  BY DEF OpToRel
<1> HIDE DEF R
<1>3. \E x \in T : \A y \in T : ~(<<y, x>> \in R)
  BY <1>1, WFMin
<1>4. PICK x \in T : \A y \in T : ~(<<y, x>> \in R)
  BY <1>3
<1>5. \A y \in T : ~(y < x)
  BY <1>2, <1>4, T \subseteq Nat
<1>6. \A y \in T : x <= y
  <2> HIDE <1>2, <1>4
  <2> QED
    BY <1>5, T \subseteq Nat
<1>7. QED
  BY <1>6

\* Induction, for a set of numbers.
LEMMA Induction ==
    ASSUME NEW T \in SUBSET Nat, 0 \in T, \A n \in T : n + 1 \in T
    PROVE  T = Nat
<1> SUFFICES ASSUME Nat \ T # {} PROVE FALSE
  OBVIOUS
<1>1. PICK x \in Nat \ T : \A y \in Nat \ T : x <= y
  <2> DEFINE U == Nat \ T
  <2>1. U \in SUBSET Nat /\ U # {}
    OBVIOUS
  <2> HIDE DEF U
  <2>2. \E x \in U : \A y \in U : x <= y
    BY <2>1, Least
  <2>3. QED
    BY <2>2 DEF U
<1>2. x # 0 /\ x - 1 \in Nat
  BY <1>1
<1>3. x - 1 \in T
  BY <1>1, <1>2
<1>4. QED
  BY <1>1, <1>3

\* What Min and Max choose.
LEMMA LeastOf ==
    ASSUME NEW T \in SUBSET Nat, T # {}
    PROVE  Min(T) \in T /\ \A y \in T : Min(T) <= y
<1>1. \E x \in T : \A y \in T : x <= y
  BY Least
<1>2. QED
  BY <1>1 DEF Min

LEMMA GreatestOf ==
    ASSUME NEW n \in Nat, NEW T \in SUBSET (1 .. n), T # {}
    PROVE  Max(T) \in T /\ \A y \in T : y <= Max(T)
<1> DEFINE U == {n - y : y \in T}
<1>1. U \in SUBSET Nat /\ U # {}
  <2>1. \A y \in T : n - y \in Nat
    OBVIOUS
  <2>2. \A u \in U : u \in Nat
    BY <2>1
  <2>3. PICK y \in T : TRUE
    OBVIOUS
  <2>4. n - y \in U
    OBVIOUS
  <2>5. QED
    BY <2>2, <2>4
<1>2. PICK u \in U : \A y \in U : u <= y
  <2> HIDE DEF U
  <2>1. QED
    BY <1>1, Least
<1>3. PICK x \in T : u = n - x
  OBVIOUS
<1>4. ASSUME NEW y \in T PROVE y <= x
  <2>1. n - y \in U
    OBVIOUS
  <2>2. n - x <= n - y
    BY <1>2, <1>3, <2>1
  <2>3. QED
    BY <1>3, <2>2
<1>5. \E z \in T : \A y \in T : y <= z
  BY <1>4
<1>6. QED
  BY <1>5 DEF Max

\* f goes from e at m up to m + n, each value made from the one before it.
Continues(f, A, m, n, e, step) ==
    /\ f \in [m .. m + n -> A]
    /\ f[m] = e
    /\ \A i \in m + 1 .. m + n : f[i] = step[<<i, f[i - 1]>>]

\* Such a function exists.
LEMMA Continued ==
    ASSUME NEW A, NEW e \in A, NEW m \in Nat, NEW n \in Nat, NEW step \in [Nat \X A -> A]
    PROVE  \E f : Continues(f, A, m, n, e, step)
<1> DEFINE Fits(k, f) == /\ f \in [m .. m + k -> A]
                         /\ f[m] = e
                         /\ \A i \in m + 1 .. m + k : f[i] = step[<<i, f[i - 1]>>]
           T == {k \in Nat : \E f : Fits(k, f)}
<1>1. 0 \in T
  <2> DEFINE f == [i \in m .. m + 0 |-> e]
  <2>1. Fits(0, f)
    OBVIOUS
  <2>2. QED
    BY <2>1
<1>2. ASSUME NEW k \in T
      PROVE  k + 1 \in T
  <2>1. PICK f : Fits(k, f)
    OBVIOUS
  <2> DEFINE x == step[<<m + k + 1, f[m + k]>>]
             g == [i \in m .. m + (k + 1) |-> IF i = m + k + 1 THEN x ELSE f[i]]
  <2>2. k \in Nat /\ f[m + k] \in A /\ x \in A
    BY <2>1
  <2>3. g \in [m .. m + (k + 1) -> A]
    BY <2>1, <2>2
  <2>4. g[m] = e
    BY <2>1, <2>2
  <2>5. ASSUME NEW i \in m + 1 .. m + (k + 1)
        PROVE  g[i] = step[<<i, g[i - 1]>>]
    <3>1. i - 1 \in m .. m + k /\ g[i - 1] = f[i - 1]
      BY <2>2
    <3>2. CASE i = m + k + 1
      <4>1. i - 1 = m + k /\ g[i] = x
        BY <2>2, <3>2
      <4>2. QED
        BY <3>1, <3>2, <4>1
    <3>3. CASE i # m + k + 1
      <4>1. i \in m + 1 .. m + k /\ g[i] = f[i]
        BY <2>2, <3>3
      <4>2. QED
        BY <2>1, <3>1, <4>1
    <3>4. QED
      BY <3>2, <3>3
  <2> HIDE DEF g
  <2>6. Fits(k + 1, g)
    BY <2>3, <2>4, <2>5
  <2>7. QED
    BY <2>2, <2>6
<1>3. T = Nat
  <2> HIDE DEF T
  <2>1. T \in SUBSET Nat
    BY DEF T
  <2>2. QED
    BY <1>1, <1>2, <2>1, Induction
<1>4. QED
  BY <1>3 DEF Continues
-----------------------------------------------------------------------------
(* Sequences.                                                              *)

\* w is v behind u.
Behind(w, u, v) ==
    /\ Len(u) \in Nat /\ Len(v) \in Nat /\ Len(w) = Len(u) + Len(v)
    /\ \A i \in 1 .. Len(u) : w[i] = u[i]
    /\ \A i \in 1 .. Len(v) : w[Len(u) + i] = v[i]

LEMMA Joined ==
    ASSUME NEW S, NEW u \in Seq(S), NEW v \in Seq(S)
    PROVE  u \o v \in Seq(S) /\ Behind(u \o v, u, v)
BY ConcatProperties DEF Behind

\* Each place of w is one of u or one of v.
LEMMA BehindPlaces ==
    ASSUME NEW u, NEW v, NEW w, Behind(w, u, v), NEW i \in 1 .. Len(w)
    PROVE  \/ i \in 1 .. Len(u) /\ w[i] = u[i]
           \/ i - Len(u) \in 1 .. Len(v) /\ i = Len(u) + (i - Len(u)) /\ w[i] = v[i - Len(u)]
<1>1. Len(u) \in Nat /\ Len(v) \in Nat /\ Len(w) = Len(u) + Len(v)
  BY DEF Behind
<1>2. CASE i <= Len(u)
  <2>1. i \in 1 .. Len(u)
    BY <1>1, <1>2
  <2>2. QED
    BY <2>1 DEF Behind
<1>3. CASE i > Len(u)
  <2> DEFINE j == i - Len(u)
  <2>1. j \in 1 .. Len(v) /\ i = Len(u) + j
    BY <1>1, <1>3
  <2> HIDE DEF j
  <2>2. w[i] = v[j]
    BY <2>1 DEF Behind
  <2>3. QED
    BY <2>1, <2>2 DEF j
<1>4. QED
  BY <1>1, <1>2, <1>3

\* What a member of Seq(S) is.
LEMMA SeqFacts ==
    ASSUME NEW S, NEW q \in Seq(S)
    PROVE  /\ Len(q) \in Nat /\ DOMAIN q = 1 .. Len(q)
           /\ q # <<>> => Len(q) >= 1
           /\ \A i \in 1 .. Len(q) : q[i] \in S
<1>1. Len(q) \in Nat /\ DOMAIN q = 1 .. Len(q)
  OBVIOUS
<1>2. \A i \in 1 .. Len(q) : q[i] \in S
  BY ElementOfSeq
<1>3. q # <<>> => Len(q) >= 1
  BY <1>1, EmptySeq
<1>4. QED
  BY <1>1, <1>2, <1>3

\* q is r with one element more.
Longer(q, r, e) ==
    /\ Len(r) \in Nat /\ Len(q) = Len(r) + 1 /\ q[Len(r) + 1] = e
    /\ \A i \in 1 .. Len(r) : q[i] = r[i]

LEMMA AppendLonger ==
    ASSUME NEW S, NEW r \in Seq(S), NEW e \in S
    PROVE  Append(r, e) \in Seq(S) /\ Longer(Append(r, e), r, e)
BY AppendProperties, SeqFacts DEF Longer

LEMMA LongerPlaces ==
    ASSUME NEW q, NEW r, NEW e, Longer(q, r, e), NEW i \in 1 .. Len(q)
    PROVE  (i \in 1 .. Len(r) /\ q[i] = r[i]) \/ (i = Len(r) + 1 /\ q[i] = e)
<1>1. Len(r) \in Nat /\ Len(q) = Len(r) + 1
  BY DEF Longer
<1>2. i \in 1 .. Len(r) \/ i = Len(r) + 1
  BY <1>1
<1>3. QED
  BY <1>2 DEF Longer

LEMMA LongerHas ==
    ASSUME NEW q, NEW r, NEW e, Longer(q, r, e)
    PROVE  /\ Len(r) + 1 \in 1 .. Len(q) /\ q[Len(r) + 1] = e
           /\ \A i \in 1 .. Len(r) : i \in 1 .. Len(q) /\ q[i] = r[i]
BY DEF Longer

\* A sequence that lies in another one.
LEMMA CutOut ==
    ASSUME NEW S, NEW d, NEW a \in Nat, NEW q \in Seq(S), \A i \in 1 .. Len(q) : d[a + i] = q[i]
    PROVE  SubSeq(d, a + 1, a + Len(q)) = q
<1> DEFINE b == a + 1
           e == a + Len(q)
           r == SubSeq(d, b, e)
           k == Len(q)
<1>1. k \in Nat /\ \A i \in 1 .. k : q[i] \in S
  BY SeqFacts
<1>2. b \in Int /\ e \in Int /\ e - b + 1 = k
  BY <1>1
<1>3. ASSUME NEW i \in b .. e PROVE d[i] \in S
  <2> DEFINE j == i - a
  <2>1. j \in 1 .. k /\ a + j = i
    BY <1>1
  <2> HIDE DEF j
  <2>2. QED
    BY <1>1, <2>1
<1> HIDE DEF b, e
<1>4. /\ r \in Seq(S) /\ Len(r) = IF b <= e THEN e - b + 1 ELSE 0
      /\ \A i \in 1 .. e - b + 1 : r[i] = d[b + i - 1]
  BY <1>2, <1>3, SubSeqProperties
<1>5. Len(r) = k
  BY <1>1, <1>2, <1>4
<1>6. ASSUME NEW i \in 1 .. k PROVE r[i] = q[i]
  <2>1. b + i - 1 = a + i
    BY <1>1 DEF b
  <2>2. QED
    BY <1>2, <1>4, <2>1
<1> HIDE DEF r
<1>7. r = q
  BY <1>4, <1>5, <1>6, SeqEqual
<1>8. QED
  BY <1>7 DEF r, b, e

-----------------------------------------------------------------------------
(* The first n of the sequences f[1], f[2], ... put together.              *)

Flat(f, n) == FlattenSeq([i \in 1 .. n |-> f[i]])

\* h is the sequence of their unions, as far as n.
Flattens(h, f, n) ==
    /\ DOMAIN h = 1 .. n
    /\ h[1] = f[1]
    /\ \A i \in 2 .. n : h[i] = h[i - 1] \o f[i]

LEMMA FlatIs ==
    ASSUME NEW S, NEW f, NEW n \in Nat \ {0}, \A i \in 1 .. n : f[i] \in Seq(S)
    PROVE  \E h : Flattens(h, f, n) /\ Flat(f, n) = h[n] /\ \A i \in 1 .. n : h[i] \in Seq(S)
<1> DEFINE A == Seq(S)
           k == n - 1
           step == [y \in Nat \X A |-> IF y[1] \in 1 .. n THEN y[2] \o f[y[1]] ELSE y[2]]
           seqs == [i \in 1 .. n |-> f[i]]
           Def(g) == [i \in 1 .. Len(seqs) |-> IF i = 1 THEN seqs[i] ELSE g[i - 1] \o seqs[i]]
           flatten == CHOOSE g : g = Def(g)
<1>1. k \in Nat /\ 1 + k = n /\ f[1] \in A
  OBVIOUS
<1>2. step \in [Nat \X A -> A]
  <2>1. ASSUME NEW y \in Nat \X A, y[1] \in 1 .. n
        PROVE  y[2] \o f[y[1]] \in A
    <3>1. y[2] \in Seq(S) /\ f[y[1]] \in Seq(S)
      BY <2>1
    <3>2. QED
      BY <3>1, ConcatProperties
  <2>2. QED
    BY <2>1
<1>3. PICK h : Continues(h, A, 1, k, f[1], step)
  <2> HIDE DEF k, step, A
  <2>1. 1 \in Nat
    OBVIOUS
  <2>2. QED
    BY <1>1, <1>2, <2>1, Continued
<1>4. h \in [1 .. n -> A] /\ h[1] = f[1] /\ \A i \in 2 .. n : h[i] = step[<<i, h[i - 1]>>]
  <2>1. 1 + 1 = 2
    OBVIOUS
  <2> HIDE DEF step, A, k
  <2>2. QED
    BY <1>1, <1>3, <2>1 DEF Continues
<1>5. ASSUME NEW i \in 2 .. n PROVE h[i] = h[i - 1] \o f[i]
  <2>1. i - 1 \in 1 .. n /\ i \in 1 .. n /\ h[i - 1] \in A /\ i \in Nat
    BY <1>4
  <2>2. <<i, h[i - 1]>> \in Nat \X A
    BY <2>1
  <2>3. QED
    BY <1>4, <2>1, <2>2
<1>6. Len(seqs) = n /\ \A i \in 1 .. n : seqs[i] = f[i]
  OBVIOUS
<1>7. h = Def(h)
  <2>1. \A i \in 1 .. n : h[i] = IF i = 1 THEN seqs[i] ELSE h[i - 1] \o seqs[i]
    <3>1. \A i \in 1 .. n : i = 1 \/ i \in 2 .. n
      OBVIOUS
    <3> HIDE DEF seqs, step
    <3>2. ASSUME NEW i \in 1 .. n
          PROVE  h[i] = IF i = 1 THEN seqs[i] ELSE h[i - 1] \o seqs[i]
      <4>1. CASE i = 1
        BY <1>4, <1>6, <4>1
      <4>2. CASE i # 1
        <5>1. i \in 2 .. n
          BY <3>1, <4>2
        <5>2. h[i] = h[i - 1] \o f[i] /\ seqs[i] = f[i]
          BY <1>5, <1>6, <5>1
        <5>3. QED
          BY <4>2, <5>2
      <4>3. QED
        BY <4>1, <4>2
    <3>3. QED
      BY <3>2
  <2>2. h = [i \in 1 .. n |-> h[i]]
    BY <1>4
  <2> HIDE DEF seqs
  <2>3. QED
    BY <1>6, <2>1, <2>2
<1>8. flatten = Def(flatten)
  <2> HIDE DEF Def
  <2>1. \E g : g = Def(g)
    BY <1>7
  <2>2. QED
    BY <2>1
<1>9. Flat(f, n) = flatten[n]
  <2>1. FlattenSeq(seqs) = flatten[Len(seqs)]
    BY <1>6 DEF FlattenSeq
  <2>2. QED
    BY <1>6, <2>1 DEF Flat
<1> HIDE DEF flatten, step
<1>10. DOMAIN flatten = 1 .. n /\ \A i \in 1 .. n : flatten[i] = IF i = 1 THEN f[1] ELSE flatten[i - 1] \o f[i]
  <2> HIDE DEF seqs
  <2>1. flatten = [i \in 1 .. n |-> IF i = 1 THEN seqs[i] ELSE flatten[i - 1] \o seqs[i]]
    BY <1>6, <1>8, Zenon
  <2>2. QED
    BY <1>6, <2>1
<1>11. Flattens(flatten, f, n)
  <2>1. 1 \in 1 .. n /\ \A i \in 2 .. n : i \in 1 .. n /\ i # 1
    OBVIOUS
  <2>2. QED
    BY <1>10, <2>1 DEF Flattens
<1> DEFINE T == {x \in Nat : x + 1 <= n => flatten[x + 1] \in A}
<1>12. 0 \in T
  BY <1>1, <1>11 DEF Flattens
<1>13. ASSUME NEW x \in T PROVE x + 1 \in T
  <2> SUFFICES ASSUME (x + 1) + 1 <= n PROVE flatten[(x + 1) + 1] \in A
    OBVIOUS
  <2>1. x \in Nat /\ flatten[x + 1] \in A
    OBVIOUS
  <2> DEFINE y == (x + 1) + 1
  <2>2. y \in 2 .. n /\ y \in 1 .. n /\ y - 1 = x + 1
    BY <2>1
  <2> HIDE DEF y, A
  <2>3. flatten[y] = flatten[x + 1] \o f[y] /\ f[y] \in A
    BY <1>11, <2>2 DEF Flattens, A
  <2>4. flatten[y] \in A
    BY <2>1, <2>3, ConcatProperties DEF A
  <2>5. QED
    BY <2>4 DEF y
<1>14. T = Nat
  <2> HIDE DEF T
  <2>1. T \in SUBSET Nat
    BY DEF T
  <2>2. QED
    BY <1>12, <1>13, <2>1, Induction
<1>15. ASSUME NEW i \in 1 .. n PROVE flatten[i] \in A
  <2>1. i - 1 \in T /\ (i - 1) + 1 = i /\ i <= n
    <3> HIDE DEF T
    <3>1. QED
      BY <1>14
  <2>2. QED
    BY <2>1
<1>16. QED
  BY <1>9, <1>11, <1>15

\* Two such sequences agree.
LEMMA FlattensOnce ==
    ASSUME NEW f, NEW n \in Nat \ {0}, NEW k \in Nat, n <= k,
           NEW g, Flattens(g, f, n), NEW h, Flattens(h, f, k)
    PROVE  g[n] = h[n]
<1> DEFINE T == {x \in Nat : x + 1 <= n => g[x + 1] = h[x + 1]}
<1>1. 0 \in T
  BY DEF Flattens
<1>2. ASSUME NEW x \in T PROVE x + 1 \in T
  <2> SUFFICES ASSUME (x + 1) + 1 <= n PROVE g[(x + 1) + 1] = h[(x + 1) + 1]
    OBVIOUS
  <2> DEFINE y == (x + 1) + 1
  <2>1. x \in Nat /\ g[x + 1] = h[x + 1]
    OBVIOUS
  <2>2. y \in 2 .. n /\ y \in 2 .. k /\ y - 1 = x + 1
    BY <2>1
  <2> HIDE DEF y
  <2>3. g[y] = h[y]
    BY <2>1, <2>2 DEF Flattens
  <2>4. QED
    BY <2>3 DEF y
<1>3. T = Nat
  <2> HIDE DEF T
  <2>1. T \in SUBSET Nat
    BY DEF T
  <2>2. QED
    BY <1>1, <1>2, <2>1, Induction
<1>4. n - 1 \in T /\ (n - 1) + 1 = n
  <2> HIDE DEF T
  <2>1. QED
    BY <1>3
<1>5. QED
  BY <1>4

\* What FlattenSeq puts together: nothing, and one sequence after the other.
LEMMA FlatNone == ASSUME NEW f PROVE Flat(f, 0) = <<>>
<1> DEFINE seqs == [i \in 1 .. 0 |-> f[i]]
<1>1. seqs = <<>> /\ Len(seqs) = 0
  OBVIOUS
<1> HIDE DEF seqs
<1>2. FlattenSeq(seqs) = seqs
  BY <1>1 DEF FlattenSeq
<1>3. QED
  BY <1>1, <1>2 DEF Flat, seqs

LEMMA FlatNext ==
    ASSUME NEW S, NEW f, NEW n \in Nat, \A i \in 1 .. n + 1 : f[i] \in Seq(S)
    PROVE  /\ Flat(f, n) \in Seq(S)
           /\ Flat(f, n + 1) = Flat(f, n) \o f[n + 1]
<1>1. PICK h : Flattens(h, f, n + 1) /\ Flat(f, n + 1) = h[n + 1] /\ \A i \in 1 .. n + 1 : h[i] \in Seq(S)
  <2> DEFINE k == n + 1
  <2>1. k \in Nat \ {0} /\ \A i \in 1 .. k : f[i] \in Seq(S)
    OBVIOUS
  <2> HIDE DEF k
  <2>2. \E h : Flattens(h, f, k) /\ Flat(f, k) = h[k] /\ \A i \in 1 .. k : h[i] \in Seq(S)
    BY <2>1, FlatIs
  <2>3. QED
    BY <2>2 DEF k
<1>2. CASE n = 0
  <2>1. Flat(f, n) = <<>>
    BY <1>2, FlatNone
  <2>2. Flat(f, n + 1) = f[n + 1] /\ f[n + 1] \in Seq(S)
    BY <1>1, <1>2 DEF Flattens
  <2> HIDE DEF Flat
  <2>3. QED
    BY <2>1, <2>2
<1>3. CASE n # 0
  <2>1. n \in Nat \ {0} /\ \A i \in 1 .. n : f[i] \in Seq(S)
    BY <1>3
  <2>2. PICK g : Flattens(g, f, n) /\ Flat(f, n) = g[n] /\ \A i \in 1 .. n : g[i] \in Seq(S)
    BY <2>1, FlatIs
  <2>3. n + 1 \in Nat /\ n <= n + 1
    OBVIOUS
  <2>4. g[n] = h[n]
    BY <1>1, <2>1, <2>2, <2>3, FlattensOnce
  <2>5. n + 1 \in 2 .. n + 1 /\ (n + 1) - 1 = n /\ n \in 1 .. n
    BY <1>3
  <2>6. h[n + 1] = h[n] \o f[n + 1]
    BY <1>1, <2>5 DEF Flattens
  <2>7. QED
    BY <1>1, <2>2, <2>4, <2>5, <2>6
<1>4. QED
  BY <1>2, <1>3
=============================================================================
