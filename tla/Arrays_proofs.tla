---------------------------- MODULE Arrays_proofs ---------------------------
(* Lemmas on arrays and logs: what additions, removals and replacements do *)
(* to a duplicate-free array, and what sums over a log or a finite set are. *)
EXTENDS Integers, Roster, FiniteSets, Functions, SequenceTheorems, FiniteSetTheorems,
        WellFoundedInduction, TLAPS

\* A function on 1..n is a sequence of length n.
LEMMA LenOfFunction ==
  ASSUME NEW S, NEW n \in Nat, NEW f \in [1..n -> S]
  PROVE  f \in Seq(S) /\ Len(f) = n /\ DOMAIN f = 1..n
<1>1. f \in Seq(S)
  BY SeqDef
<1>2. Len(f) \in Nat /\ 1..Len(f) = 1..n
  BY <1>1, LenProperties
<1>3. Len(f) = n
  <2>1. CASE n < Len(f)
    <3>1. Len(f) \in 1..Len(f)
      BY <1>2, <2>1
    <3> QED BY <1>2, <2>1, <3>1
  <2>2. CASE Len(f) < n
    <3>1. n \in 1..n
      BY <1>2, <2>2
    <3> QED BY <1>2, <2>2, <3>1
  <2> QED BY <1>2, <2>1, <2>2
<1> QED BY <1>1, <1>3

\* Pushing a new account adds it and leaves no duplicates.
LEMMA AppendAdds ==
  ASSUME NEW S, NEW ms \in Seq(S), NEW a \in S,
         NoDuplicates(ms), a \notin Elements(ms)
  PROVE  /\ Append(ms, a) \in Seq(S)
         /\ Len(Append(ms, a)) = Len(ms) + 1
         /\ NoDuplicates(Append(ms, a))
         /\ Elements(Append(ms, a)) = Elements(ms) \cup {a}
<1> DEFINE n == Len(ms)
           r == Append(ms, a)
<1>1. n \in Nat /\ ms \in [1..n -> S] /\ DOMAIN ms = 1..n
  BY LenProperties
<1>2. /\ r \in Seq(S)
      /\ Len(r) = n + 1
      /\ DOMAIN r = 1..(n + 1)
      /\ \A i \in 1..n : r[i] = ms[i]
      /\ r[n + 1] = a
  BY <1>1, AppendProperties, LenProperties
<1> HIDE DEF n, r
<1>3. Elements(r) \subseteq Elements(ms) \cup {a}
  BY <1>1, <1>2 DEF Elements
<1>4. Elements(ms) \subseteq Elements(r)
  BY <1>1, <1>2 DEF Elements
<1>5. a \in Elements(r)
  BY <1>1, <1>2 DEF Elements
<1>6. NoDuplicates(r)
  BY <1>1, <1>2 DEF NoDuplicates, Elements
<1> USE DEF n, r
<1> QED BY <1>2, <1>3, <1>4, <1>5, <1>6

\* Appending to a log.
LEMMA AppendTyped ==
  ASSUME NEW S, NEW log \in Seq(S), NEW e \in S
  PROVE  /\ Append(log, e) \in Seq(S) /\ Len(log) \in Nat /\ Len(Append(log, e)) = Len(log) + 1
         /\ Append(log, e)[Len(log) + 1] = e
         /\ \A i \in 1..Len(log) : log[i] \in S /\ Append(log, e)[i] = log[i]
BY AppendProperties, LenProperties, ElementOfSeq

\* Swap-and-pop of a member of a duplicate-free array removes that member,
\* keeps every other one, and leaves no duplicates.
LEMMA SwapAndPopRemoves ==
  ASSUME NEW S, NEW ms \in Seq(S), NEW k \in 1..Len(ms),
         NoDuplicates(ms)
  PROVE  /\ SwapAndPop(ms, ms[k]) \in Seq(S)
         /\ Len(SwapAndPop(ms, ms[k])) = Len(ms) - 1
         /\ NoDuplicates(SwapAndPop(ms, ms[k]))
         /\ Elements(SwapAndPop(ms, ms[k])) = Elements(ms) \ {ms[k]}
<1> DEFINE n == Len(ms)
           r == SwapAndPop(ms, ms[k])
<1>1. n \in Nat /\ n >= 1 /\ k \in 1..n /\ ms \in [1..n -> S]
  BY LenProperties
<1>2. r = [i \in 1..(n - 1) |-> IF i = k THEN ms[n] ELSE ms[i]]
  BY <1>1 DEF SwapAndPop, NoDuplicates
<1>3. r \in [1..(n - 1) -> S]
  BY <1>1, <1>2
<1>4. n - 1 \in Nat
  BY <1>1
<1>5. r \in Seq(S) /\ Len(r) = n - 1 /\ DOMAIN r = 1..(n - 1)
  BY <1>3, <1>4, LenOfFunction
<1>6. NoDuplicates(r)
  BY <1>1, <1>2, <1>5 DEF NoDuplicates
<1>7. Elements(r) \subseteq Elements(ms) \ {ms[k]}
  BY <1>1, <1>2, <1>5 DEF Elements, NoDuplicates
<1> HIDE DEF n, r
<1>8. ASSUME NEW i \in 1..n, i # k
      PROVE  \E j \in 1..(n - 1) : r[j] = ms[i]
  <2>1. CASE i = n
    <3>1. k \in 1..(n - 1)
      BY <1>1, <1>8, <2>1
    <3>2. r[k] = ms[i]
      BY <1>2, <2>1, <3>1
    <3> QED BY <3>1, <3>2
  <2>2. CASE i # n
    <3>1. i \in 1..(n - 1)
      BY <1>1, <1>8, <2>2
    <3>2. r[i] = ms[i]
      BY <1>2, <1>8, <3>1
    <3> QED BY <3>1, <3>2
  <2> QED BY <2>1, <2>2
<1>9. Elements(ms) \ {ms[k]} \subseteq Elements(r)
  BY <1>1, <1>5, <1>8 DEF Elements
<1> USE DEF n, r
<1> QED BY <1>5, <1>6, <1>7, <1>9

\* Replacing a member of a duplicate-free array by an account that is none
\* exchanges the two and leaves no duplicates.
LEMMA SubstituteReplaces ==
  ASSUME NEW S, NEW ms \in Seq(S), NEW k \in 1..Len(ms), NEW b \in S,
         NoDuplicates(ms), b \notin Elements(ms)
  PROVE  /\ Substitute(ms, ms[k], b) \in Seq(S)
         /\ Len(Substitute(ms, ms[k], b)) = Len(ms)
         /\ NoDuplicates(Substitute(ms, ms[k], b))
         /\ Elements(Substitute(ms, ms[k], b)) = (Elements(ms) \ {ms[k]}) \cup {b}
<1> DEFINE n == Len(ms)
           r == Substitute(ms, ms[k], b)
<1>1. n \in Nat /\ k \in 1..n /\ ms \in [1..n -> S] /\ DOMAIN ms = 1..n
  BY LenProperties
<1>2. r = [i \in 1..n |-> IF i = k THEN b ELSE ms[i]]
  BY <1>1 DEF Substitute, NoDuplicates
<1>3. r \in [1..n -> S]
  BY <1>1, <1>2
<1>4. r \in Seq(S) /\ Len(r) = n /\ DOMAIN r = 1..n
  BY <1>1, <1>3, LenOfFunction
<1>5. NoDuplicates(r)
  BY <1>1, <1>2, <1>4 DEF NoDuplicates, Elements
<1>6. Elements(r) \subseteq (Elements(ms) \ {ms[k]}) \cup {b}
  BY <1>1, <1>2, <1>4 DEF Elements, NoDuplicates
<1>7. (Elements(ms) \ {ms[k]}) \cup {b} \subseteq Elements(r)
  BY <1>1, <1>2, <1>4 DEF Elements
<1> QED BY <1>4, <1>5, <1>6, <1>7

\* A duplicate-free array has as many elements as positions, and those of any set
\* V stand at as many positions as there are of them.
LEMMA CountingElements ==
  ASSUME NEW S, NEW ms \in Seq(S), NoDuplicates(ms), NEW V
  PROVE  /\ IsFiniteSet(Elements(ms))
         /\ Cardinality(Elements(ms)) = Len(ms)
         /\ IsFiniteSet(Elements(ms) \cap V)
         /\ Cardinality({i \in DOMAIN ms : ms[i] \in V}) = Cardinality(Elements(ms) \cap V)
<1> DEFINE I == {i \in DOMAIN ms : ms[i] \in V}
           f == [i \in I |-> ms[i]]
           g == [i \in DOMAIN ms |-> ms[i]]
<1>1. Len(ms) \in Nat /\ DOMAIN ms = 1..Len(ms)
  BY LenProperties
<1>2. IsFiniteSet(DOMAIN ms) /\ Cardinality(DOMAIN ms) = Len(ms)
  <2>1. /\ IsFiniteSet(1..Len(ms))
        /\ Cardinality(1..Len(ms)) = IF 1 > Len(ms) THEN 0 ELSE Len(ms) - 1 + 1
    BY <1>1, FS_Interval
  <2> QED BY <1>1, <2>1
<1>3. g \in Bijection(DOMAIN ms, Elements(ms))
  BY DEF NoDuplicates, Elements, Bijection, Injection, Surjection, IsInjective
<1>4. f \in Bijection(I, Elements(ms) \cap V)
  BY DEF NoDuplicates, Elements, Bijection, Injection, Surjection, IsInjective
<1>5. IsFiniteSet(I)
  BY <1>2, FS_Subset
<1>6. IsFiniteSet(Elements(ms)) /\ Cardinality(Elements(ms)) = Len(ms)
  BY <1>2, <1>3, FS_Bijection DEF ExistsBijection
<1>7. IsFiniteSet(Elements(ms) \cap V) /\ Cardinality(I) = Cardinality(Elements(ms) \cap V)
  BY <1>4, <1>5, FS_Bijection DEF ExistsBijection
<1> QED BY <1>6, <1>7

-----------------------------------------------------------------------------
\* Induction over the natural numbers, with a set in place of the formula.
LEMMA SetInduction ==
  ASSUME NEW S, 0 \in S, \A n \in Nat : n \in S => n + 1 \in S
  PROVE  \A n \in Nat : n \in S
<1> DEFINE R == OpToRel(<, Nat)
           T == Nat \ S
<1>1. \A x, y \in Nat : x < y => <<x, y>> \in R
  BY DEF OpToRel
<1>2. IsWellFoundedOn(R, Nat)
  BY NatLessThanWellFounded
<1> HIDE DEF R
<1>3. SUFFICES ASSUME T # {} PROVE FALSE
  OBVIOUS
<1>4. PICK m \in T : \A y \in T : ~ (<<y, m>> \in R)
  <2>1. T \subseteq Nat
    OBVIOUS
  <2> HIDE DEF T
  <2> QED BY <1>2, <1>3, <2>1, WFMin
<1>5. m \in Nat /\ m \notin S /\ m - 1 \in Nat
  OBVIOUS
<1>6. <<m - 1, m>> \in R
  <2>1. m - 1 < m
    BY <1>5
  <2> HIDE DEF T
  <2> QED BY <1>1, <1>5, <2>1
<1>7. m - 1 \in S
  BY <1>4, <1>5, <1>6
<1> QED BY <1>5, <1>7

\* f holds the partial sums of w[1], ..., w[n].
Sums(f, w, n) == f = [i \in 0..n |-> IF i = 0 THEN 0 ELSE f[i - 1] + w[i]]

LEMMA SumsAt ==
  ASSUME NEW n \in Nat, NEW w, NEW f, Sums(f, w, n)
  PROVE  /\ DOMAIN f = 0..n /\ f[0] = 0
         /\ \A i \in 0..(n - 1) : f[i + 1] = f[i] + w[i + 1]
<1>1. f = [i \in 0..n |-> IF i = 0 THEN 0 ELSE f[i - 1] + w[i]]
  BY DEF Sums
<1>2. DOMAIN f = 0..n /\ f[0] = 0
  BY <1>1
<1>3. ASSUME NEW i \in 0..(n - 1) PROVE f[i + 1] = f[i] + w[i + 1]
  <2>1. i + 1 \in 0..n /\ i + 1 # 0 /\ (i + 1) - 1 = i
    OBVIOUS
  <2> QED BY <1>1, <2>1
<1> QED BY <1>2, <1>3

LEMMA SumsUnique ==
  ASSUME NEW n \in Nat, NEW v, NEW w, \A i \in 1..n : v[i] = w[i],
         NEW f, NEW g, Sums(f, v, n), Sums(g, w, n)
  PROVE  f = g
<1> DEFINE S == {k \in Nat : k <= n => f[k] = g[k]}
<1>1. 0 \in S
  BY SumsAt
<1>2. ASSUME NEW k \in Nat, k \in S PROVE k + 1 \in S
  <2>1. CASE k + 1 <= n
    <3>1. k \in 0..(n - 1) /\ k + 1 \in 1..n
      BY <2>1
    <3>2. f[k + 1] = f[k] + v[k + 1] /\ g[k + 1] = g[k] + w[k + 1]
      BY <3>1, SumsAt
    <3> QED BY <1>2, <2>1, <3>1, <3>2
  <2>2. CASE ~ k + 1 <= n
    BY <2>2
  <2> QED BY <2>1, <2>2
<1> HIDE DEF S
<1>3. \A k \in Nat : k \in S
  BY <1>1, <1>2, SetInduction
<1>4. \A k \in 0..n : f[k] = g[k]
  BY <1>3 DEF S
<1>5. /\ f = [i \in 0..n |-> IF i = 0 THEN 0 ELSE f[i - 1] + v[i]]
      /\ g = [i \in 0..n |-> IF i = 0 THEN 0 ELSE g[i - 1] + w[i]]
  BY DEF Sums
<1> QED BY <1>4, <1>5

LEMMA SumsExist ==
  ASSUME NEW n \in Nat, NEW w \in [1..n -> Int]
  PROVE  \E f \in [0..n -> Int] : Sums(f, w, n)
<1> DEFINE S == {k \in Nat : k <= n => \E f \in [0..k -> Int] : Sums(f, w, k)}
<1>1. 0 \in S
  <2> DEFINE f == [i \in 0..0 |-> 0]
  <2>1. f \in [0..0 -> Int] /\ Sums(f, w, 0)
    BY DEF Sums
  <2> QED BY <2>1
<1>2. ASSUME NEW k \in Nat, k \in S, k + 1 <= n PROVE \E f \in [0..(k + 1) -> Int] : Sums(f, w, k + 1)
  <2>1. PICK f \in [0..k -> Int] : Sums(f, w, k)
    BY <1>2
  <2> DEFINE g == [i \in 0..(k + 1) |-> IF i = k + 1 THEN f[k] + w[k + 1] ELSE f[i]]
  <2>2. w[k + 1] \in Int
    BY <1>2
  <2>3. g \in [0..(k + 1) -> Int]
    BY <2>1, <2>2
  <2>4. ASSUME NEW i \in 0..(k + 1) PROVE g[i] = IF i = 0 THEN 0 ELSE g[i - 1] + w[i]
    <3>1. CASE i = 0
      BY <3>1, <2>1, SumsAt
    <3>2. CASE i # 0 /\ i # k + 1
      <4>1. i - 1 \in 0..(k - 1) /\ (i - 1) + 1 = i
        BY <3>2
      <4>2. f[i] = f[i - 1] + w[i]
        <5>1. \A j \in 0..(k - 1) : f[j + 1] = f[j] + w[j + 1]
          BY <2>1, SumsAt
        <5>2. f[(i - 1) + 1] = f[i - 1] + w[(i - 1) + 1]
          BY <4>1, <5>1
        <5> QED BY <4>1, <5>2
      <4>3. g[i] = f[i] /\ g[i - 1] = f[i - 1]
        BY <3>2, <4>1
      <4> QED BY <3>2, <4>2, <4>3
    <3>3. CASE i = k + 1
      <4>1. i - 1 \in 0..(k + 1) /\ i - 1 # k + 1 /\ i - 1 = k
        BY <3>3
      <4>2. g[i] = f[k] + w[k + 1] /\ g[i - 1] = f[k]
        BY <3>3, <4>1
      <4> QED BY <3>3, <4>2
    <3> QED BY <3>1, <3>2, <3>3
  <2> HIDE DEF g
  <2>5. Sums(g, w, k + 1)
    <3>1. g = [i \in 0..(k + 1) |-> g[i]]
      BY <2>3
    <3> QED BY <2>4, <3>1 DEF Sums
  <2> QED BY <2>3, <2>5
<1>3. \A k \in Nat : k \in S => k + 1 \in S
  BY <1>2
<1> HIDE DEF S
<1>4. n \in S
  BY <1>1, <1>3, SetInduction
<1> QED BY <1>4 DEF S

\* One more summand.
LEMMA SumsAppend ==
  ASSUME NEW n \in Nat, NEW v, NEW w, \A i \in 1..n : v[i] = w[i],
         NEW f, NEW g, Sums(f, v, n), Sums(g, w, n + 1)
  PROVE  g[n + 1] = f[n] + w[n + 1]
<1> DEFINE h == [i \in 0..n |-> g[i]]
<1>1. /\ g[0] = 0
      /\ \A i \in 0..n : g[i + 1] = g[i] + w[i + 1]
  <2>1. \A i \in 0..((n + 1) - 1) : g[i + 1] = g[i] + w[i + 1]
    BY SumsAt
  <2> QED BY <2>1, SumsAt
<1>2. Sums(h, w, n)
  <2>1. ASSUME NEW i \in 0..n PROVE h[i] = IF i = 0 THEN 0 ELSE h[i - 1] + w[i]
    <3>1. CASE i = 0
      BY <1>1, <3>1
    <3>2. CASE i # 0
      <4>1. i - 1 \in 0..n /\ (i - 1) + 1 = i
        BY <3>2
      <4>2. g[(i - 1) + 1] = g[i - 1] + w[(i - 1) + 1]
        BY <1>1, <4>1
      <4> QED BY <3>2, <4>1, <4>2
    <3> QED BY <3>1, <3>2
  <2>2. h = [i \in 0..n |-> h[i]]
    OBVIOUS
  <2> HIDE DEF h
  <2> QED BY <2>1, <2>2 DEF Sums
<1>3. f = h
  BY <1>2, SumsUnique
<1> QED BY <1>1, <1>3

\* If each summand is at most the sum of two others, so is the total.
LEMMA SumsBelow ==
  ASSUME NEW n \in Nat, NEW u \in [1..n -> Int], NEW v \in [1..n -> Int], NEW w \in [1..n -> Int],
         \A i \in 1..n : u[i] <= v[i] + w[i],
         NEW f \in [0..n -> Int], NEW g \in [0..n -> Int], NEW h \in [0..n -> Int],
         Sums(f, u, n), Sums(g, v, n), Sums(h, w, n)
  PROVE  f[n] <= g[n] + h[n]
<1> DEFINE S == {k \in Nat : k <= n => f[k] <= g[k] + h[k]}
<1>f. f[0] = 0 /\ \A i \in 0..(n - 1) : f[i + 1] = f[i] + u[i + 1]
  BY SumsAt
<1>g. g[0] = 0 /\ \A i \in 0..(n - 1) : g[i + 1] = g[i] + v[i + 1]
  BY SumsAt
<1>h. h[0] = 0 /\ \A i \in 0..(n - 1) : h[i + 1] = h[i] + w[i + 1]
  BY SumsAt
<1>1. 0 \in S
  BY <1>f, <1>g, <1>h
<1>2. ASSUME NEW k \in Nat, k \in S PROVE k + 1 \in S
  <2>1. CASE k + 1 <= n
    <3>1. k \in 0..(n - 1) /\ k + 1 \in 1..n /\ k \in 0..n /\ k + 1 \in 0..n
      BY <2>1
    <3>2. f[k + 1] = f[k] + u[k + 1] /\ g[k + 1] = g[k] + v[k + 1] /\ h[k + 1] = h[k] + w[k + 1]
      BY <1>f, <1>g, <1>h, <3>1
    <3>3. /\ f[k] \in Int /\ g[k] \in Int /\ h[k] \in Int
          /\ u[k + 1] \in Int /\ v[k + 1] \in Int /\ w[k + 1] \in Int
      BY <3>1
    <3>4. u[k + 1] <= v[k + 1] + w[k + 1] /\ f[k] <= g[k] + h[k]
      BY <1>2, <2>1, <3>1
    <3>5. f[k + 1] <= g[k + 1] + h[k + 1]
      <4>1. \A a, b, c, d, e, l \in Int : a <= b + c /\ d <= e + l => a + d <= (b + e) + (c + l)
        OBVIOUS
      <4>2. f[k] + u[k + 1] <= (g[k] + v[k + 1]) + (h[k] + w[k + 1])
        BY <3>3, <3>4, <4>1
      <4> QED BY <3>2, <4>2
    <3> QED BY <3>5
  <2>2. CASE ~ k + 1 <= n
    BY <2>2
  <2> QED BY <2>1, <2>2
<1> HIDE DEF S
<1>3. \A k \in Nat : k \in S
  BY <1>1, <1>2, SetInduction
<1> QED BY <1>3 DEF S

\* A finite set of numbers that is not empty has a greatest one.
LEMMA FiniteMax ==
  ASSUME NEW T \in SUBSET Nat, IsFiniteSet(T), T # {}
  PROVE  \E x \in T : \A y \in T : y <= x
<1> DEFINE S == {k \in Nat : \A U \in SUBSET Nat :
                   IsFiniteSet(U) /\ U # {} /\ Cardinality(U) = k => \E x \in U : \A y \in U : y <= x}
<1>1. 0 \in S
  BY FS_EmptySet
<1>2. ASSUME NEW k \in Nat, k \in S PROVE k + 1 \in S
  <2>1. SUFFICES ASSUME NEW U \in SUBSET Nat, IsFiniteSet(U), U # {}, Cardinality(U) = k + 1
                 PROVE  \E x \in U : \A y \in U : y <= x
    OBVIOUS
  <2>2. PICK z \in U : TRUE
    BY <2>1
  <2> DEFINE R == U \ {z}
  <2>3. IsFiniteSet(R) /\ Cardinality(R) = k /\ R \in SUBSET Nat /\ z \in Nat
    <3>1. IsFiniteSet(R) /\ Cardinality(R) = Cardinality(U) - 1
      BY <2>1, FS_RemoveElement
    <3> QED BY <2>1, <3>1
  <2>4. CASE R = {}
    BY <2>1, <2>4
  <2>5. CASE R # {}
    <3>1. PICK x \in R : \A y \in R : y <= x
      BY <1>2, <2>3, <2>5
    <3>2. CASE z <= x
      BY <3>1, <3>2
    <3>3. CASE ~ z <= x
      <4>1. \A y \in U : y <= z
        BY <2>1, <2>3, <3>1, <3>3
      <4> QED BY <4>1
    <3> QED BY <3>2, <3>3
  <2> QED BY <2>4, <2>5
<1> HIDE DEF S
<1>3. \A k \in Nat : k \in S
  BY <1>1, <1>2, SetInduction
<1>4. Cardinality(T) \in Nat
  BY FS_CardinalityType
<1> QED BY <1>3, <1>4 DEF S

\* Induction over the subsets of a finite set.
LEMMA SubsetInduction ==
  ASSUME NEW S, IsFiniteSet(S), NEW F, {} \in F,
         \A T \in SUBSET S : \A x \in S \ T : T \in F => T \cup {x} \in F
  PROVE  S \in F
<1> DEFINE K == {n \in Nat : \A T \in SUBSET S : Cardinality(T) = n => T \in F}
<1>1. 0 \in K
  <2>1. \A T \in SUBSET S : Cardinality(T) = 0 => T = {}
    BY FS_Subset, FS_EmptySet
  <2> QED BY <2>1
<1>2. ASSUME NEW n \in Nat, n \in K PROVE n + 1 \in K
  <2> SUFFICES ASSUME NEW T \in SUBSET S, Cardinality(T) = n + 1 PROVE T \in F
    OBVIOUS
  <2>1. IsFiniteSet(T)
    BY FS_Subset
  <2>2. T # {}
    <3>1. Cardinality({}) = 0 BY FS_EmptySet
    <3> QED BY <3>1
  <2>3. PICK x \in T : TRUE
    BY <2>2
  <2>4. Cardinality(T \ {x}) = n
    <3>1. Cardinality(T \ {x}) = Cardinality(T) - 1 BY <2>1, <2>3, FS_RemoveElement
    <3> QED BY <3>1
  <2>5. T \ {x} \in F /\ x \in S \ (T \ {x}) /\ T \ {x} \in SUBSET S
    BY <1>2, <2>3, <2>4
  <2>6. (T \ {x}) \cup {x} = T
    BY <2>3
  <2> QED BY <2>5, <2>6
<1> HIDE DEF K
<1>3. \A n \in Nat : n \in K
  BY <1>1, <1>2, SetInduction
<1> QED BY <1>3, FS_CardinalityType DEF K

-----------------------------------------------------------------------------
(* Sums over finite sets.                                                  *)

Pick(s) == CHOOSE x \in s : TRUE

\* g sums f over each set of T.
SumsOn(g, f, T) == g = [s \in T |-> IF s = {} THEN 0 ELSE f[Pick(s)] + g[s \ {Pick(s)}]]

\* The sums over the subsets of a finite set are well defined.
LEMMA SumsOnExist ==
  ASSUME NEW f, NEW S, IsFiniteSet(S)
  PROVE  \E g : SumsOn(g, f, SUBSET S)
<1> DEFINE T(k) == {s \in SUBSET S : Cardinality(s) <= k}
           K == {k \in Nat : \E g : SumsOn(g, f, T(k))}
<1>0. \A s \in SUBSET S : IsFiniteSet(s) /\ Cardinality(s) \in Nat
  BY FS_Subset, FS_CardinalityType
<1>1. 0 \in K
  <2>1. \A s \in T(0) : s = {}
    BY <1>0, FS_EmptySet
  <2> DEFINE g == [s \in T(0) |-> 0]
  <2>2. g = [s \in T(0) |-> IF s = {} THEN 0 ELSE f[Pick(s)] + g[s \ {Pick(s)}]]
    BY <2>1
  <2>3. SumsOn(g, f, T(0))
    BY <2>2 DEF SumsOn
  <2> QED BY <2>3
<1>2. ASSUME NEW k \in Nat, k \in K PROVE k + 1 \in K
  <2>1. PICK g : SumsOn(g, f, T(k))
    BY <1>2
  <2> DEFINE R(s) == s \ {Pick(s)}
             h == [s \in T(k + 1) |-> IF s = {} THEN 0 ELSE f[Pick(s)] + g[R(s)]]
  <2>2. \A s \in T(k + 1) : s # {} => R(s) \in T(k)
    <3> SUFFICES ASSUME NEW s \in T(k + 1), s # {} PROVE R(s) \in T(k)
      OBVIOUS
    <3>1. Pick(s) \in s BY DEF Pick
    <3>2. Cardinality(R(s)) = Cardinality(s) - 1 BY <1>0, <3>1, FS_RemoveElement
    <3>3. Cardinality(s) \in Nat /\ Cardinality(s) <= k + 1 /\ R(s) \in SUBSET S
      BY <1>0
    <3> QED BY <3>2, <3>3
  <2>3. \A s \in T(k) : s \in T(k + 1) /\ h[s] = g[s]
    <3>1. \A s \in T(k) : s \in T(k + 1) BY <1>0
    <3>2. \A s \in T(k) : g[s] = IF s = {} THEN 0 ELSE f[Pick(s)] + g[R(s)]
      BY <2>1 DEF SumsOn
    <3> HIDE DEF R
    <3>3. \A s \in T(k + 1) : h[s] = IF s = {} THEN 0 ELSE f[Pick(s)] + g[R(s)]
      OBVIOUS
    <3> QED BY <3>1, <3>2, <3>3
  <2>4. h = [s \in T(k + 1) |-> IF s = {} THEN 0 ELSE f[Pick(s)] + h[R(s)]]
    <3>1. \A s \in T(k + 1) : s # {} => h[R(s)] = g[R(s)]
      BY <2>2, <2>3
    <3>2. \A s \in T(k + 1) : (IF s = {} THEN 0 ELSE f[Pick(s)] + g[R(s)])
                            = (IF s = {} THEN 0 ELSE f[Pick(s)] + h[R(s)])
      BY <3>1
    <3> QED BY <3>2
  <2> HIDE DEF h
  <2>5. SumsOn(h, f, T(k + 1))
    BY <2>4 DEF SumsOn
  <2> HIDE DEF T
  <2> QED BY <2>5
<1> HIDE DEF K
<1>3. Cardinality(S) \in K
  <2>1. \A k \in Nat : k \in K
    BY <1>1, <1>2, SetInduction
  <2> QED BY <2>1, FS_CardinalityType
<1>4. T(Cardinality(S)) = SUBSET S
  BY FS_Subset
<1> QED BY <1>3, <1>4 DEF K

\* And there is only one way to define them.
LEMMA SumsOnAgree ==
  ASSUME NEW f, NEW S, IsFiniteSet(S), NEW R \in SUBSET S,
         NEW g, NEW h, SumsOn(g, f, SUBSET S), SumsOn(h, f, SUBSET R)
  PROVE  g[R] = h[R]
<1> DEFINE K == {k \in Nat : \A s \in SUBSET R : Cardinality(s) = k => g[s] = h[s]}
<1>0. \A s \in SUBSET R : IsFiniteSet(s) /\ Cardinality(s) \in Nat
  BY FS_Subset, FS_CardinalityType
<1>1. \A s \in SUBSET R : /\ g[s] = IF s = {} THEN 0 ELSE f[Pick(s)] + g[s \ {Pick(s)}]
                          /\ h[s] = IF s = {} THEN 0 ELSE f[Pick(s)] + h[s \ {Pick(s)}]
  BY DEF SumsOn
<1>2. 0 \in K
  <2>1. \A s \in SUBSET R : Cardinality(s) = 0 => s = {}
    BY <1>0, FS_EmptySet
  <2> QED BY <1>1, <2>1
<1>3. ASSUME NEW k \in Nat, k \in K PROVE k + 1 \in K
  <2> SUFFICES ASSUME NEW s \in SUBSET R, Cardinality(s) = k + 1 PROVE g[s] = h[s]
    OBVIOUS
  <2>1. s # {}
    <3> SUFFICES ASSUME s = {} PROVE FALSE
      OBVIOUS
    <3>1. Cardinality(s) = 0 BY FS_EmptySet
    <3>2. k + 1 # 0 OBVIOUS
    <3> QED BY <3>1, <3>2
  <2>2. Pick(s) \in s BY <2>1 DEF Pick
  <2>3. Cardinality(s \ {Pick(s)}) = k
    <3>1. Cardinality(s \ {Pick(s)}) = Cardinality(s) - 1 BY <1>0, <2>2, FS_RemoveElement
    <3> QED BY <3>1
  <2>4. g[s \ {Pick(s)}] = h[s \ {Pick(s)}] BY <1>3, <2>3
  <2> QED BY <1>1, <2>1, <2>4
<1> HIDE DEF K
<1>4. \A k \in Nat : k \in K
  BY <1>2, <1>3, SetInduction
<1> QED BY <1>0, <1>4 DEF K

\* The sum over the empty set, and over any other.
LEMMA SumUnfolds ==
  ASSUME NEW f, NEW S, IsFiniteSet(S)
  PROVE  SumFunctionOnSet(f, S) =
           IF S = {} THEN 0 ELSE f[Pick(S)] + SumFunctionOnSet(f, S \ {Pick(S)})
<1> DEFINE It(R) == CHOOSE g : SumsOn(g, f, SUBSET R)
<1>1. \A R \in SUBSET S : SumFunctionOnSet(f, R) = It(R)[R] /\ SumsOn(It(R), f, SUBSET R)
  <2> SUFFICES ASSUME NEW R \in SUBSET S
               PROVE  SumFunctionOnSet(f, R) = It(R)[R] /\ SumsOn(It(R), f, SUBSET R)
    OBVIOUS
  <2>1. SumFunctionOnSet(f, R) = It(R)[R]
    BY DEF SumFunctionOnSet, FoldFunctionOnSet, MapThenFoldSet, SumsOn, Pick
  <2>2. \E g : SumsOn(g, f, SUBSET R)
    BY FS_Subset, SumsOnExist
  <2> QED BY <2>1, <2>2
<1> HIDE DEF It
<1>2. It(S)[S] = IF S = {} THEN 0 ELSE f[Pick(S)] + It(S)[S \ {Pick(S)}]
  BY <1>1 DEF SumsOn
<1> DEFINE R == S \ {Pick(S)}
<1>3. It(S)[R] = It(R)[R]
  <2>1. R \in SUBSET S /\ SumsOn(It(S), f, SUBSET S) /\ SumsOn(It(R), f, SUBSET R)
    BY <1>1
  <2> HIDE DEF R
  <2> QED BY <2>1, SumsOnAgree
<1> QED BY <1>1, <1>2, <1>3

\* Integers add up to an integer.
LEMMA SumInt ==
  ASSUME NEW f, NEW S, IsFiniteSet(S), \A x \in S : f[x] \in Int
  PROVE  SumFunctionOnSet(f, S) \in Int
<1> DEFINE Sum(T) == SumFunctionOnSet(f, T)
           K == {k \in Nat : \A T \in SUBSET S : Cardinality(T) = k => Sum(T) \in Int}
<1>0. \A T \in SUBSET S : IsFiniteSet(T) /\ Cardinality(T) \in Nat
  BY FS_Subset, FS_CardinalityType
<1>1. \A T \in SUBSET S : Sum(T) = IF T = {} THEN 0 ELSE f[Pick(T)] + Sum(T \ {Pick(T)})
  BY <1>0, SumUnfolds
<1> HIDE DEF Sum
<1>2. 0 \in K
  <2>1. \A T \in SUBSET S : Cardinality(T) = 0 => T = {}
    BY <1>0, FS_EmptySet
  <2>2. \A T \in SUBSET S : T = {} => Sum(T) \in Int
    BY <1>1
  <2> QED BY <2>1, <2>2
<1>3. ASSUME NEW k \in Nat, k \in K PROVE k + 1 \in K
  <2> SUFFICES ASSUME NEW T \in SUBSET S, Cardinality(T) = k + 1, T # {} PROVE Sum(T) \in Int
    BY <1>1
  <2>1. Pick(T) \in T BY DEF Pick
  <2>2. Cardinality(T \ {Pick(T)}) = k
    <3>1. Cardinality(T \ {Pick(T)}) = Cardinality(T) - 1 BY <1>0, <2>1, FS_RemoveElement
    <3> QED BY <3>1
  <2>3. Sum(T \ {Pick(T)}) \in Int BY <1>3, <2>2
  <2> QED BY <1>1, <2>1, <2>3
<1> HIDE DEF K
<1>4. \A k \in Nat : k \in K
  BY <1>2, <1>3, SetInduction
<1>5. Sum(S) \in Int BY <1>0, <1>4 DEF K
<1> QED BY <1>5 DEF Sum

\* The order of the summands is of no matter.
LEMMA SumSplits ==
  ASSUME NEW f, NEW S, IsFiniteSet(S), \A x \in S : f[x] \in Int, NEW x \in S
  PROVE  SumFunctionOnSet(f, S) = f[x] + SumFunctionOnSet(f, S \ {x})
<1> DEFINE Sum(T) == SumFunctionOnSet(f, T)
           Good(T) == \A y \in T : Sum(T) = f[y] + Sum(T \ {y})
           K == {k \in Nat : \A T \in SUBSET S : Cardinality(T) = k => Good(T)}
<1>0. \A T \in SUBSET S : IsFiniteSet(T) /\ Cardinality(T) \in Nat
  BY FS_Subset, FS_CardinalityType
<1>1. \A T \in SUBSET S : Sum(T) = IF T = {} THEN 0 ELSE f[Pick(T)] + Sum(T \ {Pick(T)})
  BY <1>0, SumUnfolds
<1>i. \A T \in SUBSET S : Sum(T) \in Int
  BY <1>0, SumInt
<1> HIDE DEF Sum
<1>2. 0 \in K
  <2>1. \A T \in SUBSET S : Cardinality(T) = 0 => T = {}
    BY <1>0, FS_EmptySet
  <2>2. \A T \in SUBSET S : T = {} => Good(T)
    OBVIOUS
  <2> HIDE DEF Good
  <2> QED BY <2>1, <2>2
<1>3. ASSUME NEW k \in Nat, k \in K PROVE k + 1 \in K
  <2> SUFFICES ASSUME NEW T \in SUBSET S, Cardinality(T) = k + 1, T # {} PROVE Good(T)
    OBVIOUS
  <2>1. \A y \in T : Cardinality(T \ {y}) = k
    <3> SUFFICES ASSUME NEW y \in T PROVE Cardinality(T \ {y}) = k
      OBVIOUS
    <3>1. Cardinality(T \ {y}) = Cardinality(T) - 1 BY <1>0, FS_RemoveElement
    <3> QED BY <3>1
  <2>2. \A y \in T : Good(T \ {y})
    BY <1>3, <2>1
  <2> DEFINE c == Pick(T)
  <2>4. c \in T
    BY DEF Pick
  <2>5. Sum(T) = f[c] + Sum(T \ {c})
    BY <1>1
  <2> HIDE DEF c
  <2>7. ASSUME NEW y \in T PROVE Sum(T) = f[y] + Sum(T \ {y})
    <3>1. CASE y = c BY <2>5, <3>1
    <3>2. CASE y # c
      <4> DEFINE R == (T \ {c}) \ {y}
      <4>1. Sum(T \ {c}) = f[y] + Sum((T \ {c}) \ {y}) BY <2>2, <2>4, <3>2
      <4>2. Sum(T \ {y}) = f[c] + Sum((T \ {y}) \ {c}) BY <2>2, <2>4, <3>2
      <4>3. (T \ {y}) \ {c} = R OBVIOUS
      <4>4. Sum(R) \in Int /\ f[y] \in Int /\ f[c] \in Int BY <1>i, <2>4
      <4>5. Sum(T) = f[c] + (f[y] + Sum(R)) BY <2>5, <4>1
      <4>6. Sum(T \ {y}) = f[c] + Sum(R) BY <4>2, <4>3
      <4> HIDE DEF R
      <4> QED BY <4>4, <4>5, <4>6
    <3> QED BY <3>1, <3>2
  <2> QED BY <2>7
<1> HIDE DEF K
<1>4. \A k \in Nat : k \in K
  BY <1>2, <1>3, SetInduction
<1>5. Good(S)
  BY <1>0, <1>4 DEF K
<1> QED BY <1>5 DEF Sum

\* Nothing adds up to nothing.
LEMMA SumEmpty ==
  ASSUME NEW f
  PROVE  SumFunctionOnSet(f, {}) = 0
BY FS_EmptySet, SumUnfolds

\* One more element.
LEMMA SumAdd ==
  ASSUME NEW f, NEW S, IsFiniteSet(S), NEW x, x \notin S, \A y \in S \cup {x} : f[y] \in Int
  PROVE  SumFunctionOnSet(f, S \cup {x}) = SumFunctionOnSet(f, S) + f[x]
<1>1. IsFiniteSet(S \cup {x}) /\ x \in S \cup {x} BY FS_AddElement
<1>2. (S \cup {x}) \ {x} = S OBVIOUS
<1>3. SumFunctionOnSet(f, S \cup {x}) = f[x] + SumFunctionOnSet(f, S)
  <2>1. SumFunctionOnSet(f, S \cup {x}) = f[x] + SumFunctionOnSet(f, (S \cup {x}) \ {x})
    BY <1>1, SumSplits
  <2> QED BY <1>2, <2>1
<1>4. SumFunctionOnSet(f, S) \in Int /\ f[x] \in Int BY SumInt
<1>5. \A a, b \in Int : a + b = b + a OBVIOUS
<1> QED BY <1>3, <1>4, <1>5

\* One element only.
LEMMA SumSingle ==
  ASSUME NEW f, NEW x, f[x] \in Int
  PROVE  SumFunctionOnSet(f, {x}) = f[x]
<1>1. IsFiniteSet({}) BY FS_EmptySet
<1>2. SumFunctionOnSet(f, {} \cup {x}) = SumFunctionOnSet(f, {}) + f[x] BY <1>1, SumAdd
<1>3. {} \cup {x} = {x} OBVIOUS
<1> QED BY <1>2, <1>3, SumEmpty

\* Functions that agree have the same sum.
LEMMA SumAgree ==
  ASSUME NEW f, NEW g, NEW S, IsFiniteSet(S), \A x \in S : f[x] = g[x] /\ f[x] \in Int
  PROVE  SumFunctionOnSet(f, S) = SumFunctionOnSet(g, S)
<1> DEFINE F == {T \in SUBSET S : SumFunctionOnSet(f, T) = SumFunctionOnSet(g, T)}
<1>1. {} \in F BY SumEmpty
<1>2. ASSUME NEW T \in SUBSET S, NEW x \in S \ T, T \in F PROVE T \cup {x} \in F
  <2>1. IsFiniteSet(T) BY FS_Subset
  <2>2. SumFunctionOnSet(f, T \cup {x}) = SumFunctionOnSet(f, T) + f[x] BY <2>1, SumAdd
  <2>3. SumFunctionOnSet(g, T \cup {x}) = SumFunctionOnSet(g, T) + g[x] BY <2>1, SumAdd
  <2> QED BY <1>2, <2>2, <2>3
<1> HIDE DEF F
<1>3. S \in F BY <1>1, <1>2, SubsetInduction
<1> QED BY <1>3 DEF F

\* The sum over two disjoint sets.
LEMMA SumUnion ==
  ASSUME NEW f, NEW S, IsFiniteSet(S), NEW R, IsFiniteSet(R), R \cap S = {},
         \A x \in R \cup S : f[x] \in Int
  PROVE  SumFunctionOnSet(f, R \cup S) = SumFunctionOnSet(f, R) + SumFunctionOnSet(f, S)
<1> DEFINE F == {T \in SUBSET S : SumFunctionOnSet(f, R \cup T) = SumFunctionOnSet(f, R) + SumFunctionOnSet(f, T)}
<1>0. SumFunctionOnSet(f, R) \in Int BY SumInt
<1>1. {} \in F
  <2>1. R \cup {} = R OBVIOUS
  <2> QED BY <1>0, <2>1, SumEmpty
<1>2. ASSUME NEW T \in SUBSET S, NEW x \in S \ T, T \in F PROVE T \cup {x} \in F
  <2>1. IsFiniteSet(T) BY FS_Subset
  <2>2. SumFunctionOnSet(f, T \cup {x}) = SumFunctionOnSet(f, T) + f[x] BY <2>1, SumAdd
  <2>3. IsFiniteSet(R \cup T) /\ x \notin R \cup T BY <2>1, FS_Union
  <2>4. SumFunctionOnSet(f, R \cup (T \cup {x})) = SumFunctionOnSet(f, R \cup T) + f[x]
    <3>1. (R \cup T) \cup {x} = R \cup (T \cup {x}) OBVIOUS
    <3>2. SumFunctionOnSet(f, (R \cup T) \cup {x}) = SumFunctionOnSet(f, R \cup T) + f[x] BY <2>3, SumAdd
    <3> QED BY <3>1, <3>2
  <2>5. \A a, b, c \in Int : (a + b) + c = a + (b + c) OBVIOUS
  <2>6. SumFunctionOnSet(f, T) \in Int /\ f[x] \in Int BY <2>1, SumInt
  <2>7. SumFunctionOnSet(f, R \cup T) = SumFunctionOnSet(f, R) + SumFunctionOnSet(f, T) BY <1>2
  <2>8. SumFunctionOnSet(f, R \cup (T \cup {x})) = SumFunctionOnSet(f, R) + SumFunctionOnSet(f, T \cup {x})
    BY <1>0, <2>2, <2>4, <2>5, <2>6, <2>7
  <2> QED BY <2>8
<1> HIDE DEF F
<1>3. S \in F BY <1>1, <1>2, SubsetInduction
<1> QED BY <1>3 DEF F

\* Larger summands, a larger sum; and what is summed of naturals is natural.
LEMMA SumBelow ==
  ASSUME NEW f, NEW g, NEW S, IsFiniteSet(S),
         \A x \in S : f[x] \in Int /\ g[x] \in Int /\ f[x] <= g[x]
  PROVE  SumFunctionOnSet(f, S) <= SumFunctionOnSet(g, S)
<1> DEFINE F == {T \in SUBSET S : SumFunctionOnSet(f, T) <= SumFunctionOnSet(g, T)}
<1>1. {} \in F BY SumEmpty
<1>2. ASSUME NEW T \in SUBSET S, NEW x \in S \ T, T \in F PROVE T \cup {x} \in F
  <2>1. IsFiniteSet(T) BY FS_Subset
  <2>2. SumFunctionOnSet(f, T \cup {x}) = SumFunctionOnSet(f, T) + f[x] BY <2>1, SumAdd
  <2>3. SumFunctionOnSet(g, T \cup {x}) = SumFunctionOnSet(g, T) + g[x] BY <2>1, SumAdd
  <2>4. SumFunctionOnSet(f, T) \in Int /\ SumFunctionOnSet(g, T) \in Int BY <2>1, SumInt
  <2> QED BY <1>2, <2>2, <2>3, <2>4
<1> HIDE DEF F
<1>3. S \in F BY <1>1, <1>2, SubsetInduction
<1> QED BY <1>3 DEF F

\* Natural numbers add up to one.
LEMMA SumNat ==
  ASSUME NEW f, NEW S, IsFiniteSet(S), \A x \in S : f[x] \in Nat
  PROVE  SumFunctionOnSet(f, S) \in Nat
<1> DEFINE F == {T \in SUBSET S : SumFunctionOnSet(f, T) \in Nat}
<1>1. {} \in F BY SumEmpty
<1>2. ASSUME NEW T \in SUBSET S, NEW x \in S \ T, T \in F PROVE T \cup {x} \in F
  <2>1. IsFiniteSet(T) BY FS_Subset
  <2>2. SumFunctionOnSet(f, T \cup {x}) = SumFunctionOnSet(f, T) + f[x] BY <2>1, SumAdd
  <2> QED BY <1>2, <2>2
<1> HIDE DEF F
<1>3. S \in F BY <1>1, <1>2, SubsetInduction
<1> QED BY <1>3 DEF F

\* Part of the summands.
LEMMA SumPart ==
  ASSUME NEW f, NEW S, IsFiniteSet(S), NEW R \in SUBSET S, \A x \in S : f[x] \in Int
  PROVE  SumFunctionOnSet(f, S) = SumFunctionOnSet(f, R) + SumFunctionOnSet(f, S \ R)
<1>1. IsFiniteSet(R) /\ IsFiniteSet(S \ R) /\ R \cap (S \ R) = {} /\ R \cup (S \ R) = S
  BY FS_Subset
<1> QED BY <1>1, SumUnion

\* One summand changes.
LEMMA SumChange ==
  ASSUME NEW f, NEW g, NEW S, IsFiniteSet(S), NEW x \in S,
         \A y \in S : f[y] \in Int /\ g[y] \in Int, \A y \in S \ {x} : g[y] = f[y]
  PROVE  SumFunctionOnSet(g, S) = SumFunctionOnSet(f, S) + (g[x] - f[x])
<1>1. SumFunctionOnSet(g, S) = g[x] + SumFunctionOnSet(g, S \ {x}) BY SumSplits
<1>2. SumFunctionOnSet(f, S) = f[x] + SumFunctionOnSet(f, S \ {x}) BY SumSplits
<1>3. IsFiniteSet(S \ {x}) BY FS_RemoveElement
<1>4. SumFunctionOnSet(f, S \ {x}) = SumFunctionOnSet(g, S \ {x}) BY <1>3, SumAgree
<1>5. SumFunctionOnSet(f, S \ {x}) \in Int /\ f[x] \in Int /\ g[x] \in Int BY <1>3, SumInt
<1> QED BY <1>1, <1>2, <1>4, <1>5

\* A part is no more than the whole.
LEMMA SumWithin ==
  ASSUME NEW f, NEW S, IsFiniteSet(S), NEW R \in SUBSET S, \A x \in S : f[x] \in Nat
  PROVE  /\ SumFunctionOnSet(f, R) <= SumFunctionOnSet(f, S)
         /\ SumFunctionOnSet(f, R) \in Nat /\ SumFunctionOnSet(f, S) \in Nat
<1>1. IsFiniteSet(R) /\ IsFiniteSet(S \ R) BY FS_Subset
<1>2. SumFunctionOnSet(f, S) = SumFunctionOnSet(f, R) + SumFunctionOnSet(f, S \ R) BY SumPart
<1>3. SumFunctionOnSet(f, R) \in Nat /\ SumFunctionOnSet(f, S \ R) \in Nat /\ SumFunctionOnSet(f, S) \in Nat
  BY <1>1, SumNat
<1> QED BY <1>2, <1>3

\* A part that lacks an element is less than the whole by that element at
\* least.
LEMMA SumWithout ==
  ASSUME NEW f, NEW S, IsFiniteSet(S), NEW x \in S, NEW R \in SUBSET (S \ {x}), \A y \in S : f[y] \in Nat
  PROVE  SumFunctionOnSet(f, R) + f[x] <= SumFunctionOnSet(f, S)
<1>1. IsFiniteSet(S \ {x}) BY FS_Subset
<1>2. SumFunctionOnSet(f, S) = f[x] + SumFunctionOnSet(f, S \ {x}) BY SumSplits
<1>3. /\ SumFunctionOnSet(f, R) <= SumFunctionOnSet(f, S \ {x})
      /\ SumFunctionOnSet(f, R) \in Nat /\ SumFunctionOnSet(f, S \ {x}) \in Nat
  BY <1>1, SumWithin
<1>4. f[x] \in Nat OBVIOUS
<1> QED BY <1>2, <1>3, <1>4

\* What two sets cover is no more than both.
LEMMA SumCover ==
  ASSUME NEW f, NEW S, IsFiniteSet(S), NEW T, IsFiniteSet(T), NEW R \in SUBSET (S \cup T),
         \A x \in S \cup T : f[x] \in Nat
  PROVE  SumFunctionOnSet(f, R) <= SumFunctionOnSet(f, S) + SumFunctionOnSet(f, T)
<1> DEFINE A == R \cap S  B == R \ S
<1>1. A \subseteq S /\ B \subseteq T /\ A \cap B = {} /\ A \cup B = R OBVIOUS
<1>2. IsFiniteSet(A) /\ IsFiniteSet(B) BY <1>1, FS_Subset
<1> HIDE DEF A, B
<1>3. SumFunctionOnSet(f, A \cup B) = SumFunctionOnSet(f, A) + SumFunctionOnSet(f, B)
  <2>1. \A x \in A \cup B : f[x] \in Int BY <1>1
  <2> QED BY <1>1, <1>2, <2>1, SumUnion
<1>4. /\ SumFunctionOnSet(f, A) <= SumFunctionOnSet(f, S)
      /\ SumFunctionOnSet(f, A) \in Nat /\ SumFunctionOnSet(f, S) \in Nat
  <2>1. \A x \in S : f[x] \in Nat OBVIOUS
  <2> QED BY <1>1, <2>1, SumWithin
<1>5. /\ SumFunctionOnSet(f, B) <= SumFunctionOnSet(f, T)
      /\ SumFunctionOnSet(f, B) \in Nat /\ SumFunctionOnSet(f, T) \in Nat
  <2>1. \A x \in T : f[x] \in Nat OBVIOUS
  <2> QED BY <1>1, <2>1, SumWithin
<1> QED BY <1>1, <1>3, <1>4, <1>5

\* One summand more.
LEMMA SumOneMore ==
  ASSUME NEW f, NEW S, IsFiniteSet(S), NEW x, NEW R \in SUBSET (S \cup {x}), \A y \in S \cup {x} : f[y] \in Nat
  PROVE  SumFunctionOnSet(f, R) <= SumFunctionOnSet(f, S) + f[x]
<1>1. IsFiniteSet({x}) BY FS_Singleton
<1>2. SumFunctionOnSet(f, {x}) = f[x]
  <2>1. f[x] \in Int OBVIOUS
  <2> QED BY <2>1, SumSingle
<1>3. SumFunctionOnSet(f, R) <= SumFunctionOnSet(f, S) + SumFunctionOnSet(f, {x}) BY <1>1, SumCover
<1> QED BY <1>2, <1>3

\* Multiplication by a natural number.
LEMMA Scaled ==
  ASSUME NEW P \in Nat
  PROVE  /\ \A a, b \in Int : (a + b) * P = a * P + b * P
         /\ \A a, b \in Int : (a - b) * P = a * P - b * P
         /\ \A a, b \in Int : a <= b => a * P <= b * P
         /\ \A a \in Int : a * P \in Int
         /\ \A a \in Nat : a * P \in Nat
OBVIOUS
=============================================================================
