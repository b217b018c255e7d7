---------------------------- MODULE FiniteData ----------------------------
(***************************************************************************)
(* Facts about finite data that the theorems about several components rest *)
(* on: induction over the naturals, the iterates of a map, the largest of  *)
(* some numbers, and what the fold SumFunctionOnSet adds up.               *)
(***************************************************************************)
EXTENDS Integers, FiniteSets, FiniteSetsExt, Functions, FiniteSetTheorems, WellFoundedInduction,
        TLAPS

-----------------------------------------------------------------------------
(* Induction, as a fact about a set of numbers.                            *)

\* Induction over the natural numbers, for a set.
LEMMA InductionOnNat ==
    ASSUME NEW T, 0 \in T, \A n \in Nat : n \in T => n + 1 \in T
    PROVE  Nat \subseteq T
<1> SUFFICES ASSUME Nat \ T # {} PROVE FALSE
  OBVIOUS
<1>1. PICK n \in Nat \ T : \A m \in Nat \ T : <<m, n>> \notin OpToRel(<, Nat)
  BY NatLessThanWellFounded, WFMin
<1>2. \A m \in Nat \ T : ~ (m < n)
  BY <1>1 DEF OpToRel
<1>3. n # 0 /\ n - 1 \in Nat
  OBVIOUS
<1> QED
  BY <1>2, <1>3

\* What comes of applying a map again and again.
Iterates(g, F, r) == g[0] = r /\ \A n \in Nat : g[n + 1] = F[g[n]]

\* A map can be.
LEMMA Iterated ==
    ASSUME NEW D, NEW F \in [D -> D], NEW r \in D
    PROVE  \E g \in [Nat -> D] : Iterates(g, F, r)
<1> DEFINE Run(h, n) == h[0] = r /\ \A i \in 0..n : i + 1 \in 0..n => h[i + 1] = F[h[i]]
           Has(n) == \E h \in [0..n -> D] : Run(h, n)
           T == {n \in Nat : Has(n)}
<1>1. 0 \in T
  <2> DEFINE h == [i \in 0..0 |-> r]
  <2>1. h \in [0..0 -> D] /\ Run(h, 0)
    OBVIOUS
  <2> QED
    BY <2>1
<1>2. ASSUME NEW n \in Nat, n \in T PROVE n + 1 \in T
  <2>1. PICK h \in [0..n -> D] : Run(h, n)
    BY <1>2
  <2> DEFINE k == [i \in 0..(n + 1) |-> IF i = n + 1 THEN F[h[n]] ELSE h[i]]
  <2>2. k \in [0..(n + 1) -> D]
    OBVIOUS
  <2>3. Run(k, n + 1)
    <3>1. k[0] = r
      BY <2>1
    <3>2. ASSUME NEW i \in 0..(n + 1), i + 1 \in 0..(n + 1) PROVE k[i + 1] = F[k[i]]
      <4>1. i \in 0..n /\ k[i] = h[i]
        BY <3>2
      <4>2. CASE i = n
        BY <4>1, <4>2
      <4>3. CASE i # n
        BY <2>1, <4>1, <4>3
      <4> QED
        BY <4>2, <4>3
    <3> QED
      BY <3>1, <3>2
  <2> QED
    BY <2>2, <2>3
<1>3. Nat \subseteq T
  <2> HIDE DEF T
  <2> QED
    BY <1>1, <1>2, InductionOnNat
<1> DEFINE h(n) == CHOOSE k \in [0..n -> D] : Run(k, n)
<1>4. ASSUME NEW n \in Nat PROVE h(n) \in [0..n -> D] /\ Run(h(n), n)
  <2>1. Has(n)
    BY <1>3
  <2> HIDE DEF Run
  <2> QED
    BY <2>1
<1> HIDE DEF h
<1>5. ASSUME NEW n \in Nat PROVE h(n + 1)[n] = h(n)[n]
  <2> DEFINE a == h(n + 1)
             b == h(n)
             U == {i \in Nat : i <= n => a[i] = b[i]}
  <2>1. Run(a, n + 1) /\ Run(b, n)
    BY <1>4
  <2> HIDE DEF a, b
  <2>2. 0 \in U
    BY <2>1
  <2>3. ASSUME NEW i \in Nat, i \in U PROVE i + 1 \in U
    <3> SUFFICES ASSUME i + 1 <= n PROVE a[i + 1] = b[i + 1]
      OBVIOUS
    <3>1. i \in 0..n /\ i + 1 \in 0..n /\ i \in 0..(n + 1) /\ i + 1 \in 0..(n + 1)
      OBVIOUS
    <3>2. a[i + 1] = F[a[i]] /\ b[i + 1] = F[b[i]]
      BY <2>1, <3>1
    <3> QED
      BY <2>3, <3>1, <3>2
  <2>4. Nat \subseteq U
    <3> HIDE DEF U
    <3> QED
      BY <2>2, <2>3, InductionOnNat
  <2> QED
    BY <2>4 DEF a, b
<1> DEFINE g == [n \in Nat |-> h(n)[n]]
<1>6. g \in [Nat -> D]
  BY <1>4
<1>7. g[0] = r
  BY <1>4
<1>8. ASSUME NEW n \in Nat PROVE g[n + 1] = F[g[n]]
  <2>1. Run(h(n + 1), n + 1)
    BY <1>4
  <2>2. n \in 0..(n + 1) /\ n + 1 \in 0..(n + 1)
    OBVIOUS
  <2>3. h(n + 1)[n + 1] = F[h(n + 1)[n]]
    BY <2>1, <2>2
  <2> QED
    BY <1>5, <2>3
<1> HIDE DEF g
<1> QED
  BY <1>6, <1>7, <1>8 DEF Iterates

-----------------------------------------------------------------------------
(* Maxima.                                                                 *)

\* The values of a function on a finite set are finitely many.
LEMMA ImageFinite ==
    ASSUME NEW S, IsFiniteSet(S), NEW f PROVE IsFiniteSet({f[x] : x \in S})
<1>1. PICK T : T = {f[x] : x \in S}
  OBVIOUS
<1>2. PICK g : g = [x \in S |-> f[x]]
  OBVIOUS
<1>3. g \in [S -> T] /\ \A t \in T : \E x \in S : g[x] = t
  BY <1>1, <1>2
<1>4. g \in Surjection(S, T)
  BY <1>3 DEF Surjection
<1> QED
  BY <1>1, <1>4, FS_Surjection

\* Some finitely many numbers have a largest one.
LEMMA SomeMax ==
    ASSUME NEW S \in SUBSET Nat, IsFiniteSet(S), S # {}
    PROVE  \E x \in S : \A y \in S : x >= y
<1> DEFINE HasMax(s) == s = {} \/ \E x \in s : \A y \in s : x >= y
           T == {n \in Nat : \A s \in SUBSET S : Cardinality(s) = n => HasMax(s)}
<1>0. \A s \in SUBSET S : IsFiniteSet(s) /\ Cardinality(s) \in Nat /\ (Cardinality(s) = 0 <=> s = {})
  BY FS_Subset, FS_CardinalityType, FS_EmptySet
<1>1. 0 \in T
  BY <1>0
<1>2. ASSUME NEW n \in Nat, n \in T PROVE n + 1 \in T
  <2> SUFFICES ASSUME NEW s \in SUBSET S, Cardinality(s) = n + 1 PROVE HasMax(s)
    OBVIOUS
  <2>1. PICK z \in s : TRUE
    BY <1>0
  <2>2. s \ {z} \in SUBSET S /\ Cardinality(s \ {z}) = n
    BY <1>0, FS_RemoveElement
  <2>3. HasMax(s \ {z})
    BY <1>2, <2>2
  <2>4. CASE s \ {z} = {}
    BY <2>1, <2>4
  <2>5. CASE s \ {z} # {}
    <3>1. PICK x \in s \ {z} : \A y \in s \ {z} : x >= y
      BY <2>3, <2>5
    <3>2. x \in Nat /\ z \in Nat /\ \A y \in s : y \in Nat
      OBVIOUS
    <3>3. CASE x >= z
      BY <3>1, <3>2, <3>3
    <3>4. CASE z >= x
      BY <3>1, <3>2, <3>4
    <3> QED
      BY <3>2, <3>3, <3>4
  <2> QED
    BY <2>4, <2>5
<1>3. Nat \subseteq T
  <2> HIDE DEF T
  <2> QED
    BY <1>1, <1>2, InductionOnNat
<1>4. S \in SUBSET S /\ Cardinality(S) \in Nat
  BY <1>0
<1> QED
  BY <1>3, <1>4

\* Max is it.
LEMMA MaxOf ==
    ASSUME NEW S \in SUBSET Nat, IsFiniteSet(S), S # {}
    PROVE  Max(S) \in S /\ Max(S) \in Nat /\ \A y \in S : y <= Max(S)
<1>1. \E x \in S : \A y \in S : x >= y
  BY SomeMax
<1>2. Max(S) \in S /\ \A y \in S : Max(S) >= y
  BY <1>1 DEF Max
<1> QED
  BY <1>2

-----------------------------------------------------------------------------
(* Sums: what a fold adds up over a finite set.                            *)

\* What a fold adds next, and the sum it makes of a set.
NextIn(s) == CHOOSE x \in s : TRUE

SumsTo(g, f, s) == g[s] = IF s = {} THEN 0 ELSE f[NextIn(s)] + g[s \ {NextIn(s)}]

HasSums(g, f, S) == \A s \in SUBSET S : SumsTo(g, f, s)

\* A set without one of its elements.
LEMMA LessOne ==
    ASSUME NEW S, IsFiniteSet(S), NEW x \in S
    PROVE  /\ IsFiniteSet(S \ {x}) /\ Cardinality(S) \in Nat
           /\ Cardinality(S \ {x}) = Cardinality(S) - 1 /\ Cardinality(S \ {x}) \in Nat
  BY FS_RemoveElement, FS_CardinalityType

\* Sums of the sets of a size, from those of the smaller ones.
LEMMA PartialSums ==
    ASSUME NEW S, IsFiniteSet(S), NEW f, \A x \in S : f[x] \in Int
    PROVE  \A n \in Nat : \E g \in [{s \in SUBSET S : Cardinality(s) <= n} -> Int] :
                \A s \in DOMAIN g : SumsTo(g, f, s)
<1> DEFINE Upto(n) == {s \in SUBSET S : Cardinality(s) <= n}
           Has(n) == \E g \in [Upto(n) -> Int] : \A s \in DOMAIN g : SumsTo(g, f, s)
<1>0. \A s \in SUBSET S : IsFiniteSet(s) /\ Cardinality(s) \in Nat /\ (Cardinality(s) = 0 <=> s = {})
  BY FS_Subset, FS_CardinalityType, FS_EmptySet
<1>1. Has(0)
  <2> DEFINE g == [s \in Upto(0) |-> 0]
  <2>1. \A s \in Upto(0) : s = {}
    BY <1>0
  <2>2. g \in [Upto(0) -> Int] /\ \A s \in DOMAIN g : SumsTo(g, f, s)
    BY <2>1 DEF SumsTo
  <2> QED
    BY <2>2
<1>2. ASSUME NEW n \in Nat, Has(n)
      PROVE  Has(n + 1)
  <2>1. PICK g \in [Upto(n) -> Int] : \A s \in DOMAIN g : SumsTo(g, f, s)
    BY <1>2
  <2> DEFINE h == [s \in Upto(n + 1) |->
                    IF s = {} THEN 0 ELSE f[NextIn(s)] + g[s \ {NextIn(s)}]]
  <2>2. ASSUME NEW s \in Upto(n + 1), s # {}
        PROVE  NextIn(s) \in S /\ s \ {NextIn(s)} \in Upto(n)
    <3>1. NextIn(s) \in s
      BY <2>2 DEF NextIn
    <3>2. s \in SUBSET S /\ IsFiniteSet(s) /\ Cardinality(s) <= n + 1
      BY <1>0
    <3>3. Cardinality(s \ {NextIn(s)}) = Cardinality(s) - 1 /\ Cardinality(s) \in Nat
      BY <3>1, <3>2, LessOne
    <3>4. Cardinality(s \ {NextIn(s)}) <= n
      BY <3>2, <3>3
    <3> QED
      BY <3>1, <3>2, <3>4
  <2>3. h \in [Upto(n + 1) -> Int]
    BY <2>2
  <2>4. ASSUME NEW s \in Upto(n)
        PROVE  s \in Upto(n + 1) /\ h[s] = g[s]
    <3>1. s \in Upto(n + 1)
      BY <1>0
    <3>2. SumsTo(g, f, s)
      BY <2>1
    <3> QED
      BY <3>1, <3>2 DEF SumsTo
  <2>5. ASSUME NEW s \in Upto(n + 1)
        PROVE  SumsTo(h, f, s)
    <3>1. CASE s = {}
      BY <3>1 DEF SumsTo
    <3>2. CASE s # {}
      BY <3>2, <2>2, <2>4 DEF SumsTo
    <3> QED
      BY <3>1, <3>2
  <2> QED
    BY <2>3, <2>5
<1> DEFINE T == {n \in Nat : Has(n)}
<1>3. 0 \in T /\ \A n \in Nat : n \in T => n + 1 \in T
  <2> HIDE DEF Has
  <2> QED
    BY <1>1, <1>2
<1>4. Nat \subseteq T
  <2> HIDE DEF T
  <2> QED
    BY <1>3, InductionOnNat
<1> QED
  BY <1>4

\* Sums of a set and of a part of it agree on the part.
LEMMA SumsAgree ==
    ASSUME NEW S, IsFiniteSet(S), NEW R \in SUBSET S, NEW f, NEW g, NEW h,
           HasSums(g, f, S), HasSums(h, f, R)
    PROVE  g[R] = h[R]
<1> DEFINE T == {n \in Nat : \A s \in SUBSET R : Cardinality(s) <= n => g[s] = h[s]}
<1>0. \A s \in SUBSET R : IsFiniteSet(s) /\ Cardinality(s) \in Nat /\ (Cardinality(s) = 0 <=> s = {})
  BY FS_Subset, FS_CardinalityType, FS_EmptySet
<1>1. 0 \in T
  <2>1. ASSUME NEW s \in SUBSET R, Cardinality(s) <= 0
        PROVE  g[s] = h[s]
    <3>1. s = {} /\ SumsTo(g, f, s) /\ SumsTo(h, f, s)
      BY <2>1, <1>0 DEF HasSums
    <3> QED
      BY <3>1 DEF SumsTo
  <2> QED
    BY <2>1
<1>2. ASSUME NEW n \in Nat, n \in T
      PROVE  n + 1 \in T
  <2>1. ASSUME NEW s \in SUBSET R, Cardinality(s) <= n + 1, s # {}
        PROVE  g[s] = h[s]
    <3>1. NextIn(s) \in s
      BY <2>1 DEF NextIn
    <3>2. s \ {NextIn(s)} \in SUBSET R /\ Cardinality(s \ {NextIn(s)}) <= n
      BY <2>1, <1>0, <3>1, LessOne
    <3>3. g[s \ {NextIn(s)}] = h[s \ {NextIn(s)}]
      BY <1>2, <3>2
    <3>4. SumsTo(g, f, s) /\ SumsTo(h, f, s)
      BY DEF HasSums
    <3> QED
      BY <3>3, <3>4, <2>1 DEF SumsTo
  <2>2. g[{}] = h[{}]
    <3>1. SumsTo(g, f, {}) /\ SumsTo(h, f, {})
      BY DEF HasSums
    <3> QED
      BY <3>1 DEF SumsTo
  <2> QED
    BY <2>1, <2>2
<1>3. Nat \subseteq T
  <2> HIDE DEF T
  <2> QED
    BY <1>1, <1>2, InductionOnNat
<1>4. R \in SUBSET R /\ Cardinality(R) \in T
  BY <1>3, <1>0
<1> QED
  BY <1>4, <1>0

\* The function by which the sum of a set is computed.
LEMMA SumComputed ==
    ASSUME NEW S, IsFiniteSet(S), NEW f, \A x \in S : f[x] \in Int
    PROVE  \E g \in [SUBSET S -> Int] :
             /\ HasSums(g, f, S)
             /\ SumFunctionOnSet(f, S) = g[S]
<1> DEFINE Adds(h) == h = [s \in SUBSET S |-> IF s = {} THEN 0
                              ELSE f[CHOOSE x \in s : TRUE] + h[s \ {CHOOSE x \in s : TRUE}]]
<1>1. SumFunctionOnSet(f, S) = (CHOOSE h : Adds(h))[S]
  BY DEF SumFunctionOnSet, FoldFunctionOnSet, MapThenFoldSet
<1>2. Cardinality(S) \in Nat /\ {s \in SUBSET S : Cardinality(s) <= Cardinality(S)} = SUBSET S
  BY FS_Subset, FS_CardinalityType
<1> DEFINE All == {s \in SUBSET S : Cardinality(s) <= Cardinality(S)}
<1>a. \E g \in [All -> Int] : \A s \in DOMAIN g : SumsTo(g, f, s)
  BY <1>2, PartialSums
<1>b. All = SUBSET S
  BY <1>2
<1>3. PICK g \in [SUBSET S -> Int] : HasSums(g, f, S)
  <2> HIDE DEF All
  <2> QED
    BY <1>a, <1>b DEF HasSums
<1>4. Adds(g)
  BY <1>3 DEF HasSums, SumsTo, NextIn
<1> DEFINE h == CHOOSE h : Adds(h)
<1>5. Adds(h)
  <2> HIDE DEF Adds
  <2> QED
    BY <1>4
<1>6. HasSums(h, f, S)
  <2> HIDE DEF h
  <2> QED
    BY <1>5 DEF HasSums, SumsTo, NextIn
<1>7. h[S] = g[S]
  <2> HIDE DEF h
  <2>1. S \in SUBSET S
    OBVIOUS
  <2> QED
    BY <1>3, <1>6, <2>1, SumsAgree
<1> QED
  BY <1>1, <1>3, <1>7

\* A sum over a finite set is a number, and the element that a fold takes
\* first can be taken out.
LEMMA SumFirst ==
    ASSUME NEW S, IsFiniteSet(S), NEW f, \A x \in S : f[x] \in Int
    PROVE  /\ SumFunctionOnSet(f, S) \in Int
           /\ S = {} => SumFunctionOnSet(f, S) = 0
           /\ S # {} => SumFunctionOnSet(f, S)
                            = f[NextIn(S)] + SumFunctionOnSet(f, S \ {NextIn(S)})
<1>1. PICK g \in [SUBSET S -> Int] : /\ HasSums(g, f, S)
                                     /\ SumFunctionOnSet(f, S) = g[S]
  BY SumComputed
<1>2. SumsTo(g, f, S)
  BY <1>1 DEF HasSums
<1>3. CASE S = {}
  BY <1>1, <1>2, <1>3 DEF SumsTo
<1>4. CASE S # {}
  <2> DEFINE R == S \ {NextIn(S)}
  <2>1. NextIn(S) \in S
    BY <1>4 DEF NextIn
  <2>2. R \in SUBSET S /\ IsFiniteSet(R) /\ \A x \in R : f[x] \in Int
    BY <2>1, FS_Subset
  <2>3. PICK h \in [SUBSET R -> Int] : /\ HasSums(h, f, R)
                                       /\ SumFunctionOnSet(f, R) = h[R]
    BY <2>2, SumComputed
  <2>4. g[R] = h[R]
    <3> HIDE DEF R
    <3> QED
      BY <1>1, <2>2, <2>3, SumsAgree
  <2> QED
    BY <1>1, <1>2, <1>4, <2>3, <2>4 DEF SumsTo
<1> QED
  BY <1>3, <1>4

\* So can any other element.
LEMMA SumWithout ==
    ASSUME NEW S, IsFiniteSet(S), NEW f, \A x \in S : f[x] \in Int, NEW x \in S
    PROVE  SumFunctionOnSet(f, S) = f[x] + SumFunctionOnSet(f, S \ {x})
<1> DEFINE Sum(s) == SumFunctionOnSet(f, s)
           Any(s) == \A y \in s : Sum(s) = f[y] + Sum(s \ {y})
           T == {n \in Nat : \A s \in SUBSET S : Cardinality(s) <= n => Any(s)}
<1> HIDE DEF Sum
<1>0. ASSUME NEW s \in SUBSET S
      PROVE  /\ IsFiniteSet(s) /\ Cardinality(s) \in Nat
             /\ Cardinality(s) = 0 <=> s = {}
             /\ Sum(s) \in Int
             /\ s # {} => Sum(s) = f[NextIn(s)] + Sum(s \ {NextIn(s)})
  <2>1. IsFiniteSet(s) /\ Cardinality(s) \in Nat /\ (Cardinality(s) = 0 <=> s = {})
    BY FS_Subset, FS_CardinalityType, FS_EmptySet
  <2>2. \A z \in s : f[z] \in Int
    OBVIOUS
  <2> QED
    BY <2>1, <2>2, SumFirst DEF Sum
<1>1. 0 \in T
  <2>1. ASSUME NEW s \in SUBSET S, Cardinality(s) <= 0
        PROVE  s = {}
    <3>1. Cardinality(s) \in Nat /\ (Cardinality(s) = 0 <=> s = {})
      BY <1>0
    <3> QED
      BY <2>1, <3>1
  <2> QED
    BY <2>1
<1>2. ASSUME NEW n \in Nat, n \in T
      PROVE  n + 1 \in T
  <2>1. ASSUME NEW s \in SUBSET S, Cardinality(s) <= n + 1, NEW y \in s
        PROVE  Sum(s) = f[y] + Sum(s \ {y})
    <3> DEFINE c == NextIn(s)
    <3>1. c \in s
      BY DEF NextIn
    <3> HIDE DEF c
    <3>2. Sum(s) = f[c] + Sum(s \ {c})
      BY <1>0 DEF c
    <3>3. CASE y = c
      BY <3>2, <3>3
    <3>4. CASE y # c
      <4> DEFINE sc == s \ {c}
                 sy == s \ {y}
      <4>1. sc \in SUBSET S /\ sy \in SUBSET S /\ y \in sc /\ c \in sy
        BY <3>1, <3>4
      <4>2. Cardinality(sc) <= n /\ Cardinality(sy) <= n
        <5>1. IsFiniteSet(s) /\ Cardinality(s) \in Nat
          BY <1>0
        <5>2. Cardinality(sc) = Cardinality(s) - 1 /\ Cardinality(sy) = Cardinality(s) - 1
          BY <5>1, <3>1, LessOne
        <5> QED
          BY <5>1, <5>2, <2>1
      <4>3. Sum(sc) = f[y] + Sum(sc \ {y}) /\ Sum(sy) = f[c] + Sum(sy \ {c})
        BY <1>2, <4>1, <4>2
      <4>4. sc \ {y} = sy \ {c} /\ sc \ {y} \in SUBSET S
        OBVIOUS
      <4>5. Sum(sc \ {y}) \in Int /\ f[y] \in Int /\ f[c] \in Int
        BY <1>0, <4>4, <3>1
      <4> DEFINE p == Sum(sc \ {y})
                 q == f[y]
                 r == f[c]
      <4>6. Sum(s) = r + (q + p) /\ Sum(s \ {y}) = r + p /\ p \in Int /\ q \in Int /\ r \in Int
        BY <3>2, <4>3, <4>4, <4>5
      <4> HIDE DEF p, q, r
      <4>7. r + (q + p) = q + (r + p)
        BY <4>6
      <4> QED
        BY <4>6, <4>7 DEF q
    <3> QED
      BY <3>3, <3>4
  <2> QED
    BY <2>1
<1>3. Nat \subseteq T
  <2> HIDE DEF T
  <2> QED
    BY <1>1, <1>2, InductionOnNat
<1>4. Any(S)
  <2>1. S \in SUBSET S /\ Cardinality(S) \in T
    BY <1>3, <1>0
  <2> QED
    BY <2>1, <1>0
<1> QED
  BY <1>4 DEF Sum

\* Functions that agree on a set have the same sum over it.
LEMMA SumSame ==
    ASSUME NEW S, IsFiniteSet(S), NEW f, NEW g, \A x \in S : f[x] \in Int /\ f[x] = g[x]
    PROVE  SumFunctionOnSet(f, S) = SumFunctionOnSet(g, S)
<1>1. PICK a \in [SUBSET S -> Int] : /\ HasSums(a, f, S)
                                     /\ SumFunctionOnSet(f, S) = a[S]
  BY SumComputed
<1>2. PICK b \in [SUBSET S -> Int] : /\ HasSums(b, g, S)
                                     /\ SumFunctionOnSet(g, S) = b[S]
  BY SumComputed
<1>3. ASSUME NEW s \in SUBSET S
      PROVE  SumsTo(b, f, s)
  <2>1. SumsTo(b, g, s)
    BY <1>2 DEF HasSums
  <2>2. s # {} => f[NextIn(s)] = g[NextIn(s)]
    BY DEF NextIn
  <2> QED
    BY <2>1, <2>2 DEF SumsTo
<1>4. a[S] = b[S]
  <2>1. S \in SUBSET S
    OBVIOUS
  <2>2. HasSums(b, f, S)
    BY <1>3 DEF HasSums
  <2> QED
    BY <1>1, <2>1, <2>2, SumsAgree
<1> QED
  BY <1>1, <1>2, <1>4

\* A part of what is not negative is no more than the whole.
LEMMA SumOfPart ==
    ASSUME NEW S, IsFiniteSet(S), NEW f, \A x \in S : f[x] \in Nat, NEW R \in SUBSET S
    PROVE  SumFunctionOnSet(f, R) <= SumFunctionOnSet(f, S) /\ SumFunctionOnSet(f, R) \in Nat
<1> DEFINE Sum(s) == SumFunctionOnSet(f, s)
           Grows(s) == Sum(s) \in Nat /\ \A r \in SUBSET s : Sum(r) <= Sum(s)
           T == {n \in Nat : \A s \in SUBSET S : Cardinality(s) <= n => Grows(s)}
<1> HIDE DEF Sum
<1>0. ASSUME NEW s \in SUBSET S
      PROVE  /\ IsFiniteSet(s) /\ Cardinality(s) \in Nat
             /\ Cardinality(s) = 0 <=> s = {}
             /\ Sum(s) \in Int
             /\ s = {} => Sum(s) = 0
             /\ \A x \in s : Sum(s) = f[x] + Sum(s \ {x})
  <2>1. IsFiniteSet(s) /\ Cardinality(s) \in Nat /\ (Cardinality(s) = 0 <=> s = {})
    BY FS_Subset, FS_CardinalityType, FS_EmptySet
  <2>2. \A x \in s : f[x] \in Int
    OBVIOUS
  <2>3. \A x \in s : Sum(s) = f[x] + Sum(s \ {x})
    BY <2>1, <2>2, SumWithout DEF Sum
  <2> QED
    BY <2>1, <2>2, <2>3, SumFirst DEF Sum
<1>1. 0 \in T
  BY <1>0
<1>2. ASSUME NEW n \in Nat, n \in T
      PROVE  n + 1 \in T
  <2>1. ASSUME NEW s \in SUBSET S, Cardinality(s) <= n + 1
        PROVE  Grows(s)
    <3>1. ASSUME NEW x \in s
          PROVE  Grows(s \ {x}) /\ Sum(s) = f[x] + Sum(s \ {x}) /\ f[x] \in Nat
      <4>1. IsFiniteSet(s) /\ Cardinality(s) \in Nat /\ Sum(s) = f[x] + Sum(s \ {x})
        BY <1>0
      <4>2. Cardinality(s \ {x}) = Cardinality(s) - 1
        BY <4>1, LessOne
      <4>3. Cardinality(s \ {x}) <= n /\ s \ {x} \in SUBSET S
        BY <4>1, <4>2, <2>1
      <4> QED
        BY <4>1, <4>3, <1>2
    <3>2. Sum(s) \in Nat
      <4>1. CASE s = {}
        BY <4>1, <1>0
      <4>2. CASE s # {}
        <5>1. PICK x \in s : TRUE
          BY <4>2
        <5>2. Grows(s \ {x}) /\ Sum(s) = f[x] + Sum(s \ {x}) /\ f[x] \in Nat
          BY <3>1, <5>1
        <5> QED
          BY <5>2
      <4> QED
        BY <4>1, <4>2
    <3>3. ASSUME NEW r \in SUBSET s, r # s
          PROVE  Sum(r) <= Sum(s)
      <4>1. PICK x \in s : x \notin r
        BY <3>3
      <4>2. r \in SUBSET (s \ {x}) /\ r \in SUBSET S /\ s \ {x} \in SUBSET S
        BY <4>1
      <4>3. Grows(s \ {x})
        BY <3>1, <4>1
      <4>4. Sum(r) <= Sum(s \ {x}) /\ Sum(s \ {x}) \in Nat /\ Sum(r) \in Int
        BY <4>3, <4>2, <1>0
      <4>5. Sum(s) = f[x] + Sum(s \ {x}) /\ f[x] \in Nat
        BY <3>1, <4>1
      <4> QED
        BY <4>4, <4>5
    <3> QED
      BY <3>2, <3>3
  <2> QED
    BY <2>1
<1>3. Nat \subseteq T
  <2> HIDE DEF T
  <2> QED
    BY <1>1, <1>2, InductionOnNat
<1>4. Grows(S) /\ Grows(R)
  <2>1. S \in SUBSET S /\ Cardinality(S) \in T /\ Cardinality(R) \in T
    BY <1>3, <1>0
  <2> QED
    BY <2>1, <1>0
<1> QED
  BY <1>4 DEF Sum

\* The same number added k times.
LEMMA SumOfEqual ==
    ASSUME NEW k \in Nat, NEW x \in Int, NEW f, \A i \in 1..k : f[i] = x
    PROVE  SumFunctionOnSet(f, 1..k) = k * x
<1> DEFINE Sum(s) == SumFunctionOnSet(f, s)
           T == {n \in Nat : n <= k => Sum(1..n) = n * x}
<1> HIDE DEF Sum
<1>1. 0 \in T
  <2>1. 1..0 = {} /\ IsFiniteSet({})
    BY FS_EmptySet
  <2>2. Sum({}) = 0
    BY <2>1, SumFirst DEF Sum
  <2> QED
    BY <2>1, <2>2
<1>2. ASSUME NEW n \in Nat, n \in T PROVE n + 1 \in T
  <2> SUFFICES ASSUME n + 1 <= k PROVE Sum(1..(n + 1)) = (n + 1) * x
    OBVIOUS
  <2>1. IsFiniteSet(1..(n + 1)) /\ (1..(n + 1)) \ {n + 1} = 1..n /\ n + 1 \in 1..(n + 1)
    <3>1. IsFiniteSet(1..(n + 1))
      BY FS_Interval
    <3> QED
      BY <3>1
  <2>2. \A i \in 1..(n + 1) : f[i] = x
    OBVIOUS
  <2>3. Sum(1..(n + 1)) = f[n + 1] + Sum((1..(n + 1)) \ {n + 1})
    BY <2>1, <2>2, SumWithout DEF Sum
  <2>4. Sum(1..n) = n * x /\ f[n + 1] = x
    BY <1>2, <2>2
  <2>5. (n + 1) * x = x + n * x
    OBVIOUS
  <2> QED
    BY <2>1, <2>3, <2>4, <2>5, Zenon
<1>3. Nat \subseteq T
  <2> HIDE DEF T
  <2> QED
    BY <1>1, <1>2, InductionOnNat
<1> QED
  BY <1>3 DEF Sum

\* Induction over the subsets of a finite set, for a set of sets.
LEMMA InductionOnSubsets ==
    ASSUME NEW S, IsFiniteSet(S), NEW Q,
           \A s \in SUBSET S : (\A x \in s : s \ {x} \in Q) => s \in Q
    PROVE  \A s \in SUBSET S : s \in Q
<1> DEFINE T == {n \in Nat : \A s \in SUBSET S : Cardinality(s) <= n => s \in Q}
<1>0. ASSUME NEW s \in SUBSET S
      PROVE  IsFiniteSet(s) /\ Cardinality(s) \in Nat /\ (Cardinality(s) = 0 <=> s = {})
  BY FS_Subset, FS_CardinalityType, FS_EmptySet
<1>1. 0 \in T
  <2>1. ASSUME NEW s \in SUBSET S, Cardinality(s) <= 0 PROVE s \in Q
    <3>1. s = {}
      BY <1>0, <2>1
    <3> QED
      BY <3>1
  <2> QED
    BY <2>1
<1>2. ASSUME NEW n \in Nat, n \in T PROVE n + 1 \in T
  <2>1. ASSUME NEW s \in SUBSET S, Cardinality(s) <= n + 1 PROVE s \in Q
    <3>1. ASSUME NEW x \in s PROVE s \ {x} \in Q
      <4>1. Cardinality(s \ {x}) = Cardinality(s) - 1 /\ Cardinality(s) \in Nat
        BY <1>0, LessOne
      <4>2. Cardinality(s \ {x}) <= n /\ s \ {x} \in SUBSET S
        BY <4>1, <2>1
      <4> QED
        BY <4>2, <1>2
    <3> QED
      BY <3>1
  <2> QED
    BY <2>1
<1>3. Nat \subseteq T
  <2> HIDE DEF T
  <2> QED
    BY <1>1, <1>2, InductionOnNat
<1>4. ASSUME NEW s \in SUBSET S PROVE s \in Q
  <2>1. Cardinality(s) \in T
    BY <1>0, <1>3
  <2> QED
    BY <2>1, <1>0
<1> QED
  BY <1>4

\* What a finite set of integers adds up to, as the next lemmas use it.
LEMMA SumBasics ==
    ASSUME NEW S, IsFiniteSet(S), NEW f, \A x \in S : f[x] \in Int, NEW s \in SUBSET S
    PROVE  /\ SumFunctionOnSet(f, s) \in Int
           /\ s = {} => SumFunctionOnSet(f, s) = 0
           /\ \A x \in s : SumFunctionOnSet(f, s) = f[x] + SumFunctionOnSet(f, s \ {x})
<1>1. IsFiniteSet(s) /\ \A x \in s : f[x] \in Int
  BY FS_Subset
<1>2. \A x \in s : SumFunctionOnSet(f, s) = f[x] + SumFunctionOnSet(f, s \ {x})
  BY <1>1, SumWithout
<1> QED
  BY <1>1, <1>2, SumFirst

\* The sum over two sets that share nothing.
LEMMA SumOfUnion ==
    ASSUME NEW S, IsFiniteSet(S), NEW f, \A x \in S : f[x] \in Int,
           NEW A \in SUBSET S, NEW B \in SUBSET S, A \cap B = {}
    PROVE  SumFunctionOnSet(f, A \cup B) = SumFunctionOnSet(f, A) + SumFunctionOnSet(f, B)
<1> DEFINE Sum(s) == SumFunctionOnSet(f, s)
           Q == {s \in SUBSET A : Sum(s \cup B) = Sum(s) + Sum(B)}
<1> HIDE DEF Sum
<1>0. ASSUME NEW s \in SUBSET S
      PROVE  /\ Sum(s) \in Int
             /\ s = {} => Sum(s) = 0
             /\ \A x \in s : Sum(s) = f[x] + Sum(s \ {x})
  BY SumBasics DEF Sum
<1>1. ASSUME NEW s \in SUBSET A, \A x \in s : s \ {x} \in Q PROVE s \in Q
  <2>1. CASE s = {}
    <3>1. s \cup B = B
      BY <2>1
    <3>2. s \in SUBSET S /\ B \in SUBSET S
      OBVIOUS
    <3>3. Sum(s) = 0 /\ Sum(B) \in Int
      BY <2>1, <3>2, <1>0
    <3>4. Sum(s \cup B) = Sum(B)
      BY <3>1, Zenon
    <3>5. Sum(s \cup B) = Sum(s) + Sum(B)
      BY <3>3, <3>4
    <3> QED
      BY <3>5
  <2>2. CASE s # {}
    <3>1. PICK x \in s : TRUE
      BY <2>2
    <3>2. (s \cup B) \ {x} = (s \ {x}) \cup B /\ s \cup B \in SUBSET S /\ s \in SUBSET S
      BY <3>1
    <3>3. Sum((s \ {x}) \cup B) = Sum(s \ {x}) + Sum(B)
      BY <1>1, <3>1
    <3>4. Sum(s \cup B) = f[x] + Sum((s \ {x}) \cup B) /\ Sum(s) = f[x] + Sum(s \ {x})
      BY <1>0, <3>1, <3>2
    <3>5. f[x] \in Int /\ Sum(s \ {x}) \in Int /\ Sum(B) \in Int
      BY <1>0, <3>1
    <3> QED
      BY <3>3, <3>4, <3>5
  <2> QED
    BY <2>1, <2>2
<1>2. IsFiniteSet(A) /\ A \in SUBSET A
  BY FS_Subset
<1>3. A \in Q
  <2> HIDE DEF Q
  <2> QED
    BY <1>1, <1>2, InductionOnSubsets
<1> QED
  BY <1>3 DEF Sum

\* Adding up by a key first, then over the keys.
LEMMA SumByKey ==
    ASSUME NEW S, IsFiniteSet(S), NEW f, \A x \in S : f[x] \in Int,
           NEW K, IsFiniteSet(K), NEW key, \A x \in S : key[x] \in K,
           NEW part, \A k \in K : part[k] = {x \in S : key[x] = k},
           NEW g, \A k \in K : g[k] = SumFunctionOnSet(f, part[k])
    PROVE  SumFunctionOnSet(g, K) = SumFunctionOnSet(f, S)
<1> DEFINE Of(s) == {x \in S : key[x] \in s}
           Q == {s \in SUBSET K : SumFunctionOnSet(g, s) = SumFunctionOnSet(f, Of(s))}
<1>0. ASSUME NEW k \in K PROVE g[k] \in Int
  <2>1. part[k] \in SUBSET S /\ g[k] = SumFunctionOnSet(f, part[k])
    OBVIOUS
  <2>2. SumFunctionOnSet(f, part[k]) \in Int
    BY <2>1, SumBasics
  <2> QED
    BY <2>1, <2>2
<1>1. ASSUME NEW s \in SUBSET K, \A k \in s : s \ {k} \in Q PROVE s \in Q
  <2>1. CASE s = {}
    <3>1. Of(s) = {} /\ Of(s) \in SUBSET S
      BY <2>1
    <3>2. SumFunctionOnSet(f, Of(s)) = 0
      BY <3>1, SumBasics
    <3>3. SumFunctionOnSet(g, s) = 0
      BY <2>1, <1>0, SumBasics
    <3> QED
      BY <3>2, <3>3
  <2>2. CASE s # {}
    <3>1. PICK k \in s : TRUE
      BY <2>2
    <3> DEFINE A == part[k]
               B == Of(s \ {k})
    <3>2. Of(s) = A \cup B /\ A \cap B = {} /\ A \in SUBSET S /\ B \in SUBSET S
      BY <3>1
    <3>3. SumFunctionOnSet(f, Of(s)) = SumFunctionOnSet(f, A) + SumFunctionOnSet(f, B)
      <4> HIDE DEF A, B
      <4>1. SumFunctionOnSet(f, A \cup B) = SumFunctionOnSet(f, A) + SumFunctionOnSet(f, B)
        BY <3>2, SumOfUnion
      <4> QED
        BY <4>1, <3>2
    <3>4. SumFunctionOnSet(g, s) = g[k] + SumFunctionOnSet(g, s \ {k})
      BY <1>0, <3>1, SumBasics
    <3>5. g[k] = SumFunctionOnSet(f, A)
      BY <3>1
    <3>6. SumFunctionOnSet(g, s \ {k}) = SumFunctionOnSet(f, B)
      BY <1>1, <3>1
    <3> QED
      BY <3>3, <3>4, <3>5, <3>6
  <2> QED
    BY <2>1, <2>2
<1>2. K \in Q
  <2>1. K \in SUBSET K
    OBVIOUS
  <2> HIDE DEF Q
  <2> QED
    BY <1>1, <2>1, InductionOnSubsets
<1>3. Of(K) = S
  OBVIOUS
<1> QED
  BY <1>2, <1>3

\* The sum over one element.
LEMMA SumOfOne ==
    ASSUME NEW x, NEW f, f[x] \in Int
    PROVE  SumFunctionOnSet(f, {x}) = f[x]
<1>1. IsFiniteSet({x})
  BY FS_Singleton
<1>2. SumFunctionOnSet(f, {x}) = f[x] + SumFunctionOnSet(f, {x} \ {x})
  BY <1>1, SumWithout
<1>3. {x} \ {x} = {} /\ IsFiniteSet({})
  BY FS_EmptySet
<1>4. SumFunctionOnSet(f, {}) = 0
  BY <1>3, SumFirst
<1>5. SumFunctionOnSet(f, {x}) = f[x] + 0
  BY <1>2, <1>3, <1>4
<1> QED
  BY <1>5

\* Adding up the same things under other names.
LEMMA SumRenamed ==
    ASSUME NEW S, IsFiniteSet(S), NEW f, NEW T, NEW h \in [S -> T],
           \A x, y \in S : h[x] = h[y] => x = y,
           \A t \in T : \E x \in S : h[x] = t,
           NEW g, \A x \in S : f[x] \in Int /\ f[x] = g[h[x]]
    PROVE  SumFunctionOnSet(g, T) = SumFunctionOnSet(f, S)
<1>1. IsFiniteSet(T)
  <2>1. IsFiniteSet({h[x] : x \in S}) /\ T = {h[x] : x \in S}
    BY ImageFinite
  <2> QED
    BY <2>1
<1> DEFINE part == [t \in T |-> {x \in S : h[x] = t}]
<1>2. ASSUME NEW t \in T
      PROVE  part[t] = {x \in S : h[x] = t} /\ g[t] = SumFunctionOnSet(f, part[t])
  <2>1. PICK x \in S : h[x] = t
    OBVIOUS
  <2>2. part[t] = {x}
    BY <2>1
  <2>3. SumFunctionOnSet(f, {x}) = f[x]
    BY SumOfOne
  <2>4. SumFunctionOnSet(f, part[t]) = f[x]
    BY <2>2, <2>3, Zenon
  <2> QED
    BY <2>1, <2>4
<1>3. \A x \in S : f[x] \in Int
  OBVIOUS
<1> HIDE DEF part
<1> QED
  BY <1>1, <1>2, <1>3, SumByKey

\* A sum is linear.
LEMMA SumLinear ==
    ASSUME NEW S, IsFiniteSet(S), NEW a \in Int, NEW b \in Int, NEW f, NEW g, NEW h,
           \A x \in S : f[x] \in Int, \A x \in S : g[x] \in Int,
           \A x \in S : h[x] = a * f[x] + b * g[x]
    PROVE  SumFunctionOnSet(h, S) = a * SumFunctionOnSet(f, S) + b * SumFunctionOnSet(g, S)
<1> DEFINE F(s) == SumFunctionOnSet(f, s)
           G(s) == SumFunctionOnSet(g, s)
           H(s) == SumFunctionOnSet(h, s)
           Q == {s \in SUBSET S : H(s) = a * F(s) + b * G(s)}
<1>0. \A x \in S : h[x] \in Int
  OBVIOUS
<1> HIDE DEF F, G, H
<1>1. ASSUME NEW s \in SUBSET S
      PROVE  /\ F(s) \in Int /\ G(s) \in Int /\ H(s) \in Int
             /\ s = {} => F(s) = 0 /\ G(s) = 0 /\ H(s) = 0
             /\ \A x \in s : /\ F(s) = f[x] + F(s \ {x})
                             /\ G(s) = g[x] + G(s \ {x})
                             /\ H(s) = h[x] + H(s \ {x})
  <2>1. F(s) \in Int /\ (s = {} => F(s) = 0) /\ \A x \in s : F(s) = f[x] + F(s \ {x})
    <3>1. SumFunctionOnSet(f, s) \in Int /\ (s = {} => SumFunctionOnSet(f, s) = 0)
      BY SumBasics
    <3>2. \A x \in s : SumFunctionOnSet(f, s) = f[x] + SumFunctionOnSet(f, s \ {x})
      BY SumBasics
    <3> QED
      BY <3>1, <3>2 DEF F
  <2>2. G(s) \in Int /\ (s = {} => G(s) = 0) /\ \A x \in s : G(s) = g[x] + G(s \ {x})
    <3>1. SumFunctionOnSet(g, s) \in Int /\ (s = {} => SumFunctionOnSet(g, s) = 0)
      BY SumBasics
    <3>2. \A x \in s : SumFunctionOnSet(g, s) = g[x] + SumFunctionOnSet(g, s \ {x})
      BY SumBasics
    <3> QED
      BY <3>1, <3>2 DEF G
  <2>3. H(s) \in Int /\ (s = {} => H(s) = 0) /\ \A x \in s : H(s) = h[x] + H(s \ {x})
    <3>1. SumFunctionOnSet(h, s) \in Int /\ (s = {} => SumFunctionOnSet(h, s) = 0)
      BY <1>0, SumBasics
    <3>2. \A x \in s : SumFunctionOnSet(h, s) = h[x] + SumFunctionOnSet(h, s \ {x})
      BY <1>0, SumBasics
    <3> QED
      BY <3>1, <3>2 DEF H
  <2> QED
    BY <2>1, <2>2, <2>3
<1>2. ASSUME NEW s \in SUBSET S, \A x \in s : s \ {x} \in Q PROVE s \in Q
  <2>1. CASE s = {}
    <3>1. F(s) = 0 /\ G(s) = 0 /\ H(s) = 0
      BY <2>1, <1>1
    <3> QED
      BY <3>1
  <2>2. CASE s # {}
    <3>1. PICK x \in s : TRUE
      BY <2>2
    <3> DEFINE p == f[x]
               q == g[x]
               fr == F(s \ {x})
               gr == G(s \ {x})
    <3>2. H(s \ {x}) = a * fr + b * gr
      BY <1>2, <3>1
    <3>3. H(s) = (a * p + b * q) + (a * fr + b * gr) /\ F(s) = p + fr /\ G(s) = q + gr
      BY <1>1, <3>1, <3>2
    <3>4. p \in Int /\ q \in Int /\ fr \in Int /\ gr \in Int
      BY <1>1, <3>1
    <3> HIDE DEF p, q, fr, gr
    <3>5. (a * p + b * q) + (a * fr + b * gr) = a * (p + fr) + b * (q + gr)
      BY <3>4
    <3>6. H(s) = a * F(s) + b * G(s)
      BY <3>3, <3>5
    <3> QED
      BY <3>6
  <2> QED
    BY <2>1, <2>2
<1>3. S \in Q
  <2>1. S \in SUBSET S
    OBVIOUS
  <2> HIDE DEF Q
  <2> QED
    BY <1>2, <2>1, InductionOnSubsets
<1> QED
  BY <1>3 DEF F, G, H

\* What is bounded one by one is bounded in sum.
LEMMA SumBounded ==
    ASSUME NEW S, IsFiniteSet(S), NEW e \in Int, NEW f,
           \A x \in S : f[x] \in Int /\ -e <= f[x] /\ f[x] <= e
    PROVE  /\ Cardinality(S) \in Nat
           /\ -(e * Cardinality(S)) <= SumFunctionOnSet(f, S)
           /\ SumFunctionOnSet(f, S) <= e * Cardinality(S)
<1> DEFINE F(s) == SumFunctionOnSet(f, s)
           Q == {s \in SUBSET S : -(e * Cardinality(s)) <= F(s) /\ F(s) <= e * Cardinality(s)}
<1> HIDE DEF F
<1>1. ASSUME NEW s \in SUBSET S
      PROVE  /\ F(s) \in Int /\ (s = {} => F(s) = 0)
             /\ \A x \in s : F(s) = f[x] + F(s \ {x})
             /\ IsFiniteSet(s) /\ Cardinality(s) \in Nat /\ (s = {} => Cardinality(s) = 0)
             /\ \A x \in s : Cardinality(s \ {x}) = Cardinality(s) - 1
  <2>1. F(s) \in Int /\ (s = {} => F(s) = 0) /\ \A x \in s : F(s) = f[x] + F(s \ {x})
    BY SumBasics DEF F
  <2>2. IsFiniteSet(s) /\ Cardinality(s) \in Nat /\ (s = {} => Cardinality(s) = 0)
    BY FS_Subset, FS_CardinalityType, FS_EmptySet
  <2> QED
    BY <2>1, <2>2, LessOne
<1>2. ASSUME NEW s \in SUBSET S, \A x \in s : s \ {x} \in Q PROVE s \in Q
  <2>1. CASE s = {}
    <3>1. F(s) = 0 /\ Cardinality(s) = 0
      BY <2>1, <1>1
    <3> QED
      BY <3>1
  <2>2. CASE s # {}
    <3>1. PICK x \in s : TRUE
      BY <2>2
    <3> DEFINE p == f[x]
               r == F(s \ {x})
               n == Cardinality(s)
               m == Cardinality(s \ {x})
    <3>2. -(e * m) <= r /\ r <= e * m
      BY <1>2, <3>1
    <3>3. F(s) = p + r /\ m = n - 1 /\ n \in Nat
      BY <1>1, <3>1
    <3>4. p \in Int /\ -e <= p /\ p <= e
      BY <3>1
    <3>5. r \in Int
      BY <1>1
    <3> HIDE DEF p, r, m
    <3>6. e * (n - 1) = e * n - e
      BY <3>3
    <3>7. -(e * n) <= F(s) /\ F(s) <= e * n
      <4> DEFINE en == e * n
      <4>1. en \in Int /\ e * m = en - e
        BY <3>3, <3>6
      <4> HIDE DEF en, n
      <4>2. -en <= p + r /\ p + r <= en
        BY <4>1, <3>2, <3>4, <3>5
      <4> QED
        BY <4>2, <3>3 DEF en
    <3> QED
      BY <3>7
  <2> QED
    BY <2>1, <2>2
<1>3. S \in Q
  <2>1. S \in SUBSET S
    OBVIOUS
  <2> HIDE DEF Q
  <2> QED
    BY <1>2, <2>1, InductionOnSubsets
<1> QED
  BY <1>1, <1>3 DEF F

=============================================================================
