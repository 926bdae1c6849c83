--------------------------------- MODULE Sums --------------------------------
(***************************************************************************)
(* Sums over finite sets, for proofs. MapThenSumSet of the community       *)
(* modules is a fold: a recursive function chosen by its equation.         *)
(* Induction over the subsets of a finite set, and over the natural        *)
(* numbers, shows what it computes, without the library's induction        *)
(* theorems: a set with the least counterexample is empty.                 *)
(***************************************************************************)
EXTENDS Integers, FiniteSets, Functions, Folds, FiniteSetsExt, FiniteSetTheorems, TLAPS

\* A non-empty set of numbers has a least one.
LEMMA Least ==
  ASSUME NEW T, T \subseteq Nat, T # {}
  PROVE  \E x \in T : \A y \in T : x =< y
<1>. DEFINE R == {ss \in Nat \X Nat : ss[1] < ss[2]}
<1>1. IsWellFoundedOn(R, Nat)
  BY NatLessThanWellFounded DEF OpToRel
<1>2. \E x \in T : \A y \in T : ~(<<y, x>> \in R)
  <2>. HIDE DEF R
  <2>. QED BY <1>1, WFMin
<1>3. ASSUME NEW x \in T, NEW y \in T, ~(<<y, x>> \in R) PROVE x =< y
  <2>1. <<y, x>> \in Nat \X Nat /\ <<y, x>>[1] = y /\ <<y, x>>[2] = x
    OBVIOUS
  <2>2. ~(y < x)
    BY <2>1, <1>3
  <2>3. x \in Nat /\ y \in Nat
    OBVIOUS
  <2>. HIDE DEF R
  <2>. QED BY <2>2, <2>3
<1>. HIDE DEF R
<1>. QED BY <1>2, <1>3

\* Induction, for a set of numbers: it has all of them if it has 0 and the successor
\* of each of its members.
LEMMA AllOfNat ==
  ASSUME NEW T, T \subseteq Nat, 0 \in T, \A k \in T : k + 1 \in T
  PROVE  \A k \in Nat : k \in T
<1>1. SUFFICES ASSUME Nat \ T # {} PROVE FALSE
  OBVIOUS
<1>2. PICK x \in Nat \ T : \A y \in Nat \ T : x =< y
  BY <1>1, Least
<1>3. x \in Nat /\ x # 0
  BY <1>2
<1>4. x - 1 \in Nat /\ x - 1 \in T
  BY <1>2, <1>3
<1>5. x \in T
  BY <1>3, <1>4
<1>. QED
  BY <1>2, <1>5

\* The sum of f over a set.
Total(f, S) == MapThenSumSet(LAMBDA x : f[x], S)

AnyOf(s) == CHOOSE x \in s : TRUE

\* The recursion MapThenSumSet is defined by.
SumStep(f, h, s) == IF s = {} THEN 0 ELSE f[AnyOf(s)] + h[s \ {AnyOf(s)}]
IsSum(f, S, h) == h = [s \in SUBSET S |-> SumStep(f, h, s)]

LEMMA TotalDef ==
  ASSUME NEW f, NEW S
  PROVE  Total(f, S) = (CHOOSE h : IsSum(f, S, h))[S]
BY DEF Total, MapThenSumSet, MapThenFoldSet, IsSum, SumStep, AnyOf

\* There is such a function on the subsets of up to k elements, whatever k.
LEMMA SumExists ==
  ASSUME NEW f, NEW S, IsFiniteSet(S)
  PROVE  \E h : IsSum(f, S, h)
<1>. DEFINE Below(k) == {s \in SUBSET S : Cardinality(s) =< k}
            T == {k \in Nat : \E h : h = [s \in Below(k) |-> SumStep(f, h, s)]}
<1>1. \A s \in SUBSET S : IsFiniteSet(s) /\ Cardinality(s) \in Nat
        /\ Cardinality(s) =< Cardinality(S)
        /\ (s # {} => /\ AnyOf(s) \in s /\ s \ {AnyOf(s)} \in SUBSET S
                      /\ Cardinality(s \ {AnyOf(s)}) = Cardinality(s) - 1)
        /\ (Cardinality(s) = 0 <=> s = {})
  <2>. TAKE s \in SUBSET S
  <2>1. IsFiniteSet(s) /\ Cardinality(s) =< Cardinality(S)
    BY FS_Subset
  <2>2. Cardinality(s) \in Nat /\ (Cardinality(s) = 0 <=> s = {})
    BY <2>1, FS_CardinalityType, FS_EmptySet
  <2>3. s # {} => AnyOf(s) \in s
    BY DEF AnyOf
  <2>. QED
    BY <2>1, <2>2, <2>3, FS_RemoveElement
<1>2. 0 \in T
  <2>. DEFINE h == [s \in Below(0) |-> 0]
  <2>1. \A s \in Below(0) : s = {}
    <3>. TAKE s \in Below(0)
    <3>1. s \in SUBSET S /\ Cardinality(s) =< 0
      OBVIOUS
    <3>2. Cardinality(s) = 0
      <4>. HIDE DEF h, T, Below
      <4>1. Cardinality(s) \in Nat
        BY <1>1, <3>1
      <4>. QED
        BY <3>1, <4>1
    <3>. QED
      BY <1>1, <3>1, <3>2
  <2>2. h = [s \in Below(0) |-> SumStep(f, h, s)]
    BY <2>1 DEF SumStep
  <2>. HIDE DEF h
  <2>. QED
    BY <2>2
<1>3. ASSUME NEW k \in T PROVE k + 1 \in T
  <2>1. PICK g : g = [s \in Below(k) |-> SumStep(f, g, s)]
    OBVIOUS
  <2>. DEFINE h == [s \in Below(k + 1) |-> SumStep(f, g, s)]
  <2>2. \A s \in Below(k) : s \in Below(k + 1) /\ h[s] = g[s]
    <3>. TAKE s \in Below(k)
    <3>1. s \in SUBSET S /\ Cardinality(s) =< k /\ Cardinality(s) \in Nat /\ k \in Nat
      BY <1>1
    <3>2. s \in Below(k + 1)
      BY <3>1
    <3>3. h[s] = SumStep(f, g, s)
      BY <3>2
    <3>4. g[s] = SumStep(f, g, s)
      <4>. HIDE DEF Below, h, T
      <4>. QED BY <2>1
    <3>. QED
      BY <3>2, <3>3, <3>4
  <2>3. \A s \in Below(k + 1) : s # {} => s \ {AnyOf(s)} \in Below(k)
    BY <1>1
  <2>4. \A s \in Below(k + 1) : SumStep(f, g, s) = SumStep(f, h, s)
    <3>. TAKE s \in Below(k + 1)
    <3>. HIDE DEF h, Below
    <3>. QED
      BY <2>2, <2>3 DEF SumStep
  <2>5. h = [s \in Below(k + 1) |-> SumStep(f, h, s)]
    BY <2>4
  <2>6. k + 1 \in Nat
    OBVIOUS
  <2>. HIDE DEF h, Below
  <2>. QED
    BY <2>5, <2>6
<1>4. Cardinality(S) \in Nat
  BY <1>1
<1>5. Cardinality(S) \in T
  <2>. HIDE DEF T
  <2>1. T \subseteq Nat
    BY DEF T
  <2>. QED
    BY <1>2, <1>3, <1>4, <2>1, AllOfNat
<1>6. Below(Cardinality(S)) = SUBSET S
  BY <1>1
<1>. HIDE DEF Below
<1>. QED
  BY <1>5, <1>6 DEF IsSum


\* and on a set it gives the same sum whatever larger set it is defined on.
LEMMA SumUnique ==
  ASSUME NEW f, NEW S, IsFiniteSet(S), NEW g, IsSum(f, S, g),
         NEW U, IsFiniteSet(U), NEW h, IsSum(f, U, h)
  PROVE  \A s \in SUBSET S : s \in SUBSET U => g[s] = h[s]
<1>. DEFINE Bad == {s \in SUBSET S : s \in SUBSET U /\ g[s] # h[s]}
            Sizes == {Cardinality(s) : s \in Bad}
<1>1. \A s \in SUBSET S : IsFiniteSet(s) /\ Cardinality(s) \in Nat
        /\ (s # {} => /\ AnyOf(s) \in s
                      /\ Cardinality(s \ {AnyOf(s)}) = Cardinality(s) - 1)
  <2>. TAKE s \in SUBSET S
  <2>1. IsFiniteSet(s)
    BY FS_Subset
  <2>2. Cardinality(s) \in Nat
    BY <2>1, FS_CardinalityType
  <2>3. s # {} => AnyOf(s) \in s
    BY DEF AnyOf
  <2>. QED
    BY <2>1, <2>2, <2>3, FS_RemoveElement
<1>2. SUFFICES ASSUME Bad # {} PROVE FALSE
  OBVIOUS
<1>3. Sizes # {} /\ Sizes \subseteq Nat
  <2>1. \A s \in Bad : s \in SUBSET S
    OBVIOUS
  <2>. HIDE DEF Bad
  <2>. QED
    BY <1>1, <1>2, <2>1
<1>4. PICK s \in Bad : \A r \in Bad : Cardinality(s) =< Cardinality(r)
  <2>1. PICK c \in Sizes : \A d \in Sizes : c =< d
    <3>. HIDE DEF Sizes
    <3>. QED
      BY <1>3, Least
  <2>. QED
    BY <2>1
<1>5. s \in SUBSET S /\ s \in SUBSET U /\ g[s] # h[s]
  OBVIOUS
<1>6. g[s] = SumStep(f, g, s) /\ h[s] = SumStep(f, h, s)
  BY <1>5 DEF IsSum
<1>7. s # {}
  BY <1>5, <1>6 DEF SumStep
<1>. DEFINE r == s \ {AnyOf(s)}
<1>8. r \in SUBSET S /\ r \in SUBSET U /\ Cardinality(r) = Cardinality(s) - 1
      /\ Cardinality(s) \in Nat
  BY <1>1, <1>5, <1>7
<1>9. r \notin Bad
  <2>. HIDE DEF Bad, r
  <2>. QED
    BY <1>4, <1>8
<1>10. g[r] = h[r]
  BY <1>8, <1>9
<1>. QED
  BY <1>5, <1>6, <1>7, <1>10 DEF SumStep

\* The sum over a set is the recursion's value on it.
LEMMA TotalIs ==
  ASSUME NEW f, NEW S, IsFiniteSet(S), NEW h, IsSum(f, S, h), NEW s \in SUBSET S
  PROVE  Total(f, s) = h[s]
<1>1. IsFiniteSet(s)
  BY FS_Subset
<1>2. PICK g : IsSum(f, s, g)
  BY <1>1, SumExists
<1>. DEFINE k == CHOOSE k : IsSum(f, s, k)
<1>3. IsSum(f, s, k)
  BY <1>2
<1>4. Total(f, s) = k[s]
  BY TotalDef
<1>. HIDE DEF k
<1>5. h[s] = k[s]
  BY <1>1, <1>3, SumUnique
<1>. QED
  BY <1>4, <1>5

LEMMA TotalEmpty ==
  ASSUME NEW f
  PROVE  Total(f, {}) = 0
<1>1. IsFiniteSet({})
  BY FS_EmptySet
<1>2. PICK h : IsSum(f, {}, h)
  BY <1>1, SumExists
<1>3. h[{}] = 0
  BY <1>2 DEF IsSum, SumStep
<1>. QED
  BY <1>1, <1>2, <1>3, TotalIs

LEMMA TotalAny ==
  ASSUME NEW f, NEW S, IsFiniteSet(S), S # {}
  PROVE  Total(f, S) = f[AnyOf(S)] + Total(f, S \ {AnyOf(S)})
<1>1. PICK h : IsSum(f, S, h)
  BY SumExists
<1>. DEFINE r == S \ {AnyOf(S)}
<1>2. h[S] = f[AnyOf(S)] + h[r]
  BY <1>1 DEF IsSum, SumStep
<1>3. Total(f, S) = h[S] /\ Total(f, r) = h[r]
  <2>1. S \in SUBSET S /\ r \in SUBSET S
    OBVIOUS
  <2>. HIDE DEF r
  <2>. QED
    BY <1>1, <2>1, TotalIs
<1>. QED
  BY <1>2, <1>3

\* The type of a sum, and taking any element out of it first.
LEMMA TotalFacts ==
  ASSUME NEW f, NEW N, IsFiniteSet(N), \A x \in N : f[x] \in Int
  PROVE  /\ Total(f, N) \in Int
         /\ \A x \in N : Total(f, N) = f[x] + Total(f, N \ {x})
<1>. DEFINE Good(S) == /\ Total(f, S) \in Int
                       /\ \A x \in S : Total(f, S) = f[x] + Total(f, S \ {x})
            T == {k \in Nat : \A S \in SUBSET N : Cardinality(S) =< k => Good(S)}
<1>1. \A S \in SUBSET N : IsFiniteSet(S) /\ Cardinality(S) \in Nat
        /\ (Cardinality(S) = 0 <=> S = {})
        /\ \A x \in S : S \ {x} \in SUBSET N /\ Cardinality(S \ {x}) = Cardinality(S) - 1
  <2>. TAKE S \in SUBSET N
  <2>1. IsFiniteSet(S)
    BY FS_Subset
  <2>2. Cardinality(S) \in Nat /\ (Cardinality(S) = 0 <=> S = {})
    BY <2>1, FS_CardinalityType, FS_EmptySet
  <2>. QED
    BY <2>1, <2>2, FS_RemoveElement
<1>2. 0 \in T
  <2>1. Good({})
    BY TotalEmpty
  <2>2. \A S \in SUBSET N : Cardinality(S) =< 0 => S = {}
    BY <1>1
  <2>. QED
    BY <2>1, <2>2
<1>3. ASSUME NEW k \in T PROVE k + 1 \in T
  <2>1. ASSUME NEW S \in SUBSET N, Cardinality(S) =< k + 1, S # {} PROVE Good(S)
    <3>. DEFINE c == AnyOf(S)
    <3>1. c \in S /\ k \in Nat
      BY <2>1 DEF AnyOf
    <3>2. Total(f, S) = f[c] + Total(f, S \ {c})
      BY <1>1, <2>1, TotalAny
    <3>3. \A R \in SUBSET N, x \in S : R \subseteq S \ {x} => Good(R)
      <4>. SUFFICES ASSUME NEW R \in SUBSET N, NEW x \in S, R \subseteq S \ {x}
                    PROVE  Good(R)
        OBVIOUS
      <4>1. IsFiniteSet(S \ {x}) /\ Cardinality(S \ {x}) = Cardinality(S) - 1
            /\ Cardinality(S) \in Nat
        BY <1>1
      <4>2. Cardinality(R) =< Cardinality(S \ {x}) /\ Cardinality(R) \in Nat
        BY <4>1, <1>1, FS_Subset
      <4>3. Cardinality(R) =< k
        BY <4>1, <4>2, <2>1, <3>1
      <4>. HIDE DEF Good
      <4>. QED
        BY <4>3
    <3>4. \A x \in S : f[x] \in Int /\ Total(f, S \ {x}) \in Int
      <4>1. \A x \in S : S \ {x} \in SUBSET N /\ S \ {x} \subseteq S \ {x}
        OBVIOUS
      <4>. QED
        BY <3>3, <4>1
    <3>5. Total(f, S) \in Int
      <4>. HIDE DEF c
      <4>. QED BY <3>1, <3>2, <3>4
    <3>6. ASSUME NEW x \in S, x # c PROVE Total(f, S) = f[x] + Total(f, S \ {x})
      <4>. DEFINE R == (S \ {c}) \ {x}
      <4>1. R = (S \ {x}) \ {c} /\ x \in S \ {c} /\ c \in S \ {x}
            /\ R \in SUBSET N /\ R \subseteq S \ {x}
            /\ S \ {c} \in SUBSET N /\ S \ {x} \in SUBSET N
        BY <3>1, <3>6
      <4>2. Total(f, S \ {c}) = f[x] + Total(f, R)
        BY <3>1, <3>3, <4>1
      <4>3. Total(f, S \ {x}) = f[c] + Total(f, R)
        BY <3>3, <4>1
      <4>4. Total(f, R) \in Int
        BY <3>3, <4>1
      <4>. HIDE DEF R, c
      <4>. QED
        BY <3>1, <3>2, <3>4, <4>2, <4>3, <4>4
    <3>. HIDE DEF c
    <3>. QED
      BY <3>2, <3>5, <3>6
  <2>2. Good({})
    BY TotalEmpty
  <2>. HIDE DEF Good
  <2>. QED
    BY <2>1, <2>2
<1>4. Cardinality(N) \in T
  <2>. HIDE DEF T
  <2>1. T \subseteq Nat
    BY DEF T
  <2>. QED
    BY <1>1, <1>2, <1>3, <2>1, AllOfNat
<1>5. Good(N)
  <2>. HIDE DEF Good
  <2>. QED BY <1>4
<1>. QED
  BY <1>5


\* Induction over the subsets of a finite set: a collection of them that has the empty
\* set, and a set whenever it has what is left of it without some element, has all.
LEMMA AllSubsets ==
  ASSUME NEW N, IsFiniteSet(N), NEW G, {} \in G,
         \A S \in SUBSET N : \A x \in S : S \ {x} \in G => S \in G
  PROVE  N \in G
<1>. DEFINE T == {k \in Nat : \A S \in SUBSET N : Cardinality(S) = k => S \in G}
<1>1. \A S \in SUBSET N : IsFiniteSet(S) /\ Cardinality(S) \in Nat
        /\ (Cardinality(S) = 0 <=> S = {})
        /\ \A x \in S : S \ {x} \in SUBSET N /\ Cardinality(S \ {x}) = Cardinality(S) - 1
  <2>. TAKE S \in SUBSET N
  <2>1. IsFiniteSet(S)
    BY FS_Subset
  <2>2. Cardinality(S) \in Nat /\ (Cardinality(S) = 0 <=> S = {})
    BY <2>1, FS_CardinalityType, FS_EmptySet
  <2>. QED
    BY <2>1, <2>2, FS_RemoveElement
<1>2. 0 \in T
  BY <1>1
<1>3. ASSUME NEW k \in T PROVE k + 1 \in T
  <2>1. ASSUME NEW S \in SUBSET N, Cardinality(S) = k + 1 PROVE S \in G
    <3>1. S # {} /\ k \in Nat
      BY <1>1, <2>1
    <3>2. PICK x \in S : TRUE
      BY <3>1
    <3>3. S \ {x} \in SUBSET N /\ Cardinality(S \ {x}) = k
      BY <1>1, <2>1, <3>1, <3>2
    <3>4. S \ {x} \in G
      BY <3>3
    <3>. QED
      BY <3>2, <3>4
  <2>. QED
    BY <2>1
<1>4. Cardinality(N) \in Nat /\ N \in SUBSET N
  BY <1>1
<1>5. Cardinality(N) \in T
  <2>. HIDE DEF T
  <2>1. T \subseteq Nat
    BY DEF T
  <2>. QED
    BY <1>2, <1>3, <1>4, <2>1, AllOfNat
<1>. QED
  BY <1>4, <1>5

LEMMA TotalCong ==
  ASSUME NEW N, IsFiniteSet(N), NEW f, NEW g, \A x \in N : f[x] = g[x] /\ f[x] \in Int
  PROVE  Total(f, N) = Total(g, N)
<1>. DEFINE G == {S \in SUBSET N : Total(f, S) = Total(g, S)}
<1>1. {} \in G
  BY TotalEmpty
<1>2. ASSUME NEW S \in SUBSET N, NEW x \in S, S \ {x} \in G PROVE S \in G
  <2>1. IsFiniteSet(S)
    BY FS_Subset
  <2>2. Total(f, S) = f[x] + Total(f, S \ {x})
    BY <2>1, TotalFacts
  <2>3. Total(g, S) = g[x] + Total(g, S \ {x})
    BY <2>1, TotalFacts
  <2>. QED
    BY <1>2, <2>2, <2>3
<1>3. N \in G
  <2>. HIDE DEF G
  <2>. QED BY <1>1, <1>2, AllSubsets
<1>. QED
  BY <1>3

\* Raising one of the numbers by d raises their sum by d.
LEMMA TotalRaise ==
  ASSUME NEW N, IsFiniteSet(N), NEW f, NEW g, NEW x \in N, NEW d \in Int,
         \A y \in N : f[y] \in Int, g[x] = f[x] + d, \A y \in N : y # x => g[y] = f[y]
  PROVE  Total(g, N) = Total(f, N) + d
<1>. DEFINE R == N \ {x}
<1>1. IsFiniteSet(R) /\ \A y \in R : y \in N /\ y # x
  BY FS_RemoveElement
<1>2. \A y \in N : g[y] \in Int
  <2>. TAKE y \in N
  <2>1. f[y] \in Int /\ f[x] \in Int
    OBVIOUS
  <2>. QED
    BY <2>1
<1>3. Total(f, N) = f[x] + Total(f, R) /\ Total(g, N) = g[x] + Total(g, R)
  BY <1>2, TotalFacts
<1>4. Total(f, R) \in Int
  BY <1>1, TotalFacts
<1>5. Total(f, R) = Total(g, R)
  <2>. HIDE DEF R
  <2>1. \A y \in R : f[y] = g[y] /\ f[y] \in Int
    BY <1>1
  <2>. QED
    BY <1>1, <2>1, TotalCong
<1>6. f[x] \in Int
  OBVIOUS
<1>. HIDE DEF R
<1>. QED
  BY <1>3, <1>4, <1>5, <1>6

\* The sum of equal numbers.
LEMMA TotalConst ==
  ASSUME NEW N, IsFiniteSet(N), NEW f, NEW k \in Int, \A x \in N : f[x] = k
  PROVE  Total(f, N) = k * Cardinality(N)
<1>. DEFINE G == {S \in SUBSET N : Total(f, S) = k * Cardinality(S)}
<1>1. {} \in G
  BY TotalEmpty, FS_EmptySet
<1>2. ASSUME NEW S \in SUBSET N, NEW x \in S, S \ {x} \in G PROVE S \in G
  <2>. DEFINE m == Cardinality(S \ {x})
  <2>1. IsFiniteSet(S)
    BY FS_Subset
  <2>2. Total(f, S) = k + Total(f, S \ {x})
    BY <2>1, TotalFacts
  <2>3. Cardinality(S) = m + 1 /\ m \in Nat
    <3>1. IsFiniteSet(S \ {x}) /\ m = Cardinality(S) - 1
      BY <2>1, FS_RemoveElement
    <3>2. m \in Nat /\ Cardinality(S) \in Nat
      BY <2>1, <3>1, FS_CardinalityType
    <3>. QED
      BY <3>1, <3>2
  <2>4. Total(f, S \ {x}) = k * m
    BY <1>2
  <2>. HIDE DEF m
  <2>5. Total(f, S) = k * (m + 1)
    BY <2>2, <2>3, <2>4
  <2>. QED
    BY <2>3, <2>5
<1>3. N \in G
  <2>. HIDE DEF G
  <2>. QED BY <1>1, <1>2, AllSubsets
<1>. QED
  BY <1>3
==============================================================================
