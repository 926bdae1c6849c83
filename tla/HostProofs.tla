------------------------------ MODULE HostProofs -----------------------------
(***************************************************************************)
(* Proofs about the host programs, for every routing, width, number of     *)
(* experts, CTAs and iterations: the planner's buckets, the C++            *)
(* reference's work list and its assignments, dispatch, and the harness    *)
(* with its stream. What the model computes with folds and flattenings is  *)
(* taken apart one element at a time: a fold is a sum over a finite set of *)
(* indices (Sums), a flattening is the one of all blocks but the last      *)
(* followed by the last.                                                   *)
(***************************************************************************)
EXTENDS HostPlanning, SequenceTheorems, Sums

------------------------------------------------------------------------------
(* Folds                                                                   *)

\* The folds of the model are sums over the indices of what they fold.
LEMMA SumFunctionIs ==
  ASSUME NEW S, NEW f, DOMAIN f = S
  PROVE  SumFunction(f) = Total(f, S)
BY DEF SumFunction, SumFunctionOnSet, FoldFunctionOnSet, Total, MapThenSumSet, MapThenFoldSet

LEMMA LogicalIs ==
  ASSUME NEW s, NEW f, f = [i \in DOMAIN s |-> s[i].validM * TileN]
  PROVE  LogicalElements(s) = Total(f, DOMAIN s)
BY DEF LogicalElements, FoldSeq, FoldFunction, FoldFunctionOnSet, Total, MapThenSumSet, MapThenFoldSet

------------------------------------------------------------------------------
(* Flattening, one sequence at a time                                      *)

\* The recursion FlattenSeq is defined by.
FlatStep(s, h, i) == IF i = 1 THEN s[i] ELSE h[i - 1] \o s[i]
IsFlat(s, h) == h = [i \in 1 .. Len(s) |-> FlatStep(s, h, i)]

LEMMA FlattenDef ==
  ASSUME NEW s, Len(s) # 0
  PROVE  FlattenSeq(s) = (CHOOSE h : IsFlat(s, h))[Len(s)]
BY DEF FlattenSeq, IsFlat, FlatStep

LEMMA FlatExists ==
  ASSUME NEW s, Len(s) \in Nat
  PROVE  \E h : IsFlat(s, h)
<1>. DEFINE T == {k \in Nat : \E h : h = [i \in 1 .. k |-> FlatStep(s, h, i)]}
<1>1. 0 \in T
  <2>1. [i \in 1 .. 0 |-> 0] = [i \in 1 .. 0 |-> FlatStep(s, [j \in 1 .. 0 |-> 0], i)]
    OBVIOUS
  <2>. QED
    BY <2>1
<1>2. ASSUME NEW k \in T PROVE k + 1 \in T
  <2>1. k \in Nat
    OBVIOUS
  <2>2. PICK g : g = [i \in 1 .. k |-> FlatStep(s, g, i)]
    OBVIOUS
  <2>. DEFINE h == [i \in 1 .. k + 1 |-> FlatStep(s, g, i)]
  <2>3. \A i \in 1 .. k : h[i] = g[i]
    <3>. TAKE i \in 1 .. k
    <3>1. i \in 1 .. k + 1
      BY <2>1
    <3>2. h[i] = FlatStep(s, g, i)
      BY <3>1
    <3>3. g[i] = FlatStep(s, g, i)
      <4>. HIDE DEF h, T
      <4>. QED BY <2>2
    <3>. QED
      BY <3>2, <3>3
  <2>4. \A i \in 1 .. k + 1 : FlatStep(s, g, i) = FlatStep(s, h, i)
    <3>. TAKE i \in 1 .. k + 1
    <3>1. i # 1 => i - 1 \in 1 .. k
      BY <2>1
    <3>. HIDE DEF h
    <3>. QED
      BY <2>3, <3>1 DEF FlatStep
  <2>5. h = [i \in 1 .. k + 1 |-> FlatStep(s, h, i)]
    BY <2>4
  <2>6. k + 1 \in Nat
    BY <2>1
  <2>. HIDE DEF h
  <2>. QED
    BY <2>5, <2>6
<1>3. Len(s) \in T
  <2>. HIDE DEF T
  <2>1. T \subseteq Nat
    BY DEF T
  <2>. QED
    BY <1>1, <1>2, <2>1, AllOfNat
<1>. QED
  BY <1>3 DEF IsFlat

\* On what two sequences have in common their recursions agree.
SameUpTo(m, s, t) ==
  /\ m \in Nat /\ Len(s) \in Nat /\ Len(t) \in Nat /\ m =< Len(s) /\ m =< Len(t)
  /\ \A i \in 1 .. m : s[i] = t[i]

LEMMA FlatUnique ==
  ASSUME NEW m, NEW s, NEW t, SameUpTo(m, s, t), NEW g, IsFlat(s, g), NEW h, IsFlat(t, h)
  PROVE  \A i \in 1 .. m : g[i] = h[i]
<1>. USE DEF SameUpTo
<1>. DEFINE Bad == {i \in 1 .. m : g[i] # h[i]}
<1>1. SUFFICES ASSUME Bad # {} PROVE FALSE
  OBVIOUS
<1>2. Bad \subseteq Nat
  OBVIOUS
<1>3. PICK i \in Bad : \A j \in Bad : i =< j
  <2>. HIDE DEF Bad
  <2>. QED
    BY <1>1, <1>2, Least
<1>4. i \in 1 .. m /\ g[i] # h[i] /\ i \in 1 .. Len(s) /\ i \in 1 .. Len(t)
  OBVIOUS
<1>5. g[i] = FlatStep(s, g, i) /\ h[i] = FlatStep(t, h, i)
  BY <1>4 DEF IsFlat
<1>6. i # 1 => g[i - 1] = h[i - 1]
  <2>1. i # 1 => i - 1 \in 1 .. m /\ i - 1 \notin Bad
    <3>1. ~(i =< i - 1)
      BY <1>4
    <3>. HIDE DEF Bad
    <3>. QED
      BY <1>3, <1>4, <3>1
  <2>. QED
    BY <2>1
<1>. QED
  BY <1>4, <1>5, <1>6 DEF FlatStep

\* r is what s has before its last sequence.
AllButLast(r, s, k, T) ==
  k \in Nat /\ s \in [1 .. k + 1 -> Seq(T)] /\ r = [i \in 1 .. k |-> s[i]]

LEMMA FlattenStep ==
  ASSUME NEW T, NEW k, NEW s, NEW r, AllButLast(r, s, k, T)
  PROVE  FlattenSeq(s) = FlattenSeq(r) \o s[k + 1]
<1>0. k \in Nat /\ s \in [1 .. k + 1 -> Seq(T)] /\ r = [i \in 1 .. k |-> s[i]]
  BY DEF AllButLast
<1>1. /\ s \in Seq(Seq(T)) /\ Len(s) = k + 1 /\ Len(s) \in Nat
      /\ r \in Seq(Seq(T)) /\ Len(r) = k /\ Len(r) \in Nat
      /\ k + 1 \in Nat /\ k + 1 \in 1 .. k + 1 /\ k \in Nat
  BY <1>0
<1>2. PICK h : IsFlat(s, h)
  BY <1>1, FlatExists
<1>3. FlattenSeq(s) = h[k + 1]
  <2>1. FlattenSeq(s) = (CHOOSE g : IsFlat(s, g))[k + 1] /\ k + 1 \in 1 .. k + 1
    BY <1>1, FlattenDef
  <2>. DEFINE g == CHOOSE g : IsFlat(s, g)
  <2>2. IsFlat(s, g)
    BY <1>2
  <2>3. FlattenSeq(s) = g[k + 1]
    BY <2>1
  <2>. HIDE DEF g
  <2>4. \A i \in 1 .. k + 1 : g[i] = h[i]
    <3>1. SameUpTo(k + 1, s, s)
      BY <1>1 DEF SameUpTo
    <3>. QED
      BY <1>2, <2>2, <3>1, FlatUnique
  <2>. QED
    BY <2>1, <2>3, <2>4
<1>4. CASE k = 0
  <2>1. r = <<>> /\ FlattenSeq(r) = r
    BY <1>1, <1>4 DEF FlattenSeq
  <2>2. h[1] = s[1]
    BY <1>1, <1>2, <1>4 DEF IsFlat, FlatStep
  <2>3. s[1] \in Seq(T)
    BY <1>0, <1>4
  <2>4. <<>> \o s[1] = s[1]
    BY <2>3, ConcatEmptySeq
  <2>5. k + 1 = 1
    BY <1>4
  <2>. QED
    BY <1>3, <2>1, <2>2, <2>4, <2>5
<1>5. CASE k > 0
  <2>1. h[k + 1] = h[k] \o s[k + 1]
    <3>1. k + 1 # 1 /\ (k + 1) - 1 = k
      BY <1>1, <1>5
    <3>2. h[k + 1] = FlatStep(s, h, k + 1)
      BY <1>1, <1>2 DEF IsFlat
    <3>. QED
      BY <3>1, <3>2 DEF FlatStep
  <2>. DEFINE g == CHOOSE g : IsFlat(r, g)
  <2>2. IsFlat(r, g)
    BY <1>1, FlatExists
  <2>3. FlattenSeq(r) = g[k]
    <3>1. Len(r) # 0
      BY <1>1, <1>5
    <3>2. FlattenSeq(r) = (CHOOSE f : IsFlat(r, f))[Len(r)]
      BY <3>1, FlattenDef
    <3>. QED
      BY <1>1, <3>2
  <2>. HIDE DEF g
  <2>4. \A i \in 1 .. k : h[i] = g[i]
    <3>1. SameUpTo(k, s, r)
      BY <1>0, <1>1 DEF SameUpTo
    <3>. QED
      BY <1>2, <2>2, <3>1, FlatUnique
  <2>5. h[k] = g[k]
    BY <1>1, <1>5, <2>4
  <2>. QED
    BY <1>3, <2>1, <2>3, <2>5
<1>. QED
  BY <1>1, <1>4, <1>5

LEMMA FlattenEmpty ==
  ASSUME NEW s, Len(s) = 0
  PROVE  FlattenSeq(s) = s
BY DEF FlattenSeq

LEMMA FlattenType ==
  ASSUME NEW T, NEW k \in Nat, NEW s \in [1 .. k -> Seq(T)]
  PROVE  FlattenSeq(s) \in Seq(T)
<1>. DEFINE G == {m \in Nat : \A r \in [1 .. m -> Seq(T)] : FlattenSeq(r) \in Seq(T)}
<1>1. 0 \in G
  <2>. SUFFICES ASSUME NEW r \in [1 .. 0 -> Seq(T)] PROVE FlattenSeq(r) \in Seq(T)
    OBVIOUS
  <2>1. r \in Seq(Seq(T)) /\ Len(r) = 0
    OBVIOUS
  <2>2. r = <<>>
    BY <2>1, EmptySeq
  <2>. QED
    BY <2>1, <2>2, FlattenEmpty, EmptySeq
<1>2. ASSUME NEW m \in G PROVE m + 1 \in G
  <2>1. m \in Nat
    OBVIOUS
  <2>2. ASSUME NEW r \in [1 .. m + 1 -> Seq(T)] PROVE FlattenSeq(r) \in Seq(T)
    <3>. DEFINE q == [i \in 1 .. m |-> r[i]]
    <3>1. q \in [1 .. m -> Seq(T)] /\ r[m + 1] \in Seq(T)
      BY <2>1
    <3>2. FlattenSeq(q) \in Seq(T)
      BY <3>1
    <3>3. FlattenSeq(r) = FlattenSeq(q) \o r[m + 1]
      <4>1. AllButLast(q, r, m, T)
        BY <2>1 DEF AllButLast
      <4>. HIDE DEF G, q
      <4>. QED
        BY <4>1, FlattenStep
    <3>. HIDE DEF q
    <3>. QED
      BY <3>1, <3>2, <3>3, ConcatProperties
  <2>. QED
    BY <2>1, <2>2
<1>3. k \in G
  <2>. HIDE DEF G
  <2>1. G \subseteq Nat
    BY DEF G
  <2>. QED
    BY <1>1, <1>2, <2>1, AllOfNat
<1>. QED
  BY <1>3

------------------------------------------------------------------------------
(* Arithmetic                                                              *)

LEMMA DivFacts ==
  ASSUME NEW a \in Nat, NEW b \in Nat, b > 0
  PROVE  /\ a % b \in 0 .. b - 1 /\ a \div b \in Nat
         /\ a = b * (a \div b) + (a % b)
OBVIOUS

LEMMA DivUnique ==
  ASSUME NEW b \in Nat, b > 0, NEW q \in Nat, NEW r \in 0 .. b - 1
  PROVE  (b * q + r) \div b = q /\ (b * q + r) % b = r
<1>. DEFINE a == b * q + r
            p == a \div b
            s == a % b
<1>1. b * q \in Nat
  OBVIOUS
<1>2. a \in Nat
  BY <1>1
<1>3. p \in Nat /\ s \in 0 .. b - 1 /\ a = b * p + s
  BY <1>2, DivFacts
<1>. HIDE DEF p, s
<1>4. b * p \in Nat /\ b * q + r = b * p + s
  BY <1>3
<1>5. ASSUME p < q PROVE FALSE
  <2>1. b * (p + 1) =< b * q /\ b * (p + 1) = b * p + b
    BY <1>3, <1>5
  <2>. QED
    BY <1>1, <1>3, <1>4, <2>1
<1>6. ASSUME q < p PROVE FALSE
  <2>1. b * (q + 1) =< b * p /\ b * (q + 1) = b * q + b
    BY <1>3, <1>6
  <2>. QED
    BY <1>1, <1>3, <1>4, <2>1
<1>7. p = q
  BY <1>3, <1>5, <1>6
<1>8. s = r
  BY <1>1, <1>3, <1>4, <1>7
<1>. QED
  BY <1>7, <1>8 DEF p, s

\* The position of the j-th of w columns in the row after b others.
LEMMA RowIndex ==
  ASSUME NEW w \in Nat, w > 0, NEW b \in Nat, NEW j \in 1 .. w
  PROVE  /\ b * w + j \in Nat /\ b * w + j > b * w /\ b * w \in Nat
         /\ ((b * w + j) - 1) \div w = b /\ ((b * w + j) - 1) % w = j - 1
         /\ (b + 1) * w = b * w + w
<1>1. b * w \in Nat /\ b * w = w * b /\ j - 1 \in 0 .. w - 1
  OBVIOUS
<1>2. (w * b + (j - 1)) \div w = b /\ (w * b + (j - 1)) % w = j - 1
  BY <1>1, DivUnique
<1>3. (b * w + j) - 1 = w * b + (j - 1)
  BY <1>1
<1>4. (b + 1) * w = b * w + w
  OBVIOUS
<1>. QED
  BY <1>1, <1>2, <1>3, <1>4

LEMMA SizeFacts ==
  /\ Experts \in Nat /\ Experts > 0 /\ CtaCount \in Nat /\ CtaCount > 0
  /\ IsFiniteSet(ExpertIds) /\ Cardinality(ExpertIds) = Experts
  /\ LargeM = 128 /\ SmallM = 64 /\ TileN = 128
BY RoutingAssumption, FS_Interval DEF ExpertIds, LargeM, SmallM, TileN

------------------------------------------------------------------------------
(* The tiles of an expert, in the order of the work list                   *)

RoutingOK == counts \in [ExpertIds -> Nat] /\ n \in Nat \ {0}

\* The width is one the planner accepts.
Cols == n \div TileN
WholeColumns == RoutingOK /\ n % TileN = 0

PlanTile == [expert : Int, m : Int, n : Int, validM : Int]

TileAt(e, tileM, i) ==
  [expert |-> e, m |-> ((i - 1) \div Cols) * tileM, n |-> ((i - 1) % Cols) * TileN,
   validM |-> Smaller(tileM, counts[e] - ((i - 1) \div Cols) * tileM)]

LEMMA ColsFacts ==
  ASSUME WholeColumns
  PROVE  Cols \in Nat /\ Cols > 0 /\ n = TileN * Cols /\ n = 128 * Cols
BY DEF WholeColumns, RoutingOK, Cols, TileN

\* A row block as its tiles.
IsRowBlock(s, e, m, v) ==
  /\ s \in Seq(PlanTile) /\ Len(s) = Cols
  /\ \A j \in 1 .. Cols :
       s[j] = [expert |-> e, m |-> m, n |-> (j - 1) * TileN, validM |-> v]

LEMMA RowBlockType ==
  ASSUME WholeColumns, NEW e \in Int, NEW m \in Int, NEW v \in Int
  PROVE  IsRowBlock(RowBlock(e, m, v), e, m, v)
<1>. DEFINE s == RowBlock(e, m, v)
<1>1. \A j \in 1 .. Cols : (j - 1) * TileN \in Int
  BY ColsFacts, SizeFacts
<1>2. s = [j \in 1 .. Cols |-> [expert |-> e, m |-> m, n |-> (j - 1) * TileN, validM |-> v]]
  BY DEF RowBlock, Cols
<1>3. s \in [1 .. Cols -> PlanTile]
  BY <1>1, <1>2 DEF PlanTile
<1>4. Cols \in Nat
  BY ColsFacts
<1>5. \A f \in [1 .. Cols -> PlanTile] : f \in Seq(PlanTile) /\ Len(f) = Cols
  BY <1>4
<1>6. \A j \in 1 .. Cols : s[j] = [expert |-> e, m |-> m, n |-> (j - 1) * TileN, validM |-> v]
  BY <1>2
<1>. HIDE DEF s
<1>7. s \in Seq(PlanTile) /\ Len(s) = Cols
  BY <1>3, <1>5
<1>8. IsRowBlock(s, e, m, v)
  BY <1>6, <1>7 DEF IsRowBlock
<1>. QED
  BY <1>8 DEF s

\* The b-th row block of an expert.
Block(e, b, tileM) ==
  RowBlock(e, (b - 1) * tileM, Smaller(tileM, counts[e] - (b - 1) * tileM))

LEMMA BlockType ==
  ASSUME WholeColumns, NEW e \in ExpertIds, NEW k \in Nat, NEW tileM \in Nat
  PROVE  [b \in 1 .. k |-> Block(e, b, tileM)] \in [1 .. k -> Seq(PlanTile)]
<1>. SUFFICES ASSUME NEW b \in 1 .. k PROVE Block(e, b, tileM) \in Seq(PlanTile)
  OBVIOUS
<1>1. (b - 1) * tileM \in Int
  OBVIOUS
<1>2. counts[e] - (b - 1) * tileM \in Int
  BY <1>1 DEF WholeColumns, RoutingOK
<1>3. Smaller(tileM, counts[e] - (b - 1) * tileM) \in Int
  BY <1>2 DEF Smaller
<1>4. e \in Int
  BY SizeFacts DEF ExpertIds
<1>. DEFINE m == (b - 1) * tileM
            v == Smaller(tileM, counts[e] - m)
<1>5. m \in Int /\ v \in Int /\ Block(e, b, tileM) = RowBlock(e, m, v)
  BY <1>1, <1>3 DEF Block
<1>. HIDE DEF m, v
<1>6. IsRowBlock(RowBlock(e, m, v), e, m, v)
  BY <1>4, <1>5, RowBlockType
<1>. QED
  BY <1>5, <1>6 DEF IsRowBlock

LEMMA RowBlocksStep ==
  ASSUME WholeColumns, NEW e \in ExpertIds, NEW k \in Nat, NEW tileM \in Nat
  PROVE  /\ RowBlocks(e, k, tileM) \in Seq(PlanTile)
         /\ Block(e, k + 1, tileM) \in Seq(PlanTile)
         /\ RowBlocks(e, k + 1, tileM) = RowBlocks(e, k, tileM) \o Block(e, k + 1, tileM)
<1>. DEFINE s == [b \in 1 .. k + 1 |-> Block(e, b, tileM)]
            r == [b \in 1 .. k |-> Block(e, b, tileM)]
<1>1. RowBlocks(e, k, tileM) = FlattenSeq(r) /\ RowBlocks(e, k + 1, tileM) = FlattenSeq(s)
  BY DEF RowBlocks, Block
<1>2. s \in [1 .. k + 1 -> Seq(PlanTile)] /\ r \in [1 .. k -> Seq(PlanTile)]
  BY BlockType
<1>3. r = [b \in 1 .. k |-> s[b]] /\ k + 1 \in 1 .. k + 1 /\ s[k + 1] = Block(e, k + 1, tileM)
  OBVIOUS
<1>. HIDE DEF r, s
<1>4. FlattenSeq(s) = FlattenSeq(r) \o s[k + 1]
  <2>1. AllButLast(r, s, k, PlanTile)
    BY <1>2, <1>3 DEF AllButLast
  <2>. QED
    BY <2>1, FlattenStep
<1>5. FlattenSeq(r) \in Seq(PlanTile)
  BY <1>2, FlattenType
<1>. QED
  BY <1>1, <1>2, <1>3, <1>4, <1>5

LEMMA RowBlocksNone ==
  ASSUME NEW e, NEW tileM
  PROVE  RowBlocks(e, 0, tileM) = <<>>
<1>. DEFINE s == [b \in 1 .. 0 |-> Block(e, b, tileM)]
<1>1. s = <<>> /\ Len(s) = 0
  <2>1. s \in Seq({}) /\ Len(s) = 0
    OBVIOUS
  <2>. QED
    BY <2>1, EmptySeq
<1>2. RowBlocks(e, 0, tileM) = FlattenSeq(s)
  BY DEF RowBlocks, Block
<1>. HIDE DEF s
<1>. QED
  BY <1>1, <1>2, FlattenEmpty

LEMMA BlockIs ==
  ASSUME WholeColumns, NEW e \in ExpertIds, NEW b \in Nat, NEW tileM \in Nat
  PROVE  /\ Block(e, b + 1, tileM) \in Seq(PlanTile) /\ Len(Block(e, b + 1, tileM)) = Cols
         /\ \A j \in 1 .. Cols : Block(e, b + 1, tileM)[j]
              = [expert |-> e, m |-> b * tileM, n |-> (j - 1) * TileN,
                 validM |-> Smaller(tileM, counts[e] - b * tileM)]
<1>1. (b + 1) - 1 = b /\ b * tileM \in Int /\ e \in Int
  BY SizeFacts DEF ExpertIds
<1>2. counts[e] - b * tileM \in Int
  BY <1>1 DEF WholeColumns, RoutingOK
<1>3. Smaller(tileM, counts[e] - b * tileM) \in Int
  BY <1>2 DEF Smaller
<1>. DEFINE m == b * tileM
            v == Smaller(tileM, counts[e] - m)
<1>4. Block(e, b + 1, tileM) = RowBlock(e, m, v) /\ m \in Int /\ v \in Int
  BY <1>1, <1>3 DEF Block
<1>5. e \in Int
  BY <1>1
<1>6. IsRowBlock(RowBlock(e, m, v), e, m, v)
  <2>1. m \in Int /\ v \in Int
    BY <1>4
  <2>. HIDE DEF m, v
  <2>. QED
    BY <1>5, <2>1, RowBlockType
<1>7. IsRowBlock(Block(e, b + 1, tileM), e, m, v)
  BY <1>4, <1>6
<1>. HIDE DEF m, v
<1>8. /\ Block(e, b + 1, tileM) \in Seq(PlanTile) /\ Len(Block(e, b + 1, tileM)) = Cols
      /\ \A j \in 1 .. Cols : Block(e, b + 1, tileM)[j]
           = [expert |-> e, m |-> m, n |-> (j - 1) * TileN, validM |-> v]
  BY <1>7 DEF IsRowBlock
<1>. QED
  BY <1>8 DEF m, v

\* The elements of two sequences in a row.
LEMMA InARow ==
  ASSUME NEW T, NEW s \in Seq(T), NEW t \in Seq(T), NEW i \in 1 .. Len(s) + Len(t)
  PROVE  /\ Len(s \o t) = Len(s) + Len(t)
         /\ i =< Len(s) => i \in 1 .. Len(s) /\ (s \o t)[i] = s[i]
         /\ i > Len(s) => i - Len(s) \in 1 .. Len(t) /\ (s \o t)[i] = t[i - Len(s)]
<1>1. Len(s) \in Nat /\ Len(t) \in Nat
  OBVIOUS
<1>. QED
  BY <1>1, ConcatProperties

LEMMA RowBlocksAre ==
  ASSUME WholeColumns, NEW e \in ExpertIds, NEW k \in Nat, NEW tileM \in Nat
  PROVE  /\ RowBlocks(e, k, tileM) \in Seq(PlanTile)
         /\ Len(RowBlocks(e, k, tileM)) = k * Cols
         /\ \A i \in 1 .. k * Cols : RowBlocks(e, k, tileM)[i] = TileAt(e, tileM, i)
<1>. DEFINE Good(b) == /\ Len(RowBlocks(e, b, tileM)) = b * Cols
                       /\ \A i \in 1 .. b * Cols : RowBlocks(e, b, tileM)[i] = TileAt(e, tileM, i)
            G == {b \in Nat : Good(b)}
<1>1. 0 \in G
  BY RowBlocksNone, ColsFacts
<1>2. ASSUME NEW b \in G PROVE b + 1 \in G
  <2>. DEFINE s == RowBlocks(e, b, tileM)
              t == Block(e, b + 1, tileM)
              w == b * Cols
  <2>1. b \in Nat /\ w \in Nat /\ Cols \in Nat /\ Cols > 0 /\ (b + 1) * Cols = w + Cols
        /\ Len(s) = w /\ \A i \in 1 .. w : s[i] = TileAt(e, tileM, i)
    BY ColsFacts
  <2>2. s \in Seq(PlanTile) /\ t \in Seq(PlanTile) /\ RowBlocks(e, b + 1, tileM) = s \o t
    BY <2>1, RowBlocksStep
  <2>3. Len(t) = Cols
        /\ \A j \in 1 .. Cols : t[j] =
             [expert |-> e, m |-> b * tileM, n |-> (j - 1) * TileN,
              validM |-> Smaller(tileM, counts[e] - b * tileM)]
    BY <2>1, BlockIs
  <2>. HIDE DEF G, Good, s, t
  <2>4. \A i \in 1 .. w + Cols :
           /\ Len(s \o t) = w + Cols
           /\ i =< w => i \in 1 .. w /\ (s \o t)[i] = s[i]
           /\ i > w => i - w \in 1 .. Cols /\ (s \o t)[i] = t[i - w]
    <3>1. Len(s) = w /\ Len(t) = Cols
      BY <2>1, <2>3
    <3>. HIDE DEF w
    <3>. SUFFICES ASSUME NEW i \in 1 .. w + Cols
                  PROVE  /\ Len(s \o t) = w + Cols
                         /\ i =< w => i \in 1 .. w /\ (s \o t)[i] = s[i]
                         /\ i > w => i - w \in 1 .. Cols /\ (s \o t)[i] = t[i - w]
      OBVIOUS
    <3>2. i \in 1 .. Len(s) + Len(t)
      BY <3>1
    <3>3. /\ Len(s \o t) = Len(s) + Len(t)
          /\ i =< Len(s) => i \in 1 .. Len(s) /\ (s \o t)[i] = s[i]
          /\ i > Len(s) => i - Len(s) \in 1 .. Len(t) /\ (s \o t)[i] = t[i - Len(s)]
      BY <2>2, <3>2, InARow
    <3>. QED
      BY <3>1, <3>3
  <2>5. ASSUME NEW j \in 1 .. Cols PROVE t[j] = TileAt(e, tileM, w + j)
    <3>1. ((w + j) - 1) \div Cols = b /\ ((w + j) - 1) % Cols = j - 1
      BY <2>1, RowIndex
    <3>. QED
      BY <2>3, <3>1 DEF TileAt
  <2>. HIDE DEF w
  <2>6. 1 \in 1 .. w + Cols
    BY <2>1
  <2>7. Len(s \o t) = w + Cols
    BY <2>4, <2>6
  <2>8. ASSUME NEW i \in 1 .. w + Cols PROVE (s \o t)[i] = TileAt(e, tileM, i)
    <3>1. CASE i =< w
      BY <2>1, <2>4, <3>1
    <3>2. CASE i > w
      <4>1. i - w \in 1 .. Cols /\ (s \o t)[i] = t[i - w] /\ w + (i - w) = i
        BY <2>1, <2>4, <3>2
      <4>2. t[i - w] = TileAt(e, tileM, w + (i - w))
        BY <2>5, <4>1
      <4>. QED
        BY <4>1, <4>2
    <3>3. i =< w \/ i > w
      BY <2>1
    <3>. QED
      BY <3>1, <3>2, <3>3
  <2>9. Good(b + 1)
    BY <2>1, <2>2, <2>7, <2>8 DEF Good
  <2>. QED
    BY <2>1, <2>9 DEF G
<1>3. k \in G
  <2>. HIDE DEF G
  <2>1. G \subseteq Nat
    BY DEF G
  <2>. QED
    BY <1>1, <1>2, <2>1, AllOfNat
<1>. QED
  BY <1>3, RowBlocksStep

------------------------------------------------------------------------------
(* Sums over sequences                                                     *)

LEMMA SumTo ==
  ASSUME NEW k \in Nat, NEW f, \A i \in 1 .. k + 1 : f[i] \in Int
  PROVE  /\ Total(f, 1 .. k + 1) = Total(f, 1 .. k) + f[k + 1]
         /\ Total(f, 1 .. k + 1) \in Int /\ Total(f, 1 .. k) \in Int
<1>1. IsFiniteSet(1 .. k + 1) /\ IsFiniteSet(1 .. k) /\ k + 1 \in 1 .. k + 1
  BY FS_Interval
<1>2. (1 .. k + 1) \ {k + 1} = 1 .. k /\ \A i \in 1 .. k : f[i] \in Int
  OBVIOUS
<1>3. Total(f, 1 .. k + 1) \in Int /\ Total(f, 1 .. k) \in Int
  BY <1>1, <1>2, TotalFacts
<1>4. Total(f, 1 .. k + 1) = f[k + 1] + Total(f, (1 .. k + 1) \ {k + 1})
  <2>. DEFINE N == 1 .. k + 1
  <2>1. IsFiniteSet(N) /\ k + 1 \in N /\ \A i \in N : f[i] \in Int
    BY <1>1
  <2>. HIDE DEF N
  <2>2. \A x \in N : Total(f, N) = f[x] + Total(f, N \ {x})
    BY <2>1, TotalFacts
  <2>3. Total(f, N) = f[k + 1] + Total(f, N \ {k + 1})
    BY <2>1, <2>2
  <2>. QED
    BY <2>3 DEF N
<1>5. f[k + 1] \in Int
  BY <1>1
<1>6. (1 .. k + 1) \ {k + 1} = 1 .. k
  BY <1>2
<1>7. Total(f, 1 .. k + 1) = f[k + 1] + Total(f, 1 .. k)
  BY <1>4, <1>6
<1>. QED
  BY <1>3, <1>5, <1>7

\* The first a numbers of h are those of f, the b after them those of g.
JoinedAt(a, b, f, g, h) ==
  /\ a \in Nat /\ b \in Nat
  /\ \A i \in 1 .. a : h[i] = f[i] /\ f[i] \in Int
  /\ \A j \in 1 .. b : h[a + j] = g[j] /\ g[j] \in Int

LEMMA SumConcat ==
  ASSUME NEW a, NEW b, NEW f, NEW g, NEW h, JoinedAt(a, b, f, g, h)
  PROVE  /\ Total(h, 1 .. a + b) = Total(f, 1 .. a) + Total(g, 1 .. b)
         /\ Total(f, 1 .. a) \in Int /\ Total(g, 1 .. b) \in Int
<1>. DEFINE G == {k \in Nat : k =< b =>
                    Total(h, 1 .. a + k) = Total(f, 1 .. a) + Total(g, 1 .. k)}
<1>. USE DEF JoinedAt
<1>1. IsFiniteSet(1 .. a) /\ IsFiniteSet(1 .. b)
  BY FS_Interval
<1>2. Total(f, 1 .. a) \in Int /\ Total(g, 1 .. b) \in Int
  BY <1>1, TotalFacts
<1>3. 0 \in G
  <2>1. Total(h, 1 .. a) = Total(f, 1 .. a)
    <3>1. \A i \in 1 .. a : f[i] = h[i] /\ f[i] \in Int
      OBVIOUS
    <3>. QED
      BY <1>1, <3>1, TotalCong
  <2>2. 1 .. 0 = {} /\ a + 0 = a
    OBVIOUS
  <2>3. Total(g, 1 .. 0) = 0
    BY <2>2, TotalEmpty
  <2>4. Total(h, 1 .. a + 0) = Total(f, 1 .. a) + Total(g, 1 .. 0)
    BY <1>2, <2>1, <2>2, <2>3
  <2>. QED
    BY <2>4
<1>4. ASSUME NEW k \in G PROVE k + 1 \in G
  <2>1. k \in Nat
    OBVIOUS
  <2>2. ASSUME k + 1 =< b
        PROVE  Total(h, 1 .. a + (k + 1)) = Total(f, 1 .. a) + Total(g, 1 .. k + 1)
    <3>1. Total(h, 1 .. a + k) = Total(f, 1 .. a) + Total(g, 1 .. k)
      BY <2>1, <2>2
    <3>. HIDE DEF G
    <3>2. \A i \in 1 .. k + 1 : g[i] \in Int
      BY <2>1, <2>2
    <3>3. /\ Total(g, 1 .. k + 1) = Total(g, 1 .. k) + g[k + 1]
          /\ Total(g, 1 .. k + 1) \in Int /\ Total(g, 1 .. k) \in Int
      BY <2>1, <3>2, SumTo
    <3>4. a + k \in Nat /\ a + (k + 1) = (a + k) + 1 /\ k + 1 \in 1 .. b
      BY <2>1, <2>2
    <3>5. \A i \in 1 .. (a + k) + 1 : h[i] \in Int
      <4>. TAKE i \in 1 .. (a + k) + 1
      <4>1. CASE i =< a
        <5>1. i \in 1 .. a
          BY <2>1, <4>1
        <5>. QED
          BY <5>1
      <4>2. CASE i > a
        <5>1. i - a \in 1 .. b /\ a + (i - a) = i
          BY <2>1, <2>2, <4>2
        <5>2. h[a + (i - a)] \in Int
          BY <5>1
        <5>. QED
          BY <5>1, <5>2
      <4>. QED
        BY <2>1, <4>1, <4>2
    <3>6. Total(h, 1 .. (a + k) + 1) = Total(h, 1 .. a + k) + h[(a + k) + 1]
      BY <3>4, <3>5, SumTo
    <3>7. h[(a + k) + 1] = g[k + 1] /\ g[k + 1] \in Int
      BY <3>4
    <3>8. Total(h, 1 .. a + k) = Total(f, 1 .. a) + Total(g, 1 .. k)
      BY <3>1
    <3>9. Total(f, 1 .. a) \in Int
      BY <1>2
    <3>10. Total(h, 1 .. a + (k + 1)) = Total(f, 1 .. a) + Total(g, 1 .. k + 1)
      <4>. DEFINE x == Total(f, 1 .. a)
                  y == Total(g, 1 .. k)
                  z == g[k + 1]
      <4>1. x \in Int /\ y \in Int /\ z \in Int
        BY <3>3, <3>7, <3>9
      <4>2. Total(h, 1 .. a + (k + 1)) = (x + y) + z
        BY <3>4, <3>6, <3>7, <3>8
      <4>3. Total(g, 1 .. k + 1) = y + z
        BY <3>3
      <4>. HIDE DEF x, y, z
      <4>4. (x + y) + z = x + (y + z)
        BY <4>1
      <4>5. Total(h, 1 .. a + (k + 1)) = x + Total(g, 1 .. k + 1)
        BY <4>2, <4>3, <4>4
      <4>. QED
        BY <4>5 DEF x
    <3>. QED
      BY <3>4, <3>10
  <2>. QED
    BY <2>1, <2>2
<1>5. b \in G
  <2>. HIDE DEF G
  <2>1. G \subseteq Nat
    BY DEF G
  <2>. QED
    BY <1>3, <1>4, <2>1, AllOfNat
<1>. QED
  BY <1>2, <1>5

------------------------------------------------------------------------------
(* Logical elements of work lists                                          *)

\* What the elements of the tiles of a list are summed over.
ElementsOf(s) == [i \in DOMAIN s |-> s[i].validM * TileN]

LEMMA ElementsAre ==
  ASSUME NEW s \in Seq(PlanTile)
  PROVE  /\ LogicalElements(s) = Total(ElementsOf(s), 1 .. Len(s))
         /\ LogicalElements(s) \in Int
         /\ \A i \in 1 .. Len(s) : ElementsOf(s)[i] = s[i].validM * TileN
                                   /\ ElementsOf(s)[i] \in Int
<1>1. DOMAIN s = 1 .. Len(s) /\ Len(s) \in Nat
  OBVIOUS
<1>2. ASSUME NEW i \in 1 .. Len(s)
      PROVE  ElementsOf(s)[i] = s[i].validM * TileN /\ ElementsOf(s)[i] \in Int
  <2>1. s[i] \in PlanTile
    BY <1>1
  <2>2. s[i].validM \in Int
    BY <2>1 DEF PlanTile
  <2>. QED
    BY <1>1, <2>2, SizeFacts DEF ElementsOf
<1>3. LogicalElements(s) = Total(ElementsOf(s), DOMAIN s)
  BY LogicalIs DEF ElementsOf
<1>4. IsFiniteSet(1 .. Len(s))
  BY <1>1, FS_Interval
<1>5. Total(ElementsOf(s), 1 .. Len(s)) \in Int
  BY <1>2, <1>4, TotalFacts
<1>. QED
  BY <1>1, <1>2, <1>3, <1>5

LEMMA ElementsConcat ==
  ASSUME NEW s \in Seq(PlanTile), NEW t \in Seq(PlanTile)
  PROVE  /\ s \o t \in Seq(PlanTile)
         /\ LogicalElements(s \o t) = LogicalElements(s) + LogicalElements(t)
<1>1. s \o t \in Seq(PlanTile) /\ Len(s) \in Nat /\ Len(t) \in Nat
      /\ Len(s \o t) = Len(s) + Len(t)
  BY ConcatProperties
<1>. DEFINE f == ElementsOf(s)
            g == ElementsOf(t)
            h == ElementsOf(s \o t)
            a == Len(s)
            b == Len(t)
<1>2. \A i \in 1 .. a : f[i] = s[i].validM * TileN /\ f[i] \in Int
  BY ElementsAre
<1>3. \A i \in 1 .. b : g[i] = t[i].validM * TileN /\ g[i] \in Int
  BY ElementsAre
<1>4. \A i \in 1 .. a + b : h[i] = (s \o t)[i].validM * TileN
  BY <1>1, ElementsAre
<1>5. ASSUME NEW i \in 1 .. a PROVE h[i] = f[i]
  <2>1. i \in 1 .. a + b /\ (s \o t)[i] = s[i]
    BY <1>1, ConcatProperties
  <2>. HIDE DEF f, h
  <2>. QED
    BY <1>2, <1>4, <2>1
<1>6. ASSUME NEW j \in 1 .. b PROVE h[a + j] = g[j]
  <2>1. a + j \in 1 .. a + b /\ (a + j) - a = j /\ a + j > a
    BY <1>1
  <2>2. (s \o t)[a + j] = t[j]
    <3>1. (s \o t)[a + j] = t[(a + j) - a]
      BY <2>1, InARow
    <3>. QED
      BY <2>1, <3>1
  <2>. HIDE DEF g, h
  <2>. QED
    BY <1>3, <1>4, <2>1, <2>2
<1>7. Total(h, 1 .. a + b) = Total(f, 1 .. a) + Total(g, 1 .. b)
  <2>1. a \in Nat /\ b \in Nat
    BY <1>1
  <2>2. \A i \in 1 .. a : h[i] = f[i] /\ f[i] \in Int
    BY <1>2, <1>5
  <2>3. \A j \in 1 .. b : h[a + j] = g[j] /\ g[j] \in Int
    BY <1>3, <1>6
  <2>4. JoinedAt(a, b, f, g, h)
    BY <2>1, <2>2, <2>3 DEF JoinedAt
  <2>. HIDE DEF a, b, f, g, h
  <2>. QED
    BY <2>4, SumConcat
<1>. QED
  BY <1>1, <1>7, ElementsAre

LEMMA ElementsNone == <<>> \in Seq(PlanTile) /\ LogicalElements(<<>>) = 0
<1>1. <<>> \in Seq(PlanTile) /\ Len(<<>>) = 0
  OBVIOUS
<1>2. 1 .. 0 = {}
  OBVIOUS
<1>. QED
  BY <1>1, <1>2, ElementsAre, TotalEmpty

LEMMA ElementsRowBlock ==
  ASSUME WholeColumns, NEW e \in Int, NEW m \in Int, NEW v \in Int
  PROVE  LogicalElements(RowBlock(e, m, v)) = n * v
<1>. DEFINE s == RowBlock(e, m, v)
            f == ElementsOf(s)
            w == Cols
<1>1. s \in Seq(PlanTile) /\ Len(s) = w
      /\ \A j \in 1 .. w : s[j] = [expert |-> e, m |-> m, n |-> (j - 1) * TileN, validM |-> v]
  <2>1. IsRowBlock(s, e, m, v)
    BY RowBlockType
  <2>. HIDE DEF s
  <2>. QED
    BY <2>1 DEF IsRowBlock
<1>2. w \in Nat /\ n = 128 * w /\ TileN = 128
  BY ColsFacts, SizeFacts
<1>3. IsFiniteSet(1 .. w) /\ Cardinality(1 .. w) = w
  BY <1>2, FS_Interval
<1>. HIDE DEF s
<1>4. LogicalElements(s) = Total(f, 1 .. w) /\ \A j \in 1 .. w : f[j] = s[j].validM * TileN
  BY <1>1, ElementsAre
<1>5. \A j \in 1 .. w : f[j] = v * TileN
  BY <1>1, <1>4
<1>6. v * TileN \in Int
  BY <1>2
<1>. HIDE DEF f, w
<1>7. Total(f, 1 .. w) = (v * TileN) * Cardinality(1 .. w)
  BY <1>3, <1>5, <1>6, TotalConst
<1>8. (v * 128) * w = (128 * w) * v
  BY <1>2
<1>. QED
  BY <1>2, <1>3, <1>4, <1>7, <1>8 DEF s

LEMMA LargeStep ==
  ASSUME WholeColumns, NEW e \in ExpertIds, NEW b \in Nat
  PROVE  /\ RowBlocks(e, b, 128) \in Seq(PlanTile)
         /\ Block(e, b + 1, 128) \in Seq(PlanTile)
         /\ RowBlocks(e, b + 1, 128) = RowBlocks(e, b, 128) \o Block(e, b + 1, 128)
<1>. DEFINE t == 128
<1>1. t \in Nat
  OBVIOUS
<1>. HIDE DEF t
<1>2. /\ RowBlocks(e, b, t) \in Seq(PlanTile)
      /\ Block(e, b + 1, t) \in Seq(PlanTile)
      /\ RowBlocks(e, b + 1, t) = RowBlocks(e, b, t) \o Block(e, b + 1, t)
  BY <1>1, RowBlocksStep
<1>. QED
  BY <1>2 DEF t

\* An expert's first k row blocks hold its first k * 128 rows, or all it has.
LEMMA ElementsRowBlocks ==
  ASSUME WholeColumns, NEW e \in ExpertIds, NEW k \in Nat, k = 0 \/ (k - 1) * 128 < counts[e]
  PROVE  LogicalElements(RowBlocks(e, k, LargeM)) = n * Smaller(k * 128, counts[e])
<1>. DEFINE c == counts[e]
            Good(b) == b = 0 \/ (b - 1) * 128 < c =>
                         LogicalElements(RowBlocks(e, b, 128)) = n * Smaller(b * 128, c)
            G == {b \in Nat : Good(b)}
<1>0. \A b \in Nat :
        /\ RowBlocks(e, b, 128) \in Seq(PlanTile)
        /\ Block(e, b + 1, 128) \in Seq(PlanTile)
        /\ RowBlocks(e, b + 1, 128) = RowBlocks(e, b, 128) \o Block(e, b + 1, 128)
  BY LargeStep
<1>1. c \in Nat /\ n \in Nat /\ e \in Int
  BY SizeFacts DEF WholeColumns, RoutingOK, ExpertIds
<1>. HIDE DEF c
<1>2. 0 \in G
  <2>1. RowBlocks(e, 0, 128) = <<>> /\ LogicalElements(<<>>) = 0
    BY RowBlocksNone, ElementsNone
  <2>2. Smaller(0 * 128, c) = 0 /\ n * 0 = 0
    BY <1>1 DEF Smaller
  <2>3. Good(0)
    BY <2>1, <2>2
  <2>. QED
    BY <2>3
<1>3. ASSUME NEW b \in G PROVE b + 1 \in G
  <2>1. b \in Nat /\ Good(b)
    OBVIOUS
  <2>. HIDE DEF Good, G
  <2>2. ASSUME b * 128 < c
        PROVE  LogicalElements(RowBlocks(e, b + 1, 128)) = n * Smaller((b + 1) * 128, c)
    <3>1. b = 0 \/ (b - 1) * 128 < c
      BY <1>1, <2>1, <2>2
    <3>2. LogicalElements(RowBlocks(e, b, 128)) = n * (b * 128)
      <4>1. Smaller(b * 128, c) = b * 128
        BY <2>2 DEF Smaller
      <4>. QED
        BY <2>1, <3>1, <4>1 DEF Good
    <3>. DEFINE s == RowBlocks(e, b, 128)
                t == Block(e, b + 1, 128)
                v == Smaller(128, c - b * 128)
    <3>3. s \in Seq(PlanTile) /\ t \in Seq(PlanTile) /\ RowBlocks(e, b + 1, 128) = s \o t
      <4>1. b \in Nat
        BY <2>1
      <4>. QED
        BY <1>0, <4>1
    <3>4. v \in Nat /\ b * 128 \in Nat /\ Smaller((b + 1) * 128, c) = b * 128 + v
      BY <1>1, <2>1, <2>2 DEF Smaller
    <3>5. LogicalElements(t) = n * v
      <4>1. t = RowBlock(e, b * 128, v)
        <5>1. (b + 1) - 1 = b
          BY <2>1
        <5>. QED
          BY <5>1 DEF Block, c
      <4>. HIDE DEF t, v
      <4>. QED
        BY <1>1, <3>4, <4>1, ElementsRowBlock
    <3>. HIDE DEF s, t, v
    <3>6. LogicalElements(s \o t) = LogicalElements(s) + LogicalElements(t)
      BY <3>3, ElementsConcat
    <3>7. n * (b * 128) + n * v = n * (b * 128 + v)
      BY <1>1, <3>4
    <3>8. LogicalElements(s) = n * (b * 128)
      BY <3>2 DEF s
    <3>. QED
      BY <3>3, <3>4, <3>5, <3>6, <3>7, <3>8
  <2>3. (b + 1) - 1 = b /\ b + 1 # 0 /\ b + 1 \in Nat
    BY <2>1
  <2>4. Good(b + 1)
    BY <2>2, <2>3 DEF Good
  <2>. QED
    BY <2>3, <2>4 DEF G
<1>4. k \in G
  <2>. HIDE DEF G
  <2>1. G \subseteq Nat
    BY DEF G
  <2>. QED
    BY <1>2, <1>3, <2>1, AllOfNat
<1>5. Good(k)
  BY <1>4
<1>. QED
  BY <1>5, SizeFacts DEF c

------------------------------------------------------------------------------
(* One expert's share of the two buckets                                   *)

Full(e) == counts[e] \div 128
Rem(e) == counts[e] % 128
LargeRows(e) == Full(e) + (IF Rem(e) > 64 THEN 1 ELSE 0)
HasTail(e) == 0 < Rem(e) /\ Rem(e) =< 64
TailRows(e) == IF HasTail(e) THEN 1 ELSE 0
Tail64(e) == IF HasTail(e) THEN RowBlock(e, Full(e) * 128, Rem(e)) ELSE <<>>

LEMMA RowFacts ==
  ASSUME WholeColumns, NEW e \in ExpertIds
  PROVE  /\ counts[e] \in Nat /\ Full(e) \in Nat /\ Rem(e) \in 0 .. 127
         /\ counts[e] = 128 * Full(e) + Rem(e)
         /\ LargeRows(e) \in Nat /\ TailRows(e) \in {0, 1} /\ e \in Int
         /\ CeilDiv(counts[e], 128) = LargeRows(e) + TailRows(e)
         /\ CeilDiv(counts[e], 64) = 2 * LargeRows(e) + TailRows(e)
<1>1. counts[e] \in Nat /\ e \in Int
  BY SizeFacts DEF WholeColumns, RoutingOK, ExpertIds
<1>. DEFINE c == counts[e]
            q == c \div 128
            r == c % 128
<1>2. q \in Nat /\ r \in 0 .. 127 /\ c = 128 * q + r
  BY <1>1
<1>3. /\ CeilDiv(c, 128) = IF r = 0 THEN q ELSE q + 1
      /\ CeilDiv(c, 64) = IF r = 0 THEN 2 * q ELSE IF r =< 64 THEN 2 * q + 1 ELSE 2 * q + 2
  <2>. HIDE DEF c, q, r
  <2>. QED
    <3>1. CASE r = 0
      BY <1>2, <3>1 DEF CeilDiv
    <3>2. CASE r > 0 /\ r =< 64
      BY <1>2, <3>2 DEF CeilDiv
    <3>3. CASE r > 64
      BY <1>2, <3>3 DEF CeilDiv
    <3>. QED
      BY <1>2, <3>1, <3>2, <3>3
<1>5. Full(e) = q /\ Rem(e) = r
  BY DEF Full, Rem
<1>. HIDE DEF q, r
<1>. QED
  BY <1>1, <1>2, <1>3, <1>5 DEF LargeRows, TailRows, HasTail

\* The two buckets share the expert's rows.
LEMMA ElementsShared ==
  ASSUME WholeColumns, NEW e \in ExpertIds
  PROVE  /\ LogicalElements(RowBlocks(e, LargeRows(e), 128)) + LogicalElements(Tail64(e))
              = n * counts[e]
         /\ RowBlocks(e, LargeRows(e), 128) \in Seq(PlanTile) /\ Tail64(e) \in Seq(PlanTile)
         /\ Len(RowBlocks(e, LargeRows(e), 128)) = LargeRows(e) * Cols
         /\ Len(Tail64(e)) = TailRows(e) * Cols
<1>. DEFINE c == counts[e]
            k == LargeRows(e)
            s == RowBlocks(e, k, 128)
            t == Tail64(e)
<1>1. /\ c \in Nat /\ Full(e) \in Nat /\ Rem(e) \in 0 .. 127 /\ c = 128 * Full(e) + Rem(e)
      /\ k \in Nat /\ n \in Nat /\ Cols \in Nat /\ e \in Int
  BY RowFacts, ColsFacts DEF WholeColumns, RoutingOK
<1>2. s \in Seq(PlanTile) /\ Len(s) = k * Cols
  <2>1. k \in Nat /\ 128 \in Nat
    BY <1>1
  <2>. HIDE DEF k
  <2>2. Len(s) = k * Cols
    BY <2>1, RowBlocksAre
  <2>3. s \in Seq(PlanTile)
    BY <2>1, RowBlocksAre
  <2>. QED
    BY <2>2, <2>3
<1>3. LogicalElements(s) = n * Smaller(k * 128, c)
  <2>1. k = 0 \/ (k - 1) * 128 < c
    BY <1>1 DEF LargeRows
  <2>. QED
    BY <1>1, <2>1, ElementsRowBlocks, SizeFacts
<1>. HIDE DEF s, k, c
<1>4. CASE HasTail(e)
  <2>1. t = RowBlock(e, Full(e) * 128, Rem(e)) /\ Full(e) * 128 \in Int /\ Rem(e) \in Int
    BY <1>1, <1>4 DEF Tail64
  <2>2. t \in Seq(PlanTile) /\ Len(t) = Cols /\ LogicalElements(t) = n * Rem(e)
    <3>. DEFINE m == Full(e) * 128
                v == Rem(e)
    <3>1. t = RowBlock(e, m, v) /\ m \in Int /\ v \in Int
      BY <2>1
    <3>. HIDE DEF m, v, t
    <3>2. RowBlock(e, m, v) \in Seq(PlanTile) /\ Len(RowBlock(e, m, v)) = Cols
      <4>1. e \in Int /\ IsRowBlock(RowBlock(e, m, v), e, m, v)
        BY <1>1, <3>1, RowBlockType
      <4>. QED
        BY <4>1 DEF IsRowBlock
    <3>3. LogicalElements(RowBlock(e, m, v)) = n * v
      BY <1>1, <3>1, ElementsRowBlock
    <3>. QED
      BY <3>1, <3>2, <3>3 DEF v
  <2>3. Smaller(k * 128, c) = 128 * Full(e)
    BY <1>1, <1>4 DEF Smaller, k, LargeRows, HasTail
  <2>4. n * (128 * Full(e)) + n * Rem(e) = n * (128 * Full(e) + Rem(e))
    BY <1>1
  <2>5. n * (128 * Full(e)) \in Int /\ n * Rem(e) \in Int
    BY <1>1
  <2>6. TailRows(e) * Cols = Cols
    BY <1>1, <1>4 DEF TailRows
  <2>. HIDE DEF t
  <2>7. LogicalElements(s) + LogicalElements(t) = n * c
    BY <1>1, <1>3, <2>2, <2>3, <2>4, <2>5
  <2>. QED
    BY <1>2, <2>2, <2>6, <2>7 DEF t, s, k, c
<1>5. CASE ~HasTail(e)
  <2>1. t = <<>> /\ <<>> \in Seq(PlanTile) /\ Len(<<>>) = 0 /\ LogicalElements(<<>>) = 0
    BY <1>5, ElementsNone DEF Tail64
  <2>2. Smaller(k * 128, c) = c
    BY <1>1, <1>5 DEF Smaller, k, LargeRows, HasTail
  <2>3. TailRows(e) * Cols = 0
    BY <1>1, <1>5 DEF TailRows
  <2>4. n * c \in Int
    BY <1>1
  <2>. HIDE DEF t
  <2>5. LogicalElements(s) + LogicalElements(t) = n * c
    BY <1>3, <2>1, <2>2, <2>4
  <2>. QED
    BY <1>2, <2>1, <2>3, <2>5 DEF t, s, k, c
<1>. QED
  BY <1>4, <1>5

------------------------------------------------------------------------------
(* Lists without repetition                                                *)

\* s has each member of T once and nothing else.
Lists(s, T) ==
  /\ s \in Seq(PlanTile)
  /\ \A i \in 1 .. Len(s) : s[i] \in T
  /\ \A t \in T : \E i \in 1 .. Len(s) : s[i] = t
  /\ \A i, j \in 1 .. Len(s) : s[i] = s[j] => i = j

LEMMA ListsNone == Lists(<<>>, {})
BY DEF Lists

LEMMA ListsConcat ==
  ASSUME NEW s, NEW S, NEW t, NEW T, Lists(s, S), Lists(t, T), S \cap T = {}
  PROVE  Lists(s \o t, S \cup T)
<1>. DEFINE a == Len(s)
            b == Len(t)
            u == s \o t
<1>1. s \in Seq(PlanTile) /\ t \in Seq(PlanTile)
  BY DEF Lists
<1>2. a \in Nat /\ b \in Nat
  BY <1>1
<1>3. u \in Seq(PlanTile) /\ Len(u) = a + b
  BY <1>1, ConcatProperties
<1>4. ASSUME NEW i \in 1 .. a + b
      PROVE  /\ i =< a => i \in 1 .. a /\ u[i] = s[i]
             /\ i > a => i - a \in 1 .. b /\ u[i] = t[i - a]
  BY <1>1, <1>4, InARow
<1>. HIDE DEF a, b, u
<1>5. (\A i \in 1 .. a : s[i] \in S) /\ (\A i \in 1 .. b : t[i] \in T)
  BY DEF Lists, a, b
<1>6. ASSUME NEW i \in 1 .. a + b
      PROVE  /\ i =< a => u[i] \in S
             /\ i > a => u[i] \in T
             /\ u[i] \in S \cup T
  BY <1>2, <1>4, <1>5
<1>7. ASSUME NEW x \in S \cup T PROVE \E i \in 1 .. a + b : u[i] = x
  <2>1. CASE x \in S
    <3>1. PICK i \in 1 .. a : s[i] = x
      BY <2>1 DEF Lists, a
    <3>2. i \in 1 .. a + b /\ i =< a
      BY <1>2
    <3>. QED
      BY <1>4, <3>1, <3>2
  <2>2. CASE x \in T
    <3>1. PICK j \in 1 .. b : t[j] = x
      BY <2>2 DEF Lists, b
    <3>2. a + j \in 1 .. a + b /\ a + j > a /\ (a + j) - a = j
      BY <1>2
    <3>3. u[a + j] = t[(a + j) - a]
      BY <1>4, <3>2
    <3>. QED
      BY <3>1, <3>2, <3>3
  <2>. QED
    BY <2>1, <2>2
<1>8. ASSUME NEW i \in 1 .. a + b, NEW j \in 1 .. a + b, u[i] = u[j] PROVE i = j
  <2>0. i \in Nat /\ j \in Nat
    BY <1>2
  <2>1. CASE i =< a /\ j =< a
    <3>1. i \in 1 .. a /\ j \in 1 .. a /\ s[i] = s[j]
      BY <1>4, <1>8, <2>1
    <3>. QED
      BY <3>1 DEF Lists, a
  <2>2. CASE i > a /\ j > a
    <3>1. i - a \in 1 .. b /\ j - a \in 1 .. b /\ t[i - a] = t[j - a]
      BY <1>4, <1>8, <2>2
    <3>2. i - a = j - a
      BY <3>1 DEF Lists, b
    <3>. QED
      BY <1>2, <2>0, <3>2
  <2>3. CASE i =< a /\ j > a
    BY <1>6, <1>8, <2>3
  <2>4. CASE i > a /\ j =< a
    BY <1>6, <1>8, <2>4
  <2>. QED
    BY <1>2, <2>0, <2>1, <2>2, <2>3, <2>4
<1>. QED
  BY <1>3, <1>6, <1>7, <1>8 DEF Lists, u

------------------------------------------------------------------------------
(* The buckets as sets of tiles                                            *)

\* Column j of an expert's b-th row block (from 0), and of its short remainder.
BlockTile(e, b, j) ==
  [expert |-> e, m |-> b * 128, n |-> (j - 1) * TileN, validM |-> Smaller(128, counts[e] - b * 128)]
TailTile(e, j) ==
  [expert |-> e, m |-> Full(e) * 128, n |-> (j - 1) * TileN, validM |-> Rem(e)]

LargeOf(e) == {BlockTile(e, b, j) : b \in 0 .. LargeRows(e) - 1, j \in 1 .. Cols}
SmallOf(e) == {TailTile(e, j) : j \in IF HasTail(e) THEN 1 .. Cols ELSE {}}

\* Those of the first k experts.
LargeTiles(k) == UNION {LargeOf(e) : e \in 0 .. k - 1}
SmallTiles(k) == UNION {SmallOf(e) : e \in 0 .. k - 1}

LEMMA TilesStep ==
  ASSUME NEW k \in Nat
  PROVE  /\ LargeTiles(k + 1) = LargeTiles(k) \cup LargeOf(k)
         /\ SmallTiles(k + 1) = SmallTiles(k) \cup SmallOf(k)
         /\ LargeTiles(k) \cap LargeOf(k) = {} /\ SmallTiles(k) \cap SmallOf(k) = {}
         /\ LargeTiles(0) = {} /\ SmallTiles(0) = {}
<1>1. 0 .. (k + 1) - 1 = (0 .. k - 1) \cup {k} /\ ~(k \in 0 .. k - 1) /\ 0 .. 0 - 1 = {}
  OBVIOUS
<1>2. \A e, x : /\ x \in LargeOf(e) => x.expert = e
                /\ x \in SmallOf(e) => x.expert = e
  BY DEF LargeOf, SmallOf, BlockTile, TailTile
<1>3. /\ LargeTiles(k + 1) = LargeTiles(k) \cup LargeOf(k)
      /\ SmallTiles(k + 1) = SmallTiles(k) \cup SmallOf(k)
  BY <1>1 DEF LargeTiles, SmallTiles
<1>4. LargeTiles(k) \cap LargeOf(k) = {} /\ SmallTiles(k) \cap SmallOf(k) = {}
  BY <1>1, <1>2 DEF LargeTiles, SmallTiles
<1>5. LargeTiles(0) = {} /\ SmallTiles(0) = {}
  BY <1>1 DEF LargeTiles, SmallTiles
<1>. QED
  BY <1>3, <1>4, <1>5

LEMMA LargeListed ==
  ASSUME WholeColumns, NEW e \in ExpertIds
  PROVE  Lists(RowBlocks(e, LargeRows(e), 128), LargeOf(e))
<1>. DEFINE k == LargeRows(e)
            s == RowBlocks(e, k, 128)
            w == Cols
            row(i) == (i - 1) \div w
            col(i) == (i - 1) % w
<1>1. k \in Nat /\ w \in Nat /\ w > 0 /\ k * w \in Nat
  BY RowFacts, ColsFacts
<1>2. s \in Seq(PlanTile) /\ Len(s) = k * w /\ \A i \in 1 .. k * w : s[i] = TileAt(e, 128, i)
  <2>1. k \in Nat /\ 128 \in Nat
    BY <1>1
  <2>. HIDE DEF k
  <2>. QED
    BY <2>1, RowBlocksAre
<1>3. ASSUME NEW i \in 1 .. k * w
      PROVE  /\ row(i) \in 0 .. k - 1 /\ col(i) \in 0 .. w - 1 /\ i = w * row(i) + col(i) + 1
             /\ s[i] = BlockTile(e, row(i), col(i) + 1)
  <2>1. i - 1 \in Nat
    BY <1>1
  <2>2. row(i) \in Nat /\ col(i) \in 0 .. w - 1 /\ i - 1 = w * row(i) + col(i)
    BY <1>1, <2>1, DivFacts
  <2>. DEFINE p == row(i)
              q == col(i)
  <2>3. p < k
    <3>1. p \in Nat /\ q \in Nat /\ w * p =< i - 1 /\ i - 1 < k * w
      BY <1>1, <2>1, <2>2
    <3>. HIDE DEF p, w, k
    <3>2. ASSUME p >= k PROVE FALSE
      <4>1. w * p >= k * w
        BY <1>1, <3>1, <3>2
      <4>2. w * p \in Nat
        BY <1>1, <3>1
      <4>. QED
        BY <1>1, <2>1, <3>1, <4>1, <4>2
    <3>. QED
      BY <1>1, <3>1, <3>2
  <2>4. s[i] = BlockTile(e, row(i), col(i) + 1)
    <3>1. (col(i) + 1) - 1 = col(i)
      BY <2>2
    <3>. QED
      BY <1>2, <3>1 DEF TileAt, BlockTile
  <2>. HIDE DEF p, q
  <2>5. w * p \in Nat
    BY <1>1, <2>2 DEF p
  <2>6. i = w * p + q + 1
    BY <2>1, <2>2, <2>5 DEF p, q
  <2>. QED
    BY <1>1, <2>2, <2>3, <2>4, <2>6 DEF p, q
<1>. HIDE DEF s, k, row, col, w
<1>4. ASSUME NEW i \in 1 .. k * w PROVE s[i] \in LargeOf(e)
  <2>1. col(i) + 1 \in 1 .. w
    BY <1>1, <1>3
  <2>. QED
    BY <1>3, <2>1 DEF LargeOf, k, w
<1>5. ASSUME NEW x \in LargeOf(e) PROVE \E i \in 1 .. k * w : s[i] = x
  <2>1. PICK b \in 0 .. k - 1, j \in 1 .. w : x = BlockTile(e, b, j)
    BY DEF LargeOf, k, w
  <2>2. /\ b \in Nat /\ b * w + j \in Nat /\ b * w + j > b * w /\ b * w \in Nat
        /\ row(b * w + j) = b /\ col(b * w + j) = j - 1
        /\ (b + 1) * w = b * w + w
    BY <1>1, RowIndex DEF row, col
  <2>3. (b + 1) * w =< k * w
    BY <1>1
  <2>4. b * w + j \in 1 .. k * w
    BY <1>1, <2>2, <2>3
  <2>5. s[b * w + j] = BlockTile(e, b, j)
    <3>1. (j - 1) + 1 = j
      BY <1>1
    <3>. QED
      BY <1>3, <2>2, <2>4, <3>1
  <2>. QED
    BY <2>1, <2>4, <2>5
<1>6. ASSUME NEW i \in 1 .. k * w, NEW j \in 1 .. k * w, s[i] = s[j] PROVE i = j
  <2>1. /\ row(i) \in Nat /\ row(j) \in Nat /\ col(i) \in Nat /\ col(j) \in Nat
        /\ i = w * row(i) + col(i) + 1 /\ j = w * row(j) + col(j) + 1
    BY <1>1, <1>3
  <2>2. BlockTile(e, row(i), col(i) + 1) = BlockTile(e, row(j), col(j) + 1)
    BY <1>3, <1>6
  <2>3. row(i) * 128 = row(j) * 128 /\ ((col(i) + 1) - 1) * 128 = ((col(j) + 1) - 1) * 128
    BY <2>2, SizeFacts DEF BlockTile
  <2>4. row(i) = row(j) /\ col(i) = col(j)
    BY <2>1, <2>3
  <2>. QED
    BY <2>1, <2>4
<1>. QED
  BY <1>2, <1>4, <1>5, <1>6 DEF Lists, s, k

LEMMA SmallListed ==
  ASSUME WholeColumns, NEW e \in ExpertIds
  PROVE  Lists(Tail64(e), SmallOf(e))
<1>1. CASE HasTail(e)
  <2>. DEFINE m == Full(e) * 128
              v == Rem(e)
              s == RowBlock(e, m, v)
  <2>1. m \in Int /\ v \in Int /\ e \in Int /\ Cols \in Nat
    BY RowFacts, ColsFacts
  <2>2. Tail64(e) = s /\ SmallOf(e) = {TailTile(e, j) : j \in 1 .. Cols}
    BY <1>1 DEF Tail64, SmallOf
  <2>3. s \in Seq(PlanTile) /\ Len(s) = Cols /\ \A j \in 1 .. Cols : s[j] = TailTile(e, j)
    <3>1. s \in Seq(PlanTile) /\ Len(s) = Cols /\ \A j \in 1 .. Cols : s[j]
            = [expert |-> e, m |-> m, n |-> (j - 1) * TileN, validM |-> v]
      <4>1. m \in Int /\ v \in Int /\ e \in Int
        BY <2>1
      <4>. HIDE DEF m, v, s
      <4>2. IsRowBlock(RowBlock(e, m, v), e, m, v)
        BY <4>1, RowBlockType
      <4>3. IsRowBlock(s, e, m, v)
        BY <4>2 DEF s
      <4>. QED
        BY <4>3 DEF IsRowBlock
    <3>. QED
      BY <3>1 DEF TailTile
  <2>. HIDE DEF s, m, v
  <2>4. ASSUME NEW i \in 1 .. Cols, NEW j \in 1 .. Cols, s[i] = s[j] PROVE i = j
    <3>1. TailTile(e, i) = TailTile(e, j)
      BY <2>3, <2>4
    <3>2. (i - 1) * 128 = (j - 1) * 128
      BY <3>1, SizeFacts DEF TailTile
    <3>. QED
      BY <2>1, <3>2
  <2>. QED
    BY <2>2, <2>3, <2>4 DEF Lists
<1>2. CASE ~HasTail(e)
  <2>1. Tail64(e) = <<>> /\ SmallOf(e) = {}
    BY <1>2 DEF Tail64, SmallOf
  <2>. QED
    BY <2>1, ListsNone
<1>. QED
  BY <1>1, <1>2

------------------------------------------------------------------------------
(* The planner's loop                                                      *)

\* build_workload_plan's list as far as the first k experts go.
PlanPrefix(tileM, k) ==
  FlattenSeq([e \in 1 .. k |->
    RowBlocks(e - 1, CeilDiv(counts[e - 1], tileM), tileM)])

\* What the loop has made of the first k experts: the tiles, the rows they hold, and
\* how many they are beside the two plans with one tile height.
Split(k, l, s) ==
  /\ Lists(l, LargeTiles(k)) /\ Lists(s, SmallTiles(k))
  /\ LogicalElements(l) + LogicalElements(s) = n * Total(counts, 0 .. k - 1)
  /\ Len(l) + Len(s) = Len(PlanPrefix(128, k))
  /\ 2 * Len(l) + Len(s) = Len(PlanPrefix(64, k))

PlannerInv ==
  /\ RoutingOK
  /\ expert \in 0 .. Experts
  /\ stage \in {"validate", "split", "planned", "rejected", "baseline"}
  /\ stage \in {"split", "planned", "baseline"} => WholeColumns
  /\ stage \in {"validate", "split", "planned"} => Split(expert, large, small)
  /\ stage = "planned" => expert = Experts

LEMMA ExpertFacts ==
  ASSUME NEW k \in 0 .. Experts
  PROVE  k \in Nat /\ (k < Experts => k \in ExpertIds /\ k + 1 \in 0 .. Experts)
BY SizeFacts DEF ExpertIds

LEMMA CeilType ==
  ASSUME NEW a \in Nat, NEW b \in {64, 128}
  PROVE  CeilDiv(a, b) \in Nat
<1>1. CASE b = 64
  BY <1>1 DEF CeilDiv
<1>2. CASE b = 128
  BY <1>2 DEF CeilDiv
<1>. QED
  BY <1>1, <1>2

LEMMA PlanPrefixStep ==
  ASSUME WholeColumns, NEW tileM \in {64, 128}, NEW k \in Nat, k < Experts
  PROVE  /\ PlanPrefix(tileM, k + 1)
              = PlanPrefix(tileM, k) \o RowBlocks(k, CeilDiv(counts[k], tileM), tileM)
         /\ PlanPrefix(tileM, k) \in Seq(PlanTile)
         /\ PlanPrefix(tileM, k + 1) \in Seq(PlanTile)
         /\ CeilDiv(counts[k], tileM) \in Nat /\ k \in ExpertIds
         /\ Len(PlanPrefix(tileM, k + 1))
              = Len(PlanPrefix(tileM, k)) + CeilDiv(counts[k], tileM) * Cols
<1>. DEFINE s == [e \in 1 .. k + 1 |-> RowBlocks(e - 1, CeilDiv(counts[e - 1], tileM), tileM)]
            r == [e \in 1 .. k |-> RowBlocks(e - 1, CeilDiv(counts[e - 1], tileM), tileM)]
<1>0. tileM \in Nat /\ k \in ExpertIds
  BY SizeFacts DEF ExpertIds
<1>1. ASSUME NEW e \in 1 .. k + 1
      PROVE  RowBlocks(e - 1, CeilDiv(counts[e - 1], tileM), tileM) \in Seq(PlanTile)
  <2>1. e - 1 \in ExpertIds
    BY SizeFacts DEF ExpertIds
  <2>2. counts[e - 1] \in Nat
    BY <2>1 DEF WholeColumns, RoutingOK
  <2>3. CeilDiv(counts[e - 1], tileM) \in Nat
    BY <2>2, CeilType
  <2>. QED
    BY <1>0, <2>1, <2>3, RowBlocksAre
<1>2. s \in [1 .. k + 1 -> Seq(PlanTile)] /\ r \in [1 .. k -> Seq(PlanTile)]
  BY <1>1
<1>3. r = [e \in 1 .. k |-> s[e]] /\ k + 1 \in 1 .. k + 1 /\ (k + 1) - 1 = k
  OBVIOUS
<1>4. s[k + 1] = RowBlocks(k, CeilDiv(counts[k], tileM), tileM)
  BY <1>3
<1>5. PlanPrefix(tileM, k + 1) = FlattenSeq(s) /\ PlanPrefix(tileM, k) = FlattenSeq(r)
  BY DEF PlanPrefix
<1>6. s[k + 1] \in Seq(PlanTile)
  BY <1>2, <1>3
<1>. HIDE DEF r, s
<1>7. FlattenSeq(s) = FlattenSeq(r) \o s[k + 1]
  <2>1. AllButLast(r, s, k, PlanTile)
    BY <1>2, <1>3 DEF AllButLast
  <2>. QED
    BY <2>1, FlattenStep
<1>8. FlattenSeq(r) \in Seq(PlanTile)
  BY <1>2, FlattenType
<1>9. FlattenSeq(s) \in Seq(PlanTile) /\ Len(FlattenSeq(s)) = Len(FlattenSeq(r)) + Len(s[k + 1])
  BY <1>6, <1>7, <1>8, ConcatProperties
<1>10. CeilDiv(counts[k], tileM) \in Nat
  BY <1>0, CeilType DEF WholeColumns, RoutingOK
<1>11. Len(s[k + 1]) = CeilDiv(counts[k], tileM) * Cols
  BY <1>0, <1>4, <1>10, RowBlocksAre
<1>. QED
  BY <1>0, <1>4, <1>5, <1>7, <1>8, <1>9, <1>10, <1>11

LEMMA PlanPrefixNone ==
  ASSUME NEW tileM
  PROVE  PlanPrefix(tileM, 0) = <<>>
<1>. DEFINE s == [e \in 1 .. 0 |-> RowBlocks(e - 1, CeilDiv(counts[e - 1], tileM), tileM)]
<1>1. s = <<>> /\ Len(s) = 0
  <2>1. s \in Seq({}) /\ Len(s) = 0
    OBVIOUS
  <2>. QED
    BY <2>1, EmptySeq
<1>2. PlanPrefix(tileM, 0) = FlattenSeq(s)
  BY DEF PlanPrefix
<1>. HIDE DEF s
<1>. QED
  BY <1>1, <1>2, FlattenEmpty

LEMMA RowsOf ==
  ASSUME RoutingOK, NEW k \in 0 .. Experts
  PROVE  /\ Total(counts, 0 .. k - 1) \in Nat
         /\ k < Experts => Total(counts, 0 .. (k + 1) - 1) = Total(counts, 0 .. k - 1) + counts[k]
         /\ Total(counts, 0 .. 0 - 1) = 0
<1>. DEFINE G == {b \in Nat : b =< Experts => Total(counts, 0 .. b - 1) \in Nat}
            S(b) == 0 .. b - 1
<1>1. ASSUME NEW b \in Nat, b < Experts
      PROVE  Total(counts, S(b + 1)) = Total(counts, S(b)) + counts[b]
             /\ Total(counts, S(b)) \in Int /\ counts[b] \in Nat
  <2>1. b \in S(b + 1) /\ S(b + 1) \ {b} = S(b)
    BY <1>1
  <2>2. IsFiniteSet(S(b + 1)) /\ IsFiniteSet(S(b))
    BY <1>1, FS_Interval
  <2>3. \A e \in S(b + 1) : counts[e] \in Nat
    BY <1>1, SizeFacts DEF RoutingOK, ExpertIds
  <2>4. \A e \in S(b + 1) : counts[e] \in Int
    BY <2>3
  <2>5. \A e \in S(b) : counts[e] \in Int
    BY <1>1, <2>4
  <2>. HIDE DEF S
  <2>6. Total(counts, S(b + 1)) = counts[b] + Total(counts, S(b + 1) \ {b})
    BY <2>1, <2>2, <2>4, TotalFacts
  <2>7. Total(counts, S(b)) \in Int
    BY <2>2, <2>5, TotalFacts
  <2>8. Total(counts, S(b + 1) \ {b}) = Total(counts, S(b))
    BY <2>1
  <2>9. counts[b] \in Nat
    BY <2>1, <2>3
  <2>. QED
    BY <2>6, <2>7, <2>8, <2>9
<1>2. Total(counts, S(0)) = 0
  <2>1. S(0) = {}
    OBVIOUS
  <2>. QED
    BY <2>1, TotalEmpty
<1>3. 0 \in G
  BY <1>2
<1>4. ASSUME NEW b \in G PROVE b + 1 \in G
  <2>1. ASSUME b + 1 =< Experts PROVE Total(counts, S(b + 1)) \in Nat
    <3>1. b \in Nat /\ b < Experts /\ Total(counts, S(b)) \in Nat
      BY <2>1, SizeFacts
    <3>. HIDE DEF S
    <3>. QED
      BY <1>1, <3>1
  <2>. QED
    BY <2>1
<1>6. k \in Nat /\ k =< Experts
  BY SizeFacts
<1>5. k \in G
  <2>1. G \subseteq Nat
    OBVIOUS
  <2>. HIDE DEF G
  <2>. QED
    BY <1>3, <1>4, <1>6, <2>1, AllOfNat
<1>. QED
  BY <1>1, <1>2, <1>5, <1>6

LEMMA SplitInit ==
  ASSUME RoutingOK
  PROVE  Split(0, <<>>, <<>>)
<1>1. LargeTiles(0) = {} /\ SmallTiles(0) = {}
  BY TilesStep
<1>2. Lists(<<>>, LargeTiles(0)) /\ Lists(<<>>, SmallTiles(0))
  BY <1>1, ListsNone
<1>3. LogicalElements(<<>>) = 0 /\ Total(counts, 0 .. 0 - 1) = 0 /\ n * 0 = 0
  BY ElementsNone, RowsOf, SizeFacts DEF RoutingOK
<1>4. PlanPrefix(128, 0) = <<>> /\ PlanPrefix(64, 0) = <<>> /\ Len(<<>>) = 0
  BY PlanPrefixNone
<1>. QED
  BY <1>2, <1>3, <1>4 DEF Split

LEMMA SplitStep ==
  ASSUME WholeColumns, NEW k \in 0 .. Experts, k < Experts, NEW l, NEW s, Split(k, l, s)
  PROVE  Split(k + 1, l \o RowBlocks(k, LargeRows(k), 128), s \o Tail64(k))
<1>. DEFINE t == RowBlocks(k, LargeRows(k), 128)
            u == Tail64(k)
            a == LargeRows(k)
            b == TailRows(k)
            w == Cols
            rows == Total(counts, 0 .. k - 1)
<1>1. k \in Nat /\ k \in ExpertIds
  BY ExpertFacts
<1>2. /\ LogicalElements(t) + LogicalElements(u) = n * counts[k]
      /\ t \in Seq(PlanTile) /\ u \in Seq(PlanTile)
      /\ Len(t) = a * w /\ Len(u) = b * w
  BY <1>1, ElementsShared
<1>3. l \in Seq(PlanTile) /\ s \in Seq(PlanTile)
  BY DEF Split, Lists
<1>4. Lists(l \o t, LargeTiles(k + 1)) /\ Lists(s \o u, SmallTiles(k + 1))
  <2>1. Lists(t, LargeOf(k)) /\ Lists(u, SmallOf(k))
    BY <1>1, LargeListed, SmallListed
  <2>2. Lists(l, LargeTiles(k)) /\ Lists(s, SmallTiles(k))
    BY DEF Split
  <2>3. /\ LargeTiles(k + 1) = LargeTiles(k) \cup LargeOf(k)
        /\ SmallTiles(k + 1) = SmallTiles(k) \cup SmallOf(k)
        /\ LargeTiles(k) \cap LargeOf(k) = {} /\ SmallTiles(k) \cap SmallOf(k) = {}
    BY <1>1, TilesStep
  <2>. HIDE DEF t, u
  <2>. QED
    BY <2>1, <2>2, <2>3, ListsConcat
<1>5. /\ a \in Nat /\ b \in Nat /\ w \in Nat /\ counts[k] \in Nat /\ n \in Nat
      /\ CeilDiv(counts[k], 128) = a + b /\ CeilDiv(counts[k], 64) = 2 * a + b
  <2>1. /\ counts[k] \in Nat /\ a \in Nat /\ b \in {0, 1}
        /\ CeilDiv(counts[k], 128) = a + b /\ CeilDiv(counts[k], 64) = 2 * a + b
    BY <1>1, RowFacts
  <2>2. w \in Nat /\ n \in Nat
    BY ColsFacts DEF WholeColumns, RoutingOK
  <2>. HIDE DEF a, b, w
  <2>. QED
    BY <2>1, <2>2
<1>6. Total(counts, 0 .. (k + 1) - 1) = rows + counts[k] /\ rows \in Nat
  <2>1. RoutingOK
    BY DEF WholeColumns
  <2>. QED
    BY <2>1, RowsOf
<1>7. /\ Len(PlanPrefix(128, k + 1)) = Len(PlanPrefix(128, k)) + (a + b) * w
      /\ Len(PlanPrefix(64, k + 1)) = Len(PlanPrefix(64, k)) + (2 * a + b) * w
  BY <1>1, <1>5, PlanPrefixStep
<1>. HIDE DEF t, u, a, b, w, rows
<1>8. /\ LogicalElements(l \o t) = LogicalElements(l) + LogicalElements(t)
      /\ LogicalElements(s \o u) = LogicalElements(s) + LogicalElements(u)
  BY <1>2, <1>3, ElementsConcat
<1>81. Len(l \o t) = Len(l) + Len(t) /\ Len(s \o u) = Len(s) + Len(u)
  BY <1>2, <1>3, ConcatProperties
<1>9. /\ LogicalElements(l) \in Int /\ LogicalElements(s) \in Int
      /\ LogicalElements(t) \in Int /\ LogicalElements(u) \in Int
      /\ Len(l) \in Nat /\ Len(s) \in Nat
  BY <1>2, <1>3, ElementsAre
<1>10. LogicalElements(l \o t) + LogicalElements(s \o u) = n * Total(counts, 0 .. (k + 1) - 1)
  <2>1. LogicalElements(l) + LogicalElements(s) = n * rows
    BY DEF Split, rows
  <2>2. n * (rows + counts[k]) = n * rows + n * counts[k]
    BY <1>5, <1>6
  <2>3. n * rows \in Int /\ n * counts[k] \in Int
    BY <1>5, <1>6
  <2>4. LogicalElements(t) + LogicalElements(u) = n * counts[k]
    BY <1>2
  <2>5. LogicalElements(l \o t) + LogicalElements(s \o u) = n * rows + n * counts[k]
    BY <1>8, <1>9, <2>1, <2>3, <2>4
  <2>. QED
    BY <1>6, <2>2, <2>5
<1>11. /\ Len(l \o t) + Len(s \o u) = Len(PlanPrefix(128, k + 1))
       /\ 2 * Len(l \o t) + Len(s \o u) = Len(PlanPrefix(64, k + 1))
  <2>1. /\ Len(l) + Len(s) = Len(PlanPrefix(128, k))
        /\ 2 * Len(l) + Len(s) = Len(PlanPrefix(64, k))
    BY DEF Split
  <2>2. (a + b) * w = a * w + b * w /\ (2 * a + b) * w = 2 * (a * w) + b * w
        /\ a * w \in Nat /\ b * w \in Nat
    BY <1>5
  <2>. DEFINE aw == a * w
              bw == b * w
  <2>3. Len(l \o t) = Len(l) + aw /\ Len(s \o u) = Len(s) + bw /\ aw \in Nat /\ bw \in Nat
    BY <1>2, <1>81, <2>2
  <2>4. /\ Len(PlanPrefix(128, k + 1)) = Len(PlanPrefix(128, k)) + (aw + bw)
        /\ Len(PlanPrefix(64, k + 1)) = Len(PlanPrefix(64, k)) + (2 * aw + bw)
    BY <1>7, <2>2
  <2>. DEFINE p == Len(PlanPrefix(128, k))
              q == Len(PlanPrefix(64, k))
              x == Len(l)
              y == Len(s)
  <2>5. x \in Nat /\ y \in Nat /\ x + y = p /\ 2 * x + y = q
    BY <1>9, <2>1
  <2>. HIDE DEF aw, bw, p, q, x, y
  <2>6. /\ (x + aw) + (y + bw) = p + (aw + bw)
        /\ 2 * (x + aw) + (y + bw) = q + (2 * aw + bw)
    BY <2>3, <2>5
  <2>. QED
    BY <2>3, <2>4, <2>6 DEF p, q, x, y
<1>. QED
  BY <1>4, <1>10, <1>11 DEF Split, t, u

LEMMA PlannerStart == Init => PlannerInv
<1>. SUFFICES ASSUME Init PROVE PlannerInv
  OBVIOUS
<1>1. RoutingOK
  <2>1. \/ RoutingInit(TokenCounts) \/ RoutingInit(LaunchCounts)
    BY DEF Init
  <2>. QED
    BY <2>1, RoutingAssumption, HostAssumption DEF RoutingInit, RoutingOK
<1>2. stage = "validate" /\ expert = 0 /\ large = <<>> /\ small = <<>>
  BY DEF Init, PlannerInit
<1>3. Split(expert, large, small)
  BY <1>1, <1>2, SplitInit
<1>. QED
  BY <1>1, <1>2, <1>3, SizeFacts DEF PlannerInv

\* The routing does not change, so what is said of it stays true.
LEMMA RoutingFrame ==
  ASSUME UNCHANGED routing
  PROVE  /\ RoutingOK' <=> RoutingOK
         /\ WholeColumns' <=> WholeColumns
         /\ Split(expert, large, small)' <=> Split(expert', large', small')
<1>1. counts' = counts /\ n' = n
  BY DEF routing
<1>2. (RoutingOK' <=> RoutingOK) /\ (WholeColumns' <=> WholeColumns)
  BY <1>1 DEF RoutingOK, WholeColumns, TileN
<1>3. LargeTiles(expert)' = LargeTiles(expert')
  BY <1>1 DEF LargeTiles, LargeOf, BlockTile, LargeRows, Full, Rem, Cols, TileN, Smaller
<1>4. SmallTiles(expert)' = SmallTiles(expert')
  BY <1>1 DEF SmallTiles, SmallOf, TailTile, HasTail, Full, Rem, Cols, TileN
<1>5. /\ PlanPrefix(128, expert)' = PlanPrefix(128, expert')
      /\ PlanPrefix(64, expert)' = PlanPrefix(64, expert')
  BY <1>1 DEF PlanPrefix, RowBlocks, RowBlock, CeilDiv, FlattenSeq, Smaller, TileN
<1>6. Total(counts, 0 .. expert - 1)' = Total(counts, 0 .. expert' - 1)
  BY <1>1 DEF Total, MapThenSumSet, MapThenFoldSet
<1>7. LogicalElements(large)' = LogicalElements(large') /\ LogicalElements(small)' = LogicalElements(small')
  BY DEF LogicalElements, FoldSeq, FoldFunction, FoldFunctionOnSet, MapThenFoldSet, TileN
<1>8. /\ Lists(large, LargeTiles(expert))' <=> Lists(large', LargeTiles(expert'))
      /\ Lists(small, SmallTiles(expert))' <=> Lists(small', SmallTiles(expert'))
  BY <1>3, <1>4 DEF Lists, PlanTile
<1>. QED
  BY <1>1, <1>2, <1>5, <1>6, <1>7, <1>8 DEF Split

LEMMA RowsFacts ==
  ASSUME RoutingOK
  PROVE  SumFunction(counts) = Total(counts, 0 .. Experts - 1) /\ SumFunction(counts) \in Nat
<1>1. SumFunction(counts) = Total(counts, ExpertIds)
  BY SumFunctionIs DEF RoutingOK
<1>2. Experts \in 0 .. Experts
  BY SizeFacts
<1>. QED
  BY <1>1, <1>2, RowsOf DEF ExpertIds

LEMMA ValidateStep ==
  ASSUME PlannerInv, Validate, UNCHANGED routing
  PROVE  PlannerInv'
<1>. USE DEF PlannerInv
<1>1. /\ stage = "validate" /\ expert' = expert /\ large' = large /\ small' = small
      /\ stage' \in {"split", "rejected"} /\ (stage' = "split" => n % TileN = 0)
  BY DEF Validate
<1>2. RoutingOK' /\ (stage' = "split" => WholeColumns')
  BY <1>1, RoutingFrame DEF WholeColumns
<1>3. Split(expert, large, small)'
  BY <1>1, RoutingFrame
<1>. QED
  BY <1>1, <1>2, <1>3

LEMMA SplitExpertStep ==
  ASSUME PlannerInv, SplitExpert, UNCHANGED routing
  PROVE  PlannerInv'
<1>. DEFINE k == expert
<1>1. /\ k \in 0 .. Experts /\ k < Experts /\ stage = "split" /\ stage' = stage /\ k' = k + 1
      /\ WholeColumns /\ Split(k, large, small) /\ RoutingOK
  BY DEF PlannerInv, SplitExpert
<1>2. k \in ExpertIds /\ k + 1 \in 0 .. Experts
  BY <1>1, ExpertFacts
<1>3. large' = large \o RowBlocks(k, LargeRows(k), 128)
  BY DEF SplitExpert, LargeRows, Full, Rem, TailLimit, SmallM, LargeM
<1>4. small' = small \o Tail64(k)
  <2>1. small \in Seq(PlanTile)
    BY <1>1 DEF Split, Lists
  <2>2. small \o <<>> = small
    BY <2>1, ConcatEmptySeq
  <2>3. small' = IF HasTail(k) THEN small \o RowBlock(k, Full(k) * 128, Rem(k)) ELSE small
    BY DEF SplitExpert, HasTail, Full, Rem, TailLimit, SmallM, LargeM, TailStart
  <2>. QED
    BY <2>2, <2>3 DEF Tail64
<1>5. Split(k + 1, large', small')
  BY <1>1, <1>3, <1>4, SplitStep
<1>6. Split(expert, large, small)' /\ RoutingOK' /\ WholeColumns'
  BY <1>1, <1>5, RoutingFrame
<1>. QED
  BY <1>1, <1>2, <1>6 DEF PlannerInv

\* The assertion holds: what is left over of no expert.
LEMMA ConcludeStep ==
  ASSUME PlannerInv, Conclude, UNCHANGED routing
  PROVE  PlannerInv'
<1>1. /\ stage = "split" /\ expert = Experts /\ WholeColumns /\ RoutingOK
      /\ Split(expert, large, small)
      /\ expert' = expert /\ large' = large /\ small' = small
      /\ stage' = IF LogicalElements(large \o small) = SumFunction(counts) * n
                  THEN "planned" ELSE "failed"
  BY DEF PlannerInv, Conclude
<1>2. LogicalElements(large \o small) = LogicalElements(large) + LogicalElements(small)
  BY <1>1, ElementsConcat DEF Split, Lists
<1>3. SumFunction(counts) = Total(counts, 0 .. Experts - 1) /\ SumFunction(counts) \in Nat
      /\ n \in Nat
  BY <1>1, RowsFacts DEF RoutingOK
<1>4. LogicalElements(large) + LogicalElements(small) = n * Total(counts, 0 .. Experts - 1)
  BY <1>1 DEF Split
<1>5. n * SumFunction(counts) = SumFunction(counts) * n
  BY <1>3
<1>6. stage' = "planned"
  BY <1>1, <1>2, <1>3, <1>4, <1>5
<1>7. Split(expert, large, small)' /\ RoutingOK' /\ WholeColumns'
  BY <1>1, RoutingFrame
<1>8. expert' \in 0 .. Experts
  BY <1>1 DEF PlannerInv
<1>. QED
  BY <1>1, <1>6, <1>7, <1>8 DEF PlannerInv

LEMMA PlannerNext ==
  ASSUME PlannerInv, [Next]_hostVars
  PROVE  PlannerInv'
<1>1. ASSUME UNCHANGED <<routing, plannerVars>> PROVE PlannerInv'
  <2>1. /\ stage' = stage /\ expert' = expert /\ large' = large /\ small' = small
        /\ UNCHANGED routing
    BY <1>1 DEF plannerVars
  <2>. QED
    BY <2>1, RoutingFrame DEF PlannerInv
<1>2. CASE PlanBuckets
  <2>1. PlannerStep /\ UNCHANGED routing
    BY <1>2 DEF PlanBuckets
  <2>. QED
    BY <2>1, ValidateStep, SplitExpertStep, ConcludeStep DEF PlannerStep
<1>3. CASE PlanBaseline
  <2>1. /\ stage = "validate" /\ UNCHANGED routing /\ expert' = expert
        /\ stage' \in {"baseline", "rejected"} /\ (stage' = "baseline" => n % TileN = 0)
    BY <1>3 DEF PlanBaseline
  <2>2. RoutingOK' /\ (stage' = "baseline" => WholeColumns')
    BY <2>1, RoutingFrame DEF WholeColumns, PlannerInv
  <2>. QED
    BY <2>1, <2>2 DEF PlannerInv
<1>4. CASE Schedule \/ Run
  BY <1>1, <1>4 DEF Schedule, Run, plannerVars, routing
<1>5. CASE Finished \/ UNCHANGED hostVars
  BY <1>1, <1>5 DEF Finished, hostVars
<1>. QED
  BY <1>2, <1>3, <1>4, <1>5 DEF Next

\* The split loop, for every routing: the buckets are lists without repetition of the
\* experts' full blocks and remainders, they hold the experts' rows, and with the
\* width accepted the planner's assertion never fails.
THEOREM PlannerInvariant == Spec => []PlannerInv
<1>. QED
  BY PlannerStart, PlannerNext, PTL DEF Spec

------------------------------------------------------------------------------
(* Where the device puts the tiles of the buckets                          *)

\* A finite set of numbers has a greatest and a least one.
LEMMA MaxIs ==
  ASSUME NEW S, IsFiniteSet(S), S # {}, S \subseteq Int
  PROVE  Max(S) \in S /\ \A y \in S : y =< Max(S)
<1>. DEFINE G == {T \in SUBSET S : T = {} \/ \E x \in T : \A y \in T : x >= y}
<1>1. {} \in G
  OBVIOUS
<1>2. ASSUME NEW T \in SUBSET S, NEW x \in T, T \ {x} \in G
      PROVE  T \in G
  <2>1. CASE T \ {x} = {}
    <3>1. \A y \in T : y = x
      BY <2>1
    <3>2. x \in Int
      OBVIOUS
    <3>. QED
      BY <3>1, <3>2
  <2>2. CASE T \ {x} # {}
    <3>1. PICK z \in T \ {x} : \A y \in T \ {x} : z >= y
      BY <1>2, <2>2
    <3>2. x \in Int /\ z \in Int /\ \A y \in T : y \in Int
      OBVIOUS
    <3>3. CASE x >= z
      <4>1. \A y \in T : x >= y
        BY <3>1, <3>2, <3>3
      <4>. QED
        BY <4>1
    <3>4. CASE z >= x
      <4>1. \A y \in T : z >= y
        BY <3>1, <3>2, <3>4
      <4>. QED
        BY <3>1, <4>1
    <3>. QED
      BY <3>2, <3>3, <3>4
  <2>. QED
    BY <2>1, <2>2
<1>3. S \in G
  <2>. HIDE DEF G
  <2>. QED
    BY <1>1, <1>2, AllSubsets
<1>4. \E x \in S : \A y \in S : x >= y
  BY <1>3
<1>5. Max(S) \in S /\ \A y \in S : Max(S) >= y
  BY <1>4 DEF Max
<1>. QED
  BY <1>5

Planned == stage = "planned" /\ PlannerInv

LEMMA PlannedFacts ==
  ASSUME Planned
  PROVE  /\ WholeColumns /\ RoutingOK
         /\ Lists(large, LargeTiles(Experts)) /\ Lists(small, SmallTiles(Experts))
         /\ Len(large) + Len(small) = Len(PlanPrefix(128, Experts))
         /\ 2 * Len(large) + Len(small) = Len(PlanPrefix(64, Experts))
BY DEF Planned, PlannerInv, Split

LargeStored(i, e, b, j) ==
  [launch |-> 128, at |-> i, expert |-> e, n |-> (j - 1) * 128, first |-> b * 128,
   valid |-> Smaller(128, counts[e] - b * 128), rows |-> 128]
SmallStored(i, e, j) ==
  [launch |-> 64, at |-> i, expert |-> e, n |-> (j - 1) * 128, first |-> Full(e) * 128,
   valid |-> Rem(e), rows |-> 64]

LEMMA LargePlaced ==
  ASSUME Planned
  PROVE  /\ \A x \in Placed(large, LargeM) : \E e \in ExpertIds :
              \E b \in 0 .. LargeRows(e) - 1, j \in 1 .. Cols, i \in 1 .. Len(large) :
                large[i] = BlockTile(e, b, j) /\ x = LargeStored(i, e, b, j)
         /\ \A e \in ExpertIds : \A b \in 0 .. LargeRows(e) - 1, j \in 1 .. Cols :
              \E i \in 1 .. Len(large) :
                large[i] = BlockTile(e, b, j) /\ LargeStored(i, e, b, j) \in Placed(large, LargeM)
<1>1. Lists(large, LargeTiles(Experts)) /\ WholeColumns
  BY PlannedFacts
<1>2. DOMAIN large = 1 .. Len(large)
  BY <1>1 DEF Lists
<1>. DEFINE P(i) == [launch |-> LargeM, at |-> i, expert |-> large[i].expert, n |-> large[i].n,
                     first |-> (large[i].m \div LargeM) * LargeM,
                     valid |-> large[i].validM, rows |-> LargeM]
<1>3. Placed(large, LargeM) = {P(i) : i \in 1 .. Len(large)}
  BY <1>2 DEF Placed
<1>4. ASSUME NEW e \in ExpertIds, NEW b \in 0 .. LargeRows(e) - 1, NEW j \in 1 .. Cols,
             NEW i \in 1 .. Len(large), large[i] = BlockTile(e, b, j)
      PROVE  P(i) = LargeStored(i, e, b, j)
  <2>1. b \in Nat
    BY <1>1, RowFacts
  <2>2. (b * 128) \div 128 = b
    BY <2>1
  <2>3. large[i].m = b * 128 /\ large[i].expert = e /\ large[i].n = (j - 1) * 128
        /\ large[i].validM = Smaller(128, counts[e] - b * 128)
    BY <1>4, SizeFacts DEF BlockTile
  <2>. QED
    BY <2>2, <2>3, SizeFacts DEF LargeStored
<1>. HIDE DEF P
<1>5. ASSUME NEW x \in Placed(large, LargeM)
      PROVE  \E e \in ExpertIds :
              \E b \in 0 .. LargeRows(e) - 1, j \in 1 .. Cols, i \in 1 .. Len(large) :
                large[i] = BlockTile(e, b, j) /\ x = LargeStored(i, e, b, j)
  <2>1. PICK i \in 1 .. Len(large) : x = P(i)
    BY <1>3
  <2>2. large[i] \in LargeTiles(Experts)
    BY <1>1 DEF Lists
  <2>3. PICK e \in ExpertIds : large[i] \in LargeOf(e)
    BY <2>2 DEF LargeTiles, ExpertIds
  <2>4. PICK b \in 0 .. LargeRows(e) - 1, j \in 1 .. Cols : large[i] = BlockTile(e, b, j)
    BY <2>3 DEF LargeOf
  <2>. QED
    BY <1>4, <2>1, <2>4
<1>6. ASSUME NEW e \in ExpertIds, NEW b \in 0 .. LargeRows(e) - 1, NEW j \in 1 .. Cols
      PROVE  \E i \in 1 .. Len(large) :
               large[i] = BlockTile(e, b, j) /\ LargeStored(i, e, b, j) \in Placed(large, LargeM)
  <2>1. BlockTile(e, b, j) \in LargeTiles(Experts)
    BY DEF LargeOf, LargeTiles, ExpertIds
  <2>2. PICK i \in 1 .. Len(large) : large[i] = BlockTile(e, b, j)
    BY <1>1, <2>1 DEF Lists
  <2>. QED
    BY <1>3, <1>4, <2>2
<1>. QED
  BY <1>5, <1>6

LEMMA SmallPlaced ==
  ASSUME Planned
  PROVE  /\ \A x \in Placed(small, SmallM) : \E e \in ExpertIds :
              \E j \in 1 .. Cols, i \in 1 .. Len(small) :
                HasTail(e) /\ small[i] = TailTile(e, j) /\ x = SmallStored(i, e, j)
         /\ \A e \in ExpertIds : HasTail(e) => \A j \in 1 .. Cols :
              \E i \in 1 .. Len(small) :
                small[i] = TailTile(e, j) /\ SmallStored(i, e, j) \in Placed(small, SmallM)
<1>1. Lists(small, SmallTiles(Experts)) /\ WholeColumns
  BY PlannedFacts
<1>2. DOMAIN small = 1 .. Len(small)
  BY <1>1 DEF Lists
<1>. DEFINE P(i) == [launch |-> SmallM, at |-> i, expert |-> small[i].expert, n |-> small[i].n,
                     first |-> (small[i].m \div SmallM) * SmallM,
                     valid |-> small[i].validM, rows |-> SmallM]
<1>3. Placed(small, SmallM) = {P(i) : i \in 1 .. Len(small)}
  BY <1>2 DEF Placed
<1>4. ASSUME NEW e \in ExpertIds, NEW j \in 1 .. Cols,
             NEW i \in 1 .. Len(small), small[i] = TailTile(e, j)
      PROVE  P(i) = SmallStored(i, e, j)
  <2>. DEFINE q == Full(e)
  <2>1. q \in Nat
    BY <1>1, RowFacts
  <2>. HIDE DEF q
  <2>2. ((q * 128) \div 64) * 64 = q * 128
    BY <2>1
  <2>3. small[i].m = q * 128 /\ small[i].expert = e /\ small[i].n = (j - 1) * 128
        /\ small[i].validM = Rem(e)
    BY <1>4, SizeFacts DEF TailTile, q
  <2>. QED
    BY <2>2, <2>3, SizeFacts DEF SmallStored, q
<1>. HIDE DEF P
<1>5. ASSUME NEW x \in Placed(small, SmallM)
      PROVE  \E e \in ExpertIds :
              \E j \in 1 .. Cols, i \in 1 .. Len(small) :
                HasTail(e) /\ small[i] = TailTile(e, j) /\ x = SmallStored(i, e, j)
  <2>1. PICK i \in 1 .. Len(small) : x = P(i)
    BY <1>3
  <2>2. small[i] \in SmallTiles(Experts)
    BY <1>1 DEF Lists
  <2>3. PICK e \in ExpertIds : small[i] \in SmallOf(e)
    BY <2>2 DEF SmallTiles, ExpertIds
  <2>4. PICK j \in 1 .. Cols : HasTail(e) /\ small[i] = TailTile(e, j)
    BY <2>3 DEF SmallOf
  <2>. QED
    BY <1>4, <2>1, <2>4
<1>6. ASSUME NEW e \in ExpertIds, HasTail(e), NEW j \in 1 .. Cols
      PROVE  \E i \in 1 .. Len(small) :
               small[i] = TailTile(e, j) /\ SmallStored(i, e, j) \in Placed(small, SmallM)
  <2>1. TailTile(e, j) \in SmallTiles(Experts)
    BY <1>6 DEF SmallOf, SmallTiles, ExpertIds
  <2>2. PICK i \in 1 .. Len(small) : small[i] = TailTile(e, j)
    BY <1>1, <2>1 DEF Lists
  <2>. QED
    BY <1>3, <1>4, <2>2
<1>. QED
  BY <1>5, <1>6

\* What rows a tile of the large bucket covers.
LEMMA LargeRowFacts ==
  ASSUME WholeColumns, NEW e \in ExpertIds, NEW b \in 0 .. LargeRows(e) - 1
  PROVE  /\ b \in Nat /\ b * 128 < counts[e] /\ counts[e] \in Nat
         /\ Smaller(128, counts[e] - b * 128) \in 1 .. 128
         /\ b * 128 + Smaller(128, counts[e] - b * 128) = Smaller((b + 1) * 128, counts[e])
         /\ HasTail(e) => (b + 1) * 128 =< Full(e) * 128
         /\ Full(e) \in Nat /\ Rem(e) \in 0 .. 127 /\ counts[e] = Full(e) * 128 + Rem(e)
<1>1. /\ counts[e] \in Nat /\ Full(e) \in Nat /\ Rem(e) \in 0 .. 127
      /\ counts[e] = 128 * Full(e) + Rem(e) /\ LargeRows(e) \in Nat
  BY RowFacts
<1>. DEFINE c == counts[e]
            q == Full(e)
            r == Rem(e)
<1>2. b \in Nat /\ b < q + (IF r > 64 THEN 1 ELSE 0)
  BY <1>1 DEF LargeRows
<1>3. HasTail(e) => r =< 64
  BY DEF HasTail
<1>4. c \in Nat /\ q \in Nat /\ r \in 0 .. 127 /\ c = 128 * q + r
  BY <1>1
<1>. HIDE DEF c, q, r
<1>5. b * 128 < c
  BY <1>2, <1>4
<1>. QED
  BY <1>2, <1>3, <1>4, <1>5 DEF Smaller, c, q, r

LEMMA CapacityFacts ==
  ASSUME RoutingOK, NEW e \in ExpertIds, NEW b \in Nat, b * 128 < counts[e]
  PROVE  MCapacity \in Int /\ (b + 1) * 128 =< MCapacity
<1>. DEFINE S == {counts[d] : d \in ExpertIds}
            a == MostRows
            q == (a + 127) \div 128
<1>1. IsFiniteSet(S) /\ S # {} /\ S \subseteq Int /\ counts[e] \in S
  <2>1. counts \in Surjection(ExpertIds, S) /\ S \subseteq Int /\ counts[e] \in S
    BY DEF RoutingOK, Surjection
  <2>2. IsFiniteSet(S)
    BY <2>1, SizeFacts, FS_Surjection
  <2>. QED
    BY <2>1, <2>2
<1>. HIDE DEF S
<1>2. Max(S) \in Int /\ counts[e] =< Max(S)
  BY <1>1, MaxIs
<1>3. a = Max(S) /\ counts[e] \in Nat
  BY DEF MostRows, S, RoutingOK
<1>4. a \in Int /\ b * 128 < a
  <2>. HIDE DEF a
  <2>1. a \in Int /\ counts[e] =< a
    BY <1>2, <1>3
  <2>. QED
    BY <1>3, <2>1
<1>. HIDE DEF a
<1>5. q * 128 >= (b + 1) * 128 /\ q \in Int
  <2>1. b < q /\ q \in Int
    BY <1>4
  <2>2. b + 1 =< q /\ b + 1 \in Int
    BY <2>1
  <2>. QED
    BY <2>1, <2>2
<1>6. MCapacity = Larger(128, q * 128)
  BY <1>4, SizeFacts DEF MCapacity, CeilDiv, a
<1>. HIDE DEF q
<1>7. q * 128 \in Int
  BY <1>5
<1>. QED
  BY <1>5, <1>6, <1>7 DEF Larger

\* A stored tile lies in the capacity and its valid rows are rows of its expert.
LEMMA StoredBounds ==
  ASSUME Planned, NEW x \in Stored
  PROVE  /\ x.expert \in ExpertIds /\ x.first \in Nat /\ x.valid \in Nat /\ x.rows \in Nat
         /\ 0 < x.valid /\ x.valid =< x.rows
         /\ x.first + x.valid =< counts[x.expert]
         /\ x.first + x.rows =< MCapacity
<1>0. WholeColumns /\ RoutingOK
  BY PlannedFacts
<1>1. CASE x \in Placed(large, LargeM)
  <2>1. PICK e \in ExpertIds : \E b \in 0 .. LargeRows(e) - 1, j \in 1 .. Cols, i \in 1 .. Len(large) :
          x = LargeStored(i, e, b, j)
    BY <1>1, LargePlaced
  <2>2. PICK b \in 0 .. LargeRows(e) - 1, j \in 1 .. Cols, i \in 1 .. Len(large) :
          x = LargeStored(i, e, b, j)
    BY <2>1
  <2>. DEFINE v == Smaller(128, counts[e] - b * 128)
  <2>3. x.expert = e /\ x.first = b * 128 /\ x.valid = v /\ x.rows = 128
    BY <2>2 DEF LargeStored
  <2>4. /\ b \in Nat /\ b * 128 < counts[e] /\ counts[e] \in Nat /\ v \in 1 .. 128
        /\ b * 128 + v = Smaller((b + 1) * 128, counts[e])
    BY <1>0, LargeRowFacts
  <2>. HIDE DEF v
  <2>5. MCapacity \in Int /\ (b + 1) * 128 =< MCapacity
    BY <1>0, <2>4, CapacityFacts
  <2>6. b * 128 + v =< counts[e]
    BY <2>4 DEF Smaller
  <2>7. b * 128 + 128 = (b + 1) * 128 /\ b * 128 \in Nat
    BY <2>4
  <2>8. v =< 128 /\ 0 < v /\ v \in Nat
    BY <2>4
  <2>9. b * 128 + 128 =< MCapacity
    BY <2>5, <2>7
  <2>. QED
    BY <2>3, <2>6, <2>7, <2>8, <2>9
<1>2. CASE x \in Placed(small, SmallM)
  <2>1. PICK e \in ExpertIds : \E j \in 1 .. Cols, i \in 1 .. Len(small) :
          HasTail(e) /\ x = SmallStored(i, e, j)
    BY <1>2, SmallPlaced
  <2>2. PICK j \in 1 .. Cols, i \in 1 .. Len(small) : HasTail(e) /\ x = SmallStored(i, e, j)
    BY <2>1
  <2>. DEFINE b == Full(e)
              v == Rem(e)
  <2>3. x.expert = e /\ x.first = b * 128 /\ x.valid = v /\ x.rows = 64
    BY <2>2 DEF SmallStored
  <2>4. b \in Nat /\ v \in 0 .. 127 /\ counts[e] = 128 * b + v /\ counts[e] \in Nat
    BY <1>0, RowFacts
  <2>5. 0 < v /\ v =< 64
    BY <2>2 DEF HasTail
  <2>. HIDE DEF b, v
  <2>6. b * 128 < counts[e]
    BY <2>4, <2>5
  <2>7. MCapacity \in Int /\ (b + 1) * 128 =< MCapacity
    BY <1>0, <2>4, <2>6, CapacityFacts
  <2>9. b * 128 + 64 =< MCapacity
    BY <2>4, <2>7
  <2>. QED
    BY <2>3, <2>4, <2>5, <2>9
<1>. QED
  BY <1>1, <1>2 DEF Stored

\* Two stored tiles of one expert and column have no row in common, padding included.
LEMMA StoredApart ==
  ASSUME Planned, NEW x \in Stored, NEW y \in Stored, x # y, x.expert = y.expert, x.n = y.n
  PROVE  x.first + x.rows =< y.first \/ y.first + y.rows =< x.first
<1>0. /\ WholeColumns /\ Cols \in Nat
      /\ \A i, j \in 1 .. Len(large) : large[i] = large[j] => i = j
      /\ \A i, j \in 1 .. Len(small) : small[i] = small[j] => i = j
  BY PlannedFacts, ColsFacts DEF Lists
<1>. DEFINE IsLarge(u, e, b, j, i) ==
              large[i] = BlockTile(e, b, j) /\ u = LargeStored(i, e, b, j)
            IsSmall(u, e, j, i) == HasTail(e) /\ small[i] = TailTile(e, j) /\ u = SmallStored(i, e, j)
<1>1. ASSUME NEW u \in Stored
      PROVE  \E e \in ExpertIds : \E j \in 1 .. Cols :
               \/ \E b \in 0 .. LargeRows(e) - 1, i \in 1 .. Len(large) : IsLarge(u, e, b, j, i)
               \/ \E i \in 1 .. Len(small) : IsSmall(u, e, j, i)
  <2>1. CASE u \in Placed(large, LargeM)
    <3>1. PICK e \in ExpertIds :
            \E b \in 0 .. LargeRows(e) - 1, j \in 1 .. Cols, i \in 1 .. Len(large) : IsLarge(u, e, b, j, i)
      BY <2>1, LargePlaced
    <3>. QED
      BY <3>1
  <2>2. CASE u \in Placed(small, SmallM)
    <3>1. PICK e \in ExpertIds : \E j \in 1 .. Cols, i \in 1 .. Len(small) : IsSmall(u, e, j, i)
      BY <2>2, SmallPlaced
    <3>. QED
      BY <3>1
  <2>. QED
    BY <2>1, <2>2 DEF Stored
<1>2. ASSUME NEW u, NEW e \in ExpertIds, NEW b, NEW j, NEW i, IsLarge(u, e, b, j, i)
      PROVE  u.expert = e /\ u.n = (j - 1) * 128 /\ u.first = b * 128 /\ u.rows = 128
  BY <1>2 DEF LargeStored
<1>3. ASSUME NEW u, NEW e \in ExpertIds, NEW j, NEW i, IsSmall(u, e, j, i)
      PROVE  u.expert = e /\ u.n = (j - 1) * 128 /\ u.first = Full(e) * 128 /\ u.rows = 64 /\ HasTail(e)
  BY <1>3 DEF SmallStored
<1>4. PICK e \in ExpertIds, jx \in 1 .. Cols :
        \/ \E b \in 0 .. LargeRows(e) - 1, i \in 1 .. Len(large) : IsLarge(x, e, b, jx, i)
        \/ \E i \in 1 .. Len(small) : IsSmall(x, e, jx, i)
  BY <1>1
<1>5. PICK d \in ExpertIds, jy \in 1 .. Cols :
        \/ \E b \in 0 .. LargeRows(d) - 1, i \in 1 .. Len(large) : IsLarge(y, d, b, jy, i)
        \/ \E i \in 1 .. Len(small) : IsSmall(y, d, jy, i)
  BY <1>1
<1>6. d = e /\ jx = jy
  <2>. HIDE DEF IsLarge, IsSmall
  <2>1. x.expert = e /\ x.n = (jx - 1) * 128
    <3>1. ASSUME NEW b \in 0 .. LargeRows(e) - 1, NEW i \in 1 .. Len(large), IsLarge(x, e, b, jx, i)
          PROVE  x.expert = e /\ x.n = (jx - 1) * 128
      BY <1>2, <3>1
    <3>2. ASSUME NEW i \in 1 .. Len(small), IsSmall(x, e, jx, i)
          PROVE  x.expert = e /\ x.n = (jx - 1) * 128
      BY <3>2 DEF IsSmall, SmallStored
    <3>. QED
      BY <1>4, <3>1, <3>2
  <2>2. y.expert = d /\ y.n = (jy - 1) * 128
    <3>1. ASSUME NEW b \in 0 .. LargeRows(d) - 1, NEW i \in 1 .. Len(large), IsLarge(y, d, b, jy, i)
          PROVE  y.expert = d /\ y.n = (jy - 1) * 128
      BY <1>2, <3>1
    <3>2. ASSUME NEW i \in 1 .. Len(small), IsSmall(y, d, jy, i)
          PROVE  y.expert = d /\ y.n = (jy - 1) * 128
      BY <3>2 DEF IsSmall, SmallStored
    <3>. QED
      BY <1>5, <3>1, <3>2
  <2>3. jx \in Int /\ jy \in Int
    BY <1>0
  <2>4. (jx - 1) * 128 = (jy - 1) * 128
    BY <2>1, <2>2
  <2>5. d = e
    BY <2>1, <2>2
  <2>. QED
    BY <2>3, <2>4, <2>5
<1>7. ASSUME NEW b \in 0 .. LargeRows(e) - 1, NEW i \in 1 .. Len(large), IsLarge(x, e, b, jx, i),
             NEW c \in 0 .. LargeRows(e) - 1, NEW k \in 1 .. Len(large), IsLarge(y, e, c, jx, k)
      PROVE  x.first + x.rows =< y.first \/ y.first + y.rows =< x.first
  <2>1. x.first = b * 128 /\ x.rows = 128 /\ y.first = c * 128 /\ y.rows = 128
    BY <1>2, <1>7
  <2>2. b # c
    BY <1>0, <1>7
  <2>3. b \in Nat /\ c \in Nat
    BY <1>0, LargeRowFacts
  <2>. QED
    BY <2>1, <2>2, <2>3
<1>8. ASSUME NEW b \in 0 .. LargeRows(e) - 1, NEW j, NEW i \in 1 .. Len(large), NEW u,
             IsLarge(u, e, b, j, i), NEW k \in 1 .. Len(small), NEW w, IsSmall(w, e, j, k)
      PROVE  u.first + u.rows =< w.first
  <2>1. u.first = b * 128 /\ u.rows = 128 /\ w.first = Full(e) * 128 /\ HasTail(e)
    BY <1>2, <1>3, <1>8
  <2>2. b \in Nat /\ (b + 1) * 128 =< Full(e) * 128
    BY <1>0, <2>1, LargeRowFacts
  <2>3. b * 128 + 128 = (b + 1) * 128
    BY <2>2
  <2>. QED
    BY <2>1, <2>2, <2>3
<1>9. ASSUME NEW i \in 1 .. Len(small), IsSmall(x, e, jx, i),
             NEW k \in 1 .. Len(small), IsSmall(y, e, jx, k)
      PROVE  FALSE
  BY <1>0, <1>9
<1>. HIDE DEF IsLarge, IsSmall
<1>. QED
  BY <1>4, <1>5, <1>6, <1>7, <1>8, <1>9

\* Every routed row is valid in a stored tile of each column.
LEMMA StoredCovers ==
  ASSUME Planned, NEW e \in ExpertIds, NEW j \in 1 .. Cols, NEW r \in 0 .. counts[e] - 1
  PROVE  \E x \in Stored : /\ x.expert = e /\ x.n = (j - 1) * 128
                           /\ x.first =< r /\ r < x.first + x.valid
<1>0. WholeColumns
  BY PlannedFacts
<1>1. /\ counts[e] \in Nat /\ Full(e) \in Nat /\ Rem(e) \in 0 .. 127
      /\ counts[e] = 128 * Full(e) + Rem(e) /\ LargeRows(e) \in Nat
  BY <1>0, RowFacts
<1>. DEFINE b == r \div 128
<1>2. r \in Nat /\ b \in Nat /\ b * 128 =< r /\ r < (b + 1) * 128 /\ r < counts[e]
  BY <1>1
<1>. HIDE DEF b
<1>3. CASE b < LargeRows(e)
  <2>1. b \in 0 .. LargeRows(e) - 1
    BY <1>1, <1>2, <1>3
  <2>. DEFINE v == Smaller(128, counts[e] - b * 128)
  <2>2. v \in Nat /\ b * 128 + v = Smaller((b + 1) * 128, counts[e])
    BY <1>0, <2>1, LargeRowFacts
  <2>3. PICK i \in 1 .. Len(large) : LargeStored(i, e, b, j) \in Placed(large, LargeM)
    BY <2>1, LargePlaced
  <2>. DEFINE x == LargeStored(i, e, b, j)
  <2>4. x \in Stored /\ x.expert = e /\ x.n = (j - 1) * 128 /\ x.first = b * 128 /\ x.valid = v
    BY <2>3 DEF Stored, LargeStored
  <2>. HIDE DEF v, x
  <2>5. r < b * 128 + v
    BY <1>1, <1>2, <2>2 DEF Smaller
  <2>. QED
    BY <1>2, <2>4, <2>5
<1>4. CASE ~(b < LargeRows(e))
  <2>1. b = Full(e) /\ HasTail(e)
    BY <1>1, <1>2, <1>4 DEF LargeRows, HasTail
  <2>2. PICK i \in 1 .. Len(small) : SmallStored(i, e, j) \in Placed(small, SmallM)
    BY <2>1, SmallPlaced
  <2>. DEFINE x == SmallStored(i, e, j)
  <2>3. x \in Stored /\ x.expert = e /\ x.n = (j - 1) * 128 /\ x.first = b * 128 /\ x.valid = Rem(e)
    BY <2>1, <2>2 DEF Stored, SmallStored
  <2>. HIDE DEF x
  <2>4. r < b * 128 + Rem(e)
    BY <1>1, <1>2, <2>1
  <2>. QED
    BY <1>2, <2>3, <2>4
<1>. QED
  BY <1>3, <1>4

------------------------------------------------------------------------------
(* What the two launches compute                                           *)

LEMMA ColumnIs ==
  ASSUME WholeColumns, NEW col \in Columns
  PROVE  \E j \in 1 .. Cols : col = (j - 1) * 128
<1>1. PICK i \in 0 .. Cols - 1 : col = i * 128
  BY SizeFacts DEF Columns, Cols
<1>2. i + 1 \in 1 .. Cols /\ (i + 1) - 1 = i
  BY ColsFacts
<1>. QED
  BY <1>1, <1>2

LEMMA PlannedOnce ==
  ASSUME PlannerInv
  PROVE  EveryRowOnce
<1>1. stage # "failed"
  BY DEF PlannerInv
<1>2. ASSUME stage = "planned", NEW e \in ExpertIds, NEW col \in Columns
      PROVE  LET here == {x \in Stored : x.expert = e /\ x.n = col}
                 Valid(x) == x.first .. x.first + x.valid - 1
             IN /\ UNION {Valid(x) : x \in here} = 0 .. counts[e] - 1
                /\ \A x, y \in here : x # y => Valid(x) \cap Valid(y) = {}
  <2>. DEFINE here == {x \in Stored : x.expert = e /\ x.n = col}
              Valid(x) == x.first .. x.first + x.valid - 1
  <2>1. Planned /\ WholeColumns /\ counts[e] \in Nat
    BY <1>2, PlannedFacts, RowFacts DEF Planned
  <2>2. PICK j \in 1 .. Cols : col = (j - 1) * 128
    BY <2>1, ColumnIs
  <2>3. ASSUME NEW x \in here
        PROVE  /\ x \in Stored /\ x.expert = e /\ x.n = col
               /\ x.first \in Nat /\ x.valid \in Nat /\ x.rows \in Nat /\ x.valid =< x.rows
               /\ x.first + x.valid =< counts[e]
    <3>1. x \in Stored /\ x.expert = e /\ x.n = col
      OBVIOUS
    <3>. QED
      BY <2>1, <3>1, StoredBounds
  <2>4. ASSUME NEW x \in here, NEW r \in Valid(x)
        PROVE  r \in 0 .. counts[e] - 1
    BY <2>1, <2>3
  <2>5. ASSUME NEW r \in 0 .. counts[e] - 1
        PROVE  \E x \in here : r \in Valid(x)
    <3>1. PICK x \in Stored : /\ x.expert = e /\ x.n = (j - 1) * 128
                              /\ x.first =< r /\ r < x.first + x.valid
      BY <2>1, StoredCovers
    <3>2. x \in here
      BY <2>2, <3>1
    <3>3. x.first \in Nat /\ x.valid \in Nat
      BY <2>3, <3>2
    <3>4. r \in Int
      OBVIOUS
    <3>5. r \in Valid(x)
      BY <3>1, <3>3, <3>4
    <3>. QED
      BY <3>2, <3>5
  <2>6. ASSUME NEW x \in here, NEW y \in here, x # y
        PROVE  Valid(x) \cap Valid(y) = {}
    <3>1. /\ x \in Stored /\ y \in Stored /\ x.expert = y.expert /\ x.n = y.n
          /\ x.first \in Nat /\ x.valid \in Nat /\ x.rows \in Nat /\ x.valid =< x.rows
          /\ y.first \in Nat /\ y.valid \in Nat /\ y.rows \in Nat /\ y.valid =< y.rows
      BY <2>3
    <3>2. x.first + x.rows =< y.first \/ y.first + y.rows =< x.first
      BY <2>1, <2>6, <3>1, StoredApart
    <3>. QED
      BY <3>1, <3>2
  <2>7. UNION {Valid(x) : x \in here} = 0 .. counts[e] - 1
    <3>. HIDE DEF here, Valid
    <3>. QED
      BY <2>4, <2>5
  <2>. QED
    BY <2>6, <2>7
<1>. QED
  BY <1>1, <1>2 DEF EveryRowOnce

\* Whatever routing there is, with any counts and any width, and whoever plans it: the
\* two launches of V6 compute every row of every expert exactly once in each column, as
\* the device locates their tiles; and the planner's assertion never fires.
THEOREM RowsOnce == Spec => []EveryRowOnce
<1>1. PlannerInv => EveryRowOnce
  BY PlannedOnce
<1>. QED
  BY PlannerInvariant, <1>1, PTL

LEMMA PlannedPadding ==
  ASSUME PlannerInv
  PROVE  PaddingHarmless
<1>. SUFFICES ASSUME stage = "planned"
              PROVE  /\ \A x \in Stored : x.first + x.rows =< MCapacity
                     /\ \A x, y \in Stored :
                          x # y /\ x.expert = y.expert /\ x.n = y.n =>
                            x.first + x.rows =< y.first \/ y.first + y.rows =< x.first
  BY DEF PaddingHarmless
<1>1. Planned
  BY DEF Planned
<1>. QED
  BY <1>1, StoredBounds, StoredApart

\* No store of a padded tile overwrites a row the other launch computes, or runs past the
\* rows of D the expert has: for all counts, the second launch needs no wait for the first
\* for its rows to be safe.
THEOREM PaddingSafe == Spec => []PaddingHarmless
<1>1. PlannerInv => PaddingHarmless
  BY PlannedPadding
<1>. QED
  BY PlannerInvariant, <1>1, PTL

LEMMA PlannedBest ==
  ASSUME PlannerInv
  PROVE  SplitIsBest
<1>. SUFFICES ASSUME stage = "planned"
              PROVE  /\ PaddedElements(large, LargeM) + PaddedElements(small, SmallM)
                          = PaddedElements(BuildWorkloadPlan(SmallM), SmallM)
                     /\ Len(large) + Len(small) = Len(BuildWorkloadPlan(LargeM))
  BY DEF SplitIsBest
<1>1. BuildWorkloadPlan(64) = PlanPrefix(64, Experts) /\ BuildWorkloadPlan(128) = PlanPrefix(128, Experts)
  BY DEF BuildWorkloadPlan, PlanPrefix
<1>2. /\ Len(large) + Len(small) = Len(PlanPrefix(128, Experts))
      /\ 2 * Len(large) + Len(small) = Len(PlanPrefix(64, Experts))
  BY PlannedFacts DEF Planned
<1>3. Len(large) \in Nat /\ Len(small) \in Nat
  BY PlannedFacts DEF Planned, Lists
<1>. DEFINE a == Len(large)
            b == Len(small)
<1>4. a * 128 * 128 + b * 64 * 128 = (2 * a + b) * 64 * 128
  <2>. HIDE DEF a, b
  <2>. QED
    BY <1>3 DEF a, b
<1>. QED
  BY <1>1, <1>2, <1>4, SizeFacts DEF PaddedElements

\* "A 65--127 row region remains one M=128 tile because two M=64 MMAs would perform the
\* same padded arithmetic and create more scheduling work": for all routings the split
\* does the arithmetic of 64-row tiles with the number of 128-row tiles.
THEOREM SplitBest == Spec => []SplitIsBest
<1>1. PlannerInv => SplitIsBest
  BY PlannedBest
<1>. QED
  BY PlannerInvariant, <1>1, PTL

------------------------------------------------------------------------------
(* The ideal queue                                                         *)

CpuTile == [expert : Int, m : Int, n : Int, validM : Int, validN : Int]

WorkOf(s) == FoldSeq(LAMBDA t, sum : Work(t) + sum, 0, s)
WorksOf(s) == [i \in DOMAIN s |-> Work(s[i])]

LEMMA WorkType ==
  ASSUME NEW t \in CpuTile
  PROVE  Work(t) \in Nat /\ Work(t) > 0
<1>1. t.validM \in Int /\ t.validN \in Int
  BY DEF CpuTile
<1>. DEFINE p == t.validM * t.validN
<1>2. p \in Int
  BY <1>1
<1>. HIDE DEF p
<1>. QED
  BY <1>2 DEF Work, Larger, p

LEMMA WorkOfIs ==
  ASSUME NEW s \in Seq(CpuTile)
  PROVE  /\ WorkOf(s) = Total(WorksOf(s), 1 .. Len(s))
         /\ \A i \in 1 .. Len(s) : WorksOf(s)[i] = Work(s[i]) /\ WorksOf(s)[i] \in Nat
<1>1. DOMAIN s = 1 .. Len(s)
  OBVIOUS
<1>2. ASSUME NEW f, f = [i \in DOMAIN s |-> Work(s[i])]
      PROVE  WorkOf(s) = Total(f, DOMAIN s)
  BY <1>2, ZenonT(40) DEF WorkOf, FoldSeq, FoldFunction, FoldFunctionOnSet, Total, MapThenSumSet, MapThenFoldSet
<1>3. WorkOf(s) = Total(WorksOf(s), 1 .. Len(s))
  BY <1>1, <1>2 DEF WorksOf
<1>4. ASSUME NEW i \in 1 .. Len(s)
      PROVE  WorksOf(s)[i] = Work(s[i]) /\ WorksOf(s)[i] \in Nat
  <2>1. s[i] \in CpuTile /\ i \in DOMAIN s
    BY <1>1
  <2>. QED
    BY <2>1, WorkType DEF WorksOf
<1>. QED
  BY <1>3, <1>4

LEMMA WorkOfNone == WorkOf(<<>>) = 0
<1>1. <<>> \in Seq(CpuTile) /\ Len(<<>>) = 0 /\ 1 .. 0 = {}
  OBVIOUS
<1>2. WorkOf(<<>>) = Total(WorksOf(<<>>), 1 .. Len(<<>>))
  BY <1>1, WorkOfIs
<1>3. 1 .. Len(<<>>) = {}
  BY <1>1
<1>. QED
  BY <1>2, <1>3, TotalEmpty

LEMMA WorkOfAppend ==
  ASSUME NEW s \in Seq(CpuTile), NEW t \in CpuTile
  PROVE  WorkOf(Append(s, t)) = WorkOf(s) + Work(t)
<1>. DEFINE u == Append(s, t)
            k == Len(s)
<1>1. /\ u \in Seq(CpuTile) /\ Len(u) = k + 1 /\ k \in Nat /\ u[k + 1] = t
      /\ \A i \in 1 .. k : u[i] = s[i]
  OBVIOUS
<1>. DEFINE f == WorksOf(u)
            g == WorksOf(s)
<1>2. WorkOf(u) = Total(f, 1 .. k + 1)
  BY <1>1, WorkOfIs
<1>3. \A i \in 1 .. k + 1 : f[i] = Work(u[i]) /\ f[i] \in Nat
  BY <1>1, WorkOfIs
<1>4. WorkOf(s) = Total(g, 1 .. k) /\ \A i \in 1 .. k : g[i] = Work(s[i]) /\ g[i] \in Nat
  BY WorkOfIs
<1>. HIDE DEF u, f, g, k
<1>5. Total(f, 1 .. k + 1) = Total(f, 1 .. k) + f[k + 1]
  <2>1. \A i \in 1 .. k + 1 : f[i] \in Int
    BY <1>3
  <2>. QED
    BY <1>1, <2>1, SumTo
<1>6. Total(f, 1 .. k) = Total(g, 1 .. k)
  <2>1. \A i \in 1 .. k : i \in 1 .. k + 1
    BY <1>1
  <2>2. \A i \in 1 .. k : f[i] = g[i] /\ f[i] \in Int
    BY <1>1, <1>3, <1>4, <2>1
  <2>3. IsFiniteSet(1 .. k)
    BY <1>1, FS_Interval
  <2>. QED
    BY <2>2, <2>3, TotalCong
<1>7. f[k + 1] = Work(t)
  <2>1. k + 1 \in 1 .. k + 1
    BY <1>1
  <2>. QED
    BY <1>1, <1>3, <2>1
<1>. QED
  BY <1>2, <1>4, <1>5, <1>6, <1>7 DEF u

LEMMA BlocksType ==
  ASSUME NEW extent \in Nat, NEW tile \in {64, 128}
  PROVE  TileBlocks(extent, tile) \in Nat
<1>. DEFINE q == (extent + tile - 1) % Word
<1>1. Word \in Nat /\ Word > 0 /\ tile \in Nat /\ tile > 0
  BY CpuAssumption
<1>2. extent # 0 => q \in Nat
  BY <1>1
<1>3. TileBlocks(extent, tile) = IF extent = 0 THEN 0 ELSE q \div tile
  BY DEF TileBlocks
<1>. HIDE DEF q
<1>4. CASE tile = 64
  BY <1>2, <1>3, <1>4
<1>5. CASE tile = 128
  BY <1>2, <1>3, <1>5
<1>. QED
  BY <1>4, <1>5

LEMMA TilesOfType ==
  ASSUME RoutingOK, NEW d \in 1 .. Experts
  PROVE  TilesOf(d - 1) \in Seq(CpuTile)
<1>. DEFINE w == TileBlocks(n, TileN)
            e == d - 1
            b == TileBlocks(counts[e], LargeM)
<1>1. w \in Nat /\ n \in Nat
  BY BlocksType, SizeFacts DEF RoutingOK
<1>2. e \in ExpertIds /\ e \in Int /\ counts[e] \in Nat
  BY SizeFacts DEF ExpertIds, RoutingOK
<1>3. b \in Nat
  BY <1>2, BlocksType, SizeFacts
<1>. DEFINE k == b * w
<1>4. k \in Nat
  BY <1>1, <1>3
<1>5. TilesOf(e) = [i \in 1 .. k |->
        [expert |-> e, m |-> (i - 1) \div w, n |-> (i - 1) % w,
         validM |-> Smaller(LargeM, counts[e] - ((i - 1) \div w) * LargeM),
         validN |-> Smaller(TileN, n - ((i - 1) % w) * TileN)]]
  BY DEF TilesOf
<1>6. k > 0 => w > 0
  <2>1. w = 0 => b * w = 0
    BY <1>3
  <2>. HIDE DEF b, w
  <2>. QED
    BY <1>1, <1>4, <2>1
<1>. HIDE DEF k, b, w, e
<1>7. ASSUME NEW i \in 1 .. k
      PROVE  [expert |-> e, m |-> (i - 1) \div w, n |-> (i - 1) % w,
              validM |-> Smaller(LargeM, counts[e] - ((i - 1) \div w) * LargeM),
              validN |-> Smaller(TileN, n - ((i - 1) % w) * TileN)] \in CpuTile
  <2>. DEFINE m == (i - 1) \div w
              j == (i - 1) % w
  <2>1. i - 1 \in Int /\ w \in Nat /\ w > 0
    BY <1>1, <1>4, <1>6
  <2>2. m \in Int /\ j \in Int
    BY <2>1
  <2>. HIDE DEF m, j
  <2>3. Smaller(LargeM, counts[e] - m * LargeM) \in Int /\ Smaller(TileN, n - j * TileN) \in Int
    BY <1>1, <1>2, <2>2, SizeFacts DEF Smaller
  <2>. QED
    BY <1>2, <2>2, <2>3 DEF m, j, CpuTile
<1>8. TilesOf(e) \in [1 .. k -> CpuTile]
  BY <1>5, <1>7
<1>. QED
  BY <1>4, <1>8 DEF e

LEMMA ExpertTilesType ==
  ASSUME RoutingOK
  PROVE  BuildExpertTiles \in Seq(CpuTile)
<1>. DEFINE s == [e \in 1 .. Experts |-> TilesOf(e - 1)]
<1>1. s \in [1 .. Experts -> Seq(CpuTile)]
  BY TilesOfType
<1>. HIDE DEF s
<1>. QED
  BY <1>1, SizeFacts, FlattenType DEF BuildExpertTiles, s

\* One CTA is ahead of another by at most one of the tiles dealt.
AheadByOne(c, d) ==
  \/ availableAt[d] =< availableAt[c]
  \/ \E i \in 1 .. dealt : availableAt[d] =< availableAt[c] + Work(tiles[i])

Greedy ==
  /\ tiles \in Seq(CpuTile) /\ dealt \in Nat /\ dealt =< Len(tiles)
  /\ ctaTiles \in [Ctas -> Seq(CpuTile)] /\ availableAt \in [Ctas -> Nat]
  /\ \A c \in Ctas : availableAt[c] = WorkOf(ctaTiles[c])
  /\ \A c, d \in Ctas : AheadByOne(c, d)

GreedyInv ==
  /\ scheduler = "none" => /\ dealt = 0
                           /\ ctaTiles = [c \in Ctas |-> <<>>] /\ availableAt = [c \in Ctas |-> 0]
  /\ scheduler = "dynamic_queue" => Greedy

\* Some number of a family of naturals is the smallest.
LEMMA FirstFacts ==
  ASSUME availableAt \in [Ctas -> Nat]
  PROVE  /\ FirstAvailable \in Ctas
         /\ \A d \in Ctas : availableAt[FirstAvailable] =< availableAt[d]
<1>. DEFINE V == {availableAt[c] : c \in Ctas}
            F == {c \in Ctas : \A d \in Ctas : availableAt[c] =< availableAt[d]}
<1>1. 0 \in Ctas /\ Ctas \subseteq Nat
  BY SizeFacts DEF Ctas
<1>2. PICK v \in V : \A y \in V : v =< y
  <2>1. V \subseteq Nat /\ V # {}
    BY <1>1
  <2>. HIDE DEF V
  <2>. QED
    BY <2>1, Least
<1>3. F # {}
  <2>1. PICK c \in Ctas : v = availableAt[c]
    OBVIOUS
  <2>. QED
    BY <1>2, <2>1
<1>4. F \subseteq Nat
  BY <1>1
<1>5. FirstAvailable = Min(F)
  BY DEF FirstAvailable
<1>6. Min(F) \in F
  <2>. HIDE DEF F
  <2>1. \E x \in F : \A y \in F : x =< y
    BY <1>3, <1>4, Least
  <2>. QED
    BY <2>1 DEF Min
<1>. QED
  BY <1>5, <1>6

LEMMA DealGreedy ==
  ASSUME GreedyInv, Deal, scheduler = "dynamic_queue"
  PROVE  Greedy'
<1>. DEFINE x == FirstAvailable
            t == tiles[dealt + 1]
            w == Work(t)
<1>1. /\ tiles \in Seq(CpuTile) /\ dealt \in Nat /\ dealt < Len(tiles)
      /\ ctaTiles \in [Ctas -> Seq(CpuTile)] /\ availableAt \in [Ctas -> Nat]
      /\ \A c \in Ctas : availableAt[c] = WorkOf(ctaTiles[c])
      /\ \A c, d \in Ctas : AheadByOne(c, d)
  BY DEF GreedyInv, Greedy, Deal
<1>2. x \in Ctas /\ \A d \in Ctas : availableAt[x] =< availableAt[d]
  BY <1>1, FirstFacts
<1>3. /\ dealt' = dealt + 1 /\ tiles' = tiles
      /\ ctaTiles' = [ctaTiles EXCEPT ![x] = Append(@, t)]
      /\ availableAt' = [availableAt EXCEPT ![x] = @ + w]
  BY DEF Deal, NextCta
<1>4. t \in CpuTile
  <2>1. dealt + 1 \in 1 .. Len(tiles)
    BY <1>1
  <2>. QED
    BY <1>1, <2>1
<1>5. w \in Nat /\ w > 0
  BY <1>4, WorkType
<1>. HIDE DEF x, t
<1>6. ASSUME NEW c \in Ctas
      PROVE  /\ c # x => availableAt'[c] = availableAt[c] /\ ctaTiles'[c] = ctaTiles[c]
             /\ c = x => availableAt'[c] = availableAt[c] + w
                         /\ ctaTiles'[c] = Append(ctaTiles[c], t)
             /\ availableAt[c] \in Nat /\ availableAt'[c] \in Nat
             /\ ctaTiles[c] \in Seq(CpuTile) /\ ctaTiles'[c] \in Seq(CpuTile)
  <2>1. availableAt[c] \in Nat /\ ctaTiles[c] \in Seq(CpuTile)
    BY <1>1
  <2>2. Append(ctaTiles[c], t) \in Seq(CpuTile)
    BY <1>4, <2>1
  <2>3. c # x => availableAt'[c] = availableAt[c] /\ ctaTiles'[c] = ctaTiles[c]
    BY <1>1, <1>3
  <2>4. c = x => /\ availableAt'[c] = availableAt[c] + w
                 /\ ctaTiles'[c] = Append(ctaTiles[c], t)
    BY <1>1, <1>3
  <2>. HIDE DEF w
  <2>5. CASE c = x
    <3>1. availableAt[c] + w \in Nat
      BY <1>5, <2>1
    <3>2. availableAt'[c] \in Nat
      BY <2>4, <2>5, <3>1
    <3>3. ctaTiles'[c] \in Seq(CpuTile)
      BY <2>2, <2>4, <2>5
    <3>. QED
      BY <2>1, <2>4, <2>5, <3>2, <3>3
  <2>6. CASE c # x
    BY <2>1, <2>3, <2>6
  <2>. QED
    BY <2>5, <2>6
<1>7. availableAt' \in [Ctas -> Nat] /\ ctaTiles' \in [Ctas -> Seq(CpuTile)]
  <2>1. /\ availableAt' = [c \in Ctas |-> availableAt'[c]]
        /\ ctaTiles' = [c \in Ctas |-> ctaTiles'[c]]
    BY <1>1, <1>3
  <2>. QED
    BY <1>6, <2>1
<1>8. ASSUME NEW c \in Ctas
      PROVE  availableAt'[c] = WorkOf(ctaTiles'[c])
  <2>1. c = x => WorkOf(ctaTiles'[c]) = WorkOf(ctaTiles[c]) + w
    BY <1>4, <1>6, WorkOfAppend
  <2>2. availableAt[c] = WorkOf(ctaTiles[c])
    BY <1>1
  <2>. HIDE DEF w
  <2>. QED
    BY <1>6, <2>1, <2>2
<1>9. ASSUME NEW c \in Ctas, NEW d \in Ctas
      PROVE  AheadByOne(c, d)'
  <2>1. \A i \in 1 .. dealt : Work(tiles[i]) \in Nat /\ i \in 1 .. dealt + 1
    <3>. TAKE i \in 1 .. dealt
    <3>1. i \in 1 .. Len(tiles) /\ i \in 1 .. dealt + 1
      BY <1>1
    <3>2. tiles[i] \in CpuTile
      BY <1>1, <3>1
    <3>. QED
      BY <3>1, <3>2, WorkType
  <2>2. AheadByOne(c, d)' <=>
          \/ availableAt'[d] =< availableAt'[c]
          \/ \E i \in 1 .. dealt + 1 : availableAt'[d] =< availableAt'[c] + Work(tiles[i])
    BY <1>3 DEF AheadByOne, Work
  <2>3. \/ availableAt[d] =< availableAt[c]
        \/ \E i \in 1 .. dealt : availableAt[d] =< availableAt[c] + Work(tiles[i])
    BY <1>1 DEF AheadByOne
  <2>4. dealt + 1 \in 1 .. dealt + 1 /\ Work(tiles[dealt + 1]) = w
    BY <1>1 DEF t
  <2>. HIDE DEF w
  <2>5. CASE d = x /\ c = x
    BY <1>6, <2>2, <2>5
  <2>6. CASE d = x /\ c # x
    <3>1. availableAt'[d] = availableAt[x] + w /\ availableAt'[c] = availableAt[c]
          /\ availableAt[x] =< availableAt[c] /\ availableAt[x] \in Nat /\ availableAt[c] \in Nat
      BY <1>2, <1>6, <2>6
    <3>2. availableAt'[d] =< availableAt'[c] + Work(tiles[dealt + 1])
      BY <1>5, <2>4, <3>1
    <3>. QED
      BY <2>2, <2>4, <3>2
  <2>7. CASE d # x
    <3>1. /\ availableAt'[d] = availableAt[d] /\ availableAt[c] =< availableAt'[c]
          /\ availableAt[d] \in Nat /\ availableAt[c] \in Nat /\ availableAt'[c] \in Nat
      BY <1>5, <1>6, <2>7
    <3>2. CASE availableAt[d] =< availableAt[c]
      BY <2>2, <3>1, <3>2
    <3>3. CASE \E i \in 1 .. dealt : availableAt[d] =< availableAt[c] + Work(tiles[i])
      <4>1. PICK i \in 1 .. dealt : availableAt[d] =< availableAt[c] + Work(tiles[i])
        BY <3>3
      <4>2. Work(tiles[i]) \in Nat /\ i \in 1 .. dealt + 1
        BY <2>1
      <4>3. availableAt'[d] =< availableAt'[c] + Work(tiles[i])
        BY <3>1, <4>1, <4>2
      <4>. QED
        BY <2>2, <4>2, <4>3
    <3>. QED
      BY <2>3, <3>2, <3>3
  <2>. QED
    BY <2>5, <2>6, <2>7
<1>10. (\A c, d \in Ctas : AheadByOne(c, d))'
  <2>1. Ctas' = Ctas
    BY DEF Ctas
  <2>. QED
    BY <1>9, <2>1
<1>11. (\A c \in Ctas : availableAt[c] = WorkOf(ctaTiles[c]))'
  BY <1>8 DEF Ctas
<1>. QED
  BY <1>1, <1>3, <1>7, <1>10, <1>11 DEF Greedy

LEMMA GreedyNext ==
  ASSUME PlannerInv, GreedyInv, [Next]_hostVars
  PROVE  GreedyInv'
<1>1. ASSUME UNCHANGED cpuVars PROVE GreedyInv'
  <2>1. /\ scheduler' = scheduler /\ tiles' = tiles /\ dealt' = dealt
        /\ ctaTiles' = ctaTiles /\ availableAt' = availableAt
    BY <1>1 DEF cpuVars
  <2>2. ASSUME Greedy PROVE Greedy'
    <3>1. (\A c, d \in Ctas : AheadByOne(c, d))'
      BY <2>1, <2>2 DEF Greedy, AheadByOne
    <3>. QED
      BY <2>1, <2>2, <3>1 DEF Greedy
  <2>. QED
    BY <2>1, <2>2 DEF GreedyInv
<1>2. ASSUME NEW kind \in Kinds, SimulateScheduler(kind)
      PROVE  GreedyInv'
  <2>1. /\ scheduler = "none" /\ scheduler' = kind /\ kind # "none"
        /\ dealt' = dealt /\ ctaTiles' = ctaTiles /\ availableAt' = availableAt
        /\ kind = "dynamic_queue" => tiles' = BuildExpertTiles
    BY <1>2 DEF SimulateScheduler, Kinds
  <2>2. /\ dealt = 0 /\ ctaTiles = [c \in Ctas |-> <<>>] /\ availableAt = [c \in Ctas |-> 0]
    BY <2>1 DEF GreedyInv
  <2>3. ASSUME kind = "dynamic_queue" PROVE Greedy'
    <3>1. tiles' \in Seq(CpuTile)
      BY <2>1, <2>3, ExpertTilesType DEF PlannerInv
    <3>2. Len(tiles') \in Nat
      BY <3>1
    <3>3. ctaTiles' \in [Ctas -> Seq(CpuTile)] /\ availableAt' \in [Ctas -> Nat]
      BY <2>1, <2>2
    <3>4. (\A c \in Ctas : availableAt[c] = WorkOf(ctaTiles[c]))'
      BY <2>1, <2>2, WorkOfNone DEF Ctas
    <3>5. (\A c, d \in Ctas : AheadByOne(c, d))'
      BY <2>1, <2>2 DEF Ctas, AheadByOne
    <3>. QED
      BY <2>1, <2>2, <3>1, <3>2, <3>3, <3>4, <3>5 DEF Greedy
  <2>. QED
    BY <2>1, <2>3 DEF GreedyInv
<1>3. CASE Deal
  <2>1. scheduler' = scheduler /\ scheduler # "none"
    BY <1>3 DEF Deal
  <2>. QED
    BY <1>3, <2>1, DealGreedy DEF GreedyInv
<1>4. CASE Schedule
  BY <1>2, <1>3, <1>4 DEF Schedule, CpuStep
<1>5. CASE PlanBuckets \/ PlanBaseline \/ Run \/ Finished \/ UNCHANGED hostVars
  BY <1>1, <1>5 DEF PlanBuckets, PlanBaseline, Run, Finished, hostVars
<1>. QED
  BY <1>4, <1>5 DEF Next

\* What the distances of one number to the others say of the sum.
LEMMA MeanBound ==
  ASSUME NEW S, IsFiniteSet(S), NEW f \in [S -> Nat], NEW x \in S, NEW big \in Nat,
         \A c \in S : f[x] =< f[c] + big
  PROVE  Cardinality(S) * f[x] =< Total(f, S) + (Cardinality(S) - 1) * big
<1>. DEFINE G == {R \in SUBSET S :
                    Cardinality(R) * f[x] =< Total(f, R) + Cardinality(R) * big}
<1>1. {} \in G
  <2>1. Cardinality({}) = 0 /\ Total(f, {}) = 0 /\ f[x] \in Nat
    BY FS_EmptySet, TotalEmpty
  <2>. QED
    BY <2>1
<1>2. ASSUME NEW R \in SUBSET S, NEW c \in R, R \ {c} \in G
      PROVE  R \in G
  <2>. DEFINE k == Cardinality(R \ {c})
              a == Total(f, R \ {c})
              v == f[x]
  <2>1. IsFiniteSet(R) /\ IsFiniteSet(R \ {c})
    BY FS_Subset, FS_RemoveElement
  <2>2. Cardinality(R) = k + 1 /\ k \in Nat
    BY <2>1, FS_CardinalityType, FS_RemoveElement
  <2>3. \A y \in R : f[y] \in Int
    OBVIOUS
  <2>4. Total(f, R) = f[c] + a
    BY <2>1, <2>3, TotalFacts
  <2>5. a \in Int
    BY <2>1, <2>3, TotalFacts
  <2>6. k * v =< a + k * big
    BY <1>2
  <2>7. v \in Nat /\ f[c] \in Nat /\ v =< f[c] + big
    OBVIOUS
  <2>. HIDE DEF k, a, v
  <2>8. (k + 1) * v = k * v + v /\ (k + 1) * big = k * big + big
    BY <2>2, <2>7
  <2>9. k * v \in Int /\ k * big \in Int
    BY <2>2, <2>7
  <2>10. (k + 1) * v =< (f[c] + a) + (k + 1) * big
    BY <2>5, <2>6, <2>7, <2>8, <2>9
  <2>. QED
    BY <2>2, <2>4, <2>10 DEF v
<1>3. S \ {x} \in G
  <2>1. \A R \in SUBSET (S \ {x}) : R \in SUBSET S
    OBVIOUS
  <2>2. IsFiniteSet(S \ {x})
    BY FS_RemoveElement
  <2>3. \A R \in SUBSET (S \ {x}) : \A c \in R : R \ {c} \in G => R \in G
    BY <1>2, <2>1
  <2>. HIDE DEF G
  <2>. QED
    BY <1>1, <2>2, <2>3, AllSubsets
<1>. DEFINE k == Cardinality(S \ {x})
            a == Total(f, S \ {x})
            v == f[x]
<1>4. Cardinality(S) = k + 1 /\ k \in Nat
  <2>1. IsFiniteSet(S \ {x}) /\ k = Cardinality(S) - 1 /\ Cardinality(S) \in Nat
    BY FS_CardinalityType, FS_RemoveElement
  <2>2. k \in Nat
    BY <2>1, FS_CardinalityType
  <2>. QED
    BY <2>1, <2>2
<1>5. \A y \in S : f[y] \in Int
  OBVIOUS
<1>6. Total(f, S) = v + a
  BY <1>5, TotalFacts
<1>7. a \in Int
  <2>1. IsFiniteSet(S \ {x}) /\ \A y \in S \ {x} : f[y] \in Int
    BY <1>5, FS_RemoveElement
  <2>. QED
    BY <2>1, TotalFacts
<1>8. k * v =< a + k * big
  BY <1>3
<1>9. v \in Nat
  OBVIOUS
<1>. HIDE DEF k, a, v
<1>10. (k + 1) * v = k * v + v /\ (k + 1) - 1 = k /\ k * v \in Int /\ k * big \in Int
  BY <1>4, <1>9
<1>11. (k + 1) * v =< (v + a) + k * big
  BY <1>7, <1>8, <1>9, <1>10
<1>. QED
  BY <1>4, <1>6, <1>10, <1>11 DEF v

LEMMA GreedyIsBound ==
  ASSUME GreedyInv
  PROVE  GreedyBound
<1>. SUFFICES ASSUME scheduler = "dynamic_queue", dealt > 0
              PROVE  LET biggest == Max({Work(tiles[i]) : i \in 1 .. dealt})
                         last == Max({availableAt[c] : c \in Ctas})
                     IN /\ \A c \in Ctas : last =< availableAt[c] + biggest
                        /\ CtaCount * last =< SumFunction(availableAt) + (CtaCount - 1) * biggest
                        /\ \A c \in Ctas :
                             availableAt[c] = FoldSeq(LAMBDA t, sum : Work(t) + sum, 0, ctaTiles[c])
  BY DEF GreedyBound
<1>. DEFINE W == {Work(tiles[i]) : i \in 1 .. dealt}
            V == {availableAt[c] : c \in Ctas}
            biggest == Max(W)
            last == Max(V)
<1>1. /\ tiles \in Seq(CpuTile) /\ dealt \in Nat /\ dealt =< Len(tiles)
      /\ availableAt \in [Ctas -> Nat]
      /\ \A c \in Ctas : availableAt[c] = WorkOf(ctaTiles[c])
      /\ \A c, d \in Ctas : AheadByOne(c, d)
  BY DEF GreedyInv, Greedy
<1>2. /\ IsFiniteSet(Ctas) /\ Cardinality(Ctas) = CtaCount /\ 0 \in Ctas
  BY SizeFacts, FS_Interval DEF Ctas
<1>3. \A i \in 1 .. dealt : Work(tiles[i]) \in Nat
  <2>. TAKE i \in 1 .. dealt
  <2>1. i \in 1 .. Len(tiles)
    BY <1>1
  <2>2. tiles[i] \in CpuTile
    BY <1>1, <2>1
  <2>. QED
    BY <2>2, WorkType
<1>4. biggest \in Nat /\ \A i \in 1 .. dealt : Work(tiles[i]) =< biggest
  <2>1. W \subseteq Nat /\ W # {}
    BY <1>1, <1>3
  <2>2. IsFiniteSet(W)
    <3>. DEFINE g == [i \in 1 .. dealt |-> Work(tiles[i])]
    <3>1. g \in Surjection(1 .. dealt, W) /\ IsFiniteSet(1 .. dealt)
      BY <1>1, FS_Interval DEF Surjection
    <3>. QED
      BY <3>1, FS_Surjection
  <2>3. \A i \in 1 .. dealt : Work(tiles[i]) \in W
    OBVIOUS
  <2>4. W \subseteq Int
    BY <2>1
  <2>. HIDE DEF W
  <2>5. Max(W) \in W /\ \A y \in W : y =< Max(W)
    BY <2>1, <2>2, <2>4, MaxIs
  <2>. QED
    BY <2>1, <2>3, <2>5
<1>5. PICK x \in Ctas : last = availableAt[x]
  <2>1. V \subseteq Int /\ V # {}
    BY <1>1, <1>2
  <2>2. IsFiniteSet(V)
    <3>1. availableAt \in Surjection(Ctas, V)
      BY <1>1 DEF Surjection
    <3>. QED
      BY <1>2, <3>1, FS_Surjection
  <2>3. last \in V
    <3>. HIDE DEF V
    <3>. QED
      BY <2>1, <2>2, MaxIs
  <2>. QED
    BY <2>3
<1>. HIDE DEF W, V, biggest, last
<1>6. ASSUME NEW c \in Ctas
      PROVE  availableAt[x] =< availableAt[c] + biggest
  <2>1. availableAt[x] \in Nat /\ availableAt[c] \in Nat
    BY <1>1
  <2>2. CASE availableAt[x] =< availableAt[c]
    BY <1>4, <2>1, <2>2
  <2>3. CASE \E i \in 1 .. dealt : availableAt[x] =< availableAt[c] + Work(tiles[i])
    <3>1. PICK i \in 1 .. dealt : availableAt[x] =< availableAt[c] + Work(tiles[i])
      BY <2>3
    <3>2. Work(tiles[i]) \in Nat /\ Work(tiles[i]) =< biggest
      BY <1>3, <1>4
    <3>. QED
      BY <1>4, <2>1, <3>1, <3>2
  <2>. QED
    BY <1>1, <2>2, <2>3 DEF AheadByOne
<1>7. Cardinality(Ctas) * availableAt[x]
        =< Total(availableAt, Ctas) + (Cardinality(Ctas) - 1) * biggest
  BY <1>1, <1>2, <1>4, <1>6, MeanBound
<1>8. SumFunction(availableAt) = Total(availableAt, Ctas)
  <2>1. DOMAIN availableAt = Ctas
    BY <1>1
  <2>. QED
    BY <2>1, SumFunctionIs
<1>9. CtaCount * last =< SumFunction(availableAt) + (CtaCount - 1) * biggest
  BY <1>2, <1>5, <1>7, <1>8
<1>. QED
  BY <1>1, <1>5, <1>6, <1>9 DEF WorkOf, biggest, last, W, V

\* The ideal dynamic queue of the C++ reference is list scheduling: for every routing and
\* any number of CTAs, none is ahead of another by more than the largest tile dealt, the
\* last one ends within Graham's bound of the mean, and what is accounted to a CTA is the
\* work of the tiles it was dealt.
THEOREM DynamicQueueBound == Spec => []GreedyBound
<1>1. Init => GreedyInv
  BY DEF Init, CpuInit, GreedyInv
<1>2. PlannerInv /\ GreedyInv /\ [Next]_hostVars => GreedyInv'
  BY GreedyNext
<1>3. GreedyInv => GreedyBound
  BY GreedyIsBound
<1>. QED
  BY PlannerInvariant, <1>1, <1>2, <1>3, PTL DEF Spec

------------------------------------------------------------------------------
(* The two work lists                                                      *)

Mapped(p) == [i \in DOMAIN p |-> AsExpertTile(p[i])]

LEMMA AsExpertTileType ==
  ASSUME NEW t \in PlanTile
  PROVE  AsExpertTile(t) \in CpuTile
<1>1. t.expert \in Int /\ t.m \div 128 \in Int /\ t.n \div 128 \in Int /\ t.validM \in Int
  BY DEF PlanTile
<1>. QED
  BY <1>1, SizeFacts DEF AsExpertTile, CpuTile

LEMMA MappedType ==
  ASSUME NEW p \in Seq(PlanTile)
  PROVE  /\ Mapped(p) \in Seq(CpuTile) /\ Len(Mapped(p)) = Len(p)
         /\ \A i \in 1 .. Len(p) : Mapped(p)[i] = AsExpertTile(p[i])
<1>1. DOMAIN p = 1 .. Len(p) /\ Len(p) \in Nat
  OBVIOUS
<1>2. \A i \in 1 .. Len(p) : AsExpertTile(p[i]) \in CpuTile
  <2>. TAKE i \in 1 .. Len(p)
  <2>1. p[i] \in PlanTile
    OBVIOUS
  <2>. QED
    BY <2>1, AsExpertTileType
<1>3. Mapped(p) = [i \in 1 .. Len(p) |-> AsExpertTile(p[i])]
  BY <1>1 DEF Mapped
<1>4. Mapped(p) \in [1 .. Len(p) -> CpuTile]
  BY <1>2, <1>3
<1>. QED
  BY <1>1, <1>3, <1>4

LEMMA MappedConcat ==
  ASSUME NEW p \in Seq(PlanTile), NEW q \in Seq(PlanTile)
  PROVE  Mapped(p \o q) = Mapped(p) \o Mapped(q)
<1>. DEFINE a == Len(p)
            b == Len(q)
            u == p \o q
            x == Mapped(u)
            y == Mapped(p) \o Mapped(q)
<1>1. /\ a \in Nat /\ b \in Nat /\ u \in Seq(PlanTile) /\ Len(u) = a + b
      /\ \A i \in 1 .. a + b : u[i] = IF i =< a THEN p[i] ELSE q[i - a]
  BY ConcatProperties
<1>2. /\ x \in Seq(CpuTile) /\ Len(x) = a + b
      /\ \A i \in 1 .. a + b : x[i] = AsExpertTile(u[i])
  BY <1>1, MappedType
<1>3. /\ Mapped(p) \in Seq(CpuTile) /\ Len(Mapped(p)) = a
      /\ Mapped(q) \in Seq(CpuTile) /\ Len(Mapped(q)) = b
      /\ \A i \in 1 .. a : Mapped(p)[i] = AsExpertTile(p[i])
      /\ \A i \in 1 .. b : Mapped(q)[i] = AsExpertTile(q[i])
  BY MappedType
<1>4. /\ y \in Seq(CpuTile) /\ Len(y) = a + b
      /\ \A i \in 1 .. a + b : y[i] = IF i =< a THEN Mapped(p)[i] ELSE Mapped(q)[i - a]
  <2>. DEFINE P == Mapped(p)
              Q == Mapped(q)
  <2>1. P \in Seq(CpuTile) /\ Len(P) = a /\ Q \in Seq(CpuTile) /\ Len(Q) = b /\ y = P \o Q
    BY <1>3
  <2>. HIDE DEF P, Q, y, a, b
  <2>2. /\ P \o Q \in Seq(CpuTile) /\ Len(P \o Q) = Len(P) + Len(Q)
        /\ \A i \in 1 .. Len(P) + Len(Q) : (P \o Q)[i] = IF i =< Len(P) THEN P[i] ELSE Q[i - Len(P)]
    BY <2>1, ConcatProperties
  <2>. QED
    BY <2>1, <2>2 DEF P, Q
<1>. HIDE DEF a, b, u, x, y
<1>5. ASSUME NEW i \in 1 .. a + b
      PROVE  x[i] = y[i]
  <2>1. CASE i =< a
    <3>1. i \in 1 .. a
      BY <1>1, <2>1
    <3>2. x[i] = AsExpertTile(u[i]) /\ u[i] = p[i]
      BY <1>1, <1>2, <2>1
    <3>3. y[i] = Mapped(p)[i] /\ Mapped(p)[i] = AsExpertTile(p[i])
      BY <1>3, <1>4, <2>1, <3>1
    <3>. QED
      BY <3>2, <3>3
  <2>2. CASE ~(i =< a)
    <3>1. i - a \in 1 .. b
      BY <1>1, <2>2
    <3>2. x[i] = AsExpertTile(u[i]) /\ u[i] = q[i - a]
      BY <1>1, <1>2, <2>2
    <3>3. y[i] = Mapped(q)[i - a] /\ Mapped(q)[i - a] = AsExpertTile(q[i - a])
      BY <1>3, <1>4, <2>2, <3>1
    <3>. QED
      BY <3>2, <3>3
  <2>. QED
    BY <2>1, <2>2
<1>6. x = y
  BY <1>2, <1>4, <1>5, SeqEqual
<1>. QED
  BY <1>6 DEF x, y, u

\* A routing of the study: its numbers fit the machine words of the C++ program.
StudyRouting == counts \in [ExpertIds -> TokenCounts] /\ n \in Widths

LEMMA BlocksAre ==
  ASSUME NEW extent \in Nat, extent + 128 =< Word
  PROVE  TileBlocks(extent, 128) = CeilDiv(extent, 128)
<1>1. Word \in Nat
  BY CpuAssumption
<1>2. CASE extent = 0
  BY <1>2 DEF TileBlocks, CeilDiv
<1>3. CASE extent # 0
  <2>1. (extent + 128 - 1) % Word = extent + 128 - 1
    BY <1>1
  <2>. QED
    BY <1>3, <2>1 DEF TileBlocks, CeilDiv
<1>. QED
  BY <1>2, <1>3

\* One expert's tiles, one by one.
LEMMA SameTiles ==
  ASSUME WholeColumns, StudyRouting, NEW e \in ExpertIds
  PROVE  TilesOf(e) = Mapped(RowBlocks(e, CeilDiv(counts[e], 128), 128))
<1>. DEFINE b == CeilDiv(counts[e], 128)
            w == Cols
            p == RowBlocks(e, b, 128)
<1>1. counts[e] \in Nat /\ counts[e] + 128 =< Word /\ n \in Nat /\ n + 128 =< Word
  BY CpuAssumption, RoutingAssumption, SizeFacts DEF StudyRouting
<1>2. w \in Nat /\ w > 0 /\ n = 128 * w
  BY ColsFacts
<1>3. TileBlocks(counts[e], LargeM) = b /\ b \in Nat
  BY <1>1, BlocksAre, CeilType, SizeFacts
<1>4. TileBlocks(n, TileN) = w
  <2>1. TileBlocks(n, TileN) = CeilDiv(n, 128)
    BY <1>1, BlocksAre, SizeFacts
  <2>. HIDE DEF w
  <2>. QED
    BY <1>2, <2>1 DEF CeilDiv
<1>. DEFINE k == b * w
<1>5. k \in Nat
  BY <1>2, <1>3
<1>6. TilesOf(e) = [i \in 1 .. k |->
        [expert |-> e, m |-> (i - 1) \div w, n |-> (i - 1) % w,
         validM |-> Smaller(LargeM, counts[e] - ((i - 1) \div w) * LargeM),
         validN |-> Smaller(TileN, n - ((i - 1) % w) * TileN)]]
  BY <1>3, <1>4 DEF TilesOf
<1>7. p \in Seq(PlanTile) /\ Len(p) = k /\ \A i \in 1 .. k : p[i] = TileAt(e, 128, i)
  <2>1. 128 \in Nat
    OBVIOUS
  <2>. HIDE DEF b
  <2>. QED
    BY <1>3, <2>1, RowBlocksAre
<1>8. /\ Mapped(p) \in Seq(CpuTile) /\ Len(Mapped(p)) = k
      /\ \A i \in 1 .. k : Mapped(p)[i] = AsExpertTile(p[i])
  BY <1>7, MappedType
<1>. HIDE DEF b, k, p
<1>9. ASSUME NEW i \in 1 .. k
      PROVE  TilesOf(e)[i] = Mapped(p)[i]
  <2>. DEFINE m == (i - 1) \div w
              j == (i - 1) % w
  <2>1. i - 1 \in Nat
    BY <1>5
  <2>2. m \in Nat /\ j \in 0 .. w - 1
    BY <1>2, <2>1, DivFacts
  <2>3. TilesOf(e)[i] = [expert |-> e, m |-> m, n |-> j,
                         validM |-> Smaller(LargeM, counts[e] - m * LargeM),
                         validN |-> Smaller(TileN, n - j * TileN)]
    BY <1>6
  <2>4. p[i] = [expert |-> e, m |-> m * 128, n |-> j * TileN,
                validM |-> Smaller(128, counts[e] - m * 128)]
    BY <1>7 DEF TileAt
  <2>. HIDE DEF m, j, w
  <2>5. (m * 128) \div 128 = m /\ (j * 128) \div 128 = j
    BY <2>2
  <2>6. Smaller(128, n - j * 128) = 128
    <3>1. n - j * 128 >= 128 /\ n - j * 128 \in Int
      BY <1>2, <2>2
    <3>. QED
      BY <3>1 DEF Smaller
  <2>7. AsExpertTile(p[i]) = [expert |-> e, m |-> m, n |-> j,
                              validM |-> Smaller(128, counts[e] - m * 128), validN |-> 128]
    BY <2>4, <2>5, SizeFacts DEF AsExpertTile
  <2>. QED
    BY <1>8, <2>3, <2>6, <2>7, SizeFacts
<1>10. TilesOf(e) = Mapped(p)
  <2>1. DOMAIN TilesOf(e) = 1 .. k /\ TilesOf(e) = [i \in 1 .. k |-> TilesOf(e)[i]]
    BY <1>6
  <2>2. Mapped(p) = [i \in 1 .. k |-> Mapped(p)[i]]
    BY <1>8
  <2>. QED
    BY <1>9, <2>1, <2>2
<1>. QED
  BY <1>10 DEF p, b

\* build_expert_tiles' list as far as the first k experts go.
CppPrefix(k) == FlattenSeq([e \in 1 .. k |-> TilesOf(e - 1)])

LEMMA CppPrefixStep ==
  ASSUME RoutingOK, NEW k \in Nat, k < Experts
  PROVE  CppPrefix(k + 1) = CppPrefix(k) \o TilesOf(k)
<1>. DEFINE s == [e \in 1 .. k + 1 |-> TilesOf(e - 1)]
            r == [e \in 1 .. k |-> TilesOf(e - 1)]
<1>1. s \in [1 .. k + 1 -> Seq(CpuTile)]
  <2>. SUFFICES ASSUME NEW e \in 1 .. k + 1 PROVE TilesOf(e - 1) \in Seq(CpuTile)
    OBVIOUS
  <2>1. e \in 1 .. Experts
    BY SizeFacts
  <2>. QED
    BY <2>1, TilesOfType
<1>2. r = [e \in 1 .. k |-> s[e]] /\ s[k + 1] = TilesOf(k)
  OBVIOUS
<1>3. CppPrefix(k + 1) = FlattenSeq(s) /\ CppPrefix(k) = FlattenSeq(r)
  BY DEF CppPrefix
<1>. HIDE DEF r, s
<1>4. AllButLast(r, s, k, CpuTile)
  BY <1>1, <1>2 DEF AllButLast
<1>. QED
  BY <1>2, <1>3, <1>4, FlattenStep, ZenonT(40)

LEMMA CppPrefixNone == CppPrefix(0) = <<>>
<1>. DEFINE s == [e \in 1 .. 0 |-> TilesOf(e - 1)]
<1>1. s = <<>>
  <2>1. s \in Seq({}) /\ Len(s) = 0
    OBVIOUS
  <2>. HIDE DEF s
  <2>. QED
    BY <2>1, EmptySeq
<1>2. CppPrefix(0) = FlattenSeq(s)
  BY DEF CppPrefix
<1>. HIDE DEF s
<1>. QED
  BY <1>1, <1>2, FlattenEmpty

LEMMA SamePrefixes ==
  ASSUME WholeColumns, StudyRouting
  PROVE  CppPrefix(Experts) = Mapped(PlanPrefix(128, Experts))
<1>. DEFINE G == {k \in Nat : k =< Experts => CppPrefix(k) = Mapped(PlanPrefix(128, k))}
<1>1. 0 \in G
  <2>1. Mapped(<<>>) = <<>>
    <3>1. <<>> \in Seq(PlanTile) /\ Len(<<>>) = 0
      OBVIOUS
    <3>2. Mapped(<<>>) \in Seq(CpuTile) /\ Len(Mapped(<<>>)) = 0
      BY <3>1, MappedType
    <3>. QED
      BY <3>2, EmptySeq
  <2>. QED
    BY <2>1, CppPrefixNone, PlanPrefixNone
<1>2. ASSUME NEW k \in G PROVE k + 1 \in G
  <2>1. k \in Nat
    OBVIOUS
  <2>2. ASSUME k + 1 =< Experts
        PROVE  CppPrefix(k + 1) = Mapped(PlanPrefix(128, k + 1))
    <3>1. k < Experts /\ k =< Experts
      BY <2>1, <2>2, SizeFacts
    <3>2. CppPrefix(k) = Mapped(PlanPrefix(128, k))
      BY <3>1
    <3>. HIDE DEF G
    <3>3. CppPrefix(k + 1) = CppPrefix(k) \o TilesOf(k)
      BY <2>1, <3>1, CppPrefixStep DEF WholeColumns
    <3>. DEFINE p == PlanPrefix(128, k)
                q == RowBlocks(k, CeilDiv(counts[k], 128), 128)
    <3>4. /\ PlanPrefix(128, k + 1) = p \o q /\ p \in Seq(PlanTile)
          /\ CeilDiv(counts[k], 128) \in Nat /\ k \in ExpertIds
      BY <2>1, <3>1, PlanPrefixStep
    <3>5. q \in Seq(PlanTile)
      <4>1. 128 \in Nat
        OBVIOUS
      <4>. QED
        BY <3>4, <4>1, RowBlocksAre
    <3>6. TilesOf(k) = Mapped(q)
      BY <3>4, SameTiles
    <3>. HIDE DEF p, q
    <3>7. Mapped(p \o q) = Mapped(p) \o Mapped(q)
      BY <3>4, <3>5, MappedConcat
    <3>. QED
      BY <3>2, <3>3, <3>4, <3>6, <3>7 DEF p
  <2>. QED
    BY <2>1, <2>2
<1>3. Experts \in G
  <2>. HIDE DEF G
  <2>1. G \subseteq Nat
    BY DEF G
  <2>. QED
    BY <1>1, <1>2, <2>1, SizeFacts, AllOfNat
<1>. QED
  BY <1>3, SizeFacts

\* The schedulers run in the study only, on the routing it began with.
StudyInv ==
  /\ scheduler # "none" => options.kernel = "none"
  /\ options.kernel = "none" => StudyRouting

LEMMA StudyStart == Init => StudyInv
<1>. SUFFICES ASSUME Init PROVE StudyInv
  OBVIOUS
<1>1. scheduler = "none"
  BY DEF Init, CpuInit
<1>2. CASE RoutingInit(TokenCounts) /\ options = Study
  BY <1>1, <1>2 DEF StudyInv, StudyRouting, RoutingInit
<1>3. CASE options \in Options
  <2>1. options.kernel \in Kernels
    BY <1>3 DEF Options
  <2>2. options.kernel # "none"
    BY <2>1, RunnerAssumption DEF CliKernels, Versions, QueueVersions
  <2>. QED
    BY <1>1, <2>2 DEF StudyInv
<1>. QED
  BY <1>2, <1>3 DEF Init

LEMMA StudyNext ==
  ASSUME StudyInv, [Next]_hostVars
  PROVE  StudyInv'
<1>1. options' = options /\ counts' = counts /\ n' = n
  BY DEF Next, PlanBuckets, PlanBaseline, Schedule, Run, Finished, hostVars, routing
<1>2. scheduler' # "none" => options.kernel = "none"
  <2>1. CASE Schedule
    BY <2>1 DEF Schedule, Study
  <2>2. CASE UNCHANGED cpuVars
    BY <2>2 DEF StudyInv, cpuVars
  <2>. QED
    BY <2>1, <2>2 DEF Next, PlanBuckets, PlanBaseline, Run, Finished, hostVars
<1>. QED
  BY <1>1, <1>2 DEF StudyInv, StudyRouting

LEMMA PlannedSame ==
  ASSUME PlannerInv, StudyInv
  PROVE  SameWorkList
<1>. SUFFICES ASSUME stage = "planned", scheduler # "none"
              PROVE  LET pythonTiles == BuildWorkloadPlan(LargeM)
                     IN BuildExpertTiles = [i \in DOMAIN pythonTiles |-> AsExpertTile(pythonTiles[i])]
  BY DEF SameWorkList
<1>1. WholeColumns /\ StudyRouting
  BY DEF PlannerInv, StudyInv
<1>2. BuildWorkloadPlan(LargeM) = PlanPrefix(128, Experts)
  BY SizeFacts DEF BuildWorkloadPlan, PlanPrefix
<1>3. BuildExpertTiles = CppPrefix(Experts)
  BY DEF BuildExpertTiles, CppPrefix
<1>. QED
  BY <1>1, <1>2, <1>3, SamePrefixes DEF Mapped

\* The Python planner and the C++ reference cut every routing the planner accepts into the
\* same tiles in the same order, for any counts and width whose tile arithmetic fits the
\* C++ program's machine word.
THEOREM WorkListsAgree == Spec => []SameWorkList
<1>1. PlannerInv /\ StudyInv => SameWorkList
  BY PlannedSame
<1>. QED
  BY PlannerInvariant, StudyStart, StudyNext, <1>1, PTL DEF Spec

------------------------------------------------------------------------------
(* Launches                                                                *)

\* A plan is empty when there are no rows, and only then.
LEMMA PlanNone ==
  ASSUME WholeColumns, NEW tileM \in {64, 128}
  PROVE  /\ PlanPrefix(tileM, Experts) \in Seq(PlanTile)
         /\ PlanPrefix(tileM, Experts) = <<>> <=> Rows = 0
<1>. DEFINE G == {k \in Nat : k =< Experts =>
                    /\ PlanPrefix(tileM, k) \in Seq(PlanTile)
                    /\ Len(PlanPrefix(tileM, k)) = 0 <=> Total(counts, 0 .. k - 1) = 0}
<1>0. RoutingOK /\ Cols \in Nat /\ Cols > 0
  BY ColsFacts DEF WholeColumns
<1>1. 0 \in G
  <2>1. PlanPrefix(tileM, 0) = <<>> /\ <<>> \in Seq(PlanTile) /\ Len(<<>>) = 0
    BY PlanPrefixNone
  <2>2. 0 \in 0 .. Experts
    BY SizeFacts
  <2>3. Total(counts, 0 .. 0 - 1) = 0
    BY <1>0, <2>2, RowsOf
  <2>. QED
    BY <2>1, <2>3
<1>2. ASSUME NEW k \in G PROVE k + 1 \in G
  <2>1. k \in Nat
    OBVIOUS
  <2>2. ASSUME k + 1 =< Experts
        PROVE  /\ PlanPrefix(tileM, k + 1) \in Seq(PlanTile)
               /\ Len(PlanPrefix(tileM, k + 1)) = 0 <=> Total(counts, 0 .. (k + 1) - 1) = 0
    <3>1. k < Experts /\ k =< Experts /\ k \in 0 .. Experts
      BY <2>1, <2>2, SizeFacts
    <3>. DEFINE p == PlanPrefix(tileM, k)
                q == PlanPrefix(tileM, k + 1)
                b == CeilDiv(counts[k], tileM)
                s == Total(counts, 0 .. k - 1)
                c == counts[k]
    <3>2. p \in Seq(PlanTile) /\ (Len(p) = 0 <=> s = 0)
      BY <3>1
    <3>. HIDE DEF G
    <3>3. q \in Seq(PlanTile) /\ Len(q) = Len(p) + b * Cols /\ b \in Nat /\ k \in ExpertIds
      BY <2>1, <3>1, PlanPrefixStep
    <3>4. Total(counts, 0 .. (k + 1) - 1) = s + c /\ s \in Nat
      BY <1>0, <3>1, RowsOf
    <3>5. c \in Nat
      BY <1>0, <3>3 DEF RoutingOK
    <3>6. b = 0 <=> c = 0
      <4>1. CASE tileM = 64
        BY <3>5, <4>1 DEF CeilDiv
      <4>2. CASE tileM = 128
        BY <3>5, <4>2 DEF CeilDiv
      <4>. QED
        BY <4>1, <4>2
    <3>7. Len(p) \in Nat
      BY <3>2
    <3>. HIDE DEF p, q, b, s, c
    <3>8. b * Cols \in Nat /\ (b * Cols = 0 <=> b = 0)
      <4>1. b > 0 => b * Cols > 0
        BY <1>0, <3>3
      <4>2. b = 0 => b * Cols = 0
        BY <1>0, <3>3
      <4>3. b * Cols \in Nat
        BY <1>0, <3>3
      <4>. QED
        BY <3>3, <4>1, <4>2, <4>3
    <3>9. Len(q) = 0 <=> s + c = 0
      BY <3>2, <3>3, <3>4, <3>5, <3>6, <3>7, <3>8
    <3>. QED
      BY <3>3, <3>4, <3>9 DEF q
  <2>. QED
    BY <2>1, <2>2
<1>3. Experts \in G
  <2>. HIDE DEF G
  <2>1. G \subseteq Nat
    BY DEF G
  <2>. QED
    BY <1>1, <1>2, <2>1, SizeFacts, AllOfNat
<1>4. Rows = Total(counts, 0 .. Experts - 1)
  BY <1>0, RowsFacts DEF Rows
<1>5. /\ PlanPrefix(tileM, Experts) \in Seq(PlanTile)
      /\ Len(PlanPrefix(tileM, Experts)) = 0 <=> Rows = 0
  BY <1>3, <1>4, SizeFacts
<1>6. PlanPrefix(tileM, Experts) = <<>> <=> Len(PlanPrefix(tileM, Experts)) = 0
  BY <1>5, EmptySeq
<1>. QED
  BY <1>5, <1>6

LEMMA SelectFits ==
  ASSUME NEW k \in Nat
  PROVE  /\ SelectKernel(k) \in QueueVersions \cup {"v0_nonpersistent", "v1_static_ws"}
         /\ TileM(SelectKernel(k)) = 128
         /\ LaunchCtas(SelectKernel(k), k) =< k
<1>. DEFINE c == CtaCount
<1>0. c \in Nat /\ c > 0
  BY SizeFacts
<1>1. CASE k =< c
  <2>1. SelectKernel(k) = "v0_nonpersistent"
    BY <1>0, <1>1 DEF SelectKernel
  <2>. QED
    BY <1>0, <2>1, SizeFacts DEF LaunchCtas, TileM
<1>2. CASE ~(k =< c)
  <2>1. k > c
    BY <1>0, <1>2
  <2>2. SelectKernel(k) \in QueueVersions \cup {"v1_static_ws"}
    <3>1. CASE Even \/ k < 2 * c
      BY <1>0, <2>1, <3>1 DEF SelectKernel
    <3>2. CASE ~Even /\ ~(k < 2 * c) /\ k < 4 * c
      BY <1>0, <2>1, <3>2 DEF SelectKernel, QueueVersions
    <3>3. CASE ~Even /\ ~(k < 2 * c) /\ ~(k < 4 * c) /\ Skewed
      BY <1>0, <2>1, <3>3 DEF SelectKernel, QueueVersions
    <3>4. CASE ~Even /\ ~(k < 2 * c) /\ ~(k < 4 * c) /\ ~Skewed
      BY <1>0, <2>1, <3>4 DEF SelectKernel, QueueVersions
    <3>. QED
      BY <3>1, <3>2, <3>3, <3>4
  <2>3. LaunchCtas(SelectKernel(k), k) = c /\ TileM(SelectKernel(k)) = 128
    BY <2>2, SizeFacts DEF LaunchCtas, TileM, QueueVersions
  <2>. QED
    BY <1>0, <2>1, <2>2, <2>3
<1>. QED
  BY <1>1, <1>2

------------------------------------------------------------------------------
(* The harness                                                             *)

\* What is planned for whom, and what is run: the kernels chosen for the finished plan.
RunBase ==
  /\ options.kernel # "none" => options \in Options
  /\ options.kernel = "none" => options = Study
  /\ stage \in {"split", "planned"} => options.kernel \in {"none", "v6_padding_aware"}
  /\ stage = "baseline" => options.kernel \notin {"none", "v6_padding_aware"}
  /\ outcome \in {"none", "refused", "running", "mismatch", "reported"}
  /\ outcome # "none" => options.kernel # "none" /\ stage \in {"planned", "baseline"}
  /\ outcome \in {"none", "refused"} => components = <<>>
  /\ outcome = "refused" => Refused
  /\ outcome \in {"running", "mismatch", "reported"} => ~Refused /\ components = Chosen

LEMMA RunBaseStart == Init => RunBase
<1>. SUFFICES ASSUME Init PROVE RunBase
  OBVIOUS
<1>1. outcome = "none" /\ components = <<>> /\ stage = "validate"
  BY DEF Init, RunnerInit, PlannerInit
<1>2. CASE options = Study
  BY <1>1, <1>2 DEF RunBase, Study
<1>3. CASE options \in Options
  <2>1. options.kernel \in Kernels
    BY <1>3 DEF Options
  <2>2. options.kernel # "none"
    BY <2>1, RunnerAssumption DEF CliKernels, Versions, QueueVersions
  <2>. QED
    BY <1>1, <1>3, <2>2 DEF RunBase
<1>. QED
  BY <1>2, <1>3 DEF Init

\* While the plan and the command line stay, so does what is chosen.
LEMMA ChosenFrame ==
  ASSUME UNCHANGED <<routing, plannerVars, options>>
  PROVE  Chosen' = Chosen /\ (Refused' <=> Refused)
<1>1. /\ counts' = counts /\ n' = n /\ large' = large /\ small' = small /\ options' = options
      /\ stage' = stage
  BY DEF routing, plannerVars
<1>2. Chosen' = Chosen
  BY <1>1 DEF Chosen, BucketLaunch, Component, BuildWorkloadPlan, RowBlocks, RowBlock, SelectKernel,
     Even, Skewed, Spread, Rows, Inactive
<1>. QED
  BY <1>1, <1>2 DEF Refused

\* What each of the harness's steps does to the outcome.
LEMMA RunnerSteps ==
  ASSUME RunnerStep, outcome \in {"none", "refused", "running", "mismatch", "reported"}
  PROVE  \/ Begin
         \/ /\ components' = components /\ outcome # "none"
            /\ outcome' = outcome
         \/ /\ components' = components /\ outcome' = outcome /\ Execute
         \/ /\ outcome = "running" /\ components' = components
            /\ outcome' \in {"mismatch", "reported"}
BY DEF RunnerStep, Enqueue, Synchronize, Compare, Report, Execute, HostAt

LEMMA RunBaseNext ==
  ASSUME RunBase, [Next]_hostVars
  PROVE  RunBase'
<1>1. CASE PlanBuckets
  <2>1. /\ outcome' = outcome /\ components' = components /\ options' = options
        /\ options.kernel \in {"none", "v6_padding_aware"}
    BY <1>1 DEF PlanBuckets, runnerVars
  <2>2. stage \notin {"planned", "baseline"} /\ stage' \in {"split", "planned", "rejected", "failed"}
    BY <1>1 DEF PlanBuckets, PlannerStep, Validate, SplitExpert, Conclude
  <2>3. outcome = "none"
    BY <2>2 DEF RunBase
  <2>. QED
    BY <2>1, <2>2, <2>3 DEF RunBase, Options
<1>2. CASE PlanBaseline
  <2>1. /\ outcome' = outcome /\ components' = components /\ options' = options
        /\ options.kernel \notin {"none", "v6_padding_aware"}
        /\ stage = "validate" /\ stage' \in {"baseline", "rejected"}
    BY <1>2 DEF PlanBaseline, runnerVars
  <2>2. outcome = "none"
    BY <2>1 DEF RunBase
  <2>. QED
    BY <2>1, <2>2 DEF RunBase, Options
<1>3. CASE Run
  <2>1. /\ UNCHANGED <<routing, plannerVars, options>> /\ RunnerStep /\ options # Study
        /\ stage \in {"planned", "baseline"}
    BY <1>3 DEF Run
  <2>2. options' = options /\ stage' = stage
    BY <2>1 DEF plannerVars
  <2>3. Chosen' = Chosen /\ (Refused' <=> Refused)
    BY <2>1, ChosenFrame
  <2>4. CASE Begin
    <3>1. options.kernel # "none"
      BY <2>1 DEF RunBase
    <3>2. outcome = "none" /\ components = <<>>
      BY <2>4 DEF Begin, RunBase
    <3>3. \/ Refused /\ outcome' = "refused" /\ components' = components
          \/ ~Refused /\ outcome' = "running" /\ components' = Chosen
      BY <2>4 DEF Begin
    <3>. QED
      BY <2>1, <2>2, <2>3, <3>1, <3>2, <3>3 DEF RunBase, Options
  <2>5. CASE ~Begin
    BY <2>1, <2>2, <2>3, <2>5, RunnerSteps DEF RunBase
  <2>. QED
    BY <2>4, <2>5
<1>4. CASE Schedule \/ Finished \/ UNCHANGED hostVars
  <2>1. /\ UNCHANGED <<routing, plannerVars, options>> /\ UNCHANGED runnerVars
    BY <1>4 DEF Schedule, Finished, hostVars
  <2>2. options' = options /\ stage' = stage /\ outcome' = outcome /\ components' = components
    BY <2>1 DEF plannerVars, runnerVars
  <2>3. Chosen' = Chosen /\ (Refused' <=> Refused)
    BY <2>1, ChosenFrame
  <2>. QED
    BY <2>2, <2>3 DEF RunBase, Options
<1>. QED
  BY <1>1, <1>2, <1>3, <1>4 DEF Next

LEMMA AutoChosen ==
  ASSUME options.kernel = "auto"
  PROVE  LET plan == PlanPrefix(128, Experts)
         IN Chosen = <<[version |-> SelectKernel(Len(plan)), tiles |-> plan,
                        tileM |-> TileM(SelectKernel(Len(plan)))]>>
<1>1. TileM("auto") = 128
  BY SizeFacts DEF TileM
<1>2. BuildWorkloadPlan(TileM("auto")) = PlanPrefix(128, Experts)
  BY <1>1 DEF BuildWorkloadPlan, PlanPrefix
<1>. QED
  BY <1>2 DEF Chosen, Component

LEMMA AutoFits ==
  ASSUME PlannerInv, RunBase
  PROVE  AutoLaunchFits
<1>. SUFFICES ASSUME options.kernel = "auto"
              PROVE  /\ outcome = "refused" => Rows = 0 \/ options.iterations = 0
                     /\ \A i \in DOMAIN components :
                          LET c == components[i] IN
                          /\ LaunchCtas(c.version, Len(c.tiles)) =< Len(c.tiles)
                          /\ c.tileM = LargeM
  BY DEF AutoLaunchFits
<1>. DEFINE plan == PlanPrefix(128, Experts)
            v == SelectKernel(Len(plan))
            one == [version |-> v, tiles |-> plan, tileM |-> TileM(v)]
<1>1. Chosen = <<one>>
  BY AutoChosen
<1>2. ASSUME outcome # "none"
      PROVE  plan \in Seq(PlanTile) /\ (plan = <<>> <=> Rows = 0)
  <2>1. WholeColumns
    BY <1>2 DEF RunBase, PlannerInv
  <2>. QED
    BY <2>1, PlanNone
<1>3. ASSUME outcome = "refused" PROVE Rows = 0 \/ options.iterations = 0
  <2>1. Refused
    BY <1>3 DEF RunBase
  <2>2. Chosen # <<>> /\ \A i \in DOMAIN Chosen : Chosen[i].tiles = plan
    BY <1>1
  <2>3. options.iterations = 0 \/ plan = <<>>
    BY <2>1, <2>2 DEF Refused
  <2>. QED
    BY <1>2, <1>3, <2>3
<1>4. ASSUME NEW i \in DOMAIN components
      PROVE  /\ LaunchCtas(components[i].version, Len(components[i].tiles)) =< Len(components[i].tiles)
             /\ components[i].tileM = LargeM
  <2>1. components = Chosen /\ outcome # "none"
    <3>1. components # <<>>
      BY <1>4
    <3>. QED
      BY <3>1 DEF RunBase
  <2>2. components[i] = one
    BY <1>1, <1>4, <2>1
  <2>3. Len(plan) \in Nat
    BY <1>2, <2>1
  <2>. HIDE DEF plan
  <2>4. TileM(v) = 128 /\ LaunchCtas(v, Len(plan)) =< Len(plan)
    BY <2>3, SelectFits
  <2>. HIDE DEF v
  <2>. QED
    BY <2>2, <2>4, SizeFacts
<1>. QED
  BY <1>3, <1>4

\* Automatic dispatch, for every routing and every number of CTAs: it refuses only what has
\* no rows or no iterations, and never launches more CTAs than there are tiles.
THEOREM AutoDispatch == Spec => []AutoLaunchFits
<1>1. PlannerInv /\ RunBase => AutoLaunchFits
  BY AutoFits
<1>. QED
  BY PlannerInvariant, RunBaseStart, RunBaseNext, <1>1, PTL DEF Spec

------------------------------------------------------------------------------
(* What is compared                                                        *)

LEMMA PlanHas ==
  ASSUME WholeColumns, NEW tileM \in {64, 128}
  PROVE  \A e \in ExpertIds : \A i \in 1 .. CeilDiv(counts[e], tileM) * Cols :
           \E k \in 1 .. Len(PlanPrefix(tileM, Experts)) :
             PlanPrefix(tileM, Experts)[k] = TileAt(e, tileM, i)
<1>. DEFINE Has(m) == \A e \in 0 .. m - 1 : \A i \in 1 .. CeilDiv(counts[e], tileM) * Cols :
                        \E k \in 1 .. Len(PlanPrefix(tileM, m)) :
                          PlanPrefix(tileM, m)[k] = TileAt(e, tileM, i)
            G == {m \in Nat : m =< Experts => Has(m)}
<1>1. 0 \in G
  OBVIOUS
<1>2. ASSUME NEW m \in G PROVE m + 1 \in G
  <2>1. m \in Nat
    OBVIOUS
  <2>2. ASSUME m + 1 =< Experts PROVE Has(m + 1)
    <3>1. m < Experts /\ m =< Experts
      BY <2>1, <2>2, SizeFacts
    <3>2. Has(m)
      BY <3>1
    <3>. DEFINE p == PlanPrefix(tileM, m)
                b == CeilDiv(counts[m], tileM)
                q == RowBlocks(m, b, tileM)
                u == PlanPrefix(tileM, m + 1)
    <3>3. u = p \o q /\ p \in Seq(PlanTile) /\ b \in Nat /\ m \in ExpertIds
      <4>. HIDE DEF G, Has
      <4>1. u = p \o q
        <5>1. CASE tileM = 64
          BY <2>1, <3>1, <5>1, PlanPrefixStep
        <5>2. CASE tileM = 128
          BY <2>1, <3>1, <5>2, PlanPrefixStep
        <5>. QED
          BY <5>1, <5>2
      <4>2. p \in Seq(PlanTile)
        BY <2>1, <3>1, PlanPrefixStep
      <4>3. b \in Nat /\ m \in ExpertIds
        BY <2>1, <3>1, PlanPrefixStep
      <4>. QED
        BY <4>1, <4>2, <4>3
    <3>4. tileM \in Nat
      OBVIOUS
    <3>5. /\ q \in Seq(PlanTile) /\ Len(q) = b * Cols
          /\ \A i \in 1 .. b * Cols : q[i] = TileAt(m, tileM, i)
      <4>. HIDE DEF b
      <4>. QED
        BY <3>3, <3>4, RowBlocksAre
    <3>6. \A e \in 0 .. m - 1 : \A i \in 1 .. CeilDiv(counts[e], tileM) * Cols :
            \E k \in 1 .. Len(p) : p[k] = TileAt(e, tileM, i)
      BY <3>2
    <3>7. Len(p) \in Nat /\ Len(q) \in Nat
      BY <3>3, <3>5
    <3>. HIDE DEF p, q, u, G, Has
    <3>8. /\ Len(u) = Len(p) + Len(q)
          /\ \A k \in 1 .. Len(p) + Len(q) : u[k] = IF k =< Len(p) THEN p[k] ELSE q[k - Len(p)]
      BY <3>3, <3>5, ConcatProperties
    <3>9. ASSUME NEW e \in 0 .. (m + 1) - 1, NEW i \in 1 .. CeilDiv(counts[e], tileM) * Cols
          PROVE  \E k \in 1 .. Len(u) : u[k] = TileAt(e, tileM, i)
      <4>1. CASE e = m
        <5>1. i \in 1 .. b * Cols
          BY <4>1
        <5>. DEFINE k == Len(p) + i
        <5>. HIDE DEF b
        <5>2. k \in 1 .. Len(u) /\ ~(k =< Len(p)) /\ k - Len(p) = i
          BY <3>5, <3>7, <3>8, <5>1
        <5>3. u[k] = q[i]
          BY <3>8, <5>2
        <5>. QED
          BY <3>5, <4>1, <5>1, <5>2, <5>3
      <4>2. CASE e # m
        <5>1. e \in 0 .. m - 1
          BY <2>1, <4>2
        <5>2. PICK k \in 1 .. Len(p) : p[k] = TileAt(e, tileM, i)
          BY <3>6, <5>1
        <5>3. k \in 1 .. Len(u) /\ u[k] = p[k]
          BY <3>7, <3>8
        <5>. QED
          BY <5>2, <5>3
      <4>. QED
        BY <4>1, <4>2
    <3>. QED
      BY <3>9 DEF u, Has
  <2>. HIDE DEF Has
  <2>. QED
    BY <2>1, <2>2
<1>3. Experts \in G
  <2>. HIDE DEF G
  <2>1. G \subseteq Nat
    BY DEF G
  <2>. QED
    BY <1>1, <1>2, <2>1, SizeFacts, AllOfNat
<1>4. Has(Experts)
  BY <1>3, SizeFacts
<1>. QED
  BY <1>4 DEF ExpertIds

\* A stored row: some tile of the list covers it, as the device places them.
RowPlaced(tiles0, tileM, e, col, r) ==
  \E x \in Placed(tiles0, tileM) :
    /\ x.expert = e /\ x.n = col /\ x.first \in Int /\ x.rows \in Int
    /\ x.first =< r /\ r < x.first + x.rows

LEMMA PlanCovers ==
  ASSUME WholeColumns, NEW tileM \in {64, 128},
         NEW e \in ExpertIds, NEW j \in 1 .. Cols, NEW r \in 0 .. counts[e] - 1
  PROVE  RowPlaced(PlanPrefix(tileM, Experts), tileM, e, (j - 1) * 128, r)
<1>. DEFINE b == r \div tileM
            i == b * Cols + j
            p == PlanPrefix(tileM, Experts)
            c == CeilDiv(counts[e], tileM)
<1>1. counts[e] \in Nat /\ Cols \in Nat /\ Cols > 0 /\ tileM \in Nat /\ j \in Nat
  BY ColsFacts DEF WholeColumns, RoutingOK
<1>2. /\ b \in Nat /\ c \in Nat /\ b < c
      /\ b * tileM =< r /\ r < b * tileM + tileM /\ (b * tileM) \div tileM = b
  <2>1. CASE tileM = 64
    BY <1>1, <2>1 DEF CeilDiv
  <2>2. CASE tileM = 128
    BY <1>1, <2>2 DEF CeilDiv
  <2>. QED
    BY <2>1, <2>2
<1>. HIDE DEF b, c, p
<1>3. /\ i \in Nat /\ i > b * Cols /\ b * Cols \in Nat
      /\ (i - 1) \div Cols = b /\ (i - 1) % Cols = j - 1
      /\ (b + 1) * Cols = b * Cols + Cols
  BY <1>1, <1>2, RowIndex
<1>4. i \in 1 .. c * Cols
  <2>1. i =< (b + 1) * Cols
    BY <1>1, <1>3
  <2>2. b + 1 =< c /\ b + 1 \in Nat
    BY <1>2
  <2>3. (b + 1) * Cols =< c * Cols /\ c * Cols \in Nat /\ (b + 1) * Cols \in Nat
    BY <1>1, <1>2, <2>2
  <2>. HIDE DEF i
  <2>. QED
    BY <1>3, <2>1, <2>3
<1>5. PICK k \in 1 .. Len(p) : p[k] = TileAt(e, tileM, i)
  <2>. HIDE DEF i
  <2>. QED
    BY <1>4, PlanHas DEF p, c
<1>6. p[k].expert = e /\ p[k].m = b * tileM /\ p[k].n = (j - 1) * 128
  <2>. HIDE DEF i
  <2>. QED
    BY <1>3, <1>5, SizeFacts DEF TileAt
<1>7. p \in Seq(PlanTile)
  BY PlanNone DEF p
<1>. DEFINE x == [launch |-> tileM, at |-> k, expert |-> p[k].expert, n |-> p[k].n,
                  first |-> (p[k].m \div tileM) * tileM, valid |-> p[k].validM, rows |-> tileM]
<1>8. x \in Placed(p, tileM)
  BY <1>7 DEF Placed
<1>9. x.expert = e /\ x.n = (j - 1) * 128 /\ x.first = b * tileM /\ x.rows = tileM
  BY <1>2, <1>6
<1>. HIDE DEF x
<1>10. b * tileM \in Int
  BY <1>1, <1>2
<1>. QED
  BY <1>1, <1>2, <1>8, <1>9, <1>10 DEF RowPlaced, p

ComponentSet == [version : Versions, tiles : Seq(PlanTile), tileM : {64, 128}]

\* One kernel or two, and only one if it has a queue.
Sound(cs) ==
  /\ cs \in Seq(ComponentSet) /\ Len(cs) \in {1, 2}
  /\ \A i \in 1 .. Len(cs) : HasQueue(cs[i]) => Len(cs) = 1

Covering(cs) ==
  \A e \in ExpertIds : \A j \in 1 .. Cols, r \in 0 .. counts[e] - 1 :
    \E i \in 1 .. Len(cs) : RowPlaced(cs[i].tiles, cs[i].tileM, e, (j - 1) * 128, r)

Ready == /\ options.kernel # "none" /\ ~Refused
         /\ stage \in {"planned", "baseline"} /\ PlannerInv /\ RunBase

\* One kernel works on the whole plan.
OnePlan(version, tileM) ==
  /\ Chosen = <<[version |-> version, tiles |-> PlanPrefix(tileM, Experts), tileM |-> tileM]>>
  /\ PlanPrefix(tileM, Experts) # <<>> /\ WholeColumns

LEMMA PlanChosen ==
  ASSUME Ready, options.kernel # "v6_padding_aware"
  PROVE  \E version \in Versions : \E tileM \in {64, 128} : OnePlan(version, tileM)
<1>1. WholeColumns /\ options.kernel \in Versions \cup {"auto"} /\ ~Refused
  BY RunnerAssumption DEF Ready, PlannerInv, RunBase, Options, CliKernels
<1>3. CASE options.kernel = "auto"
  <2>. DEFINE plan == PlanPrefix(128, Experts)
              v == SelectKernel(Len(plan))
  <2>1. Chosen = <<[version |-> v, tiles |-> plan, tileM |-> TileM(v)]>>
    BY <1>3, AutoChosen
  <2>2. plan \in Seq(PlanTile)
    BY <1>1, PlanNone
  <2>3. Len(plan) \in Nat
    BY <2>2
  <2>. HIDE DEF plan
  <2>4. v \in Versions /\ TileM(v) = 128
    BY <2>3, SelectFits DEF Versions
  <2>. HIDE DEF v
  <2>5. Chosen = <<[version |-> v, tiles |-> plan, tileM |-> 128]>>
    BY <2>1, <2>4
  <2>6. plan # <<>>
    <3>1. 1 \in DOMAIN Chosen /\ Chosen[1].tiles = plan
      BY <2>5
    <3>. QED
      BY <1>1, <3>1 DEF Refused
  <2>7. OnePlan(v, 128)
    BY <1>1, <2>5, <2>6 DEF OnePlan, plan
  <2>. QED
    BY <2>4, <2>7
<1>4. CASE options.kernel # "auto"
  <2>. DEFINE v == options.kernel
  <2>1. v \in Versions /\ TileM(v) \in {64, 128}
    BY <1>1, <1>4, SizeFacts DEF TileM
  <2>2. BuildWorkloadPlan(TileM(v)) = PlanPrefix(TileM(v), Experts)
    BY DEF BuildWorkloadPlan, PlanPrefix
  <2>3. Chosen = <<[version |-> v, tiles |-> PlanPrefix(TileM(v), Experts), tileM |-> TileM(v)]>>
    BY <1>4, <2>2 DEF Ready, Chosen, Component
  <2>. DEFINE t == TileM(v)
  <2>4. v \in Versions /\ t \in {64, 128}
        /\ Chosen = <<[version |-> v, tiles |-> PlanPrefix(t, Experts), tileM |-> t]>>
    BY <2>1, <2>3
  <2>. HIDE DEF v, t
  <2>5. PlanPrefix(t, Experts) # <<>>
    <3>. DEFINE plan == PlanPrefix(t, Experts)
    <3>. HIDE DEF plan
    <3>1. Chosen = <<[version |-> v, tiles |-> plan, tileM |-> t]>>
      BY <2>4 DEF plan
    <3>2. 1 \in DOMAIN Chosen /\ Chosen[1].tiles = plan
      BY <3>1
    <3>3. plan # <<>>
      BY <1>1, <3>2 DEF Refused
    <3>. QED
      BY <3>3 DEF plan
  <2>6. OnePlan(v, t)
    BY <1>1, <2>4, <2>5 DEF OnePlan
  <2>. QED
    BY <2>4, <2>6
<1>. QED
  BY <1>3, <1>4

LEMMA PlanSound ==
  ASSUME Ready, options.kernel # "v6_padding_aware"
  PROVE  Sound(Chosen) /\ Covering(Chosen) /\ Rows # 0
<1>1. PICK version \in Versions, tileM \in {64, 128} :
        /\ Chosen = <<[version |-> version, tiles |-> PlanPrefix(tileM, Experts), tileM |-> tileM]>>
        /\ PlanPrefix(tileM, Experts) # <<>> /\ WholeColumns
  BY PlanChosen DEF OnePlan
<1>. DEFINE plan == PlanPrefix(tileM, Experts)
            one == [version |-> version, tiles |-> plan, tileM |-> tileM]
            cs == <<one>>
<1>2. plan \in Seq(PlanTile) /\ (plan = <<>> <=> Rows = 0)
  BY <1>1, PlanNone
<1>3. one \in ComponentSet
  BY <1>2 DEF ComponentSet
<1>4. cs \in Seq(ComponentSet) /\ Len(cs) = 1
  BY <1>3
<1>5. ASSUME NEW e \in ExpertIds, NEW j \in 1 .. Cols, NEW r \in 0 .. counts[e] - 1
      PROVE  \E i \in 1 .. Len(cs) : RowPlaced(cs[i].tiles, cs[i].tileM, e, (j - 1) * 128, r)
  <2>1. RowPlaced(plan, tileM, e, (j - 1) * 128, r)
    BY <1>1, PlanCovers
  <2>2. 1 \in 1 .. Len(cs) /\ cs[1].tiles = plan /\ cs[1].tileM = tileM
    BY <1>4
  <2>. QED
    BY <2>1, <2>2
<1>. QED
  BY <1>1, <1>2, <1>4, <1>5 DEF Sound, Covering

\* The two buckets of V6, one of which may be empty.
LEMMA BucketsSound ==
  ASSUME Ready, options.kernel = "v6_padding_aware"
  PROVE  Sound(Chosen) /\ Covering(Chosen) /\ Rows # 0
<1>. DEFINE l == [version |-> "v1_static_ws", tiles |-> large, tileM |-> 128]
            s == [version |-> "v6_small_m_ws", tiles |-> small, tileM |-> 64]
            cs == Chosen
<1>0. stage = "planned" /\ Planned
  BY DEF Ready, RunBase, Planned
<1>1. /\ WholeColumns
      /\ large \in Seq(PlanTile) /\ small \in Seq(PlanTile)
      /\ Len(large) + Len(small) = Len(PlanPrefix(128, Experts))
  BY <1>0, PlannedFacts DEF Lists
<1>2. cs = (IF large = <<>> THEN <<>> ELSE <<l>>) \o (IF small = <<>> THEN <<>> ELSE <<s>>)
  BY SizeFacts DEF Ready, Chosen, BucketLaunch, Component, TileM
<1>3. cs # <<>>
  BY DEF Ready, Refused
<1>4. l \in ComponentSet /\ s \in ComponentSet /\ ~HasQueue(l) /\ ~HasQueue(s)
  BY <1>1 DEF ComponentSet, Versions, HasQueue, QueueVersions
<1>. HIDE DEF l, s
<1>5. /\ cs \in Seq(ComponentSet) /\ Len(cs) \in {1, 2}
      /\ \A i \in 1 .. Len(cs) : cs[i] \in {l, s}
      /\ large # <<>> => \E i \in 1 .. Len(cs) : cs[i] = l
      /\ small # <<>> => \E i \in 1 .. Len(cs) : cs[i] = s
  <2>1. CASE large = <<>> /\ small # <<>>
    <3>1. cs = <<s>>
      BY <1>2, <2>1
    <3>. HIDE DEF cs
    <3>. QED
      BY <1>4, <2>1, <3>1
  <2>2. CASE large # <<>> /\ small = <<>>
    <3>1. cs = <<l>>
      BY <1>2, <2>2
    <3>. HIDE DEF cs
    <3>. QED
      BY <1>4, <2>2, <3>1
  <2>3. CASE large # <<>> /\ small # <<>>
    <3>1. cs = <<l>> \o <<s>>
      BY <1>2, <2>3
    <3>2. <<l>> \in Seq(ComponentSet) /\ <<s>> \in Seq(ComponentSet)
          /\ Len(<<l>>) = 1 /\ Len(<<s>>) = 1
      BY <1>4
    <3>. HIDE DEF cs
    <3>3. /\ cs \in Seq(ComponentSet) /\ Len(cs) = 2
          /\ \A i \in 1 .. 2 : cs[i] = IF i =< 1 THEN <<l>>[i] ELSE <<s>>[i - 1]
      BY <3>1, <3>2, ConcatProperties
    <3>4. 1 \in 1 .. Len(cs) /\ 2 \in 1 .. Len(cs) /\ cs[1] = l /\ cs[2] = s
      BY <3>3
    <3>5. \A i \in 1 .. Len(cs) : i = 1 \/ i = 2
      BY <3>3
    <3>. QED
      BY <2>3, <3>3, <3>4, <3>5
  <2>4. CASE large = <<>> /\ small = <<>>
    BY <1>2, <1>3, <2>4
  <2>. QED
    BY <2>1, <2>2, <2>3, <2>4
<1>. HIDE DEF cs
<1>6. Sound(cs)
  <2>1. \A i \in 1 .. Len(cs) : ~HasQueue(cs[i])
    BY <1>4, <1>5
  <2>. QED
    BY <1>5, <2>1 DEF Sound
<1>7. Rows # 0
  <2>1. 128 \in {64, 128}
    OBVIOUS
  <2>2. Rows = 0 => PlanPrefix(128, Experts) = <<>>
    BY <1>1, <2>1, PlanNone
  <2>3. Rows = 0 => Len(PlanPrefix(128, Experts)) = 0
    BY <2>2
  <2>4. Rows = 0 => Len(large) = 0 /\ Len(small) = 0
    BY <1>1, <2>3
  <2>5. Rows = 0 => large = <<>> /\ small = <<>>
    BY <1>1, <2>4, EmptySeq
  <2>. QED
    BY <1>2, <1>3, <2>5
<1>8. ASSUME NEW e \in ExpertIds, NEW j \in 1 .. Cols, NEW r \in 0 .. counts[e] - 1
      PROVE  \E i \in 1 .. Len(cs) : RowPlaced(cs[i].tiles, cs[i].tileM, e, (j - 1) * 128, r)
  <2>1. PICK x \in Stored : /\ x.expert = e /\ x.n = (j - 1) * 128
                            /\ x.first =< r /\ r < x.first + x.valid
    BY <1>0, StoredCovers
  <2>2. x.first \in Nat /\ x.rows \in Nat /\ x.valid \in Nat /\ x.valid =< x.rows
    BY <1>0, StoredBounds
  <2>3. r < x.first + x.rows /\ x.first \in Int /\ x.rows \in Int
    <3>1. r \in Int
      OBVIOUS
    <3>. QED
      BY <2>1, <2>2, <3>1
  <2>4. CASE x \in Placed(large, LargeM)
    <3>1. x \in Placed(large, 128)
      BY <2>4, SizeFacts
    <3>2. RowPlaced(large, 128, e, (j - 1) * 128, r)
      BY <2>1, <2>3, <3>1 DEF RowPlaced
    <3>3. large # <<>>
      BY <2>4 DEF Placed
    <3>4. PICK i \in 1 .. Len(cs) : cs[i] = l
      BY <1>5, <3>3
    <3>5. cs[i].tiles = large /\ cs[i].tileM = 128
      BY <3>4 DEF l
    <3>. QED
      BY <3>2, <3>5
  <2>5. CASE x \in Placed(small, SmallM)
    <3>1. x \in Placed(small, 64)
      BY <2>5, SizeFacts
    <3>2. RowPlaced(small, 64, e, (j - 1) * 128, r)
      BY <2>1, <2>3, <3>1 DEF RowPlaced
    <3>3. small # <<>>
      BY <2>5 DEF Placed
    <3>4. PICK i \in 1 .. Len(cs) : cs[i] = s
      BY <1>5, <3>3
    <3>5. cs[i].tiles = small /\ cs[i].tileM = 64
      BY <3>4 DEF s
    <3>. QED
      BY <3>2, <3>5
  <2>. QED
    BY <2>4, <2>5 DEF Stored
<1>9. Covering(cs)
  BY <1>8 DEF Covering
<1>. QED
  BY <1>6, <1>7, <1>9 DEF cs

LEMMA ChosenSound ==
  ASSUME Ready
  PROVE  Sound(Chosen) /\ Covering(Chosen) /\ Rows # 0
BY PlanSound, BucketsSound

------------------------------------------------------------------------------
(* What the host enqueues                                                  *)

DeviceOps == {"zero", "reset", "launch", "start", "end"}
DeviceCall == DeviceOps \X Nat

LEMMA JoinFacts ==
  ASSUME NEW T, NEW s \in Seq(T), NEW t \in Seq(T)
  PROVE  /\ s \o t \in Seq(T) /\ Len(s \o t) = Len(s) + Len(t)
         /\ Len(s) \in Nat /\ Len(t) \in Nat
         /\ \A i \in 1 .. Len(s) : (s \o t)[i] = s[i]
         /\ \A j \in 1 .. Len(t) : (s \o t)[Len(s) + j] = t[j]
<1>. DEFINE a == Len(s)
            b == Len(t)
            u == s \o t
<1>1. /\ u \in Seq(T) /\ Len(u) = a + b
      /\ \A i \in 1 .. a + b : u[i] = IF i =< a THEN s[i] ELSE t[i - a]
  BY ConcatProperties
<1>2. a \in Nat /\ b \in Nat
  OBVIOUS
<1>. HIDE DEF a, b, u
<1>3. ASSUME NEW i \in 1 .. a PROVE u[i] = s[i]
  <2>1. i \in 1 .. a + b /\ i =< a
    BY <1>2
  <2>. QED
    BY <1>1, <2>1
<1>4. ASSUME NEW j \in 1 .. b PROVE u[a + j] = t[j]
  <2>1. a + j \in 1 .. a + b /\ ~(a + j =< a) /\ (a + j) - a = j
    BY <1>2
  <2>. QED
    BY <1>1, <2>1
<1>. QED
  BY <1>1, <1>2, <1>3, <1>4 DEF a, b, u

\* The heads have just been reset when the i-th call of s comes.
FreshAt(s, i) ==
  \/ i > 1 /\ s[i - 1][1] = "reset"
  \/ i > 2 /\ s[i - 1][1] = "start" /\ s[i - 2][1] = "reset"

\* Calls for the kernels cs in an order in which no launch finds used heads.
Guarded(cs, s) ==
  /\ s \in Seq(DeviceCall)
  /\ \A i \in 1 .. Len(s) :
       /\ s[i][1] = "launch" => /\ s[i][2] \in 1 .. Len(cs)
                                /\ HasQueue(cs[s[i][2]]) => FreshAt(s, i)
       /\ s[i][1] = "reset" => Len(cs) = 1 /\ HasQueue(cs[1]) /\ s[i][2] = 1

LEMMA GuardedConcat ==
  ASSUME NEW cs, NEW s, NEW t, Guarded(cs, s), Guarded(cs, t)
  PROVE  Guarded(cs, s \o t)
<1>. DEFINE a == Len(s)
            b == Len(t)
            u == s \o t
<1>1. s \in Seq(DeviceCall) /\ t \in Seq(DeviceCall)
  BY DEF Guarded
<1>2. /\ u \in Seq(DeviceCall) /\ Len(u) = a + b /\ a \in Nat /\ b \in Nat
      /\ \A i \in 1 .. a : u[i] = s[i]
      /\ \A j \in 1 .. b : u[a + j] = t[j]
  BY <1>1, JoinFacts
<1>3. \A i \in 1 .. a :
       /\ s[i][1] = "launch" => /\ s[i][2] \in 1 .. Len(cs)
                                /\ HasQueue(cs[s[i][2]]) => FreshAt(s, i)
       /\ s[i][1] = "reset" => Len(cs) = 1 /\ HasQueue(cs[1]) /\ s[i][2] = 1
  BY DEF Guarded
<1>4. \A i \in 1 .. b :
       /\ t[i][1] = "launch" => /\ t[i][2] \in 1 .. Len(cs)
                                /\ HasQueue(cs[t[i][2]]) => FreshAt(t, i)
       /\ t[i][1] = "reset" => Len(cs) = 1 /\ HasQueue(cs[1]) /\ t[i][2] = 1
  BY DEF Guarded
<1>. HIDE DEF a, b, u
<1>5. ASSUME NEW i \in 1 .. a, FreshAt(s, i) PROVE FreshAt(u, i)
  <2>1. CASE i > 1 /\ s[i - 1][1] = "reset"
    <3>1. i - 1 \in 1 .. a
      BY <1>2, <2>1
    <3>. QED
      BY <1>2, <2>1, <3>1 DEF FreshAt
  <2>2. CASE i > 2 /\ s[i - 1][1] = "start" /\ s[i - 2][1] = "reset"
    <3>1. i - 1 \in 1 .. a /\ i - 2 \in 1 .. a
      BY <1>2, <2>2
    <3>. QED
      BY <1>2, <2>2, <3>1 DEF FreshAt
  <2>. QED
    BY <1>5, <2>1, <2>2 DEF FreshAt
<1>6. ASSUME NEW j \in 1 .. b, FreshAt(t, j) PROVE FreshAt(u, a + j)
  <2>1. CASE j > 1 /\ t[j - 1][1] = "reset"
    <3>1. j - 1 \in 1 .. b /\ a + (j - 1) = (a + j) - 1 /\ a + j > 1
      BY <1>2, <2>1
    <3>2. u[(a + j) - 1] = t[j - 1]
      BY <1>2, <3>1
    <3>. QED
      BY <2>1, <3>1, <3>2 DEF FreshAt
  <2>2. CASE j > 2 /\ t[j - 1][1] = "start" /\ t[j - 2][1] = "reset"
    <3>1. /\ j - 1 \in 1 .. b /\ a + (j - 1) = (a + j) - 1 /\ a + j > 2
          /\ j - 2 \in 1 .. b /\ a + (j - 2) = (a + j) - 2
      BY <1>2, <2>2
    <3>2. u[(a + j) - 1] = t[j - 1] /\ u[(a + j) - 2] = t[j - 2]
      BY <1>2, <3>1
    <3>. QED
      BY <2>2, <3>1, <3>2 DEF FreshAt
  <2>. QED
    BY <1>6, <2>1, <2>2 DEF FreshAt
<1>7. ASSUME NEW i \in 1 .. a + b
      PROVE  /\ u[i][1] = "launch" => /\ u[i][2] \in 1 .. Len(cs)
                                      /\ HasQueue(cs[u[i][2]]) => FreshAt(u, i)
             /\ u[i][1] = "reset" => Len(cs) = 1 /\ HasQueue(cs[1]) /\ u[i][2] = 1
  <2>1. CASE i =< a
    <3>1. i \in 1 .. a
      BY <1>2, <2>1
    <3>2. u[i] = s[i]
      BY <1>2, <3>1
    <3>. QED
      BY <1>3, <1>5, <3>1, <3>2
  <2>2. CASE ~(i =< a)
    <3>1. i - a \in 1 .. b /\ a + (i - a) = i
      BY <1>2, <2>2
    <3>2. u[i] = t[i - a]
      BY <1>2, <3>1
    <3>3. FreshAt(t, i - a) => FreshAt(u, i)
      BY <1>6, <3>1
    <3>. QED
      BY <1>4, <3>1, <3>2, <3>3
  <2>. QED
    BY <2>1, <2>2
<1>. QED
  BY <1>2, <1>7 DEF Guarded, u

LEMMA GuardedNone ==
  ASSUME NEW cs
  PROVE  Guarded(cs, <<>>)
<1>1. <<>> \in Seq(DeviceCall) /\ Len(<<>>) = 0 /\ 1 .. 0 = {}
  OBVIOUS
<1>. QED
  BY <1>1 DEF Guarded

\* A family of k blocks.
Blocks(cs, k, s) ==
  k \in Nat /\ s \in [1 .. k -> Seq(DeviceCall)] /\ \A i \in 1 .. k : Guarded(cs, s[i])

LEMMA GuardedFlat ==
  ASSUME NEW cs, NEW k, NEW s, Blocks(cs, k, s)
  PROVE  Guarded(cs, FlattenSeq(s))
<1>. DEFINE G == {m \in Nat : \A r : Blocks(cs, m, r) => Guarded(cs, FlattenSeq(r))}
<1>1. 0 \in G
  <2>. SUFFICES ASSUME NEW r, Blocks(cs, 0, r) PROVE Guarded(cs, FlattenSeq(r))
    OBVIOUS
  <2>1. r \in [1 .. 0 -> Seq(DeviceCall)]
    BY DEF Blocks
  <2>2. r \in Seq(Seq(DeviceCall)) /\ Len(r) = 0
    BY <2>1
  <2>3. r = <<>> /\ FlattenSeq(r) = r
    BY <2>2, EmptySeq, FlattenEmpty
  <2>. QED
    BY <2>3, GuardedNone
<1>2. ASSUME NEW m \in G PROVE m + 1 \in G
  <2>1. m \in Nat
    OBVIOUS
  <2>2. ASSUME NEW r, Blocks(cs, m + 1, r) PROVE Guarded(cs, FlattenSeq(r))
    <3>. DEFINE q == [i \in 1 .. m |-> r[i]]
    <3>1. r \in [1 .. m + 1 -> Seq(DeviceCall)] /\ \A i \in 1 .. m + 1 : Guarded(cs, r[i])
      BY <2>2 DEF Blocks
    <3>2. q \in [1 .. m -> Seq(DeviceCall)] /\ \A i \in 1 .. m : Guarded(cs, q[i])
      BY <2>1, <3>1
    <3>3. Blocks(cs, m, q)
      BY <2>1, <3>2 DEF Blocks
    <3>4. Guarded(cs, FlattenSeq(q))
      BY <3>3
    <3>5. Guarded(cs, r[m + 1])
      BY <2>1, <3>1
    <3>6. FlattenSeq(r) = FlattenSeq(q) \o r[m + 1]
      <4>1. AllButLast(q, r, m, DeviceCall)
        BY <2>1, <3>1 DEF AllButLast
      <4>. HIDE DEF G, q
      <4>. QED
        BY <4>1, FlattenStep
    <3>. HIDE DEF q, G
    <3>. QED
      BY <3>4, <3>5, <3>6, GuardedConcat
  <2>3. m + 1 \in Nat
    BY <2>1
  <2>. QED
    BY <2>2, <2>3
<1>3. k \in G
  <2>. HIDE DEF G
  <2>1. G \subseteq Nat /\ k \in Nat
    BY DEF G, Blocks
  <2>. QED
    BY <1>1, <1>2, <2>1, AllOfNat
<1>. QED
  BY <1>3

WarmBlock(cs) == ResetHeads(cs) \o InvokeAll(cs)
Timed(cs, i) == <<Call("start", i)>> \o InvokeAll(cs) \o <<Call("end", i)>>
TimedBlock(cs, i) == ResetHeads(cs) \o <<Call("start", i)>> \o InvokeAll(cs) \o <<Call("end", i)>>

LEMMA LaunchesFacts ==
  ASSUME NEW cs, Sound(cs)
  PROVE  /\ InvokeAll(cs) \in Seq(DeviceCall) /\ Len(InvokeAll(cs)) = Len(cs)
         /\ Len(cs) \in Nat /\ Len(cs) > 0
         /\ \A i \in 1 .. Len(cs) : InvokeAll(cs)[i] = <<"launch", i>>
<1>1. cs \in Seq(ComponentSet) /\ Len(cs) \in {1, 2}
  BY DEF Sound
<1>2. DOMAIN cs = 1 .. Len(cs)
  BY <1>1
<1>3. InvokeAll(cs) = [i \in 1 .. Len(cs) |-> <<"launch", i>>]
  BY <1>2 DEF InvokeAll, Call
<1>4. \A i \in 1 .. Len(cs) : <<"launch", i>> \in DeviceCall
  BY <1>1 DEF DeviceCall, DeviceOps
<1>5. InvokeAll(cs) \in [1 .. Len(cs) -> DeviceCall]
  BY <1>3, <1>4
<1>. QED
  BY <1>1, <1>3, <1>5

LEMMA ResetsFacts ==
  ASSUME NEW cs, Sound(cs)
  PROVE  /\ ResetHeads(cs) \in Seq(DeviceCall)
         /\ \/ HasQueue(cs[1]) /\ Len(cs) = 1 /\ ResetHeads(cs) = <<<<"reset", 1>>>>
            \/ (\A i \in 1 .. Len(cs) : ~HasQueue(cs[i])) /\ ResetHeads(cs) = <<>>
<1>1. DOMAIN cs = 1 .. Len(cs) /\ Len(cs) \in {1, 2}
  BY DEF Sound
<1>2. <<"reset", 1>> \in DeviceCall
  BY DEF DeviceCall, DeviceOps
<1>3. <<<<"reset", 1>>>> \in Seq(DeviceCall) /\ <<>> \in Seq(DeviceCall)
  BY <1>2
<1>4. CASE \E i \in 1 .. Len(cs) : HasQueue(cs[i])
  <2>1. PICK i \in 1 .. Len(cs) : HasQueue(cs[i])
    BY <1>4
  <2>2. Len(cs) = 1
    BY <2>1 DEF Sound
  <2>3. i = 1
    BY <2>2
  <2>4. ResetHeads(cs) = <<<<"reset", 1>>>>
    BY <1>1, <2>1 DEF ResetHeads, Call
  <2>. QED
    BY <1>3, <2>1, <2>2, <2>3, <2>4
<1>5. CASE \A i \in 1 .. Len(cs) : ~HasQueue(cs[i])
  <2>1. ResetHeads(cs) = <<>>
    BY <1>1, <1>5 DEF ResetHeads
  <2>. QED
    BY <1>3, <1>5, <2>1
<1>. QED
  BY <1>4, <1>5

LEMMA OneCall ==
  ASSUME NEW op \in DeviceOps, NEW i \in Nat
  PROVE  /\ <<Call(op, i)>> \in Seq(DeviceCall) /\ Len(<<Call(op, i)>>) = 1
         /\ <<Call(op, i)>>[1] = <<op, i>>
<1>1. Call(op, i) \in DeviceCall /\ Call(op, i) = <<op, i>>
  BY DEF Call, DeviceCall
<1>. QED
  BY <1>1

\* Calls among which there is neither a launch nor a reset.
LEMMA GuardedOne ==
  ASSUME NEW cs, NEW op \in {"zero", "start", "end"}, NEW i \in Nat
  PROVE  Guarded(cs, <<Call(op, i)>>)
<1>1. /\ <<Call(op, i)>> \in Seq(DeviceCall) /\ Len(<<Call(op, i)>>) = 1
      /\ <<Call(op, i)>>[1] = <<op, i>>
  BY OneCall DEF DeviceOps
<1>2. \A j \in 1 .. Len(<<Call(op, i)>>) : <<Call(op, i)>>[j][1] = op
  BY <1>1
<1>. QED
  BY <1>1, <1>2 DEF Guarded

LEMMA GuardedLaunches ==
  ASSUME NEW cs, Sound(cs), \A i \in 1 .. Len(cs) : ~HasQueue(cs[i])
  PROVE  Guarded(cs, InvokeAll(cs))
<1>1. /\ InvokeAll(cs) \in Seq(DeviceCall) /\ Len(InvokeAll(cs)) = Len(cs)
      /\ \A i \in 1 .. Len(cs) : InvokeAll(cs)[i] = <<"launch", i>>
  BY LaunchesFacts
<1>2. \A i \in 1 .. Len(cs) : InvokeAll(cs)[i][1] = "launch" /\ InvokeAll(cs)[i][2] = i
  BY <1>1
<1>. QED
  BY <1>1, <1>2 DEF Guarded

LEMMA GuardedWarm ==
  ASSUME NEW cs, Sound(cs)
  PROVE  Guarded(cs, WarmBlock(cs))
<1>1. CASE HasQueue(cs[1]) /\ Len(cs) = 1 /\ ResetHeads(cs) = <<<<"reset", 1>>>>
  <2>. DEFINE r == ResetHeads(cs)
              l == InvokeAll(cs)
              u == r \o l
  <2>1. r \in Seq(DeviceCall) /\ Len(r) = 1 /\ r[1] = <<"reset", 1>>
    BY <1>1, ResetsFacts
  <2>2. l \in Seq(DeviceCall) /\ Len(l) = 1 /\ l[1] = <<"launch", 1>>
    BY <1>1, LaunchesFacts
  <2>. HIDE DEF r, l
  <2>3. /\ u \in Seq(DeviceCall) /\ Len(u) = Len(r) + Len(l)
        /\ \A i \in 1 .. Len(r) : u[i] = r[i]
        /\ \A j \in 1 .. Len(l) : u[Len(r) + j] = l[j]
    BY <2>1, <2>2, JoinFacts
  <2>. HIDE DEF u
  <2>4. Len(u) = 2 /\ u[1] = <<"reset", 1>> /\ u[2] = <<"launch", 1>>
    BY <2>1, <2>2, <2>3
  <2>5. FreshAt(u, 2)
    BY <2>4 DEF FreshAt
  <2>6. \A i \in 1 .. Len(u) : i = 1 \/ i = 2
    BY <2>4
  <2>. QED
    BY <1>1, <2>3, <2>4, <2>5, <2>6 DEF Guarded, u, r, l, WarmBlock
<1>2. CASE (\A i \in 1 .. Len(cs) : ~HasQueue(cs[i])) /\ ResetHeads(cs) = <<>>
  <2>1. Guarded(cs, InvokeAll(cs))
    BY <1>2, GuardedLaunches
  <2>2. WarmBlock(cs) = InvokeAll(cs)
    BY <1>2, LaunchesFacts, ConcatEmptySeq DEF WarmBlock
  <2>. QED
    BY <2>1, <2>2
<1>. QED
  BY <1>1, <1>2, ResetsFacts

LEMMA TimedFacts ==
  ASSUME NEW cs, Sound(cs), NEW i \in Nat
  PROVE  /\ Timed(cs, i) \in Seq(DeviceCall) /\ Len(Timed(cs, i)) = Len(cs) + 2
         /\ Timed(cs, i)[1] = <<"start", i>>
         /\ \A j \in 1 .. Len(cs) : Timed(cs, i)[1 + j] = <<"launch", j>>
         /\ Timed(cs, i)[Len(cs) + 2] = <<"end", i>>
         /\ TimedBlock(cs, i) = ResetHeads(cs) \o Timed(cs, i)
<1>. DEFINE r == ResetHeads(cs)
            s == <<Call("start", i)>>
            l == InvokeAll(cs)
            e == <<Call("end", i)>>
            m == s \o l
            u == m \o e
            k == Len(cs)
<1>1. /\ r \in Seq(DeviceCall) /\ l \in Seq(DeviceCall) /\ Len(l) = k /\ k \in Nat
      /\ \A j \in 1 .. k : l[j] = <<"launch", j>>
  BY ResetsFacts, LaunchesFacts
<1>2. /\ s \in Seq(DeviceCall) /\ Len(s) = 1 /\ s[1] = <<"start", i>>
      /\ e \in Seq(DeviceCall) /\ Len(e) = 1 /\ e[1] = <<"end", i>>
  BY OneCall DEF DeviceOps
<1>3. Timed(cs, i) = u /\ TimedBlock(cs, i) = ((r \o s) \o l) \o e
  BY DEF Timed, TimedBlock
<1>. HIDE DEF r, s, l, e, k
<1>4. /\ m \in Seq(DeviceCall) /\ Len(m) = Len(s) + Len(l)
      /\ \A j \in 1 .. Len(s) : m[j] = s[j]
      /\ \A j \in 1 .. Len(l) : m[Len(s) + j] = l[j]
  <2>1. s \in Seq(DeviceCall) /\ l \in Seq(DeviceCall)
    BY <1>1, <1>2
  <2>. QED
    BY <2>1, JoinFacts
<1>5. (r \o s) \o l = r \o m
  <2>1. r \in Seq(DeviceCall) /\ s \in Seq(DeviceCall) /\ l \in Seq(DeviceCall)
    BY <1>1, <1>2
  <2>2. (r \o s) \o l = r \o (s \o l)
    BY <2>1, ConcatAssociative
  <2>. QED
    BY <2>2
<1>. HIDE DEF m
<1>6. /\ u \in Seq(DeviceCall) /\ Len(u) = Len(m) + Len(e)
      /\ \A j \in 1 .. Len(m) : u[j] = m[j]
      /\ \A j \in 1 .. Len(e) : u[Len(m) + j] = e[j]
  <2>1. m \in Seq(DeviceCall) /\ e \in Seq(DeviceCall)
    BY <1>2, <1>4
  <2>. QED
    BY <2>1, JoinFacts
<1>7. (r \o m) \o e = r \o u
  <2>1. r \in Seq(DeviceCall) /\ m \in Seq(DeviceCall) /\ e \in Seq(DeviceCall)
    BY <1>1, <1>2, <1>4
  <2>. QED
    BY <2>1, ConcatAssociative
<1>. HIDE DEF u
<1>8. Len(m) = k + 1 /\ Len(u) = k + 2
  BY <1>1, <1>2, <1>4, <1>6
<1>9. u[1] = <<"start", i>>
  <2>1. 1 \in 1 .. Len(m) /\ 1 \in 1 .. Len(s)
    BY <1>1, <1>2, <1>8
  <2>. QED
    BY <1>2, <1>4, <1>6, <2>1
<1>10. ASSUME NEW j \in 1 .. k PROVE u[1 + j] = <<"launch", j>>
  <2>1. 1 + j \in 1 .. Len(m)
    BY <1>1, <1>8
  <2>2. u[1 + j] = m[1 + j] /\ m[1 + j] = l[j]
    BY <1>1, <1>2, <1>4, <1>6, <2>1
  <2>. QED
    BY <1>1, <2>2
<1>11. u[k + 2] = <<"end", i>>
  <2>1. 1 \in 1 .. Len(e) /\ Len(m) + 1 = k + 2
    BY <1>1, <1>2, <1>8
  <2>. QED
    BY <1>2, <1>6, <2>1
<1>. QED
  BY <1>3, <1>5, <1>6, <1>7, <1>8, <1>9, <1>10, <1>11 DEF r, k

LEMMA GuardedTimed ==
  ASSUME NEW cs, Sound(cs), NEW i \in Nat
  PROVE  Guarded(cs, TimedBlock(cs, i))
<1>. DEFINE r == ResetHeads(cs)
            t == Timed(cs, i)
            u == r \o t
            k == Len(cs)
<1>1. /\ t \in Seq(DeviceCall) /\ Len(t) = k + 2 /\ t[1] = <<"start", i>> /\ t[k + 2] = <<"end", i>>
      /\ \A j \in 1 .. k : t[1 + j] = <<"launch", j>>
      /\ TimedBlock(cs, i) = u /\ k \in Nat
  BY TimedFacts, LaunchesFacts
<1>2. CASE HasQueue(cs[1]) /\ k = 1 /\ r = <<<<"reset", 1>>>>
  <2>1. r \in Seq(DeviceCall) /\ Len(r) = 1 /\ r[1] = <<"reset", 1>>
    BY <1>2, ResetsFacts
  <2>. HIDE DEF r, t
  <2>2. /\ u \in Seq(DeviceCall) /\ Len(u) = Len(r) + Len(t)
        /\ \A j \in 1 .. Len(r) : u[j] = r[j]
        /\ \A j \in 1 .. Len(t) : u[Len(r) + j] = t[j]
    <3>1. r \in Seq(DeviceCall) /\ t \in Seq(DeviceCall)
      BY <1>1, <2>1
    <3>. QED
      BY <3>1, JoinFacts
  <2>. HIDE DEF u
  <2>3. Len(t) = 3 /\ t[2] = <<"launch", 1>> /\ t[3] = <<"end", i>>
    BY <1>1, <1>2
  <2>4. /\ Len(u) = 4 /\ u[1] = <<"reset", 1>> /\ u[2] = <<"start", i>>
        /\ u[3] = <<"launch", 1>> /\ u[4] = <<"end", i>>
    BY <1>1, <2>1, <2>2, <2>3
  <2>5. FreshAt(u, 3)
    BY <2>4 DEF FreshAt
  <2>6. \A j \in 1 .. Len(u) : j = 1 \/ j = 2 \/ j = 3 \/ j = 4
    BY <2>4
  <2>7. \A j \in 1 .. Len(u) :
         /\ u[j][1] = "launch" => u[j][2] \in 1 .. k /\ FreshAt(u, j)
         /\ u[j][1] = "reset" => u[j][2] = 1
    BY <1>2, <2>4, <2>5, <2>6
  <2>. QED
    BY <1>1, <1>2, <2>2, <2>7 DEF Guarded, k
<1>3. CASE (\A j \in 1 .. k : ~HasQueue(cs[j])) /\ r = <<>>
  <2>1. u = t
    BY <1>1, <1>3, ConcatEmptySeq
  <2>. HIDE DEF t, u, r
  <2>2. ASSUME NEW j \in 1 .. k + 2
        PROVE  /\ t[j][1] = "launch" => t[j][2] \in 1 .. k
               /\ t[j][1] # "reset"
    <3>1. j = 1 \/ j = k + 2 \/ (j - 1 \in 1 .. k /\ 1 + (j - 1) = j)
      BY <1>1
    <3>2. CASE j - 1 \in 1 .. k /\ 1 + (j - 1) = j
      <4>1. t[j] = <<"launch", j - 1>>
        BY <1>1, <3>2
      <4>. QED
        BY <3>2, <4>1
    <3>. QED
      BY <1>1, <3>1, <3>2
  <2>. QED
    BY <1>1, <1>3, <2>1, <2>2 DEF Guarded, k
<1>. QED
  BY <1>2, <1>3, ResetsFacts DEF r, k

------------------------------------------------------------------------------
(* The stream                                                              *)

LEMMA HeadFirst ==
  ASSUME NEW T, NEW s \in Seq(T), s # <<>>
  PROVE  s = <<Head(s)>> \o Tail(s) /\ Head(s) \in T /\ Head(s) = s[1] /\ Len(s) > 0
<1>1. /\ Head(s) \in T /\ Tail(s) \in Seq(T) /\ Len(Tail(s)) = Len(s) - 1
      /\ \A i \in 1 .. Len(Tail(s)) : Tail(s)[i] = s[i + 1]
      /\ Len(s) \in Nat /\ Len(s) > 0 /\ Head(s) = s[1]
  BY HeadTailProperties, EmptySeq
<1>. DEFINE h == <<Head(s)>>
            t == Tail(s)
            u == h \o t
            k == Len(s)
<1>2. h \in Seq(T) /\ Len(h) = 1 /\ h[1] = s[1]
  BY <1>1
<1>3. /\ t \in Seq(T) /\ Len(t) = k - 1 /\ k \in Nat /\ k > 0
      /\ \A i \in 1 .. k - 1 : t[i] = s[i + 1]
  BY <1>1
<1>. HIDE DEF h, t, k
<1>4. /\ u \in Seq(T) /\ Len(u) = Len(h) + Len(t)
      /\ \A i \in 1 .. Len(h) + Len(t) : u[i] = IF i =< Len(h) THEN h[i] ELSE t[i - Len(h)]
  <2>1. h \in Seq(T) /\ t \in Seq(T)
    BY <1>2, <1>3
  <2>. QED
    BY <2>1, ConcatProperties
<1>. HIDE DEF u
<1>5. Len(u) = k /\ Len(s) = k
  BY <1>2, <1>3, <1>4 DEF k
<1>6. ASSUME NEW i \in 1 .. k PROVE u[i] = s[i]
  <2>1. CASE i = 1
    BY <1>2, <1>3, <1>4, <2>1
  <2>2. CASE i # 1
    <3>1. i - 1 \in 1 .. k - 1 /\ ~(i =< 1) /\ (i - 1) + 1 = i /\ 1 + (k - 1) = k
      BY <1>3, <2>2
    <3>2. u[i] = t[i - 1]
      BY <1>2, <1>3, <1>4, <3>1
    <3>. QED
      BY <1>3, <3>1, <3>2
  <2>. QED
    BY <2>1, <2>2
<1>7. u = s
  BY <1>4, <1>5, <1>6, SeqEqual
<1>. QED
  BY <1>1, <1>7 DEF u, h, t

LEMMA FirstOfConcat ==
  ASSUME NEW T, NEW s \in Seq(T), NEW t \in Seq(T), s # <<>>
  PROVE  /\ s \o t # <<>> /\ Head(s \o t) = Head(s) /\ Tail(s \o t) = Tail(s) \o t
         /\ Tail(s) \in Seq(T)
<1>. DEFINE u == s \o t
            a == Tail(u)
            b == Tail(s) \o t
<1>1. /\ u \in Seq(T) /\ Len(u) = Len(s) + Len(t) /\ Len(s) \in Nat /\ Len(t) \in Nat
      /\ \A i \in 1 .. Len(s) : u[i] = s[i]
      /\ \A j \in 1 .. Len(t) : u[Len(s) + j] = t[j]
  BY JoinFacts
<1>2. Len(s) > 0
  BY HeadFirst
<1>3. u # <<>>
  <2>. HIDE DEF u
  <2>. QED
    BY <1>1, <1>2, EmptySeq
<1>. HIDE DEF u
<1>4. Head(u) = u[1] /\ Head(s) = s[1]
  BY <1>1, <1>3, HeadFirst
<1>5. Head(u) = Head(s)
  <2>1. 1 \in 1 .. Len(s)
    BY <1>1, <1>2
  <2>. QED
    BY <1>1, <1>4, <2>1
<1>6. /\ Tail(s) \in Seq(T) /\ Len(Tail(s)) = Len(s) - 1
      /\ \A i \in 1 .. Len(s) - 1 : Tail(s)[i] = s[i + 1]
  BY HeadTailProperties
<1>7. /\ a \in Seq(T) /\ Len(a) = Len(u) - 1
      /\ \A i \in 1 .. Len(u) - 1 : a[i] = u[i + 1]
  BY <1>1, <1>3, HeadTailProperties
<1>8. /\ b \in Seq(T) /\ Len(b) = Len(Tail(s)) + Len(t)
      /\ \A i \in 1 .. Len(Tail(s)) : b[i] = Tail(s)[i]
      /\ \A j \in 1 .. Len(t) : b[Len(Tail(s)) + j] = t[j]
  BY <1>6, JoinFacts
<1>. HIDE DEF a, b
<1>. DEFINE k == Len(s) - 1
            l == Len(t)
<1>9. k \in Nat /\ l \in Nat /\ Len(s) = k + 1 /\ Len(a) = k + l /\ Len(b) = k + l /\ Len(Tail(s)) = k
      /\ Len(u) - 1 = k + l
  BY <1>1, <1>2, <1>6, <1>7, <1>8
<1>10. ASSUME NEW i \in 1 .. k + l PROVE a[i] = b[i]
  <2>. HIDE DEF k, l
  <2>0. a[i] = u[i + 1]
    BY <1>7, <1>9
  <2>1. CASE i =< k
    <3>1. i \in 1 .. k /\ i + 1 \in 1 .. k + 1
      BY <1>9, <2>1
    <3>2. u[i + 1] = s[i + 1]
      BY <1>1, <1>9, <3>1
    <3>3. b[i] = s[i + 1]
      BY <1>6, <1>8, <1>9, <3>1
    <3>. QED
      BY <2>0, <3>2, <3>3
  <2>2. CASE ~(i =< k)
    <3>1. i - k \in 1 .. l /\ k + (i - k) = i /\ (k + 1) + (i - k) = i + 1
      BY <1>9, <2>2
    <3>2. u[(k + 1) + (i - k)] = t[i - k]
      BY <1>1, <1>9, <3>1 DEF l
    <3>3. b[k + (i - k)] = t[i - k]
      BY <1>8, <1>9, <3>1 DEF l
    <3>. QED
      BY <2>0, <3>1, <3>2, <3>3
  <2>. QED
    BY <2>1, <2>2
<1>11. a = b
  <2>. HIDE DEF k, l
  <2>. QED
    BY <1>7, <1>8, <1>9, <1>10, SeqEqual
<1>. QED
  BY <1>3, <1>5, <1>6, <1>11 DEF u, a, b

AnyCall == (DeviceOps \cup {"synchronize", "compare"}) \X Nat

\* A launch is traced with how often it has computed each tile: once.
OnesOf == {<<>>} \cup UNION {[0 .. m - 1 -> {1}] : m \in Nat}
TraceEntry == [call : DeviceCall, runs : OnesOf]

Calls(t) == [i \in DOMAIN t |-> t[i].call]

\* What the host has enqueued so far, of which t has been executed.
Handed(t, s) == Calls(t) \o s

Sync == <<Call("synchronize", 1)>>

\* Of the calls p the host makes the rest of `total`, of which h has been handed
\* over, then waits, and y is left.
UpTo(p, h, y, total) ==
  \E x \in Seq(DeviceCall) : p = x \o (Sync \o y) /\ h \o x = total

LEMMA CallsFacts ==
  ASSUME NEW t \in Seq(TraceEntry)
  PROVE  /\ Calls(t) \in Seq(DeviceCall) /\ Len(Calls(t)) = Len(t) /\ Len(t) \in Nat
         /\ \A i \in 1 .. Len(t) : Calls(t)[i] = t[i].call
<1>1. DOMAIN t = 1 .. Len(t) /\ Len(t) \in Nat
  OBVIOUS
<1>2. \A i \in 1 .. Len(t) : t[i].call \in DeviceCall
  <2>1. TAKE i \in 1 .. Len(t)
  <2>2. t[i] \in TraceEntry
    OBVIOUS
  <2>. QED
    BY <2>2 DEF TraceEntry
<1>3. Calls(t) = [i \in 1 .. Len(t) |-> t[i].call]
  BY <1>1 DEF Calls
<1>4. Calls(t) \in [1 .. Len(t) -> DeviceCall]
  BY <1>2, <1>3
<1>. QED
  BY <1>1, <1>3, <1>4

LEMMA CallsAppend ==
  ASSUME NEW t \in Seq(TraceEntry), NEW e \in TraceEntry
  PROVE  Calls(Append(t, e)) = Calls(t) \o <<e.call>>
<1>. DEFINE u == Append(t, e)
            v == Append(Calls(t), e.call)
<1>1. /\ Calls(t) \in Seq(DeviceCall) /\ Len(Calls(t)) = Len(t) /\ Len(t) \in Nat
      /\ \A i \in 1 .. Len(t) : Calls(t)[i] = t[i].call
  BY CallsFacts
<1>2. e.call \in DeviceCall
  BY DEF TraceEntry
<1>3. /\ u \in Seq(TraceEntry) /\ Len(u) = Len(t) + 1 /\ u[Len(t) + 1] = e
      /\ \A i \in 1 .. Len(t) : u[i] = t[i]
  BY AppendProperties
<1>4. /\ v \in Seq(DeviceCall) /\ Len(v) = Len(t) + 1 /\ v[Len(t) + 1] = e.call
      /\ \A i \in 1 .. Len(t) : v[i] = Calls(t)[i]
  BY <1>1, <1>2, AppendProperties
<1>5. /\ Calls(u) \in Seq(DeviceCall) /\ Len(Calls(u)) = Len(u)
      /\ \A i \in 1 .. Len(u) : Calls(u)[i] = u[i].call
  BY <1>3, CallsFacts
<1>6. v = Calls(t) \o <<e.call>>
  BY <1>1, <1>2, AppendIsConcat
<1>. DEFINE k == Len(t)
            w == Calls(u)
<1>. HIDE DEF u, v, w, k
<1>7. ASSUME NEW i \in 1 .. k + 1 PROVE w[i] = v[i]
  <2>1. CASE i = k + 1
    BY <1>1, <1>3, <1>4, <1>5, <2>1 DEF w, k
  <2>2. CASE i # k + 1
    <3>1. i \in 1 .. k /\ i \in 1 .. Len(u)
      BY <1>1, <1>3, <2>2 DEF k
    <3>2. v[i] = Calls(t)[i] /\ Calls(t)[i] = t[i].call
      BY <1>1, <1>4, <3>1 DEF k
    <3>3. w[i] = u[i].call /\ u[i] = t[i]
      BY <1>3, <1>5, <3>1 DEF w, k
    <3>. QED
      BY <3>2, <3>3
  <2>. QED
    BY <2>1, <2>2
<1>8. w \in Seq(DeviceCall) /\ Len(w) = k + 1 /\ Len(v) = k + 1
  BY <1>3, <1>4, <1>5 DEF w, k
<1>9. w = v
  BY <1>4, <1>7, <1>8, SeqEqual
<1>. QED
  BY <1>6, <1>9 DEF w, u

LEMMA SyncFacts ==
  ASSUME NEW y \in Seq(AnyCall)
  PROVE  /\ Sync \in Seq(AnyCall) /\ Sync \o y \in Seq(AnyCall) /\ Sync \o y # <<>>
         /\ Head(Sync \o y) = <<"synchronize", 1>> /\ Tail(Sync \o y) = y
<1>1. Sync \in Seq(AnyCall) /\ Sync # <<>> /\ Head(Sync) = <<"synchronize", 1>> /\ Tail(Sync) = <<>>
  BY DEF Sync, Call, AnyCall
<1>. HIDE DEF Sync
<1>2. /\ Sync \o y # <<>> /\ Head(Sync \o y) = Head(Sync) /\ Tail(Sync \o y) = Tail(Sync) \o y
      /\ Sync \o y \in Seq(AnyCall)
  BY <1>1, FirstOfConcat, JoinFacts
<1>3. <<>> \o y = y
  BY ConcatEmptySeq
<1>. QED
  BY <1>1, <1>2, <1>3

\* Host calls are told from the device's.
LEMMA UpToHead ==
  ASSUME NEW y \in Seq(AnyCall), NEW x \in Seq(DeviceCall), NEW p, p = x \o (Sync \o y)
  PROVE  /\ p # <<>> /\ p \in Seq(AnyCall)
         /\ x = <<>> => Head(p) = <<"synchronize", 1>> /\ Tail(p) = y
         /\ x # <<>> => /\ Head(p) = Head(x) /\ Head(x) \in DeviceCall
                        /\ Tail(x) \in Seq(DeviceCall)
                        /\ Tail(p) = Tail(x) \o (Sync \o y)
<1>. DEFINE z == Sync \o y
<1>1. z \in Seq(AnyCall) /\ z # <<>> /\ Head(z) = <<"synchronize", 1>> /\ Tail(z) = y
  BY SyncFacts
<1>2. x \in Seq(AnyCall)
  <2>1. DeviceCall \subseteq AnyCall
    BY DEF DeviceCall, AnyCall
  <2>. QED
    BY <2>1, SeqMonotonic
<1>3. p = x \o z
  OBVIOUS
<1>. HIDE DEF z
<1>4. p \in Seq(AnyCall)
  BY <1>1, <1>2, <1>3, ConcatProperties
<1>5. CASE x = <<>>
  <2>1. p = z
    BY <1>1, <1>3, <1>5, ConcatEmptySeq
  <2>. QED
    BY <1>1, <1>4, <1>5, <2>1
<1>6. CASE x # <<>>
  <2>1. p # <<>> /\ Head(p) = Head(x) /\ Tail(p) = Tail(x) \o z
    BY <1>1, <1>2, <1>3, <1>6, FirstOfConcat
  <2>2. Head(x) \in DeviceCall /\ Tail(x) \in Seq(DeviceCall)
    BY <1>6, HeadTailProperties
  <2>. QED
    BY <1>4, <1>6, <2>1, <2>2 DEF z
<1>. QED
  BY <1>5, <1>6

\* Three parts of a run.
Parts(a, w, m) == a \in Seq(DeviceCall) /\ w \in Seq(DeviceCall) /\ m \in Seq(DeviceCall)

LEMMA Joined ==
  ASSUME NEW a \in Seq(DeviceCall), NEW b \in Seq(DeviceCall)
  PROVE  a \o b \in Seq(DeviceCall)
BY JoinFacts

LEMMA Regroup ==
  ASSUME NEW a, NEW b, NEW c, Parts(a, b, c)
  PROVE  (a \o b) \o c = a \o (b \o c)
BY ConcatAssociative DEF Parts

LEMMA NoneJoined ==
  ASSUME NEW a \in Seq(DeviceCall)
  PROVE  a \o <<>> = a /\ <<>> \o a = a
BY ConcatEmptySeq

LEMMA EnqueueKeeps ==
  ASSUME NEW y \in Seq(AnyCall), NEW total, NEW t \in Seq(TraceEntry), NEW s \in Seq(DeviceCall),
         NEW p, UpTo(p, Handed(t, s), y, total), Head(p)[1] \in DeviceOps
  PROVE  Head(p) \in DeviceCall /\ UpTo(Tail(p), Handed(t, Append(s, Head(p))), y, total)
<1>. DEFINE h == Handed(t, s)
<1>1. PICK x \in Seq(DeviceCall) : p = x \o (Sync \o y) /\ h \o x = total
  BY DEF UpTo
<1>2. x # <<>>
  <2>1. x = <<>> => Head(p) = <<"synchronize", 1>>
    BY <1>1, UpToHead
  <2>. QED
    BY <2>1 DEF DeviceOps
<1>3. /\ Head(p) = Head(x) /\ Head(x) \in DeviceCall /\ Tail(x) \in Seq(DeviceCall)
      /\ Tail(p) = Tail(x) \o (Sync \o y)
  BY <1>1, <1>2, UpToHead
<1>. DEFINE o == <<Head(x)>>
            r == Tail(x)
<1>4. x = o \o r /\ o \in Seq(DeviceCall) /\ r \in Seq(DeviceCall)
  BY <1>2, <1>3, HeadFirst
<1>5. Calls(t) \in Seq(DeviceCall)
  BY CallsFacts
<1>6. Append(s, Head(p)) = s \o o
  BY <1>3, AppendIsConcat
<1>. DEFINE c == Calls(t)
<1>7. Handed(t, Append(s, Head(p))) = c \o (s \o o) /\ h = c \o s
  BY <1>6 DEF Handed
<1>8. c \in Seq(DeviceCall) /\ s \in Seq(DeviceCall)
  BY <1>5
<1>9. Tail(p) = r \o (Sync \o y)
  BY <1>3
<1>. HIDE DEF o, r, c, h
<1>10. c \o (s \o o) = (c \o s) \o o /\ c \o s \in Seq(DeviceCall)
  <2>1. Parts(c, s, o)
    BY <1>4, <1>8 DEF Parts
  <2>. QED
    BY <1>8, <2>1, Regroup, Joined
<1>11. ((c \o s) \o o) \o r = (c \o s) \o (o \o r)
  <2>. DEFINE d == c \o s
  <2>1. Parts(d, o, r)
    BY <1>4, <1>10 DEF Parts
  <2>. HIDE DEF d
  <2>2. (d \o o) \o r = d \o (o \o r)
    BY <2>1, Regroup
  <2>. QED
    BY <2>2 DEF d
<1>12. Handed(t, Append(s, Head(p))) \o r = total
  BY <1>1, <1>4, <1>7, <1>10, <1>11
<1>. QED
  BY <1>3, <1>4, <1>9, <1>12 DEF UpTo

\* At the host's next wait nothing is left on the stream.
LEMMA SyncReached ==
  ASSUME NEW y \in Seq(AnyCall), NEW total, NEW t \in Seq(TraceEntry),
         NEW p, UpTo(p, Handed(t, <<>>), y, total), Head(p)[1] = "synchronize"
  PROVE  Tail(p) = y /\ Calls(t) = total
<1>1. PICK x \in Seq(DeviceCall) : p = x \o (Sync \o y) /\ Handed(t, <<>>) \o x = total
  BY DEF UpTo
<1>2. x = <<>>
  <2>1. x # <<>> => Head(p) \in DeviceCall
    BY <1>1, UpToHead
  <2>. QED
    BY <2>1 DEF DeviceCall, DeviceOps
<1>3. Calls(t) \in Seq(DeviceCall)
  BY CallsFacts
<1>4. (Calls(t) \o <<>>) \o <<>> = Calls(t)
  BY <1>3, NoneJoined
<1>. QED
  BY <1>1, <1>2, <1>4, UpToHead DEF Handed

LEMMA ExecuteKeeps ==
  ASSUME NEW t \in Seq(TraceEntry), NEW s \in Seq(DeviceCall), s # <<>>,
         NEW e \in TraceEntry, e.call = Head(s)
  PROVE  Handed(Append(t, e), Tail(s)) = Handed(t, s)
<1>. DEFINE c == Calls(t)
            o == <<Head(s)>>
            r == Tail(s)
<1>1. s = o \o r /\ o \in Seq(DeviceCall) /\ r \in Seq(DeviceCall)
  BY HeadFirst, HeadTailProperties
<1>2. c \in Seq(DeviceCall) /\ Calls(Append(t, e)) = c \o o
  BY CallsFacts, CallsAppend
<1>. HIDE DEF c, o
<1>. HIDE DEF r
<1>3. (c \o o) \o r = c \o (o \o r)
  <2>1. Parts(c, o, r)
    BY <1>1, <1>2 DEF Parts
  <2>. QED
    BY <2>1, Regroup
<1>. QED
  BY <1>1, <1>2, <1>3 DEF Handed, c, r

\* The host still has calls to make until it has waited.
LEMMA UpToWaits ==
  ASSUME NEW y \in Seq(AnyCall), NEW total, NEW h, NEW p, UpTo(p, h, y, total)
  PROVE  p # <<>> /\ Head(p)[1] # "compare" /\ Head(p)[1] \in DeviceOps \cup {"synchronize"}
<1>1. PICK x \in Seq(DeviceCall) : p = x \o (Sync \o y)
  BY DEF UpTo
<1>2. p # <<>> /\ (Head(p) = <<"synchronize", 1>> \/ Head(p) \in DeviceCall)
  BY <1>1, UpToHead
<1>. QED
  BY <1>2 DEF DeviceCall, DeviceOps

\* A prefix of a guarded order is guarded.
LEMMA GuardedPrefix ==
  ASSUME NEW cs, NEW s \in Seq(DeviceCall), NEW x \in Seq(DeviceCall), Guarded(cs, s \o x)
  PROVE  Guarded(cs, s)
<1>. DEFINE u == s \o x
            a == Len(s)
<1>1. /\ u \in Seq(DeviceCall) /\ Len(u) = a + Len(x) /\ a \in Nat /\ Len(x) \in Nat
      /\ \A i \in 1 .. a : u[i] = s[i]
  BY JoinFacts
<1>2. \A i \in 1 .. Len(u) :
       /\ u[i][1] = "launch" => /\ u[i][2] \in 1 .. Len(cs)
                                /\ HasQueue(cs[u[i][2]]) => FreshAt(u, i)
       /\ u[i][1] = "reset" => Len(cs) = 1 /\ HasQueue(cs[1]) /\ u[i][2] = 1
  BY DEF Guarded
<1>. HIDE DEF u
<1>3. ASSUME NEW i \in 1 .. a
      PROVE  /\ s[i][1] = "launch" => /\ s[i][2] \in 1 .. Len(cs)
                                      /\ HasQueue(cs[s[i][2]]) => FreshAt(s, i)
             /\ s[i][1] = "reset" => Len(cs) = 1 /\ HasQueue(cs[1]) /\ s[i][2] = 1
  <2>1. i \in 1 .. Len(u) /\ u[i] = s[i]
    BY <1>1
  <2>2. (i > 1 => u[i - 1] = s[i - 1]) /\ (i > 2 => u[i - 2] = s[i - 2])
    <3>1. (i > 1 => i - 1 \in 1 .. a) /\ (i > 2 => i - 2 \in 1 .. a)
      BY <1>1
    <3>. QED
      BY <1>1, <3>1
  <2>3. FreshAt(u, i) => FreshAt(s, i)
    <3>1. i > 2 => i > 1
      BY <1>1
    <3>. QED
      BY <2>2, <3>1 DEF FreshAt
  <2>. QED
    BY <1>2, <2>1, <2>3
<1>. QED
  BY <1>3 DEF Guarded, a

Compared == <<Call("compare", 1)>>

\* After the comparison: the warm-up w, a wait, the timed part m, a wait; or nothing.
Remaining(w, m, correctnessOnly) ==
  IF correctnessOnly THEN <<>> ELSE w \o (Sync \o (m \o (Sync \o <<>>)))

Everything(a, w, m, correctnessOnly) == IF correctnessOnly THEN a ELSE (a \o w) \o m

\* Where a run that first hands over a, then w and m, has come to: p is what the host
\* has still to call, t what the device has executed, s what it has not.
Progress(a, w, m, correctnessOnly, p, t, s) ==
  \/ UpTo(p, Handed(t, s), Compared \o Remaining(w, m, correctnessOnly), a)
  \/ p = Compared \o Remaining(w, m, correctnessOnly) /\ s = <<>> /\ Calls(t) = a
  \/ ~correctnessOnly /\ UpTo(p, Handed(t, s), m \o (Sync \o <<>>), a \o w)
  \/ ~correctnessOnly /\ UpTo(p, Handed(t, s), <<>>, (a \o w) \o m)
  \/ p = <<>> /\ s = <<>> /\ Calls(t) = Everything(a, w, m, correctnessOnly)

LEMMA PartsFacts ==
  ASSUME NEW a, NEW w, NEW m, NEW co, Parts(a, w, m)
  PROVE  /\ m \o (Sync \o <<>>) \in Seq(AnyCall) /\ Remaining(w, m, co) \in Seq(AnyCall)
         /\ Compared \o Remaining(w, m, co) \in Seq(AnyCall) /\ <<>> \in Seq(AnyCall)
         /\ Compared \o Remaining(w, m, co) # <<>>
         /\ Head(Compared \o Remaining(w, m, co)) = <<"compare", 1>>
         /\ Tail(Compared \o Remaining(w, m, co)) = Remaining(w, m, co)
<1>1. w \in Seq(AnyCall) /\ m \in Seq(AnyCall) /\ <<>> \in Seq(AnyCall)
  <2>1. DeviceCall \subseteq AnyCall
    BY DEF DeviceCall, AnyCall
  <2>. QED
    BY <2>1, SeqMonotonic DEF Parts
<1>. DEFINE z == Sync \o <<>>
            y == m \o z
            x == Sync \o y
            r == Remaining(w, m, co)
<1>2. z \in Seq(AnyCall)
  BY <1>1, SyncFacts
<1>3. y \in Seq(AnyCall)
  <2>. HIDE DEF z
  <2>. QED
    BY <1>1, <1>2, JoinFacts
<1>4. x \in Seq(AnyCall)
  <2>. HIDE DEF y
  <2>. QED
    BY <1>3, SyncFacts
<1>5. r \in Seq(AnyCall)
  <2>. HIDE DEF x
  <2>1. w \o x \in Seq(AnyCall)
    BY <1>1, <1>4, JoinFacts
  <2>. QED
    BY <1>1, <2>1 DEF Remaining, x
<1>. DEFINE c == Compared
<1>6. c \in Seq(AnyCall) /\ c # <<>> /\ Head(c) = <<"compare", 1>> /\ Tail(c) = <<>>
  BY DEF Compared, Call, AnyCall
<1>. HIDE DEF c, r
<1>7. /\ c \o r # <<>> /\ Head(c \o r) = Head(c) /\ Tail(c \o r) = Tail(c) \o r
      /\ c \o r \in Seq(AnyCall)
  BY <1>5, <1>6, FirstOfConcat, JoinFacts
<1>8. <<>> \o r = r
  BY <1>5, ConcatEmptySeq
<1>. QED
  BY <1>1, <1>3, <1>5, <1>6, <1>7, <1>8 DEF c, r

LEMMA ProgressStart ==
  ASSUME NEW a, NEW w, NEW m, NEW co, Parts(a, w, m)
  PROVE  Progress(a, w, m, co, a \o (Sync \o (Compared \o Remaining(w, m, co))), <<>>, <<>>)
<1>1. <<>> \in Seq(TraceEntry) /\ a \in Seq(DeviceCall)
  BY DEF Parts
<1>2. Calls(<<>>) \in Seq(DeviceCall) /\ Len(Calls(<<>>)) = 0
  <2>1. Len(<<>>) = 0
    OBVIOUS
  <2>. QED
    BY <1>1, <2>1, CallsFacts
<1>3. Calls(<<>>) = <<>>
  BY <1>2, EmptySeq
<1>4. Handed(<<>>, <<>>) \o a = a
  <2>1. <<>> \in Seq(DeviceCall)
    OBVIOUS
  <2>2. <<>> \o <<>> = <<>> /\ <<>> \o a = a
    BY <1>1, <2>1, NoneJoined
  <2>. QED
    BY <1>3, <2>2 DEF Handed
<1>. DEFINE y == Compared \o Remaining(w, m, co)
<1>5. UpTo(a \o (Sync \o y), Handed(<<>>, <<>>), y, a)
  BY <1>1, <1>4 DEF UpTo
<1>. QED
  BY <1>5 DEF Progress

LEMMA ProgressEnqueue ==
  ASSUME NEW a, NEW w, NEW m, NEW co, Parts(a, w, m), NEW p, NEW t \in Seq(TraceEntry),
         NEW s \in Seq(DeviceCall), Progress(a, w, m, co, p, t, s),
         p # <<>>, Head(p)[1] \in DeviceOps
  PROVE  /\ Head(p) \in DeviceCall
         /\ Progress(a, w, m, co, Tail(p), t, Append(s, Head(p)))
<1>. DEFINE y == Compared \o Remaining(w, m, co)
            z == m \o (Sync \o <<>>)
<1>1. y \in Seq(AnyCall) /\ z \in Seq(AnyCall) /\ <<>> \in Seq(AnyCall) /\ Head(y) = <<"compare", 1>>
  BY PartsFacts
<1>2. Head(p) # <<"compare", 1>>
  BY DEF DeviceOps
<1>3. \/ UpTo(p, Handed(t, s), y, a)
      \/ ~co /\ UpTo(p, Handed(t, s), z, a \o w)
      \/ ~co /\ UpTo(p, Handed(t, s), <<>>, (a \o w) \o m)
  BY <1>1, <1>2 DEF Progress
<1>. HIDE DEF y, z
<1>. DEFINE q == Tail(p)
            h == Handed(t, Append(s, Head(p)))
<1>4. CASE UpTo(p, Handed(t, s), y, a)
  <2>1. Head(p) \in DeviceCall /\ UpTo(q, h, y, a)
    BY <1>1, <1>4, EnqueueKeeps
  <2>. QED
    BY <2>1 DEF Progress, y
<1>5. CASE ~co /\ UpTo(p, Handed(t, s), z, a \o w)
  <2>1. Head(p) \in DeviceCall /\ UpTo(q, h, z, a \o w)
    BY <1>1, <1>5, EnqueueKeeps
  <2>. QED
    BY <1>5, <2>1 DEF Progress, z
<1>6. CASE ~co /\ UpTo(p, Handed(t, s), <<>>, (a \o w) \o m)
  <2>1. Head(p) \in DeviceCall /\ UpTo(q, h, <<>>, (a \o w) \o m)
    BY <1>1, <1>6, EnqueueKeeps
  <2>. QED
    BY <1>6, <2>1 DEF Progress
<1>. QED
  BY <1>3, <1>4, <1>5, <1>6

LEMMA ProgressSync ==
  ASSUME NEW a, NEW w, NEW m, NEW co, Parts(a, w, m), NEW p, NEW t \in Seq(TraceEntry),
         Progress(a, w, m, co, p, t, <<>>), p # <<>>, Head(p)[1] = "synchronize"
  PROVE  Progress(a, w, m, co, Tail(p), t, <<>>)
<1>. DEFINE y == Compared \o Remaining(w, m, co)
            z == m \o (Sync \o <<>>)
<1>1. /\ y \in Seq(AnyCall) /\ z \in Seq(AnyCall) /\ <<>> \in Seq(AnyCall)
      /\ Head(y) = <<"compare", 1>>
  BY PartsFacts
<1>2. Head(p) # <<"compare", 1>>
  OBVIOUS
<1>3. \/ UpTo(p, Handed(t, <<>>), y, a)
      \/ ~co /\ UpTo(p, Handed(t, <<>>), z, a \o w)
      \/ ~co /\ UpTo(p, Handed(t, <<>>), <<>>, (a \o w) \o m)
  BY <1>1, <1>2 DEF Progress
<1>. HIDE DEF y, z
<1>. DEFINE q == Tail(p)
<1>4. CASE UpTo(p, Handed(t, <<>>), y, a)
  <2>1. q = y /\ Calls(t) = a
    BY <1>1, <1>4, SyncReached
  <2>. QED
    BY <2>1 DEF Progress, y
<1>5. CASE ~co /\ UpTo(p, Handed(t, <<>>), z, a \o w)
  <2>1. q = z /\ Calls(t) = a \o w
    BY <1>1, <1>5, SyncReached
  <2>2. Handed(t, <<>>) = a \o w
    <3>1. Calls(t) \in Seq(DeviceCall)
      BY CallsFacts
    <3>2. Calls(t) \o <<>> = Calls(t)
      BY <3>1, NoneJoined
    <3>. QED
      BY <2>1, <3>2 DEF Handed
  <2>3. UpTo(z, Handed(t, <<>>), <<>>, (a \o w) \o m)
    BY <2>2 DEF UpTo, Parts, z
  <2>. QED
    BY <1>5, <2>1, <2>3 DEF Progress
<1>6. CASE ~co /\ UpTo(p, Handed(t, <<>>), <<>>, (a \o w) \o m)
  <2>1. q = <<>> /\ Calls(t) = (a \o w) \o m
    BY <1>1, <1>6, SyncReached
  <2>. QED
    BY <1>6, <2>1 DEF Progress, Everything
<1>. QED
  BY <1>3, <1>4, <1>5, <1>6

LEMMA ProgressCompare ==
  ASSUME NEW a, NEW w, NEW m, NEW co, Parts(a, w, m), NEW p, NEW t \in Seq(TraceEntry),
         NEW s \in Seq(DeviceCall), Progress(a, w, m, co, p, t, s),
         p # <<>>, Head(p)[1] = "compare"
  PROVE  s = <<>> /\ Calls(t) = a /\ Progress(a, w, m, co, Tail(p), t, s)
<1>. DEFINE r == Remaining(w, m, co)
            y == Compared \o r
            z == m \o (Sync \o <<>>)
<1>1. /\ y \in Seq(AnyCall) /\ z \in Seq(AnyCall) /\ <<>> \in Seq(AnyCall) /\ Tail(y) = r
  BY PartsFacts
<1>2. p = y /\ s = <<>> /\ Calls(t) = a
  BY <1>1, UpToWaits DEF Progress
<1>3. Tail(p) = r
  BY <1>1, <1>2
<1>4. CASE co
  BY <1>2, <1>3, <1>4 DEF Progress, Remaining, Everything
<1>5. CASE ~co
  <2>1. Handed(t, <<>>) = a
    <3>1. a \in Seq(DeviceCall)
      BY DEF Parts
    <3>2. a \o <<>> = a
      BY <3>1, NoneJoined
    <3>. QED
      BY <1>2, <3>2 DEF Handed
  <2>2. r = w \o (Sync \o z)
    BY <1>5 DEF Remaining
  <2>. HIDE DEF r, z
  <2>3. UpTo(r, Handed(t, <<>>), z, a \o w)
    BY <2>1, <2>2 DEF UpTo, Parts
  <2>. DEFINE q == Tail(p)
  <2>4. q = r
    BY <1>3
  <2>. HIDE DEF q
  <2>. QED
    BY <1>2, <1>5, <2>3, <2>4 DEF Progress, z, q
<1>. QED
  BY <1>4, <1>5

LEMMA ProgressExecute ==
  ASSUME NEW a, NEW w, NEW m, NEW co, Parts(a, w, m), NEW p, NEW t \in Seq(TraceEntry),
         NEW s \in Seq(DeviceCall), Progress(a, w, m, co, p, t, s),
         s # <<>>, NEW e \in TraceEntry, e.call = Head(s)
  PROVE  Progress(a, w, m, co, p, Append(t, e), Tail(s))
<1>. DEFINE h == Handed(t, s)
            g == Handed(Append(t, e), Tail(s))
<1>1. g = h
  BY ExecuteKeeps
<1>2. \/ UpTo(p, h, Compared \o Remaining(w, m, co), a)
      \/ ~co /\ UpTo(p, h, m \o (Sync \o <<>>), a \o w)
      \/ ~co /\ UpTo(p, h, <<>>, (a \o w) \o m)
  BY DEF Progress
<1>3. \/ UpTo(p, g, Compared \o Remaining(w, m, co), a)
      \/ ~co /\ UpTo(p, g, m \o (Sync \o <<>>), a \o w)
      \/ ~co /\ UpTo(p, g, <<>>, (a \o w) \o m)
  <2>. HIDE DEF g, h
  <2>. QED
    BY <1>1, <1>2
<1>. QED
  BY <1>3 DEF Progress

LEMMA ProgressEnd ==
  ASSUME NEW a, NEW w, NEW m, NEW co, Parts(a, w, m), NEW t, NEW s,
         Progress(a, w, m, co, <<>>, t, s)
  PROVE  Calls(t) = Everything(a, w, m, co)
<1>. DEFINE y == Compared \o Remaining(w, m, co)
            z == m \o (Sync \o <<>>)
            h == Handed(t, s)
<1>1. y \in Seq(AnyCall) /\ z \in Seq(AnyCall) /\ <<>> \in Seq(AnyCall) /\ y # <<>>
  BY PartsFacts
<1>2. ~UpTo(<<>>, h, y, a) /\ ~UpTo(<<>>, h, z, a \o w) /\ ~UpTo(<<>>, h, <<>>, (a \o w) \o m)
  <2>. HIDE DEF y, z, h
  <2>. QED
    BY <1>1, UpToWaits
<1>. QED
  BY <1>1, <1>2 DEF Progress

LEMMA UpToGuarded ==
  ASSUME NEW cs, NEW y, NEW total, Guarded(cs, total), NEW t \in Seq(TraceEntry),
         NEW s \in Seq(DeviceCall), NEW p, UpTo(p, Handed(t, s), y, total)
  PROVE  Guarded(cs, Handed(t, s))
<1>. DEFINE c == Calls(t)
            h == c \o s
<1>1. PICK x \in Seq(DeviceCall) : h \o x = total
  BY DEF UpTo, Handed
<1>2. c \in Seq(DeviceCall)
  BY CallsFacts
<1>3. h \in Seq(DeviceCall)
  <2>. HIDE DEF c
  <2>. QED
    BY <1>2, Joined
<1>4. h = Handed(t, s)
  BY DEF Handed
<1>. HIDE DEF h
<1>. QED
  BY <1>1, <1>3, <1>4, GuardedPrefix

\* Whatever has been handed over is part of a guarded order.
LEMMA ProgressGuarded ==
  ASSUME NEW a, NEW w, NEW m, NEW co, NEW p, NEW t \in Seq(TraceEntry),
         NEW s \in Seq(DeviceCall), Progress(a, w, m, co, p, t, s),
         NEW cs, Guarded(cs, a), Guarded(cs, w), Guarded(cs, m)
  PROVE  Guarded(cs, Handed(t, s))
<1>. DEFINE c == Calls(t)
            h == Handed(t, s)
<1>1. Guarded(cs, a \o w)
  BY GuardedConcat
<1>2. Guarded(cs, (a \o w) \o m)
  <2>. DEFINE b == a \o w
  <2>1. Guarded(cs, b)
    BY <1>1
  <2>. HIDE DEF b
  <2>2. Guarded(cs, b \o m)
    BY <2>1, GuardedConcat
  <2>. QED
    BY <2>2 DEF b
<1>3. ASSUME s = <<>> PROVE h = c
  <2>1. c \in Seq(DeviceCall)
    BY CallsFacts
  <2>. HIDE DEF c
  <2>2. c \o <<>> = c
    BY <2>1, NoneJoined
  <2>. QED
    BY <1>3, <2>2 DEF Handed, c
<1>4. CASE s = <<>> /\ (c = a \/ c = Everything(a, w, m, co))
  BY <1>2, <1>3, <1>4 DEF Everything
<1>5. CASE \E y : UpTo(p, h, y, a) \/ UpTo(p, h, y, a \o w) \/ UpTo(p, h, y, (a \o w) \o m)
  BY <1>1, <1>2, <1>5, UpToGuarded
<1>. QED
  BY <1>4, <1>5 DEF Progress

------------------------------------------------------------------------------
(* What a run hands over                                                   *)

Prelude(cs) == <<Call("zero", 1)>> \o WarmBlock(cs)
WarmPart(cs) == FlattenSeq([i \in 1 .. Warmup |-> WarmBlock(cs)])
TimedPart(cs, k) == FlattenSeq([i \in 1 .. k |-> TimedBlock(cs, i)])

LEMMA PartsGuarded ==
  ASSUME NEW cs, Sound(cs), NEW k \in Nat
  PROVE  /\ Guarded(cs, Prelude(cs)) /\ Guarded(cs, WarmPart(cs)) /\ Guarded(cs, TimedPart(cs, k))
         /\ Parts(Prelude(cs), WarmPart(cs), TimedPart(cs, k))
<1>1. Guarded(cs, Prelude(cs))
  <2>1. Guarded(cs, <<Call("zero", 1)>>)
    BY GuardedOne
  <2>2. Guarded(cs, WarmBlock(cs))
    BY GuardedWarm
  <2>. QED
    BY <2>1, <2>2, GuardedConcat DEF Prelude
<1>2. Guarded(cs, WarmPart(cs))
  <2>. DEFINE s == [i \in 1 .. Warmup |-> WarmBlock(cs)]
  <2>1. Guarded(cs, WarmBlock(cs)) /\ Warmup \in Nat
    BY GuardedWarm, RunnerAssumption
  <2>2. WarmBlock(cs) \in Seq(DeviceCall)
    BY <2>1 DEF Guarded
  <2>3. Blocks(cs, Warmup, s)
    BY <2>1, <2>2 DEF Blocks
  <2>. HIDE DEF s
  <2>4. Guarded(cs, FlattenSeq(s))
    BY <2>3, GuardedFlat
  <2>. QED
    BY <2>4 DEF WarmPart, s
<1>3. Guarded(cs, TimedPart(cs, k))
  <2>. DEFINE s == [i \in 1 .. k |-> TimedBlock(cs, i)]
  <2>1. \A i \in 1 .. k : Guarded(cs, TimedBlock(cs, i))
    BY GuardedTimed
  <2>2. \A i \in 1 .. k : TimedBlock(cs, i) \in Seq(DeviceCall)
    BY <2>1 DEF Guarded
  <2>3. Blocks(cs, k, s)
    BY <2>1, <2>2 DEF Blocks
  <2>. HIDE DEF s
  <2>4. Guarded(cs, FlattenSeq(s))
    BY <2>3, GuardedFlat
  <2>. QED
    BY <2>4 DEF TimedPart, s
<1>. QED
  BY <1>1, <1>2, <1>3 DEF Parts, Guarded

\* Three parts of a program, calls to the host among them.
AnyParts(a, b, c) == a \in Seq(AnyCall) /\ b \in Seq(AnyCall) /\ c \in Seq(AnyCall)

LEMMA AnyRegroup ==
  ASSUME NEW a, NEW b, NEW c, AnyParts(a, b, c)
  PROVE  (a \o b) \o c = a \o (b \o c)
BY ConcatAssociative DEF AnyParts

\* The program the harness starts with.
LEMMA ProgramParts ==
  ASSUME NEW cs, Sound(cs), options.iterations \in Nat
  PROVE  CheckCorrectness(cs) \o (IF options.correctnessOnly THEN <<>> ELSE WarmUp(cs) \o Time(cs))
           = Prelude(cs) \o (Sync \o (Compared \o
               Remaining(WarmPart(cs), TimedPart(cs, options.iterations), options.correctnessOnly)))
<1>. DEFINE k == options.iterations
            z == <<Call("zero", 1)>>
            r == ResetHeads(cs)
            l == InvokeAll(cs)
            a == Prelude(cs)
            w == WarmPart(cs)
            m == TimedPart(cs, k)
            y == Sync
            c == Compared
            f == IF options.correctnessOnly THEN <<>> ELSE WarmUp(cs) \o Time(cs)
<1>1. WarmUp(cs) = w \o y /\ Time(cs) = m \o y
  <2>1. WarmUp(cs) = w \o y
    BY DEF WarmUp, Repeat, WarmPart, WarmBlock, Sync
  <2>2. Time(cs) = m \o y
    BY DEF Time, Repeat, TimedPart, TimedBlock, Sync
  <2>. QED
    BY <2>1, <2>2
<1>2. /\ z \in Seq(AnyCall) /\ r \in Seq(AnyCall) /\ l \in Seq(AnyCall)
      /\ a \in Seq(AnyCall) /\ w \in Seq(AnyCall) /\ m \in Seq(AnyCall)
      /\ y \in Seq(AnyCall) /\ c \in Seq(AnyCall) /\ <<>> \in Seq(AnyCall)
  <2>1. DeviceCall \subseteq AnyCall
    BY DEF DeviceCall, AnyCall
  <2>2. Seq(DeviceCall) \subseteq Seq(AnyCall)
    BY <2>1, SeqMonotonic
  <2>3. /\ z \in Seq(DeviceCall) /\ r \in Seq(DeviceCall) /\ l \in Seq(DeviceCall)
    BY OneCall, ResetsFacts, LaunchesFacts DEF DeviceOps
  <2>4. a \in Seq(DeviceCall) /\ w \in Seq(DeviceCall) /\ m \in Seq(DeviceCall)
    BY PartsGuarded DEF Parts
  <2>5. y \in Seq(AnyCall) /\ c \in Seq(AnyCall) /\ <<>> \in Seq(AnyCall)
    BY DEF Sync, Compared, Call, AnyCall
  <2>. HIDE DEF z, r, l, a, w, m, y, c
  <2>. QED
    BY <2>2, <2>3, <2>4, <2>5
<1>3. CheckCorrectness(cs) = ((z \o r) \o l) \o <<Call("synchronize", 1), Call("compare", 1)>>
  BY DEF CheckCorrectness
<1>4. <<Call("synchronize", 1), Call("compare", 1)>> = y \o c
  BY DEF Sync, Compared
<1>5. a = z \o (r \o l)
  BY DEF Prelude, WarmBlock
<1>6. f \in Seq(AnyCall) /\ f = Remaining(w, m, options.correctnessOnly)
  <2>1. y \o <<>> = y
    BY <1>2, ConcatEmptySeq
  <2>2. m \o y \in Seq(AnyCall) /\ w \o (y \o (m \o y)) = (w \o y) \o (m \o y)
        /\ w \o y \in Seq(AnyCall)
    <3>. HIDE DEF w, m, y
    <3>1. m \o y \in Seq(AnyCall) /\ w \o y \in Seq(AnyCall)
      BY <1>2, JoinFacts
    <3>. DEFINE b == m \o y
    <3>2. AnyParts(w, y, b)
      BY <1>2, <3>1 DEF AnyParts
    <3>. HIDE DEF b
    <3>3. (w \o y) \o b = w \o (y \o b)
      BY <3>2, AnyRegroup
    <3>. QED
      BY <3>1, <3>3 DEF b
  <2>3. (w \o y) \o (m \o y) \in Seq(AnyCall)
    <3>. DEFINE b == m \o y
                d == w \o y
    <3>1. b \in Seq(AnyCall) /\ d \in Seq(AnyCall)
      BY <2>2
    <3>. HIDE DEF b, d
    <3>2. d \o b \in Seq(AnyCall)
      BY <3>1, JoinFacts
    <3>. QED
      BY <3>2 DEF b, d
  <2>. HIDE DEF w, m
  <2>4. f = IF options.correctnessOnly THEN <<>> ELSE (w \o y) \o (m \o y)
    BY <1>1
  <2>5. Remaining(w, m, options.correctnessOnly)
          = IF options.correctnessOnly THEN <<>> ELSE w \o (y \o (m \o (y \o <<>>)))
    BY DEF Remaining
  <2>. HIDE DEF f, y
  <2>6. CASE options.correctnessOnly
    BY <1>2, <2>4, <2>5, <2>6
  <2>7. CASE ~options.correctnessOnly
    <3>1. f = (w \o y) \o (m \o y)
      BY <2>4, <2>7
    <3>2. Remaining(w, m, options.correctnessOnly) = w \o (y \o (m \o y))
      BY <2>1, <2>5, <2>7
    <3>. QED
      BY <2>2, <2>3, <3>1, <3>2
  <2>. QED
    BY <2>6, <2>7
<1>. HIDE DEF z, r, l, a, w, m, y, c, f
<1>7. (z \o r) \o l = a
  <2>1. AnyParts(z, r, l)
    BY <1>2 DEF AnyParts
  <2>2. (z \o r) \o l = z \o (r \o l)
    BY <2>1, AnyRegroup
  <2>. QED
    BY <1>5, <2>2
<1>8. (y \o c) \o f = y \o (c \o f) /\ y \o c \in Seq(AnyCall)
  <2>1. AnyParts(y, c, f)
    BY <1>2, <1>6 DEF AnyParts
  <2>2. (y \o c) \o f = y \o (c \o f)
    BY <2>1, AnyRegroup
  <2>3. y \o c \in Seq(AnyCall)
    BY <1>2, <1>6, JoinFacts
  <2>. QED
    BY <2>2, <2>3
<1>9. (a \o (y \o c)) \o f = a \o ((y \o c) \o f)
  <2>. DEFINE b == y \o c
  <2>1. AnyParts(a, b, f)
    BY <1>2, <1>6, <1>8 DEF AnyParts
  <2>. HIDE DEF b
  <2>2. (a \o b) \o f = a \o (b \o f)
    BY <2>1, AnyRegroup
  <2>. QED
    BY <2>2 DEF b
<1>10. CheckCorrectness(cs) \o f = a \o (y \o (c \o f))
  BY <1>3, <1>4, <1>7, <1>8, <1>9
<1>. QED
  BY <1>6, <1>10 DEF f, a, y, c, w, m, k

\* Before the comparison D is zeroed once, and every kernel is launched after that.
LEMMA PreludeLaunches ==
  ASSUME NEW cs, Sound(cs), NEW i \in 1 .. Len(cs)
  PROVE  \E j \in 1 .. Len(Prelude(cs)) :
           /\ Prelude(cs)[j] = <<"launch", i>>
           /\ \A l \in j + 1 .. Len(Prelude(cs)) : Prelude(cs)[l][1] # "zero"
<1>. DEFINE r == ResetHeads(cs)
            s == InvokeAll(cs)
            k == Len(cs)
            z == <<Call("zero", 1)>>
            b == r \o s
            u == z \o b
<1>1. /\ s \in Seq(DeviceCall) /\ Len(s) = k /\ k \in Nat
      /\ \A j \in 1 .. k : s[j] = <<"launch", j>>
      /\ r \in Seq(DeviceCall)
  BY LaunchesFacts, ResetsFacts
<1>2. z \in Seq(DeviceCall) /\ Len(z) = 1
  BY OneCall DEF DeviceOps
<1>3. i \in 1 .. k
  OBVIOUS
<1>. HIDE DEF r, s, z, k
<1>4. /\ b \in Seq(DeviceCall) /\ Len(b) = Len(r) + Len(s) /\ Len(r) \in Nat
      /\ \A j \in 1 .. Len(s) : b[Len(r) + j] = s[j]
  <2>1. r \in Seq(DeviceCall) /\ s \in Seq(DeviceCall)
    BY <1>1
  <2>. QED
    BY <2>1, JoinFacts
<1>. HIDE DEF b
<1>5. /\ u \in Seq(DeviceCall) /\ Len(u) = Len(z) + Len(b)
      /\ \A j \in 1 .. Len(b) : u[Len(z) + j] = b[j]
  <2>1. z \in Seq(DeviceCall) /\ b \in Seq(DeviceCall)
    BY <1>2, <1>4
  <2>. QED
    BY <2>1, JoinFacts
<1>6. u = Prelude(cs)
  BY DEF Prelude, WarmBlock, z, b, r, s
<1>. HIDE DEF u
<1>. DEFINE h == Len(r) + 1
<1>7. ASSUME NEW j \in 1 .. k PROVE u[h + j] = <<"launch", j>> /\ h + j \in 1 .. Len(u)
  <2>1. Len(r) + j \in 1 .. Len(b) /\ 1 + (Len(r) + j) = h + j
    BY <1>1, <1>4
  <2>2. u[1 + (Len(r) + j)] = b[Len(r) + j]
    BY <1>2, <1>5, <2>1
  <2>3. b[Len(r) + j] = s[j]
    BY <1>1, <1>4
  <2>. QED
    BY <1>1, <1>2, <1>4, <1>5, <2>1, <2>2, <2>3
<1>8. Len(u) = h + k /\ h \in Nat
  BY <1>1, <1>2, <1>4, <1>5
<1>. HIDE DEF h
<1>9. ASSUME NEW l \in h + i + 1 .. Len(u) PROVE u[l][1] # "zero"
  <2>1. l - h \in 1 .. k /\ h + (l - h) = l
    BY <1>1, <1>3, <1>8
  <2>2. u[h + (l - h)] = <<"launch", l - h>>
    BY <1>7, <2>1
  <2>. QED
    BY <2>1, <2>2
<1>. QED
  BY <1>3, <1>6, <1>7, <1>9

------------------------------------------------------------------------------
(* The calls between two events                                            *)

\* u is a contiguous part of s.
Within(s, u) == \E a, b : Parts(a, u, b) /\ s = a \o (u \o b)

LEMMA Around ==
  ASSUME NEW a, NEW u, NEW b, NEW t, Parts(a, u, b), t \in Seq(DeviceCall)
  PROVE  /\ (a \o (u \o b)) \o t = a \o (u \o (b \o t))
         /\ t \o (a \o (u \o b)) = (t \o a) \o (u \o b)
         /\ b \o t \in Seq(DeviceCall) /\ t \o a \in Seq(DeviceCall)
<1>. DEFINE v == u \o b
<1>1. a \in Seq(DeviceCall) /\ u \in Seq(DeviceCall) /\ b \in Seq(DeviceCall)
  BY DEF Parts
<1>2. v \in Seq(DeviceCall) /\ b \o t \in Seq(DeviceCall) /\ t \o a \in Seq(DeviceCall)
  BY <1>1, Joined
<1>3. v \o t = u \o (b \o t)
  <2>1. Parts(u, b, t)
    BY <1>1 DEF Parts
  <2>. QED
    BY <2>1, Regroup
<1>. HIDE DEF v
<1>4. (a \o v) \o t = a \o (v \o t)
  <2>1. Parts(a, v, t)
    BY <1>1, <1>2 DEF Parts
  <2>. QED
    BY <2>1, Regroup
<1>5. (t \o a) \o v = t \o (a \o v)
  <2>1. Parts(t, a, v)
    BY <1>1, <1>2 DEF Parts
  <2>. QED
    BY <2>1, Regroup
<1>. QED
  BY <1>2, <1>3, <1>4, <1>5 DEF v

LEMMA WithinConcat ==
  ASSUME NEW s, NEW t, NEW u, t \in Seq(DeviceCall), Within(s, u)
  PROVE  Within(s \o t, u) /\ Within(t \o s, u)
<1>1. PICK a, b : Parts(a, u, b) /\ s = a \o (u \o b)
  BY DEF Within
<1>2. /\ s \o t = a \o (u \o (b \o t)) /\ t \o s = (t \o a) \o (u \o b)
      /\ b \o t \in Seq(DeviceCall) /\ t \o a \in Seq(DeviceCall)
  <2>1. Parts(a, u, b) /\ t \in Seq(DeviceCall)
    BY <1>1
  <2>2. /\ (a \o (u \o b)) \o t = a \o (u \o (b \o t))
        /\ t \o (a \o (u \o b)) = (t \o a) \o (u \o b)
        /\ b \o t \in Seq(DeviceCall) /\ t \o a \in Seq(DeviceCall)
    BY <2>1, Around
  <2>. QED
    BY <1>1, <2>2
<1>3. Parts(a, u, b \o t) /\ Parts(t \o a, u, b)
  BY <1>1, <1>2 DEF Parts
<1>. QED
  BY <1>2, <1>3 DEF Within

\* Every iteration's calls are in the timed part, together.
LEMMA TimedTogether ==
  ASSUME NEW cs, Sound(cs), NEW k \in Nat, NEW i \in 1 .. k
  PROVE  Within(TimedPart(cs, k), Timed(cs, i))
<1>. DEFINE G == {m \in Nat : \A j \in 1 .. m : Within(TimedPart(cs, m), Timed(cs, j))}
<1>1. 0 \in G
  OBVIOUS
<1>2. ASSUME NEW m \in G PROVE m + 1 \in G
  <2>. DEFINE s == [j \in 1 .. m + 1 |-> TimedBlock(cs, j)]
              q == [j \in 1 .. m |-> TimedBlock(cs, j)]
              p == TimedPart(cs, m)
              r == ResetHeads(cs)
              d == m + 1
              b == TimedBlock(cs, d)
  <2>1. m \in Nat /\ \A j \in 1 .. m : Within(p, Timed(cs, j))
    OBVIOUS
  <2>2. \A j \in 1 .. m + 1 : TimedBlock(cs, j) \in Seq(DeviceCall)
    BY <2>1, GuardedTimed DEF Guarded
  <2>. HIDE DEF G
  <2>3. AllButLast(q, s, m, DeviceCall)
    <3>1. s \in [1 .. m + 1 -> Seq(DeviceCall)] /\ q = [j \in 1 .. m |-> s[j]]
      BY <2>1, <2>2
    <3>. HIDE DEF q, s
    <3>. QED
      BY <2>1, <3>1 DEF AllButLast
  <2>4. s[d] = b /\ d \in 1 .. d /\ d \in Nat
    BY <2>1
  <2>5. TimedPart(cs, d) = FlattenSeq(s) /\ p = FlattenSeq(q)
    BY DEF TimedPart
  <2>. HIDE DEF q, s
  <2>6. TimedPart(cs, d) = p \o b
    BY <2>3, <2>4, <2>5, FlattenStep
  <2>7. p \in Seq(DeviceCall) /\ b \in Seq(DeviceCall)
    BY <2>1, <2>2, <2>4, PartsGuarded DEF Parts
  <2>8. /\ Timed(cs, d) \in Seq(DeviceCall) /\ b = r \o Timed(cs, d) /\ r \in Seq(DeviceCall)
    BY <2>4, TimedFacts, ResetsFacts
  <2>. HIDE DEF p, b, r, d
  <2>9. Within(b, Timed(cs, d))
    <3>. DEFINE u == Timed(cs, d)
    <3>1. u \in Seq(DeviceCall) /\ <<>> \in Seq(DeviceCall) /\ u \o <<>> = u /\ b = r \o u
      BY <2>8, NoneJoined
    <3>. HIDE DEF u
    <3>2. b = r \o (u \o <<>>)
      BY <3>1
    <3>3. Parts(r, u, <<>>)
      BY <2>8, <3>1 DEF Parts
    <3>4. Within(b, u)
      BY <3>2, <3>3 DEF Within
    <3>. QED
      BY <3>4 DEF u
  <2>10. Within(p \o b, Timed(cs, d))
    BY <2>7, <2>8, <2>9, WithinConcat
  <2>11. ASSUME NEW j \in 1 .. m PROVE Within(p \o b, Timed(cs, j))
    <3>1. Timed(cs, j) \in Seq(DeviceCall) /\ Within(p, Timed(cs, j))
      BY <2>1, TimedFacts
    <3>. QED
      BY <2>7, <3>1, WithinConcat
  <2>12. \A j \in 1 .. d : j = d \/ j \in 1 .. m
    BY <2>1 DEF d
  <2>13. \A j \in 1 .. d : Within(TimedPart(cs, d), Timed(cs, j))
    BY <2>6, <2>10, <2>11, <2>12
  <2>. QED
    BY <2>1, <2>13 DEF G, d
<1>3. k \in G
  <2>. HIDE DEF G
  <2>1. G \subseteq Nat
    BY DEF G
  <2>. QED
    BY <1>1, <1>2, <2>1, AllOfNat
<1>. QED
  BY <1>3

LEMMA WithinAt ==
  ASSUME NEW s \in Seq(DeviceCall), NEW u \in Seq(DeviceCall), Len(u) > 0, Within(s, u)
  PROVE  \E j \in 1 .. Len(s) : /\ j + Len(u) - 1 =< Len(s)
                                /\ \A l \in 1 .. Len(u) : s[j + l - 1] = u[l]
<1>1. PICK a \in Seq(DeviceCall), b \in Seq(DeviceCall) : s = a \o (u \o b)
  BY DEF Within, Parts
<1>. DEFINE v == u \o b
            w == a \o v
<1>2. /\ v \in Seq(DeviceCall) /\ Len(v) = Len(u) + Len(b) /\ Len(u) \in Nat /\ Len(b) \in Nat
      /\ \A l \in 1 .. Len(u) : v[l] = u[l]
  BY JoinFacts
<1>. HIDE DEF v
<1>3. /\ w \in Seq(DeviceCall) /\ Len(w) = Len(a) + Len(v) /\ Len(a) \in Nat
      /\ \A l \in 1 .. Len(v) : w[Len(a) + l] = v[l]
  <2>1. v \in Seq(DeviceCall) /\ a \in Seq(DeviceCall)
    BY <1>2
  <2>. QED
    BY <2>1, JoinFacts
<1>4. s = w
  BY <1>1 DEF v
<1>. HIDE DEF w
<1>. DEFINE j == Len(a) + 1
<1>5. ASSUME NEW l \in 1 .. Len(u) PROVE s[j + l - 1] = u[l]
  <2>1. l \in 1 .. Len(v) /\ j + l - 1 = Len(a) + l
    BY <1>2, <1>3
  <2>. QED
    BY <1>2, <1>3, <1>4, <2>1
<1>6. j \in 1 .. Len(s) /\ j + Len(u) - 1 =< Len(s)
  BY <1>2, <1>3, <1>4
<1>. QED
  BY <1>5, <1>6

------------------------------------------------------------------------------
(* The device                                                              *)

\* Heads that have just been reset are those a launch is to find.
HeadsReset(cs, t, h) ==
  FreshAt(Calls(t), Len(t) + 1) => h = QueueInitial(cs[1].version, Len(cs[1].tiles))

\* What has been launched since D was zeroed is stored.
LaunchesStored(cs, t, d) ==
  \A j \in 1 .. Len(t) :
    t[j].call[1] = "launch" /\ (\A l \in j + 1 .. Len(t) : t[l].call[1] # "zero") =>
      Placed(cs[t[j].call[2]].tiles, cs[t[j].call[2]].tileM) \subseteq d

\* The device's next operation, as the order it belongs to has it.
LEMMA NextCall ==
  ASSUME NEW cs, NEW t \in Seq(TraceEntry), NEW s \in Seq(DeviceCall), s # <<>>,
         Guarded(cs, Handed(t, s))
  PROVE  /\ Head(s) \in DeviceCall
         /\ Head(s)[1] = "launch" =>
              /\ Head(s)[2] \in 1 .. Len(cs)
              /\ HasQueue(cs[Head(s)[2]]) => FreshAt(Calls(t), Len(t) + 1)
         /\ Head(s)[1] = "reset" => Len(cs) = 1 /\ HasQueue(cs[1]) /\ Head(s)[2] = 1
<1>. DEFINE c == Calls(t)
            u == c \o s
            k == Len(t)
<1>1. c \in Seq(DeviceCall) /\ Len(c) = k /\ k \in Nat
  BY CallsFacts
<1>2. Head(s) \in DeviceCall /\ Head(s) = s[1] /\ Len(s) > 0
  BY HeadFirst
<1>3. Guarded(cs, u)
  BY DEF Handed
<1>. HIDE DEF c, k
<1>4. /\ u \in Seq(DeviceCall) /\ Len(u) = k + Len(s) /\ Len(s) \in Nat
      /\ \A i \in 1 .. k : u[i] = c[i]
      /\ \A i \in 1 .. Len(s) : u[k + i] = s[i]
  <2>1. c \in Seq(DeviceCall) /\ s \in Seq(DeviceCall)
    BY <1>1
  <2>2. /\ u \in Seq(DeviceCall) /\ Len(u) = Len(c) + Len(s) /\ Len(s) \in Nat
        /\ \A i \in 1 .. Len(c) : u[i] = c[i]
        /\ \A i \in 1 .. Len(s) : u[Len(c) + i] = s[i]
    BY <2>1, JoinFacts
  <2>. HIDE DEF u
  <2>. QED
    BY <1>1, <2>2
<1>. HIDE DEF u
<1>5. k + 1 \in 1 .. Len(u) /\ u[k + 1] = Head(s)
  BY <1>1, <1>2, <1>4
<1>6. /\ Head(s)[1] = "launch" => /\ Head(s)[2] \in 1 .. Len(cs)
                                  /\ HasQueue(cs[Head(s)[2]]) => FreshAt(u, k + 1)
      /\ Head(s)[1] = "reset" => Len(cs) = 1 /\ HasQueue(cs[1]) /\ Head(s)[2] = 1
  BY <1>3, <1>5 DEF Guarded
<1>7. FreshAt(u, k + 1) => FreshAt(c, k + 1)
  <2>1. /\ k + 1 > 1 => u[(k + 1) - 1] = c[(k + 1) - 1]
        /\ k + 1 > 2 => u[(k + 1) - 2] = c[(k + 1) - 2] /\ k + 1 > 1
    <3>1. /\ k + 1 > 1 => (k + 1) - 1 \in 1 .. k
          /\ k + 1 > 2 => (k + 1) - 2 \in 1 .. k /\ k + 1 > 1
      BY <1>1
    <3>. QED
      BY <1>4, <3>1
  <2>. QED
    BY <2>1 DEF FreshAt
<1>. QED
  BY <1>2, <1>6, <1>7 DEF c, k

LEMMA HeadsAfter ==
  ASSUME NEW cs, NEW t \in Seq(TraceEntry), NEW e \in TraceEntry, NEW h, NEW g,
         HeadsReset(cs, t, h),
         e.call[1] = "reset" => g = QueueInitial(cs[1].version, Len(cs[1].tiles)),
         e.call[1] = "start" => g = h
  PROVE  HeadsReset(cs, Append(t, e), g)
<1>. DEFINE u == Append(t, e)
            c == Calls(t)
            d == Calls(u)
            k == Len(t)
            q == QueueInitial(cs[1].version, Len(cs[1].tiles))
<1>1. u \in Seq(TraceEntry) /\ Len(u) = k + 1 /\ u[k + 1] = e /\ \A i \in 1 .. k : u[i] = t[i]
  BY AppendProperties
<1>2. /\ Len(c) = k /\ k \in Nat /\ \A i \in 1 .. k : c[i] = t[i].call
  BY CallsFacts
<1>. HIDE DEF u
<1>3. Len(d) = k + 1 /\ \A i \in 1 .. k + 1 : d[i] = u[i].call
  BY <1>1, CallsFacts
<1>4. FreshAt(c, k + 1) => h = q
  BY DEF HeadsReset
<1>. HIDE DEF c, d, k, q
<1>5. d[k + 1] = e.call /\ \A i \in 1 .. k : d[i] = c[i]
  BY <1>1, <1>2, <1>3
<1>6. ASSUME FreshAt(d, (k + 1) + 1) PROVE g = q
  <2>1. CASE (k + 1) + 1 > 1 /\ d[((k + 1) + 1) - 1][1] = "reset"
    <3>1. ((k + 1) + 1) - 1 = k + 1
      BY <1>2
    <3>. QED
      BY <1>5, <2>1, <3>1 DEF q
  <2>2. CASE (k + 1) + 1 > 2 /\ d[((k + 1) + 1) - 1][1] = "start" /\ d[((k + 1) + 1) - 2][1] = "reset"
    <3>1. /\ ((k + 1) + 1) - 1 = k + 1 /\ ((k + 1) + 1) - 2 = k
          /\ (k + 1) - 1 = k /\ k + 1 > 1 /\ k \in 1 .. k
      BY <1>2, <2>2
    <3>2. FreshAt(c, k + 1)
      BY <1>5, <2>2, <3>1 DEF FreshAt
    <3>3. e.call[1] = "start"
      BY <1>5, <2>2, <3>1
    <3>. QED
      BY <1>4, <3>2, <3>3
  <2>. QED
    BY <1>6, <2>1, <2>2 DEF FreshAt
<1>7. FreshAt(d, Len(u) + 1) => g = q
  BY <1>1, <1>6
<1>. QED
  BY <1>7 DEF HeadsReset, d, q, u

LEMMA StoredAfter ==
  ASSUME NEW cs, NEW t \in Seq(TraceEntry), NEW e \in TraceEntry, NEW d, NEW f,
         LaunchesStored(cs, t, d), e.call[1] = "zero" \/ d \subseteq f,
         e.call[1] = "launch" =>
           Placed(cs[e.call[2]].tiles, cs[e.call[2]].tileM) \subseteq f
  PROVE  LaunchesStored(cs, Append(t, e), f)
<1>. DEFINE u == Append(t, e)
            k == Len(t)
            P(x) == Placed(cs[x.call[2]].tiles, cs[x.call[2]].tileM)
<1>1. /\ Len(u) = k + 1 /\ u[k + 1] = e /\ k \in Nat /\ \A i \in 1 .. k : u[i] = t[i]
  BY AppendProperties
<1>2. \A j \in 1 .. k :
       t[j].call[1] = "launch" /\ (\A l \in j + 1 .. k : t[l].call[1] # "zero") => P(t[j]) \subseteq d
  BY DEF LaunchesStored
<1>3. e.call[1] = "launch" => P(e) \subseteq f
  OBVIOUS
<1>. HIDE DEF u, k, P
<1>4. ASSUME NEW j \in 1 .. k + 1, u[j].call[1] = "launch",
             \A l \in j + 1 .. k + 1 : u[l].call[1] # "zero"
      PROVE  P(u[j]) \subseteq f
  <2>1. CASE j = k + 1
    BY <1>1, <1>3, <1>4, <2>1
  <2>2. CASE j # k + 1
    <3>1. j \in 1 .. k /\ k + 1 \in j + 1 .. k + 1 /\ u[j] = t[j]
      BY <1>1, <2>2
    <3>2. e.call[1] # "zero"
      BY <1>1, <1>4, <3>1
    <3>3. \A l \in j + 1 .. k : t[l].call[1] # "zero"
      <4>1. TAKE l \in j + 1 .. k
      <4>2. l \in j + 1 .. k + 1 /\ l \in 1 .. k
        BY <1>1, <3>1
      <4>. QED
        BY <1>1, <1>4, <4>2
    <3>4. P(t[j]) \subseteq d
      BY <1>2, <1>4, <3>1, <3>3
    <3>. QED
      BY <3>1, <3>2, <3>4
  <2>. QED
    BY <2>1, <2>2
<1>. QED
  BY <1>1, <1>4 DEF LaunchesStored, P, u

\* A launch that finds fresh heads does its whole list, each tile once.
LEMMA RunsWhole ==
  ASSUME NEW cs, Sound(cs), NEW i \in 1 .. Len(cs),
         HasQueue(cs[i]) => heads = QueueInitial(cs[1].version, Len(cs[1].tiles))
  PROVE  /\ Runs(cs[i]) \in [0 .. Len(cs[i].tiles) - 1 -> {1}]
         /\ Len(cs[i].tiles) \in Nat /\ DOMAIN cs[i].tiles = 1 .. Len(cs[i].tiles)
<1>. DEFINE c == cs[i]
            k == Len(c.tiles)
            v == c.version
<1>1. cs \in Seq(ComponentSet) /\ Len(cs) \in {1, 2}
  BY DEF Sound
<1>2. c \in ComponentSet
  BY <1>1
<1>3. c.tiles \in Seq(PlanTile)
  BY <1>2 DEF ComponentSet
<1>4. k \in Nat /\ DOMAIN c.tiles = 1 .. k
  BY <1>3
<1>. DEFINE e == MainEnd(v, k)
<1>5. HasQueue(c) => heads = QueueInitial(v, k)
  <2>1. HasQueue(c) => Len(cs) = 1
    BY DEF Sound
  <2>2. ASSUME HasQueue(c) PROVE i = 1
    <3>1. Len(cs) = 1
      BY <2>1, <2>2
    <3>. QED
      BY <3>1
  <2>. QED
    BY <2>2
<1>. DEFINE main == heads[1] .. e - 1
            tail == IF v = "v4_hybrid" THEN heads[2] .. k - 1 ELSE {}
            Once(claimed, x) == IF x \in claimed THEN 1 ELSE 0
            f == [x \in 0 .. k - 1 |-> IF HasQueue(c) THEN Once(main, x) + Once(tail, x) ELSE 1]
<1>6. Runs(c) = f
  BY DEF Runs
<1>7. ASSUME HasQueue(c), NEW x \in 0 .. k - 1 PROVE Once(main, x) + Once(tail, x) = 1
  <2>. HIDE DEF k, v
  <2>1. heads = <<0, IF v = "v4_hybrid" THEN e ELSE 0>>
    BY <1>5, <1>7 DEF QueueInitial
  <2>2. CASE v = "v4_hybrid"
    <3>1. e \in 0 .. k
      <4>1. e = k - (IF k < HybridTail THEN k ELSE HybridTail)
        BY <2>2 DEF MainEnd, Smaller
      <4>. HIDE DEF e
      <4>. QED
        BY <1>4, <4>1, DispatchAssumption
    <3>. HIDE DEF e
    <3>2. main = 0 .. e - 1 /\ tail = e .. k - 1
      BY <2>1, <2>2
    <3>. HIDE DEF main, tail
    <3>. QED
      BY <1>4, <3>1, <3>2
  <2>3. CASE v # "v4_hybrid"
    <3>1. e = k
      BY <2>3 DEF MainEnd
    <3>. HIDE DEF e
    <3>2. main = 0 .. k - 1 /\ tail = {}
      BY <2>1, <2>3, <3>1
    <3>. HIDE DEF main, tail
    <3>. QED
      BY <1>4, <3>2
  <2>. QED
    BY <2>2, <2>3
<1>8. f \in [0 .. k - 1 -> {1}]
  <2>. HIDE DEF k, v, main, tail
  <2>. QED
    BY <1>7
<1>. QED
  BY <1>4, <1>6, <1>8

------------------------------------------------------------------------------
(* The harness and the device together                                     *)

RunInv ==
  /\ trace \in Seq(TraceEntry) /\ stream \in Seq(DeviceCall)
  /\ outcome \in {"none", "refused"} => trace = <<>> /\ stream = <<>>
  /\ outcome # "mismatch"
  /\ outcome = "reported" => program = <<>>
  /\ outcome \in {"running", "reported"} =>
       /\ Progress(Prelude(components), WarmPart(components),
                   TimedPart(components, options.iterations), options.correctnessOnly,
                   program, trace, stream)
       /\ HeadsReset(components, trace, heads)
       /\ LaunchesStored(components, trace, D)

\* What a harness that runs has found out about its kernels.
LEMMA RunningFacts ==
  ASSUME PlannerInv, RunBase, outcome \in {"running", "reported"}
  PROVE  /\ Sound(components) /\ Covering(components) /\ Rows # 0 /\ components = Chosen
         /\ WholeColumns
         /\ options.iterations \in Nat /\ options.correctnessOnly \in BOOLEAN
         /\ Parts(Prelude(components), WarmPart(components), TimedPart(components, options.iterations))
         /\ Guarded(components, Prelude(components)) /\ Guarded(components, WarmPart(components))
         /\ Guarded(components, TimedPart(components, options.iterations))
<1>1. /\ options.kernel # "none" /\ stage \in {"planned", "baseline"}
      /\ ~Refused /\ components = Chosen /\ options \in Options /\ WholeColumns
  BY DEF RunBase, PlannerInv
<1>2. Ready
  BY <1>1 DEF Ready
<1>3. Sound(components) /\ Covering(components) /\ Rows # 0
  BY <1>1, <1>2, ChosenSound
<1>4. options.iterations \in Nat /\ options.correctnessOnly \in BOOLEAN
  BY <1>1, RunnerAssumption DEF Options
<1>. QED
  BY <1>1, <1>3, <1>4, PartsGuarded

\* Every row routed is stored when the device has executed what comes before the comparison.
LEMMA AllStored ==
  ASSUME WholeColumns, NEW cs, Sound(cs), Covering(cs), trace \in Seq(TraceEntry), Calls(trace) = Prelude(cs),
         LaunchesStored(cs, trace, D), NEW e \in ExpertIds, NEW col \in Columns
  PROVE  0 .. counts[e] - 1 \subseteq StoredRows(e, col)
<1>. SUFFICES ASSUME NEW r \in 0 .. counts[e] - 1 PROVE r \in StoredRows(e, col)
  OBVIOUS
<1>1. PICK j \in 0 .. n \div TileN - 1 : col = j * TileN
  BY DEF Columns
<1>2. j \in 0 .. Cols - 1 /\ Cols \in Nat
  BY ColsFacts DEF Cols
<1>3. j + 1 \in 1 .. Cols /\ col = ((j + 1) - 1) * 128
  BY <1>1, <1>2 DEF TileN
<1>4. PICK i \in 1 .. Len(cs) : RowPlaced(cs[i].tiles, cs[i].tileM, e, col, r)
  BY <1>3 DEF Covering
<1>5. PICK x \in Placed(cs[i].tiles, cs[i].tileM) :
        /\ x.expert = e /\ x.n = col /\ x.first \in Int /\ x.rows \in Int
        /\ x.first =< r /\ r < x.first + x.rows
  BY <1>4 DEF RowPlaced
<1>6. PICK h \in 1 .. Len(Prelude(cs)) :
        /\ Prelude(cs)[h] = <<"launch", i>>
        /\ \A l \in h + 1 .. Len(Prelude(cs)) : Prelude(cs)[l][1] # "zero"
  BY PreludeLaunches
<1>7. /\ Len(Prelude(cs)) = Len(trace) /\ Len(trace) \in Nat
      /\ \A l \in 1 .. Len(trace) : Prelude(cs)[l] = trace[l].call
  BY CallsFacts
<1>8. h \in 1 .. Len(trace) /\ trace[h].call = <<"launch", i>>
  BY <1>6, <1>7
<1>9. \A l \in h + 1 .. Len(trace) : trace[l].call[1] # "zero"
  <2>1. TAKE l \in h + 1 .. Len(trace)
  <2>2. l \in 1 .. Len(trace) /\ l \in h + 1 .. Len(Prelude(cs))
    BY <1>7, <1>8
  <2>. QED
    BY <1>6, <1>7, <2>2
<1>10. x \in D
  <2>1. trace[h].call[1] = "launch" /\ trace[h].call[2] = i
    BY <1>8
  <2>2. Placed(cs[i].tiles, cs[i].tileM) \subseteq D
    BY <1>8, <1>9, <2>1 DEF LaunchesStored
  <2>. QED
    BY <2>2
<1>11. r \in x.first .. x.first + x.rows - 1
  BY <1>5
<1>. QED
  BY <1>5, <1>10, <1>11 DEF StoredRows

LEMMA RunInvStart == Init => RunInv
BY DEF Init, RunnerInit, RunInv

LEMMA EnqueueInv ==
  ASSUME PlannerInv, RunBase, RunInv, Enqueue, options' = options
  PROVE  RunInv'
<1>1. /\ outcome = "running" /\ program # <<>> /\ Head(program)[1] \in DeviceOps
      /\ stream' = Append(stream, Head(program)) /\ program' = Tail(program)
      /\ outcome' = outcome /\ components' = components /\ heads' = heads /\ D' = D
      /\ trace' = trace
  BY DEF Enqueue, HostAt, DeviceOps
<1>. DEFINE a == Prelude(components)
            w == WarmPart(components)
            m == TimedPart(components, options.iterations)
            co == options.correctnessOnly
<1>2. /\ Parts(a, w, m) /\ trace \in Seq(TraceEntry) /\ stream \in Seq(DeviceCall)
      /\ Progress(a, w, m, co, program, trace, stream)
      /\ HeadsReset(components, trace, heads) /\ LaunchesStored(components, trace, D)
  BY <1>1, RunningFacts DEF RunInv
<1>3. a' = a /\ w' = w /\ m' = m /\ co' = co
  BY <1>1
<1>. HIDE DEF a, w, m, co
<1>4. /\ Head(program) \in DeviceCall
      /\ Progress(a, w, m, co, Tail(program), trace, Append(stream, Head(program)))
  BY <1>1, <1>2, ProgressEnqueue
<1>5. Append(stream, Head(program)) \in Seq(DeviceCall)
  BY <1>2, <1>4
<1>6. Progress(a', w', m', co', program', trace', stream')
  BY <1>1, <1>3, <1>4
<1>7. HeadsReset(components', trace', heads') /\ LaunchesStored(components', trace', D')
  BY <1>1, <1>2
<1>. QED
  BY <1>1, <1>2, <1>5, <1>6, <1>7 DEF RunInv, a, w, m, co

LEMMA SynchronizeInv ==
  ASSUME PlannerInv, RunBase, RunInv, Synchronize, options' = options
  PROVE  RunInv'
<1>1. /\ outcome = "running" /\ program # <<>> /\ Head(program)[1] = "synchronize"
      /\ stream = <<>> /\ stream' = <<>> /\ program' = Tail(program)
      /\ outcome' = outcome /\ components' = components /\ heads' = heads /\ D' = D
      /\ trace' = trace
  BY DEF Synchronize, HostAt
<1>. DEFINE a == Prelude(components)
            w == WarmPart(components)
            m == TimedPart(components, options.iterations)
            co == options.correctnessOnly
<1>2. /\ Parts(a, w, m) /\ trace \in Seq(TraceEntry) /\ stream \in Seq(DeviceCall)
      /\ Progress(a, w, m, co, program, trace, <<>>)
      /\ HeadsReset(components, trace, heads) /\ LaunchesStored(components, trace, D)
  BY <1>1, RunningFacts DEF RunInv
<1>3. a' = a /\ w' = w /\ m' = m /\ co' = co
  BY <1>1
<1>. HIDE DEF a, w, m, co
<1>4. Progress(a, w, m, co, Tail(program), trace, <<>>)
  BY <1>1, <1>2, ProgressSync
<1>5. Progress(a', w', m', co', program', trace', stream')
  BY <1>1, <1>3, <1>4
<1>6. HeadsReset(components', trace', heads') /\ LaunchesStored(components', trace', D')
  BY <1>1, <1>2
<1>. QED
  BY <1>1, <1>2, <1>5, <1>6 DEF RunInv, a, w, m, co

LEMMA CompareInv ==
  ASSUME PlannerInv, RunBase, RunInv, Compare, options' = options
  PROVE  RunInv' /\ outcome' = outcome
<1>1. /\ outcome = "running" /\ program # <<>> /\ Head(program)[1] = "compare"
      /\ program' = Tail(program) /\ stream' = stream
      /\ components' = components /\ heads' = heads /\ D' = D
      /\ trace' = trace
      /\ outcome' = IF \A e \in ExpertIds, col \in Columns :
                         0 .. counts[e] - 1 \subseteq StoredRows(e, col)
                    THEN outcome ELSE "mismatch"
  BY DEF Compare, HostAt
<1>. DEFINE a == Prelude(components)
            w == WarmPart(components)
            m == TimedPart(components, options.iterations)
            co == options.correctnessOnly
<1>2. /\ Parts(a, w, m) /\ trace \in Seq(TraceEntry) /\ stream \in Seq(DeviceCall)
      /\ Progress(a, w, m, co, program, trace, stream)
      /\ HeadsReset(components, trace, heads) /\ LaunchesStored(components, trace, D)
      /\ Sound(components) /\ Covering(components) /\ WholeColumns
  BY <1>1, RunningFacts DEF RunInv
<1>3. a' = a /\ w' = w /\ m' = m /\ co' = co
  BY <1>1
<1>. HIDE DEF w, m, co
<1>4. Calls(trace) = a /\ Progress(a, w, m, co, Tail(program), trace, stream)
  <2>. HIDE DEF a
  <2>. QED
    BY <1>1, <1>2, ProgressCompare
<1>5. \A e \in ExpertIds : \A col \in Columns : 0 .. counts[e] - 1 \subseteq StoredRows(e, col)
  BY <1>2, <1>4, AllStored
<1>6. outcome' = outcome
  BY <1>1, <1>5
<1>. HIDE DEF a
<1>7. Progress(a', w', m', co', program', trace', stream')
  BY <1>1, <1>3, <1>4
<1>8. HeadsReset(components', trace', heads') /\ LaunchesStored(components', trace', D')
  BY <1>1, <1>2
<1>. QED
  BY <1>1, <1>2, <1>6, <1>7, <1>8 DEF RunInv, a, w, m, co

LEMMA ExecuteInv ==
  ASSUME PlannerInv, RunBase, RunInv, Execute, options' = options
  PROVE  RunInv'
<1>. DEFINE o == Head(stream)
            cs == components
            c == cs[o[2]]
            a == Prelude(cs)
            w == WarmPart(cs)
            m == TimedPart(cs, options.iterations)
            co == options.correctnessOnly
            rs == IF o[1] = "launch" THEN Runs(c) ELSE <<>>
            e == [call |-> o, runs |-> rs]
<1>1. /\ stream # <<>> /\ stream' = Tail(stream) /\ outcome' = outcome
      /\ components' = components /\ program' = program /\ trace' = Append(trace, e)
      /\ o[1] = "launch" =>
           /\ D' = D \cup {x \in Placed(c.tiles, c.tileM) : Runs(c)[x.at - 1] > 0}
      /\ o[1] # "launch" =>
           /\ D' = IF o[1] = "zero" THEN {} ELSE D
           /\ heads' = IF o[1] = "reset" THEN QueueInitial(c.version, Len(c.tiles)) ELSE heads
  BY DEF Execute, ExecuteLaunch
<1>2. outcome \in {"running", "reported"} /\ (outcome = "reported" => program = <<>>)
  BY <1>1 DEF RunInv, RunBase
<1>3. /\ Parts(a, w, m) /\ trace \in Seq(TraceEntry) /\ stream \in Seq(DeviceCall)
      /\ Progress(a, w, m, co, program, trace, stream)
      /\ HeadsReset(cs, trace, heads) /\ LaunchesStored(cs, trace, D)
      /\ Sound(cs)
      /\ Guarded(cs, a) /\ Guarded(cs, w) /\ Guarded(cs, m)
  BY <1>2, RunningFacts DEF RunInv
<1>4. a' = a /\ w' = w /\ m' = m /\ co' = co
  BY <1>1
<1>. HIDE DEF a, w, m, co, c, rs
<1>5. Guarded(cs, Handed(trace, stream))
  BY <1>3, ProgressGuarded
<1>6. /\ o \in DeviceCall
      /\ o[1] = "launch" => /\ o[2] \in 1 .. Len(cs)
                            /\ HasQueue(cs[o[2]]) => FreshAt(Calls(trace), Len(trace) + 1)
      /\ o[1] = "reset" => Len(cs) = 1 /\ HasQueue(cs[1]) /\ o[2] = 1
  BY <1>1, <1>3, <1>5, NextCall
<1>7. ASSUME o[1] = "launch"
      PROVE  /\ rs \in [0 .. Len(c.tiles) - 1 -> {1}] /\ rs = Runs(c) /\ Len(c.tiles) \in Nat
             /\ DOMAIN c.tiles = 1 .. Len(c.tiles)
  <2>1. HasQueue(cs[o[2]]) => heads = QueueInitial(cs[1].version, Len(cs[1].tiles))
    BY <1>3, <1>6, <1>7 DEF HeadsReset
  <2>2. /\ Runs(cs[o[2]]) \in [0 .. Len(cs[o[2]].tiles) - 1 -> {1}]
        /\ Len(cs[o[2]].tiles) \in Nat /\ DOMAIN cs[o[2]].tiles = 1 .. Len(cs[o[2]].tiles)
    BY <1>3, <1>6, <1>7, <2>1, RunsWhole
  <2>. QED
    BY <1>7, <2>2 DEF rs, c
<1>8. rs \in OnesOf
  <2>1. CASE o[1] = "launch"
    <3>. DEFINE k == Len(c.tiles)
    <3>1. k \in Nat /\ rs \in [0 .. k - 1 -> {1}]
      BY <1>7, <2>1
    <3>. HIDE DEF k
    <3>. QED
      BY <3>1 DEF OnesOf
  <2>2. CASE o[1] # "launch"
    BY <2>2 DEF rs, OnesOf
  <2>. QED
    BY <2>1, <2>2
<1>. HIDE DEF o
<1>9. e \in TraceEntry /\ e.call = o /\ e.call[1] = o[1] /\ e.call[2] = o[2]
  BY <1>6, <1>8 DEF TraceEntry
<1>. HIDE DEF e
<1>10. Progress(a, w, m, co, program, Append(trace, e), Tail(stream))
  <2>1. e.call = Head(stream)
    BY <1>9 DEF o
  <2>. QED
    BY <1>1, <1>3, <1>9, <2>1, ProgressExecute
<1>11. HeadsReset(cs, Append(trace, e), heads')
  <2>1. e.call[1] = "reset" => heads' = QueueInitial(cs[1].version, Len(cs[1].tiles))
    BY <1>1, <1>6, <1>9 DEF c
  <2>2. e.call[1] = "start" => heads' = heads
    BY <1>1, <1>9
  <2>. HIDE DEF cs
  <2>. QED
    BY <1>3, <1>9, <2>1, <2>2, HeadsAfter
<1>12. LaunchesStored(cs, Append(trace, e), D')
  <2>1. e.call[1] = "zero" \/ D \subseteq D'
    <3>1. CASE o[1] = "launch"
      BY <1>1, <3>1
    <3>2. CASE o[1] # "launch"
      BY <1>1, <1>9, <3>2
    <3>. QED
      BY <3>1, <3>2
  <2>2. ASSUME e.call[1] = "launch"
        PROVE  Placed(cs[e.call[2]].tiles, cs[e.call[2]].tileM) \subseteq D'
    <3>0. o[1] = "launch"
      BY <1>9, <2>2
    <3>1. SUFFICES ASSUME NEW x \in Placed(c.tiles, c.tileM) PROVE x \in D'
      BY <1>9 DEF c
    <3>2. PICK i \in DOMAIN c.tiles : x.at = i
      BY DEF Placed
    <3>. DEFINE k == Len(c.tiles)
    <3>3. k \in Nat /\ i \in 1 .. k /\ Runs(c) \in [0 .. k - 1 -> {1}]
      BY <1>7, <3>0, <3>2
    <3>. HIDE DEF k
    <3>4. i - 1 \in 0 .. k - 1
      BY <3>3
    <3>5. Runs(c)[i - 1] = 1
      BY <3>3, <3>4
    <3>6. Runs(c)[x.at - 1] > 0
      BY <3>2, <3>5
    <3>. QED
      BY <1>1, <3>0, <3>6
  <2>. HIDE DEF cs
  <2>. QED
    BY <1>3, <1>9, <2>1, <2>2, StoredAfter
<1>13. trace' \in Seq(TraceEntry) /\ stream' \in Seq(DeviceCall)
  <2>1. Tail(stream) \in Seq(DeviceCall)
    BY <1>1, <1>3, HeadTailProperties
  <2>2. Append(trace, e) \in Seq(TraceEntry)
    BY <1>3, <1>9, AppendProperties
  <2>. QED
    BY <1>1, <2>1, <2>2
<1>14. Progress(a', w', m', co', program', trace', stream')
  BY <1>1, <1>4, <1>10
<1>15. HeadsReset(components', trace', heads') /\ LaunchesStored(components', trace', D')
  BY <1>1, <1>11, <1>12
<1>. QED
  BY <1>1, <1>2, <1>13, <1>14, <1>15 DEF RunInv, a, w, m, co

LEMMA BeginInv ==
  ASSUME PlannerInv, RunBase, RunInv, Begin, options' = options, options # Study,
         stage \in {"planned", "baseline"}
  PROVE  RunInv'
<1>1. /\ outcome = "none" /\ stream' = stream /\ trace' = trace /\ D' = D
      /\ trace = <<>> /\ stream = <<>>
  BY DEF Begin, RunInv
<1>2. <<>> \in Seq(TraceEntry) /\ <<>> \in Seq(DeviceCall)
  OBVIOUS
<1>3. CASE Refused
  <2>1. outcome' = "refused"
    BY <1>3 DEF Begin
  <2>. QED
    BY <1>1, <1>2, <2>1 DEF RunInv
<1>4. CASE ~Refused
  <2>. DEFINE cs == Chosen
              k == options.iterations
              a == Prelude(cs)
              w == WarmPart(cs)
              m == TimedPart(cs, k)
              co == options.correctnessOnly
  <2>1. /\ outcome' = "running" /\ components' = cs
        /\ program' = CheckCorrectness(cs) \o (IF options.correctnessOnly THEN <<>>
                                               ELSE WarmUp(cs) \o Time(cs))
    BY <1>4 DEF Begin
  <2>2. options.kernel # "none" /\ options \in Options
    BY DEF RunBase
  <2>3. Sound(cs)
    BY <1>4, <2>2, ChosenSound DEF Ready
  <2>4. k \in Nat
    BY <2>2, RunnerAssumption DEF Options
  <2>. HIDE DEF cs
  <2>5. program' = a \o (Sync \o (Compared \o Remaining(w, m, co)))
    BY <2>1, <2>3, <2>4, ProgramParts
  <2>6. Parts(a, w, m)
    BY <2>3, <2>4, PartsGuarded
  <2>. HIDE DEF k
  <2>7. Prelude(components') = a /\ WarmPart(components') = w
        /\ TimedPart(components', options'.iterations) = m /\ options'.correctnessOnly = co
    BY <2>1 DEF k
  <2>. HIDE DEF a, w, m, co
  <2>8. Progress(a, w, m, co, program', <<>>, <<>>)
    BY <2>5, <2>6, ProgressStart
  <2>9. HeadsReset(components', <<>>, heads')
    <3>1. ~FreshAt(Calls(<<>>), Len(<<>>) + 1)
      BY DEF FreshAt
    <3>. QED
      BY <3>1 DEF HeadsReset
  <2>10. LaunchesStored(components', <<>>, D')
    <3>1. 1 .. Len(<<>>) = {}
      OBVIOUS
    <3>. QED
      BY <3>1 DEF LaunchesStored
  <2>11. /\ Progress(Prelude(components'), WarmPart(components'),
                     TimedPart(components', options'.iterations), options'.correctnessOnly,
                     program', trace', stream')
         /\ HeadsReset(components', trace', heads') /\ LaunchesStored(components', trace', D')
    BY <1>1, <2>7, <2>8, <2>9, <2>10
  <2>12. trace' \in Seq(TraceEntry) /\ stream' \in Seq(DeviceCall)
    BY <1>1, <1>2
  <2>. QED
    BY <2>1, <2>11, <2>12 DEF RunInv
<1>. QED
  BY <1>3, <1>4

LEMMA RunInvSame ==
  ASSUME RunInv, options' = options, UNCHANGED runnerVars
  PROVE  RunInv'
BY DEF RunInv, runnerVars

LEMMA ReportInv ==
  ASSUME RunInv, options' = options, Report
  PROVE  RunInv'
<1>1. /\ outcome = "running" /\ program = <<>> /\ outcome' = "reported" /\ program' = program
      /\ components' = components /\ stream' = stream /\ heads' = heads /\ D' = D
      /\ trace' = trace
  BY DEF Report
<1>. QED
  BY <1>1 DEF RunInv

LEMMA RunInvNext ==
  ASSUME PlannerInv, RunBase, RunInv, [Next]_hostVars
  PROVE  RunInv'
<1>1. CASE Run
  <2>1. options' = options /\ options # Study /\ stage \in {"planned", "baseline"}
    BY <1>1 DEF Run
  <2>2. Begin \/ Enqueue \/ Synchronize \/ Compare \/ Report \/ Execute
    BY <1>1 DEF Run, RunnerStep
  <2>. QED
    BY <2>1, <2>2, BeginInv, EnqueueInv, SynchronizeInv, CompareInv, ReportInv, ExecuteInv
<1>2. CASE PlanBuckets \/ PlanBaseline \/ Schedule \/ Finished \/ UNCHANGED hostVars
  <2>1. options' = options /\ UNCHANGED runnerVars
    BY <1>2 DEF PlanBuckets, PlanBaseline, Schedule, Finished, hostVars
  <2>. QED
    BY <2>1, RunInvSame
<1>. QED
  BY <1>1, <1>2 DEF Next

\* What the harness has handed over, what the device has done of it and what D holds, on
\* every stream and for every number of iterations: each launch that executes finds fresh
\* heads, and the comparison finds everything stored.
THEOREM HarnessInvariant == Spec => []RunInv
<1>1. Spec => [](PlannerInv /\ RunBase)
  BY PlannerInvariant, RunBaseStart, RunBaseNext, PTL DEF Spec
<1>. QED
  BY <1>1, RunInvStart, RunInvNext, PTL DEF Spec

LEMMA Verified ==
  ASSUME PlannerInv, RunBase, RunInv
  PROVE  ReportsOnlyVerified
<1>1. outcome # "mismatch"
  BY DEF RunInv
<1>2. ASSUME outcome \in {"running", "reported"} PROVE Rows > 0 /\ components # <<>>
  <2>1. Sound(components) /\ Rows # 0 /\ WholeColumns
    BY <1>2, RunningFacts
  <2>2. Rows \in Nat
    BY <2>1, RowsFacts DEF WholeColumns, Rows
  <2>3. Len(components) # 0
    BY <2>1 DEF Sound
  <2>4. components # <<>>
    <3>1. Len(<<>>) = 0
      OBVIOUS
    <3>. QED
      BY <2>3, <3>1
  <2>. QED
    BY <2>1, <2>2, <2>4
<1>. QED
  BY <1>1, <1>2 DEF ReportsOnlyVerified

\* A result is reported only of a run that has computed something and compared it, for every
\* routing, every kernel and every choice of buckets: the comparison is never reached with a
\* row missing in D.
THEOREM OnlyVerifiedReported == Spec => []ReportsOnlyVerified
<1>1. PlannerInv /\ RunBase /\ RunInv => ReportsOnlyVerified
  BY Verified
<1>. QED
  BY PlannerInvariant, RunBaseStart, RunBaseNext, HarnessInvariant, <1>1, PTL DEF Spec

LEMMA TimedWhole ==
  ASSUME PlannerInv, RunBase, RunInv
  PROVE  TimedWorkIsWhole
<1>1. ASSUME NEW j \in DOMAIN trace, NEW t \in DOMAIN trace[j].runs
      PROVE  trace[j].runs[t] = 1
  <2>1. trace \in Seq(TraceEntry)
    BY DEF RunInv
  <2>2. trace[j] \in TraceEntry
    BY <2>1
  <2>3. trace[j].runs \in OnesOf
    BY <2>2 DEF TraceEntry
  <2>. DEFINE r == trace[j].runs
  <2>. HIDE DEF r
  <2>4. r \in OnesOf /\ t \in DOMAIN r
    BY <2>3 DEF r
  <2>5. PICK m \in Nat : r \in [0 .. m - 1 -> {1}]
    BY <2>4 DEF OnesOf
  <2>6. r[t] = 1
    BY <2>4, <2>5
  <2>. QED
    BY <2>6 DEF r
<1>2. ASSUME outcome = "reported", ~options.correctnessOnly, NEW i \in 1 .. options.iterations
      PROVE  \E j \in DOMAIN trace :
               LET timed == <<Call("start", i)>> \o InvokeAll(components) \o <<Call("end", i)>>
               IN /\ j + Len(timed) - 1 =< Len(trace)
                  /\ \A l \in DOMAIN timed : trace[j + l - 1].call = timed[l]
  <2>. DEFINE k == options.iterations
              a == Prelude(components)
              w == WarmPart(components)
              m == TimedPart(components, k)
              co == options.correctnessOnly
              u == Timed(components, i)
              c == Calls(trace)
              n0 == Len(trace)
  <2>1. /\ Sound(components) /\ k \in Nat /\ Parts(a, w, m) /\ trace \in Seq(TraceEntry)
        /\ Progress(a, w, m, co, <<>>, trace, stream)
    BY <1>2, RunningFacts DEF RunInv
  <2>2. Within(m, u) /\ u \in Seq(DeviceCall) /\ Len(u) = Len(components) + 2
        /\ Len(components) \in Nat
    <3>1. Sound(components) /\ k \in Nat /\ i \in 1 .. k /\ i \in Nat
      BY <1>2, <2>1
    <3>. HIDE DEF k
    <3>2. Within(TimedPart(components, k), Timed(components, i))
      BY <3>1, TimedTogether
    <3>3. u \in Seq(DeviceCall) /\ Len(u) = Len(components) + 2
      BY <3>1, TimedFacts
    <3>4. Len(components) \in Nat
      BY <3>1, LaunchesFacts
    <3>. QED
      BY <3>2, <3>3, <3>4
  <2>3. c = (a \o w) \o m
    <3>. HIDE DEF a, w, m, c
    <3>1. Calls(trace) = Everything(a, w, m, co)
      BY <2>1, ProgressEnd
    <3>. QED
      BY <1>2, <3>1 DEF Everything, c
  <2>4. /\ c \in Seq(DeviceCall) /\ Len(c) = n0 /\ n0 \in Nat
        /\ \A l \in 1 .. n0 : c[l] = trace[l].call
    BY <2>1, CallsFacts
  <2>5. DOMAIN trace = 1 .. n0
    BY <2>1
  <2>6. u = <<Call("start", i)>> \o InvokeAll(components) \o <<Call("end", i)>>
    BY DEF Timed
  <2>. HIDE DEF a, w, m, u, c, n0, k
  <2>7. Within(c, u)
    <3>1. a \in Seq(DeviceCall) /\ w \in Seq(DeviceCall)
      BY <2>1 DEF Parts
    <3>2. a \o w \in Seq(DeviceCall)
      BY <3>1, Joined
    <3>. QED
      BY <2>2, <2>3, <3>2, WithinConcat
  <2>8. Len(u) \in Nat /\ Len(u) > 0 /\ DOMAIN u = 1 .. Len(u)
    BY <2>2
  <2>9. PICK j \in 1 .. Len(c) : /\ j + Len(u) - 1 =< Len(c)
                                 /\ \A l \in 1 .. Len(u) : c[j + l - 1] = u[l]
    BY <2>2, <2>4, <2>7, <2>8, WithinAt
  <2>10. ASSUME NEW l \in 1 .. Len(u) PROVE trace[j + l - 1].call = u[l]
    <3>1. j + l - 1 \in 1 .. n0
      BY <2>4, <2>8, <2>9
    <3>. QED
      BY <2>4, <2>9, <3>1
  <2>11. j \in DOMAIN trace /\ j + Len(u) - 1 =< Len(trace)
    BY <2>4, <2>5, <2>9 DEF n0
  <2>. QED
    BY <2>6, <2>8, <2>10, <2>11
<1>. QED
  BY <1>1, <1>2 DEF TimedWorkIsWhole

\* "CSV latency isolates in-kernel scheduling", for every number of iterations and every
\* delay of the device: a launch never works on the heads of the one before, and between the
\* two events of every timing there are the kernels of one iteration and nothing else.
THEOREM TimingsWhole == Spec => []TimedWorkIsWhole
<1>1. PlannerInv /\ RunBase /\ RunInv => TimedWorkIsWhole
  BY TimedWhole
<1>. QED
  BY PlannerInvariant, RunBaseStart, RunBaseNext, HarnessInvariant, <1>1, PTL DEF Spec

------------------------------------------------------------------------------
(* The static order of the experts                                         *)

LEMMA TilesLen ==
  ASSUME RoutingOK, NEW e \in ExpertIds
  PROVE  TilesOf(e) \in Seq(CpuTile) /\ Len(TilesOf(e)) \in Nat
<1>1. e + 1 \in 1 .. Experts /\ (e + 1) - 1 = e
  BY SizeFacts DEF ExpertIds
<1>2. TilesOf(e) \in Seq(CpuTile)
  <2>1. TilesOf((e + 1) - 1) \in Seq(CpuTile)
    BY <1>1, TilesOfType
  <2>. QED
    BY <1>1, <2>1
<1>. QED
  BY <1>2

LEMMA BeforeFacts ==
  ASSUME RoutingOK
  PROVE  /\ \A d \in ExpertIds : ~SortedBefore(d, d)
         /\ \A d, e \in ExpertIds : SortedBefore(d, e) => Len(TilesOf(d)) >= Len(TilesOf(e))
<1>1. ExpertIds \subseteq Int
  BY DEF ExpertIds
<1>. QED
  BY <1>1, TilesLen DEF SortedBefore

\* Some expert comes last.
LEMMA LastSorted ==
  ASSUME RoutingOK, NEW S \in SUBSET ExpertIds, S # {}
  PROVE  \E x \in S : \A y \in S : y # x => SortedBefore(y, x)
<1>. DEFINE L == {Len(TilesOf(e)) : e \in S}
<1>1. PICK l \in L : \A y \in L : l =< y
  <2>1. L \subseteq Nat /\ L # {}
    BY TilesLen
  <2>. HIDE DEF L
  <2>. QED
    BY <2>1, Least
<1>2. \A e \in S : Len(TilesOf(e)) \in Nat /\ l =< Len(TilesOf(e)) /\ e \in 0 .. Experts - 1
  BY <1>1, TilesLen DEF ExpertIds
<1>. DEFINE R == {Experts - e : e \in {d \in S : Len(TilesOf(d)) = l}}
<1>3. PICK r \in R : \A y \in R : r =< y
  <2>1. R \subseteq Nat
    BY <1>2, SizeFacts
  <2>2. R # {}
    BY <1>1
  <2>. HIDE DEF R
  <2>. QED
    BY <2>1, <2>2, Least
<1>4. PICK x \in S : Len(TilesOf(x)) = l /\ r = Experts - x
  OBVIOUS
<1>5. ASSUME NEW y \in S, y # x
      PROVE  SortedBefore(y, x)
  <2>1. CASE Len(TilesOf(y)) = l
    <3>1. Experts - y \in R
      BY <2>1
    <3>2. Experts - x =< Experts - y
      BY <1>3, <1>4, <3>1
    <3>3. y < x
      BY <1>2, <1>5, <3>2, SizeFacts
    <3>. QED
      BY <1>4, <2>1, <3>3 DEF SortedBefore
  <2>2. CASE Len(TilesOf(y)) # l
    <3>1. Len(TilesOf(y)) > Len(TilesOf(x))
      BY <1>2, <1>4, <2>2
    <3>. QED
      BY <3>1 DEF SortedBefore
  <2>. QED
    BY <2>1, <2>2
<1>. QED
  BY <1>5

Sorted(o, k) == \A i, j \in 1 .. k : i < j => SortedBefore(o[i], o[j])

LEMMA SortedExists ==
  ASSUME RoutingOK
  PROVE  \E o \in [1 .. Experts -> ExpertIds] : Sorted(o, Experts)
<1>. DEFINE G == {k \in Nat : \A S \in SUBSET ExpertIds :
                    Cardinality(S) = k => \E o \in [1 .. k -> S] : Sorted(o, k)}
<1>1. 0 \in G
  <2>1. ASSUME NEW S \in SUBSET ExpertIds
        PROVE  \E o \in [1 .. 0 -> S] : Sorted(o, 0)
    <3>1. [i \in 1 .. 0 |-> 0] \in [1 .. 0 -> S]
      OBVIOUS
    <3>2. Sorted([i \in 1 .. 0 |-> 0], 0)
      BY DEF Sorted
    <3>. QED
      BY <3>1, <3>2
  <2>. QED
    BY <2>1
<1>2. ASSUME NEW k \in G PROVE k + 1 \in G
  <2>1. k \in Nat
    OBVIOUS
  <2>2. ASSUME NEW S \in SUBSET ExpertIds, Cardinality(S) = k + 1
        PROVE  \E o \in [1 .. k + 1 -> S] : Sorted(o, k + 1)
    <3>1. IsFiniteSet(S)
      BY SizeFacts, FS_Subset
    <3>2. S # {}
      BY <2>1, <2>2, FS_EmptySet
    <3>3. PICK x \in S : \A y \in S : y # x => SortedBefore(y, x)
      BY <3>2, LastSorted
    <3>4. Cardinality(S \ {x}) = k
      BY <2>1, <2>2, <3>1, FS_RemoveElement
    <3>5. S \ {x} \in SUBSET ExpertIds
      OBVIOUS
    <3>6. PICK p \in [1 .. k -> S \ {x}] : Sorted(p, k)
      BY <3>4, <3>5
    <3>. HIDE DEF G
    <3>. DEFINE o == [i \in 1 .. k + 1 |-> IF i = k + 1 THEN x ELSE p[i]]
    <3>7. \A i \in 1 .. k : i \in 1 .. k + 1 /\ i # k + 1
      BY <2>1
    <3>8. \A i \in 1 .. k + 1 : i = k + 1 \/ i \in 1 .. k
      BY <2>1
    <3>9. \A i \in 1 .. k : o[i] = p[i] /\ p[i] \in S \ {x}
      BY <3>7
    <3>10. o[k + 1] = x
      BY <2>1
    <3>11. o \in [1 .. k + 1 -> S]
      BY <3>8, <3>9, <3>10
    <3>. HIDE DEF o
    <3>12. ASSUME NEW i \in 1 .. k + 1, NEW j \in 1 .. k + 1, i < j
           PROVE  SortedBefore(o[i], o[j])
      <4>1. i \in 1 .. k
        BY <2>1, <3>12
      <4>2. CASE j = k + 1
        BY <3>3, <3>9, <3>10, <4>1, <4>2
      <4>3. CASE j \in 1 .. k
        BY <3>6, <3>9, <3>12, <4>1, <4>3 DEF Sorted
      <4>. QED
        BY <3>8, <4>2, <4>3
    <3>. QED
      BY <3>11, <3>12 DEF Sorted
  <2>. QED
    BY <2>1, <2>2
<1>3. Experts \in G
  <2>. HIDE DEF G
  <2>1. G \subseteq Nat
    BY DEF G
  <2>. QED
    BY <1>1, <1>2, <2>1, SizeFacts, AllOfNat
<1>. QED
  BY <1>3, SizeFacts

\* An order of all the experts.
IsOrder(o) ==
  /\ o \in [1 .. Experts -> ExpertIds]
  /\ \A i, j \in 1 .. Experts : o[i] = o[j] => i = j
  /\ \A e \in ExpertIds : \E i \in 1 .. Experts : o[i] = e

LEMMA DescendingOrder ==
  ASSUME RoutingOK
  PROVE  IsOrder(ByDescendingTiles) /\ Sorted(ByDescendingTiles, Experts)
<1>. DEFINE o == ByDescendingTiles
<1>1. o \in [1 .. Experts -> ExpertIds] /\ Sorted(o, Experts)
  <2>1. \E p \in [1 .. Experts -> ExpertIds] :
          \A i, j \in 1 .. Experts : i < j => SortedBefore(p[i], p[j])
    BY SortedExists DEF Sorted
  <2>. QED
    BY <2>1 DEF ByDescendingTiles, Sorted
<1>. HIDE DEF o
<1>2. ASSUME NEW i \in 1 .. Experts, NEW j \in 1 .. Experts, o[i] = o[j]
      PROVE  i = j
  <2>1. o[i] \in ExpertIds /\ ~SortedBefore(o[i], o[i])
    BY <1>1, BeforeFacts
  <2>2. ~(i < j) /\ ~(j < i)
    BY <1>1, <1>2, <2>1 DEF Sorted
  <2>. QED
    BY <2>2, SizeFacts
<1>3. \A e \in ExpertIds : \E i \in 1 .. Experts : o[i] = e
  <2>1. o \in Injection(1 .. Experts, ExpertIds)
    BY <1>1, <1>2 DEF Injection, IsInjective
  <2>2. Cardinality(1 .. Experts) = Experts
    BY SizeFacts, FS_Interval
  <2>3. o \in Surjection(1 .. Experts, ExpertIds)
    BY <2>1, <2>2, SizeFacts, FS_Injection
  <2>. QED
    BY <2>3 DEF Surjection
<1>. QED
  BY <1>1, <1>2, <1>3 DEF IsOrder, o

\* The experts in the order of their numbers.
ByNumber == [i \in 1 .. Experts |-> i - 1]

LEMMA NumberOrder == IsOrder(ByNumber)
<1>1. \A i \in 1 .. Experts : i - 1 \in ExpertIds
  BY SizeFacts DEF ExpertIds
<1>2. \A e \in ExpertIds : e + 1 \in 1 .. Experts /\ (e + 1) - 1 = e
  BY SizeFacts DEF ExpertIds
<1>3. \A i, j \in 1 .. Experts : i - 1 = j - 1 => i = j
  BY SizeFacts
<1>. QED
  BY <1>1, <1>2, <1>3 DEF IsOrder, ByNumber

------------------------------------------------------------------------------
(* The work list in another order of the experts                           *)

\* The tiles of the first k experts of an order.
Along(o, k) == FlattenSeq([i \in 1 .. k |-> TilesOf(o[i])])

LEMMA AlongNone ==
  ASSUME NEW o
  PROVE  Along(o, 0) = <<>>
<1>. DEFINE s == [i \in 1 .. 0 |-> TilesOf(o[i])]
<1>1. s = <<>>
  <2>1. s \in Seq({}) /\ Len(s) = 0
    OBVIOUS
  <2>. HIDE DEF s
  <2>. QED
    BY <2>1, EmptySeq
<1>2. Along(o, 0) = FlattenSeq(s)
  BY DEF Along
<1>. HIDE DEF s
<1>. QED
  BY <1>1, <1>2, FlattenEmpty

LEMMA AlongStep ==
  ASSUME RoutingOK, NEW o \in [1 .. Experts -> ExpertIds], NEW k \in Nat, k < Experts
  PROVE  Along(o, k + 1) = Along(o, k) \o TilesOf(o[k + 1])
<1>. DEFINE s == [i \in 1 .. k + 1 |-> TilesOf(o[i])]
            r == [i \in 1 .. k |-> TilesOf(o[i])]
<1>1. s \in [1 .. k + 1 -> Seq(CpuTile)]
  <2>. SUFFICES ASSUME NEW i \in 1 .. k + 1 PROVE TilesOf(o[i]) \in Seq(CpuTile)
    OBVIOUS
  <2>1. o[i] \in ExpertIds
    BY SizeFacts
  <2>. QED
    BY <2>1, TilesLen
<1>2. r = [i \in 1 .. k |-> s[i]] /\ s[k + 1] = TilesOf(o[k + 1])
  <2>1. \A i \in 1 .. k : i \in 1 .. k + 1
    OBVIOUS
  <2>2. k + 1 \in 1 .. k + 1
    OBVIOUS
  <2>. QED
    BY <2>1, <2>2, Zenon
<1>3. Along(o, k + 1) = FlattenSeq(s) /\ Along(o, k) = FlattenSeq(r)
  BY DEF Along
<1>. HIDE DEF r, s
<1>4. AllButLast(r, s, k, CpuTile)
  BY <1>1, <1>2 DEF AllButLast
<1>5. FlattenSeq(s) = FlattenSeq(r) \o s[k + 1]
  BY <1>4, FlattenStep
<1>. QED
  BY <1>2, <1>3, <1>5, Zenon

\* What two joined lists hold, and where.
LEMMA JoinedAlong ==
  ASSUME NEW T, NEW p \in Seq(T), NEW q \in Seq(T)
  PROVE  /\ p \o q \in Seq(T) /\ Len(p \o q) = Len(p) + Len(q)
         /\ ToSet(p \o q) = ToSet(p) \cup ToSet(q)
         /\ \A i \in 1 .. Len(p \o q) :
              \/ i \in 1 .. Len(p) /\ (p \o q)[i] = p[i]
              \/ i > Len(p) /\ i - Len(p) \in 1 .. Len(q) /\ (p \o q)[i] = q[i - Len(p)]
<1>. DEFINE u == p \o q
<1>1. /\ u \in Seq(T) /\ Len(u) = Len(p) + Len(q) /\ Len(p) \in Nat /\ Len(q) \in Nat
      /\ \A i \in 1 .. Len(u) : u[i] = IF i =< Len(p) THEN p[i] ELSE q[i - Len(p)]
  BY ConcatProperties
<1>2. /\ DOMAIN u = 1 .. Len(u) /\ DOMAIN p = 1 .. Len(p) /\ DOMAIN q = 1 .. Len(q)
  BY <1>1
<1>. HIDE DEF u
<1>3. \A i \in 1 .. Len(u) :
        \/ i \in 1 .. Len(p) /\ u[i] = p[i]
        \/ i > Len(p) /\ i - Len(p) \in 1 .. Len(q) /\ u[i] = q[i - Len(p)]
  <2>. TAKE i \in 1 .. Len(u)
  <2>1. CASE i =< Len(p)
    <3>1. i \in 1 .. Len(p)
      BY <1>1, <2>1
    <3>. QED
      BY <1>1, <2>1, <3>1
  <2>2. CASE ~(i =< Len(p))
    <3>1. i > Len(p) /\ i - Len(p) \in 1 .. Len(q)
      BY <1>1, <2>2
    <3>. QED
      BY <1>1, <2>2, <3>1
  <2>. QED
    BY <2>1, <2>2
<1>4. \A i \in 1 .. Len(p) : i \in 1 .. Len(u) /\ u[i] = p[i]
  <2>. TAKE i \in 1 .. Len(p)
  <2>1. i \in 1 .. Len(u) /\ i =< Len(p)
    BY <1>1
  <2>. QED
    BY <1>1, <2>1
<1>5. \A i \in 1 .. Len(q) : Len(p) + i \in 1 .. Len(u) /\ u[Len(p) + i] = q[i]
  <2>. TAKE i \in 1 .. Len(q)
  <2>1. Len(p) + i \in 1 .. Len(u) /\ ~(Len(p) + i =< Len(p)) /\ (Len(p) + i) - Len(p) = i
    BY <1>1
  <2>. QED
    BY <1>1, <2>1
<1>6. ToSet(u) = ToSet(p) \cup ToSet(q)
  <2>1. ASSUME NEW i \in DOMAIN u PROVE u[i] \in ToSet(p) \cup ToSet(q)
    BY <1>2, <1>3 DEF ToSet
  <2>2. ASSUME NEW i \in DOMAIN p PROVE p[i] \in ToSet(u)
    BY <1>2, <1>4 DEF ToSet
  <2>3. ASSUME NEW i \in DOMAIN q PROVE q[i] \in ToSet(u)
    BY <1>2, <1>5 DEF ToSet
  <2>. QED
    BY <2>1, <2>2, <2>3 DEF ToSet
<1>. QED
  BY <1>1, <1>3, <1>6 DEF u

TileCounts == [e \in ExpertIds |-> Len(TilesOf(e))]

\* The experts before the k-th of an order.
Upto(o, k) == {o[i] : i \in 1 .. k}

AlongHas(o, k) ==
  /\ Along(o, k) \in Seq(CpuTile)
  /\ Len(Along(o, k)) = Total(TileCounts, Upto(o, k))
  /\ ToSet(Along(o, k)) = UNION {ToSet(TilesOf(e)) : e \in Upto(o, k)}

LEMMA AlongHasNext ==
  ASSUME RoutingOK, NEW o, IsOrder(o), NEW k \in Nat, k < Experts, AlongHas(o, k)
  PROVE  AlongHas(o, k + 1)
<1>. DEFINE p == Along(o, k)
            e == o[k + 1]
            q == TilesOf(e)
            N == Upto(o, k + 1)
<1>1. o \in [1 .. Experts -> ExpertIds] /\ k + 1 \in 1 .. Experts /\ e \in ExpertIds
  BY SizeFacts DEF IsOrder
<1>2. Along(o, k + 1) = p \o q
  BY <1>1, AlongStep
<1>3. p \in Seq(CpuTile) /\ q \in Seq(CpuTile) /\ Len(q) = TileCounts[e]
  BY <1>1, TilesLen DEF AlongHas, TileCounts
<1>4. N = Upto(o, k) \cup {e} /\ N \ {e} = Upto(o, k) /\ N \subseteq ExpertIds /\ e \in N
  <2>1. \A i \in 1 .. k : i \in 1 .. Experts /\ i \in 1 .. k + 1 /\ i # k + 1
    BY SizeFacts
  <2>2. \A i \in 1 .. k + 1 : i \in 1 .. k \/ i = k + 1
    OBVIOUS
  <2>3. \A i \in 1 .. k : o[i] # e /\ o[i] \in ExpertIds
    BY <1>1, <2>1 DEF IsOrder
  <2>4. k + 1 \in 1 .. k + 1
    OBVIOUS
  <2>. QED
    BY <1>1, <2>1, <2>2, <2>3, <2>4 DEF Upto
<1>5. IsFiniteSet(N) /\ \A d \in N : TileCounts[d] \in Int
  <2>1. IsFiniteSet(N)
    BY <1>4, SizeFacts, FS_Subset
  <2>. QED
    BY <1>4, <2>1, TilesLen DEF TileCounts
<1>. HIDE DEF p, q, e, N
<1>6. Total(TileCounts, N) = TileCounts[e] + Total(TileCounts, N \ {e})
  BY <1>4, <1>5, TotalFacts
<1>7. TileCounts[e] \in Int /\ Total(TileCounts, N \ {e}) \in Int
  <2>1. IsFiniteSet(N \ {e}) /\ \A d \in N \ {e} : TileCounts[d] \in Int
    BY <1>5, FS_RemoveElement
  <2>. QED
    BY <1>4, <1>5, <2>1, TotalFacts
<1>8. /\ p \o q \in Seq(CpuTile) /\ Len(p \o q) = Len(p) + Len(q)
      /\ ToSet(p \o q) = ToSet(p) \cup ToSet(q)
  BY <1>3, JoinedAlong
<1>9. Len(p) = Total(TileCounts, Upto(o, k))
      /\ ToSet(p) = UNION {ToSet(TilesOf(d)) : d \in Upto(o, k)}
  BY DEF AlongHas, p
<1>10. Len(p \o q) = Total(TileCounts, N)
  <2>1. Len(p) = Total(TileCounts, N \ {e})
    BY <1>4, <1>9
  <2>2. Len(p \o q) = Len(p) + TileCounts[e]
    BY <1>3, <1>8
  <2>. QED
    BY <1>6, <1>7, <2>1, <2>2
<1>11. ToSet(p \o q) = UNION {ToSet(TilesOf(d)) : d \in N}
  BY <1>4, <1>8, <1>9 DEF q
<1>. QED
  BY <1>2, <1>8, <1>10, <1>11 DEF AlongHas, N

LEMMA AlongAll ==
  ASSUME RoutingOK, NEW o, IsOrder(o)
  PROVE  /\ Along(o, Experts) \in Seq(CpuTile)
         /\ Len(Along(o, Experts)) = Total(TileCounts, ExpertIds)
         /\ ToSet(Along(o, Experts)) = UNION {ToSet(TilesOf(e)) : e \in ExpertIds}
<1>. DEFINE G == {k \in Nat : k =< Experts => AlongHas(o, k)}
<1>1. 0 \in G
  <2>1. Upto(o, 0) = {}
    BY DEF Upto
  <2>2. <<>> \in Seq(CpuTile) /\ Len(<<>>) = 0 /\ ToSet(<<>>) = {}
    BY DEF ToSet
  <2>3. Total(TileCounts, {}) = 0
    BY TotalEmpty
  <2>. QED
    BY <2>1, <2>2, <2>3, AlongNone DEF AlongHas
<1>2. ASSUME NEW k \in G PROVE k + 1 \in G
  <2>1. k \in Nat /\ (k =< Experts => AlongHas(o, k))
    OBVIOUS
  <2>. HIDE DEF G
  <2>2. ASSUME k + 1 =< Experts PROVE AlongHas(o, k + 1)
    <3>1. k < Experts /\ k =< Experts
      BY <2>1, <2>2, SizeFacts
    <3>. QED
      BY <2>1, <3>1, AlongHasNext
  <2>. QED
    BY <2>1, <2>2 DEF G
<1>3. Experts \in G
  <2>. HIDE DEF G
  <2>1. G \subseteq Nat
    BY DEF G
  <2>. QED
    BY <1>1, <1>2, <2>1, SizeFacts, AllOfNat
<1>4. Upto(o, Experts) = ExpertIds
  BY DEF Upto, IsOrder
<1>. QED
  BY <1>3, <1>4, SizeFacts DEF AlongHas

\* In the static order no tile's expert has more tiles than an earlier one's.
Falling(o, k) ==
  /\ \A i \in 1 .. Len(Along(o, k)) : Along(o, k)[i].expert \in Upto(o, k)
  /\ \A i, j \in 1 .. Len(Along(o, k)) :
       i < j => Len(TilesOf(Along(o, k)[i].expert)) >= Len(TilesOf(Along(o, k)[j].expert))

LEMMA OwnExpert ==
  ASSUME RoutingOK, NEW e \in ExpertIds, NEW i \in 1 .. Len(TilesOf(e))
  PROVE  TilesOf(e)[i].expert = e
<1>. DEFINE w == TileBlocks(n, TileN)
            k == TileBlocks(counts[e], LargeM) * w
<1>1. TilesOf(e) = [x \in 1 .. k |->
        [expert |-> e, m |-> (x - 1) \div w, n |-> (x - 1) % w,
         validM |-> Smaller(LargeM, counts[e] - ((x - 1) \div w) * LargeM),
         validN |-> Smaller(TileN, n - ((x - 1) % w) * TileN)]]
  BY DEF TilesOf
<1>2. DOMAIN TilesOf(e) = 1 .. k /\ i \in DOMAIN TilesOf(e)
  <2>1. DOMAIN TilesOf(e) = 1 .. Len(TilesOf(e))
    BY TilesLen
  <2>. HIDE DEF k
  <2>. QED
    BY <1>1, <2>1
<1>. HIDE DEF k
<1>. QED
  BY <1>1, <1>2

LEMMA FallingNext ==
  ASSUME RoutingOK, NEW o, IsOrder(o), Sorted(o, Experts),
         NEW k \in Nat, k < Experts, AlongHas(o, k), Falling(o, k)
  PROVE  Falling(o, k + 1)
<1>. DEFINE p == Along(o, k)
            e == o[k + 1]
            q == TilesOf(e)
            u == p \o q
<1>1. o \in [1 .. Experts -> ExpertIds] /\ k + 1 \in 1 .. Experts /\ e \in ExpertIds
  BY SizeFacts DEF IsOrder
<1>2. Along(o, k + 1) = u
  BY <1>1, AlongStep
<1>3. p \in Seq(CpuTile) /\ q \in Seq(CpuTile) /\ Len(p) \in Nat /\ Len(q) \in Nat
  BY <1>1, TilesLen DEF AlongHas
<1>4. \A d \in Upto(o, k) : d \in ExpertIds /\ Len(TilesOf(d)) >= Len(TilesOf(e))
  <2>1. ASSUME NEW i \in 1 .. k
        PROVE  o[i] \in ExpertIds /\ Len(TilesOf(o[i])) >= Len(TilesOf(e))
    <3>1. i \in 1 .. Experts /\ i < k + 1
      BY SizeFacts
    <3>2. o[i] \in ExpertIds /\ SortedBefore(o[i], e)
      BY <1>1, <3>1 DEF Sorted
    <3>. QED
      BY <1>1, <3>2, BeforeFacts
  <2>. QED
    BY <2>1 DEF Upto
<1>5. \A d \in Upto(o, k) : d \in Upto(o, k + 1)
  <2>1. \A i \in 1 .. k : i \in 1 .. k + 1
    OBVIOUS
  <2>. QED
    BY <2>1 DEF Upto
<1>6. e \in Upto(o, k + 1)
  <2>1. k + 1 \in 1 .. k + 1
    OBVIOUS
  <2>. QED
    BY <2>1 DEF Upto
<1>7. \A i \in 1 .. Len(q) : q[i].expert = e
  BY <1>1, OwnExpert
<1>8. /\ \A i \in 1 .. Len(p) : p[i].expert \in Upto(o, k)
      /\ \A i, j \in 1 .. Len(p) :
           i < j => Len(TilesOf(p[i].expert)) >= Len(TilesOf(p[j].expert))
  BY DEF Falling
<1>. HIDE DEF p, q, e
<1>9. \A i \in 1 .. Len(u) :
        \/ i \in 1 .. Len(p) /\ u[i] = p[i]
        \/ i > Len(p) /\ i - Len(p) \in 1 .. Len(q) /\ u[i] = q[i - Len(p)]
  BY <1>3, JoinedAlong
<1>10. Len(u) \in Nat
  BY <1>3, JoinedAlong
<1>. HIDE DEF u
<1>11. \A i \in 1 .. Len(u) : u[i].expert \in Upto(o, k + 1)
  BY <1>5, <1>6, <1>7, <1>8, <1>9
<1>12. ASSUME NEW i \in 1 .. Len(u), NEW j \in 1 .. Len(u), i < j
       PROVE  Len(TilesOf(u[i].expert)) >= Len(TilesOf(u[j].expert))
  <2>1. CASE j \in 1 .. Len(p) /\ u[j] = p[j]
    <3>1. i \in 1 .. Len(p)
      BY <1>3, <1>10, <1>12, <2>1
    <3>2. u[i] = p[i]
      BY <1>3, <1>9, <3>1
    <3>. QED
      BY <1>8, <1>12, <2>1, <3>1, <3>2
  <2>2. CASE j > Len(p) /\ u[j] = q[j - Len(p)] /\ j - Len(p) \in 1 .. Len(q)
    <3>1. u[j].expert = e
      BY <1>7, <2>2
    <3>2. u[i].expert \in Upto(o, k) \/ u[i].expert = e
      BY <1>7, <1>8, <1>9
    <3>3. Len(TilesOf(e)) \in Nat
      BY <1>1, TilesLen
    <3>. QED
      BY <1>4, <3>1, <3>2, <3>3
  <2>. QED
    BY <1>9, <2>1, <2>2
<1>. QED
  BY <1>2, <1>11, <1>12 DEF Falling

LEMMA FallingAll ==
  ASSUME RoutingOK, NEW o, IsOrder(o), Sorted(o, Experts)
  PROVE  Falling(o, Experts)
<1>. DEFINE G == {k \in Nat : k =< Experts => AlongHas(o, k) /\ Falling(o, k)}
<1>1. 0 \in G
  <2>1. Upto(o, 0) = {}
    BY DEF Upto
  <2>2. <<>> \in Seq(CpuTile) /\ Len(<<>>) = 0 /\ ToSet(<<>>) = {}
    BY DEF ToSet
  <2>3. Total(TileCounts, {}) = 0
    BY TotalEmpty
  <2>4. AlongHas(o, 0)
    BY <2>1, <2>2, <2>3, AlongNone DEF AlongHas
  <2>5. Falling(o, 0)
    BY <2>2, AlongNone DEF Falling
  <2>. QED
    BY <2>4, <2>5
<1>2. ASSUME NEW k \in G PROVE k + 1 \in G
  <2>1. k \in Nat /\ (k =< Experts => AlongHas(o, k) /\ Falling(o, k))
    OBVIOUS
  <2>. HIDE DEF G
  <2>2. ASSUME k + 1 =< Experts PROVE AlongHas(o, k + 1) /\ Falling(o, k + 1)
    <3>1. k < Experts /\ k =< Experts
      BY <2>1, <2>2, SizeFacts
    <3>. QED
      BY <2>1, <3>1, AlongHasNext, FallingNext
  <2>. QED
    BY <2>1, <2>2 DEF G
<1>3. Experts \in G
  <2>. HIDE DEF G
  <2>1. G \subseteq Nat
    BY DEF G
  <2>. QED
    BY <1>1, <1>2, <2>1, SizeFacts, AllOfNat
<1>. QED
  BY <1>3, SizeFacts

------------------------------------------------------------------------------
(* The static assignments                                                  *)

LEMMA StrideNext ==
  ASSUME NEW b \in Nat, b > 0, NEW d \in Nat
  PROVE  /\ (d + 1) \div b = IF (d % b) + 1 = b THEN (d \div b) + 1 ELSE d \div b
         /\ (d + 1) % b = IF (d % b) + 1 = b THEN 0 ELSE (d % b) + 1
<1>. DEFINE q == d \div b
            r == d % b
<1>1. q \in Nat /\ r \in 0 .. b - 1 /\ d = b * q + r
  BY DivFacts
<1>. HIDE DEF q, r
<1>2. b * q \in Nat /\ b * (q + 1) = b * q + b
  BY <1>1
<1>3. CASE r + 1 = b
  <2>1. d + 1 = b * (q + 1) + 0
    BY <1>1, <1>2, <1>3
  <2>2. q + 1 \in Nat /\ 0 \in 0 .. b - 1
    BY <1>1
  <2>3. (b * (q + 1) + 0) \div b = q + 1 /\ (b * (q + 1) + 0) % b = 0
    BY <2>2, DivUnique
  <2>. QED
    BY <1>3, <2>1, <2>3 DEF q, r
<1>4. CASE r + 1 # b
  <2>1. d + 1 = b * q + (r + 1)
    BY <1>1, <1>2
  <2>2. r + 1 \in 0 .. b - 1
    BY <1>1, <1>4
  <2>3. (b * q + (r + 1)) \div b = q /\ (b * q + (r + 1)) % b = r + 1
    BY <1>1, <2>2, DivUnique
  <2>. QED
    BY <1>4, <2>1, <2>3 DEF q, r
<1>. QED
  BY <1>3, <1>4

\* How many of the first d turns are c's, of b.
Turns(d, b, c) == (d \div b) + (IF c < (d % b) THEN 1 ELSE 0)

LEMMA TurnsNext ==
  ASSUME NEW b \in Nat, b > 0, NEW d \in Nat, NEW c \in 0 .. b - 1
  PROVE  /\ Turns(d, b, c) \in Nat
         /\ Turns(d + 1, b, c) = Turns(d, b, c) + (IF c = d % b THEN 1 ELSE 0)
<1>. DEFINE q == d \div b
            r == d % b
            x == (d + 1) \div b
            y == (d + 1) % b
<1>1. q \in Nat /\ r \in 0 .. b - 1
  BY DivFacts
<1>2. x = (IF r + 1 = b THEN q + 1 ELSE q) /\ y = (IF r + 1 = b THEN 0 ELSE r + 1)
  BY StrideNext
<1>3. Turns(d, b, c) = q + (IF c < r THEN 1 ELSE 0)
      /\ Turns(d + 1, b, c) = x + (IF c < y THEN 1 ELSE 0)
  BY DEF Turns
<1>4. c = d % b <=> c = r
  OBVIOUS
<1>. HIDE DEF q, r, x, y
<1>5. CASE r + 1 = b
  BY <1>1, <1>2, <1>3, <1>4, <1>5
<1>6. CASE r + 1 # b
  BY <1>1, <1>2, <1>3, <1>4, <1>6
<1>. QED
  BY <1>5, <1>6

\* The indices dealt to a CTA so far.
TurnsOf(c) == {i \in 0 .. dealt - 1 : i % CtaCount = c}

InTurn ==
  /\ tiles = IF scheduler = "static_persistent" THEN OrderByDescendingExpertTiles
             ELSE BuildExpertTiles
  /\ dealt \in Nat /\ dealt =< Len(tiles)
  /\ ctaTiles \in [Ctas -> Seq(CpuTile)]
  /\ \A c \in Ctas : Len(ctaTiles[c]) = Turns(dealt, CtaCount, c)
  /\ \A c \in Ctas : ToSet(ctaTiles[c]) = {tiles[i + 1] : i \in TurnsOf(c)}

StrideInv == scheduler \notin {"none", "dynamic_queue"} => InTurn

LEMMA OrdersAre ==
  /\ BuildExpertTiles = Along(ByNumber, Experts)
  /\ OrderByDescendingExpertTiles = Along(ByDescendingTiles, Experts)
<1>1. [e \in 1 .. Experts |-> TilesOf(e - 1)] = [i \in 1 .. Experts |-> TilesOf(ByNumber[i])]
  BY DEF ByNumber
<1>2. BuildExpertTiles = FlattenSeq([e \in 1 .. Experts |-> TilesOf(e - 1)])
  BY DEF BuildExpertTiles
<1>3. Along(ByNumber, Experts) = FlattenSeq([i \in 1 .. Experts |-> TilesOf(ByNumber[i])])
  BY DEF Along
<1>4. OrderByDescendingExpertTiles = Along(ByDescendingTiles, Experts)
  BY DEF OrderByDescendingExpertTiles, Along
<1>. QED
  BY <1>1, <1>2, <1>3, <1>4

\* The static lists are one list in two orders.
LEMMA StaticTiles ==
  ASSUME RoutingOK, InTurn
  PROVE  /\ tiles \in Seq(CpuTile) /\ Len(tiles) = Len(BuildExpertTiles)
         /\ ToSet(tiles) = ToSet(BuildExpertTiles)
<1>1. IsOrder(ByNumber) /\ IsOrder(ByDescendingTiles)
  BY NumberOrder, DescendingOrder
<1>2. tiles = BuildExpertTiles \/ tiles = OrderByDescendingExpertTiles
  BY DEF InTurn
<1>3. /\ BuildExpertTiles \in Seq(CpuTile) /\ Len(BuildExpertTiles) = Total(TileCounts, ExpertIds)
      /\ ToSet(BuildExpertTiles) = UNION {ToSet(TilesOf(e)) : e \in ExpertIds}
  BY <1>1, OrdersAre, AlongAll
<1>4. /\ OrderByDescendingExpertTiles \in Seq(CpuTile)
      /\ Len(OrderByDescendingExpertTiles) = Total(TileCounts, ExpertIds)
      /\ ToSet(OrderByDescendingExpertTiles) = UNION {ToSet(TilesOf(e)) : e \in ExpertIds}
  BY <1>1, OrdersAre, AlongAll
<1>. QED
  BY <1>2, <1>3, <1>4

LEMMA DealInTurn ==
  ASSUME RoutingOK, InTurn, Deal, scheduler # "dynamic_queue", counts' = counts, n' = n
  PROVE  InTurn'
<1>. DEFINE x == dealt % CtaCount
            t == tiles[dealt + 1]
<1>1. /\ dealt' = dealt + 1 /\ tiles' = tiles /\ scheduler' = scheduler
      /\ ctaTiles' = [ctaTiles EXCEPT ![x] = Append(@, t)]
      /\ dealt < Len(tiles)
  BY DEF Deal, NextCta
<1>2. /\ dealt \in Nat /\ ctaTiles \in [Ctas -> Seq(CpuTile)]
      /\ \A c \in Ctas : Len(ctaTiles[c]) = Turns(dealt, CtaCount, c)
      /\ \A c \in Ctas : ToSet(ctaTiles[c]) = {tiles[i + 1] : i \in TurnsOf(c)}
  BY DEF InTurn
<1>3. tiles \in Seq(CpuTile) /\ Len(tiles) \in Nat
  BY StaticTiles
<1>4. t \in CpuTile
  <2>1. dealt + 1 \in 1 .. Len(tiles)
    BY <1>1, <1>2, <1>3
  <2>. QED
    BY <1>3, <2>1
<1>5. x \in Ctas /\ \A c \in Ctas : c \in 0 .. CtaCount - 1
  BY <1>2, SizeFacts DEF Ctas
<1>6. \A c \in Ctas : ctaTiles'[c] = IF c = x THEN Append(ctaTiles[c], t) ELSE ctaTiles[c]
  BY <1>1, <1>2
<1>7. (tiles = IF scheduler = "static_persistent" THEN OrderByDescendingExpertTiles
               ELSE BuildExpertTiles)'
  <2>1. BuildExpertTiles' = BuildExpertTiles
    BY DEF BuildExpertTiles, TilesOf, TileBlocks
  <2>2. OrderByDescendingExpertTiles' = OrderByDescendingExpertTiles
    BY DEF OrderByDescendingExpertTiles, ByDescendingTiles, SortedBefore, TilesOf, TileBlocks
  <2>. QED
    BY <1>1, <2>1, <2>2 DEF InTurn
<1>. HIDE DEF t
<1>8. ASSUME NEW c \in Ctas
      PROVE  /\ ctaTiles'[c] \in Seq(CpuTile)
             /\ Len(ctaTiles'[c]) = Turns(dealt + 1, CtaCount, c)
             /\ ToSet(ctaTiles'[c]) = {tiles[i + 1] : i \in {j \in 0 .. dealt : j % CtaCount = c}}
  <2>1. ctaTiles[c] \in Seq(CpuTile) /\ Len(ctaTiles[c]) \in Nat
    BY <1>2
  <2>2. Turns(dealt + 1, CtaCount, c) = Turns(dealt, CtaCount, c) + (IF c = x THEN 1 ELSE 0)
    <3>1. c \in 0 .. CtaCount - 1 /\ CtaCount \in Nat /\ CtaCount > 0 /\ dealt \in Nat
      BY <1>2, <1>5, SizeFacts
    <3>2. Turns(dealt + 1, CtaCount, c) = Turns(dealt, CtaCount, c) + (IF c = dealt % CtaCount THEN 1 ELSE 0)
      BY <3>1, TurnsNext
    <3>. QED
      BY <3>2
  <2>3. ToSet(ctaTiles[c]) = {tiles[i + 1] : i \in TurnsOf(c)}
    BY <1>2
  <2>4. CASE c = x
    <3>1. Append(ctaTiles[c], t) \in Seq(CpuTile)
          /\ Len(Append(ctaTiles[c], t)) = Len(ctaTiles[c]) + 1
      BY <1>4, <2>1
    <3>2. ToSet(Append(ctaTiles[c], t)) = ToSet(ctaTiles[c]) \cup {t}
      <4>1. /\ DOMAIN Append(ctaTiles[c], t) = 1 .. Len(ctaTiles[c]) + 1
            /\ DOMAIN ctaTiles[c] = 1 .. Len(ctaTiles[c])
            /\ \A i \in 1 .. Len(ctaTiles[c]) : Append(ctaTiles[c], t)[i] = ctaTiles[c][i]
            /\ Append(ctaTiles[c], t)[Len(ctaTiles[c]) + 1] = t
        BY <1>4, <2>1
      <4>2. 1 .. Len(ctaTiles[c]) + 1 = (1 .. Len(ctaTiles[c])) \cup {Len(ctaTiles[c]) + 1}
        BY <2>1
      <4>. QED
        BY <4>1, <4>2, SMT DEF ToSet
    <3>3. {j \in 0 .. dealt : j % CtaCount = c} = TurnsOf(c) \cup {dealt}
      <4>1. \A j : j \in 0 .. dealt <=> j \in 0 .. dealt - 1 \/ j = dealt
        BY <1>2
      <4>. QED
        BY <2>4, <4>1 DEF TurnsOf
    <3>4. {tiles[i + 1] : i \in TurnsOf(c) \cup {dealt}} = {tiles[i + 1] : i \in TurnsOf(c)} \cup {t}
      BY Zenon DEF t
    <3>. QED
      BY <1>2, <1>6, <2>2, <2>3, <2>4, <3>1, <3>2, <3>3, <3>4
  <2>5. CASE c # x
    <3>1. {j \in 0 .. dealt : j % CtaCount = c} = TurnsOf(c)
      <4>1. \A j : j \in 0 .. dealt <=> j \in 0 .. dealt - 1 \/ j = dealt
        BY <1>2
      <4>. QED
        BY <2>5, <4>1 DEF TurnsOf
    <3>2. Turns(dealt, CtaCount, c) \in Nat
      BY <1>2, <2>1
    <3>. QED
      BY <1>2, <1>6, <2>1, <2>2, <2>3, <2>5, <3>1, <3>2, SMTT(30)
  <2>. QED
    BY <2>4, <2>5
<1>9. (dealt \in Nat /\ dealt =< Len(tiles))'
  BY <1>1, <1>2, <1>3
<1>10. (ctaTiles \in [Ctas -> Seq(CpuTile)])'
  <2>1. ctaTiles' = [c \in Ctas |-> ctaTiles'[c]]
    BY <1>1, <1>2
  <2>. QED
    BY <1>8, <2>1 DEF Ctas
<1>11. (\A c \in Ctas : Len(ctaTiles[c]) = Turns(dealt, CtaCount, c))'
  BY <1>1, <1>8 DEF Ctas, Turns
<1>12. (\A c \in Ctas : ToSet(ctaTiles[c]) = {tiles[i + 1] : i \in TurnsOf(c)})'
  <2>1. \A c : TurnsOf(c)' = {j \in 0 .. dealt : j % CtaCount = c}
    <3>1. (dealt + 1) - 1 = dealt
      BY <1>2
    <3>. QED
      BY <1>1, <3>1 DEF TurnsOf
  <2>2. Ctas' = Ctas
    BY DEF Ctas
  <2>3. ASSUME NEW c \in Ctas
        PROVE  (ToSet(ctaTiles[c]) = {tiles[i + 1] : i \in TurnsOf(c)})'
    <3>1. ToSet(ctaTiles'[c]) = {tiles'[i + 1] : i \in TurnsOf(c)'}
      BY <1>1, <1>8, <2>1
    <3>. QED
      BY <3>1 DEF ToSet
  <2>. QED
    BY <2>2, <2>3
<1>. QED
  BY <1>7, <1>9, <1>10, <1>11, <1>12 DEF InTurn

\* Until the schedulers start nothing has been dealt, and what they deal out is a
\* static list in turn or the ideal queue's.
LEMMA StrideInvNext ==
  ASSUME PlannerInv, GreedyInv, StrideInv, [Next]_hostVars
  PROVE  StrideInv'
<1>1. RoutingOK /\ counts' = counts /\ n' = n
  BY DEF PlannerInv, Next, PlanBuckets, PlanBaseline, Schedule, Run, Finished, hostVars, routing
<1>2. ASSUME UNCHANGED cpuVars PROVE StrideInv'
  <2>1. /\ scheduler' = scheduler /\ tiles' = tiles /\ dealt' = dealt /\ ctaTiles' = ctaTiles
    BY <1>2 DEF cpuVars
  <2>2. ASSUME InTurn PROVE InTurn'
    <3>1. BuildExpertTiles' = BuildExpertTiles
      BY <1>1 DEF BuildExpertTiles, TilesOf, TileBlocks
    <3>2. OrderByDescendingExpertTiles' = OrderByDescendingExpertTiles
      BY <1>1 DEF OrderByDescendingExpertTiles, ByDescendingTiles, SortedBefore, TilesOf, TileBlocks
    <3>3. (\A c \in Ctas : Len(ctaTiles[c]) = Turns(dealt, CtaCount, c))'
      BY <2>1, <2>2 DEF InTurn, Turns
    <3>4. (\A c \in Ctas : ToSet(ctaTiles[c]) = {tiles[i + 1] : i \in TurnsOf(c)})'
      <4>1. Ctas' = Ctas /\ \A c : TurnsOf(c)' = TurnsOf(c)
        BY <2>1 DEF Ctas, TurnsOf
      <4>2. ASSUME NEW c \in Ctas
            PROVE  (ToSet(ctaTiles[c]) = {tiles[i + 1] : i \in TurnsOf(c)})'
        <5>1. ToSet(ctaTiles[c]) = {tiles[i + 1] : i \in TurnsOf(c)}
          BY <2>2 DEF InTurn
        <5>2. ToSet(ctaTiles'[c]) = {tiles'[i + 1] : i \in TurnsOf(c)'}
          BY <2>1, <4>1, <5>1
        <5>. QED
          BY <5>2 DEF ToSet
      <4>. QED
        BY <4>1, <4>2
    <3>. QED
      BY <2>1, <2>2, <3>1, <3>2, <3>3, <3>4 DEF InTurn
  <2>. QED
    BY <2>1, <2>2 DEF StrideInv
<1>3. ASSUME NEW kind \in Kinds, SimulateScheduler(kind), kind # "dynamic_queue"
      PROVE  InTurn'
  <2>1. /\ scheduler = "none" /\ scheduler' = kind /\ dealt' = dealt /\ ctaTiles' = ctaTiles
        /\ tiles' = IF kind = "static_persistent" THEN OrderByDescendingExpertTiles
                    ELSE BuildExpertTiles
    BY <1>3 DEF SimulateScheduler
  <2>2. dealt = 0 /\ ctaTiles = [c \in Ctas |-> <<>>]
    BY <2>1 DEF GreedyInv
  <2>3. (tiles = IF scheduler = "static_persistent" THEN OrderByDescendingExpertTiles
                 ELSE BuildExpertTiles)'
    <3>1. BuildExpertTiles' = BuildExpertTiles
      BY <1>1 DEF BuildExpertTiles, TilesOf, TileBlocks
    <3>2. OrderByDescendingExpertTiles' = OrderByDescendingExpertTiles
      BY <1>1 DEF OrderByDescendingExpertTiles, ByDescendingTiles, SortedBefore, TilesOf, TileBlocks
    <3>. QED
      BY <2>1, <3>1, <3>2
  <2>4. tiles' \in Seq(CpuTile)
    <3>1. BuildExpertTiles \in Seq(CpuTile)
      BY <1>1, ExpertTilesType
    <3>2. OrderByDescendingExpertTiles \in Seq(CpuTile)
      BY <1>1, DescendingOrder, OrdersAre, AlongAll
    <3>. QED
      BY <2>1, <3>1, <3>2
  <2>5. (dealt \in Nat /\ dealt =< Len(tiles))'
    BY <2>1, <2>2, <2>4
  <2>6. (ctaTiles \in [Ctas -> Seq(CpuTile)])'
    BY <2>1, <2>2 DEF Ctas
  <2>7. ASSUME NEW c \in Ctas
        PROVE  /\ Len(ctaTiles[c]) = Turns(0, CtaCount, c)
               /\ ToSet(ctaTiles[c]) = {tiles'[i + 1] : i \in {j \in 0 .. 0 - 1 : j % CtaCount = c}}
    <3>1. Turns(0, CtaCount, c) = 0
      <4>1. (0 \div CtaCount) = 0 /\ 0 % CtaCount = 0
        <5>1. CtaCount * 0 + 0 = 0 /\ 0 \in 0 .. CtaCount - 1
          BY SizeFacts
        <5>2. (CtaCount * 0 + 0) \div CtaCount = 0 /\ (CtaCount * 0 + 0) % CtaCount = 0
          BY <5>1, SizeFacts, DivUnique
        <5>. QED
          BY <5>1, <5>2
      <4>2. ~(c < 0)
        BY SizeFacts DEF Ctas
      <4>. QED
        BY <4>1, <4>2 DEF Turns
    <3>2. Len(ctaTiles[c]) = 0 /\ ToSet(ctaTiles[c]) = {}
      BY <2>2 DEF ToSet
    <3>3. {j \in 0 .. 0 - 1 : j % CtaCount = c} = {}
      OBVIOUS
    <3>. QED
      BY <3>1, <3>2, <3>3
  <2>8. (\A c \in Ctas : Len(ctaTiles[c]) = Turns(dealt, CtaCount, c))'
    BY <2>1, <2>2, <2>7 DEF Ctas, Turns
  <2>9. (\A c \in Ctas : ToSet(ctaTiles[c]) = {tiles[i + 1] : i \in TurnsOf(c)})'
    <3>1. \A c : TurnsOf(c)' = {j \in 0 .. 0 - 1 : j % CtaCount = c}
      BY <2>1, <2>2 DEF TurnsOf
    <3>2. Ctas' = Ctas
      BY DEF Ctas
    <3>3. ASSUME NEW c \in Ctas
          PROVE  (ToSet(ctaTiles[c]) = {tiles[i + 1] : i \in TurnsOf(c)})'
      <4>1. ToSet(ctaTiles'[c]) = {tiles'[i + 1] : i \in TurnsOf(c)'}
        BY <2>1, <2>7, <3>1
      <4>. QED
        BY <4>1 DEF ToSet
    <3>. QED
      BY <3>2, <3>3
  <2>. QED
    BY <2>3, <2>5, <2>6, <2>8, <2>9 DEF InTurn
<1>4. ASSUME NEW kind \in Kinds, SimulateScheduler(kind)
      PROVE  StrideInv'
  <2>1. scheduler' = kind
    BY <1>4 DEF SimulateScheduler
  <2>. QED
    BY <1>3, <1>4, <2>1 DEF StrideInv
<1>5. CASE Deal
  <2>1. scheduler' = scheduler /\ scheduler # "none"
    BY <1>5 DEF Deal
  <2>. QED
    BY <1>1, <1>5, <2>1, DealInTurn DEF StrideInv
<1>6. CASE Schedule
  BY <1>4, <1>5, <1>6 DEF Schedule, CpuStep
<1>7. CASE PlanBuckets \/ PlanBaseline \/ Run \/ Finished \/ UNCHANGED hostVars
  BY <1>2, <1>7 DEF PlanBuckets, PlanBaseline, Run, Finished, hostVars
<1>. QED
  BY <1>6, <1>7 DEF Next

\* The positions of a CTA's turns are the indices of its grid stride.
LEMMA StrideIs ==
  ASSUME NEW L \in Nat, NEW c \in Ctas
  PROVE  StaticCtaAssignment(c, L, CtaCount) = {i \in 0 .. L - 1 : i % CtaCount = c}
<1>1. CtaCount \in Nat /\ CtaCount > 0 /\ c \in Nat /\ c < CtaCount
  BY SizeFacts DEF Ctas
<1>2. StaticCtaAssignment(c, L, CtaCount) = {i \in c .. L - 1 : (i - c) % CtaCount = 0}
  BY DEF StaticCtaAssignment, PyRange
<1>3. ASSUME NEW i \in c .. L - 1, (i - c) % CtaCount = 0
      PROVE  i \in 0 .. L - 1 /\ i % CtaCount = c
  <2>. DEFINE q == (i - c) \div CtaCount
  <2>1. i - c \in Nat /\ i \in 0 .. L - 1
    BY <1>1
  <2>2. q \in Nat /\ i - c = CtaCount * q + ((i - c) % CtaCount)
    BY <1>1, <2>1, DivFacts
  <2>. HIDE DEF q
  <2>3. CtaCount * q \in Nat
    BY <1>1, <2>2
  <2>4. i = CtaCount * q + c
    BY <1>1, <1>3, <2>1, <2>2, <2>3
  <2>5. c \in 0 .. CtaCount - 1
    BY <1>1
  <2>6. (CtaCount * q + c) % CtaCount = c
    BY <1>1, <2>2, <2>5, DivUnique
  <2>. QED
    BY <2>1, <2>4, <2>6
<1>4. ASSUME NEW i \in 0 .. L - 1, i % CtaCount = c
      PROVE  i \in c .. L - 1 /\ (i - c) % CtaCount = 0
  <2>. DEFINE q == i \div CtaCount
  <2>1. q \in Nat /\ i = CtaCount * q + c
    BY <1>1, <1>4, DivFacts
  <2>. HIDE DEF q
  <2>2. CtaCount * q \in Nat
    BY <1>1, <2>1
  <2>3. i - c = CtaCount * q + 0 /\ i \in c .. L - 1
    BY <1>1, <2>1, <2>2
  <2>4. 0 \in 0 .. CtaCount - 1
    BY <1>1
  <2>5. (CtaCount * q + 0) % CtaCount = 0
    BY <1>1, <2>1, <2>4, DivUnique
  <2>. QED
    BY <2>3, <2>5
<1>. QED
  BY <1>2, <1>3, <1>4

\* More tiles means as many row blocks at least, the columns being the same.
LEMMA MoreBlocks ==
  ASSUME RoutingOK, StudyRouting, NEW d \in ExpertIds, NEW e \in ExpertIds,
         Len(TilesOf(d)) >= Len(TilesOf(e))
  PROVE  CeilDiv(counts[d], LargeM) >= CeilDiv(counts[e], LargeM)
<1>. DEFINE w == TileBlocks(n, TileN)
            B(x) == CeilDiv(counts[x], LargeM)
<1>1. n \in Nat /\ n > 0 /\ n + 128 =< Word
      /\ \A x \in ExpertIds : counts[x] \in Nat /\ counts[x] + 128 =< Word
  BY CpuAssumption, RoutingAssumption, SizeFacts DEF StudyRouting, RoutingOK
<1>2. w = CeilDiv(n, 128) /\ w \in Nat /\ w > 0
  <2>1. w = CeilDiv(n, 128)
    BY <1>1, BlocksAre, SizeFacts
  <2>2. CeilDiv(n, 128) \in Nat /\ CeilDiv(n, 128) > 0
    BY <1>1 DEF CeilDiv
  <2>. QED
    BY <2>1, <2>2
<1>3. ASSUME NEW x \in ExpertIds
      PROVE  Len(TilesOf(x)) = B(x) * w /\ B(x) \in Nat
  <2>1. TileBlocks(counts[x], LargeM) = B(x) /\ B(x) \in Nat
    BY <1>1, BlocksAre, CeilType, SizeFacts, ZenonT(40)
  <2>. DEFINE k == TileBlocks(counts[x], LargeM) * w
  <2>2. TilesOf(x) = [i \in 1 .. k |->
          [expert |-> x, m |-> (i - 1) \div w, n |-> (i - 1) % w,
           validM |-> Smaller(LargeM, counts[x] - ((i - 1) \div w) * LargeM),
           validN |-> Smaller(TileN, n - ((i - 1) % w) * TileN)]]
    BY DEF TilesOf
  <2>3. k \in Nat
    <3>. HIDE DEF w, B
    <3>. QED
      BY <1>2, <2>1
  <2>4. k = B(x) * w
    BY <2>1
  <2>. HIDE DEF k, w, B
  <2>5. Len(TilesOf(x)) = k
    BY <2>2, <2>3
  <2>. QED
    BY <2>1, <2>4, <2>5
<1>4. B(d) * w >= B(e) * w /\ B(d) \in Nat /\ B(e) \in Nat
  BY <1>3
<1>5. SUFFICES ASSUME B(d) < B(e) PROVE FALSE
  BY <1>4
<1>. DEFINE x == B(d)
            y == B(e)
<1>6. x * w >= y * w /\ x \in Nat /\ y \in Nat /\ x < y
  BY <1>4, <1>5
<1>. HIDE DEF x, y, w
<1>7. y * w >= (x + 1) * w /\ (x + 1) * w = x * w + w /\ x * w \in Nat /\ y * w \in Nat
  BY <1>2, <1>6
<1>. QED
  BY <1>2, <1>6, <1>7

LEMMA StaticFacts ==
  ASSUME PlannerInv, StudyInv, StrideInv
  PROVE  StaticIsGridStride
<1>. SUFFICES ASSUME CpuEnded, scheduler # "dynamic_queue"
              PROVE  /\ ToSet(tiles) = ToSet(BuildExpertTiles) /\ Len(tiles) = Len(BuildExpertTiles)
                     /\ \A c \in Ctas :
                          ToSet(ctaTiles[c])
                            = {tiles[i + 1] : i \in StaticCtaAssignment(c, Len(tiles), CtaCount)}
                     /\ \A c, d \in Ctas : Len(ctaTiles[c]) =< Len(ctaTiles[d]) + 1
                     /\ scheduler = "static_persistent" =>
                          \A i, j \in DOMAIN tiles : i < j =>
                            CeilDiv(counts[tiles[i].expert], LargeM)
                              >= CeilDiv(counts[tiles[j].expert], LargeM)
  BY DEF StaticIsGridStride
<1>1. RoutingOK /\ StudyRouting /\ InTurn /\ dealt = Len(tiles)
  BY DEF PlannerInv, StudyInv, StrideInv, CpuEnded
<1>2. /\ tiles \in Seq(CpuTile) /\ Len(tiles) = Len(BuildExpertTiles)
      /\ ToSet(tiles) = ToSet(BuildExpertTiles) /\ Len(tiles) \in Nat
  BY <1>1, StaticTiles
<1>3. ASSUME NEW c \in Ctas
      PROVE  ToSet(ctaTiles[c])
               = {tiles[i + 1] : i \in StaticCtaAssignment(c, Len(tiles), CtaCount)}
  BY <1>1, <1>2, StrideIs DEF InTurn, TurnsOf
<1>4. ASSUME NEW c \in Ctas, NEW d \in Ctas
      PROVE  Len(ctaTiles[c]) =< Len(ctaTiles[d]) + 1
  <2>1. Len(ctaTiles[c]) = Turns(dealt, CtaCount, c) /\ Len(ctaTiles[d]) = Turns(dealt, CtaCount, d)
    BY <1>1 DEF InTurn
  <2>2. dealt \div CtaCount \in Nat
    BY <1>1, <1>2, SizeFacts, DivFacts
  <2>. QED
    BY <2>1, <2>2 DEF Turns
<1>5. ASSUME scheduler = "static_persistent", NEW i \in DOMAIN tiles, NEW j \in DOMAIN tiles, i < j
      PROVE  CeilDiv(counts[tiles[i].expert], LargeM) >= CeilDiv(counts[tiles[j].expert], LargeM)
  <2>. DEFINE o == ByDescendingTiles
  <2>1. IsOrder(o) /\ Sorted(o, Experts)
    BY <1>1, DescendingOrder
  <2>2. tiles = Along(o, Experts)
    BY <1>1, <1>5, OrdersAre DEF InTurn
  <2>3. i \in 1 .. Len(tiles) /\ j \in 1 .. Len(tiles)
    BY <1>2
  <2>. HIDE DEF o
  <2>4. Falling(o, Experts)
    BY <1>1, <2>1, FallingAll
  <2>5. /\ tiles[i].expert \in Upto(o, Experts) /\ tiles[j].expert \in Upto(o, Experts)
        /\ Len(TilesOf(tiles[i].expert)) >= Len(TilesOf(tiles[j].expert))
    BY <1>5, <2>2, <2>3, <2>4 DEF Falling
  <2>6. Upto(o, Experts) \subseteq ExpertIds
    BY <2>1 DEF IsOrder, Upto
  <2>. QED
    BY <1>1, <2>5, <2>6, MoreBlocks
<1>. QED
  BY <1>2, <1>3, <1>4, <1>5

\* A static assignment of the C++ reference is the kernels' grid stride over a
\* permutation of the work list, no CTA gets two tiles more than another, and the static
\* order has the experts with more row blocks first: for every routing and number of CTAs.
THEOREM StaticAssignment == Spec => []StaticIsGridStride
<1>1. Init => GreedyInv /\ StrideInv
  BY DEF Init, CpuInit, GreedyInv, StrideInv
<1>2. PlannerInv /\ GreedyInv /\ [Next]_hostVars => GreedyInv'
  BY GreedyNext
<1>3. PlannerInv /\ GreedyInv /\ StrideInv /\ [Next]_hostVars => StrideInv'
  BY StrideInvNext
<1>4. PlannerInv /\ StudyInv /\ StrideInv => StaticIsGridStride
  BY StaticFacts
<1>. QED
  BY PlannerInvariant, StudyStart, StudyNext, <1>1, <1>2, <1>3, <1>4, PTL DEF Spec
==============================================================================
