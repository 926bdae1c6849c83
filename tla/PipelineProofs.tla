---------------------------- MODULE PipelineProofs ----------------------------
(***************************************************************************)
(* Proofs about MathPipeline for every number of threads, ring depth, K    *)
(* loop and worklist.  The kernels that extend the pipeline choose when a  *)
(* role begins which tile; all the pipeline asks of them is SameTiles.     *)
(*                                                                         *)
(* K steps are counted over all tiles: step i is step i % KTiles of the    *)
(* (i \div KTiles + 1)-th tile, and uses stage i % PipeDepth in the        *)
(* (i \div PipeDepth)-th turn of the ring.  Every barrier and cursor holds *)
(* the parity of a count, and the counts are so close together that the    *)
(* parity tells them apart.                                                *)
(***************************************************************************)
EXTENDS MathPipeline, FiniteSetTheorems, TLAPS

------------------------------------------------------------------------------
(* The counts                                                              *)

Begun(r) == Len(begun[r])
Base(n) == n * KTiles

\* Stage and turn of a step, and the slices it multiplies.
StageOf(i) == i % PipeDepth
ParityOf(i) == (i \div PipeDepth) % 2
Source(i) == <<begun["tma"][i \div KTiles + 1], i % KTiles>>

\* Steps a lane has gone through: the loader has announced them, the MMA lane has
\* issued them.  Steps whose loads have been launched.
Steps(l) == IF Begun(l) = 0 THEN 0 ELSE Base(Begun(l) - 1) + k[l]
Signalled == Steps("tma")
Issued == Steps("mma")
Launched == IF at["tma"] = "expect" THEN Signalled + 1 ELSE Signalled

\* Accumulators the MMA lane has acquired, the first step of the last of them, and
\* whether its commit has been issued.
Acquired == IF at["mma"] = "acquire" THEN Begun("mma") - 1 ELSE Begun("mma")
First == IF Acquired = 0 THEN 0 ELSE Base(Acquired - 1)
Committed == at["mma"] \in {"acquire", "next", "end"}

\* Of that accumulator's operations: those issued, those the tensor core has done.
Ops == 2 * (Issued - First) + (IF Committed /\ Acquired > 0 THEN 1 ELSE 0)
Executed == Ops - Len(tensorQ)
Multiplied == IF Executed > 2 * KTiles THEN KTiles ELSE (Executed + 1) \div 2

\* Steps whose stage has been given back, accumulators handed to the writeback.
Spent == First + (Executed \div 2)
Ready == IF Committed /\ tensorQ = <<>> THEN Acquired ELSE Acquired - 1

\* Accumulators a thread has waited for, and released; the threads still to release.
Passed(w) == IF at[w] = "wait" THEN Begun(w) - 1 ELSE Begun(w)
Released(w) == IF at[w] \in {"load", "release"} THEN Passed(w) - 1 ELSE Passed(w)
Holding == {w \in Threads : Released(w) = Acquired - 1}

\* Tiles a thread has finished, and brought past the first of the two syncs.
Done(w) == IF at[w] \in {"next", "end"} THEN Begun(w) ELSE Begun(w) - 1
Staged(w) == IF at[w] \in {"store", "drain", "stored"} THEN Done(w) + 1 ELSE Done(w)

\* Loads in flight into a stage.
Flies(op, s) == IF \E f \in loads : f.op = op /\ f.stage = s THEN 1 ELSE 0
InFlight(s) == Flies("A", s) + Flies("B", s)

------------------------------------------------------------------------------
(* The invariant                                                           *)

\* What a role's label says about its K loop and its tile.
RoleInv ==
  /\ at["tma"] \in {"next", "fill", "expect", "end"}
  /\ at["mma"] \in {"next", "acquire", "issue", "commit", "end"}
  /\ \A l \in Lanes : Begun(l) = 0 => at[l] \in {"next", "end"} /\ k[l] = 0
  /\ \A l \in Lanes : at[l] \in {"fill", "expect", "issue"} => k[l] < KTiles
  /\ \A l \in Lanes : at[l] \in {"next", "commit", "end"} /\ Begun(l) > 0 =>
       k[l] = KTiles
  /\ at["mma"] = "acquire" => k["mma"] = 0
  /\ \A r \in Roles : Begun(r) > 0 => tile[r] = begun[r][Begun(r)]

\* The lanes are on the ring, a turn apart at most, in the order loader, MMA lane,
\* tensor core.
WindowInv ==
  /\ Spent =< Issued /\ Issued =< Signalled /\ Launched =< Spent + PipeDepth
  /\ ring["tma"] = [stage |-> StageOf(Signalled), phase |-> 1 - ParityOf(Signalled)]
  /\ ring["mma"] = [stage |-> StageOf(Issued), phase |-> ParityOf(Issued)]

\* The operands-ready barrier of step i's stage.
FullAt(i) ==
  IF i >= Launched THEN [phase |-> ParityOf(i), pending |-> 1, tx |-> 0]
  ELSE IF i >= Signalled
  THEN [phase |-> ParityOf(i), pending |-> 1, tx |-> InFlight(StageOf(i)) - 2]
  ELSE IF InFlight(StageOf(i)) > 0
  THEN [phase |-> ParityOf(i), pending |-> 0, tx |-> InFlight(StageOf(i))]
  ELSE [phase |-> 1 - ParityOf(i), pending |-> 1, tx |-> 0]

FullInv == \A i \in Issued .. Issued + PipeDepth - 1 : tma2mma[StageOf(i)] = FullAt(i)

EmptyInv ==
  \A i \in Spent .. Spent + PipeDepth - 1 :
    mma2tma[StageOf(i)] = [phase |-> ParityOf(i), pending |-> 1, tx |-> 0]

\* Loads belong to steps the MMA lane has not issued, and a stage that has not been
\* given back holds its step's slices once they have landed.
LoadInv ==
  \A f \in loads : \E i \in Issued .. Launched - 1 :
    f.stage = StageOf(i) /\ f.src = Source(i)

SmemInv ==
  \A i \in Spent .. Launched - 1 : \A op \in Operands :
    Flies(op, StageOf(i)) = 0 => smem[op][StageOf(i)] = Source(i)

\* The queue is the rest of the accumulator's operations: an MMA and a release for
\* each step, and the commit.  TMEM holds the products of those done.
TensorInv ==
  /\ Executed >= 0
  /\ \A j \in 1 .. Len(tensorQ) :
       /\ \A i \in 0 .. KTiles - 1 :
            /\ Executed + j = 2 * i + 1 =>
                 tensorQ[j] = [op |-> "mma", stage |-> StageOf(First + i), accum |-> i # 0]
            /\ Executed + j = 2 * i + 2 =>
                 tensorQ[j] = [op |-> "release", stage |-> StageOf(First + i)]
       /\ Executed + j = 2 * KTiles + 1 => tensorQ[j] = [op |-> "ready"]

TmemInv ==
  Multiplied > 0 =>
    tmem = [j \in 1 .. Multiplied |-> Slices(begun["tma"][Acquired], j - 1)]

\* The MMA lane's cursor and the barrier it waits on, which the threads have still to
\* release.
AcquireCursor == [stage |-> 0, phase |-> (Acquired + 1) % 2]
ReleaseBar ==
  IF Holding = {}
  THEN [phase |-> Acquired % 2, pending |-> Cardinality(Threads), tx |-> 0]
  ELSE [phase |-> (Acquired + 1) % 2, pending |-> Cardinality(Holding), tx |-> 0]

\* No thread is more than an accumulator behind, none ahead of what is ready.
AccInv ==
  /\ accPs = AcquireCursor
  /\ mma2ld = [phase |-> Ready % 2, pending |-> 1, tx |-> 0]
  /\ \A w \in Threads :
       /\ wbPs[w] = [stage |-> 0, phase |-> Passed(w) % 2]
       /\ Passed(w) =< Ready
       /\ Released(w) \in {Acquired - 1, Acquired}
  /\ ld2mma = ReleaseBar

\* The threads pass their syncs together, and what each holds is its tile's.
WritebackInv ==
  /\ \A w \in Threads :
       /\ at[w] \in {"next", "wait", "load", "release", "stage", "staged", "store",
                     "drain", "stored", "end"}
       /\ Begun(w) = 0 => at[w] \in {"next", "end"}
       /\ at[w] \in {"store", "drain"} => w = Leader
       /\ Done(w) = Done(Leader) /\ Staged(w) = Staged(Leader)
       /\ at[w] \in {"release", "stage"} => regs[w] = Product(begun["tma"][Begun(w)])
       /\ at[w] \in {"staged", "store", "drain", "stored"} =>
            dsmem[w] = Product(begun["tma"][Begun(w)])
  /\ store # NoTile => at[Leader] = "drain" /\ store = tile[Leader]

\* Only tiles the leader has begun are stored.
StoredInv ==
  /\ OutputCorrect
  /\ \A t \in WorkTiles :
       D[t] # NoRows => \E j \in 1 .. Begun(Leader) : begun[Leader][j] = t

ExitInv == exited => \A r \in Roles : at[r] = "end"

RingInv == WindowInv /\ FullInv /\ EmptyInv /\ LoadInv /\ SmemInv
TensorCoreInv == TensorInv /\ TmemInv
PipeInv ==
  /\ PipelineTypeOK
  /\ RoleInv /\ RingInv /\ TensorCoreInv /\ AccInv /\ WritebackInv /\ StoredInv /\ ExitInv

\* What a kernel owes the pipeline: the writeback is given the tiles the loader is,
\* in the same order, the loader only real ones, and no role leaves its loop before
\* another that goes on.
SameTiles ==
  /\ \A i \in 1 .. Begun("tma") : begun["tma"][i] \in WorkTiles
  /\ \A i \in 1 .. Begun("tma") :
       i =< Begun(Leader) => begun["tma"][i] = begun[Leader][i]
  /\ \A r, q \in Roles : at[r] = "end" /\ at[q] = "end" => Begun(r) = Begun(q)

------------------------------------------------------------------------------
(* Constants and arithmetic                                                *)

LEMMA RoleFacts ==
  /\ Leader \in Threads /\ Threads \subseteq Roles /\ Lanes \subseteq Roles
  /\ "tma" \in Lanes /\ "mma" \in Lanes /\ "tma" \in Roles /\ "mma" \in Roles
  /\ "tma" \notin Threads /\ "mma" \notin Threads
  /\ \A r \in Roles : r \in Lanes \/ r \in Threads
  /\ \A r \in Lanes : r = "tma" \/ r = "mma"
  /\ KTiles \in Nat /\ KTiles > 0 /\ PipeDepth \in Nat /\ PipeDepth > 0
  /\ NoTile \notin WorkTiles
BY PipelineAssumption, RoleAssumption DEF Roles, Lanes, NoTile

LEMMA DivMod ==
  ASSUME NEW d \in Nat \ {0}, NEW a \in Int
  PROVE  /\ a = d * (a \div d) + (a % d)
         /\ a % d \in 0 .. d - 1 /\ a \div d \in Int
OBVIOUS

LEMMA DivNat ==
  ASSUME NEW d \in Nat \ {0}, NEW a \in Nat
  PROVE  a \div d \in Nat
<1>. DEFINE q == a \div d
<1>1. a = d * q + (a % d) /\ a % d \in 0 .. d - 1 /\ q \in Int
  BY DivMod
<1>. HIDE DEF q
<1>2. ASSUME q < 0 PROVE FALSE
  <2>1. d * q =< d * (-1)
    BY <1>1, <1>2
  <2>. QED
    BY <1>1, <2>1
<1>. QED
  BY <1>1, <1>2

LEMMA DivStep ==
  ASSUME NEW d \in Nat \ {0}, NEW a \in Nat
  PROVE  /\ (a + 1) % d = IF (a % d) + 1 = d THEN 0 ELSE (a % d) + 1
         /\ (a + 1) \div d = IF (a % d) + 1 = d THEN a \div d + 1 ELSE a \div d
OBVIOUS

LEMMA DivJump ==
  ASSUME NEW d \in Nat \ {0}, NEW a \in Nat
  PROVE  (a + d) % d = a % d /\ (a + d) \div d = a \div d + 1
OBVIOUS

LEMMA DivApart ==
  ASSUME NEW d \in Nat \ {0}, NEW a \in Nat, NEW b \in Nat, a < b, b < a + d
  PROVE  a % d # b % d
<1>. DEFINE p == a \div d
            q == b \div d
<1>1. a = d * p + (a % d) /\ b = d * q + (b % d) /\ p \in Int /\ q \in Int
  BY DivMod
<1>2. a % d \in Int /\ b % d \in Int
  BY DivMod
<1>. HIDE DEF p, q
<1>3. ASSUME a % d = b % d PROVE FALSE
  <2>1. d * q > d * p
    BY <1>1, <1>2, <1>3
  <2>2. q > p
    BY <1>1, <2>1
  <2>3. d * q >= d * (p + 1)
    BY <1>1, <2>2
  <2>4. d * (p + 1) = d * p + d
    BY <1>1
  <2>. QED
    BY <1>1, <1>2, <1>3, <2>3, <2>4
<1>. QED
  BY <1>3

LEMMA DivOfSum ==
  ASSUME NEW d \in Nat \ {0}, NEW a \in Nat, NEW b \in 0 .. d - 1
  PROVE  (a * d + b) \div d = a /\ (a * d + b) % d = b
OBVIOUS

\* The next parity is the other one.
LEMMA Flip ==
  ASSUME NEW a \in Int
  PROVE  a % 2 \in {0, 1} /\ (a + 1) % 2 = 1 - (a % 2) /\ (a + 1) % 2 # a % 2
OBVIOUS

LEMMA Half ==
  ASSUME NEW a \in Nat
  PROVE  a \div 2 \in Nat /\ 2 * (a \div 2) =< a /\ a =< 2 * (a \div 2) + 1
OBVIOUS

LEMMA RingTypes ==
  ASSUME NEW i \in Nat
  PROVE  StageOf(i) \in Stages /\ StageOf(i) \in Nat /\ ParityOf(i) \in {0, 1}
<1>1. PipeDepth \in Nat \ {0}
  BY PipelineAssumption
<1>2. i % PipeDepth \in 0 .. PipeDepth - 1 /\ i \div PipeDepth \in Int
  BY <1>1, DivMod
<1>. QED
  BY <1>1, <1>2, Flip DEF StageOf, ParityOf, Stages

\* What advance() does to a cursor that holds the parity of a step, or the other one.
LEMMA NextStep ==
  ASSUME NEW i \in Nat
  PROVE  /\ Advance([stage |-> StageOf(i), phase |-> ParityOf(i)], PipeDepth)
              = [stage |-> StageOf(i + 1), phase |-> ParityOf(i + 1)]
         /\ Advance([stage |-> StageOf(i), phase |-> 1 - ParityOf(i)], PipeDepth)
              = [stage |-> StageOf(i + 1), phase |-> 1 - ParityOf(i + 1)]
<1>1. PipeDepth \in Nat \ {0}
  BY PipelineAssumption
<1>. DEFINE s == StageOf(i)
            q == i \div PipeDepth
<1>2. s \in Nat /\ q \in Nat /\ ParityOf(i) = q % 2
  BY <1>1, RingTypes, DivNat DEF ParityOf
<1>3. /\ StageOf(i + 1) = IF s + 1 = PipeDepth THEN 0 ELSE s + 1
      /\ (i + 1) \div PipeDepth = IF s + 1 = PipeDepth THEN q + 1 ELSE q
  BY <1>1, DivStep DEF StageOf
<1>. HIDE DEF s, q
<1>4. CASE s + 1 = PipeDepth
  <2>1. StageOf(i + 1) = 0 /\ ParityOf(i + 1) = 1 - ParityOf(i)
    BY <1>2, <1>3, <1>4, Flip DEF ParityOf
  <2>2. ParityOf(i) \in {0, 1}
    BY RingTypes
  <2>. QED
    BY <1>4, <2>1, <2>2 DEF Advance, s
<1>5. CASE s + 1 # PipeDepth
  <2>1. StageOf(i + 1) = s + 1 /\ ParityOf(i + 1) = ParityOf(i)
    BY <1>2, <1>3, <1>5 DEF ParityOf
  <2>. QED
    BY <1>5, <2>1 DEF Advance, s
<1>. QED
  BY <1>4, <1>5

\* A turn later the stage is the same and the parity the other one.
LEMMA NextTurn ==
  ASSUME NEW i \in Nat
  PROVE  StageOf(i + PipeDepth) = StageOf(i) /\ ParityOf(i + PipeDepth) = 1 - ParityOf(i)
<1>1. PipeDepth \in Nat \ {0}
  BY PipelineAssumption
<1>2. (i + PipeDepth) % PipeDepth = i % PipeDepth
      /\ (i + PipeDepth) \div PipeDepth = i \div PipeDepth + 1
  BY <1>1, DivJump
<1>3. i \div PipeDepth \in Nat
  BY <1>1, DivNat
<1>. QED
  BY <1>2, <1>3, Flip DEF StageOf, ParityOf

\* Within a turn no two steps share a stage.
LEMMA StagesApart ==
  ASSUME NEW i \in Nat, NEW j \in Nat, i # j, i < j + PipeDepth, j < i + PipeDepth
  PROVE  StageOf(i) # StageOf(j)
<1>1. PipeDepth \in Nat \ {0}
  BY PipelineAssumption
<1>2. i < j => i % PipeDepth # j % PipeDepth
  BY <1>1, DivApart
<1>3. j < i => j % PipeDepth # i % PipeDepth
  BY <1>1, DivApart
<1>. QED
  BY <1>2, <1>3 DEF StageOf

LEMMA BaseFacts ==
  /\ Base(0) = 0
  /\ \A n \in Nat : Base(n) \in Nat /\ Base(n + 1) = Base(n) + KTiles
  /\ \A m, n \in Nat : m =< n => Base(m) =< Base(n)
BY PipelineAssumption DEF Base

\* The step of the n-th tile, and of the ones before it.
LEMMA SourceAt ==
  ASSUME NEW n \in Nat, NEW c \in 0 .. KTiles - 1
  PROVE  Source(Base(n) + c) = <<begun["tma"][n + 1], c>>
<1>1. KTiles \in Nat \ {0}
  BY PipelineAssumption
<1>. QED
  BY <1>1, DivOfSum DEF Source, Base

LEMMA TileBefore ==
  ASSUME NEW n \in Nat, NEW i \in Nat, i < Base(n)
  PROVE  i \div KTiles + 1 \in 1 .. n /\ i % KTiles \in 0 .. KTiles - 1
<1>1. KTiles \in Nat \ {0}
  BY PipelineAssumption
<1>. DEFINE q == i \div KTiles
<1>2. q \in Nat /\ i = KTiles * q + (i % KTiles) /\ i % KTiles \in 0 .. KTiles - 1
  <2>1. i \div KTiles \in Nat
    BY <1>1, DivNat
  <2>2. i = KTiles * (i \div KTiles) + (i % KTiles) /\ i % KTiles \in 0 .. KTiles - 1
    BY <1>1, DivMod
  <2>. QED
    BY <2>1, <2>2
<1>. HIDE DEF q
<1>3. ASSUME q >= n PROVE FALSE
  <2>1. KTiles * q >= KTiles * n
    BY <1>1, <1>2, <1>3
  <2>. QED
    BY <1>1, <1>2, <2>1 DEF Base
<1>. QED
  BY <1>2, <1>3 DEF q

------------------------------------------------------------------------------
(* What the counts say                                                     *)

LEMMA CountFacts ==
  ASSUME PipelineTypeOK, RoleInv
  PROVE  /\ \A r \in Roles : Begun(r) \in Nat
         /\ Signalled \in Nat /\ Launched \in Nat /\ Launched \in {Signalled, Signalled + 1}
         /\ Signalled =< Base(Begun("tma"))
         /\ Acquired \in Nat /\ First \in Nat /\ Issued \in Nat
         /\ Issued - First \in 0 .. KTiles
         /\ Acquired > 0 => First = Base(Acquired - 1)
         /\ Acquired = 0 => Committed /\ Issued = 0 /\ First = 0 /\ Ops = 0
         /\ Committed /\ Acquired > 0 =>
              Issued = First + KTiles /\ Ops = 2 * KTiles + 1
         /\ ~Committed =>
              /\ Acquired > 0 /\ Acquired = Begun("mma")
              /\ Issued = First + k["mma"] /\ Ops = 2 * k["mma"]
<1>. USE RoleFacts
<1>1. \A r \in Roles : Begun(r) \in Nat
  BY DEF PipelineTypeOK, Begun
<1>2. \A l \in Lanes : k[l] \in 0 .. KTiles
  BY DEF PipelineTypeOK
<1>3. \A l \in Lanes : /\ Steps(l) \in Nat
                       /\ Steps(l) =< Base(Begun(l))
                       /\ Begun(l) > 0 => Steps(l) = Base(Begun(l) - 1) + k[l]
  <2>. TAKE l \in Lanes
  <2>1. Begun(l) \in Nat /\ k[l] \in 0 .. KTiles
    BY <1>1, <1>2
  <2>2. CASE Begun(l) = 0
    BY <2>2, BaseFacts DEF Steps
  <2>3. CASE Begun(l) > 0
    <3>1. Begun(l) - 1 \in Nat /\ (Begun(l) - 1) + 1 = Begun(l)
      BY <2>1, <2>3
    <3>2. Base(Begun(l) - 1) \in Nat /\ Base(Begun(l)) = Base(Begun(l) - 1) + KTiles
      BY <3>1, BaseFacts
    <3>. QED
      BY <2>1, <2>3, <3>2 DEF Steps
  <2>. QED
    BY <2>1, <2>2, <2>3
<1>4. Signalled \in Nat /\ Launched \in {Signalled, Signalled + 1}
      /\ Signalled =< Base(Begun("tma"))
  BY <1>3 DEF Signalled, Launched
<1>. DEFINE b == Begun("mma")
            MmaFacts ==
              /\ Acquired \in Nat /\ First \in Nat /\ Issued \in Nat
              /\ Issued - First \in 0 .. KTiles
              /\ Acquired > 0 => First = Base(Acquired - 1)
              /\ Acquired = 0 => Committed /\ Issued = 0 /\ First = 0 /\ Ops = 0
              /\ Committed /\ Acquired > 0 =>
                   Issued = First + KTiles /\ Ops = 2 * KTiles + 1
              /\ ~Committed => /\ Acquired > 0 /\ Acquired = b
                               /\ Issued = First + k["mma"] /\ Ops = 2 * k["mma"]
<1>5. MmaFacts
  <2>1. CASE b = 0
    <3>1. at["mma"] \in {"next", "end"} /\ Issued = 0
      BY <2>1 DEF RoleInv, Issued, Steps
    <3>. QED
      BY <2>1, <3>1 DEF Acquired, First, Ops, Committed
  <2>2. CASE b > 0 /\ at["mma"] = "acquire"
    <3>1. b \in Nat /\ b - 1 \in Nat /\ k["mma"] = 0 /\ Committed
      BY <1>1, <2>2 DEF RoleInv, Committed
    <3>2. Acquired = b - 1 /\ Issued = Base(b - 1) + 0
      BY <1>3, <2>2, <3>1 DEF Acquired, Issued
    <3>. HIDE DEF b
    <3>3. Issued = Base(Acquired) /\ Acquired \in Nat /\ Issued \in Nat
      BY <3>1, <3>2, BaseFacts
    <3>4. CASE Acquired = 0
      <4>1. Issued = 0 /\ First = 0 /\ Ops = 0
        BY <3>3, <3>4, BaseFacts DEF First, Ops
      <4>. QED
        BY <3>1, <3>4, <4>1
    <3>5. CASE Acquired > 0
      <4>1. Acquired - 1 \in Nat /\ (Acquired - 1) + 1 = Acquired
        BY <3>3, <3>5
      <4>2. Base(Acquired - 1) \in Nat /\ Issued = Base(Acquired - 1) + KTiles
        BY <3>3, <4>1, BaseFacts
      <4>3. First = Base(Acquired - 1)
        BY <3>5 DEF First
      <4>. QED
        BY <3>1, <3>3, <3>5, <4>2, <4>3 DEF Ops
    <3>. QED
      BY <3>3, <3>4, <3>5
  <2>3. CASE b > 0 /\ at["mma"] # "acquire"
    <3>1. b \in Nat /\ b - 1 \in Nat /\ k["mma"] \in 0 .. KTiles
          /\ (Committed => k["mma"] = KTiles)
      BY <1>1, <1>2, <2>3 DEF RoleInv, Committed
    <3>2. Acquired = b /\ Issued = Base(b - 1) + k["mma"]
      BY <1>3, <2>3 DEF Acquired, Issued
    <3>. HIDE DEF b
    <3>3. First = Base(b - 1) /\ First \in Nat
      BY <2>3, <3>1, <3>2, BaseFacts DEF First
    <3>. QED
      BY <2>3, <3>1, <3>2, <3>3 DEF Ops
  <2>. QED
    BY <1>1, <2>1, <2>2, <2>3
<1>. QED
  BY <1>1, <1>4, <1>5

\* The tensor core's place in the accumulator's operations.
LEMMA CoreFacts ==
  ASSUME PipelineTypeOK, RoleInv, TensorInv
  PROVE  /\ Len(tensorQ) \in Nat /\ Ops \in Nat /\ Executed \in 0 .. Ops
         /\ Executed = Ops - Len(tensorQ) /\ Ops =< 2 * KTiles + 1
         /\ Spent \in Nat /\ First =< Spent /\ Spent =< Issued
         /\ Multiplied \in 0 .. KTiles /\ Multiplied =< Issued - First
         /\ Ready \in Int /\ Ready \in {Acquired - 1, Acquired}
         /\ tensorQ = <<>> <=> Executed = Ops
<1>. DEFINE n == Issued - First
<1>1. Len(tensorQ) \in Nat /\ (tensorQ = <<>> <=> Len(tensorQ) = 0)
  BY DEF PipelineTypeOK
<1>2. /\ First \in Nat /\ Issued \in Nat /\ n \in 0 .. KTiles /\ Issued = First + n
      /\ Acquired \in Nat
  BY CountFacts
<1>3. KTiles \in Nat /\ (Committed /\ Acquired > 0 => n = KTiles)
  BY <1>2, CountFacts, RoleFacts
<1>4. Ops \in {2 * n, 2 * n + 1} /\ (Ops = 2 * n + 1 => n = KTiles)
  BY <1>2, <1>3 DEF Ops
<1>. HIDE DEF n
<1>5. Executed \in 0 .. Ops /\ Executed = Ops - Len(tensorQ)
  BY <1>1, <1>2, <1>4 DEF Executed, TensorInv
<1>6. Spent \in Nat /\ First =< Spent /\ Spent =< Issued
  <2>1. Executed \in Nat /\ Spent = First + (Executed \div 2)
    BY <1>2, <1>4, <1>5 DEF Spent
  <2>. QED
    BY <1>2, <1>4, <1>5, <2>1, Half
<1>7. Multiplied \in 0 .. KTiles /\ Multiplied =< n
  <2>1. CASE Executed > 2 * KTiles
    <3>1. n = KTiles
      BY <1>2, <1>3, <1>4, <1>5, <2>1
    <3>. QED
      BY <1>3, <2>1, <3>1 DEF Multiplied
  <2>2. CASE Executed =< 2 * KTiles
    <3>1. Multiplied = (Executed + 1) \div 2 /\ Executed + 1 \in Nat
      BY <1>2, <1>3, <1>4, <1>5, <2>2 DEF Multiplied
    <3>2. Executed =< 2 * n
      BY <1>2, <1>4, <1>5, <2>2
    <3>. QED
      BY <1>2, <1>3, <1>5, <3>1, <3>2, Half
  <2>. QED
    BY <1>2, <1>3, <1>4, <1>5, <2>1, <2>2
<1>8. Ready \in Int /\ Ready \in {Acquired - 1, Acquired}
  BY <1>2 DEF Ready
<1>9. Ops \in Nat /\ Ops =< 2 * KTiles + 1
  BY <1>2, <1>3, <1>4
<1>10. tensorQ = <<>> <=> Executed = Ops
  BY <1>1, <1>5, <1>9
<1>. QED
  BY <1>1, <1>5, <1>6, <1>7, <1>8, <1>9, <1>10 DEF n

\* What the tensor core works on has been begun by the loader.
LEMMA LoaderAhead ==
  ASSUME PipelineTypeOK, RoleInv, TensorInv, WindowInv
  PROVE  /\ Acquired > 0 /\ Issued > First => Acquired \in 1 .. Begun("tma")
         /\ Ready > 0 => Ready \in 1 .. Begun("tma")
<1>. DEFINE n == Begun("tma")
<1>1. /\ n \in Nat /\ Acquired \in Nat /\ First \in Nat /\ Issued \in Nat
      /\ Issued =< Base(n) /\ (Acquired > 0 => First = Base(Acquired - 1))
      /\ (Committed /\ Acquired > 0 => Issued = First + KTiles)
      /\ Issued >= First
  <2>1. /\ n \in Nat /\ Signalled \in Nat /\ Signalled =< Base(n) /\ Issued \in Nat
        /\ First \in Nat /\ Acquired \in Nat /\ Issued - First \in 0 .. KTiles
        /\ (Acquired > 0 => First = Base(Acquired - 1))
        /\ (Committed /\ Acquired > 0 => Issued = First + KTiles)
    BY CountFacts, RoleFacts
  <2>2. Issued =< Signalled /\ Base(n) \in Nat /\ KTiles \in Nat
    BY <2>1, BaseFacts, RoleFacts DEF WindowInv
  <2>. HIDE DEF n
  <2>. QED
    BY <2>1, <2>2
<1>2. Ready \in {Acquired - 1, Acquired} /\ (Ready = Acquired => Committed)
  BY <1>1, CoreFacts DEF Ready
<1>3. KTiles \in Nat /\ KTiles > 0
  BY RoleFacts
<1>. HIDE DEF n
<1>4. ASSUME Acquired > 0, Issued > First PROVE Acquired =< n
  <2>1. n =< Acquired - 1 => Base(n) =< Base(Acquired - 1)
    BY <1>1, <1>4, BaseFacts
  <2>2. Base(n) \in Nat
    BY <1>1, BaseFacts
  <2>. QED
    BY <1>1, <1>4, <2>1, <2>2
<1>5. ASSUME Ready > 0 PROVE Ready =< n
  <2>1. CASE Ready = Acquired
    BY <1>1, <1>2, <1>3, <1>4, <1>5, <2>1
  <2>2. CASE Ready = Acquired - 1
    <3>1. First = Base(Ready) /\ Ready \in Nat
      BY <1>1, <1>5, <2>2
    <3>2. n + 1 =< Ready => Base(n + 1) =< Base(Ready)
      BY <1>1, <3>1, BaseFacts
    <3>3. Base(n) \in Nat /\ Base(n + 1) = Base(n) + KTiles
      BY <1>1, BaseFacts
    <3>. QED
      BY <1>1, <1>3, <3>1, <3>2, <3>3
  <2>. QED
    BY <1>2, <2>1, <2>2
<1>. QED
  BY <1>1, <1>2, <1>4, <1>5 DEF n

------------------------------------------------------------------------------
(* Steps that leave a part of the pipeline alone                           *)

LEMMA RingFrame ==
  ASSUME PipelineTypeOK, RoleInv, TensorInv, RingInv,
         UNCHANGED <<ring, tma2mma, mma2tma, loads, smem>>,
         Signalled' = Signalled, Launched' = Launched, Issued' = Issued,
         Spent' = Spent, \A i \in 0 .. Launched - 1 : Source(i)' = Source(i)
  PROVE  RingInv'
<1>1. Spent \in Nat /\ Issued \in Nat /\ Launched \in Nat /\ Signalled \in Nat
  BY CountFacts, CoreFacts
<1>2. \A s : InFlight(s)' = InFlight(s) /\ \A op : Flies(op, s)' = Flies(op, s)
  BY DEF InFlight, Flies
<1>3. WindowInv'
  BY DEF RingInv, WindowInv
<1>4. FullInv'
  <2>1. \A i : FullAt(i)' = FullAt(i)
    BY <1>2 DEF FullAt
  <2>. QED
    BY <2>1 DEF RingInv, FullInv
<1>5. EmptyInv'
  BY DEF RingInv, EmptyInv
<1>6. LoadInv'
  <2>1. \A i \in Issued .. Launched - 1 : i \in 0 .. Launched - 1
    BY <1>1
  <2>. QED
    BY <2>1 DEF RingInv, LoadInv
<1>7. SmemInv'
  <2>1. \A i \in Spent .. Launched - 1 : i \in 0 .. Launched - 1
    BY <1>1
  <2>. QED
    BY <1>2, <2>1 DEF RingInv, SmemInv
<1>. QED
  BY <1>3, <1>4, <1>5, <1>6, <1>7 DEF RingInv

LEMMA CoreFrame ==
  ASSUME TensorCoreInv, UNCHANGED <<tensorQ, tmem>>,
         First' = First, Executed' = Executed,
         Multiplied > 0 => begun'["tma"][Acquired'] = begun["tma"][Acquired]
  PROVE  TensorCoreInv'
<1>1. Multiplied' = Multiplied
  BY DEF Multiplied
<1>2. TensorInv'
  BY DEF TensorCoreInv, TensorInv
<1>3. TmemInv'
  BY <1>1 DEF TensorCoreInv, TmemInv
<1>. QED
  BY <1>2, <1>3 DEF TensorCoreInv

LEMMA AccFrame ==
  ASSUME AccInv, UNCHANGED <<accPs, mma2ld, wbPs, ld2mma>>,
         Acquired' = Acquired, Ready' = Ready,
         \A w \in Threads : Passed(w)' = Passed(w) /\ Released(w)' = Released(w)
  PROVE  AccInv'
<1>1. Holding' = Holding
  BY DEF Holding
<1>. QED
  BY <1>1 DEF AccInv, AcquireCursor, ReleaseBar

LEMMA WritebackFrame ==
  ASSUME WritebackInv, UNCHANGED <<regs, dsmem, store>>, tile'[Leader] = tile[Leader],
         \A w \in Threads :
           /\ at'[w] = at[w] /\ Begun(w)' = Begun(w)
           /\ at[w] \in {"release", "stage", "staged", "store", "drain", "stored"} =>
                begun'["tma"][Begun(w)] = begun["tma"][Begun(w)]
  PROVE  WritebackInv'
<1>1. \A w \in Threads : Done(w)' = Done(w) /\ Staged(w)' = Staged(w)
  BY DEF Done, Staged
<1>2. ASSUME NEW w \in Threads
      PROVE  /\ at'[w] \in {"release", "stage"} =>
                  regs'[w] = Product(begun'["tma"][Begun(w)'])
             /\ at'[w] \in {"staged", "store", "drain", "stored"} =>
                  dsmem'[w] = Product(begun'["tma"][Begun(w)'])
  BY DEF WritebackInv
<1>3. store' # NoTile => at'[Leader] = "drain" /\ store' = tile'[Leader]
  BY RoleFacts DEF WritebackInv
<1>. QED
  BY <1>1, <1>2, <1>3, RoleFacts DEF WritebackInv

\* The steps of the writeback threads do not touch the lanes and their engines.
LEMMA ThreadFrame ==
  ASSUME PipeInv,
         UNCHANGED <<tma2mma, mma2tma, tile, k, ring, loads, smem, tensorQ, tmem, begun>>,
         at'["tma"] = at["tma"], at'["mma"] = at["mma"]
  PROVE  /\ RoleInv' /\ RingInv' /\ TensorCoreInv'
         /\ Acquired' = Acquired /\ Ready' = Ready
         /\ \A r \in Roles : Begun(r)' = Begun(r)
<1>. USE DEF PipeInv
<1>1. \A r : Begun(r)' = Begun(r)
  BY DEF Begun
<1>2. Signalled' = Signalled /\ Issued' = Issued /\ Launched' = Launched
      /\ Acquired' = Acquired /\ Committed' = Committed
  BY <1>1 DEF Signalled, Issued, Steps, Launched, Acquired, Committed
<1>3. First' = First /\ Ready' = Ready
  BY <1>2 DEF First, Ready
<1>4. Executed' = Executed
  BY <1>2, <1>3 DEF Executed, Ops
<1>5. Spent' = Spent
  BY <1>3, <1>4 DEF Spent
<1>6. RoleInv'
  BY <1>1, RoleFacts DEF RoleInv
<1>7. RingInv'
  BY <1>2, <1>5, RingFrame DEF TensorCoreInv, Source
<1>8. TensorCoreInv'
  BY <1>2, <1>3, <1>4, CoreFrame
<1>. QED
  BY <1>1, <1>2, <1>3, <1>6, <1>7, <1>8

------------------------------------------------------------------------------
(* A role begins a tile, or leaves its loop                                *)

LEMMA AppendBegun ==
  ASSUME PipelineTypeOK, NEW r \in Roles, NEW t \in WorkTiles \cup {NoTile},
         begun' = [begun EXCEPT ![r] = Append(begun[r], t)]
  PROVE  /\ Begun(r)' = Begun(r) + 1 /\ begun'[r][Begun(r) + 1] = t
         /\ \A i \in 1 .. Begun(r) : begun'[r][i] = begun[r][i]
         /\ \A q \in Roles \ {r} : begun'[q] = begun[q] /\ Begun(q)' = Begun(q)
         /\ begun' \in [Roles -> Seq(WorkTiles \cup {NoTile})]
<1>1. begun \in [Roles -> Seq(WorkTiles \cup {NoTile})]
  BY DEF PipelineTypeOK
<1>2. begun'[r] = Append(begun[r], t) /\ begun[r] \in Seq(WorkTiles \cup {NoTile})
  BY <1>1
<1>. QED
  BY <1>1, <1>2 DEF Begun

LEMMA BeginTileTypes ==
  ASSUME PipelineTypeOK, NEW r \in Roles, NEW t \in WorkTiles \cup {NoTile},
         BeginTile(r, t)
  PROVE  PipelineTypeOK'
<1>1. begun' \in [Roles -> Seq(WorkTiles \cup {NoTile})]
  BY AppendBegun DEF BeginTile
<1>2. tile' \in [Roles -> WorkTiles \cup {NoTile}]
  BY DEF BeginTile, PipelineTypeOK
<1>3. k' \in [Lanes -> 0 .. KTiles]
  BY RoleFacts DEF BeginTile, PipelineTypeOK
<1>4. at' = [at EXCEPT ![r] = CASE r = "tma" -> "fill" [] r = "mma" -> "acquire"
                                [] OTHER -> "wait"]
  BY DEF BeginTile, Move
<1>5. at' \in [Roles -> {"next", "fill", "expect", "acquire", "issue", "commit", "wait",
                         "load", "release", "stage", "staged", "store", "drain",
                         "stored", "end"}]
  <2>1. CASE r = "tma"
    BY <1>4, <2>1 DEF PipelineTypeOK
  <2>2. CASE r = "mma"
    BY <1>4, <2>2 DEF PipelineTypeOK
  <2>3. CASE r \notin {"tma", "mma"}
    BY <1>4, <2>3 DEF PipelineTypeOK
  <2>. QED
    BY <2>1, <2>2, <2>3
<1>. QED
  BY <1>1, <1>2, <1>3, <1>5
     DEF BeginTile, PipelineTypeOK, bars, cursors, engines, output

LEMMA BeginLaneInv ==
  ASSUME PipelineTypeOK, RoleInv, NEW r \in Roles, NEW t \in WorkTiles \cup {NoTile},
         BeginTile(r, t)
  PROVE  RoleInv'
<1>. DEFINE n == Begun(r)
<1>1. /\ at[r] = "next" /\ begun' = [begun EXCEPT ![r] = Append(begun[r], t)]
      /\ at' = [at EXCEPT ![r] = CASE r = "tma" -> "fill" [] r = "mma" -> "acquire"
                                   [] OTHER -> "wait"]
      /\ tile' = [tile EXCEPT ![r] = t]
      /\ k' = IF r \in Lanes THEN [k EXCEPT ![r] = 0] ELSE k
  BY DEF BeginTile, Move
<1>2. n \in Nat
  BY CountFacts
<1>3. /\ Begun(r)' = n + 1 /\ begun'[r][n + 1] = t
      /\ \A q \in Roles \ {r} : begun'[q] = begun[q] /\ Begun(q)' = Begun(q)
  BY <1>1, AppendBegun
<1>4. /\ tile'[r] = t /\ (r \in Lanes => k'[r] = 0)
      /\ \A q \in Roles \ {r} : /\ at'[q] = at[q] /\ tile'[q] = tile[q]
                                /\ q \in Lanes => k'[q] = k[q]
      /\ r = "tma" => at'[r] = "fill"
      /\ r = "mma" => at'[r] = "acquire"
  BY <1>1, RoleFacts DEF PipelineTypeOK
<1>5. KTiles > 0 /\ KTiles \in Nat
  BY RoleFacts
<1>. HIDE DEF n
<1>6. ASSUME NEW q \in Roles, Begun(q)' > 0
      PROVE  tile'[q] = begun'[q][Begun(q)']
  <2>1. CASE q = r
    BY <1>3, <1>4, <2>1
  <2>2. CASE q # r
    <3>1. begun'[q] = begun[q] /\ Begun(q)' = Begun(q) /\ tile'[q] = tile[q]
      BY <1>3, <1>4, <2>2
    <3>. QED
      BY <1>6, <3>1 DEF RoleInv
  <2>. QED
    BY <2>1, <2>2
<1>7. at'["tma"] \in {"next", "fill", "expect", "end"}
  <2>1. CASE r = "tma"
    BY <1>4, <2>1
  <2>2. CASE r # "tma"
    BY <1>4, <2>2, RoleFacts DEF RoleInv
  <2>. QED
    BY <2>1, <2>2
<1>8. /\ at'["mma"] \in {"next", "acquire", "issue", "commit", "end"}
      /\ at'["mma"] = "acquire" => k'["mma"] = 0
  <2>1. CASE r = "mma"
    BY <1>4, <2>1, RoleFacts
  <2>2. CASE r # "mma"
    BY <1>4, <2>2, RoleFacts DEF RoleInv
  <2>. QED
    BY <2>1, <2>2
<1>9. ASSUME NEW l \in Lanes
      PROVE  /\ Begun(l)' = 0 => at'[l] \in {"next", "end"} /\ k'[l] = 0
             /\ at'[l] \in {"fill", "expect", "issue"} => k'[l] < KTiles
             /\ at'[l] \in {"next", "commit", "end"} /\ Begun(l)' > 0 => k'[l] = KTiles
  <2>1. CASE l = r
    <3>1. at'[l] \in {"fill", "acquire"} /\ Begun(l)' > 0 /\ Begun(l)' # 0 /\ k'[l] = 0
      BY <1>2, <1>3, <1>4, <2>1, RoleFacts
    <3>. QED
      BY <1>5, <3>1
  <2>2. CASE l # r
    <3>1. at'[l] = at[l] /\ Begun(l)' = Begun(l) /\ k'[l] = k[l]
      BY <1>3, <1>4, <2>2, RoleFacts
    <3>. QED
      BY <3>1 DEF RoleInv
  <2>. QED
    BY <2>1, <2>2
<1>. QED
  BY <1>6, <1>7, <1>8, <1>9 DEF RoleInv

\* What the threads hold was loaded by a loader that has begun the same tile.
LEMMA WritebackBehind ==
  ASSUME PipeInv, NEW w \in Threads,
         at[w] \in {"load", "release", "stage", "staged", "store", "drain", "stored"}
  PROVE  Begun(w) \in 1 .. Begun("tma") /\ Begun(w) =< Ready
<1>. USE DEF PipeInv
<1>1. Begun(w) \in Nat /\ Begun(w) > 0
  BY CountFacts, RoleFacts DEF WritebackInv
<1>2. Passed(w) = Begun(w) /\ Passed(w) =< Ready
  BY DEF Passed, AccInv
<1>3. Ready \in Int /\ (Ready > 0 => Ready \in 1 .. Begun("tma")) /\ Begun("tma") \in Nat
  BY CountFacts, CoreFacts, LoaderAhead, RoleFacts DEF TensorCoreInv, RingInv
<1>. QED
  BY <1>1, <1>2, <1>3

LEMMA BeginLoadInv ==
  ASSUME PipeInv, NEW t \in WorkTiles \cup {NoTile}, BeginTile("tma", t)
  PROVE  PipeInv'
<1>. USE DEF PipeInv
<1>. DEFINE n == Begun("tma")
<1>1. /\ at["tma"] = "next" /\ at' = [at EXCEPT !["tma"] = "fill"]
      /\ tile' = [tile EXCEPT !["tma"] = t] /\ k' = [k EXCEPT !["tma"] = 0]
      /\ begun' = [begun EXCEPT !["tma"] = Append(begun["tma"], t)]
      /\ UNCHANGED <<tma2mma, mma2tma, mma2ld, ld2mma, ring, accPs, wbPs, loads, smem,
                     tensorQ, tmem, regs, dsmem, store, D, exited>>
  BY RoleFacts DEF BeginTile, Move, bars, cursors, engines, output
<1>0. n \in Nat /\ n + 1 \in Nat
  BY CountFacts, RoleFacts
<1>2. /\ n \in Nat /\ n + 1 \in Nat /\ Begun("tma")' = n + 1 /\ begun'["tma"][n + 1] = t
      /\ \A i \in 1 .. n : begun'["tma"][i] = begun["tma"][i]
      /\ \A q \in Roles \ {"tma"} : begun'[q] = begun[q] /\ Begun(q)' = Begun(q)
  BY <1>1, <1>0, AppendBegun, RoleFacts
<1>3. /\ at'["tma"] = "fill" /\ tile'["tma"] = t /\ k'["tma"] = 0
      /\ k'["mma"] = k["mma"]
      /\ \A q \in Roles \ {"tma"} : at'[q] = at[q] /\ tile'[q] = tile[q]
  BY <1>1, RoleFacts DEF PipelineTypeOK
<1>4. Signalled' = Signalled /\ Launched' = Launched /\ Signalled = Base(n)
      /\ Launched = Signalled
  <2>1. Signalled = Base(n)
    <3>1. CASE n = 0
      BY <3>1, BaseFacts DEF Signalled, Steps
    <3>2. CASE n > 0
      <4>1. Signalled = Base(n - 1) + KTiles /\ n - 1 \in Nat /\ (n - 1) + 1 = n
        BY <1>1, <1>2, <3>2, RoleFacts DEF Signalled, Steps, RoleInv
      <4>. QED
        BY <4>1, BaseFacts
    <3>. QED
      BY <1>2, <3>1, <3>2
  <2>2. Signalled' = Base(n)
    <3>1. Signalled' = Base((n + 1) - 1) + 0 /\ (n + 1) - 1 = n
      BY <1>2, <1>3 DEF Signalled, Steps
    <3>. QED
      BY <1>2, <3>1, BaseFacts
  <2>. QED
    BY <1>1, <1>3, <2>1, <2>2 DEF Launched
<1>5. /\ Issued' = Issued /\ Acquired' = Acquired /\ Committed' = Committed
      /\ First' = First
  BY <1>2, <1>3, RoleFacts DEF Issued, Steps, Acquired, Committed, First
<1>6. Executed' = Executed /\ Ready' = Ready /\ Spent' = Spent
  BY <1>1, <1>5 DEF Executed, Ops, Ready, Spent
<1>7. \A i \in 0 .. Launched - 1 : Source(i)' = Source(i)
  <2>. TAKE i \in 0 .. Launched - 1
  <2>1. i \in Nat /\ i < Base(n)
    BY <1>2, <1>4, BaseFacts
  <2>2. i \div KTiles + 1 \in 1 .. n
    BY <1>2, <2>1, TileBefore
  <2>. QED
    BY <1>2, <2>2 DEF Source
<1>8. RoleInv'
  BY BeginLaneInv, RoleFacts
<1>9. RingInv'
  BY <1>1, <1>4, <1>5, <1>6, <1>7, RingFrame DEF TensorCoreInv
<1>10. TensorCoreInv'
  <2>1. Multiplied > 0 => Acquired \in 1 .. n
    BY CountFacts, CoreFacts, LoaderAhead DEF TensorCoreInv, RingInv
  <2>. QED
    BY <1>1, <1>2, <1>5, <1>6, <2>1, CoreFrame
<1>11. AccInv'
  BY <1>1, <1>2, <1>3, <1>5, <1>6, AccFrame, RoleFacts DEF Passed, Released
<1>12. WritebackInv'
  BY <1>1, <1>2, <1>3, WritebackBehind, WritebackFrame, RoleFacts
<1>13. StoredInv' /\ ExitInv'
  BY <1>1, <1>2, RoleFacts DEF StoredInv, OutputCorrect, ExitInv
<1>14. PipelineTypeOK'
  BY BeginTileTypes, RoleFacts
<1>. QED
  BY <1>8, <1>9, <1>10, <1>11, <1>12, <1>13, <1>14

LEMMA BeginMmaInv ==
  ASSUME PipeInv, NEW t \in WorkTiles \cup {NoTile}, BeginTile("mma", t)
  PROVE  PipeInv'
<1>. USE DEF PipeInv
<1>. DEFINE n == Begun("mma")
<1>1. /\ at["mma"] = "next" /\ at' = [at EXCEPT !["mma"] = "acquire"]
      /\ tile' = [tile EXCEPT !["mma"] = t] /\ k' = [k EXCEPT !["mma"] = 0]
      /\ begun' = [begun EXCEPT !["mma"] = Append(begun["mma"], t)]
      /\ UNCHANGED <<tma2mma, mma2tma, mma2ld, ld2mma, ring, accPs, wbPs, loads, smem,
                     tensorQ, tmem, regs, dsmem, store, D, exited>>
  BY RoleFacts DEF BeginTile, Move, bars, cursors, engines, output
<1>0. n \in Nat /\ n + 1 \in Nat
  BY CountFacts, RoleFacts
<1>2. /\ n \in Nat /\ n + 1 \in Nat /\ Begun("mma")' = n + 1 /\ begun'["mma"][n + 1] = t
      /\ \A q \in Roles \ {"mma"} : begun'[q] = begun[q] /\ Begun(q)' = Begun(q)
  BY <1>1, <1>0, AppendBegun, RoleFacts
<1>3. /\ at'["mma"] = "acquire" /\ tile'["mma"] = t /\ k'["mma"] = 0
      /\ k'["tma"] = k["tma"]
      /\ \A q \in Roles \ {"mma"} : at'[q] = at[q] /\ tile'[q] = tile[q]
  BY <1>1, RoleFacts DEF PipelineTypeOK
<1>4. Signalled' = Signalled /\ Launched' = Launched
  BY <1>2, <1>3, RoleFacts DEF Signalled, Steps, Launched
<1>5. /\ Acquired' = Acquired /\ Committed' = Committed /\ First' = First
      /\ Acquired = n
  <2>1. at["mma"] = "next" /\ at'["mma"] = "acquire" /\ Begun("mma")' = n + 1
    BY <1>1, <1>2, <1>3
  <2>2. Acquired = n
    BY <2>1 DEF Acquired
  <2>3. Acquired' = n
    BY <1>0, <2>1 DEF Acquired
  <2>4. Committed /\ Committed'
    BY <2>1 DEF Committed
  <2>. QED
    BY <2>2, <2>3, <2>4 DEF First
<1>6. Issued' = Issued
  <2>1. Issued = Base(n)
    <3>1. CASE n = 0
      BY <3>1, BaseFacts DEF Issued, Steps
    <3>2. CASE n > 0
      <4>1. Issued = Base(n - 1) + KTiles /\ n - 1 \in Nat /\ (n - 1) + 1 = n
        BY <1>1, <1>2, <3>2, RoleFacts DEF Issued, Steps, RoleInv
      <4>. QED
        BY <4>1, BaseFacts
    <3>. QED
      BY <1>2, <3>1, <3>2
  <2>2. Issued' = Base((n + 1) - 1) + 0 /\ (n + 1) - 1 = n
    BY <1>2, <1>3 DEF Issued, Steps
  <2>. QED
    BY <1>2, <2>1, <2>2, BaseFacts
<1>7. Executed' = Executed /\ Ready' = Ready /\ Spent' = Spent
  BY <1>1, <1>5, <1>6 DEF Executed, Ops, Ready, Spent
<1>8. RoleInv'
  BY BeginLaneInv, RoleFacts
<1>9. RingInv'
  BY <1>1, <1>2, <1>4, <1>6, <1>7, RingFrame, RoleFacts DEF TensorCoreInv, Source
<1>10. TensorCoreInv'
  BY <1>1, <1>2, <1>5, <1>7, CoreFrame, RoleFacts
<1>11. AccInv'
  BY <1>1, <1>2, <1>3, <1>5, <1>7, AccFrame, RoleFacts DEF Passed, Released
<1>12. WritebackInv'
  BY <1>1, <1>2, <1>3, WritebackFrame, RoleFacts
<1>13. StoredInv' /\ ExitInv'
  BY <1>1, <1>2, RoleFacts DEF StoredInv, OutputCorrect, ExitInv
<1>14. PipelineTypeOK'
  BY BeginTileTypes, RoleFacts
<1>. QED
  BY <1>8, <1>9, <1>10, <1>11, <1>12, <1>13, <1>14

LEMMA BeginWriteInv ==
  ASSUME PipeInv, NEW w \in Threads, NEW t \in WorkTiles \cup {NoTile}, BeginTile(w, t)
  PROVE  PipeInv'
<1>. USE DEF PipeInv
<1>. DEFINE n == Begun(w)
<1>1. /\ at[w] = "next" /\ at' = [at EXCEPT ![w] = "wait"]
      /\ tile' = [tile EXCEPT ![w] = t] /\ k' = k
      /\ begun' = [begun EXCEPT ![w] = Append(begun[w], t)]
      /\ UNCHANGED <<tma2mma, mma2tma, mma2ld, ld2mma, ring, accPs, wbPs, loads, smem,
                     tensorQ, tmem, regs, dsmem, store, D, exited>>
  BY RoleFacts DEF BeginTile, Move, bars, cursors, engines, output
<1>0. n \in Nat
  BY CountFacts, RoleFacts
<1>2. /\ n \in Nat /\ Begun(w)' = n + 1 /\ begun'[w][n + 1] = t
      /\ \A i \in 1 .. n : begun'[w][i] = begun[w][i]
      /\ \A q \in Roles \ {w} : begun'[q] = begun[q] /\ Begun(q)' = Begun(q)
  BY <1>1, <1>0, AppendBegun, RoleFacts
<1>3. /\ at'[w] = "wait" /\ tile'[w] = t
      /\ \A q \in Roles \ {w} : at'[q] = at[q] /\ tile'[q] = tile[q]
  BY <1>1, RoleFacts DEF PipelineTypeOK
<1>4. /\ Signalled' = Signalled /\ Launched' = Launched /\ Issued' = Issued
      /\ Acquired' = Acquired /\ Committed' = Committed
  BY <1>1, <1>2, <1>3, RoleFacts
     DEF Signalled, Issued, Steps, Launched, Acquired, Committed
<1>5. First' = First
  BY <1>4 DEF First
<1>6. Executed' = Executed /\ Ready' = Ready
  BY <1>1, <1>4, <1>5 DEF Executed, Ops, Ready
<1>7. Spent' = Spent
  BY <1>5, <1>6 DEF Spent
<1>8. RoleInv'
  BY BeginLaneInv, RoleFacts
<1>9. RingInv'
  BY <1>1, <1>2, <1>4, <1>7, RingFrame, RoleFacts DEF TensorCoreInv, Source
<1>10. TensorCoreInv'
  BY <1>1, <1>2, <1>4, <1>5, <1>6, CoreFrame, RoleFacts
<1>11. AccInv'
  <2>1. \A v \in Threads : Passed(v)' = Passed(v) /\ Released(v)' = Released(v)
    <3>. TAKE v \in Threads
    <3>1. CASE v = w
      BY <1>1, <1>2, <1>3, <3>1 DEF Passed, Released
    <3>2. CASE v # w
      BY <1>2, <1>3, <3>2, RoleFacts DEF Passed, Released
    <3>. QED
      BY <3>1, <3>2
  <2>. QED
    BY <1>1, <1>4, <1>6, <2>1, AccFrame
<1>12. WritebackInv'
  <2>1. \A v \in Threads : Done(v)' = Done(v) /\ Staged(v)' = Staged(v)
    <3>. TAKE v \in Threads
    <3>1. CASE v = w
      BY <1>1, <1>2, <1>3, <3>1 DEF Done, Staged
    <3>2. CASE v # w
      BY <1>2, <1>3, <3>2, RoleFacts DEF Done, Staged
    <3>. QED
      BY <3>1, <3>2
  <2>2. ASSUME NEW v \in Threads \ {w}
        PROVE  /\ at'[v] \in {"release", "stage"} =>
                    regs'[v] = Product(begun'["tma"][Begun(v)'])
               /\ at'[v] \in {"staged", "store", "drain", "stored"} =>
                    dsmem'[v] = Product(begun'["tma"][Begun(v)'])
               /\ at'[v] = at[v] /\ Begun(v)' = Begun(v)
    BY <1>1, <1>2, <1>3, RoleFacts DEF WritebackInv
  <2>3. store' # NoTile => at'[Leader] = "drain" /\ store' = tile'[Leader]
    BY <1>1, <1>3, RoleFacts DEF WritebackInv
  <2>. QED
    BY <1>2, <1>3, <2>1, <2>2, <2>3, RoleFacts DEF WritebackInv
<1>13. StoredInv'
  <2>1. \A j \in 1 .. Begun(Leader) :
          j \in 1 .. Begun(Leader)' /\ begun'[Leader][j] = begun[Leader][j]
    BY <1>2, RoleFacts, CountFacts
  <2>. QED
    BY <1>1, <2>1 DEF StoredInv, OutputCorrect
<1>14. ExitInv'
  BY <1>1, RoleFacts DEF ExitInv
<1>15. PipelineTypeOK'
  BY BeginTileTypes, RoleFacts
<1>. QED
  BY <1>8, <1>9, <1>10, <1>11, <1>12, <1>13, <1>14, <1>15

LEMMA EndLoopInv ==
  ASSUME PipeInv, NEW r \in Roles, EndLoop(r)
  PROVE  PipeInv'
<1>. USE DEF PipeInv
<1>1. /\ at[r] = "next" /\ at' = [at EXCEPT ![r] = "end"]
      /\ UNCHANGED <<tma2mma, mma2tma, mma2ld, ld2mma, ring, accPs, wbPs, loads, smem,
                     tensorQ, tmem, regs, dsmem, store, D, exited, tile, k, begun>>
  BY DEF EndLoop, Move, bars, cursors, engines, output
<1>2. /\ \A q \in Roles \ {r} : at'[q] = at[q]
      /\ at'[r] = "end" /\ \A q : Begun(q)' = Begun(q)
  BY <1>1 DEF PipelineTypeOK, Begun
<1>3. /\ Signalled' = Signalled /\ Launched' = Launched /\ Issued' = Issued
      /\ Acquired' = Acquired /\ Committed' = Committed
  BY <1>1, <1>2, RoleFacts DEF Signalled, Issued, Steps, Launched, Acquired, Committed
<1>4. First' = First
  BY <1>3 DEF First
<1>5. Executed' = Executed /\ Ready' = Ready
  BY <1>1, <1>3, <1>4 DEF Executed, Ops, Ready
<1>6. Spent' = Spent
  BY <1>4, <1>5 DEF Spent
<1>7. RoleInv'
  BY <1>1, <1>2, RoleFacts DEF RoleInv
<1>8. RingInv'
  BY <1>1, <1>3, <1>6, RingFrame DEF TensorCoreInv, Source
<1>9. TensorCoreInv'
  BY <1>1, <1>3, <1>4, <1>5, CoreFrame
<1>10. \A w \in Threads : /\ Passed(w)' = Passed(w) /\ Released(w)' = Released(w)
                          /\ Done(w)' = Done(w) /\ Staged(w)' = Staged(w)
  <2>. TAKE w \in Threads
  <2>1. CASE w = r
    BY <1>1, <1>2, <2>1 DEF Passed, Released, Done, Staged
  <2>2. CASE w # r
    BY <1>2, <2>2, RoleFacts DEF Passed, Released, Done, Staged
  <2>. QED
    BY <2>1, <2>2
<1>11. AccInv'
  BY <1>1, <1>3, <1>5, <1>10, AccFrame
<1>12. WritebackInv'
  BY <1>1, <1>2, <1>10, RoleFacts DEF WritebackInv
<1>13. StoredInv' /\ ExitInv'
  BY <1>1, <1>2 DEF StoredInv, OutputCorrect, ExitInv
<1>14. PipelineTypeOK'
  BY <1>1 DEF PipelineTypeOK
<1>. QED
  BY <1>7, <1>8, <1>9, <1>11, <1>12, <1>13, <1>14

------------------------------------------------------------------------------
(* The writeback warpgroup                                                 *)

\* A thread between its wait and its release reads the whole accumulator of its
\* tile, and the tensor core is idle.
LEMMA ReadersSeeWhole ==
  ASSUME PipeInv, NEW w \in Threads, at[w] \in {"load", "release"}
  PROVE  /\ Begun(w) = Acquired /\ Ready = Acquired /\ Committed /\ tensorQ = <<>>
         /\ Released(w) = Acquired - 1 /\ w \in Holding
         /\ tmem = Product(begun["tma"][Acquired])
<1>. USE DEF PipeInv
<1>1. Passed(w) = Begun(w) /\ Released(w) = Begun(w) - 1
  BY DEF Passed, Released
<1>2. /\ Begun(w) \in 1 .. Begun("tma") /\ Begun(w) =< Ready
      /\ Released(w) \in {Acquired - 1, Acquired}
  BY WritebackBehind DEF AccInv
<1>3. /\ Acquired \in Nat /\ Ready \in {Acquired - 1, Acquired}
      /\ (Committed /\ Acquired > 0 => Ops = 2 * KTiles + 1)
      /\ (tensorQ = <<>> => Executed = Ops)
  BY CountFacts, CoreFacts DEF TensorCoreInv
<1>4. Begun(w) = Acquired /\ Ready = Acquired /\ Acquired > 0
  <2>1. Begun(w) \in Int
    BY <1>2
  <2>. QED
    BY <1>1, <1>2, <1>3, <2>1
<1>5. Committed /\ tensorQ = <<>>
  BY <1>3, <1>4 DEF Ready
<1>6. Multiplied = KTiles /\ KTiles > 0
  BY <1>3, <1>4, <1>5, RoleFacts DEF Multiplied
<1>7. tmem = Product(begun["tma"][Acquired])
  BY <1>6 DEF TensorCoreInv, TmemInv, Product
<1>. QED
  BY <1>1, <1>4, <1>5, <1>7 DEF Holding

\* A step of one thread that takes its label on, within the tile.
LEMMA OneThreadInv ==
  ASSUME PipeInv, NEW w \in Threads, NEW l \in {"load", "release", "stage", "staged"},
         at[w] \in {"wait", "load", "release", "stage"}, at' = [at EXCEPT ![w] = l],
         UNCHANGED <<tile, begun, store, D, exited>>,
         \A v \in Threads \ {w} : regs'[v] = regs[v] /\ dsmem'[v] = dsmem[v],
         l \in {"release", "stage"} => regs'[w] = Product(begun["tma"][Begun(w)]),
         l = "staged" => dsmem'[w] = Product(begun["tma"][Begun(w)])
  PROVE  WritebackInv' /\ StoredInv' /\ ExitInv'
<1>. USE DEF PipeInv
<1>1. /\ at'[w] = l /\ \A q \in Roles \ {w} : at'[q] = at[q]
      /\ \A r : Begun(r)' = Begun(r)
  BY RoleFacts DEF PipelineTypeOK, Begun
<1>2. \A v \in Threads : Done(v)' = Done(v) /\ Staged(v)' = Staged(v)
  BY <1>1, RoleFacts DEF Done, Staged
<1>3. ASSUME NEW v \in Threads
      PROVE  /\ at'[v] \in {"next", "wait", "load", "release", "stage", "staged",
                            "store", "drain", "stored", "end"}
             /\ Begun(v)' = 0 => at'[v] \in {"next", "end"}
             /\ at'[v] \in {"store", "drain"} => v = Leader
             /\ Done(v)' = Done(Leader)' /\ Staged(v)' = Staged(Leader)'
             /\ at'[v] \in {"release", "stage"} =>
                  regs'[v] = Product(begun'["tma"][Begun(v)'])
             /\ at'[v] \in {"staged", "store", "drain", "stored"} =>
                  dsmem'[v] = Product(begun'["tma"][Begun(v)'])
  <2>1. Done(v)' = Done(Leader)' /\ Staged(v)' = Staged(Leader)'
    BY <1>2, RoleFacts DEF WritebackInv
  <2>2. CASE v = w
    BY <1>1, <2>1, <2>2, RoleFacts DEF WritebackInv
  <2>3. CASE v # w
    <3>1. at'[v] = at[v] /\ Begun(v)' = Begun(v)
      BY <1>1, <2>3, RoleFacts
    <3>. QED
      BY <2>1, <2>3, <3>1 DEF WritebackInv
  <2>. QED
    BY <2>2, <2>3
<1>4. store' # NoTile => at'[Leader] = "drain" /\ store' = tile'[Leader]
  BY <1>1, RoleFacts DEF WritebackInv
<1>5. WritebackInv'
  BY <1>3, <1>4 DEF WritebackInv
<1>6. StoredInv'
  BY <1>1, RoleFacts DEF StoredInv, OutputCorrect
<1>7. ExitInv'
  BY RoleFacts DEF ExitInv
<1>. QED
  BY <1>5, <1>6, <1>7

LEMMA AwaitInv ==
  ASSUME PipeInv, NEW w \in Threads, AwaitAccumulator(w)
  PROVE  PipeInv'
<1>. USE DEF PipeInv
<1>1. /\ at[w] = "wait" /\ at' = [at EXCEPT ![w] = "load"]
      /\ mma2ld.phase # wbPs[w].phase
      /\ wbPs' = [wbPs EXCEPT ![w] = Advance(wbPs[w], 1)]
      /\ UNCHANGED <<tma2mma, mma2tma, mma2ld, ld2mma, ring, accPs, loads, smem,
                     tensorQ, tmem, regs, dsmem, store, D, exited, tile, k, begun>>
  BY DEF AwaitAccumulator, Move, Passes, bars, engines, output
<1>2. /\ at'[w] = "load" /\ \A q \in Roles \ {w} : at'[q] = at[q]
      /\ \A v \in Threads \ {w} : wbPs'[v] = wbPs[v]
      /\ wbPs'[w] = Advance(wbPs[w], 1)
  BY <1>1, RoleFacts DEF PipelineTypeOK
<1>3. /\ RoleInv' /\ RingInv' /\ TensorCoreInv' /\ Acquired' = Acquired /\ Ready' = Ready
      /\ \A r \in Roles : Begun(r)' = Begun(r)
  BY <1>1, <1>2, ThreadFrame, RoleFacts
<1>4. /\ Begun(w) \in Nat /\ Ready \in Int /\ Passed(w) = Begun(w) - 1
      /\ Passed(w) =< Ready
  BY <1>1, CountFacts, CoreFacts, RoleFacts DEF TensorCoreInv, AccInv, Passed
<1>5. /\ Passed(w)' = Passed(w) + 1 /\ Released(w)' = Released(w)
      BY <1>1, <1>2, <1>3, <1>4, RoleFacts DEF Passed, Released
<1>6. \A v \in Threads \ {w} :
        Passed(v)' = Passed(v) /\ Released(v)' = Released(v)
  BY <1>2, <1>3, RoleFacts DEF Passed, Released
<1>7. /\ Passed(w) + 1 =< Ready
      /\ wbPs'[w] = [stage |-> 0, phase |-> (Passed(w) + 1) % 2]
  <2>. DEFINE x == Passed(w)
              p == x % 2
  <2>1. mma2ld.phase = Ready % 2 /\ wbPs[w] = [stage |-> 0, phase |-> p]
    BY DEF AccInv
  <2>2. x # Ready
    BY <1>1, <2>1
  <2>3. x \in Int
    BY <1>4
  <2>4. (x + 1) % 2 = 1 - p
    BY <2>3, Flip
  <2>. HIDE DEF p
  <2>5. wbPs'[w] = [stage |-> 0, phase |-> 1 - p]
    BY <1>2, <2>1 DEF Advance
  <2>. QED
    BY <1>4, <2>2, <2>3, <2>4, <2>5
<1>8. AccInv'
  <2>1. Holding' = Holding
    BY <1>3, <1>5, <1>6 DEF Holding
  <2>2. ASSUME NEW v \in Threads
        PROVE  /\ wbPs'[v] = [stage |-> 0, phase |-> Passed(v)' % 2]
               /\ Passed(v)' =< Ready' /\ Released(v)' \in {Acquired' - 1, Acquired'}
    <3>1. CASE v = w
      BY <1>3, <1>5, <1>7, <3>1 DEF AccInv
    <3>2. CASE v # w
      BY <1>2, <1>3, <1>6, <3>2 DEF AccInv
    <3>. QED
      BY <3>1, <3>2
  <2>. QED
    BY <1>1, <1>3, <2>1, <2>2 DEF AccInv, AcquireCursor, ReleaseBar
<1>9. WritebackInv' /\ StoredInv' /\ ExitInv'
  BY <1>1, OneThreadInv
<1>10. PipelineTypeOK'
  <2>1. wbPs'[w] \in CursorType(1)
    <3>1. Passed(w) + 1 \in Int
      BY <1>4
    <3>2. (Passed(w) + 1) % 2 \in {0, 1}
      BY <3>1, Flip
    <3>. QED
      BY <1>7, <3>2 DEF CursorType
  <2>2. wbPs' \in [Threads -> CursorType(1)]
    BY <1>1, <1>2, <2>1 DEF PipelineTypeOK
  <2>. QED
    BY <1>1, <2>2 DEF PipelineTypeOK
<1>. QED
  BY <1>3, <1>8, <1>9, <1>10

LEMMA LoadRowInv ==
  ASSUME PipeInv, NEW w \in Threads, LoadRow(w)
  PROVE  PipeInv'
<1>. USE DEF PipeInv
<1>1. /\ at[w] = "load" /\ at' = [at EXCEPT ![w] = "release"]
      /\ regs' = [regs EXCEPT ![w] = tmem]
      /\ UNCHANGED <<tma2mma, mma2tma, mma2ld, ld2mma, ring, accPs, wbPs, loads, smem,
                     tensorQ, tmem, dsmem, store, D, exited, tile, k, begun>>
  BY DEF LoadRow, Move, bars, cursors, engines
<1>2. at'[w] = "release" /\ \A q \in Roles \ {w} : at'[q] = at[q]
  BY <1>1, RoleFacts DEF PipelineTypeOK
<1>3. /\ RoleInv' /\ RingInv' /\ TensorCoreInv' /\ Acquired' = Acquired /\ Ready' = Ready
      /\ \A r \in Roles : Begun(r)' = Begun(r)
  BY <1>1, <1>2, ThreadFrame, RoleFacts
<1>4. AccInv'
  <2>1. ASSUME NEW v \in Threads
        PROVE  Passed(v)' = Passed(v) /\ Released(v)' = Released(v)
    <3>1. CASE v = w
      BY <1>1, <1>2, <1>3, <3>1, RoleFacts DEF Passed, Released
    <3>2. CASE v # w
      BY <1>2, <1>3, <3>2, RoleFacts DEF Passed, Released
    <3>. QED
      BY <3>1, <3>2
  <2>. QED
    BY <1>1, <1>3, <2>1, AccFrame
<1>5. WritebackInv' /\ StoredInv' /\ ExitInv'
  <2>1. Begun(w) = Acquired /\ tmem = Product(begun["tma"][Acquired])
    BY <1>1, ReadersSeeWhole
  <2>2. regs'[w] = Product(begun["tma"][Begun(w)])
        /\ \A v \in Threads \ {w} : regs'[v] = regs[v]
    BY <1>1, <2>1 DEF PipelineTypeOK
  <2>. QED
    BY <1>1, <2>2, OneThreadInv
<1>6. PipelineTypeOK'
  BY <1>1 DEF PipelineTypeOK
<1>. QED
  BY <1>3, <1>4, <1>5, <1>6

LEMMA ReleaseInv ==
  ASSUME PipeInv, NEW w \in Threads, ReleaseAccumulator(w)
  PROVE  PipeInv'
<1>. USE DEF PipeInv
<1>. DEFINE N == Cardinality(Threads)
            H == Cardinality(Holding)
<1>1. /\ at[w] = "release" /\ at' = [at EXCEPT ![w] = "stage"]
      /\ ld2mma' = Arrive(ld2mma, N)
      /\ UNCHANGED <<tma2mma, mma2tma, mma2ld, ring, accPs, wbPs, loads, smem, tensorQ,
                     tmem, regs, dsmem, store, D, exited, tile, k, begun>>
  BY DEF ReleaseAccumulator, Move, cursors, engines, output
<1>2. at'[w] = "stage" /\ \A q \in Roles \ {w} : at'[q] = at[q]
  BY <1>1, RoleFacts DEF PipelineTypeOK
<1>3. /\ RoleInv' /\ RingInv' /\ TensorCoreInv' /\ Acquired' = Acquired /\ Ready' = Ready
      /\ \A r \in Roles : Begun(r)' = Begun(r)
  BY <1>1, <1>2, ThreadFrame, RoleFacts
<1>4. /\ Released(w) = Acquired - 1 /\ Begun(w) = Acquired /\ w \in Holding
      /\ Acquired \in Nat
  BY <1>1, ReadersSeeWhole, CountFacts
<1>5. Passed(w)' = Passed(w) /\ Released(w)' = Acquired
  BY <1>1, <1>2, <1>3, <1>4, RoleFacts DEF Passed, Released
<1>6. \A v \in Threads \ {w} : Passed(v)' = Passed(v) /\ Released(v)' = Released(v)
  BY <1>2, <1>3, RoleFacts DEF Passed, Released
<1>7. /\ Holding' = Holding \ {w}
      /\ IsFiniteSet(Holding) /\ H \in Nat /\ N \in Nat /\ N > 0
      /\ Cardinality(Holding \ {w}) = H - 1 /\ H > 0
      /\ (Holding \ {w} = {} <=> H - 1 = 0)
  <2>1. Holding' = Holding \ {w}
    <3>1. \A v \in Threads : Released(v)' = Acquired - 1
                               <=> Released(v) = Acquired - 1 /\ v # w
      BY <1>4, <1>5, <1>6
    <3>. QED
      BY <1>3, <3>1 DEF Holding
  <2>2. IsFiniteSet(Threads) /\ Holding \subseteq Threads /\ Threads # {}
    BY RoleAssumption DEF Holding
  <2>3. IsFiniteSet(Holding)
    BY <2>2, FS_Subset
  <2>4. N \in Nat /\ H \in Nat
    BY <2>2, <2>3, FS_CardinalityType
  <2>5. N # 0 /\ H # 0
    BY <1>4, <2>2, <2>3, FS_EmptySet
  <2>6. IsFiniteSet(Holding \ {w}) /\ Cardinality(Holding \ {w}) = H - 1
    BY <1>4, <2>3, FS_RemoveElement
  <2>7. Holding \ {w} = {} <=> Cardinality(Holding \ {w}) = 0
    BY <2>6, FS_EmptySet
  <2>. QED
    BY <2>1, <2>3, <2>4, <2>5, <2>6, <2>7
<1>8. ld2mma' = IF Holding' = {} THEN [phase |-> Acquired % 2, pending |-> N, tx |-> 0]
                ELSE [phase |-> (Acquired + 1) % 2, pending |-> Cardinality(Holding'),
                      tx |-> 0]
  <2>. DEFINE p == (Acquired + 1) % 2
  <2>1. ld2mma = [phase |-> p, pending |-> H, tx |-> 0]
    BY <1>4 DEF AccInv, AcquireCursor, ReleaseBar
  <2>2. Acquired % 2 = 1 - p
    BY <1>4, Flip
  <2>. HIDE DEF p, H, N
  <2>3. CASE H - 1 = 0
    <3>1. ld2mma' = [phase |-> 1 - p, pending |-> N, tx |-> 0]
      BY <1>1, <2>1, <2>3 DEF Arrive, Settle
    <3>. QED
      BY <1>7, <2>2, <2>3, <3>1
  <2>4. CASE H - 1 # 0
    <3>1. ld2mma' = [phase |-> p, pending |-> H - 1, tx |-> 0]
      BY <1>1, <1>7, <2>1, <2>4 DEF Arrive, Settle
    <3>. QED
      BY <1>7, <2>4, <3>1 DEF p
  <2>. QED
    BY <2>3, <2>4
<1>9. AccInv'
  <2>1. ASSUME NEW v \in Threads
        PROVE  /\ wbPs'[v] = [stage |-> 0, phase |-> Passed(v)' % 2]
               /\ Passed(v)' =< Ready' /\ Released(v)' \in {Acquired' - 1, Acquired'}
    <3>1. CASE v = w
      BY <1>1, <1>3, <1>5, <3>1 DEF AccInv
    <3>2. CASE v # w
      BY <1>1, <1>3, <1>6, <3>2 DEF AccInv
    <3>. QED
      BY <3>1, <3>2
  <2>. QED
    BY <1>1, <1>3, <1>8, <2>1 DEF AccInv, AcquireCursor, ReleaseBar
<1>10. WritebackInv' /\ StoredInv' /\ ExitInv'
  <2>1. regs[w] = Product(begun["tma"][Begun(w)])
    BY <1>1 DEF WritebackInv
  <2>. QED
    BY <1>1, <2>1, OneThreadInv
<1>11. PipelineTypeOK'
  <2>1. ld2mma' \in BarType(N)
    <3>1. ld2mma \in BarType(N)
      BY DEF PipelineTypeOK
    <3>2. ld2mma.pending = H
      BY <1>4 DEF AccInv, AcquireCursor, ReleaseBar
    <3>. HIDE DEF H, N
    <3>. QED
      BY <1>1, <1>7, <3>1, <3>2 DEF Arrive, Settle, BarType
  <2>. QED
    BY <1>1, <2>1 DEF PipelineTypeOK
<1>. QED
  BY <1>3, <1>9, <1>10, <1>11

LEMMA StageRowInv ==
  ASSUME PipeInv, NEW w \in Threads, StageRow(w)
  PROVE  PipeInv'
<1>. USE DEF PipeInv
<1>1. /\ at[w] = "stage" /\ at' = [at EXCEPT ![w] = "staged"]
      /\ dsmem' = [dsmem EXCEPT ![w] = regs[w]]
      /\ UNCHANGED <<tma2mma, mma2tma, mma2ld, ld2mma, ring, accPs, wbPs, loads, smem,
                     tensorQ, tmem, regs, store, D, exited, tile, k, begun>>
  BY DEF StageRow, Move, bars, cursors, engines
<1>2. at'[w] = "staged" /\ \A q \in Roles \ {w} : at'[q] = at[q]
  BY <1>1, RoleFacts DEF PipelineTypeOK
<1>3. /\ RoleInv' /\ RingInv' /\ TensorCoreInv' /\ Acquired' = Acquired /\ Ready' = Ready
      /\ \A r \in Roles : Begun(r)' = Begun(r)
  BY <1>1, <1>2, ThreadFrame, RoleFacts
<1>4. AccInv'
  <2>1. ASSUME NEW v \in Threads
        PROVE  Passed(v)' = Passed(v) /\ Released(v)' = Released(v)
    <3>1. CASE v = w
      BY <1>1, <1>2, <1>3, <3>1, RoleFacts DEF Passed, Released
    <3>2. CASE v # w
      BY <1>2, <1>3, <3>2, RoleFacts DEF Passed, Released
    <3>. QED
      BY <3>1, <3>2
  <2>. QED
    BY <1>1, <1>3, <2>1, AccFrame
<1>5. WritebackInv' /\ StoredInv' /\ ExitInv'
  <2>1. dsmem'[w] = Product(begun["tma"][Begun(w)])
        /\ \A v \in Threads \ {w} : dsmem'[v] = dsmem[v]
    BY <1>1 DEF PipelineTypeOK, WritebackInv
  <2>. QED
    BY <1>1, <2>1, OneThreadInv
<1>6. PipelineTypeOK'
  <2>1. regs[w] \in Seq(Pairs)
    BY DEF PipelineTypeOK
  <2>. QED
    BY <1>1, <2>1 DEF PipelineTypeOK
<1>. QED
  BY <1>3, <1>4, <1>5, <1>6

\* Both syncs take every thread on, so the counts of all of them move together.
LEMMA SyncInv ==
  ASSUME PipeInv, RowsStaged \/ TileStored
  PROVE  PipeInv'
<1>. USE DEF PipeInv
<1>. DEFINE here == IF RowsStaged THEN "staged" ELSE "stored"
            first == IF RowsStaged THEN "store" ELSE "next"
            others == IF RowsStaged THEN "stored" ELSE "next"
<1>1. /\ \A w \in Threads : at[w] = here
      /\ at' = [r \in Roles |-> IF r \in Lanes THEN at[r]
                                ELSE IF r = Leader THEN first ELSE others]
      /\ UNCHANGED <<tma2mma, mma2tma, mma2ld, ld2mma, ring, accPs, wbPs, loads, smem,
                     tensorQ, tmem, regs, dsmem, store, D, exited, tile, k, begun>>
  <2>1. /\ WarpgroupSync(here, first, others)
        /\ \/ here = "staged" /\ first = "store" /\ others = "stored"
           \/ here = "stored" /\ first = "next" /\ others = "next"
    BY DEF RowsStaged, TileStored
  <2>. HIDE DEF here, first, others
  <2>2. \A r \in Roles : (CASE r \in Lanes -> at[r] [] r = Leader -> first
                            [] OTHER -> others)
                           = IF r \in Lanes THEN at[r]
                             ELSE IF r = Leader THEN first ELSE others
    BY RoleFacts
  <2>. QED
    BY <2>1, <2>2 DEF WarpgroupSync, bars, cursors, engines, output
<1>2. \/ here = "staged" /\ first = "store" /\ others = "stored"
      \/ here = "stored" /\ first = "next" /\ others = "next"
  OBVIOUS
<1>. HIDE DEF here, first, others
<1>3. /\ at'["tma"] = at["tma"] /\ at'["mma"] = at["mma"]
      /\ \A w \in Threads : at'[w] = IF w = Leader THEN first ELSE others
  BY <1>1, RoleFacts
<1>4. /\ RoleInv' /\ RingInv' /\ TensorCoreInv' /\ Acquired' = Acquired /\ Ready' = Ready
      /\ \A r \in Roles : Begun(r)' = Begun(r)
  BY <1>1, <1>3, ThreadFrame
<1>5. \A w \in Threads : Passed(w)' = Passed(w) /\ Released(w)' = Released(w)
  BY <1>1, <1>2, <1>3, <1>4, RoleFacts DEF Passed, Released
<1>6. AccInv'
  BY <1>1, <1>4, <1>5, AccFrame
<1>7. WritebackInv'
  <2>1. \A w \in Threads : /\ Begun(w) = Begun(Leader) /\ Begun(w) \in Nat
                           /\ Begun(w) # 0 /\ Begun(w)' = Begun(w)
    <3>. TAKE w \in Threads
    <3>1. Begun(w) \in Nat /\ Begun(Leader) \in Nat
      BY CountFacts, RoleFacts
    <3>2. Done(w) = Begun(w) - 1 /\ Done(Leader) = Begun(Leader) - 1
      BY <1>1, <1>2, RoleFacts DEF Done
    <3>3. Done(w) = Done(Leader) /\ Begun(w) # 0
      BY <1>1, <1>2 DEF WritebackInv
    <3>4. Begun(w)' = Begun(w)
      BY <1>4, RoleFacts
    <3>. QED
      BY <3>1, <3>2, <3>3, <3>4
  <2>2. \A w \in Threads : Done(w)' = Done(Leader)' /\ Staged(w)' = Staged(Leader)'
    BY <1>2, <1>3, <2>1, RoleFacts DEF Done, Staged
  <2>3. store' = NoTile
    BY <1>1, <1>2, RoleFacts DEF WritebackInv
  <2>4. \A w \in Threads : dsmem[w] = Product(begun["tma"][Begun(w)])
    BY <1>1, <1>2 DEF WritebackInv
  <2>5. ASSUME NEW w \in Threads
        PROVE  /\ at'[w] \in {"next", "wait", "load", "release", "stage", "staged",
                              "store", "drain", "stored", "end"}
               /\ Begun(w)' = 0 => at'[w] \in {"next", "end"}
               /\ at'[w] \in {"store", "drain"} => w = Leader
               /\ at'[w] \notin {"release", "stage"}
               /\ at'[w] \in {"staged", "store", "drain", "stored"} =>
                    dsmem'[w] = Product(begun'["tma"][Begun(w)'])
    BY <1>1, <1>2, <1>3, <2>1, <2>4
  <2>. QED
    BY <2>2, <2>3, <2>5 DEF WritebackInv
<1>8. StoredInv'
  BY <1>1, <1>4, RoleFacts DEF StoredInv, OutputCorrect
<1>9. ExitInv'
  BY <1>1, <1>2, RoleFacts DEF ExitInv
<1>10. PipelineTypeOK'
  <2>1. at' \in [Roles -> {"next", "fill", "expect", "acquire", "issue", "commit",
                           "wait", "load", "release", "stage", "staged", "store",
                           "drain", "stored", "end"}]
    BY <1>1, <1>2 DEF PipelineTypeOK
  <2>. QED
    BY <1>1, <2>1 DEF PipelineTypeOK
<1>. QED
  BY <1>4, <1>6, <1>7, <1>8, <1>9, <1>10

LEMMA LeaderInv ==
  ASSUME PipeInv, IssueStore \/ DrainStore
  PROVE  PipeInv'
<1>. USE DEF PipeInv
<1>. DEFINE next == IF at[Leader] = "store" THEN "drain" ELSE "stored"
<1>1. /\ at[Leader] \in {"store", "drain"} /\ at' = [at EXCEPT ![Leader] = next]
      /\ store' = IF at[Leader] = "store" THEN tile[Leader] ELSE NoTile
      /\ UNCHANGED <<tma2mma, mma2tma, mma2ld, ld2mma, ring, accPs, wbPs, loads, smem,
                     tensorQ, tmem, regs, dsmem, D, exited, tile, k, begun>>
  <2>1. CASE IssueStore
    BY <2>1 DEF IssueStore, Move, bars, cursors, engines, output
  <2>2. CASE DrainStore
    BY <2>2 DEF DrainStore, Move, bars, cursors, engines, output
  <2>. QED
    BY <2>1, <2>2
<1>2. next \in {"drain", "stored"} /\ (at[Leader] = "store" <=> next = "drain")
  BY <1>1
<1>. HIDE DEF next
<1>3. at'[Leader] = next /\ \A q \in Roles \ {Leader} : at'[q] = at[q]
  BY <1>1, RoleFacts DEF PipelineTypeOK
<1>4. /\ RoleInv' /\ RingInv' /\ TensorCoreInv' /\ Acquired' = Acquired /\ Ready' = Ready
      /\ \A r \in Roles : Begun(r)' = Begun(r)
  BY <1>1, <1>3, ThreadFrame, RoleFacts
<1>5. \A w \in Threads : /\ Passed(w)' = Passed(w) /\ Released(w)' = Released(w)
                         /\ Done(w)' = Done(w) /\ Staged(w)' = Staged(w)
  <2>. TAKE w \in Threads
  <2>1. CASE w = Leader
    BY <1>1, <1>2, <1>3, <1>4, <2>1, RoleFacts DEF Passed, Released, Done, Staged
  <2>2. CASE w # Leader
    BY <1>3, <1>4, <2>2, RoleFacts DEF Passed, Released, Done, Staged
  <2>. QED
    BY <2>1, <2>2
<1>6. AccInv'
  BY <1>1, <1>4, <1>5, AccFrame
<1>7. WritebackInv'
  <2>1. \A w \in Threads : Done(w)' = Done(Leader)' /\ Staged(w)' = Staged(Leader)'
    BY <1>5, RoleFacts DEF WritebackInv
  <2>2. ASSUME NEW w \in Threads
        PROVE  /\ at'[w] \in {"next", "wait", "load", "release", "stage", "staged",
                              "store", "drain", "stored", "end"}
               /\ Begun(w)' = 0 => at'[w] \in {"next", "end"}
               /\ at'[w] \in {"store", "drain"} => w = Leader
               /\ at'[w] \in {"release", "stage"} =>
                    regs'[w] = Product(begun'["tma"][Begun(w)'])
               /\ at'[w] \in {"staged", "store", "drain", "stored"} =>
                    dsmem'[w] = Product(begun'["tma"][Begun(w)'])
    <3>1. Begun(w)' = Begun(w)
      BY <1>4, RoleFacts
    <3>2. CASE w = Leader
      BY <1>1, <1>2, <1>3, <3>1, <3>2 DEF WritebackInv
    <3>3. CASE w # Leader
      <4>1. at'[w] = at[w]
        BY <1>3, <3>3, RoleFacts
      <4>. QED
        BY <1>1, <3>1, <4>1 DEF WritebackInv
    <3>. QED
      BY <3>2, <3>3
  <2>3. store' # NoTile => at'[Leader] = "drain" /\ store' = tile'[Leader]
    BY <1>1, <1>2, <1>3
  <2>. QED
    BY <2>1, <2>2, <2>3 DEF WritebackInv
<1>8. StoredInv'
  BY <1>1, <1>4, RoleFacts DEF StoredInv, OutputCorrect
<1>9. ExitInv'
  BY <1>1, RoleFacts DEF ExitInv
<1>10. PipelineTypeOK'
  <2>1. store' \in WorkTiles \cup {NoTile}
    BY <1>1, RoleFacts DEF PipelineTypeOK
  <2>. QED
    BY <1>1, <1>2, <2>1 DEF PipelineTypeOK
<1>. QED
  BY <1>4, <1>6, <1>7, <1>8, <1>9, <1>10

\* The staging buffer holds the leader's tile, and nothing else, when the store
\* reads it.
LEMMA StoreLandsInv ==
  ASSUME PipeInv, SameTiles, StoreLands
  PROVE  PipeInv'
<1>. USE DEF PipeInv
<1>. DEFINE n == Begun(Leader)
<1>1. /\ store # NoTile /\ D' = [D EXCEPT ![store] = dsmem] /\ store' = NoTile
      /\ UNCHANGED <<tma2mma, mma2tma, mma2ld, ld2mma, ring, accPs, wbPs, loads, smem,
                     tensorQ, tmem, regs, dsmem, exited, tile, k, begun, at>>
  BY DEF StoreLands, bars, cursors, engines
<1>2. /\ RoleInv' /\ RingInv' /\ TensorCoreInv' /\ Acquired' = Acquired /\ Ready' = Ready
      /\ \A r \in Roles : Begun(r)' = Begun(r)
  BY <1>1, ThreadFrame
<1>3. \A w \in Threads : /\ Passed(w)' = Passed(w) /\ Released(w)' = Released(w)
                         /\ Done(w)' = Done(w) /\ Staged(w)' = Staged(w)
  BY <1>1, <1>2, RoleFacts DEF Passed, Released, Done, Staged
<1>4. AccInv'
  BY <1>1, <1>2, <1>3, AccFrame
<1>5. WritebackInv'
  BY <1>1, <1>2, <1>3, RoleFacts DEF WritebackInv
<1>6. /\ at[Leader] = "drain" /\ store = tile[Leader] /\ store \in WorkTiles
      /\ n \in 1 .. Begun("tma") /\ n \in Nat /\ n > 0
  <2>1. at[Leader] = "drain" /\ store = tile[Leader] /\ store \in WorkTiles
    BY <1>1 DEF WritebackInv, PipelineTypeOK
  <2>2. n \in 1 .. Begun("tma") /\ n \in Nat /\ Begun("tma") \in Nat
    BY <2>1, WritebackBehind, CountFacts, RoleFacts
  <2>. HIDE DEF n
  <2>. QED
    BY <2>1, <2>2
<1>7. store = begun[Leader][n] /\ store = begun["tma"][n]
  <2>1. store = begun[Leader][n]
    BY <1>6, RoleFacts DEF RoleInv
  <2>2. n =< Begun(Leader)
    BY <1>6
  <2>. QED
    BY <1>6, <2>1, <2>2 DEF SameTiles
<1>8. dsmem = [w \in Threads |-> Product(store)]
  <2>1. ASSUME NEW w \in Threads PROVE dsmem[w] = Product(store)
    <3>1. Done(w) = Done(Leader) /\ Staged(w) = Staged(Leader)
      BY DEF WritebackInv
    <3>2. Done(Leader) = n - 1 /\ Staged(Leader) = n
      BY <1>6 DEF Done, Staged
    <3>3. Begun(w) \in Nat
      BY CountFacts, RoleFacts
    <3>4. at[w] \in {"store", "drain", "stored"} /\ Done(w) = Begun(w) - 1
      <4>1. Done(w) \in Int /\ Staged(w) # Done(w)
        BY <1>6, <3>1, <3>2, <3>3 DEF Done
      <4>. QED
        BY <4>1 DEF Staged, Done
    <3>5. Begun(w) = n
      BY <1>6, <3>1, <3>2, <3>3, <3>4
    <3>. QED
      BY <1>7, <3>4, <3>5 DEF WritebackInv
  <2>2. dsmem \in [Threads -> Seq(Pairs)]
    BY DEF PipelineTypeOK
  <2>. QED
    BY <2>1, <2>2
<1>9. /\ D'[store] = [w \in Threads |-> Product(store)]
      /\ \A t \in WorkTiles \ {store} : D'[t] = D[t]
  BY <1>1, <1>6, <1>8 DEF PipelineTypeOK
<1>10. StoredInv'
  <2>1. OutputCorrect'
    BY <1>9 DEF StoredInv, OutputCorrect
  <2>2. ASSUME NEW t \in WorkTiles, D'[t] # NoRows
        PROVE  \E j \in 1 .. Begun(Leader)' : begun'[Leader][j] = t
    <3>1. Begun(Leader)' = n /\ begun' = begun
      BY <1>1, <1>2, RoleFacts
    <3>2. CASE t = store
      <4>1. n \in 1 .. n
        BY <1>6
      <4>. QED
        BY <1>7, <3>1, <3>2, <4>1
    <3>3. CASE t # store
      BY <1>9, <2>2, <3>1, <3>3 DEF StoredInv
    <3>. QED
      BY <3>2, <3>3
  <2>. QED
    BY <2>1, <2>2 DEF StoredInv
<1>11. ExitInv'
  BY <1>1 DEF ExitInv
<1>12. PipelineTypeOK'
  <2>1. dsmem \in [Threads -> Seq(Pairs)]
    BY DEF PipelineTypeOK
  <2>2. D' \in [WorkTiles -> {NoRows} \cup [Threads -> Seq(Pairs)]]
    BY <1>1, <2>1 DEF PipelineTypeOK
  <2>. QED
    BY <1>1, <2>2 DEF PipelineTypeOK
<1>. QED
  BY <1>2, <1>4, <1>5, <1>10, <1>11, <1>12

LEMMA CleanupInv ==
  ASSUME PipeInv, Cleanup
  PROVE  PipeInv'
<1>. USE DEF PipeInv
<1>1. /\ \A r \in Roles : at[r] = "end"
      /\ exited' = TRUE
      /\ UNCHANGED <<tma2mma, mma2tma, mma2ld, ld2mma, ring, accPs, wbPs, loads, smem,
                     tensorQ, tmem, regs, dsmem, store, D, tile, k, begun, at>>
  BY DEF Cleanup, bars, cursors, engines, output
<1>2. /\ RoleInv' /\ RingInv' /\ TensorCoreInv' /\ Acquired' = Acquired /\ Ready' = Ready
      /\ \A r \in Roles : Begun(r)' = Begun(r)
  BY <1>1, ThreadFrame
<1>3. \A w \in Threads : /\ Passed(w)' = Passed(w) /\ Released(w)' = Released(w)
                         /\ Done(w)' = Done(w) /\ Staged(w)' = Staged(w)
  BY <1>1, <1>2, RoleFacts DEF Passed, Released, Done, Staged
<1>4. AccInv'
  BY <1>1, <1>2, <1>3, AccFrame
<1>5. WritebackInv'
  BY <1>1, <1>2, <1>3, RoleFacts DEF WritebackInv
<1>6. StoredInv' /\ ExitInv'
  BY <1>1, <1>2, RoleFacts DEF StoredInv, OutputCorrect, ExitInv
<1>7. PipelineTypeOK'
  BY <1>1 DEF PipelineTypeOK
<1>. QED
  BY <1>2, <1>4, <1>5, <1>6, <1>7

------------------------------------------------------------------------------
(* The MMA lane                                                            *)

\* The steps of the lanes and the engines do not touch the writeback.
LEMMA LaneFrame ==
  ASSUME PipeInv, UNCHANGED <<tile, begun, regs, dsmem, store, D, exited>>,
         \A w \in Threads : at'[w] = at[w],
         at' = at \/ \E l \in Lanes : at[l] # "end"
  PROVE  /\ WritebackInv' /\ StoredInv' /\ ExitInv'
         /\ \A r \in Roles : Begun(r)' = Begun(r)
         /\ \A w \in Threads : Passed(w)' = Passed(w) /\ Released(w)' = Released(w)
<1>. USE DEF PipeInv
<1>1. \A r : Begun(r)' = Begun(r)
  BY DEF Begun
<1>2. \A w \in Threads : Passed(w)' = Passed(w) /\ Released(w)' = Released(w)
  BY <1>1 DEF Passed, Released
<1>3. WritebackInv'
  BY <1>1, WritebackFrame
<1>4. StoredInv'
  BY <1>1 DEF StoredInv, OutputCorrect
<1>5. ExitInv'
  BY RoleFacts DEF ExitInv
<1>. QED
  BY <1>1, <1>2, <1>3, <1>4, <1>5

\* When the lane gets the accumulator every thread has released the last one, and
\* the tensor core has nothing left to do.
LEMMA AcquireInv ==
  ASSUME PipeInv, AcquireAccumulator
  PROVE  PipeInv'
<1>. USE DEF PipeInv
<1>. DEFINE n == Begun("mma")
            N == Cardinality(Threads)
<1>1. /\ at["mma"] = "acquire" /\ at' = [at EXCEPT !["mma"] = "issue"]
      /\ ld2mma.phase # accPs.phase /\ accPs' = Advance(accPs, 1)
      /\ UNCHANGED <<tma2mma, mma2tma, mma2ld, ld2mma, ring, wbPs, loads, smem, tensorQ,
                     tmem, regs, dsmem, store, D, exited, tile, k, begun>>
  BY DEF AcquireAccumulator, Move, Passes, bars, engines, output
<1>2. at'["mma"] = "issue" /\ \A q \in Roles \ {"mma"} : at'[q] = at[q]
  BY <1>1, RoleFacts DEF PipelineTypeOK
<1>3. /\ WritebackInv' /\ StoredInv' /\ ExitInv'
      /\ \A r \in Roles : Begun(r)' = Begun(r)
      /\ \A w \in Threads : Passed(w)' = Passed(w) /\ Released(w)' = Released(w)
  BY <1>1, <1>2, LaneFrame, RoleFacts
<1>4. /\ n \in Nat /\ n > 0 /\ Acquired = n - 1 /\ Acquired \in Nat /\ n - 1 \in Nat
      /\ Committed /\ First \in Nat
      /\ (Acquired = 0 => Issued = 0 /\ First = 0 /\ Ops = 0)
      /\ (Acquired > 0 => Issued = First + KTiles /\ Ops = 2 * KTiles + 1)
      /\ Ready \in {Acquired - 1, Acquired}
      /\ (tensorQ = <<>> <=> Executed = Ops)
      /\ k["mma"] = 0
  <2>1. n \in Nat /\ n # 0 /\ k["mma"] = 0
    BY <1>1, CountFacts, RoleFacts DEF RoleInv
  <2>2. Acquired = n - 1 /\ Committed
    BY <1>1 DEF Acquired, Committed
  <2>3. /\ First \in Nat /\ (Acquired = 0 => Issued = 0 /\ First = 0 /\ Ops = 0)
        /\ (Committed /\ Acquired > 0 => Issued = First + KTiles /\ Ops = 2 * KTiles + 1)
        /\ Acquired \in Nat
    BY CountFacts
  <2>4. Ready \in {Acquired - 1, Acquired} /\ (tensorQ = <<>> <=> Executed = Ops)
    BY CoreFacts DEF TensorCoreInv
  <2>. QED
    BY <2>1, <2>2, <2>3, <2>4
<1>5. Holding = {} /\ \A w \in Threads : Released(w) = Acquired
  <2>1. Holding = {}
    <3>. DEFINE p == (Acquired + 1) % 2
    <3>1. accPs.phase = p
      BY DEF AccInv, AcquireCursor, ReleaseBar
    <3>2. Holding # {} => ld2mma.phase = p
      BY DEF AccInv, AcquireCursor, ReleaseBar
    <3>. QED
      BY <1>1, <3>1, <3>2
  <2>. QED
    BY <2>1 DEF Holding, AccInv
<1>6. Ready = Acquired /\ tensorQ = <<>> /\ Executed = Ops
  <2>1. Released(Leader) =< Passed(Leader) /\ Passed(Leader) =< Ready
    <3>1. Begun(Leader) \in Nat /\ Passed(Leader) =< Ready
      BY CountFacts, RoleFacts DEF AccInv
    <3>2. Passed(Leader) \in Int
      BY <3>1 DEF Passed
    <3>. QED
      BY <3>1, <3>2 DEF Released
  <2>2. Ready = Acquired
    <3>1. Passed(Leader) \in Int
      BY CountFacts, RoleFacts DEF Passed
    <3>. QED
      BY <1>4, <1>5, <2>1, <3>1, RoleFacts
  <2>. QED
    BY <1>4, <2>2 DEF Ready
<1>7. /\ Acquired' = n /\ ~Committed' /\ Ready' = Ready
      /\ Signalled' = Signalled /\ Launched' = Launched /\ Issued' = Issued
  BY <1>1, <1>2, <1>3, <1>4, <1>6, RoleFacts
     DEF Acquired, Committed, Ready, Signalled, Launched, Issued, Steps
<1>8. First' = Issued /\ Issued \in Nat
  <2>1. Issued = Base(n - 1) + 0
    BY <1>4 DEF Issued, Steps
  <2>2. First' = Base(n - 1)
    <3>1. n # 0
      BY <1>4
    <3>. QED
      BY <1>7, <3>1 DEF First
  <2>. QED
    BY <1>4, <2>1, <2>2, BaseFacts
<1>9. Executed' = 0 /\ Spent' = Issued /\ Multiplied' = 0
  <2>1. Ops' = 0
    BY <1>7, <1>8 DEF Ops
  <2>2. Executed' = 0
    <3>1. Len(tensorQ') = 0
      BY <1>1, <1>6
    <3>2. Executed' = Ops' - Len(tensorQ')
      BY DEF Executed
    <3>. QED
      BY <2>1, <3>1, <3>2
  <2>. QED
    BY <1>8, <2>2, RoleFacts DEF Spent, Multiplied
<1>10. Spent = Issued
  <2>1. CASE Acquired = 0
    BY <1>4, <1>6, <2>1 DEF Spent
  <2>2. CASE Acquired > 0
    <3>1. KTiles \in Nat /\ (2 * KTiles + 1) \div 2 = KTiles
      BY RoleFacts
    <3>. QED
      BY <1>4, <1>6, <2>2, <3>1 DEF Spent
  <2>. QED
    BY <1>4, <2>1, <2>2
<1>11. RoleInv'
  BY <1>1, <1>2, <1>3, <1>4, RoleFacts DEF RoleInv
<1>12. RingInv'
  BY <1>1, <1>7, <1>9, <1>10, RingFrame DEF TensorCoreInv, Source
<1>13. TensorCoreInv'
  BY <1>1, <1>6, <1>9 DEF TensorCoreInv, TensorInv, TmemInv
<1>14. AccInv'
  <2>. DEFINE p == Acquired % 2
  <2>1. /\ Acquired' = Acquired + 1 /\ (Acquired + 1) % 2 = 1 - p
        /\ ((Acquired + 1) + 1) % 2 = 1 - (1 - p) /\ p \in {0, 1}
    BY <1>4, <1>7, Flip
  <2>2. accPs = [stage |-> 0, phase |-> 1 - p]
        /\ ld2mma = [phase |-> p, pending |-> N, tx |-> 0]
    BY <1>5, <2>1 DEF AccInv, AcquireCursor, ReleaseBar
  <2>. HIDE DEF p
  <2>3. accPs' = [stage |-> 0, phase |-> (Acquired' + 1) % 2]
    BY <1>1, <2>1, <2>2 DEF Advance
  <2>4. Holding' = Threads /\ Holding' # {}
    <3>1. ASSUME NEW w \in Threads PROVE Released(w)' = Acquired' - 1
      <4>1. Released(w)' = Acquired /\ Acquired \in Nat
        BY <1>3, <1>4, <1>5
      <4>. QED
        BY <2>1, <4>1
    <3>. QED
      BY <3>1, RoleFacts DEF Holding
  <2>5. ld2mma' = IF Holding' = {}
          THEN [phase |-> Acquired' % 2, pending |-> N, tx |-> 0]
          ELSE [phase |-> (Acquired' + 1) % 2, pending |-> Cardinality(Holding'), tx |-> 0]
    BY <1>1, <2>1, <2>2, <2>4
  <2>6. \A w \in Threads : /\ wbPs'[w] = [stage |-> 0, phase |-> Passed(w)' % 2]
                           /\ Passed(w)' =< Ready'
                           /\ Released(w)' \in {Acquired' - 1, Acquired'}
    BY <1>1, <1>3, <1>4, <1>5, <1>7 DEF AccInv
  <2>7. mma2ld' = [phase |-> Ready' % 2, pending |-> 1, tx |-> 0]
    BY <1>1, <1>7 DEF AccInv
  <2>. QED
    BY <2>3, <2>5, <2>6, <2>7 DEF AccInv, AcquireCursor, ReleaseBar
<1>15. PipelineTypeOK'
  <2>1. accPs' \in CursorType(1)
    <3>1. accPs \in CursorType(1)
      BY DEF PipelineTypeOK
    <3>. QED
      BY <1>1, <3>1 DEF Advance, CursorType
  <2>. QED
    BY <1>1, <2>1 DEF PipelineTypeOK
<1>. QED
  BY <1>3, <1>11, <1>12, <1>13, <1>14, <1>15

\* What a passed operands-ready wait tells: the lane's next step is announced, and
\* both its slices have landed.
LEMMA OperandsReady ==
  ASSUME PipeInv, Passes(tma2mma[ring["mma"].stage], ring["mma"].phase)
  PROVE  Issued < Signalled /\ InFlight(StageOf(Issued)) = 0
<1>. USE DEF PipeInv
<1>1. ring["mma"] = [stage |-> StageOf(Issued), phase |-> ParityOf(Issued)]
  BY DEF RingInv, WindowInv
<1>2. Issued \in Nat /\ Issued \in Issued .. Issued + PipeDepth - 1
      /\ Launched \in {Signalled, Signalled + 1} /\ Signalled \in Nat
  BY CountFacts, RoleFacts
<1>3. tma2mma[StageOf(Issued)] = FullAt(Issued)
  BY <1>2 DEF RingInv, FullInv
<1>4. FullAt(Issued).phase # ParityOf(Issued)
  BY <1>1, <1>3 DEF Passes
<1>5. InFlight(StageOf(Issued)) \in Nat
  BY DEF InFlight, Flies
<1>. QED
  BY <1>2, <1>4, <1>5 DEF FullAt

\* The stages of steps issued and not given back see no loads.
LEMMA StageUndisturbed ==
  ASSUME PipeInv, NEW i \in Spent .. Issued - 1, NEW f \in loads
  PROVE  f.stage # StageOf(i)
<1>. USE DEF PipeInv
<1>1. PICK j \in Issued .. Launched - 1 : f.stage = StageOf(j)
  BY DEF RingInv, LoadInv
<1>2. /\ Spent \in Nat /\ Issued \in Nat /\ Launched \in Nat
      /\ Launched =< Spent + PipeDepth /\ PipeDepth \in Nat
  BY CountFacts, CoreFacts, RoleFacts DEF TensorCoreInv, RingInv, WindowInv
<1>3. i \in Nat /\ j \in Nat /\ i # j /\ i < j + PipeDepth /\ j < i + PipeDepth
  BY <1>2
<1>. QED
  BY <1>1, <1>3, StagesApart

LEMMA IssueInv ==
  ASSUME PipeInv, IssueMma
  PROVE  PipeInv'
<1>. USE DEF PipeInv
<1>. DEFINE n == Begun("mma")
            s == StageOf(Issued)
            c == k["mma"]
            L == Len(tensorQ)
            mma == [op |-> "mma", stage |-> s, accum |-> c # 0]
            rel == [op |-> "release", stage |-> s]
<1>1. ring["mma"] = [stage |-> s, phase |-> ParityOf(Issued)]
  BY DEF RingInv, WindowInv
<1>2. /\ at["mma"] = "issue"
      /\ at' = [at EXCEPT !["mma"] = IF c + 1 < KTiles THEN "issue" ELSE "commit"]
      /\ tensorQ' = tensorQ \o <<mma, rel>>
      /\ ring' = [ring EXCEPT !["mma"] = Advance(ring["mma"], PipeDepth)]
      /\ k' = [k EXCEPT !["mma"] = c + 1]
      /\ UNCHANGED <<tma2mma, mma2tma, mma2ld, ld2mma, accPs, wbPs, loads, smem,
                     tmem, regs, dsmem, store, D, exited, tile, begun>>
  BY <1>1 DEF IssueMma, Move, Passes, bars, output
<1>3. Issued < Signalled /\ InFlight(s) = 0
  BY OperandsReady DEF IssueMma
<1>4. /\ at'["mma"] \in {"issue", "commit"} /\ (c + 1 < KTiles <=> at'["mma"] = "issue")
      /\ \A q \in Roles \ {"mma"} : at'[q] = at[q]
      /\ k'["mma"] = c + 1 /\ k'["tma"] = k["tma"]
      /\ ring'["tma"] = ring["tma"] /\ ring'["mma"] = Advance(ring["mma"], PipeDepth)
  BY <1>2, RoleFacts DEF PipelineTypeOK
<1>5. /\ WritebackInv' /\ StoredInv' /\ ExitInv'
      /\ \A r \in Roles : Begun(r)' = Begun(r)
      /\ \A w \in Threads : Passed(w)' = Passed(w) /\ Released(w)' = Released(w)
  BY <1>2, <1>4, LaneFrame, RoleFacts
<1>6. /\ n \in Nat /\ n > 0 /\ c \in Nat /\ c < KTiles /\ KTiles \in Nat
      /\ Acquired = n /\ Acquired \in Nat /\ ~Committed
      /\ First \in Nat /\ First = Base(n - 1) /\ Issued = First + c /\ Ops = 2 * c
      /\ Issued \in Nat /\ Signalled \in Nat /\ Launched \in Nat
  <2>1. n \in Nat /\ ~Committed /\ Acquired = n
    BY <1>2, CountFacts, RoleFacts DEF Committed, Acquired
  <2>2. /\ Acquired > 0 /\ Issued = First + c /\ Ops = 2 * c /\ First \in Nat
        /\ Issued \in Nat /\ Signalled \in Nat /\ Launched \in Nat
        /\ First = Base(Acquired - 1)
    BY <2>1, CountFacts
  <2>3. c \in 0 .. KTiles /\ c < KTiles /\ KTiles \in Nat
    BY <1>2, RoleFacts DEF RoleInv, PipelineTypeOK
  <2>. QED
    BY <2>1, <2>2, <2>3
<1>7. /\ L \in Nat /\ Executed \in Nat /\ Executed = Ops - L /\ Spent \in Nat
      /\ Spent =< Issued
  BY CoreFacts DEF TensorCoreInv
<1>. HIDE DEF n, c, L
<1>8. /\ Signalled' = Signalled /\ Launched' = Launched /\ Acquired' = Acquired
      /\ ~Committed' /\ Ready' = Ready
  <2>1. Signalled' = Signalled /\ Launched' = Launched
    BY <1>4, <1>5, RoleFacts DEF Signalled, Steps, Launched
  <2>2. Acquired' = Acquired /\ ~Committed'
    BY <1>2, <1>4, <1>5, RoleFacts DEF Acquired, Committed
  <2>3. Ready' = Ready
    BY <1>6, <2>2 DEF Ready
  <2>. QED
    BY <2>1, <2>2, <2>3
<1>9. First' = First /\ Issued' = Issued + 1
  <2>1. First' = First
    BY <1>8 DEF First
  <2>2. Issued' = Base(n - 1) + (c + 1)
    <3>1. Begun("mma")' = n /\ n # 0
      BY <1>5, <1>6, RoleFacts DEF n
    <3>. QED
      BY <1>4, <3>1 DEF Issued, Steps
  <2>. QED
    BY <1>6, <2>1, <2>2
<1>10. /\ tensorQ' \in Seq(TensorOps) /\ Len(tensorQ') = L + 2
       /\ tensorQ'[L + 1] = mma /\ tensorQ'[L + 2] = rel
       /\ \A j \in 1 .. L : tensorQ'[j] = tensorQ[j]
  <2>1. mma \in TensorOps /\ rel \in TensorOps
    BY <1>6, RingTypes DEF TensorOps
  <2>. HIDE DEF mma, rel
  <2>2. tensorQ \in Seq(TensorOps) /\ L = Len(tensorQ)
    BY DEF PipelineTypeOK, L
  <2>3. <<mma, rel>> \in Seq(TensorOps) /\ Len(<<mma, rel>>) = 2
    BY <2>1
  <2>. QED
    BY <1>2, <1>7, <2>2, <2>3
<1>. HIDE DEF mma, rel, s
<1>11. Executed' = Executed /\ Spent' = Spent /\ Multiplied' = Multiplied
  <2>1. Ops' = Ops + 2
    BY <1>6, <1>8, <1>9 DEF Ops
  <2>2. Executed' = Executed
    <3>1. Ops \in Int /\ L \in Nat /\ Executed = Ops - L /\ Len(tensorQ') = L + 2
      BY <1>6, <1>7, <1>10
    <3>2. Executed' = Ops' - Len(tensorQ')
      BY DEF Executed
    <3>. QED
      BY <2>1, <3>1, <3>2
  <2>. QED
    BY <1>9, <2>2 DEF Spent, Multiplied
<1>12. RoleInv'
  <2>1. \A l \in Lanes : /\ Begun(l)' = Begun(l)
                         /\ l # "mma" => at'[l] = at[l] /\ k'[l] = k[l]
    BY <1>4, <1>5, RoleFacts
  <2>2. \A r \in Roles : Begun(r)' > 0 => tile'[r] = begun'[r][Begun(r)']
    BY <1>2, <1>5 DEF RoleInv
  <2>3. ASSUME NEW l \in Lanes
        PROVE  /\ Begun(l)' = 0 => at'[l] \in {"next", "end"} /\ k'[l] = 0
               /\ at'[l] \in {"fill", "expect", "issue"} => k'[l] < KTiles
               /\ at'[l] \in {"next", "commit", "end"} /\ Begun(l)' > 0 =>
                    k'[l] = KTiles
    <3>1. CASE l = "mma"
      BY <1>4, <1>6, <2>1, <3>1 DEF n
    <3>2. CASE l # "mma"
      BY <2>1, <3>2 DEF RoleInv
    <3>. QED
      BY <3>1, <3>2
  <2>4. at'["tma"] \in {"next", "fill", "expect", "end"}
    BY <1>4, RoleFacts DEF RoleInv
  <2>. QED
    BY <1>4, <2>2, <2>3, <2>4 DEF RoleInv
<1>13. WindowInv'
  <2>1. ring'["mma"] = [stage |-> StageOf(Issued + 1), phase |-> ParityOf(Issued + 1)]
    BY <1>1, <1>4, <1>6, NextStep DEF s
  <2>2. /\ Spent =< Issued /\ Launched =< Spent + PipeDepth
        /\ ring["tma"] = [stage |-> StageOf(Signalled), phase |-> 1 - ParityOf(Signalled)]
    BY DEF RingInv, WindowInv
  <2>. QED
    BY <1>3, <1>4, <1>6, <1>7, <1>8, <1>9, <1>11, <2>1, <2>2 DEF WindowInv
<1>14. FullInv'
  <2>1. \A i : FullAt(i)' = FullAt(i)
    BY <1>2, <1>8 DEF FullAt, InFlight, Flies
  <2>2. ASSUME NEW i \in Issued + 1 .. Issued + 1 + PipeDepth - 1
        PROVE  tma2mma[StageOf(i)] = FullAt(i)
    <3>1. PipeDepth \in Nat /\ PipeDepth > 0 /\ Launched =< Issued + PipeDepth
      BY <1>6, <1>7, RoleFacts DEF RingInv, WindowInv
    <3>2. CASE i # Issued + PipeDepth
      <4>1. i \in Issued .. Issued + PipeDepth - 1
        BY <1>6, <3>1, <3>2
      <4>. QED
        BY <4>1 DEF RingInv, FullInv
    <3>3. CASE i = Issued + PipeDepth
      <4>1. StageOf(i) = s /\ ParityOf(i) = 1 - ParityOf(Issued)
        BY <1>6, <3>3, NextTurn DEF s
      <4>2. tma2mma[s] = FullAt(Issued)
        <5>1. Issued \in Issued .. Issued + PipeDepth - 1
          BY <1>6, <3>1
        <5>. QED
          BY <5>1 DEF RingInv, FullInv, s
      <4>3. FullAt(Issued) = [phase |-> 1 - ParityOf(Issued), pending |-> 1, tx |-> 0]
        <5>1. Issued < Launched
          BY <1>3, <1>6, CountFacts
        <5>. QED
          BY <1>3, <1>6, <5>1 DEF FullAt, s
      <4>4. FullAt(i) = [phase |-> ParityOf(i), pending |-> 1, tx |-> 0]
        BY <1>6, <3>1, <3>3 DEF FullAt
      <4>. QED
        BY <4>1, <4>2, <4>3, <4>4
    <3>. QED
      BY <3>2, <3>3
  <2>. QED
    BY <1>2, <1>9, <2>1, <2>2 DEF FullInv
<1>15. EmptyInv'
  BY <1>2, <1>11 DEF RingInv, EmptyInv
<1>16. LoadInv'
  <2>1. ASSUME NEW f \in loads
        PROVE  \E i \in Issued + 1 .. Launched - 1 :
                 f.stage = StageOf(i) /\ f.src = Source(i)
    <3>1. PICK i \in Issued .. Launched - 1 : f.stage = StageOf(i) /\ f.src = Source(i)
      BY DEF RingInv, LoadInv
    <3>2. f.stage # s
      <4>1. f.op \in {"A", "B"}
        BY DEF PipelineTypeOK, Operands
      <4>. QED
        BY <1>3, <4>1 DEF InFlight, Flies
    <3>3. i \in Issued + 1 .. Launched - 1
      BY <1>6, <3>1, <3>2 DEF s
    <3>. QED
      BY <3>1, <3>3
  <2>. QED
    BY <1>2, <1>8, <1>9, <2>1 DEF LoadInv, Source
<1>17. SmemInv'
  BY <1>2, <1>8, <1>11 DEF RingInv, SmemInv, Flies, Source
<1>18. TensorInv'
  <2>1. ASSUME NEW j \in 1 .. L + 2, NEW i \in 0 .. KTiles - 1
        PROVE  /\ Executed + j = 2 * i + 1 => tensorQ'[j]
                    = [op |-> "mma", stage |-> StageOf(First + i), accum |-> i # 0]
               /\ Executed + j = 2 * i + 2 =>
                    tensorQ'[j] = [op |-> "release", stage |-> StageOf(First + i)]
    <3>1. CASE j \in 1 .. L
      BY <1>10, <3>1 DEF TensorCoreInv, TensorInv, L
    <3>2. CASE j = L + 1
      <4>1. Executed + j = 2 * c + 1
        BY <1>6, <1>7, <3>2
      <4>2. Executed + j = 2 * i + 1 => i = c
        BY <1>6, <4>1
      <4>3. Executed + j # 2 * i + 2
        BY <1>6, <4>1
      <4>. QED
        BY <1>6, <1>10, <3>2, <4>2, <4>3 DEF mma, s
    <3>3. CASE j = L + 2
      <4>1. Executed + j = 2 * c + 2
        BY <1>6, <1>7, <3>3
      <4>2. Executed + j = 2 * i + 2 => i = c
        BY <1>6, <4>1
      <4>3. Executed + j # 2 * i + 1
        BY <1>6, <4>1
      <4>. QED
        BY <1>6, <1>10, <3>3, <4>2, <4>3 DEF rel, s
    <3>. QED
      BY <1>7, <3>1, <3>2, <3>3
  <2>2. ASSUME NEW j \in 1 .. L + 2
        PROVE  Executed + j = 2 * KTiles + 1 => tensorQ'[j] = [op |-> "ready"]
    <3>1. Executed + j =< 2 * c + 2
      BY <1>6, <1>7
    <3>2. 2 * c + 2 < 2 * KTiles + 1
      BY <1>6
    <3>. QED
      BY <1>6, <1>7, <3>1, <3>2
  <2>. QED
    BY <1>7, <1>9, <1>10, <1>11, <2>1, <2>2 DEF TensorInv
<1>19. TmemInv'
  BY <1>2, <1>8, <1>11 DEF TensorCoreInv, TmemInv
<1>20. AccInv'
  BY <1>2, <1>5, <1>8, AccFrame
<1>21. PipelineTypeOK'
  <2>1. ring' \in [Lanes -> CursorType(PipeDepth)]
    <3>1. ring'["mma"] \in CursorType(PipeDepth)
      BY <1>6, <1>9, <1>13, RingTypes DEF WindowInv, CursorType, Stages
    <3>. QED
      BY <1>2, <1>4, <3>1 DEF PipelineTypeOK
  <2>2. k' \in [Lanes -> 0 .. KTiles]
    <3>1. c + 1 \in 0 .. KTiles
      BY <1>6
    <3>. QED
      BY <1>2, <3>1 DEF PipelineTypeOK
  <2>3. at' \in [Roles -> {"next", "fill", "expect", "acquire", "issue", "commit",
                           "wait", "load", "release", "stage", "staged", "store",
                           "drain", "stored", "end"}]
    BY <1>2 DEF PipelineTypeOK
  <2>. QED
    BY <1>2, <1>10, <2>1, <2>2, <2>3 DEF PipelineTypeOK
<1>. QED
  BY <1>5, <1>12, <1>13, <1>14, <1>15, <1>16, <1>17, <1>18, <1>19, <1>20, <1>21
     DEF RingInv, TensorCoreInv

LEMMA CommitInv ==
  ASSUME PipeInv, CommitTile
  PROVE  PipeInv'
<1>. USE DEF PipeInv
<1>. DEFINE n == Begun("mma")
            L == Len(tensorQ)
            rdy == [op |-> "ready"]
<1>1. /\ at["mma"] = "commit" /\ at' = [at EXCEPT !["mma"] = "next"]
      /\ tensorQ' = Append(tensorQ, rdy)
      /\ UNCHANGED <<tma2mma, mma2tma, mma2ld, ld2mma, ring, accPs, wbPs, loads, smem,
                     tmem, regs, dsmem, store, D, exited, tile, k, begun>>
  BY DEF CommitTile, Move, bars, cursors, output
<1>2. /\ at'["mma"] = "next" /\ \A q \in Roles \ {"mma"} : at'[q] = at[q]
  BY <1>1, RoleFacts DEF PipelineTypeOK
<1>3. /\ WritebackInv' /\ StoredInv' /\ ExitInv'
      /\ \A r \in Roles : Begun(r)' = Begun(r)
      /\ \A w \in Threads : Passed(w)' = Passed(w) /\ Released(w)' = Released(w)
  BY <1>1, <1>2, LaneFrame, RoleFacts
<1>4. /\ n \in Nat /\ n > 0 /\ KTiles \in Nat
      /\ Acquired = n /\ Acquired \in Nat /\ ~Committed
      /\ First \in Nat /\ Issued = First + KTiles /\ Ops = 2 * KTiles
      /\ Issued \in Nat
  <2>1. n \in Nat /\ ~Committed /\ Acquired = n /\ n # 0
    BY <1>1, CountFacts, RoleFacts DEF Committed, Acquired, RoleInv
  <2>2. /\ Acquired > 0 /\ Issued = First + k["mma"] /\ Ops = 2 * k["mma"]
        /\ First \in Nat /\ Issued \in Nat
    BY <2>1, CountFacts
  <2>3. k["mma"] = KTiles /\ KTiles \in Nat
    BY <1>1, <2>1, <2>2, RoleFacts DEF RoleInv
  <2>. QED
    BY <2>1, <2>2, <2>3
<1>5. L \in Nat /\ Executed \in Nat /\ Executed = Ops - L
  BY CoreFacts DEF TensorCoreInv
<1>. HIDE DEF n, L
<1>6. /\ Signalled' = Signalled /\ Launched' = Launched /\ Acquired' = Acquired
      /\ Committed' /\ Issued' = Issued
  BY <1>1, <1>2, <1>3, RoleFacts
     DEF Signalled, Issued, Steps, Launched, Acquired, Committed
<1>7. First' = First
  BY <1>6 DEF First
<1>8. /\ tensorQ' \in Seq(TensorOps) /\ Len(tensorQ') = L + 1 /\ tensorQ' # <<>>
      /\ tensorQ'[L + 1] = rdy /\ \A j \in 1 .. L : tensorQ'[j] = tensorQ[j]
  <2>1. rdy \in TensorOps
    BY DEF TensorOps
  <2>. HIDE DEF rdy
  <2>2. tensorQ \in Seq(TensorOps) /\ L = Len(tensorQ)
    BY DEF PipelineTypeOK, L
  <2>. QED
    BY <1>1, <1>5, <2>1, <2>2
<1>. HIDE DEF rdy
<1>9. Ready' = Ready
  BY <1>4, <1>6, <1>8 DEF Ready
<1>10. Executed' = Executed /\ Spent' = Spent /\ Multiplied' = Multiplied
  <2>1. Ops' = Ops + 1
    BY <1>4, <1>6, <1>7 DEF Ops
  <2>2. Executed' = Executed
    BY <1>4, <1>5, <1>8, <2>1 DEF Executed
  <2>. QED
    BY <1>7, <2>2 DEF Spent, Multiplied
<1>11. RoleInv'
  <2>1. \A l \in Lanes : Begun(l)' = Begun(l) /\ (l # "mma" => at'[l] = at[l])
    BY <1>2, <1>3, RoleFacts
  <2>2. \A r \in Roles : Begun(r)' > 0 => tile'[r] = begun'[r][Begun(r)']
    BY <1>1, <1>3 DEF RoleInv
  <2>3. ASSUME NEW l \in Lanes
        PROVE  /\ Begun(l)' = 0 => at'[l] \in {"next", "end"} /\ k'[l] = 0
               /\ at'[l] \in {"fill", "expect", "issue"} => k'[l] < KTiles
               /\ at'[l] \in {"next", "commit", "end"} /\ Begun(l)' > 0 =>
                    k'[l] = KTiles
    <3>1. CASE l = "mma"
      BY <1>1, <1>2, <1>4, <2>1, <3>1 DEF n, RoleInv
    <3>2. CASE l # "mma"
      BY <1>1, <2>1, <3>2 DEF RoleInv
    <3>. QED
      BY <3>1, <3>2
  <2>4. at'["tma"] \in {"next", "fill", "expect", "end"}
    BY <1>2, RoleFacts DEF RoleInv
  <2>. QED
    BY <1>2, <2>2, <2>3, <2>4 DEF RoleInv
<1>12. RingInv'
  BY <1>1, <1>6, <1>10, RingFrame DEF TensorCoreInv, Source
<1>13. TensorInv'
  <2>1. ASSUME NEW j \in 1 .. L + 1, NEW i \in 0 .. KTiles - 1
        PROVE  /\ Executed + j = 2 * i + 1 => tensorQ'[j]
                    = [op |-> "mma", stage |-> StageOf(First + i), accum |-> i # 0]
               /\ Executed + j = 2 * i + 2 =>
                    tensorQ'[j] = [op |-> "release", stage |-> StageOf(First + i)]
    <3>1. CASE j \in 1 .. L
      BY <1>8, <3>1 DEF TensorCoreInv, TensorInv, L
    <3>2. CASE j = L + 1
      BY <1>4, <1>5, <3>2
    <3>. QED
      BY <1>5, <3>1, <3>2
  <2>2. ASSUME NEW j \in 1 .. L + 1
        PROVE  Executed + j = 2 * KTiles + 1 => tensorQ'[j] = [op |-> "ready"]
    BY <1>4, <1>5, <1>8 DEF rdy
  <2>. QED
    BY <1>5, <1>7, <1>8, <1>10, <2>1, <2>2 DEF TensorInv
<1>14. TmemInv'
  BY <1>1, <1>6, <1>10 DEF TensorCoreInv, TmemInv
<1>15. AccInv'
  BY <1>1, <1>3, <1>6, <1>9, AccFrame
<1>16. PipelineTypeOK'
  BY <1>1, <1>8 DEF PipelineTypeOK
<1>. QED
  BY <1>3, <1>11, <1>12, <1>13, <1>14, <1>15, <1>16 DEF TensorCoreInv

------------------------------------------------------------------------------
(* The tensor core                                                         *)

\* What is at the head of the queue, and how much is behind it.
LEMMA HeadOp ==
  ASSUME PipeInv, tensorQ # <<>>
  PROVE  \/ \E i \in 0 .. KTiles - 1 :
              /\ Executed = 2 * i /\ First + i < Issued
              /\ Head(tensorQ)
                   = [op |-> "mma", stage |-> StageOf(First + i), accum |-> i # 0]
         \/ \E i \in 0 .. KTiles - 1 :
              /\ Executed = 2 * i + 1 /\ First + i < Issued
              /\ Head(tensorQ) = [op |-> "release", stage |-> StageOf(First + i)]
         \/ /\ Executed = 2 * KTiles /\ Head(tensorQ) = [op |-> "ready"]
            /\ Ops = 2 * KTiles + 1
<1>. USE DEF PipeInv
<1>. DEFINE n == Issued - First
            h == Executed \div 2
<1>1. /\ Len(tensorQ) \in Nat /\ Ops \in Nat /\ Executed \in 0 .. Ops
      /\ (tensorQ = <<>> <=> Executed = Ops)
  BY CoreFacts DEF TensorCoreInv
<1>2. /\ n \in 0 .. KTiles /\ KTiles \in Nat /\ First \in Nat /\ Issued = First + n
      /\ Ops \in {2 * n, 2 * n + 1} /\ (Ops = 2 * n + 1 => n = KTiles)
  <2>1. /\ n \in 0 .. KTiles /\ KTiles \in Nat /\ First \in Nat /\ Issued \in Nat
        /\ (Committed /\ Acquired > 0 => n = KTiles)
    BY CountFacts, RoleFacts
  <2>2. Issued = First + n
    BY <2>1
  <2>. QED
    BY <2>1, <2>2 DEF Ops
<1>3. Head(tensorQ) = tensorQ[1] /\ 1 \in 1 .. Len(tensorQ)
  <2>1. tensorQ \in Seq(TensorOps)
    BY DEF PipelineTypeOK
  <2>. QED
    BY <2>1
<1>4. h \in Nat /\ Executed \in {2 * h, 2 * h + 1}
  BY <1>1, Half
<1>. HIDE DEF n, h
<1>5. /\ \A i \in 0 .. KTiles - 1 :
           /\ Executed + 1 = 2 * i + 1 => tensorQ[1]
                = [op |-> "mma", stage |-> StageOf(First + i), accum |-> i # 0]
           /\ Executed + 1 = 2 * i + 2 =>
                tensorQ[1] = [op |-> "release", stage |-> StageOf(First + i)]
      /\ Executed + 1 = 2 * KTiles + 1 => tensorQ[1] = [op |-> "ready"]
  BY <1>3 DEF TensorCoreInv, TensorInv
<1>6. Executed < Ops
  BY <1>1
<1>7. CASE h < n
  <2>1. h \in 0 .. KTiles - 1 /\ First + h < Issued
    BY <1>2, <1>4, <1>7
  <2>2. CASE Executed = 2 * h
    BY <1>3, <1>4, <1>5, <2>1, <2>2
  <2>3. CASE Executed = 2 * h + 1
    <3>1. Executed + 1 = 2 * h + 2
      BY <1>4, <2>3
    <3>. QED
      BY <1>3, <1>5, <2>1, <2>3, <3>1
  <2>. QED
    BY <1>4, <2>2, <2>3
<1>8. CASE h >= n
  <2>1. Executed = 2 * KTiles /\ Ops = 2 * KTiles + 1
    BY <1>2, <1>4, <1>6, <1>8
  <2>2. Executed + 1 = 2 * KTiles + 1
    BY <1>2, <2>1
  <2>. QED
    BY <1>3, <1>5, <2>1, <2>2
<1>9. h < n \/ h >= n
  BY <1>2, <1>4
<1>. QED
  BY <1>7, <1>8, <1>9

\* The queue moves up by one.
LEMMA QueueMoves ==
  ASSUME PipeInv, tensorQ # <<>>, tensorQ' = Tail(tensorQ),
         UNCHANGED <<at, k, begun>>
  PROVE  /\ Executed' = Executed + 1 /\ TensorInv' /\ tensorQ' \in Seq(TensorOps)
         /\ Signalled' = Signalled /\ Launched' = Launched /\ Acquired' = Acquired
         /\ Issued' = Issued /\ First' = First /\ Ops' = Ops /\ Committed' = Committed
         /\ tensorQ' = <<>> <=> Executed + 1 = Ops
         /\ Executed + 1 # Ops => Ready' = Ready
         /\ \A r : Begun(r)' = Begun(r)
         /\ RoleInv' \/ tile' # tile
<1>. USE DEF PipeInv
<1>. DEFINE L == Len(tensorQ)
<1>1. \A r : Begun(r)' = Begun(r)
  BY DEF Begun
<1>2. /\ Signalled' = Signalled /\ Launched' = Launched /\ Acquired' = Acquired
      /\ Issued' = Issued /\ Committed' = Committed
  BY <1>1 DEF Signalled, Issued, Steps, Launched, Acquired, Committed
<1>3. First' = First
  BY <1>2 DEF First
<1>4. Ops' = Ops
  BY <1>2, <1>3 DEF Ops
<1>5. /\ tensorQ' \in Seq(TensorOps) /\ Len(tensorQ') = L - 1 /\ L \in Nat /\ L > 0
      /\ \A j \in 1 .. L - 1 : tensorQ'[j] = tensorQ[j + 1]
  <2>1. tensorQ \in Seq(TensorOps)
    BY DEF PipelineTypeOK
  <2>. QED
    BY <2>1
<1>6. Executed \in Nat /\ Ops \in Nat /\ Executed = Ops - L
  BY CoreFacts DEF TensorCoreInv
<1>. HIDE DEF L
<1>7. Executed' = Executed + 1
  BY <1>4, <1>5, <1>6 DEF Executed
<1>8. tensorQ' = <<>> <=> Executed + 1 = Ops
  <2>1. tensorQ' = <<>> <=> Len(tensorQ') = 0
    BY <1>5
  <2>. QED
    BY <1>5, <1>6, <2>1
<1>9. TensorInv'
  <2>1. ASSUME NEW j \in 1 .. L - 1
        PROVE  /\ \A i \in 0 .. KTiles - 1 :
                    /\ Executed + 1 + j = 2 * i + 1 => tensorQ'[j]
                         = [op |-> "mma", stage |-> StageOf(First + i), accum |-> i # 0]
                    /\ Executed + 1 + j = 2 * i + 2 =>
                         tensorQ'[j] = [op |-> "release", stage |-> StageOf(First + i)]
               /\ Executed + 1 + j = 2 * KTiles + 1 => tensorQ'[j] = [op |-> "ready"]
    <3>1. j + 1 \in 1 .. Len(tensorQ) /\ Executed + (j + 1) = Executed + 1 + j
      BY <1>5, <1>6 DEF L
    <3>2. tensorQ'[j] = tensorQ[j + 1]
      BY <1>5
    <3>. QED
      BY <3>1, <3>2 DEF TensorCoreInv, TensorInv
  <2>. QED
    BY <1>3, <1>5, <1>6, <1>7, <2>1 DEF TensorInv
<1>10. Executed + 1 # Ops => Ready' = Ready
  BY <1>2, <1>8 DEF Ready
<1>11. RoleInv' \/ tile' # tile
  BY <1>1 DEF RoleInv
<1>. QED
  BY <1>1, <1>2, <1>3, <1>4, <1>5, <1>7, <1>8, <1>9, <1>10, <1>11

\* An MMA reads the slices of its own step, and nothing else.
LEMMA TensorMmaInv ==
  ASSUME PipeInv, TensorMma
  PROVE  PipeInv'
<1>. USE DEF PipeInv
<1>. DEFINE S == Head(tensorQ).stage
            pair == [op \in Operands |-> smem[op][S]]
            b == begun["tma"][Acquired]
<1>1. /\ tensorQ # <<>> /\ Head(tensorQ).op = "mma" /\ tensorQ' = Tail(tensorQ)
      /\ tmem' = IF Head(tensorQ).accum THEN Append(tmem, pair) ELSE <<pair>>
      /\ UNCHANGED <<tma2mma, mma2tma, mma2ld, ld2mma, ring, accPs, wbPs, loads, smem,
                     regs, dsmem, store, D, exited, tile, k, begun, at>>
  BY DEF TensorMma, bars, cursors, output
<1>2. PICK i \in 0 .. KTiles - 1 :
        /\ Executed = 2 * i /\ First + i < Issued
        /\ Head(tensorQ) = [op |-> "mma", stage |-> StageOf(First + i), accum |-> i # 0]
  BY <1>1, HeadOp
<1>3. /\ WritebackInv' /\ StoredInv' /\ ExitInv'
      /\ \A r \in Roles : Begun(r)' = Begun(r)
      /\ \A w \in Threads : Passed(w)' = Passed(w) /\ Released(w)' = Released(w)
  BY <1>1, LaneFrame
<1>4. /\ Executed' = Executed + 1 /\ TensorInv' /\ tensorQ' \in Seq(TensorOps)
      /\ Signalled' = Signalled /\ Launched' = Launched /\ Acquired' = Acquired
      /\ Issued' = Issued /\ First' = First /\ Ops' = Ops /\ Committed' = Committed
      /\ RoleInv' /\ (Executed + 1 # Ops => Ready' = Ready)
  BY <1>1, QueueMoves
<1>5. /\ First \in Nat /\ Issued \in Nat /\ Launched \in Nat /\ Signalled \in Nat
      /\ KTiles \in Nat /\ Acquired \in Nat /\ Issued =< Signalled
      /\ Launched \in {Signalled, Signalled + 1} /\ i \in Nat /\ i < KTiles
      /\ Acquired > 0 /\ First = Base(Acquired - 1)
  <2>1. /\ First \in Nat /\ Issued \in Nat /\ Launched \in Nat /\ Signalled \in Nat
        /\ KTiles \in Nat /\ Acquired \in Nat
        /\ Launched \in {Signalled, Signalled + 1}
        /\ (Acquired = 0 => Issued = 0 /\ First = 0)
        /\ (Acquired > 0 => First = Base(Acquired - 1))
    BY CountFacts, RoleFacts
  <2>2. Issued =< Signalled
    BY DEF RingInv, WindowInv
  <2>. QED
    BY <1>2, <2>1, <2>2
<1>6. Spent = First + i /\ Spent' = Spent /\ Multiplied = i /\ Multiplied' = i + 1
  <2>1. /\ (2 * i) \div 2 = i /\ (2 * i + 1) \div 2 = i /\ (2 * i + 1 + 1) \div 2 = i + 1
        /\ ~(2 * i > 2 * KTiles) /\ ~(2 * i + 1 > 2 * KTiles)
    BY <1>5
  <2>2. Spent = First + i /\ Multiplied = i
    BY <1>2, <2>1 DEF Spent, Multiplied
  <2>3. Spent' = First + i
    BY <1>2, <1>4, <2>1 DEF Spent
  <2>4. Multiplied' = i + 1
    BY <1>2, <1>4, <2>1 DEF Multiplied
  <2>. QED
    BY <2>2, <2>3, <2>4
<1>7. Ready' = Ready
  <2>1. Ops = 2 * (Issued - First) \/ Ops = 2 * (Issued - First) + 1
    BY <1>5 DEF Ops
  <2>2. CASE Committed
    <3>1. Ops = 2 * KTiles + 1
      BY <1>5, <2>2, CountFacts
    <3>. QED
      BY <1>2, <1>4, <1>5, <3>1
  <2>3. CASE ~Committed
    BY <1>4, <2>3 DEF Ready
  <2>. QED
    BY <2>2, <2>3
<1>8. pair = Slices(b, i)
  <2>1. S = StageOf(First + i)
    BY <1>2
  <2>2. First + i \in Spent .. Launched - 1 /\ First + i \in Spent .. Issued - 1
    BY <1>2, <1>5, <1>6
  <2>3. \A op \in Operands : Flies(op, S) = 0
    BY <2>1, <2>2, StageUndisturbed DEF Flies
  <2>4. \A op \in Operands : smem[op][S] = Source(First + i)
    BY <2>1, <2>2, <2>3 DEF RingInv, SmemInv
  <2>5. Source(First + i) = <<b, i>>
    <3>1. Acquired - 1 \in Nat /\ (Acquired - 1) + 1 = Acquired /\ i \in 0 .. KTiles - 1
      BY <1>5
    <3>. QED
      BY <1>5, <3>1, SourceAt
  <2>. QED
    BY <2>4, <2>5 DEF Slices
<1>9. pair \in Pairs /\ S \in Stages
  <2>1. S \in Stages
    BY <1>2, <1>5, RingTypes
  <2>. QED
    BY <2>1 DEF PipelineTypeOK, Pairs
<1>. HIDE DEF pair, b
<1>10. tmem' = IF i # 0 THEN Append(tmem, pair) ELSE <<pair>>
  <2>. DEFINE acc == Head(tensorQ).accum
  <2>1. acc = (i # 0)
    BY <1>2
  <2>2. tmem' = IF acc THEN Append(tmem, pair) ELSE <<pair>>
    BY <1>1
  <2>. HIDE DEF acc
  <2>3. CASE i # 0
    <3>1. acc = TRUE
      BY <2>1, <2>3
    <3>. QED
      BY <2>2, <2>3, <3>1
  <2>4. CASE i = 0
    <3>1. acc = FALSE
      BY <2>1, <2>4
    <3>. QED
      BY <2>2, <2>4, <3>1
  <2>. QED
    BY <2>3, <2>4
<1>11. tmem' = [j \in 1 .. i + 1 |-> Slices(b, j - 1)]
  <2>1. CASE i = 0
    <3>1. tmem' = <<pair>>
      BY <1>10, <2>1
    <3>2. <<pair>> = [j \in 1 .. 1 |-> pair]
      OBVIOUS
    <3>3. \A j \in 1 .. 1 : pair = Slices(b, j - 1)
      BY <1>8, <2>1
    <3>. QED
      BY <2>1, <3>1, <3>2, <3>3
  <2>2. CASE i > 0
    <3>1. tmem' = Append(tmem, pair)
      BY <1>5, <1>10, <2>2
    <3>2. tmem = [j \in 1 .. i |-> Slices(b, j - 1)]
      BY <1>6, <2>2 DEF TensorCoreInv, TmemInv, b
    <3>3. Len(tmem) = i
      <4>1. tmem \in Seq(Pairs) /\ DOMAIN tmem = 1 .. i
        BY <3>2 DEF PipelineTypeOK
      <4>. QED
        BY <1>5, <4>1
    <3>4. tmem' = [j \in 1 .. i + 1 |-> IF j = i + 1 THEN pair ELSE tmem[j]]
      <4>1. tmem \in Seq(Pairs)
        BY DEF PipelineTypeOK
      <4>2. /\ tmem' \in Seq(Pairs) /\ Len(tmem') = i + 1 /\ tmem'[i + 1] = pair
            /\ \A j \in 1 .. i : tmem'[j] = tmem[j]
        BY <1>5, <1>9, <3>1, <3>3, <4>1
      <4>3. tmem' = [j \in 1 .. i + 1 |-> tmem'[j]]
        BY <4>2
      <4>4. \A j \in 1 .. i + 1 : tmem'[j] = IF j = i + 1 THEN pair ELSE tmem[j]
        BY <1>5, <4>2
      <4>. QED
        BY <4>3, <4>4
    <3>5. \A j \in 1 .. i + 1 :
            (IF j = i + 1 THEN pair ELSE tmem[j]) = Slices(b, j - 1)
      BY <1>5, <1>8, <3>2
    <3>. QED
      BY <3>4, <3>5
  <2>. QED
    BY <1>5, <2>1, <2>2
<1>12. TmemInv'
  BY <1>1, <1>4, <1>6, <1>11 DEF TmemInv, b
<1>13. RingInv'
  BY <1>1, <1>4, <1>6, RingFrame DEF TensorCoreInv, Source
<1>14. AccInv'
  BY <1>1, <1>3, <1>4, <1>7, AccFrame
<1>15. PipelineTypeOK'
  <2>1. tmem \in Seq(Pairs) /\ <<pair>> \in Seq(Pairs)
    BY <1>9 DEF PipelineTypeOK
  <2>2. tmem' \in Seq(Pairs)
    BY <1>9, <1>10, <2>1
  <2>. QED
    BY <1>1, <1>4, <2>2 DEF PipelineTypeOK
<1>. QED
  BY <1>3, <1>4, <1>12, <1>13, <1>14, <1>15 DEF TensorCoreInv

\* A stage is given back: the turn of the ring goes on by one step.
LEMMA TensorReleaseInv ==
  ASSUME PipeInv, TensorCommit, Head(tensorQ).op = "release"
  PROVE  PipeInv'
<1>. USE DEF PipeInv
<1>. DEFINE S == Head(tensorQ).stage
<1>1. /\ tensorQ # <<>> /\ tensorQ' = Tail(tensorQ)
      /\ mma2tma' = [mma2tma EXCEPT ![S] = Arrive(mma2tma[S], 1)]
      /\ UNCHANGED <<tma2mma, mma2ld, ld2mma, ring, accPs, wbPs, loads, smem, tmem,
                     regs, dsmem, store, D, exited, tile, k, begun, at>>
  BY DEF TensorCommit, cursors, output
<1>2. PICK i \in 0 .. KTiles - 1 :
        /\ Executed = 2 * i + 1 /\ First + i < Issued
        /\ Head(tensorQ) = [op |-> "release", stage |-> StageOf(First + i)]
  BY <1>1, HeadOp
<1>3. /\ WritebackInv' /\ StoredInv' /\ ExitInv'
      /\ \A r \in Roles : Begun(r)' = Begun(r)
      /\ \A w \in Threads : Passed(w)' = Passed(w) /\ Released(w)' = Released(w)
  BY <1>1, LaneFrame
<1>4. /\ Executed' = Executed + 1 /\ TensorInv' /\ tensorQ' \in Seq(TensorOps)
      /\ Signalled' = Signalled /\ Launched' = Launched /\ Acquired' = Acquired
      /\ Issued' = Issued /\ First' = First /\ Ops' = Ops /\ Committed' = Committed
      /\ RoleInv' /\ (Executed + 1 # Ops => Ready' = Ready)
  BY <1>1, QueueMoves
<1>5. /\ First \in Nat /\ Issued \in Nat /\ KTiles \in Nat /\ Acquired \in Nat
      /\ Acquired > 0 /\ i \in Nat /\ i < KTiles /\ Launched \in Nat
      /\ PipeDepth \in Nat /\ PipeDepth > 0
  <2>1. /\ First \in Nat /\ Issued \in Nat /\ KTiles \in Nat /\ Acquired \in Nat
        /\ (Acquired = 0 => Issued = 0 /\ First = 0) /\ Launched \in Nat
        /\ PipeDepth \in Nat /\ PipeDepth > 0
    BY CountFacts, RoleFacts
  <2>. QED
    BY <1>2, <2>1
<1>6. Spent = First + i /\ Spent' = First + i + 1 /\ Multiplied' = Multiplied
  <2>1. /\ (2 * i + 1) \div 2 = i /\ (2 * i + 1 + 1) \div 2 = i + 1
        /\ (2 * i + 1 + 1 + 1) \div 2 = i + 1
        /\ ~(2 * i + 1 > 2 * KTiles) /\ ~(2 * i + 1 + 1 > 2 * KTiles)
    BY <1>5
  <2>2. Spent = First + i /\ Multiplied = i + 1
    BY <1>2, <2>1 DEF Spent, Multiplied
  <2>3. Spent' = First + (i + 1)
    BY <1>2, <1>4, <2>1 DEF Spent
  <2>4. Multiplied' = i + 1
    BY <1>2, <1>4, <2>1 DEF Multiplied
  <2>. QED
    BY <1>5, <2>2, <2>3, <2>4
<1>7. Ready' = Ready
  <2>1. CASE Committed
    <3>1. Ops = 2 * KTiles + 1
      BY <1>5, <2>1, CountFacts
    <3>. QED
      BY <1>2, <1>4, <1>5, <3>1
  <2>2. CASE ~Committed
    BY <1>4, <2>2 DEF Ready
  <2>. QED
    BY <2>1, <2>2
<1>8. Spent \in Nat /\ Spent' = Spent + 1 /\ S = StageOf(Spent)
  BY <1>2, <1>5, <1>6
<1>9. WindowInv'
  BY <1>1, <1>2, <1>4, <1>5, <1>6, <1>8 DEF RingInv, WindowInv
<1>10. FullInv' /\ LoadInv'
  <2>1. \A j : FullAt(j)' = FullAt(j)
    BY <1>1, <1>4 DEF FullAt, InFlight, Flies
  <2>. QED
    BY <1>1, <1>4, <2>1 DEF RingInv, FullInv, LoadInv, Source
<1>11. SmemInv'
  <2>1. \A j \in Spent + 1 .. Launched - 1 : j \in Spent .. Launched - 1
    BY <1>5, <1>8
  <2>. QED
    BY <1>1, <1>4, <1>8, <2>1 DEF RingInv, SmemInv, Flies, Source
<1>12. S \in Stages /\ mma2tma'[S] = [phase |-> 1 - ParityOf(Spent), pending |-> 1, tx |-> 0]
       /\ \A s \in Stages \ {S} : mma2tma'[s] = mma2tma[s]
  <2>1. S \in Stages /\ ParityOf(Spent) \in {0, 1}
    BY <1>8, RingTypes
  <2>2. mma2tma[S] = [phase |-> ParityOf(Spent), pending |-> 1, tx |-> 0]
    <3>1. Spent \in Spent .. Spent + PipeDepth - 1
      BY <1>5, <1>8
    <3>. QED
      BY <1>8, <3>1 DEF RingInv, EmptyInv
  <2>3. mma2tma'[S] = Arrive(mma2tma[S], 1) /\ \A s \in Stages \ {S} : mma2tma'[s] = mma2tma[s]
    BY <1>1, <2>1 DEF PipelineTypeOK
  <2>. QED
    BY <2>1, <2>2, <2>3 DEF Arrive, Settle
<1>. HIDE DEF S
<1>13. EmptyInv'
  <2>1. ASSUME NEW j \in Spent + 1 .. Spent + 1 + PipeDepth - 1
        PROVE  mma2tma'[StageOf(j)] = [phase |-> ParityOf(j), pending |-> 1, tx |-> 0]
    <3>1. CASE j = Spent + PipeDepth
      BY <1>8, <1>12, <3>1, NextTurn
    <3>2. CASE j # Spent + PipeDepth
      <4>1. j \in Nat /\ j # Spent /\ j < Spent + PipeDepth /\ Spent < j + PipeDepth
            /\ j \in Spent .. Spent + PipeDepth - 1
        BY <1>5, <1>8, <3>2
      <4>2. StageOf(j) \in Stages \ {S}
        BY <1>8, <4>1, StagesApart, RingTypes
      <4>. QED
        BY <1>12, <4>1, <4>2 DEF RingInv, EmptyInv
    <3>. QED
      BY <3>1, <3>2
  <2>. QED
    BY <1>8, <2>1 DEF EmptyInv
<1>14. TmemInv'
  BY <1>1, <1>4, <1>6 DEF TensorCoreInv, TmemInv
<1>15. AccInv'
  BY <1>1, <1>3, <1>4, <1>7, AccFrame
<1>16. PipelineTypeOK'
  <2>1. mma2tma'[S] \in BarType(1)
    <3>1. 1 - ParityOf(Spent) \in {0, 1}
      BY <1>8, RingTypes
    <3>. QED
      BY <1>12, <3>1 DEF BarType
  <2>2. mma2tma' \in [Stages -> BarType(1)]
    BY <1>1, <1>12, <2>1 DEF PipelineTypeOK
  <2>. QED
    BY <1>1, <1>4, <2>2 DEF PipelineTypeOK
<1>. QED
  BY <1>3, <1>4, <1>9, <1>10, <1>11, <1>13, <1>14, <1>15, <1>16
     DEF RingInv, TensorCoreInv

\* The accumulator is handed over when all its operations are done.
LEMMA TensorReadyInv ==
  ASSUME PipeInv, TensorCommit, Head(tensorQ).op # "release"
  PROVE  PipeInv'
<1>. USE DEF PipeInv
<1>1. /\ tensorQ # <<>> /\ tensorQ' = Tail(tensorQ) /\ mma2ld' = Arrive(mma2ld, 1)
      /\ UNCHANGED <<tma2mma, mma2tma, ld2mma, ring, accPs, wbPs, loads, smem, tmem,
                     regs, dsmem, store, D, exited, tile, k, begun, at>>
  BY DEF TensorCommit, cursors, output
<1>2. Executed = 2 * KTiles /\ Ops = 2 * KTiles + 1
  BY <1>1, HeadOp DEF TensorCommit
<1>3. /\ WritebackInv' /\ StoredInv' /\ ExitInv'
      /\ \A r \in Roles : Begun(r)' = Begun(r)
      /\ \A w \in Threads : Passed(w)' = Passed(w) /\ Released(w)' = Released(w)
  BY <1>1, LaneFrame
<1>4. /\ Executed' = Executed + 1 /\ TensorInv' /\ tensorQ' \in Seq(TensorOps)
      /\ Signalled' = Signalled /\ Launched' = Launched /\ Acquired' = Acquired
      /\ Issued' = Issued /\ First' = First /\ Ops' = Ops /\ Committed' = Committed
      /\ RoleInv' /\ (tensorQ' = <<>> <=> Executed + 1 = Ops)
  BY <1>1, QueueMoves
<1>5. KTiles \in Nat /\ First \in Nat /\ Acquired \in Nat /\ Acquired > 0 /\ Committed
  <2>1. KTiles \in Nat /\ First \in Nat /\ Acquired \in Nat /\ Issued \in Nat
    BY CountFacts, RoleFacts
  <2>2. Committed /\ Acquired > 0
    <3>1. Issued - First \in 0 .. KTiles
      BY CountFacts
    <3>. QED
      BY <1>2, <2>1, <3>1 DEF Ops
  <2>. QED
    BY <2>1, <2>2
<1>6. Spent' = Spent /\ Multiplied' = Multiplied
  <2>1. /\ (2 * KTiles) \div 2 = KTiles /\ (2 * KTiles + 1) \div 2 = KTiles
        /\ 2 * KTiles + 1 > 2 * KTiles /\ ~(2 * KTiles > 2 * KTiles)
    BY <1>5
  <2>2. Spent = First + KTiles /\ Multiplied = KTiles
    BY <1>2, <2>1 DEF Spent, Multiplied
  <2>3. Spent' = First + KTiles /\ Multiplied' = KTiles
    BY <1>2, <1>4, <2>1 DEF Spent, Multiplied
  <2>. QED
    BY <2>2, <2>3
<1>7. Ready = Acquired - 1 /\ Ready' = Acquired
  BY <1>1, <1>2, <1>4, <1>5 DEF Ready
<1>8. RingInv'
  BY <1>1, <1>4, <1>6, RingFrame DEF TensorCoreInv, Source
<1>9. TmemInv'
  BY <1>1, <1>4, <1>6 DEF TensorCoreInv, TmemInv
<1>10. mma2ld' = [phase |-> Ready' % 2, pending |-> 1, tx |-> 0]
  <2>. DEFINE p == Ready % 2
  <2>1. Ready \in Int /\ Ready' = Ready + 1
    BY <1>5, <1>7
  <2>2. Ready' % 2 = 1 - p
    BY <2>1, Flip
  <2>3. mma2ld = [phase |-> p, pending |-> 1, tx |-> 0]
    BY DEF AccInv
  <2>. HIDE DEF p
  <2>. QED
    BY <1>1, <2>2, <2>3 DEF Arrive, Settle
<1>11. AccInv'
  <2>1. Holding' = Holding
    BY <1>3, <1>4 DEF Holding
  <2>2. ASSUME NEW w \in Threads PROVE Passed(w) =< Ready'
    <3>1. Begun(w) \in Nat /\ Passed(w) =< Ready
      BY CountFacts, RoleFacts DEF AccInv
    <3>2. Passed(w) \in Int
      BY <3>1 DEF Passed
    <3>. QED
      BY <1>5, <1>7, <3>1, <3>2
  <2>. QED
    BY <1>1, <1>3, <1>4, <1>10, <2>1, <2>2 DEF AccInv, AcquireCursor, ReleaseBar
<1>12. PipelineTypeOK'
  <2>1. mma2ld' \in BarType(1)
    <3>1. Ready' % 2 \in {0, 1}
      BY <1>5, <1>7, Flip
    <3>. QED
      BY <1>10, <3>1 DEF BarType
  <2>. QED
    BY <1>1, <1>4, <2>1 DEF PipelineTypeOK
<1>. QED
  BY <1>3, <1>4, <1>8, <1>9, <1>11, <1>12 DEF TensorCoreInv

------------------------------------------------------------------------------
(* The loader and the TMA engine                                           *)

\* What a passed stage-released wait tells: the turn before this one is over, and
\* no load is in flight into the stage.
LEMMA StageFree ==
  ASSUME PipeInv, at["tma"] = "fill", Passes(mma2tma[ring["tma"].stage], ring["tma"].phase)
  PROVE  /\ Signalled < Spent + PipeDepth /\ Issued =< Signalled
         /\ ring["tma"].stage = StageOf(Signalled)
         /\ Launched = Signalled /\ \A f \in loads : f.stage # StageOf(Signalled)
<1>. USE DEF PipeInv
<1>1. /\ ring["tma"] = [stage |-> StageOf(Signalled), phase |-> 1 - ParityOf(Signalled)]
      /\ Issued =< Signalled /\ Launched =< Spent + PipeDepth /\ Spent =< Issued
  BY DEF RingInv, WindowInv
<1>2. /\ Signalled \in Nat /\ Spent \in Nat /\ Issued \in Nat
      /\ PipeDepth \in Nat /\ PipeDepth > 0
  BY CountFacts, CoreFacts, RoleFacts DEF TensorCoreInv
<1>3. Launched = Signalled
  BY DEF Launched
<1>4. Signalled # Spent + PipeDepth
  <2>1. ASSUME Signalled = Spent + PipeDepth PROVE FALSE
    <3>1. StageOf(Signalled) = StageOf(Spent) /\ ParityOf(Signalled) = 1 - ParityOf(Spent)
      BY <1>2, <2>1, NextTurn
    <3>2. mma2tma[StageOf(Spent)].phase = ParityOf(Spent)
      <4>1. Spent \in Spent .. Spent + PipeDepth - 1
        BY <1>2
      <4>2. mma2tma[StageOf(Spent)] = [phase |-> ParityOf(Spent), pending |-> 1, tx |-> 0]
        BY <4>1 DEF RingInv, EmptyInv
      <4>. QED
        BY <4>2
    <3>3. ParityOf(Spent) \in {0, 1}
      BY <1>2, RingTypes
    <3>. QED
      BY <1>1, <3>1, <3>2, <3>3 DEF Passes
  <2>. QED
    BY <2>1
<1>5. ASSUME NEW f \in loads PROVE f.stage # StageOf(Signalled)
  <2>1. PICK i \in Issued .. Launched - 1 : f.stage = StageOf(i)
    BY DEF RingInv, LoadInv
  <2>2. i \in Nat /\ i # Signalled /\ i < Signalled + PipeDepth /\ Signalled < i + PipeDepth
    BY <1>1, <1>2, <1>3, <1>4, <2>1
  <2>. QED
    BY <1>2, <2>1, <2>2, StagesApart
<1>. QED
  BY <1>1, <1>2, <1>3, <1>4, <1>5

LEMMA FillInv ==
  ASSUME PipeInv, SameTiles, FillStage
  PROVE  PipeInv'
<1>. USE DEF PipeInv
<1>. DEFINE P == Signalled
            s == StageOf(P)
            src == <<tile["tma"], k["tma"]>>
            n == Begun("tma")
            new == {[op |-> op, stage |-> s, src |-> src] : op \in Operands}
<1>1. /\ P < Spent + PipeDepth /\ Issued =< P /\ ring["tma"].stage = s
      /\ Launched = P /\ \A f \in loads : f.stage # s
  BY StageFree DEF FillStage
<1>2. /\ at["tma"] = "fill" /\ at' = [at EXCEPT !["tma"] = "expect"]
      /\ loads' = loads \cup new
      /\ UNCHANGED <<tma2mma, mma2tma, mma2ld, ld2mma, ring, accPs, wbPs, smem, tensorQ,
                     tmem, regs, dsmem, store, D, exited, tile, k, begun>>
  BY <1>1 DEF FillStage, Move, bars, cursors, output
<1>3. /\ at'["tma"] = "expect" /\ \A q \in Roles \ {"tma"} : at'[q] = at[q]
  BY <1>2, RoleFacts DEF PipelineTypeOK
<1>4. /\ WritebackInv' /\ StoredInv' /\ ExitInv'
      /\ \A r \in Roles : Begun(r)' = Begun(r)
      /\ \A w \in Threads : Passed(w)' = Passed(w) /\ Released(w)' = Released(w)
  BY <1>2, <1>3, LaneFrame, RoleFacts
<1>5. /\ P \in Nat /\ Spent \in Nat /\ Issued \in Nat /\ Spent =< Issued
      /\ PipeDepth \in Nat /\ PipeDepth > 0
  BY CountFacts, CoreFacts, RoleFacts DEF TensorCoreInv
<1>6. /\ n \in Nat /\ n > 0 /\ n - 1 \in Nat /\ k["tma"] \in 0 .. KTiles - 1
      /\ tile["tma"] = begun["tma"][n] /\ tile["tma"] \in WorkTiles
      /\ P = Base(n - 1) + k["tma"]
  <2>1. n \in Nat /\ n # 0 /\ k["tma"] \in 0 .. KTiles /\ k["tma"] < KTiles
        /\ KTiles \in Nat
    BY <1>2, CountFacts, RoleFacts DEF RoleInv, PipelineTypeOK
  <2>2. tile["tma"] = begun["tma"][n] /\ P = Base(n - 1) + k["tma"]
    BY <2>1, RoleFacts DEF RoleInv, Signalled, Steps
  <2>3. n \in 1 .. n
    BY <2>1
  <2>4. begun["tma"][n] \in WorkTiles
    BY <2>3 DEF SameTiles
  <2>. QED
    BY <2>1, <2>2, <2>4
<1>7. src = Source(P) /\ src \in Slot \ {<<>>}
  <2>1. Source(P) = <<begun["tma"][(n - 1) + 1], k["tma"]>> /\ (n - 1) + 1 = n
    BY <1>6, SourceAt
  <2>2. src \in WorkTiles \X (0 .. KTiles - 1) /\ src # <<>>
    BY <1>6
  <2>. QED
    BY <1>6, <2>1, <2>2 DEF Slot
<1>8. /\ P' = P /\ Launched' = P + 1 /\ Issued' = Issued /\ Acquired' = Acquired
      /\ Committed' = Committed
  BY <1>2, <1>3, <1>4, RoleFacts
     DEF Signalled, Issued, Steps, Launched, Acquired, Committed
<1>9. First' = First
  BY <1>8 DEF First
<1>10. Executed' = Executed /\ Ready' = Ready
  BY <1>2, <1>8, <1>9 DEF Executed, Ops, Ready
<1>11. Spent' = Spent
  BY <1>9, <1>10 DEF Spent
<1>. HIDE DEF n, src
<1>12. /\ \A f \in new : f.stage = s /\ f.src = src /\ f \in loads'
       /\ \A f \in loads' : f \in loads \/ f \in new
       /\ \A op \in Operands : \E f \in new : f.op = op
  <2>. HIDE DEF s
  <2>1. \A f \in new : f.stage = s /\ f.src = src
    OBVIOUS
  <2>2. ASSUME NEW op \in Operands PROVE \E f \in new : f.op = op
    <3>1. [op |-> op, stage |-> s, src |-> src] \in new
      OBVIOUS
    <3>2. [op |-> op, stage |-> s, src |-> src].op = op
      OBVIOUS
    <3>. QED
      BY <3>1, <3>2
  <2>. HIDE DEF new
  <2>. QED
    BY <1>2, <2>1, <2>2
<1>13. /\ \A op \in Operands : Flies(op, s) = 0 /\ Flies(op, s)' = 1
       /\ \A op, t : t # s => Flies(op, t)' = Flies(op, t)
  <2>1. ASSUME NEW op \in Operands PROVE Flies(op, s) = 0 /\ Flies(op, s)' = 1
    <3>1. \E f \in loads' : f.op = op /\ f.stage = s
      BY <1>12
    <3>. QED
      BY <1>1, <1>8, <3>1 DEF Flies
  <2>2. ASSUME NEW op, NEW t, t # s PROVE Flies(op, t)' = Flies(op, t)
    <3>1. (\E f \in loads' : f.op = op /\ f.stage = t)
            <=> (\E f \in loads : f.op = op /\ f.stage = t)
      BY <1>2, <1>12, <2>2
    <3>. QED
      BY <3>1 DEF Flies
  <2>. QED
    BY <2>1, <2>2
<1>14. InFlight(s)' = 2 /\ \A t : t # s => InFlight(t)' = InFlight(t)
  BY <1>8, <1>13 DEF InFlight, Operands
<1>. HIDE DEF P, s, new
<1>15. RoleInv'
  <2>1. ASSUME NEW l \in Lanes
        PROVE  /\ Begun(l)' = 0 => at'[l] \in {"next", "end"} /\ k'[l] = 0
               /\ at'[l] \in {"fill", "expect", "issue"} => k'[l] < KTiles
               /\ at'[l] \in {"next", "commit", "end"} /\ Begun(l)' > 0 =>
                    k'[l] = KTiles
    <3>1. CASE l = "tma"
      BY <1>2, <1>3, <1>4, <1>6, <3>1, RoleFacts DEF RoleInv, n
    <3>2. CASE l # "tma"
      BY <1>2, <1>3, <1>4, <3>2, RoleFacts DEF RoleInv
    <3>. QED
      BY <3>1, <3>2
  <2>2. \A r \in Roles : Begun(r)' > 0 => tile'[r] = begun'[r][Begun(r)']
    BY <1>2, <1>4 DEF RoleInv
  <2>3. /\ at'["mma"] \in {"next", "acquire", "issue", "commit", "end"}
        /\ at'["mma"] = "acquire" => k'["mma"] = 0
    BY <1>2, <1>3, RoleFacts DEF RoleInv
  <2>. QED
    BY <1>3, <2>1, <2>2, <2>3 DEF RoleInv
<1>16. WindowInv'
  BY <1>1, <1>2, <1>5, <1>8, <1>11 DEF RingInv, WindowInv, P
<1>17. \A i \in Nat : i # P /\ i < P + PipeDepth /\ P < i + PipeDepth => StageOf(i) # s
  BY <1>5, StagesApart DEF s
<1>18. FullInv'
  <2>1. ASSUME NEW i \in Issued .. Issued + PipeDepth - 1
        PROVE  FullAt(i)' = FullAt(i)
    <3>1. i \in Nat
      BY <1>5
    <3>2. CASE i = P
      <4>1. FullAt(i) = [phase |-> ParityOf(i), pending |-> 1, tx |-> 0]
        BY <1>1, <1>5, <3>2 DEF FullAt
      <4>2. ~(i >= Launched') /\ i >= P' /\ StageOf(i) = s
        BY <1>5, <1>8, <3>2 DEF s
      <4>3. FullAt(i)' = [phase |-> ParityOf(i), pending |-> 1,
                          tx |-> InFlight(s)' - 2]
        BY <1>8, <4>2 DEF FullAt, P, s
      <4>. QED
        BY <1>14, <4>1, <4>3
    <3>3. CASE i # P
      <4>1. StageOf(i) # s
        BY <1>1, <1>5, <1>17, <3>1, <3>3
      <4>2. InFlight(StageOf(i))' = InFlight(StageOf(i))
        BY <1>8, <1>14, <4>1 DEF s, P
      <4>3. (i >= Launched' <=> i >= Launched) /\ (i >= P' <=> i >= P)
        BY <1>1, <1>5, <1>8, <3>1, <3>3
      <4>. QED
        BY <4>2, <4>3 DEF FullAt, P
    <3>. QED
      BY <3>2, <3>3
  <2>. QED
    BY <1>2, <1>8, <2>1 DEF RingInv, FullInv
<1>19. EmptyInv'
  BY <1>2, <1>11 DEF RingInv, EmptyInv
<1>20. LoadInv'
  <2>1. ASSUME NEW f \in loads'
        PROVE  \E i \in Issued .. P : f.stage = StageOf(i) /\ f.src = Source(i)
    <3>1. CASE f \in loads
      <4>1. PICK i \in Issued .. Launched - 1 : f.stage = StageOf(i) /\ f.src = Source(i)
        BY <3>1 DEF RingInv, LoadInv
      <4>2. i \in Issued .. P
        BY <1>1, <1>5
      <4>. QED
        BY <4>1, <4>2
    <3>2. CASE f \in new
      <4>1. P \in Issued .. P
        BY <1>1, <1>5
      <4>. QED
        BY <1>7, <1>12, <3>2, <4>1 DEF s
    <3>. QED
      BY <1>12, <3>1, <3>2
  <2>2. Issued' .. Launched' - 1 = Issued .. P
    BY <1>5, <1>8
  <2>. QED
    BY <1>2, <2>1, <2>2 DEF LoadInv, Source
<1>21. SmemInv'
  <2>1. ASSUME NEW i \in Spent .. P, NEW op \in Operands, Flies(op, StageOf(i))' = 0
        PROVE  smem[op][StageOf(i)] = Source(i)
    <3>1. i # P
      BY <1>8, <1>13, <2>1 DEF s, P
    <3>2. i \in Spent .. Launched - 1 /\ i \in Nat
      BY <1>1, <1>5, <3>1
    <3>3. StageOf(i) # s
      BY <1>1, <1>5, <1>17, <3>1, <3>2
    <3>4. Flies(op, StageOf(i)) = 0
      BY <1>13, <2>1, <3>3 DEF s, P
    <3>. QED
      BY <3>2, <3>4 DEF RingInv, SmemInv
  <2>2. Spent' .. Launched' - 1 = Spent .. P
    BY <1>5, <1>8, <1>11
  <2>. QED
    BY <1>2, <2>1, <2>2 DEF SmemInv, Source
<1>22. TensorCoreInv'
  BY <1>2, <1>8, <1>9, <1>10, CoreFrame
<1>23. AccInv'
  BY <1>2, <1>4, <1>8, <1>10, AccFrame
<1>24. PipelineTypeOK'
  <2>1. new \subseteq [op : Operands, stage : Stages, src : Slot \ {<<>>}]
    BY <1>5, <1>7, RingTypes DEF new, s
  <2>2. loads' \subseteq [op : Operands, stage : Stages, src : Slot \ {<<>>}]
    BY <1>2, <2>1 DEF PipelineTypeOK
  <2>. QED
    BY <1>2, <2>2 DEF PipelineTypeOK
<1>. QED
  BY <1>4, <1>15, <1>16, <1>18, <1>19, <1>20, <1>21, <1>22, <1>23, <1>24 DEF RingInv

LEMMA ExpectInv ==
  ASSUME PipeInv, ExpectBytes
  PROVE  PipeInv'
<1>. USE DEF PipeInv
<1>. DEFINE P == Signalled
            s == StageOf(P)
            c == k["tma"]
            n == Begun("tma")
            y == InFlight(s)
<1>1. ring["tma"] = [stage |-> s, phase |-> 1 - ParityOf(P)]
  BY DEF RingInv, WindowInv
<1>2. /\ at["tma"] = "expect"
      /\ at' = [at EXCEPT !["tma"] = IF c + 1 < KTiles THEN "fill" ELSE "next"]
      /\ tma2mma' = [tma2mma EXCEPT ![s] = ArriveExpectTx(tma2mma[s], 1, 2)]
      /\ ring' = [ring EXCEPT !["tma"] = Advance(ring["tma"], PipeDepth)]
      /\ k' = [k EXCEPT !["tma"] = c + 1]
      /\ UNCHANGED <<mma2tma, mma2ld, ld2mma, accPs, wbPs, loads, smem, tensorQ,
                     tmem, regs, dsmem, store, D, exited, tile, begun>>
  <2>1. Cardinality(Operands) = 2
    <3>1. Cardinality({"A"} \cup {"B"}) = 2
      <4>1. IsFiniteSet({"A"}) /\ Cardinality({"A"}) = 1 /\ "B" \notin {"A"}
        BY FS_Singleton
      <4>. QED
        BY <4>1, FS_AddElement
    <3>2. Operands = {"A"} \cup {"B"}
      BY DEF Operands
    <3>. QED
      BY <3>1, <3>2
  <2>. QED
    BY <1>1, <2>1 DEF ExpectBytes, Move, engines, output
<1>3. /\ at'["tma"] \in {"fill", "next"} /\ (c + 1 < KTiles <=> at'["tma"] = "fill")
      /\ \A q \in Roles \ {"tma"} : at'[q] = at[q]
      /\ k'["tma"] = c + 1 /\ k'["mma"] = k["mma"]
      /\ ring'["mma"] = ring["mma"] /\ ring'["tma"] = Advance(ring["tma"], PipeDepth)
  BY <1>2, RoleFacts DEF PipelineTypeOK
<1>4. /\ WritebackInv' /\ StoredInv' /\ ExitInv'
      /\ \A r \in Roles : Begun(r)' = Begun(r)
      /\ \A w \in Threads : Passed(w)' = Passed(w) /\ Released(w)' = Released(w)
  BY <1>2, <1>3, LaneFrame, RoleFacts
<1>5. /\ P \in Nat /\ Spent \in Nat /\ Issued \in Nat /\ Spent =< Issued
      /\ PipeDepth \in Nat /\ PipeDepth > 0 /\ Launched = P + 1
      /\ Issued =< P /\ P + 1 =< Spent + PipeDepth
  <2>1. /\ P \in Nat /\ Spent \in Nat /\ Issued \in Nat /\ Spent =< Issued
        /\ PipeDepth \in Nat /\ PipeDepth > 0
    BY CountFacts, CoreFacts, RoleFacts DEF TensorCoreInv
  <2>2. Launched = P + 1
    BY <1>2 DEF Launched
  <2>. QED
    BY <2>1, <2>2 DEF RingInv, WindowInv
<1>6. /\ n \in Nat /\ n > 0 /\ n - 1 \in Nat /\ c \in Nat /\ c < KTiles /\ KTiles \in Nat
      /\ P = Base(n - 1) + c /\ Base(n - 1) \in Nat
  <2>1. n \in Nat /\ n # 0 /\ c \in 0 .. KTiles /\ c < KTiles /\ KTiles \in Nat
    BY <1>2, CountFacts, RoleFacts DEF RoleInv, PipelineTypeOK
  <2>2. P = Base(n - 1) + c
    BY <2>1 DEF Signalled, Steps
  <2>3. n - 1 \in Nat
    BY <2>1
  <2>. HIDE DEF n, c, P
  <2>. QED
    BY <2>1, <2>2, <2>3, BaseFacts
<1>. HIDE DEF n, c
<1>7. /\ P' = P + 1 /\ Launched' = P + 1 /\ Issued' = Issued /\ Acquired' = Acquired
      /\ Committed' = Committed
  <2>1. P' = Base(n - 1) + (c + 1)
    <3>1. Begun("tma")' = n /\ n # 0
      BY <1>4, <1>6, RoleFacts DEF n
    <3>. QED
      BY <1>3, <3>1 DEF Signalled, Steps
  <2>2. P' = P + 1
    BY <1>6, <2>1
  <2>3. Launched' = P'
    BY <1>3 DEF Launched
  <2>. QED
    BY <1>3, <1>4, <2>2, <2>3, RoleFacts DEF Issued, Steps, Acquired, Committed
<1>8. First' = First
  BY <1>7 DEF First
<1>9. Executed' = Executed /\ Ready' = Ready
  BY <1>2, <1>7, <1>8 DEF Executed, Ops, Ready
<1>10. Spent' = Spent
  BY <1>8, <1>9 DEF Spent
<1>11. /\ s \in Stages /\ y \in Nat /\ ParityOf(P) \in {0, 1}
       /\ tma2mma[s] = [phase |-> ParityOf(P), pending |-> 1, tx |-> y - 2]
  <2>1. s \in Stages /\ ParityOf(P) \in {0, 1}
    BY <1>5, RingTypes
  <2>2. y \in Nat
    BY DEF InFlight, Flies
  <2>3. P \in Issued .. Issued + PipeDepth - 1 /\ ~(P >= Launched) /\ P >= Signalled
    BY <1>5
  <2>4. FullAt(P) = [phase |-> ParityOf(P), pending |-> 1, tx |-> y - 2]
    BY <2>3 DEF FullAt
  <2>. QED
    BY <2>1, <2>2, <2>3, <2>4 DEF RingInv, FullInv
<1>12. /\ tma2mma'[s] = IF y > 0 THEN [phase |-> ParityOf(P), pending |-> 0, tx |-> y]
                        ELSE [phase |-> 1 - ParityOf(P), pending |-> 1, tx |-> 0]
       /\ \A t \in Stages \ {s} : tma2mma'[t] = tma2mma[t]
  <2>. DEFINE p == ParityOf(P)
              z == y - 2
  <2>1. tma2mma'[s] = ArriveExpectTx(tma2mma[s], 1, 2)
        /\ \A t \in Stages \ {s} : tma2mma'[t] = tma2mma[t]
    BY <1>2, <1>11 DEF PipelineTypeOK
  <2>2. tma2mma[s] = [phase |-> p, pending |-> 1, tx |-> z] /\ z + 2 = y
    BY <1>11
  <2>. HIDE DEF p, y, z
  <2>3. tma2mma'[s] = Settle([phase |-> p, pending |-> 0, tx |-> y], 1)
    <3>1. ArriveExpectTx([phase |-> p, pending |-> 1, tx |-> z], 1, 2)
            = Settle([phase |-> p, pending |-> 0, tx |-> z + 2], 1)
      BY DEF ArriveExpectTx
    <3>. QED
      BY <2>1, <2>2, <3>1
  <2>. QED
    BY <1>11, <2>1, <2>3 DEF Settle, p
<1>. HIDE DEF y, s, P
<1>13. RoleInv'
  <2>1. ASSUME NEW l \in Lanes
        PROVE  /\ Begun(l)' = 0 => at'[l] \in {"next", "end"} /\ k'[l] = 0
               /\ at'[l] \in {"fill", "expect", "issue"} => k'[l] < KTiles
               /\ at'[l] \in {"next", "commit", "end"} /\ Begun(l)' > 0 =>
                    k'[l] = KTiles
    <3>1. CASE l = "tma"
      <4>1. Begun(l)' # 0
        BY <1>4, <1>6, <3>1, RoleFacts DEF n
      <4>2. /\ at'["tma"] = "fill" => c + 1 < KTiles
            /\ at'["tma"] = "next" => c + 1 = KTiles
        BY <1>3, <1>6
      <4>. QED
        BY <1>3, <3>1, <4>1, <4>2
    <3>2. CASE l # "tma"
      BY <1>3, <1>4, <3>2, RoleFacts DEF RoleInv
    <3>. QED
      BY <3>1, <3>2
  <2>2. \A r \in Roles : Begun(r)' > 0 => tile'[r] = begun'[r][Begun(r)']
    BY <1>2, <1>4 DEF RoleInv
  <2>3. /\ at'["mma"] \in {"next", "acquire", "issue", "commit", "end"}
        /\ at'["mma"] = "acquire" => k'["mma"] = 0
    BY <1>3, RoleFacts DEF RoleInv
  <2>. QED
    BY <1>3, <2>1, <2>2, <2>3 DEF RoleInv
<1>14. WindowInv'
  <2>1. ring'["tma"] = [stage |-> StageOf(P + 1), phase |-> 1 - ParityOf(P + 1)]
    BY <1>1, <1>3, <1>5, NextStep DEF s
  <2>2. ring["mma"] = [stage |-> StageOf(Issued), phase |-> ParityOf(Issued)]
    BY DEF RingInv, WindowInv
  <2>. QED
    BY <1>3, <1>5, <1>7, <1>10, <2>1, <2>2 DEF WindowInv, P
<1>15. FullInv'
  <2>1. ASSUME NEW i \in Issued .. Issued + PipeDepth - 1
        PROVE  tma2mma'[StageOf(i)] = FullAt(i)'
    <3>1. i \in Nat
      BY <1>5
    <3>2. \A t : InFlight(t)' = InFlight(t)
      BY <1>2 DEF InFlight, Flies
    <3>3. CASE i = P
      <4>1. ~(i >= Launched') /\ ~(i >= P')
        BY <1>5, <1>7, <3>3
      <4>2. FullAt(i)' = IF y > 0 THEN [phase |-> ParityOf(i), pending |-> 0, tx |-> y]
                         ELSE [phase |-> 1 - ParityOf(i), pending |-> 1, tx |-> 0]
        BY <3>2, <3>3, <4>1 DEF FullAt, P, y, s
      <4>. QED
        BY <1>12, <3>3, <4>2 DEF s
    <3>4. CASE i # P
      <4>1. i < P + PipeDepth /\ P < i + PipeDepth
        BY <1>5, <3>1, <3>4
      <4>2. StageOf(i) \in Stages \ {s}
        BY <1>5, <3>1, <3>4, <4>1, StagesApart, RingTypes DEF s
      <4>3. (i >= Launched' <=> i >= Launched) /\ (i >= P' <=> i >= P)
        BY <1>5, <1>7, <3>1, <3>4
      <4>4. FullAt(i)' = FullAt(i)
        BY <3>2, <4>3 DEF FullAt, P
      <4>. QED
        BY <1>12, <4>2, <4>4 DEF RingInv, FullInv
    <3>. QED
      BY <3>3, <3>4
  <2>. QED
    BY <1>7, <2>1 DEF FullInv
<1>16. EmptyInv'
  BY <1>2, <1>10 DEF RingInv, EmptyInv
<1>17. LoadInv' /\ SmemInv'
  BY <1>2, <1>5, <1>7, <1>10 DEF RingInv, LoadInv, SmemInv, Flies, Source
<1>18. TensorCoreInv'
  BY <1>2, <1>7, <1>8, <1>9, CoreFrame
<1>19. AccInv'
  BY <1>2, <1>4, <1>7, <1>9, AccFrame
<1>20. PipelineTypeOK'
  <2>1. tma2mma' \in [Stages -> BarType(1)]
    <3>1. tma2mma'[s] \in BarType(1)
      BY <1>11, <1>12 DEF BarType
    <3>. QED
      BY <1>2, <1>12, <3>1 DEF PipelineTypeOK
  <2>2. ring' \in [Lanes -> CursorType(PipeDepth)]
    <3>1. ring'["tma"] \in CursorType(PipeDepth)
      <4>1. P + 1 \in Nat
        BY <1>5
      <4>2. StageOf(P + 1) \in 0 .. PipeDepth - 1 /\ 1 - ParityOf(P + 1) \in {0, 1}
        BY <4>1, RingTypes DEF Stages
      <4>3. ring'["tma"] = [stage |-> StageOf(P + 1), phase |-> 1 - ParityOf(P + 1)]
        BY <1>7, <1>14 DEF WindowInv, P
      <4>. QED
        BY <4>2, <4>3 DEF CursorType
    <3>. QED
      BY <1>2, <1>3, <3>1 DEF PipelineTypeOK
  <2>3. k' \in [Lanes -> 0 .. KTiles]
    <3>1. c + 1 \in 0 .. KTiles
      BY <1>6
    <3>. QED
      BY <1>2, <3>1 DEF PipelineTypeOK
  <2>4. at' \in [Roles -> {"next", "fill", "expect", "acquire", "issue", "commit",
                           "wait", "load", "release", "stage", "staged", "store",
                           "drain", "stored", "end"}]
    BY <1>2 DEF PipelineTypeOK
  <2>. QED
    BY <1>2, <2>1, <2>2, <2>3, <2>4 DEF PipelineTypeOK
<1>. QED
  BY <1>4, <1>13, <1>14, <1>15, <1>16, <1>17, <1>18, <1>19, <1>20 DEF RingInv

\* A copy lands: the last of the two completes the phase if its step has been
\* announced, otherwise the announcement will.
LEMMA LandInv ==
  ASSUME PipeInv, NEW f \in loads, LoadLands(f)
  PROVE  PipeInv'
<1>. USE DEF PipeInv
<1>. DEFINE s == f.stage
            y == InFlight(s)
<1>1. /\ loads' = loads \ {f} /\ smem' = [smem EXCEPT ![f.op][s] = f.src]
      /\ tma2mma' = [tma2mma EXCEPT ![s] = CompleteTx(tma2mma[s], 1, 1)]
      /\ UNCHANGED <<mma2tma, mma2ld, ld2mma, ring, accPs, wbPs, tensorQ,
                     tmem, regs, dsmem, store, D, exited, tile, k, begun, at>>
  BY DEF LoadLands, cursors, output
<1>2. /\ WritebackInv' /\ StoredInv' /\ ExitInv'
      /\ \A r \in Roles : Begun(r)' = Begun(r)
      /\ \A w \in Threads : Passed(w)' = Passed(w) /\ Released(w)' = Released(w)
  BY <1>1, LaneFrame
<1>3. /\ Signalled' = Signalled /\ Launched' = Launched /\ Issued' = Issued
      /\ Acquired' = Acquired /\ Committed' = Committed
  BY <1>1, <1>2, RoleFacts DEF Signalled, Issued, Steps, Launched, Acquired, Committed
<1>4. First' = First
  BY <1>3 DEF First
<1>5. Executed' = Executed /\ Ready' = Ready
  BY <1>1, <1>3, <1>4 DEF Executed, Ops, Ready
<1>6. Spent' = Spent
  BY <1>4, <1>5 DEF Spent
<1>7. /\ Signalled \in Nat /\ Spent \in Nat /\ Issued \in Nat /\ Spent =< Issued
      /\ PipeDepth \in Nat /\ PipeDepth > 0 /\ Launched \in Nat
      /\ Launched =< Spent + PipeDepth
  BY CountFacts, CoreFacts, RoleFacts DEF TensorCoreInv, RingInv, WindowInv
<1>8. PICK m \in Issued .. Launched - 1 : s = StageOf(m) /\ f.src = Source(m)
  BY DEF RingInv, LoadInv
<1>9. /\ m \in Nat /\ m \in Issued .. Issued + PipeDepth - 1 /\ ~(m >= Launched)
      /\ s \in Stages /\ ParityOf(m) \in {0, 1}
  <2>1. m \in Nat /\ m \in Issued .. Issued + PipeDepth - 1 /\ ~(m >= Launched)
    BY <1>7
  <2>. QED
    BY <1>8, <2>1, RingTypes
<1>10. \A i \in Nat : i # m /\ i >= Spent /\ i < Spent + PipeDepth => StageOf(i) # s
  <2>. TAKE i \in Nat
  <2>1. m \in Nat /\ m >= Spent /\ m < Spent + PipeDepth
    BY <1>7
  <2>2. i # m /\ i >= Spent /\ i < Spent + PipeDepth =>
          i < m + PipeDepth /\ m < i + PipeDepth
    BY <1>7, <2>1
  <2>. QED
    BY <1>8, <2>1, <2>2, StagesApart
<1>11. f \in [op : Operands, stage : Stages, src : Slot \ {<<>>}] /\ f.op \in Operands
  BY DEF PipelineTypeOK
<1>12. ASSUME NEW g \in loads, g.op = f.op, g.stage = s
       PROVE  g = f
  <2>1. PICK i \in Issued .. Launched - 1 : g.stage = StageOf(i) /\ g.src = Source(i)
    BY DEF RingInv, LoadInv
  <2>2. i = m
    <3>1. i \in Nat /\ i >= Spent /\ i < Spent + PipeDepth
      BY <1>7
    <3>. QED
      BY <1>10, <1>12, <2>1, <3>1
  <2>3. g.src = f.src
    BY <1>8, <2>1, <2>2
  <2>4. g \in [op : Operands, stage : Stages, src : Slot \ {<<>>}]
    BY DEF PipelineTypeOK
  <2>. QED
    BY <1>11, <1>12, <2>3, <2>4
<1>13. /\ Flies(f.op, s) = 1 /\ Flies(f.op, s)' = 0
       /\ \A op, t : op # f.op \/ t # s => Flies(op, t)' = Flies(op, t)
  <2>1. Flies(f.op, s) = 1 /\ Flies(f.op, s)' = 0
    BY <1>1, <1>12 DEF Flies
  <2>2. ASSUME NEW op, NEW t, op # f.op \/ t # s PROVE Flies(op, t)' = Flies(op, t)
    <3>1. (\E g \in loads' : g.op = op /\ g.stage = t)
            <=> (\E g \in loads : g.op = op /\ g.stage = t)
      BY <1>1, <2>2
    <3>. QED
      BY <3>1 DEF Flies
  <2>. QED
    BY <2>1, <2>2
<1>14. /\ y \in Nat /\ y > 0 /\ InFlight(s)' = y - 1
       /\ \A t : t # s => InFlight(t)' = InFlight(t)
  <2>1. Flies("A", s) \in {0, 1} /\ Flies("B", s) \in {0, 1}
    BY DEF Flies
  <2>2. f.op = "A" \/ f.op = "B"
    BY <1>11 DEF Operands
  <2>3. \A t : t # s => InFlight(t)' = InFlight(t)
    BY <1>13 DEF InFlight
  <2>4. CASE f.op = "A"
    <3>1. InFlight(s)' = 0 + Flies("B", s) /\ y = 1 + Flies("B", s)
      BY <1>13, <2>4 DEF InFlight
    <3>. QED
      BY <2>1, <2>3, <3>1
  <2>5. CASE f.op = "B"
    <3>1. InFlight(s)' = Flies("A", s) + 0 /\ y = Flies("A", s) + 1
      BY <1>13, <2>5 DEF InFlight
    <3>. QED
      BY <2>1, <2>3, <3>1
  <2>. QED
    BY <2>2, <2>4, <2>5
<1>15. /\ tma2mma'[s] = CompleteTx(tma2mma[s], 1, 1)
       /\ \A t \in Stages \ {s} : tma2mma'[t] = tma2mma[t]
       /\ smem'[f.op][s] = f.src
       /\ \A op \in Operands, t \in Stages :
            op # f.op \/ t # s => smem'[op][t] = smem[op][t]
  BY <1>1, <1>9, <1>11 DEF PipelineTypeOK
<1>16. tma2mma[s] = FullAt(m)
  BY <1>8, <1>9 DEF RingInv, FullInv
<1>. HIDE DEF s, y
<1>17. tma2mma'[s] = FullAt(m)'
  <2>. DEFINE p == ParityOf(m)
  <2>1. CASE m >= Signalled
    <3>1. tma2mma[s] = [phase |-> p, pending |-> 1, tx |-> y - 2]
      BY <1>8, <1>9, <1>16, <2>1 DEF FullAt, y
    <3>2. tma2mma'[s] = [phase |-> p, pending |-> 1, tx |-> (y - 1) - 2]
      <4>1. (y - 2) - 1 = (y - 1) - 2
        BY <1>14
      <4>. HIDE DEF p
      <4>. QED
        BY <1>15, <3>1, <4>1 DEF CompleteTx, Settle
    <3>3. FullAt(m)' = [phase |-> p, pending |-> 1, tx |-> (y - 1) - 2]
      BY <1>3, <1>8, <1>9, <1>14, <2>1 DEF FullAt
    <3>. QED
      BY <3>2, <3>3
  <2>2. CASE ~(m >= Signalled)
    <3>1. tma2mma[s] = [phase |-> p, pending |-> 0, tx |-> y]
      BY <1>8, <1>9, <1>14, <1>16, <2>2 DEF FullAt, y
    <3>2. tma2mma'[s] = IF y - 1 = 0 THEN [phase |-> 1 - p, pending |-> 1, tx |-> 0]
                        ELSE [phase |-> p, pending |-> 0, tx |-> y - 1]
      <4>. HIDE DEF p
      <4>. QED
        BY <1>15, <3>1 DEF CompleteTx, Settle
    <3>3. FullAt(m)' = IF y - 1 > 0 THEN [phase |-> p, pending |-> 0, tx |-> y - 1]
                       ELSE [phase |-> 1 - p, pending |-> 1, tx |-> 0]
      BY <1>3, <1>8, <1>9, <1>14, <2>2 DEF FullAt
    <3>. HIDE DEF p
    <3>. QED
      BY <1>14, <3>2, <3>3
  <2>. QED
    BY <2>1, <2>2
<1>18. FullInv'
  <2>1. ASSUME NEW i \in Issued .. Issued + PipeDepth - 1
        PROVE  tma2mma'[StageOf(i)] = FullAt(i)'
    <3>1. CASE i = m
      BY <1>8, <1>17, <3>1
    <3>2. CASE i # m
      <4>1. i \in Nat /\ i < m + PipeDepth /\ m < i + PipeDepth
        BY <1>7, <1>9
      <4>2. StageOf(i) \in Stages \ {s}
        BY <1>8, <1>9, <3>2, <4>1, StagesApart, RingTypes
      <4>3. FullAt(i)' = FullAt(i)
        BY <1>3, <1>14, <4>2 DEF FullAt
      <4>. QED
        BY <1>15, <4>2, <4>3 DEF RingInv, FullInv
    <3>. QED
      BY <3>1, <3>2
  <2>. QED
    BY <1>3, <2>1 DEF FullInv
<1>19. WindowInv' /\ EmptyInv' /\ LoadInv'
  BY <1>1, <1>3, <1>6 DEF RingInv, WindowInv, EmptyInv, LoadInv, Source
<1>20. SmemInv'
  <2>1. ASSUME NEW i \in Spent .. Launched - 1, NEW op \in Operands,
               Flies(op, StageOf(i))' = 0
        PROVE  smem'[op][StageOf(i)] = Source(i)
    <3>1. i \in Nat /\ i >= Spent /\ i < Spent + PipeDepth
      BY <1>7
    <3>2. StageOf(i) \in Stages
      BY <3>1, RingTypes
    <3>3. CASE op = f.op /\ i = m
      BY <1>8, <1>15, <3>3
    <3>4. CASE op # f.op \/ i # m
      <4>1. op # f.op \/ StageOf(i) # s
        BY <1>10, <3>1, <3>4
      <4>2. Flies(op, StageOf(i)) = 0
        BY <1>13, <2>1, <4>1
      <4>. QED
        BY <1>15, <3>2, <4>1, <4>2 DEF RingInv, SmemInv
    <3>. QED
      BY <3>3, <3>4
  <2>. QED
    BY <1>1, <1>3, <1>6, <2>1 DEF SmemInv, Source
<1>21. RoleInv'
  BY <1>1, <1>2, RoleFacts DEF RoleInv
<1>22. TensorCoreInv'
  BY <1>1, <1>3, <1>4, <1>5, CoreFrame
<1>23. AccInv'
  BY <1>1, <1>2, <1>3, <1>5, AccFrame
<1>24. PipelineTypeOK'
  <2>1. tma2mma' \in [Stages -> BarType(1)]
    <3>1. tma2mma'[s] \in BarType(1)
      <4>1. FullAt(m)' \in BarType(1)
        <5>1. 1 - ParityOf(m) \in {0, 1}
          BY <1>9
        <5>2. InFlight(StageOf(m))' \in Int
          BY <1>8, <1>14
        <5>. QED
          BY <1>9, <5>1, <5>2 DEF FullAt, BarType
      <4>. QED
        BY <1>17, <4>1
    <3>. QED
      BY <1>1, <1>15, <3>1 DEF PipelineTypeOK, s
  <2>2. smem' \in [Operands -> [Stages -> Slot]]
    <3>1. f.src \in Slot
      BY <1>11
    <3>. QED
      BY <1>1, <1>9, <1>11, <3>1 DEF PipelineTypeOK
  <2>3. loads' \subseteq [op : Operands, stage : Stages, src : Slot \ {<<>>}]
    BY <1>1 DEF PipelineTypeOK
  <2>. QED
    BY <1>1, <2>1, <2>2, <2>3 DEF PipelineTypeOK
<1>. QED
  BY <1>2, <1>18, <1>19, <1>20, <1>21, <1>22, <1>23, <1>24 DEF RingInv

------------------------------------------------------------------------------
(* The pipeline                                                            *)

LEMMA PipelineInitInv ==
  ASSUME PipelineInit
  PROVE  PipeInv
<1>. USE DEF PipelineInit
<1>. DEFINE N == Cardinality(Threads)
<1>1. \A r \in Roles : Begun(r) = 0 /\ at[r] = "next"
  BY DEF Begun
<1>2. /\ Signalled = 0 /\ Issued = 0 /\ Launched = 0 /\ Acquired = 0 /\ Committed
      /\ First = 0
  BY <1>1, RoleFacts DEF Signalled, Issued, Steps, Launched, Acquired, Committed, First
<1>3. Executed = 0 /\ Len(tensorQ) = 0
  <2>1. Len(tensorQ) = 0 /\ Ops = 0
    BY <1>2 DEF Ops
  <2>. HIDE DEF PipelineInit
  <2>. QED
    BY <2>1 DEF Executed
<1>4. Spent = 0 /\ Multiplied = 0 /\ Ready = 0
  BY <1>2, <1>3, RoleFacts DEF Spent, Multiplied, Ready
<1>5. \A w \in Threads : Passed(w) = 0 /\ Released(w) = 0 /\ Done(w) = 0 /\ Staged(w) = 0
  BY <1>1, RoleFacts DEF Passed, Released, Done, Staged
<1>6. Holding = {}
  BY <1>2, <1>5 DEF Holding
<1>7. PipeDepth \in Nat /\ PipeDepth > 0 /\ KTiles \in Nat /\ N \in Nat
  BY RoleFacts, RoleAssumption, FS_CardinalityType
<1>8. \A i \in 0 .. PipeDepth - 1 : i \in Nat /\ StageOf(i) = i /\ ParityOf(i) = 0
  <2>. TAKE i \in 0 .. PipeDepth - 1
  <2>1. PipeDepth \in Nat \ {0} /\ 0 * PipeDepth + i = i
    BY <1>7
  <2>2. i \div PipeDepth = 0 /\ i % PipeDepth = i
    BY <2>1, DivOfSum
  <2>. QED
    BY <2>2 DEF StageOf, ParityOf
<1>9. RoleInv
  BY <1>1, RoleFacts DEF RoleInv
<1>10. StageOf(0) = 0 /\ ParityOf(0) = 0
  BY <1>7, <1>8
<1>11. WindowInv
  BY <1>2, <1>4, <1>7, <1>10, RoleFacts DEF WindowInv, Cursor
<1>12. FullInv /\ EmptyInv
  <2>1. \A i \in 0 .. PipeDepth - 1 :
          tma2mma[i] = [phase |-> 0, pending |-> 1, tx |-> 0]
          /\ mma2tma[i] = [phase |-> 0, pending |-> 1, tx |-> 0]
    BY DEF Stages, NewBar
  <2>2. \A i \in 0 .. PipeDepth - 1 : FullAt(i) = [phase |-> 0, pending |-> 1, tx |-> 0]
    BY <1>2, <1>8 DEF FullAt
  <2>3. 0 + PipeDepth - 1 = PipeDepth - 1
    BY <1>7
  <2>. QED
    BY <1>2, <1>4, <1>8, <2>1, <2>2, <2>3 DEF FullInv, EmptyInv
<1>13. LoadInv /\ SmemInv
  BY <1>2, <1>4 DEF LoadInv, SmemInv
<1>14. TensorCoreInv
  BY <1>3, <1>4 DEF TensorCoreInv, TensorInv, TmemInv
<1>15. AccInv
  <2>1. 0 % 2 = 0 /\ (0 + 1) % 2 = 1
    OBVIOUS
  <2>. QED
    BY <1>2, <1>4, <1>5, <1>6, <2>1 DEF AccInv, AcquireCursor, ReleaseBar, Cursor, NewBar
<1>16. WritebackInv
  BY <1>1, <1>5, RoleFacts DEF WritebackInv
<1>17. StoredInv /\ ExitInv
  BY DEF StoredInv, OutputCorrect, ExitInv
<1>18. PipelineTypeOK
  <2>1. /\ tma2mma \in [Stages -> BarType(1)] /\ mma2tma \in [Stages -> BarType(1)]
        /\ mma2ld \in BarType(1) /\ ld2mma \in BarType(N)
    BY <1>7 DEF NewBar, BarType
  <2>2. /\ ring \in [Lanes -> CursorType(PipeDepth)]
        /\ accPs \in CursorType(1) /\ wbPs \in [Threads -> CursorType(1)]
    BY <1>7 DEF Cursor, CursorType
  <2>3. \A S : <<>> \in Seq(S)
    OBVIOUS
  <2>4. /\ tensorQ \in Seq(TensorOps) /\ tmem \in Seq(Pairs)
        /\ regs \in [Threads -> Seq(Pairs)] /\ dsmem \in [Threads -> Seq(Pairs)]
        /\ begun \in [Roles -> Seq(WorkTiles \cup {NoTile})]
    BY <2>3
  <2>5. /\ k \in [Lanes -> 0 .. KTiles] /\ tile \in [Roles -> WorkTiles \cup {NoTile}]
        /\ smem \in [Operands -> [Stages -> Slot]]
        /\ D \in [WorkTiles -> {NoRows} \cup [Threads -> Seq(Pairs)]]
    BY <1>7 DEF Slot
  <2>6. /\ at \in [Roles -> {"next", "fill", "expect", "acquire", "issue", "commit",
                             "wait", "load", "release", "stage", "staged", "store",
                             "drain", "stored", "end"}]
        /\ loads \subseteq [op : Operands, stage : Stages, src : Slot \ {<<>>}]
        /\ store \in WorkTiles \cup {NoTile} /\ exited \in BOOLEAN
    OBVIOUS
  <2>. HIDE DEF PipelineInit
  <2>. QED
    BY <2>1, <2>2, <2>4, <2>5, <2>6 DEF PipelineTypeOK
<1>. QED
  BY <1>9, <1>11, <1>12, <1>13, <1>14, <1>15, <1>16, <1>17, <1>18 DEF PipeInv, RingInv

LEMMA PipelineStepInv ==
  ASSUME PipeInv, SameTiles, PipelineStep
  PROVE  PipeInv'
<1>1. CASE FillStage
  BY <1>1, FillInv
<1>2. CASE ExpectBytes
  BY <1>2, ExpectInv
<1>3. CASE AcquireAccumulator
  BY <1>3, AcquireInv
<1>4. CASE IssueMma
  BY <1>4, IssueInv
<1>5. CASE CommitTile
  BY <1>5, CommitInv
<1>6. ASSUME NEW w \in Threads, Writeback(w) PROVE PipeInv'
  BY <1>6, AwaitInv, LoadRowInv, ReleaseInv, StageRowInv DEF Writeback
<1>7. CASE LeaderStep
  BY <1>7, SyncInv, LeaderInv DEF LeaderStep
<1>8. CASE Engine
  BY <1>8, LandInv, TensorMmaInv, TensorReleaseInv, TensorReadyInv, StoreLandsInv
     DEF Engine
<1>9. CASE Cleanup
  BY <1>9, CleanupInv
<1>. QED
  BY <1>1, <1>2, <1>3, <1>4, <1>5, <1>6, <1>7, <1>8, <1>9 DEF PipelineStep

\* A step of a role's loop.
LEMMA LoopInv ==
  ASSUME PipeInv, NEW r \in Roles, NEW t \in WorkTiles \cup {NoTile},
         BeginTile(r, t) \/ EndLoop(r)
  PROVE  PipeInv'
BY BeginLoadInv, BeginMmaInv, BeginWriteInv, EndLoopInv, RoleFacts

LEMMA PipeStutter ==
  ASSUME PipeInv, UNCHANGED pipeVars
  PROVE  PipeInv'
<1>1. /\ UNCHANGED <<tma2mma, mma2tma, mma2ld, ld2mma, ring, accPs, wbPs, loads, smem>>
      /\ UNCHANGED <<tensorQ, tmem, regs, dsmem, store, D, exited, tile, k, begun, at>>
  BY DEF pipeVars, bars, cursors, engines, output
<1>2. /\ RoleInv' /\ RingInv' /\ TensorCoreInv' /\ Acquired' = Acquired /\ Ready' = Ready
  BY <1>1, ThreadFrame
<1>3. /\ WritebackInv' /\ StoredInv' /\ ExitInv'
      /\ \A w \in Threads : Passed(w)' = Passed(w) /\ Released(w)' = Released(w)
  BY <1>1, LaneFrame
<1>4. AccInv'
  BY <1>1, <1>2, <1>3, AccFrame DEF PipeInv
<1>5. PipelineTypeOK'
  BY <1>1 DEF PipeInv, PipelineTypeOK
<1>. QED
  BY <1>2, <1>3, <1>4, <1>5 DEF PipeInv

\* The invariant, with the kernel's part, is what the properties say.
LEMMA PipeSafe ==
  ASSUME PipeInv, SameTiles
  PROVE  NoDataRace /\ OutputCorrect
<1>. USE DEF PipeInv
<1>1. ASSUME NEW f \in loads, NEW j \in DOMAIN tensorQ, tensorQ[j].op = "mma"
      PROVE  tensorQ[j].stage # f.stage
  <2>. DEFINE e == Executed
              x == e + j
              h == (x - 1) \div 2
  <2>1. j \in 1 .. Len(tensorQ)
    BY DEF PipelineTypeOK
  <2>2. /\ Len(tensorQ) \in Nat /\ e \in Nat /\ e = Ops - Len(tensorQ) /\ Ops \in Nat
        /\ First \in Nat /\ Issued \in Nat /\ KTiles \in Nat
        /\ Spent = First + (e \div 2) /\ Ops =< 2 * KTiles + 1
        /\ Issued - First \in 0 .. KTiles
        /\ (Ops = 2 * (Issued - First) \/ Ops = 2 * (Issued - First) + 1)
        /\ (Ops = 2 * (Issued - First) + 1 => Issued - First = KTiles)
    <3>1. /\ Len(tensorQ) \in Nat /\ e \in 0 .. Ops /\ e = Ops - Len(tensorQ) /\ Ops \in Nat
          /\ Ops =< 2 * KTiles + 1 /\ KTiles \in Nat
      BY CoreFacts, RoleFacts DEF TensorCoreInv
    <3>2. /\ First \in Nat /\ Issued \in Nat /\ Issued - First \in 0 .. KTiles
          /\ (Committed /\ Acquired > 0 => Issued = First + KTiles)
      BY CountFacts
    <3>3. /\ (Ops = 2 * (Issued - First) \/ Ops = 2 * (Issued - First) + 1)
          /\ (Ops = 2 * (Issued - First) + 1 => Committed /\ Acquired > 0)
      BY <3>1, <3>2 DEF Ops
    <3>. HIDE DEF e
    <3>. QED
      BY <3>1, <3>2, <3>3 DEF Spent, e
  <2>. HIDE DEF e
  <2>3. x - 1 \in Nat /\ x =< Ops /\ x >= e + 1
    BY <2>1, <2>2
  <2>4. /\ h \in Nat /\ (x = 2 * h + 1 \/ x = 2 * h + 2)
        /\ 2 * (e \div 2) =< e /\ e \div 2 \in Nat
    <3>1. h \in Nat /\ 2 * h =< x - 1 /\ x - 1 =< 2 * h + 1
      BY <2>3, Half
    <3>2. 2 * (e \div 2) =< e /\ e \div 2 \in Nat
      BY <2>2, Half
    <3>. HIDE DEF h, x
    <3>3. x \in Int
      <4>1. e \in Int /\ j \in Int
        BY <2>1, <2>2
      <4>. QED
        BY <4>1 DEF x
    <3>. QED
      BY <3>1, <3>2, <3>3
  <2>. HIDE DEF h, x
  <2>5. CASE h >= KTiles
    <3>1. x = 2 * KTiles + 1
      BY <2>2, <2>3, <2>4, <2>5
    <3>2. tensorQ[j] = [op |-> "ready"]
      BY <2>1, <3>1 DEF TensorCoreInv, TensorInv, x, e
    <3>. QED
      BY <1>1, <3>2
  <2>6. CASE h < KTiles
    <3>1. h \in 0 .. KTiles - 1
      BY <2>2, <2>4, <2>6
    <3>2. CASE x = 2 * h + 2
      <4>1. tensorQ[j] = [op |-> "release", stage |-> StageOf(First + h)]
        BY <2>1, <3>1, <3>2 DEF TensorCoreInv, TensorInv, x, e
      <4>. QED
        BY <1>1, <4>1
    <3>3. CASE x = 2 * h + 1
      <4>1. tensorQ[j] = [op |-> "mma", stage |-> StageOf(First + h), accum |-> h # 0]
        BY <2>1, <3>1, <3>3 DEF TensorCoreInv, TensorInv, x, e
      <4>2. First + h \in Spent .. Issued - 1
        <5>1. h < Issued - First
          BY <2>2, <2>3, <2>4, <2>6, <3>3
        <5>2. e \div 2 =< h
          BY <2>2, <2>3, <2>4, <3>3
        <5>. QED
          BY <2>2, <2>4, <5>1, <5>2
      <4>. QED
        BY <4>1, <4>2, StageUndisturbed
    <3>. QED
      BY <2>4, <3>2, <3>3
  <2>. QED
    BY <2>2, <2>4, <2>5, <2>6
<1>2. ASSUME NEW j \in DOMAIN tensorQ, NEW w \in Threads, at[w] \in {"load", "release"}
      PROVE  FALSE
  BY <1>2, ReadersSeeWhole
<1>3. ASSUME store # NoTile, NEW w \in Threads, at[w] = "stage" PROVE FALSE
  <2>1. Staged(w) = Staged(Leader) /\ Done(w) = Done(Leader) /\ at[Leader] = "drain"
    BY <1>3 DEF WritebackInv
  <2>. DEFINE d == Done(Leader)
  <2>2. Staged(w) = Done(w) /\ Staged(Leader) = d + 1
    BY <1>3, <2>1 DEF Staged
  <2>3. d \in Int
    <3>1. Begun(Leader) \in Nat
      BY CountFacts, RoleFacts
    <3>. QED
      BY <3>1 DEF Done
  <2>4. d = d + 1
    BY <2>1, <2>2
  <2>. HIDE DEF d
  <2>. QED
    BY <2>3, <2>4
<1>4. QuietAtExit
  <2>1. SUFFICES ASSUME exited PROVE loads = {} /\ tensorQ = <<>> /\ store = NoTile
    BY DEF QuietAtExit
  <2>2. \A r \in Roles : at[r] = "end"
    BY <2>1 DEF ExitInv
  <2>. DEFINE n == Begun("tma")
  <2>3. \A r \in Roles : Begun(r) = n
    BY <2>2, RoleFacts DEF SameTiles
  <2>4. store = NoTile
    BY <2>2, RoleFacts DEF WritebackInv
  <2>5. n \in Nat
    BY CountFacts, RoleFacts
  <2>6. Signalled = Issued /\ Launched = Signalled /\ Acquired = n
    <3>1. /\ at["tma"] = "end" /\ at["mma"] = "end"
          /\ Begun("tma") = n /\ Begun("mma") = n
      BY <2>2, <2>3, RoleFacts
    <3>2. k["tma"] = k["mma"]
      <4>1. CASE n = 0
        BY <3>1, <4>1, RoleFacts DEF RoleInv
      <4>2. CASE n > 0
        BY <3>1, <4>2, RoleFacts DEF RoleInv
      <4>. QED
        BY <2>5, <4>1, <4>2
    <3>3. Signalled = Issued
      BY <3>1, <3>2 DEF Signalled, Issued, Steps
    <3>. QED
      BY <3>1, <3>3 DEF Launched, Acquired
  <2>7. loads = {}
    <3>1. Issued .. Launched - 1 = {}
      BY <2>6, CountFacts
    <3>. QED
      BY <3>1 DEF RingInv, LoadInv
  <2>8. Passed(Leader) = n /\ Passed(Leader) =< Ready
    BY <2>2, <2>3, RoleFacts DEF Passed, AccInv
  <2>9. Ready = n
    <3>1. Ready \in {Acquired - 1, Acquired}
      BY CoreFacts DEF TensorCoreInv
    <3>. QED
      BY <2>5, <2>6, <2>8, <3>1
  <2>10. tensorQ = <<>>
    BY <2>5, <2>6, <2>9 DEF Ready
  <2>. QED
    BY <2>4, <2>7, <2>10
<1>5. NoDataRace
  BY <1>1, <1>2, <1>3, <1>4 DEF NoDataRace
<1>. QED
  BY <1>5 DEF StoredInv

------------------------------------------------------------------------------
(* What the leader has finished is in global memory                        *)

\* The leader's current tile has been stored.
Kept ==
  \/ at[Leader] \in {"next", "end", "stored"}
  \/ at[Leader] = "drain" /\ store = NoTile

KeptInv ==
  \A j \in 1 .. Begun(Leader) :
    j < Begun(Leader) \/ Kept => D[begun[Leader][j]] # NoRows

\* The pipeline's own steps neither begin a tile nor leave a loop.
LEMMA StepKeepsLoops ==
  ASSUME PipelineTypeOK, PipelineStep
  PROVE  /\ begun' = begun /\ \A r \in Roles : Begun(r)' = Begun(r)
         /\ \A r \in Roles : at'[r] = "end" => at[r] = "end"
<1>1. CASE FillStage \/ ExpectBytes
  BY <1>1, RoleFacts DEF FillStage, ExpectBytes, Move, Begun, PipelineTypeOK
<1>2. CASE AcquireAccumulator \/ IssueMma \/ CommitTile
  <2>1. CASE AcquireAccumulator
    BY <2>1, RoleFacts DEF AcquireAccumulator, Move, Begun, PipelineTypeOK
  <2>2. CASE IssueMma
    <3>1. begun' = begun /\ at' = [at EXCEPT !["mma"] = at'["mma"]]
      BY <2>2, RoleFacts DEF IssueMma, Move, PipelineTypeOK
    <3>2. at'["mma"] # "end"
      BY <2>2, RoleFacts DEF IssueMma, Move, PipelineTypeOK
    <3>. QED
      BY <3>1, <3>2 DEF Begun, PipelineTypeOK
  <2>3. CASE CommitTile
    BY <2>3, RoleFacts DEF CommitTile, Move, Begun, PipelineTypeOK
  <2>. QED
    BY <1>2, <2>1, <2>2, <2>3
<1>3. ASSUME NEW w \in Threads, Writeback(w)
      PROVE  /\ begun' = begun /\ \A r \in Roles : Begun(r)' = Begun(r)
             /\ \A r \in Roles : at'[r] = "end" => at[r] = "end"
  BY <1>3, RoleFacts DEF Writeback, AwaitAccumulator, LoadRow, ReleaseAccumulator,
                         StageRow, Move, Begun, PipelineTypeOK
<1>4. CASE RowsStaged \/ TileStored
  <2>1. /\ begun' = begun
        /\ \A r \in Roles : at'[r] \in {at[r], "store", "stored", "next"}
    BY <1>4 DEF RowsStaged, TileStored, WarpgroupSync
  <2>. QED
    BY <2>1 DEF Begun
<1>5. CASE IssueStore \/ DrainStore
  BY <1>5, RoleFacts DEF IssueStore, DrainStore, Move, Begun, PipelineTypeOK
<1>6. CASE Engine
  BY <1>6 DEF Engine, LoadLands, TensorMma, TensorCommit, StoreLands, Begun
<1>7. CASE Cleanup
  BY <1>7 DEF Cleanup, Begun
<1>. QED
  BY <1>1, <1>2, <1>3, <1>4, <1>5, <1>6, <1>7 DEF PipelineStep, LeaderStep

\* What the leader has in hand is a real tile.
LEMMA LeaderTile ==
  ASSUME PipeInv, SameTiles, at[Leader] \in {"store", "drain"}
  PROVE  /\ Begun(Leader) \in Nat /\ Begun(Leader) > 0
         /\ tile[Leader] = begun[Leader][Begun(Leader)]
         /\ \A j \in 1 .. Begun(Leader) : begun[Leader][j] \in WorkTiles
<1>1. Begun(Leader) \in 1 .. Begun("tma") /\ Begun("tma") \in Nat
  BY WritebackBehind, CountFacts, RoleFacts DEF PipeInv
<1>2. \A j \in 1 .. Begun(Leader) :
        begun["tma"][j] \in WorkTiles /\ begun["tma"][j] = begun[Leader][j]
  BY <1>1 DEF SameTiles
<1>. QED
  BY <1>1, <1>2, RoleFacts DEF PipeInv, RoleInv

\* The leader goes on only when its store is complete.
LEMMA KeptStep ==
  ASSUME PipeInv, SameTiles, KeptInv, PipelineStep
  PROVE  KeptInv'
<1>. USE DEF PipeInv
<1>1. begun' = begun /\ Begun(Leader)' = Begun(Leader)
  BY StepKeepsLoops, RoleFacts
<1>2. ASSUME D' = D, Kept' => Kept PROVE KeptInv'
  BY <1>1, <1>2 DEF KeptInv
<1>3. ASSUME UNCHANGED <<D, store>>, at'[Leader] = at[Leader] PROVE KeptInv'
  BY <1>2, <1>3 DEF Kept
<1>4. CASE FillStage \/ ExpectBytes
  BY <1>3, <1>4, RoleFacts DEF FillStage, ExpectBytes, Move, output, PipelineTypeOK
<1>5. CASE AcquireAccumulator \/ IssueMma \/ CommitTile
  BY <1>3, <1>5, RoleFacts
     DEF AcquireAccumulator, IssueMma, CommitTile, Move, output, PipelineTypeOK
<1>6. ASSUME NEW w \in Threads, Writeback(w) PROVE KeptInv'
  <2>1. /\ UNCHANGED <<D, store>> /\ at[w] \in {"wait", "load", "release", "stage"}
        /\ \E label \in {"load", "release", "stage", "staged"} :
             at' = [at EXCEPT ![w] = label]
    BY <1>6 DEF Writeback, AwaitAccumulator, LoadRow, ReleaseAccumulator, StageRow,
                Move, output
  <2>2. CASE w = Leader
    <3>1. at'[Leader] \in {"load", "release", "stage", "staged"}
      BY <2>1, <2>2, RoleFacts DEF PipelineTypeOK
    <3>. QED
      BY <1>2, <2>1, <3>1 DEF Kept
  <2>3. CASE w # Leader
    <3>1. at'[Leader] = at[Leader]
      BY <2>1, <2>3, RoleFacts DEF PipelineTypeOK
    <3>. QED
      BY <1>3, <2>1, <3>1
  <2>. QED
    BY <2>2, <2>3
<1>7. CASE RowsStaged
  <2>1. D' = D /\ at'[Leader] = "store"
    BY <1>7, RoleFacts DEF RowsStaged, WarpgroupSync, output
  <2>. QED
    BY <1>2, <2>1 DEF Kept
<1>8. CASE TileStored
  <2>1. D' = D /\ at[Leader] = "stored"
    BY <1>8, RoleFacts DEF TileStored, WarpgroupSync, output
  <2>. QED
    BY <1>2, <2>1 DEF Kept
<1>9. CASE IssueStore
  <2>1. /\ D' = D /\ at[Leader] = "store" /\ at'[Leader] = "drain"
        /\ store' = tile[Leader]
    BY <1>9, RoleFacts DEF IssueStore, Move, PipelineTypeOK
  <2>2. store' \in WorkTiles
    BY <2>1, LeaderTile
  <2>. QED
    BY <1>2, <2>1, <2>2, RoleFacts DEF Kept
<1>10. CASE DrainStore
  <2>1. D' = D /\ at[Leader] = "drain" /\ store = NoTile
    BY <1>10 DEF DrainStore, output
  <2>. QED
    BY <1>2, <2>1 DEF Kept
<1>11. CASE StoreLands
  <2>. DEFINE n == Begun(Leader)
  <2>1. store # NoTile /\ D' = [D EXCEPT ![store] = dsmem]
    BY <1>11 DEF StoreLands
  <2>2. at[Leader] = "drain" /\ store = tile[Leader]
    BY <2>1 DEF WritebackInv
  <2>3. /\ n \in Nat /\ n > 0 /\ store = begun[Leader][n]
        /\ \A j \in 1 .. n : begun[Leader][j] \in WorkTiles
    BY <2>2, LeaderTile
  <2>4. dsmem # NoRows
    <3>1. DOMAIN dsmem = Threads
      BY DEF PipelineTypeOK
    <3>2. DOMAIN NoRows = {}
      BY DEF NoRows
    <3>. QED
      BY <3>1, <3>2, RoleFacts
  <2>5. DOMAIN D = WorkTiles
    BY DEF PipelineTypeOK
  <2>6. ASSUME NEW j \in 1 .. n PROVE D'[begun[Leader][j]] # NoRows
    <3>1. CASE begun[Leader][j] = store
      BY <2>1, <2>3, <2>4, <2>5, <2>6, <3>1
    <3>2. CASE begun[Leader][j] # store
      <4>1. j < n
        BY <2>3, <2>6, <3>2
      <4>2. D[begun[Leader][j]] # NoRows
        BY <2>6, <4>1 DEF KeptInv
      <4>. QED
        BY <2>1, <2>3, <2>5, <2>6, <3>2, <4>2
    <3>. QED
      BY <3>1, <3>2
  <2>. HIDE DEF n
  <2>. QED
    BY <1>1, <2>6 DEF KeptInv, n
<1>12. CASE (\E f \in loads : LoadLands(f)) \/ TensorMma \/ TensorCommit
  BY <1>3, <1>12 DEF LoadLands, TensorMma, TensorCommit, output
<1>13. CASE Cleanup
  BY <1>3, <1>13 DEF Cleanup, output
<1>. QED
  BY <1>4, <1>5, <1>6, <1>7, <1>8, <1>9, <1>10, <1>11, <1>12, <1>13
     DEF PipelineStep, LeaderStep, Engine

LEMMA KeptLoop ==
  ASSUME PipeInv, KeptInv, NEW r \in Roles, NEW t \in WorkTiles \cup {NoTile},
         BeginTile(r, t) \/ EndLoop(r)
  PROVE  KeptInv'
<1>. USE DEF PipeInv
<1>1. D' = D /\ at[r] = "next" /\ store' = store
  BY DEF BeginTile, EndLoop, output
<1>2. CASE EndLoop(r)
  <2>1. begun' = begun /\ at' = [at EXCEPT ![r] = "end"]
    BY <1>2 DEF EndLoop, Move
  <2>2. Kept' => Kept
    BY <1>1, <2>1, RoleFacts DEF Kept, PipelineTypeOK
  <2>. QED
    BY <1>1, <2>1, <2>2 DEF KeptInv, Begun
<1>3. CASE BeginTile(r, t) /\ r # Leader
  <2>1. begun' = [begun EXCEPT ![r] = Append(begun[r], t)]
    BY <1>3 DEF BeginTile
  <2>2. begun'[Leader] = begun[Leader] /\ Begun(Leader)' = Begun(Leader)
    BY <1>3, <2>1, AppendBegun, RoleFacts
  <2>3. at'[Leader] = at[Leader]
    BY <1>3, RoleFacts DEF BeginTile, Move, PipelineTypeOK
  <2>. QED
    BY <1>1, <2>2, <2>3 DEF KeptInv, Kept
<1>4. CASE BeginTile(r, t) /\ r = Leader
  <2>. DEFINE n == Begun(Leader)
  <2>1. begun' = [begun EXCEPT ![Leader] = Append(begun[Leader], t)]
    BY <1>4 DEF BeginTile
  <2>2. n \in Nat /\ Begun(Leader)' = n + 1
        /\ \A i \in 1 .. n : begun'[Leader][i] = begun[Leader][i]
    BY <2>1, AppendBegun, CountFacts, RoleFacts
  <2>3. at'[Leader] = "wait" /\ Kept
    BY <1>1, <1>4, RoleFacts DEF BeginTile, Move, PipelineTypeOK, Kept
  <2>4. ~Kept'
    BY <2>3 DEF Kept
  <2>5. \A j \in 1 .. n : D[begun[Leader][j]] # NoRows
    BY <2>3 DEF KeptInv
  <2>. HIDE DEF n
  <2>6. ASSUME NEW j \in 1 .. n + 1, j < n + 1 PROVE D'[begun'[Leader][j]] # NoRows
    <3>1. j \in 1 .. n
      BY <2>2, <2>6
    <3>. QED
      BY <1>1, <2>2, <2>5, <3>1
  <2>. QED
    BY <2>2, <2>4, <2>6 DEF KeptInv
<1>. QED
  BY <1>2, <1>3, <1>4

LEMMA KeptInit ==
  ASSUME PipelineInit
  PROVE  KeptInv
BY RoleFacts DEF PipelineInit, KeptInv, Begun

LEMMA KeptStutter ==
  ASSUME KeptInv, UNCHANGED pipeVars
  PROVE  KeptInv'
BY DEF KeptInv, Kept, Begun, pipeVars, output

------------------------------------------------------------------------------
(***************************************************************************)
(* Larger steps, for a kernel whose lanes and leader are one program and   *)
(* that has no barrier on which the accumulator is released: lanes and     *)
(* leader begin a tile at once, the accumulator acquired, a thread         *)
(* releases the accumulator with its load, and several roles leave their   *)
(* loops at once.                                                          *)
(***************************************************************************)

AccTracked == accPs' = AcquireCursor' /\ ld2mma' = ReleaseBar'

OneLane == Lanes \cup {Leader}

BeginTogether(t) ==
  /\ \A r \in OneLane : at[r] = "next"
  /\ tile' = [r \in Roles |-> IF r \in OneLane THEN t ELSE tile[r]]
  /\ k' = [l \in Lanes |-> 0]
  /\ begun' = [r \in Roles |-> IF r \in OneLane THEN Append(begun[r], t) ELSE begun[r]]
  /\ at' = [at EXCEPT !["tma"] = "fill", !["mma"] = "issue", ![Leader] = "wait"]
  /\ AccTracked
  /\ UNCHANGED <<tma2mma, mma2tma, mma2ld, ring, wbPs, engines, output, exited>>

ReadAtOnce(w) ==
  /\ at[w] = "load"
  /\ regs' = [regs EXCEPT ![w] = tmem]
  /\ Move(w, "stage")
  /\ AccTracked
  /\ UNCHANGED <<tma2mma, mma2tma, mma2ld, tile, k, ring, wbPs, engines, dsmem, store, D,
                 exited, begun>>

EndLoops(R) ==
  /\ \A r \in R : at[r] = "next"
  /\ at' = [r \in Roles |-> IF r \in R THEN "end" ELSE at[r]]
  /\ UNCHANGED <<bars, tile, k, cursors, engines, output, exited, begun>>

LEMMA AccTypes ==
  ASSUME NEW a \in Nat, NEW H \in SUBSET Threads
  PROVE  /\ [stage |-> 0, phase |-> (a + 1) % 2] \in CursorType(1)
         /\ (IF H = {} THEN [phase |-> a % 2, pending |-> Cardinality(Threads), tx |-> 0]
             ELSE [phase |-> (a + 1) % 2, pending |-> Cardinality(H), tx |-> 0])
              \in BarType(Cardinality(Threads))
<1>. DEFINE N == Cardinality(Threads)
            h == Cardinality(H)
            p == a % 2
            q == (a + 1) % 2
<1>1. IsFiniteSet(Threads) /\ H \subseteq Threads
  BY RoleAssumption
<1>2. N \in Nat /\ h \in Nat /\ h =< N
  BY <1>1, FS_Subset, FS_CardinalityType
<1>3. p \in {0, 1} /\ q \in {0, 1}
  BY Flip
<1>. HIDE DEF N, h, p, q
<1>4. [stage |-> 0, phase |-> q] \in CursorType(1)
  BY <1>3 DEF CursorType
<1>5. [phase |-> p, pending |-> N, tx |-> 0] \in BarType(N)
      /\ [phase |-> q, pending |-> h, tx |-> 0] \in BarType(N)
  BY <1>2, <1>3 DEF BarType
<1>. QED
  BY <1>4, <1>5 DEF N, h, p, q

LEMMA AccTrackedTypes ==
  ASSUME AccTracked, Acquired' \in Nat
  PROVE  accPs' \in CursorType(1) /\ ld2mma' \in BarType(Cardinality(Threads))
<1>1. Holding' \in SUBSET Threads
  BY DEF Holding
<1>2. accPs' = [stage |-> 0, phase |-> (Acquired' + 1) % 2]
  BY DEF AccTracked, AcquireCursor
<1>3. ld2mma' = IF Holding' = {}
        THEN [phase |-> Acquired' % 2, pending |-> Cardinality(Threads), tx |-> 0]
        ELSE [phase |-> (Acquired' + 1) % 2, pending |-> Cardinality(Holding'), tx |-> 0]
  BY DEF AccTracked, ReleaseBar
<1>. QED
  BY <1>1, <1>2, <1>3, AccTypes

LEMMA AccTrackedFrame ==
  ASSUME AccInv, AccTracked, UNCHANGED <<mma2ld, wbPs>>, Ready' = Ready,
         \A w \in Threads : /\ Passed(w)' = Passed(w)
                            /\ Released(w)' \in {Acquired' - 1, Acquired'}
  PROVE  AccInv'
<1>1. ASSUME NEW w \in Threads
      PROVE  /\ wbPs'[w] = [stage |-> 0, phase |-> Passed(w)' % 2]
             /\ Passed(w)' =< Ready'
             /\ Released(w)' \in {Acquired' - 1, Acquired'}
  BY DEF AccInv
<1>. QED
  BY <1>1 DEF AccInv, AccTracked

LEMMA EndLoopsInv ==
  ASSUME PipeInv, NEW R \in SUBSET Roles, EndLoops(R)
  PROVE  PipeInv'
<1>. USE DEF PipeInv
<1>1. /\ \A r \in R : at[r] = "next" /\ at'[r] = "end"
      /\ \A q \in Roles \ R : at'[q] = at[q]
      /\ at' = [r \in Roles |-> IF r \in R THEN "end" ELSE at[r]]
      /\ UNCHANGED <<tma2mma, mma2tma, mma2ld, ld2mma, ring, accPs, wbPs, loads, smem,
                     tensorQ, tmem, regs, dsmem, store, D, exited, tile, k, begun>>
  BY DEF EndLoops, bars, cursors, engines, output
<1>2. \A q : Begun(q)' = Begun(q)
  BY <1>1 DEF Begun
<1>3. \A l \in Lanes : at'[l] = at[l] \/ (at[l] = "next" /\ at'[l] = "end")
  BY <1>1, RoleFacts
<1>4. /\ Signalled' = Signalled /\ Launched' = Launched /\ Issued' = Issued
      /\ Acquired' = Acquired /\ Committed' = Committed
  BY <1>1, <1>2, <1>3, RoleFacts DEF Signalled, Issued, Steps, Launched, Acquired, Committed
<1>5. First' = First
  BY <1>4 DEF First
<1>6. Executed' = Executed /\ Ready' = Ready
  BY <1>1, <1>4, <1>5 DEF Executed, Ops, Ready
<1>7. Spent' = Spent
  BY <1>5, <1>6 DEF Spent
<1>8. RoleInv'
  <2>1. at'["tma"] \in {"next", "fill", "expect", "end"}
        /\ at'["mma"] \in {"next", "acquire", "issue", "commit", "end"}
    BY <1>3, RoleFacts DEF RoleInv
  <2>2. \A l \in Lanes :
          /\ Begun(l) = 0 => at'[l] \in {"next", "end"} /\ k[l] = 0
          /\ at'[l] \in {"fill", "expect", "issue"} => k[l] < KTiles
          /\ at'[l] \in {"next", "commit", "end"} /\ Begun(l) > 0 => k[l] = KTiles
    BY <1>3 DEF RoleInv
  <2>3. at'["mma"] = "acquire" => k["mma"] = 0
    BY <1>3, RoleFacts DEF RoleInv
  <2>. QED
    BY <1>1, <1>2, <2>1, <2>2, <2>3 DEF RoleInv
<1>9. RingInv'
  BY <1>1, <1>4, <1>7, RingFrame DEF TensorCoreInv, Source
<1>10. TensorCoreInv'
  BY <1>1, <1>4, <1>5, <1>6, CoreFrame
<1>11. ASSUME NEW w \in Threads
       PROVE  /\ Passed(w)' = Passed(w) /\ Released(w)' = Released(w)
              /\ Done(w)' = Done(w) /\ Staged(w)' = Staged(w)
  <2>1. at'[w] = at[w] \/ (at[w] = "next" /\ at'[w] = "end")
    BY <1>1, RoleFacts
  <2>. QED
    BY <1>2, <2>1 DEF Passed, Released, Done, Staged
<1>12. AccInv'
  BY <1>1, <1>4, <1>6, <1>11, AccFrame
<1>13. WritebackInv'
  <2>1. \A w \in Threads : at'[w] = at[w] \/ (at[w] = "next" /\ at'[w] = "end")
    BY <1>1, RoleFacts
  <2>. QED
    BY <1>1, <1>2, <1>11, <2>1, RoleFacts DEF WritebackInv
<1>14. StoredInv' /\ ExitInv'
  BY <1>1, <1>2 DEF StoredInv, OutputCorrect, ExitInv
<1>15. PipelineTypeOK'
  BY <1>1 DEF PipelineTypeOK
<1>. QED
  BY <1>8, <1>9, <1>10, <1>12, <1>13, <1>14, <1>15

LEMMA ReadAtOnceInv ==
  ASSUME PipeInv, NEW w \in Threads, ReadAtOnce(w)
  PROVE  PipeInv'
<1>. USE DEF PipeInv
<1>1. /\ at[w] = "load" /\ at' = [at EXCEPT ![w] = "stage"]
      /\ regs' = [regs EXCEPT ![w] = tmem] /\ AccTracked
      /\ UNCHANGED <<tma2mma, mma2tma, mma2ld, ring, wbPs, loads, smem,
                     tensorQ, tmem, dsmem, store, D, exited, tile, k, begun>>
  BY DEF ReadAtOnce, Move, engines
<1>2. at'[w] = "stage" /\ \A q \in Roles \ {w} : at'[q] = at[q]
  BY <1>1, RoleFacts DEF PipelineTypeOK
<1>3. /\ RoleInv' /\ RingInv' /\ TensorCoreInv' /\ Acquired' = Acquired /\ Ready' = Ready
      /\ \A r \in Roles : Begun(r)' = Begun(r)
  BY <1>1, <1>2, ThreadFrame, RoleFacts
<1>4. /\ Begun(w) = Acquired /\ tmem = Product(begun["tma"][Acquired]) /\ Acquired \in Nat
  BY <1>1, ReadersSeeWhole, CountFacts
<1>5. AccInv'
  <2>1. ASSUME NEW v \in Threads
        PROVE  Passed(v)' = Passed(v) /\ Released(v)' \in {Acquired' - 1, Acquired'}
    <3>1. CASE v = w
      BY <1>1, <1>2, <1>3, <1>4, <3>1, RoleFacts DEF Passed, Released
    <3>2. CASE v # w
      BY <1>2, <1>3, <3>2, RoleFacts DEF Passed, Released, AccInv
    <3>. QED
      BY <3>1, <3>2
  <2>. QED
    BY <1>1, <1>3, <2>1, AccTrackedFrame
<1>6. WritebackInv' /\ StoredInv' /\ ExitInv'
  <2>1. regs'[w] = Product(begun["tma"][Begun(w)])
        /\ \A v \in Threads \ {w} : regs'[v] = regs[v]
    BY <1>1, <1>4 DEF PipelineTypeOK
  <2>. QED
    BY <1>1, <2>1, OneThreadInv
<1>7. PipelineTypeOK'
  BY <1>1, <1>3, <1>4, AccTrackedTypes DEF PipelineTypeOK
<1>. QED
  BY <1>3, <1>5, <1>6, <1>7

LEMMA BeginTogetherInv ==
  ASSUME PipeInv, NEW t \in WorkTiles, BeginTogether(t),
         Begun("tma") = Begun(Leader), Begun("mma") = Begun(Leader)
  PROVE  PipeInv'
<1>. USE DEF PipeInv
<1>. DEFINE n == Begun(Leader)
<1>1. /\ at["tma"] = "next" /\ at["mma"] = "next" /\ at[Leader] = "next"
      /\ at' = [at EXCEPT !["tma"] = "fill", !["mma"] = "issue", ![Leader] = "wait"]
      /\ tile' = [r \in Roles |-> IF r \in OneLane THEN t ELSE tile[r]]
      /\ k' = [l \in Lanes |-> 0]
      /\ begun' = [r \in Roles |-> IF r \in OneLane THEN Append(begun[r], t) ELSE begun[r]]
      /\ AccTracked
      /\ UNCHANGED <<tma2mma, mma2tma, mma2ld, ring, wbPs, loads, smem, tensorQ, tmem,
                     regs, dsmem, store, D, exited>>
  BY RoleFacts DEF BeginTogether, OneLane, engines, output
<1>2. /\ \A r \in Roles : Begun(r) \in Nat /\ begun[r] \in Seq(WorkTiles \cup {NoTile})
      /\ t \in WorkTiles \cup {NoTile} /\ OneLane \subseteq Roles
  BY CountFacts, RoleFacts DEF PipelineTypeOK, OneLane
<1>3. \A r \in OneLane :
        /\ Begun(r) = n /\ Begun(r)' = n + 1 /\ begun'[r][n + 1] = t
        /\ \A i \in 1 .. n : begun'[r][i] = begun[r][i]
        /\ tile'[r] = t
  <2>. TAKE r \in OneLane
  <2>1. Begun(r) = n
    BY DEF OneLane, Lanes
  <2>2. begun'[r] = Append(begun[r], t) /\ begun[r] \in Seq(WorkTiles \cup {NoTile})
    BY <1>1, <1>2
  <2>. QED
    BY <1>1, <1>2, <2>1, <2>2 DEF Begun
<1>4. \A q \in Roles \ OneLane :
        /\ begun'[q] = begun[q] /\ Begun(q)' = Begun(q) /\ tile'[q] = tile[q]
        /\ at'[q] = at[q]
  BY <1>1 DEF Begun, OneLane, Lanes, PipelineTypeOK
<1>5. /\ at'["tma"] = "fill" /\ at'["mma"] = "issue" /\ at'[Leader] = "wait"
      /\ k'["tma"] = 0 /\ k'["mma"] = 0 /\ n \in Nat
      /\ "tma" \in OneLane /\ "mma" \in OneLane /\ Leader \in OneLane
      /\ \A w \in Threads \ {Leader} : w \in Roles \ OneLane
  BY <1>1, <1>2, RoleFacts DEF PipelineTypeOK, OneLane
<1>6. /\ Acquired = n /\ Ready = n /\ Committed /\ tensorQ = <<>>
      /\ \A w \in Threads : Released(w) = n /\ Passed(w) = n
  <2>1. Acquired = n /\ Committed
    BY <1>1, <1>3, <1>5 DEF Acquired, Committed
  <2>2. Ready \in {n - 1, n} /\ n \in Nat
    BY <1>5, <2>1, CoreFacts DEF TensorCoreInv
  <2>3. Done(Leader) = n
    BY <1>1 DEF Done
  <2>4. ASSUME NEW w \in Threads PROVE Released(w) = n /\ Passed(w) = n
    <3>1. Done(w) = n /\ Passed(w) =< Ready /\ Begun(w) \in Nat
      BY <1>2, <2>3, RoleFacts DEF WritebackInv, AccInv
    <3>2. CASE at[w] \in {"next", "end"}
      BY <3>1, <3>2 DEF Done, Passed, Released
    <3>3. CASE at[w] \notin {"next", "end"}
      <4>1. Begun(w) = n + 1
        BY <3>1, <3>3, <2>2 DEF Done
      <4>2. at[w] = "wait"
        BY <2>2, <3>1, <4>1 DEF Passed
      <4>. QED
        BY <2>2, <4>1, <4>2 DEF Passed, Released
    <3>. QED
      BY <3>2, <3>3
  <2>5. Ready = n
    <3>1. Passed(Leader) = n /\ Passed(Leader) =< Ready
      BY <2>4, RoleFacts DEF AccInv
    <3>. QED
      BY <2>2, <3>1
  <2>6. tensorQ = <<>>
    BY <2>1, <2>2, <2>5 DEF Ready
  <2>. QED
    BY <2>1, <2>4, <2>5, <2>6
<1>7. \A l \in Lanes : Steps(l) = Base(n) /\ Steps(l)' = Base(n)
  <2>. TAKE l \in Lanes
  <2>1. Begun(l) = n /\ Begun(l)' = n + 1 /\ at[l] = "next" /\ k'[l] = 0
    BY <1>1, <1>3 DEF OneLane, Lanes
  <2>2. Steps(l) = Base(n)
    <3>1. CASE n = 0
      BY <2>1, <3>1, BaseFacts DEF Steps
    <3>2. CASE n > 0
      <4>1. Steps(l) = Base(n - 1) + KTiles /\ n - 1 \in Nat /\ (n - 1) + 1 = n
        BY <1>5, <2>1, <3>2, RoleFacts DEF Steps, RoleInv
      <4>. QED
        BY <4>1, BaseFacts
    <3>. QED
      BY <1>5, <3>1, <3>2
  <2>3. Steps(l)' = Base((n + 1) - 1) + 0 /\ (n + 1) - 1 = n
    BY <1>5, <2>1 DEF Steps
  <2>. QED
    BY <1>5, <2>2, <2>3, BaseFacts
<1>8. /\ Signalled = Base(n) /\ Signalled' = Base(n) /\ Issued = Base(n) /\ Issued' = Base(n)
      /\ Launched = Base(n) /\ Launched' = Base(n) /\ Base(n) \in Nat
  BY <1>1, <1>5, <1>7, BaseFacts, RoleFacts DEF Signalled, Issued, Launched
<1>9. Acquired' = n + 1 /\ ~Committed' /\ First' = Base(n) /\ Ready' = n
  <2>1. Acquired' = n + 1
    BY <1>3, <1>5 DEF Acquired
  <2>2. ~Committed'
    BY <1>5 DEF Committed
  <2>3. First' = Base((n + 1) - 1) /\ (n + 1) - 1 = n
    BY <1>5, <2>1 DEF First
  <2>4. Ready' = (n + 1) - 1
    BY <2>1, <2>2 DEF Ready
  <2>. QED
    BY <1>5, <2>1, <2>2, <2>3, <2>4
<1>10. Executed' = 0 /\ Spent' = Base(n) /\ Multiplied' = 0
  <2>1. Ops' = 0
    BY <1>8, <1>9 DEF Ops
  <2>2. Len(tensorQ') = 0
    BY <1>1, <1>6
  <2>3. Executed' = 0
    BY <2>1, <2>2 DEF Executed
  <2>. QED
    BY <1>8, <1>9, <2>3, RoleFacts DEF Spent, Multiplied
<1>11. Spent = Base(n)
  <2>1. /\ First \in Nat /\ (Acquired = 0 => First = 0 /\ Ops = 0)
        /\ (Acquired > 0 => Issued = First + KTiles /\ Ops = 2 * KTiles + 1)
        /\ Executed = Ops
    BY <1>6, CountFacts, CoreFacts DEF TensorCoreInv
  <2>2. CASE n = 0
    BY <1>6, <2>1, <2>2, BaseFacts DEF Spent
  <2>3. CASE n > 0
    <3>1. KTiles \in Nat /\ (2 * KTiles + 1) \div 2 = KTiles
      BY RoleFacts
    <3>. QED
      BY <1>6, <1>8, <2>1, <2>3, <3>1 DEF Spent
  <2>. QED
    BY <1>5, <2>2, <2>3
<1>12. \A i \in 0 .. Launched - 1 : Source(i)' = Source(i)
  <2>. TAKE i \in 0 .. Launched - 1
  <2>1. i \in Nat /\ i < Base(n)
    BY <1>8
  <2>2. i \div KTiles + 1 \in 1 .. n
    BY <1>5, <2>1, TileBefore
  <2>. QED
    BY <1>3, <1>5, <2>2 DEF Source
<1>13. ASSUME NEW w \in Threads
       PROVE  /\ Passed(w)' = Passed(w) /\ Released(w)' = Released(w)
              /\ Done(w)' = Done(w) /\ Staged(w)' = Staged(w)
  <2>1. CASE w = Leader
    <3>1. Begun(w)' = n + 1 /\ at'[w] = "wait" /\ Begun(w) = n /\ at[w] = "next"
      BY <1>1, <1>3, <1>5, <2>1
    <3>. QED
      BY <1>5, <3>1 DEF Passed, Released, Done, Staged
  <2>2. CASE w # Leader
    <3>1. Begun(w)' = Begun(w) /\ at'[w] = at[w]
      BY <1>4, <1>5, <2>2
    <3>. QED
      BY <3>1 DEF Passed, Released, Done, Staged
  <2>. QED
    BY <2>1, <2>2
<1>14. RoleInv'
  <2>1. \A r \in Roles : Begun(r)' > 0 => tile'[r] = begun'[r][Begun(r)']
    <3>. TAKE r \in Roles
    <3>1. CASE r \in OneLane
      BY <1>3, <3>1
    <3>2. CASE r \notin OneLane
      BY <1>4, <3>2 DEF RoleInv
    <3>. QED
      BY <3>1, <3>2
  <2>2. \A l \in Lanes : k'[l] = 0 /\ Begun(l)' = n + 1 /\ at'[l] \in {"fill", "issue"}
    BY <1>3, <1>5 DEF OneLane, Lanes
  <2>. QED
    BY <1>5, <2>1, <2>2, RoleFacts DEF RoleInv
<1>15. RingInv'
  BY <1>1, <1>8, <1>10, <1>11, <1>12, RingFrame DEF TensorCoreInv
<1>16. TensorCoreInv'
  BY <1>1, <1>6, <1>10 DEF TensorCoreInv, TensorInv, TmemInv
<1>17. AccInv'
  <2>1. ASSUME NEW w \in Threads
        PROVE  Passed(w)' = Passed(w) /\ Released(w)' \in {Acquired' - 1, Acquired'}
    <3>1. Released(w)' = n /\ (n + 1) - 1 = n
      BY <1>5, <1>6, <1>13
    <3>. QED
      BY <1>9, <1>13, <3>1
  <2>2. Ready' = Ready
    BY <1>6, <1>9
  <2>. QED
    BY <1>1, <2>1, <2>2, AccTrackedFrame
<1>18. WritebackInv'
  <2>1. \A w \in Threads \ {Leader} :
          /\ at'[w] = at[w] /\ Begun(w)' = Begun(w)
          /\ at[w] \in {"release", "stage", "staged", "store", "drain", "stored"} =>
               begun'["tma"][Begun(w)] = begun["tma"][Begun(w)]
    <3>. TAKE w \in Threads \ {Leader}
    <3>1. at'[w] = at[w] /\ Begun(w)' = Begun(w)
      BY <1>4, <1>5
    <3>2. ASSUME at[w] \in {"release", "stage", "staged", "store", "drain", "stored"}
          PROVE  begun'["tma"][Begun(w)] = begun["tma"][Begun(w)]
      <4>1. Begun(w) \in 1 .. Begun("tma") /\ Begun("tma") = n
        BY <3>2, WritebackBehind
      <4>. QED
        BY <1>3, <1>5, <4>1
    <3>. QED
      BY <3>1, <3>2
  <2>2. ASSUME NEW w \in Threads \ {Leader}
        PROVE  /\ at'[w] \in {"release", "stage"} =>
                    regs'[w] = Product(begun'["tma"][Begun(w)'])
               /\ at'[w] \in {"staged", "store", "drain", "stored"} =>
                    dsmem'[w] = Product(begun'["tma"][Begun(w)'])
               /\ at'[w] = at[w] /\ Begun(w)' = Begun(w)
    BY <1>1, <2>1 DEF WritebackInv
  <2>3. store' = NoTile
    BY <1>1 DEF WritebackInv
  <2>4. Begun(Leader)' # 0
    BY <1>3, <1>5
  <2>. QED
    BY <1>5, <1>13, <2>2, <2>3, <2>4, RoleFacts DEF WritebackInv
<1>19. StoredInv'
  <2>1. \A j \in 1 .. Begun(Leader) :
          j \in 1 .. Begun(Leader)' /\ begun'[Leader][j] = begun[Leader][j]
    BY <1>3, <1>5
  <2>. QED
    BY <1>1, <2>1 DEF StoredInv, OutputCorrect
<1>20. ExitInv'
  BY <1>1, RoleFacts DEF ExitInv
<1>21. PipelineTypeOK'
  <2>1. begun' \in [Roles -> Seq(WorkTiles \cup {NoTile})]
    <3>1. \A r \in Roles : (IF r \in OneLane THEN Append(begun[r], t) ELSE begun[r])
                             \in Seq(WorkTiles \cup {NoTile})
      BY <1>2
    <3>. QED
      BY <1>1, <3>1
  <2>2. /\ tile' \in [Roles -> WorkTiles \cup {NoTile}]
        /\ k' \in [Lanes -> 0 .. KTiles]
    BY <1>1, <1>2, RoleFacts DEF PipelineTypeOK
  <2>3. at' \in [Roles -> {"next", "fill", "expect", "acquire", "issue", "commit", "wait",
                           "load", "release", "stage", "staged", "store", "drain",
                           "stored", "end"}]
    BY <1>1 DEF PipelineTypeOK
  <2>4. accPs' \in CursorType(1) /\ ld2mma' \in BarType(Cardinality(Threads))
    <3>1. Acquired' \in Nat
      BY <1>5, <1>9
    <3>. QED
      BY <1>1, <3>1, AccTrackedTypes
  <2>. QED
    BY <1>1, <2>1, <2>2, <2>3, <2>4 DEF PipelineTypeOK
<1>. QED
  BY <1>14, <1>15, <1>16, <1>17, <1>18, <1>19, <1>20, <1>21
=============================================================================
