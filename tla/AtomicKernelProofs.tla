-------------------------- MODULE AtomicKernelProofs -------------------------
(***************************************************************************)
(* Proofs about V2-V4, from the queue up: AtomicQueue for every mode,      *)
(* worklist, claim size and set of CTAs within WidthAssumption;            *)
(* AtomicMailbox for every number of writeback threads over any such       *)
(* queue; AtomicKernel, in which the mailbox gives every role the same     *)
(* sequence of tiles, which is what the pipeline (PipelineProofs) asks of  *)
(* its kernel.                                                             *)
(***************************************************************************)
EXTENDS AtomicKernel, PipelineProofs, FiniteSetTheorems, TLAPS

------------------------------------------------------------------------------
(* The queue (AtomicQueue)                                                 *)

Inv == TypeOK /\ QueueInv

------------------------------------------------------------------------------
(* Constants and arithmetic                                                *)

LEMMA ConstantFacts ==
  /\ TileCount \in Nat /\ TileCount > 0
  /\ ClaimSize \in Nat /\ ClaimSize > 0
  /\ MaxInt \in Nat /\ TileCount =< MaxInt /\ ClaimSize =< MaxInt
  /\ MainEnd \in 0 .. TileCount
  /\ ChunkLimit \in 0 .. TileCount
  /\ Hybrid \in BOOLEAN
  /\ ~Hybrid => ChunkLimit = TileCount
  /\ Hybrid => ChunkLimit = MainEnd
<1>. DEFINE n == Cardinality(CTAs)
<1>1. n \in Nat
  BY QueueAssumption, FS_CardinalityType
<1>2. /\ ClaimSize * n \in Nat
      /\ ClaimSize * (n + 1) = ClaimSize * n + ClaimSize
  BY <1>1, QueueAssumption
<1>3. TileCount + ClaimSize * (n + 1) =< MaxInt + 1
  BY WidthAssumption
<1>. HIDE DEF n
<1>4. TileCount =< MaxInt /\ ClaimSize =< MaxInt
  BY <1>2, <1>3, QueueAssumption
<1>. QED
  BY <1>4, QueueAssumption DEF MainEnd, ChunkLimit, Smaller, Hybrid

\* Below the type's limit the machine's sum is the sum.
LEMMA WrapAddFits ==
  ASSUME NEW a \in Int, NEW b \in Nat, a + b =< MaxInt
  PROVE  WrapAdd(a, b) = a + b
BY ConstantFacts DEF WrapAdd

\* The machine's sum always fits the heads' type.
LEMMA WrapAddType ==
  ASSUME NEW a \in IntType, NEW b \in Nat, b =< MaxInt
  PROVE  WrapAdd(a, b) \in IntType
BY ConstantFacts DEF WrapAdd, IntType

\* One lane fewer leaves room for one more claim.
LEMMA Room ==
  ASSUME NEW s \in Nat, NEW m \in Nat, NEW n \in Nat, m < n
  PROVE  s * m + s =< s * n
<1>1. m + 1 =< n
  OBVIOUS
<1>2. s * (m + 1) =< s * n
  BY <1>1
<1>. QED
  BY <1>2

LEMMA CardOfLanes ==
  ASSUME NEW S \in SUBSET CTAs
  PROVE  /\ IsFiniteSet(S) /\ Cardinality(S) \in Nat
         /\ Cardinality(CTAs) \in Nat
         /\ Cardinality(S) =< Cardinality(CTAs)
         /\ \A c \in CTAs \ S :
              /\ Cardinality(S) < Cardinality(CTAs)
              /\ Cardinality(S \cup {c}) = Cardinality(S) + 1
<1>1. IsFiniteSet(S) /\ Cardinality(S) =< Cardinality(CTAs)
      /\ (Cardinality(CTAs) = Cardinality(S) => CTAs = S)
  BY QueueAssumption, FS_Subset
<1>2. Cardinality(S) \in Nat /\ Cardinality(CTAs) \in Nat
  BY <1>1, QueueAssumption, FS_CardinalityType
<1>3. \A c \in CTAs \ S : Cardinality(S \cup {c}) = Cardinality(S) + 1
  BY <1>1, FS_AddElement
<1>. QED
  BY <1>1, <1>2, <1>3

\* A lane that has not left the main region can claim from it without wrapping.
LEMMA MainHeadFits ==
  ASSUME TypeOK, HeadBounds, NEW c \in CTAs, ~PastMain(c)
  PROVE  heads[0] + ClaimSize =< MaxInt
<1>1. c \in CTAs \ PastMainSet /\ PastMainSet \in SUBSET CTAs
  BY DEF PastMainSet
<1>. DEFINE m == Cardinality(PastMainSet)
            n == Cardinality(CTAs)
<1>2. m \in Nat /\ n \in Nat /\ m < n
  BY <1>1, CardOfLanes
<1>3. ClaimSize * m + ClaimSize =< ClaimSize * n
  BY <1>2, ConstantFacts, Room
<1>4. ClaimSize * (n + 1) = ClaimSize * n + ClaimSize
  BY <1>2, ConstantFacts
<1>5. ClaimSize * m \in Nat /\ ClaimSize * n \in Nat
  BY <1>2, ConstantFacts
<1>6. heads[0] =< ChunkLimit + ClaimSize - 1 + ClaimSize * m
  BY DEF HeadBounds
<1>7. TileCount + ClaimSize * (n + 1) =< MaxInt + 1
  BY WidthAssumption
<1>8. heads[0] \in Int
  BY DEF TypeOK, IntType
<1>. HIDE DEF m, n
<1>. QED
  BY <1>3, <1>4, <1>5, <1>6, <1>7, <1>8, ConstantFacts

\* A lane that has not run past the tail can claim from it without wrapping.
LEMMA TailHeadFits ==
  ASSUME TypeOK, HeadBounds, NEW c \in CTAs, ~PastTail(c)
  PROVE  heads[1] + 1 =< MaxInt
<1>1. c \in CTAs \ PastTailSet /\ PastTailSet \in SUBSET CTAs
  BY DEF PastTailSet
<1>. DEFINE m == Cardinality(PastTailSet)
            n == Cardinality(CTAs)
<1>2. m \in Nat /\ n \in Nat /\ m < n
  BY <1>1, CardOfLanes
<1>3. n + 1 =< ClaimSize * (n + 1)
  BY <1>2, ConstantFacts
<1>4. ClaimSize * (n + 1) \in Nat
  BY <1>2, ConstantFacts
<1>5. heads[1] =< TileCount + m
  BY DEF HeadBounds
<1>6. TileCount + ClaimSize * (n + 1) =< MaxInt + 1
  BY WidthAssumption
<1>7. heads[1] \in Int
  BY DEF TypeOK, IntType
<1>. HIDE DEF m, n
<1>. QED
  BY <1>2, <1>3, <1>4, <1>5, <1>6, <1>7, ConstantFacts

------------------------------------------------------------------------------
(* Types                                                                   *)

LEMMA TypeOK_Init == Init => TypeOK
BY ConstantFacts DEF Init, TypeOK, IntType, QueueInitialValues, Tiles

LEMMA TypeOK_Step ==
  ASSUME TypeOK, [Next]_queueVars
  PROVE  TypeOK'
<1>. USE DEF TypeOK
<1>1. ASSUME NEW c \in CTAs, SlotEmpty(c) PROVE TypeOK'
  BY <1>1 DEF SlotEmpty, Goto
<1>2. ASSUME NEW c \in CTAs, ClaimMain(c) PROVE TypeOK'
  <2>1. heads[0] \in IntType /\ WrapAdd(heads[0], ClaimSize) \in IntType
    BY ConstantFacts, WrapAddType
  <2>2. Smaller(WrapAdd(heads[0], ClaimSize), ChunkLimit)
          \in {n \in IntType : n =< TileCount}
    BY <2>1, ConstantFacts DEF Smaller, IntType
  <2>. QED
    BY <1>2, <2>1, <2>2 DEF ClaimMain, AtomicAdd, TakeChunk, Goto
<1>3. ASSUME NEW c \in CTAs, LeaveMain(c) PROVE TypeOK'
  <2>1. heads[0] \in IntType /\ WrapAdd(heads[0], ClaimSize) \in IntType
    BY ConstantFacts, WrapAddType
  <2>. QED
    BY <1>3, <2>1 DEF LeaveMain, AtomicAdd, Goto
<1>4. ASSUME NEW c \in CTAs, ClaimTail(c) PROVE TypeOK'
  <2>1. heads[1] \in IntType /\ WrapAdd(heads[1], 1) \in IntType
    BY ConstantFacts, WrapAddType
  <2>2. Smaller(WrapAdd(heads[1], 1), TileCount)
          \in {n \in IntType : n =< TileCount}
    BY <2>1, ConstantFacts DEF Smaller, IntType
  <2>. QED
    BY <1>4, <2>1, <2>2 DEF ClaimTail, AtomicAdd, TakeChunk, Goto
<1>5. ASSUME NEW c \in CTAs, Publish(c) PROVE TypeOK'
  <2>1. chunkNext[c] \in IntType /\ chunkNext[c] + 1 \in IntType
    BY <1>5, ConstantFacts DEF Publish, IntType
  <2>2. \A t \in Tiles : visits[t] \in Nat /\ visits[t] + 1 \in Nat
    OBVIOUS
  <2>. QED
    BY <1>5, <2>1, <2>2 DEF Publish, Goto
<1>6. ASSUME NEW c \in CTAs, PublishDone(c) PROVE TypeOK'
  BY <1>6 DEF PublishDone, Goto
<1>7. CASE UNCHANGED queueVars
  BY <1>7 DEF queueVars
<1>. QED
  BY <1>1, <1>2, <1>3, <1>4, <1>5, <1>6, <1>7 DEF Next, Lane, Finished

------------------------------------------------------------------------------
(* The initial state and the steps of one lane                             *)

LEMMA QueueInv_Init == Init => QueueInv
<1>. SUFFICES ASSUME Init PROVE QueueInv
  OBVIOUS
<1>1. \A c \in CTAs : LaneInv(c)
  BY ConstantFacts DEF Init, LaneInv
<1>2. Partition
  <2>1. \A t \in Tiles : t \in Unclaimed /\ visits[t] = 0
    BY ConstantFacts DEF Init, Unclaimed, Tiles, QueueInitialValues
  <2>2. \A c \in CTAs : Pending(c) = {}
    BY DEF Init, Pending
  <2>. QED
    BY <2>1, <2>2 DEF Partition, Unclaimed
<1>3. HeadBounds
  <2>1. PastMainSet = {} /\ PastTailSet = {}
    BY DEF Init, PastMainSet, PastTailSet, PastMain, PastTail
  <2>2. Cardinality(PastMainSet) = 0 /\ Cardinality(PastTailSet) = 0
    BY <2>1, FS_EmptySet
  <2>3. ClaimSize * 0 = 0
    BY ConstantFacts
  <2>. QED
    BY <2>2, <2>3, ConstantFacts DEF Init, HeadBounds, QueueInitialValues
<1>. QED
  BY <1>1, <1>2, <1>3 DEF QueueInv

LEMMA SlotEmptyInv ==
  ASSUME TypeOK, QueueInv, NEW c \in CTAs, SlotEmpty(c)
  PROVE  QueueInv'
<1>. USE DEF TypeOK, IntType
<1>1. /\ UNCHANGED <<heads, chunkNext, chunkEnd, usingTail, visits>>
      /\ pc[c] = "slot" /\ pc'[c] \in {"publish", "tail", "claim"}
      /\ pc'[c] = "publish" => chunkNext[c] < chunkEnd[c]
      /\ pc'[c] # "publish" => chunkNext[c] >= chunkEnd[c]
      /\ pc'[c] = "tail" => usingTail[c]
      /\ pc'[c] = "claim" => ~usingTail[c]
      /\ \A d \in CTAs \ {c} : pc'[d] = pc[d]
  BY DEF SlotEmpty, Goto
<1>2. \A d \in CTAs : LaneInv(d)' 
  <2>1. Unclaimed' = Unclaimed
    BY <1>1 DEF Unclaimed
  <2>2. LaneInv(c)'
    BY <1>1, <2>1, ConstantFacts DEF QueueInv, LaneInv
  <2>3. \A d \in CTAs \ {c} : LaneInv(d)'
    BY <1>1, <2>1 DEF QueueInv, LaneInv
  <2>. QED
    BY <2>2, <2>3
<1>3. Partition'
  BY <1>1 DEF QueueInv, Partition, Unclaimed, Pending
<1>4. HeadBounds'
  <2>1. ASSUME NEW d \in CTAs
        PROVE  (PastMain(d)' <=> PastMain(d)) /\ (PastTail(d)' <=> PastTail(d))
    <3>1. LaneInv(d)
      BY DEF QueueInv
    <3>2. CASE d = c
      BY <1>1, <3>1, <3>2, ConstantFacts DEF LaneInv, PastMain, PastTail
    <3>3. CASE d # c
      BY <1>1, <3>3 DEF PastMain, PastTail
    <3>. QED
      BY <3>2, <3>3
  <2>2. PastMainSet' = PastMainSet /\ PastTailSet' = PastTailSet
    BY <2>1 DEF PastMainSet, PastTailSet
  <2>. QED
    BY <1>1, <2>2 DEF QueueInv, HeadBounds, QueueInitialValues
<1>. QED
  BY <1>2, <1>3, <1>4 DEF QueueInv

\* What a claim does to the partition: lane c, which held nothing, takes its new
\* chunk out of the unclaimed tiles.  An empty chunk is a claim past the end.
LEMMA ClaimKeepsPartition ==
  ASSUME Partition, NEW c \in CTAs,
         Pending(c) = {},
         Pending(c)' \subseteq Unclaimed,
         Unclaimed' = Unclaimed \ Pending(c)',
         \A d \in CTAs \ {c} : Pending(d)' = Pending(d),
         visits' = visits
  PROVE  Partition'
<1>1. \A t \in Tiles : visits'[t] \in {0, 1}
  BY DEF Partition
<1>2. \A t \in Unclaimed' : visits'[t] = 0
  BY DEF Partition
<1>3. \A d \in CTAs : \A t \in Pending(d)' :
        t \in Tiles /\ t \notin Unclaimed' /\ visits'[t] = 0
  <2>1. Unclaimed \subseteq Tiles
    BY DEF Unclaimed
  <2>. QED
    BY <2>1 DEF Partition
<1>4. \A d, e \in CTAs : d # e => Pending(d)' \cap Pending(e)' = {}
  BY DEF Partition
<1>5. \A t \in Tiles : t \notin Unclaimed' /\ visits'[t] = 0 =>
        \E d \in CTAs : t \in Pending(d)'
  <2>. TAKE t \in Tiles
  <2>. HAVE t \notin Unclaimed' /\ visits'[t] = 0
  <2>1. CASE t \in Pending(c)'
    BY <2>1
  <2>2. CASE t \notin Pending(c)'
    <3>1. PICK d \in CTAs : t \in Pending(d)
      BY <2>2 DEF Partition
    <3>. QED
      BY <3>1
  <2>. QED
    BY <2>1, <2>2
<1>. QED
  BY <1>1, <1>2, <1>3, <1>4, <1>5 DEF Partition

\* A claim takes its chunk out of the unclaimed tiles.
LEMMA ClaimMainEffect ==
  ASSUME TypeOK, QueueInv, NEW c \in CTAs, ClaimMain(c)
  PROVE  /\ Pending(c) = {} /\ Pending(c)' \subseteq Unclaimed
         /\ Unclaimed' = Unclaimed \ Pending(c)'
         /\ \A d \in CTAs \ {c} : Pending(d)' = Pending(d)
         /\ visits' = visits
<1>. USE DEF TypeOK, IntType
<1>. DEFINE b == heads[0]
            e == Smaller(b + ClaimSize, ChunkLimit)
<1>1. /\ LaneInv(c) /\ pc[c] = "claim" /\ ~usingTail[c] /\ Pending(c) = {}
      /\ ~PastMain(c) /\ b \in Nat /\ heads[1] \in Int
  BY ConstantFacts DEF ClaimMain, QueueInv, LaneInv, Pending, PastMain, HeadBounds
<1>2. WrapAdd(b, ClaimSize) = b + ClaimSize
  <2>1. b + ClaimSize =< MaxInt
    BY <1>1, MainHeadFits DEF QueueInv
  <2>. QED
    BY <2>1, <1>1, ConstantFacts, WrapAddFits
<1>3. /\ heads'[0] = b + ClaimSize /\ heads'[1] = heads[1]
      /\ chunkNext'[c] = b /\ chunkEnd'[c] = e /\ pc'[c] = "publish"
      /\ usingTail' = usingTail /\ visits' = visits
      /\ \A d \in CTAs \ {c} : /\ chunkNext'[d] = chunkNext[d]
                               /\ chunkEnd'[d] = chunkEnd[d]
                               /\ pc'[d] = pc[d]
      /\ Hybrid => b < MainEnd
  BY <1>1, <1>2 DEF ClaimMain, AtomicAdd, TakeChunk, Goto
<1>4. /\ e \in Int /\ e =< ChunkLimit /\ e =< b + ClaimSize
      /\ b < ChunkLimit => b < e
      /\ e = b + ClaimSize \/ e = ChunkLimit
  BY <1>1, ConstantFacts DEF Smaller
<1>. HIDE DEF b, e
<1>5. /\ Pending(c)' = b .. e - 1
      /\ \A d \in CTAs \ {c} : Pending(d)' = Pending(d)
  BY <1>3 DEF Pending
<1>6. /\ Pending(c)' \subseteq Unclaimed
      /\ Unclaimed' = Unclaimed \ Pending(c)'
  <2>1. \A t \in Int : t \in Pending(c)' <=> b =< t /\ t < e
    BY <1>1, <1>4, <1>5
  <2>2. Pending(c)' \subseteq Int
    BY <1>1, <1>4, <1>5
  <2>3. \A t \in Int : t \in Unclaimed <=>
          t \in Tiles /\ (IF t < ChunkLimit THEN t >= b ELSE t >= heads[1])
    BY DEF Unclaimed, b
  <2>4. \A t \in Int : t \in Unclaimed' <=>
          t \in Tiles /\ (IF t < ChunkLimit THEN t >= b + ClaimSize ELSE t >= heads[1])
    BY <1>3 DEF Unclaimed
  <2>5. \A t \in Int : t \in Tiles <=> 0 =< t /\ t < TileCount
    BY ConstantFacts DEF Tiles
  <2>6. Unclaimed \subseteq Int /\ Unclaimed' \subseteq Int
    BY ConstantFacts DEF Unclaimed, Tiles
  <2>7. \A t \in Int : t \in Pending(c)' => t \in Unclaimed
    BY <1>1, <1>4, <2>1, <2>3, <2>5, ConstantFacts
  <2>8. \A t \in Int : t \in Unclaimed' <=> t \in Unclaimed /\ t \notin Pending(c)'
    BY <1>1, <1>4, <2>1, <2>3, <2>4, <2>5, ConstantFacts
  <2>. QED
    BY <2>2, <2>6, <2>7, <2>8
<1>. QED
  BY <1>1, <1>3, <1>5, <1>6

LEMMA ClaimMainInv ==
  ASSUME TypeOK, QueueInv, NEW c \in CTAs, ClaimMain(c)
  PROVE  QueueInv'
<1>. USE DEF TypeOK, IntType
<1>. DEFINE b == heads[0]
            e == Smaller(b + ClaimSize, ChunkLimit)
<1>1. /\ LaneInv(c) /\ pc[c] = "claim" /\ ~usingTail[c] /\ Pending(c) = {}
      /\ ~PastMain(c) /\ b \in Nat /\ heads[1] \in Int
  BY ConstantFacts DEF ClaimMain, QueueInv, LaneInv, Pending, PastMain, HeadBounds
<1>2. WrapAdd(b, ClaimSize) = b + ClaimSize
  <2>1. b + ClaimSize =< MaxInt
    BY <1>1, MainHeadFits DEF QueueInv
  <2>. QED
    BY <2>1, <1>1, ConstantFacts, WrapAddFits
<1>3. /\ heads'[0] = b + ClaimSize /\ heads'[1] = heads[1]
      /\ chunkNext'[c] = b /\ chunkEnd'[c] = e /\ pc'[c] = "publish"
      /\ usingTail' = usingTail /\ visits' = visits
      /\ \A d \in CTAs \ {c} : /\ chunkNext'[d] = chunkNext[d]
                               /\ chunkEnd'[d] = chunkEnd[d]
                               /\ pc'[d] = pc[d]
      /\ Hybrid => b < MainEnd
  BY <1>1, <1>2 DEF ClaimMain, AtomicAdd, TakeChunk, Goto
<1>4. /\ e \in Int /\ e =< ChunkLimit /\ e =< b + ClaimSize
      /\ b < ChunkLimit => b < e
      /\ e = b + ClaimSize \/ e = ChunkLimit
  BY <1>1, ConstantFacts DEF Smaller
<1>. HIDE DEF b, e
<1>5. /\ Pending(c) = {} /\ Pending(c)' \subseteq Unclaimed
      /\ Unclaimed' = Unclaimed \ Pending(c)'
      /\ \A d \in CTAs \ {c} : Pending(d)' = Pending(d)
  BY ClaimMainEffect
<1>6. Partition'
  BY <1>3, <1>5, ClaimKeepsPartition DEF QueueInv
<1>7. ASSUME NEW d \in CTAs PROVE LaneInv(d)'
  <2>1. LaneInv(d)
    BY DEF QueueInv
  <2>2. CASE d = c
    <3>1. ASSUME b >= TileCount PROVE Unclaimed' = {}
      <4>1. ASSUME NEW t \in Tiles
            PROVE  ~(IF t < ChunkLimit THEN t >= heads'[0] ELSE t >= heads'[1])
        <5>1. t \in Int /\ t < TileCount
          BY ConstantFacts DEF Tiles
        <5>2. ChunkLimit = TileCount /\ heads'[0] >= TileCount
          BY <1>1, <1>3, <3>1, ConstantFacts
        <5>. QED
          BY <1>1, <1>3, <3>1, <5>1, <5>2, ConstantFacts
      <4>. QED
        BY <4>1 DEF Unclaimed
    <3>2. /\ b \in Nat /\ e \in Int /\ e =< TileCount /\ TileCount \in Nat
          /\ b < TileCount => b < e
          /\ Hybrid => b < TileCount
      BY <1>1, <1>3, <1>4, ConstantFacts
    <3>3. chunkNext'[d] = b /\ chunkEnd'[d] = e /\ pc'[d] = "publish" /\ ~usingTail'[d]
      BY <1>1, <1>3, <2>2
    <3>. QED
      BY <3>1, <3>2, <3>3 DEF LaneInv
  <2>3. CASE d # c
    <3>1. Unclaimed = {} => Unclaimed' = {}
      BY <1>5
    <3>. QED
      BY <1>1, <1>3, <2>1, <2>3, <3>1, ConstantFacts DEF LaneInv, b
  <2>. QED
    BY <2>2, <2>3
<1>8. HeadBounds'
  <2>1. \A d \in CTAs \ {c} :
          (PastMain(d)' <=> PastMain(d)) /\ (PastTail(d)' <=> PastTail(d))
    BY <1>3 DEF PastTail, PastMain
  <2>2. PastTailSet' = PastTailSet
    <3>1. ~PastTail(c) /\ ~PastTail(c)'
      BY <1>1, <1>3, ConstantFacts DEF PastTail
    <3>. QED
      BY <2>1, <3>1 DEF PastTailSet
  <2>3. heads'[0] =< ChunkLimit + ClaimSize - 1
                       + ClaimSize * Cardinality(PastMainSet')
    <3>. DEFINE m == Cardinality(PastMainSet)
    <3>1. PastMainSet \in SUBSET CTAs /\ c \in CTAs \ PastMainSet
      BY <1>1 DEF PastMainSet
    <3>2. m \in Nat /\ ClaimSize * m \in Nat
      BY <3>1, CardOfLanes, ConstantFacts
    <3>3. CASE b < ChunkLimit
      <4>1. ~PastMain(c)'
        BY <1>1, <1>3, <3>3, ConstantFacts DEF PastMain
      <4>2. PastMainSet' = PastMainSet
        BY <1>1, <2>1, <4>1 DEF PastMainSet
      <4>. QED
        BY <1>1, <1>3, <3>2, <3>3, <4>2, ConstantFacts
    <3>4. CASE b >= ChunkLimit
      <4>1. PastMainSet' = PastMainSet \cup {c}
        <5>1. PastMain(c)'
          BY <1>1, <1>3, <3>4, ConstantFacts DEF PastMain
        <5>. QED
          BY <2>1, <5>1 DEF PastMainSet
      <4>2. Cardinality(PastMainSet') = m + 1
        BY <3>1, <4>1, CardOfLanes
      <4>3. ClaimSize * (m + 1) = ClaimSize * m + ClaimSize
        BY <3>2, ConstantFacts
      <4>4. b =< ChunkLimit + ClaimSize - 1 + ClaimSize * m
        BY DEF QueueInv, HeadBounds, b
      <4>. HIDE DEF m
      <4>. QED
        BY <1>1, <1>3, <3>2, <4>2, <4>3, <4>4, ConstantFacts
    <3>. QED
      BY <1>1, <3>3, <3>4, ConstantFacts
  <2>. QED
    BY <1>1, <1>3, <2>2, <2>3, ConstantFacts
       DEF QueueInv, HeadBounds, QueueInitialValues, b
<1>. QED
  BY <1>6, <1>7, <1>8 DEF QueueInv

LEMMA LeaveMainInv ==
  ASSUME TypeOK, QueueInv, NEW c \in CTAs, LeaveMain(c)
  PROVE  QueueInv'
<1>. USE DEF TypeOK, IntType
<1>1. /\ LaneInv(c) /\ pc[c] = "claim" /\ ~usingTail[c]
      /\ ~PastMain(c) /\ ~PastTail(c)
      /\ heads[0] \in Nat /\ heads[1] \in Int
  BY DEF LeaveMain, QueueInv, LaneInv, PastMain, PastTail, HeadBounds
<1>2. WrapAdd(heads[0], ClaimSize) = heads[0] + ClaimSize
  <2>1. heads[0] + ClaimSize =< MaxInt
    BY <1>1, MainHeadFits DEF QueueInv
  <2>. QED
    BY <2>1, <1>1, ConstantFacts, WrapAddFits
<1>3. /\ heads'[0] = heads[0] + ClaimSize /\ heads'[1] = heads[1]
      /\ chunkNext' = chunkNext /\ chunkEnd' = chunkEnd /\ visits' = visits
      /\ pc'[c] = "tail" /\ usingTail'[c]
      /\ \A d \in CTAs \ {c} : pc'[d] = pc[d] /\ usingTail'[d] = usingTail[d]
      /\ Hybrid /\ heads[0] >= MainEnd
  BY <1>1, <1>2 DEF LeaveMain, AtomicAdd, Goto
<1>4. Unclaimed' = Unclaimed
  BY <1>1, <1>3, ConstantFacts DEF Unclaimed, Tiles
<1>5. Partition'
  BY <1>3, <1>4 DEF QueueInv, Partition, Pending
<1>6. ASSUME NEW d \in CTAs PROVE LaneInv(d)'
  <2>1. LaneInv(d)
    BY DEF QueueInv
  <2>2. CASE d = c
    BY <1>1, <1>3, <1>4, <2>2, ConstantFacts DEF LaneInv
  <2>3. CASE d # c
    BY <1>1, <1>3, <1>4, <2>1, <2>3, ConstantFacts DEF LaneInv
  <2>. QED
    BY <2>2, <2>3
<1>7. HeadBounds'
  <2>1. \A d \in CTAs \ {c} :
          (PastMain(d)' <=> PastMain(d)) /\ (PastTail(d)' <=> PastTail(d))
    BY <1>3 DEF PastTail, PastMain
  <2>2. PastTailSet' = PastTailSet
    <3>1. ~PastTail(c)'
      BY <1>3 DEF PastTail
    <3>. QED
      BY <1>1, <2>1, <3>1 DEF PastTailSet
  <2>3. PastMainSet' = PastMainSet \cup {c}
    <3>1. PastMain(c)'
      BY <1>3 DEF PastMain
    <3>. QED
      BY <2>1, <3>1 DEF PastMainSet
  <2>. DEFINE m == Cardinality(PastMainSet)
  <2>4. m \in Nat /\ Cardinality(PastMainSet') = m + 1
    <3>1. PastMainSet \in SUBSET CTAs /\ c \in CTAs \ PastMainSet
      BY <1>1 DEF PastMainSet
    <3>. QED
      BY <2>3, <3>1, CardOfLanes
  <2>5. ClaimSize * (m + 1) = ClaimSize * m + ClaimSize /\ ClaimSize * m \in Nat
    BY <2>4, ConstantFacts
  <2>6. heads[0] =< ChunkLimit + ClaimSize - 1 + ClaimSize * m
    BY DEF QueueInv, HeadBounds
  <2>. HIDE DEF m
  <2>7. heads'[0] =< ChunkLimit + ClaimSize - 1 + ClaimSize * Cardinality(PastMainSet')
    BY <1>1, <1>3, <2>4, <2>5, <2>6, ConstantFacts
  <2>. QED
    BY <1>1, <1>3, <2>2, <2>7, ConstantFacts
       DEF QueueInv, HeadBounds, QueueInitialValues
<1>. QED
  BY <1>5, <1>6, <1>7 DEF QueueInv

\* A claim takes its chunk out of the unclaimed tiles.
LEMMA ClaimTailEffect ==
  ASSUME TypeOK, QueueInv, NEW c \in CTAs, ClaimTail(c)
  PROVE  /\ Pending(c) = {} /\ Pending(c)' \subseteq Unclaimed
         /\ Unclaimed' = Unclaimed \ Pending(c)'
         /\ \A d \in CTAs \ {c} : Pending(d)' = Pending(d)
         /\ visits' = visits
<1>. USE DEF TypeOK, IntType
<1>. DEFINE b == heads[1]
            e == Smaller(b + 1, TileCount)
<1>1. /\ LaneInv(c) /\ pc[c] = "tail" /\ usingTail[c] /\ Hybrid
      /\ Pending(c) = {} /\ ~PastTail(c)
      /\ heads[0] \in Nat /\ heads[0] >= ChunkLimit
      /\ b \in Nat /\ b >= ChunkLimit
  BY ConstantFacts DEF ClaimTail, QueueInv, LaneInv, Pending, PastTail, HeadBounds,
     QueueInitialValues
<1>2. WrapAdd(b, 1) = b + 1
  <2>1. b + 1 =< MaxInt
    BY <1>1, TailHeadFits DEF QueueInv
  <2>. QED
    BY <2>1, <1>1, WrapAddFits
<1>3. /\ heads'[0] = heads[0] /\ heads'[1] = b + 1
      /\ chunkNext'[c] = b /\ chunkEnd'[c] = e /\ pc'[c] = "publish"
      /\ usingTail' = usingTail /\ visits' = visits
      /\ \A d \in CTAs \ {c} : /\ chunkNext'[d] = chunkNext[d]
                               /\ chunkEnd'[d] = chunkEnd[d]
                               /\ pc'[d] = pc[d]
  BY <1>1, <1>2 DEF ClaimTail, AtomicAdd, TakeChunk, Goto
<1>4. /\ e \in Int /\ e =< TileCount /\ e =< b + 1
      /\ b < TileCount => e = b + 1
  BY <1>1, ConstantFacts DEF Smaller
<1>. HIDE DEF b, e
<1>5. /\ Pending(c)' = b .. e - 1
      /\ \A d \in CTAs \ {c} : Pending(d)' = Pending(d)
  BY <1>3 DEF Pending
<1>6. /\ Pending(c)' \subseteq Unclaimed
      /\ Unclaimed' = Unclaimed \ Pending(c)'
  <2>1. \A t \in Int : t \in Pending(c)' <=> b =< t /\ t < e
    BY <1>1, <1>4, <1>5
  <2>2. Pending(c)' \subseteq Int
    BY <1>1, <1>4, <1>5
  <2>3. \A t \in Int : t \in Unclaimed <=>
          t \in Tiles /\ (IF t < ChunkLimit THEN t >= heads[0] ELSE t >= b)
    BY DEF Unclaimed, b
  <2>4. \A t \in Int : t \in Unclaimed' <=>
          t \in Tiles /\ (IF t < ChunkLimit THEN t >= heads[0] ELSE t >= b + 1)
    BY <1>3 DEF Unclaimed
  <2>5. \A t \in Int : t \in Tiles <=> 0 =< t /\ t < TileCount
    BY ConstantFacts DEF Tiles
  <2>6. Unclaimed \subseteq Int /\ Unclaimed' \subseteq Int
    BY ConstantFacts DEF Unclaimed, Tiles
  <2>7. \A t \in Int : t \in Pending(c)' => t \in Unclaimed
    BY <1>1, <1>4, <2>1, <2>3, <2>5, ConstantFacts
  <2>8. \A t \in Int : t \in Unclaimed' <=> t \in Unclaimed /\ t \notin Pending(c)'
    BY <1>1, <1>4, <2>1, <2>3, <2>4, <2>5, ConstantFacts
  <2>. QED
    BY <2>2, <2>6, <2>7, <2>8
<1>. QED
  BY <1>1, <1>3, <1>5, <1>6

LEMMA ClaimTailInv ==
  ASSUME TypeOK, QueueInv, NEW c \in CTAs, ClaimTail(c)
  PROVE  QueueInv'
<1>. USE DEF TypeOK, IntType
<1>. DEFINE b == heads[1]
            e == Smaller(b + 1, TileCount)
<1>1. /\ LaneInv(c) /\ pc[c] = "tail" /\ usingTail[c] /\ Hybrid
      /\ Pending(c) = {} /\ ~PastTail(c)
      /\ heads[0] \in Nat /\ heads[0] >= ChunkLimit
      /\ b \in Nat /\ b >= ChunkLimit
  BY ConstantFacts DEF ClaimTail, QueueInv, LaneInv, Pending, PastTail, HeadBounds,
     QueueInitialValues
<1>2. WrapAdd(b, 1) = b + 1
  <2>1. b + 1 =< MaxInt
    BY <1>1, TailHeadFits DEF QueueInv
  <2>. QED
    BY <2>1, <1>1, WrapAddFits
<1>3. /\ heads'[0] = heads[0] /\ heads'[1] = b + 1
      /\ chunkNext'[c] = b /\ chunkEnd'[c] = e /\ pc'[c] = "publish"
      /\ usingTail' = usingTail /\ visits' = visits
      /\ \A d \in CTAs \ {c} : /\ chunkNext'[d] = chunkNext[d]
                               /\ chunkEnd'[d] = chunkEnd[d]
                               /\ pc'[d] = pc[d]
  BY <1>1, <1>2 DEF ClaimTail, AtomicAdd, TakeChunk, Goto
<1>4. /\ e \in Int /\ e =< TileCount /\ e =< b + 1
      /\ b < TileCount => e = b + 1
  BY <1>1, ConstantFacts DEF Smaller
<1>. HIDE DEF b, e
<1>5. /\ Pending(c) = {} /\ Pending(c)' \subseteq Unclaimed
      /\ Unclaimed' = Unclaimed \ Pending(c)'
      /\ \A d \in CTAs \ {c} : Pending(d)' = Pending(d)
  BY ClaimTailEffect
<1>6. Partition'
  BY <1>3, <1>5, ClaimKeepsPartition DEF QueueInv
<1>7. ASSUME NEW d \in CTAs PROVE LaneInv(d)'
  <2>1. LaneInv(d)
    BY DEF QueueInv
  <2>2. CASE d = c
    <3>1. ASSUME b >= TileCount PROVE Unclaimed' = {}
      <4>1. ASSUME NEW t \in Tiles
            PROVE  ~(IF t < ChunkLimit THEN t >= heads'[0] ELSE t >= heads'[1])
        <5>1. t \in Int /\ t < TileCount
          BY ConstantFacts DEF Tiles
        <5>2. heads'[0] >= ChunkLimit /\ heads'[1] >= TileCount /\ ChunkLimit \in Int
          BY <1>1, <1>3, <3>1, ConstantFacts
        <5>. QED
          BY <1>1, <1>3, <3>1, <5>1, <5>2, ConstantFacts
      <4>. QED
        BY <4>1 DEF Unclaimed
    <3>2. /\ b \in Nat /\ e \in Int /\ e =< TileCount /\ TileCount \in Nat
          /\ b < TileCount => b < e
          /\ Hybrid /\ heads'[0] >= MainEnd
      BY <1>1, <1>3, <1>4, ConstantFacts
    <3>3. chunkNext'[d] = b /\ chunkEnd'[d] = e /\ pc'[d] = "publish" /\ usingTail'[d]
      BY <1>1, <1>3, <2>2
    <3>. QED
      BY <3>1, <3>2, <3>3 DEF LaneInv
  <2>3. CASE d # c
    <3>1. Unclaimed = {} => Unclaimed' = {}
      BY <1>5
    <3>. QED
      BY <1>1, <1>3, <2>1, <2>3, <3>1, ConstantFacts DEF LaneInv
  <2>. QED
    BY <2>2, <2>3
<1>8. HeadBounds'
  <2>1. \A d \in CTAs \ {c} :
          (PastMain(d)' <=> PastMain(d)) /\ (PastTail(d)' <=> PastTail(d))
    BY <1>3 DEF PastTail, PastMain
  <2>2. PastMainSet' = PastMainSet
    <3>1. PastMain(c) /\ PastMain(c)'
      BY <1>1, <1>3 DEF PastMain
    <3>. QED
      BY <2>1, <3>1 DEF PastMainSet
  <2>3. heads'[1] =< TileCount + Cardinality(PastTailSet')
    <3>. DEFINE m == Cardinality(PastTailSet)
    <3>1. PastTailSet \in SUBSET CTAs /\ c \in CTAs \ PastTailSet
      BY <1>1 DEF PastTailSet
    <3>2. m \in Nat
      BY <3>1, CardOfLanes
    <3>3. CASE b < TileCount
      <4>1. ~PastTail(c)'
        BY <1>1, <1>3, <3>3, ConstantFacts DEF PastTail
      <4>2. PastTailSet' = PastTailSet
        BY <1>1, <2>1, <4>1 DEF PastTailSet
      <4>. QED
        BY <1>1, <1>3, <3>2, <3>3, <4>2, ConstantFacts
    <3>4. CASE b >= TileCount
      <4>1. PastTailSet' = PastTailSet \cup {c}
        <5>1. PastTail(c)'
          BY <1>1, <1>3, <3>4, ConstantFacts DEF PastTail
        <5>. QED
          BY <2>1, <5>1 DEF PastTailSet
      <4>2. Cardinality(PastTailSet') = m + 1
        BY <3>1, <4>1, CardOfLanes
      <4>3. b =< TileCount + m
        BY DEF QueueInv, HeadBounds, b
      <4>. HIDE DEF m
      <4>. QED
        BY <1>1, <1>3, <3>2, <4>2, <4>3, ConstantFacts
    <3>. QED
      BY <1>1, <3>3, <3>4, ConstantFacts
  <2>. QED
    BY <1>1, <1>3, <2>2, <2>3, ConstantFacts
       DEF QueueInv, HeadBounds, QueueInitialValues, b
<1>. QED
  BY <1>6, <1>7, <1>8 DEF QueueInv

LEMMA PublishInv ==
  ASSUME TypeOK, QueueInv, NEW c \in CTAs, Publish(c)
  PROVE  QueueInv'
<1>. USE DEF TypeOK, IntType
<1>. DEFINE n == chunkNext[c]
<1>1. /\ LaneInv(c) /\ pc[c] = "publish" /\ n \in Nat /\ chunkEnd[c] \in Int
      /\ n < TileCount /\ n < chunkEnd[c] /\ chunkEnd[c] =< TileCount
      /\ n \in Tiles /\ n \in Pending(c)
  BY ConstantFacts DEF Publish, QueueInv, LaneInv, Pending, Tiles
<1>2. /\ heads' = heads /\ chunkEnd' = chunkEnd /\ usingTail' = usingTail
      /\ chunkNext'[c] = n + 1 /\ pc'[c] = "slot"
      /\ \A d \in CTAs \ {c} : chunkNext'[d] = chunkNext[d] /\ pc'[d] = pc[d]
      /\ \A t \in Tiles \ {n} : visits'[t] = visits[t]
      /\ visits'[n] = visits[n] + 1
  BY <1>1 DEF Publish, Goto
<1>. HIDE DEF n
<1>3. /\ Pending(c)' = Pending(c) \ {n}
      /\ \A d \in CTAs \ {c} : Pending(d)' = Pending(d)
      /\ Unclaimed' = Unclaimed
  BY <1>1, <1>2 DEF Pending, Unclaimed, n
<1>4. Partition'
  <2>1. visits[n] = 0 /\ n \notin Unclaimed
    BY <1>1 DEF QueueInv, Partition
  <2>2. Unclaimed \subseteq Tiles
    BY DEF Unclaimed
  <2>3. /\ \A t \in Tiles : visits'[t] \in {0, 1}
        /\ \A t \in Unclaimed : visits'[t] = 0
    BY <1>2, <2>1, <2>2 DEF QueueInv, Partition
  <2>4. \A d \in CTAs \ {c} : n \notin Pending(d)
    BY <1>1 DEF QueueInv, Partition
  <2>5. \A d \in CTAs : \A t \in Pending(d)' :
          t \in Tiles /\ t \notin Unclaimed' /\ visits'[t] = 0
    BY <1>2, <1>3, <2>4 DEF QueueInv, Partition
  <2>6. \A d, e \in CTAs : d # e => Pending(d)' \cap Pending(e)' = {}
    BY <1>3 DEF QueueInv, Partition
  <2>7. \A t \in Tiles : t \notin Unclaimed' /\ visits'[t] = 0 =>
          \E d \in CTAs : t \in Pending(d)'
    BY <1>2, <1>3, <2>1 DEF QueueInv, Partition
  <2>. QED
    BY <1>3, <2>3, <2>5, <2>6, <2>7 DEF Partition
<1>5. ASSUME NEW d \in CTAs PROVE LaneInv(d)'
  <2>1. LaneInv(d)
    BY DEF QueueInv
  <2>2. CASE d = c
    BY <1>1, <1>2, <1>3, <2>1, <2>2, ConstantFacts DEF LaneInv
  <2>3. CASE d # c
    BY <1>2, <1>3, <2>1, <2>3 DEF LaneInv
  <2>. QED
    BY <2>2, <2>3
<1>6. HeadBounds'
  <2>1. \A d \in CTAs :
          (PastMain(d)' <=> PastMain(d)) /\ (PastTail(d)' <=> PastTail(d))
    BY <1>1, <1>2, ConstantFacts DEF PastTail, PastMain, n
  <2>2. PastMainSet' = PastMainSet /\ PastTailSet' = PastTailSet
    BY <2>1 DEF PastMainSet, PastTailSet
  <2>. QED
    BY <1>2, <2>2 DEF QueueInv, HeadBounds, QueueInitialValues
<1>. QED
  BY <1>4, <1>5, <1>6 DEF QueueInv

LEMMA PublishDoneInv ==
  ASSUME TypeOK, QueueInv, NEW c \in CTAs, PublishDone(c)
  PROVE  QueueInv'
<1>. USE DEF TypeOK, IntType
<1>1. /\ LaneInv(c) /\ pc[c] = "publish" /\ chunkNext[c] >= TileCount
      /\ Unclaimed = {} /\ (Hybrid => usingTail[c])
      /\ UNCHANGED <<heads, chunkNext, chunkEnd, usingTail, visits>>
      /\ pc'[c] = "done"
      /\ \A d \in CTAs \ {c} : pc'[d] = pc[d]
  BY DEF PublishDone, QueueInv, LaneInv, Goto
<1>2. Unclaimed' = Unclaimed
  BY <1>1 DEF Unclaimed
<1>3. ASSUME NEW d \in CTAs PROVE LaneInv(d)'
  <2>1. LaneInv(d)
    BY DEF QueueInv
  <2>2. CASE d = c
    BY <1>1, <1>2, <2>1, <2>2 DEF LaneInv
  <2>3. CASE d # c
    BY <1>1, <1>2, <2>1, <2>3 DEF LaneInv
  <2>. QED
    BY <2>2, <2>3
<1>4. Partition'
  BY <1>1, <1>2 DEF QueueInv, Partition, Pending
<1>5. HeadBounds'
  <2>1. \A d \in CTAs :
          (PastMain(d)' <=> PastMain(d)) /\ (PastTail(d)' <=> PastTail(d))
    BY <1>1 DEF PastTail, PastMain
  <2>2. PastMainSet' = PastMainSet /\ PastTailSet' = PastTailSet
    BY <2>1 DEF PastMainSet, PastTailSet
  <2>. QED
    BY <1>1, <2>2 DEF QueueInv, HeadBounds, QueueInitialValues
<1>. QED
  BY <1>3, <1>4, <1>5 DEF QueueInv

------------------------------------------------------------------------------
(* The invariant                                                           *)

LEMMA Inv_Init == Init => Inv
BY TypeOK_Init, QueueInv_Init DEF Inv

LEMMA Inv_Step == Inv /\ [Next]_queueVars => Inv'
<1>. SUFFICES ASSUME Inv, [Next]_queueVars PROVE Inv'
  OBVIOUS
<1>. USE DEF Inv
<1>1. TypeOK'
  BY TypeOK_Step
<1>2. CASE UNCHANGED queueVars
  <2>1. /\ \A c \in CTAs : LaneInv(c)'
        /\ Partition'
        /\ PastMainSet' = PastMainSet /\ PastTailSet' = PastTailSet
    BY <1>2 DEF queueVars, QueueInv, LaneInv, Partition, Unclaimed, Pending,
       PastMainSet, PastTailSet, PastMain, PastTail
  <2>. QED
    BY <1>1, <1>2, <2>1 DEF queueVars, QueueInv, HeadBounds, QueueInitialValues
<1>3. ASSUME NEW c \in CTAs, Lane(c) PROVE QueueInv'
  BY <1>3, SlotEmptyInv, ClaimMainInv, LeaveMainInv, ClaimTailInv, PublishInv,
     PublishDoneInv DEF Lane
<1>. QED
  BY <1>1, <1>2, <1>3 DEF Next, Finished

\* Every reachable state of the queue is well typed, for every instance.
THEOREM TypeCorrect == Spec => []TypeOK
<1>1. TypeOK /\ [Next]_queueVars => TypeOK'
  BY TypeOK_Step
<1>. QED
  BY TypeOK_Init, <1>1, PTL DEF Spec, SafeSpec

\* The partition, the lanes' control facts and the bounds on the heads hold in
\* every reachable state.
THEOREM QueueInvariant == SafeSpec => []Inv
BY Inv_Init, Inv_Step, PTL DEF SafeSpec

\* Claims partition the worklist and the heads stay within the lanes' overshoot,
\* the invariant the small runs check.
THEOREM ClaimsPartition == Spec => []QueueInv
<1>1. Inv => QueueInv
  BY DEF Inv
<1>. QED
  BY <1>1, QueueInvariant, PTL DEF Spec

\* No tile is published twice, by one lane or by two.
THEOREM AtMostOnce == Spec => []NoTileTwice
<1>1. Inv => NoTileTwice
  BY DEF Inv, QueueInv, Partition, NoTileTwice, TypeOK, IntType
<1>. QED
  BY <1>1, QueueInvariant, PTL DEF Spec

\* A lane leaves its loop only when no tile is left for nobody.
THEOREM NoneSkipped == Spec => []NoTileSkipped
<1>1. Inv => NoTileSkipped
  <2>. SUFFICES ASSUME Inv, NEW c \in CTAs, pc[c] = "done", NEW t \in Tiles,
                       ~(visits[t] > 0)
                PROVE  \E d \in CTAs : pc[d] # "done" /\ t \in Pending(d)
    BY DEF NoTileSkipped
  <2>1. Unclaimed = {} /\ visits[t] = 0
    BY DEF Inv, TypeOK, IntType, QueueInv, LaneInv, Partition
  <2>2. PICK d \in CTAs : t \in Pending(d)
    BY <2>1 DEF Inv, QueueInv, Partition
  <2>3. pc[d] # "done"
    BY <2>2, ConstantFacts DEF Inv, TypeOK, IntType, QueueInv, LaneInv, Pending
  <2>. QED
    BY <2>2, <2>3
<1>. QED
  BY <1>1, QueueInvariant, PTL DEF Spec

------------------------------------------------------------------------------
(* What a step may do to the heads                                         *)

\* The heads never go back: no atomic add wraps within WidthAssumption.
THEOREM HeadsGrow == Spec => HeadsOnlyGrow
<1>. DEFINE Grow == heads'[0] >= heads[0] /\ heads'[1] >= heads[1]
<1>1. ASSUME Inv, [Next]_queueVars PROVE [Grow]_queueVars
  <2>. USE <1>1 DEF Inv, TypeOK, IntType
  <2>1. ASSUME NEW c \in CTAs, ClaimMain(c) \/ LeaveMain(c) PROVE Grow
    <3>1. ~PastMain(c) /\ heads[0] \in Int /\ heads[1] \in Int
      BY <2>1 DEF ClaimMain, LeaveMain, QueueInv, LaneInv, PastMain
    <3>2. WrapAdd(heads[0], ClaimSize) = heads[0] + ClaimSize
      <4>1. heads[0] + ClaimSize =< MaxInt
        BY <3>1, MainHeadFits DEF QueueInv
      <4>. QED
        BY <3>1, <4>1, ConstantFacts, WrapAddFits
    <3>3. heads'[0] = heads[0] + ClaimSize /\ heads'[1] = heads[1]
      BY <2>1, <3>2 DEF ClaimMain, LeaveMain, AtomicAdd
    <3>. QED
      BY <3>1, <3>3, ConstantFacts
  <2>2. ASSUME NEW c \in CTAs, ClaimTail(c) PROVE Grow
    <3>1. ~PastTail(c) /\ heads[0] \in Int /\ heads[1] \in Int
      BY <2>2 DEF ClaimTail, PastTail
    <3>2. WrapAdd(heads[1], 1) = heads[1] + 1
      <4>1. heads[1] + 1 =< MaxInt
        BY <3>1, TailHeadFits DEF QueueInv
      <4>. QED
        BY <3>1, <4>1, WrapAddFits
    <3>. QED
      BY <2>2, <3>1, <3>2 DEF ClaimTail, AtomicAdd
  <2>3. ASSUME NEW c \in CTAs, SlotEmpty(c) \/ Publish(c) \/ PublishDone(c)
        PROVE  Grow
    BY <2>3 DEF SlotEmpty, Publish, PublishDone
  <2>4. CASE UNCHANGED queueVars
    BY <2>4
  <2>. QED
    BY <2>1, <2>2, <2>3, <2>4 DEF Next, Lane, Finished
<1>. QED
  BY <1>1, QueueInvariant, PTL DEF Spec, SafeSpec, HeadsOnlyGrow

\* Main claims start at multiples of the claim size: the head moves by whole claims.
Aligned == heads[0] % ClaimSize = 0

\* A multiple of a claim size stays one when a claim is added.
LEMMA NextMultiple ==
  ASSUME NEW size \in Nat \ {0}, NEW a \in Int, a % size = 0
  PROVE  (a + size) % size = 0
<1>1. (a + size) % size = a % size /\ (a + size) \div size = a \div size + 1
  OBVIOUS
<1>. QED
  BY <1>1

LEMMA Aligned_Init == Init => Aligned
<1>1. ClaimSize \in Nat \ {0}
  BY ConstantFacts
<1>. QED
  BY <1>1 DEF Init, QueueInitialValues, Aligned

LEMMA Aligned_Step ==
  ASSUME Inv, Aligned, [Next]_queueVars
  PROVE  Aligned'
<1>. USE DEF Inv, TypeOK, IntType
<1>1. ASSUME NEW c \in CTAs, ClaimMain(c) \/ LeaveMain(c) PROVE Aligned'
  <2>1. ~PastMain(c) /\ heads[0] \in Int
    BY <1>1 DEF ClaimMain, LeaveMain, QueueInv, LaneInv, PastMain
  <2>2. heads[0] + ClaimSize =< MaxInt
    BY <2>1, MainHeadFits DEF QueueInv
  <2>3. heads'[0] = heads[0] + ClaimSize
    BY <1>1, <2>1, <2>2, ConstantFacts, WrapAddFits
       DEF ClaimMain, LeaveMain, AtomicAdd
  <2>. QED
    BY <2>1, <2>3, ConstantFacts, NextMultiple DEF Aligned
<1>2. ASSUME NEW c \in CTAs, ClaimTail(c) PROVE Aligned'
  BY <1>2 DEF ClaimTail, AtomicAdd, Aligned
<1>3. ASSUME NEW c \in CTAs, SlotEmpty(c) \/ Publish(c) \/ PublishDone(c)
      PROVE  Aligned'
  BY <1>3 DEF SlotEmpty, Publish, PublishDone, Aligned
<1>4. CASE UNCHANGED queueVars
  BY <1>4 DEF queueVars, Aligned
<1>. QED
  BY <1>1, <1>2, <1>3, <1>4 DEF Next, Lane, Finished

\* A claim of `size` tiles from the multiple `b` of size above `first` is a batch.
LEMMA IsBatch ==
  ASSUME NEW first \in Int, NEW last \in Int, NEW size \in Nat \ {0},
         NEW b \in Int, first =< b, b < last, (b - first) % size = 0
  PROVE  (b .. Smaller(b + size, last) - 1) \in Batches(first, last, size)
BY DEF Batches, PyRange, Smaller

\* A claim that finds work in the main region takes one of the host's batches.
LEMMA MainClaimPlanned ==
  ASSUME Inv, Aligned, NEW c \in CTAs, ClaimMain(c), Pending(c)' # {}
  PROVE  Pending(c)' \in HostBatches
<1>. USE DEF Inv, TypeOK, IntType
<1>. DEFINE b == heads[0]
<1>1. /\ ~PastMain(c) /\ b \in Int /\ b >= 0
      /\ ClaimSize \in Nat \ {0} /\ ChunkLimit \in Int
  BY ConstantFacts DEF ClaimMain, QueueInv, LaneInv, PastMain, HeadBounds
<1>2. b + ClaimSize =< MaxInt
  BY <1>1, MainHeadFits DEF QueueInv
<1>3. WrapAdd(b, ClaimSize) = b + ClaimSize
  BY <1>1, <1>2, WrapAddFits
<1>4. chunkNext'[c] = b /\ chunkEnd'[c] = Smaller(b + ClaimSize, ChunkLimit)
  BY <1>3 DEF ClaimMain, TakeChunk
<1>5. Pending(c)' = b .. Smaller(b + ClaimSize, ChunkLimit) - 1
  BY <1>4 DEF Pending
<1>6. b < ChunkLimit
  <2>1. SUFFICES ASSUME b >= ChunkLimit PROVE Pending(c)' = {}
    BY <1>1
  <2>. QED
    BY <1>1, <1>5, <2>1 DEF Smaller
<1>7. (b - 0) % ClaimSize = 0
  BY <1>1 DEF Aligned
<1>. HIDE DEF b
<1>8. Pending(c)' \in Batches(0, ChunkLimit, ClaimSize)
  BY <1>1, <1>5, <1>6, <1>7, IsBatch
<1>9. CASE Hybrid
  <2>1. ChunkLimit = TileCount - (IF TileCount < HybridTail THEN TileCount
                                  ELSE HybridTail)
    BY <1>9 DEF ChunkLimit, MainEnd, Smaller
  <2>. QED
    BY <1>8, <1>9, <2>1 DEF HostBatches, HybridClaims
<1>10. CASE ~Hybrid
  BY <1>8, <1>10 DEF HostBatches, ChunkedClaims, ChunkLimit
<1>. QED
  BY <1>9, <1>10

\* A claim that finds work in the tail takes a single tile of it.
LEMMA TailClaimPlanned ==
  ASSUME Inv, NEW c \in CTAs, ClaimTail(c), Pending(c)' # {}
  PROVE  Pending(c)' \in HostBatches
<1>. USE DEF Inv, TypeOK, IntType
<1>. DEFINE b == heads[1]
<1>1. /\ ~PastTail(c) /\ Hybrid /\ b \in Int /\ b >= MainEnd
      /\ MainEnd \in Int /\ TileCount \in Int
  BY ConstantFacts
     DEF ClaimTail, QueueInv, LaneInv, PastTail, HeadBounds, QueueInitialValues
<1>2. b + 1 =< MaxInt
  BY <1>1, TailHeadFits DEF QueueInv
<1>3. WrapAdd(b, 1) = b + 1
  BY <1>1, <1>2, WrapAddFits
<1>4. chunkNext'[c] = b /\ chunkEnd'[c] = Smaller(b + 1, TileCount)
  BY <1>3 DEF ClaimTail, TakeChunk
<1>5. Pending(c)' = b .. Smaller(b + 1, TileCount) - 1
  BY <1>4 DEF Pending
<1>6. b < TileCount
  <2>1. SUFFICES ASSUME b >= TileCount PROVE Pending(c)' = {}
    BY <1>1
  <2>. QED
    BY <1>1, <1>5, <2>1 DEF Smaller
<1>7. (b - MainEnd) % 1 = 0
  BY <1>1
<1>. HIDE DEF b
<1>8. Pending(c)' \in Batches(MainEnd, TileCount, 1)
  BY <1>1, <1>5, <1>6, <1>7, IsBatch
<1>9. MainEnd = TileCount - (IF TileCount < HybridTail THEN TileCount
                             ELSE HybridTail)
  BY DEF MainEnd, Smaller
<1>. QED
  BY <1>1, <1>8, <1>9 DEF HostBatches, HybridClaims

\* Every claim that finds work is one of the host mirror's batches, and the tail
\* is touched only when the main region has been handed out.
THEOREM PlannedClaims == Spec => ClaimsAsPlanned
<1>. DEFINE Planned ==
       /\ \A c \in CTAs : pc[c] \in {"claim", "tail"} /\ Pending(c)' # {} =>
            Pending(c)' \in HostBatches
       /\ heads'[1] # heads[1] =>
            \A t \in 0 .. ChunkLimit - 1 : t \notin Unclaimed
<1>1. ASSUME Inv, Aligned, [Next]_queueVars PROVE [Planned]_queueVars
  <2>. USE <1>1 DEF Inv, TypeOK, IntType
  <2>1. ASSUME NEW d \in CTAs, pc[d] \in {"claim", "tail"},
               chunkNext'[d] = chunkNext[d], chunkEnd'[d] = chunkEnd[d]
        PROVE  Pending(d)' = {}
    BY <2>1, ConstantFacts DEF QueueInv, LaneInv, Pending
  <2>2. ASSUME NEW c \in CTAs, ClaimMain(c) PROVE Planned
    <3>1. ASSUME NEW d \in CTAs \ {c} PROVE
            chunkNext'[d] = chunkNext[d] /\ chunkEnd'[d] = chunkEnd[d]
      BY <2>2 DEF ClaimMain, TakeChunk
    <3>2. heads'[1] = heads[1]
      BY <2>2 DEF ClaimMain, AtomicAdd
    <3>. QED
      BY <2>1, <2>2, <3>1, <3>2, MainClaimPlanned
  <2>3. ASSUME NEW c \in CTAs, ClaimTail(c) PROVE Planned
    <3>1. ASSUME NEW d \in CTAs \ {c} PROVE
            chunkNext'[d] = chunkNext[d] /\ chunkEnd'[d] = chunkEnd[d]
      BY <2>3 DEF ClaimTail, TakeChunk
    <3>2. Hybrid /\ heads[0] >= MainEnd
      BY <2>3 DEF ClaimTail, QueueInv, LaneInv
    <3>3. \A t \in 0 .. ChunkLimit - 1 : t \notin Unclaimed
      BY <3>2, ConstantFacts DEF Unclaimed
    <3>. QED
      BY <2>1, <2>3, <3>1, <3>3, TailClaimPlanned
  <2>4. ASSUME NEW c \in CTAs, SlotEmpty(c) \/ LeaveMain(c) \/ PublishDone(c)
        PROVE  Planned
    <3>1. UNCHANGED <<chunkNext, chunkEnd>> /\ heads'[1] = heads[1]
      BY <2>4 DEF SlotEmpty, LeaveMain, PublishDone, AtomicAdd
    <3>. QED
      BY <2>1, <3>1
  <2>5. ASSUME NEW c \in CTAs, Publish(c) PROVE Planned
    <3>1. /\ heads' = heads /\ chunkEnd' = chunkEnd /\ pc[c] = "publish"
          /\ \A d \in CTAs \ {c} : chunkNext'[d] = chunkNext[d]
      BY <2>5 DEF Publish
    <3>. QED
      BY <2>1, <3>1
  <2>6. CASE UNCHANGED queueVars
    BY <2>6
  <2>. QED
    BY <2>2, <2>3, <2>4, <2>5, <2>6 DEF Next, Lane, Finished
<1>2. SafeSpec => []Aligned
  BY Aligned_Init, Aligned_Step, QueueInvariant, PTL DEF SafeSpec
<1>. QED
  BY <1>1, <1>2, QueueInvariant, PTL DEF Spec, SafeSpec, ClaimsAsPlanned

------------------------------------------------------------------------------
(* Refinement of the abstract work queue                                   *)

\* The initial worklist is the abstract pool.
LEMMA WorkQueue_Init == Init => WQ!Init
<1>. SUFFICES ASSUME Init PROVE WQ!Init
  OBVIOUS
<1>1. Unclaimed = Tiles
  BY ConstantFacts DEF Init, Unclaimed, Tiles, QueueInitialValues
<1>2. \A c \in CTAs : Pending(c) = {}
  BY DEF Init, Pending
<1>3. Visited = {}
  BY DEF Init, Visited
<1>4. Retired = {} /\ Held = [c \in CTAs |-> {}]
  BY <1>2 DEF Init, Retired, Held
<1>. QED
  BY <1>1, <1>3, <1>4 DEF WQ!Init

\* A lane's claim, seen from the abstract queue: the same tiles leave the pool,
\* or nothing happens when the claim came back empty.
LEMMA ClaimRefines ==
  ASSUME NEW c \in CTAs,
         pc[c] # "done", Pending(c) = {},
         Pending(c)' \subseteq Unclaimed,
         Unclaimed' = Unclaimed \ Pending(c)',
         \A d \in CTAs \ {c} : Pending(d)' = Pending(d),
         visits' = visits,
         Retired' = Retired
  PROVE  [WQ!Next]_(WQ!vars)
<1>1. Visited' = Visited
  BY DEF Visited
<1>2. Held' = [Held EXCEPT ![c] = Pending(c)']
  BY DEF Held
<1>3. c \notin Retired /\ Held[c] = {}
  BY DEF Retired, Held
<1>4. CASE Pending(c)' = {}
  <2>1. Held' = Held
    BY <1>4 DEF Held
  <2>2. Unclaimed' = Unclaimed
    BY <1>4
  <2>. QED
    BY <1>1, <2>1, <2>2 DEF WQ!vars
<1>5. CASE Pending(c)' # {}
  <2>1. Pending(c)' \in (SUBSET Unclaimed) \ {{}}
    BY <1>5
  <2>2. WQ!Claim(c)
    BY <1>1, <1>2, <1>3, <2>1 DEF WQ!Claim
  <2>. QED
    BY <2>2 DEF WQ!Next, WQ!Step
<1>. QED
  BY <1>4, <1>5

\* Every step of a lane is an abstract step of its worker, or none.
LEMMA WorkQueue_Step ==
  Inv /\ [Next]_queueVars => [WQ!Next]_(WQ!vars)
<1>. SUFFICES ASSUME Inv, [Next]_queueVars PROVE [WQ!Next]_(WQ!vars)
  OBVIOUS
<1>. USE DEF Inv, TypeOK, IntType
<1>1. ASSUME NEW c \in CTAs, SlotEmpty(c) PROVE UNCHANGED WQ!vars
  <2>1. Unclaimed' = Unclaimed /\ Held' = Held /\ Visited' = Visited
    BY <1>1 DEF SlotEmpty, Unclaimed, Held, Pending, Visited
  <2>2. Retired' = Retired
    <3>1. pc[c] # "done" /\ pc'[c] # "done"
          /\ \A d \in CTAs \ {c} : pc'[d] = pc[d]
      BY <1>1 DEF SlotEmpty, Goto
    <3>. QED
      BY <3>1 DEF Retired
  <2>. QED
    BY <2>1, <2>2 DEF WQ!vars
<1>2. ASSUME NEW c \in CTAs, ClaimMain(c) \/ ClaimTail(c)
      PROVE  [WQ!Next]_(WQ!vars)
  <2>1. pc[c] # "done" /\ pc'[c] # "done"
        /\ \A d \in CTAs \ {c} : pc'[d] = pc[d]
    BY <1>2 DEF ClaimMain, ClaimTail, TakeChunk, Goto
  <2>2. Retired' = Retired
    BY <2>1 DEF Retired
  <2>3. /\ Pending(c) = {} /\ Pending(c)' \subseteq Unclaimed
        /\ Unclaimed' = Unclaimed \ Pending(c)'
        /\ \A d \in CTAs \ {c} : Pending(d)' = Pending(d)
        /\ visits' = visits
    BY <1>2, ClaimMainEffect, ClaimTailEffect
  <2>. QED
    BY <2>1, <2>2, <2>3, ClaimRefines
<1>3. ASSUME NEW c \in CTAs, LeaveMain(c) PROVE UNCHANGED WQ!vars
  <2>1. ~PastMain(c) /\ heads[0] \in Int /\ heads[0] >= 0
    BY <1>3 DEF LeaveMain, QueueInv, LaneInv, PastMain, HeadBounds
  <2>2. WrapAdd(heads[0], ClaimSize) = heads[0] + ClaimSize
    <3>1. heads[0] + ClaimSize =< MaxInt
      BY <2>1, MainHeadFits DEF QueueInv
    <3>. QED
      BY <2>1, <3>1, ConstantFacts, WrapAddFits
  <2>3. /\ heads'[0] = heads[0] + ClaimSize /\ heads'[1] = heads[1]
        /\ Hybrid /\ heads[0] >= MainEnd
    BY <1>3, <2>2 DEF LeaveMain, AtomicAdd
  <2>4. Unclaimed' = Unclaimed
    <3>1. ASSUME NEW t \in Tiles
          PROVE  (IF t < ChunkLimit THEN t >= heads'[0] ELSE t >= heads'[1])
                   <=> (IF t < ChunkLimit THEN t >= heads[0] ELSE t >= heads[1])
      <4>1. /\ t \in Int /\ ChunkLimit \in Int /\ ClaimSize \in Nat
            /\ heads[0] >= ChunkLimit
        BY <2>3, ConstantFacts DEF Tiles
      <4>. QED
        BY <2>1, <2>3, <4>1
    <3>. QED
      BY <3>1 DEF Unclaimed
  <2>5. Held' = Held /\ Visited' = Visited
    BY <1>3 DEF LeaveMain, Held, Pending, Visited
  <2>6. pc[c] # "done" /\ pc'[c] # "done"
        /\ \A d \in CTAs \ {c} : pc'[d] = pc[d]
    BY <1>3 DEF LeaveMain, Goto
  <2>7. Retired' = Retired
    BY <2>6 DEF Retired
  <2>. QED
    BY <2>4, <2>5, <2>7 DEF WQ!vars
<1>4. ASSUME NEW c \in CTAs, Publish(c) PROVE WQ!Run(c)
  <2>. DEFINE n == chunkNext[c]
  <2>1. n \in Pending(c) /\ n \in Tiles /\ n \in Int /\ chunkEnd[c] \in Int
    BY <1>4, ConstantFacts DEF Publish, QueueInv, LaneInv, Pending, Tiles
  <2>2. /\ heads' = heads /\ chunkEnd' = chunkEnd /\ chunkNext'[c] = n + 1
        /\ \A d \in CTAs \ {c} : chunkNext'[d] = chunkNext[d] /\ pc'[d] = pc[d]
        /\ pc[c] # "done" /\ pc'[c] # "done"
        /\ \A t \in Tiles : visits'[t] = IF t = n THEN visits[t] + 1 ELSE visits[t]
    BY <1>4 DEF Publish, Goto
  <2>3. visits[n] = 0
    BY <2>1 DEF QueueInv, Partition
  <2>4. Visited' = Visited \cup {n}
    BY <2>1, <2>2, <2>3 DEF Visited
  <2>5. /\ Pending(c)' = Pending(c) \ {n}
        /\ \A d \in CTAs \ {c} : Pending(d)' = Pending(d)
    BY <2>1, <2>2 DEF Pending
  <2>6. Held' = [Held EXCEPT ![c] = Held[c] \ {n}] /\ n \in Held[c]
    BY <2>1, <2>5 DEF Held
  <2>7. Unclaimed' = Unclaimed /\ Retired' = Retired
    BY <2>2 DEF Unclaimed, Retired
  <2>. QED
    BY <2>4, <2>6, <2>7 DEF WQ!Run
<1>5. ASSUME NEW c \in CTAs, PublishDone(c) PROVE WQ!Retire(c)
  <2>1. /\ Unclaimed = {} /\ Unclaimed' = Unclaimed /\ Pending(c) = {}
        /\ Visited' = Visited /\ Held' = Held
    BY <1>5, ConstantFacts
       DEF PublishDone, QueueInv, LaneInv, Pending, Unclaimed, Visited, Held
  <2>2. pc[c] # "done" /\ pc'[c] = "done"
        /\ \A d \in CTAs \ {c} : pc'[d] = pc[d]
    BY <1>5 DEF PublishDone, Goto
  <2>3. Retired' = Retired \cup {c} /\ c \notin Retired /\ Held[c] = {}
    BY <2>1, <2>2 DEF Retired, Held
  <2>. QED
    BY <2>1, <2>3 DEF WQ!Retire
<1>6. CASE UNCHANGED queueVars
  BY <1>6 DEF queueVars, WQ!vars, Unclaimed, Held, Pending, Visited, Retired
<1>. QED
  BY <1>1, <1>2, <1>3, <1>4, <1>5, <1>6 DEF Next, Lane, Finished, WQ!Next, WQ!Step

\* The queue implements the abstract work queue: its claims, publications and
\* exits are those of abstract workers.  (Its liveness is checked by TLC.)
THEOREM RefinesWorkQueue == SafeSpec => WQ!SafeSpec
BY WorkQueue_Init, WorkQueue_Step, Inv_Init, Inv_Step, PTL DEF SafeSpec, WQ!SafeSpec

------------------------------------------------------------------------------
(***************************************************************************)
(* The mailbox (AtomicMailbox). The generations are counted: how many the  *)
(* lane has deposited and announced, how many each role has waited for,    *)
(* read and released. The parities of the two barriers and of the cursors  *)
(* are those of the counts, and the counts are so close together that a    *)
(* parity tells them apart.                                                *)
(***************************************************************************)

Deposits == Len(log)

\* Generations the lane has announced on `full`.
Announced == IF signal THEN Deposits - 1 ELSE Deposits

\* Generations whose slot the lane has waited for on `empty`.
Slots == IF pc[Me] \in {"claim", "tail", "publish"} THEN Deposits + 1 ELSE Deposits

\* Generations role r has seen announced, has left ReadSync with, and has released.
Waited(r) == IF rolePc[r] = "read" THEN taken[r] + 1 ELSE taken[r]
Synced(r) == IF rolePc[r] = "sync" THEN taken[r] - 1 ELSE taken[r]
Freed(r) == IF rolePc[r] \in {"sync", "release"} THEN taken[r] - 1 ELSE taken[r]

\* The roles that arrive on `empty`: the leader does for all threads.
Releasers == {"tma", "mma", Leader}
AllFreed == \A r \in Releasers : Freed(r) = Deposits
OneFreed(r) == IF Freed(r) = Deposits THEN 1 ELSE 0

\* No role is more than a generation behind, none is ahead of what is announced,
\* and the threads of the writeback pass ReadSync together.
CountInv ==
  /\ \A r \in Releasers : Freed(r) \in {Deposits - 1, Deposits}
  /\ \A r \in Roles : Waited(r) =< Announced
  /\ \A w \in Threads : Synced(w) = Synced(Leader)
  /\ \A r \in Roles : rolePc[r] = "sync" => r \in Threads
  /\ \A r \in Roles : rolePc[r] = "release" => r \in Releasers
  /\ \A r \in Roles : rolePc[r] \in {"sync", "release"} => taken[r] > 0

\* The parities, and what the lane may assume once it has its slot.
ParityInv ==
  /\ full = [phase |-> Announced % 2, pending |-> 1, tx |-> 0]
  /\ \A r \in Roles : readyPs[r] = [stage |-> 0, phase |-> Waited(r) % 2]
  /\ slotPs = [stage |-> 0, phase |-> (Slots + 1) % 2]
  /\ AllFreed => empty = [phase |-> Deposits % 2, pending |-> 3, tx |-> 0]
  /\ ~AllFreed =>
       empty = [phase |-> (Deposits + 1) % 2,
                pending |-> 3 - (OneFreed("tma") + OneFreed("mma") + OneFreed(Leader)),
                tx |-> 0]
  /\ pc[Me] \in {"claim", "tail", "publish"} => ~signal /\ AllFreed
  /\ signal => Deposits > 0

\* What the slot and the roles hold, and where the stop marker is.
ContentInv ==
  /\ Deposits > 0 => mailbox = log[Deposits]
  /\ \A r \in Roles : taken[r] > 0 => got[r] = log[taken[r]]
  /\ \A i \in 1 .. Deposits :
       /\ log[i] \in Tiles \cup {NoWork}
       /\ log[i] = NoWork <=> i = Deposits /\ pc[Me] = "done"
  /\ pc[Me] = "done" => Deposits > 0
  /\ \A r \in Roles : rolePc[r] = "left" => taken[r] > 0 /\ got[r] < 0

MailboxInv == MailboxTypeOK /\ CountInv /\ ParityInv /\ ContentInv

------------------------------------------------------------------------------
(* The queue under the mailbox                                             *)

\* The mailbox only delays the lane: every step is one of the queue, or none.
LEMMA MailboxStepIsQueueStep == [MailboxNext]_cellVars => [Next]_queueVars
<1>1. MyLane => (\E c \in CTAs : Lane(c)) \/ UNCHANGED queueVars
  BY MailboxAssumption
     DEF MyLane, AwaitSlot, Acquire, DepositTile, DepositDone, SignalFull, Lane
<1>2. (\E c \in CTAs \ {Me} : OtherLane(c)) => \E c \in CTAs : Lane(c)
  BY DEF OtherLane
<1>3. (\E r \in Roles : Consume(r) \/ Work(r)) \/ ReadSync => UNCHANGED queueVars
  BY DEF Consume, AwaitWork, ReadMailbox, ReleaseSlot, Work, ReadSync
<1>4. MailboxFinished \/ UNCHANGED cellVars => UNCHANGED queueVars
  BY DEF MailboxFinished, cellVars
<1>. QED
  BY <1>1, <1>2, <1>3, <1>4 DEF MailboxNext, Next

\* A CTA with its mailbox takes part in the queue as a lane of AtomicQueue does:
\* what is proved of the queue holds of the kernels built on it.
THEOREM MailboxImplementsQueue == MailboxSafeSpec => SafeSpec
<1>1. MailboxInit => Init
  BY DEF MailboxInit
<1>. QED
  BY <1>1, MailboxStepIsQueueStep, PTL DEF MailboxSafeSpec, SafeSpec

------------------------------------------------------------------------------
(* What the counts say                                                     *)

LEMMA CountTypes ==
  ASSUME MailboxTypeOK
  PROVE  /\ Deposits \in Nat /\ Slots \in Nat
         /\ Announced \in Int /\ Announced \in {Deposits - 1, Deposits}
         /\ \A r \in Roles : taken[r] \in Nat
         /\ \A r \in Roles : /\ Waited(r) \in {taken[r], taken[r] + 1}
                             /\ Synced(r) \in {taken[r], taken[r] - 1}
                             /\ Freed(r) \in {taken[r], taken[r] - 1}
<1>1. Deposits \in Nat
  BY DEF MailboxTypeOK, Deposits
<1>2. \A r \in Roles : taken[r] \in Nat
  BY DEF MailboxTypeOK
<1>. QED
  BY <1>1, <1>2 DEF Slots, Announced, Waited, Synced, Freed

LEMMA CellFacts ==
  /\ Me \in CTAs /\ Leader \in Threads /\ Threads \subseteq Roles
  /\ Releasers \subseteq Roles /\ "tma" \in Roles /\ "mma" \in Roles
  /\ "tma" \notin Threads /\ "mma" \notin Threads
  /\ Leader # "tma" /\ Leader # "mma"
  /\ \A r \in Roles : r \notin Threads => r \in Releasers
BY MailboxAssumption, RoleAssumption DEF Roles, Lanes, Releasers

\* Nobody lags by more than the generation in the slot.
LEMMA NobodyLags ==
  ASSUME MailboxTypeOK, CountInv, NEW r \in Roles
  PROVE  taken[r] >= Deposits - 1 /\ taken[r] =< Deposits
<1>1. taken[r] =< Deposits
  BY CountTypes DEF CountInv
<1>2. \A q \in Releasers : taken[q] >= Deposits - 1
  <2>. TAKE q \in Releasers
  <2>1. q \in Roles /\ Freed(q) \in {Deposits - 1, Deposits}
    BY CellFacts DEF CountInv
  <2>. QED
    BY <2>1, CountTypes
<1>3. CASE r \in Threads
  <2>1. Synced(r) = Synced(Leader)
    BY <1>3 DEF CountInv
  <2>2. Leader \in Releasers /\ Leader \in Roles
    BY CellFacts DEF Releasers
  <2>3. Freed(Leader) >= Deposits - 1 /\ Synced(Leader) >= Freed(Leader)
    BY <2>2, CountTypes DEF CountInv, Synced, Freed
  <2>. QED
    BY <1>1, <2>1, <2>2, <2>3, CountTypes
<1>. QED
  BY <1>1, <1>2, <1>3, CellFacts

\* When every role has released the slot, every role has read what was in it.
LEMMA FreedMeansRead ==
  ASSUME MailboxTypeOK, CountInv, AllFreed, NEW r \in Roles
  PROVE  taken[r] = Deposits
<1>1. \A q \in Releasers : Freed(q) = Deposits /\ q \in Roles
  BY CellFacts DEF AllFreed
<1>2. \A q \in Releasers : taken[q] = Deposits
  BY <1>1, CountTypes, NobodyLags
<1>3. CASE r \in Threads
  <2>1. Leader \in Releasers /\ Leader \in Roles /\ Synced(r) = Synced(Leader)
    BY <1>3, CellFacts DEF CountInv, Releasers
  <2>2. Synced(Leader) >= Freed(Leader)
    BY <2>1, CountTypes DEF Synced, Freed
  <2>. QED
    BY <1>1, <2>1, <2>2, CountTypes, NobodyLags
<1>. QED
  BY <1>2, <1>3, CellFacts
------------------------------------------------------------------------------
(* The initial state and the lane's steps                                  *)

LEMMA MailboxInv_Init == MailboxInit => MailboxInv
<1>. SUFFICES ASSUME MailboxInit PROVE MailboxInv
  OBVIOUS
<1>. USE CellFacts DEF MailboxInit, NewBar, Cursor, Consumers
<1>1. MailboxTypeOK
  <2>1. TypeOK
    BY TypeOK_Init
  <2>2. full \in BarType(1) /\ empty \in BarType(Consumers)
    BY DEF BarType
  <2>3. slotPs \in CursorType(1) /\ readyPs \in [Roles -> CursorType(1)]
    BY DEF CursorType
  <2>4. mailbox \in Int
    OBVIOUS
  <2>7. signal \in BOOLEAN
    OBVIOUS
  <2>5. log \in Seq(Int)
    <3>1. log = <<>>
      OBVIOUS
    <3>. QED
      BY <3>1
  <2>6. /\ rolePc \in [Roles -> {"await", "read", "sync", "release", "work", "left"}]
        /\ got \in [Roles -> Int] /\ taken \in [Roles -> Nat]
    OBVIOUS
  <2>. QED
    BY <2>1, <2>2, <2>3, <2>4, <2>5, <2>6, <2>7 DEF MailboxTypeOK
<1>2. Deposits = 0 /\ Announced = 0 /\ Slots = 0 /\ pc[Me] = "slot"
  BY DEF Deposits, Announced, Slots, Init
<1>3. \A r \in Roles : Waited(r) = 0 /\ Synced(r) = 0 /\ Freed(r) = 0
  BY DEF Waited, Synced, Freed
<1>4. AllFreed
  BY <1>2, <1>3 DEF AllFreed
<1>5. CountInv
  BY <1>2, <1>3 DEF CountInv
<1>6. ParityInv
  BY <1>2, <1>3, <1>4 DEF ParityInv
<1>7. ContentInv
  BY <1>2 DEF ContentInv
<1>. QED
  BY <1>1, <1>5, <1>6, <1>7 DEF MailboxInv

\* A step of the queue that leaves this CTA's mailbox, and the lane's place with
\* respect to the slot, as they are.
LEMMA QueueOnlyInv ==
  ASSUME MailboxInv, TypeOK', UNCHANGED mailboxVars,
         \/ pc'[Me] = pc[Me]
         \/ pc[Me] \in {"claim", "tail"} /\ pc'[Me] \in {"tail", "publish"}
  PROVE  MailboxInv'
<1>. USE DEF mailboxVars, slotVars, roleVars
<1>1. MailboxTypeOK'
  BY DEF MailboxInv, MailboxTypeOK
<1>2. /\ Deposits' = Deposits /\ Announced' = Announced /\ Slots' = Slots
      /\ AllFreed' = AllFreed
      /\ \A r \in Roles : Waited(r)' = Waited(r) /\ Synced(r)' = Synced(r)
                          /\ Freed(r)' = Freed(r)
      /\ OneFreed("tma")' = OneFreed("tma") /\ OneFreed("mma")' = OneFreed("mma")
      /\ OneFreed(Leader)' = OneFreed(Leader)
  BY DEF Deposits, Announced, Slots, AllFreed, Waited, Synced, Freed, OneFreed
<1>3. CountInv'
  BY <1>2, CellFacts DEF MailboxInv, CountInv
<1>4. ParityInv'
  BY <1>2 DEF MailboxInv, ParityInv
<1>5. ContentInv'
  BY <1>2 DEF MailboxInv, ContentInv
<1>. QED
  BY <1>1, <1>3, <1>4, <1>5 DEF MailboxInv

LEMMA AwaitSlotInv ==
  ASSUME MailboxInv, TypeOK', AwaitSlot
  PROVE  MailboxInv'
<1>. USE DEF MailboxInv
<1>1. /\ ~signal /\ pc[Me] = "slot" /\ pc'[Me] \in {"publish", "tail", "claim"}
      /\ UNCHANGED <<mailbox, full, empty, signal, log, roleVars>>
      /\ slotPs' = Advance(slotPs, 1)
      /\ empty.phase # slotPs.phase
  BY CellFacts DEF AwaitSlot, SlotEmpty, Goto, Passes, MailboxTypeOK, TypeOK
<1>2. /\ Deposits' = Deposits /\ Announced' = Announced
      /\ Slots = Deposits /\ Slots' = Deposits + 1
      /\ AllFreed' = AllFreed
      /\ \A r \in Roles : Waited(r)' = Waited(r) /\ Synced(r)' = Synced(r)
                          /\ Freed(r)' = Freed(r)
      /\ OneFreed("tma")' = OneFreed("tma") /\ OneFreed("mma")' = OneFreed("mma")
      /\ OneFreed(Leader)' = OneFreed(Leader)
  BY <1>1 DEF Deposits, Announced, Slots, AllFreed, Waited, Synced, Freed, OneFreed,
     roleVars
<1>3. AllFreed
  BY <1>1, <1>2 DEF ParityInv
<1>4. slotPs' = [stage |-> 0, phase |-> (Slots' + 1) % 2]
  BY <1>1, <1>2, CountTypes DEF ParityInv, Advance
<1>5. MailboxTypeOK'
  <2>1. slotPs' \in CursorType(1)
    BY <1>2, <1>4, CountTypes DEF CursorType
  <2>. QED
    BY <1>1, <2>1 DEF MailboxTypeOK, roleVars
<1>6. CountInv'
  BY <1>1, <1>2, CellFacts DEF CountInv, roleVars
<1>7. ParityInv'
  BY <1>1, <1>2, <1>3, <1>4 DEF ParityInv, roleVars
<1>8. ContentInv'
  BY <1>1, <1>2 DEF ContentInv, roleVars
<1>. QED
  BY <1>5, <1>6, <1>7, <1>8

\* What the lane puts into the slot: the next tile of its chunk, or the marker.
LEMMA DepositInv ==
  ASSUME MailboxInv, TypeOK', NEW item \in Tiles \cup {NoWork}, Deposit(item),
         pc[Me] = "publish", pc'[Me] = IF item = NoWork THEN "done" ELSE "slot"
  PROVE  MailboxInv'
<1>. USE DEF MailboxInv
<1>1. /\ mailbox' = item /\ log' = Append(log, item) /\ signal' = TRUE
      /\ UNCHANGED <<full, empty, slotPs, roleVars>>
      /\ ~signal /\ AllFreed /\ item \in Int
  BY ConstantFacts DEF Deposit, ParityInv, Tiles, NoWork
<1>2. /\ Deposits' = Deposits + 1 /\ Announced' = Deposits /\ Announced = Deposits
      /\ Slots' = Deposits + 1 /\ Slots = Deposits + 1
      /\ \A r \in Roles : Waited(r)' = Waited(r) /\ Synced(r)' = Synced(r)
                          /\ Freed(r)' = Freed(r)
  BY <1>1 DEF Deposits, Announced, Slots, Waited, Synced, Freed, roleVars,
     MailboxTypeOK
<1>3. \A r \in Releasers : Freed(r)' = Deposits /\ Freed(r) = Deposits
  BY <1>1, <1>2, CellFacts DEF AllFreed
<1>4. ~AllFreed' /\ OneFreed("tma")' = 0 /\ OneFreed("mma")' = 0
      /\ OneFreed(Leader)' = 0
  BY <1>2, <1>3, CountTypes DEF AllFreed, OneFreed, Releasers
<1>5. MailboxTypeOK'
  BY <1>1 DEF MailboxTypeOK, roleVars
<1>6. CountInv'
  BY <1>1, <1>2, <1>3, CellFacts, CountTypes DEF CountInv, roleVars
<1>7. ParityInv'
  <2>1. (Deposits' + 1) % 2 = Deposits % 2
    BY <1>2, CountTypes
  <2>2. empty' = [phase |-> (Deposits' + 1) % 2, pending |-> 3, tx |-> 0]
    BY <1>1, <2>1 DEF ParityInv
  <2>3. 3 - (OneFreed("tma")' + OneFreed("mma")' + OneFreed(Leader)') = 3
    BY <1>4
  <2>4. /\ full' = [phase |-> Announced' % 2, pending |-> 1, tx |-> 0]
        /\ \A r \in Roles : readyPs'[r] = [stage |-> 0, phase |-> Waited(r)' % 2]
        /\ slotPs' = [stage |-> 0, phase |-> (Slots' + 1) % 2]
    BY <1>1, <1>2 DEF ParityInv, roleVars
  <2>5. pc'[Me] \notin {"claim", "tail", "publish"} /\ Deposits' > 0
    BY <1>2, CountTypes
  <2>. QED
    BY <1>4, <2>2, <2>3, <2>4, <2>5 DEF ParityInv
<1>8. ContentInv'
  <2>1. /\ \A i \in 1 .. Deposits : log'[i] = log[i]
        /\ log'[Deposits + 1] = item
    BY <1>1 DEF Deposits, MailboxTypeOK
  <2>2. \A r \in Roles : taken[r] > 0 => log'[taken[r]] = log[taken[r]]
    BY <2>1, CountTypes, NobodyLags
  <2>3. \A i \in 1 .. Deposits' :
          /\ log'[i] \in Tiles \cup {NoWork}
          /\ log'[i] = NoWork <=> i = Deposits' /\ pc'[Me] = "done"
    BY <1>2, <2>1, CountTypes DEF ContentInv
  <2>4. \A r \in Roles : taken'[r] > 0 => got'[r] = log'[taken'[r]]
    BY <1>1, <2>2 DEF ContentInv, roleVars
  <2>5. \A r \in Roles : rolePc'[r] = "left" => taken'[r] > 0 /\ got'[r] < 0
    BY <1>1 DEF ContentInv, roleVars
  <2>6. Deposits' > 0 /\ mailbox' = log'[Deposits']
    BY <1>1, <1>2, <2>1, CountTypes
  <2>. QED
    BY <2>3, <2>4, <2>5, <2>6 DEF ContentInv
<1>. QED
  BY <1>5, <1>6, <1>7, <1>8

LEMMA SignalFullInv ==
  ASSUME MailboxInv, TypeOK', SignalFull
  PROVE  MailboxInv'
<1>. USE DEF MailboxInv
<1>1. /\ signal /\ signal' = FALSE /\ full' = Arrive(full, 1)
      /\ UNCHANGED <<mailbox, empty, slotPs, log, roleVars, pc>>
  BY DEF SignalFull, queueVars
<1>2. /\ Deposits' = Deposits /\ Announced = Deposits - 1 /\ Announced' = Deposits
      /\ Slots' = Slots /\ AllFreed' = AllFreed
      /\ \A r \in Roles : Waited(r)' = Waited(r) /\ Synced(r)' = Synced(r)
                          /\ Freed(r)' = Freed(r)
      /\ OneFreed("tma")' = OneFreed("tma") /\ OneFreed("mma")' = OneFreed("mma")
      /\ OneFreed(Leader)' = OneFreed(Leader)
  BY <1>1 DEF Deposits, Announced, Slots, AllFreed, Waited, Synced, Freed, OneFreed,
     roleVars
<1>3. full' = [phase |-> Announced' % 2, pending |-> 1, tx |-> 0]
  <2>1. full = [phase |-> (Deposits - 1) % 2, pending |-> 1, tx |-> 0]
    BY <1>2 DEF ParityInv
  <2>2. 1 - ((Deposits - 1) % 2) = Deposits % 2
    BY CountTypes
  <2>. QED
    BY <1>1, <1>2, <2>1, <2>2, CountTypes DEF Arrive, Settle
<1>4. MailboxTypeOK'
  <2>1. full' \in BarType(1)
    BY <1>2, <1>3, CountTypes DEF BarType
  <2>. QED
    BY <1>1, <2>1 DEF MailboxTypeOK, roleVars
<1>5. CountInv'
  BY <1>1, <1>2, CountTypes, CellFacts DEF CountInv, roleVars
<1>6. ParityInv'
  BY <1>1, <1>2, <1>3 DEF ParityInv, roleVars
<1>7. ContentInv'
  BY <1>1, <1>2 DEF ContentInv, roleVars
<1>. QED
  BY <1>4, <1>5, <1>6, <1>7
------------------------------------------------------------------------------
(* The roles' steps                                                        *)

\* What the steps of a role leave alone.
RoleStepFrame ==
  /\ UNCHANGED <<queueVars, mailbox, full, slotPs, signal, log>>
  /\ rolePc' \in [Roles -> {"await", "read", "sync", "release", "work", "left"}]

LEMMA FrameCounts ==
  ASSUME RoleStepFrame
  PROVE  /\ Deposits' = Deposits /\ Announced' = Announced /\ Slots' = Slots
         /\ pc' = pc
BY DEF RoleStepFrame, queueVars, Deposits, Announced, Slots

LEMMA AwaitWorkInv ==
  ASSUME MailboxInv, TypeOK', NEW r \in Roles, AwaitWork(r)
  PROVE  MailboxInv'
<1>. USE DEF MailboxInv
<1>1. /\ rolePc[r] = "await" /\ rolePc' = [rolePc EXCEPT ![r] = "read"]
      /\ full.phase # readyPs[r].phase
      /\ readyPs' = [readyPs EXCEPT ![r] = Advance(readyPs[r], 1)]
      /\ UNCHANGED <<queueVars, slotVars, empty, got, taken>>
  BY DEF AwaitWork, RoleGoto, Passes
<1>2. RoleStepFrame
  BY <1>1 DEF RoleStepFrame, slotVars, MailboxTypeOK
<1>3. /\ rolePc'[r] = "read" /\ Waited(r) = taken[r] /\ Waited(r)' = taken[r] + 1
      /\ \A q \in Roles : Synced(q)' = Synced(q) /\ Freed(q)' = Freed(q)
      /\ \A q \in Roles \ {r} : Waited(q)' = Waited(q) /\ rolePc'[q] = rolePc[q]
  BY <1>1 DEF Waited, Synced, Freed, MailboxTypeOK
<1>4. AllFreed' = AllFreed /\ OneFreed("tma")' = OneFreed("tma")
      /\ OneFreed("mma")' = OneFreed("mma") /\ OneFreed(Leader)' = OneFreed(Leader)
  BY <1>2, <1>3, CellFacts, FrameCounts DEF AllFreed, OneFreed
<1>5. taken[r] + 1 =< Announced
  <2>1. full.phase = Announced % 2
    BY DEF ParityInv
  <2>2. readyPs[r] = [stage |-> 0, phase |-> Waited(r) % 2]
    BY DEF ParityInv
  <2>3. readyPs[r].phase = Waited(r) % 2
    BY <2>2
  <2>4. Waited(r) =< Announced /\ Waited(r) # Announced
    BY <1>1, <2>1, <2>3 DEF CountInv
  <2>. QED
    BY <1>3, <2>4, CountTypes
<1>6. \A q \in Roles : readyPs'[q] = [stage |-> 0, phase |-> Waited(q)' % 2]
  <2>. DEFINE n == Waited(r)
  <2>1. readyPs[r] = [stage |-> 0, phase |-> n % 2] /\ n \in Nat
    BY <1>3, CountTypes DEF ParityInv
  <2>2. Advance(readyPs[r], 1) = [stage |-> 0, phase |-> 1 - (n % 2)]
    BY <2>1 DEF Advance
  <2>4. 1 - (n % 2) = (n + 1) % 2
    BY <2>1
  <2>5. readyPs'[r] = [stage |-> 0, phase |-> Waited(r)' % 2]
    BY <1>1, <1>3, <2>2, <2>4 DEF MailboxTypeOK
  <2>3. \A q \in Roles \ {r} : readyPs'[q] = readyPs[q]
    BY <1>1 DEF MailboxTypeOK
  <2>. QED
    BY <1>3, <2>5, <2>3 DEF ParityInv
<1>7. MailboxTypeOK'
  <2>1. readyPs'[r] \in CursorType(1)
    <3>. DEFINE p == Waited(r)' % 2
    <3>1. p \in {0, 1}
      BY <1>3, CountTypes
    <3>2. readyPs'[r] = [stage |-> 0, phase |-> p]
      BY <1>6
    <3>. HIDE DEF p
    <3>. QED
      BY <3>1, <3>2 DEF CursorType
  <2>. QED
    BY <1>1, <1>2, <2>1 DEF MailboxTypeOK, RoleStepFrame, slotVars
<1>8. CountInv'
  BY <1>1, <1>2, <1>3, <1>5, CellFacts, FrameCounts DEF CountInv
<1>9. ParityInv'
  BY <1>1, <1>2, <1>4, <1>6, FrameCounts DEF ParityInv, RoleStepFrame
<1>10. ContentInv'
  BY <1>1, <1>2, <1>3, FrameCounts DEF ContentInv, RoleStepFrame
<1>. QED
  BY <1>7, <1>8, <1>9, <1>10

LEMMA ReadMailboxInv ==
  ASSUME MailboxInv, TypeOK', NEW r \in Roles, ReadMailbox(r)
  PROVE  MailboxInv'
<1>. USE DEF MailboxInv
<1>1. /\ rolePc[r] = "read"
      /\ rolePc' = [rolePc EXCEPT ![r] = IF r \in Threads THEN "sync" ELSE "release"]
      /\ got' = [got EXCEPT ![r] = mailbox]
      /\ taken' = [taken EXCEPT ![r] = taken[r] + 1]
      /\ UNCHANGED <<queueVars, slotVars, empty, readyPs>>
  BY DEF ReadMailbox, RoleGoto
<1>2. RoleStepFrame
  BY <1>1 DEF RoleStepFrame, slotVars, MailboxTypeOK
<1>3. /\ rolePc'[r] = IF r \in Threads THEN "sync" ELSE "release"
      /\ taken'[r] = taken[r] + 1 /\ got'[r] = mailbox
      /\ \A q \in Roles \ {r} : rolePc'[q] = rolePc[q] /\ taken'[q] = taken[q]
                                /\ got'[q] = got[q]
  BY <1>1 DEF MailboxTypeOK
<1>4. /\ Waited(r)' = Waited(r) /\ Waited(r) = taken[r] + 1 /\ Freed(r)' = Freed(r)
      /\ r \in Threads => Synced(r)' = Synced(r)
      /\ \A q \in Roles \ {r} : Waited(q)' = Waited(q) /\ Synced(q)' = Synced(q)
                                /\ Freed(q)' = Freed(q)
  BY <1>1, <1>3, CountTypes DEF Waited, Synced, Freed
<1>5. AllFreed' = AllFreed /\ OneFreed("tma")' = OneFreed("tma")
      /\ OneFreed("mma")' = OneFreed("mma") /\ OneFreed(Leader)' = OneFreed(Leader)
  BY <1>2, <1>4, CellFacts, FrameCounts DEF AllFreed, OneFreed
<1>6. taken[r] + 1 = Deposits
  <2>1. taken[r] + 1 =< Announced
    BY <1>4 DEF CountInv
  <2>. QED
    BY <2>1, CountTypes, NobodyLags
<1>7. MailboxTypeOK'
  <2>1. mailbox \in Int /\ taken[r] + 1 \in Nat
    BY CountTypes DEF MailboxTypeOK
  <2>. QED
    BY <1>1, <1>2, <2>1 DEF MailboxTypeOK, RoleStepFrame
<1>8. CountInv'
  <2>1. \A q \in Releasers : Freed(q)' \in {Deposits' - 1, Deposits'}
    BY <1>2, <1>4, CellFacts, FrameCounts DEF CountInv
  <2>2. \A q \in Roles : Waited(q)' =< Announced'
    BY <1>2, <1>4, FrameCounts DEF CountInv
  <2>3. \A w \in Threads : Synced(w)' = Synced(Leader)'
    BY <1>4, CellFacts DEF CountInv
  <2>4. \A q \in Roles :
          /\ rolePc'[q] = "sync" => q \in Threads
          /\ rolePc'[q] = "release" => q \in Releasers
          /\ rolePc'[q] \in {"sync", "release"} => taken'[q] > 0
    BY <1>3, CountTypes, CellFacts DEF CountInv
  <2>. QED
    BY <2>1, <2>2, <2>3, <2>4 DEF CountInv
<1>9. ParityInv'
  BY <1>1, <1>2, <1>4, <1>5, FrameCounts DEF ParityInv, RoleStepFrame
<1>10. ContentInv'
  <2>1. got'[r] = log'[taken'[r]]
    BY <1>2, <1>3, <1>6, CountTypes DEF ContentInv, RoleStepFrame
  <2>. QED
    BY <1>2, <1>3, <2>1, FrameCounts DEF ContentInv, RoleStepFrame
<1>. QED
  BY <1>7, <1>8, <1>9, <1>10

LEMMA ReadSyncInv ==
  ASSUME MailboxInv, TypeOK', ReadSync
  PROVE  MailboxInv'
<1>. USE DEF MailboxInv
<1>1. /\ \A w \in Threads : rolePc[w] = "sync"
      /\ rolePc' = [r \in Roles |-> CASE r \notin Threads -> rolePc[r]
                                     [] r = Leader -> "release"
                                     [] OTHER -> AfterRelease(r)]
      /\ UNCHANGED <<queueVars, slotVars, empty, readyPs, got, taken>>
  BY DEF ReadSync
<1>2. /\ rolePc'[Leader] = "release"
      /\ \A w \in Threads \ {Leader} : rolePc'[w] = AfterRelease(w)
      /\ \A r \in Roles \ Threads : rolePc'[r] = rolePc[r]
  BY <1>1, CellFacts
<1>3. RoleStepFrame
  <2>1. \A r \in Roles : AfterRelease(r) \in {"left", "work"}
    BY DEF AfterRelease
  <2>. QED
    BY <1>1, <2>1 DEF RoleStepFrame, slotVars, MailboxTypeOK
<1>4. /\ \A r \in Roles : Waited(r)' = Waited(r)
      /\ \A r \in Releasers : Freed(r)' = Freed(r)
      /\ \A w \in Threads : Synced(w)' = Synced(w) + 1
  BY <1>1, <1>2, CountTypes, CellFacts
     DEF Waited, Freed, Synced, AfterRelease, Releasers
<1>5. AllFreed' = AllFreed /\ OneFreed("tma")' = OneFreed("tma")
      /\ OneFreed("mma")' = OneFreed("mma") /\ OneFreed(Leader)' = OneFreed(Leader)
  BY <1>3, <1>4, FrameCounts DEF AllFreed, OneFreed, Releasers
<1>6. MailboxTypeOK'
  BY <1>1, <1>3 DEF MailboxTypeOK, RoleStepFrame
<1>7. CountInv'
  BY <1>1, <1>2, <1>3, <1>4, CellFacts, FrameCounts
     DEF CountInv, AfterRelease, Releasers
<1>8. ParityInv'
  BY <1>1, <1>3, <1>4, <1>5, FrameCounts DEF ParityInv, RoleStepFrame
<1>9. ContentInv'
  <2>1. \A w \in Threads : rolePc'[w] = "left" => taken[w] > 0 /\ got[w] < 0
    BY <1>1, <1>2, CellFacts DEF CountInv, AfterRelease
  <2>. QED
    BY <1>1, <1>2, <1>3, <2>1, FrameCounts DEF ContentInv, RoleStepFrame
<1>. QED
  BY <1>6, <1>7, <1>8, <1>9

LEMMA ReleaseSlotInv ==
  ASSUME MailboxInv, TypeOK', NEW r \in Roles, ReleaseSlot(r)
  PROVE  MailboxInv'
<1>. USE DEF MailboxInv
<1>1. /\ rolePc[r] = "release" /\ rolePc' = [rolePc EXCEPT ![r] = AfterRelease(r)]
      /\ empty' = Arrive(empty, 3)
      /\ UNCHANGED <<queueVars, slotVars, readyPs, got, taken>>
  BY DEF ReleaseSlot, RoleGoto, Consumers
<1>2. AfterRelease(r) \in {"left", "work"}
  BY DEF AfterRelease
<1>3. RoleStepFrame
  BY <1>1, <1>2 DEF RoleStepFrame, slotVars, MailboxTypeOK
<1>4. /\ rolePc'[r] \in {"left", "work"} /\ r \in Releasers
      /\ Freed(r) = taken[r] - 1 /\ Freed(r)' = taken[r]
      /\ \A q \in Roles : Waited(q)' = Waited(q) /\ Synced(q)' = Synced(q)
      /\ \A q \in Roles \ {r} : Freed(q)' = Freed(q) /\ rolePc'[q] = rolePc[q]
  BY <1>1, <1>2 DEF Waited, Synced, Freed, MailboxTypeOK, CountInv
<1>5. Freed(r) = Deposits - 1 /\ Freed(r)' = Deposits
  <2>1. taken[r] =< Deposits /\ Freed(r) \in {Deposits - 1, Deposits}
    BY <1>4, NobodyLags DEF CountInv
  <2>. QED
    BY <1>4, <2>1, CountTypes
<1>6. \A q \in Releasers : Freed(q)' \in {Deposits' - 1, Deposits'}
  BY <1>3, <1>4, <1>5, FrameCounts, CountTypes, CellFacts DEF CountInv
<1>7. /\ AllFreed' => empty' = [phase |-> Deposits' % 2, pending |-> 3, tx |-> 0]
      /\ ~AllFreed' =>
           empty' = [phase |-> (Deposits' + 1) % 2,
                     pending |-> 3 - (OneFreed("tma")' + OneFreed("mma")'
                                        + OneFreed(Leader)'),
                     tx |-> 0]
  <2>. DEFINE n == OneFreed("tma") + OneFreed("mma") + OneFreed(Leader)
  <2>1. empty = [phase |-> (Deposits + 1) % 2, pending |-> 3 - n, tx |-> 0]
    BY <1>4, <1>5, CountTypes DEF ParityInv, AllFreed
  <2>2. /\ \A q \in Releasers : OneFreed(q) \in {0, 1} /\ OneFreed(q)' \in {0, 1}
        /\ OneFreed(r) = 0 /\ OneFreed(r)' = 1
        /\ \A q \in Releasers \ {r} : OneFreed(q)' = OneFreed(q)
    BY <1>3, <1>4, <1>5, FrameCounts, CountTypes, CellFacts DEF OneFreed
  <2>3. AllFreed' <=> \A q \in Releasers : OneFreed(q)' = 1
    BY DEF AllFreed, OneFreed
  <2>4. OneFreed("tma")' + OneFreed("mma")' + OneFreed(Leader)' = n + 1
    BY <1>4, <2>2, CellFacts DEF Releasers
  <2>5. n \in 0 .. 2 /\ (AllFreed' <=> n = 2)
    BY <1>4, <2>2, <2>3, <2>4, CellFacts DEF Releasers
  <2>6. 1 - ((Deposits + 1) % 2) = Deposits % 2
    BY CountTypes
  <2>. HIDE DEF n
  <2>7. CASE n = 2
    <3>1. empty' = [phase |-> Deposits % 2, pending |-> 3, tx |-> 0]
      BY <1>1, <2>1, <2>6, <2>7, CountTypes DEF Arrive, Settle
    <3>. QED
      BY <1>3, <2>5, <2>7, <3>1, FrameCounts
  <2>8. CASE n # 2
    <3>1. empty' = [phase |-> (Deposits + 1) % 2, pending |-> 3 - (n + 1), tx |-> 0]
      BY <1>1, <2>1, <2>5, <2>8, CountTypes DEF Arrive, Settle
    <3>. QED
      BY <1>3, <2>4, <2>5, <2>8, <3>1, FrameCounts
  <2>. QED
    BY <2>7, <2>8
<1>8. MailboxTypeOK'
  <2>1. empty' \in BarType(Consumers)
    <3>1. \A q \in Releasers : OneFreed(q)' \in {0, 1}
      BY DEF OneFreed
    <3>2. (Deposits' + 1) % 2 \in {0, 1} /\ Deposits' % 2 \in {0, 1}
      BY <1>3, FrameCounts, CountTypes
    <3>. QED
      BY <1>7, <3>1, <3>2 DEF BarType, Consumers, Releasers
  <2>. QED
    BY <1>1, <1>3, <2>1 DEF MailboxTypeOK, RoleStepFrame
<1>9. CountInv'
  <2>1. \A w \in Threads : Synced(w)' = Synced(Leader)'
    BY <1>4, CellFacts DEF CountInv
  <2>2. \A q \in Roles : Waited(q)' =< Announced'
    BY <1>3, <1>4, FrameCounts DEF CountInv
  <2>3. \A q \in Roles :
          /\ rolePc'[q] = "sync" => q \in Threads
          /\ rolePc'[q] = "release" => q \in Releasers
          /\ rolePc'[q] \in {"sync", "release"} => taken'[q] > 0
    BY <1>1, <1>4 DEF CountInv
  <2>. QED
    BY <1>6, <2>1, <2>2, <2>3 DEF CountInv
<1>10. ParityInv'
  <2>1. pc[Me] \notin {"claim", "tail", "publish"}
    BY <1>4, <1>5, CountTypes DEF ParityInv, AllFreed
  <2>. QED
    BY <1>1, <1>3, <1>4, <1>7, <2>1, FrameCounts DEF ParityInv, RoleStepFrame
<1>11. ContentInv'
  <2>1. rolePc'[r] = "left" => taken[r] > 0 /\ got[r] < 0
    BY <1>1, <1>4 DEF CountInv, AfterRelease, MailboxTypeOK
  <2>. QED
    BY <1>1, <1>3, <1>4, <2>1, FrameCounts DEF ContentInv, RoleStepFrame
<1>. QED
  BY <1>8, <1>9, <1>10, <1>11

LEMMA WorkInv ==
  ASSUME MailboxInv, TypeOK', NEW r \in Roles, Work(r)
  PROVE  MailboxInv'
<1>. USE DEF MailboxInv
<1>1. /\ rolePc[r] = "work" /\ rolePc' = [rolePc EXCEPT ![r] = "await"]
      /\ UNCHANGED <<queueVars, slotVars, empty, readyPs, got, taken>>
  BY DEF Work, RoleGoto
<1>2. RoleStepFrame
  BY <1>1 DEF RoleStepFrame, slotVars, MailboxTypeOK
<1>3. /\ rolePc'[r] = "await"
      /\ \A q \in Roles : Waited(q)' = Waited(q) /\ Synced(q)' = Synced(q)
                          /\ Freed(q)' = Freed(q)
      /\ \A q \in Roles \ {r} : rolePc'[q] = rolePc[q]
  BY <1>1 DEF Waited, Synced, Freed, MailboxTypeOK
<1>4. AllFreed' = AllFreed /\ OneFreed("tma")' = OneFreed("tma")
      /\ OneFreed("mma")' = OneFreed("mma") /\ OneFreed(Leader)' = OneFreed(Leader)
  BY <1>2, <1>3, CellFacts, FrameCounts DEF AllFreed, OneFreed
<1>5. MailboxTypeOK'
  BY <1>1, <1>2 DEF MailboxTypeOK, RoleStepFrame
<1>6. CountInv'
  BY <1>1, <1>2, <1>3, CellFacts, FrameCounts DEF CountInv
<1>7. ParityInv'
  BY <1>1, <1>2, <1>3, <1>4, FrameCounts DEF ParityInv, RoleStepFrame
<1>8. ContentInv'
  BY <1>1, <1>2, <1>3, FrameCounts DEF ContentInv, RoleStepFrame
<1>. QED
  BY <1>5, <1>6, <1>7, <1>8
------------------------------------------------------------------------------
(* Every step, and what follows                                            *)

LEMMA MailboxInv_Step ==
  ASSUME Inv, MailboxInv, [MailboxNext]_cellVars
  PROVE  MailboxInv'
<1>1. Inv' /\ TypeOK'
  BY MailboxStepIsQueueStep, Inv_Step DEF Inv
<1>2. CASE Acquire
  <2>1. pc[Me] \in {"claim", "tail"} /\ pc'[Me] \in {"tail", "publish"}
    BY <1>2, CellFacts
       DEF Acquire, ClaimMain, LeaveMain, ClaimTail, TakeChunk, Goto, MailboxInv,
           MailboxTypeOK, TypeOK
  <2>. QED
    BY <1>1, <1>2, <2>1, QueueOnlyInv DEF Acquire
<1>3. CASE DepositTile
  <2>1. pc[Me] = "publish" /\ pc'[Me] = "slot" /\ Deposit(chunkNext[Me])
    BY <1>3, CellFacts DEF DepositTile, Publish, Goto, MailboxInv, MailboxTypeOK, TypeOK
  <2>2. chunkNext[Me] \in Tiles /\ chunkNext[Me] # NoWork
    BY <1>3, CellFacts, ConstantFacts
       DEF DepositTile, Publish, Inv, QueueInv, LaneInv, TypeOK, IntType, Tiles, NoWork
  <2>. QED
    BY <1>1, <2>1, <2>2, DepositInv
<1>4. CASE DepositDone
  <2>1. pc[Me] = "publish" /\ pc'[Me] = "done" /\ Deposit(NoWork)
    BY <1>4, CellFacts
       DEF DepositDone, PublishDone, Goto, MailboxInv, MailboxTypeOK, TypeOK
  <2>. QED
    BY <1>1, <2>1, DepositInv
<1>5. ASSUME NEW c \in CTAs \ {Me}, OtherLane(c) PROVE MailboxInv'
  <2>1. pc'[Me] = pc[Me]
    BY <1>5, CellFacts
       DEF OtherLane, Lane, SlotEmpty, ClaimMain, LeaveMain, ClaimTail, Publish,
           PublishDone, TakeChunk, Goto, MailboxInv, MailboxTypeOK, TypeOK
  <2>. QED
    BY <1>1, <1>5, <2>1, QueueOnlyInv DEF OtherLane
<1>6. CASE UNCHANGED cellVars
  BY <1>1, <1>6, QueueOnlyInv DEF cellVars, queueVars
<1>7. MyLane => MailboxInv'
  BY <1>1, <1>2, <1>3, <1>4, AwaitSlotInv, SignalFullInv DEF MyLane
<1>8. (\E r \in Roles : Consume(r) \/ Work(r)) => MailboxInv'
  BY <1>1, AwaitWorkInv, ReadMailboxInv, ReleaseSlotInv, WorkInv DEF Consume
<1>9. ReadSync => MailboxInv'
  BY <1>1, ReadSyncInv
<1>. QED
  BY <1>5, <1>6, <1>7, <1>8, <1>9 DEF MailboxNext, MailboxFinished

\* The counts, the parities and the contents hold in every reachable state.
THEOREM MailboxInvariant == MailboxSafeSpec => [](Inv /\ MailboxInv)
<1>1. MailboxInit => Inv /\ MailboxInv
  BY MailboxInv_Init, Inv_Init DEF MailboxInit
<1>2. Inv /\ MailboxInv /\ [MailboxNext]_cellVars => Inv' /\ MailboxInv'
  BY MailboxInv_Step, MailboxStepIsQueueStep, Inv_Step
<1>. QED
  BY <1>1, <1>2, PTL DEF MailboxSafeSpec

\* The mailbox, its barriers and the roles' state keep their types.
THEOREM MailboxTypeCorrect == MailboxSpec => []MailboxTypeOK
BY MailboxInvariant, PTL DEF MailboxSpec, MailboxInv

\* However the lane and the roles interleave, the n-th tile each role takes is
\* the n-th the lane put into the slot.
THEOREM GenerationsAgree == MailboxSpec => []SameGeneration
<1>1. Inv /\ MailboxInv => SameGeneration
  <2>. SUFFICES ASSUME MailboxInv, NEW r \in Roles
                PROVE  /\ taken[r] =< Len(log)
                       /\ taken[r] > 0 => got[r] = log[taken[r]]
                       /\ rolePc[r] = "read" =>
                            taken[r] < Len(log) /\ mailbox = log[taken[r] + 1]
    BY DEF SameGeneration
  <2>. USE DEF MailboxInv
  <2>1. taken[r] =< Deposits /\ taken[r] >= Deposits - 1 /\ taken[r] \in Nat
    BY NobodyLags, CountTypes
  <2>2. ASSUME rolePc[r] = "read" PROVE taken[r] + 1 = Deposits
    <3>1. taken[r] + 1 =< Announced
      BY <2>2 DEF CountInv, Waited
    <3>. QED
      BY <2>1, <3>1, CountTypes
  <2>. QED
    BY <2>1, <2>2, CountTypes DEF ContentInv, Deposits
<1>. QED
  BY <1>1, MailboxInvariant, PTL DEF MailboxSpec

\* The lane never overwrites a slot some role has still to read.
THEOREM SlotConsumedFirst == MailboxSpec => ConsumedBeforeOverwrite
<1>1. ASSUME Inv, MailboxInv, [MailboxNext]_cellVars
      PROVE  [Len(log') # Len(log) => \A r \in Roles : taken[r] = Len(log)]_cellVars
  <2>1. ASSUME pc[Me] = "publish" PROVE \A r \in Roles : taken[r] = Len(log)
    <3>1. AllFreed
      BY <1>1, <2>1 DEF MailboxInv, ParityInv
    <3>. QED
      BY <1>1, <3>1, FreedMeansRead DEF MailboxInv, Deposits
  <2>2. log' = log \/ pc[Me] = "publish"
    BY <1>1
       DEF MailboxNext, MyLane, AwaitSlot, Acquire, DepositTile, DepositDone, Publish,
           PublishDone, SignalFull, OtherLane, Consume, AwaitWork, ReadMailbox,
           ReleaseSlot, Work, ReadSync, MailboxFinished, cellVars, mailboxVars, slotVars
  <2>. QED
    BY <2>1, <2>2
<1>. QED
  BY <1>1, MailboxInvariant, PTL DEF MailboxSpec, MailboxSafeSpec, ConsumedBeforeOverwrite

\* A role that has left was told to by the marker, which the lane deposits last
\* and only when no tile is left unclaimed.
THEOREM StopMeansDrained == MailboxSpec => []StopsWhenDrained
<1>1. Inv /\ MailboxInv => StopsWhenDrained
  <2>. SUFFICES ASSUME Inv, MailboxInv, NEW r \in Roles, rolePc[r] = "left"
                PROVE  pc[Me] = "done" /\ Unclaimed = {} /\ taken[r] = Len(log)
    BY DEF StopsWhenDrained
  <2>. USE DEF MailboxInv
  <2>1. taken[r] \in 1 .. Deposits /\ got[r] = log[taken[r]] /\ got[r] < 0
    BY NobodyLags, CountTypes DEF ContentInv
  <2>2. log[taken[r]] = NoWork
    BY <2>1, ConstantFacts DEF ContentInv, Tiles
  <2>3. taken[r] = Deposits /\ pc[Me] = "done"
    BY <2>1, <2>2 DEF ContentInv
  <2>. QED
    BY <2>3, CellFacts DEF Inv, QueueInv, LaneInv, Deposits
<1>. QED
  BY <1>1, MailboxInvariant, PTL DEF MailboxSpec

------------------------------------------------------------------------------
(* One CTA whole (AtomicKernel)                                            *)

\* Tiles a role has been given: all it has taken but the one in its hands, or the
\* stop marker.
Given(r) ==
  IF rolePc[r] \in {"sync", "release", "work", "left"} THEN taken[r] - 1 ELSE taken[r]

\* The tiles a role has begun are the first ones the lane has put into the slot.
GlueInv ==
  \A r \in Roles :
    /\ Begun(r) = Given(r)
    /\ \A i \in 1 .. Begun(r) : begun[r][i] = log[i] /\ log[i] # NoWork
    /\ rolePc[r] = "work" => got[r] >= 0
    /\ at[r] = "end" => rolePc[r] = "left"

\* The invariant of a CTA.
KernelInv == Inv /\ MailboxInv /\ PipeInv /\ GlueInv /\ KeptInv

------------------------------------------------------------------------------
(* The mailbox under the kernel                                            *)

LEMMA KernelStepIsMailboxStep == [KernelNext]_kernelVars => [MailboxNext]_cellVars
<1>1. MailboxStep => MailboxNext
  BY DEF MailboxStep, MailboxNext, Consume
<1>2. (\E r \in Roles : StartTile(r) \/ NextRound(r)) => MailboxNext
  BY DEF StartTile, NextRound, MailboxNext, Consume
<1>3. (\E r \in Roles : LeaveLoop(r)) \/ KernelStep => UNCHANGED cellVars
  BY DEF LeaveLoop, KernelStep
<1>4. KernelFinished \/ UNCHANGED kernelVars => UNCHANGED cellVars
  BY DEF KernelFinished, kernelVars
<1>. QED
  BY <1>1, <1>2, <1>3, <1>4 DEF KernelNext

\* A CTA of the V2-V4 kernels uses its mailbox as AtomicMailbox's roles do, however
\* long they work on a tile: what is proved of the mailbox, and through it of the
\* queue, holds of the kernels.
THEOREM KernelImplementsMailbox == KernelSpec => MailboxSafeSpec
<1>1. KernelInit => MailboxInit
  BY DEF KernelInit
<1>. QED
  BY <1>1, KernelStepIsMailboxStep, PTL DEF KernelSpec, MailboxSafeSpec

------------------------------------------------------------------------------
(* What the kernel owes the pipeline                                       *)

\* What a role has begun has been deposited, and was a tile.
LEMMA BegunIsDeposited ==
  ASSUME MailboxInv, PipeInv, GlueInv, NEW r \in Roles
  PROVE  /\ Begun(r) \in Nat /\ Begun(r) =< Deposits /\ Deposits \in Nat
         /\ \A i \in 1 .. Begun(r) : begun[r][i] = log[i] /\ log[i] \in WorkTiles
<1>1. taken[r] \in Nat /\ taken[r] =< Deposits /\ Deposits \in Nat
  BY NobodyLags, CountTypes DEF MailboxInv
<1>2. Begun(r) \in Nat
  BY CountFacts DEF PipeInv
<1>3. Begun(r) =< Deposits
  BY <1>1, <1>2 DEF GlueInv, Given
<1>4. ASSUME NEW i \in 1 .. Begun(r)
      PROVE  begun[r][i] = log[i] /\ log[i] \in WorkTiles
  <2>1. i \in 1 .. Deposits
    BY <1>1, <1>2, <1>3
  <2>2. log[i] \in Tiles \cup {NoWork}
    BY <2>1 DEF MailboxInv, ContentInv
  <2>. QED
    BY <2>2, KernelAssumption DEF GlueInv
<1>. QED
  BY <1>1, <1>2, <1>3, <1>4

\* A role leaves with the marker in its hands, which is the last deposit.
LEMMA LeftWithMarker ==
  ASSUME MailboxInv, GlueInv, NEW r \in Roles, rolePc[r] = "left"
  PROVE  /\ Deposits \in Nat /\ Deposits > 0 /\ log[Deposits] = NoWork
         /\ taken[r] = Deposits /\ Begun(r) = Deposits - 1
<1>1. /\ taken[r] \in 1 .. Deposits /\ got[r] = log[taken[r]] /\ got[r] < 0
      /\ Deposits \in Nat
  BY NobodyLags, CountTypes DEF MailboxInv, ContentInv
<1>2. log[taken[r]] = NoWork
  BY <1>1, ConstantFacts DEF MailboxInv, ContentInv, Tiles
<1>3. taken[r] = Deposits
  BY <1>1, <1>2 DEF MailboxInv, ContentInv
<1>. QED
  BY <1>1, <1>2, <1>3 DEF GlueInv, Given

LEMMA MailboxGivesSame ==
  ASSUME MailboxInv, PipeInv, GlueInv
  PROVE  SameTiles
<1>1. \A i \in 1 .. Begun("tma") : begun["tma"][i] \in WorkTiles
  BY BegunIsDeposited, RoleFacts
<1>2. ASSUME NEW i \in 1 .. Begun("tma"), i =< Begun(Leader)
      PROVE  begun["tma"][i] = begun[Leader][i]
  <2>1. i \in 1 .. Begun(Leader)
    BY <1>2, BegunIsDeposited, RoleFacts
  <2>. QED
    BY <2>1, RoleFacts DEF GlueInv
<1>3. ASSUME NEW r \in Roles, NEW q \in Roles, at[r] = "end", at[q] = "end"
      PROVE  Begun(r) = Begun(q)
  BY <1>3, LeftWithMarker DEF GlueInv
<1>. QED
  BY <1>1, <1>2, <1>3 DEF SameTiles

------------------------------------------------------------------------------
(* The invariant                                                           *)

LEMMA KernelInv_Init ==
  ASSUME KernelInit
  PROVE  KernelInv
<1>1. Inv /\ MailboxInv
  BY Inv_Init, MailboxInv_Init DEF KernelInit, MailboxInit
<1>2. PipeInv /\ KeptInv
  BY PipelineInitInv, KeptInit DEF KernelInit
<1>3. \A r \in Roles : /\ Begun(r) = 0 /\ at[r] = "next" /\ rolePc[r] = "await"
                       /\ taken[r] = 0
  BY DEF KernelInit, MailboxInit, PipelineInit, Begun
<1>. QED
  BY <1>1, <1>2, <1>3 DEF KernelInv, GlueInv, Given

\* Deposits are only added.
LEMMA LogGrows ==
  ASSUME MailboxInv, MyLane
  PROVE  \A i \in 1 .. Deposits : log'[i] = log[i]
<1>1. CASE AwaitSlot \/ Acquire \/ SignalFull
  BY <1>1 DEF AwaitSlot, Acquire, SignalFull, mailboxVars, slotVars
<1>2. ASSUME NEW item \in Int, log' = Append(log, item)
      PROVE  \A i \in 1 .. Deposits : log'[i] = log[i]
  <2>1. log \in Seq(Int)
    BY DEF MailboxInv, MailboxTypeOK
  <2>. QED
    BY <1>2, <2>1 DEF Deposits
<1>3. CASE DepositTile
  <2>1. chunkNext[Me] \in Int
    BY CellFacts DEF MailboxInv, MailboxTypeOK, TypeOK, IntType
  <2>. QED
    BY <1>2, <1>3, <2>1 DEF DepositTile, Deposit
<1>4. CASE DepositDone
  <2>1. NoWork \in Int
    BY DEF NoWork
  <2>. QED
    BY <1>2, <1>4, <2>1 DEF DepositDone, Deposit
<1>. QED
  BY <1>1, <1>3, <1>4 DEF MyLane

\* What GlueInv needs of a step that begins no tile.
LEMMA GlueFrame ==
  ASSUME MailboxInv, PipeInv, GlueInv, begun' = begun,
         \A i \in 1 .. Deposits : log'[i] = log[i],
         \A r \in Roles :
           /\ Given(r)' = Given(r)
           /\ rolePc'[r] = "work" => got'[r] >= 0
           /\ at'[r] = "end" => rolePc'[r] = "left"
  PROVE  GlueInv'
<1>1. \A r : Begun(r)' = Begun(r)
  BY DEF Begun
<1>2. ASSUME NEW r \in Roles, NEW i \in 1 .. Begun(r) PROVE log'[i] = log[i]
  <2>1. i \in 1 .. Deposits
    BY BegunIsDeposited
  <2>. QED
    BY <2>1
<1>. QED
  BY <1>1, <1>2 DEF GlueInv

LEMMA MailboxStepGlue ==
  ASSUME MailboxInv, PipeInv, GlueInv, MailboxStep
  PROVE  GlueInv'
<1>1. begun' = begun /\ at' = at
  BY DEF MailboxStep, pipeVars
<1>2. \A r \in Roles : taken[r] \in Nat
  BY CountTypes DEF MailboxInv
<1>3. ASSUME \A i \in 1 .. Deposits : log'[i] = log[i], UNCHANGED <<rolePc, got, taken>>
      PROVE  GlueInv'
  <2>1. \A r \in Roles : /\ Given(r)' = Given(r)
                         /\ rolePc'[r] = "work" => got'[r] >= 0
                         /\ at'[r] = "end" => rolePc'[r] = "left"
    BY <1>1, <1>3 DEF Given, GlueInv
  <2>. QED
    BY <1>1, <1>3, <2>1, GlueFrame
<1>4. CASE MyLane
  <2>1. UNCHANGED <<rolePc, got, taken>>
    BY <1>4 DEF MyLane, AwaitSlot, Acquire, DepositTile, DepositDone, SignalFull, Deposit,
                mailboxVars, roleVars
  <2>. QED
    BY <1>3, <1>4, <2>1, LogGrows
<1>5. CASE \E c \in CTAs \ {Me} : OtherLane(c)
  BY <1>3, <1>5 DEF OtherLane, mailboxVars, slotVars, roleVars
<1>6. CASE ReadSync
  <2>1. UNCHANGED <<log, got, taken>>
    BY <1>6 DEF ReadSync, slotVars
  <2>2. ASSUME NEW r \in Roles
        PROVE  /\ Given(r)' = Given(r)
               /\ rolePc'[r] = "work" => got'[r] >= 0
               /\ at'[r] = "end" => rolePc'[r] = "left"
    <3>1. CASE r \notin Threads
      <4>1. rolePc'[r] = rolePc[r]
        BY <1>6, <3>1, RoleFacts DEF ReadSync
      <4>. QED
        BY <1>1, <2>1, <4>1 DEF Given, GlueInv
    <3>2. CASE r \in Threads
      <4>1. rolePc[r] = "sync" /\ at[r] # "end"
        BY <1>6, <3>2 DEF ReadSync, GlueInv
      <4>2. rolePc'[r] \in {"release", AfterRelease(r)}
        BY <1>6, <3>2 DEF ReadSync
      <4>3. got[r] \in Int
        BY DEF MailboxInv, MailboxTypeOK
      <4>. QED
        BY <1>1, <2>1, <4>1, <4>2, <4>3 DEF Given, AfterRelease
    <3>. QED
      BY <3>1, <3>2
  <2>. QED
    BY <1>1, <2>1, <2>2, GlueFrame
<1>7. ASSUME NEW q \in Roles, ReadMailbox(q) \/ ReleaseSlot(q) PROVE GlueInv'
  <2>1. /\ log' = log
        /\ \A r \in Roles \ {q} :
             rolePc'[r] = rolePc[r] /\ got'[r] = got[r] /\ taken'[r] = taken[r]
    BY <1>7 DEF ReadMailbox, ReleaseSlot, RoleGoto, slotVars, MailboxInv, MailboxTypeOK
  <2>2. \/ /\ rolePc[q] = "read" /\ rolePc'[q] \in {"sync", "release"}
           /\ taken'[q] = taken[q] + 1
        \/ /\ rolePc[q] = "release" /\ rolePc'[q] = AfterRelease(q)
           /\ taken'[q] = taken[q] /\ got'[q] = got[q]
    BY <1>7 DEF ReadMailbox, ReleaseSlot, RoleGoto, MailboxInv, MailboxTypeOK
  <2>3. ASSUME NEW r \in Roles
        PROVE  /\ Given(r)' = Given(r)
               /\ rolePc'[r] = "work" => got'[r] >= 0
               /\ at'[r] = "end" => rolePc'[r] = "left"
    <3>1. CASE r = q
      <4>1. at[q] # "end"
        BY <2>2 DEF GlueInv
      <4>2. got[q] \in Int
        BY DEF MailboxInv, MailboxTypeOK
      <4>. QED
        BY <1>1, <1>2, <2>2, <3>1, <4>1, <4>2 DEF Given, AfterRelease
    <3>2. CASE r # q
      BY <1>1, <2>1, <3>2 DEF Given, GlueInv
    <3>. QED
      BY <3>1, <3>2
  <2>. QED
    BY <1>1, <2>1, <2>3, GlueFrame
<1>. QED
  BY <1>4, <1>5, <1>6, <1>7 DEF MailboxStep

\* The tile a role has in its hands is the one after those it has begun.
LEMMA StartTileInv ==
  ASSUME KernelInv, NEW r \in Roles, StartTile(r)
  PROVE  PipeInv' /\ GlueInv' /\ KeptInv'
<1>. USE DEF KernelInv
<1>. DEFINE n == Begun(r)
            t == got[r]
<1>1. /\ rolePc[r] = "work" /\ BeginTile(r, t)
      /\ UNCHANGED <<log, got, taken>> /\ rolePc' = [rolePc EXCEPT ![r] = "await"]
  BY DEF StartTile, Work, RoleGoto, slotVars
<1>2. /\ n \in Nat /\ n + 1 = taken[r] /\ taken[r] \in 1 .. Deposits /\ Deposits \in Nat
      /\ t = log[n + 1]
  <2>1. /\ taken[r] \in Nat /\ taken[r] =< Deposits /\ n \in Nat /\ n = taken[r] - 1
        /\ Deposits \in Nat
    BY <1>1, NobodyLags, CountTypes, BegunIsDeposited DEF MailboxInv, GlueInv, Given
  <2>2. taken[r] > 0 => t = log[taken[r]]
    BY DEF MailboxInv, ContentInv
  <2>. HIDE DEF n, t
  <2>3. n + 1 = taken[r] /\ taken[r] > 0
    BY <2>1
  <2>. QED
    BY <2>1, <2>2, <2>3
<1>3. t \in WorkTiles /\ t # NoWork /\ t \in WorkTiles \cup {NoTile}
  <2>1. t >= 0
    BY <1>1 DEF GlueInv
  <2>. HIDE DEF t, n
  <2>2. t \in Tiles \cup {NoWork}
    BY <1>2 DEF MailboxInv, ContentInv
  <2>. QED
    BY <2>1, <2>2, KernelAssumption DEF NoWork
<1>4. PipeInv' /\ KeptInv'
  BY <1>1, <1>3, LoopInv, KeptLoop
<1>5. begun' = [begun EXCEPT ![r] = Append(begun[r], t)]
  BY <1>1 DEF BeginTile
<1>6. /\ Begun(r)' = n + 1 /\ begun'[r][n + 1] = t
      /\ \A i \in 1 .. n : begun'[r][i] = begun[r][i]
      /\ \A q \in Roles \ {r} : begun'[q] = begun[q] /\ Begun(q)' = Begun(q)
  BY <1>3, <1>5, AppendBegun DEF PipeInv
<1>7. /\ at'[r] # "end" /\ \A q \in Roles \ {r} : at'[q] = at[q]
      /\ rolePc'[r] = "await" /\ \A q \in Roles \ {r} : rolePc'[q] = rolePc[q]
  <2>1. rolePc'[r] = "await" /\ \A q \in Roles \ {r} : rolePc'[q] = rolePc[q]
    BY <1>1 DEF MailboxInv, MailboxTypeOK
  <2>. QED
    BY <1>1, <2>1, RoleFacts DEF BeginTile, Move, PipeInv, PipelineTypeOK
<1>. HIDE DEF n, t
<1>8. ASSUME NEW q \in Roles
      PROVE  /\ Begun(q)' = Given(q)'
             /\ \A i \in 1 .. Begun(q)' : begun'[q][i] = log[i] /\ log[i] # NoWork
             /\ rolePc'[q] = "work" => got[q] >= 0
             /\ at'[q] = "end" => rolePc'[q] = "left"
  <2>1. CASE q = r
    <3>1. ASSUME NEW i \in 1 .. n + 1 PROVE begun'[r][i] = log[i] /\ log[i] # NoWork
      <4>1. CASE i = n + 1
        BY <1>2, <1>3, <1>6, <4>1
      <4>2. CASE i # n + 1
        <5>1. i \in 1 .. n
          BY <1>2, <4>2
        <5>. QED
          BY <1>6, <5>1 DEF GlueInv, n
      <4>. QED
        BY <4>1, <4>2
    <3>2. Given(r)' = taken[r]
      BY <1>1, <1>7 DEF Given
    <3>. QED
      BY <1>2, <1>6, <1>7, <2>1, <3>1, <3>2
  <2>2. CASE q # r
    <3>1. Given(q)' = Given(q)
      BY <1>1, <1>7, <2>2 DEF Given
    <3>. QED
      BY <1>6, <1>7, <2>2, <3>1 DEF GlueInv
  <2>. QED
    BY <2>1, <2>2
<1>. QED
  BY <1>1, <1>4, <1>8 DEF GlueInv

LEMMA KernelInv_Step ==
  ASSUME KernelInv, [KernelNext]_kernelVars
  PROVE  KernelInv'
<1>. USE DEF KernelInv
<1>1. Inv' /\ MailboxInv'
  BY KernelStepIsMailboxStep, MailboxStepIsQueueStep, MailboxInv_Step, Inv_Step
<1>2. SameTiles
  BY MailboxGivesSame
<1>3. CASE MailboxStep
  BY <1>1, <1>3, MailboxStepGlue, PipeStutter, KeptStutter DEF MailboxStep
<1>4. ASSUME NEW r \in Roles, StartTile(r) PROVE KernelInv'
  BY <1>1, <1>4, StartTileInv
<1>5. ASSUME NEW r \in Roles, NextRound(r) PROVE KernelInv'
  <2>1. /\ UNCHANGED <<log, got, taken>> /\ UNCHANGED pipeVars
        /\ rolePc[r] = "await" /\ rolePc' = [rolePc EXCEPT ![r] = "read"]
    BY <1>5 DEF NextRound, AwaitWork, RoleGoto, slotVars
  <2>2. begun' = begun /\ at' = at
    BY <2>1 DEF pipeVars
  <2>3. ASSUME NEW q \in Roles
        PROVE  /\ Given(q)' = Given(q)
               /\ rolePc'[q] = "work" => got'[q] >= 0
               /\ at'[q] = "end" => rolePc'[q] = "left"
    <3>1. rolePc'[q] = IF q = r THEN "read" ELSE rolePc[q]
      BY <2>1 DEF MailboxInv, MailboxTypeOK
    <3>. QED
      BY <2>1, <2>2, <3>1 DEF Given, GlueInv
  <2>4. GlueInv'
    BY <2>1, <2>2, <2>3, GlueFrame
  <2>. QED
    BY <1>1, <2>1, <2>4, PipeStutter, KeptStutter
<1>6. ASSUME begun' = begun, UNCHANGED cellVars,
             \A r \in Roles : at'[r] = "end" => at[r] = "end" \/ rolePc[r] = "left"
      PROVE  GlueInv'
  <2>1. UNCHANGED <<log, rolePc, got, taken>>
    BY <1>6 DEF cellVars, mailboxVars, slotVars, roleVars
  <2>2. \A r \in Roles : /\ Given(r)' = Given(r)
                         /\ rolePc'[r] = "work" => got'[r] >= 0
                         /\ at'[r] = "end" => rolePc'[r] = "left"
    BY <1>6, <2>1 DEF Given, GlueInv
  <2>. QED
    BY <1>6, <2>1, <2>2, GlueFrame
<1>7. ASSUME NEW r \in Roles, LeaveLoop(r) PROVE KernelInv'
  <2>1. EndLoop(r) /\ rolePc[r] = "left" /\ UNCHANGED cellVars
    BY <1>7 DEF LeaveLoop
  <2>2. PipeInv' /\ KeptInv'
    BY <2>1, LoopInv, KeptLoop
  <2>3. begun' = begun /\ \A q \in Roles \ {r} : at'[q] = at[q]
    BY <2>1 DEF EndLoop, Move, PipeInv, PipelineTypeOK
  <2>. QED
    BY <1>1, <1>6, <2>1, <2>2, <2>3
<1>8. CASE KernelStep
  <2>1. PipelineStep /\ UNCHANGED cellVars
    BY <1>8 DEF KernelStep
  <2>2. PipeInv' /\ KeptInv'
    BY <1>2, <2>1, PipelineStepInv, KeptStep
  <2>3. begun' = begun /\ \A r \in Roles : at'[r] = "end" => at[r] = "end"
    BY <2>1, StepKeepsLoops DEF PipeInv
  <2>. QED
    BY <1>1, <1>6, <2>1, <2>2, <2>3
<1>9. CASE UNCHANGED kernelVars
  <2>1. UNCHANGED pipeVars /\ UNCHANGED cellVars
    BY <1>9 DEF kernelVars
  <2>2. begun' = begun /\ at' = at
    BY <2>1 DEF pipeVars
  <2>. QED
    BY <1>1, <1>6, <2>1, <2>2, PipeStutter, KeptStutter
<1>. QED
  BY <1>3, <1>4, <1>5, <1>7, <1>8, <1>9 DEF KernelNext, KernelFinished

------------------------------------------------------------------------------
(* What follows                                                            *)

\* In every reachable state of the V2-V4 kernels the queue's, the mailbox's and the
\* pipeline's invariants hold, and the roles' tiles are the lane's deposits.
THEOREM KernelInvariant == KernelSpec => []KernelInv
<1>1. KernelInit => KernelInv
  BY KernelInv_Init
<1>2. KernelInv /\ [KernelNext]_kernelVars => KernelInv'
  BY KernelInv_Step
<1>. QED
  BY <1>1, <1>2, PTL DEF KernelSpec

\* No memory of a CTA of the V2-V4 kernels is read and written at once, although
\* the mailbox lets its roles be a generation apart.
THEOREM KernelNoRace == KernelSpec => []NoDataRace
<1>1. KernelInv => NoDataRace
  BY MailboxGivesSame, PipeSafe DEF KernelInv
<1>. QED
  BY <1>1, KernelInvariant, PTL

\* What the V2-V4 kernels write is a tile the CTA has claimed, and the K reduction
\* of that tile; and once the CTA is gone, every tile its lane claimed is written.
THEOREM KernelOutput == KernelSpec => []StoresClaimedTiles
<1>1. ASSUME KernelInv PROVE StoresClaimedTiles
  <2>. USE DEF KernelInv
  <2>1. OutputCorrect
    BY <1>1, MailboxGivesSame, PipeSafe
  <2>2. ASSUME NEW t \in Tiles, D[t] # NoRows PROVE t \in MyTiles
    <3>1. PICK j \in 1 .. Begun(Leader) : begun[Leader][j] = t
      BY <1>1, <2>2, KernelAssumption DEF PipeInv, StoredInv
    <3>2. log[j] = t /\ j \in 1 .. Deposits
      BY <1>1, <3>1, BegunIsDeposited, RoleFacts
    <3>3. j \in DOMAIN log
      BY <1>1, <3>2 DEF MailboxInv, MailboxTypeOK, Deposits
    <3>. QED
      BY <3>2, <3>3 DEF MyTiles
  <2>3. ASSUME exited, NEW t \in MyTiles PROVE D[t] # NoRows
    <3>1. at[Leader] = "end" /\ rolePc[Leader] = "left"
      BY <1>1, <2>3, RoleFacts DEF PipeInv, ExitInv, GlueInv
    <3>2. /\ Deposits \in Nat /\ Deposits > 0 /\ log[Deposits] = NoWork
          /\ Begun(Leader) = Deposits - 1
      BY <1>1, <3>1, LeftWithMarker, RoleFacts
    <3>3. PICK i \in DOMAIN log : log[i] = t
      BY DEF MyTiles
    <3>4. i \in 1 .. Deposits /\ t \in Tiles
      BY <1>1, <3>3 DEF MailboxInv, MailboxTypeOK, Deposits, MyTiles
    <3>5. i # Deposits
      BY <3>2, <3>3, <3>4 DEF Tiles, NoWork
    <3>6. i \in 1 .. Begun(Leader)
      BY <3>2, <3>4, <3>5
    <3>7. begun[Leader][i] = t
      BY <1>1, <3>3, <3>6, BegunIsDeposited, RoleFacts
    <3>. QED
      BY <1>1, <3>1, <3>6, <3>7 DEF KeptInv, Kept
  <2>. QED
    BY <2>1, <2>2, <2>3 DEF StoresClaimedTiles
<1>. QED
  BY <1>1, KernelInvariant, PTL
==============================================================================
