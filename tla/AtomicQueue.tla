----------------------------- MODULE AtomicQueue -----------------------------
(***************************************************************************)
(* Global work acquisition of the V2-V4 kernels: one elected scheduler     *)
(* lane per CTA runs AtomicWorkScheduler.run_scheduler against two int32   *)
(* queue heads in global memory.  An atomic_add is one step; whatever the  *)
(* lane computes between two steps is local to it.                         *)
(*                                                                         *)
(* This module leaves out the CTA-local mailbox: a lane may find its slot  *)
(* empty at any time.  AtomicMailbox extends it and adds that guard.       *)
(***************************************************************************)
EXTENDS Integers, FiniteSets, HostClaims

CONSTANTS
  CTAs,         \* the CTAs of one launch, one scheduler lane each
  Mode,         \* "dynamic", "chunked" or "hybrid" (V2, V3, V4)
  TileCount,    \* length of the compact worklist
  ClaimSize,    \* tiles taken by one claim from queue_heads[0]
  HybridTail,   \* spec.hybrid_tail_tiles: tiles reserved for claim-1 (V4)
  MaxInt        \* largest value of the queue heads' integer type

\* The arguments the code accepts: build_kernel refuses an empty worklist and
\* TIRxMoESpec.validate a claim size or a CTA count that is not positive; the
\* dynamic mode always claims one tile.
ASSUME QueueAssumption ==
  /\ IsFiniteSet(CTAs) /\ CTAs # {}
  /\ Mode \in {"dynamic", "chunked", "hybrid"}
  /\ TileCount \in Nat \ {0}
  /\ ClaimSize \in Nat \ {0}
  /\ Mode = "dynamic" => ClaimSize = 1
  /\ HybridTail \in Nat
  /\ MaxInt \in Nat

\* What the code does not check: every lane overshoots the end of the main
\* region at most once, and the heads must still fit their type when all have.
ASSUME WidthAssumption ==
  TileCount + ClaimSize * (Cardinality(CTAs) + 1) =< MaxInt + 1

VARIABLES
  heads,        \* queue_heads: two integers in global memory
  chunkNext,    \* chunk_next of each lane: next tile of its current claim
  chunkEnd,     \* chunk_end of each lane
  usingTail,    \* using_tail of each lane
  pc,           \* where each lane is in its loop
  visits        \* history: how often each tile was published to the roles

queueVars == <<heads, chunkNext, chunkEnd, usingTail, pc, visits>>

Tiles == 0 .. TileCount - 1
Hybrid == Mode = "hybrid"
Smaller(a, b) == IF a < b THEN a ELSE b

\* First tile of the reserved tail, which is where the main region ends.
MainEnd == TileCount - Smaller(TileCount, HybridTail)

\* Faulty: the tail queue starts at the front, or one past the main region's end.
TailFromFront == [h \in {0, 1} |-> 0]
TailFromNext == [h \in {0, 1} |-> IF h = 1 /\ Hybrid THEN MainEnd + 1 ELSE 0]

\* Values the host stores in the heads before a launch.
QueueInitialValues ==
  [h \in {0, 1} |-> IF h = 1 /\ Hybrid THEN MainEnd ELSE 0]

\* Sum of a value of the heads' type and a positive one, in two's complement.
WrapAdd(a, b) ==
  IF a > MaxInt - b THEN (a - MaxInt - 1) + (b - MaxInt - 1) ELSE a + b

IntType == -MaxInt - 1 .. MaxInt

TypeOK ==
  /\ heads \in [{0, 1} -> IntType]
  /\ chunkNext \in [CTAs -> IntType]
  /\ chunkEnd \in [CTAs -> {n \in IntType : n =< TileCount}]
  /\ usingTail \in [CTAs -> BOOLEAN]
  /\ pc \in [CTAs -> {"slot", "claim", "tail", "publish", "done"}]
  /\ visits \in [Tiles -> Nat]

Init ==
  /\ heads = QueueInitialValues
  /\ chunkNext = [c \in CTAs |-> 0]
  /\ chunkEnd = [c \in CTAs |-> 0]
  /\ usingTail = [c \in CTAs |-> FALSE]
  /\ pc = [c \in CTAs |-> "slot"]
  /\ visits = [t \in Tiles |-> 0]

------------------------------------------------------------------------------
(* One iteration of the lane's loop                                        *)

Goto(c, label) == pc' = [pc EXCEPT ![c] = label]

\* Faulty: one tile too many, or one too few, is taken from a chunk.
SlotEmptyLate(c) ==
  /\ pc[c] = "slot"
  /\ Goto(c, IF chunkNext[c] =< chunkEnd[c] THEN "publish"
             ELSE IF usingTail[c] THEN "tail" ELSE "claim")
  /\ UNCHANGED <<heads, chunkNext, chunkEnd, usingTail, visits>>

SlotEmptyEarly(c) ==
  /\ pc[c] = "slot"
  /\ Goto(c, IF chunkNext[c] + 1 < chunkEnd[c] THEN "publish"
             ELSE IF usingTail[c] THEN "tail" ELSE "claim")
  /\ UNCHANGED <<heads, chunkNext, chunkEnd, usingTail, visits>>

\* The mailbox slot is empty: the lane goes on to claim when its chunk is used
\* up, to the tail queue once it has left the main one.
SlotEmpty(c) ==
  /\ pc[c] = "slot"
  /\ Goto(c, IF chunkNext[c] < chunkEnd[c] THEN "publish"
             ELSE IF usingTail[c] THEN "tail" ELSE "claim")
  /\ UNCHANGED <<heads, chunkNext, chunkEnd, usingTail, visits>>

\* The lane's chunk becomes the tiles from `begin` up to, not including, `end`.
TakeChunk(c, begin, end) ==
  /\ chunkNext' = [chunkNext EXCEPT ![c] = begin]
  /\ chunkEnd' = [chunkEnd EXCEPT ![c] = end]
  /\ Goto(c, "publish")

AtomicAdd(h, n) == heads' = [heads EXCEPT ![h] = WrapAdd(@, n)]

\* Where a claim from queue_heads[0] ends.
ChunkLimit == IF Hybrid THEN MainEnd ELSE TileCount

\* Faulty: V4's main claim is cut at the worklist's end, not the main region's.
ClaimMainIntoTail(c) ==
  /\ pc[c] = "claim"
  /\ Hybrid => heads[0] < MainEnd
  /\ AtomicAdd(0, ClaimSize)
  /\ TakeChunk(c, heads[0], Smaller(WrapAdd(heads[0], ClaimSize), TileCount))
  /\ UNCHANGED <<usingTail, visits>>

\* V4's claim from the main region, and every claim of V2 and V3, whose begin
\* may lie past the end of the worklist.
ClaimMain(c) ==
  /\ pc[c] = "claim"
  /\ Hybrid => heads[0] < MainEnd
  /\ AtomicAdd(0, ClaimSize)
  /\ TakeChunk(c, heads[0], Smaller(WrapAdd(heads[0], ClaimSize), ChunkLimit))
  /\ UNCHANGED <<usingTail, visits>>

\* Faulty: the lane forgets that it has left the main region.
LeaveMainOnce(c) ==
  /\ pc[c] = "claim"
  /\ Hybrid /\ heads[0] >= MainEnd
  /\ AtomicAdd(0, ClaimSize)
  /\ Goto(c, "tail")
  /\ UNCHANGED <<chunkNext, chunkEnd, usingTail, visits>>

\* The claim found the main region used up: the lane turns to the tail for good.
LeaveMain(c) ==
  /\ pc[c] = "claim"
  /\ Hybrid /\ heads[0] >= MainEnd
  /\ AtomicAdd(0, ClaimSize)
  /\ usingTail' = [usingTail EXCEPT ![c] = TRUE]
  /\ Goto(c, "tail")
  /\ UNCHANGED <<chunkNext, chunkEnd, visits>>

\* Faulty: the end of a claim from the tail is not cut at the worklist's end.
ClaimTailUncut(c) ==
  /\ pc[c] = "tail"
  /\ AtomicAdd(1, 1)
  /\ TakeChunk(c, heads[1], WrapAdd(heads[1], 1))
  /\ UNCHANGED <<usingTail, visits>>

\* One tile at a time from the reserved tail.
ClaimTail(c) ==
  /\ pc[c] = "tail"
  /\ AtomicAdd(1, 1)
  /\ TakeChunk(c, heads[1], Smaller(WrapAdd(heads[1], 1), TileCount))
  /\ UNCHANGED <<usingTail, visits>>

\* The next tile of the chunk goes into the mailbox.
Publish(c) ==
  /\ pc[c] = "publish"
  /\ chunkNext[c] < TileCount
  /\ chunkNext' = [chunkNext EXCEPT ![c] = @ + 1]
  /\ visits' = [t \in Tiles |-> IF t = chunkNext[c] THEN visits[t] + 1 ELSE visits[t]]
  /\ Goto(c, "slot")
  /\ UNCHANGED <<heads, chunkEnd, usingTail>>

\* Nothing was left to claim: the lane publishes -1 and leaves its loop.
PublishDone(c) ==
  /\ pc[c] = "publish"
  /\ chunkNext[c] >= TileCount
  /\ Goto(c, "done")
  /\ UNCHANGED <<heads, chunkNext, chunkEnd, usingTail, visits>>

Lane(c) ==
  \/ SlotEmpty(c) \/ ClaimMain(c) \/ LeaveMain(c) \/ ClaimTail(c)
  \/ Publish(c) \/ PublishDone(c)

Finished == (\A c \in CTAs : pc[c] = "done") /\ UNCHANGED queueVars

Next == (\E c \in CTAs : Lane(c)) \/ Finished

\* The hardware schedules every resident lane: a CTA that has started makes
\* progress, and one that has not starts when an earlier one has left.
Fairness == \A c \in CTAs : WF_queueVars(Lane(c))

SafeSpec == Init /\ [][Next]_queueVars
Spec == SafeSpec /\ Fairness

------------------------------------------------------------------------------
(* Where every tile is: in the queue, in one lane's chunk, or published    *)

Unclaimed ==
  {t \in Tiles : IF t < ChunkLimit THEN t >= heads[0] ELSE t >= heads[1]}

Pending(c) == chunkNext[c] .. chunkEnd[c] - 1

Visited == {t \in Tiles : visits[t] = 1}
Held == [c \in CTAs |-> Pending(c)]
Retired == {c \in CTAs : pc[c] = "done"}

\* A lane that has claimed past the end of the region queue_heads[0] covers.
PastMain(c) ==
  usingTail[c] \/ (pc[c] \in {"publish", "done"} /\ chunkNext[c] >= TileCount)

\* A lane whose claim from the tail went past the end of the worklist.
PastTail(c) ==
  Hybrid /\ pc[c] \in {"publish", "done"} /\ chunkNext[c] >= TileCount

PastMainSet == {c \in CTAs : PastMain(c)}
PastTailSet == {c \in CTAs : PastTail(c)}

\* The control invariant of one lane: what it may assume at each label.
LaneInv(c) ==
  /\ chunkNext[c] >= 0 /\ chunkEnd[c] =< TileCount
  /\ pc[c] \in {"claim", "tail"} => chunkNext[c] >= chunkEnd[c]
  /\ pc[c] = "claim" => ~usingTail[c]
  /\ pc[c] = "tail" => usingTail[c]
  /\ usingTail[c] => Hybrid /\ heads[0] >= MainEnd
  /\ pc[c] = "publish" /\ chunkNext[c] < TileCount => chunkNext[c] < chunkEnd[c]
  /\ pc[c] = "publish" /\ chunkNext[c] >= TileCount => Unclaimed = {}
  /\ pc[c] = "publish" /\ chunkNext[c] >= TileCount /\ Hybrid => usingTail[c]
  /\ pc[c] = "done" => Unclaimed = {} /\ chunkNext[c] >= TileCount
  /\ pc[c] = "done" /\ Hybrid => usingTail[c]

\* Every tile is in exactly one place.
Partition ==
  /\ \A t \in Tiles : visits[t] \in {0, 1}
  /\ \A t \in Unclaimed : visits[t] = 0
  /\ \A c \in CTAs : \A t \in Pending(c) :
       t \in Tiles /\ t \notin Unclaimed /\ visits[t] = 0
  /\ \A c, d \in CTAs : c # d => Pending(c) \cap Pending(d) = {}
  /\ \A t \in Tiles : t \notin Unclaimed /\ visits[t] = 0 =>
       \E c \in CTAs : t \in Pending(c)

\* How far the heads can run past the regions they hand out.
HeadBounds ==
  /\ heads[0] >= 0 /\ heads[1] >= QueueInitialValues[1]
  /\ heads[0] =< ChunkLimit + ClaimSize - 1
                   + ClaimSize * Cardinality(PastMainSet)
  /\ heads[1] =< TileCount + Cardinality(PastTailSet)

\* The queue's inductive invariant, the three facts above together: claims
\* partition the worklist because a head only grows, and a head only grows
\* because each lane overshoots it once, which its label remembers.
QueueInv == (\A c \in CTAs : LaneInv(c)) /\ Partition /\ HeadBounds

------------------------------------------------------------------------------
(* Properties                                                              *)

\* No tile is handed to two CTAs, or twice to one, whatever the order of the
\* lanes' atomic adds on the two heads.
NoTileTwice == \A t \in Tiles : visits[t] =< 1

\* When a lane leaves its loop no tile is left for nobody: each has been
\* published, or is in the chunk of a lane that is still running.
NoTileSkipped ==
  \A c \in CTAs : pc[c] = "done" =>
    \A t \in Tiles :
      visits[t] > 0 \/ \E d \in CTAs : pc[d] # "done" /\ t \in Pending(d)

\* An atomic add never wraps a head around: a head that went back would hand
\* out its region again.  A V4 lane that kept probing the main head after
\* leaving the main region would break it; using_tail is there to stop that.
HeadsOnlyGrow ==
  [][heads'[0] >= heads[0] /\ heads'[1] >= heads[1]]_queueVars

\* What config.py's host mirror says a claim may be.
HostBatches ==
  IF Hybrid THEN HybridClaims(TileCount, ClaimSize, HybridTail)
  ELSE ChunkedClaims(TileCount, ClaimSize)

\* A claim that finds work gets one of the batches the host mirror lists, coarse
\* ones in the main region and single tiles in the tail, never a run across the
\* border or one that starts out of step; and the tail is left alone until every
\* main tile has been claimed.
ClaimsAsPlanned ==
  [][/\ \A c \in CTAs : pc[c] \in {"claim", "tail"} /\ Pending(c)' # {} =>
         Pending(c)' \in HostBatches
     /\ heads'[1] # heads[1] => \A t \in 0 .. ChunkLimit - 1 : t \notin Unclaimed
    ]_queueVars

\* Every tile of the worklist is published and every lane leaves its loop.
AllWorkDone ==
  <>(\A c \in CTAs : pc[c] = "done") /\ \A t \in Tiles : <>(visits[t] = 1)

\* The queue is a work queue in the abstract sense: a claim that comes back
\* empty is a step the abstract worker does not take.
WQ == INSTANCE WorkQueue WITH
        Workers <- CTAs,
        pool <- Unclaimed,
        held <- Held,
        ran <- Visited,
        retired <- Retired

ImplementsWorkQueue == WQ!Spec
=============================================================================
