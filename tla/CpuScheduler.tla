----------------------------- MODULE CpuScheduler -----------------------------
(***************************************************************************)
(* The C++ reference of the schedulers (scheduler.cpp): it cuts the same   *)
(* routing into tiles and deals them out to CTAs, in the order of the      *)
(* experts, in a static order with the largest expert first, or to         *)
(* whichever CTA an ideal dynamic queue would find free.  One step is one  *)
(* iteration of an assignment loop.                                        *)
(***************************************************************************)
EXTENDS Routing, HostClaims, Sequences, SequencesExt, FiniteSetsExt

CONSTANTS
  Word          \* 2^w: the tile arithmetic is done in w-bit unsigned integers

ASSUME CpuAssumption ==
  /\ Word \in Nat \ {0}
  /\ \A t \in TokenCounts : t + LargeM =< Word
  /\ \A w \in Widths : w + TileN =< Word

VARIABLES
  scheduler,    \* the SchedulerKind asked for, or "none" before the call
  tiles,        \* the tiles in the order they are dealt out
  dealt,        \* how many have been
  ctaTiles,     \* assignment.cta_tiles
  availableAt   \* available_at of the ideal queue

cpuVars == <<scheduler, tiles, dealt, ctaTiles, availableAt>>

Kinds == {"expert_order", "static_persistent", "dynamic_queue", "compacted", "auto"}
Ctas == 0 .. CtaCount - 1

CpuInit ==
  /\ scheduler = "none" /\ tiles = <<>> /\ dealt = 0
  /\ ctaTiles = [c \in Ctas |-> <<>>]
  /\ availableAt = [c \in Ctas |-> 0]

\* Faulty: whole tiles only.
WholeTiles(extent, tile) == extent \div tile

\* Number of tiles that cover an extent, in unsigned arithmetic.
TileBlocks(extent, tile) ==
  IF extent = 0 THEN 0 ELSE ((extent + tile - 1) % Word) \div tile

\* The tiles of one expert, all columns of a row block before the next.
TilesOf(e) ==
  LET nTiles == TileBlocks(n, TileN) IN
  [i \in 1 .. TileBlocks(counts[e], LargeM) * nTiles |->
    LET m == (i - 1) \div nTiles
        j == (i - 1) % nTiles
    IN [expert |-> e, m |-> m, n |-> j,
        validM |-> Smaller(LargeM, counts[e] - m * LargeM),
        validN |-> Smaller(TileN, n - j * TileN)]]

BuildExpertTiles == FlattenSeq([e \in 1 .. Experts |-> TilesOf(e - 1)])

\* What the stable sort puts first: an expert with more tiles, and of two with as many
\* the one that came first.
SortedBefore(d, e) ==
  \/ Len(TilesOf(d)) > Len(TilesOf(e))
  \/ Len(TilesOf(d)) = Len(TilesOf(e)) /\ d < e

\* Experts by descending number of tiles, ties in their own order.
ByDescendingTiles ==
  CHOOSE order \in [1 .. Experts -> ExpertIds] :
    \A i, j \in 1 .. Experts : i < j => SortedBefore(order[i], order[j])

OrderByDescendingExpertTiles ==
  FlattenSeq([i \in 1 .. Experts |-> TilesOf(ByDescendingTiles[i])])

\* Output elements of a tile, the ideal queue's cost of it.
Work(tile) == Larger(1, tile.validM * tile.validN)

SimulateScheduler(kind) ==
  /\ scheduler = "none"
  /\ scheduler' = kind
  /\ tiles' = IF kind = "static_persistent" THEN OrderByDescendingExpertTiles
              ELSE BuildExpertTiles
  /\ UNCHANGED <<dealt, ctaTiles, availableAt>>

\* The first CTA with the smallest available_at.
FirstAvailable ==
  Min({c \in Ctas : \A d \in Ctas : availableAt[c] =< availableAt[d]})

\* Faulty: the dynamic queue deals in turn as well; the stride is skewed by one
\* after each round.
NextCtaInTurn == dealt % CtaCount
NextCtaSkewed ==
  IF scheduler = "dynamic_queue" THEN FirstAvailable
  ELSE (dealt + dealt \div CtaCount) % CtaCount

NextCta ==
  IF scheduler = "dynamic_queue" THEN FirstAvailable ELSE dealt % CtaCount

\* One iteration of assign_dynamic_queue or assign_expert_order.
Deal ==
  /\ scheduler # "none" /\ dealt < Len(tiles)
  /\ LET t == tiles[dealt + 1] IN
     /\ ctaTiles' = [ctaTiles EXCEPT ![NextCta] = Append(@, t)]
     /\ availableAt' = IF scheduler = "dynamic_queue"
                       THEN [availableAt EXCEPT ![NextCta] = @ + Work(t)]
                       ELSE availableAt
  /\ dealt' = dealt + 1
  /\ UNCHANGED <<scheduler, tiles>>

CpuStep == (\E kind \in Kinds : SimulateScheduler(kind)) \/ Deal
CpuEnded == scheduler # "none" /\ dealt = Len(tiles)

------------------------------------------------------------------------------
(* Properties                                                              *)

\* A static assignment is the grid stride of the kernels, as the Python mirror
\* static_cta_assignments has it, and so no CTA gets two tiles more than another;
\* the static order is a permutation of the tiles, larger experts before smaller.
StaticIsGridStride ==
  CpuEnded /\ scheduler # "dynamic_queue" =>
    /\ ToSet(tiles) = ToSet(BuildExpertTiles) /\ Len(tiles) = Len(BuildExpertTiles)
    /\ \A c \in Ctas :
         ToSet(ctaTiles[c])
           = {tiles[i + 1] : i \in StaticCtaAssignment(c, Len(tiles), CtaCount)}
    /\ \A c, d \in Ctas : Len(ctaTiles[c]) =< Len(ctaTiles[d]) + 1
    /\ scheduler = "static_persistent" =>
         \A i, j \in DOMAIN tiles : i < j =>
           CeilDiv(counts[tiles[i].expert], LargeM)
             >= CeilDiv(counts[tiles[j].expert], LargeM)

\* The ideal queue is list scheduling: at no time is a CTA ahead of another by
\* more than one tile, so that the last CTA ends within Graham's bound of the
\* mean, whatever the sizes of the tiles.
GreedyBound ==
  scheduler = "dynamic_queue" /\ dealt > 0 =>
    LET biggest == Max({Work(tiles[i]) : i \in 1 .. dealt})
        last == Max({availableAt[c] : c \in Ctas})
    IN /\ \A c \in Ctas : last =< availableAt[c] + biggest
       /\ CtaCount * last =< SumFunction(availableAt) + (CtaCount - 1) * biggest
       /\ \A c \in Ctas :
            availableAt[c] = FoldSeq(LAMBDA t, sum : Work(t) + sum, 0, ctaTiles[c])
=============================================================================
