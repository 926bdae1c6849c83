------------------------------- MODULE Planner -------------------------------
(***************************************************************************)
(* The Python host planner of V6 (build_padding_aware_plans): each         *)
(* expert's rows are split between an M=128 launch and an M=64 launch that *)
(* follow each other on one stream and write the same output D.  The       *)
(* baseline plan it is compared with is build_workload_plan's.             *)
(*                                                                         *)
(* Elements stand for FLOPs, which are elements times 2 * k.               *)
(***************************************************************************)
EXTENDS Routing, Sequences, SequencesExt, FiniteSetsExt

VARIABLES
  stage,        \* "validate", "split", "planned", "rejected" or "failed"
  expert,       \* the expert the split loop has come to
  large, small  \* large_tiles and small_tiles

plannerVars == <<stage, expert, large, small>>

PlannerInit ==
  /\ stage = "validate" /\ expert = 0
  /\ large = <<>> /\ small = <<>>

\* One block of rows across the whole width, column by column.
RowBlock(e, m, validM) ==
  [j \in 1 .. n \div TileN |->
    [expert |-> e, m |-> m, n |-> (j - 1) * TileN, validM |-> validM]]

\* `blocks` row blocks of an expert, from its first row on.
RowBlocks(e, blocks, tileM) ==
  FlattenSeq([b \in 1 .. blocks |->
    RowBlock(e, (b - 1) * tileM, Smaller(tileM, counts[e] - (b - 1) * tileM))])

BuildWorkloadPlan(tileM) ==
  FlattenSeq([e \in 1 .. Experts |->
    RowBlocks(e - 1, CeilDiv(counts[e - 1], tileM), tileM)])

MostRows == Max({counts[e] : e \in ExpertIds})

\* Faulty: the rows of D are rounded down.
MCapacityDown == Larger(LargeM, (MostRows \div LargeM) * LargeM)

\* Rows of D the runner allocates for each expert, for both launches.
MCapacity == Larger(LargeM, CeilDiv(MostRows, LargeM) * LargeM)

LogicalElements(tiles) ==
  FoldSeq(LAMBDA t, sum : t.validM * TileN + sum, 0, tiles)
PaddedElements(tiles, tileM) == Len(tiles) * tileM * TileN

\* TIRxMoESpec.validate; the token counts are sound by construction.
Validate ==
  /\ stage = "validate"
  /\ stage' = IF n % TileN = 0 THEN "split" ELSE "rejected"
  /\ UNCHANGED <<expert, large, small>>

\* Faulty: the border is put at half the small tile.
TailLimitHalf == SmallM \div 2

\* The largest remainder the small kernel takes.
TailLimit == SmallM

\* Faulty: the small tile starts a small block late.
TailStartLate(e) == (counts[e] \div LargeM) * LargeM + SmallM

TailStart(e) == (counts[e] \div LargeM) * LargeM

\* One expert's rows: full blocks and a long remainder for the large kernel, a
\* short remainder for the small one.
SplitExpert ==
  /\ stage = "split" /\ expert < Experts
  /\ LET fullBlocks == counts[expert] \div LargeM
         remainder == counts[expert] % LargeM
         largeRows == fullBlocks + (IF remainder > TailLimit THEN 1 ELSE 0)
     IN /\ large' = large \o RowBlocks(expert, largeRows, LargeM)
        /\ small' = IF 0 < remainder /\ remainder =< TailLimit
                    THEN small \o RowBlock(expert, TailStart(expert), remainder)
                    ELSE small
  /\ expert' = expert + 1
  /\ UNCHANGED stage

\* The buckets are done: the planner asserts that they hold as much logical
\* work as the baseline.
Conclude ==
  /\ stage = "split" /\ expert = Experts
  /\ stage' = IF LogicalElements(large \o small) = SumFunction(counts) * n
              THEN "planned" ELSE "failed"
  /\ UNCHANGED <<expert, large, small>>

PlannerStep == Validate \/ SplitExpert \/ Conclude
PlannerEnded == stage \in {"planned", "rejected", "failed"}

------------------------------------------------------------------------------
(* Properties                                                              *)

\* Where the device puts a tile of the work list: its first row is its M index
\* times the launch's tile_m, and the store writes all tile_m rows.
Placed(tiles, tileM) ==
  {[launch |-> tileM, at |-> i, expert |-> tiles[i].expert, n |-> tiles[i].n,
    first |-> (tiles[i].m \div tileM) * tileM,
    valid |-> tiles[i].validM, rows |-> tileM] : i \in DOMAIN tiles}

Stored == Placed(large, LargeM) \cup Placed(small, SmallM)

Columns == {j * TileN : j \in 0 .. n \div TileN - 1}

\* The two launches together compute every row of every expert once: the valid
\* rows of their tiles, located as the device locates them, partition the rows
\* routed to the expert, in each column.  The planner's own assertion compares
\* sums of elements and would not notice a misplaced tile; it never fires.
EveryRowOnce ==
  /\ stage # "failed"
  /\ stage = "planned" => \A e \in ExpertIds, col \in Columns :
       LET here == {x \in Stored : x.expert = e /\ x.n = col}
           Valid(x) == x.first .. x.first + x.valid - 1
       IN /\ UNION {Valid(x) : x \in here} = 0 .. counts[e] - 1
          /\ \A x, y \in here : x # y => Valid(x) \cap Valid(y) = {}

\* A tile is stored with its padding.  The second launch must not overwrite
\* rows of the first, and no store may run past the rows of D the expert has.
PaddingHarmless ==
  stage = "planned" =>
    /\ \A x \in Stored : x.first + x.rows =< MCapacity
    /\ \A x, y \in Stored :
         x # y /\ x.expert = y.expert /\ x.n = y.n =>
           x.first + x.rows =< y.first \/ y.first + y.rows =< x.first

\* "A 65--127 row region remains one M=128 tile because two M=64 MMAs would
\* perform the same padded arithmetic and create more scheduling work": the
\* split does no more arithmetic than 64-row tiles throughout would, with no
\* more tiles than 128-row tiles throughout.
SplitIsBest ==
  stage = "planned" =>
    /\ PaddedElements(large, LargeM) + PaddedElements(small, SmallM)
         = PaddedElements(BuildWorkloadPlan(SmallM), SmallM)
    /\ Len(large) + Len(small) = Len(BuildWorkloadPlan(LargeM))
=============================================================================
