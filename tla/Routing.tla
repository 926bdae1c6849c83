------------------------------- MODULE Routing -------------------------------
(***************************************************************************)
(* What the two host planners are given: how many tokens the router sent   *)
(* to each expert, and the width of the output.  Both generators (Python   *)
(* and C++) draw every token's expert at random from a distribution, so    *)
(* any vector of counts can come out; the counts enumerated are a          *)
(* parameter.                                                              *)
(***************************************************************************)
EXTENDS Integers

CONSTANTS
  Experts,      \* spec.experts
  TokenCounts,  \* the row counts considered for an expert
  Widths,       \* the values of n considered
  CtaCount      \* spec.cta_count, cta_count of the C++ reference

ASSUME RoutingAssumption ==
  /\ Experts \in Nat \ {0}
  /\ TokenCounts \subseteq Nat
  /\ Widths \subseteq Nat \ {0}
  /\ CtaCount \in Nat \ {0}

VARIABLES
  counts,       \* tokens_per_expert
  n             \* spec.n, GemmShape::n

routing == <<counts, n>>

\* tile_m of the large kernel and of the C++ baseline, tile_m of the small
\* kernel, and tile_n of both.
LargeM == 128
SmallM == 64
TileN == 128

ExpertIds == 0 .. Experts - 1

Smaller(a, b) == IF a < b THEN a ELSE b
Larger(a, b) == IF a < b THEN b ELSE a
CeilDiv(a, b) == (a + b - 1) \div b

RoutingInit(rowCounts) ==
  /\ counts \in [ExpertIds -> rowCounts]
  /\ n \in Widths
=============================================================================
