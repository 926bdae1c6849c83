------------------------------ MODULE Dispatch ------------------------------
(***************************************************************************)
(* The launch-level dispatch of the Python package and the registry of     *)
(* kernels: which version a routing selects, what the version needs, and   *)
(* how many CTAs it is launched with.  The thresholds are floating-point   *)
(* comparisons in the code and exact ones here.                            *)
(***************************************************************************)
EXTENDS Planner

CONSTANT HybridTail     \* spec.hybrid_tail_tiles

ASSUME DispatchAssumption == HybridTail \in Nat

\* KERNEL_VERSIONS, and the two names of the command line that are no version.
QueueVersions == {"v2_dynamic", "v3_chunked", "v4_hybrid"}
Versions == QueueVersions \cup
  {"v0_nonpersistent", "v0_5_persistent", "v1_static_ws", "v5_clc", "v6_small_m_ws"}
CliKernels == Versions \cup {"auto", "v6_padding_aware"}

TileM(version) == IF version = "v6_small_m_ws" THEN SmallM ELSE LargeM

\* routing_features, as far as the rules look at them.  The coefficient of
\* variation of the rows, squared, is Spread over the squared sum.
Rows == SumFunction(counts)
Spread == Experts * SumFunction([e \in ExpertIds |-> counts[e] * counts[e]]) - Rows * Rows
Inactive == Cardinality({e \in ExpertIds : counts[e] = 0})

Even == 16 * Spread =< Rows * Rows
Skewed == Spread >= Rows * Rows \/ 2 * Inactive >= Experts

SelectKernel(tileCount) ==
  CASE tileCount =< CtaCount -> "v0_nonpersistent"
    [] tileCount > CtaCount /\ (Even \/ tileCount < 2 * CtaCount) -> "v1_static_ws"
    [] ~Even /\ 2 * CtaCount =< tileCount /\ tileCount < 4 * CtaCount -> "v2_dynamic"
    [] ~Even /\ 4 * CtaCount =< tileCount /\ Skewed -> "v4_hybrid"
    [] ~Even /\ 4 * CtaCount =< tileCount /\ ~Skewed -> "v3_chunked"

\* Faulty: the kernel with a CTA for each tile is launched like the others.
LaunchCtasPersistent(version, tileCount) ==
  IF version = "v5_clc" THEN tileCount ELSE CtaCount

LaunchCtas(version, tileCount) ==
  IF version \in {"v0_nonpersistent", "v5_clc"} THEN tileCount ELSE CtaCount

\* hybrid_tail_tiles of the list are left to V4's second head.
MainEnd(version, tileCount) ==
  IF version = "v4_hybrid" THEN tileCount - Smaller(tileCount, HybridTail) ELSE tileCount

\* queue_initial_values
QueueInitial(version, tileCount) ==
  <<0, IF version = "v4_hybrid" THEN MainEnd(version, tileCount) ELSE 0>>
=============================================================================
