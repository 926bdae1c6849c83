---------------------------- MODULE HostPlanning ----------------------------
(***************************************************************************)
(* The host programs on one routing: the command line, which plans, may    *)
(* dispatch and runs the harness, and the study without a device, in which *)
(* the Python planner and the C++ reference cut up the same routing.  The  *)
(* last two are separate programs that only read it, so one order of their *)
(* runs stands for all.  A width that is not a multiple of tile_n is       *)
(* refused by the one and cut into partial tiles by the other.             *)
(***************************************************************************)
EXTENDS Runner, CpuScheduler

CONSTANT LaunchCounts   \* the row counts considered for the command line

ASSUME HostAssumption == LaunchCounts \subseteq Nat

hostVars == <<routing, plannerVars, cpuVars, options, runnerVars>>

\* The study plans without a command line.
Study == [kernel |-> "none"]

Init ==
  /\ \/ RoutingInit(TokenCounts) /\ options = Study
     \/ RoutingInit(LaunchCounts) /\ options \in Options
  /\ PlannerInit /\ CpuInit /\ RunnerInit

\* build_padding_aware_plans
PlanBuckets ==
  /\ options.kernel \in {"none", "v6_padding_aware"}
  /\ PlannerStep
  /\ UNCHANGED <<routing, cpuVars, options, runnerVars>>

\* build_workload_plan, for a version or for dispatch.
PlanBaseline ==
  /\ options.kernel \notin {"none", "v6_padding_aware"}
  /\ stage = "validate"
  /\ stage' = IF n % TileN = 0 THEN "baseline" ELSE "rejected"
  /\ UNCHANGED <<expert, large, small, routing, cpuVars, options, runnerVars>>

Schedule ==
  /\ options = Study /\ PlannerEnded
  /\ CpuStep
  /\ UNCHANGED <<routing, plannerVars, options, runnerVars>>

Run ==
  /\ options # Study /\ stage \in {"planned", "baseline"}
  /\ RunnerStep
  /\ UNCHANGED <<routing, plannerVars, cpuVars, options>>

Finished ==
  /\ \/ options = Study /\ PlannerEnded /\ CpuEnded
     \/ options # Study /\ (RunnerEnded \/ stage \in {"rejected", "failed"})
  /\ UNCHANGED hostVars

Next == PlanBuckets \/ PlanBaseline \/ Schedule \/ Run \/ Finished
Spec == Init /\ [][Next]_hostVars

------------------------------------------------------------------------------
(* Properties                                                              *)

\* A tile of the Python work list in the terms of the C++ tile, whose offsets
\* are tile indices and which keeps its valid columns.
AsExpertTile(t) ==
  [expert |-> t.expert, m |-> t.m \div LargeM, n |-> t.n \div TileN,
   validM |-> t.validM, validN |-> TileN]

\* Whatever routing the Python planner accepts, its baseline work list and the
\* C++ one are the same tiles in the same order, so that the CPU study of the
\* schedulers is about the work the kernels get.
SameWorkList ==
  stage = "planned" /\ scheduler # "none" =>
    LET pythonTiles == BuildWorkloadPlan(LargeM)
    IN BuildExpertTiles = [i \in DOMAIN pythonTiles |-> AsExpertTile(pythonTiles[i])]
=============================================================================
