------------------------------- MODULE CtaRoles -------------------------------
(***************************************************************************)
(* The roles of one CTA of the warp-specialised kernels: the elected lane  *)
(* of the TMA warp, the one of the MMA warp, and the threads of the        *)
(* writeback warpgroup.                                                    *)
(***************************************************************************)
EXTENDS FiniteSets

CONSTANTS
  Threads,      \* the writeback warpgroup's threads (128 in the code)
  Leader        \* warp 0 lane 0 of that warpgroup

Lanes == {"tma", "mma"}
Roles == Lanes \cup Threads

\* The writeback threads are not the loader's lane or the MMA's.
ASSUME RoleAssumption ==
  IsFiniteSet(Threads) /\ Leader \in Threads /\ Threads \cap Lanes = {}
=============================================================================
