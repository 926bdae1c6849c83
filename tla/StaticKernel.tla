----------------------------- MODULE StaticKernel -----------------------------
(***************************************************************************)
(* The V1 kernel (and V6, whose M=64 path differs in data layout only):    *)
(* the three roles of one CTA independently follow the same grid-stride    *)
(* sequence bx, bx + CTA_COUNT, ... and meet only at the barriers of       *)
(* MathPipeline.  Which CTA is modelled is chosen in Init.                 *)
(***************************************************************************)
EXTENDS MathPipeline, HostClaims

CONSTANTS
  TileCount,    \* TILE_COUNT
  CtaCount      \* CTA_COUNT

ASSUME StaticAssumption ==
  /\ TileCount \in Nat \ {0}
  /\ CtaCount \in Nat \ {0}
  /\ WorkTiles = 0 .. TileCount - 1

VARIABLES
  bx,           \* the CTA's index
  cursor        \* tile_id of each role's loop

staticVars == <<pipeVars, bx, cursor>>

Init ==
  /\ PipelineInit
  /\ bx \in 0 .. CtaCount - 1
  /\ cursor = [r \in Roles |-> bx]

\* Faulty: the MMA lane's stride is not the grid's size.
TakeNeighbour(r) ==
  /\ cursor[r] < TileCount
  /\ BeginTile(r, cursor[r])
  /\ cursor' = [cursor EXCEPT ![r] = IF r = "mma" THEN @ + 1 ELSE @ + CtaCount]
  /\ UNCHANGED bx

\* The loop goes round with the role's own tile_id, which has been advanced by
\* the grid's size at the end of the previous round.
TakeTile(r) ==
  /\ cursor[r] < TileCount
  /\ BeginTile(r, cursor[r])
  /\ cursor' = [cursor EXCEPT ![r] = @ + CtaCount]
  /\ UNCHANGED bx

LeaveLoop(r) ==
  /\ cursor[r] >= TileCount
  /\ EndLoop(r)
  /\ UNCHANGED <<bx, cursor>>

Loop(r) == TakeTile(r) \/ LeaveLoop(r)

Finished == exited /\ UNCHANGED staticVars

Next ==
  \/ \E r \in Roles : Loop(r)
  \/ PipelineStep /\ UNCHANGED <<bx, cursor>>
  \/ Finished

Spec ==
  /\ Init /\ [][Next]_staticVars
  /\ PipelineFairness
  /\ \A r \in Roles : WF_staticVars(Loop(r))

------------------------------------------------------------------------------
(* Properties                                                              *)

\* The tiles the host mirror of the grid stride gives this CTA.
MyTiles == StaticCtaAssignment(bx, TileCount, CtaCount)

\* A CTA that has exited has written the tiles of its stride, each of them and no
\* other: the last store is complete before the CTA is gone, and no role's loop
\* stops short of the others'.
StrideStored == exited => \A t \in WorkTiles : D[t] # NoRows <=> t \in MyTiles

\* The CTA gets through its tiles: whatever order the roles and the engines take,
\* they do not wait for each other in a circle, every tile of the stride is
\* stored, no other one is, and the CTA exits.
StrideCompleted ==
  <>(exited /\ \A t \in WorkTiles : D[t] # NoRows <=> t \in MyTiles)
=============================================================================
