------------------------------- MODULE SingleWg -------------------------------
(***************************************************************************)
(* The V0 and V0.5 kernels: one warpgroup per CTA.  The elected lane of    *)
(* warp 0 is producer and MMA lane in one program: it fills the ring, then *)
(* alternates an MMA with the load PIPE_DEPTH steps ahead, then joins the  *)
(* writeback it belongs to.  Engines, ring and writeback are those of      *)
(* MathPipeline; "tma" and "mma" are the two halves of that one lane.      *)
(*                                                                         *)
(* There is no ld2mma barrier here: the next tile's first MMA is kept off  *)
(* the accumulator by the warpgroup's own syncs.                           *)
(***************************************************************************)
EXTENDS MathPipeline

CONSTANTS
  TileCount,    \* TILE_COUNT
  CtaCount      \* spec.cta_count

ASSUME SingleWgAssumption ==
  /\ TileCount \in Nat \ {0}
  /\ CtaCount \in Nat \ {0}
  /\ WorkTiles = 0 .. TileCount - 1

VARIABLES
  grid,         \* GRID_CTAS and TILE_STRIDE
  bx,           \* the CTA's index
  cursor        \* tile_id of each thread

launchVars == <<grid, bx>>
singleVars == <<pipeVars, launchVars, cursor>>

\* V0 launches a CTA per tile, V0.5 as many as the device holds.
Init ==
  /\ PipelineInit
  /\ grid \in {TileCount, CtaCount}
  /\ bx \in 0 .. grid - 1
  /\ cursor = [w \in Threads |-> bx]

AtLeast0(n) == IF n < 0 THEN 0 ELSE n
AtMostK(n) == IF n > KTiles THEN KTiles ELSE n

\* Faulty: the lane loads one step further ahead than the ring is deep.
MmasBeforeEager(i) == AtLeast0(i - PipeDepth)

\* Program order of the lane: the MMAs issued before load i, the loads before MMA j.
MmasBefore(i) == AtLeast0(i - PipeDepth + 1)
LoadsBefore(j) == AtMostK(j + PipeDepth)

\* The thread starts on its next tile; warp 0's elected lane on its K loop first.
TakeTile(w) ==
  /\ at[w] = "next" /\ cursor[w] < TileCount
  /\ cursor' = [cursor EXCEPT ![w] = @ + grid]
  /\ IF w = Leader
     THEN /\ tile' = [r \in Roles |-> IF r \in Lanes \cup {w} THEN cursor[w] ELSE tile[r]]
          /\ k' = [l \in Lanes |-> 0]
          /\ begun' = [r \in Roles |-> IF r \in Lanes \cup {w}
                                       THEN Append(begun[r], cursor[w]) ELSE begun[r]]
          /\ at' = [at EXCEPT !["tma"] = "fill", !["mma"] = "issue", ![w] = "issue"]
     ELSE /\ tile' = [tile EXCEPT ![w] = cursor[w]]
          /\ begun' = [begun EXCEPT ![w] = Append(@, cursor[w])]
          /\ Move(w, "wait")
          /\ UNCHANGED k
  /\ UNCHANGED <<bars, cursors, engines, output, exited, launchVars>>

\* The prefetch loop, and the load at the end of each K step.
Load ==
  /\ k["mma"] = MmasBefore(k["tma"])
  /\ FillStage \/ ExpectBytes
  /\ UNCHANGED <<launchVars, cursor>>

Multiply ==
  /\ k["tma"] = LoadsBefore(k["mma"])
  /\ IssueMma
  /\ UNCHANGED <<launchVars, cursor>>

\* Faulty: the lane does not wait for the MMAs it has committed.
CommitAndGo ==
  /\ at["mma"] = "commit"
  /\ tensorQ' = Append(tensorQ, [op |-> "ready"])
  /\ at' = [at EXCEPT !["mma"] = "next", ![Leader] = "load"]
  /\ UNCHANGED <<bars, tile, k, cursors, loads, smem, tmem, output, exited, begun, launchVars,
                 cursor>>

\* mma2ld.arrive: the lane joins the other threads at the accumulator.
Commit ==
  /\ at["mma"] = "commit"
  /\ tensorQ' = Append(tensorQ, [op |-> "ready"])
  /\ at' = [at EXCEPT !["mma"] = "next", ![Leader] = "wait"]
  /\ UNCHANGED <<bars, tile, k, cursors, loads, smem, tmem, output, exited, begun, launchVars,
                 cursor>>

\* tcgen05.ld of the thread's row; no arrival follows it.
LoadAccumulator(w) ==
  /\ at[w] = "load"
  /\ regs' = [regs EXCEPT ![w] = tmem]
  /\ Move(w, "stage")
  /\ UNCHANGED <<bars, tile, k, cursors, engines, dsmem, store, D, exited, begun, launchVars,
                 cursor>>

\* Past the last tile: the thread waits in cta_sync.
LeaveLoop(w) ==
  /\ at[w] = "next" /\ cursor[w] >= TileCount
  /\ Move(w, "end")
  /\ UNCHANGED <<bars, tile, k, cursors, engines, output, exited, begun, launchVars, cursor>>

Dealloc ==
  /\ ~exited
  /\ \A w \in Threads : at[w] = "end"
  /\ exited' = TRUE
  /\ UNCHANGED <<bars, at, tile, k, cursors, engines, output, begun, launchVars, cursor>>

Store(w) == (AwaitAccumulator(w) \/ StageRow(w)) /\ UNCHANGED <<launchVars, cursor>>
Sync == LeaderStep /\ UNCHANGED <<launchVars, cursor>>
Background == Engine /\ UNCHANGED <<launchVars, cursor>>
Thread(w) == TakeTile(w) \/ Store(w) \/ LoadAccumulator(w) \/ LeaveLoop(w)
Lane == Load \/ Multiply \/ Commit

Finished == exited /\ UNCHANGED singleVars

Next ==
  \/ \E w \in Threads : Thread(w)
  \/ Lane \/ Sync \/ Background \/ Dealloc
  \/ Finished

\* The CTA does not stop while a thread or an engine can go on; every step but the
\* last stutter gets it further.
Spec == Init /\ [][Next]_singleVars /\ WF_singleVars(Next)

------------------------------------------------------------------------------
(* Properties                                                              *)

MyTiles == {t \in WorkTiles : t % grid = bx}

\* The lane that issues loads and MMAs in one program never waits for itself: with
\* PIPE_DEPTH loads ahead, and no more, each wait is for something already issued.
\* The CTA exits with exactly its own tiles stored.
GridCompleted ==
  <>(exited /\ \A t \in WorkTiles :
       D[t] = IF t \in MyTiles THEN [w \in Threads |-> Product(t)] ELSE NoRows)

\* Without a release barrier the accumulator and the staging buffer are still not
\* overwritten while a thread reads them, and nothing is in flight at the end.
SyncsSuffice == NoDataRace /\ OutputCorrect
=============================================================================
