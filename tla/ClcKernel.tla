------------------------------ MODULE ClcKernel ------------------------------
(***************************************************************************)
(* The V5 kernel: the grid has one CTA coordinate for each tile.  A CTA    *)
(* starts with its own coordinate and goes on by cancelling CTAs that have *)
(* not been launched yet, whose coordinates it inherits.  One CTA is       *)
(* modelled, over the pipeline of V1; the others, and the hardware that    *)
(* launches them, take coordinates out of the same pool at any time.       *)
(*                                                                         *)
(* The scheduler warp runs TVM's ClusterLaunchControlScheduler, which is   *)
(* modelled from how v5_clc.py uses it: each generation is one steal       *)
(* request, whose response every role reads once, and the next request     *)
(* waits for the arrivals of all of them.                                  *)
(***************************************************************************)
EXTENDS MathPipeline, SequencesExt

CONSTANT Me     \* bx: the CTA's own coordinate; which one it is makes no difference

ASSUME ClcAssumption == Me \in WorkTiles

VARIABLES
  pending,      \* coordinates of CTAs neither launched nor cancelled
  inherited,    \* history: the CTA's own coordinate and each response to it
  requested,    \* a steal request is under way
  full,         \* barrier: the response has landed
  finished,     \* barrier: the roles have read it
  sched,        \* label of the scheduler warp
  schedPs,      \* its PipelineState
  clc,          \* label of each role within its round
  readyPs,      \* PipelineState of each role's worker on `full`
  got,          \* the response it read last, its own coordinate before the first
  coord         \* m_idx of its worker

stealVars == <<pending, inherited, requested>>
schedVars == <<sched, schedPs>>
workerVars == <<clc, readyPs, got, coord>>
clcVars == <<stealVars, full, finished, schedVars, workerVars>>
kernelVars == <<pipeVars, clcVars>>

\* A response that names no coordinate.
Denied == NoTile

\* Faulty: a role is not counted, or one too many.
ThreeFinishers == 3
FiveFinishers == 5

\* finish_arrivals: the scheduler, the loader, the MMA and the writeback.
FinishArrivals == 4

\* The loader loads its first tile before it looks for a response, the other
\* roles take the response before they wait for their tile.
KernelInit ==
  /\ PipelineInit
  /\ pending = WorkTiles \ {Me}
  /\ inherited = <<Me>>
  /\ got = [r \in Roles |-> Me]
  /\ coord = [r \in Roles |-> Me]
  /\ requested = FALSE
  /\ full = NewBar(1) /\ finished = NewBar(FinishArrivals)
  /\ sched = "ask" /\ schedPs = Cursor(1)
  /\ clc = [r \in Roles |-> IF r = "tma" THEN "begin" ELSE "await"]
  /\ readyPs = [r \in Roles |-> Cursor(0)]

------------------------------------------------------------------------------
(* The scheduler warp, and the hardware it asks                            *)

\* Every role has read the last response: ask for another coordinate.
RequestSteal ==
  /\ sched = "ask"
  /\ Passes(finished, schedPs.phase)
  /\ full' = ArriveExpectTx(full, 1, 1)
  /\ requested' = TRUE
  /\ schedPs' = Advance(schedPs, 1)
  /\ sched' = "read"
  /\ UNCHANGED <<pipeVars, pending, inherited, finished, workerVars>>

\* The response lands in shared memory.
Respond(c) ==
  /\ requested
  /\ requested' = FALSE
  /\ inherited' = Append(inherited, c)
  /\ pending' = pending \ {c}
  /\ full' = CompleteTx(full, 1, 1)
  /\ UNCHANGED <<pipeVars, finished, schedVars, workerVars>>

\* A pending CTA is cancelled, or the request fails: because nothing is pending,
\* or because the hardware prefers to launch it.
Steal == \E c \in pending \cup {Denied} : Respond(c)

\* After advance() the cursor has the parity of the response asked for.  Nothing
\* is asked for after a request that failed.
SchedulerReads ==
  /\ sched = "read"
  /\ Passes(full, schedPs.phase)
  /\ finished' = Arrive(finished, FinishArrivals)
  /\ sched' = IF Last(inherited) = Denied THEN "left" ELSE "ask"
  /\ UNCHANGED <<pipeVars, stealVars, full, schedPs, workerVars>>

\* A pending CTA is launched, or another CTA cancels it.
TakenElsewhere ==
  /\ \E c \in pending : pending' = pending \ {c}
  /\ UNCHANGED <<pipeVars, inherited, requested, full, finished, schedVars, workerVars>>

------------------------------------------------------------------------------
(* consume() of the two lanes, consume_wg() of the threads                 *)

WorkerGoto(r, label) == clc' = [clc EXCEPT ![r] = label]

\* The role's part of the tile is done, if it had one, and it is still valid().
AwaitResponse(r) ==
  /\ clc[r] = "await" /\ at[r] = "next"
  /\ got[r] # Denied
  /\ Passes(full, readyPs[r].phase)
  /\ readyPs' = [readyPs EXCEPT ![r] = Advance(@, 1)]
  /\ WorkerGoto(r, "read")
  /\ UNCHANGED <<pipeVars, stealVars, full, finished, schedVars, got, coord>>

ReadResponse(r) ==
  /\ clc[r] = "read"
  /\ got' = [got EXCEPT ![r] = Last(inherited)]
  /\ WorkerGoto(r, IF r \in Threads THEN "sync" ELSE "finish")
  /\ UNCHANGED <<pipeVars, stealVars, full, finished, schedVars, readyPs, coord>>

\* All threads have read before the leader arrives for them.
ReadSync ==
  /\ \A w \in Threads : clc[w] = "sync"
  /\ clc' = [r \in Roles |-> CASE r \in Lanes -> clc[r]
                              [] r = Leader -> "finish"
                              [] OTHER      -> "begin"]
  /\ UNCHANGED <<pipeVars, stealVars, full, finished, schedVars, readyPs, got, coord>>

\* The role has read the response; the loader adopts it at once.
FinishSlot(r) ==
  /\ clc[r] = "finish"
  /\ finished' = Arrive(finished, FinishArrivals)
  /\ coord' = IF r = "tma" THEN [coord EXCEPT ![r] = got[r]] ELSE coord
  /\ WorkerGoto(r, "begin")
  /\ UNCHANGED <<pipeVars, stealVars, full, schedVars, readyPs, got>>

------------------------------------------------------------------------------
(* What each role does with its coordinate                                 *)

Start(r, t) ==
  /\ clc[r] = "begin"
  /\ BeginTile(r, t)
  /\ WorkerGoto(r, "await")
  /\ UNCHANGED <<stealVars, full, finished, schedVars, readyPs, got>>

LoadTile ==
  /\ got["tma"] # Denied
  /\ Start("tma", coord["tma"])
  /\ UNCHANGED coord

\* The MMA lane does not know its coordinates: it multiplies what it finds.
MultiplyTile == Start("mma", NoTile) /\ UNCHANGED coord

\* Faulty: the coordinate is not saved before the response replaces it.
WriteAdopted(w) == Start(w, got[w]) /\ coord' = [coord EXCEPT ![w] = got[w]]

\* tile_id was saved before advance_coords.
WriteTile(w) == Start(w, coord[w]) /\ coord' = [coord EXCEPT ![w] = got[w]]

\* mark_done_if_drained, at the end of the round, and the loop test.
LeaveDrained(r) ==
  /\ clc[r] = (IF r = "tma" THEN "begin" ELSE "await")
  /\ got[r] = Denied
  /\ EndLoop(r)
  /\ UNCHANGED clcVars

Worker(r) == AwaitResponse(r) \/ ReadResponse(r) \/ FinishSlot(r) \/ LeaveDrained(r)

\* The scheduler warp takes part in the last barrier too.
KernelStep ==
  /\ PipelineStep
  /\ exited' # exited => sched = "left"
  /\ UNCHANGED clcVars

KernelFinished == exited /\ pending = {} /\ UNCHANGED kernelVars

KernelNext ==
  \/ RequestSteal \/ Steal \/ SchedulerReads \/ TakenElsewhere
  \/ \E r \in Roles : Worker(r)
  \/ ReadSync
  \/ LoadTile \/ MultiplyTile \/ (\E w \in Threads : WriteTile(w))
  \/ KernelStep
  \/ KernelFinished

\* As for AtomicKernel, the launch does not stop while something can go on.
KernelSpec == KernelInit /\ [][KernelNext]_kernelVars /\ WF_kernelVars(KernelNext)

------------------------------------------------------------------------------
(* Properties                                                              *)

\* The coordinates the CTA has come by.
Mine == ToSet(inherited) \ {Denied}

\* The three roles stay on one sequence of coordinates, although the loader takes
\* a response after its loads, the others before their waits, and the MMA lane
\* never learns any: what is stored is a tile the CTA inherited, whole, made of
\* that tile's own operands.  And they all stop after the same one, so that a CTA
\* that has exited has stored every coordinate it came by.
StoresInheritedTiles ==
  /\ OutputCorrect
  /\ \A t \in WorkTiles : D[t] # NoRows => t \in Mine
  /\ exited => \A t \in Mine : D[t] # NoRows

\* No response is overwritten that a role, or a thread of the writeback, has still
\* to read: with four arrivals for each generation no coordinate is skipped.
ResponseReadByAll ==
  [][inherited' # inherited => \A r \in Roles : got[r] = Last(inherited)]_kernelVars

\* The CTA exits with all its coordinates computed, when and however often its
\* requests succeed: no role asks for a response that never comes, and none
\* stops while a coordinate is left to it.
InheritanceCompleted == <>(exited /\ \A t \in Mine : D[t] # NoRows)
=============================================================================
