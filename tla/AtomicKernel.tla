----------------------------- MODULE AtomicKernel -----------------------------
(***************************************************************************)
(* The V2-V4 kernels: one CTA whose loader lane, MMA lane and writeback    *)
(* threads take their tiles from the mailbox (AtomicMailbox) and work on   *)
(* them in the V1 pipeline (MathPipeline), while the lanes of the other    *)
(* CTAs compete for the worklist (AtomicQueue).  A role returns to its     *)
(* mailbox as soon as its own part of the tile is done, so up to three     *)
(* generations are under way at once.                                      *)
(***************************************************************************)
EXTENDS AtomicMailbox, MathPipeline

ASSUME KernelAssumption == WorkTiles = Tiles

kernelVars == <<cellVars, pipeVars>>

KernelInit == MailboxInit /\ PipelineInit

\* Faulty: the role looks into the mailbox again after it has released it.
StartFromMailbox(r) == Work(r) /\ BeginTile(r, mailbox)

\* `if valid()`: the tile the role has just consumed is the one it works on.
StartTile(r) == Work(r) /\ BeginTile(r, got[r])

\* The loop goes round: the role looks at its mailbox again once its part of the
\* tile is done.
NextRound(r) == at[r] = "next" /\ AwaitWork(r) /\ UNCHANGED pipeVars

\* The role has consumed the stop marker and goes to the last barrier.
LeaveLoop(r) ==
  /\ rolePc[r] = "left"
  /\ EndLoop(r)
  /\ UNCHANGED cellVars

\* The scheduler warp takes part in the last barrier too.
KernelStep ==
  /\ PipelineStep
  /\ exited' # exited => pc[Me] = "done" /\ ~signal
  /\ UNCHANGED cellVars

MailboxStep ==
  /\ MyLane \/ (\E c \in CTAs \ {Me} : OtherLane(c)) \/ ReadSync
       \/ (\E r \in Roles : ReadMailbox(r) \/ ReleaseSlot(r))
  /\ UNCHANGED pipeVars

KernelFinished ==
  /\ exited
  /\ \A c \in CTAs : pc[c] = "done"
  /\ UNCHANGED kernelVars

KernelNext ==
  \/ MailboxStep
  \/ \E r \in Roles : StartTile(r) \/ NextRound(r) \/ LeaveLoop(r)
  \/ KernelStep
  \/ KernelFinished

\* The launch does not stop while some lane, thread or engine can go on.  No more
\* is needed: every step but the last stutter gets the kernel further.
KernelSpec ==
  /\ KernelInit /\ [][KernelNext]_kernelVars
  /\ WF_kernelVars(KernelNext)

------------------------------------------------------------------------------
(* Properties                                                              *)

\* The tiles this CTA's lane put into the mailbox.
MyTiles == {t \in Tiles : \E i \in DOMAIN log : log[i] = t}

\* The mailbox keeps the roles on one sequence of tiles although they are up to
\* a generation apart: what is stored is always a tile this CTA claimed, made of
\* that tile's own operands, and never a mixture.  No role leaves its loop early,
\* and no store is left behind, because of the stop marker that follows the last
\* tile through the mailbox: a CTA that has exited has stored all its lane claimed.
StoresClaimedTiles ==
  /\ OutputCorrect
  /\ \A t \in Tiles : D[t] # NoRows => t \in MyTiles
  /\ exited => \A t \in MyTiles : D[t] # NoRows

\* The CTA exits, with every tile its lane claimed stored: the roles never wait
\* in a circle through the mailbox and the pipeline's barriers, and the stop marker
\* overtakes no tile.
KernelCompletes == <>(exited /\ \A t \in MyTiles : D[t] # NoRows)
=============================================================================
