----------------------------- MODULE MathPipeline -----------------------------
(***************************************************************************)
(* The warp-specialised GEMM pipeline of one CTA, shared by V1-V6: a TMA   *)
(* producer lane, an MMA lane and the threads of the writeback warpgroup,  *)
(* with the three engines that work behind their backs (TMA loads, the     *)
(* tensor core's issue queue, TMA stores).                                 *)
(*                                                                         *)
(* How a role comes by its next tile is left to the kernel that extends    *)
(* this module: it calls BeginTile and EndLoop (StaticKernel,              *)
(* AtomicKernel, ClcKernel).                                               *)
(***************************************************************************)
EXTENDS CtaRoles, Sequences, MBarrier

CONSTANTS
  KTiles,       \* K_TILES: K // BLK_K
  PipeDepth,    \* PIPE_DEPTH: stages of the A/B ring
  WorkTiles     \* the tile indices of the worklist

ASSUME PipelineAssumption ==
  /\ KTiles \in Nat \ {0}
  /\ PipeDepth \in Nat \ {0}
  /\ WorkTiles \subseteq Nat

VARIABLES
  tma2mma, mma2tma,     \* [stage -> barrier]: operands ready, stage released
  mma2ld, ld2mma,       \* barriers: accumulator ready, accumulator released
  at,                   \* label of each role's lane and of each thread
  tile,                 \* the tile each of them works on
  k,                    \* k_tile of the producer and of the MMA lane
  ring,                 \* tma_ps and mma_ps
  accPs,                \* ld_ps of the MMA lane
  wbPs,                 \* wb_ps of each writeback thread
  loads,                \* TMA loads in flight
  smem,                 \* smem[op][stage]: the operand slice in the ring
  tensorQ,              \* operations issued to the tensor core, oldest first
  tmem,                 \* the accumulator: operand pairs multiplied so far
  regs, dsmem,          \* per thread: its row in registers, in Dsmem
  store,                \* the tile of the TMA store in flight, or NoTile
  D,                    \* rows of each output tile in global memory
  exited,               \* the CTA has passed its last barrier and freed TMEM
  begun                 \* history: the tiles each role has begun, in order

bars == <<tma2mma, mma2tma, mma2ld, ld2mma>>
cursors == <<ring, accPs, wbPs>>
engines == <<loads, smem, tensorQ, tmem>>
output == <<regs, dsmem, store, D>>
pipeVars == <<bars, at, tile, k, cursors, engines, output, exited, begun>>

Stages == 0 .. PipeDepth - 1
Operands == {"A", "B"}
NoTile == -1
NoRows == <<>>

\* The pair of slices K step i of tile t multiplies, and the accumulator the
\* whole K loop of tile t leaves behind.
Slices(t, i) == [op \in Operands |-> <<t, i>>]
Product(t) == [i \in 1 .. KTiles |-> Slices(t, i - 1)]

PipelineInit ==
  /\ tma2mma = [s \in Stages |-> NewBar(1)]
  /\ mma2tma = [s \in Stages |-> NewBar(1)]
  /\ mma2ld = NewBar(1)
  /\ ld2mma = NewBar(Cardinality(Threads))
  /\ at = [r \in Roles |-> "next"]
  /\ tile = [r \in Roles |-> NoTile]
  /\ k = [l \in Lanes |-> 0]
  /\ ring = [l \in Lanes |-> IF l = "tma" THEN Cursor(1) ELSE Cursor(0)]
  /\ accPs = Cursor(1)
  /\ wbPs = [w \in Threads |-> Cursor(0)]
  /\ loads = {}
  /\ smem = [op \in Operands |-> [s \in Stages |-> <<>>]]
  /\ tensorQ = <<>>
  /\ tmem = <<>>
  /\ regs = [w \in Threads |-> <<>>]
  /\ dsmem = [w \in Threads |-> <<>>]
  /\ store = NoTile
  /\ D = [t \in WorkTiles |-> NoRows]
  /\ exited = FALSE
  /\ begun = [r \in Roles |-> <<>>]

Move(r, label) == at' = [at EXCEPT ![r] = label]

------------------------------------------------------------------------------
(* Acquisition: completed by the kernel                                    *)

\* The role's loop body starts on tile t.
BeginTile(r, t) ==
  /\ at[r] = "next"
  /\ tile' = [tile EXCEPT ![r] = t]
  /\ k' = IF r \in Lanes THEN [k EXCEPT ![r] = 0] ELSE k
  /\ begun' = [begun EXCEPT ![r] = Append(@, t)]
  /\ Move(r, CASE r = "tma" -> "fill" [] r = "mma" -> "acquire" [] OTHER -> "wait")
  /\ UNCHANGED <<bars, cursors, engines, output, exited>>

\* The role leaves its loop and waits at the CTA's last barrier.
EndLoop(r) ==
  /\ at[r] = "next"
  /\ Move(r, "end")
  /\ UNCHANGED <<bars, tile, k, cursors, engines, output, exited, begun>>

------------------------------------------------------------------------------
(* TMA producer                                                            *)

\* Faulty: the producer does not wait for the MMA to release the stage.
FillBusyStage ==
  LET s == ring["tma"].stage IN
  /\ at["tma"] = "fill"
  /\ loads' = loads \cup {[op |-> op, stage |-> s, src |-> <<tile["tma"], k["tma"]>>]
                            : op \in Operands}
  /\ Move("tma", "expect")
  /\ UNCHANGED <<bars, tile, k, cursors, smem, tensorQ, tmem, output, exited, begun>>

\* The stage is free: launch the copies of A and B into it.
FillStage ==
  LET s == ring["tma"].stage IN
  /\ at["tma"] = "fill"
  /\ Passes(mma2tma[s], ring["tma"].phase)
  /\ loads' = loads \cup {[op |-> op, stage |-> s, src |-> <<tile["tma"], k["tma"]>>]
                            : op \in Operands}
  /\ Move("tma", "expect")
  /\ UNCHANGED <<bars, tile, k, cursors, smem, tensorQ, tmem, output, exited, begun>>

\* Announce the bytes of both copies and move on to the next stage.
ExpectBytes ==
  LET s == ring["tma"].stage IN
  /\ at["tma"] = "expect"
  /\ tma2mma' = [tma2mma EXCEPT ![s] = ArriveExpectTx(@, 1, Cardinality(Operands))]
  /\ ring' = [ring EXCEPT !["tma"] = Advance(@, PipeDepth)]
  /\ k' = [k EXCEPT !["tma"] = @ + 1]
  /\ Move("tma", IF k["tma"] + 1 < KTiles THEN "fill" ELSE "next")
  /\ UNCHANGED <<mma2tma, mma2ld, ld2mma, tile, accPs, wbPs, engines, output,
                 exited, begun>>

\* The TMA engine finishes one copy, in any order.
LoadLands(f) ==
  /\ f \in loads
  /\ loads' = loads \ {f}
  /\ smem' = [smem EXCEPT ![f.op][f.stage] = f.src]
  /\ tma2mma' = [tma2mma EXCEPT ![f.stage] = CompleteTx(@, 1, 1)]
  /\ UNCHANGED <<mma2tma, mma2ld, ld2mma, at, tile, k, cursors, tensorQ, tmem,
                 output, exited, begun>>

------------------------------------------------------------------------------
(* MMA lane and tensor core                                                *)

\* The previous tile has left TMEM.
AcquireAccumulator ==
  /\ at["mma"] = "acquire"
  /\ Passes(ld2mma, accPs.phase)
  /\ accPs' = Advance(accPs, 1)
  /\ Move("mma", "issue")
  /\ UNCHANGED <<bars, tile, k, ring, wbPs, engines, output, exited, begun>>

\* Faulty: K step 0 accumulates onto the previous tile.
IssueAccumulating ==
  LET s == ring["mma"].stage IN
  /\ at["mma"] = "issue"
  /\ Passes(tma2mma[s], ring["mma"].phase)
  /\ tensorQ' = tensorQ \o <<[op |-> "mma", stage |-> s, accum |-> TRUE],
                             [op |-> "release", stage |-> s]>>
  /\ ring' = [ring EXCEPT !["mma"] = Advance(@, PipeDepth)]
  /\ k' = [k EXCEPT !["mma"] = @ + 1]
  /\ Move("mma", IF k["mma"] + 1 < KTiles THEN "issue" ELSE "commit")
  /\ UNCHANGED <<bars, tile, accPs, wbPs, loads, smem, tmem, output, exited, begun>>

\* The operands are there: issue the MMA and the commit that releases the stage.
IssueMma ==
  LET s == ring["mma"].stage IN
  /\ at["mma"] = "issue"
  /\ Passes(tma2mma[s], ring["mma"].phase)
  /\ tensorQ' = tensorQ \o <<[op |-> "mma", stage |-> s, accum |-> k["mma"] # 0],
                             [op |-> "release", stage |-> s]>>
  /\ ring' = [ring EXCEPT !["mma"] = Advance(@, PipeDepth)]
  /\ k' = [k EXCEPT !["mma"] = @ + 1]
  /\ Move("mma", IF k["mma"] + 1 < KTiles THEN "issue" ELSE "commit")
  /\ UNCHANGED <<bars, tile, accPs, wbPs, loads, smem, tmem, output, exited, begun>>

\* The K loop is over: commit the accumulator to the writeback.
CommitTile ==
  /\ at["mma"] = "commit"
  /\ tensorQ' = Append(tensorQ, [op |-> "ready"])
  /\ Move("mma", "next")
  /\ UNCHANGED <<bars, tile, k, cursors, loads, smem, tmem, output, exited, begun>>

\* The tensor core works through its queue in issue order; a commit arrives on
\* its barrier when everything issued before it is done.
TensorMma ==
  /\ tensorQ # <<>> /\ Head(tensorQ).op = "mma"
  /\ LET s == Head(tensorQ).stage
         pair == [op \in Operands |-> smem[op][s]]
     IN tmem' = IF Head(tensorQ).accum THEN Append(tmem, pair) ELSE <<pair>>
  /\ tensorQ' = Tail(tensorQ)
  /\ UNCHANGED <<bars, at, tile, k, cursors, loads, smem, output, exited, begun>>

TensorCommit ==
  /\ tensorQ # <<>> /\ Head(tensorQ).op # "mma"
  /\ IF Head(tensorQ).op = "release"
     THEN /\ mma2tma' = [mma2tma EXCEPT ![Head(tensorQ).stage] = Arrive(@, 1)]
          /\ UNCHANGED mma2ld
     ELSE /\ mma2ld' = Arrive(mma2ld, 1)
          /\ UNCHANGED mma2tma
  /\ tensorQ' = Tail(tensorQ)
  /\ UNCHANGED <<tma2mma, ld2mma, at, tile, k, cursors, loads, smem, tmem, output,
                 exited, begun>>

------------------------------------------------------------------------------
(* Writeback warpgroup                                                     *)

\* The accumulator is complete.  Each thread waits with its own parity.
AwaitAccumulator(w) ==
  /\ at[w] = "wait"
  /\ Passes(mma2ld, wbPs[w].phase)
  /\ wbPs' = [wbPs EXCEPT ![w] = Advance(@, 1)]
  /\ Move(w, "load")
  /\ UNCHANGED <<bars, tile, k, ring, accPs, engines, output, exited, begun>>

\* tcgen05.ld of the thread's row, complete when wait.ld returns.
LoadRow(w) ==
  /\ at[w] = "load"
  /\ regs' = [regs EXCEPT ![w] = tmem]
  /\ Move(w, "release")
  /\ UNCHANGED <<bars, tile, k, cursors, engines, dsmem, store, D, exited, begun>>

\* The thread needs TMEM no more.
ReleaseAccumulator(w) ==
  /\ at[w] = "release"
  /\ ld2mma' = Arrive(ld2mma, Cardinality(Threads))
  /\ Move(w, "stage")
  /\ UNCHANGED <<tma2mma, mma2tma, mma2ld, tile, k, cursors, engines, output,
                 exited, begun>>

\* Cast the row and put it into the staging buffer.
StageRow(w) ==
  /\ at[w] = "stage"
  /\ dsmem' = [dsmem EXCEPT ![w] = regs[w]]
  /\ Move(w, "staged")
  /\ UNCHANGED <<bars, tile, k, cursors, engines, regs, store, D, exited, begun>>

\* warpgroup_sync(10), twice per tile: all threads of the warpgroup leave it
\* together.  After the first the leader stores, the others go to the second.
WarpgroupSync(here, leaderNext, othersNext) ==
  /\ \A w \in Threads : at[w] = here
  /\ at' = [r \in Roles |-> CASE r \in Lanes -> at[r]
                             [] r = Leader  -> leaderNext
                             [] OTHER       -> othersNext]
  /\ UNCHANGED <<bars, tile, k, cursors, engines, output, exited, begun>>

RowsStaged == WarpgroupSync("staged", "store", "stored")
TileStored == WarpgroupSync("stored", "next", "next")

\* The leader hands the staged tile to the TMA engine and commits the group.
IssueStore ==
  /\ at[Leader] = "store"
  /\ store' = tile[Leader]
  /\ Move(Leader, "drain")
  /\ UNCHANGED <<bars, tile, k, cursors, engines, regs, dsmem, D, exited, begun>>

\* The TMA engine reads the staging buffer and writes the output tile.
StoreLands ==
  /\ store # NoTile
  /\ D' = [D EXCEPT ![store] = dsmem]
  /\ store' = NoTile
  /\ UNCHANGED <<bars, at, tile, k, cursors, engines, regs, dsmem, exited, begun>>

\* Faulty: the store's group is committed and not waited for.
DrainAtOnce ==
  /\ at[Leader] = "drain"
  /\ Move(Leader, "stored")
  /\ UNCHANGED <<bars, tile, k, cursors, engines, output, exited, begun>>

\* cp.async.bulk.wait_group(0) returns.
DrainStore ==
  /\ at[Leader] = "drain"
  /\ store = NoTile
  /\ Move(Leader, "stored")
  /\ UNCHANGED <<bars, tile, k, cursors, engines, output, exited, begun>>

\* cta_sync of every role, then warp 0 frees the CTA's TMEM columns.
Cleanup ==
  /\ ~exited
  /\ \A r \in Roles : at[r] = "end"
  /\ exited' = TRUE
  /\ UNCHANGED <<bars, at, tile, k, cursors, engines, output, begun>>

------------------------------------------------------------------------------
(* Everything but acquisition.  TileStored ends the writeback's tile,      *)
(* ExpectBytes and CommitTile end that of the other two roles.             *)

Engine == (\E f \in loads : LoadLands(f)) \/ TensorMma \/ TensorCommit \/ StoreLands
Writeback(w) ==
  AwaitAccumulator(w) \/ LoadRow(w) \/ ReleaseAccumulator(w) \/ StageRow(w)
LeaderStep == RowsStaged \/ TileStored \/ IssueStore \/ DrainStore

PipelineStep ==
  \/ FillStage \/ ExpectBytes
  \/ AcquireAccumulator \/ IssueMma \/ CommitTile
  \/ \E w \in Threads : Writeback(w)
  \/ LeaderStep
  \/ Engine
  \/ Cleanup

\* Every lane, thread and engine of a resident CTA makes progress.
PipelineFairness ==
  /\ WF_pipeVars(FillStage \/ ExpectBytes)
  /\ WF_pipeVars(AcquireAccumulator \/ IssueMma \/ CommitTile)
  /\ \A w \in Threads : WF_pipeVars(Writeback(w))
  /\ WF_pipeVars(LeaderStep)
  /\ WF_pipeVars(\E f \in loads : LoadLands(f))
  /\ WF_pipeVars(TensorMma \/ TensorCommit)
  /\ WF_pipeVars(StoreLands)
  /\ WF_pipeVars(Cleanup)

------------------------------------------------------------------------------
(* Properties of the pipeline, whatever the acquisition                    *)

Slot == {<<>>} \cup (WorkTiles \X (0 .. KTiles - 1))
Pairs == [Operands -> Slot]
TensorOps == [op : {"mma"}, stage : Stages, accum : BOOLEAN]
               \cup [op : {"release"}, stage : Stages] \cup [op : {"ready"}]

\* What the variables hold, for proofs to start from.
PipelineTypeOK ==
  /\ tma2mma \in [Stages -> BarType(1)] /\ mma2tma \in [Stages -> BarType(1)]
  /\ mma2ld \in BarType(1) /\ ld2mma \in BarType(Cardinality(Threads))
  /\ at \in [Roles -> {"next", "fill", "expect", "acquire", "issue", "commit", "wait",
                       "load", "release", "stage", "staged", "store", "drain",
                       "stored", "end"}]
  /\ tile \in [Roles -> WorkTiles \cup {NoTile}]
  /\ k \in [Lanes -> 0 .. KTiles]
  /\ ring \in [Lanes -> CursorType(PipeDepth)]
  /\ accPs \in CursorType(1) /\ wbPs \in [Threads -> CursorType(1)]
  /\ loads \subseteq [op : Operands, stage : Stages, src : Slot \ {<<>>}]
  /\ smem \in [Operands -> [Stages -> Slot]]
  /\ tensorQ \in Seq(TensorOps)
  /\ tmem \in Seq(Pairs)
  /\ regs \in [Threads -> Seq(Pairs)] /\ dsmem \in [Threads -> Seq(Pairs)]
  /\ store \in WorkTiles \cup {NoTile}
  /\ D \in [WorkTiles -> {NoRows} \cup [Threads -> Seq(Pairs)]]
  /\ exited \in BOOLEAN
  /\ begun \in [Roles -> Seq(WorkTiles \cup {NoTile})]

\* TMEM is freed, and the CTA's shared memory given up, when nothing the CTA
\* has started is still in flight.
QuietAtExit ==
  exited => loads = {} /\ tensorQ = <<>> /\ store = NoTile

\* No memory of the CTA is read and written at once: a TMA load never lands in
\* a stage an issued MMA has still to read, the tensor core never accumulates
\* while a thread is between its accumulator wait and its release, no thread
\* restages its row while the TMA engine reads the staging buffer, and no engine
\* works on memory the CTA has given up.
NoDataRace ==
  /\ \A f \in loads : \A i \in DOMAIN tensorQ :
       tensorQ[i].op = "mma" => tensorQ[i].stage # f.stage
  /\ \A i \in DOMAIN tensorQ : tensorQ[i].op = "mma" =>
       \A w \in Threads : at[w] \notin {"load", "release"}
  /\ store # NoTile => \A w \in Threads : at[w] # "stage"
  /\ QuietAtExit

\* Every row of a stored output tile is the K reduction of that tile's own A and
\* B slices, each used once and in order: no stage was reused early, no
\* accumulator mixed two tiles, no thread stored a row of another tile.
OutputCorrect ==
  \A t \in WorkTiles : D[t] = NoRows \/ D[t] = [w \in Threads |-> Product(t)]

=============================================================================
