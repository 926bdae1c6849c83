------------------------------ MODULE DirectCute ------------------------------
(***************************************************************************)
(* The direct CuTe GEMM: one CTA of four warps computes one output tile    *)
(* with a single shared-memory stage.  Warp 0 programs the TMA copies and  *)
(* the tensor core, and every warp waits for both on two mbarriers, by     *)
(* parity.  A warp is the unit that is scheduled: the loads from TMEM are  *)
(* warp-wide instructions.                                                 *)
(***************************************************************************)
EXTENDS Sequences, FiniteSets, MBarrier

CONSTANTS
  Warps,        \* the CTA's warps
  Lead,         \* elected_warp, warp 0
  KTiles        \* size<3>(t_c_g_a)

ASSUME CuteAssumption ==
  IsFiniteSet(Warps) /\ Lead \in Warps /\ KTiles \in Nat \ {0}

VARIABLES
  tmaBar, mmaBar,   \* storage.tma_barrier, storage.mma_barrier
  completed,        \* history: phases each barrier has completed
  pc, kTile,        \* of each warp
  loads,            \* operands whose copy is in flight, with their K tile
  smem,             \* the stage: K tile held for each operand
  tensorQ,          \* issued to the tensor core, oldest first
  tmem,             \* the accumulator: operand pairs multiplied so far
  D,                \* rows of the output tile, by the warp that stores them
  freed             \* TMEM has been given back

engineVars == <<loads, smem, tensorQ, tmem>>
ctaVars == <<tmaBar, mmaBar, completed, pc, kTile, engineVars, D, freed>>

Operands == {"A", "B"}
Unset == -1
Product == [i \in 1 .. KTiles |-> [op \in Operands |-> i - 1]]

CtaInit ==
  /\ tmaBar = NewBar(1) /\ mmaBar = NewBar(1)
  /\ completed = [b \in {"tma", "mma"} |-> 0]
  /\ pc = [w \in Warps |-> IF w = Lead THEN "produce" ELSE "tma"]
  /\ kTile = [w \in Warps |-> 0]
  /\ loads = {}
  /\ smem = [op \in Operands |-> Unset]
  /\ tensorQ = <<>>
  /\ tmem = <<>>
  /\ D = [w \in Warps |-> <<>>]
  /\ freed = FALSE

Goto(w, label) == pc' = [pc EXCEPT ![w] = label]

\* Faulty: the phase bit is not flipped.
StuckPhase(w) == 0

\* tma_phase and mma_phase, flipped after every wait.
Phase(w) == kTile[w] % 2

\* Count a completed phase of barrier b.
Record(b, old, new) ==
  completed' = IF new.phase # old.phase THEN [completed EXCEPT ![b] = @ + 1] ELSE completed

\* The elected thread announces the bytes and launches both copies.
Produce ==
  /\ pc[Lead] = "produce"
  /\ tmaBar' = ArriveExpectTx(tmaBar, 1, Cardinality(Operands))
  /\ loads' = loads \cup {[op |-> op, src |-> kTile[Lead]] : op \in Operands}
  /\ Goto(Lead, "tma")
  /\ UNCHANGED <<mmaBar, completed, kTile, smem, tensorQ, tmem, D, freed>>

\* wait_barrier(tma_barrier): every warp.
AwaitTma(w) ==
  /\ pc[w] = "tma"
  /\ Passes(tmaBar, Phase(w))
  /\ Goto(w, IF w = Lead THEN "issue" ELSE "mma")
  /\ UNCHANGED <<tmaBar, mmaBar, completed, kTile, engineVars, D, freed>>

\* The K blocks' gemm calls and umma_arrive, in issue order.  accumulate_ is
\* Zero for the first gemm only.
Issue ==
  /\ pc[Lead] = "issue"
  /\ tensorQ' = tensorQ \o <<[op |-> "mma", accum |-> kTile[Lead] # 0], [op |-> "commit"]>>
  /\ Goto(Lead, "mma")
  /\ UNCHANGED <<tmaBar, mmaBar, completed, kTile, loads, smem, tmem, D, freed>>

\* Faulty: warp 0 does not wait for its own MMA before the next copies.
SkipMmaWait(w) ==
  /\ pc[w] = "mma"
  /\ w # Lead => Passes(mmaBar, Phase(w))
  /\ kTile' = [kTile EXCEPT ![w] = @ + 1]
  /\ Goto(w, IF kTile[w] + 1 = KTiles THEN "epilogue"
             ELSE IF w = Lead THEN "produce" ELSE "tma")
  /\ UNCHANGED <<tmaBar, mmaBar, completed, engineVars, D, freed>>

\* wait_barrier(mma_barrier): every warp; then the next K tile or the epilogue.
AwaitMma(w) ==
  /\ pc[w] = "mma"
  /\ Passes(mmaBar, Phase(w))
  /\ kTile' = [kTile EXCEPT ![w] = @ + 1]
  /\ Goto(w, IF kTile[w] + 1 = KTiles THEN "epilogue"
             ELSE IF w = Lead THEN "produce" ELSE "tma")
  /\ UNCHANGED <<tmaBar, mmaBar, completed, engineVars, D, freed>>

\* tcgen05.ld of the warp's rows and their store to global memory.
Epilogue(w) ==
  /\ pc[w] = "epilogue"
  /\ D' = [D EXCEPT ![w] = tmem]
  /\ Goto(w, "sync")
  /\ UNCHANGED <<tmaBar, mmaBar, completed, kTile, engineVars, freed>>

\* __syncthreads, then warp 0 frees the accumulator.
Free ==
  /\ ~freed
  /\ \A w \in Warps : pc[w] = "sync"
  /\ freed' = TRUE
  /\ UNCHANGED <<tmaBar, mmaBar, completed, pc, kTile, engineVars, D>>

------------------------------------------------------------------------------
(* TMA engine and tensor core                                              *)

LoadLands(f) ==
  /\ f \in loads
  /\ loads' = loads \ {f}
  /\ smem' = [smem EXCEPT ![f.op] = f.src]
  /\ tmaBar' = CompleteTx(tmaBar, 1, 1)
  /\ Record("tma", tmaBar, tmaBar')
  /\ UNCHANGED <<mmaBar, pc, kTile, tensorQ, tmem, D, freed>>

TensorMma ==
  /\ tensorQ # <<>> /\ Head(tensorQ).op = "mma"
  /\ tmem' = IF Head(tensorQ).accum THEN Append(tmem, smem) ELSE <<smem>>
  /\ tensorQ' = Tail(tensorQ)
  /\ UNCHANGED <<tmaBar, mmaBar, completed, pc, kTile, loads, smem, D, freed>>

TensorCommit ==
  /\ tensorQ # <<>> /\ Head(tensorQ).op = "commit"
  /\ mmaBar' = Arrive(mmaBar, 1)
  /\ Record("mma", mmaBar, mmaBar')
  /\ tensorQ' = Tail(tensorQ)
  /\ UNCHANGED <<tmaBar, pc, kTile, loads, smem, tmem, D, freed>>

Warp(w) ==
  \/ w = Lead /\ (Produce \/ Issue)
  \/ AwaitTma(w) \/ AwaitMma(w) \/ Epilogue(w)

Finished == freed /\ UNCHANGED ctaVars

CtaNext ==
  \/ \E w \in Warps : Warp(w)
  \/ \E f \in loads : LoadLands(f)
  \/ TensorMma \/ TensorCommit
  \/ Free
  \/ Finished

\* The strongest the hardware could give: every warp, even one that polls a
\* barrier whose parity comes and goes, is scheduled infinitely often.
Fairness ==
  /\ \A w \in Warps : SF_ctaVars(Warp(w))
  /\ WF_ctaVars(\E f \in loads : LoadLands(f))
  /\ WF_ctaVars(TensorMma \/ TensorCommit)
  /\ WF_ctaVars(Free)

CtaSpec == CtaInit /\ [][CtaNext]_ctaVars /\ Fairness

------------------------------------------------------------------------------
(* Properties                                                              *)

\* The phase a warp waits for has completed and so has the one after it: the
\* parity is back where it was before the warp looked.
Overtaken(w) ==
  LET behind(b) == completed[b] > kTile[w] + 1 IN
  (pc[w] = "tma" /\ behind("tma")) \/ (pc[w] = "mma" /\ behind("mma"))

\* The two barriers of the single stage do what the storage's comment says: no
\* copy lands in it while an issued MMA has still to read it, and every row that
\* is stored is the whole K reduction, also when the warp that stores it has been
\* overtaken and passed a barrier on the parity of a later phase.
StageProtected ==
  /\ loads # {} => tensorQ = <<>>
  /\ \A w \in Warps : D[w] \in {<<>>, Product}
  /\ freed => loads = {} /\ tensorQ = <<>> /\ \A w \in Warps : D[w] = Product

\* A launch in which no warp is ever overtaken ends, with TMEM given back.
EndsInStep == [](\A w \in Warps : ~Overtaken(w)) => <>freed

\* Every launch ends: all threads get through their waits.
KernelEnds == <>freed
=============================================================================
