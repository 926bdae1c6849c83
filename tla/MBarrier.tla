------------------------------- MODULE MBarrier -------------------------------
(***************************************************************************)
(* The synchronization objects the TIRx kernels are built from: the        *)
(* shared-memory mbarrier behind Pipeline, TMABar, TCGen05Bar and MBarrier *)
(* of tvm.tirx.lang.pipeline, and the PipelineState cursor over a ring of  *)
(* them.  Both belong to TVM and the hardware; they are modelled from how  *)
(* the kernels initialise, arrive on and wait for them.                    *)
(*                                                                         *)
(* A barrier has the parity of its current phase, the arrivals and the     *)
(* transferred bytes the phase still expects.  The phase completes when    *)
(* both are zero; bytes may land before the arrival that announces them.   *)
(***************************************************************************)
EXTENDS Integers

NewBar(n) == [phase |-> 0, pending |-> n, tx |-> 0]

\* A completed phase starts the next one, which expects n arrivals again.
Settle(b, n) ==
  IF b.pending = 0 /\ b.tx = 0
  THEN [phase |-> 1 - b.phase, pending |-> n, tx |-> 0]
  ELSE b

Arrive(b, n) == Settle([b EXCEPT !.pending = @ - 1], n)
ArriveExpectTx(b, n, bytes) ==
  Settle([phase |-> b.phase, pending |-> b.pending - 1, tx |-> b.tx + bytes], n)
CompleteTx(b, n, bytes) == Settle([b EXCEPT !.tx = @ - bytes], n)

\* wait(stage, parity) returns once the phase of that parity has completed,
\* which is all the parity of the current phase can tell.
Passes(b, parity) == b.phase # parity

\* PipelineState(depth, phase) and its advance(): the parity flips when the
\* stage wraps around.
Cursor(parity) == [stage |-> 0, phase |-> parity]
Advance(cur, depth) ==
  IF cur.stage + 1 = depth
  THEN [stage |-> 0, phase |-> 1 - cur.phase]
  ELSE [cur EXCEPT !.stage = @ + 1]

BarType(n) == [phase : {0, 1}, pending : 0 .. n, tx : Int]
CursorType(depth) == [stage : 0 .. depth - 1, phase : {0, 1}]
=============================================================================
