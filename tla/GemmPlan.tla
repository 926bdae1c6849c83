------------------------------- MODULE GemmPlan -------------------------------
(***************************************************************************)
(* The life of the host-side launch plans: Sm100DenseGemmPlan,             *)
(* Sm100TwoSmGemmPlan and Bf16GroupedGemmPlan.  A plan object owns an Impl *)
(* through a raw pointer, and the Impl owns device arrays, a workspace and *)
(* the CUTLASS arguments, also through raw pointers.  Every external call  *)
(* of initialize() may fail.  Kernels run on after run() has returned.     *)
(*                                                                         *)
(* The host is one thread: calls follow one another, and only the device   *)
(* works beside them.  Addresses are reused as soon as they are free.      *)
(***************************************************************************)
EXTENDS Integers, Sequences, FiniteSets

CONSTANTS
  Plans,        \* plan objects a client may have at once
  Impls,        \* addresses of Impl objects
  Blocks,       \* addresses of everything else the plans allocate
  NumArrays     \* device arrays copied by the grouped plan (9 in the code)

ASSUME PlanAssumption ==
  /\ IsFiniteSet(Plans) /\ IsFiniteSet(Impls) /\ IsFiniteSet(Blocks)
  /\ Impls \subseteq Nat \ {0} /\ Blocks \subseteq Nat \ {0}
  /\ NumArrays \in Nat
  /\ Cardinality(Impls) >= Cardinality(Plans)
  /\ Cardinality(Blocks) >= (NumArrays + 2) * Cardinality(Plans)

VARIABLES
  kind,         \* "dense" (both SM100 plans) or "grouped"
  impl,         \* impl_ of each plan object: an address or Null
  alive,        \* the plan objects that exist
  heap,         \* the Impl at each address
  live,         \* allocated blocks
  call,         \* the initialize() under way
  status,       \* what the last initialize() of each object returned
  inflight      \* kernels still running: the blocks each one uses

vars == <<kind, impl, alive, heap, live, call, status, inflight>>

Null == 0
Arrays == 1 .. NumArrays
Arguments == NumArrays + 1
Workspace == NumArrays + 2
Fields == 1 .. NumArrays + 2
DeviceFields == Fields \ {Arguments}

EmptyImpl == [ptr |-> [f \in Fields |-> Null], ready |-> FALSE, active |-> FALSE,
              params |-> {}]
Idle == [at |-> "idle", plan |-> {}, step |-> 0]

Held(i, fields) == {heap[i].ptr[f] : f \in fields} \ {Null}
Fresh(taken, all) == CHOOSE b \in all : b \notin taken
Allocated == {impl[p] : p \in alive} \ {Null}

\* The external calls of initialize(), in order.  "check" and "setup" allocate
\* nothing; "setup" is gemm.initialize, which copies the pointers into the gemm.
Step(op, f) == [op |-> op, field |-> f]
Program ==
  IF kind = "dense"
  THEN <<Step("new", Arguments), Step("check", Null), Step("malloc", Workspace),
         Step("setup", Null)>>
  ELSE <<Step("check", Null)>>
       \o [n \in 1 .. 2 * NumArrays |->
             Step(IF n % 2 = 1 THEN "malloc" ELSE "copy", (n + 1) \div 2)]
       \o <<Step("new", Arguments), Step("malloc", Workspace), Step("check", Null),
            Step("setup", Null)>>

Init ==
  /\ kind \in {"dense", "grouped"}
  /\ impl = [p \in Plans |-> Null]
  /\ alive = {}
  /\ heap = [i \in Impls |-> EmptyImpl]
  /\ live = {}
  /\ call = Idle
  /\ status = [p \in Plans |-> "none"]
  /\ inflight = {}

------------------------------------------------------------------------------
(* Impl::release and the device                                            *)

\* cudaFree of an allocated block returns when the device is idle.
MayFree(i) == Held(i, DeviceFields) # {} => inflight = {}

\* Every pointer is freed and cleared; the gemm object keeps its parameters.
Released(i) == [EmptyImpl EXCEPT !.params = heap[i].params]

DeviceFinishes ==
  \E used \in inflight : inflight' = inflight \ {used}
  /\ UNCHANGED <<kind, impl, alive, heap, live, call, status>>

------------------------------------------------------------------------------
(* Construction, move, destruction                                         *)

Construct(p) ==
  /\ call = Idle /\ p \notin alive
  /\ alive' = alive \cup {p}
  /\ impl' = [impl EXCEPT ![p] = Fresh(Allocated, Impls)]
  /\ heap' = [heap EXCEPT ![impl'[p]] = EmptyImpl]
  /\ status' = [status EXCEPT ![p] = "none"]
  /\ UNCHANGED <<kind, live, call, inflight>>

\* delete impl_: the destructor releases; deleting null does nothing.
DeleteImpl(p) ==
  IF impl[p] = Null THEN UNCHANGED <<heap, live>>
  ELSE /\ MayFree(impl[p])
       /\ live' = live \ Held(impl[p], Fields)
       /\ heap' = [heap EXCEPT ![impl[p]] = EmptyImpl]

Destroy(p) ==
  /\ call = Idle /\ p \in alive
  /\ DeleteImpl(p)
  /\ alive' = alive \ {p}
  /\ impl' = [impl EXCEPT ![p] = Null]
  /\ UNCHANGED <<kind, call, status, inflight>>

MoveConstruct(p, q) ==
  /\ call = Idle /\ p \notin alive /\ q \in alive
  /\ alive' = alive \cup {p}
  /\ impl' = [impl EXCEPT ![p] = impl[q], ![q] = Null]
  /\ status' = [status EXCEPT ![p] = status[q], ![q] = "none"]
  /\ UNCHANGED <<kind, heap, live, call, inflight>>

\* Faulty: the target's own Impl is forgotten.
MoveAssignLeaking(p, q) ==
  /\ call = Idle /\ p \in alive /\ q \in alive \ {p}
  /\ impl' = [impl EXCEPT ![p] = impl[q], ![q] = Null]
  /\ status' = [status EXCEPT ![p] = status[q], ![q] = "none"]
  /\ UNCHANGED <<kind, alive, heap, live, call, inflight>>

\* Assigning a plan to itself changes nothing.
MoveAssign(p, q) ==
  /\ call = Idle /\ p \in alive /\ q \in alive \ {p}
  /\ DeleteImpl(p)
  /\ impl' = [impl EXCEPT ![p] = impl[q], ![q] = Null]
  /\ status' = [status EXCEPT ![p] = status[q], ![q] = "none"]
  /\ UNCHANGED <<kind, alive, call, inflight>>

------------------------------------------------------------------------------
(* initialize()                                                            *)

\* A moved-from plan gets a new Impl; any other is released first.
Enter(p) ==
  /\ call = Idle /\ p \in alive
  /\ IF impl[p] = Null
     THEN /\ impl' = [impl EXCEPT ![p] = Fresh(Allocated, Impls)]
          /\ heap' = [heap EXCEPT ![impl'[p]] = EmptyImpl]
          /\ UNCHANGED live
     ELSE /\ MayFree(impl[p])
          /\ live' = live \ Held(impl[p], Fields)
          /\ heap' = [heap EXCEPT ![impl[p]] = Released(impl[p])]
          /\ UNCHANGED impl
  /\ call' = [at |-> "validate", plan |-> {p}, step |-> 1]
  /\ UNCHANGED <<kind, alive, status, inflight>>

Return(p, result) ==
  /\ call' = Idle
  /\ status' = [status EXCEPT ![p] = result]

\* An argument, the device or an expert's pointer is refused.
Reject(p) ==
  /\ call.at = "validate" /\ p \in call.plan
  /\ Return(p, "failed")
  /\ UNCHANGED <<kind, impl, alive, heap, live, inflight>>

\* No expert of the grouped plan has tokens: nothing to launch.
NothingActive(p) ==
  /\ call.at = "validate" /\ p \in call.plan /\ kind = "grouped"
  /\ heap' = [heap EXCEPT ![impl[p]].ready = TRUE]
  /\ Return(p, "success")
  /\ UNCHANGED <<kind, impl, alive, live, inflight>>

Accept(p) ==
  /\ call.at = "validate" /\ p \in call.plan
  /\ heap' = [heap EXCEPT ![impl[p]].active = TRUE]
  /\ call' = [call EXCEPT !.at = "build"]
  /\ UNCHANGED <<kind, impl, alive, live, status, inflight>>

\* The call at hand succeeds.  Only the workspace may turn out to need no memory.
Succeed(p) ==
  LET i == impl[p]
      s == Program[call.step]
      last == call.step = Len(Program)
      block == Fresh(live, Blocks)
  IN
  /\ call.at = "build" /\ p \in call.plan
  /\ \/ /\ s.op \in {"malloc", "new"}
        /\ live' = live \cup {block}
        /\ heap' = [heap EXCEPT ![i].ptr[s.field] = block]
     \/ /\ s.op \in {"check", "copy"} \/ s.field = Workspace
        /\ UNCHANGED <<live, heap>>
     \/ /\ s.op = "setup"
        /\ heap' = [heap EXCEPT ![i].params = Held(i, DeviceFields), ![i].ready = TRUE]
        /\ UNCHANGED live
  /\ IF last THEN Return(p, "success")
     ELSE call' = [call EXCEPT !.step = @ + 1] /\ UNCHANGED status
  /\ UNCHANGED <<kind, impl, alive, inflight>>

\* The call at hand fails; a copy that fails frees its array and clears the pointer.
Fail(p) ==
  LET i == impl[p]
      s == Program[call.step]
  IN
  /\ call.at = "build" /\ p \in call.plan /\ s.op # "new"
  /\ IF s.op = "copy"
     THEN /\ inflight = {}
          /\ live' = live \ {heap[i].ptr[s.field]}
          /\ heap' = [heap EXCEPT ![i].ptr[s.field] = Null]
     ELSE UNCHANGED <<live, heap>>
  /\ call' = [call EXCEPT !.at = "cleanup"]
  /\ UNCHANGED <<kind, impl, alive, status, inflight>>

\* Faulty: the error is returned and nothing released.
ReturnError(p) ==
  /\ call.at = "cleanup" /\ p \in call.plan
  /\ Return(p, "failed")
  /\ UNCHANGED <<kind, impl, alive, heap, live, inflight>>

\* Every error path after validation releases the Impl.
Cleanup(p) ==
  /\ call.at = "cleanup" /\ p \in call.plan
  /\ MayFree(impl[p])
  /\ live' = live \ Held(impl[p], Fields)
  /\ heap' = [heap EXCEPT ![impl[p]] = Released(impl[p])]
  /\ Return(p, "failed")
  /\ UNCHANGED <<kind, impl, alive, inflight>>

------------------------------------------------------------------------------
(* run()                                                                   *)

\* Faulty: run() looks for an Impl only.
RunUnready(p) ==
  /\ call = Idle /\ p \in alive
  /\ impl[p] # Null
  /\ inflight' = inflight \cup {heap[impl[p]].params}
  /\ UNCHANGED <<kind, impl, alive, heap, live, call, status>>

\* A ready plan with something to launch: the kernel uses what gemm.initialize
\* copied.  In every other case, and when the launch fails, nothing is started.
Run(p) ==
  /\ call = Idle /\ p \in alive
  /\ impl[p] # Null
  /\ heap[impl[p]].ready /\ heap[impl[p]].active
  /\ inflight' = inflight \cup {heap[impl[p]].params}
  /\ UNCHANGED <<kind, impl, alive, heap, live, call, status>>

Initialize(p) ==
  \/ Enter(p) \/ Reject(p) \/ NothingActive(p) \/ Accept(p)
  \/ Succeed(p) \/ Fail(p) \/ Cleanup(p)

Next ==
  \/ \E p \in Plans : Construct(p) \/ Destroy(p) \/ Initialize(p) \/ Run(p)
  \/ \E p, q \in Plans : MoveConstruct(p, q) \/ MoveAssign(p, q)
  \/ DeviceFinishes

Spec == Init /\ [][Next]_vars

------------------------------------------------------------------------------
(* Properties                                                              *)

\* Every allocated block is held by exactly one pointer of exactly one plan's Impl,
\* and every pointer that is not null holds an allocated block: nothing is leaked,
\* freed twice or shared, whatever fails, is moved or is initialised again.
Ownership ==
  /\ \A p \in Plans \ alive : impl[p] = Null
  /\ \A p, q \in alive : p # q /\ impl[p] # Null => impl[p] # impl[q]
  /\ live = UNION {Held(i, Fields) : i \in Allocated}
  /\ \A i, j \in Allocated : \A f, g \in Fields :
       heap[i].ptr[f] = heap[j].ptr[g] /\ heap[i].ptr[f] # Null => i = j /\ f = g
  /\ \A i \in Impls \ Allocated : Held(i, Fields) = {}

\* initialize() is all or nothing: a plan whose last initialisation did not succeed
\* refuses to run and holds nothing, one whose last did holds every array its kernel
\* is going to read, also when it was ready before.
AllOrNothing ==
  \A p \in alive : impl[p] # Null /\ p \notin call.plan =>
    LET s == heap[impl[p]] IN
    IF status[p] # "success" THEN ~s.ready /\ Held(impl[p], Fields) = {}
    ELSE /\ s.ready
         /\ s.active => /\ s.params = Held(impl[p], DeviceFields)
                        /\ kind = "grouped" => \A f \in Arrays : s.ptr[f] # Null
         /\ ~s.active => Held(impl[p], Fields) = {}

\* No kernel runs on memory that has been given back, or given to another plan: the
\* parameters the gemm object keeps across a release are never launched again.
KernelMemoryLives ==
  \A used \in inflight \ {{}} : \E i \in Allocated :
    used \subseteq Held(i, DeviceFields) /\ used \subseteq live
=============================================================================
