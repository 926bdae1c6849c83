# A TLA+ verification of the Blackwell MoE kernel scheduler

The repository runs the grouped GEMM of a mixture-of-experts layer on Blackwell
GPUs and studies how the work should be scheduled. Everything turns on one list
of output tiles `(expert, tile_m, tile_n)`: the host builds it, a family of
kernels V0-V6 acquires tiles from it in different ways, and inside each CTA
asynchronous engines and specialised warps hand data to each other through
barriers. A numerical comparison on one GPU says that a schedule which happened
to occur was right. The modules here are about the schedules that did not.

Source paths below are relative to the repository root, where the TIRx package
is `python/blackwell_moe_tirx/`. `PROJECT.json` maps each definition to the
lines it models.

## 1. Inventory

| Part | Source | State it keeps | Operations | What is hard about it |
|---|---|---|---|---|
| Atomic work queue (V2-V4) | `kernels/atomic_scheduler.py`, `registry.py` | two int32 heads in global memory; per lane `chunk_next`, `chunk_end`, `using_tail` | claim from the main region, fall over to the tail, claim from the tail, publish, stop | lanes of all CTAs interleave at each atomic add; the border of the two regions; overshoot of a bounded integer; each lane must find out by itself that it is done |
| CTA-local mailbox (V2-V4) | `kernels/atomic_scheduler.py` | one word, a full and an empty barrier, a cursor per role | lane deposits and signals; each role waits, reads, releases | three roles a generation apart; 128 readers and one of them releasing; the stop marker |
| Warp-specialised pipeline (V1-V6) | `kernels/v1_static_ws.py`, `atomic_ws.py` | ring of A/B stages, TMEM accumulator, staging buffer, four barrier families, cursors | load, multiply, commit, read accumulator, stage, store | asynchronous engines; parities that run on across tiles; reuse of three kinds of buffer |
| Static persistent kernel (V1, V6) | `v1_static_ws.py`, `v6_small_m_ws.py` | one `tile_id` per role | three independent grid-stride loops | the loops meet only in the pipeline's barriers |
| Single-warpgroup kernels (V0, V0.5) | `single_wg.py` | as the pipeline, without `ld2mma` | one lane loads and multiplies, then joins the writeback | one lane is both sides of two barriers; two warpgroup syncs stand in for a barrier |
| Cluster Launch Control kernel (V5) | `v5_clc.py` | pending launch coordinates, a response slot with four arrivals per generation | steal, consume, mark done | roles consume a generation at different points of their loop |
| Host planner | `config.py` | none between calls | tile lists, the M128/M64 split, mirrors of the schedulers | boundary remainders, padding of two launches that share `D` |
| Dispatch, registry | `dispatch.py`, `registry.py` | a constant table | features, selection, launch size, initial heads | the thresholds' edges, empty plans |
| Runner, CLI | `runner.py`, `cli.py` | device tensors, a queue and its initial copy, the calls still to make, a CUDA stream | plan, select, allocate, reset heads, launch, record events, synchronise, compare, report | the heads must be reset before each launch and outside its timing; two kernels in one timing; runs with nothing to verify |
| CPU reference scheduler | `src/scheduler/scheduler.cpp` | none between calls | tile list, static order, three assignments, metrics | unsigned arithmetic, regrouping by expert, greedy choice |
| Workload generator | `src/workload/workload.cpp`, `generate_workloads.py` | a random generator | sample counts, statistics | none |
| CUDA scheduler probe | `src/kernels/scheduler_probe.cu`, `dynamic_queue.cuh` | a uint32 counter, shared claim bounds, a reduction array, result arrays | claim, process a tile, publish its checksum | shared memory re-read after the last barrier of a tile |
| Direct CuTe GEMM | `src/kernels/direct_cute_gemm.cu` | one stage, two barriers, TMEM | copy, multiply, epilogue | four warps wait by parity, one warp arrives |
| CUTLASS-backed plans | `sm100_dense_gemm.cu`, `sm100_2sm_gemm.cu`, `cutlass_baseline.cu` | an owned `Impl` with device arrays, workspace, `ready` | construct, initialise, run, move, destroy | failure at every call, kernels that outlive `run()`, moved-from objects |
| Benchmarks, tools, tests | `benchmarks/`, `tools/`, `tests/` | none | drive the above | pure I/O |

How they interact. The CLI asks the planner for a plan (one work list, or two
for V6), dispatch names a kernel, the registry says how many CTAs to launch and
what the queue heads start from, and the runner copies work list and heads to
the device and launches. On the device each CTA acquires tiles: by CTA index
(V0), by a grid stride (V0.5, V1, V6), from the queue heads (V2-V4), from the
hardware's pending CTAs (V5). In V2-V4 a scheduler lane passes each tile on
through the mailbox to a loader lane, an MMA lane and a writeback warpgroup;
these hand operands, accumulator and results to each other through the
pipeline's barriers, and three engines (TMA loads, tensor core, TMA stores)
work behind their backs. The probe, the direct GEMM and the CUTLASS plans are
separate programs beside this family; the C++ scheduler simulates assignments
for the same routing on the CPU.

What makes each part correct:

* queue: each tile is claimed by one CTA and run once, nothing is left when a
  lane stops, the heads never wrap, the reserved tail is used last;
* mailbox: the roles see one sequence of tiles, no generation is overwritten
  unread, everyone is told to stop and only when the queue is drained;
* pipeline and kernels: no buffer is written while it is read, each output row
  is its own tile's reduction, nothing is in flight at exit, no circular wait,
  exactly the CTA's own tiles are stored;
* V5: the roles stay on one sequence of coordinates, each response is read by
  all of them before the next lands, everything inherited is computed;
* harness: each launch does its whole work list, timings hold just the kernels,
  only verified work is reported, dispatch launches no idle CTA;
* planner and CPU scheduler: each routed row is computed once, padding does no
  harm, host mirrors agree with the device and with each other;
* probe: one visit per tile, the checksum of a tile is that tile's;
* plans: every block has one owner, initialisation is all or nothing, kernels
  run on live memory only.

## 2. Modules

| Module | Models | Builds on |
|---|---|---|
| `WorkQueue` | the abstract promise of every scheduler: claim, run, retire | |
| `HostClaims` | the host mirrors `static_cta_assignments`, `chunked_claims`, `hybrid_claims` | |
| `AtomicQueue` | the scheduler lanes of V2-V4 and the two heads | `HostClaims`, `WorkQueue` (refined) |
| `MBarrier` | mbarrier phases and `PipelineState` (external: TVM and hardware) | |
| `CtaRoles` | the roles of one CTA: two elected lanes and the writeback threads | |
| `AtomicMailbox` | one CTA's mailbox, thread by thread, beside the other lanes | `AtomicQueue`, `CtaRoles`, `MBarrier` |
| `MathPipeline` | producer, MMA lane, writeback threads and the engines | `CtaRoles`, `MBarrier` |
| `PipelineProofs` | the pipeline's invariant and that each of its steps keeps it | `MathPipeline` |
| `StaticKernel` | V1 and V6: grid-stride loops over the pipeline | `MathPipeline`, `HostClaims` |
| `AtomicKernel` | V2-V4 whole: mailbox and pipeline composed | `AtomicMailbox`, `MathPipeline` |
| `AtomicKernelProofs` | theorems about the queue, the mailbox and V2-V4 whole, each built on the one before | `AtomicKernel`, `PipelineProofs` |
| `ClcKernel` | V5: coordinates inherited from CTAs not yet launched | `MathPipeline` |
| `PersistentProofs` | theorems about V1, V6 and V5 | `StaticKernel`, `ClcKernel`, `PipelineProofs` |
| `SingleWg` | V0 and V0.5 | `MathPipeline` |
| `SingleWgProofs` | theorems about `SingleWg`, through a refinement mapping | `SingleWg`, `PipelineProofs` (refined) |
| `SchedulerProbe` | both probe kernels | |
| `ProbeProofs` | theorems about `SchedulerProbe` | `SchedulerProbe`, `Sums` |
| `DirectCute` | one CTA of the direct GEMM, warp by warp | `MBarrier` |
| `GemmPlan` | the life of the three kinds of plan | |
| `GemmProofs` | theorems about the other GEMMs | `GemmPlan`, `DirectCute` |
| `Routing` | what both planners are given | |
| `Planner` | `build_padding_aware_plans`, `build_workload_plan` | `Routing` |
| `CpuScheduler` | `scheduler.cpp` | `Routing`, `HostClaims` |
| `Dispatch` | selection rules and registry | `Planner` |
| `Runner` | both harnesses: host program, stream, device | `Dispatch` |
| `HostPlanning` | the command line, and both planners on one routing | `Runner`, `CpuScheduler` |
| `Sums` | lemmas: sums over finite sets and induction over them | |
| `HostProofs` | theorems about all of the host: planners, dispatch, harness | `HostPlanning`, `Sums` |

### How the models correspond to the code

`AtomicQueue`. A lane's loop iteration is cut at the places other lanes can be
seen: `SlotEmpty` is the loop head, `ClaimMain`, `LeaveMain` and `ClaimTail` are
the outcomes of the atomic adds (an add and the arithmetic on its result are one
step, the result being local), `Publish` and `PublishDone` the deposit. `heads`
wraps at `MaxInt`, as the int32 does. `visits` is a history variable.

`AtomicMailbox` refines one lane's deposit into slot wait, write and full
arrival, and adds `consume()` of the two elected lanes (wait, read, release) and
`consume_wg()` of the writeback threads (wait, read, warpgroup sync, release by
the leader only). `log` and `taken` are histories. The other CTAs stay lanes
of the queue whose own mailboxes may let them go on at any time, which is an
over-approximation of what they do.

`MathPipeline` has one action per barrier operation or engine event. Loads land
in any order, the tensor core executes its queue in order and arrives on
a barrier when it reaches the commit, a store reads the staging buffer until
it lands. Data are abstracted to identities: a stage holds `<<tile, k>>`, the
accumulator the sequence of operand pairs multiplied into it, a stored row
that sequence. Swizzles, layouts, element types and coordinates are left out.
`mma2ld` and `ld2mma` count arrivals as the code initialises them. The M=64 path
of V6 changes layouts and row indices and has the control of V1. `at` is the
label of each lane and thread; `begun`, the tiles each of them has begun so far,
is a history that only the proofs read. A kernel extends the module: it decides
when a role begins which tile (`BeginTile`) and when its loop ends (`EndLoop`), and
adds everything else the pipeline does as `PipelineStep`. In `AtomicKernel` a role's
loop body, one step `Work` in `AtomicMailbox`, is the pipeline's part of the tile.

`ClcKernel`. The scheduler warp runs TVM's `ClusterLaunchControlScheduler`, whose
source is not in the repository. It is modelled from what `v5_clc.py` says of it:
four arrivals complete a generation (scheduler, loader, MMA, writeback), a
request is asynchronous, its response is consumed once by each role, and
a failed request drains the loop. `clc` is a role's place in its round:
the loader works on its coordinate (`LoadTile`) and then takes the response, the
MMA lane and the threads take the response first and work on the coordinate before
it. `coord` is the worker's `m_idx`, `got` the response it has read; they differ
between consume and `advance_coords`. The MMA lane has no coordinate. A request may
fail at any time, and `TakenElsewhere` lets the hardware launch a pending CTA or
another CTA cancel it at any time, so `pending` shrinks in every order. `inherited`
is a history.

`SingleWg` uses the same ring, engines and writeback, and restricts the order
of "tma" and "mma" steps to the program order of the one lane that does both:
prologue of up to `PIPE_DEPTH` loads, then MMA and load alternating.

`SchedulerProbe` is thread by thread between `__syncthreads`; a slot of the
reduction holds the set of contributions XORed into it.

`DirectCute` is warp by warp. A barrier wait passes when the phase's parity has
changed, which is all the hardware's test can tell.

`GemmPlan` has a host thread that makes one call at a time and a device that
finishes kernels at any time. Every external call may fail. `cudaFree` waits
for the device. Freed addresses are reused at once, lowest first.

`Runner` writes the host's calls down as a sequence, `program`, in the order in
which `_check_correctness`, the warm-up loop and the timed loop make them. `Enqueue`
hands the oldest one to `stream` without waiting, `Execute` is the device finishing
the stream's oldest operation at any later time, and the host waits only where the
code does. A launch is what `AtomicQueue` guarantees of one: it computes what its
heads still have to hand out and leaves them past their ends; the other versions
compute their whole list. `D` holds the placed tiles stored since it was zeroed, and
`Compare` asks whether they cover every routed row. `trace` is a history from which
the content of each timing is read. `Dispatch` compares squares: `cv_m <= 1/4` is
`16 * Spread <= Rows^2`, exactly; the code's float may fall on either side of a
threshold it is equal to.

`Planner` runs the split loop one expert a step and ends in the planner's own
assertion. A launch places a tile as the device does, `tile_m // plan.tile_m`
times the launch's tile height, with its padding. `CpuScheduler` deals one tile
a step, in unsigned arithmetic modulo `Word`. FLOPs are counted in output
elements, `2 * k` being common to all.

## 3. Runs

| Run | Question | Properties | Bounds |
|---|---|---|---|
| `queue_hybrid` | do V4 claims divide the work list, under every interleaving? | `TypeOK` `QueueInv` `NoTileTwice` `NoTileSkipped` `HeadsOnlyGrow` `ClaimsAsPlanned` `AllWorkDone` `ImplementsWorkQueue` | 3 lanes, 3 main tiles in claims of 2, tail of 3, `MaxInt` at its least |
| `mailbox` | does the one-slot mailbox keep all roles on one sequence? | `SameGeneration` `StopsWhenDrained` `ConsumedBeforeOverwrite` `EveryRoleStops` | 2 CTAs, 4 tiles, 2 writeback threads |
| `static_kernel` | do barriers and parities protect every buffer, and does it end? | `NoDataRace` `OutputCorrect` `StrideStored` `StrideCompleted` | either CTA of 2, 5 tiles, 3 K tiles on 2 stages |
| `atomic_kernel` | do mailbox and pipeline still fit together? | `StoresClaimedTiles` `KernelCompletes` | 2 CTAs, 3 tiles, V3 claims of 2 |
| `clc_kernel` | is any inherited coordinate lost, mixed up or waited for in vain? | `StoresInheritedTiles` `ResponseReadByAll` `InheritanceCompleted` | 3 coordinates, 2 writeback threads, 1 K tile on 2 stages |
| `single_wg` | can one lane be both ends of the ring, without `ld2mma`? | `SyncsSuffice` `GridCompleted` | V0 and V0.5 grids, 5 tiles, 3 K tiles |
| `scheduler_probe` | does the probe measure what its test asserts? | `VisitedExactlyOnce` `StaticChecksums` `ProbeEnds` | both kernels, 2 CTAs of 2 threads, 6 tiles |
| `scheduler_probe_race` | is each dynamic checksum its own tile's? (violated) | `ChecksumOwnTile` | 2 CTAs of 2 threads, 3 tiles in claims of 1 |
| `direct_cute` | is the single stage protected, and what does termination need? | `StageProtected` `EndsInStep` | 3 warps, 5 K tiles |
| `direct_cute_overtaken` | does every launch end? (violated) | `KernelEnds` | 4 warps, 2 K tiles |
| `gemm_plan` | who owns what, whatever fails? | `Ownership` `AllOrNothing` `KernelMemoryLives` | 2 plan objects, 8 blocks, 2 arrays |
| `host_planning` | do the planners divide the rows, and agree? does the harness measure and verify what it says? | `EveryRowOnce` `PaddingHarmless` `SplitIsBest` `StaticIsGridStride` `GreedyBound` `SameWorkList` `TimedWorkIsWhole` `ReportsOnlyVerified` `AutoLaunchFits` | 3 experts, 3 CTAs, 2 widths; planning: all vectors over 8 boundary counts; command line: all vectors over 4 counts, 6 values of `--kernel`, 0 or 2 iterations after 1 warm-up |

Why the bounds are enough:

* Queue: three lanes suffice for one lane to overshoot while two others race for
  the last chunk; the main region is not a multiple of the claim, so that
  a claim is cut short, and the tail is longer than the number of lanes can
  take at once. `MaxInt` is the least `WidthAssumption` allows, so a wrap would
  show. The theorems lift the safety part to all values.
* Mailbox and pipeline: two writeback threads are a leader and one other;
  the barriers count all of them and no thread but the leader differs. Three
  K tiles on a two-stage ring make each tile start on another stage and parity
  than the one before; three tiles per CTA go through a full cycle of both.
  In `atomic_kernel` one K tile on two stages does the same at less cost.
* V5: three coordinates let the CTA inherit none, one or two more, in either order,
  and be refused with coordinates left; with the second one each role goes twice
  through both parities of the two barriers. The CTA's own coordinate is `Me`;
  coordinates are interchangeable.
* Probe: two threads make one halving round; the races are between a thread and
  thread 0 or between neighbouring rounds.
* Direct GEMM: five K tiles let a warp fall behind by two and by four phases.
* Plans: two objects are all that a move involves; eight blocks are just
  what two full plans need, so that addresses come back with another owner;
  two arrays have a first and a last. The grouped plan's nine arrays
  repeat the middle.
* Planner: 0, 1, 64, 65, 127, 128, 193 and 257 rows are the two sides of every
  comparison in the split. 129 columns is a width the Python planner refuses
  and the C++ reference cuts into partial tiles, which gives the tiles
  unequal costs. `Word` is far above the counts, as 2^32 is.
* Command line: 0, 64, 193 and 769 rows for three experts and three CTAs make
  `--kernel auto` select each of V0 to V4, and V6 run with no, one or both of its
  buckets. One version without a queue, one with one head, one with two and the
  two kinds of V6 cover what the harness tells apart; two iterations are
  the least at which a timed launch follows a timed launch.

`CHECK_DEADLOCK FALSE` appears only where the system may really stop: in the two
`DirectCute` runs, where an overtaken warp waits for ever. All other models end in
an explicit `Finished` step.

### Fairness

* `AtomicQueue`: weak fairness of every lane. A CTA that has started is resident
  until it exits and the hardware schedules its warps; one that has not starts
  when another leaves.
* `AtomicMailbox`, `StaticKernel`: weak fairness of each role's steps and of the
  engines, for the same reason, and because a TMA transfer or an MMA that was
  issued completes. A role spinning on a barrier is not a step, so fairness
  never assumes that a wait succeeds.
* `AtomicKernel`, `ClcKernel`, `SingleWg`: weak fairness of the next-state relation alone, the
  weakest assumption there is. It is enough because no role can take steps for
  ever without the others.
* `SchedulerProbe`: weak fairness of each thread and of the release of a full
  barrier.
* `DirectCute`: weak fairness of the engines and strong fairness of each warp. A warp's wait is enabled and
  disabled again as phases pass, so weak fairness would promise nothing; strong
  fairness is more than a GPU promises, and `KernelEnds` fails even so. Strong
  fairness makes the counterexample the stronger one.
* `GemmPlan` and `HostPlanning` state safety only and assume none.

## 4. Findings

1. **A claim bound is re-read after the last barrier**
   (`src/kernels/scheduler_probe.cu:91`, run `scheduler_probe_race`). A thread
   leaves the tile's last `__syncthreads` and compares its index with the
   shared `claimed_end`; thread 0 may by then have written the next claim.
   The slow thread then works on one more tile, and a checksum mixes two tiles.
   Visits and termination hold in every interleaving, which is why
   the GPU test can pass.
2. **A warp can be overtaken by a whole phase pair**
   (`src/kernels/direct_cute_gemm.cu:203`, run `direct_cute_overtaken`). All warps
   wait on both barriers by a one-bit phase, but only warp 0 takes part in them.
   A warp that does not look for a whole K step finds the parity where
   it was and waits for ever. `EndsInStep` shows that this is the only way the
   launch can fail to end, and `StageProtected` that no wrong result is stored
   in any case.

Both need a warp to be delayed for long by the scheduler; neither was observed
on a device by us, and the model says nothing about how likely they are.

## 5. What is proved

TLC checks the small instances of section 3. The theorems below hold for every
value of the constants that meets the named assumptions, and each states
a property some run checks, unless its last column says otherwise.

| Part | Theorem | Property |
|---|---|---|
| Queue | `TypeCorrect` | `TypeOK` |
| | `ClaimsPartition` | `QueueInv` |
| | `AtMostOnce`, `NoneSkipped` | `NoTileTwice`, `NoTileSkipped` |
| | `HeadsGrow` | `HeadsOnlyGrow` (action property) |
| | `PlannedClaims` | `ClaimsAsPlanned` (action property) |
| | `RefinesWorkQueue` | each step is a step or a stutter of `WorkQueue` |
| Mailbox | `MailboxImplementsQueue` | each step is a step or a stutter of the queue |
| | `MailboxInvariant` | the inductive invariant |
| | `GenerationsAgree`, `StopMeansDrained` | `SameGeneration`, `StopsWhenDrained` |
| | `SlotConsumedFirst` | `ConsumedBeforeOverwrite` (action property) |
| V1, V6 | `StaticPipeline`, `StaticTypes` | the inductive invariant; `PipelineTypeOK` |
| | `StaticNoRace`, `StaticOutput` | `NoDataRace`, `OutputCorrect` |
| | `StrideIsStored` | `StrideStored` |
| V2-V4 | `KernelImplementsMailbox` | each step is a step or a stutter of the mailbox |
| | `KernelInvariant` | the inductive invariant |
| | `KernelNoRace`, `KernelOutput` | `NoDataRace`, `StoresClaimedTiles` |
| V5 | `ClcInvariant` | the inductive invariant |
| | `ClcNoRace`, `ClcOutput` | `NoDataRace`, `StoresInheritedTiles` |
| | `ResponseRead` | `ResponseReadByAll` (action property) |
| V0, V0.5 | `SingleInvariant` | the inductive invariant: the pipeline's, through the mapping |
| | `SingleSafe` | `SyncsSuffice` |
| Direct GEMM | `CuteInvariant`, `CuteStageProtected` | the inductive invariant; `StageProtected` |
| Plans | `PlanInvariant` | the inductive invariant |
| | `PlanOwnership`, `PlanAllOrNothing`, `PlanKernelMemory` | `Ownership`, `AllOrNothing`, `KernelMemoryLives` |
| Probe | `TypeCorrect` | `TypeOK` |
| | `EachTileOnce`, `ChecksumsStatic` | `VisitedExactlyOnce`, `StaticChecksums` |
| Planner | `PlannerInvariant` | the inductive invariant |
| | `RowsOnce`, `PaddingSafe`, `SplitBest` | `EveryRowOnce`, `PaddingHarmless`, `SplitIsBest` |
| CPU scheduler | `StaticAssignment`, `DynamicQueueBound` | `StaticIsGridStride`, `GreedyBound` |
| | `WorkListsAgree` | `SameWorkList` |
| Dispatch | `AutoDispatch` | `AutoLaunchFits` |
| Harness | `HarnessInvariant` | the inductive invariant |
| | `OnlyVerifiedReported`, `TimingsWhole` | `ReportsOnlyVerified`, `TimedWorkIsWhole` |

Assumptions, all named in the modules that declare the constants:

* `QueueAssumption`: what `validate` and `build_kernel` enforce.
* `WidthAssumption`, `TileCount + ClaimSize * (Cardinality(CTAs) + 1) =< MaxInt + 1`,
  which the code does not check: the heads fit their type when every lane has
  overshot once. No realistic launch comes near it.
* `RoleAssumption`: the writeback has a leader, finitely many threads, and they are
  not the two lanes. `PipelineAssumption`: `KTiles` and `PipeDepth` are positive,
  tiles are natural numbers. `KernelAssumption` (AtomicKernel): the pipeline works on
  the queue's list. `StaticAssumption`, `SingleWgAssumption`, `ClcAssumption`:
  the same for the other kernels.
* `CuteAssumption`, and `PlanAssumption`, which says there are addresses enough for
  what the plans may hold at once (an allocation that fails is a step of its own).
* `ProbeAssumption`: what `launch_scheduler_probe` enforces, the number of threads being a
  power of two that a block allows (the code has 256). `ProbeWidthAssumption`, which the code does not check, is
  `WidthAssumption` for the probe's unsigned counter.
* `RoutingAssumption`, `DispatchAssumption`, `RunnerAssumption`, `HostAssumption`: what the
  specs' constructors and `_parser` enforce. There is at least one expert, widths are
  positive, counts, warm-up and iterations are natural numbers. `CpuAssumption`: rounding
  a count or a width up to whole tiles does not wrap the C++ program's word.

### The arguments

*Queue.* The invariant is `TypeOK /\ QueueInv`, with `QueueInv` in three parts.
`Partition`: every tile is unclaimed, in exactly one lane's chunk, or visited once.
This alone gives `NoTileTwice`, but is not inductive: a claim keeps it only if
the head it takes from has not wrapped. `HeadBounds`: a head is past its
region by at most one claim for each lane that has overshot it, so with
`WidthAssumption` no add wraps; it is inductive only if a lane overshoots each
head once. `LaneInv`: what each label remembers. A lane at "claim" has not left
the main region, one with `using_tail` set never returns, and one about to
publish past the end has seen everything claimed. This closes the circle and gives
`NoTileSkipped`. `WorkQueue`'s pool is mapped to `Unclaimed`, a lane's hand to its
chunk; an empty claim is a stutter.

*Mailbox.* Nothing in `AtomicMailbox` but parities tells generations apart, so the
invariant counts them: deposits, announced and awaited slots, and for each role the
generations waited for, read and released. Every barrier and cursor holds the parity of
one count (`ParityInv`), no role is more than one generation behind and none ahead
(`CountInv`), and so a parity that matches means a count that matches. The slot's
content in terms of the counts (`ContentInv`) then gives the properties.

*Pipeline.* `PipelineProofs` applies the same idea to four barrier families. K steps are
counted through all tiles of the CTA: step `i` uses stage `i % PipeDepth` in turn
`i \div PipeDepth`, whose parity the barriers hold, whatever `KTiles` is. `WindowInv`
orders the counts and says that they are at most `PipeDepth` apart; it follows from the
parities and they from it, and neither is inductive alone. `FullInv`, `EmptyInv` and
`AccInv` give the exact value of every barrier, bytes in flight and pending arrivals
included, from the counts; `SmemInv`, `TensorInv`, `TmemInv` and `WritebackInv` say what
each buffer holds. The pipeline does not know how roles come by their tiles. All it
asks is `SameTiles`: the writeback gets the tiles the loader gets, in order, and no
role ends its loop a tile before another. `PipeSafe` derives `NoDataRace` and
`OutputCorrect`, and `KeptInv` (a tile whose writeback is past its store is in `D`)
the three properties of exit.

*Kernels.* Each proves `SameTiles` from its own acquisition. V1 and V6: the n-th tile
is a function of n (`StaticInv`). V2-V4: a role's n-th tile is the lane's n-th deposit,
by the mailbox's invariant, which holds because the composed kernel implements the
mailbox step by step (`GlueInv`). V5: responses are counted like generations, though
the loader reads one after its tile and the others before (`Asked`, `Read`, `Heard`,
`Arrived`), so the n-th coordinate is the n-th inherited one.

*Single warpgroup.* `SingleWgProofs` gives V0 and V0.5 the pipeline's invariant by a
refinement mapping into it, `P`. While the elected lane is in its K loop, the leader is
seen to wait for the accumulator (`MapAt`), and the two lanes leave their loops when it
leaves its own. The release barrier these kernels lack is imagined: `MapBar` and
`MapCursor` are what `ld2mma` and the MMA lane's cursor would hold if each thread
arrived as soon as its `tcgen05.ld` has returned. Most steps are then a step of the pipeline.
Three are several of its steps at once, for which `PipelineProofs` has lemmas of their
own: the leader's next tile (`BeginTogether`: three roles begin it, and the
accumulator is acquired), a thread's load (`ReadAtOnce`: load and release), and the
leader's exit (`EndLoops`). That the accumulator may be acquired without a wait is the
point of the proof: the leader is back at "next", its second sync passed, so every
thread has brought its row past the first sync and hence released.
`LaneInv` says how far the lanes may be from the leader, `StrideInv` gives `SameTiles`.

*Direct GEMM.* Where warp 0 stands in its K loop determines stage, queue, accumulator
and both barriers. The other warps only watch: the invariant says of them that
no warp has passed a phase that had not completed, which is all that an
overtaken warp still has, and enough for `StageProtected`.

*Plans.* Ownership is stated of the heap alone (`PtrInv`): the non-null pointers of all
Impls and the allocated blocks correspond one to one, and an Impl no plan holds has
no pointer. Then each action's effect is a set, a clear, or neither, of pointers.
That no pointer is overwritten needs how far `initialize()` has got (`Built`): the steps
still to come find their pointers null, those of an array that are done left one. A lemma
about the list of external calls (`ProgramFacts`) says that each pointer is allocated
once and set-up comes last.

*Probe.* Either schedule is a count: a static CTA has visited its stride up to
`tileId`, the dynamic CTAs' claims partition what is below `nextTile`. A tile is
visited twice only if two of these sets meet. For the checksums, `__syncthreads` keeps
the threads of a CTA on one tile and in one round of the halving loop, and what a
slot holds is known from the round and from whether its thread has run: the
contributions of all threads congruent to it modulo the number of slots left. A slot
that one thread of a round writes no other thread of it uses, which is what the
barriers are there for, and after the last round slot 0 holds one contribution of
each thread.

*Planner.* The invariant is about a prefix: after `e` experts the buckets are what the
split makes of those experts. `RowsOnce` and `PaddingSafe` follow from where
the tiles of one expert lie, one after the other from a multiple of their height on.
A flattening is taken apart one block at a time, from the end. Its sums are rewritten
as sums over sets of indices, whose laws `Sums` proves. The library's induction theorems
cannot be used here, so a set or a number for which such a law fails is taken to be a
least one, and from it a smaller one is made for which it fails too.

*CPU scheduler.* Of the ideal queue the invariant says that no CTA is ahead of another by
more than a tile that has been dealt, which is what dealing to the first available
CTA maintains; the mean is between the extremes, which is the bound
(`GreedyInv`). The static order is a permutation of the experts in which each is at
least as heavy as the next. The list it gives is hence a permutation of the work list,
and dealing the `j`-th tile to CTA `j % CtaCount` keeps the CTAs' lists within one tile
of each other (`StrideInv`). The two languages' work lists agree expert by expert,
after a conversion of the tile's record that loses nothing below the wrap.

*Harness.* The host's calls are made in one fixed order (a prelude, the warm-ups,
the timed iterations), of which `program` is what is left, `trace` what has been
executed and `stream` what lies between (`Progress`). Every launch in it follows a reset
of its heads (`Guarded`), and nothing between the two uses them, so a launch finds
them at zero and does its whole work list. `D` holds what the launches since the last
zeroing store (`LaunchesStored`). Since the prelude zeroes it before the verified
launch, the comparison finds every row, whatever may be wrong with the numbers.

### Not proved, and why

* Liveness (`AllWorkDone`, `EveryRoleStops`, `StrideCompleted`, `KernelCompletes`,
  `InheritanceCompleted`, `GridCompleted`, `ProbeEnds`, `EndsInStep`) and fairness in the
  refinement of `WorkQueue`: the prover handles neither `ENABLED` nor fairness.
  `StrideStored` and the last conjuncts of `StoresClaimedTiles` and `StoresInheritedTiles`
  are their safety halves: whoever gets to the exit has done all the work.
* The two violated properties are findings (section 4).

Every invariant that a passing run checks is stated by a theorem.

## 6. Not modelled, and why

* TVM's `ClusterLaunchControlScheduler`, and the other CTAs of V5: external; what
  is assumed of them is in section 2. That a coordinate goes to one CTA only is the
  hardware's promise and not a result.
* Dispatch features that only go into the report; the rounding of the floats the
  rules compare.
* Numbers: the comparison's tolerances, medians, CSV. The check that a GPU is there.
* Workload generators: random sampling is any vector of counts in `Routing`.
* Floating-point metrics of the CPU scheduler.
* Host argument checks of the probe and of the direct GEMM: early returns that
  change nothing.
* The device code inside CUTLASS.
* Benchmarks and shell drivers: pure I/O.
* The wrap of the C++ tile count near 2^32 tokens: excluded by `CpuAssumption`.

## 7. Plan

The order in which the development was planned, most important first:

1. `WorkQueue`, `AtomicQueue` and their theorems (done).
2. `MBarrier`, `AtomicMailbox`; `MathPipeline`, `StaticKernel`; their composition
   `AtomicKernel` (done).
3. `SchedulerProbe`, `DirectCute`, `SingleWg`, `GemmPlan` (done).
4. `HostClaims`, `Routing`, `Planner`, `CpuScheduler`, `HostPlanning` (done).
5. `ClcKernel` (done). `WorkQueue` is not its abstraction: a V5 CTA may retire with
   coordinates left in the pool, which the hardware then launches.
6. `Dispatch`, `Runner` and the command line above the planner (done).
7. Proofs: the queue, the mailbox, the pipeline with the four kernel families built
   on it, the direct GEMM, the plans, the probe, and all of the host (done, section 5).
