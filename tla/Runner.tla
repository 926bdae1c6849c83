------------------------------- MODULE Runner -------------------------------
(***************************************************************************)
(* The benchmark harness: a host program that enqueues memory operations,  *)
(* launches and timing events on one CUDA stream, the device that executes *)
(* them in order behind its back, and the points where the host waits.     *)
(* run_padding_aware_benchmark runs up to two kernels where run_benchmark  *)
(* runs one.                                                               *)
(*                                                                         *)
(* A launch of V2-V4 is abstracted to what AtomicQueue guarantees of it:   *)
(* it computes the tiles its heads have still to hand out, once each, and  *)
(* leaves the heads past their ends.                                       *)
(***************************************************************************)
EXTENDS Dispatch

CONSTANTS
  Kernels,      \* values of --kernel considered
  Warmup,       \* --warmup
  Iterations    \* values of --iterations considered

ASSUME RunnerAssumption ==
  /\ Kernels \subseteq CliKernels
  /\ Warmup \in Nat /\ Iterations \subseteq Nat

VARIABLES
  options,      \* the command line
  outcome,      \* "none", "running", "refused", "mismatch" or "reported"
  components,   \* the kernels to run: version, work list and tile height
  program,      \* the calls the host has still to make
  stream,       \* enqueued and not yet executed
  heads,        \* queue_heads on the device
  D,            \* the tiles stored since D was zeroed, where the device puts them
  trace         \* history: what the device has executed, in order

runnerVars == <<outcome, components, program, stream, heads, D, trace>>

Options == [kernel : Kernels, iterations : Iterations, correctnessOnly : BOOLEAN]

RunnerInit ==
  /\ outcome = "none" /\ components = <<>> /\ program = <<>> /\ stream = <<>>
  /\ heads = <<0, 0>> /\ D = {} /\ trace = <<>>

Component(version, tiles) == [version |-> version, tiles |-> tiles, tileM |-> TileM(version)]

\* A bucket is launched unless it is empty.
BucketLaunch(version, tiles) ==
  IF tiles = <<>> THEN <<>> ELSE <<Component(version, tiles)>>

\* The version to run and its plan, or the two buckets.
Chosen ==
  IF options.kernel = "v6_padding_aware"
  THEN BucketLaunch("v1_static_ws", large) \o BucketLaunch("v6_small_m_ws", small)
  ELSE LET plan == BuildWorkloadPlan(TileM(options.kernel))
       IN <<Component(IF options.kernel = "auto" THEN SelectKernel(Len(plan))
                      ELSE options.kernel, plan)>>

\* Faulty: the harness leaves it to the builders to refuse an empty plan.
RefusedByBuilder == \/ options.iterations = 0
                    \/ \E i \in DOMAIN Chosen : Chosen[i].tiles = <<>>

\* iterations <= 0, launch_count == 0, or a builder that is given no tile.
Refused == \/ options.iterations = 0
           \/ Chosen = <<>>
           \/ \E i \in DOMAIN Chosen : Chosen[i].tiles = <<>>

------------------------------------------------------------------------------
(* The host program                                                        *)

Call(op, i) == <<op, i>>

HasQueue(c) == c.version \in QueueVersions

\* copy_ of queue_initial to queue_heads, for the versions that have a queue.
ResetHeads(cs) ==
  IF \E i \in DOMAIN cs : HasQueue(cs[i]) THEN <<Call("reset", 1)>> ELSE <<>>

InvokeAll(cs) == [i \in DOMAIN cs |-> Call("launch", i)]

Repeat(times, Body(_)) == FlattenSeq([i \in 1 .. times |-> Body(i)])

CheckCorrectness(cs) ==
  <<Call("zero", 1)>> \o ResetHeads(cs) \o InvokeAll(cs)
    \o <<Call("synchronize", 1), Call("compare", 1)>>

WarmUp(cs) ==
  Repeat(Warmup, LAMBDA i : ResetHeads(cs) \o InvokeAll(cs)) \o <<Call("synchronize", 1)>>

\* Faulty: the heads are not reset between the timed launches.
TimeUnreset(cs) ==
  Repeat(options.iterations,
         LAMBDA i : <<Call("start", i)>> \o InvokeAll(cs) \o <<Call("end", i)>>)
    \o <<Call("synchronize", 1)>>

Time(cs) ==
  Repeat(options.iterations,
         LAMBDA i : ResetHeads(cs) \o <<Call("start", i)>> \o InvokeAll(cs)
                      \o <<Call("end", i)>>)
    \o <<Call("synchronize", 1)>>

\* Arguments checked, kernels compiled, tensors and heads allocated.
Begin ==
  /\ outcome = "none"
  /\ IF Refused
     THEN outcome' = "refused" /\ UNCHANGED <<components, program, heads>>
     ELSE /\ outcome' = "running"
          /\ components' = Chosen
          /\ program' = CheckCorrectness(Chosen)
                          \o (IF options.correctnessOnly THEN <<>>
                              ELSE WarmUp(Chosen) \o Time(Chosen))
          /\ heads' = IF ResetHeads(Chosen) = <<>> THEN heads
                      ELSE QueueInitial(Chosen[1].version, Len(Chosen[1].tiles))
  /\ UNCHANGED <<stream, D, trace>>

HostAt(op) == outcome = "running" /\ program # <<>> /\ Head(program)[1] = op

\* The host does not wait for what it enqueues.
Enqueue ==
  /\ \E op \in {"zero", "reset", "launch", "start", "end"} : HostAt(op)
  /\ stream' = Append(stream, Head(program))
  /\ program' = Tail(program)
  /\ UNCHANGED <<outcome, components, heads, D, trace>>

Synchronize ==
  /\ HostAt("synchronize")
  /\ stream = <<>>
  /\ program' = Tail(program)
  /\ UNCHANGED <<outcome, components, stream, heads, D, trace>>

\* The rows of D that some stored tile covers, in one column.
StoredRows(e, col) ==
  UNION {x.first .. x.first + x.rows - 1 : x \in {y \in D : y.expert = e /\ y.n = col}}

\* assert_close over the routed rows of each expert that has any.
Compare ==
  /\ HostAt("compare")
  /\ program' = Tail(program)
  /\ outcome' = IF \A e \in ExpertIds, col \in Columns :
                     0 .. counts[e] - 1 \subseteq StoredRows(e, col)
                THEN outcome ELSE "mismatch"
  /\ UNCHANGED <<components, stream, heads, D, trace>>

\* elapsed_time of each pair of events, statistics, BenchmarkResult.
Report ==
  /\ outcome = "running" /\ program = <<>>
  /\ outcome' = "reported"
  /\ UNCHANGED <<components, program, stream, heads, D, trace>>

------------------------------------------------------------------------------
(* The device                                                              *)

\* How often a launch computes each tile of its work list.
Runs(c) ==
  LET tileCount == Len(c.tiles)
      main == heads[1] .. MainEnd(c.version, tileCount) - 1
      tail == IF c.version = "v4_hybrid" THEN heads[2] .. tileCount - 1 ELSE {}
      Once(claimed, t) == IF t \in claimed THEN 1 ELSE 0
  IN [t \in 0 .. tileCount - 1 |->
        IF HasQueue(c) THEN Once(main, t) + Once(tail, t) ELSE 1]

ExecuteLaunch(c) ==
  /\ D' = D \cup {x \in Placed(c.tiles, c.tileM) : Runs(c)[x.at - 1] > 0}
  /\ heads' = IF HasQueue(c) THEN <<Len(c.tiles), Len(c.tiles)>> ELSE heads
  /\ trace' = Append(trace, [call |-> Head(stream), runs |-> Runs(c)])

\* The stream's oldest operation completes.
Execute ==
  /\ stream # <<>>
  /\ stream' = Tail(stream)
  /\ LET op == Head(stream)[1]
         c == components[Head(stream)[2]]
     IN IF op = "launch" THEN ExecuteLaunch(c)
        ELSE /\ D' = IF op = "zero" THEN {} ELSE D
             /\ heads' = IF op = "reset" THEN QueueInitial(c.version, Len(c.tiles)) ELSE heads
             /\ trace' = Append(trace, [call |-> Head(stream), runs |-> <<>>])
  /\ UNCHANGED <<outcome, components, program>>

RunnerStep == Begin \/ Enqueue \/ Synchronize \/ Compare \/ Report \/ Execute
RunnerEnded == outcome \in {"refused", "mismatch", "reported"}

------------------------------------------------------------------------------
(* Properties                                                              *)

\* "CSV latency isolates in-kernel scheduling": every launch, also a timed one,
\* finds its whole work list to do and does it once, and what has happened between
\* the two events of a reported timing is the kernels of one iteration, no more and
\* no less.  A launch on the heads of the last one would be fast, and no later
\* check would notice.
TimedWorkIsWhole ==
  /\ \A j \in DOMAIN trace : \A t \in DOMAIN trace[j].runs : trace[j].runs[t] = 1
  /\ outcome = "reported" /\ ~options.correctnessOnly =>
       \A i \in 1 .. options.iterations : \E j \in DOMAIN trace :
         LET timed == <<Call("start", i)>> \o InvokeAll(components) \o <<Call("end", i)>>
         IN /\ j + Len(timed) - 1 =< Len(trace)
            /\ \A l \in DOMAIN timed : trace[j + l - 1].call = timed[l]

\* A result is reported of a run only that has computed something, all of which has
\* been compared: the comparison finds every routed row stored whichever kernels
\* the plan is divided between, and a routing that leaves nothing to compare is
\* refused and never passes for correct.
ReportsOnlyVerified ==
  /\ outcome # "mismatch"
  /\ outcome \in {"running", "reported"} => Rows > 0 /\ components # <<>>

\* Automatic dispatch never launches a CTA that is bound to find no tile, nor
\* selects a kernel whose builder refuses the plan when there is work to do.
AutoLaunchFits ==
  options.kernel = "auto" =>
    /\ outcome = "refused" => Rows = 0 \/ options.iterations = 0
    /\ \A i \in DOMAIN components :
         LET c == components[i] IN
         /\ LaunchCtas(c.version, Len(c.tiles)) =< Len(c.tiles)
         /\ c.tileM = LargeM
=============================================================================
