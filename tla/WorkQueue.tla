------------------------------ MODULE WorkQueue ------------------------------
(***************************************************************************)
(* What every tile scheduler of the repository promises, whatever way it   *)
(* acquires work: each tile of the worklist is claimed by one worker, is   *)
(* run by that worker once, and a worker retires only when nothing is left *)
(* to claim.  The atomic queue of V2-V4 (AtomicQueue) implements it.       *)
(***************************************************************************)
EXTENDS Naturals

CONSTANTS
  Workers,    \* the CTAs of one launch
  Tiles       \* the compact worklist's indices

VARIABLES
  pool,       \* tiles nobody has claimed yet
  held,       \* held[w]: tiles w has claimed and not yet run
  ran,        \* tiles that have been run
  retired     \* workers that have left their loop

vars == <<pool, held, ran, retired>>

TypeOK ==
  /\ pool \subseteq Tiles
  /\ held \in [Workers -> SUBSET Tiles]
  /\ ran \subseteq Tiles
  /\ retired \subseteq Workers

Init ==
  /\ pool = Tiles
  /\ held = [w \in Workers |-> {}]
  /\ ran = {}
  /\ retired = {}

\* A worker with nothing in hand takes a non-empty batch out of the pool.
Claim(w) ==
  /\ w \notin retired
  /\ held[w] = {}
  /\ \E batch \in (SUBSET pool) \ {{}} :
       /\ pool' = pool \ batch
       /\ held' = [held EXCEPT ![w] = batch]
  /\ UNCHANGED <<ran, retired>>

\* A worker runs one of the tiles it holds.
Run(w) ==
  /\ \E t \in held[w] :
       /\ held' = [held EXCEPT ![w] = @ \ {t}]
       /\ ran' = ran \cup {t}
  /\ UNCHANGED <<pool, retired>>

\* A worker retires when it holds nothing and there is nothing to claim.
Retire(w) ==
  /\ w \notin retired
  /\ pool = {}
  /\ held[w] = {}
  /\ retired' = retired \cup {w}
  /\ UNCHANGED <<pool, held, ran>>

Step(w) == Claim(w) \/ Run(w) \/ Retire(w)

Next == \E w \in Workers : Step(w)

\* No worker is left behind by the machine.
Fairness == \A w \in Workers : WF_vars(Step(w))

SafeSpec == Init /\ [][Next]_vars
Spec == SafeSpec /\ Fairness
=============================================================================
