---------------------------- MODULE SchedulerProbe ----------------------------
(***************************************************************************)
(* The CUDA scheduler probe: static_persistent_probe and                   *)
(* dynamic_queue_probe, thread by thread, with the __syncthreads barriers  *)
(* between them.  Shared memory is read and written in single steps, so a  *)
(* value that is written while another thread may still have to read it    *)
(* shows here as it does on the device.                                    *)
(*                                                                         *)
(* A thread's contribution to a tile's checksum is the pair of the two; a  *)
(* reduction slot holds the set of contributions XORed into it.            *)
(***************************************************************************)
EXTENDS Integers, FiniteSets, Folds, FiniteSetsExt

CONSTANTS
  Kinds,        \* the kernels to model: "static", "dynamic"
  CtaCount,     \* gridDim.x
  NumThreads,   \* kThreads, a power of two of at most a block's 1024
  TileCount,
  ClaimSize,
  UintRange     \* 2^32: range of the queue's and the claims' type

PowersOfTwo == {1, 2, 4, 8, 16, 32, 64, 128, 256, 512, 1024}

ASSUME ProbeAssumption ==
  /\ Kinds \subseteq {"static", "dynamic"}
  /\ \A n \in {CtaCount, TileCount, ClaimSize} : n \in Nat \ {0}
  /\ NumThreads \in PowersOfTwo
  /\ UintRange \in Nat \ {0}

\* What the code does not check: each CTA claims once past the last tile, and the
\* counter must still fit its type then, as must a static CTA's last tile_id.
ASSUME ProbeWidthAssumption ==
  TileCount + ClaimSize * (CtaCount + 1) =< UintRange

VARIABLES
  kind,             \* which kernel has been launched
  nextTile,         \* args.next_tile, in global memory
  claimedBegin,     \* shared memory of each CTA
  claimedEnd,
  reduction,        \* reduction[c][i]: shared slot i of CTA c
  pc, tileId, offset,   \* of each thread <<c, i>>
  localTiles,       \* local_tiles of each CTA's thread 0
  visits,           \* args.tile_visits
  checksums,        \* args.tile_checksums, {} until written
  ctaTiles          \* args.cta_tile_counts, -1 until written

sharedVars == <<claimedBegin, claimedEnd>>
resultVars == <<localTiles, visits, checksums, ctaTiles>>
vars == <<kind, nextTile, sharedVars, reduction, pc, tileId, offset, resultVars>>

Ctas == 0 .. CtaCount - 1
Tids == 0 .. NumThreads - 1
Tiles == 0 .. TileCount - 1
ThreadIds == Ctas \X Tids
Barriers == {"claimed", "deposited", "reduced", "published"}
Unset == -1

Init ==
  /\ kind \in Kinds
  /\ nextTile = 0
  /\ claimedBegin = [c \in Ctas |-> 0]
  /\ claimedEnd = [c \in Ctas |-> 0]
  /\ reduction = [c \in Ctas |-> [i \in Tids |-> {}]]
  /\ pc = [th \in ThreadIds |-> IF kind = "static" THEN "loop" ELSE "claim"]
  /\ tileId = [th \in ThreadIds |-> th[1]]
  /\ offset = [th \in ThreadIds |-> 0]
  /\ localTiles = [c \in Ctas |-> 0]
  /\ visits = [t \in Tiles |-> 0]
  /\ checksums = [t \in Tiles |-> {}]
  /\ ctaTiles = [c \in Ctas |-> Unset]

Goto(c, i, label) == pc' = [pc EXCEPT ![<<c, i>>] = label]
Label(c, i) == pc[<<c, i>>]
Smaller(a, b) == IF a < b THEN a ELSE b
Xor(S, T) == (S \ T) \cup (T \ S)

------------------------------------------------------------------------------
(* dynamic_queue_probe: claiming                                           *)

\* Faulty: a claim moves the queue on by one tile.
ClaimBeginByOne(c) ==
  /\ Label(c, 0) = "claim"
  /\ claimedBegin' = [claimedBegin EXCEPT ![c] = nextTile]
  /\ nextTile' = (nextTile + 1) % UintRange
  /\ Goto(c, 0, "clamp")
  /\ UNCHANGED <<kind, claimedEnd, reduction, tileId, offset, resultVars>>

\* Thread 0 claims; its atomicAdd returns the first tile of the claim.
ClaimBegin(c) ==
  /\ Label(c, 0) = "claim"
  /\ claimedBegin' = [claimedBegin EXCEPT ![c] = nextTile]
  /\ nextTile' = (nextTile + ClaimSize) % UintRange
  /\ Goto(c, 0, "clamp")
  /\ UNCHANGED <<kind, claimedEnd, reduction, tileId, offset, resultVars>>

ClaimEnd(c) ==
  /\ Label(c, 0) = "clamp"
  /\ claimedEnd' = [claimedEnd EXCEPT
       ![c] = Smaller((claimedBegin[c] + ClaimSize) % UintRange, TileCount)]
  /\ Goto(c, 0, "claimed")
  /\ UNCHANGED <<kind, nextTile, claimedBegin, reduction, tileId, offset, resultVars>>

\* The other threads go straight to the barrier after the claim.
SkipClaim(c, i) ==
  /\ i # 0 /\ Label(c, i) = "claim"
  /\ Goto(c, i, "claimed")
  /\ UNCHANGED <<kind, nextTile, sharedVars, reduction, tileId, offset, resultVars>>

\* Faulty: only the claiming thread looks whether the claim is past the end.
ReadClaimAlone(c, i) ==
  /\ Label(c, i) = "test"
  /\ IF i = 0 /\ claimedBegin[c] >= TileCount
     THEN Goto(c, i, "finish") /\ UNCHANGED tileId
     ELSE Goto(c, i, "loop") /\ tileId' = [tileId EXCEPT ![<<c, i>>] = claimedBegin[c]]
  /\ UNCHANGED <<kind, nextTile, sharedVars, reduction, offset, resultVars>>

\* Every thread looks at the claim: leave the loop, or start on its first tile.
ReadClaim(c, i) ==
  /\ Label(c, i) = "test"
  /\ IF claimedBegin[c] >= TileCount
     THEN Goto(c, i, "finish") /\ UNCHANGED tileId
     ELSE Goto(c, i, "loop") /\ tileId' = [tileId EXCEPT ![<<c, i>>] = claimedBegin[c]]
  /\ UNCHANGED <<kind, nextTile, sharedVars, reduction, offset, resultVars>>

\* The loop over tiles.  In the dynamic kernel each thread compares with the end
\* of the claim as shared memory holds it at that moment.
LoopTest(c, i) ==
  /\ Label(c, i) = "loop"
  /\ IF kind = "static"
     THEN Goto(c, i, IF tileId[<<c, i>>] < TileCount THEN "deposit" ELSE "finish")
     ELSE Goto(c, i, IF tileId[<<c, i>>] < claimedEnd[c] THEN "deposit" ELSE "claim")
  /\ UNCHANGED <<kind, nextTile, sharedVars, reduction, tileId, offset, resultVars>>

------------------------------------------------------------------------------
(* process_tile                                                            *)

\* Faulty: no barrier between the deposit and the first round of the reduction.
DepositUnsynced(c, i) ==
  /\ Label(c, i) = "deposit"
  /\ reduction' = [reduction EXCEPT ![c][i] = {<<tileId[<<c, i>>], i>>}]
  /\ offset' = [offset EXCEPT ![<<c, i>>] = NumThreads \div 2]
  /\ Goto(c, i, "reduce")
  /\ UNCHANGED <<kind, nextTile, sharedVars, tileId, resultVars>>

Deposit(c, i) ==
  /\ Label(c, i) = "deposit"
  /\ reduction' = [reduction EXCEPT ![c][i] = {<<tileId[<<c, i>>], i>>}]
  /\ offset' = [offset EXCEPT ![<<c, i>>] = NumThreads \div 2]
  /\ Goto(c, i, "deposited")
  /\ UNCHANGED <<kind, nextTile, sharedVars, tileId, resultVars>>

\* One halving round of the reduction, up to its barrier.
ReduceRound(c, i) ==
  LET o == offset[<<c, i>>] IN
  /\ Label(c, i) = "reduce"
  /\ reduction' =
       IF i < o
       THEN [reduction EXCEPT ![c][i] = Xor(@, reduction[c][i + o])]
       ELSE reduction
  /\ offset' = [offset EXCEPT ![<<c, i>>] = o \div 2]
  /\ Goto(c, i, "reduced")
  /\ UNCHANGED <<kind, nextTile, sharedVars, tileId, resultVars>>

\* Thread 0 reports the tile; the others go to the last barrier.
PublishTile(c, i) ==
  LET t == tileId[<<c, i>>] IN
  /\ Label(c, i) = "publish"
  /\ IF i = 0
     THEN /\ visits' = [visits EXCEPT ![t] = @ + 1]
          /\ checksums' = [checksums EXCEPT ![t] = reduction[c][0]]
          /\ localTiles' = [localTiles EXCEPT ![c] = @ + 1]
     ELSE UNCHANGED <<visits, checksums, localTiles>>
  /\ Goto(c, i, "published")
  /\ UNCHANGED <<kind, nextTile, sharedVars, reduction, tileId, offset, ctaTiles>>

\* __syncthreads: every thread of the CTA that has not exited is at a barrier.
\* The hardware counts arrivals; it does not compare which call they come from.
AfterBarrier(c, i) ==
  CASE Label(c, i) = "claimed" -> "test"
    [] Label(c, i) \in {"deposited", "reduced"} ->
         IF offset[<<c, i>>] > 0 THEN "reduce" ELSE "publish"
    [] Label(c, i) = "published" -> "loop"
    [] OTHER -> Label(c, i)

SyncThreads(c) ==
  /\ \E i \in Tids : Label(c, i) \in Barriers
  /\ \A i \in Tids : Label(c, i) \in Barriers \cup {"exited"}
  /\ pc' = [th \in ThreadIds |-> IF th[1] = c THEN AfterBarrier(c, th[2]) ELSE pc[th]]
  /\ tileId' = [th \in ThreadIds |->
       IF th[1] = c /\ pc[th] = "published"
       THEN tileId[th] + (IF kind = "static" THEN CtaCount ELSE 1)
       ELSE tileId[th]]
  /\ UNCHANGED <<kind, nextTile, sharedVars, reduction, offset, resultVars>>

Finish(c, i) ==
  /\ Label(c, i) = "finish"
  /\ ctaTiles' = IF i = 0 THEN [ctaTiles EXCEPT ![c] = localTiles[c]] ELSE ctaTiles
  /\ Goto(c, i, "exited")
  /\ UNCHANGED <<kind, nextTile, sharedVars, reduction, tileId, offset, localTiles,
                 visits, checksums>>

------------------------------------------------------------------------------

Thread(c, i) ==
  \/ i = 0 /\ (ClaimBegin(c) \/ ClaimEnd(c))
  \/ SkipClaim(c, i) \/ ReadClaim(c, i) \/ LoopTest(c, i)
  \/ Deposit(c, i) \/ ReduceRound(c, i) \/ PublishTile(c, i) \/ Finish(c, i)

AllExited == \A th \in ThreadIds : pc[th] = "exited"
Finished == AllExited /\ UNCHANGED vars

Next ==
  \/ \E c \in Ctas : SyncThreads(c) \/ \E i \in Tids : Thread(c, i)
  \/ Finished

\* Every thread of a resident CTA is scheduled, and a full barrier opens.
Fairness ==
  \A c \in Ctas : WF_vars(SyncThreads(c)) /\ \A i \in Tids : WF_vars(Thread(c, i))

Spec == Init /\ [][Next]_vars /\ Fairness

------------------------------------------------------------------------------
(* Properties                                                              *)

\* Every tile is visited at most once while the probe runs and exactly once when it
\* ends, and the CTAs' own counters add up to the number of tiles: what the GPU
\* test requires of both kernels.
VisitedExactlyOnce ==
  /\ \A t \in Tiles : visits[t] =< 1
  /\ AllExited =>
       /\ \A t \in Tiles : visits[t] = 1
       /\ MapThenSumSet(LAMBDA c : ctaTiles[c], Ctas) = TileCount

\* The probe ends: no thread is left behind at a barrier the others have passed.
ProbeEnds == <>AllExited

\* The checksum of a tile is the reduction of that tile's work, one contribution
\* from each thread: the deterministic work the comment on process_tile promises.
ChecksumOwnTile ==
  \A t \in Tiles : checksums[t] # {} => checksums[t] = {<<t, i>> : i \in Tids}

\* In the static kernel nothing is shared but the reduction, whose barriers do
\* keep one tile's slots apart from the next one's.
StaticChecksums == kind = "static" => ChecksumOwnTile
=============================================================================
