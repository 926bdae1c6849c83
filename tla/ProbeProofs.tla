----------------------------- MODULE ProbeProofs -----------------------------
(***************************************************************************)
(* Proofs about SchedulerProbe for every grid, block size, claim size and  *)
(* worklist within its assumptions: the invariant of the threads and their *)
(* barriers, then the tiles each CTA has visited as a count of each CTA's  *)
(* own, then the static kernel's halving reduction, in which all threads   *)
(* of a CTA are at the same tile and round.                                *)
(***************************************************************************)
EXTENDS SchedulerProbe, Sums

\* The thread that claims, reports and counts, and its tile_id.
At(c) == Label(c, 0)
First(c) == tileId[<<c, 0>>]

InTile == {"deposit", "deposited", "reduce", "reduced", "publish"}
Labels == InTile \cup {"claim", "clamp", "claimed", "test", "loop", "published", "finish", "exited"}

TypeOK ==
  /\ kind \in {"static", "dynamic"}
  /\ nextTile \in Nat
  /\ claimedBegin \in [Ctas -> Nat]
  /\ claimedEnd \in [Ctas -> Nat]
  /\ reduction \in [Ctas -> [Tids -> SUBSET (Nat \X Tids)]]
  /\ pc \in [ThreadIds -> Labels]
  /\ tileId \in [ThreadIds -> Nat]
  /\ offset \in [ThreadIds -> 0 .. NumThreads \div 2]
  /\ localTiles \in [Ctas -> Nat]
  /\ visits \in [Tiles -> Nat]
  /\ checksums \in [Tiles -> SUBSET (Nat \X Tids)]
  /\ ctaTiles \in [Ctas -> Nat \cup {Unset}]

------------------------------------------------------------------------------

LEMMA ConstantFacts ==
  /\ CtaCount \in Nat /\ CtaCount > 0 /\ TileCount \in Nat /\ TileCount > 0
  /\ ClaimSize \in Nat /\ ClaimSize > 0 /\ NumThreads \in Nat /\ NumThreads > 0
  /\ UintRange \in Nat /\ UintRange > 0 /\ 0 \in Tids
<1>1. CtaCount \in Nat \ {0} /\ TileCount \in Nat \ {0} /\ ClaimSize \in Nat \ {0}
      /\ UintRange \in Nat \ {0}
  BY ProbeAssumption
<1>2. NumThreads \in Nat \ {0}
  BY ProbeAssumption DEF PowersOfTwo
<1>. QED
  BY <1>1, <1>2 DEF Tids

\* Quotient and remainder.
LEMMA DivFacts ==
  ASSUME NEW a \in Nat, NEW b \in Nat, b > 0
  PROVE  /\ a % b \in 0 .. b - 1 /\ a \div b \in Nat
         /\ a = b * (a \div b) + (a % b)
OBVIOUS

LEMMA TypeOK_Init == Init => TypeOK
<1>. SUFFICES ASSUME Init PROVE TypeOK
  OBVIOUS
<1>1. kind \in {"static", "dynamic"}
  BY ProbeAssumption DEF Init
<1>2. \A th \in ThreadIds : th[1] \in Nat
  BY ConstantFacts DEF ThreadIds, Ctas, Tids
<1>. QED
  BY <1>1, <1>2, ConstantFacts, DivFacts DEF Init, TypeOK, Labels, Unset

LEMMA GotoType ==
  ASSUME TypeOK, NEW c \in Ctas, NEW i \in Tids, NEW l \in Labels, Goto(c, i, l)
  PROVE  pc' \in [ThreadIds -> Labels]
BY DEF TypeOK, Goto, ThreadIds

LEMMA TypeOK_Step ==
  ASSUME TypeOK, [Next]_vars
  PROVE  TypeOK'
<1>1. ASSUME NEW c \in Ctas, ClaimBegin(c) PROVE TypeOK'
  <2>1. nextTile' \in Nat
    BY <1>1, ConstantFacts DEF ClaimBegin, TypeOK
  <2>. QED
    BY <1>1, <2>1, GotoType, ConstantFacts DEF ClaimBegin, TypeOK, Labels, resultVars
<1>2. ASSUME NEW c \in Ctas, ClaimEnd(c) PROVE TypeOK'
  <2>1. Smaller((claimedBegin[c] + ClaimSize) % UintRange, TileCount) \in Nat
    BY ConstantFacts DEF Smaller, TypeOK
  <2>. QED
    BY <1>2, <2>1, GotoType, ConstantFacts DEF ClaimEnd, TypeOK, Labels, resultVars
<1>3. ASSUME NEW c \in Ctas, NEW i \in Tids, SkipClaim(c, i) PROVE TypeOK'
  BY <1>3, GotoType DEF SkipClaim, TypeOK, Labels, resultVars, sharedVars
<1>4. ASSUME NEW c \in Ctas, NEW i \in Tids, ReadClaim(c, i) PROVE TypeOK'
  BY <1>4, GotoType DEF ReadClaim, TypeOK, Labels, resultVars, sharedVars
<1>5. ASSUME NEW c \in Ctas, NEW i \in Tids, LoopTest(c, i) PROVE TypeOK'
  BY <1>5, GotoType DEF LoopTest, TypeOK, Labels, InTile, resultVars, sharedVars
<1>6. ASSUME NEW c \in Ctas, NEW i \in Tids, Deposit(c, i) PROVE TypeOK'
  <2>1. NumThreads \div 2 \in 0 .. NumThreads \div 2
    BY ConstantFacts
  <2>2. {<<tileId[<<c, i>>], i>>} \in SUBSET (Nat \X Tids)
    BY DEF TypeOK, ThreadIds
  <2>3. reduction' \in [Ctas -> [Tids -> SUBSET (Nat \X Tids)]]
    BY <1>6, <2>2 DEF Deposit, TypeOK
  <2>4. offset' \in [ThreadIds -> 0 .. NumThreads \div 2]
    BY <1>6, <2>1 DEF Deposit, TypeOK
  <2>. QED
    BY <1>6, <2>3, <2>4, GotoType DEF Deposit, TypeOK, Labels, InTile, resultVars, sharedVars
<1>7. ASSUME NEW c \in Ctas, NEW i \in Tids, ReduceRound(c, i) PROVE TypeOK'
  <2>. DEFINE o == offset[<<c, i>>]
  <2>1. o \in 0 .. NumThreads \div 2 /\ o \div 2 \in 0 .. NumThreads \div 2
        /\ (i < o => i + o \in Tids)
    <3>1. o \in 0 .. NumThreads \div 2
      BY DEF TypeOK, ThreadIds
    <3>2. i \in Nat
      BY DEF Tids
    <3>. HIDE DEF o
    <3>. QED
      BY <3>1, <3>2, ConstantFacts DEF Tids
  <2>2. reduction' \in [Ctas -> [Tids -> SUBSET (Nat \X Tids)]]
    <3>1. CASE i < o /\ i + o \in Tids
      <4>1. Xor(reduction[c][i], reduction[c][i + o]) \in SUBSET (Nat \X Tids)
        BY <3>1 DEF TypeOK, Xor
      <4>. QED
        BY <1>7, <3>1, <4>1 DEF ReduceRound, TypeOK
    <3>2. CASE ~(i < o)
      BY <1>7, <3>2 DEF ReduceRound, TypeOK
    <3>. QED
      BY <2>1, <3>1, <3>2
  <2>3. offset' \in [ThreadIds -> 0 .. NumThreads \div 2]
    BY <1>7, <2>1 DEF ReduceRound, TypeOK
  <2>. QED
    BY <1>7, <2>2, <2>3, GotoType DEF ReduceRound, TypeOK, Labels, InTile, resultVars, sharedVars
<1>8. ASSUME NEW c \in Ctas, NEW i \in Tids, PublishTile(c, i) PROVE TypeOK'
  <2>. DEFINE t == tileId[<<c, i>>]
  <2>1. visits' \in [Tiles -> Nat]
    <3>1. CASE i = 0
      <4>1. visits' = [visits EXCEPT ![t] = @ + 1]
        BY <1>8, <3>1 DEF PublishTile
      <4>. HIDE DEF t
      <4>2. DOMAIN visits = Tiles /\ \A x \in Tiles : visits[x] \in Nat
        BY DEF TypeOK
      <4>3. visits' = [x \in Tiles |-> IF x = t THEN visits[x] + 1 ELSE visits[x]]
        BY <4>1, <4>2
      <4>. QED
        BY <4>2, <4>3
    <3>2. CASE i # 0
      BY <1>8, <3>2 DEF PublishTile, TypeOK
    <3>. QED
      BY <3>1, <3>2
  <2>2. checksums' \in [Tiles -> SUBSET (Nat \X Tids)]
    <3>1. CASE i = 0
      <4>1. checksums' = [checksums EXCEPT ![t] = reduction[c][0]]
        BY <1>8, <3>1 DEF PublishTile
      <4>2. reduction[c][0] \in SUBSET (Nat \X Tids)
        BY ConstantFacts DEF TypeOK
      <4>. HIDE DEF t
      <4>. QED
        BY <4>1, <4>2 DEF TypeOK
    <3>2. CASE i # 0
      BY <1>8, <3>2 DEF PublishTile, TypeOK
    <3>. QED
      BY <3>1, <3>2
  <2>3. localTiles' \in [Ctas -> Nat]
    BY <1>8 DEF PublishTile, TypeOK
  <2>. QED
    BY <1>8, <2>1, <2>2, <2>3, GotoType DEF PublishTile, TypeOK, Labels, InTile, sharedVars
<1>9. ASSUME NEW c \in Ctas, SyncThreads(c) PROVE TypeOK'
  <2>1. \A i \in Tids : AfterBarrier(c, i) \in Labels
    BY DEF AfterBarrier, Label, TypeOK, ThreadIds, Labels, InTile
  <2>2. pc' \in [ThreadIds -> Labels]
    BY <1>9, <2>1 DEF SyncThreads, TypeOK, ThreadIds
  <2>3. tileId' \in [ThreadIds -> Nat]
    BY <1>9, ConstantFacts DEF SyncThreads, TypeOK
  <2>. QED
    BY <1>9, <2>2, <2>3 DEF SyncThreads, TypeOK, resultVars, sharedVars
<1>10. ASSUME NEW c \in Ctas, NEW i \in Tids, Finish(c, i) PROVE TypeOK'
  <2>1. ctaTiles' \in [Ctas -> Nat \cup {Unset}]
    BY <1>10 DEF Finish, TypeOK
  <2>. QED
    BY <1>10, <2>1, GotoType DEF Finish, TypeOK, Labels, sharedVars
<1>11. CASE UNCHANGED vars
  BY <1>11 DEF vars, TypeOK, resultVars, sharedVars
<1>. QED
  BY <1>1, <1>2, <1>3, <1>4, <1>5, <1>6, <1>7, <1>8, <1>9, <1>10, <1>11
     DEF Next, Thread, Finished

\* The types of all the probe's variables; in particular no thread reduces past the
\* end of the array.
THEOREM TypeCorrect == Spec => []TypeOK
BY TypeOK_Init, TypeOK_Step, PTL DEF Spec

------------------------------------------------------------------------------
(* The invariants                                                          *)

StaticLabels == InTile \cup {"loop", "published", "finish", "exited"}

\* The static kernel: a CTA has visited its tiles below its thread 0's tile_id, and
\* that tile when the thread has reported it.
Strides(c) ==
  /\ At(c) \in StaticLabels
  /\ First(c) % CtaCount = c
  /\ At(c) \in InTile \cup {"published"} => First(c) < TileCount
  /\ At(c) \in {"finish", "exited"} => First(c) >= TileCount
  /\ \A t \in Tiles : t % CtaCount = c =>
       visits[t] = IF t < First(c) \/ (t = First(c) /\ At(c) = "published") THEN 1 ELSE 0
StrideInv == \A c \in Ctas : Strides(c)

\* The dynamic kernel: a CTA owes the visits of the tiles of its claim which its
\* thread 0 has not come to yet.
Owes(c, t) ==
  \/ /\ At(c) \in {"clamp", "claimed", "test"}
     /\ claimedBegin[c] =< t /\ t < claimedBegin[c] + ClaimSize
  \/ /\ At(c) \in InTile \cup {"loop"}
     /\ First(c) =< t /\ t < claimedEnd[c]
  \/ /\ At(c) = "published"
     /\ First(c) < t /\ t < claimedEnd[c]

\* What a claim is, how far thread 0 has come with it, and when the CTA may leave.
ClaimFacts(c) ==
  /\ At(c) # "claim" => claimedBegin[c] + ClaimSize =< nextTile
  /\ At(c) \notin {"claim", "clamp"} =>
       claimedEnd[c] = Smaller(claimedBegin[c] + ClaimSize, TileCount)
  /\ At(c) \in InTile \cup {"loop", "published"} =>
       claimedBegin[c] < TileCount /\ claimedBegin[c] =< First(c)
  /\ At(c) \in InTile \cup {"published"} => First(c) < claimedEnd[c]
  /\ At(c) \in {"finish", "exited"} => claimedBegin[c] >= TileCount
ClaimInv == \A c \in Ctas : ClaimFacts(c)

\* CTAs whose last claim began past the last tile: the counter has overshot by no
\* more than one claim of each.
PastSet ==
  {c \in Ctas : /\ At(c) \in {"clamp", "claimed", "test", "finish", "exited"}
                /\ claimedBegin[c] >= TileCount}
CounterBound ==
  nextTile =< TileCount - 1 + ClaimSize + ClaimSize * Cardinality(PastSet)

\* Every tile is unclaimed, owed by one CTA, or visited once.
OwedOnce ==
  /\ \A t \in Tiles : visits[t] \in {0, 1}
  /\ \A t \in Tiles : visits[t] = 1 => t < nextTile /\ \A c \in Ctas : ~Owes(c, t)
  /\ \A t \in Tiles : t < nextTile /\ visits[t] = 0 => \E c \in Ctas : Owes(c, t)
  /\ \A t \in Tiles, c, d \in Ctas : Owes(c, t) /\ Owes(d, t) => c = d

ScheduleInv ==
  IF kind = "static" THEN StrideInv ELSE ClaimInv /\ CounterBound /\ OwedOnce

\* The CTAs' own counters and the visits grow together.
CountInv ==
  /\ MapThenSumSet(LAMBDA c : localTiles[c], Ctas) = MapThenSumSet(LAMBDA t : visits[t], Tiles)
  /\ \A c \in Ctas : At(c) = "exited" => ctaTiles[c] = localTiles[c]

\* What slot i holds once only m slots are left to reduce.
Group(m, t, i) == {<<t, j>> : j \in {k \in Tids : k % m = i}}

Depositing(c) ==
  \A i \in Tids :
    /\ Label(c, i) \in {"loop", "deposit", "deposited", "finish", "exited"}
    /\ Label(c, i) \in {"deposit", "deposited"} => First(c) < TileCount
    /\ Label(c, i) \in {"finish", "exited"} => First(c) >= TileCount
    /\ Label(c, i) = "deposited" =>
         /\ offset[<<c, i>>] = NumThreads \div 2
         /\ reduction[c][i] = Group(NumThreads, First(c), i)

\* The round that folds the slots from o on into those below.
Reducing(c, o) ==
  /\ First(c) < TileCount
  /\ \A i \in Tids :
       \/ Label(c, i) = "reduce" /\ offset[<<c, i>>] = o
       \/ Label(c, i) = "reduced" /\ offset[<<c, i>>] = o \div 2
  /\ \A i \in 0 .. 2 * o - 1 :
       reduction[c][i] = IF i < o /\ Label(c, i) = "reduced"
                         THEN Group(o, First(c), i) ELSE Group(2 * o, First(c), i)

Publishing(c) ==
  /\ First(c) < TileCount
  /\ \A i \in Tids : Label(c, i) \in {"publish", "published"}
  /\ reduction[c][0] = Group(1, First(c), 0)

\* The static kernel: the threads of a CTA are at the same tile, between the same
\* two barriers.
Locked(c) ==
  /\ \A i \in Tids : tileId[<<c, i>>] = First(c)
  /\ \/ Depositing(c)
     \/ \E o \in PowersOfTwo : 2 * o =< NumThreads /\ Reducing(c, o)
     \/ Publishing(c)
LockStep == kind = "static" => \A c \in Ctas : Locked(c)

------------------------------------------------------------------------------
(* What the schedule sees of a step: where the threads 0 are               *)

countVars == <<visits, localTiles>>
claimVars == <<nextTile, claimedBegin, claimedEnd>>

\* Thread 0 of c, and nobody else's, moves on to label l and tile f.
Moved(c, l, f) ==
  /\ At(c)' = l /\ First(c)' = f
  /\ \A d \in Ctas \ {c} : At(d)' = At(d) /\ First(d)' = First(d)
  /\ UNCHANGED kind

Still ==
  /\ \A d \in Ctas : At(d)' = At(d) /\ First(d)' = First(d)
  /\ UNCHANGED <<kind, claimVars, countVars, ctaTiles>>

Claims(c) ==
  /\ At(c) = "claim" /\ Moved(c, "clamp", First(c))
  /\ claimedBegin' = [claimedBegin EXCEPT ![c] = nextTile]
  /\ nextTile' = (nextTile + ClaimSize) % UintRange
  /\ UNCHANGED <<claimedEnd, countVars, ctaTiles>>

Clamps(c) ==
  /\ At(c) = "clamp" /\ Moved(c, "claimed", First(c))
  /\ claimedEnd' = [claimedEnd EXCEPT
       ![c] = Smaller((claimedBegin[c] + ClaimSize) % UintRange, TileCount)]
  /\ UNCHANGED <<nextTile, claimedBegin, countVars, ctaTiles>>

Stride == IF kind = "static" THEN CtaCount ELSE 1
Limit(c) == IF kind = "static" THEN TileCount ELSE claimedEnd[c]

Walks(c) ==
  /\ \/ At(c) = "claimed" /\ Moved(c, "test", First(c))
     \/ At(c) = "test" /\ claimedBegin[c] >= TileCount /\ Moved(c, "finish", First(c))
     \/ At(c) = "test" /\ claimedBegin[c] < TileCount /\ Moved(c, "loop", claimedBegin[c])
     \/ At(c) = "loop" /\ First(c) < Limit(c) /\ Moved(c, "deposit", First(c))
     \/ /\ At(c) = "loop" /\ First(c) >= Limit(c)
        /\ Moved(c, IF kind = "static" THEN "finish" ELSE "claim", First(c))
     \/ At(c) \in InTile /\ \E l \in InTile : Moved(c, l, First(c))
     \/ At(c) = "published" /\ Moved(c, "loop", First(c) + Stride)
  /\ UNCHANGED <<claimVars, countVars, ctaTiles>>

Reports(c) ==
  /\ At(c) = "publish" /\ Moved(c, "published", First(c))
  /\ visits' = [visits EXCEPT ![First(c)] = @ + 1]
  /\ localTiles' = [localTiles EXCEPT ![c] = @ + 1]
  /\ UNCHANGED <<claimVars, ctaTiles>>

Leaves(c) ==
  /\ At(c) = "finish" /\ Moved(c, "exited", First(c))
  /\ ctaTiles' = [ctaTiles EXCEPT ![c] = localTiles[c]]
  /\ UNCHANGED <<claimVars, countVars>>

LEMMA GotoMoves ==
  ASSUME TypeOK, NEW c \in Ctas, NEW i \in Tids, NEW l, Goto(c, i, l), UNCHANGED tileId,
         UNCHANGED kind
  PROVE  /\ i = 0 => Moved(c, l, First(c))
         /\ i # 0 => \A d \in Ctas : At(d)' = At(d) /\ First(d)' = First(d)
<1>1. \A d \in Ctas, j \in Tids : <<d, j>> \in ThreadIds
  BY DEF ThreadIds
<1>2. 0 \in Tids
  BY ConstantFacts
<1>3. pc' = [pc EXCEPT ![<<c, i>>] = l] /\ DOMAIN pc = ThreadIds
  BY DEF Goto, TypeOK
<1>. QED
  BY <1>1, <1>2, <1>3 DEF Moved, At, First, Label

LEMMA ScheduleStep ==
  ASSUME TypeOK, [Next]_vars
  PROVE  Still \/ \E c \in Ctas : Claims(c) \/ Clamps(c) \/ Walks(c) \/ Reports(c) \/ Leaves(c)
<1>0. 0 \in Tids /\ \A d \in Ctas : <<d, 0>> \in ThreadIds
  BY ConstantFacts DEF ThreadIds
<1>1. ASSUME NEW c \in Ctas, ClaimBegin(c) PROVE Claims(c)
  BY <1>0, <1>1, GotoMoves DEF ClaimBegin, Claims, At, resultVars, countVars
<1>2. ASSUME NEW c \in Ctas, ClaimEnd(c) PROVE Clamps(c)
  BY <1>0, <1>2, GotoMoves DEF ClaimEnd, Clamps, At, resultVars, countVars
<1>3. ASSUME NEW c \in Ctas, NEW i \in Tids, SkipClaim(c, i) PROVE Still
  BY <1>3, GotoMoves DEF SkipClaim, Still, resultVars, sharedVars, countVars, claimVars
<1>4. ASSUME NEW c \in Ctas, NEW i \in Tids, ReadClaim(c, i) PROVE Still \/ Walks(c)
  <2>1. CASE i # 0
    <3>1. \A d \in Ctas : At(d)' = At(d) /\ First(d)' = First(d)
      <4>1. pc' = [pc EXCEPT ![<<c, i>>] = pc'[<<c, i>>]] /\ DOMAIN pc = ThreadIds
        BY <1>4 DEF ReadClaim, Goto, TypeOK
      <4>2. tileId' = [tileId EXCEPT ![<<c, i>>] = tileId'[<<c, i>>]] /\ DOMAIN tileId = ThreadIds
        BY <1>4 DEF ReadClaim, TypeOK
      <4>. QED
        BY <1>0, <2>1, <4>1, <4>2 DEF At, First, Label
    <3>. QED
      BY <1>4, <3>1 DEF ReadClaim, Still, resultVars, sharedVars, countVars, claimVars
  <2>2. CASE i = 0 /\ claimedBegin[c] >= TileCount
    <3>1. At(c) = "test" /\ Moved(c, "finish", First(c))
      BY <1>0, <1>4, <2>2, GotoMoves DEF ReadClaim, At
    <3>. QED
      BY <1>4, <2>2, <3>1 DEF ReadClaim, Walks, resultVars, sharedVars, countVars, claimVars
  <2>3. CASE i = 0 /\ ~(claimedBegin[c] >= TileCount)
    <3>1. claimedBegin[c] < TileCount
      BY <2>3, ConstantFacts DEF TypeOK
    <3>2. At(c) = "test" /\ Moved(c, "loop", claimedBegin[c])
      BY <1>0, <1>4, <2>3 DEF ReadClaim, At, Label, Goto, Moved, First, TypeOK
    <3>. QED
      BY <1>4, <3>1, <3>2 DEF ReadClaim, Walks, resultVars, sharedVars, countVars, claimVars
  <2>. QED
    BY <2>1, <2>2, <2>3
<1>5. ASSUME NEW c \in Ctas, NEW i \in Tids, LoopTest(c, i) PROVE Still \/ Walks(c)
  <2>1. CASE i # 0
    <3>1. \A d \in Ctas : At(d)' = At(d) /\ First(d)' = First(d)
      BY <1>5, <2>1, GotoMoves DEF LoopTest
    <3>. QED
      BY <1>5, <3>1 DEF LoopTest, Still, resultVars, sharedVars, countVars, claimVars
  <2>2. CASE i = 0
    <3>0. First(c) \in Nat /\ Limit(c) \in Nat
      BY <1>0, ConstantFacts DEF First, Limit, TypeOK
    <3>1. CASE First(c) < Limit(c)
      <4>1. Goto(c, i, "deposit")
        BY <1>5, <2>2, <3>1 DEF LoopTest, First, Limit
      <4>2. At(c) = "loop" /\ Moved(c, "deposit", First(c))
        BY <1>5, <2>2, <4>1, GotoMoves DEF LoopTest, At
      <4>. QED
        BY <1>5, <3>1, <4>2 DEF LoopTest, Walks, resultVars, sharedVars, countVars, claimVars
    <3>2. CASE ~(First(c) < Limit(c))
      <4>1. Goto(c, i, IF kind = "static" THEN "finish" ELSE "claim")
        BY <1>5, <2>2, <3>2 DEF LoopTest, First, Limit
      <4>2. At(c) = "loop" /\ Moved(c, IF kind = "static" THEN "finish" ELSE "claim", First(c))
        BY <1>5, <2>2, <4>1, GotoMoves DEF LoopTest, At
      <4>3. First(c) >= Limit(c)
        BY <3>0, <3>2
      <4>. QED
        BY <1>5, <4>2, <4>3 DEF LoopTest, Walks, resultVars, sharedVars, countVars, claimVars
    <3>. QED
      BY <3>1, <3>2
  <2>. QED
    BY <2>1, <2>2
<1>6. ASSUME NEW c \in Ctas, NEW i \in Tids, Deposit(c, i) \/ ReduceRound(c, i)
      PROVE  Still \/ Walks(c)
  <2>1. /\ Label(c, i) \in InTile
        /\ \E l \in InTile : Goto(c, i, l)
        /\ UNCHANGED <<kind, nextTile, sharedVars, tileId, resultVars>>
    BY <1>6 DEF Deposit, ReduceRound, InTile
  <2>2. PICK l \in InTile : Goto(c, i, l)
    BY <2>1
  <2>3. CASE i # 0
    BY <2>1, <2>2, <2>3, GotoMoves DEF Still, resultVars, sharedVars, countVars, claimVars
  <2>4. CASE i = 0
    <3>1. At(c) \in InTile /\ Moved(c, l, First(c))
      BY <2>1, <2>2, <2>4, GotoMoves DEF At
    <3>. QED
      BY <2>1, <3>1 DEF Walks, resultVars, sharedVars, countVars, claimVars
  <2>. QED
    BY <2>3, <2>4
<1>7. ASSUME NEW c \in Ctas, NEW i \in Tids, PublishTile(c, i) PROVE Still \/ Reports(c)
  <2>1. CASE i # 0
    BY <1>7, <2>1, GotoMoves DEF PublishTile, Still, sharedVars, countVars, claimVars
  <2>2. CASE i = 0
    <3>1. At(c) = "publish" /\ Moved(c, "published", First(c))
      BY <1>7, <2>2, GotoMoves DEF PublishTile, At
    <3>. QED
      BY <1>7, <2>2, <3>1 DEF PublishTile, Reports, First, sharedVars, claimVars
  <2>. QED
    BY <2>1, <2>2
<1>8. ASSUME NEW c \in Ctas, SyncThreads(c) PROVE Still \/ Walks(c)
  <2>1. \A d \in Ctas \ {c} : At(d)' = At(d) /\ First(d)' = First(d)
    BY <1>0, <1>8 DEF SyncThreads, At, First, Label, TypeOK
  <2>2. /\ At(c)' = AfterBarrier(c, 0)
        /\ First(c)' = IF At(c) = "published" THEN First(c) + Stride ELSE First(c)
    BY <1>0, <1>8 DEF SyncThreads, At, First, Label, Stride
  <2>3. UNCHANGED <<kind, claimVars, countVars, ctaTiles>>
    BY <1>8 DEF SyncThreads, resultVars, sharedVars, countVars, claimVars
  <2>4. At(c) \in Barriers \cup {"exited"}
    BY <1>0, <1>8 DEF SyncThreads, At
  <2>5. CASE At(c) = "claimed"
    BY <2>1, <2>2, <2>3, <2>5 DEF AfterBarrier, At, Walks, Moved
  <2>6. CASE At(c) \in {"deposited", "reduced"}
    <3>1. AfterBarrier(c, 0) \in InTile
      BY <2>6 DEF AfterBarrier, At, InTile
    <3>2. At(c) \in InTile /\ Moved(c, AfterBarrier(c, 0), First(c))
      BY <2>1, <2>2, <2>3, <2>6 DEF InTile, Moved
    <3>. QED
      BY <2>3, <3>1, <3>2 DEF Walks
  <2>7. CASE At(c) = "published"
    BY <2>1, <2>2, <2>3, <2>7 DEF AfterBarrier, At, Walks, Moved
  <2>8. CASE At(c) = "exited"
    <3>1. At(c)' = At(c) /\ First(c)' = First(c)
      BY <2>2, <2>8 DEF AfterBarrier, At
    <3>. QED
      BY <2>1, <2>3, <3>1 DEF Still
  <2>. QED
    BY <2>4, <2>5, <2>6, <2>7, <2>8 DEF Barriers
<1>9. ASSUME NEW c \in Ctas, NEW i \in Tids, Finish(c, i) PROVE Still \/ Leaves(c)
  <2>1. CASE i # 0
    BY <1>9, <2>1, GotoMoves DEF Finish, Still, sharedVars, countVars, claimVars
  <2>2. CASE i = 0
    <3>1. At(c) = "finish" /\ Moved(c, "exited", First(c))
      BY <1>9, <2>2, GotoMoves DEF Finish, At
    <3>. QED
      BY <1>9, <2>2, <3>1 DEF Finish, Leaves, sharedVars, countVars, claimVars
  <2>. QED
    BY <2>1, <2>2
<1>10. CASE UNCHANGED vars
  BY <1>10 DEF vars, Still, At, First, Label, resultVars, sharedVars, countVars, claimVars
<1>. QED
  BY <1>1, <1>2, <1>3, <1>4, <1>5, <1>6, <1>7, <1>8, <1>9, <1>10
     DEF Next, Thread, Finished

------------------------------------------------------------------------------
(* The static schedule                                                     *)

\* Two numbers of the same residue are at least a stride apart.
LEMMA SameResidue ==
  ASSUME NEW a \in Nat, NEW b \in Nat, NEW m \in Nat, m > 0, a % m = b % m, a < b
  PROVE  a + m =< b
<1>. DEFINE p == a \div m
            q == b \div m
            r == a % m
<1>1. p \in Nat /\ q \in Nat /\ r \in Nat /\ r < m /\ a = m * p + r /\ b = m * q + r
  BY DivFacts
<1>. HIDE DEF p, q, r
<1>2. m * p < m * q
  BY <1>1
<1>3. p < q
  <2>. SUFFICES ASSUME q =< p PROVE FALSE
    BY <1>1
  <2>1. m * q =< m * p
    BY <1>1
  <2>. QED
    BY <1>1, <1>2, <2>1
<1>4. m * (p + 1) =< m * q
  BY <1>1, <1>3
<1>5. m * (p + 1) = m * p + m
  BY <1>1
<1>6. m * p \in Nat /\ m * q \in Nat
  BY <1>1
<1>. QED
  BY <1>1, <1>4, <1>5, <1>6

LEMMA NextResidue ==
  ASSUME NEW a \in Nat, NEW m \in Nat, m > 0
  PROVE  (a + m) % m = a % m
<1>. DEFINE p == a \div m
            r == a % m
<1>1. p \in Nat /\ r \in 0 .. m - 1 /\ a = m * p + r
  BY DivFacts
<1>. DEFINE q == (a + m) \div m
            s == (a + m) % m
<1>2. q \in Nat /\ s \in 0 .. m - 1 /\ a + m = m * q + s
  BY DivFacts
<1>. HIDE DEF p, q, r, s
<1>3. m * (p + 1) = m * p + m
  BY <1>1
<1>4. m * (p + 1) + r = m * q + s /\ m * p \in Nat /\ m * q \in Nat
  BY <1>1, <1>2, <1>3
<1>5. ASSUME p + 1 = q PROVE s = r
  BY <1>1, <1>2, <1>4, <1>5
<1>6. ASSUME p + 1 < q PROVE s = r
  <2>1. m * (p + 2) =< m * q /\ m * (p + 2) = m * (p + 1) + m /\ m * (p + 1) \in Nat
    BY <1>1, <1>2, <1>6
  <2>. QED
    BY <1>1, <1>2, <1>4, <2>1
<1>7. ASSUME q < p + 1 PROVE s = r
  <2>1. m * (q + 1) =< m * (p + 1) /\ m * (q + 1) = m * q + m /\ m * (p + 1) \in Nat
    BY <1>1, <1>2, <1>7
  <2>. QED
    BY <1>1, <1>2, <1>4, <2>1
<1>8. p + 1 < q \/ p + 1 = q \/ q < p + 1
  BY <1>1, <1>2
<1>9. s = r
  BY <1>5, <1>6, <1>7, <1>8
<1>. QED
  BY <1>9 DEF r, s

LEMMA SmallResidue ==
  ASSUME NEW a \in Nat, NEW m \in Nat, m > 0, a < m
  PROVE  a % m = a
OBVIOUS

LEMMA FirstType ==
  ASSUME TypeOK, NEW c \in Ctas
  PROVE  First(c) \in Nat /\ At(c) \in Labels
BY ConstantFacts DEF TypeOK, First, At, Label, ThreadIds

LEMMA StridesInit ==
  ASSUME Init, kind = "static"
  PROVE  StrideInv
<1>. SUFFICES ASSUME NEW c \in Ctas PROVE Strides(c)
  BY DEF StrideInv
<1>1. <<c, 0>> \in ThreadIds /\ c \in Nat /\ c < CtaCount
  BY ConstantFacts DEF ThreadIds, Ctas
<1>2. At(c) = "loop" /\ First(c) = c
  BY <1>1 DEF Init, At, Label, First
<1>3. c % CtaCount = c
  BY <1>1, ConstantFacts, SmallResidue
<1>4. \A t \in Tiles : t % CtaCount = c => ~(t < c)
  <2>. SUFFICES ASSUME NEW t \in Tiles, t % CtaCount = c, t < c PROVE FALSE
    OBVIOUS
  <2>1. t \in Nat
    BY DEF Tiles
  <2>2. t % CtaCount = t
    BY <1>1, <2>1, ConstantFacts, SmallResidue
  <2>. QED
    BY <2>1, <2>2
<1>5. \A t \in Tiles : visits[t] = 0
  BY DEF Init
<1>. QED
  BY <1>2, <1>3, <1>4, <1>5 DEF Strides, StaticLabels, InTile

\* A CTA that does not report keeps its part of the invariant if it stays in the
\* loop as the code does.
LEMMA StridesWalk ==
  ASSUME TypeOK, TypeOK', kind = "static", NEW c \in Ctas, Strides(c), Walks(c)
  PROVE  Strides(c)'
<1>1. First(c) \in Nat /\ CtaCount \in Nat /\ CtaCount > 0 /\ TileCount \in Nat
      /\ \A t \in Tiles : t \in Nat /\ t < TileCount
  BY FirstType, ConstantFacts DEF Tiles
<1>2. visits' = visits
  BY DEF Walks, countVars
<1>3. CASE At(c) = "loop"
  <2>1. First(c)' = First(c) /\ \/ At(c)' = "deposit" /\ First(c) < TileCount
                                \/ At(c)' = "finish" /\ First(c) >= TileCount
    BY <1>3 DEF Walks, Moved, Limit, InTile
  <2>. QED
    BY <1>1, <1>2, <1>3, <2>1 DEF Strides, StaticLabels, InTile
<1>4. CASE At(c) \in InTile
  <2>1. First(c)' = First(c) /\ At(c)' \in InTile
    BY <1>4 DEF Walks, Moved, InTile
  <2>2. At(c) # "published" /\ At(c)' # "published" /\ At(c)' \notin {"finish", "exited"}
    BY <1>4, <2>1 DEF InTile
  <2>. QED
    BY <1>1, <1>2, <1>4, <2>1, <2>2 DEF Strides, StaticLabels
<1>5. CASE At(c) = "published"
  <2>1. First(c)' = First(c) + CtaCount /\ At(c)' = "loop"
    BY <1>5 DEF Walks, Moved, InTile, Stride
  <2>2. First(c)' % CtaCount = c
    BY <1>1, <2>1, NextResidue DEF Strides
  <2>3. \A t \in Tiles : t % CtaCount = c => (t < First(c)' <=> t =< First(c))
    <3>. SUFFICES ASSUME NEW t \in Tiles, t % CtaCount = c
                  PROVE  t < First(c)' <=> t =< First(c)
      OBVIOUS
    <3>1. First(c) < t => First(c) + CtaCount =< t
      BY <1>1, SameResidue DEF Strides
    <3>. QED
      BY <1>1, <2>1, <3>1
  <2>4. \A t \in Tiles : t % CtaCount = c =>
          visits[t] = IF t =< First(c) THEN 1 ELSE 0
    BY <1>1, <1>5 DEF Strides
  <2>. QED
    BY <1>2, <2>1, <2>2, <2>3, <2>4 DEF Strides, StaticLabels, InTile
<1>6. At(c) \in InTile \cup {"loop", "published"}
  BY DEF Walks, Strides, StaticLabels, InTile
<1>. QED
  BY <1>3, <1>4, <1>5, <1>6

LEMMA StridesReport ==
  ASSUME TypeOK, kind = "static", NEW c \in Ctas, NEW d \in Ctas, Strides(c), Strides(d),
         Reports(c)
  PROVE  Strides(d)'
<1>1. First(c) \in Tiles /\ First(c) % CtaCount = c
  BY FirstType, ConstantFacts DEF Strides, Reports, InTile, Tiles
<1>2. \A t \in Tiles : visits'[t] = IF t = First(c) THEN visits[t] + 1 ELSE visits[t]
  BY <1>1 DEF Reports, TypeOK
<1>3. CASE d = c
  <2>1. First(c)' = First(c) /\ At(c)' = "published" /\ At(c) = "publish"
    BY DEF Reports, Moved
  <2>2. First(c) \in Nat /\ \A t \in Tiles : t \in Nat
    BY <1>1 DEF Tiles
  <2>. QED
    BY <1>1, <1>2, <1>3, <2>1, <2>2 DEF Strides, StaticLabels, InTile
<1>4. CASE d # c
  <2>1. First(d)' = First(d) /\ At(d)' = At(d)
    BY <1>4 DEF Reports, Moved
  <2>2. \A t \in Tiles : t % CtaCount = d => visits'[t] = visits[t]
    BY <1>1, <1>2, <1>4
  <2>. QED
    BY <2>1, <2>2 DEF Strides
<1>. QED
  BY <1>3, <1>4

LEMMA StridesStep ==
  ASSUME TypeOK, TypeOK', kind = "static", StrideInv, [Next]_vars
  PROVE  StrideInv'
<1>. USE DEF StrideInv
<1>1. CASE Still
  BY <1>1 DEF Still, countVars, Strides
<1>2. ASSUME NEW c \in Ctas, NEW d \in Ctas, Walks(c) PROVE Strides(d)'
  <2>1. CASE d = c
    BY <1>2, <2>1, StridesWalk
  <2>2. CASE d # c
    BY <1>2, <2>2 DEF Walks, Moved, countVars, Strides
  <2>. QED
    BY <2>1, <2>2
<1>3. ASSUME NEW c \in Ctas, Reports(c) PROVE \A d \in Ctas : Strides(d)'
  BY <1>3, StridesReport
<1>4. ASSUME NEW c \in Ctas, NEW d \in Ctas, Leaves(c) PROVE Strides(d)'
  <2>1. First(d)' = First(d) /\ visits' = visits
        /\ At(d)' = (IF d = c THEN "exited" ELSE At(d)) /\ At(c) = "finish"
    BY <1>4 DEF Leaves, Moved, countVars
  <2>. QED
    BY <2>1 DEF Strides, StaticLabels, InTile
<1>5. ASSUME NEW c \in Ctas, Claims(c) \/ Clamps(c) PROVE FALSE
  BY <1>5 DEF Claims, Clamps, Strides, StaticLabels, InTile
<1>. QED
  BY <1>1, <1>2, <1>3, <1>4, <1>5, ScheduleStep

------------------------------------------------------------------------------
(* The dynamic schedule                                                    *)

\* One CTA fewer leaves room for one more claim.
LEMMA Room ==
  ASSUME NEW s \in Nat, NEW m \in Nat, NEW k \in Nat, m < k
  PROVE  s * m + s =< s * k /\ s * m \in Nat /\ s * k \in Nat
<1>1. s * (m + 1) =< s * k
  OBVIOUS
<1>. QED
  BY <1>1

LEMMA PastFacts ==
  /\ IsFiniteSet(PastSet) /\ Cardinality(PastSet) \in Nat
  /\ Cardinality(PastSet) =< CtaCount
  /\ \A c \in Ctas \ PastSet : Cardinality(PastSet) < CtaCount
<1>1. IsFiniteSet(Ctas) /\ Cardinality(Ctas) = CtaCount
  BY ConstantFacts, FS_Interval DEF Ctas
<1>2. PastSet \in SUBSET Ctas
  BY DEF PastSet
<1>3. /\ IsFiniteSet(PastSet) /\ Cardinality(PastSet) =< CtaCount
      /\ (CtaCount = Cardinality(PastSet) => Ctas = PastSet)
  BY <1>1, <1>2, FS_Subset
<1>4. Cardinality(PastSet) \in Nat
  BY <1>3, FS_CardinalityType
<1>. QED
  BY <1>2, <1>3, <1>4, ConstantFacts

\* The counter never wraps.
LEMMA CounterFits ==
  ASSUME TypeOK, CounterBound
  PROVE  /\ nextTile < UintRange
         /\ \A c \in Ctas \ PastSet : nextTile + ClaimSize < UintRange
<1>. DEFINE m == Cardinality(PastSet)
<1>1. m \in Nat /\ m =< CtaCount /\ \A c \in Ctas \ PastSet : m < CtaCount
  BY PastFacts
<1>. HIDE DEF m
<1>2. ClaimSize * (CtaCount + 1) = ClaimSize * CtaCount + ClaimSize
      /\ ClaimSize * CtaCount \in Nat
  BY ConstantFacts
<1>3. nextTile =< TileCount - 1 + ClaimSize + ClaimSize * m /\ nextTile \in Nat
  BY DEF CounterBound, TypeOK, m
<1>4. ClaimSize * m =< ClaimSize * CtaCount /\ ClaimSize * m \in Nat
  BY <1>1, ConstantFacts
<1>5. m < CtaCount => ClaimSize * m + ClaimSize =< ClaimSize * CtaCount
  BY <1>1, ConstantFacts, Room
<1>6. TileCount + (ClaimSize * CtaCount + ClaimSize) =< UintRange
  BY <1>2, ProbeWidthAssumption
<1>. QED
  BY <1>1, <1>2, <1>3, <1>4, <1>5, <1>6, ConstantFacts

LEMMA BoundsType ==
  ASSUME TypeOK, NEW c \in Ctas
  PROVE  claimedBegin[c] \in Nat /\ claimedEnd[c] \in Nat /\ nextTile \in Nat
BY DEF TypeOK

\* What each step of the schedule does to the claims.
LEMMA ClaimsEffect ==
  ASSUME TypeOK, CounterBound, NEW c \in Ctas, Claims(c)
  PROVE  /\ c \notin PastSet /\ nextTile' = nextTile + ClaimSize
         /\ claimedBegin'[c] = nextTile
         /\ \A d \in Ctas : d # c => claimedBegin'[d] = claimedBegin[d]
         /\ claimedEnd' = claimedEnd
<1>1. c \notin PastSet
  BY DEF Claims, PastSet
<1>2. nextTile + ClaimSize < UintRange /\ nextTile \in Nat
  BY <1>1, CounterFits DEF TypeOK
<1>3. (nextTile + ClaimSize) % UintRange = nextTile + ClaimSize
  BY <1>2, ConstantFacts, SmallResidue
<1>. QED
  BY <1>1, <1>3 DEF Claims, TypeOK

LEMMA ClampsEffect ==
  ASSUME TypeOK, CounterBound, NEW c \in Ctas, ClaimFacts(c), Clamps(c)
  PROVE  /\ claimedEnd'[c] = Smaller(claimedBegin[c] + ClaimSize, TileCount)
         /\ \A d \in Ctas : d # c => claimedEnd'[d] = claimedEnd[d]
         /\ claimedBegin' = claimedBegin /\ nextTile' = nextTile
<1>1. claimedBegin[c] \in Nat /\ claimedBegin[c] + ClaimSize =< nextTile
      /\ nextTile < UintRange /\ nextTile \in Nat
  BY BoundsType, CounterFits DEF ClaimFacts, Clamps
<1>2. claimedBegin[c] + ClaimSize \in Nat /\ claimedBegin[c] + ClaimSize < UintRange
  BY <1>1, ConstantFacts
<1>3. (claimedBegin[c] + ClaimSize) % UintRange = claimedBegin[c] + ClaimSize
  BY <1>2, ConstantFacts, SmallResidue
<1>. QED
  BY <1>3 DEF Clamps, TypeOK

\* The moves of a CTA of the dynamic kernel that is not claiming.
LEMMA DynamicWalk ==
  ASSUME TypeOK, kind = "dynamic", NEW c \in Ctas, Walks(c)
  PROVE  \/ /\ At(c) = "claimed" /\ At(c)' = "test" /\ First(c)' = First(c)
         \/ /\ At(c) = "test" /\ claimedBegin[c] >= TileCount /\ At(c)' = "finish"
            /\ First(c)' = First(c)
         \/ /\ At(c) = "test" /\ claimedBegin[c] < TileCount /\ At(c)' = "loop"
            /\ First(c)' = claimedBegin[c]
         \/ /\ At(c) = "loop" /\ First(c) < claimedEnd[c] /\ At(c)' = "deposit"
            /\ First(c)' = First(c)
         \/ /\ At(c) = "loop" /\ First(c) >= claimedEnd[c] /\ At(c)' = "claim"
            /\ First(c)' = First(c)
         \/ /\ At(c) \in InTile /\ At(c)' \in InTile /\ First(c)' = First(c)
         \/ /\ At(c) = "published" /\ At(c)' = "loop" /\ First(c)' = First(c) + 1
BY DEF Walks, Moved, Limit, Stride

LEMMA SmallerFacts ==
  ASSUME NEW a \in Nat, NEW b \in Nat
  PROVE  /\ Smaller(a, b) \in Nat /\ Smaller(a, b) =< a /\ Smaller(a, b) =< b
         /\ \A t \in Int : t < Smaller(a, b) <=> t < a /\ t < b
BY DEF Smaller

LEMMA ClaimInvStep ==
  ASSUME TypeOK, TypeOK', kind = "dynamic", ClaimInv, CounterBound, [Next]_vars
  PROVE  ClaimInv'
<1>. USE DEF ClaimInv
<1>1. CASE Still
  BY <1>1 DEF Still, claimVars, ClaimFacts
<1>2. ASSUME NEW c \in Ctas, NEW d \in Ctas, Claims(c) PROVE ClaimFacts(d)'
  <2>1. nextTile' = nextTile + ClaimSize /\ claimedEnd' = claimedEnd
        /\ claimedBegin'[d] = (IF d = c THEN nextTile ELSE claimedBegin[d])
    BY <1>2, ClaimsEffect
  <2>2. First(d)' = First(d) /\ At(d)' = IF d = c THEN "clamp" ELSE At(d)
    BY <1>2 DEF Claims, Moved
  <2>3. claimedBegin[d] \in Nat /\ nextTile \in Nat /\ ClaimSize \in Nat /\ ClaimFacts(d)
    BY BoundsType, ConstantFacts
  <2>. QED
    BY <2>1, <2>2, <2>3 DEF ClaimFacts, InTile
<1>3. ASSUME NEW c \in Ctas, NEW d \in Ctas, Clamps(c) PROVE ClaimFacts(d)'
  <2>1. /\ claimedEnd'[d] = IF d = c THEN Smaller(claimedBegin[d] + ClaimSize, TileCount)
                            ELSE claimedEnd[d]
        /\ claimedBegin' = claimedBegin /\ nextTile' = nextTile
    BY <1>3, ClampsEffect
  <2>2. First(d)' = First(d) /\ At(d)' = (IF d = c THEN "claimed" ELSE At(d))
        /\ At(c) = "clamp"
    BY <1>3 DEF Clamps, Moved
  <2>. QED
    BY <2>1, <2>2 DEF ClaimFacts, InTile
<1>4. ASSUME NEW c \in Ctas, NEW d \in Ctas, Walks(c) PROVE ClaimFacts(d)'
  <2>1. claimedBegin' = claimedBegin /\ claimedEnd' = claimedEnd /\ nextTile' = nextTile
    BY <1>4 DEF Walks, claimVars
  <2>2. CASE d # c
    <3>1. First(d)' = First(d) /\ At(d)' = At(d)
      BY <1>4, <2>2 DEF Walks, Moved
    <3>. QED
      BY <2>1, <3>1 DEF ClaimFacts
  <2>3. CASE d = c
    <3>1. First(c) \in Nat /\ claimedBegin[c] \in Nat /\ claimedEnd[c] \in Nat
          /\ TileCount \in Nat
      BY BoundsType, FirstType, ConstantFacts
    <3>. QED
      BY <1>4, <2>1, <2>3, <3>1, DynamicWalk DEF ClaimFacts, InTile
  <2>. QED
    BY <2>2, <2>3
<1>5. ASSUME NEW c \in Ctas, NEW d \in Ctas, Reports(c) \/ Leaves(c) PROVE ClaimFacts(d)'
  <2>1. claimedBegin' = claimedBegin /\ claimedEnd' = claimedEnd /\ nextTile' = nextTile
    BY <1>5 DEF Reports, Leaves, claimVars
  <2>2. First(d)' = First(d)
        /\ \/ At(d)' = At(d)
           \/ At(d) = "publish" /\ At(d)' = "published"
           \/ At(d) = "finish" /\ At(d)' = "exited"
    BY <1>5 DEF Reports, Leaves, Moved
  <2>. QED
    BY <2>1, <2>2 DEF ClaimFacts, InTile
<1>. QED
  BY <1>1, <1>2, <1>3, <1>4, <1>5, ScheduleStep

LEMMA CounterBoundStep ==
  ASSUME TypeOK, TypeOK', kind = "dynamic", ClaimInv, CounterBound, [Next]_vars
  PROVE  CounterBound'
<1>. DEFINE m == Cardinality(PastSet)
<1>0. /\ nextTile \in Nat /\ TileCount \in Nat /\ TileCount > 0 /\ ClaimSize \in Nat
      /\ m \in Nat /\ IsFiniteSet(PastSet) /\ ClaimSize * m \in Nat
  BY PastFacts, ConstantFacts DEF TypeOK
<1>1. ASSUME PastSet' = PastSet, nextTile' = nextTile PROVE CounterBound'
  BY <1>1 DEF CounterBound
<1>2. CASE Still
  <2>1. PastSet' = PastSet /\ nextTile' = nextTile
    BY <1>2 DEF Still, claimVars, PastSet
  <2>. QED
    BY <1>1, <2>1
<1>3. ASSUME NEW c \in Ctas, Claims(c) PROVE CounterBound'
  <2>1. c \notin PastSet /\ nextTile' = nextTile + ClaimSize
        /\ claimedBegin'[c] = nextTile
        /\ \A d \in Ctas : d # c => claimedBegin'[d] = claimedBegin[d]
    BY <1>3, ClaimsEffect
  <2>2. \A d \in Ctas : At(d)' = IF d = c THEN "clamp" ELSE At(d)
    BY <1>3 DEF Claims, Moved
  <2>3. CASE nextTile >= TileCount
    <3>1. PastSet' = PastSet \cup {c}
      BY <2>1, <2>2, <2>3 DEF PastSet
    <3>2. Cardinality(PastSet') = m + 1
      BY <1>0, <2>1, <3>1, FS_AddElement
    <3>3. ClaimSize * (m + 1) = ClaimSize * m + ClaimSize
      BY <1>0
    <3>4. nextTile =< TileCount - 1 + ClaimSize + ClaimSize * m
      BY DEF CounterBound
    <3>. HIDE DEF m
    <3>5. nextTile' =< TileCount - 1 + ClaimSize + ClaimSize * (m + 1)
      BY <1>0, <2>1, <3>3, <3>4
    <3>. QED
      BY <3>2, <3>5 DEF CounterBound
  <2>4. CASE nextTile < TileCount
    <3>1. Cardinality(PastSet)' \in Nat
      <4>1. PastSet' = PastSet
        BY <1>0, <2>1, <2>2, <2>4 DEF PastSet
      <4>. QED
        BY <1>0, <4>1
    <3>2. ClaimSize * Cardinality(PastSet)' \in Nat
      BY <1>0, <3>1
    <3>3. nextTile' =< TileCount - 1 + ClaimSize + ClaimSize * Cardinality(PastSet)'
      <4>. DEFINE z == ClaimSize * Cardinality(PastSet)'
      <4>. HIDE DEF z
      <4>1. z \in Nat
        BY <3>2 DEF z
      <4>2. nextTile' =< TileCount - 1 + ClaimSize + z
        BY <1>0, <2>1, <2>4, <4>1
      <4>. QED
        BY <4>2 DEF z
    <3>. QED
      BY <3>3 DEF CounterBound
  <2>. QED
    BY <1>0, <2>3, <2>4
<1>4. ASSUME NEW c \in Ctas, Clamps(c) \/ Reports(c) \/ Leaves(c) PROVE CounterBound'
  <2>1. claimedBegin' = claimedBegin /\ nextTile' = nextTile
    BY <1>4 DEF Clamps, Reports, Leaves, claimVars
  <2>2. \A d \in Ctas : \/ At(d)' = At(d)
                        \/ At(d) = "clamp" /\ At(d)' = "claimed"
                        \/ At(d) = "publish" /\ At(d)' = "published"
                        \/ At(d) = "finish" /\ At(d)' = "exited"
    BY <1>4 DEF Clamps, Reports, Leaves, Moved
  <2>3. PastSet' = PastSet
    BY <2>1, <2>2 DEF PastSet
  <2>. QED
    BY <1>1, <2>1, <2>3
<1>5. ASSUME NEW c \in Ctas, Walks(c) PROVE CounterBound'
  <2>1. claimedBegin' = claimedBegin /\ nextTile' = nextTile
    BY <1>5 DEF Walks, claimVars
  <2>2. \A d \in Ctas \ {c} : At(d)' = At(d)
    BY <1>5 DEF Walks, Moved
  <2>3. claimedBegin[c] >= TileCount =>
          (At(c)' \in {"clamp", "claimed", "test", "finish", "exited"}
             <=> At(c) \in {"clamp", "claimed", "test", "finish", "exited"})
    <3>1. claimedBegin[c] \in Nat /\ TileCount \in Nat /\ ClaimFacts(c)
      BY BoundsType, ConstantFacts DEF ClaimInv
    <3>. QED
      BY <1>5, <3>1, DynamicWalk DEF ClaimFacts, InTile
  <2>4. PastSet' = PastSet
    BY <2>1, <2>2, <2>3 DEF PastSet
  <2>. QED
    BY <1>1, <2>1, <2>4
<1>. QED
  BY <1>2, <1>3, <1>4, <1>5, ScheduleStep

\* Who owes a tile after a step that leaves claims and visits alone but for CTA c.
LEMMA OwedUnchanged ==
  ASSUME OwedOnce, \A c \in Ctas, t \in Tiles : Owes(c, t)' <=> Owes(c, t),
         UNCHANGED <<visits, nextTile>>
  PROVE  OwedOnce'
BY DEF OwedOnce

LEMMA OwedOnceStep ==
  ASSUME TypeOK, TypeOK', kind = "dynamic", ClaimInv, CounterBound, OwedOnce, [Next]_vars
  PROVE  OwedOnce'
<1>0. /\ \A t \in Tiles : t \in Nat /\ t < TileCount
      /\ TileCount \in Nat /\ ClaimSize \in Nat /\ ClaimSize > 0 /\ nextTile \in Nat
      /\ \A c \in Ctas : claimedBegin[c] \in Nat /\ claimedEnd[c] \in Nat /\ First(c) \in Nat
      /\ \A c \in Ctas : ClaimFacts(c)
  <2>1. TileCount \in Nat /\ ClaimSize \in Nat /\ ClaimSize > 0 /\ nextTile \in Nat
    BY ConstantFacts DEF TypeOK
  <2>2. \A t \in Tiles : t \in Nat /\ t < TileCount
    BY <2>1 DEF Tiles
  <2>3. \A c \in Ctas : claimedBegin[c] \in Nat /\ claimedEnd[c] \in Nat /\ First(c) \in Nat
    BY BoundsType, FirstType
  <2>. QED
    BY <2>1, <2>2, <2>3 DEF ClaimInv
<1>1. CASE Still
  <2>1. \A c \in Ctas, t \in Tiles : Owes(c, t)' <=> Owes(c, t)
    BY <1>1 DEF Still, claimVars, Owes
  <2>. QED
    BY <1>1, <2>1, OwedUnchanged DEF Still, claimVars, countVars
<1>2. ASSUME NEW c \in Ctas, Claims(c) PROVE OwedOnce'
  <2>1. /\ nextTile' = nextTile + ClaimSize /\ claimedEnd' = claimedEnd
        /\ claimedBegin'[c] = nextTile
        /\ \A d \in Ctas : d # c => claimedBegin'[d] = claimedBegin[d]
    BY <1>2, ClaimsEffect
  <2>2. \A d \in Ctas : First(d)' = First(d) /\ At(d)' = IF d = c THEN "clamp" ELSE At(d)
    BY <1>2 DEF Claims, Moved
  <2>3. visits' = visits /\ At(c) = "claim"
    BY <1>2 DEF Claims, countVars
  <2>4. \A t \in Tiles : Owes(c, t)' <=> nextTile =< t /\ t < nextTile + ClaimSize
    BY <2>1, <2>2 DEF Owes, InTile
  <2>5. \A d \in Ctas, t \in Tiles : d # c => (Owes(d, t)' <=> Owes(d, t))
    BY <2>1, <2>2 DEF Owes
  <2>6. \A t \in Tiles : ~Owes(c, t)
    BY <2>3 DEF Owes, InTile
  <2>7. \A d \in Ctas, t \in Tiles : Owes(d, t) => t < nextTile
    <3>. SUFFICES ASSUME NEW d \in Ctas, NEW t \in Tiles, Owes(d, t) PROVE t < nextTile
      OBVIOUS
    <3>1. At(d) # "claim" /\ claimedBegin[d] + ClaimSize =< nextTile
      BY <1>0 DEF Owes, ClaimFacts, InTile
    <3>2. t < claimedBegin[d] + ClaimSize
      <4>1. CASE At(d) \in {"clamp", "claimed", "test"}
        BY <4>1 DEF Owes, InTile
      <4>2. CASE At(d) \in InTile \cup {"loop", "published"}
        <5>1. t < claimedEnd[d] /\ claimedEnd[d] = Smaller(claimedBegin[d] + ClaimSize, TileCount)
          BY <1>0, <4>2 DEF Owes, ClaimFacts, InTile
        <5>. QED
          BY <1>0, <5>1 DEF Smaller
      <4>. QED
        BY <4>1, <4>2 DEF Owes
    <3>. QED
      BY <1>0, <3>1, <3>2
  <2>8. \A t \in Tiles : visits'[t] \in {0, 1}
    BY <2>3 DEF OwedOnce
  <2>9. \A t \in Tiles : visits'[t] = 1 => t < nextTile' /\ \A d \in Ctas : ~Owes(d, t)'
    <3>. SUFFICES ASSUME NEW t \in Tiles, visits'[t] = 1
                  PROVE  t < nextTile' /\ \A d \in Ctas : ~Owes(d, t)'
      OBVIOUS
    <3>1. t < nextTile /\ \A d \in Ctas : ~Owes(d, t)
      BY <2>3 DEF OwedOnce
    <3>. QED
      BY <1>0, <2>1, <2>4, <2>5, <3>1
  <2>10. \A t \in Tiles : t < nextTile' /\ visits'[t] = 0 => \E d \in Ctas : Owes(d, t)'
    <3>. SUFFICES ASSUME NEW t \in Tiles, t < nextTile', visits'[t] = 0
                  PROVE  \E d \in Ctas : Owes(d, t)'
      OBVIOUS
    <3>1. CASE t < nextTile
      <4>1. PICK d \in Ctas : Owes(d, t)
        BY <2>3, <3>1 DEF OwedOnce
      <4>2. d # c
        BY <2>6, <4>1
      <4>. QED
        BY <2>5, <4>1, <4>2
    <3>2. CASE ~(t < nextTile)
      BY <1>0, <2>1, <2>4, <3>2
    <3>. QED
      BY <3>1, <3>2
  <2>11. \A t \in Tiles, d, e \in Ctas : Owes(d, t)' /\ Owes(e, t)' => d = e
    <3>. SUFFICES ASSUME NEW t \in Tiles, NEW d \in Ctas, NEW e \in Ctas, Owes(d, t)',
                         Owes(e, t)', d # e
                  PROVE  FALSE
      OBVIOUS
    <3>1. d # c /\ e # c => FALSE
      BY <2>5 DEF OwedOnce
    <3>2. \A x \in Ctas : x # c /\ Owes(x, t)' => t < nextTile
      BY <2>5, <2>7
    <3>3. Owes(c, t)' => ~(t < nextTile)
      BY <1>0, <2>4
    <3>. QED
      BY <3>1, <3>2, <3>3
  <2>. QED
    BY <2>8, <2>9, <2>10, <2>11 DEF OwedOnce
<1>3. ASSUME NEW c \in Ctas, Clamps(c) PROVE OwedOnce'
  <2>1. /\ \A d \in Ctas : d # c => claimedEnd'[d] = claimedEnd[d]
        /\ claimedBegin' = claimedBegin /\ nextTile' = nextTile
    BY <1>0, <1>3, ClampsEffect
  <2>2. \A d \in Ctas : First(d)' = First(d) /\ At(d)' = IF d = c THEN "claimed" ELSE At(d)
    BY <1>3 DEF Clamps, Moved
  <2>3. At(c) = "clamp" /\ visits' = visits
    BY <1>3 DEF Clamps, countVars
  <2>4. \A d \in Ctas, t \in Tiles : Owes(d, t)' <=> Owes(d, t)
    BY <2>1, <2>2, <2>3 DEF Owes, InTile
  <2>. QED
    BY <2>1, <2>3, <2>4, OwedUnchanged
<1>4. ASSUME NEW c \in Ctas, Walks(c) PROVE OwedOnce'
  <2>1. claimedBegin' = claimedBegin /\ claimedEnd' = claimedEnd /\ nextTile' = nextTile
        /\ visits' = visits
    BY <1>4 DEF Walks, claimVars, countVars
  <2>2. \A d \in Ctas : d # c => At(d)' = At(d) /\ First(d)' = First(d)
    BY <1>4 DEF Walks, Moved
  <2>3. \A t \in Tiles : Owes(c, t)' <=> Owes(c, t)
    <3>. SUFFICES ASSUME NEW t \in Tiles PROVE Owes(c, t)' <=> Owes(c, t)
      OBVIOUS
    <3>0. /\ t \in Nat /\ t < TileCount /\ First(c) \in Nat /\ claimedBegin[c] \in Nat
          /\ claimedEnd[c] \in Nat /\ ClaimFacts(c)
      BY <1>0
    <3>1. CASE At(c) \in InTile
      <4>1. At(c)' \in InTile /\ First(c)' = First(c)
        BY <1>4, <3>1, DynamicWalk DEF InTile
      <4>. QED
        BY <2>1, <3>1, <4>1 DEF Owes, InTile
    <3>2. CASE At(c) = "test" /\ claimedBegin[c] < TileCount
      <4>1. At(c)' = "loop" /\ First(c)' = claimedBegin[c]
        BY <1>0, <1>4, <3>0, <3>2, DynamicWalk DEF InTile
      <4>2. claimedEnd[c] = Smaller(claimedBegin[c] + ClaimSize, TileCount)
        BY <3>0, <3>2 DEF ClaimFacts
      <4>3. t < claimedEnd[c] <=> t < claimedBegin[c] + ClaimSize
        BY <1>0, <3>0, <4>2 DEF Smaller
      <4>. QED
        BY <2>1, <3>2, <4>1, <4>3 DEF Owes, InTile
    <3>3. CASE At(c) = "test" /\ claimedBegin[c] >= TileCount
      <4>1. At(c)' = "finish"
        BY <1>0, <1>4, <3>0, <3>3, DynamicWalk DEF InTile
      <4>2. ~Owes(c, t) /\ ~Owes(c, t)'
        BY <1>0, <3>0, <3>3, <4>1 DEF Owes, InTile
      <4>. QED
        BY <4>2
    <3>4. CASE At(c) = "loop"
      <4>1. First(c)' = First(c) /\ \/ At(c)' = "deposit"
                                    \/ At(c)' = "claim" /\ First(c) >= claimedEnd[c]
        BY <1>4, <3>4, DynamicWalk DEF InTile
      <4>. QED
        BY <2>1, <3>0, <3>4, <4>1 DEF Owes, InTile
    <3>5. CASE At(c) = "published"
      <4>1. At(c)' = "loop" /\ First(c)' = First(c) + 1
        BY <1>4, <3>5, DynamicWalk DEF InTile
      <4>. QED
        BY <2>1, <3>0, <3>5, <4>1 DEF Owes, InTile
    <3>6. CASE At(c) = "claimed"
      <4>1. At(c)' = "test"
        BY <1>4, <3>6, DynamicWalk DEF InTile
      <4>. QED
        BY <2>1, <3>6, <4>1 DEF Owes, InTile
    <3>7. At(c) \in InTile \cup {"claimed", "test", "loop", "published"}
      BY <1>4, DynamicWalk
    <3>. QED
      BY <1>0, <3>0, <3>1, <3>2, <3>3, <3>4, <3>5, <3>6, <3>7
  <2>4. \A d \in Ctas, t \in Tiles : Owes(d, t)' <=> Owes(d, t)
    BY <2>1, <2>2, <2>3 DEF Owes
  <2>. QED
    BY <2>1, <2>4, OwedUnchanged
<1>5. ASSUME NEW c \in Ctas, Reports(c) PROVE OwedOnce'
  <2>. DEFINE f == First(c)
  <2>1. claimedBegin' = claimedBegin /\ claimedEnd' = claimedEnd /\ nextTile' = nextTile
    BY <1>5 DEF Reports, claimVars
  <2>2. \A d \in Ctas : First(d)' = First(d) /\ At(d)' = IF d = c THEN "published" ELSE At(d)
    BY <1>5 DEF Reports, Moved
  <2>3. /\ At(c) = "publish" /\ f \in Nat /\ f < claimedEnd[c]
        /\ claimedEnd[c] = Smaller(claimedBegin[c] + ClaimSize, TileCount)
        /\ claimedBegin[c] + ClaimSize =< nextTile
    BY <1>0, <1>5 DEF Reports, ClaimFacts, InTile
  <2>4. f \in Tiles /\ f < nextTile
    BY <1>0, <2>3 DEF Smaller, Tiles
  <2>5. \A t \in Tiles : visits'[t] = IF t = f THEN visits[t] + 1 ELSE visits[t]
    BY <1>5, <2>4 DEF Reports, TypeOK
  <2>6. Owes(c, f)
    BY <1>0, <2>3, <2>4 DEF Owes, InTile
  <2>7. visits[f] = 0
    BY <2>4, <2>6 DEF OwedOnce
  <2>8. \A t \in Tiles : Owes(c, t)' <=> Owes(c, t) /\ t # f
    BY <1>0, <2>1, <2>2, <2>3 DEF Owes, InTile
  <2>9. \A d \in Ctas, t \in Tiles : d # c => (Owes(d, t)' <=> Owes(d, t))
    BY <2>1, <2>2 DEF Owes
  <2>10. \A d \in Ctas, t \in Tiles : t = f => ~Owes(d, t)'
    BY <2>4, <2>6, <2>8, <2>9 DEF OwedOnce
  <2>11. \A t \in Tiles : visits'[t] \in {0, 1}
    BY <2>5, <2>7 DEF OwedOnce
  <2>12. \A t \in Tiles : visits'[t] = 1 => t < nextTile' /\ \A d \in Ctas : ~Owes(d, t)'
    <3>. SUFFICES ASSUME NEW t \in Tiles, visits'[t] = 1
                  PROVE  t < nextTile' /\ \A d \in Ctas : ~Owes(d, t)'
      OBVIOUS
    <3>1. CASE t = f
      BY <2>1, <2>4, <2>10, <3>1
    <3>2. CASE t # f
      BY <2>1, <2>5, <2>8, <2>9, <3>2 DEF OwedOnce
    <3>. QED
      BY <3>1, <3>2
  <2>13. \A t \in Tiles : t < nextTile' /\ visits'[t] = 0 => \E d \in Ctas : Owes(d, t)'
    <3>. SUFFICES ASSUME NEW t \in Tiles, t < nextTile', visits'[t] = 0
                  PROVE  \E d \in Ctas : Owes(d, t)'
      OBVIOUS
    <3>1. t # f /\ visits[t] = 0 /\ t < nextTile
      BY <2>1, <2>5, <2>7
    <3>2. PICK d \in Ctas : Owes(d, t)
      BY <3>1 DEF OwedOnce
    <3>. QED
      BY <2>8, <2>9, <3>1, <3>2
  <2>14. \A t \in Tiles, d, e \in Ctas : Owes(d, t)' /\ Owes(e, t)' => d = e
    BY <2>8, <2>9 DEF OwedOnce
  <2>. QED
    BY <2>11, <2>12, <2>13, <2>14 DEF OwedOnce
<1>6. ASSUME NEW c \in Ctas, Leaves(c) PROVE OwedOnce'
  <2>1. claimedBegin' = claimedBegin /\ claimedEnd' = claimedEnd /\ nextTile' = nextTile
        /\ visits' = visits
    BY <1>6 DEF Leaves, claimVars, countVars
  <2>2. \A d \in Ctas : First(d)' = First(d) /\ At(d)' = IF d = c THEN "exited" ELSE At(d)
    BY <1>6 DEF Leaves, Moved
  <2>3. At(c) = "finish"
    BY <1>6 DEF Leaves
  <2>4. \A d \in Ctas, t \in Tiles : Owes(d, t)' <=> Owes(d, t)
    BY <2>1, <2>2, <2>3 DEF Owes, InTile
  <2>. QED
    BY <2>1, <2>4, OwedUnchanged
<1>. QED
  BY <1>1, <1>2, <1>3, <1>4, <1>5, <1>6, ScheduleStep

LEMMA ScheduleInit == Init => ScheduleInv
<1>. SUFFICES ASSUME Init PROVE ScheduleInv
  OBVIOUS
<1>1. kind = "static" => StrideInv
  BY StridesInit
<1>2. ASSUME kind # "static" PROVE ClaimInv /\ CounterBound /\ OwedOnce
  <2>1. \A c \in Ctas : At(c) = "claim"
    BY <1>2, ConstantFacts DEF Init, At, Label, ThreadIds
  <2>2. ClaimInv
    BY <2>1 DEF ClaimInv, ClaimFacts, InTile
  <2>3. CounterBound
    <3>1. Cardinality(PastSet) \in Nat /\ nextTile = 0
      BY PastFacts DEF Init
    <3>2. ClaimSize * Cardinality(PastSet) \in Nat
      BY <3>1, ConstantFacts
    <3>. QED
      BY <3>1, <3>2, ConstantFacts DEF CounterBound
  <2>4. \A c \in Ctas, t \in Tiles : ~Owes(c, t)
    BY <2>1 DEF Owes, InTile
  <2>5. \A t \in Tiles : visits[t] = 0 /\ ~(t < nextTile)
    BY DEF Init, Tiles
  <2>. QED
    BY <2>2, <2>3, <2>4, <2>5 DEF OwedOnce
<1>. QED
  BY <1>1, <1>2 DEF ScheduleInv

LEMMA KindFixed == TypeOK /\ [Next]_vars => kind' = kind
BY ScheduleStep DEF Still, Claims, Clamps, Walks, Reports, Leaves, Moved

LEMMA ScheduleInvStep ==
  ASSUME TypeOK, TypeOK', ScheduleInv, [Next]_vars
  PROVE  ScheduleInv'
<1>1. kind' = kind /\ kind \in {"static", "dynamic"}
  BY KindFixed DEF TypeOK
<1>2. CASE kind = "static"
  BY <1>1, <1>2, StridesStep DEF ScheduleInv
<1>3. CASE kind = "dynamic"
  BY <1>1, <1>3, ClaimInvStep, CounterBoundStep, OwedOnceStep DEF ScheduleInv
<1>. QED
  BY <1>1, <1>2, <1>3

------------------------------------------------------------------------------
(* The counters                                                            *)

LEMMA FiniteIds ==
  /\ IsFiniteSet(Ctas) /\ Cardinality(Ctas) = CtaCount
  /\ IsFiniteSet(Tiles) /\ Cardinality(Tiles) = TileCount
  /\ IsFiniteSet(Tids) /\ Cardinality(Tids) = NumThreads
BY ConstantFacts, FS_Interval DEF Ctas, Tiles, Tids

\* The tile a CTA reports is one of the list.
LEMMA ReportedTile ==
  ASSUME TypeOK, ScheduleInv, NEW c \in Ctas, At(c) \in InTile \cup {"published"}
  PROVE  First(c) \in Tiles
<1>1. First(c) \in Nat
  BY FirstType
<1>2. CASE kind = "static"
  BY <1>1, <1>2, ConstantFacts DEF ScheduleInv, StrideInv, Strides, Tiles
<1>3. CASE kind # "static"
  <2>1. First(c) < Smaller(claimedBegin[c] + ClaimSize, TileCount)
    BY <1>3 DEF ScheduleInv, ClaimInv, ClaimFacts, InTile
  <2>2. claimedBegin[c] \in Nat
    BY DEF TypeOK
  <2>. QED
    BY <1>1, <2>1, <2>2, ConstantFacts DEF Smaller, Tiles
<1>. QED
  BY <1>2, <1>3

LEMMA CountInit == Init => CountInv
<1>. SUFFICES ASSUME Init PROVE CountInv
  OBVIOUS
<1>1. \A c \in Ctas : localTiles[c] = 0
  BY DEF Init
<1>2. \A t \in Tiles : visits[t] = 0
  BY DEF Init
<1>3. Total(localTiles, Ctas) = 0
  BY <1>1, FiniteIds, ConstantFacts, TotalConst
<1>4. Total(visits, Tiles) = 0
  BY <1>2, FiniteIds, ConstantFacts, TotalConst
<1>5. \A c \in Ctas : At(c) # "exited"
  BY ConstantFacts DEF Init, At, Label, ThreadIds
<1>. QED
  BY <1>3, <1>4, <1>5 DEF CountInv, Total

LEMMA CountStep ==
  ASSUME TypeOK, ScheduleInv, CountInv, [Next]_vars
  PROVE  CountInv'
<1>1. Total(localTiles, Ctas) = Total(visits, Tiles)
  BY DEF CountInv, Total
<1>2. SUFFICES /\ Total(localTiles', Ctas) = Total(visits', Tiles)
               /\ \A c \in Ctas : At(c)' = "exited" => ctaTiles'[c] = localTiles'[c]
  BY DEF CountInv, Total, MapThenSumSet, MapThenFoldSet
<1>3. CASE Still
  BY <1>1, <1>3 DEF Still, countVars, CountInv
<1>4. ASSUME NEW c \in Ctas, Claims(c) \/ Clamps(c) \/ Walks(c)
      PROVE  /\ Total(localTiles', Ctas) = Total(visits', Tiles)
             /\ \A d \in Ctas : At(d)' = "exited" => ctaTiles'[d] = localTiles'[d]
  <2>1. UNCHANGED countVars /\ UNCHANGED ctaTiles
    BY <1>4 DEF Claims, Clamps, Walks
  <2>2. At(c)' # "exited" /\ \A d \in Ctas \ {c} : At(d)' = At(d)
    BY <1>4 DEF Claims, Clamps, Walks, Moved, InTile
  <2>. QED
    BY <1>1, <2>1, <2>2 DEF countVars, CountInv
<1>5. ASSUME NEW c \in Ctas, Reports(c)
      PROVE  /\ Total(localTiles', Ctas) = Total(visits', Tiles)
             /\ \A d \in Ctas : At(d)' = "exited" => ctaTiles'[d] = localTiles'[d]
  <2>. DEFINE t == First(c)
  <2>1. t \in Tiles
    BY <1>5, ReportedTile DEF Reports, InTile
  <2>2. visits' = [visits EXCEPT ![t] = @ + 1] /\ localTiles' = [localTiles EXCEPT ![c] = @ + 1]
    BY <1>5 DEF Reports
  <2>. HIDE DEF t
  <2>3. Total(visits', Tiles) = Total(visits, Tiles) + 1
    <3>1. \A x \in Tiles : visits[x] \in Int
      BY DEF TypeOK
    <3>2. visits'[t] = visits[t] + 1 /\ \A x \in Tiles : x # t => visits'[x] = visits[x]
      BY <2>1, <2>2 DEF TypeOK
    <3>. QED
      BY <2>1, <3>1, <3>2, FiniteIds, TotalRaise
  <2>4. Total(localTiles', Ctas) = Total(localTiles, Ctas) + 1
    <3>1. \A x \in Ctas : localTiles[x] \in Int
      BY DEF TypeOK
    <3>2. localTiles'[c] = localTiles[c] + 1
          /\ \A x \in Ctas : x # c => localTiles'[x] = localTiles[x]
      BY <2>2 DEF TypeOK
    <3>3. 1 \in Int
      OBVIOUS
    <3>. QED
      BY <3>1, <3>2, <3>3, FiniteIds, TotalRaise
  <2>5. \A d \in Ctas : At(d)' = "exited" => ctaTiles'[d] = localTiles'[d]
    <3>1. At(c)' = "published" /\ ctaTiles' = ctaTiles
          /\ \A d \in Ctas \ {c} : At(d)' = At(d) /\ localTiles'[d] = localTiles[d]
      BY <1>5 DEF Reports, Moved, TypeOK
    <3>. QED
      BY <3>1 DEF CountInv
  <2>. QED
    BY <1>1, <2>3, <2>4, <2>5
<1>6. ASSUME NEW c \in Ctas, Leaves(c)
      PROVE  /\ Total(localTiles', Ctas) = Total(visits', Tiles)
             /\ \A d \in Ctas : At(d)' = "exited" => ctaTiles'[d] = localTiles'[d]
  <2>1. localTiles' = localTiles /\ visits' = visits
    BY <1>6 DEF Leaves, countVars
  <2>2. ctaTiles'[c] = localTiles[c]
        /\ \A d \in Ctas \ {c} : At(d)' = At(d) /\ ctaTiles'[d] = ctaTiles[d]
    BY <1>6 DEF Leaves, Moved, TypeOK
  <2>. QED
    BY <1>1, <2>1, <2>2 DEF CountInv
<1>. QED
  BY <1>3, <1>4, <1>5, <1>6, ScheduleStep

------------------------------------------------------------------------------
(* What the schedule promises                                              *)

LEMMA VisitsBounded ==
  ASSUME TypeOK, ScheduleInv, NEW t \in Tiles
  PROVE  visits[t] \in {0, 1}
<1>1. CASE kind = "static"
  <2>1. t % CtaCount \in Ctas
    BY ConstantFacts, DivFacts DEF Ctas, Tiles
  <2>. QED
    BY <1>1, <2>1 DEF ScheduleInv, StrideInv, Strides
<1>2. CASE kind # "static"
  BY <1>2 DEF ScheduleInv, OwedOnce
<1>. QED
  BY <1>1, <1>2

LEMMA VisitedInTheEnd ==
  ASSUME TypeOK, ScheduleInv, AllExited, NEW t \in Tiles
  PROVE  visits[t] = 1
<1>0. \A c \in Ctas : At(c) = "exited"
  BY ConstantFacts DEF AllExited, At, Label, ThreadIds
<1>1. t \in Nat /\ t < TileCount
  BY ConstantFacts DEF Tiles
<1>2. CASE kind = "static"
  <2>. DEFINE c == t % CtaCount
  <2>1. c \in Ctas
    BY <1>1, ConstantFacts, DivFacts DEF Ctas
  <2>2. First(c) >= TileCount /\ First(c) \in Nat
    BY <1>0, <1>2, <2>1, FirstType DEF ScheduleInv, StrideInv, Strides
  <2>3. t < First(c)
    BY <1>1, <2>2, ConstantFacts
  <2>. QED
    BY <1>2, <2>1, <2>3 DEF ScheduleInv, StrideInv, Strides
<1>3. CASE kind # "static"
  <2>1. 0 \in Ctas
    BY ConstantFacts DEF Ctas
  <2>2. claimedBegin[0] + ClaimSize =< nextTile /\ claimedBegin[0] >= TileCount
    BY <1>0, <1>3, <2>1 DEF ScheduleInv, ClaimInv, ClaimFacts
  <2>3. t < nextTile
    BY <1>1, <2>1, <2>2, ConstantFacts DEF TypeOK
  <2>4. \A c \in Ctas : ~Owes(c, t)
    BY <1>0 DEF Owes, InTile
  <2>. QED
    BY <1>3, <2>3, <2>4 DEF ScheduleInv, OwedOnce
<1>. QED
  BY <1>2, <1>3

LEMMA CountedInTheEnd ==
  ASSUME TypeOK, ScheduleInv, CountInv, AllExited
  PROVE  MapThenSumSet(LAMBDA c : ctaTiles[c], Ctas) = TileCount
<1>1. \A t \in Tiles : visits[t] = 1
  BY VisitedInTheEnd
<1>2. Total(visits, Tiles) = TileCount
  BY <1>1, FiniteIds, ConstantFacts, TotalConst
<1>3. \A c \in Ctas : At(c) = "exited"
  BY ConstantFacts DEF AllExited, At, Label, ThreadIds
<1>4. \A c \in Ctas : ctaTiles[c] = localTiles[c] /\ ctaTiles[c] \in Int
  BY <1>3 DEF CountInv, TypeOK
<1>5. Total(ctaTiles, Ctas) = Total(localTiles, Ctas)
  BY <1>4, FiniteIds, TotalCong
<1>6. Total(localTiles, Ctas) = Total(visits, Tiles)
  BY DEF CountInv, Total
<1>. QED
  BY <1>2, <1>5, <1>6 DEF Total

ProbeInv == TypeOK /\ ScheduleInv /\ CountInv

LEMMA ProbeInvariant == Spec => []ProbeInv
<1>1. Init => ProbeInv
  BY TypeOK_Init, ScheduleInit, CountInit DEF ProbeInv
<1>2. ProbeInv /\ [Next]_vars => ProbeInv'
  BY TypeOK_Step, ScheduleInvStep, CountStep DEF ProbeInv
<1>. QED
  BY <1>1, <1>2, PTL DEF Spec

\* With either kernel, every tile is visited at most once, exactly once when the probe
\* has ended, and the CTAs' own counters then add up to the number of tiles, whatever
\* the numbers of CTAs, threads and tiles and the size of a claim.
THEOREM EachTileOnce == Spec => []VisitedExactlyOnce
<1>1. ProbeInv => VisitedExactlyOnce
  BY VisitsBounded, VisitedInTheEnd, CountedInTheEnd DEF ProbeInv, VisitedExactlyOnce
<1>. QED
  BY <1>1, ProbeInvariant, PTL

------------------------------------------------------------------------------
(* The static kernel's barriers                                            *)

LEMMA PowerFacts ==
  ASSUME NEW o \in PowersOfTwo
  PROVE  /\ o \in Nat /\ o > 0
         /\ \/ o = 1 /\ o \div 2 = 0
            \/ o \div 2 \in PowersOfTwo /\ o \div 2 > 0 /\ 2 * (o \div 2) = o
<1>1. o \in {1, 2, 4, 8, 16, 32} \/ o \in {64, 128, 256, 512, 1024}
  BY DEF PowersOfTwo
<1>2. CASE o \in {1, 2, 4, 8, 16, 32}
  BY <1>2 DEF PowersOfTwo
<1>3. CASE o \in {64, 128, 256, 512, 1024}
  BY <1>3 DEF PowersOfTwo
<1>. QED
  BY <1>1, <1>2, <1>3

\* The remainder by m is the remainder by 2 * m, or that less m.
LEMMA HalfResidue ==
  ASSUME NEW k \in Nat, NEW m \in Nat, m > 0, NEW i \in 0 .. m - 1
  PROVE  k % m = i <=> k % (2 * m) = i \/ k % (2 * m) = i + m
<1>. DEFINE p == k \div m
            r == k % m
            q == k \div (2 * m)
            s == k % (2 * m)
<1>1. p \in Nat /\ r \in 0 .. m - 1 /\ k = m * p + r
  BY DivFacts
<1>2. q \in Nat /\ s \in 0 .. 2 * m - 1 /\ k = (2 * m) * q + s
  <2>1. 2 * m \in Nat /\ 2 * m > 0
    OBVIOUS
  <2>. QED
    BY <2>1, DivFacts
<1>. HIDE DEF p, r, q, s
<1>3. (2 * m) * q = m * (2 * q)
  BY <1>2
<1>. DEFINE u == 2 * q
<1>4. u \in Nat /\ k = m * u + s
  BY <1>2, <1>3
<1>. HIDE DEF u
<1>5. ASSUME p < u PROVE FALSE
  <2>1. m * (p + 1) =< m * u /\ m * (p + 1) = m * p + m /\ m * p \in Nat /\ m * u \in Nat
    BY <1>1, <1>4, <1>5
  <2>. QED
    BY <1>1, <1>2, <1>4, <2>1
<1>6. ASSUME p > u + 1 PROVE FALSE
  <2>1. m * (u + 2) =< m * p /\ m * (u + 2) = m * u + 2 * m /\ m * p \in Nat /\ m * u \in Nat
    BY <1>1, <1>4, <1>6
  <2>. QED
    BY <1>1, <1>2, <1>4, <2>1
<1>7. p = u \/ p = u + 1
  BY <1>1, <1>4, <1>5, <1>6
<1>8. ASSUME p = u PROVE r = s
  <2>1. m * p = m * u /\ m * p \in Nat
    BY <1>1, <1>4, <1>8
  <2>. QED
    BY <1>1, <1>2, <1>4, <2>1
<1>9. ASSUME p = u + 1 PROVE s = r + m
  <2>1. m * p = m * u + m /\ m * p \in Nat /\ m * u \in Nat
    BY <1>1, <1>4, <1>9
  <2>. QED
    BY <1>1, <1>2, <1>4, <2>1
<1>10. r = i <=> s = i \/ s = i + m
  BY <1>1, <1>2, <1>7, <1>8, <1>9
<1>. QED
  BY <1>10 DEF r, s

\* A round folds two slots into one; the first groups are the single threads, the
\* last one is all of them.
LEMMA GroupFacts ==
  ASSUME NEW t
  PROVE  /\ \A i \in Tids : Group(NumThreads, t, i) = {<<t, i>>}
         /\ Group(1, t, 0) = {<<t, i>> : i \in Tids}
         /\ \A m \in PowersOfTwo : \A i \in 0 .. m - 1 :
              Xor(Group(2 * m, t, i), Group(2 * m, t, i + m)) = Group(m, t, i)
<1>1. \A k \in Tids : k \in Nat /\ k < NumThreads
  BY ConstantFacts DEF Tids
<1>2. \A i \in Tids : Group(NumThreads, t, i) = {<<t, i>>}
  <2>. TAKE i \in Tids
  <2>1. \A k \in Tids : k % NumThreads = k
    BY <1>1, ConstantFacts, SmallResidue
  <2>. QED
    BY <2>1 DEF Group
<1>3. Group(1, t, 0) = {<<t, i>> : i \in Tids}
  <2>1. \A k \in Tids : k % 1 = 0
    BY <1>1
  <2>2. {k \in Tids : k % 1 = 0} = Tids
    BY <2>1
  <2>. QED
    BY <2>2 DEF Group
<1>4. ASSUME NEW m \in PowersOfTwo, NEW i \in 0 .. m - 1
      PROVE  Xor(Group(2 * m, t, i), Group(2 * m, t, i + m)) = Group(m, t, i)
  <2>1. m \in Nat /\ m > 0 /\ i \in Nat /\ i # i + m
    <3>1. m \in Nat /\ m > 0
      BY PowerFacts
    <3>. QED
      BY <3>1
  <2>2. \A k \in Tids : k % m = i <=> (k % (2 * m) = i \/ k % (2 * m) = i + m)
    BY <1>1, <2>1, HalfResidue
  <2>. DEFINE A == {k \in Tids : k % (2 * m) = i}
              B == {k \in Tids : k % (2 * m) = i + m}
              C == {k \in Tids : k % m = i}
  <2>3. C = A \cup B /\ A \cap B = {}
    BY <2>1, <2>2
  <2>4. /\ Group(2 * m, t, i) = {<<t, j>> : j \in A}
        /\ Group(2 * m, t, i + m) = {<<t, j>> : j \in B}
        /\ Group(m, t, i) = {<<t, j>> : j \in C}
    BY DEF Group
  <2>. HIDE DEF A, B, C
  <2>. QED
    BY <2>3, <2>4 DEF Xor
<1>. QED
  BY <1>2, <1>3, <1>4

\* A step of CTA c leaves the other CTAs' threads and slots alone.
Only(c) ==
  /\ UNCHANGED kind
  /\ \A d \in Ctas \ {c} : \A i \in Tids :
       /\ Label(d, i)' = Label(d, i) /\ tileId'[<<d, i>>] = tileId[<<d, i>>]
       /\ offset'[<<d, i>>] = offset[<<d, i>>] /\ reduction'[d][i] = reduction[d][i]

LEMMA GroupStays ==
  ASSUME NEW c \in Ctas, First(c)' = First(c)
  PROVE  \A m, i : Group(m, First(c), i)' = Group(m, First(c), i)
BY DEF Group

LEMMA LockedStays ==
  ASSUME NEW d \in Ctas, Locked(d),
         \A i \in Tids : /\ Label(d, i)' = Label(d, i)
                         /\ tileId'[<<d, i>>] = tileId[<<d, i>>]
                         /\ offset'[<<d, i>>] = offset[<<d, i>>]
                         /\ reduction'[d][i] = reduction[d][i]
  PROVE  Locked(d)'
<1>1. First(d)' = First(d) /\ 0 \in Tids
  BY ConstantFacts DEF First
<1>2. \A m, i : Group(m, First(d), i)' = Group(m, First(d), i)
  BY <1>1, GroupStays
<1>3. Depositing(d) => Depositing(d)'
  BY <1>1, <1>2 DEF Depositing
<1>4. Publishing(d) => Publishing(d)'
  BY <1>1, <1>2 DEF Publishing
<1>5. ASSUME NEW o \in PowersOfTwo, 2 * o =< NumThreads, Reducing(d, o) PROVE Reducing(d, o)'
  <2>1. \A i \in 0 .. 2 * o - 1 : i \in Tids
    <3>1. o \in Nat
      BY PowerFacts
    <3>. QED
      BY <1>5, <3>1, ConstantFacts DEF Tids
  <2>. QED
    BY <1>1, <1>2, <1>5, <2>1 DEF Reducing
<1>. QED
  BY <1>1, <1>3, <1>4, <1>5 DEF Locked

LEMMA LockFrame ==
  ASSUME kind = "static", NEW c \in Ctas, Only(c), LockStep, Locked(c)'
  PROVE  LockStep'
BY LockedStays DEF Only, LockStep

LEMMA LockInit == Init => LockStep
<1>. SUFFICES ASSUME Init, NEW c \in Ctas, kind = "static" PROVE Locked(c)
  BY DEF LockStep
<1>1. \A i \in Tids : Label(c, i) = "loop" /\ tileId[<<c, i>>] = c
  BY DEF Init, Label, ThreadIds
<1>2. Depositing(c)
  BY <1>1 DEF Depositing
<1>. QED
  BY <1>1, <1>2, ConstantFacts DEF Locked, First

\* Which phase a thread's label belongs to.
LEMMA Phase ==
  ASSUME NEW c \in Ctas, NEW i \in Tids, Locked(c)
  PROVE  /\ Label(c, i) \in {"loop", "deposit", "deposited", "finish", "exited"} => Depositing(c)
         /\ Label(c, i) \in {"reduce", "reduced"} =>
              \E o \in PowersOfTwo : 2 * o =< NumThreads /\ Reducing(c, o)
         /\ Label(c, i) \in {"publish", "published"} => Publishing(c)
         /\ Label(c, i) \notin {"claim", "clamp", "claimed", "test"}
BY DEF Locked, Depositing, Reducing, Publishing

\* A step of one thread.
Steps(c, i, l) == Goto(c, i, l) /\ UNCHANGED <<kind, tileId>>

LEMMA StepsTo ==
  ASSUME TypeOK, NEW c \in Ctas, NEW i \in Tids, NEW l, Steps(c, i, l)
  PROVE  /\ Label(c, i)' = l /\ \A j \in Tids \ {i} : Label(c, j)' = Label(c, j)
         /\ \A d \in Ctas \ {c} : \A j \in Tids : Label(d, j)' = Label(d, j)
         /\ First(c)' = First(c)
BY DEF Steps, Goto, Label, First, TypeOK, ThreadIds

LEMMA LockLoopTest ==
  ASSUME TypeOK, kind = "static", NEW c \in Ctas, NEW i \in Tids, LockStep, LoopTest(c, i)
  PROVE  LockStep'
<1>. DEFINE l == IF First(c) < TileCount THEN "deposit" ELSE "finish"
<1>1. Locked(c) /\ tileId[<<c, i>>] = First(c) /\ First(c) \in Nat
  BY FirstType DEF LockStep, Locked
<1>2. Label(c, i) = "loop" /\ Steps(c, i, l) /\ UNCHANGED <<offset, reduction>>
  BY <1>1 DEF LoopTest, Steps
<1>3. Depositing(c)
  BY <1>1, <1>2, Phase
<1>4. /\ Label(c, i)' = l /\ \A j \in Tids \ {i} : Label(c, j)' = Label(c, j)
      /\ \A d \in Ctas \ {c} : \A j \in Tids : Label(d, j)' = Label(d, j)
      /\ First(c)' = First(c)
  BY <1>2, StepsTo
<1>5. Only(c)
  BY <1>2, <1>4 DEF Only, Steps
<1>6. \/ l = "deposit" /\ First(c) < TileCount
      \/ l = "finish" /\ First(c) >= TileCount
  BY <1>1, ConstantFacts
<1>. HIDE DEF l
<1>7. Depositing(c)'
  BY <1>2, <1>3, <1>4, <1>6 DEF Depositing, Group
<1>8. Locked(c)'
  BY <1>1, <1>2, <1>4, <1>7 DEF Locked, Steps
<1>. QED
  BY <1>5, <1>8, LockFrame

LEMMA LockFinish ==
  ASSUME TypeOK, kind = "static", NEW c \in Ctas, NEW i \in Tids, LockStep, Finish(c, i)
  PROVE  LockStep'
<1>1. Locked(c)
  BY DEF LockStep
<1>2. Label(c, i) = "finish" /\ Steps(c, i, "exited") /\ UNCHANGED <<offset, reduction>>
  BY DEF Finish, Steps
<1>3. Depositing(c)
  BY <1>1, <1>2, Phase
<1>4. /\ Label(c, i)' = "exited" /\ \A j \in Tids \ {i} : Label(c, j)' = Label(c, j)
      /\ \A d \in Ctas \ {c} : \A j \in Tids : Label(d, j)' = Label(d, j)
      /\ First(c)' = First(c)
  BY <1>2, StepsTo
<1>5. Only(c)
  BY <1>2, <1>4 DEF Only, Steps
<1>6. Depositing(c)'
  BY <1>2, <1>3, <1>4 DEF Depositing, Group
<1>7. Locked(c)'
  BY <1>1, <1>2, <1>4, <1>6 DEF Locked, Steps
<1>. QED
  BY <1>5, <1>7, LockFrame

LEMMA LockDeposit ==
  ASSUME TypeOK, kind = "static", NEW c \in Ctas, NEW i \in Tids, LockStep, Deposit(c, i)
  PROVE  LockStep'
<1>1. Locked(c) /\ tileId[<<c, i>>] = First(c)
  BY DEF LockStep, Locked
<1>2. Label(c, i) = "deposit" /\ Steps(c, i, "deposited")
  BY DEF Deposit, Steps
<1>3. Depositing(c)
  BY <1>1, <1>2, Phase
<1>4. /\ Label(c, i)' = "deposited" /\ \A j \in Tids \ {i} : Label(c, j)' = Label(c, j)
      /\ \A d \in Ctas \ {c} : \A j \in Tids : Label(d, j)' = Label(d, j)
      /\ First(c)' = First(c)
  BY <1>2, StepsTo
<1>5. /\ offset'[<<c, i>>] = NumThreads \div 2 /\ reduction'[c][i] = {<<First(c), i>>}
      /\ \A j \in Tids \ {i} : /\ offset'[<<c, j>>] = offset[<<c, j>>]
                               /\ reduction'[c][j] = reduction[c][j]
      /\ \A d \in Ctas \ {c} : \A j \in Tids : /\ offset'[<<d, j>>] = offset[<<d, j>>]
                                               /\ reduction'[d][j] = reduction[d][j]
  BY <1>1 DEF Deposit, TypeOK, ThreadIds
<1>6. Only(c)
  BY <1>2, <1>4, <1>5 DEF Only, Steps
<1>7. reduction'[c][i] = Group(NumThreads, First(c), i)
  BY <1>5, GroupFacts
<1>8. Depositing(c)'
  <2>1. \A j \in Tids : Label(c, j)' = "deposited" =>
          /\ offset'[<<c, j>>] = NumThreads \div 2
          /\ reduction'[c][j] = Group(NumThreads, First(c), j)
    BY <1>3, <1>4, <1>5, <1>7 DEF Depositing
  <2>2. \A j \in Tids : Group(NumThreads, First(c), j)' = Group(NumThreads, First(c), j)
    BY <1>4 DEF Group
  <2>. QED
    BY <1>2, <1>3, <1>4, <2>1, <2>2 DEF Depositing
<1>9. Locked(c)'
  BY <1>1, <1>2, <1>4, <1>8 DEF Locked, Steps
<1>. QED
  BY <1>6, <1>9, LockFrame

LEMMA LockReduceRound ==
  ASSUME TypeOK, kind = "static", NEW c \in Ctas, NEW i \in Tids, LockStep, ReduceRound(c, i)
  PROVE  LockStep'
<1>1. Locked(c)
  BY DEF LockStep
<1>2. Label(c, i) = "reduce" /\ Steps(c, i, "reduced")
  BY DEF ReduceRound, Steps
<1>3. PICK o \in PowersOfTwo : 2 * o =< NumThreads /\ Reducing(c, o)
  BY <1>1, <1>2, Phase
<1>4. /\ Label(c, i)' = "reduced" /\ \A j \in Tids \ {i} : Label(c, j)' = Label(c, j)
      /\ \A d \in Ctas \ {c} : \A j \in Tids : Label(d, j)' = Label(d, j)
      /\ First(c)' = First(c)
  BY <1>2, StepsTo
<1>5. o \in Nat /\ o > 0 /\ \A j \in 0 .. 2 * o - 1 : j \in Tids
  <2>1. o \in Nat /\ o > 0
    BY PowerFacts
  <2>. QED
    BY <1>3, <2>1, ConstantFacts DEF Tids
<1>6. offset[<<c, i>>] = o /\ i \in Nat
  BY <1>2, <1>3 DEF Reducing, Tids
<1>7. /\ offset'[<<c, i>>] = o \div 2
      /\ \A j \in Tids \ {i} : offset'[<<c, j>>] = offset[<<c, j>>]
      /\ \A d \in Ctas \ {c} : \A j \in Tids : offset'[<<d, j>>] = offset[<<d, j>>]
  BY <1>6 DEF ReduceRound, TypeOK, ThreadIds
<1>8. /\ \A j \in Tids \ {i} : reduction'[c][j] = reduction[c][j]
      /\ \A d \in Ctas \ {c} : \A j \in Tids : reduction'[d][j] = reduction[d][j]
  BY DEF ReduceRound, TypeOK
<1>9. reduction'[c][i] = IF i < o THEN Group(o, First(c), i) ELSE reduction[c][i]
  <2>1. CASE i < o
    <3>1. i \in 0 .. 2 * o - 1 /\ i + o \in 0 .. 2 * o - 1 /\ ~(i + o < o) /\ i \in 0 .. o - 1
      BY <1>5, <1>6, <2>1
    <3>2. reduction[c][i] = Group(2 * o, First(c), i)
      BY <1>2, <1>3, <3>1 DEF Reducing
    <3>3. reduction[c][i + o] = Group(2 * o, First(c), i + o)
      BY <1>3, <3>1 DEF Reducing
    <3>4. reduction'[c][i] = Xor(reduction[c][i], reduction[c][i + o])
      BY <1>6, <2>1 DEF ReduceRound, TypeOK
    <3>. QED
      BY <2>1, <3>1, <3>2, <3>3, <3>4, GroupFacts
  <2>2. CASE ~(i < o)
    BY <1>6, <2>2 DEF ReduceRound
  <2>. QED
    BY <2>1, <2>2
<1>10. Only(c)
  BY <1>2, <1>4, <1>7, <1>8 DEF Only, Steps
<1>11. Reducing(c, o)'
  <2>1. First(c)' < TileCount
    BY <1>3, <1>4 DEF Reducing
  <2>2. \A j \in Tids : \/ Label(c, j)' = "reduce" /\ offset'[<<c, j>>] = o
                        \/ Label(c, j)' = "reduced" /\ offset'[<<c, j>>] = o \div 2
    BY <1>3, <1>4, <1>7 DEF Reducing
  <2>3. ASSUME NEW j \in 0 .. 2 * o - 1
        PROVE  reduction'[c][j] = IF j < o /\ Label(c, j)' = "reduced"
                                  THEN Group(o, First(c), j) ELSE Group(2 * o, First(c), j)
    <3>1. reduction[c][j] = IF j < o /\ Label(c, j) = "reduced"
                            THEN Group(o, First(c), j) ELSE Group(2 * o, First(c), j)
      BY <1>3 DEF Reducing
    <3>2. j \in Tids
      BY <1>5
    <3>. QED
      BY <1>2, <1>4, <1>8, <1>9, <3>1, <3>2
  <2>4. \A j \in 0 .. 2 * o - 1 : /\ Group(o, First(c), j)' = Group(o, First(c), j)
                                  /\ Group(2 * o, First(c), j)' = Group(2 * o, First(c), j)
    BY <1>4 DEF Group
  <2>. QED
    BY <2>1, <2>2, <2>3, <2>4 DEF Reducing
<1>12. Locked(c)'
  BY <1>1, <1>2, <1>3, <1>4, <1>11 DEF Locked, Steps
<1>. QED
  BY <1>10, <1>12, LockFrame

LEMMA LockPublish ==
  ASSUME TypeOK, kind = "static", NEW c \in Ctas, NEW i \in Tids, LockStep, PublishTile(c, i)
  PROVE  LockStep'
<1>1. Locked(c)
  BY DEF LockStep
<1>2. Label(c, i) = "publish" /\ Steps(c, i, "published") /\ UNCHANGED <<offset, reduction>>
  BY DEF PublishTile, Steps
<1>3. Publishing(c)
  BY <1>1, <1>2, Phase
<1>4. /\ Label(c, i)' = "published" /\ \A j \in Tids \ {i} : Label(c, j)' = Label(c, j)
      /\ \A d \in Ctas \ {c} : \A j \in Tids : Label(d, j)' = Label(d, j)
      /\ First(c)' = First(c)
  BY <1>2, StepsTo
<1>5. Only(c)
  BY <1>2, <1>4 DEF Only, Steps
<1>6. Publishing(c)'
  BY <1>2, <1>3, <1>4 DEF Publishing, Group
<1>7. Locked(c)'
  BY <1>1, <1>2, <1>4, <1>6 DEF Locked, Steps
<1>. QED
  BY <1>5, <1>7, LockFrame

\* The barrier opens on the whole CTA, which goes over to the next phase.
LEMMA LockSyncThreads ==
  ASSUME TypeOK, kind = "static", NEW c \in Ctas, LockStep, SyncThreads(c)
  PROVE  LockStep'
<1>. DEFINE Opens(from) == \A i \in Tids : Label(c, i) \in from
<1>1. Locked(c) /\ First(c) \in Nat
  BY FirstType DEF LockStep
<1>2. /\ \A i \in Tids : /\ Label(c, i)' = AfterBarrier(c, i)
                         /\ tileId'[<<c, i>>] = IF Label(c, i) = "published"
                                                THEN tileId[<<c, i>>] + CtaCount
                                                ELSE tileId[<<c, i>>]
      /\ \A d \in Ctas \ {c} : \A i \in Tids : /\ Label(d, i)' = Label(d, i)
                                               /\ tileId'[<<d, i>>] = tileId[<<d, i>>]
      /\ UNCHANGED <<kind, offset, reduction>>
  BY DEF SyncThreads, Label, ThreadIds
<1>3. /\ \E i \in Tids : Label(c, i) \in Barriers
      /\ \A i \in Tids : Label(c, i) \in Barriers \cup {"exited"}
  BY DEF SyncThreads
<1>4. Only(c)
  BY <1>2 DEF Only
<1>5. 0 \in Tids /\ \A i \in Tids : tileId[<<c, i>>] = First(c)
  BY <1>1, ConstantFacts DEF Locked
<1>6. CASE Depositing(c)
  <2>1. First(c) < TileCount
    BY <1>3, <1>6 DEF Depositing, Barriers
  <2>2. \A i \in Tids : /\ Label(c, i) = "deposited" /\ offset[<<c, i>>] = NumThreads \div 2
                        /\ reduction[c][i] = Group(NumThreads, First(c), i)
    <3>. TAKE i \in Tids
    <3>1. Label(c, i) # "exited"
      <4>1. Label(c, i) = "exited" => First(c) >= TileCount
        BY <1>6 DEF Depositing
      <4>. QED
        BY <1>1, <2>1, <4>1, ConstantFacts
    <3>. QED
      BY <1>3, <1>6, <3>1 DEF Depositing, Barriers
  <2>3. First(c)' = First(c) /\ \A i \in Tids : tileId'[<<c, i>>] = First(c)
    BY <1>2, <1>5, <2>2 DEF First
  <2>4. NumThreads \in PowersOfTwo
    BY ProbeAssumption
  <2>5. CASE NumThreads = 1 /\ NumThreads \div 2 = 0
    <3>1. \A i \in Tids : Label(c, i)' = "publish"
      <4>1. \A i \in Tids : ~(offset[<<c, i>>] > 0)
        BY <2>2, <2>5
      <4>. QED
        BY <1>2, <2>2, <4>1 DEF AfterBarrier
    <3>2. reduction'[c][0] = Group(1, First(c), 0)
      BY <1>2, <1>5, <2>2, <2>5
    <3>3. Group(1, First(c), 0)' = Group(1, First(c), 0)
      BY <2>3, GroupStays
    <3>4. Publishing(c)'
      BY <2>1, <2>3, <3>1, <3>2, <3>3 DEF Publishing
    <3>. QED
      BY <1>4, <2>3, <3>4, LockFrame DEF Locked
  <2>6. CASE /\ NumThreads \div 2 \in PowersOfTwo /\ NumThreads \div 2 > 0
             /\ 2 * (NumThreads \div 2) = NumThreads
    <3>. DEFINE o == NumThreads \div 2
    <3>1. o \in PowersOfTwo /\ o > 0 /\ 2 * o = NumThreads
      BY <2>6
    <3>2. \A i \in Tids : Label(c, i)' = "reduce"
      BY <1>2, <2>2, <2>6 DEF AfterBarrier
    <3>3. \A i \in Tids : offset'[<<c, i>>] = o
      BY <1>2, <2>2
    <3>4. \A i \in 0 .. 2 * o - 1 : reduction'[c][i] = Group(2 * o, First(c), i)
      BY <1>2, <2>2, <3>1 DEF Tids
    <3>. HIDE DEF o
    <3>5. \A i \in 0 .. 2 * o - 1 : i \in Tids /\ Group(2 * o, First(c), i)' = Group(2 * o, First(c), i)
      BY <2>3, <3>1 DEF Group, Tids
    <3>6. Reducing(c, o)'
      BY <2>1, <2>3, <3>2, <3>3, <3>4, <3>5 DEF Reducing
    <3>7. 2 * o =< NumThreads
      BY <3>1, ConstantFacts
    <3>. QED
      BY <1>4, <2>3, <3>1, <3>6, <3>7, LockFrame DEF Locked
  <2>. QED
    BY <2>4, <2>5, <2>6, PowerFacts
<1>7. ASSUME NEW o \in PowersOfTwo, 2 * o =< NumThreads, Reducing(c, o) PROVE LockStep'
  <2>1. \A i \in Tids : Label(c, i) = "reduced" /\ offset[<<c, i>>] = o \div 2
    BY <1>3, <1>7 DEF Reducing, Barriers
  <2>2. First(c) < TileCount
    BY <1>7 DEF Reducing
  <2>3. First(c)' = First(c) /\ \A i \in Tids : tileId'[<<c, i>>] = First(c)
    BY <1>2, <1>5, <2>1 DEF First
  <2>4. o \in Nat /\ o > 0 /\ \A i \in 0 .. o - 1 : i \in Tids
    <3>1. o \in Nat /\ o > 0
      BY PowerFacts
    <3>. QED
      BY <1>7, <3>1, ConstantFacts DEF Tids
  <2>5. \A i \in 0 .. o - 1 : reduction[c][i] = Group(o, First(c), i)
    <3>. TAKE i \in 0 .. o - 1
    <3>1. i \in 0 .. 2 * o - 1 /\ i < o /\ i \in Tids
      BY <2>4
    <3>. QED
      BY <1>7, <2>1, <3>1 DEF Reducing
  <2>6. CASE o = 1 /\ o \div 2 = 0
    <3>1. \A i \in Tids : Label(c, i)' = "publish"
      <4>1. \A i \in Tids : ~(offset[<<c, i>>] > 0)
        BY <2>1, <2>6
      <4>. QED
        BY <1>2, <2>1, <4>1 DEF AfterBarrier
    <3>2. reduction'[c][0] = Group(1, First(c), 0)
      BY <1>2, <2>5, <2>6
    <3>3. Group(1, First(c), 0)' = Group(1, First(c), 0)
      BY <2>3, GroupStays
    <3>4. Publishing(c)'
      BY <2>2, <2>3, <3>1, <3>2, <3>3 DEF Publishing
    <3>. QED
      BY <1>4, <2>3, <3>4, LockFrame DEF Locked
  <2>7. CASE o \div 2 \in PowersOfTwo /\ o \div 2 > 0 /\ 2 * (o \div 2) = o
    <3>. DEFINE p == o \div 2
    <3>1. p \in PowersOfTwo /\ p > 0 /\ 2 * p = o
      BY <2>7
    <3>2. \A i \in Tids : Label(c, i)' = "reduce"
      BY <1>2, <2>1, <2>7 DEF AfterBarrier
    <3>3. \A i \in Tids : offset'[<<c, i>>] = p
      BY <1>2, <2>1
    <3>. HIDE DEF p
    <3>4. \A i \in 0 .. 2 * p - 1 : reduction'[c][i] = Group(2 * p, First(c), i)
      BY <1>2, <2>5, <3>1
    <3>5. \A i \in 0 .. 2 * p - 1 : i \in Tids /\ Group(2 * p, First(c), i)' = Group(2 * p, First(c), i)
      BY <2>3, <2>4, <3>1 DEF Group
    <3>6. Reducing(c, p)'
      BY <2>2, <2>3, <3>2, <3>3, <3>4, <3>5 DEF Reducing
    <3>7. 2 * p =< NumThreads
      BY <1>7, <2>4, <3>1, ConstantFacts
    <3>. QED
      BY <1>4, <2>3, <3>1, <3>6, <3>7, LockFrame DEF Locked
  <2>. QED
    BY <2>6, <2>7, PowerFacts
<1>8. CASE Publishing(c)
  <2>1. \A i \in Tids : Label(c, i) = "published"
    BY <1>3, <1>8 DEF Publishing, Barriers
  <2>2. \A i \in Tids : Label(c, i)' = "loop" /\ tileId'[<<c, i>>] = First(c) + CtaCount
    BY <1>2, <1>5, <2>1 DEF AfterBarrier
  <2>3. Depositing(c)'
    BY <2>2 DEF Depositing
  <2>. QED
    BY <1>4, <1>5, <2>2, <2>3, LockFrame DEF Locked, First
<1>. QED
  BY <1>1, <1>6, <1>7, <1>8 DEF Locked

LEMMA LockStepStep ==
  ASSUME TypeOK, LockStep, [Next]_vars
  PROVE  LockStep'
<1>. SUFFICES ASSUME kind' = "static" PROVE LockStep'
  BY DEF LockStep
<1>1. kind = "static"
  BY KindFixed
<1>2. ASSUME NEW c \in Ctas, NEW i \in Tids,
             \/ ReadClaim(c, i) \/ SkipClaim(c, i)
             \/ i = 0 /\ (ClaimBegin(c) \/ ClaimEnd(c))
      PROVE  FALSE
  <2>1. Locked(c)
    BY <1>1 DEF LockStep
  <2>2. Label(c, i) \in {"claim", "clamp", "claimed", "test"}
    BY <1>2 DEF ReadClaim, SkipClaim, ClaimBegin, ClaimEnd
  <2>. QED
    BY <2>1, <2>2, Phase
<1>3. CASE UNCHANGED vars
  BY <1>1, <1>3, LockedStays DEF vars, LockStep, Label
<1>. QED
  BY <1>1, <1>2, <1>3, LockLoopTest, LockDeposit, LockReduceRound, LockPublish, LockFinish,
     LockSyncThreads DEF Next, Thread, Finished

------------------------------------------------------------------------------

StaticInv == TypeOK /\ LockStep /\ StaticChecksums

LEMMA StaticChecksumsStep ==
  ASSUME StaticInv, [Next]_vars
  PROVE  StaticChecksums'
<1>. SUFFICES ASSUME kind' = "static" PROVE ChecksumOwnTile'
  BY DEF StaticChecksums
<1>0. kind = "static" /\ ChecksumOwnTile
  BY KindFixed DEF StaticInv, StaticChecksums
<1>1. CASE checksums' = checksums
  BY <1>0, <1>1 DEF ChecksumOwnTile
<1>2. ASSUME NEW c \in Ctas, PublishTile(c, 0) PROVE ChecksumOwnTile'
  <2>. DEFINE t == First(c)
  <2>1. Label(c, 0) = "publish" /\ 0 \in Tids /\ Locked(c)
    BY <1>0, <1>2, ConstantFacts DEF PublishTile, StaticInv, LockStep
  <2>2. reduction[c][0] = Group(1, t, 0)
    BY <2>1, Phase DEF Publishing
  <2>3. reduction[c][0] = {<<t, i>> : i \in Tids}
    BY <2>2, GroupFacts
  <2>4. checksums' = [checksums EXCEPT ![t] = reduction[c][0]]
    BY <1>2 DEF PublishTile, First
  <2>. HIDE DEF t
  <2>. QED
    BY <1>0, <2>3, <2>4 DEF ChecksumOwnTile, StaticInv, TypeOK
<1>3. ASSUME NEW c \in Ctas, NEW i \in Tids, Thread(c, i)
      PROVE  checksums' = checksums \/ PublishTile(c, 0)
  <2>1. ~PublishTile(c, i) => checksums' = checksums
    BY <1>3 DEF Thread, ClaimBegin, ClaimEnd, SkipClaim, ReadClaim, LoopTest, Deposit,
         ReduceRound, Finish, resultVars
  <2>2. PublishTile(c, i) /\ i # 0 => checksums' = checksums
    BY DEF PublishTile
  <2>. QED
    BY <2>1, <2>2
<1>4. ASSUME NEW c \in Ctas, SyncThreads(c) PROVE checksums' = checksums
  BY <1>4 DEF SyncThreads, resultVars
<1>5. UNCHANGED vars => checksums' = checksums
  BY DEF vars, resultVars
<1>. QED
  BY <1>1, <1>2, <1>3, <1>4, <1>5 DEF Next, Finished, StaticInv

\* The static kernel's barriers suffice: the checksum of every tile is the reduction of
\* one contribution of each thread to that tile and of nothing else, whatever power of
\* two the number of threads is.
THEOREM ChecksumsStatic == Spec => []StaticChecksums
<1>1. Init => StaticInv
  BY TypeOK_Init, LockInit DEF StaticInv, StaticChecksums, ChecksumOwnTile, Init
<1>2. StaticInv /\ [Next]_vars => StaticInv'
  BY TypeOK_Step, LockStepStep, StaticChecksumsStep DEF StaticInv
<1>. QED
  BY <1>1, <1>2, PTL DEF Spec, StaticInv
==============================================================================
