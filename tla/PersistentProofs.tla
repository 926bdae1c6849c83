---------------------------- MODULE PersistentProofs ----------------------------
(***************************************************************************)
(* Proofs about the two persistent kernels whose roles each find their own *)
(* next tile, for every worklist, grid, pipeline and number of threads.    *)
(* What the pipeline asks of a kernel, SameTiles, follows in both from the *)
(* n-th tile being a function of n: in the static kernel the n-th of the   *)
(* stride, in the CLC kernel the n-th response.                            *)
(***************************************************************************)
EXTENDS StaticKernel, ClcKernel, PipelineProofs

------------------------------------------------------------------------------
(* The static kernel (V1, V6)                                              *)

\* tile_id of a role that has gone through n tiles.
NthTile(n) == bx + n * CtaCount

StaticInv ==
  /\ bx \in 0 .. CtaCount - 1
  /\ \A r \in Roles :
       /\ cursor[r] = NthTile(Begun(r))
       /\ \A i \in 1 .. Begun(r) :
            begun[r][i] = NthTile(i - 1) /\ begun[r][i] < TileCount
       /\ at[r] = "end" => cursor[r] >= TileCount
  /\ DOMAIN cursor = Roles

\* The invariant of a CTA.
Inv == PipeInv /\ StaticInv /\ KeptInv

------------------------------------------------------------------------------

LEMMA StrideFacts ==
  /\ TileCount \in Nat /\ CtaCount \in Nat /\ CtaCount > 0
  /\ \A i : i \in WorkTiles <=> i \in 0 .. TileCount - 1
BY StaticAssumption

LEMMA NthTileFacts ==
  ASSUME bx \in 0 .. CtaCount - 1, NEW n \in Nat
  PROVE  /\ NthTile(n) \in Nat /\ NthTile(0) = bx
         /\ NthTile(n + 1) = NthTile(n) + CtaCount
         /\ \A m \in Nat : m =< n => NthTile(m) =< NthTile(n)
<1>1. n * CtaCount \in Nat /\ (n + 1) * CtaCount = n * CtaCount + CtaCount
      /\ 0 * CtaCount = 0
  BY StrideFacts
<1>2. ASSUME NEW m \in Nat, m =< n PROVE m * CtaCount =< n * CtaCount
  BY <1>2, StrideFacts
<1>3. \A m \in Nat : m * CtaCount \in Nat
  BY StrideFacts
<1>4. bx \in Nat /\ CtaCount \in Nat
  BY StrideFacts
<1>. QED
  BY <1>1, <1>2, <1>3, <1>4 DEF NthTile

\* The roles agree on the tiles although none tells another.
LEMMA StrideIsSame ==
  ASSUME PipeInv, StaticInv
  PROVE  SameTiles
<1>1. \A r \in Roles : Begun(r) \in Nat
  BY CountFacts, RoleFacts DEF PipeInv
<1>2. ASSUME NEW i \in 1 .. Begun("tma")
      PROVE  begun["tma"][i] \in WorkTiles
  <2>1. i - 1 \in Nat
    BY <1>1, RoleFacts
  <2>2. begun["tma"][i] = NthTile(i - 1) /\ begun["tma"][i] < TileCount
    BY RoleFacts DEF StaticInv
  <2>3. NthTile(i - 1) \in Nat
    BY <2>1, NthTileFacts DEF StaticInv
  <2>. QED
    BY <2>2, <2>3, StrideFacts
<1>3. ASSUME NEW i \in 1 .. Begun("tma"), i =< Begun(Leader)
      PROVE  begun["tma"][i] = begun[Leader][i]
  <2>1. i \in 1 .. Begun(Leader)
    BY <1>1, <1>3, RoleFacts
  <2>. QED
    BY <2>1, RoleFacts DEF StaticInv
<1>4. ASSUME NEW r \in Roles, NEW q \in Roles, at[r] = "end", Begun(r) < Begun(q)
      PROVE  FALSE
  <2>. DEFINE n == Begun(r)
  <2>1. n \in Nat /\ n + 1 \in 1 .. Begun(q)
    BY <1>1, <1>4
  <2>2. NthTile(n) >= TileCount
    BY <1>4 DEF StaticInv
  <2>. HIDE DEF n
  <2>3. begun[q][n + 1] = NthTile((n + 1) - 1) /\ begun[q][n + 1] < TileCount
    BY <2>1 DEF StaticInv
  <2>4. (n + 1) - 1 = n
    BY <2>1
  <2>5. NthTile(n) \in Nat
    BY <2>1, NthTileFacts DEF StaticInv
  <2>. QED
    BY <2>2, <2>3, <2>4, <2>5, StrideFacts
<1>5. ASSUME NEW r \in Roles, NEW q \in Roles, at[r] = "end", at[q] = "end"
      PROVE  Begun(r) = Begun(q)
  BY <1>1, <1>4, <1>5
<1>. QED
  BY <1>2, <1>3, <1>5 DEF SameTiles

LEMMA StaticInit ==
  ASSUME Init
  PROVE  Inv
<1>1. PipeInv /\ KeptInv
  BY PipelineInitInv, KeptInit DEF Init
<1>2. \A r \in Roles : Begun(r) = 0 /\ at[r] = "next" /\ cursor[r] = bx
  BY DEF Init, PipelineInit, Begun
<1>3. bx \in 0 .. CtaCount - 1 /\ DOMAIN cursor = Roles
  BY DEF Init
<1>4. NthTile(0) = bx
  BY <1>3, NthTileFacts
<1>. QED
  BY <1>1, <1>2, <1>3, <1>4 DEF Inv, StaticInv

LEMMA TakeTileInv ==
  ASSUME Inv, NEW r \in Roles, TakeTile(r)
  PROVE  Inv'
<1>. USE DEF Inv
<1>. DEFINE n == Begun(r)
            t == cursor[r]
<1>1. /\ BeginTile(r, t) /\ t < TileCount /\ bx' = bx
      /\ cursor' = [cursor EXCEPT ![r] = t + CtaCount]
  BY DEF TakeTile
<1>2. n \in Nat /\ t = NthTile(n) /\ bx \in 0 .. CtaCount - 1
  BY CountFacts DEF PipeInv, StaticInv
<1>3. t \in WorkTiles /\ t \in WorkTiles \cup {NoTile}
  BY <1>1, <1>2, NthTileFacts, StrideFacts
<1>4. PipeInv' /\ KeptInv'
  BY <1>1, <1>3, LoopInv, KeptLoop
<1>5. begun' = [begun EXCEPT ![r] = Append(begun[r], t)] /\ at[r] = "next"
  BY <1>1 DEF BeginTile
<1>6. /\ Begun(r)' = n + 1 /\ begun'[r][n + 1] = t
      /\ \A i \in 1 .. n : begun'[r][i] = begun[r][i]
      /\ \A q \in Roles \ {r} : begun'[q] = begun[q] /\ Begun(q)' = Begun(q)
  BY <1>3, <1>5, AppendBegun DEF PipeInv
<1>7. \A m : NthTile(m)' = NthTile(m)
  BY <1>1 DEF NthTile
<1>8. at'[r] # "end" /\ \A q \in Roles \ {r} : at'[q] = at[q]
  BY <1>1, RoleFacts DEF BeginTile, Move, PipeInv, PipelineTypeOK
<1>9. /\ DOMAIN cursor' = Roles /\ cursor'[r] = NthTile(n + 1)
      /\ \A q \in Roles \ {r} : cursor'[q] = cursor[q]
  BY <1>1, <1>2, NthTileFacts DEF StaticInv
<1>. HIDE DEF n, t
<1>10. ASSUME NEW q \in Roles
       PROVE  /\ cursor'[q] = NthTile(Begun(q)')
              /\ \A i \in 1 .. Begun(q)' :
                   begun'[q][i] = NthTile(i - 1) /\ begun'[q][i] < TileCount
              /\ at'[q] = "end" => cursor'[q] >= TileCount
  <2>1. CASE q = r
    <3>1. ASSUME NEW i \in 1 .. n + 1
          PROVE  begun'[r][i] = NthTile(i - 1) /\ begun'[r][i] < TileCount
      <4>1. CASE i = n + 1
        <5>1. i - 1 = n
          BY <1>2, <4>1
        <5>. QED
          BY <1>1, <1>2, <1>6, <4>1, <5>1
      <4>2. CASE i # n + 1
        <5>1. i \in 1 .. n
          BY <1>2, <4>2
        <5>. QED
          BY <1>6, <5>1 DEF StaticInv, n
      <4>. QED
        BY <4>1, <4>2
    <3>. QED
      BY <1>6, <1>8, <1>9, <2>1, <3>1
  <2>2. CASE q # r
    BY <1>6, <1>8, <1>9, <2>2 DEF StaticInv
  <2>. QED
    BY <2>1, <2>2
<1>. QED
  BY <1>1, <1>2, <1>4, <1>7, <1>9, <1>10 DEF StaticInv

\* What StaticInv needs of a step that begins no tile.
LEMMA StrideFrame ==
  ASSUME StaticInv, begun' = begun, UNCHANGED <<bx, cursor>>,
         \A r \in Roles : at'[r] = "end" => at[r] = "end" \/ cursor[r] >= TileCount
  PROVE  StaticInv'
<1>1. \A r : Begun(r)' = Begun(r)
  BY DEF Begun
<1>2. \A m : NthTile(m)' = NthTile(m)
  BY DEF NthTile
<1>. QED
  BY <1>1, <1>2 DEF StaticInv

LEMMA LeaveLoopInv ==
  ASSUME Inv, NEW r \in Roles, LeaveLoop(r)
  PROVE  Inv'
<1>. USE DEF Inv
<1>1. EndLoop(r) /\ cursor[r] >= TileCount /\ UNCHANGED <<bx, cursor>>
  BY DEF LeaveLoop
<1>2. PipeInv' /\ KeptInv'
  BY <1>1, LoopInv, KeptLoop
<1>3. begun' = begun /\ \A q \in Roles \ {r} : at'[q] = at[q]
  BY <1>1 DEF EndLoop, Move, PipeInv, PipelineTypeOK
<1>. QED
  BY <1>1, <1>2, <1>3, StrideFrame

LEMMA StaticNext ==
  ASSUME Inv, [Next]_staticVars
  PROVE  Inv'
<1>. USE DEF Inv
<1>1. SameTiles
  BY StrideIsSame
<1>2. ASSUME NEW r \in Roles, Loop(r) PROVE Inv'
  BY <1>2, TakeTileInv, LeaveLoopInv DEF Loop
<1>3. CASE PipelineStep /\ UNCHANGED <<bx, cursor>>
  <2>1. PipeInv' /\ KeptInv'
    BY <1>1, <1>3, PipelineStepInv, KeptStep
  <2>2. begun' = begun /\ \A r \in Roles : at'[r] = "end" => at[r] = "end"
    BY <1>3, StepKeepsLoops DEF PipeInv
  <2>. QED
    BY <1>3, <2>1, <2>2, StrideFrame
<1>4. CASE UNCHANGED staticVars
  <2>1. PipeInv' /\ KeptInv'
    BY <1>4, PipeStutter, KeptStutter DEF staticVars
  <2>2. begun' = begun /\ at' = at /\ UNCHANGED <<bx, cursor>>
    BY <1>4 DEF staticVars, pipeVars
  <2>. QED
    BY <2>1, <2>2, StrideFrame
<1>. QED
  BY <1>2, <1>3, <1>4 DEF Next, Finished

------------------------------------------------------------------------------

\* The static kernel keeps the pipeline's invariant: every barrier and cursor has
\* the parity of the count it stands for, every stage and buffer holds the tile its
\* readers take it for, and each role is where its stride has brought it.
THEOREM StaticPipeline == Spec => []Inv
<1>1. Init => Inv
  BY StaticInit
<1>2. Inv /\ [Next]_staticVars => Inv'
  BY StaticNext
<1>. QED
  BY <1>1, <1>2, PTL DEF Spec

\* The variables of a CTA of the static kernel keep their types: barriers never
\* count below zero, cursors stay on the ring, rows are rows of operand pairs.
THEOREM StaticTypes == Spec => []PipelineTypeOK
<1>1. Inv => PipelineTypeOK
  BY DEF Inv, PipeInv
<1>. QED
  BY <1>1, StaticPipeline, PTL

\* No memory of a CTA of the static kernel is read and written at once, whatever
\* the grid, the worklist, the ring's depth, the K loop and the warpgroup's size.
THEOREM StaticNoRace == Spec => []NoDataRace
<1>1. Inv => NoDataRace
  BY StrideIsSame, PipeSafe DEF Inv
<1>. QED
  BY <1>1, StaticPipeline, PTL

\* What the static kernel writes to an output tile is that tile's K reduction.
THEOREM StaticOutput == Spec => []OutputCorrect
<1>1. Inv => OutputCorrect
  BY StrideIsSame, PipeSafe DEF Inv
<1>. QED
  BY <1>1, StaticPipeline, PTL

\* A tile is in a CTA's stride when it is the n-th tile of it for some n.
LEMMA InStride ==
  ASSUME bx \in 0 .. CtaCount - 1, NEW t \in WorkTiles
  PROVE  t \in MyTiles <=> \E n \in Nat : t = NthTile(n)
<1>1. t \in Nat /\ t =< TileCount - 1 /\ bx \in Nat /\ CtaCount \in Nat \ {0}
  BY StrideFacts
<1>2. t \in MyTiles <=> t >= bx /\ (t - bx) % CtaCount = 0
  BY <1>1, StrideFacts DEF MyTiles, StaticCtaAssignment, PyRange
<1>3. ASSUME t >= bx, (t - bx) % CtaCount = 0
      PROVE  \E n \in Nat : t = NthTile(n)
  <2>. DEFINE a == t - bx
              q == a \div CtaCount
  <2>1. a \in Nat
    BY <1>1, <1>3
  <2>. HIDE DEF a
  <2>2. a = CtaCount * q + (a % CtaCount) /\ q \in Nat
    BY <1>1, <2>1, DivMod, DivNat
  <2>. HIDE DEF q
  <2>3. t - bx = q * CtaCount
    BY <1>1, <1>3, <2>2 DEF a
  <2>4. q * CtaCount \in Int
    BY <1>1, <2>2
  <2>5. t = bx + q * CtaCount
    BY <1>1, <2>3, <2>4
  <2>. QED
    BY <2>2, <2>5 DEF NthTile
<1>4. ASSUME NEW n \in Nat, t = NthTile(n)
      PROVE  t >= bx /\ (t - bx) % CtaCount = 0
  <2>1. n * CtaCount \in Nat /\ t = bx + n * CtaCount
    BY <1>1, <1>4 DEF NthTile
  <2>2. t - bx = n * CtaCount /\ t >= bx
    BY <1>1, <2>1
  <2>3. (n * CtaCount + 0) % CtaCount = 0 /\ 0 \in 0 .. CtaCount - 1
    BY <1>1, DivOfSum
  <2>. QED
    BY <2>1, <2>2, <2>3
<1>. QED
  BY <1>2, <1>3, <1>4

\* A CTA of the static kernel that has exited has written the tiles the host mirror
\* of the grid stride gives it, each of them and no other.
THEOREM StrideIsStored == Spec => []StrideStored
<1>1. ASSUME Inv PROVE StrideStored
  <2>. USE DEF Inv
  <2>1. SUFFICES ASSUME exited, NEW t \in WorkTiles
                 PROVE  D[t] # NoRows <=> t \in MyTiles
    BY DEF StrideStored
  <2>. DEFINE n == Begun(Leader)
  <2>2. at[Leader] = "end" /\ n \in Nat
    BY <1>1, <2>1, CountFacts, RoleFacts DEF PipeInv, ExitInv
  <2>3. bx \in 0 .. CtaCount - 1 /\ NthTile(n) >= TileCount
    BY <1>1, <2>2, RoleFacts DEF StaticInv
  <2>4. \A i \in 1 .. n : begun[Leader][i] = NthTile(i - 1)
    BY <1>1, RoleFacts DEF StaticInv
  <2>5. \A i \in 1 .. n : D[begun[Leader][i]] # NoRows
    BY <1>1, <2>2 DEF KeptInv, Kept
  <2>6. D[t] # NoRows => \E j \in 1 .. n : begun[Leader][j] = t
    BY <1>1 DEF PipeInv, StoredInv
  <2>. HIDE DEF n
  <2>7. ASSUME NEW j \in 1 .. n, begun[Leader][j] = t PROVE t \in MyTiles
    <3>1. j - 1 \in Nat /\ t = NthTile(j - 1)
      BY <2>2, <2>4, <2>7
    <3>. QED
      BY <2>3, <3>1, InStride
  <2>8. ASSUME NEW m \in Nat, t = NthTile(m) PROVE D[t] # NoRows
    <3>1. m < n
      <4>1. ASSUME n =< m PROVE FALSE
        <5>1. NthTile(n) =< NthTile(m)
          BY <2>2, <2>3, <4>1, NthTileFacts
        <5>2. NthTile(n) \in Nat /\ t \in Nat /\ t < TileCount
          BY <2>2, <2>3, NthTileFacts, StrideFacts
        <5>. QED
          BY <2>3, <2>8, <5>1, <5>2, StrideFacts
      <4>. QED
        BY <2>2, <4>1
    <3>2. m + 1 \in 1 .. n /\ (m + 1) - 1 = m
      BY <2>2, <3>1
    <3>. QED
      BY <2>4, <2>5, <2>8, <3>2
  <2>. QED
    BY <2>3, <2>6, <2>7, <2>8, InStride
<1>. QED
  BY <1>1, StaticPipeline, PTL

------------------------------------------------------------------------------
(***************************************************************************)
(* The CLC kernel (V5).  The responses are counted: how many have been     *)
(* asked for and have landed, how many each role has waited for, read and  *)
(* arrived for.  The counts are so close together that the parities of the *)
(* two barriers tell them apart.                                           *)
(***************************************************************************)

Landed == Len(inherited) - 1
Asked == IF requested THEN Landed + 1 ELSE Landed

\* Responses role r has read: the loader begins a tile before it looks for one, the
\* others after.
Read(r) ==
  IF r = "tma" THEN IF clc[r] \in {"await", "read"} THEN Begun(r) - 1 ELSE Begun(r)
  ELSE IF clc[r] \in {"await", "read"} THEN Begun(r) ELSE Begun(r) + 1

\* Responses it has waited for, has passed ReadSync with, and has arrived for.
Heard(r) == IF clc[r] = "read" THEN Read(r) + 1 ELSE Read(r)
Synced(r) == IF clc[r] = "sync" THEN Read(r) - 1 ELSE Read(r)
Arrived(r) == IF clc[r] \in {"sync", "finish"} THEN Read(r) - 1 ELSE Read(r)
SchedArrived == IF sched = "read" THEN Asked - 1 ELSE Asked

\* The roles that arrive on `finished`: the leader does for all threads.
Finishers == {"tma", "mma", Leader}
AllArrived == SchedArrived = Asked /\ \A r \in Finishers : Arrived(r) = Asked
OneArrived(r) == IF Arrived(r) = Asked THEN 1 ELSE 0
Arrivals ==
  (IF SchedArrived = Asked THEN 1 ELSE 0)
    + OneArrived("tma") + OneArrived("mma") + OneArrived(Leader)

ClcTypes ==
  /\ pending \subseteq WorkTiles
  /\ inherited \in Seq(WorkTiles \cup {Denied}) /\ Len(inherited) > 0
  /\ requested \in BOOLEAN
  /\ sched \in {"ask", "read", "left"}
  /\ clc \in [Roles -> {"begin", "await", "read", "sync", "finish"}]
  /\ readyPs \in [Roles -> CursorType(1)]
  /\ got \in [Roles -> WorkTiles \cup {Denied}]
  /\ coord \in [Roles -> WorkTiles \cup {Denied}]

\* Nobody is more than a response behind, or ahead of what has landed, and the
\* threads pass ReadSync together.
ClcCountInv ==
  /\ \A r \in Finishers : Arrived(r) \in {Asked - 1, Asked}
  /\ \A r \in Roles : Heard(r) =< Landed /\ Read(r) >= 0
  /\ \A w \in Threads : Synced(w) = Synced(Leader)
  /\ \A r \in Roles : clc[r] = "sync" => r \in Threads
  /\ \A r \in Roles : clc[r] = "finish" => r \in Finishers
  /\ requested => sched = "read"

ClcParityInv ==
  /\ full = IF requested THEN [phase |-> Landed % 2, pending |-> 0, tx |-> 1]
            ELSE [phase |-> Landed % 2, pending |-> 1, tx |-> 0]
  /\ \A r \in Roles : readyPs[r] = [stage |-> 0, phase |-> Heard(r) % 2]
  /\ schedPs = [stage |-> 0, phase |-> (Asked + 1) % 2]
  /\ AllArrived => finished = [phase |-> Asked % 2, pending |-> 4, tx |-> 0]
  /\ ~AllArrived =>
       finished = [phase |-> (Asked + 1) % 2, pending |-> 4 - Arrivals, tx |-> 0]

\* What the roles hold, and where the failed request is.
ClcContentInv ==
  /\ inherited[1] = Me
  /\ \A r \in Roles : got[r] = inherited[Read(r) + 1]
  /\ clc["tma"] = "begin" => coord["tma"] = got["tma"]
  /\ \A w \in Threads : coord[w] = inherited[Begun(w) + 1]
  /\ \A w \in {"tma"} \cup Threads : \A i \in 1 .. Begun(w) :
       begun[w][i] = inherited[i] /\ inherited[i] # Denied
  /\ \A i \in 1 .. Landed : inherited[i] # Denied
  /\ inherited[Landed + 1] = Denied => ~requested /\ sched \in {"read", "left"}
  /\ \A r \in Roles : at[r] = "end" =>
       got[r] = Denied /\ clc[r] = IF r = "tma" THEN "begin" ELSE "await"

ClcInv == ClcTypes /\ ClcCountInv /\ ClcParityInv /\ ClcContentInv

\* The invariant of a CTA.
KernelInv == PipeInv /\ KeptInv /\ ClcInv

------------------------------------------------------------------------------
(* What the counts say                                                     *)

LEMMA ClcCounts ==
  ASSUME ClcTypes, PipelineTypeOK
  PROVE  /\ Landed \in Nat /\ Landed + 1 = Len(inherited) /\ Asked \in Nat
         /\ Asked \in {Landed, Landed + 1} /\ SchedArrived \in {Asked - 1, Asked}
         /\ \A r \in Roles :
              /\ Begun(r) \in Nat /\ Read(r) \in Int
              /\ Heard(r) \in {Read(r), Read(r) + 1}
              /\ Synced(r) \in {Read(r), Read(r) - 1}
              /\ Arrived(r) \in {Read(r), Read(r) - 1}
              /\ Begun(r) \in {Read(r) - 1, Read(r), Read(r) + 1}
              /\ r # "tma" => Begun(r) =< Read(r)
<1>1. Len(inherited) \in Nat /\ Len(inherited) > 0
  BY DEF ClcTypes
<1>2. Landed \in Nat /\ Landed + 1 = Len(inherited)
  BY <1>1 DEF Landed
<1>3. Asked \in {Landed, Landed + 1} /\ Asked \in Nat
  BY <1>2 DEF Asked
<1>4. SchedArrived \in {Asked - 1, Asked}
  BY DEF SchedArrived
<1>5. ASSUME NEW r \in Roles
      PROVE  /\ Begun(r) \in Nat /\ Read(r) \in Int
             /\ Begun(r) \in {Read(r) - 1, Read(r), Read(r) + 1}
             /\ r # "tma" => Begun(r) =< Read(r)
  <2>1. Begun(r) \in Nat
    BY DEF PipelineTypeOK, Begun
  <2>. QED
    BY <2>1 DEF Read
<1>6. \A r \in Roles : /\ Heard(r) \in {Read(r), Read(r) + 1}
                       /\ Synced(r) \in {Read(r), Read(r) - 1}
                       /\ Arrived(r) \in {Read(r), Read(r) - 1}
  BY DEF Heard, Synced, Arrived
<1>. QED
  BY <1>2, <1>3, <1>4, <1>5, <1>6

LEMMA FinisherFacts ==
  /\ Finishers \subseteq Roles /\ Leader \in Finishers /\ Leader \in Roles
  /\ Leader # "tma" /\ Leader # "mma"
  /\ \A r \in Roles : r \notin Threads => r \in Finishers
  /\ Denied = NoTile /\ Me \in WorkTiles /\ Denied \notin WorkTiles
BY RoleFacts, ClcAssumption DEF Finishers, Denied

\* Nobody lags by more than the response asked for last.
LEMMA AllKeepUp ==
  ASSUME ClcTypes, ClcCountInv, PipelineTypeOK, NEW r \in Roles
  PROVE  Read(r) \in Int /\ Read(r) >= Asked - 1 /\ Read(r) =< Landed /\ Read(r) >= 0
<1>1. Read(r) =< Landed /\ Read(r) \in Int /\ Read(r) >= 0
  BY ClcCounts DEF ClcCountInv
<1>2. \A q \in Finishers : Read(q) >= Asked - 1
  <2>. TAKE q \in Finishers
  <2>1. q \in Roles /\ Arrived(q) \in {Asked - 1, Asked}
    BY FinisherFacts DEF ClcCountInv
  <2>. QED
    BY <2>1, ClcCounts
<1>3. CASE r \in Threads
  <2>1. Synced(r) = Synced(Leader)
    BY <1>3 DEF ClcCountInv
  <2>2. Arrived(Leader) >= Asked - 1 /\ Synced(Leader) >= Arrived(Leader)
    <3>1. Arrived(Leader) \in {Asked - 1, Asked}
      BY FinisherFacts DEF ClcCountInv
    <3>. QED
      BY <3>1, ClcCounts, FinisherFacts DEF Synced, Arrived
  <2>. QED
    BY <1>1, <2>1, <2>2, ClcCounts, FinisherFacts
<1>. QED
  BY <1>1, <1>2, <1>3, FinisherFacts

\* While a response is on its way every role has read the one before.
LEMMA AllReadWhenAsked ==
  ASSUME ClcTypes, ClcCountInv, PipelineTypeOK, requested, NEW r \in Roles
  PROVE  Read(r) = Landed
<1>1. Asked = Landed + 1 /\ Landed \in Nat
  BY ClcCounts DEF Asked
<1>. QED
  BY <1>1, AllKeepUp

\* A role at "read" is to read the response that landed last.
LEMMA ReaderIsNext ==
  ASSUME ClcTypes, ClcCountInv, PipelineTypeOK, NEW r \in Roles, clc[r] = "read"
  PROVE  /\ Read(r) \in Nat /\ Landed \in Nat /\ Read(r) + 1 = Landed
         /\ Last(inherited) = inherited[Landed + 1] /\ Asked = Landed
<1>1. Heard(r) =< Landed /\ Heard(r) = Read(r) + 1
  BY DEF ClcCountInv, Heard
<1>2. Last(inherited) = inherited[Landed + 1]
  BY ClcCounts DEF Last
<1>. QED
  BY <1>1, <1>2, AllKeepUp, ClcCounts

\* The four arrivals.
LEMMA ArrivalsFour ==
  Arrivals \in 0 .. 4 /\ (AllArrived <=> Arrivals = 4)
<1>1. \A r \in Roles :
        OneArrived(r) \in {0, 1} /\ (OneArrived(r) = 1 <=> Arrived(r) = Asked)
  BY DEF OneArrived
<1>2. /\ OneArrived("tma") \in {0, 1} /\ OneArrived("mma") \in {0, 1}
      /\ OneArrived(Leader) \in {0, 1}
  BY <1>1, RoleFacts
<1>3. AllArrived <=> /\ SchedArrived = Asked /\ OneArrived("tma") = 1
                     /\ OneArrived("mma") = 1 /\ OneArrived(Leader) = 1
  BY <1>1, RoleFacts DEF AllArrived, Finishers
<1>. QED
  BY <1>1, <1>2, <1>3 DEF Arrivals

\* One more arrival: the fourth completes the phase.
LEMMA OneMoreArrives ==
  ASSUME ClcTypes, ClcParityInv, PipelineTypeOK, Asked' = Asked,
         Arrivals' = Arrivals + 1, finished' = Arrive(finished, 4)
  PROVE  /\ AllArrived' => finished' = [phase |-> Asked' % 2, pending |-> 4, tx |-> 0]
         /\ ~AllArrived' =>
              finished' = [phase |-> (Asked' + 1) % 2, pending |-> 4 - Arrivals', tx |-> 0]
<1>. DEFINE n == Arrivals
            p == (Asked + 1) % 2
<1>1. n \in 0 .. 4 /\ (AllArrived <=> n = 4)
  BY ArrivalsFour
<1>2. n + 1 \in 0 .. 4 /\ (AllArrived' <=> n + 1 = 4)
  <2>1. \A r : /\ OneArrived(r)' \in {0, 1}
               /\ OneArrived(r)' = 1 <=> Arrived(r)' = Asked'
    BY DEF OneArrived
  <2>2. AllArrived' <=> /\ SchedArrived' = Asked' /\ OneArrived("tma")' = 1
                        /\ OneArrived("mma")' = 1 /\ OneArrived(Leader)' = 1
    BY <2>1 DEF AllArrived, Finishers
  <2>. QED
    BY <2>1, <2>2 DEF Arrivals
<1>3. finished = [phase |-> p, pending |-> 4 - n, tx |-> 0]
  BY <1>1, <1>2 DEF ClcParityInv
<1>4. 1 - p = Asked % 2
  BY ClcCounts, Flip
<1>. HIDE DEF n, p
<1>5. finished' = Settle([phase |-> p, pending |-> (4 - n) - 1, tx |-> 0], 4)
  BY <1>3 DEF Arrive
<1>6. (4 - n) - 1 = 4 - (n + 1) /\ ((4 - n) - 1 = 0 <=> n + 1 = 4)
  BY <1>1
<1>7. CASE n + 1 = 4
  <2>1. finished' = [phase |-> 1 - p, pending |-> 4, tx |-> 0]
    BY <1>5, <1>6, <1>7 DEF Settle
  <2>. QED
    BY <1>2, <1>4, <1>7, <2>1
<1>8. CASE n + 1 # 4
  <2>1. finished' = [phase |-> p, pending |-> 4 - (n + 1), tx |-> 0]
    BY <1>5, <1>6, <1>8 DEF Settle
  <2>. QED
    BY <1>2, <1>8, <2>1 DEF p, n
<1>. QED
  BY <1>7, <1>8

\* The counts of a role whose label and number of tiles stay.
LEMMA SameCounts ==
  ASSUME NEW r \in Roles, clc'[r] = clc[r], Begun(r)' = Begun(r)
  PROVE  /\ Read(r)' = Read(r) /\ Heard(r)' = Heard(r) /\ Synced(r)' = Synced(r)
         /\ Arrived(r)' = Arrived(r) /\ (Asked' = Asked => OneArrived(r)' = OneArrived(r))
<1>1. Read(r)' = Read(r)
  BY DEF Read
<1>2. Heard(r)' = Heard(r) /\ Synced(r)' = Synced(r) /\ Arrived(r)' = Arrived(r)
  BY <1>1 DEF Heard, Synced, Arrived
<1>. QED
  BY <1>1, <1>2 DEF OneArrived

LEMMA ClcInit ==
  ASSUME KernelInit
  PROVE  KernelInv
<1>. USE DEF KernelInit
<1>1. PipeInv /\ KeptInv
  BY PipelineInitInv, KeptInit
<1>2. /\ inherited = <<Me>> /\ ~requested /\ sched = "ask" /\ Me \in WorkTiles
      /\ \A r \in Roles : at[r] = "next" /\ got[r] = Me /\ coord[r] = Me
      /\ \A r \in Roles : clc[r] = IF r = "tma" THEN "begin" ELSE "await"
  BY ClcAssumption DEF PipelineInit
<1>3. Len(inherited) = 1 /\ inherited[1] = Me
  BY <1>2
<1>4. Landed = 0 /\ Asked = 0 /\ SchedArrived = 0
  BY <1>2, <1>3 DEF Landed, Asked, SchedArrived
<1>5. \A r \in Roles : Begun(r) = 0
  BY DEF PipelineInit, Begun
<1>6. \A r \in Roles : Read(r) = 0 /\ Heard(r) = 0 /\ Synced(r) = 0 /\ Arrived(r) = 0
  BY <1>2, <1>5 DEF Read, Heard, Synced, Arrived
<1>. HIDE DEF KernelInit
<1>7. ClcTypes
  <2>1. \A x : x \in WorkTiles \cup {Denied} => <<x>> \in Seq(WorkTiles \cup {Denied})
    OBVIOUS
  <2>2. readyPs \in [Roles -> CursorType(1)]
    BY DEF Cursor, CursorType, KernelInit
  <2>3. /\ clc \in [Roles -> {"begin", "await", "read", "sync", "finish"}]
        /\ got \in [Roles -> WorkTiles \cup {Denied}]
        /\ coord \in [Roles -> WorkTiles \cup {Denied}]
        /\ pending \subseteq WorkTiles /\ requested \in BOOLEAN
    BY <1>2 DEF KernelInit
  <2>4. inherited \in Seq(WorkTiles \cup {Denied})
    BY <1>2, <2>1
  <2>. QED
    BY <1>2, <1>3, <2>1, <2>2, <2>3, <2>4 DEF ClcTypes
<1>8. ClcCountInv
  <2>1. \A r \in Roles : clc[r] \in {"begin", "await"}
    BY <1>2
  <2>2. \A r \in Finishers : Arrived(r) \in {Asked - 1, Asked}
    BY <1>4, <1>6, FinisherFacts
  <2>3. \A w \in Threads : Synced(w) = Synced(Leader)
    BY <1>6, RoleFacts
  <2>. QED
    BY <1>2, <1>4, <1>6, <2>1, <2>2, <2>3 DEF ClcCountInv
<1>9. AllArrived
  BY <1>4, <1>6, FinisherFacts DEF AllArrived
<1>10. ClcParityInv
  <2>1. 0 % 2 = 0 /\ (0 + 1) % 2 = 1
    OBVIOUS
  <2>. QED
    BY <1>2, <1>4, <1>6, <1>9, <2>1
       DEF ClcParityInv, NewBar, Cursor, FinishArrivals, KernelInit
<1>11. ClcContentInv
  BY <1>2, <1>3, <1>4, <1>5, <1>6, RoleFacts, FinisherFacts DEF ClcContentInv
<1>. QED
  BY <1>1, <1>7, <1>8, <1>10, <1>11 DEF KernelInv, ClcInv

------------------------------------------------------------------------------
(* The steps.  Invariant' follows in four parts each time                  *)

\* A step that begins no tile and leaves the responses' protocol alone.
LEMMA ClcFrame ==
  ASSUME ClcInv, PipelineTypeOK, begun' = begun, pending' \subseteq WorkTiles,
         UNCHANGED <<inherited, requested, full, finished, schedVars, workerVars>>,
         \A r \in Roles : at'[r] = "end" =>
           \/ at[r] = "end"
           \/ got[r] = Denied /\ clc[r] = IF r = "tma" THEN "begin" ELSE "await"
  PROVE  ClcInv'
<1>. USE DEF ClcInv
<1>1. /\ UNCHANGED <<inherited, requested, full, finished, sched, schedPs, clc, readyPs>>
      /\ UNCHANGED <<got, coord>>
  BY DEF schedVars, workerVars
<1>2. \A r : Begun(r)' = Begun(r)
  BY DEF Begun
<1>3. /\ Landed' = Landed /\ Asked' = Asked /\ SchedArrived' = SchedArrived
      /\ \A r : /\ Read(r)' = Read(r) /\ Heard(r)' = Heard(r) /\ Synced(r)' = Synced(r)
                /\ Arrived(r)' = Arrived(r) /\ OneArrived(r)' = OneArrived(r)
  BY <1>1, <1>2 DEF Landed, Asked, SchedArrived, Read, Heard, Synced, Arrived, OneArrived
<1>4. AllArrived' = AllArrived /\ Arrivals' = Arrivals
  BY <1>3 DEF AllArrived, Arrivals
<1>5. ClcTypes'
  BY <1>1 DEF ClcTypes
<1>6. ClcCountInv'
  BY <1>1, <1>3 DEF ClcCountInv
<1>7. ClcParityInv'
  BY <1>1, <1>3, <1>4 DEF ClcParityInv
<1>8. ClcContentInv'
  <2>1. /\ inherited'[1] = Me
        /\ \A r \in Roles : got'[r] = inherited'[Read(r)' + 1]
        /\ clc'["tma"] = "begin" => coord'["tma"] = got'["tma"]
        /\ \A w \in Threads : coord'[w] = inherited'[Begun(w)' + 1]
        /\ \A w \in {"tma"} \cup Threads : \A i \in 1 .. Begun(w)' :
             begun'[w][i] = inherited'[i] /\ inherited'[i] # Denied
    BY <1>1, <1>2, <1>3 DEF ClcContentInv
  <2>2. /\ \A i \in 1 .. Landed' : inherited'[i] # Denied
        /\ inherited'[Landed' + 1] = Denied => ~requested' /\ sched' \in {"read", "left"}
    BY <1>1, <1>3 DEF ClcContentInv
  <2>3. \A r \in Roles : at'[r] = "end" =>
          got'[r] = Denied /\ clc'[r] = IF r = "tma" THEN "begin" ELSE "await"
    BY <1>1 DEF ClcContentInv
  <2>. QED
    BY <2>1, <2>2, <2>3 DEF ClcContentInv
<1>. QED
  BY <1>5, <1>6, <1>7, <1>8

\* All have arrived for the last response when another one is asked for.
LEMMA RequestStealInv ==
  ASSUME ClcInv, PipelineTypeOK, RequestSteal
  PROVE  ClcInv'
<1>. USE DEF ClcInv
<1>1. /\ sched = "ask" /\ finished.phase # schedPs.phase
      /\ full' = ArriveExpectTx(full, 1, 1) /\ requested' = TRUE
      /\ schedPs' = Advance(schedPs, 1) /\ sched' = "read"
      /\ UNCHANGED <<pending, inherited, finished, clc, readyPs, got, coord, begun, at>>
  BY DEF RequestSteal, Passes, workerVars, pipeVars
<1>2. ~requested /\ Asked = Landed /\ Landed \in Nat
  BY <1>1, ClcCounts DEF ClcCountInv, Asked
<1>3. Landed' = Landed /\ Asked' = Landed + 1 /\ SchedArrived' = Landed
  BY <1>1, <1>2 DEF Landed, Asked, SchedArrived
<1>4. \A r \in Roles : /\ Begun(r)' = Begun(r) /\ Read(r)' = Read(r)
                       /\ Heard(r)' = Heard(r) /\ Synced(r)' = Synced(r)
                       /\ Arrived(r)' = Arrived(r)
  BY <1>1, SameCounts DEF Begun
<1>5. AllArrived
  BY <1>1 DEF ClcParityInv
<1>6. \A r \in Finishers : Arrived(r)' = Landed
  BY <1>2, <1>4, <1>5, FinisherFacts DEF AllArrived
<1>7. ~AllArrived' /\ Arrivals' = 0
  <2>1. SchedArrived' # Asked' /\ \A r \in Finishers : Arrived(r)' # Asked'
    BY <1>2, <1>3, <1>6
  <2>. QED
    BY <2>1 DEF AllArrived, Arrivals, OneArrived, Finishers
<1>8. ClcTypes'
  BY <1>1 DEF ClcTypes
<1>9. ClcCountInv'
  <2>1. \A r \in Finishers : Arrived(r)' \in {Asked' - 1, Asked'}
    BY <1>2, <1>3, <1>6
  <2>2. \A r \in Roles : Heard(r)' =< Landed' /\ Read(r)' >= 0
    BY <1>3, <1>4 DEF ClcCountInv
  <2>3. \A w \in Threads : Synced(w)' = Synced(Leader)'
    BY <1>4, RoleFacts DEF ClcCountInv
  <2>. QED
    BY <1>1, <2>1, <2>2, <2>3 DEF ClcCountInv
<1>10. ClcParityInv'
  <2>. DEFINE p == Landed % 2
  <2>1. full = [phase |-> p, pending |-> 1, tx |-> 0]
    BY <1>2 DEF ClcParityInv
  <2>2. schedPs = [stage |-> 0, phase |-> (Landed + 1) % 2]
    BY <1>2 DEF ClcParityInv
  <2>3. (Landed + 1) % 2 = 1 - p /\ ((Landed + 1) + 1) % 2 = p /\ p \in {0, 1}
    BY <1>2, Flip
  <2>4. finished = [phase |-> p, pending |-> 4, tx |-> 0]
    BY <1>2, <1>5 DEF ClcParityInv
  <2>. HIDE DEF p
  <2>5. full' = [phase |-> p, pending |-> 0, tx |-> 1]
    BY <1>1, <2>1 DEF ArriveExpectTx, Settle
  <2>6. schedPs' = [stage |-> 0, phase |-> p]
    BY <1>1, <2>2, <2>3 DEF Advance
  <2>. QED
    BY <1>1, <1>3, <1>4, <1>7, <2>3, <2>4, <2>5, <2>6 DEF ClcParityInv, p
<1>11. ClcContentInv'
  <2>1. inherited[Landed + 1] # Denied
    BY <1>1 DEF ClcContentInv
  <2>2. \A w \in {"tma"} \cup Threads : w \in Roles
    BY RoleFacts
  <2>. QED
    BY <1>1, <1>3, <1>4, <2>1, <2>2 DEF ClcContentInv
<1>. QED
  BY <1>8, <1>9, <1>10, <1>11

\* The response everybody waits for lands.
LEMMA RespondInv ==
  ASSUME ClcInv, PipelineTypeOK, NEW c \in pending \cup {Denied}, Respond(c)
  PROVE  ClcInv'
<1>. USE DEF ClcInv
<1>1. /\ requested /\ requested' = FALSE /\ inherited' = Append(inherited, c)
      /\ pending' = pending \ {c} /\ full' = CompleteTx(full, 1, 1)
      /\ UNCHANGED <<finished, sched, schedPs, clc, readyPs, got, coord, begun, at>>
  BY DEF Respond, schedVars, workerVars, pipeVars
<1>2. Asked = Landed + 1 /\ Landed \in Nat /\ Landed + 1 = Len(inherited)
  BY <1>1, ClcCounts DEF Asked
<1>3. c \in WorkTiles \cup {Denied} /\ inherited \in Seq(WorkTiles \cup {Denied})
  BY DEF ClcTypes
<1>4. /\ inherited' \in Seq(WorkTiles \cup {Denied}) /\ Len(inherited') = Landed + 2
      /\ inherited'[Landed + 2] = c
      /\ \A i \in 1 .. Landed + 1 : inherited'[i] = inherited[i]
  BY <1>1, <1>2, <1>3
<1>5. Landed' = Landed + 1 /\ Asked' = Asked /\ SchedArrived' = SchedArrived
  BY <1>1, <1>2, <1>4 DEF Landed, Asked, SchedArrived
<1>6. \A r \in Roles : /\ Begun(r)' = Begun(r) /\ Read(r)' = Read(r)
                       /\ Heard(r)' = Heard(r) /\ Synced(r)' = Synced(r)
                       /\ Arrived(r)' = Arrived(r) /\ OneArrived(r)' = OneArrived(r)
  BY <1>1, <1>5, SameCounts DEF Begun
<1>7. AllArrived' = AllArrived /\ Arrivals' = Arrivals
  BY <1>5, <1>6, RoleFacts, FinisherFacts DEF AllArrived, Arrivals
<1>8. ClcTypes'
  <2>1. pending' \subseteq WorkTiles
    BY <1>1 DEF ClcTypes
  <2>2. Len(inherited') > 0
    BY <1>2, <1>4
  <2>. QED
    BY <1>1, <1>4, <2>1, <2>2 DEF ClcTypes
<1>9. ClcCountInv'
  <2>1. \A r \in Finishers : Arrived(r)' \in {Asked' - 1, Asked'}
    BY <1>5, <1>6, FinisherFacts DEF ClcCountInv
  <2>2. \A r \in Roles : Heard(r)' =< Landed' /\ Read(r)' >= 0
    BY <1>2, <1>5, <1>6, ClcCounts DEF ClcCountInv
  <2>3. \A w \in Threads : Synced(w)' = Synced(Leader)'
    BY <1>6, RoleFacts DEF ClcCountInv
  <2>. QED
    BY <1>1, <2>1, <2>2, <2>3 DEF ClcCountInv
<1>10. ClcParityInv'
  <2>. DEFINE p == Landed % 2
  <2>1. full = [phase |-> p, pending |-> 0, tx |-> 1]
    BY <1>1 DEF ClcParityInv
  <2>2. (Landed + 1) % 2 = 1 - p /\ p \in {0, 1}
    BY <1>2, Flip
  <2>. HIDE DEF p
  <2>3. full' = [phase |-> 1 - p, pending |-> 1, tx |-> 0]
    BY <1>1, <2>1 DEF CompleteTx, Settle
  <2>4. /\ \A r \in Roles : readyPs'[r] = [stage |-> 0, phase |-> Heard(r)' % 2]
        /\ schedPs' = [stage |-> 0, phase |-> (Asked' + 1) % 2]
    BY <1>1, <1>5, <1>6 DEF ClcParityInv
  <2>5. /\ AllArrived' => finished' = [phase |-> Asked' % 2, pending |-> 4, tx |-> 0]
        /\ ~AllArrived' =>
             finished' = [phase |-> (Asked' + 1) % 2, pending |-> 4 - Arrivals', tx |-> 0]
    BY <1>1, <1>5, <1>7 DEF ClcParityInv
  <2>. QED
    BY <1>1, <1>5, <2>2, <2>3, <2>4, <2>5 DEF ClcParityInv
<1>11. ClcContentInv'
  <2>1. \A r \in Roles : Read(r) \in 0 .. Landed /\ Begun(r) \in 0 .. Landed + 1
                         /\ (r # "tma" => Begun(r) \in 0 .. Landed)
    BY <1>2, AllKeepUp, ClcCounts
  <2>2. \A r \in Roles : got'[r] = inherited'[Read(r)' + 1]
    <3>. TAKE r \in Roles
    <3>1. Read(r) + 1 \in 1 .. Landed + 1
      BY <1>2, <2>1
    <3>. QED
      BY <1>1, <1>4, <1>6, <3>1 DEF ClcContentInv
  <2>3. \A w \in Threads : coord'[w] = inherited'[Begun(w)' + 1]
    <3>. TAKE w \in Threads
    <3>1. Begun(w) + 1 \in 1 .. Landed + 1 /\ w \in Roles
      BY <1>2, <2>1, RoleFacts
    <3>. QED
      BY <1>1, <1>4, <1>6, <3>1 DEF ClcContentInv
  <2>4. ASSUME NEW w \in {"tma"} \cup Threads, NEW i \in 1 .. Begun(w)'
        PROVE  begun'[w][i] = inherited'[i] /\ inherited'[i] # Denied
    <3>1. w \in Roles /\ i \in 1 .. Begun(w) /\ i \in 1 .. Landed + 1
      BY <1>2, <1>6, <2>1, RoleFacts
    <3>. QED
      BY <1>1, <1>4, <3>1 DEF ClcContentInv
  <2>5. \A i \in 1 .. Landed' : inherited'[i] # Denied
    <3>. TAKE i \in 1 .. Landed'
    <3>1. i \in 1 .. Landed + 1
      BY <1>5
    <3>2. i = Landed + 1 \/ i \in 1 .. Landed
      BY <1>2, <3>1
    <3>3. inherited[Landed + 1] # Denied
      BY <1>1 DEF ClcContentInv
    <3>. QED
      BY <1>4, <3>1, <3>2, <3>3 DEF ClcContentInv
  <2>6. ~requested' /\ sched' \in {"read", "left"}
    BY <1>1 DEF ClcCountInv
  <2>7. inherited'[1] = Me
    <3>1. 1 \in 1 .. Landed + 1
      BY <1>2
    <3>. QED
      BY <1>4, <3>1 DEF ClcContentInv
  <2>8. /\ clc'["tma"] = "begin" => coord'["tma"] = got'["tma"]
        /\ \A r \in Roles : at'[r] = "end" =>
             got'[r] = Denied /\ clc'[r] = IF r = "tma" THEN "begin" ELSE "await"
    BY <1>1 DEF ClcContentInv
  <2>. QED
    BY <2>2, <2>3, <2>4, <2>5, <2>6, <2>7, <2>8 DEF ClcContentInv
<1>. QED
  BY <1>8, <1>9, <1>10, <1>11

\* The arrivals of a step at which nobody arrives.
LEMMA SameArrivals ==
  ASSUME ClcParityInv, Asked' = Asked, SchedArrived' = SchedArrived,
         \A r \in Finishers : Arrived(r)' = Arrived(r), finished' = finished
  PROVE  /\ AllArrived' => finished' = [phase |-> Asked' % 2, pending |-> 4, tx |-> 0]
         /\ ~AllArrived' =>
              finished' = [phase |-> (Asked' + 1) % 2, pending |-> 4 - Arrivals', tx |-> 0]
<1>1. \A r \in Finishers : OneArrived(r)' = OneArrived(r)
  BY DEF OneArrived
<1>2. AllArrived' = AllArrived /\ Arrivals' = Arrivals
  BY <1>1 DEF AllArrived, Arrivals, Finishers
<1>. QED
  BY <1>2 DEF ClcParityInv

LEMMA SchedulerReadsInv ==
  ASSUME ClcInv, PipelineTypeOK, SchedulerReads
  PROVE  ClcInv'
<1>. USE DEF ClcInv
<1>1. /\ sched = "read" /\ full.phase # schedPs.phase
      /\ finished' = Arrive(finished, 4)
      /\ sched' = IF Last(inherited) = Denied THEN "left" ELSE "ask"
      /\ UNCHANGED <<pending, inherited, requested, full, schedPs, clc, readyPs>>
      /\ UNCHANGED <<got, coord, begun, at>>
  BY DEF SchedulerReads, Passes, workerVars, stealVars, pipeVars, FinishArrivals
<1>2. Landed \in Nat /\ Landed + 1 = Len(inherited) /\ Asked \in Nat
  BY ClcCounts
<1>3. ~requested
  <2>1. ASSUME requested PROVE FALSE
    <3>1. full.phase = Landed % 2 /\ Asked = Landed + 1
      BY <2>1 DEF ClcParityInv, Asked
    <3>2. schedPs.phase = ((Landed + 1) + 1) % 2
      BY <3>1 DEF ClcParityInv
    <3>3. ((Landed + 1) + 1) % 2 = Landed % 2
      BY <1>2
    <3>. QED
      BY <1>1, <3>1, <3>2, <3>3
  <2>. QED
    BY <2>1
<1>4. Asked = Landed /\ SchedArrived = Asked - 1
  BY <1>1, <1>3 DEF Asked, SchedArrived
<1>5. Landed' = Landed /\ Asked' = Asked /\ SchedArrived' = Asked
  BY <1>1, <1>3 DEF Landed, Asked, SchedArrived
<1>6. \A r \in Roles : /\ Begun(r)' = Begun(r) /\ Read(r)' = Read(r)
                       /\ Heard(r)' = Heard(r) /\ Synced(r)' = Synced(r)
                       /\ Arrived(r)' = Arrived(r) /\ OneArrived(r)' = OneArrived(r)
  BY <1>1, <1>5, SameCounts DEF Begun
<1>7. Arrivals' = Arrivals + 1
  <2>1. OneArrived("tma") \in {0, 1} /\ OneArrived("mma") \in {0, 1}
        /\ OneArrived(Leader) \in {0, 1}
    BY DEF OneArrived
  <2>2. /\ Arrivals = 0 + OneArrived("tma") + OneArrived("mma") + OneArrived(Leader)
        /\ Arrivals' = 1 + OneArrived("tma") + OneArrived("mma") + OneArrived(Leader)
    BY <1>2, <1>4, <1>5, <1>6, RoleFacts DEF Arrivals
  <2>. QED
    BY <2>1, <2>2
<1>8. ClcTypes'
  BY <1>1 DEF ClcTypes
<1>9. ClcCountInv'
  <2>1. \A r \in Finishers : Arrived(r)' \in {Asked' - 1, Asked'}
    BY <1>5, <1>6, FinisherFacts DEF ClcCountInv
  <2>2. \A r \in Roles : Heard(r)' =< Landed' /\ Read(r)' >= 0
    BY <1>5, <1>6 DEF ClcCountInv
  <2>3. \A w \in Threads : Synced(w)' = Synced(Leader)'
    BY <1>6, RoleFacts DEF ClcCountInv
  <2>. QED
    BY <1>1, <1>3, <2>1, <2>2, <2>3 DEF ClcCountInv
<1>10. ClcParityInv'
  <2>1. /\ AllArrived' => finished' = [phase |-> Asked' % 2, pending |-> 4, tx |-> 0]
        /\ ~AllArrived' =>
             finished' = [phase |-> (Asked' + 1) % 2, pending |-> 4 - Arrivals', tx |-> 0]
    BY <1>1, <1>5, <1>7, OneMoreArrives
  <2>. QED
    BY <1>1, <1>5, <1>6, <2>1 DEF ClcParityInv
<1>11. ClcContentInv'
  <2>1. Last(inherited) = inherited[Landed + 1]
    BY <1>2 DEF Last
  <2>2. inherited'[Landed' + 1] = Denied => ~requested' /\ sched' \in {"read", "left"}
    BY <1>1, <1>3, <1>5, <2>1
  <2>3. \A w \in {"tma"} \cup Threads : w \in Roles
    BY RoleFacts
  <2>4. \A r \in Roles : got'[r] = inherited'[Read(r)' + 1]
    BY <1>1, <1>6 DEF ClcContentInv
  <2>5. \A w \in Threads : coord'[w] = inherited'[Begun(w)' + 1]
    BY <1>1, <1>6, <2>3 DEF ClcContentInv
  <2>6. \A w \in {"tma"} \cup Threads : \A i \in 1 .. Begun(w)' :
          begun'[w][i] = inherited'[i] /\ inherited'[i] # Denied
    BY <1>1, <1>6, <2>3 DEF ClcContentInv
  <2>. QED
    BY <1>1, <1>5, <1>6, <2>2, <2>4, <2>5, <2>6 DEF ClcContentInv
<1>. QED
  BY <1>8, <1>9, <1>10, <1>11

\* The parity tells a role whether its response is the one that landed last.
LEMMA AwaitResponseInv ==
  ASSUME ClcInv, PipelineTypeOK, NEW r \in Roles, AwaitResponse(r)
  PROVE  ClcInv'
<1>. USE DEF ClcInv
<1>1. /\ clc[r] = "await" /\ at[r] = "next" /\ full.phase # readyPs[r].phase
      /\ readyPs' = [readyPs EXCEPT ![r] = Advance(readyPs[r], 1)]
      /\ clc' = [clc EXCEPT ![r] = "read"]
      /\ UNCHANGED <<pending, inherited, requested, full, finished, sched, schedPs>>
      /\ UNCHANGED <<got, coord, begun, at>>
  BY DEF AwaitResponse, WorkerGoto, Passes, stealVars, schedVars, pipeVars
<1>2. Landed \in Nat /\ Read(r) \in Int /\ Heard(r) = Read(r)
  BY <1>1, ClcCounts DEF Heard
<1>3. full.phase = Landed % 2 /\ readyPs[r] = [stage |-> 0, phase |-> Read(r) % 2]
  BY <1>2 DEF ClcParityInv
<1>4. Read(r) # Landed
  BY <1>1, <1>3
<1>5. ~requested
  BY <1>4, AllReadWhenAsked
<1>6. Asked = Landed /\ Read(r) + 1 = Landed
  <2>1. Asked = Landed
    BY <1>5 DEF Asked
  <2>. QED
    BY <1>2, <1>4, <2>1, AllKeepUp
<1>7. Landed' = Landed /\ Asked' = Asked /\ SchedArrived' = SchedArrived
  BY <1>1 DEF Landed, Asked, SchedArrived
<1>8. /\ clc'[r] = "read" /\ \A q \in Roles \ {r} : clc'[q] = clc[q]
      /\ readyPs'[r] = Advance(readyPs[r], 1)
      /\ \A q \in Roles \ {r} : readyPs'[q] = readyPs[q]
  BY <1>1 DEF ClcTypes
<1>9. \A q \in Roles : Begun(q)' = Begun(q)
  BY <1>1 DEF Begun
<1>10. \A q \in Roles \ {r} : /\ Read(q)' = Read(q) /\ Heard(q)' = Heard(q)
                              /\ Synced(q)' = Synced(q) /\ Arrived(q)' = Arrived(q)
  BY <1>8, <1>9, SameCounts
<1>11. /\ Read(r)' = Read(r) /\ Heard(r)' = Read(r) + 1
       /\ Synced(r)' = Synced(r) /\ Arrived(r)' = Arrived(r)
  <2>1. Read(r)' = Read(r)
    BY <1>1, <1>8, <1>9 DEF Read
  <2>. QED
    BY <1>1, <1>8, <2>1 DEF Heard, Synced, Arrived
<1>12. \A q \in Roles :
         Read(q)' = Read(q) /\ Synced(q)' = Synced(q) /\ Arrived(q)' = Arrived(q)
  BY <1>10, <1>11
<1>13. readyPs'[r] = [stage |-> 0, phase |-> Heard(r)' % 2]
  <2>. DEFINE p == Read(r) % 2
  <2>1. (Read(r) + 1) % 2 = 1 - p
    BY <1>2, Flip
  <2>. HIDE DEF p
  <2>2. readyPs'[r] = [stage |-> 0, phase |-> 1 - p]
    BY <1>3, <1>8 DEF Advance, p
  <2>. QED
    BY <1>11, <2>1, <2>2
<1>14. ClcTypes'
  <2>1. readyPs'[r] \in CursorType(1)
    <3>1. Heard(r)' % 2 \in {0, 1}
      BY <1>2, <1>11, Flip
    <3>. QED
      BY <1>13, <3>1 DEF CursorType
  <2>2. readyPs' \in [Roles -> CursorType(1)]
    BY <1>1, <1>8, <2>1 DEF ClcTypes
  <2>3. clc' \in [Roles -> {"begin", "await", "read", "sync", "finish"}]
    BY <1>1 DEF ClcTypes
  <2>. QED
    BY <1>1, <2>2, <2>3 DEF ClcTypes
<1>15. ClcCountInv'
  <2>1. \A q \in Finishers : Arrived(q)' \in {Asked' - 1, Asked'}
    BY <1>7, <1>12, FinisherFacts DEF ClcCountInv
  <2>2. \A q \in Roles : Heard(q)' =< Landed' /\ Read(q)' >= 0
    <3>1. Heard(r)' =< Landed'
      BY <1>2, <1>6, <1>7, <1>11
    <3>2. \A q \in Roles \ {r} : Heard(q)' =< Landed'
      BY <1>7, <1>10 DEF ClcCountInv
    <3>. QED
      BY <1>12, <3>1, <3>2 DEF ClcCountInv
  <2>3. \A w \in Threads : Synced(w)' = Synced(Leader)'
    BY <1>12, RoleFacts DEF ClcCountInv
  <2>4. \A q \in Roles : /\ clc'[q] = "sync" => q \in Threads
                         /\ clc'[q] = "finish" => q \in Finishers
    BY <1>8 DEF ClcCountInv
  <2>. QED
    BY <1>1, <2>1, <2>2, <2>3, <2>4 DEF ClcCountInv
<1>16. ClcParityInv'
  <2>1. \A q \in Roles : readyPs'[q] = [stage |-> 0, phase |-> Heard(q)' % 2]
    BY <1>8, <1>10, <1>13 DEF ClcParityInv
  <2>2. \A q \in Finishers : Arrived(q)' = Arrived(q)
    BY <1>12, FinisherFacts
  <2>3. /\ AllArrived' => finished' = [phase |-> Asked' % 2, pending |-> 4, tx |-> 0]
        /\ ~AllArrived' =>
             finished' = [phase |-> (Asked' + 1) % 2, pending |-> 4 - Arrivals', tx |-> 0]
    BY <1>1, <1>7, <2>2, SameArrivals
  <2>. QED
    BY <1>1, <1>7, <2>1, <2>3 DEF ClcParityInv
<1>17. ClcContentInv'
  <2>1. clc'["tma"] = "begin" => coord'["tma"] = got'["tma"]
    BY <1>1, <1>8, RoleFacts DEF ClcContentInv
  <2>2. /\ \A q \in Roles : got'[q] = inherited'[Read(q)' + 1]
        /\ \A w \in Threads : coord'[w] = inherited'[Begun(w)' + 1]
        /\ \A w \in {"tma"} \cup Threads : \A i \in 1 .. Begun(w)' :
             begun'[w][i] = inherited'[i] /\ inherited'[i] # Denied
    BY <1>1, <1>9, <1>12, RoleFacts DEF ClcContentInv
  <2>3. \A q \in Roles : at'[q] = "end" =>
          got'[q] = Denied /\ clc'[q] = IF q = "tma" THEN "begin" ELSE "await"
    BY <1>1, <1>8 DEF ClcContentInv
  <2>. QED
    BY <1>1, <1>7, <2>1, <2>2, <2>3 DEF ClcContentInv
<1>. QED
  BY <1>14, <1>15, <1>16, <1>17

LEMMA ReadResponseInv ==
  ASSUME ClcInv, PipelineTypeOK, NEW r \in Roles, ReadResponse(r)
  PROVE  ClcInv'
<1>. USE DEF ClcInv
<1>1. /\ clc[r] = "read"
      /\ got' = [got EXCEPT ![r] = Last(inherited)]
      /\ clc' = [clc EXCEPT ![r] = IF r \in Threads THEN "sync" ELSE "finish"]
      /\ UNCHANGED <<pending, inherited, requested, full, finished, sched, schedPs>>
      /\ UNCHANGED <<readyPs, coord, begun, at>>
  BY DEF ReadResponse, WorkerGoto, stealVars, schedVars, pipeVars
<1>2. /\ Read(r) \in Nat /\ Landed \in Nat /\ Read(r) + 1 = Landed
      /\ Last(inherited) = inherited[Landed + 1] /\ Asked = Landed
  BY <1>1, ReaderIsNext
<1>3. Landed' = Landed /\ Asked' = Asked /\ SchedArrived' = SchedArrived
  BY <1>1 DEF Landed, Asked, SchedArrived
<1>4. /\ clc'[r] = IF r \in Threads THEN "sync" ELSE "finish"
      /\ \A q \in Roles \ {r} : clc'[q] = clc[q]
      /\ got'[r] = inherited[Landed + 1] /\ \A q \in Roles \ {r} : got'[q] = got[q]
  BY <1>1, <1>2 DEF ClcTypes
<1>5. \A q \in Roles : Begun(q)' = Begun(q) /\ Begun(q) \in Nat
  BY <1>1, ClcCounts DEF Begun
<1>6. \A q \in Roles \ {r} : /\ Read(q)' = Read(q) /\ Heard(q)' = Heard(q)
                             /\ Synced(q)' = Synced(q) /\ Arrived(q)' = Arrived(q)
  BY <1>4, <1>5, SameCounts
<1>7. Read(r)' = Read(r) + 1
  BY <1>1, <1>4, <1>5 DEF Read
<1>8. Heard(r)' = Heard(r) /\ Arrived(r)' = Arrived(r)
  BY <1>1, <1>2, <1>4, <1>7 DEF Heard, Arrived
<1>9. r \in Threads => Synced(r)' = Synced(r)
  BY <1>1, <1>2, <1>4, <1>7 DEF Synced
<1>10. \A q \in Roles : Heard(q)' = Heard(q) /\ Arrived(q)' = Arrived(q)
  BY <1>6, <1>8
<1>11. ClcTypes'
  <2>1. inherited[Landed + 1] \in WorkTiles \cup {Denied}
    BY <1>2, ClcCounts DEF ClcTypes
  <2>2. got' \in [Roles -> WorkTiles \cup {Denied}]
    BY <1>1, <1>2, <2>1 DEF ClcTypes
  <2>3. clc' \in [Roles -> {"begin", "await", "read", "sync", "finish"}]
    BY <1>1 DEF ClcTypes
  <2>. QED
    BY <1>1, <2>2, <2>3 DEF ClcTypes
<1>12. ClcCountInv'
  <2>1. \A q \in Finishers : Arrived(q)' \in {Asked' - 1, Asked'}
    BY <1>3, <1>10, FinisherFacts DEF ClcCountInv
  <2>2. \A q \in Roles : Heard(q)' =< Landed' /\ Read(q)' >= 0
    <3>1. Read(r)' >= 0
      BY <1>2, <1>7
    <3>. QED
      BY <1>3, <1>6, <1>10, <3>1 DEF ClcCountInv
  <2>3. \A w \in Threads : Synced(w)' = Synced(w)
    BY <1>6, <1>9, RoleFacts
  <2>4. \A w \in Threads : Synced(w)' = Synced(Leader)'
    BY <2>3, RoleFacts DEF ClcCountInv
  <2>5. \A q \in Roles : /\ clc'[q] = "sync" => q \in Threads
                         /\ clc'[q] = "finish" => q \in Finishers
    BY <1>4, FinisherFacts DEF ClcCountInv
  <2>. QED
    BY <1>1, <2>1, <2>2, <2>4, <2>5 DEF ClcCountInv
<1>13. ClcParityInv'
  <2>1. \A q \in Finishers : Arrived(q)' = Arrived(q)
    BY <1>10, FinisherFacts
  <2>2. /\ AllArrived' => finished' = [phase |-> Asked' % 2, pending |-> 4, tx |-> 0]
        /\ ~AllArrived' =>
             finished' = [phase |-> (Asked' + 1) % 2, pending |-> 4 - Arrivals', tx |-> 0]
    BY <1>1, <1>3, <2>1, SameArrivals
  <2>. QED
    BY <1>1, <1>3, <1>10, <2>2 DEF ClcParityInv
<1>14. ClcContentInv'
  <2>1. clc'["tma"] = "begin" => coord'["tma"] = got'["tma"]
    BY <1>1, <1>4, RoleFacts DEF ClcContentInv
  <2>2. \A q \in Roles : got'[q] = inherited'[Read(q)' + 1]
    BY <1>1, <1>2, <1>4, <1>6, <1>7 DEF ClcContentInv
  <2>3. /\ \A w \in Threads : coord'[w] = inherited'[Begun(w)' + 1]
        /\ \A w \in {"tma"} \cup Threads : \A i \in 1 .. Begun(w)' :
             begun'[w][i] = inherited'[i] /\ inherited'[i] # Denied
    BY <1>1, <1>5, RoleFacts DEF ClcContentInv
  <2>4. \A q \in Roles : at'[q] = "end" =>
          got'[q] = Denied /\ clc'[q] = IF q = "tma" THEN "begin" ELSE "await"
    BY <1>1, <1>4 DEF ClcContentInv
  <2>. QED
    BY <1>1, <1>3, <2>1, <2>2, <2>3, <2>4 DEF ClcContentInv
<1>. QED
  BY <1>11, <1>12, <1>13, <1>14

LEMMA ReadSyncInv ==
  ASSUME ClcInv, PipelineTypeOK, ReadSync
  PROVE  ClcInv'
<1>. USE DEF ClcInv
<1>1. /\ \A w \in Threads : clc[w] = "sync"
      /\ clc' = [r \in Roles |-> CASE r \in Lanes -> clc[r]
                                  [] r = Leader -> "finish"
                                  [] OTHER      -> "begin"]
      /\ UNCHANGED <<pending, inherited, requested, full, finished, sched, schedPs>>
      /\ UNCHANGED <<readyPs, got, coord, begun, at>>
  BY DEF ReadSync, stealVars, schedVars, pipeVars
<1>2. Landed' = Landed /\ Asked' = Asked /\ SchedArrived' = SchedArrived
  BY <1>1 DEF Landed, Asked, SchedArrived
<1>3. /\ \A l \in Lanes : clc'[l] = clc[l]
      /\ \A w \in Threads : clc'[w] = IF w = Leader THEN "finish" ELSE "begin"
  <2>1. \A w \in Threads : w \notin Lanes
    BY RoleFacts
  <2>. QED
    BY <1>1, <2>1, RoleFacts
<1>4. \A q \in Roles : Begun(q)' = Begun(q) /\ Begun(q) \in Nat
  BY <1>1, ClcCounts DEF Begun
<1>5. \A l \in Lanes : /\ Read(l)' = Read(l) /\ Heard(l)' = Heard(l)
                       /\ Synced(l)' = Synced(l) /\ Arrived(l)' = Arrived(l)
  BY <1>3, <1>4, SameCounts, RoleFacts
<1>6. \A w \in Threads : Read(w)' = Read(w) /\ Read(w) \in Int
  BY <1>1, <1>3, <1>4, RoleFacts DEF Read
<1>7. \A w \in Threads : Heard(w)' = Heard(w)
  BY <1>1, <1>3, <1>6, RoleFacts DEF Heard
<1>8. \A w \in Threads : Synced(w)' = Synced(w) + 1
  BY <1>1, <1>3, <1>6, RoleFacts DEF Synced
<1>9. Arrived(Leader)' = Arrived(Leader)
  BY <1>1, <1>3, <1>6, RoleFacts DEF Arrived
<1>10. \A q \in Roles : Read(q)' = Read(q) /\ Heard(q)' = Heard(q)
  BY <1>5, <1>6, <1>7, RoleFacts
<1>11. \A q \in Finishers : Arrived(q)' = Arrived(q)
  BY <1>5, <1>9, RoleFacts DEF Finishers
<1>12. ClcTypes'
  <2>1. \A q \in Roles : clc'[q] \in {"begin", "await", "read", "sync", "finish"}
    BY <1>3, RoleFacts DEF ClcTypes
  <2>2. clc' \in [Roles -> {"begin", "await", "read", "sync", "finish"}]
    BY <1>1, <2>1
  <2>. QED
    BY <1>1, <2>2 DEF ClcTypes
<1>13. ClcCountInv'
  <2>1. \A q \in Finishers : Arrived(q)' \in {Asked' - 1, Asked'}
    BY <1>2, <1>11, FinisherFacts DEF ClcCountInv
  <2>2. \A q \in Roles : Heard(q)' =< Landed' /\ Read(q)' >= 0
    BY <1>2, <1>10 DEF ClcCountInv
  <2>3. \A w \in Threads : Synced(w)' = Synced(Leader)'
    BY <1>8, RoleFacts DEF ClcCountInv
  <2>4. \A q \in Roles : /\ clc'[q] = "sync" => q \in Threads
                         /\ clc'[q] = "finish" => q \in Finishers
    BY <1>3, RoleFacts, FinisherFacts DEF ClcCountInv
  <2>. QED
    BY <1>1, <2>1, <2>2, <2>3, <2>4 DEF ClcCountInv
<1>14. ClcParityInv'
  <2>1. /\ AllArrived' => finished' = [phase |-> Asked' % 2, pending |-> 4, tx |-> 0]
        /\ ~AllArrived' =>
             finished' = [phase |-> (Asked' + 1) % 2, pending |-> 4 - Arrivals', tx |-> 0]
    BY <1>1, <1>2, <1>11, SameArrivals
  <2>. QED
    BY <1>1, <1>2, <1>10, <2>1 DEF ClcParityInv
<1>15. ClcContentInv'
  <2>1. clc'["tma"] = "begin" => coord'["tma"] = got'["tma"]
    BY <1>1, <1>3, RoleFacts DEF ClcContentInv
  <2>2. /\ \A q \in Roles : got'[q] = inherited'[Read(q)' + 1]
        /\ \A w \in Threads : coord'[w] = inherited'[Begun(w)' + 1]
        /\ \A w \in {"tma"} \cup Threads : \A i \in 1 .. Begun(w)' :
             begun'[w][i] = inherited'[i] /\ inherited'[i] # Denied
    BY <1>1, <1>4, <1>10, RoleFacts DEF ClcContentInv
  <2>3. ASSUME NEW q \in Roles, at'[q] = "end"
        PROVE  got'[q] = Denied /\ clc'[q] = IF q = "tma" THEN "begin" ELSE "await"
    <3>1. got[q] = Denied /\ clc[q] = IF q = "tma" THEN "begin" ELSE "await"
      BY <1>1, <2>3 DEF ClcContentInv
    <3>2. q \in Lanes
      BY <1>1, <3>1, RoleFacts
    <3>. QED
      BY <1>1, <1>3, <3>1, <3>2
  <2>. QED
    BY <1>1, <1>2, <2>1, <2>2, <2>3 DEF ClcContentInv
<1>. QED
  BY <1>12, <1>13, <1>14, <1>15

LEMMA FinishSlotInv ==
  ASSUME ClcInv, PipelineTypeOK, NEW r \in Roles, FinishSlot(r)
  PROVE  ClcInv'
<1>. USE DEF ClcInv
<1>1. /\ clc[r] = "finish" /\ finished' = Arrive(finished, 4)
      /\ coord' = IF r = "tma" THEN [coord EXCEPT ![r] = got[r]] ELSE coord
      /\ clc' = [clc EXCEPT ![r] = "begin"]
      /\ UNCHANGED <<pending, inherited, requested, full, sched, schedPs>>
      /\ UNCHANGED <<readyPs, got, begun, at>>
  BY DEF FinishSlot, WorkerGoto, FinishArrivals, stealVars, schedVars, pipeVars
<1>2. r \in Finishers
  BY <1>1 DEF ClcCountInv
<1>3. Landed' = Landed /\ Asked' = Asked /\ SchedArrived' = SchedArrived
  BY <1>1 DEF Landed, Asked, SchedArrived
<1>4. clc'[r] = "begin" /\ \A q \in Roles \ {r} : clc'[q] = clc[q]
  BY <1>1 DEF ClcTypes
<1>5. \A q \in Roles : Begun(q)' = Begun(q) /\ Begun(q) \in Nat
  BY <1>1, ClcCounts DEF Begun
<1>6. \A q \in Roles \ {r} : /\ Read(q)' = Read(q) /\ Heard(q)' = Heard(q)
                             /\ Synced(q)' = Synced(q) /\ Arrived(q)' = Arrived(q)
                             /\ OneArrived(q)' = OneArrived(q)
  BY <1>3, <1>4, <1>5, SameCounts
<1>7. Read(r)' = Read(r)
  BY <1>1, <1>4, <1>5 DEF Read
<1>8. Heard(r)' = Heard(r) /\ Synced(r)' = Synced(r) /\ Arrived(r)' = Read(r)
  BY <1>1, <1>4, <1>7 DEF Heard, Synced, Arrived
<1>9. Arrived(r) = Asked - 1 /\ Arrived(r)' = Asked
  <2>1. Arrived(r) = Read(r) - 1 /\ Arrived(r) \in {Asked - 1, Asked}
    BY <1>1, <1>2 DEF Arrived, ClcCountInv
  <2>2. Read(r) =< Landed /\ Read(r) \in Int
    BY AllKeepUp
  <2>. QED
    BY <1>8, <2>1, <2>2, ClcCounts
<1>10. Arrivals' = Arrivals + 1
  <2>1. OneArrived(r) = 0 /\ OneArrived(r)' = 1
    BY <1>3, <1>9, ClcCounts DEF OneArrived
  <2>2. \A q \in Roles : OneArrived(q) \in {0, 1}
    BY DEF OneArrived
  <2>. DEFINE s == IF SchedArrived = Asked THEN 1 ELSE 0
  <2>3. /\ s \in {0, 1}
        /\ Arrivals = s + OneArrived("tma") + OneArrived("mma") + OneArrived(Leader)
        /\ Arrivals' = s + OneArrived("tma")' + OneArrived("mma")' + OneArrived(Leader)'
    BY <1>3 DEF Arrivals
  <2>. HIDE DEF s
  <2>4. /\ OneArrived("tma") \in {0, 1} /\ OneArrived("mma") \in {0, 1}
        /\ OneArrived(Leader) \in {0, 1}
    BY <2>2, RoleFacts
  <2>5. CASE r = "tma"
    <3>1. OneArrived("mma")' = OneArrived("mma") /\ OneArrived(Leader)' = OneArrived(Leader)
      BY <1>6, <2>5, FinisherFacts, RoleFacts
    <3>. QED
      BY <2>1, <2>3, <2>4, <2>5, <3>1
  <2>6. CASE r = "mma"
    <3>1. OneArrived("tma")' = OneArrived("tma") /\ OneArrived(Leader)' = OneArrived(Leader)
      BY <1>6, <2>6, FinisherFacts, RoleFacts
    <3>. QED
      BY <2>1, <2>3, <2>4, <2>6, <3>1
  <2>7. CASE r = Leader
    <3>1. OneArrived("tma")' = OneArrived("tma") /\ OneArrived("mma")' = OneArrived("mma")
      BY <1>6, <2>7, FinisherFacts, RoleFacts
    <3>. QED
      BY <2>1, <2>3, <2>4, <2>7, <3>1
  <2>. QED
    BY <1>2, <2>5, <2>6, <2>7 DEF Finishers
<1>11. \A q \in Roles : Read(q)' = Read(q) /\ Heard(q)' = Heard(q) /\ Synced(q)' = Synced(q)
  BY <1>6, <1>7, <1>8
<1>12. ClcTypes'
  <2>1. coord' \in [Roles -> WorkTiles \cup {Denied}]
    BY <1>1 DEF ClcTypes
  <2>2. clc' \in [Roles -> {"begin", "await", "read", "sync", "finish"}]
    BY <1>1 DEF ClcTypes
  <2>. QED
    BY <1>1, <2>1, <2>2 DEF ClcTypes
<1>13. ClcCountInv'
  <2>1. \A q \in Finishers : Arrived(q)' \in {Asked' - 1, Asked'}
    <3>1. \A q \in Finishers \ {r} : Arrived(q)' \in {Asked' - 1, Asked'}
      BY <1>3, <1>6, FinisherFacts DEF ClcCountInv
    <3>. QED
      BY <1>3, <1>9, <3>1
  <2>2. \A q \in Roles : Heard(q)' =< Landed' /\ Read(q)' >= 0
    BY <1>3, <1>11 DEF ClcCountInv
  <2>3. \A w \in Threads : Synced(w)' = Synced(Leader)'
    BY <1>11, RoleFacts DEF ClcCountInv
  <2>4. \A q \in Roles : /\ clc'[q] = "sync" => q \in Threads
                         /\ clc'[q] = "finish" => q \in Finishers
    BY <1>4 DEF ClcCountInv
  <2>. QED
    BY <1>1, <2>1, <2>2, <2>3, <2>4 DEF ClcCountInv
<1>14. ClcParityInv'
  <2>1. /\ AllArrived' => finished' = [phase |-> Asked' % 2, pending |-> 4, tx |-> 0]
        /\ ~AllArrived' =>
             finished' = [phase |-> (Asked' + 1) % 2, pending |-> 4 - Arrivals', tx |-> 0]
    BY <1>1, <1>3, <1>10, OneMoreArrives
  <2>. QED
    BY <1>1, <1>3, <1>11, <2>1 DEF ClcParityInv
<1>15. ClcContentInv'
  <2>1. clc'["tma"] = "begin" => coord'["tma"] = got'["tma"]
    BY <1>1, <1>4, RoleFacts DEF ClcContentInv, ClcTypes
  <2>2. \A w \in Threads : coord'[w] = coord[w]
    BY <1>1, RoleFacts DEF ClcTypes
  <2>3. /\ \A q \in Roles : got'[q] = inherited'[Read(q)' + 1]
        /\ \A w \in Threads : coord'[w] = inherited'[Begun(w)' + 1]
        /\ \A w \in {"tma"} \cup Threads : \A i \in 1 .. Begun(w)' :
             begun'[w][i] = inherited'[i] /\ inherited'[i] # Denied
    BY <1>1, <1>5, <1>11, <2>2, RoleFacts DEF ClcContentInv
  <2>4. \A q \in Roles : at'[q] = "end" =>
          got'[q] = Denied /\ clc'[q] = IF q = "tma" THEN "begin" ELSE "await"
    BY <1>1, <1>4 DEF ClcContentInv
  <2>. QED
    BY <1>1, <1>3, <2>1, <2>3, <2>4 DEF ClcContentInv
<1>. QED
  BY <1>12, <1>13, <1>14, <1>15

\* A role that begins a tile has read one response more than it has begun tiles.
LEMMA StartInv ==
  ASSUME ClcInv, PipelineTypeOK, NEW r \in Roles, NEW t \in WorkTiles \cup {NoTile},
         Start(r, t), pending' = pending,
         r # "mma" => t = inherited[Begun(r) + 1] /\ t # Denied,
         coord' = IF r \in Threads THEN [coord EXCEPT ![r] = got[r]] ELSE coord
  PROVE  ClcInv'
<1>. USE DEF ClcInv
<1>1. /\ clc[r] = "begin" /\ at[r] = "next"
      /\ clc' = [clc EXCEPT ![r] = "await"]
      /\ begun' = [begun EXCEPT ![r] = Append(begun[r], t)]
      /\ UNCHANGED <<inherited, requested, full, finished, sched, schedPs>>
      /\ UNCHANGED <<readyPs, got>>
  BY DEF Start, BeginTile, WorkerGoto, stealVars, schedVars
<1>2. Landed' = Landed /\ Asked' = Asked /\ SchedArrived' = SchedArrived
  BY <1>1 DEF Landed, Asked, SchedArrived
<1>3. clc'[r] = "await" /\ \A q \in Roles \ {r} : clc'[q] = clc[q]
  BY <1>1 DEF ClcTypes
<1>4. Begun(r) \in Nat
  BY ClcCounts
<1>5. /\ Begun(r)' = Begun(r) + 1 /\ begun'[r][Begun(r) + 1] = t
      /\ \A i \in 1 .. Begun(r) : begun'[r][i] = begun[r][i]
      /\ \A q \in Roles \ {r} : begun'[q] = begun[q] /\ Begun(q)' = Begun(q)
  BY <1>1, AppendBegun
<1>6. \A q \in Roles \ {r} : /\ Read(q)' = Read(q) /\ Heard(q)' = Heard(q)
                             /\ Synced(q)' = Synced(q) /\ Arrived(q)' = Arrived(q)
  BY <1>3, <1>5, SameCounts
<1>7. Read(r)' = Read(r) /\ Read(r) = IF r = "tma" THEN Begun(r) ELSE Begun(r) + 1
  BY <1>1, <1>3, <1>4, <1>5 DEF Read
<1>8. Heard(r)' = Heard(r) /\ Synced(r)' = Synced(r) /\ Arrived(r)' = Arrived(r)
  BY <1>1, <1>3, <1>7 DEF Heard, Synced, Arrived
<1>9. \A q \in Roles : /\ Read(q)' = Read(q) /\ Heard(q)' = Heard(q)
                       /\ Synced(q)' = Synced(q) /\ Arrived(q)' = Arrived(q)
  BY <1>6, <1>7, <1>8
<1>10. ClcTypes'
  <2>1. clc' \in [Roles -> {"begin", "await", "read", "sync", "finish"}]
    BY <1>1 DEF ClcTypes
  <2>2. coord' \in [Roles -> WorkTiles \cup {Denied}]
    BY DEF ClcTypes
  <2>. QED
    BY <1>1, <2>1, <2>2 DEF ClcTypes
<1>11. ClcCountInv'
  <2>1. \A q \in Finishers : Arrived(q)' \in {Asked' - 1, Asked'}
    BY <1>2, <1>9, FinisherFacts DEF ClcCountInv
  <2>2. \A q \in Roles : Heard(q)' =< Landed' /\ Read(q)' >= 0
    BY <1>2, <1>9 DEF ClcCountInv
  <2>3. \A w \in Threads : Synced(w)' = Synced(Leader)'
    BY <1>9, RoleFacts DEF ClcCountInv
  <2>4. \A q \in Roles : /\ clc'[q] = "sync" => q \in Threads
                         /\ clc'[q] = "finish" => q \in Finishers
    BY <1>3 DEF ClcCountInv
  <2>. QED
    BY <1>1, <2>1, <2>2, <2>3, <2>4 DEF ClcCountInv
<1>12. ClcParityInv'
  <2>1. \A q \in Finishers : Arrived(q)' = Arrived(q)
    BY <1>9, FinisherFacts
  <2>2. /\ AllArrived' => finished' = [phase |-> Asked' % 2, pending |-> 4, tx |-> 0]
        /\ ~AllArrived' =>
             finished' = [phase |-> (Asked' + 1) % 2, pending |-> 4 - Arrivals', tx |-> 0]
    BY <1>1, <1>2, <2>1, SameArrivals
  <2>. QED
    BY <1>1, <1>2, <1>9, <2>2 DEF ClcParityInv
<1>13. ClcContentInv'
  <2>1. clc'["tma"] = "begin" => coord'["tma"] = got'["tma"]
    <3>1. coord'["tma"] = coord["tma"]
      BY RoleFacts DEF ClcTypes
    <3>. QED
      BY <1>1, <1>3, <3>1, RoleFacts DEF ClcContentInv
  <2>2. \A q \in Roles : got'[q] = inherited'[Read(q)' + 1]
    BY <1>1, <1>9 DEF ClcContentInv
  <2>3. ASSUME NEW w \in Threads PROVE coord'[w] = inherited'[Begun(w)' + 1]
    <3>1. CASE w = r
      <4>1. coord'[w] = got[w] /\ w # "tma" /\ w \in Roles
        BY <3>1, RoleFacts DEF ClcTypes
      <4>2. got[w] = inherited[Read(w) + 1] /\ Read(w) = Begun(w)'
        BY <1>5, <1>7, <3>1, <4>1 DEF ClcContentInv
      <4>. QED
        BY <1>1, <4>1, <4>2
    <3>2. CASE w # r
      <4>1. coord'[w] = coord[w] /\ Begun(w)' = Begun(w)
        BY <1>5, <3>2, RoleFacts DEF ClcTypes
      <4>. QED
        BY <1>1, <4>1 DEF ClcContentInv
    <3>. QED
      BY <3>1, <3>2
  <2>4. ASSUME NEW w \in {"tma"} \cup Threads, NEW i \in 1 .. Begun(w)'
        PROVE  begun'[w][i] = inherited'[i] /\ inherited'[i] # Denied
    <3>1. CASE w = r
      <4>1. w # "mma"
        BY RoleFacts
      <4>2. CASE i = Begun(r) + 1
        BY <1>1, <1>5, <3>1, <4>1, <4>2
      <4>3. CASE i # Begun(r) + 1
        <5>1. i \in 1 .. Begun(r)
          BY <1>4, <1>5, <3>1, <4>3
        <5>. QED
          BY <1>1, <1>5, <3>1, <5>1 DEF ClcContentInv
      <4>. QED
        BY <4>2, <4>3
    <3>2. CASE w # r
      <4>1. w \in Roles \ {r}
        BY <3>2, RoleFacts
      <4>2. begun'[w] = begun[w] /\ i \in 1 .. Begun(w)
        BY <1>5, <4>1
      <4>. QED
        BY <1>1, <4>2 DEF ClcContentInv
    <3>. QED
      BY <3>1, <3>2
  <2>5. ASSUME NEW q \in Roles, at'[q] = "end"
        PROVE  got'[q] = Denied /\ clc'[q] = IF q = "tma" THEN "begin" ELSE "await"
    <3>1. q # r /\ at[q] = "end"
      BY <2>5, RoleFacts DEF Start, BeginTile, Move, PipelineTypeOK
    <3>. QED
      BY <1>1, <1>3, <3>1 DEF ClcContentInv
  <2>6. /\ \A i \in 1 .. Landed' : inherited'[i] # Denied
        /\ inherited'[Landed' + 1] = Denied => ~requested' /\ sched' \in {"read", "left"}
        /\ inherited'[1] = Me
    BY <1>1, <1>2 DEF ClcContentInv
  <2>. QED
    BY <2>1, <2>2, <2>3, <2>4, <2>5, <2>6 DEF ClcContentInv
<1>. QED
  BY <1>10, <1>11, <1>12, <1>13

\* The three ways a tile is begun, and the end of a loop.
LEMMA BeginInv ==
  ASSUME KernelInv, LoadTile \/ MultiplyTile \/ \E w \in Threads : WriteTile(w)
  PROVE  KernelInv'
<1>. USE DEF KernelInv, PipeInv
<1>1. ASSUME NEW r \in Roles, NEW t \in WorkTiles \cup {NoTile}, Start(r, t)
      PROVE  PipeInv' /\ KeptInv' /\ pending' = pending
  BY <1>1, LoopInv, KeptLoop DEF Start, stealVars
<1>2. CASE LoadTile
  <2>1. /\ Start("tma", coord["tma"]) /\ got["tma"] # Denied /\ coord' = coord
        /\ clc["tma"] = "begin"
    BY <1>2 DEF LoadTile, Start
  <2>2. coord["tma"] = got["tma"] /\ got["tma"] = inherited[Begun("tma") + 1]
    BY <2>1, RoleFacts DEF ClcInv, ClcContentInv, Read
  <2>3. coord["tma"] \in WorkTiles \cup {NoTile}
    BY RoleFacts DEF ClcInv, ClcTypes, Denied
  <2>. QED
    BY <1>1, <2>1, <2>2, <2>3, StartInv, RoleFacts
<1>3. CASE MultiplyTile
  <2>1. Start("mma", NoTile) /\ coord' = coord
    BY <1>3 DEF MultiplyTile
  <2>. QED
    BY <1>1, <2>1, StartInv, RoleFacts
<1>4. ASSUME NEW w \in Threads, WriteTile(w) PROVE KernelInv'
  <2>1. /\ Start(w, coord[w]) /\ coord' = [coord EXCEPT ![w] = got[w]]
        /\ clc[w] = "begin" /\ w \in Roles /\ w # "tma"
    BY <1>4, RoleFacts DEF WriteTile, Start
  <2>2. coord[w] = inherited[Begun(w) + 1]
    BY DEF ClcInv, ClcContentInv
  <2>3. Begun(w) + 1 \in 1 .. Landed
    <3>1. Read(w) = Begun(w) + 1 /\ Begun(w) \in Nat /\ Landed \in Nat
      BY <2>1, ClcCounts DEF Read, ClcInv
    <3>. QED
      BY <2>1, <3>1, AllKeepUp DEF ClcInv
  <2>4. coord[w] # Denied
    BY <2>2, <2>3 DEF ClcInv, ClcContentInv
  <2>5. coord[w] \in WorkTiles \cup {NoTile}
    BY <2>1 DEF ClcInv, ClcTypes, Denied
  <2>. QED
    BY <1>1, <2>1, <2>2, <2>4, <2>5, StartInv
<1>. QED
  BY <1>2, <1>3, <1>4

LEMMA LeaveDrainedInv ==
  ASSUME KernelInv, NEW r \in Roles, LeaveDrained(r)
  PROVE  KernelInv'
<1>. USE DEF KernelInv
<1>1. /\ EndLoop(r) /\ got[r] = Denied /\ clc[r] = IF r = "tma" THEN "begin" ELSE "await"
      /\ UNCHANGED clcVars
  BY DEF LeaveDrained
<1>2. PipeInv' /\ KeptInv'
  BY <1>1, LoopInv, KeptLoop
<1>3. begun' = begun /\ \A q \in Roles \ {r} : at'[q] = at[q]
  BY <1>1 DEF EndLoop, Move, PipeInv, PipelineTypeOK
<1>4. UNCHANGED <<inherited, requested, full, finished, schedVars, workerVars>>
      /\ pending' \subseteq WorkTiles
  BY <1>1 DEF clcVars, stealVars, ClcInv, ClcTypes
<1>. QED
  BY <1>1, <1>2, <1>3, <1>4, ClcFrame DEF PipeInv

\* A role ends on the response that names no tile, so all end on the same one.
LEMMA EndsLast ==
  ASSUME ClcInv, PipelineTypeOK, NEW r \in Roles, at[r] = "end"
  PROVE  Begun(r) = Landed /\ inherited[Landed + 1] = Denied
<1>. USE DEF ClcInv
<1>1. got[r] = Denied /\ clc[r] = IF r = "tma" THEN "begin" ELSE "await"
  BY DEF ClcContentInv
<1>2. inherited[Read(r) + 1] = Denied /\ Read(r) = Begun(r)
  BY <1>1 DEF ClcContentInv, Read
<1>3. Landed \in Nat /\ Read(r) \in Int /\ Read(r) >= 0 /\ Read(r) =< Landed
  BY ClcCounts, AllKeepUp
<1>4. Read(r) + 1 \notin 1 .. Landed
  BY <1>2 DEF ClcContentInv
<1>5. Read(r) = Landed
  BY <1>3, <1>4
<1>. QED
  BY <1>2, <1>5

\* What the writeback begins has been inherited.
LEMMA BegunIsInherited ==
  ASSUME ClcInv, PipelineTypeOK, NEW w \in {"tma"} \cup Threads, NEW i \in 1 .. Begun(w)
  PROVE  /\ i \in DOMAIN inherited /\ begun[w][i] = inherited[i]
         /\ inherited[i] \in WorkTiles
<1>1. begun[w][i] = inherited[i] /\ inherited[i] # Denied
  BY DEF ClcInv, ClcContentInv
<1>2. w \in Roles
  BY RoleFacts
<1>3. /\ Begun(w) \in Nat /\ Landed \in Nat /\ Landed + 1 = Len(inherited)
      /\ Begun(w) =< Landed + 1
  BY <1>2, ClcCounts, AllKeepUp DEF ClcInv
<1>4. i \in 1 .. Len(inherited)
  BY <1>3
<1>. QED
  BY <1>1, <1>4 DEF ClcInv, ClcTypes

LEMMA ClcGivesSame ==
  ASSUME KernelInv
  PROVE  SameTiles
<1>. USE DEF KernelInv, PipeInv
<1>1. \A i \in 1 .. Begun("tma") : begun["tma"][i] \in WorkTiles
  BY BegunIsInherited
<1>2. ASSUME NEW i \in 1 .. Begun("tma"), i =< Begun(Leader)
      PROVE  begun["tma"][i] = begun[Leader][i]
  <2>1. i \in 1 .. Begun(Leader)
    BY <1>2, RoleFacts, ClcCounts DEF ClcInv
  <2>. QED
    BY <2>1, BegunIsInherited, RoleFacts
<1>3. \A r, q \in Roles : at[r] = "end" /\ at[q] = "end" => Begun(r) = Begun(q)
  BY EndsLast
<1>. QED
  BY <1>1, <1>2, <1>3 DEF SameTiles

LEMMA ClcNext ==
  ASSUME KernelInv, [KernelNext]_kernelVars
  PROVE  KernelInv'
<1>. USE DEF KernelInv
<1>1. ASSUME pipeVars' = pipeVars, ClcInv' PROVE KernelInv'
  BY <1>1, PipeStutter, KeptStutter
<1>2. PipelineTypeOK
  BY DEF PipeInv
<1>3. ASSUME UNCHANGED clcVars
      PROVE  /\ UNCHANGED <<inherited, requested, full, finished, schedVars, workerVars>>
             /\ pending' \subseteq WorkTiles
  BY <1>3 DEF clcVars, stealVars, ClcInv, ClcTypes
<1>4. CASE RequestSteal \/ Steal \/ SchedulerReads \/ ReadSync
  <2>1. pipeVars' = pipeVars
    BY <1>4 DEF RequestSteal, Steal, Respond, SchedulerReads, ReadSync
  <2>2. ClcInv'
    BY <1>2, <1>4, RequestStealInv, RespondInv, SchedulerReadsInv, ReadSyncInv DEF Steal
  <2>. QED
    BY <1>1, <2>1, <2>2
<1>5. CASE TakenElsewhere
  <2>1. /\ pipeVars' = pipeVars /\ pending' \subseteq WorkTiles
        /\ UNCHANGED <<inherited, requested, full, finished, schedVars, workerVars>>
    BY <1>5 DEF TakenElsewhere, ClcInv, ClcTypes
  <2>2. begun' = begun /\ at' = at
    BY <2>1 DEF pipeVars
  <2>. QED
    BY <1>1, <1>2, <2>1, <2>2, ClcFrame
<1>6. ASSUME NEW r \in Roles, AwaitResponse(r) \/ ReadResponse(r) \/ FinishSlot(r)
      PROVE  KernelInv'
  <2>1. pipeVars' = pipeVars
    BY <1>6 DEF AwaitResponse, ReadResponse, FinishSlot
  <2>2. ClcInv'
    BY <1>2, <1>6, AwaitResponseInv, ReadResponseInv, FinishSlotInv
  <2>. QED
    BY <1>1, <2>1, <2>2
<1>7. CASE \E r \in Roles : Worker(r)
  BY <1>6, <1>7, LeaveDrainedInv DEF Worker
<1>8. CASE LoadTile \/ MultiplyTile \/ \E w \in Threads : WriteTile(w)
  BY <1>8, BeginInv
<1>9. CASE KernelStep
  <2>1. PipelineStep /\ UNCHANGED clcVars
    BY <1>9 DEF KernelStep
  <2>2. PipeInv' /\ KeptInv'
    BY <2>1, ClcGivesSame, PipelineStepInv, KeptStep
  <2>3. begun' = begun /\ \A r \in Roles : at'[r] = "end" => at[r] = "end"
    BY <1>2, <2>1, StepKeepsLoops
  <2>. QED
    BY <1>2, <1>3, <2>1, <2>2, <2>3, ClcFrame
<1>10. CASE UNCHANGED kernelVars
  <2>1. pipeVars' = pipeVars /\ UNCHANGED clcVars
    BY <1>10 DEF kernelVars
  <2>2. begun' = begun /\ at' = at
    BY <2>1 DEF pipeVars
  <2>. QED
    BY <1>1, <1>2, <1>3, <2>1, <2>2, ClcFrame
<1>. QED
  BY <1>4, <1>5, <1>7, <1>8, <1>9, <1>10 DEF KernelNext, KernelFinished

------------------------------------------------------------------------------

\* The CLC kernel keeps its invariant: no role is more than a response behind the
\* scheduler, so the parity it waits on is that of its own response, and each role's
\* tiles are the coordinates the CTA has inherited, in order.
THEOREM ClcInvariant == KernelSpec => []KernelInv
<1>1. KernelInit => KernelInv
  BY ClcInit
<1>2. KernelInv /\ [KernelNext]_kernelVars => KernelInv'
  BY ClcNext
<1>. QED
  BY <1>1, <1>2, PTL DEF KernelSpec

\* No memory of a CTA of the CLC kernel is read and written at once, however its
\* steal requests end and whatever the other CTAs take.
THEOREM ClcNoRace == KernelSpec => []NoDataRace
<1>1. KernelInv => NoDataRace
  BY ClcGivesSame, PipeSafe DEF KernelInv
<1>. QED
  BY <1>1, ClcInvariant, PTL

\* What the CLC kernel stores is a tile the CTA inherited, whole and made of that
\* tile's own operands; and a CTA that has exited has stored its own tile and every
\* tile it inherited.
THEOREM ClcOutput == KernelSpec => []StoresInheritedTiles
<1>1. ASSUME KernelInv PROVE StoresInheritedTiles
  <2>. USE DEF KernelInv, PipeInv
  <2>1. OutputCorrect
    BY <1>1, ClcGivesSame, PipeSafe
  <2>2. ASSUME NEW t \in WorkTiles, D[t] # NoRows PROVE t \in Mine
    <3>1. PICK j \in 1 .. Begun(Leader) : begun[Leader][j] = t
      BY <1>1, <2>2 DEF StoredInv
    <3>2. j \in DOMAIN inherited /\ inherited[j] = t
      BY <1>1, <3>1, BegunIsInherited, RoleFacts
    <3>3. t # Denied
      BY FinisherFacts
    <3>. QED
      BY <3>2, <3>3 DEF Mine, ToSet
  <2>3. ASSUME exited, NEW t \in Mine PROVE D[t] # NoRows
    <3>1. at[Leader] = "end"
      BY <1>1, <2>3, RoleFacts DEF ExitInv
    <3>2. Begun(Leader) = Landed /\ inherited[Landed + 1] = Denied
      BY <1>1, <3>1, EndsLast, RoleFacts
    <3>3. Landed \in Nat /\ Landed + 1 = Len(inherited) /\ inherited \in Seq(WorkTiles \cup {Denied})
      BY <1>1, ClcCounts DEF ClcInv, ClcTypes
    <3>4. PICK i \in DOMAIN inherited : inherited[i] = t
      BY DEF Mine, ToSet
    <3>5. i \in 1 .. Landed + 1 /\ i # Landed + 1
      <4>1. t # Denied
        BY DEF Mine
      <4>. QED
        BY <3>2, <3>3, <3>4, <4>1
    <3>6. i \in 1 .. Begun(Leader)
      BY <3>2, <3>3, <3>5
    <3>7. begun[Leader][i] = t
      BY <1>1, <3>4, <3>6, BegunIsInherited, RoleFacts
    <3>. QED
      BY <1>1, <3>1, <3>6, <3>7 DEF KeptInv, Kept
  <2>. QED
    BY <2>1, <2>2, <2>3 DEF StoresInheritedTiles
<1>. QED
  BY <1>1, ClcInvariant, PTL

\* No response lands before every role, and every thread of the writeback, has read
\* the one before: none is skipped.
THEOREM ResponseRead == KernelSpec => ResponseReadByAll
<1>1. ASSUME KernelInv, [KernelNext]_kernelVars, inherited' # inherited
      PROVE  \A r \in Roles : got[r] = Last(inherited)
  <2>. USE DEF KernelInv, ClcInv, PipeInv
  <2>1. requested
    BY <1>1 DEF KernelNext, RequestSteal, Steal, Respond, SchedulerReads, TakenElsewhere,
                Worker, AwaitResponse, ReadResponse, FinishSlot, LeaveDrained, ReadSync,
                LoadTile, MultiplyTile, WriteTile, Start, KernelStep, KernelFinished,
                kernelVars, clcVars, stealVars
  <2>2. Last(inherited) = inherited[Landed + 1]
    BY <1>1, ClcCounts DEF Last
  <2>3. \A r \in Roles : Read(r) = Landed
    BY <1>1, <2>1, AllReadWhenAsked
  <2>. QED
    BY <1>1, <2>2, <2>3 DEF ClcContentInv
<1>2. KernelInv /\ [KernelNext]_kernelVars =>
        [inherited' # inherited => \A r \in Roles : got[r] = Last(inherited)]_kernelVars
  BY <1>1
<1>. QED
  BY <1>2, ClcInvariant, PTL DEF KernelSpec, ResponseReadByAll
=============================================================================
