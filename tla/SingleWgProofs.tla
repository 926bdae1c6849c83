----------------------------- MODULE SingleWgProofs -----------------------------
(***************************************************************************)
(* Proofs about the single-warpgroup kernels for every worklist, grid and  *)
(* pipeline, by a refinement mapping: with the leader's program read as    *)
(* three roles, and an accumulator barrier imagined that the threads'      *)
(* syncs stand for, each step is a step of the warp-specialised pipeline   *)
(* or several of them at once.  What PipelineProofs says of that pipeline  *)
(* is then true of this one.                                               *)
(***************************************************************************)
EXTENDS SingleWg, FiniteSetTheorems, TLAPS

------------------------------------------------------------------------------
(* The mapping                                                             *)

\* While warp 0's elected lane is in its K loop the leader waits for the accumulator,
\* and the lanes leave their loops with it.
MapAt ==
  [r \in Roles |-> IF r = Leader /\ at[r] = "issue" THEN "wait"
                   ELSE IF r \in Lanes /\ at[Leader] = "end" THEN "end" ELSE at[r]]

\* The accumulators a thread is done with; the threads that still need the last one.
\* The barrier they would arrive on, and the cursor of the lane that would wait on it.
Through(w) == IF MapAt[w] \in {"wait", "load"} THEN Len(begun[w]) - 1 ELSE Len(begun[w])
Taken == Len(begun["mma"])
Needing == {w \in Threads : Through(w) = Taken - 1}
MapCursor == [stage |-> 0, phase |-> (Taken + 1) % 2]
MapBar ==
  IF Needing = {}
  THEN [phase |-> Taken % 2, pending |-> Cardinality(Threads), tx |-> 0]
  ELSE [phase |-> (Taken + 1) % 2, pending |-> Cardinality(Needing), tx |-> 0]

P == INSTANCE PipelineProofs WITH at <- MapAt, accPs <- MapCursor, ld2mma <- MapBar

------------------------------------------------------------------------------
(* The invariant                                                           *)

Labels == {"next", "fill", "expect", "issue", "commit", "wait", "load", "stage",
           "staged", "store", "drain", "stored", "end"}

\* tile_id of a thread that has gone through n tiles.
NthTile(n) == bx + n * grid

\* Each thread counts its own tile_id.
StrideInv ==
  /\ grid \in Nat \ {0} /\ bx \in 0 .. grid - 1
  /\ DOMAIN cursor = Threads
  /\ \A w \in Threads :
       /\ cursor[w] = NthTile(Len(begun[w]))
       /\ \A i \in 1 .. Len(begun[w]) :
            begun[w][i] = NthTile(i - 1) /\ begun[w][i] < TileCount
       /\ at[w] = "end" => cursor[w] >= TileCount

\* The lanes are the leader's: they begin its tiles and work while it is in its K loop.
LaneInv ==
  /\ at \in [Roles -> Labels]
  /\ \A l \in Lanes : begun[l] = begun[Leader]
  /\ at["tma"] \in {"next", "fill", "expect"}
  /\ at["mma"] \in {"next", "issue", "commit"}
  /\ at["mma"] = "commit" => at["tma"] = "next"
  /\ at[Leader] = "issue" <=> at["mma"] # "next"
  /\ at["mma"] = "next" => at["tma"] = "next"

\* The invariant of a CTA.
Inv == P!PipeInv /\ StrideInv /\ LaneInv

------------------------------------------------------------------------------

LEMMA Facts ==
  /\ Leader \in Threads /\ Threads \subseteq Roles /\ Lanes \subseteq Roles
  /\ "tma" \in Lanes /\ "mma" \in Lanes /\ "tma" \in Roles /\ "mma" \in Roles
  /\ "tma" \notin Threads /\ "mma" \notin Threads
  /\ \A r \in Roles : r \in Lanes \/ r \in Threads
  /\ \A r \in Lanes : r = "tma" \/ r = "mma"
  /\ \A r \in Lanes : r \notin Threads
  /\ KTiles \in Nat /\ KTiles > 0 /\ PipeDepth \in Nat /\ PipeDepth > 0
  /\ NoTile \notin WorkTiles
  /\ IsFiniteSet(Threads)
  /\ TileCount \in Nat /\ WorkTiles = 0 .. TileCount - 1
BY PipelineAssumption, RoleAssumption, SingleWgAssumption DEF Roles, Lanes, NoTile

\* What is imagined depends on the labels only where a thread needs the accumulator.
LEMMA MapKept ==
  ASSUME begun' = begun,
         \A w \in Threads :
           MapAt'[w] \in {"wait", "load"} <=> MapAt[w] \in {"wait", "load"}
  PROVE  MapCursor' = MapCursor /\ MapBar' = MapBar
<1>1. Taken' = Taken
  BY DEF Taken
<1>2. \A w \in Threads : Through(w)' = Through(w)
  BY DEF Through
<1>3. Needing' = Needing
  BY <1>1, <1>2 DEF Needing
<1>. QED
  BY <1>1, <1>3 DEF MapCursor, MapBar

\* The leader outside its K loop maps to itself, with the lanes.
LEMMA MapPlain ==
  ASSUME at \in [Roles -> Labels], at[Leader] \notin {"issue", "end"}
  PROVE  MapAt = at
BY DEF MapAt

LEMMA MapLabels ==
  ASSUME at \in [Roles -> Labels]
  PROVE  /\ DOMAIN MapAt = Roles
         /\ \A w \in Threads : MapAt[w] = IF w = Leader /\ at[w] = "issue" THEN "wait" ELSE at[w]
         /\ \A l \in Lanes : MapAt[l] = IF at[Leader] = "end" THEN "end" ELSE at[l]
BY Facts DEF MapAt

LEMMA MapMove ==
  ASSUME at \in [Roles -> Labels], NEW r \in Roles, NEW x \in Labels,
         at' = [at EXCEPT ![r] = x],
         r = Leader => x \notin {"issue", "end"} /\ at[r] # "end",
         r \in Lanes => at[Leader] # "end"
  PROVE  MapAt' = [MapAt EXCEPT ![r] = x] /\ at' \in [Roles -> Labels]
<1>1. at' \in [Roles -> Labels] /\ at'[r] = x /\ \A q \in Roles \ {r} : at'[q] = at[q]
  OBVIOUS
<1>2. MapAt' = [q \in Roles |-> IF q = Leader /\ at'[q] = "issue" THEN "wait"
                   ELSE IF q \in Lanes /\ at'[Leader] = "end" THEN "end" ELSE at'[q]]
  BY DEF MapAt
<1>3. ASSUME NEW q \in Roles PROVE MapAt'[q] = IF q = r THEN x ELSE MapAt[q]
  BY <1>1, <1>2, Facts DEF MapAt
<1>4. [MapAt EXCEPT ![r] = x] = [q \in Roles |-> IF q = r THEN x ELSE MapAt[q]]
  BY DEF MapAt
<1>5. MapAt' = [q \in Roles |-> MapAt'[q]]
  BY <1>2
<1>. QED
  BY <1>1, <1>3, <1>4, <1>5

------------------------------------------------------------------------------
(* What the pipeline's proofs say of the mapped pipeline                   *)

LEMMA PipeStepKept ==
  ASSUME P!PipeInv, P!SameTiles, P!PipelineStep
  PROVE  P!PipeInv'
BY P!PipelineStepInv, RoleAssumption, PipelineAssumption
   DEF Lanes, P!Lanes, IsFiniteSet, P!IsFiniteSet

LEMMA PipeSame ==
  ASSUME P!PipeInv, UNCHANGED P!pipeVars
  PROVE  P!PipeInv'
BY P!PipeStutter, RoleAssumption, PipelineAssumption
   DEF Lanes, P!Lanes, IsFiniteSet, P!IsFiniteSet

LEMMA PipeBegin ==
  ASSUME P!PipeInv, NEW w \in Threads, NEW t \in WorkTiles, P!BeginTile(w, t)
  PROVE  P!PipeInv'
BY P!BeginWriteInv, RoleAssumption, PipelineAssumption
   DEF Lanes, P!Lanes, IsFiniteSet, P!IsFiniteSet

LEMMA PipeTogether ==
  ASSUME P!PipeInv, NEW t \in WorkTiles, P!BeginTogether(t),
         P!Begun("tma") = P!Begun(Leader), P!Begun("mma") = P!Begun(Leader)
  PROVE  P!PipeInv'
BY P!BeginTogetherInv, RoleAssumption, PipelineAssumption
   DEF Lanes, P!Lanes, IsFiniteSet, P!IsFiniteSet

LEMMA PipeRead ==
  ASSUME P!PipeInv, NEW w \in Threads, P!ReadAtOnce(w)
  PROVE  P!PipeInv'
BY P!ReadAtOnceInv, RoleAssumption, PipelineAssumption
   DEF Lanes, P!Lanes, IsFiniteSet, P!IsFiniteSet

LEMMA PipeEnd ==
  ASSUME P!PipeInv, NEW R \in SUBSET Roles, P!EndLoops(R)
  PROVE  P!PipeInv'
<1>1. R \in SUBSET P!Roles
  BY DEF Roles, P!Roles, Lanes, P!Lanes
<1>. QED
  BY <1>1, P!EndLoopsInv, RoleAssumption, PipelineAssumption
     DEF Lanes, P!Lanes, IsFiniteSet, P!IsFiniteSet

LEMMA PipeIsSafe ==
  ASSUME P!PipeInv, P!SameTiles
  PROVE  P!NoDataRace /\ P!OutputCorrect
BY P!PipeSafe, RoleAssumption, PipelineAssumption
   DEF Lanes, P!Lanes, IsFiniteSet, P!IsFiniteSet

LEMMA PipeStart ==
  ASSUME P!PipelineInit
  PROVE  P!PipeInv
BY P!PipelineInitInv, RoleAssumption, PipelineAssumption
   DEF Lanes, P!Lanes, IsFiniteSet, P!IsFiniteSet

------------------------------------------------------------------------------
(* The tiles                                                               *)

LEMMA NthTileFacts ==
  ASSUME grid \in Nat \ {0}, bx \in 0 .. grid - 1, NEW n \in Nat
  PROVE  /\ NthTile(n) \in Nat /\ NthTile(0) = bx
         /\ NthTile(n + 1) = NthTile(n) + grid
<1>1. n * grid \in Nat /\ (n + 1) * grid = n * grid + grid /\ 0 * grid = 0
  OBVIOUS
<1>2. bx \in Nat /\ grid \in Nat
  OBVIOUS
<1>. QED
  BY <1>1, <1>2 DEF NthTile

\* The types of the mapped pipeline that the steps below look at.
LEMMA PipeTypes ==
  ASSUME P!PipeInv
  PROVE  /\ begun \in [Roles -> Seq(WorkTiles \cup {NoTile})]
         /\ \A r \in Roles : Len(begun[r]) \in Nat
         /\ tile \in [Roles -> WorkTiles \cup {NoTile}]
         /\ k \in [Lanes -> 0 .. KTiles]
         /\ store \in WorkTiles \cup {NoTile}
         /\ loads \subseteq [op : Operands, stage : Stages, src : Slot \ {<<>>}]
<1>1. P!Roles = Roles /\ P!Lanes = Lanes /\ P!NoTile = NoTile
  BY DEF Roles, P!Roles, Lanes, P!Lanes, NoTile, P!NoTile
<1>2. P!Operands = Operands /\ P!Stages = Stages /\ P!Slot = Slot
  BY DEF Operands, P!Operands, Stages, P!Stages, Slot, P!Slot
<1>3. P!PipelineTypeOK
  BY DEF P!PipeInv
<1>4. begun \in [Roles -> Seq(WorkTiles \cup {NoTile})]
  BY <1>1, <1>3 DEF P!PipelineTypeOK
<1>5. tile \in [Roles -> WorkTiles \cup {NoTile}] /\ k \in [Lanes -> 0 .. KTiles]
      /\ store \in WorkTiles \cup {NoTile}
      /\ loads \subseteq [op : Operands, stage : Stages, src : Slot \ {<<>>}]
  BY <1>1, <1>2, <1>3 DEF P!PipelineTypeOK
<1>. QED
  BY <1>4, <1>5

\* The lanes begin what the leader begins, and end when it does.
LEMMA SingleSame ==
  ASSUME Inv
  PROVE  P!SameTiles
<1>. USE DEF Inv
<1>1. P!Roles = Roles /\ P!Lanes = Lanes
  BY DEF Roles, P!Roles, Lanes, P!Lanes
<1>2. \A r \in Roles : Len(begun[r]) \in Nat
  BY PipeTypes
<1>3. begun["tma"] = begun[Leader] /\ begun["mma"] = begun[Leader]
  BY Facts DEF LaneInv
<1>4. ASSUME NEW i \in 1 .. Len(begun[Leader])
      PROVE  begun[Leader][i] \in WorkTiles
  <2>1. i - 1 \in Nat
    BY <1>2, Facts
  <2>2. begun[Leader][i] = NthTile(i - 1) /\ begun[Leader][i] < TileCount
    BY Facts DEF StrideInv
  <2>3. NthTile(i - 1) \in Nat
    BY <2>1, NthTileFacts DEF StrideInv
  <2>. QED
    BY <2>2, <2>3, Facts
<1>5. ASSUME NEW v \in Threads, NEW w \in Threads, at[v] = "end",
             Len(begun[v]) < Len(begun[w])
      PROVE  FALSE
  <2>. DEFINE n == Len(begun[v])
  <2>1. n \in Nat /\ n + 1 \in 1 .. Len(begun[w])
    BY <1>2, <1>5, Facts
  <2>2. NthTile(n) >= TileCount
    BY <1>5 DEF StrideInv
  <2>. HIDE DEF n
  <2>3. begun[w][n + 1] = NthTile((n + 1) - 1) /\ begun[w][n + 1] < TileCount
    BY <2>1 DEF StrideInv
  <2>4. (n + 1) - 1 = n
    BY <2>1
  <2>5. NthTile(n) \in Nat
    BY <2>1, NthTileFacts DEF StrideInv
  <2>. QED
    BY <2>2, <2>3, <2>4, <2>5, Facts
<1>6. \A v, w \in Threads : at[v] = "end" /\ at[w] = "end" => Len(begun[v]) = Len(begun[w])
  BY <1>2, <1>5, Facts
<1>7. \A r \in Roles : MapAt[r] = "end" =>
        \E w \in Threads : at[w] = "end" /\ begun[r] = begun[w]
  BY MapLabels, Facts DEF LaneInv
<1>8. \A r, q \in Roles : MapAt[r] = "end" /\ MapAt[q] = "end" =>
        Len(begun[r]) = Len(begun[q])
  <2>. SUFFICES ASSUME NEW r \in Roles, NEW q \in Roles, MapAt[r] = "end", MapAt[q] = "end"
                PROVE  Len(begun[r]) = Len(begun[q])
    OBVIOUS
  <2>1. PICK v \in Threads : at[v] = "end" /\ begun[r] = begun[v]
    BY <1>7
  <2>2. PICK w \in Threads : at[w] = "end" /\ begun[q] = begun[w]
    BY <1>7
  <2>. QED
    BY <1>6, <2>1, <2>2
<1>. QED
  BY <1>1, <1>3, <1>4, <1>8 DEF P!SameTiles, P!Begun

\* Appending to a history.
LEMMA AppendBegun ==
  ASSUME NEW S, NEW s \in Seq(S), NEW t \in S
  PROVE  /\ Append(s, t) \in Seq(S) /\ Len(Append(s, t)) = Len(s) + 1
         /\ Append(s, t)[Len(s) + 1] = t
         /\ \A i \in 1 .. Len(s) : Append(s, t)[i] = s[i]
OBVIOUS

\* A thread's next tile is the next of its stride.
LEMMA ThreadStride ==
  ASSUME Inv, NEW w \in Threads, cursor[w] < TileCount,
         cursor' = [cursor EXCEPT ![w] = @ + grid], UNCHANGED launchVars,
         begun'[w] = Append(begun[w], cursor[w]),
         \A v \in Threads \ {w} : begun'[v] = begun[v] /\ at'[v] = at[v],
         at'[w] # "end"
  PROVE  StrideInv' /\ cursor[w] \in WorkTiles
<1>. USE DEF Inv
<1>. DEFINE n == Len(begun[w])
            t == cursor[w]
<1>1. n \in Nat /\ begun[w] \in Seq(WorkTiles \cup {NoTile})
  BY PipeTypes, Facts
<1>2. /\ t = NthTile(n) /\ t < TileCount /\ grid \in Nat \ {0} /\ bx \in 0 .. grid - 1
      /\ DOMAIN cursor = Threads
      /\ \A i \in 1 .. n : begun[w][i] = NthTile(i - 1) /\ begun[w][i] < TileCount
  BY DEF StrideInv
<1>3. bx' = bx /\ grid' = grid /\ \A m : NthTile(m)' = NthTile(m)
  BY DEF launchVars, NthTile
<1>4. NthTile(n) \in Nat /\ NthTile(n + 1) = NthTile(n) + grid
  BY <1>1, <1>2, NthTileFacts
<1>5. t \in WorkTiles
  BY <1>2, <1>4, Facts
<1>6. /\ DOMAIN cursor' = Threads /\ cursor'[w] = t + grid
      /\ \A v \in Threads \ {w} : cursor'[v] = cursor[v]
  BY <1>2
<1>7. /\ Len(begun'[w]) = n + 1 /\ begun'[w][n + 1] = t
      /\ \A i \in 1 .. n : begun'[w][i] = begun[w][i]
  <2>1. begun'[w] = Append(begun[w], t) /\ t \in WorkTiles \cup {NoTile}
    BY <1>5
  <2>. HIDE DEF t
  <2>. QED
    BY <1>1, <2>1, AppendBegun
<1>. HIDE DEF n, t
<1>8. ASSUME NEW i \in 1 .. n + 1
      PROVE  begun'[w][i] = NthTile(i - 1) /\ begun'[w][i] < TileCount
  <2>1. CASE i = n + 1
    <3>1. i - 1 = n
      BY <1>1, <2>1
    <3>. QED
      BY <1>2, <1>7, <2>1, <3>1
  <2>2. CASE i # n + 1
    <3>1. i \in 1 .. n
      BY <1>1, <2>2
    <3>. QED
      BY <1>2, <1>7, <3>1
  <2>. QED
    BY <2>1, <2>2
<1>9. ASSUME NEW v \in Threads
      PROVE  /\ cursor'[v] = NthTile(Len(begun'[v]))
             /\ \A i \in 1 .. Len(begun'[v]) :
                  begun'[v][i] = NthTile(i - 1) /\ begun'[v][i] < TileCount
             /\ at'[v] = "end" => cursor'[v] >= TileCount
  <2>1. CASE v = w
    BY <1>2, <1>4, <1>6, <1>7, <1>8, <2>1
  <2>2. CASE v # w
    BY <1>6, <2>2 DEF StrideInv
  <2>. QED
    BY <2>1, <2>2
<1>. QED
  BY <1>2, <1>3, <1>5, <1>6, <1>9 DEF StrideInv, t

\* A step that begins no tile.
LEMMA StrideFrame ==
  ASSUME StrideInv, begun' = begun, UNCHANGED <<launchVars, cursor>>,
         \A w \in Threads : at'[w] = "end" => at[w] = "end" \/ cursor[w] >= TileCount
  PROVE  StrideInv'
<1>1. bx' = bx /\ grid' = grid /\ cursor' = cursor /\ \A m : NthTile(m)' = NthTile(m)
  BY DEF launchVars, NthTile
<1>. QED
  BY <1>1 DEF StrideInv

------------------------------------------------------------------------------
(* The steps that are the pipeline's own                                   *)

LEMMA SameOperators ==
  /\ P!Roles = Roles /\ P!Lanes = Lanes /\ P!NoTile = NoTile /\ P!Operands = Operands
  /\ \A b, n : P!Arrive(b, n) = Arrive(b, n)
  /\ \A b, n, bytes : P!ArriveExpectTx(b, n, bytes) = ArriveExpectTx(b, n, bytes)
  /\ \A b, n, bytes : P!CompleteTx(b, n, bytes) = CompleteTx(b, n, bytes)
  /\ \A b, ph : P!Passes(b, ph) = Passes(b, ph)
  /\ \A c, d : P!Advance(c, d) = Advance(c, d)
  /\ \A S : P!Cardinality(S) = Cardinality(S)
BY DEF Roles, P!Roles, Lanes, P!Lanes, NoTile, P!NoTile, Operands, P!Operands,
       Arrive, P!Arrive, ArriveExpectTx, P!ArriveExpectTx, CompleteTx, P!CompleteTx,
       Passes, P!Passes, Advance, P!Advance, Settle, P!Settle,
       Cardinality, P!Cardinality

\* Nothing is imagined differently while the labels and the histories stay.
LEMMA MapStill ==
  ASSUME UNCHANGED <<at, begun>>
  PROVE  MapAt' = MapAt /\ MapCursor' = MapCursor /\ MapBar' = MapBar
<1>1. MapAt' = MapAt
  BY DEF MapAt
<1>. QED
  BY <1>1, MapKept

LEMMA EngineMaps ==
  ASSUME Engine
  PROVE  P!PipelineStep /\ UNCHANGED <<at, begun>>
<1>1. UNCHANGED <<at, begun>>
  BY DEF Engine, LoadLands, TensorMma, TensorCommit, StoreLands
<1>. USE <1>1, MapStill
<1>2. ASSUME NEW f \in loads, LoadLands(f) PROVE P!LoadLands(f)
  BY <1>2, SameOperators
     DEF LoadLands, P!LoadLands, cursors, P!cursors, output, P!output
<1>3. ASSUME TensorMma PROVE P!TensorMma
  BY <1>3, SameOperators
     DEF TensorMma, P!TensorMma, bars, P!bars, cursors, P!cursors, output, P!output
<1>4. ASSUME TensorCommit PROVE P!TensorCommit
  BY <1>4, SameOperators
     DEF TensorCommit, P!TensorCommit, cursors, P!cursors, output, P!output
<1>5. ASSUME StoreLands PROVE P!StoreLands
  BY <1>5, SameOperators
     DEF StoreLands, P!StoreLands, bars, P!bars, cursors, P!cursors, engines, P!engines
<1>6. P!Engine
  BY <1>2, <1>3, <1>4, <1>5 DEF Engine, P!Engine
<1>. QED
  BY <1>1, <1>6 DEF P!PipelineStep

\* The labels the steps below lead to.
LEMMA MoveKeeps ==
  ASSUME at \in [Roles -> Labels], NEW r \in Roles, NEW x \in Labels, Move(r, x),
         begun' = begun,
         r = Leader => x \notin {"issue", "end"} /\ at[r] # "end",
         r \in Lanes => at[Leader] # "end",
         r \in Threads => (x \in {"wait", "load"} <=> MapAt[r] \in {"wait", "load"})
  PROVE  /\ P!Move(r, x) /\ MapCursor' = MapCursor /\ MapBar' = MapBar
         /\ at' \in [Roles -> Labels] /\ at'[r] = x
         /\ \A q \in Roles \ {r} : at'[q] = at[q] /\ MapAt'[q] = MapAt[q]
<1>1. at' = [at EXCEPT ![r] = x]
  BY DEF Move
<1>2. MapAt' = [MapAt EXCEPT ![r] = x] /\ at' \in [Roles -> Labels]
  BY <1>1, MapMove
<1>3. DOMAIN MapAt = Roles
  BY MapLabels
<1>4. MapAt'[r] = x /\ \A q \in Roles \ {r} : MapAt'[q] = MapAt[q]
  BY <1>2, <1>3
<1>5. \A w \in Threads :
        MapAt'[w] \in {"wait", "load"} <=> MapAt[w] \in {"wait", "load"}
  BY <1>4, Facts
<1>6. MapCursor' = MapCursor /\ MapBar' = MapBar
  BY <1>5, MapKept
<1>. QED
  BY <1>1, <1>2, <1>4, <1>6 DEF P!Move

\* What LaneInv and the mapped pipeline say together of the K loop.
LEMMA LoopLabels ==
  ASSUME Inv
  PROVE  /\ MapAt["tma"] \in {"fill", "expect"} => k["tma"] < KTiles
         /\ MapAt["mma"] = "issue" => k["mma"] < KTiles
         /\ at["mma"] # "next" =>
              at[Leader] = "issue" /\ MapAt["tma"] = at["tma"] /\ MapAt["mma"] = at["mma"]
         /\ at["tma"] # "next" => at["mma"] = "issue"
         /\ k["tma"] \in 0 .. KTiles /\ k["mma"] \in 0 .. KTiles
<1>. USE DEF Inv
<1>1. P!RoleInv /\ P!Lanes = Lanes
  BY SameOperators DEF P!PipeInv
<1>2. /\ MapAt["tma"] \in {"fill", "expect"} => k["tma"] < KTiles
      /\ MapAt["mma"] = "issue" => k["mma"] < KTiles
  BY <1>1, Facts DEF P!RoleInv
<1>3. k["tma"] \in 0 .. KTiles /\ k["mma"] \in 0 .. KTiles
  BY PipeTypes, Facts
<1>. QED
  BY <1>2, <1>3, MapLabels, Facts DEF LaneInv

LEMMA LoadInv ==
  ASSUME Inv, Load
  PROVE  Inv'
<1>. USE DEF Inv
<1>. DEFINE x == IF at["tma"] = "fill" THEN "expect"
                 ELSE IF k["tma"] + 1 < KTiles THEN "fill" ELSE "next"
<1>1. at["tma"] \in {"fill", "expect"} /\ Move("tma", x) /\ begun' = begun
      /\ UNCHANGED <<launchVars, cursor>>
  BY DEF Load, FillStage, ExpectBytes
<1>2. x \in {"fill", "expect", "next"} /\ x \in Labels
  BY DEF Labels
<1>3. at["mma"] = "issue" /\ at[Leader] = "issue" /\ MapAt["tma"] = at["tma"]
  BY <1>1, LoopLabels
<1>. HIDE DEF x
<1>4. /\ P!Move("tma", x) /\ MapCursor' = MapCursor /\ MapBar' = MapBar
      /\ at' \in [Roles -> Labels] /\ at'["tma"] = x
      /\ \A q \in Roles \ {"tma"} : at'[q] = at[q] /\ MapAt'[q] = MapAt[q]
  BY <1>1, <1>2, <1>3, MoveKeeps, Facts DEF LaneInv
<1>5. P!FillStage \/ P!ExpectBytes
  <2>1. ASSUME FillStage PROVE P!FillStage
    <3>1. x = "expect"
      BY <2>1 DEF FillStage, x
    <3>. QED
      BY <1>3, <1>4, <2>1, <3>1, SameOperators
         DEF FillStage, P!FillStage, bars, P!bars, cursors, P!cursors, output, P!output
  <2>2. ASSUME ExpectBytes PROVE P!ExpectBytes
    <3>1. x = IF k["tma"] + 1 < KTiles THEN "fill" ELSE "next"
      BY <2>2 DEF ExpectBytes, x
    <3>. QED
      BY <1>3, <1>4, <2>2, <3>1, SameOperators
         DEF ExpectBytes, P!ExpectBytes, engines, P!engines, output, P!output
  <2>. QED
    BY <2>1, <2>2 DEF Load
<1>6. P!PipeInv'
  BY <1>5, SingleSame, PipeStepKept DEF P!PipelineStep
<1>7. LaneInv'
  BY <1>1, <1>2, <1>3, <1>4, Facts DEF LaneInv
<1>8. StrideInv'
  BY <1>1, <1>4, StrideFrame, Facts
<1>. QED
  BY <1>6, <1>7, <1>8

LEMMA MultiplyInv ==
  ASSUME Inv, Multiply
  PROVE  Inv'
<1>. USE DEF Inv
<1>. DEFINE x == IF k["mma"] + 1 < KTiles THEN "issue" ELSE "commit"
<1>1. at["mma"] = "issue" /\ Move("mma", x) /\ begun' = begun
      /\ UNCHANGED <<launchVars, cursor>>
  BY DEF Multiply, IssueMma
<1>2. x \in {"issue", "commit"} /\ x \in Labels
  BY DEF Labels
<1>3. at[Leader] = "issue" /\ MapAt["mma"] = at["mma"] /\ MapAt["tma"] = at["tma"]
  BY <1>1, LoopLabels
<1>4. x = "commit" => at["tma"] = "next"
  <2>1. SUFFICES ASSUME k["mma"] + 1 >= KTiles PROVE at["tma"] = "next"
    BY LoopLabels, Facts
  <2>2. k["mma"] \in Nat /\ k["tma"] \in Nat /\ PipeDepth \in Nat /\ PipeDepth > 0
        /\ KTiles \in Nat
    BY LoopLabels, Facts
  <2>3. k["tma"] = IF k["mma"] + PipeDepth > KTiles THEN KTiles ELSE k["mma"] + PipeDepth
    BY DEF Multiply, LoadsBefore, AtMostK
  <2>4. ~(k["tma"] < KTiles)
    BY <2>1, <2>2, <2>3
  <2>. QED
    BY <1>3, <2>4, LoopLabels DEF LaneInv
<1>. HIDE DEF x
<1>5. /\ P!Move("mma", x) /\ MapCursor' = MapCursor /\ MapBar' = MapBar
      /\ at' \in [Roles -> Labels] /\ at'["mma"] = x
      /\ \A q \in Roles \ {"mma"} : at'[q] = at[q] /\ MapAt'[q] = MapAt[q]
  BY <1>1, <1>2, <1>3, MoveKeeps, Facts DEF LaneInv
<1>6. P!IssueMma
  BY <1>3, <1>5, SameOperators
     DEF Multiply, IssueMma, P!IssueMma, x, bars, P!bars, output, P!output
<1>7. P!PipeInv'
  BY <1>6, SingleSame, PipeStepKept DEF P!PipelineStep
<1>8. LaneInv'
  BY <1>1, <1>2, <1>3, <1>4, <1>5, Facts DEF LaneInv
<1>9. StrideInv'
  BY <1>1, <1>5, StrideFrame, Facts
<1>. QED
  BY <1>7, <1>8, <1>9

\* The leader goes on to wait: for the pipeline only its MMA half has moved.
LEMMA CommitInv ==
  ASSUME Inv, Commit
  PROVE  Inv'
<1>. USE DEF Inv
<1>1. /\ at["mma"] = "commit" /\ begun' = begun /\ UNCHANGED <<launchVars, cursor>>
      /\ at' = [at EXCEPT !["mma"] = "next", ![Leader] = "wait"]
  BY DEF Commit
<1>2. /\ at[Leader] = "issue" /\ MapAt["mma"] = "commit" /\ at["tma"] = "next"
      /\ at \in [Roles -> Labels]
  BY <1>1, LoopLabels DEF LaneInv
<1>3. /\ at' \in [Roles -> Labels] /\ at'["mma"] = "next" /\ at'[Leader] = "wait"
      /\ \A q \in Roles \ {"mma", Leader} : at'[q] = at[q]
  BY <1>1, <1>2, Facts DEF Labels
<1>4. MapAt' = [MapAt EXCEPT !["mma"] = "next"]
  <2>1. MapAt' = [q \in Roles |-> IF q = Leader /\ at'[q] = "issue" THEN "wait"
                   ELSE IF q \in Lanes /\ at'[Leader] = "end" THEN "end" ELSE at'[q]]
    BY DEF MapAt
  <2>2. ASSUME NEW q \in Roles PROVE MapAt'[q] = IF q = "mma" THEN "next" ELSE MapAt[q]
    <3>1. CASE q = "mma"
      BY <1>3, <2>1, <3>1, Facts
    <3>2. CASE q = Leader
      BY <1>2, <1>3, <2>1, <3>2, Facts DEF MapAt
    <3>3. CASE q # "mma" /\ q # Leader
      BY <1>2, <1>3, <2>1, <3>3, Facts DEF MapAt
    <3>. QED
      BY <3>1, <3>2, <3>3
  <2>3. [MapAt EXCEPT !["mma"] = "next"]
          = [q \in Roles |-> IF q = "mma" THEN "next" ELSE MapAt[q]]
    BY DEF MapAt
  <2>4. MapAt' = [q \in Roles |-> MapAt'[q]]
    BY <2>1
  <2>. QED
    BY <2>2, <2>3, <2>4
<1>5. MapCursor' = MapCursor /\ MapBar' = MapBar
  <2>1. \A w \in Threads : MapAt'[w] = MapAt[w]
    BY <1>2, <1>4, MapLabels, Facts
  <2>. QED
    BY <1>1, <2>1, MapKept
<1>6. P!CommitTile
  BY <1>2, <1>4, <1>5
     DEF Commit, P!CommitTile, P!Move, bars, P!bars, cursors, P!cursors, output, P!output
<1>7. P!PipeInv'
  BY <1>6, SingleSame, PipeStepKept DEF P!PipelineStep
<1>8. LaneInv'
  <2>1. at'["tma"] = "next"
    BY <1>2, <1>3, Facts
  <2>. QED
    BY <1>1, <1>3, <2>1 DEF LaneInv
<1>9. StrideInv'
  <2>1. \A w \in Threads : at'[w] = "end" => at[w] = "end"
    BY <1>3, Facts
  <2>. QED
    BY <1>1, <2>1, StrideFrame
<1>. QED
  BY <1>7, <1>8, <1>9

\* A step of a thread that begins and ends no tile.
LEMMA ThreadStep ==
  ASSUME Inv, NEW w \in Threads, NEW x \in Labels \ {"issue", "end"}, Move(w, x),
         at[w] # "issue", at[w] # "end", UNCHANGED <<launchVars, cursor, begun>>,
         P!PipeInv'
  PROVE  Inv'
<1>. USE DEF Inv
<1>1. /\ at \in [Roles -> Labels] /\ at' = [at EXCEPT ![w] = x]
  BY DEF LaneInv, Move
<1>2. /\ at' \in [Roles -> Labels] /\ at'[w] = x
      /\ \A q \in Roles \ {w} : at'[q] = at[q]
  BY <1>1, Facts
<1>3. LaneInv'
  <2>1. at'["tma"] = at["tma"] /\ at'["mma"] = at["mma"]
    BY <1>2, Facts
  <2>2. at'[Leader] = "issue" <=> at[Leader] = "issue"
    BY <1>2, Facts
  <2>. QED
    BY <1>2, <2>1, <2>2 DEF LaneInv
<1>4. StrideInv'
  <2>1. \A v \in Threads : at'[v] = "end" => at[v] = "end"
    BY <1>2, Facts
  <2>. QED
    BY <2>1, StrideFrame
<1>. QED
  BY <1>3, <1>4

LEMMA StoreInv ==
  ASSUME Inv, NEW w \in Threads, Store(w)
  PROVE  Inv'
<1>. USE DEF Inv
<1>. DEFINE x == IF at[w] = "wait" THEN "load" ELSE "staged"
<1>1. /\ at[w] \in {"wait", "stage"} /\ Move(w, x)
      /\ UNCHANGED <<launchVars, cursor, begun>>
  BY DEF Store, AwaitAccumulator, StageRow
<1>2. x \in Labels \ {"issue", "end"} /\ at \in [Roles -> Labels] /\ w \in Roles
      /\ w \notin Lanes
  BY Facts DEF Labels, LaneInv
<1>3. MapAt[w] = at[w] /\ (x \in {"wait", "load"} <=> at[w] \in {"wait", "load"})
  BY <1>1, <1>2, MapLabels
<1>. HIDE DEF x
<1>4. P!Move(w, x) /\ MapCursor' = MapCursor /\ MapBar' = MapBar
  BY <1>1, <1>2, <1>3, MoveKeeps
<1>5. ASSUME AwaitAccumulator(w) PROVE P!AwaitAccumulator(w)
  <2>1. x = "load"
    BY <1>5 DEF AwaitAccumulator, x
  <2>. QED
    BY <1>3, <1>4, <1>5, <2>1, SameOperators
       DEF AwaitAccumulator, P!AwaitAccumulator, bars, P!bars, engines, P!engines,
           output, P!output
<1>6. ASSUME StageRow(w) PROVE P!StageRow(w)
  <2>1. x = "staged"
    BY <1>6 DEF StageRow, x
  <2>. QED
    BY <1>3, <1>4, <1>6, <2>1
       DEF StageRow, P!StageRow, bars, P!bars, cursors, P!cursors, engines, P!engines
<1>7. P!PipeInv'
  BY <1>5, <1>6, SingleSame, PipeStepKept DEF Store, P!PipelineStep, P!Writeback
<1>. QED
  BY <1>1, <1>2, <1>7, ThreadStep

\* The leader at a sync or at its store is outside its K loop.
LEMMA LeaderMaps ==
  ASSUME Inv, at[Leader] \in {"staged", "store", "drain", "stored"}
  PROVE  MapAt = at /\ at["tma"] = "next" /\ at["mma"] = "next"
<1>. USE DEF Inv
<1>1. MapAt = at
  BY MapPlain DEF LaneInv
<1>. QED
  BY <1>1 DEF LaneInv

LEMMA SyncInv ==
  ASSUME Inv, NEW here \in {"staged", "stored"}, NEW first \in {"store", "next"},
         NEW others \in {"stored", "next"}, WarpgroupSync(here, first, others),
         UNCHANGED <<launchVars, cursor>>,
         P!WarpgroupSync(here, first, others) => P!PipelineStep
  PROVE  Inv'
<1>. USE DEF Inv
<1>1. /\ \A w \in Threads : at[w] = here
      /\ at' = [r \in Roles |-> CASE r \in Lanes -> at[r] [] r = Leader -> first
                                  [] OTHER -> others]
      /\ begun' = begun
  BY DEF WarpgroupSync
<1>2. MapAt = at /\ at["tma"] = "next" /\ at["mma"] = "next"
      /\ at \in [Roles -> Labels]
  BY <1>1, LeaderMaps, Facts DEF LaneInv
<1>3. /\ at'[Leader] = first /\ at'["tma"] = "next" /\ at'["mma"] = "next"
      /\ \A w \in Threads : at'[w] \in {first, others}
      /\ at' \in [Roles -> Labels]
  BY <1>1, <1>2, Facts DEF Labels
<1>4. MapAt' = at'
  BY <1>3 DEF MapAt
<1>5. MapCursor' = MapCursor /\ MapBar' = MapBar
  BY <1>1, <1>2, <1>3, <1>4, MapKept
<1>6. P!WarpgroupSync(here, first, others)
  BY <1>1, <1>2, <1>4, <1>5, SameOperators
     DEF WarpgroupSync, P!WarpgroupSync, bars, P!bars, cursors, P!cursors,
         engines, P!engines, output, P!output
<1>7. P!PipeInv'
  BY <1>6, SingleSame, PipeStepKept
<1>8. LaneInv'
  BY <1>1, <1>3 DEF LaneInv
<1>9. StrideInv'
  BY <1>1, <1>3, StrideFrame
<1>. QED
  BY <1>7, <1>8, <1>9

LEMMA LeaderInv ==
  ASSUME Inv, Sync
  PROVE  Inv'
<1>. USE DEF Inv
<1>1. CASE RowsStaged
  <2>1. P!WarpgroupSync("staged", "store", "stored") => P!PipelineStep
    BY DEF P!PipelineStep, P!LeaderStep, P!RowsStaged
  <2>. QED
    BY <1>1, <2>1, SyncInv DEF Sync, RowsStaged
<1>2. CASE TileStored
  <2>1. P!WarpgroupSync("stored", "next", "next") => P!PipelineStep
    BY DEF P!PipelineStep, P!LeaderStep, P!TileStored
  <2>. QED
    BY <1>2, <2>1, SyncInv DEF Sync, TileStored
<1>3. CASE IssueStore \/ DrainStore
  <2>. DEFINE x == IF at[Leader] = "store" THEN "drain" ELSE "stored"
  <2>1. /\ at[Leader] \in {"store", "drain"} /\ Move(Leader, x)
        /\ UNCHANGED <<launchVars, cursor, begun>>
    BY <1>3 DEF Sync, IssueStore, DrainStore
  <2>2. x \in Labels \ {"issue", "end"} /\ at \in [Roles -> Labels] /\ Leader \in Roles
        /\ x \notin {"wait", "load"} /\ Leader \notin Lanes
    BY Facts DEF Labels, LaneInv
  <2>3. MapAt[Leader] = at[Leader]
    BY <2>1, <2>2, MapLabels, Facts
  <2>. HIDE DEF x
  <2>4. P!Move(Leader, x) /\ MapCursor' = MapCursor /\ MapBar' = MapBar
    BY <2>1, <2>2, <2>3, MoveKeeps
  <2>5. ASSUME IssueStore PROVE P!IssueStore
    <3>1. x = "drain"
      BY <2>5 DEF IssueStore, x
    <3>. QED
      BY <2>3, <2>4, <2>5, <3>1
         DEF IssueStore, P!IssueStore, bars, P!bars, cursors, P!cursors, engines, P!engines
  <2>6. ASSUME DrainStore PROVE P!DrainStore
    <3>1. x = "stored"
      BY <2>6 DEF DrainStore, x
    <3>. QED
      BY <2>3, <2>4, <2>6, <3>1, SameOperators
         DEF DrainStore, P!DrainStore, bars, P!bars, cursors, P!cursors,
             engines, P!engines, output, P!output
  <2>7. P!PipeInv'
    BY <1>3, <2>5, <2>6, SingleSame, PipeStepKept DEF P!PipelineStep, P!LeaderStep
  <2>. QED
    BY <2>1, <2>2, <2>7, ThreadStep, Facts
<1>. QED
  BY <1>1, <1>2, <1>3 DEF Sync, LeaderStep

------------------------------------------------------------------------------
(* The steps that are several of the pipeline's at once                    *)

\* The imagined barrier and cursor are the pipeline's, as no thread is seen between
\* its load and its release and no lane waiting for the accumulator.
LEMMA MapTracks ==
  ASSUME LaneInv'
  PROVE  P!AccTracked
<1>1. /\ at'["mma"] # "acquire" /\ \A w \in Threads : at'[w] \in Labels
      /\ at' \in [Roles -> Labels]
  BY Facts DEF LaneInv
<1>2. /\ MapAt'["mma"] # "acquire"
      /\ \A w \in Threads : MapAt'[w] # "release"
  BY <1>1, Facts DEF MapAt, Labels
<1>3. P!Acquired' = Taken'
  BY <1>2 DEF P!Acquired, P!Begun, Taken
<1>4. \A w \in Threads : P!Released(w)' = Through(w)'
  BY <1>2 DEF P!Released, P!Passed, P!Begun, Through
<1>5. P!Holding' = Needing'
  BY <1>3, <1>4 DEF P!Holding, Needing
<1>6. P!AcquireCursor' = MapCursor'
  BY <1>3 DEF P!AcquireCursor, MapCursor
<1>7. P!ReleaseBar' = MapBar'
  BY <1>3, <1>5, SameOperators DEF P!ReleaseBar, MapBar
<1>. QED
  BY <1>6, <1>7 DEF P!AccTracked

LEMMA ReadInv ==
  ASSUME Inv, NEW w \in Threads, LoadAccumulator(w)
  PROVE  Inv'
<1>. USE DEF Inv
<1>1. /\ at[w] = "load" /\ Move(w, "stage") /\ UNCHANGED <<launchVars, cursor, begun>>
  BY DEF LoadAccumulator
<1>2. /\ at \in [Roles -> Labels] /\ w \in Roles /\ w \notin Lanes
      /\ "stage" \in Labels \ {"issue", "end"}
  BY Facts DEF Labels, LaneInv
<1>3. MapAt[w] = "load" /\ MapAt' = [MapAt EXCEPT ![w] = "stage"]
  BY <1>1, <1>2, MapLabels, MapMove DEF Move
<1>4. /\ at' \in [Roles -> Labels] /\ at'[w] = "stage"
      /\ \A q \in Roles \ {w} : at'[q] = at[q]
  BY <1>1, <1>2, Facts DEF Move
<1>5. LaneInv'
  <2>1. at'["tma"] = at["tma"] /\ at'["mma"] = at["mma"]
    BY <1>4, Facts
  <2>2. at'[Leader] = "issue" <=> at[Leader] = "issue"
    BY <1>1, <1>4, Facts
  <2>. QED
    BY <1>1, <1>4, <2>1, <2>2 DEF LaneInv
<1>6. P!AccTracked
  BY <1>5, MapTracks
<1>7. P!ReadAtOnce(w)
  BY <1>3, <1>6 DEF LoadAccumulator, P!ReadAtOnce, P!Move, bars, cursors, engines, P!engines
<1>8. P!PipeInv'
  BY <1>7, PipeRead
<1>. QED
  BY <1>1, <1>2, <1>8, ThreadStep

\* A thread other than the leader begins its tile alone.
LEMMA TakeThread ==
  ASSUME Inv, NEW w \in Threads \ {Leader}, TakeTile(w)
  PROVE  Inv'
<1>. USE DEF Inv
<1>1. /\ at[w] = "next" /\ cursor[w] < TileCount /\ UNCHANGED launchVars
      /\ cursor' = [cursor EXCEPT ![w] = @ + grid]
      /\ tile' = [tile EXCEPT ![w] = cursor[w]] /\ k' = k
      /\ begun' = [begun EXCEPT ![w] = Append(begun[w], cursor[w])]
      /\ at' = [at EXCEPT ![w] = "wait"]
      /\ UNCHANGED <<bars, cursors, engines, output, exited>>
  BY DEF TakeTile, Move
<1>2. /\ at \in [Roles -> Labels] /\ w \in Roles /\ w \notin Lanes /\ "wait" \in Labels
      /\ Leader \in Roles /\ begun \in [Roles -> Seq(WorkTiles \cup {NoTile})]
  BY PipeTypes, Facts DEF Labels, LaneInv
<1>3. /\ at' \in [Roles -> Labels] /\ at'[w] = "wait"
      /\ \A q \in Roles \ {w} : at'[q] = at[q] /\ begun'[q] = begun[q]
      /\ begun'[w] = Append(begun[w], cursor[w])
  BY <1>1, <1>2
<1>4. StrideInv' /\ cursor[w] \in WorkTiles
  BY <1>1, <1>3, ThreadStride, Facts
<1>5. MapAt[w] = "next" /\ MapAt' = [MapAt EXCEPT ![w] = "wait"] /\ DOMAIN MapAt = Roles
  BY <1>1, <1>2, MapLabels, MapMove
<1>6. MapCursor' = MapCursor /\ MapBar' = MapBar
  <2>1. Taken' = Taken
    BY <1>3, Facts DEF Taken
  <2>2. Len(begun[w]) \in Nat /\ Len(begun'[w]) = Len(begun[w]) + 1
    <3>1. begun[w] \in Seq(WorkTiles \cup {NoTile}) /\ cursor[w] \in WorkTiles \cup {NoTile}
      BY <1>2, <1>4
    <3>2. begun'[w] = Append(begun[w], cursor[w])
      BY <1>3
    <3>. QED
      BY <3>1, <3>2, AppendBegun
  <2>3. ASSUME NEW v \in Threads PROVE Through(v)' = Through(v)
    <3>1. CASE v = w
      BY <1>2, <1>5, <2>2, <3>1 DEF Through
    <3>2. CASE v # w
      BY <1>3, <1>5, <3>2, Facts DEF Through
    <3>. QED
      BY <3>1, <3>2
  <2>4. Needing' = Needing
    BY <2>1, <2>3 DEF Needing
  <2>. QED
    BY <2>1, <2>4 DEF MapCursor, MapBar
<1>7. P!BeginTile(w, cursor[w])
  <2>1. w # "tma" /\ w # "mma" /\ w \notin P!Lanes
    BY <1>2, SameOperators, Facts
  <2>2. P!Move(w, CASE w = "tma" -> "fill" [] w = "mma" -> "acquire" [] OTHER -> "wait")
    BY <1>5, <2>1 DEF P!Move
  <2>. QED
    BY <1>1, <1>5, <1>6, <2>1, <2>2
       DEF P!BeginTile, bars, P!bars, cursors, P!cursors, engines, P!engines,
           output, P!output
<1>8. P!PipeInv'
  BY <1>4, <1>7, PipeBegin
<1>9. LaneInv'
  <2>1. at'["tma"] = at["tma"] /\ at'["mma"] = at["mma"] /\ at'[Leader] = at[Leader]
    BY <1>2, <1>3, Facts
  <2>2. \A q \in {"tma", "mma", Leader} : begun'[q] = begun[q]
    BY <1>2, <1>3, Facts
  <2>. QED
    BY <1>3, <2>1, <2>2, Facts DEF LaneInv
<1>. QED
  BY <1>4, <1>8, <1>9

\* The leader begins its tile with the K loop's two halves.
LEMMA TakeLeader ==
  ASSUME Inv, TakeTile(Leader)
  PROVE  Inv'
<1>. USE DEF Inv
<1>. DEFINE t == cursor[Leader]
            R == Lanes \cup {Leader}
<1>1. /\ at[Leader] = "next" /\ t < TileCount /\ UNCHANGED launchVars
      /\ cursor' = [cursor EXCEPT ![Leader] = @ + grid]
      /\ tile' = [r \in Roles |-> IF r \in R THEN t ELSE tile[r]]
      /\ k' = [l \in Lanes |-> 0]
      /\ begun' = [r \in Roles |-> IF r \in R THEN Append(begun[r], t) ELSE begun[r]]
      /\ at' = [at EXCEPT !["tma"] = "fill", !["mma"] = "issue", ![Leader] = "issue"]
      /\ UNCHANGED <<bars, cursors, engines, output, exited>>
  BY DEF TakeTile
<1>2. /\ at \in [Roles -> Labels] /\ at["tma"] = "next" /\ at["mma"] = "next"
      /\ MapAt = at /\ Leader \in Roles
  BY <1>1, MapPlain, Facts DEF LaneInv
<1>3. /\ at' \in [Roles -> Labels] /\ at'["tma"] = "fill" /\ at'["mma"] = "issue"
      /\ at'[Leader] = "issue" /\ \A q \in Roles \ R : at'[q] = at[q]
  BY <1>1, <1>2, Facts DEF Labels
<1>4. /\ \A r \in R : begun'[r] = Append(begun[r], t)
      /\ \A q \in Roles \ R : begun'[q] = begun[q]
  BY <1>1, <1>2, Facts
<1>. HIDE DEF t, R
<1>5. StrideInv' /\ t \in WorkTiles
  <2>1. \A v \in Threads \ {Leader} : begun'[v] = begun[v] /\ at'[v] = at[v]
    BY <1>3, <1>4, Facts DEF R
  <2>2. begun'[Leader] = Append(begun[Leader], t)
    BY <1>4 DEF R
  <2>. QED
    BY <1>1, <1>3, <2>1, <2>2, ThreadStride, Facts DEF t
<1>6. LaneInv'
  <2>1. \A l \in Lanes : begun'[l] = Append(begun[Leader], t)
    BY <1>4 DEF R, LaneInv
  <2>2. begun'[Leader] = Append(begun[Leader], t)
    BY <1>4 DEF R
  <2>. QED
    BY <1>3, <2>1, <2>2 DEF LaneInv
<1>7. MapAt' = [MapAt EXCEPT !["tma"] = "fill", !["mma"] = "issue", ![Leader] = "wait"]
  <2>1. MapAt' = [q \in Roles |-> IF q = Leader /\ at'[q] = "issue" THEN "wait"
                   ELSE IF q \in Lanes /\ at'[Leader] = "end" THEN "end" ELSE at'[q]]
    BY DEF MapAt
  <2>2. ASSUME NEW q \in Roles
        PROVE  MapAt'[q] = IF q = Leader THEN "wait" ELSE at'[q]
    BY <1>3, <2>1
  <2>3. MapAt' = [q \in Roles |-> IF q = Leader THEN "wait" ELSE at'[q]]
    BY <2>1, <2>2
  <2>4. at' = [at EXCEPT !["tma"] = "fill", !["mma"] = "issue", ![Leader] = "issue"]
    BY <1>1
  <2>. QED
    BY <1>2, <2>3, <2>4, Facts
<1>8. P!AccTracked
  BY <1>6, MapTracks
<1>9. P!BeginTogether(t)
  <2>1. P!OneLane = R
    BY SameOperators DEF P!OneLane, R
  <2>2. \A r \in R : MapAt[r] = "next"
    BY <1>1, <1>2, Facts DEF R
  <2>. QED
    BY <1>1, <1>7, <1>8, <2>1, <2>2, SameOperators
       DEF P!BeginTogether, bars, cursors, engines, P!engines, output, P!output
<1>10. P!PipeInv'
  <2>1. P!Begun("tma") = P!Begun(Leader) /\ P!Begun("mma") = P!Begun(Leader)
    BY Facts DEF P!Begun, LaneInv
  <2>. QED
    BY <1>5, <1>9, <2>1, PipeTogether
<1>. QED
  BY <1>5, <1>6, <1>10

\* A thread leaves its loop; the leader takes the lanes with it.
LEMMA LeaveInv ==
  ASSUME Inv, NEW w \in Threads, LeaveLoop(w)
  PROVE  Inv'
<1>. USE DEF Inv
<1>. DEFINE R == IF w = Leader THEN Lanes \cup {Leader} ELSE {w}
<1>1. /\ at[w] = "next" /\ cursor[w] >= TileCount /\ at' = [at EXCEPT ![w] = "end"]
      /\ UNCHANGED <<bars, tile, k, cursors, engines, output, exited, begun>>
      /\ UNCHANGED <<launchVars, cursor>>
  BY DEF LeaveLoop, Move
<1>2. at \in [Roles -> Labels] /\ w \in Roles /\ w \notin Lanes /\ "end" \in Labels
  BY Facts DEF Labels, LaneInv
<1>3. /\ at' \in [Roles -> Labels] /\ at'[w] = "end"
      /\ \A q \in Roles \ {w} : at'[q] = at[q]
  BY <1>1, <1>2
<1>4. w = Leader => at["tma"] = "next" /\ at["mma"] = "next"
  BY <1>1 DEF LaneInv
<1>5. LaneInv'
  <2>1. at'["tma"] = at["tma"] /\ at'["mma"] = at["mma"]
    BY <1>3, Facts
  <2>2. at'[Leader] = "issue" <=> at[Leader] = "issue"
    BY <1>1, <1>3, Facts
  <2>. QED
    BY <1>1, <1>3, <2>1, <2>2 DEF LaneInv
<1>6. StrideInv'
  <2>1. \A v \in Threads : at'[v] = "end" => at[v] = "end" \/ cursor[v] >= TileCount
    BY <1>1, <1>3, Facts
  <2>. QED
    BY <1>1, <2>1, StrideFrame
<1>7. MapAt' = [r \in Roles |-> IF r \in R THEN "end" ELSE MapAt[r]]
  <2>1. MapAt' = [q \in Roles |-> IF q = Leader /\ at'[q] = "issue" THEN "wait"
                   ELSE IF q \in Lanes /\ at'[Leader] = "end" THEN "end" ELSE at'[q]]
    BY DEF MapAt
  <2>2. ASSUME NEW q \in Roles PROVE MapAt'[q] = IF q \in R THEN "end" ELSE MapAt[q]
    <3>1. CASE w = Leader
      BY <1>1, <1>3, <2>1, <3>1, Facts DEF MapAt
    <3>2. CASE w # Leader
      BY <1>1, <1>3, <2>1, <3>2, Facts DEF MapAt
    <3>. QED
      BY <3>1, <3>2
  <2>3. MapAt' = [q \in Roles |-> MapAt'[q]]
    BY <2>1
  <2>. HIDE DEF R
  <2>. QED
    BY <2>2, <2>3
<1>8. \A r \in R : MapAt[r] = "next"
  BY <1>1, <1>2, <1>4, Facts DEF MapAt
<1>9. R \in SUBSET Roles
  BY Facts
<1>. HIDE DEF R
<1>10. MapCursor' = MapCursor /\ MapBar' = MapBar
  <2>1. \A v \in Threads : MapAt'[v] = IF v \in R THEN "end" ELSE MapAt[v]
    BY <1>7, Facts
  <2>2. \A v \in Threads : MapAt'[v] \in {"wait", "load"} <=> MapAt[v] \in {"wait", "load"}
    BY <1>8, <2>1
  <2>. QED
    BY <1>1, <2>2, MapKept
<1>11. P!EndLoops(R)
  BY <1>1, <1>7, <1>8, <1>10, SameOperators
     DEF P!EndLoops, bars, P!bars, cursors, P!cursors, engines, P!engines,
         output, P!output
<1>12. P!PipeInv'
  BY <1>9, <1>11, PipeEnd
<1>. QED
  BY <1>5, <1>6, <1>12

LEMMA DeallocInv ==
  ASSUME Inv, Dealloc
  PROVE  Inv'
<1>. USE DEF Inv
<1>1. /\ ~exited /\ exited' = TRUE /\ \A w \in Threads : at[w] = "end"
      /\ UNCHANGED <<at, begun>> /\ UNCHANGED <<launchVars, cursor>>
  BY DEF Dealloc
<1>2. MapAt' = MapAt /\ MapCursor' = MapCursor /\ MapBar' = MapBar
  BY <1>1, MapStill
<1>3. \A r \in Roles : MapAt[r] = "end"
  BY <1>1, MapLabels, Facts DEF LaneInv
<1>4. P!Cleanup
  BY <1>1, <1>2, <1>3, SameOperators
     DEF Dealloc, P!Cleanup, bars, P!bars, cursors, P!cursors, engines, P!engines,
         output, P!output
<1>5. P!PipeInv'
  BY <1>4, SingleSame, PipeStepKept DEF P!PipelineStep
<1>6. LaneInv' /\ StrideInv'
  <2>1. StrideInv'
    BY <1>1, StrideFrame
  <2>. QED
    BY <1>1, <2>1 DEF LaneInv
<1>. QED
  BY <1>5, <1>6

LEMMA SingleInit ==
  ASSUME Init
  PROVE  Inv
<1>1. /\ at = [r \in Roles |-> "next"] /\ begun = [r \in Roles |-> <<>>]
      /\ grid \in {TileCount, CtaCount} /\ bx \in 0 .. grid - 1
      /\ cursor = [w \in Threads |-> bx]
  BY DEF Init, PipelineInit
<1>2. MapAt = [r \in Roles |-> "next"] /\ MapAt = at
  BY <1>1, Facts DEF MapAt
<1>3. MapCursor = [stage |-> 0, phase |-> 1]
      /\ MapBar = [phase |-> 0, pending |-> Cardinality(Threads), tx |-> 0]
  <2>1. Taken = 0 /\ \A w \in Threads : Through(w) = 0
    BY <1>1, <1>2, Facts DEF Taken, Through
  <2>2. Needing = {}
    BY <2>1 DEF Needing
  <2>. QED
    BY <2>1, <2>2 DEF MapCursor, MapBar
<1>4. P!PipelineInit
  BY <1>1, <1>2, <1>3, SameOperators
     DEF Init, PipelineInit, P!PipelineInit, Stages, P!Stages, Operands, P!Operands,
         NoRows, P!NoRows, NewBar, P!NewBar, Cursor, P!Cursor
<1>5. P!PipeInv
  BY <1>4, PipeStart
<1>6. grid \in Nat \ {0}
  BY <1>1, SingleWgAssumption
<1>7. StrideInv
  <2>1. NthTile(0) = bx
    BY <1>1, <1>6, NthTileFacts
  <2>2. \A w \in Threads : Len(begun[w]) = 0 /\ at[w] = "next" /\ cursor[w] = bx
    BY <1>1, Facts
  <2>3. DOMAIN cursor = Threads
    BY <1>1
  <2>. QED
    BY <1>1, <1>6, <2>1, <2>2, <2>3 DEF StrideInv
<1>8. LaneInv
  BY <1>1, Facts DEF LaneInv, Labels
<1>. QED
  BY <1>5, <1>7, <1>8 DEF Inv

LEMMA SingleNext ==
  ASSUME Inv, [Next]_singleVars
  PROVE  Inv'
<1>1. ASSUME NEW w \in Threads, Thread(w) PROVE Inv'
  BY <1>1, TakeThread, TakeLeader, StoreInv, ReadInv, LeaveInv DEF Thread
<1>2. CASE Lane
  BY <1>2, LoadInv, MultiplyInv, CommitInv DEF Lane
<1>3. CASE Background
  <2>1. P!PipelineStep /\ UNCHANGED <<at, begun>> /\ UNCHANGED <<launchVars, cursor>>
    BY <1>3, EngineMaps DEF Background
  <2>2. P!PipeInv'
    BY <2>1, SingleSame, PipeStepKept DEF Inv
  <2>3. StrideInv'
    BY <2>1, StrideFrame DEF Inv
  <2>. QED
    BY <2>1, <2>2, <2>3 DEF Inv, LaneInv
<1>4. CASE UNCHANGED singleVars
  <2>1. UNCHANGED pipeVars /\ UNCHANGED <<at, begun>> /\ UNCHANGED <<launchVars, cursor>>
    BY <1>4 DEF singleVars, pipeVars
  <2>2. MapAt' = MapAt /\ MapCursor' = MapCursor /\ MapBar' = MapBar
    BY <2>1, MapStill
  <2>3. UNCHANGED P!pipeVars
    BY <2>1, <2>2
       DEF pipeVars, P!pipeVars, bars, P!bars, cursors, P!cursors, engines, P!engines,
           output, P!output
  <2>4. P!PipeInv' /\ StrideInv'
    BY <2>1, <2>3, PipeSame, StrideFrame DEF Inv
  <2>. QED
    BY <2>1, <2>4 DEF Inv, LaneInv
<1>. QED
  BY <1>1, <1>2, <1>3, <1>4, LeaderInv, DeallocInv DEF Next, Finished

------------------------------------------------------------------------------

\* The single-warpgroup kernels keep their invariant: seen through the mapping, they
\* keep that of the warp-specialised pipeline, each thread is where its stride has
\* brought it, and the leader's two halves are in step with it.
THEOREM SingleInvariant == Spec => []Inv
<1>1. Init => Inv
  BY SingleInit
<1>2. Inv /\ [Next]_singleVars => Inv'
  BY SingleNext
<1>. QED
  BY <1>1, <1>2, PTL DEF Spec

\* The warpgroup's own syncs do for the accumulator, the ring and the staging buffer
\* of the single-warpgroup kernels what the missing release barrier does for the
\* others: nothing is overwritten while it is read, nothing is in flight at the end,
\* and each stored tile is its own K reduction, for every worklist, grid and ring.
THEOREM SingleSafe == Spec => []SyncsSuffice
<1>1. ASSUME Inv PROVE SyncsSuffice
  <2>1. P!NoDataRace /\ P!OutputCorrect
    BY <1>1, SingleSame, PipeIsSafe DEF Inv
  <2>2. \A w \in Threads : /\ at[w] = "load" => MapAt[w] = "load"
                           /\ at[w] = "stage" => MapAt[w] = "stage"
                           /\ at[w] # "release"
    BY <1>1, MapLabels, Facts DEF Inv, LaneInv, Labels
  <2>3. NoDataRace
    BY <2>1, <2>2, SameOperators DEF NoDataRace, P!NoDataRace, QuietAtExit, P!QuietAtExit
  <2>4. OutputCorrect
    BY <2>1 DEF OutputCorrect, P!OutputCorrect, NoRows, P!NoRows, Product, P!Product,
                Slices, P!Slices, Operands, P!Operands
  <2>. QED
    BY <2>3, <2>4 DEF SyncsSuffice
<1>. QED
  BY <1>1, SingleInvariant, PTL
=============================================================================
