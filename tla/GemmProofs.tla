------------------------------ MODULE GemmProofs -----------------------------
(***************************************************************************)
(* Proofs about the CUDA programs beside the kernel family: the launch     *)
(* plans (GemmPlan) for every number of plan objects, device arrays and    *)
(* addresses, and the direct CuTe GEMM (DirectCute) for every number of    *)
(* warps and K tiles.                                                      *)
(***************************************************************************)
EXTENDS GemmPlan, DirectCute, FiniteSetTheorems, SequenceTheorems, TLAPS

------------------------------------------------------------------------------
(***************************************************************************)
(* The plans. Ownership is an invariant of the heap alone: the pointers of *)
(* all Impls, allocated or not, are the allocated blocks, no block has     *)
(* two, and an Impl no plan holds has none. How far a build has got says   *)
(* which pointers are still to be set, so that none is overwritten and a   *)
(* finished build has every array.                                         *)
(***************************************************************************)

ImplType ==
  [ptr : [Fields -> Blocks \cup {Null}], ready : BOOLEAN, active : BOOLEAN,
   params : SUBSET Blocks]

PlanTypes ==
  /\ kind \in {"dense", "grouped"}
  /\ impl \in [Plans -> Impls \cup {Null}]
  /\ alive \subseteq Plans
  /\ heap \in [Impls -> ImplType]
  /\ live \subseteq Blocks
  /\ status \in [Plans -> {"none", "failed", "success"}]
  /\ inflight \subseteq SUBSET Blocks

\* The allocated blocks are those the Impls point to, each from one place.
PtrInv ==
  /\ \A b \in Blocks : b \in live <=> \E i \in Impls, f \in Fields : heap[i].ptr[f] = b
  /\ \A i, j \in Impls : \A f, g \in Fields :
       heap[i].ptr[f] = heap[j].ptr[g] /\ heap[i].ptr[f] # Null => i = j /\ f = g

PlanInv ==
  /\ \A p \in Plans \ alive : impl[p] = Null
  /\ \A p, q \in alive : p # q /\ impl[p] # Null => impl[p] # impl[q]
  /\ \A i \in Impls \ Allocated : \A f \in Fields : heap[i].ptr[f] = Null

\* The pointers of a build: the steps to come find theirs null, the arrays of those
\* that are done are there.
IsAlloc(n) == Program[n].op \in {"malloc", "new"}
Built(i) ==
  \A n \in 1 .. Len(Program) : IsAlloc(n) =>
    /\ n >= call.step => heap[i].ptr[Program[n].field] = Null
    /\ n < call.step /\ Program[n].field \in Arrays =>
         heap[i].ptr[Program[n].field] # Null

\* The initialize() under way works on an Impl that is not ready.
CallInv ==
  /\ call.at \in {"idle", "validate", "build", "cleanup"}
  /\ call.at = "idle" => call = Idle
  /\ call.at # "idle" => \E p \in alive :
       /\ call = [at |-> call.at, plan |-> {p}, step |-> call.step]
       /\ impl[p] # Null /\ ~heap[impl[p]].ready
       /\ call.at = "validate" =>
            /\ call.step = 1 /\ ~heap[impl[p]].active
            /\ \A f \in Fields : heap[impl[p]].ptr[f] = Null
       /\ call.at = "build" =>
            call.step \in 1 .. Len(Program) /\ heap[impl[p]].active /\ Built(impl[p])

Inv == PlanTypes /\ PtrInv /\ PlanInv /\ CallInv /\ AllOrNothing /\ KernelMemoryLives

------------------------------------------------------------------------------
(* Constants, and the program of the external calls                        *)

LEMMA PlanFacts ==
  /\ NumArrays \in Nat /\ Null \notin Impls /\ Null \notin Blocks /\ Null \notin Fields
  /\ Arguments \in Fields /\ Workspace \in DeviceFields /\ Workspace \notin Arrays
  /\ Arguments \notin DeviceFields /\ Arguments \notin Arrays
  /\ Arrays \subseteq DeviceFields /\ DeviceFields \subseteq Fields /\ Workspace # Null
  /\ \A f \in Fields : f \in DeviceFields \/ f = Arguments
  /\ \A f \in DeviceFields : f \in Arrays \/ f = Workspace
BY PlanAssumption DEF Null, Fields, Arguments, Workspace, DeviceFields, Arrays

LEMMA DenseProgram ==
  ASSUME kind = "dense"
  PROVE  /\ Len(Program) = 4
         /\ Program[1] = Step("new", Arguments) /\ Program[2] = Step("check", Null)
         /\ Program[3] = Step("malloc", Workspace) /\ Program[4] = Step("setup", Null)
BY DEF Program

LEMMA GroupedProgram ==
  ASSUME kind = "grouped"
  PROVE  /\ Len(Program) = 2 * NumArrays + 5
         /\ Program[1] = Step("check", Null)
         /\ \A n \in 1 .. 2 * NumArrays :
              Program[n + 1] = Step(IF n % 2 = 1 THEN "malloc" ELSE "copy", (n + 1) \div 2)
         /\ Program[2 * NumArrays + 2] = Step("new", Arguments)
         /\ Program[2 * NumArrays + 3] = Step("malloc", Workspace)
         /\ Program[2 * NumArrays + 4] = Step("check", Null)
         /\ Program[2 * NumArrays + 5] = Step("setup", Null)
<1>. DEFINE S == [op : {"new", "check", "malloc", "copy", "setup"}, field : Int]
            first == <<Step("check", Null)>>
            middle == [n \in 1 .. 2 * NumArrays |->
                         Step(IF n % 2 = 1 THEN "malloc" ELSE "copy", (n + 1) \div 2)]
            last == <<Step("new", Arguments), Step("malloc", Workspace),
                      Step("check", Null), Step("setup", Null)>>
            m == 2 * NumArrays
<1>1. m \in Nat /\ Arguments \in Int /\ Workspace \in Int /\ Null \in Int
  BY PlanFacts DEF Arguments, Workspace, Null
<1>2. first \in Seq(S) /\ Len(first) = 1 /\ first[1] = Step("check", Null)
  <2>1. Step("check", Null) \in S
    BY <1>1 DEF Step
  <2>. HIDE DEF S
  <2>. QED
    BY <2>1
<1>3. middle \in Seq(S) /\ Len(middle) = m
  <2>1. \A n \in 1 .. m : Step(IF n % 2 = 1 THEN "malloc" ELSE "copy", (n + 1) \div 2) \in S
    BY <1>1 DEF Step
  <2>. HIDE DEF S
  <2>2. middle \in [1 .. m -> S]
    BY <2>1
  <2>. HIDE DEF middle
  <2>. QED
    BY <1>1, <2>2
<1>4. /\ last \in Seq(S) /\ Len(last) = 4
      /\ last[1] = Step("new", Arguments) /\ last[2] = Step("malloc", Workspace)
      /\ last[3] = Step("check", Null) /\ last[4] = Step("setup", Null)
  <2>1. /\ Step("new", Arguments) \in S /\ Step("malloc", Workspace) \in S
        /\ Step("check", Null) \in S /\ Step("setup", Null) \in S
    BY <1>1 DEF Step
  <2>. HIDE DEF S
  <2>. QED
    BY <2>1
<1>5. Program = (first \o middle) \o last
  BY DEF Program
<1>6. \A n \in 1 .. m :
        middle[n] = Step(IF n % 2 = 1 THEN "malloc" ELSE "copy", (n + 1) \div 2)
  OBVIOUS
<1>. HIDE DEF S, first, middle, last, m
<1>7. /\ first \o middle \in Seq(S) /\ Len(first \o middle) = m + 1
      /\ (first \o middle)[1] = Step("check", Null)
      /\ \A n \in 1 .. m : (first \o middle)[n + 1] = middle[n]
  <2>1. first \o middle \in Seq(S) /\ Len(first \o middle) = 1 + m
    BY <1>2, <1>3, ConcatProperties
  <2>4. ASSUME NEW i \in 1 .. 1 + m
        PROVE  (first \o middle)[i] = IF i <= 1 THEN first[i] ELSE middle[i - 1]
    <3>1. i \in 1 .. Len(first) + Len(middle)
      BY <1>2, <1>3
    <3>2. (first \o middle)[i]
            = IF i <= Len(first) THEN first[i] ELSE middle[i - Len(first)]
      BY <1>2, <1>3, <3>1, ConcatProperties
    <3>. QED
      BY <1>2, <3>2
  <2>2. \A n \in 1 .. m : n + 1 \in 1 .. 1 + m /\ ~(n + 1 <= 1) /\ (n + 1) - 1 = n
    BY <1>1
  <2>3. 1 \in 1 .. 1 + m
    BY <1>1
  <2>. QED
    BY <1>1, <1>2, <2>4, <2>1, <2>2, <2>3
<1>8. /\ Len(Program) = m + 5
      /\ \A i \in 1 .. m + 5 :
           Program[i] = IF i <= m + 1 THEN (first \o middle)[i] ELSE last[i - (m + 1)]
  <2>1. Len((first \o middle) \o last) = (m + 1) + 4
    <3>1. Len((first \o middle) \o last) = Len(first \o middle) + Len(last)
      BY <1>4, <1>7, ConcatProperties
    <3>. QED
      BY <1>4, <1>7, <3>1
  <2>2. (m + 1) + 4 = m + 5
    BY <1>1
  <2>3. ASSUME NEW i \in 1 .. m + 5
        PROVE  Program[i] = IF i <= m + 1 THEN (first \o middle)[i] ELSE last[i - (m + 1)]
    <3>1. i \in 1 .. Len(first \o middle) + Len(last)
      BY <1>1, <1>4, <1>7
    <3>2. ((first \o middle) \o last)[i]
            = IF i <= Len(first \o middle) THEN (first \o middle)[i]
              ELSE last[i - Len(first \o middle)]
      <4>. DEFINE head == first \o middle
      <4>1. head \in Seq(S) /\ last \in Seq(S) /\ i \in 1 .. Len(head) + Len(last)
        BY <1>4, <1>7, <3>1
      <4>. HIDE DEF head
      <4>2. (head \o last)[i] = IF i <= Len(head) THEN head[i] ELSE last[i - Len(head)]
        BY <4>1, ConcatProperties
      <4>. QED
        BY <4>2 DEF head
    <3>. QED
      BY <1>5, <1>7, <3>2
  <2>. QED
    BY <1>5, <2>1, <2>2, <2>3
<1>9. /\ Program[m + 2] = last[1] /\ Program[m + 3] = last[2]
      /\ Program[m + 4] = last[3] /\ Program[m + 5] = last[4]
  <2>1. \A j \in 1 .. 4 : Program[m + 1 + j] = last[j]
    <3>. TAKE j \in 1 .. 4
    <3>1. m + 1 + j \in 1 .. m + 5 /\ ~(m + 1 + j <= m + 1) /\ (m + 1 + j) - (m + 1) = j
      BY <1>1
    <3>. QED
      BY <1>8, <3>1
  <2>2. m + 1 + 1 = m + 2 /\ m + 1 + 2 = m + 3 /\ m + 1 + 3 = m + 4 /\ m + 1 + 4 = m + 5
    BY <1>1
  <2>. QED
    BY <2>1, <2>2
<1>10. Program[1] = Step("check", Null)
  <2>1. 1 \in 1 .. m + 5 /\ 1 <= m + 1
    BY <1>1
  <2>. QED
    BY <1>7, <1>8, <2>1
<1>11. \A n \in 1 .. m : Program[n + 1] = middle[n]
  <2>. TAKE n \in 1 .. m
  <2>1. n + 1 \in 1 .. m + 5 /\ n + 1 <= m + 1
    BY <1>1
  <2>. QED
    BY <1>7, <1>8, <2>1
<1>. QED
  BY <1>4, <1>6, <1>8, <1>9, <1>10, <1>11 DEF m

LEMMA StepParts ==
  ASSUME NEW op, NEW f
  PROVE  Step(op, f).op = op /\ Step(op, f).field = f
BY DEF Step

\* What the code relies on: set-up comes last, each pointer is allocated once, a copy
\* comes after its array's allocation, and every array of the grouped plan is allocated.
LEMMA ProgramFacts ==
  ASSUME kind \in {"dense", "grouped"}
  PROVE  /\ Len(Program) \in Nat /\ Len(Program) >= 4
         /\ Program[Len(Program)] = Step("setup", Null)
         /\ \A n \in 1 .. Len(Program) :
              \/ n < Len(Program) /\ Program[n] = Step("new", Arguments)
              \/ n < Len(Program) /\ Program[n] = Step("check", Null)
              \/ n < Len(Program) /\ \E f \in DeviceFields : Program[n] = Step("malloc", f)
              \/ n < Len(Program) /\ \E f \in Arrays : Program[n] = Step("copy", f)
              \/ n = Len(Program) /\ Program[n] = Step("setup", Null)
         /\ \A n, m \in 1 .. Len(Program) :
              IsAlloc(n) /\ IsAlloc(m) /\ Program[n].field = Program[m].field => n = m
         /\ kind = "grouped" => \A f \in Arrays : \E n \in 1 .. Len(Program) :
              n < Len(Program) /\ IsAlloc(n) /\ Program[n].field = f
<1>1. CASE kind = "dense"
  <2>1. \A n \in 1 .. 4 : n = 1 \/ n = 2 \/ n = 3 \/ n = 4
    OBVIOUS
  <2>2. IsAlloc(1) /\ ~IsAlloc(2) /\ IsAlloc(3) /\ ~IsAlloc(4)
    BY <1>1, DenseProgram, StepParts DEF IsAlloc
  <2>3. Program[1].field # Program[3].field
    BY <1>1, DenseProgram, StepParts, PlanFacts
  <2>4. \A n, m \in 1 .. 4 :
          IsAlloc(n) /\ IsAlloc(m) /\ Program[n].field = Program[m].field => n = m
    BY <2>1, <2>2, <2>3
  <2>5. \A n \in 1 .. 4 :
          \/ n < 4 /\ Program[n] = Step("new", Arguments)
          \/ n < 4 /\ Program[n] = Step("check", Null)
          \/ n < 4 /\ \E f \in DeviceFields : Program[n] = Step("malloc", f)
          \/ n < 4 /\ \E f \in Arrays : Program[n] = Step("copy", f)
          \/ n = 4 /\ Program[n] = Step("setup", Null)
    BY <1>1, <2>1, DenseProgram, PlanFacts
  <2>6. kind # "grouped" /\ Len(Program) = 4 /\ Program[4] = Step("setup", Null)
    BY <1>1, DenseProgram
  <2>. QED
    BY <2>4, <2>5, <2>6
<1>2. CASE kind = "grouped"
  <2>. DEFINE N == NumArrays
              L == 2 * N + 5
  <2>1. N \in Nat /\ Len(Program) = L
    BY <1>2, GroupedProgram, PlanFacts
  <2>2. ASSUME NEW n \in 1 .. L
        PROVE  \/ n = 1 \/ (n - 1 \in 1 .. 2 * N /\ n < L) \/ n = 2 * N + 2 \/ n = 2 * N + 3
               \/ n = 2 * N + 4 \/ n = 2 * N + 5
    BY <2>1
  <2>3. ASSUME NEW n \in 1 .. L, n - 1 \in 1 .. 2 * N
        PROVE  /\ Program[n] = Step(IF n % 2 = 0 THEN "malloc" ELSE "copy", n \div 2)
               /\ n \div 2 \in Arrays
    <3>1. (n - 1) + 1 = n /\ ((n - 1) % 2 = 1 <=> n % 2 = 0) /\ n \div 2 \in 1 .. N
      BY <2>1, <2>3
    <3>2. Program[(n - 1) + 1]
            = Step(IF (n - 1) % 2 = 1 THEN "malloc" ELSE "copy", ((n - 1) + 1) \div 2)
      BY <1>2, <2>3, GroupedProgram
    <3>. QED
      BY <3>1, <3>2 DEF Arrays
  <2>4. ASSUME NEW n \in 1 .. L, IsAlloc(n)
        PROVE  \/ n = 2 * N + 2 /\ Program[n].field = Arguments
               \/ n = 2 * N + 3 /\ Program[n].field = Workspace
               \/ Program[n].field \in Arrays /\ n = 2 * Program[n].field
    <3>1. CASE n - 1 \in 1 .. 2 * N
      <4>1. n % 2 = 0
        BY <2>3, <2>4, <3>1, StepParts DEF IsAlloc
      <4>2. n = 2 * (n \div 2)
        BY <2>1, <4>1
      <4>. QED
        BY <2>3, <3>1, <4>1, <4>2, StepParts
    <3>2. CASE n = 1 \/ n = 2 * N + 4 \/ n = 2 * N + 5
      BY <1>2, <2>4, <3>2, GroupedProgram, StepParts DEF IsAlloc
    <3>3. CASE n = 2 * N + 2 \/ n = 2 * N + 3
      BY <1>2, <3>3, GroupedProgram, StepParts
    <3>. QED
      BY <2>2, <3>1, <3>2, <3>3
  <2>5. \A n, m \in 1 .. L :
          IsAlloc(n) /\ IsAlloc(m) /\ Program[n].field = Program[m].field => n = m
    BY <2>4, PlanFacts
  <2>6. \A f \in Arrays : \E n \in 1 .. L : n < L /\ IsAlloc(n) /\ Program[n].field = f
    <3>. TAKE f \in Arrays
    <3>1. 2 * f \in 1 .. L /\ 2 * f - 1 \in 1 .. 2 * N /\ (2 * f) % 2 = 0
          /\ (2 * f) \div 2 = f /\ 2 * f < L
      BY <2>1 DEF Arrays
    <3>2. Program[2 * f] = Step("malloc", f)
      BY <2>3, <3>1
    <3>. QED
      BY <3>1, <3>2, StepParts DEF IsAlloc
  <2>7. ASSUME NEW n \in 1 .. L
        PROVE  \/ n < L /\ Program[n] = Step("new", Arguments)
               \/ n < L /\ Program[n] = Step("check", Null)
               \/ n < L /\ \E f \in DeviceFields : Program[n] = Step("malloc", f)
               \/ n < L /\ \E f \in Arrays : Program[n] = Step("copy", f)
               \/ n = L /\ Program[n] = Step("setup", Null)
    <3>1. 1 < L /\ 2 * N + 2 < L /\ 2 * N + 3 < L /\ 2 * N + 4 < L
      BY <2>1
    <3>2. CASE n - 1 \in 1 .. 2 * N /\ n < L
      BY <2>3, <3>2, PlanFacts
    <3>3. CASE n = 1 \/ n = 2 * N + 2 \/ n = 2 * N + 3 \/ n = 2 * N + 4 \/ n = 2 * N + 5
      BY <1>2, <3>1, <3>3, GroupedProgram, PlanFacts
    <3>. QED
      BY <2>2, <3>2, <3>3
  <2>8. Program[L] = Step("setup", Null) /\ L \in Nat /\ L >= 4
    BY <1>2, <2>1, GroupedProgram
  <2>. HIDE DEF L
  <2>. QED
    BY <1>2, <2>1, <2>5, <2>6, <2>7, <2>8
<1>. QED
  BY <1>1, <1>2

------------------------------------------------------------------------------
(* Addresses are left when one is needed                                   *)

\* Who takes an address holds it in a place of its own, and one place is empty.
LEMMA FreshIsFree ==
  ASSUME NEW taken, NEW all, IsFiniteSet(all), NEW places, IsFiniteSet(places),
         Cardinality(places) <= Cardinality(all), NEW empty \in places, NEW at,
         \A b \in all : b \in taken => \E x \in places \ {empty} : at[x] = b
  PROVE  Fresh(taken, all) \in all /\ Fresh(taken, all) \notin taken
<1>. SUFFICES ASSUME \A b \in all : b \in taken PROVE FALSE
  BY DEF Fresh
<1>. DEFINE rest == places \ {empty}
            place == [b \in all |-> CHOOSE x \in rest : at[x] = b]
<1>1. place \in [all -> rest] /\ \A b \in all : at[place[b]] = b
  OBVIOUS
<1>2. /\ IsFiniteSet(rest) /\ Cardinality(rest) = Cardinality(places) - 1
      /\ Cardinality(places) \in Nat /\ Cardinality(all) \in Nat
  BY FS_RemoveElement, FS_CardinalityType
<1>. HIDE DEF rest, place
<1>3. \E x, y \in all : x # y /\ place[x] = place[y]
  <2>1. Cardinality(rest) < Cardinality(all)
    BY <1>2
  <2>. QED
    BY <1>1, <1>2, <2>1, FS_PigeonHole
<1>. QED
  BY <1>1, <1>3

LEMMA FreshImpl ==
  ASSUME PlanTypes, PlanInv, NEW p \in Plans, p \notin alive \/ impl[p] = Null
  PROVE  Fresh(Allocated, Impls) \in Impls /\ Fresh(Allocated, Impls) \notin Allocated
<1>1. impl[p] = Null
  BY DEF PlanInv
<1>2. \A i \in Impls : i \in Allocated => \E q \in Plans \ {p} : impl[q] = i
  BY <1>1 DEF Allocated, PlanTypes
<1>3. Cardinality(Plans) <= Cardinality(Impls)
  BY PlanAssumption, FS_CardinalityType
<1>4. IsFiniteSet(Plans) /\ IsFiniteSet(Impls)
  BY PlanAssumption
<1>. QED
  BY <1>2, <1>3, <1>4, FreshIsFree

LEMMA FreshBlock ==
  ASSUME PlanTypes, PtrInv, PlanInv, NEW p \in alive, NEW f \in Fields,
         heap[impl[p]].ptr[f] = Null
  PROVE  Fresh(live, Blocks) \in Blocks /\ Fresh(live, Blocks) \notin live
<1>. DEFINE places == Plans \X Fields
            at == [x \in places |-> heap[impl[x[1]]].ptr[x[2]]]
<1>1. IsFiniteSet(Plans) /\ IsFiniteSet(Blocks) /\ p \in Plans /\ NumArrays \in Nat
      /\ Cardinality(Blocks) >= (NumArrays + 2) * Cardinality(Plans)
  BY PlanAssumption DEF PlanTypes
<1>2. IsFiniteSet(Fields) /\ Cardinality(Fields) = NumArrays + 2
  BY <1>1, FS_Interval DEF Fields
<1>3. IsFiniteSet(places) /\ Cardinality(places) <= Cardinality(Blocks)
  <2>1. IsFiniteSet(places) /\ Cardinality(places) = Cardinality(Plans) * Cardinality(Fields)
    BY <1>1, <1>2, FS_Product
  <2>2. Cardinality(Plans) \in Nat /\ Cardinality(Blocks) \in Nat
    BY <1>1, FS_CardinalityType
  <2>3. Cardinality(Plans) * (NumArrays + 2) = (NumArrays + 2) * Cardinality(Plans)
    BY <1>1, <2>2
  <2>. QED
    BY <1>1, <1>2, <2>1, <2>2, <2>3
<1>4. <<p, f>> \in places
  BY <1>1
<1>5. ASSUME NEW b \in Blocks, b \in live
      PROVE  \E x \in places \ {<<p, f>>} : at[x] = b
  <2>1. PICK i \in Impls, g \in Fields : heap[i].ptr[g] = b
    BY <1>5 DEF PtrInv
  <2>2. b # Null
    BY PlanFacts
  <2>3. PICK q \in alive : impl[q] = i
    BY <2>1, <2>2 DEF PlanInv, Allocated
  <2>4. <<q, g>> \in places /\ at[<<q, g>>] = b
    BY <2>1, <2>3 DEF PlanTypes
  <2>5. <<q, g>> # <<p, f>>
    BY <2>1, <2>2, <2>3
  <2>. QED
    BY <2>4, <2>5
<1>. HIDE DEF places, at
<1>. QED
  BY <1>1, <1>3, <1>4, <1>5, FreshIsFree

------------------------------------------------------------------------------
(* What changes of the heap keep                                           *)

LEMMA HeapFacts ==
  ASSUME PlanTypes
  PROVE  /\ \A p \in alive : p \in Plans /\ impl[p] \in Impls \cup {Null}
         /\ \A p \in Plans : impl[p] # Null => impl[p] \in Impls
         /\ \A i \in Impls : /\ heap[i] \in ImplType
                             /\ \A f \in Fields : heap[i].ptr[f] \in Blocks \cup {Null}
         /\ EmptyImpl \in ImplType /\ \A f \in Fields : EmptyImpl.ptr[f] = Null
         /\ ~EmptyImpl.ready /\ ~EmptyImpl.active
BY DEF PlanTypes, ImplType, EmptyImpl

LEMMA PtrKept ==
  ASSUME PtrInv, live' = live,
         \A j \in Impls : \A f \in Fields : heap'[j].ptr[f] = heap[j].ptr[f]
  PROVE  PtrInv'
BY DEF PtrInv

LEMMA PtrSet ==
  ASSUME PlanTypes, PtrInv, NEW i \in Impls, NEW f \in Fields, heap[i].ptr[f] = Null,
         NEW b \in Blocks, b \notin live, live' = live \cup {b}, heap'[i].ptr[f] = b,
         \A g \in Fields \ {f} : heap'[i].ptr[g] = heap[i].ptr[g],
         \A j \in Impls \ {i} : \A g \in Fields : heap'[j].ptr[g] = heap[j].ptr[g]
  PROVE  PtrInv'
<1>1. \A j \in Impls : \A g \in Fields : heap[j].ptr[g] # b
  BY DEF PtrInv
<1>2. b # Null
  BY PlanFacts
<1>3. ASSUME NEW c \in Blocks
      PROVE  c \in live' <=> \E j \in Impls, g \in Fields : heap'[j].ptr[g] = c
  <2>1. c # Null
    BY PlanFacts
  <2>2. ASSUME c \in live' PROVE \E j \in Impls, g \in Fields : heap'[j].ptr[g] = c
    <3>1. CASE c = b
      BY <3>1
    <3>2. CASE c # b
      <4>1. PICK j \in Impls, g \in Fields : heap[j].ptr[g] = c
        BY <2>2, <3>2 DEF PtrInv
      <4>2. heap'[j].ptr[g] = c
        BY <2>1, <4>1
      <4>. QED
        BY <4>2
    <3>. QED
      BY <3>1, <3>2
  <2>3. ASSUME NEW j \in Impls, NEW g \in Fields, heap'[j].ptr[g] = c PROVE c \in live'
    <3>1. c = b \/ heap[j].ptr[g] = c
      BY <2>3
    <3>. QED
      BY <3>1 DEF PtrInv
  <2>. QED
    BY <2>2, <2>3
<1>4. ASSUME NEW j \in Impls, NEW k \in Impls, NEW g \in Fields, NEW h \in Fields,
             heap'[j].ptr[g] = heap'[k].ptr[h], heap'[j].ptr[g] # Null
      PROVE  j = k /\ g = h
  <2>1. \/ heap'[j].ptr[g] = b /\ j = i /\ g = f
        \/ heap'[j].ptr[g] = heap[j].ptr[g]
    OBVIOUS
  <2>2. \/ heap'[k].ptr[h] = b /\ k = i /\ h = f
        \/ heap'[k].ptr[h] = heap[k].ptr[h]
    OBVIOUS
  <2>. QED
    BY <1>1, <1>4, <2>1, <2>2 DEF PtrInv
<1>. QED
  BY <1>3, <1>4 DEF PtrInv

LEMMA PtrFreed ==
  ASSUME PlanTypes, PtrInv, NEW i \in Impls, NEW G \in SUBSET Fields,
         live' = live \ {heap[i].ptr[f] : f \in G},
         \A f \in G : heap'[i].ptr[f] = Null,
         \A f \in Fields \ G : heap'[i].ptr[f] = heap[i].ptr[f],
         \A j \in Impls \ {i} : \A f \in Fields : heap'[j].ptr[f] = heap[j].ptr[f]
  PROVE  PtrInv'
<1>1. ASSUME NEW c \in Blocks
      PROVE  c \in live' <=> \E j \in Impls, g \in Fields : heap'[j].ptr[g] = c
  <2>1. c # Null
    BY PlanFacts
  <2>2. ASSUME c \in live' PROVE \E j \in Impls, g \in Fields : heap'[j].ptr[g] = c
    <3>1. PICK j \in Impls, g \in Fields : heap[j].ptr[g] = c
      BY <2>2 DEF PtrInv
    <3>2. ~(j = i /\ g \in G)
      BY <2>2, <3>1
    <3>3. heap'[j].ptr[g] = c
      BY <3>1, <3>2
    <3>. QED
      BY <3>3
  <2>3. ASSUME NEW j \in Impls, NEW g \in Fields, heap'[j].ptr[g] = c PROVE c \in live'
    <3>1. heap[j].ptr[g] = c /\ ~(j = i /\ g \in G)
      BY <2>1, <2>3
    <3>2. c \in live
      BY <3>1 DEF PtrInv
    <3>3. ASSUME NEW f \in G, heap[i].ptr[f] = c PROVE FALSE
      <4>1. f \in Fields /\ heap[j].ptr[g] = heap[i].ptr[f] /\ heap[j].ptr[g] # Null
        BY <2>1, <3>1, <3>3
      <4>. QED
        BY <3>1, <3>3, <4>1 DEF PtrInv
    <3>. QED
      BY <3>2, <3>3
  <2>. QED
    BY <2>2, <2>3
<1>2. ASSUME NEW j \in Impls, NEW k \in Impls, NEW g \in Fields, NEW h \in Fields,
             heap'[j].ptr[g] = heap'[k].ptr[h], heap'[j].ptr[g] # Null
      PROVE  j = k /\ g = h
  <2>1. heap'[j].ptr[g] = heap[j].ptr[g] /\ heap'[k].ptr[h] = heap[k].ptr[h]
    BY <1>2
  <2>2. heap[j].ptr[g] = heap[k].ptr[h] /\ heap[j].ptr[g] # Null
    BY <1>2, <2>1
  <2>. QED
    BY <2>2 DEF PtrInv
<1>. QED
  BY <1>1, <1>2 DEF PtrInv

\* delete and release give back what the Impl holds.
LEMMA ImplFreed ==
  ASSUME PlanTypes, PtrInv, NEW i \in Impls, live' = live \ Held(i, Fields),
         \A f \in Fields : heap'[i].ptr[f] = Null,
         \A j \in Impls \ {i} : heap'[j] = heap[j]
  PROVE  PtrInv'
<1>1. live' = live \ {heap[i].ptr[f] : f \in Fields}
  BY PlanFacts DEF Held, PlanTypes
<1>. QED
  BY <1>1, PtrFreed

\* A kernel's memory stays when no Impl that holds some loses any.
LEMMA KernelsKeep ==
  ASSUME PlanTypes', PtrInv', KernelMemoryLives, inflight' \subseteq inflight,
         \A i \in Allocated : inflight # {} /\ Held(i, DeviceFields) # {} =>
           /\ i \in Allocated'
           /\ \A f \in DeviceFields : heap[i].ptr[f] # Null => heap'[i].ptr[f] = heap[i].ptr[f]
  PROVE  KernelMemoryLives'
<1>. SUFFICES ASSUME NEW used \in inflight', used # {}
              PROVE  \E i \in Allocated' : used \subseteq Held(i, DeviceFields)'
                                          /\ used \subseteq live'
  BY DEF KernelMemoryLives
<1>1. used \in inflight \ {{}} /\ inflight # {}
  OBVIOUS
<1>2. PICK i \in Allocated : used \subseteq Held(i, DeviceFields)
  BY <1>1 DEF KernelMemoryLives
<1>3. /\ i \in Allocated'
      /\ \A f \in DeviceFields : heap[i].ptr[f] # Null => heap'[i].ptr[f] = heap[i].ptr[f]
  BY <1>1, <1>2
<1>4. used \subseteq Held(i, DeviceFields)'
  BY <1>2, <1>3 DEF Held
<1>5. used \subseteq Blocks
  BY DEF PlanTypes
<1>6. i \in Impls
  BY <1>3 DEF PlanTypes, Allocated
<1>7. used \subseteq live'
  <2>. SUFFICES ASSUME NEW b \in used PROVE b \in live'
    OBVIOUS
  <2>1. PICK f \in DeviceFields : heap'[i].ptr[f] = b
    BY <1>4 DEF Held
  <2>. QED
    BY <1>5, <1>6, <2>1, PlanFacts DEF PtrInv
<1>. QED
  BY <1>3, <1>4, <1>7

LEMMA NoKernels ==
  ASSUME inflight' = {}
  PROVE  KernelMemoryLives'
BY DEF KernelMemoryLives

LEMMA HeldNothing ==
  ASSUME NEW i
  PROVE  /\ Held(i, Fields) = {} <=> (\A f \in Fields : heap[i].ptr[f] = Null)
         /\ Held(i, DeviceFields) = {} <=> (\A f \in DeviceFields : heap[i].ptr[f] = Null)
BY DEF Held

\* AllOrNothing for one plan.
PlanOk(p) ==
  LET s == heap[impl[p]] IN
  IF status[p] # "success" THEN ~s.ready /\ Held(impl[p], Fields) = {}
  ELSE /\ s.ready
       /\ s.active => /\ s.params = Held(impl[p], DeviceFields)
                      /\ kind = "grouped" => \A f \in Arrays : s.ptr[f] # Null
       /\ ~s.active => Held(impl[p], Fields) = {}

LEMMA AllOrNothingIsPlanOk ==
  AllOrNothing <=> \A p \in alive : impl[p] # Null /\ p \notin call.plan => PlanOk(p)
BY DEF AllOrNothing, PlanOk

LEMMA PlanOkKept ==
  ASSUME NEW p, NEW q, impl'[p] = impl[q], heap'[impl[q]] = heap[impl[q]],
         status'[p] = status[q], kind' = kind, PlanOk(q)
  PROVE  PlanOk(p)'
BY DEF PlanOk, Held

\* A plan whose Impl is empty, after a failure or before any initialisation.
LEMMA PlanOkEmpty ==
  ASSUME NEW p, status'[p] # "success", ~heap'[impl'[p]].ready,
         \A f \in Fields : heap'[impl'[p]].ptr[f] = Null
  PROVE  PlanOk(p)'
BY DEF PlanOk, Held

------------------------------------------------------------------------------
(* Construction, move and destruction                                      *)

LEMMA ConstructKeeps ==
  ASSUME Inv, NEW p \in Plans, Construct(p)
  PROVE  Inv'
<1>. DEFINE i == Fresh(Allocated, Impls)
<1>1. /\ call = Idle /\ p \notin alive /\ alive' = alive \cup {p} /\ impl' = [impl EXCEPT ![p] = i]
      /\ heap' = [heap EXCEPT ![i] = EmptyImpl] /\ status' = [status EXCEPT ![p] = "none"]
      /\ kind' = kind /\ live' = live /\ call' = call /\ inflight' = inflight
  BY DEF Construct, Inv, PlanTypes
<1>2. i \in Impls /\ i \notin Allocated
  BY <1>1, FreshImpl DEF Inv
<1>. HIDE DEF i
<1>3. PlanTypes'
  BY <1>1, <1>2, HeapFacts DEF Inv, PlanTypes
<1>4. \A f \in Fields : heap[i].ptr[f] = Null
  BY <1>2 DEF Inv, PlanInv
<1>5. \A j \in Impls : \A f \in Fields : heap'[j].ptr[f] = heap[j].ptr[f]
  BY <1>1, <1>2, <1>4, HeapFacts DEF Inv, PlanTypes
<1>6. PtrInv'
  BY <1>1, <1>5, PtrKept DEF Inv
<1>7. impl'[p] = i /\ \A q \in alive : q # p /\ q \in Plans /\ impl'[q] = impl[q] /\ impl[q] # i
  BY <1>1, <1>2, PlanFacts DEF Inv, PlanTypes, Allocated
<1>8. Allocated' = Allocated \cup {i}
  BY <1>1, <1>2, <1>7, PlanFacts DEF Allocated
<1>9. PlanInv'
  <2>1. \A q \in Plans \ alive' : impl'[q] = Null
    BY <1>1 DEF Inv, PlanInv, PlanTypes
  <2>2. \A q, r \in alive' : q # r /\ impl'[q] # Null => impl'[q] # impl'[r]
    BY <1>1, <1>7 DEF Inv, PlanInv
  <2>3. \A j \in Impls \ Allocated' : \A f \in Fields : heap'[j].ptr[f] = Null
    BY <1>5, <1>8 DEF Inv, PlanInv
  <2>. QED
    BY <2>1, <2>2, <2>3 DEF PlanInv
<1>10. CallInv'
  BY <1>1 DEF Idle, CallInv
<1>11. AllOrNothing'
  <2>1. PlanOk(p)'
    <3>1. status'[p] # "success" /\ heap'[impl'[p]] = EmptyImpl
      BY <1>1, <1>2, <1>7 DEF Inv, PlanTypes
    <3>. QED
      BY <3>1, HeapFacts, PlanOkEmpty DEF Inv
  <2>2. ASSUME NEW q \in alive, impl[q] # Null PROVE PlanOk(q)'
    <3>1. PlanOk(q)
      BY <1>1, <2>2, AllOrNothingIsPlanOk DEF Inv, Idle
    <3>2. status'[q] = status[q] /\ heap'[impl[q]] = heap[impl[q]]
      BY <1>1, <1>2, <1>7, <2>2, HeapFacts DEF Inv, PlanTypes
    <3>. QED
      BY <1>1, <1>7, <3>1, <3>2, PlanOkKept
  <2>3. \A q \in alive' : impl'[q] # Null => PlanOk(q)'
    BY <1>1, <1>7, <2>1, <2>2
  <2>. QED
    BY <2>3 DEF AllOrNothing, PlanOk
<1>12. KernelMemoryLives'
  <2>1. \A j \in Allocated : \A f \in DeviceFields : heap'[j].ptr[f] = heap[j].ptr[f]
    BY <1>5, PlanFacts DEF Inv, PlanTypes, Allocated
  <2>. QED
    BY <1>1, <1>3, <1>6, <1>8, <2>1, KernelsKeep DEF Inv
<1>. QED
  BY <1>3, <1>6, <1>9, <1>10, <1>11, <1>12 DEF Inv

\* What delete does: the pointers of every other Impl stay, and while kernels run it
\* deletes no Impl that holds device memory.
LEMMA DeleteFacts ==
  ASSUME Inv, NEW p \in alive, DeleteImpl(p)
  PROVE  /\ heap' \in [Impls -> ImplType] /\ live' \subseteq Blocks /\ PtrInv'
         /\ impl[p] # Null => /\ heap'[impl[p]] = EmptyImpl
                              /\ Held(impl[p], DeviceFields) # {} => inflight = {}
         /\ \A j \in Impls : j # impl[p] => heap'[j] = heap[j]
<1>1. CASE impl[p] = Null
  <2>1. heap' = heap /\ live' = live
    BY <1>1 DEF DeleteImpl
  <2>2. PtrInv'
    BY <2>1, PtrKept DEF Inv
  <2>. QED
    BY <1>1, <2>1, <2>2 DEF Inv, PlanTypes
<1>2. CASE impl[p] # Null
  <2>1. /\ live' = live \ Held(impl[p], Fields)
        /\ heap' = [heap EXCEPT ![impl[p]] = EmptyImpl]
        /\ Held(impl[p], DeviceFields) # {} => inflight = {}
    BY <1>2 DEF DeleteImpl, MayFree
  <2>2. impl[p] \in Impls
    BY <1>2, HeapFacts DEF Inv
  <2>3. /\ heap' \in [Impls -> ImplType] /\ live' \subseteq Blocks
        /\ heap'[impl[p]] = EmptyImpl /\ \A j \in Impls \ {impl[p]} : heap'[j] = heap[j]
    BY <2>1, <2>2, HeapFacts DEF Inv, PlanTypes
  <2>4. PtrInv'
    BY <2>1, <2>2, <2>3, ImplFreed, HeapFacts DEF Inv
  <2>. QED
    BY <1>2, <2>1, <2>3, <2>4
<1>. QED
  BY <1>1, <1>2

LEMMA DestroyKeeps ==
  ASSUME Inv, NEW p \in Plans, Destroy(p)
  PROVE  Inv'
<1>1. /\ call = Idle /\ p \in alive /\ DeleteImpl(p) /\ alive' = alive \ {p}
      /\ impl' = [impl EXCEPT ![p] = Null] /\ status' = status
      /\ kind' = kind /\ call' = call /\ inflight' = inflight
  BY DEF Destroy
<1>2. /\ heap' \in [Impls -> ImplType] /\ live' \subseteq Blocks /\ PtrInv'
      /\ impl[p] # Null => /\ heap'[impl[p]] = EmptyImpl
                           /\ Held(impl[p], DeviceFields) # {} => inflight = {}
      /\ \A j \in Impls : j # impl[p] => heap'[j] = heap[j]
  BY <1>1, DeleteFacts
<1>3. PlanTypes'
  BY <1>1, <1>2 DEF Inv, PlanTypes
<1>4. /\ impl'[p] = Null
      /\ \A q \in alive' : q # p /\ q \in alive /\ q \in Plans /\ impl'[q] = impl[q]
                           /\ (impl[q] # Null => impl[q] # impl[p])
  BY <1>1 DEF Inv, PlanTypes, PlanInv
<1>5. PlanInv'
  <2>1. \A q \in Plans \ alive' : impl'[q] = Null
    BY <1>1 DEF Inv, PlanInv, PlanTypes
  <2>2. \A q, r \in alive' : q # r /\ impl'[q] # Null => impl'[q] # impl'[r]
    BY <1>4 DEF Inv, PlanInv
  <2>3. ASSUME NEW j \in Impls, j \notin Allocated', NEW f \in Fields
        PROVE  heap'[j].ptr[f] = Null
    <3>1. CASE j = impl[p]
      BY <1>2, <3>1, HeapFacts, PlanFacts DEF Inv
    <3>2. CASE j # impl[p]
      <4>1. j \notin Allocated
        BY <1>1, <1>4, <2>3, <3>2 DEF Allocated
      <4>. QED
        BY <1>2, <3>2, <4>1 DEF Inv, PlanInv
    <3>. QED
      BY <3>1, <3>2
  <2>. QED
    BY <2>1, <2>2, <2>3 DEF PlanInv
<1>6. CallInv'
  BY <1>1 DEF Idle, CallInv
<1>7. AllOrNothing'
  <2>1. ASSUME NEW q \in alive', impl'[q] # Null PROVE PlanOk(q)'
    <3>1. PlanOk(q)
      BY <1>1, <1>4, <2>1, AllOrNothingIsPlanOk DEF Inv, Idle
    <3>2. status'[q] = status[q] /\ heap'[impl[q]] = heap[impl[q]]
      BY <1>1, <1>2, <1>4, <2>1, HeapFacts DEF Inv
    <3>. QED
      BY <1>1, <1>4, <3>1, <3>2, PlanOkKept
  <2>. QED
    BY <2>1 DEF AllOrNothing, PlanOk
<1>8. KernelMemoryLives'
  <2>1. ASSUME NEW j \in Allocated, inflight # {}, Held(j, DeviceFields) # {}
        PROVE  /\ j \in Allocated'
               /\ \A f \in DeviceFields : heap[j].ptr[f] # Null => heap'[j].ptr[f] = heap[j].ptr[f]
    <3>1. j \in Impls /\ j # Null
      BY HeapFacts DEF Inv, Allocated
    <3>2. j # impl[p]
      BY <1>2, <2>1, <3>1
    <3>3. j \in Allocated'
      BY <1>1, <1>4, <3>1, <3>2 DEF Allocated
    <3>. QED
      BY <1>2, <3>1, <3>2, <3>3
  <2>. QED
    BY <1>1, <1>2, <1>3, <2>1, KernelsKeep DEF Inv
<1>. QED
  BY <1>2, <1>3, <1>5, <1>6, <1>7, <1>8 DEF Inv

LEMMA MoveConstructKeeps ==
  ASSUME Inv, NEW p \in Plans, NEW q \in Plans, MoveConstruct(p, q)
  PROVE  Inv'
<1>1. /\ call = Idle /\ p \notin alive /\ q \in alive /\ alive' = alive \cup {p}
      /\ impl' = [impl EXCEPT ![p] = impl[q], ![q] = Null]
      /\ status' = [status EXCEPT ![p] = status[q], ![q] = "none"]
      /\ kind' = kind /\ heap' = heap /\ live' = live /\ call' = call /\ inflight' = inflight
  BY DEF MoveConstruct
<1>2. /\ p # q /\ impl'[p] = impl[q] /\ impl'[q] = Null /\ status'[p] = status[q]
      /\ \A r \in Plans : r # p /\ r # q => impl'[r] = impl[r] /\ status'[r] = status[r]
  BY <1>1 DEF Inv, PlanTypes
<1>3. PlanTypes' /\ PtrInv'
  BY <1>1, PtrKept DEF Inv, PlanTypes
<1>4. Allocated' = Allocated
  <2>1. \A r \in alive : r \in Plans /\ r # p
    BY <1>1 DEF Inv, PlanTypes
  <2>2. ASSUME NEW i \in Allocated' PROVE i \in Allocated
    <3>1. PICK r \in alive' : impl'[r] = i /\ i # Null
      BY DEF Allocated
    <3>2. CASE r = p
      BY <1>1, <1>2, <3>1, <3>2 DEF Allocated
    <3>3. CASE r # p
      <4>1. r \in alive /\ r # q
        BY <1>1, <1>2, <3>1, <3>3
      <4>2. impl[r] = i
        BY <1>2, <2>1, <3>1, <3>3, <4>1
      <4>. QED
        BY <3>1, <4>1, <4>2 DEF Allocated
    <3>. QED
      BY <3>2, <3>3
  <2>3. ASSUME NEW i \in Allocated PROVE i \in Allocated'
    <3>1. PICK r \in alive : impl[r] = i /\ i # Null
      BY DEF Allocated
    <3>2. CASE r = q
      <4>1. p \in alive' /\ impl'[p] = i
        BY <1>1, <1>2, <3>1, <3>2
      <4>. QED
        BY <3>1, <4>1 DEF Allocated
    <3>3. CASE r # q
      <4>1. r \in alive' /\ impl'[r] = i
        BY <1>1, <1>2, <2>1, <3>1, <3>3
      <4>. QED
        BY <3>1, <4>1 DEF Allocated
    <3>. QED
      BY <3>2, <3>3
  <2>. QED
    BY <2>2, <2>3
<1>5. PlanInv'
  <2>1. \A r \in Plans \ alive' : impl'[r] = Null
    BY <1>1, <1>2 DEF Inv, PlanInv
  <2>2. \A r, s \in alive' : r # s /\ impl'[r] # Null => impl'[r] # impl'[s]
    BY <1>1, <1>2 DEF Inv, PlanInv, PlanTypes
  <2>. QED
    BY <1>1, <1>4, <2>1, <2>2 DEF Inv, PlanInv
<1>6. CallInv'
  BY <1>1 DEF Idle, CallInv
<1>7. AllOrNothing'
  <2>1. ASSUME NEW r \in alive', impl'[r] # Null PROVE PlanOk(r)'
    <3>1. CASE r = p
      <4>1. PlanOk(q)
        BY <1>1, <1>2, <2>1, <3>1, AllOrNothingIsPlanOk DEF Inv, Idle
      <4>. QED
        BY <1>1, <1>2, <3>1, <4>1, PlanOkKept
    <3>2. CASE r # p
      <4>1. r \in alive /\ r # q /\ r \in Plans
        BY <1>1, <1>2, <2>1, <3>2 DEF Inv, PlanTypes
      <4>2. impl'[r] = impl[r] /\ status'[r] = status[r]
        BY <1>2, <3>2, <4>1
      <4>3. PlanOk(r)
        BY <1>1, <2>1, <4>1, <4>2, AllOrNothingIsPlanOk DEF Inv, Idle
      <4>. QED
        BY <1>1, <4>2, <4>3, PlanOkKept
    <3>. QED
      BY <3>1, <3>2
  <2>. QED
    BY <2>1 DEF AllOrNothing, PlanOk
<1>8. KernelMemoryLives'
  BY <1>1, <1>3, <1>4, KernelsKeep DEF Inv
<1>. QED
  BY <1>3, <1>5, <1>6, <1>7, <1>8 DEF Inv

LEMMA MoveAssignKeeps ==
  ASSUME Inv, NEW p \in Plans, NEW q \in Plans, MoveAssign(p, q)
  PROVE  Inv'
<1>1. /\ call = Idle /\ p \in alive /\ q \in alive /\ p # q /\ DeleteImpl(p) /\ alive' = alive
      /\ impl' = [impl EXCEPT ![p] = impl[q], ![q] = Null]
      /\ status' = [status EXCEPT ![p] = status[q], ![q] = "none"]
      /\ kind' = kind /\ call' = call /\ inflight' = inflight
  BY DEF MoveAssign
<1>2. /\ heap' \in [Impls -> ImplType] /\ live' \subseteq Blocks /\ PtrInv'
      /\ impl[p] # Null => /\ heap'[impl[p]] = EmptyImpl
                           /\ Held(impl[p], DeviceFields) # {} => inflight = {}
      /\ \A j \in Impls : j # impl[p] => heap'[j] = heap[j]
  BY <1>1, DeleteFacts
<1>3. PlanTypes'
  BY <1>1, <1>2 DEF Inv, PlanTypes
<1>4. /\ impl'[p] = impl[q] /\ impl'[q] = Null /\ status'[p] = status[q]
      /\ \A r \in alive : r # p /\ r # q => impl'[r] = impl[r] /\ status'[r] = status[r]
      /\ \A r \in alive : r \in Plans
                          /\ (r # p /\ impl[r] # Null => impl[r] # impl[p] /\ impl[r] \in Impls)
  BY <1>1 DEF Inv, PlanTypes, PlanInv
<1>9. ASSUME NEW j \in Allocated, j # impl[p]
      PROVE  j \in Allocated'
  <2>1. PICK r \in alive : impl[r] = j /\ j # Null
    BY DEF Allocated
  <2>2. CASE r = q
    <3>1. p \in alive' /\ impl'[p] = j
      BY <1>1, <1>4, <2>1, <2>2
    <3>. QED
      BY <2>1, <3>1 DEF Allocated
  <2>3. CASE r # q
    <3>1. r \in alive' /\ impl'[r] = j
      BY <1>1, <1>4, <1>9, <2>1, <2>3
    <3>. QED
      BY <2>1, <3>1 DEF Allocated
  <2>. QED
    BY <2>2, <2>3
<1>5. PlanInv'
  <2>1. \A r \in Plans \ alive' : impl'[r] = Null
    BY <1>1 DEF Inv, PlanInv, PlanTypes
  <2>. DEFINE from(r) == IF r = p THEN q ELSE r
  <2>2. ASSUME NEW r \in alive', NEW s \in alive', r # s, impl'[r] # Null
        PROVE  impl'[r] # impl'[s]
    <3>1. r # q /\ from(r) \in alive /\ impl'[r] = impl[from(r)]
      BY <1>1, <1>4, <2>2
    <3>2. CASE s = q
      BY <1>4, <2>2, <3>2
    <3>3. CASE s # q
      <4>1. from(s) \in alive /\ impl'[s] = impl[from(s)] /\ from(r) # from(s)
        BY <1>1, <1>4, <2>2, <3>1, <3>3
      <4>. QED
        BY <2>2, <3>1, <4>1 DEF Inv, PlanInv
    <3>. QED
      BY <3>2, <3>3
  <2>3. ASSUME NEW j \in Impls, j \notin Allocated', NEW f \in Fields
        PROVE  heap'[j].ptr[f] = Null
    <3>1. CASE j = impl[p]
      BY <1>2, <3>1, HeapFacts, PlanFacts DEF Inv
    <3>2. CASE j # impl[p]
      <4>1. j \notin Allocated
        BY <1>9, <2>3, <3>2
      <4>. QED
        BY <1>2, <3>2, <4>1 DEF Inv, PlanInv
    <3>. QED
      BY <3>1, <3>2
  <2>. QED
    BY <2>1, <2>2, <2>3 DEF PlanInv
<1>6. CallInv'
  BY <1>1 DEF Idle, CallInv
<1>7. AllOrNothing'
  <2>1. ASSUME NEW r \in alive', impl'[r] # Null PROVE PlanOk(r)'
    <3>1. CASE r = p
      <4>1. PlanOk(q) /\ heap'[impl[q]] = heap[impl[q]]
        BY <1>1, <1>2, <1>4, <2>1, <3>1, AllOrNothingIsPlanOk DEF Inv, Idle
      <4>. QED
        BY <1>1, <1>4, <3>1, <4>1, PlanOkKept
    <3>2. CASE r # p
      <4>1. r \in alive /\ r # q
        BY <1>1, <1>4, <2>1
      <4>2. impl'[r] = impl[r] /\ status'[r] = status[r] /\ heap'[impl[r]] = heap[impl[r]]
        BY <1>2, <1>4, <2>1, <3>2, <4>1
      <4>3. PlanOk(r)
        BY <1>1, <2>1, <4>1, <4>2, AllOrNothingIsPlanOk DEF Inv, Idle
      <4>. QED
        BY <1>1, <4>2, <4>3, PlanOkKept
    <3>. QED
      BY <3>1, <3>2
  <2>. QED
    BY <2>1 DEF AllOrNothing, PlanOk
<1>8. KernelMemoryLives'
  <2>1. ASSUME NEW j \in Allocated, inflight # {}, Held(j, DeviceFields) # {}
        PROVE  /\ j \in Allocated'
               /\ \A f \in DeviceFields : heap[j].ptr[f] # Null => heap'[j].ptr[f] = heap[j].ptr[f]
    <3>1. j \in Impls /\ j # Null
      BY HeapFacts DEF Inv, Allocated
    <3>2. j # impl[p]
      BY <1>2, <2>1, <3>1
    <3>3. j \in Allocated'
      BY <1>9, <2>1, <3>2
    <3>. QED
      BY <1>2, <3>1, <3>2, <3>3
  <2>. QED
    BY <1>1, <1>2, <1>3, <2>1, KernelsKeep DEF Inv
<1>. QED
  BY <1>2, <1>3, <1>5, <1>6, <1>7, <1>8 DEF Inv

------------------------------------------------------------------------------
(* initialize()                                                            *)

\* Where p is while its initialize() is under way.
LEMMA UnderWay ==
  ASSUME Inv, NEW p \in call.plan, call.at # "idle"
  PROVE  /\ call = [at |-> call.at, plan |-> {p}, step |-> call.step]
         /\ p \in alive /\ p \in Plans /\ impl[p] \in Impls /\ impl[p] # Null
         /\ impl[p] \in Allocated /\ ~heap[impl[p]].ready
         /\ call.at = "validate" =>
              /\ call.step = 1 /\ ~heap[impl[p]].active
              /\ \A f \in Fields : heap[impl[p]].ptr[f] = Null
         /\ call.at = "build" =>
              call.step \in 1 .. Len(Program) /\ heap[impl[p]].active /\ Built(impl[p])
         /\ \A q \in alive : q # p /\ impl[q] # Null => impl[q] # impl[p] /\ PlanOk(q)
<1>1. PICK q \in alive :
       /\ call = [at |-> call.at, plan |-> {q}, step |-> call.step]
       /\ impl[q] # Null /\ ~heap[impl[q]].ready
       /\ call.at = "validate" =>
            /\ call.step = 1 /\ ~heap[impl[q]].active
            /\ \A f \in Fields : heap[impl[q]].ptr[f] = Null
       /\ call.at = "build" =>
            call.step \in 1 .. Len(Program) /\ heap[impl[q]].active /\ Built(impl[q])
  BY DEF Inv, CallInv
<1>2. call.plan = {q}
  BY <1>1
<1>3. q = p
  BY <1>2
<1>4. impl[p] \in Impls /\ impl[p] \in Allocated /\ p \in Plans
  BY <1>1, <1>3, HeapFacts DEF Inv, Allocated
<1>5. \A r \in alive : r # p /\ impl[r] # Null => impl[r] # impl[p] /\ PlanOk(r)
  BY <1>1, <1>2, <1>3, AllOrNothingIsPlanOk DEF Inv, PlanInv
<1>. QED
  BY <1>1, <1>3, <1>4, <1>5

\* A step of initialize() works on p's Impl alone.  What is left to show of each.
LEMMA InitializeStep ==
  ASSUME Inv, NEW p \in alive, impl[p] # Null, alive' = alive, impl' = impl, kind' = kind,
         inflight' = inflight, heap' \in [Impls -> ImplType], PtrInv',
         \A j \in Impls \ {impl[p]} : heap'[j] = heap[j],
         status' \in [Plans -> {"none", "failed", "success"}],
         \A q \in Plans \ {p} : status'[q] = status[q],
         inflight = {} \/ \A f \in DeviceFields :
           heap[impl[p]].ptr[f] # Null => heap'[impl[p]].ptr[f] = heap[impl[p]].ptr[f],
         live' \subseteq Blocks, CallInv', p \notin call'.plan => PlanOk(p)',
         \A q \in alive \ {p} : impl[q] # Null => PlanOk(q)
  PROVE  Inv'
<1>1. PlanTypes'
  BY DEF Inv, PlanTypes
<1>2. Allocated' = Allocated
  BY DEF Allocated
<1>3. impl[p] \in Allocated /\ impl[p] \in Impls
  BY HeapFacts DEF Inv, Allocated
<1>4. PlanInv'
  BY <1>2, <1>3 DEF Inv, PlanInv
<1>5. AllOrNothing'
  <2>1. ASSUME NEW q \in alive', impl'[q] # Null, q \notin call'.plan PROVE PlanOk(q)'
    <3>1. CASE q = p
      BY <2>1, <3>1
    <3>2. CASE q # p
      <4>1. impl[q] # impl[p] /\ impl[q] \in Impls /\ q \in Plans /\ PlanOk(q)
        BY <2>1, <3>2, HeapFacts DEF Inv, PlanInv
      <4>2. heap'[impl[q]] = heap[impl[q]] /\ status'[q] = status[q] /\ impl'[q] = impl[q]
        BY <3>2, <4>1
      <4>. QED
        BY <4>1, <4>2, PlanOkKept
    <3>. QED
      BY <3>1, <3>2
  <2>. QED
    BY <2>1 DEF AllOrNothing, PlanOk
<1>6. KernelMemoryLives'
  <2>1. CASE inflight = {}
    BY <2>1, NoKernels
  <2>2. CASE inflight # {}
    <3>1. \A j \in Allocated : j \in Impls
      BY HeapFacts DEF Inv, Allocated
    <3>2. \A j \in Allocated : \A f \in DeviceFields :
            heap[j].ptr[f] # Null => heap'[j].ptr[f] = heap[j].ptr[f]
      BY <2>2, <3>1
    <3>. QED
      BY <1>1, <1>2, <3>2, KernelsKeep DEF Inv
  <2>. QED
    BY <2>1, <2>2
<1>. QED
  BY <1>1, <1>4, <1>5, <1>6 DEF Inv

LEMMA EnterKeeps ==
  ASSUME Inv, NEW p \in Plans, Enter(p)
  PROVE  Inv'
<1>1. /\ call = Idle /\ p \in alive /\ call' = [at |-> "validate", plan |-> {p}, step |-> 1]
      /\ kind' = kind /\ alive' = alive /\ status' = status /\ inflight' = inflight
  BY DEF Enter
<1>2. \A q \in alive : impl[q] # Null => PlanOk(q)
  BY <1>1, AllOrNothingIsPlanOk DEF Inv, Idle
<1>3. CASE impl[p] = Null
  <2>. DEFINE i == Fresh(Allocated, Impls)
  <2>1. /\ impl' = [impl EXCEPT ![p] = i]
        /\ heap' = [heap EXCEPT ![i] = EmptyImpl] /\ live' = live
    BY <1>3 DEF Enter, Inv, PlanTypes
  <2>2. i \in Impls /\ i \notin Allocated /\ i # Null
    BY <1>3, FreshImpl, PlanFacts DEF Inv
  <2>. HIDE DEF i
  <2>3. PlanTypes'
    BY <1>1, <2>1, <2>2, HeapFacts DEF Inv, PlanTypes
  <2>4. \A f \in Fields : heap[i].ptr[f] = Null
    BY <2>2 DEF Inv, PlanInv
  <2>5. \A j \in Impls : \A f \in Fields : heap'[j].ptr[f] = heap[j].ptr[f]
    BY <2>1, <2>2, <2>4, HeapFacts DEF Inv, PlanTypes
  <2>6. PtrInv'
    BY <2>1, <2>5, PtrKept DEF Inv
  <2>7. /\ impl'[p] = i
        /\ \A q \in alive : q # p => q \in Plans /\ impl'[q] = impl[q] /\ impl[q] # i
    BY <1>1, <2>1, <2>2 DEF Inv, PlanTypes, Allocated
  <2>8. Allocated' = Allocated \cup {i}
    BY <1>1, <1>3, <2>2, <2>7 DEF Allocated
  <2>9. PlanInv'
    <3>1. \A q \in Plans \ alive' : impl'[q] = Null
      BY <1>1, <2>1 DEF Inv, PlanInv, PlanTypes
    <3>2. \A q, r \in alive' : q # r /\ impl'[q] # Null => impl'[q] # impl'[r]
      BY <1>1, <2>7 DEF Inv, PlanInv
    <3>3. \A j \in Impls \ Allocated' : \A f \in Fields : heap'[j].ptr[f] = Null
      BY <2>5, <2>8 DEF Inv, PlanInv
    <3>. QED
      BY <3>1, <3>2, <3>3 DEF PlanInv
  <2>10. heap'[i] = EmptyImpl
    BY <2>1, <2>2 DEF Inv, PlanTypes
  <2>11. CallInv'
    BY <1>1, <2>2, <2>7, <2>10, HeapFacts DEF Inv, CallInv
  <2>12. AllOrNothing'
    <3>1. ASSUME NEW q \in alive', impl'[q] # Null, q \notin call'.plan PROVE PlanOk(q)'
      <4>1. q \in alive /\ q # p
        BY <1>1, <3>1
      <4>2. impl'[q] = impl[q] /\ impl[q] \in Impls /\ impl[q] # i
        BY <2>7, <3>1, <4>1, HeapFacts DEF Inv
      <4>3. heap'[impl[q]] = heap[impl[q]]
        BY <2>1, <4>2 DEF Inv, PlanTypes
      <4>. QED
        BY <1>1, <1>2, <3>1, <4>1, <4>2, <4>3, PlanOkKept
    <3>. QED
      BY <3>1 DEF AllOrNothing, PlanOk
  <2>13. KernelMemoryLives'
    <3>1. \A j \in Allocated : \A f \in DeviceFields : heap'[j].ptr[f] = heap[j].ptr[f]
      BY <2>5, HeapFacts, PlanFacts DEF Inv, Allocated
    <3>. QED
      BY <1>1, <2>3, <2>6, <2>8, <3>1, KernelsKeep DEF Inv
  <2>. QED
    BY <2>3, <2>6, <2>9, <2>11, <2>12, <2>13 DEF Inv
<1>4. CASE impl[p] # Null
  <2>1. /\ live' = live \ Held(impl[p], Fields)
        /\ heap' = [heap EXCEPT ![impl[p]] = Released(impl[p])]
        /\ impl' = impl /\ (Held(impl[p], DeviceFields) # {} => inflight = {})
    BY <1>4 DEF Enter, MayFree
  <2>2. impl[p] \in Impls
    BY <1>4, HeapFacts DEF Inv
  <2>3. /\ Released(impl[p]) \in ImplType /\ ~Released(impl[p]).ready
        /\ ~Released(impl[p]).active /\ \A f \in Fields : Released(impl[p]).ptr[f] = Null
    BY <2>2, HeapFacts DEF Inv, Released, EmptyImpl, ImplType
  <2>4. /\ heap' \in [Impls -> ImplType] /\ heap'[impl[p]] = Released(impl[p])
        /\ \A j \in Impls \ {impl[p]} : heap'[j] = heap[j]
    BY <2>1, <2>2, <2>3 DEF Inv, PlanTypes
  <2>5. PtrInv'
    BY <2>1, <2>2, <2>3, <2>4, ImplFreed DEF Inv
  <2>6. CallInv'
    <3>1. /\ call'.at = "validate" /\ call'.step = 1
          /\ call' = [at |-> call'.at, plan |-> {p}, step |-> call'.step]
      BY <1>1
    <3>2. /\ impl'[p] # Null /\ ~heap'[impl'[p]].ready /\ ~heap'[impl'[p]].active
          /\ \A f \in Fields : heap'[impl'[p]].ptr[f] = Null /\ p \in alive'
      BY <1>1, <1>4, <2>1, <2>3, <2>4
    <3>. QED
      BY <3>1, <3>2, <1>1 DEF CallInv
  <2>7. inflight = {} \/ \A f \in DeviceFields : heap[impl[p]].ptr[f] = Null
    BY <2>1, HeldNothing
  <2>8. status' \in [Plans -> {"none", "failed", "success"}] /\ live' \subseteq Blocks
    BY <1>1, <2>1 DEF Inv, PlanTypes
  <2>. QED
    BY <1>1, <1>2, <1>4, <2>1, <2>4, <2>5, <2>6, <2>7, <2>8, InitializeStep
<1>. QED
  BY <1>3, <1>4

LEMMA RejectKeeps ==
  ASSUME Inv, NEW p \in Plans, Reject(p)
  PROVE  Inv'
<1>1. /\ call.at = "validate" /\ p \in call.plan
      /\ call' = Idle /\ status' = [status EXCEPT ![p] = "failed"]
      /\ kind' = kind /\ impl' = impl /\ alive' = alive /\ heap' = heap /\ live' = live
      /\ inflight' = inflight
  BY DEF Reject, Return
<1>2. /\ p \in alive /\ impl[p] # Null /\ ~heap[impl[p]].ready
      /\ \A f \in Fields : heap[impl[p]].ptr[f] = Null
      /\ \A q \in alive : q # p /\ impl[q] # Null => PlanOk(q)
  BY <1>1, UnderWay
<1>3. /\ status' \in [Plans -> {"none", "failed", "success"}] /\ status'[p] = "failed"
      /\ \A q \in Plans \ {p} : status'[q] = status[q]
  BY <1>1 DEF Inv, PlanTypes
<1>4. PtrInv' /\ CallInv' /\ heap' \in [Impls -> ImplType] /\ live' \subseteq Blocks
  BY <1>1, PtrKept DEF Inv, PlanTypes, CallInv, Idle
<1>5. PlanOk(p)'
  BY <1>1, <1>2, <1>3, PlanOkEmpty
<1>. QED
  BY <1>1, <1>2, <1>3, <1>4, <1>5, InitializeStep

LEMMA NothingActiveKeeps ==
  ASSUME Inv, NEW p \in Plans, NothingActive(p)
  PROVE  Inv'
<1>1. /\ call.at = "validate" /\ p \in call.plan
      /\ call' = Idle /\ status' = [status EXCEPT ![p] = "success"]
      /\ heap' = [heap EXCEPT ![impl[p]].ready = TRUE]
      /\ kind' = kind /\ impl' = impl /\ alive' = alive /\ live' = live
      /\ inflight' = inflight
  BY DEF NothingActive, Return
<1>2. /\ p \in alive /\ impl[p] # Null /\ impl[p] \in Impls /\ ~heap[impl[p]].active
      /\ \A f \in Fields : heap[impl[p]].ptr[f] = Null
      /\ \A q \in alive : q # p /\ impl[q] # Null => PlanOk(q)
  BY <1>1, UnderWay
<1>3. /\ status' \in [Plans -> {"none", "failed", "success"}] /\ status'[p] = "success"
      /\ \A q \in Plans \ {p} : status'[q] = status[q]
  BY <1>1 DEF Inv, PlanTypes
<1>4. /\ heap' \in [Impls -> ImplType] /\ heap'[impl[p]] = [heap[impl[p]] EXCEPT !.ready = TRUE]
      /\ \A j \in Impls \ {impl[p]} : heap'[j] = heap[j]
  <2>1. heap \in [Impls -> ImplType] /\ heap[impl[p]] \in ImplType
    BY <1>2 DEF Inv, PlanTypes
  <2>2. [heap[impl[p]] EXCEPT !.ready = TRUE] \in ImplType
    BY <2>1 DEF ImplType
  <2>3. heap' = [heap EXCEPT ![impl[p]] = [heap[impl[p]] EXCEPT !.ready = TRUE]]
    BY <1>1
  <2>. QED
    BY <1>2, <2>1, <2>2, <2>3
<1>5. heap'[impl[p]].ptr = heap[impl[p]].ptr /\ heap'[impl[p]].ready
      /\ ~heap'[impl[p]].active
  BY <1>2, <1>4, HeapFacts DEF Inv, ImplType
<1>6. PtrInv'
  BY <1>1, <1>4, <1>5, PtrKept DEF Inv
<1>7. CallInv' /\ live' \subseteq Blocks
  BY <1>1 DEF Inv, PlanTypes, CallInv, Idle
<1>8. PlanOk(p)'
  BY <1>1, <1>2, <1>3, <1>5 DEF PlanOk, Held
<1>. QED
  BY <1>1, <1>2, <1>3, <1>4, <1>5, <1>6, <1>7, <1>8, InitializeStep

LEMMA AcceptKeeps ==
  ASSUME Inv, NEW p \in Plans, Accept(p)
  PROVE  Inv'
<1>1. /\ call.at = "validate" /\ p \in call.plan
      /\ call' = [call EXCEPT !.at = "build"] /\ status' = status
      /\ heap' = [heap EXCEPT ![impl[p]].active = TRUE]
      /\ kind' = kind /\ impl' = impl /\ alive' = alive /\ live' = live
      /\ inflight' = inflight
  BY DEF Accept
<1>2. /\ p \in alive /\ impl[p] # Null /\ impl[p] \in Impls /\ ~heap[impl[p]].ready
      /\ call = [at |-> call.at, plan |-> {p}, step |-> call.step] /\ call.step = 1
      /\ \A f \in Fields : heap[impl[p]].ptr[f] = Null
      /\ \A q \in alive : q # p /\ impl[q] # Null => PlanOk(q)
  BY <1>1, UnderWay
<1>3. /\ heap' \in [Impls -> ImplType]
      /\ heap'[impl[p]] = [heap[impl[p]] EXCEPT !.active = TRUE]
      /\ \A j \in Impls \ {impl[p]} : heap'[j] = heap[j]
  <2>1. heap \in [Impls -> ImplType] /\ heap[impl[p]] \in ImplType
    BY <1>2 DEF Inv, PlanTypes
  <2>2. [heap[impl[p]] EXCEPT !.active = TRUE] \in ImplType
    BY <2>1 DEF ImplType
  <2>3. heap' = [heap EXCEPT ![impl[p]] = [heap[impl[p]] EXCEPT !.active = TRUE]]
    BY <1>1
  <2>. QED
    BY <1>2, <2>1, <2>2, <2>3
<1>4. heap'[impl[p]].ptr = heap[impl[p]].ptr /\ ~heap'[impl[p]].ready
      /\ heap'[impl[p]].active
  BY <1>2, <1>3, HeapFacts DEF Inv, ImplType
<1>5. PtrInv'
  BY <1>1, <1>3, <1>4, PtrKept DEF Inv
<1>6. call' = [at |-> "build", plan |-> {p}, step |-> 1]
  <2>1. call = [at |-> "validate", plan |-> {p}, step |-> 1]
    BY <1>1, <1>2
  <2>2. call' = [[at |-> "validate", plan |-> {p}, step |-> 1] EXCEPT !.at = "build"]
    BY <1>1, <2>1
  <2>. QED
    BY <2>2
<1>7. Program' = Program /\ Len(Program) \in Nat /\ Len(Program) >= 4
  BY <1>1, ProgramFacts DEF Program, Inv, PlanTypes
<1>8. Built(impl[p])'
  <2>1. ASSUME NEW n \in 1 .. Len(Program), IsAlloc(n)
        PROVE  n >= call'.step /\ heap'[impl'[p]].ptr[Program[n].field] = Null
    <3>1. Program[n].field \in Fields
      BY <2>1, ProgramFacts, PlanFacts, StepParts DEF IsAlloc, Inv, PlanTypes
    <3>. QED
      BY <1>1, <1>2, <1>4, <1>6, <3>1
  <2>2. Program' = Program /\ impl' = impl
    BY <1>1, <1>7
  <2>. QED
    BY <2>1, <2>2, <1>6 DEF Built, IsAlloc
<1>9. CallInv'
  <2>1. call'.at = "build" /\ call'.step = 1 /\ call'.plan = {p}
    BY <1>6
  <2>2. call'.step \in 1 .. Len(Program')
    BY <1>7, <2>1
  <2>. QED
    BY <1>1, <1>2, <1>4, <1>6, <1>8, <2>1, <2>2 DEF CallInv
<1>10. status' \in [Plans -> {"none", "failed", "success"}] /\ live' \subseteq Blocks
       /\ p \in call'.plan
  BY <1>1, <1>6 DEF Inv, PlanTypes
<1>. QED
  BY <1>1, <1>2, <1>3, <1>4, <1>5, <1>9, <1>10, InitializeStep

\* Some lemmas about the step of the build at hand.
LEMMA CallRecord ==
  ASSUME Inv, NEW p \in call.plan, call.at # "idle", NEW a
  PROVE  /\ [call EXCEPT !.at = a] = [at |-> a, plan |-> {p}, step |-> call.step]
         /\ [call EXCEPT !.step = @ + 1] = [at |-> call.at, plan |-> {p}, step |-> call.step + 1]
<1>. DEFINE t == call.at
            n == call.step
<1>1. call = [at |-> t, plan |-> {p}, step |-> n]
  BY UnderWay
<1>. HIDE DEF t, n
<1>2. /\ [[at |-> t, plan |-> {p}, step |-> n] EXCEPT !.at = a]
           = [at |-> a, plan |-> {p}, step |-> n]
      /\ [[at |-> t, plan |-> {p}, step |-> n] EXCEPT !.step = @ + 1]
           = [at |-> t, plan |-> {p}, step |-> n + 1]
  OBVIOUS
<1>3. /\ [call EXCEPT !.at = a] = [at |-> a, plan |-> {p}, step |-> n]
      /\ [call EXCEPT !.step = @ + 1] = [at |-> t, plan |-> {p}, step |-> n + 1]
  BY <1>1, <1>2
<1>. QED
  BY <1>3 DEF t, n

\* An initialisation that goes on: what its invariant says once the step is taken.
LEMMA BuildGoesOn ==
  ASSUME Inv, NEW p \in alive, call.at = "build", call.step \in 1 .. Len(Program) - 1,
         call' = [at |-> "build", plan |-> {p}, step |-> call.step + 1],
         kind' = kind, impl' = impl, alive' = alive, impl[p] # Null,
         ~heap'[impl[p]].ready, heap'[impl[p]].active,
         \A n \in 1 .. Len(Program) : IsAlloc(n) =>
           /\ n > call.step => heap'[impl[p]].ptr[Program[n].field] = Null
           /\ n <= call.step /\ Program[n].field \in Arrays =>
                heap'[impl[p]].ptr[Program[n].field] # Null
  PROVE  CallInv'
<1>. DEFINE c == call.step
<1>1. Program' = Program /\ Len(Program) \in Nat
  BY ProgramFacts DEF Program, Inv, PlanTypes
<1>2. /\ call'.at = "build" /\ call'.step = c + 1
      /\ call' = [at |-> call'.at, plan |-> {p}, step |-> call'.step]
  OBVIOUS
<1>3. c + 1 \in 1 .. Len(Program) /\ \A n \in 1 .. Len(Program) :
        (n >= c + 1 => n > c) /\ (n < c + 1 => n <= c)
  BY <1>1
<1>4. Built(impl[p])'
  <2>1. \A n \in 1 .. Len(Program) : IsAlloc(n) =>
           /\ n >= call'.step => heap'[impl[p]].ptr[Program[n].field] = Null
           /\ n < call'.step /\ Program[n].field \in Arrays =>
                heap'[impl[p]].ptr[Program[n].field] # Null
    BY <1>2, <1>3
  <2>. QED
    BY <1>1, <2>1 DEF Built, IsAlloc
<1>. HIDE DEF c
<1>. QED
  BY <1>1, <1>2, <1>3, <1>4 DEF CallInv

LEMMA SucceedKeeps ==
  ASSUME Inv, NEW p \in Plans, Succeed(p)
  PROVE  Inv'
<1>. DEFINE i == impl[p]
            n == call.step
            s == Program[n]
            L == Len(Program)
            block == Fresh(live, Blocks)
<1>1. /\ call.at = "build" /\ p \in call.plan
      /\ \/ /\ s.op \in {"malloc", "new"}
            /\ live' = live \cup {block}
            /\ heap' = [heap EXCEPT ![i].ptr[s.field] = block]
         \/ /\ s.op \in {"check", "copy"} \/ s.field = Workspace
            /\ live' = live /\ heap' = heap
         \/ /\ s.op = "setup"
            /\ heap' = [heap EXCEPT ![i].params = Held(i, DeviceFields), ![i].ready = TRUE]
            /\ live' = live
      /\ IF n = L THEN call' = Idle /\ status' = [status EXCEPT ![p] = "success"]
         ELSE call' = [call EXCEPT !.step = @ + 1] /\ status' = status
      /\ kind' = kind /\ impl' = impl /\ alive' = alive /\ inflight' = inflight
  BY DEF Succeed, Return
<1>2. /\ p \in alive /\ i # Null /\ i \in Impls /\ ~heap[i].ready /\ heap[i].active
      /\ n \in 1 .. L /\ Built(i)
      /\ \A q \in alive : q # p /\ impl[q] # Null => PlanOk(q)
  BY <1>1, UnderWay
<1>3. L \in Nat /\ Program[L] = Step("setup", Null)
  BY ProgramFacts DEF Inv, PlanTypes
<1>4. \A m \in 1 .. L : IsAlloc(m) => Program[m].field \in Fields
  BY ProgramFacts, PlanFacts, StepParts DEF IsAlloc, Inv, PlanTypes
<1>5. \A m \in 1 .. L : IsAlloc(m) =>
        /\ m >= n => heap[i].ptr[Program[m].field] = Null
        /\ m < n /\ Program[m].field \in Arrays => heap[i].ptr[Program[m].field] # Null
  BY <1>2 DEF Built
<1>6. n < L => call' = [at |-> "build", plan |-> {p}, step |-> n + 1] /\ status' = status
  <2>1. [call EXCEPT !.step = @ + 1] = [at |-> call.at, plan |-> {p}, step |-> call.step + 1]
    <3>1. call.at # "idle"
      BY <1>1
    <3>. QED
      BY <1>1, <3>1, CallRecord
  <2>2. n < L => n # L
    BY <1>2, <1>3
  <2>. HIDE DEF L
  <2>. QED
    BY <1>1, <2>1, <2>2
<1>7. live \subseteq Blocks /\ status \in [Plans -> {"none", "failed", "success"}]
      /\ heap \in [Impls -> ImplType]
  BY DEF Inv, PlanTypes
<1>. HIDE DEF n, L, s, i, block
<1>8. CASE n < L /\ s.op \in {"malloc", "new"} /\ live' = live \cup {block}
           /\ heap' = [heap EXCEPT ![i].ptr[s.field] = block]
  <2>. DEFINE f == s.field
  <2>1. IsAlloc(n) /\ f \in Fields /\ heap[i].ptr[f] = Null
    <3>1. IsAlloc(n)
      BY <1>8 DEF IsAlloc, s
    <3>. QED
      BY <1>2, <1>4, <1>5, <3>1, <1>3 DEF s
  <2>2. block \in Blocks /\ block \notin live /\ block # Null
    BY <1>2, <2>1, FreshBlock, PlanFacts DEF Inv, i, block
  <2>. HIDE DEF f
  <2>3. /\ heap' \in [Impls -> ImplType] /\ \A j \in Impls \ {i} : heap'[j] = heap[j]
        /\ heap'[i].ptr[f] = block /\ \A g \in Fields \ {f} : heap'[i].ptr[g] = heap[i].ptr[g]
        /\ heap'[i].ready = heap[i].ready /\ heap'[i].active = heap[i].active
    <3>1. heap' = [heap EXCEPT ![i].ptr[f] = block]
      BY <1>8 DEF f
    <3>. QED
      BY <1>2, <1>7, <2>1, <2>2, <3>1 DEF ImplType
  <2>4. PtrInv'
    BY <1>2, <1>8, <2>1, <2>2, <2>3, PtrSet DEF Inv
  <2>5. ASSUME NEW m \in 1 .. L, IsAlloc(m)
        PROVE  /\ m > n => heap'[i].ptr[Program[m].field] = Null
               /\ m <= n /\ Program[m].field \in Arrays => heap'[i].ptr[Program[m].field] # Null
    <3>1. CASE m = n
      BY <1>2, <1>3, <2>2, <2>3, <3>1 DEF f, s
    <3>2. CASE m # n
      <4>1. Program[m].field # f
        BY <1>2, <2>1, <2>5, <3>2, ProgramFacts DEF Inv, PlanTypes, L, f, s
      <4>2. heap'[i].ptr[Program[m].field] = heap[i].ptr[Program[m].field]
        BY <1>4, <2>3, <2>5, <4>1
      <4>3. (m > n => m >= n) /\ (m <= n => m < n)
        BY <1>2, <1>3, <3>2
      <4>. QED
        BY <1>5, <2>5, <4>2, <4>3
    <3>. QED
      BY <3>1, <3>2
  <2>6. CallInv'
    <3>1. n \in 1 .. L - 1
      BY <1>2, <1>3, <1>8
    <3>2. ~heap'[i].ready /\ heap'[i].active
      BY <1>2, <2>3
    <3>. QED
      BY <1>1, <1>2, <1>6, <1>8, <2>5, <3>1, <3>2, BuildGoesOn DEF n, L, i
  <2>7. inflight = {} \/ \A g \in DeviceFields :
          heap[i].ptr[g] # Null => heap'[i].ptr[g] = heap[i].ptr[g]
    BY <2>1, <2>3, PlanFacts
  <2>8. p \in call'.plan /\ status' = status /\ live' \subseteq Blocks
    BY <1>6, <1>7, <1>8, <2>2
  <2>. QED
    BY <1>1, <1>2, <1>7, <2>3, <2>4, <2>6, <2>7, <2>8, InitializeStep DEF i
<1>9. CASE n < L /\ (s.op \in {"check", "copy"} \/ s.field = Workspace)
           /\ live' = live /\ heap' = heap
  <2>1. ASSUME NEW m \in 1 .. L, IsAlloc(m)
        PROVE  /\ m > n => heap'[i].ptr[Program[m].field] = Null
               /\ m <= n /\ Program[m].field \in Arrays => heap'[i].ptr[Program[m].field] # Null
    <3>1. CASE m = n
      <4>1. Program[m].field \notin Arrays
        BY <1>9, <2>1, <3>1, PlanFacts DEF IsAlloc, s
      <4>2. ~(m > n)
        BY <1>2, <1>3, <3>1
      <4>. QED
        BY <4>1, <4>2
    <3>2. CASE m # n
      <4>1. (m > n => m >= n) /\ (m <= n => m < n)
        BY <1>2, <1>3, <3>2
      <4>. QED
        BY <1>5, <1>9, <2>1, <4>1
    <3>. QED
      BY <3>1, <3>2
  <2>2. CallInv'
    <3>1. n \in 1 .. L - 1
      BY <1>2, <1>3, <1>9
    <3>2. ~heap'[i].ready /\ heap'[i].active
      BY <1>2, <1>9
    <3>. QED
      BY <1>1, <1>2, <1>6, <1>9, <2>1, <3>1, <3>2, BuildGoesOn DEF n, L, i
  <2>3. p \in call'.plan /\ status' = status /\ live' \subseteq Blocks
    BY <1>6, <1>7, <1>9
  <2>4. PtrInv'
    BY <1>9, PtrKept DEF Inv
  <2>. QED
    BY <1>1, <1>2, <1>7, <1>9, <2>2, <2>3, <2>4, InitializeStep DEF i
<1>10. CASE n = L
  <2>1. s.op = "setup" /\ s.field # Workspace
    BY <1>3, <1>10, StepParts, PlanFacts DEF s
  <2>2. /\ heap' = [heap EXCEPT ![i].params = Held(i, DeviceFields), ![i].ready = TRUE]
        /\ live' = live
    BY <1>1, <2>1
  <2>3. Held(i, DeviceFields) \in SUBSET Blocks
    BY <1>2, HeapFacts, PlanFacts DEF Held, Inv
  <2>4. /\ heap' \in [Impls -> ImplType] /\ \A j \in Impls \ {i} : heap'[j] = heap[j]
        /\ heap'[i].ptr = heap[i].ptr /\ heap'[i].params = Held(i, DeviceFields)
    <3>. DEFINE H == Held(i, DeviceFields)
    <3>. HIDE DEF H
    <3>1. H \in SUBSET Blocks /\ heap' = [heap EXCEPT ![i].params = H, ![i].ready = TRUE]
      BY <2>2, <2>3 DEF H
    <3>2. /\ heap' \in [Impls -> ImplType] /\ \A j \in Impls \ {i} : heap'[j] = heap[j]
          /\ heap'[i].ptr = heap[i].ptr /\ heap'[i].params = H
      BY <1>2, <1>7, <3>1 DEF ImplType
    <3>. QED
      BY <3>2 DEF H
  <2>5. heap'[i].ready /\ heap'[i].active
    BY <1>2, <1>7, <2>2 DEF ImplType
  <2>6. PtrInv'
    BY <1>2, <2>2, <2>4, PtrKept DEF Inv
  <2>7. /\ call' = Idle /\ status' \in [Plans -> {"none", "failed", "success"}]
        /\ status'[p] = "success" /\ \A q \in Plans \ {p} : status'[q] = status[q]
    BY <1>1, <1>7, <1>10
  <2>8. PlanOk(p)'
    <3>1. ASSUME kind = "grouped", NEW f \in Arrays PROVE heap'[i].ptr[f] # Null
      <4>1. PICK m \in 1 .. L : m < L /\ IsAlloc(m) /\ Program[m].field = f
        BY <3>1, ProgramFacts DEF L
      <4>. QED
        BY <1>5, <1>10, <2>4, <4>1
    <3>2. Held(i, DeviceFields)' = Held(i, DeviceFields)
      BY <1>1, <2>4 DEF Held, i
    <3>. QED
      BY <1>1, <2>4, <2>5, <2>7, <3>1, <3>2 DEF PlanOk, i, Held
  <2>9. CallInv'
    BY <2>7 DEF CallInv, Idle
  <2>10. live' \subseteq Blocks
    BY <1>7, <2>2
  <2>. QED
    BY <1>1, <1>2, <2>4, <2>6, <2>7, <2>8, <2>9, <2>10, InitializeStep DEF i
<1>11. n < L => s.op # "setup"
  <2>1. n \in 1 .. Len(Program)
    BY <1>2 DEF L
  <2>. QED
    BY <2>1, ProgramFacts, StepParts DEF Inv, PlanTypes, L, s
<1>12. n < L \/ n = L
  BY <1>2, <1>3
<1>. QED
  BY <1>1, <1>8, <1>9, <1>10, <1>11, <1>12

LEMMA FailKeeps ==
  ASSUME Inv, NEW p \in Plans, Fail(p)
  PROVE  Inv'
<1>. DEFINE i == impl[p]
            s == Program[call.step]
<1>1. /\ call.at = "build" /\ p \in call.plan
      /\ IF s.op = "copy"
         THEN /\ inflight = {} /\ live' = live \ {heap[i].ptr[s.field]}
              /\ heap' = [heap EXCEPT ![i].ptr[s.field] = Null]
         ELSE live' = live /\ heap' = heap
      /\ call' = [call EXCEPT !.at = "cleanup"]
      /\ kind' = kind /\ impl' = impl /\ alive' = alive /\ status' = status
      /\ inflight' = inflight
  BY DEF Fail
<1>2. /\ p \in alive /\ i # Null /\ i \in Impls /\ ~heap[i].ready
      /\ call.step \in 1 .. Len(Program)
      /\ \A q \in alive : q # p /\ impl[q] # Null => PlanOk(q)
  BY <1>1, UnderWay
<1>3. call' = [at |-> "cleanup", plan |-> {p}, step |-> call.step]
  <2>1. call.at # "idle"
    BY <1>1
  <2>2. [call EXCEPT !.at = "cleanup"] = [at |-> "cleanup", plan |-> {p}, step |-> call.step]
    BY <1>1, <2>1, CallRecord
  <2>. QED
    BY <1>1, <2>2
<1>4. s.op = "copy" => s.field \in Fields
  BY <1>2, ProgramFacts, PlanFacts, StepParts DEF Inv, PlanTypes
<1>5. live \subseteq Blocks /\ status \in [Plans -> {"none", "failed", "success"}]
      /\ heap \in [Impls -> ImplType]
  BY DEF Inv, PlanTypes
<1>. HIDE DEF s, i
<1>6. /\ heap' \in [Impls -> ImplType] /\ \A j \in Impls \ {i} : heap'[j] = heap[j]
      /\ ~heap'[i].ready /\ PtrInv' /\ live' \subseteq Blocks
      /\ inflight = {} \/ heap' = heap
  <2>1. CASE s.op = "copy"
    <3>1. /\ heap' \in [Impls -> ImplType] /\ \A j \in Impls \ {i} : heap'[j] = heap[j]
          /\ ~heap'[i].ready /\ heap'[i].ptr[s.field] = Null
          /\ \A g \in Fields \ {s.field} : heap'[i].ptr[g] = heap[i].ptr[g]
      BY <1>1, <1>2, <1>4, <1>5, <2>1 DEF ImplType
    <3>2. PtrInv'
      <4>. DEFINE G == {s.field}
      <4>1. G \in SUBSET Fields /\ live' = live \ {heap[i].ptr[f] : f \in G}
        BY <1>1, <1>4, <2>1
      <4>2. \A f \in G : heap'[i].ptr[f] = Null
        BY <3>1
      <4>3. \A f \in Fields \ G : heap'[i].ptr[f] = heap[i].ptr[f]
        BY <3>1
      <4>4. \A j \in Impls \ {i} : \A f \in Fields : heap'[j].ptr[f] = heap[j].ptr[f]
        BY <3>1
      <4>. HIDE DEF G
      <4>. QED
        BY <1>2, <4>1, <4>2, <4>3, <4>4, PtrFreed DEF Inv
    <3>. QED
      BY <1>1, <1>5, <2>1, <3>1, <3>2
  <2>2. CASE s.op # "copy"
    BY <1>1, <1>2, <1>5, <2>2, PtrKept DEF Inv
  <2>. QED
    BY <2>1, <2>2
<1>7. CallInv'
  <2>1. /\ call'.at = "cleanup" /\ p \in alive' /\ impl'[p] # Null /\ ~heap'[impl'[p]].ready
        /\ call' = [at |-> call'.at, plan |-> {p}, step |-> call'.step]
    BY <1>1, <1>2, <1>3, <1>6 DEF i
  <2>. QED
    BY <2>1 DEF CallInv
<1>8. p \in call'.plan
  BY <1>3
<1>. QED
  BY <1>1, <1>2, <1>5, <1>6, <1>7, <1>8, InitializeStep DEF i

LEMMA CleanupKeeps ==
  ASSUME Inv, NEW p \in Plans, Cleanup(p)
  PROVE  Inv'
<1>1. /\ call.at = "cleanup" /\ p \in call.plan
      /\ live' = live \ Held(impl[p], Fields)
      /\ heap' = [heap EXCEPT ![impl[p]] = Released(impl[p])]
      /\ Held(impl[p], DeviceFields) # {} => inflight = {}
      /\ call' = Idle /\ status' = [status EXCEPT ![p] = "failed"]
      /\ kind' = kind /\ impl' = impl /\ alive' = alive /\ inflight' = inflight
  BY DEF Cleanup, Return, MayFree
<1>2. /\ p \in alive /\ impl[p] # Null /\ impl[p] \in Impls
      /\ \A q \in alive : q # p /\ impl[q] # Null => PlanOk(q)
  BY <1>1, UnderWay
<1>3. /\ Released(impl[p]) \in ImplType /\ ~Released(impl[p]).ready
      /\ \A f \in Fields : Released(impl[p]).ptr[f] = Null
  BY <1>2, HeapFacts DEF Inv, Released, EmptyImpl, ImplType
<1>4. /\ heap' \in [Impls -> ImplType] /\ heap'[impl[p]] = Released(impl[p])
      /\ \A j \in Impls \ {impl[p]} : heap'[j] = heap[j]
  BY <1>1, <1>2, <1>3 DEF Inv, PlanTypes
<1>5. PtrInv'
  BY <1>1, <1>2, <1>3, <1>4, ImplFreed DEF Inv
<1>6. CallInv' /\ live' \subseteq Blocks
  BY <1>1 DEF Inv, PlanTypes, CallInv, Idle
<1>7. inflight = {} \/ \A f \in DeviceFields : heap[impl[p]].ptr[f] = Null
  BY <1>1, HeldNothing
<1>8. /\ status' \in [Plans -> {"none", "failed", "success"}] /\ status'[p] = "failed"
      /\ \A q \in Plans \ {p} : status'[q] = status[q]
  BY <1>1 DEF Inv, PlanTypes
<1>9. PlanOk(p)'
  BY <1>1, <1>3, <1>4, <1>8, PlanOkEmpty
<1>. QED
  BY <1>1, <1>2, <1>4, <1>5, <1>6, <1>7, <1>8, <1>9, InitializeStep

------------------------------------------------------------------------------
(* run() and the device                                                    *)

LEMMA RunKeeps ==
  ASSUME Inv, NEW p \in Plans, Run(p)
  PROVE  Inv'
<1>1. /\ call = Idle /\ p \in alive /\ impl[p] # Null
      /\ heap[impl[p]].ready /\ heap[impl[p]].active
      /\ inflight' = inflight \cup {heap[impl[p]].params}
      /\ kind' = kind /\ impl' = impl /\ alive' = alive /\ heap' = heap /\ live' = live
      /\ call' = call /\ status' = status
  BY DEF Run
<1>2. impl[p] \in Impls /\ impl[p] \in Allocated
  BY <1>1, HeapFacts DEF Inv, Allocated
<1>3. heap[impl[p]].params = Held(impl[p], DeviceFields)
  BY <1>1, AllOrNothingIsPlanOk DEF Inv, Idle, PlanOk
<1>4. Held(impl[p], DeviceFields) \subseteq Blocks /\ Held(impl[p], DeviceFields) \subseteq live
  BY <1>2, HeapFacts, PlanFacts DEF Inv, PtrInv, Held
<1>5. PlanTypes' /\ PtrInv' /\ PlanInv' /\ CallInv' /\ AllOrNothing' /\ Allocated' = Allocated
  <2>1. Program' = Program /\ Allocated' = Allocated
    BY <1>1 DEF Program, Allocated
  <2>2. PlanTypes' /\ PtrInv' /\ PlanInv'
    BY <1>1, <1>3, <1>4, <2>1 DEF Inv, PlanTypes, PtrInv, PlanInv
  <2>3. CallInv'
    BY <1>1 DEF CallInv, Idle
  <2>4. AllOrNothing'
    BY <1>1 DEF Inv, AllOrNothing, Held
  <2>. QED
    BY <2>1, <2>2, <2>3, <2>4
<1>6. KernelMemoryLives'
  <2>1. Held(impl[p], DeviceFields)' = Held(impl[p], DeviceFields)
    BY <1>1 DEF Held
  <2>2. ASSUME NEW used \in inflight' \ {{}}
        PROVE  \E j \in Allocated' : used \subseteq Held(j, DeviceFields)' /\ used \subseteq live'
    <3>1. CASE used \in inflight
      <4>1. PICK j \in Allocated : used \subseteq Held(j, DeviceFields) /\ used \subseteq live
        BY <2>2, <3>1 DEF Inv, KernelMemoryLives
      <4>2. Held(j, DeviceFields)' = Held(j, DeviceFields)
        BY <1>1 DEF Held
      <4>. QED
        BY <1>1, <1>5, <4>1, <4>2
    <3>2. CASE used = heap[impl[p]].params
      <4>1. used \subseteq Held(impl[p], DeviceFields)' /\ used \subseteq live'
        BY <1>1, <1>3, <1>4, <2>1, <3>2
      <4>2. impl[p] \in Allocated'
        BY <1>2, <1>5
      <4>3. impl'[p] = impl[p]
        BY <1>1
      <4>. QED
        BY <4>1, <4>2, <4>3
    <3>. QED
      BY <1>1, <2>2, <3>1, <3>2
  <2>. QED
    BY <2>2 DEF KernelMemoryLives
<1>. QED
  BY <1>5, <1>6 DEF Inv

LEMMA KernelEndsKeeps ==
  ASSUME Inv, DeviceFinishes
  PROVE  Inv'
<1>1. /\ inflight' \subseteq inflight /\ kind' = kind /\ impl' = impl /\ alive' = alive
      /\ heap' = heap /\ live' = live /\ call' = call /\ status' = status
  BY DEF DeviceFinishes
<1>2. Program' = Program /\ Allocated' = Allocated
  BY <1>1 DEF Program, Allocated
<1>3. PlanTypes' /\ PtrInv' /\ PlanInv'
  BY <1>1, <1>2 DEF Inv, PlanTypes, PtrInv, PlanInv
<1>4. CallInv'
  BY <1>1, <1>2 DEF Inv, CallInv, Built, IsAlloc
<1>5. AllOrNothing'
  BY <1>1 DEF Inv, AllOrNothing, Held
<1>6. KernelMemoryLives'
  BY <1>1, <1>2, <1>3, KernelsKeep DEF Inv
<1>. QED
  BY <1>3, <1>4, <1>5, <1>6 DEF Inv

------------------------------------------------------------------------------
(* The theorems                                                            *)

LEMMA InitInv ==
  ASSUME Init
  PROVE  Inv
<1>1. PlanTypes /\ Allocated = {}
  BY HeapFacts DEF Init, PlanTypes, EmptyImpl, ImplType, Allocated
<1>2. \A i \in Impls : \A f \in Fields : heap[i].ptr[f] = Null
  BY DEF Init, EmptyImpl
<1>3. PtrInv /\ PlanInv
  BY <1>1, <1>2, PlanFacts DEF Init, PtrInv, PlanInv
<1>4. CallInv /\ AllOrNothing /\ KernelMemoryLives
  BY DEF Init, CallInv, Idle, AllOrNothing, KernelMemoryLives
<1>. QED
  BY <1>1, <1>3, <1>4 DEF Inv

\* Every call of the host, every failure of an external call and every end of a
\* kernel keeps the invariant of the plans.
THEOREM PlanInvariant == Spec => []Inv
<1>1. Init => Inv
  BY InitInv
<1>2. Inv /\ [Next]_vars => Inv'
  <2>. SUFFICES ASSUME Inv, [Next]_vars PROVE Inv'
    OBVIOUS
  <2>1. ASSUME NEW p \in Plans, Construct(p) \/ Destroy(p) \/ Run(p) PROVE Inv'
    BY <2>1, ConstructKeeps, DestroyKeeps, RunKeeps
  <2>2. ASSUME NEW p \in Plans, Initialize(p) PROVE Inv'
    BY <2>2, EnterKeeps, RejectKeeps, NothingActiveKeeps, AcceptKeeps, SucceedKeeps,
       FailKeeps, CleanupKeeps DEF Initialize
  <2>3. ASSUME NEW p \in Plans, NEW q \in Plans, MoveConstruct(p, q) \/ MoveAssign(p, q)
        PROVE  Inv'
    BY <2>3, MoveConstructKeeps, MoveAssignKeeps
  <2>4. CASE DeviceFinishes
    BY <2>4, KernelEndsKeeps
  <2>5. CASE UNCHANGED vars
    <3>1. /\ inflight' = inflight /\ kind' = kind /\ impl' = impl /\ alive' = alive
          /\ heap' = heap /\ live' = live /\ call' = call /\ status' = status
      BY <2>5 DEF vars
    <3>2. Program' = Program /\ Allocated' = Allocated
      BY <3>1 DEF Program, Allocated
    <3>3. PlanTypes' /\ PtrInv' /\ PlanInv' /\ KernelMemoryLives'
      BY <3>1, <3>2 DEF Inv, PlanTypes, PtrInv, PlanInv, KernelMemoryLives, Held
    <3>4. CallInv'
      BY <3>1, <3>2 DEF Inv, CallInv, Built, IsAlloc
    <3>5. AllOrNothing'
      <4>1. \A p \in alive' : impl'[p] # Null /\ p \notin call'.plan => PlanOk(p)'
        BY <3>1, AllOrNothingIsPlanOk, PlanOkKept DEF Inv
      <4>. QED
        BY <4>1 DEF AllOrNothing, PlanOk
    <3>. QED
      BY <3>3, <3>4, <3>5 DEF Inv
  <2>. QED
    BY <2>1, <2>2, <2>3, <2>4, <2>5 DEF Next
<1>. QED
  BY <1>1, <1>2, PTL DEF Spec

\* Whatever fails, is moved or is initialised again, each allocated block is held by
\* one pointer of one plan's Impl: release() and the destructor leak nothing and free
\* nothing twice.
THEOREM PlanOwnership == Spec => []Ownership
<1>1. Inv => Ownership
  <2>. SUFFICES ASSUME Inv PROVE Ownership
    OBVIOUS
  <2>1. \A i \in Allocated : i \in Impls
    BY HeapFacts DEF Inv, Allocated
  <2>2. live \subseteq UNION {Held(i, Fields) : i \in Allocated}
    <3>. SUFFICES ASSUME NEW b \in live PROVE \E i \in Allocated : b \in Held(i, Fields)
      OBVIOUS
    <3>1. PICK i \in Impls, f \in Fields : heap[i].ptr[f] = b /\ b # Null
      BY PlanFacts DEF Inv, PlanTypes, PtrInv
    <3>2. i \in Allocated
      BY <3>1 DEF Inv, PlanInv
    <3>. QED
      BY <3>1, <3>2 DEF Held
  <2>3. ASSUME NEW i \in Allocated, NEW b \in Held(i, Fields) PROVE b \in live
    <3>1. PICK f \in Fields : heap[i].ptr[f] = b /\ b # Null
      BY DEF Held
    <3>2. b \in Blocks
      BY <2>1, <3>1, HeapFacts DEF Inv
    <3>. QED
      BY <2>1, <3>1, <3>2 DEF Inv, PtrInv
  <2>4. live = UNION {Held(i, Fields) : i \in Allocated}
    BY <2>2, <2>3
  <2>5. \A i, j \in Allocated : \A f, g \in Fields :
          heap[i].ptr[f] = heap[j].ptr[g] /\ heap[i].ptr[f] # Null => i = j /\ f = g
    BY <2>1 DEF Inv, PtrInv
  <2>6. \A i \in Impls \ Allocated : Held(i, Fields) = {}
    BY DEF Inv, PlanInv, Held
  <2>. QED
    BY <2>4, <2>5, <2>6 DEF Ownership, Inv, PlanInv
<1>. QED
  BY <1>1, PlanInvariant, PTL

\* initialize() is all or nothing: a plan that is not ready holds nothing, a plan that
\* is ready holds all its kernel reads.
THEOREM PlanAllOrNothing == Spec => []AllOrNothing
<1>1. Inv => AllOrNothing
  BY DEF Inv
<1>. QED
  BY <1>1, PlanInvariant, PTL

\* A kernel that run() has started only uses memory that is still its plan's.
THEOREM PlanKernelMemory == Spec => []KernelMemoryLives
<1>1. Inv => KernelMemoryLives
  BY DEF Inv
<1>. QED
  BY <1>1, PlanInvariant, PTL

------------------------------------------------------------------------------
(***************************************************************************)
(* The direct GEMM. The lead warp carries the K loop, and where it stands  *)
(* says what the stage, the queue, the accumulator and the barriers hold.  *)
(* The other warps only watch, by parity: one may fall behind as far as it *)
(* likes, and what it is let through on is a phase that has completed, if  *)
(* not the one it asked for.                                               *)
(***************************************************************************)

LeadTile == kTile[Lead]
Loaded == completed["tma"]
Computed == completed["mma"]

\* The accumulator after the first n K tiles, the stage with K tile n.
Partial(n) == [i \in 1 .. n |-> [op \in Operands |-> i - 1]]
Stage(n) == [op \in Operands |-> n]
Load(op) == [op |-> op, src |-> LeadTile]
DoMma == [op |-> "mma", accum |-> LeadTile # 0]
DoCommit == [op |-> "commit"]

CuteTypes ==
  /\ pc \in [Warps -> {"produce", "tma", "issue", "mma", "epilogue", "sync"}]
  /\ kTile \in [Warps -> 0 .. KTiles]
  /\ completed \in [{"tma", "mma"} -> Nat]
  /\ smem \in [Operands -> Int]
  /\ DOMAIN D = Warps
  /\ freed \in BOOLEAN

\* The stage is filled, read and counted once for each K tile of the lead warp.
LeadInv ==
  /\ pc[Lead] \in {"epilogue", "sync"} <=> LeadTile = KTiles
  /\ pc[Lead] \in {"produce", "epilogue", "sync"} =>
       Loaded = LeadTile /\ Computed = LeadTile
  /\ pc[Lead] = "tma" => Computed = LeadTile
       /\ Loaded = IF loads = {} THEN LeadTile + 1 ELSE LeadTile
  /\ pc[Lead] \in {"issue", "mma"} => Loaded = LeadTile + 1
  /\ pc[Lead] = "issue" => Computed = LeadTile
  /\ pc[Lead] = "mma" =>
       Computed = IF tensorQ = <<>> THEN LeadTile + 1 ELSE LeadTile

StageInv ==
  /\ pc[Lead] # "tma" => loads = {}
  /\ loads \subseteq {Load(op) : op \in Operands}
  /\ pc[Lead] \in {"tma", "issue", "mma"} =>
       \A op \in Operands : Load(op) \notin loads => smem[op] = LeadTile
  /\ tmaBar = [phase |-> Loaded % 2, pending |-> IF loads = {} THEN 1 ELSE 0,
               tx |-> Cardinality(loads)]

CoreInv ==
  /\ pc[Lead] # "mma" => tensorQ = <<>>
  /\ tensorQ \in {<<>>, <<DoCommit>>, <<DoMma, DoCommit>>}
  /\ tmem = IF tensorQ = <<DoCommit>> THEN Partial(LeadTile + 1) ELSE Partial(Computed)
  /\ mmaBar = [phase |-> Computed % 2, pending |-> 1, tx |-> 0]

\* A warp has passed no phase that had not completed.
WatchInv ==
  \A w \in Warps :
    /\ kTile[w] =< Computed
    /\ pc[w] \in {"produce", "issue"} => w = Lead
    /\ pc[w] = "mma" => kTile[w] < Loaded
    /\ pc[w] \in {"produce", "tma", "issue", "mma"} => kTile[w] < KTiles
    /\ pc[w] \in {"epilogue", "sync"} => kTile[w] = KTiles
    /\ D[w] = IF pc[w] = "sync" THEN Product ELSE <<>>

FreeInv == freed => \A w \in Warps : pc[w] = "sync"

CtaInv == CuteTypes /\ LeadInv /\ StageInv /\ CoreInv /\ WatchInv /\ FreeInv

------------------------------------------------------------------------------

LEMMA CuteFacts ==
  Lead \in Warps /\ KTiles \in Nat /\ KTiles > 0
BY CuteAssumption

LEMMA TwoLoads ==
  /\ Cardinality(Operands) = 2
  /\ Cardinality({Load(op) : op \in Operands}) = 2
  /\ IsFiniteSet({Load(op) : op \in Operands})
<1>1. ASSUME NEW x, NEW y, x # y
      PROVE  IsFiniteSet({x, y}) /\ Cardinality({x, y}) = 2
  <2>1. IsFiniteSet({x}) /\ Cardinality({x}) = 1 /\ y \notin {x}
    BY <1>1, FS_Singleton
  <2>2. IsFiniteSet({x} \cup {y}) /\ Cardinality({x} \cup {y}) = 2
    BY <2>1, FS_AddElement
  <2>3. {x, y} = {x} \cup {y}
    OBVIOUS
  <2>. QED
    BY <2>2, <2>3
<1>2. {Load(op) : op \in Operands} = {Load("A"), Load("B")} /\ Load("A") # Load("B")
  BY DEF Operands, Load
<1>. QED
  BY <1>1, <1>2 DEF Operands

LEMMA Parity ==
  ASSUME NEW n \in Nat
  PROVE  n % 2 \in {0, 1} /\ (n + 1) % 2 = 1 - (n % 2) /\ (n + 1) % 2 # n % 2
OBVIOUS

\* Appending the stage's K tile to the products of those before.
LEMMA OneMoreProduct ==
  ASSUME NEW n \in Nat
  PROVE  /\ Append(Partial(n), Stage(n)) = Partial(n + 1)
         /\ <<Stage(0)>> = Partial(1)
<1>. DEFINE S == [Operands -> Int]
<1>1. \A m \in Nat : Stage(m) \in S
  BY DEF Stage
<1>2. Partial(n) \in Seq(S) /\ Len(Partial(n)) = n
  BY DEF Partial
<1>3. /\ Append(Partial(n), Stage(n)) \in Seq(S)
      /\ Len(Append(Partial(n), Stage(n))) = n + 1
      /\ \A i \in 1 .. n + 1 :
           Append(Partial(n), Stage(n))[i] = IF i = n + 1 THEN Stage(n) ELSE Partial(n)[i]
  BY <1>1, <1>2
<1>4. Partial(n + 1) \in Seq(S) /\ Len(Partial(n + 1)) = n + 1
  BY DEF Partial
<1>5. \A i \in 1 .. n + 1 : Append(Partial(n), Stage(n))[i] = Partial(n + 1)[i]
  <2>. TAKE i \in 1 .. n + 1
  <2>1. CASE i = n + 1
    <3>1. Partial(n + 1)[i] = [op \in Operands |-> i - 1] /\ i - 1 = n
      BY <2>1 DEF Partial
    <3>. QED
      BY <1>3, <2>1, <3>1 DEF Stage
  <2>2. CASE i # n + 1
    <3>1. i \in 1 .. n
      BY <2>2
    <3>. QED
      BY <1>3, <2>2, <3>1 DEF Partial
  <2>. QED
    BY <2>1, <2>2
<1>6. Append(Partial(n), Stage(n)) = Partial(n + 1)
  BY <1>3, <1>4, <1>5
<1>7. <<Stage(0)>> = Partial(1)
  BY DEF Partial, Stage
<1>. QED
  BY <1>6, <1>7

\* The barriers are within one phase of each other, and of the lead warp.
LEMMA CuteCounts ==
  ASSUME CuteTypes, LeadInv
  PROVE  /\ LeadTile \in Nat /\ Loaded \in Nat /\ Computed \in Nat
         /\ LeadTile =< KTiles /\ Computed =< Loaded /\ Computed =< KTiles
         /\ Loaded \in {LeadTile, LeadTile + 1}
         /\ Computed \in {LeadTile, LeadTile + 1}
<1>1. /\ LeadTile \in 0 .. KTiles /\ Loaded \in Nat /\ Computed \in Nat
      /\ pc[Lead] \in {"produce", "tma", "issue", "mma", "epilogue", "sync"}
  BY CuteFacts DEF CuteTypes, LeadTile, Loaded, Computed
<1>. QED
  BY <1>1, CuteFacts DEF LeadInv

LEMMA CuteInit ==
  ASSUME CtaInit
  PROVE  CtaInv
<1>1. /\ LeadTile = 0 /\ Loaded = 0 /\ Computed = 0
      /\ pc[Lead] = "produce" /\ \A w \in Warps \ {Lead} : pc[w] = "tma"
  BY CuteFacts DEF CtaInit, LeadTile, Loaded, Computed
<1>2. CuteTypes
  <2>1. kTile \in [Warps -> 0 .. KTiles]
    BY CuteFacts DEF CtaInit
  <2>2. completed \in [{"tma", "mma"} -> Nat] /\ smem \in [Operands -> Int]
    BY DEF CtaInit, Unset
  <2>3. pc \in [Warps -> {"produce", "tma", "issue", "mma", "epilogue", "sync"}]
    BY DEF CtaInit
  <2>. QED
    BY <2>1, <2>2, <2>3 DEF CtaInit, CuteTypes
<1>3. LeadInv
  BY <1>1, CuteFacts DEF LeadInv
<1>4. StageInv
  <2>1. Cardinality({}) = 0
    BY FS_EmptySet
  <2>. QED
    BY <1>1, <2>1 DEF CtaInit, StageInv, NewBar
<1>5. CoreInv
  <2>1. Partial(0) = <<>>
    BY DEF Partial
  <2>2. 0 % 2 = 0
    OBVIOUS
  <2>. QED
    BY <1>1, <2>1, <2>2 DEF CtaInit, CoreInv, NewBar
<1>6. WatchInv
  BY <1>1, CuteFacts DEF CtaInit, WatchInv
<1>. QED
  BY <1>2, <1>3, <1>4, <1>5, <1>6 DEF CtaInv, FreeInv, CtaInit

LEMMA ProduceInv ==
  ASSUME CtaInv, Produce
  PROVE  CtaInv'
<1>. USE DEF CtaInv
<1>1. /\ pc[Lead] = "produce" /\ tmaBar' = ArriveExpectTx(tmaBar, 1, 2)
      /\ loads' = loads \cup {Load(op) : op \in Operands}
      /\ pc' = [pc EXCEPT ![Lead] = "tma"]
      /\ UNCHANGED <<mmaBar, completed, kTile, smem, tensorQ, tmem, D, freed>>
  BY TwoLoads DEF Produce, Goto, Load, LeadTile
<1>2. LeadTile' = LeadTile /\ Loaded' = Loaded /\ Computed' = Computed
  BY <1>1 DEF LeadTile, Loaded, Computed
<1>3. pc'[Lead] = "tma" /\ \A w \in Warps \ {Lead} : pc'[w] = pc[w]
  BY <1>1, CuteFacts DEF CuteTypes
<1>4. loads = {} /\ loads' = {Load(op) : op \in Operands} /\ loads' # {}
  BY <1>1 DEF StageInv, Operands
<1>5. CuteTypes'
  BY <1>1 DEF CuteTypes
<1>6. LeadInv'
  BY <1>1, <1>2, <1>3, <1>4 DEF LeadInv
<1>7. StageInv'
  <2>1. tmaBar = [phase |-> Loaded % 2, pending |-> 1, tx |-> 0]
    BY <1>4, FS_EmptySet DEF StageInv
  <2>2. tmaBar' = [phase |-> Loaded % 2, pending |-> 0, tx |-> 2]
    BY <1>1, <2>1 DEF ArriveExpectTx, Settle
  <2>3. \A op : Load(op)' = Load(op)
    BY <1>2 DEF Load
  <2>4. Cardinality(loads') = 2
    BY <1>4, TwoLoads
  <2>. QED
    BY <1>2, <1>3, <1>4, <2>2, <2>3, <2>4 DEF StageInv
<1>8. CoreInv'
  <2>1. tensorQ = <<>> /\ tensorQ' = <<>>
    BY <1>1 DEF CoreInv
  <2>. QED
    BY <1>1, <1>2, <2>1 DEF CoreInv
<1>9. WatchInv'
  BY <1>1, <1>2, <1>3, CuteFacts DEF WatchInv
<1>10. FreeInv'
  BY <1>1, <1>3, CuteFacts DEF FreeInv
<1>. QED
  BY <1>5, <1>6, <1>7, <1>8, <1>9, <1>10

\* A warp that is let through has the parity of a phase that has completed.
LEMMA AwaitTmaInv ==
  ASSUME CtaInv, NEW w \in Warps, AwaitTma(w)
  PROVE  CtaInv'
<1>. USE DEF CtaInv
<1>1. /\ pc[w] = "tma" /\ tmaBar.phase # kTile[w] % 2
      /\ pc' = [pc EXCEPT ![w] = IF w = Lead THEN "issue" ELSE "mma"]
      /\ UNCHANGED <<tmaBar, mmaBar, completed, kTile, loads, smem, tensorQ, tmem, D, freed>>
  BY DEF AwaitTma, Goto, Passes, Phase, engineVars
<1>2. LeadTile' = LeadTile /\ Loaded' = Loaded /\ Computed' = Computed
  BY <1>1 DEF LeadTile, Loaded, Computed
<1>3. /\ pc'[w] = IF w = Lead THEN "issue" ELSE "mma"
      /\ \A v \in Warps \ {w} : pc'[v] = pc[v]
  BY <1>1 DEF CuteTypes
<1>4. kTile[w] < Loaded
  <2>1. kTile[w] =< Loaded /\ kTile[w] \in Nat /\ Loaded \in Nat
    BY CuteCounts DEF WatchInv, CuteTypes
  <2>2. kTile[w] # Loaded
    BY <1>1 DEF StageInv
  <2>. QED
    BY <2>1, <2>2
<1>5. w = Lead => loads = {} /\ Loaded = LeadTile + 1 /\ Computed = LeadTile
  <2>1. w = Lead => Loaded # LeadTile
    BY <1>4, CuteCounts DEF LeadTile
  <2>. QED
    BY <1>1, <2>1, CuteCounts DEF LeadInv
<1>6. \A op : Load(op)' = Load(op)
  BY <1>2 DEF Load
<1>7. CuteTypes'
  BY <1>1 DEF CuteTypes
<1>8. CASE w = Lead
  <2>1. pc'[Lead] = "issue" /\ pc[Lead] = "tma"
    BY <1>1, <1>3, <1>8
  <2>2. LeadInv'
    BY <1>2, <1>5, <1>8, <2>1 DEF LeadInv
  <2>3. StageInv'
    BY <1>1, <1>2, <1>5, <1>6, <1>8, <2>1 DEF StageInv
  <2>4. CoreInv'
    <3>1. tensorQ = <<>> /\ tensorQ' = <<>>
      BY <1>1, <2>1 DEF CoreInv
    <3>. QED
      BY <1>1, <1>2, <3>1 DEF CoreInv
  <2>5. WatchInv'
    BY <1>1, <1>2, <1>3, <1>8, <2>1 DEF WatchInv
  <2>6. FreeInv'
    BY <1>1, <1>3, CuteFacts DEF FreeInv
  <2>. QED
    BY <1>7, <2>2, <2>3, <2>4, <2>5, <2>6
<1>9. CASE w # Lead
  <2>1. pc'[Lead] = pc[Lead] /\ pc'[w] = "mma"
    BY <1>3, <1>9, CuteFacts
  <2>2. LeadInv'
    BY <1>1, <1>2, <2>1 DEF LeadInv
  <2>3. StageInv'
    BY <1>1, <1>2, <1>6, <2>1 DEF StageInv
  <2>4. CoreInv'
    BY <1>1, <1>2, <2>1 DEF CoreInv, DoMma, DoCommit
  <2>5. WatchInv'
    BY <1>1, <1>2, <1>3, <1>4, <1>9, <2>1 DEF WatchInv
  <2>6. FreeInv'
    BY <1>1, <1>3 DEF FreeInv
  <2>. QED
    BY <1>7, <2>2, <2>3, <2>4, <2>5, <2>6
<1>. QED
  BY <1>8, <1>9

LEMMA IssueInv ==
  ASSUME CtaInv, Issue
  PROVE  CtaInv'
<1>. USE DEF CtaInv
<1>1. /\ pc[Lead] = "issue" /\ tensorQ' = tensorQ \o <<DoMma, DoCommit>>
      /\ pc' = [pc EXCEPT ![Lead] = "mma"]
      /\ UNCHANGED <<tmaBar, mmaBar, completed, kTile, loads, smem, tmem, D, freed>>
  BY DEF Issue, Goto, DoMma, DoCommit, LeadTile
<1>2. LeadTile' = LeadTile /\ Loaded' = Loaded /\ Computed' = Computed
  BY <1>1 DEF LeadTile, Loaded, Computed
<1>3. pc'[Lead] = "mma" /\ \A w \in Warps \ {Lead} : pc'[w] = pc[w]
  BY <1>1, CuteFacts DEF CuteTypes
<1>4. tensorQ = <<>> /\ tensorQ' = <<DoMma, DoCommit>>
  <2>1. tensorQ = <<>>
    BY <1>1 DEF CoreInv
  <2>2. <<DoMma, DoCommit>> \in Seq({DoMma, DoCommit})
    OBVIOUS
  <2>3. <<>> \o <<DoMma, DoCommit>> = <<DoMma, DoCommit>>
    BY <2>2, ConcatEmptySeq
  <2>. QED
    BY <1>1, <2>1, <2>3
<1>5. tensorQ' # <<>> /\ tensorQ' # <<DoCommit>>
  BY <1>4
<1>6. CuteTypes'
  BY <1>1 DEF CuteTypes
<1>7. LeadInv'
  BY <1>1, <1>2, <1>3, <1>5 DEF LeadInv
<1>8. StageInv'
  <2>1. \A op : Load(op)' = Load(op)
    BY <1>2 DEF Load
  <2>. QED
    BY <1>1, <1>2, <1>3, <2>1 DEF StageInv
<1>9. CoreInv'
  <2>1. DoMma' = DoMma /\ DoCommit' = DoCommit
    BY <1>2 DEF DoMma, DoCommit
  <2>2. tmem = Partial(Computed)
    BY <1>4 DEF CoreInv
  <2>3. mmaBar' = [phase |-> Computed' % 2, pending |-> 1, tx |-> 0]
    BY <1>1, <1>2 DEF CoreInv
  <2>. QED
    BY <1>1, <1>2, <1>3, <1>4, <1>5, <2>1, <2>2, <2>3 DEF CoreInv
<1>10. WatchInv'
  <2>1. kTile[Lead] < Loaded
    BY <1>1, CuteCounts DEF LeadInv, LeadTile
  <2>. QED
    BY <1>1, <1>2, <1>3, <2>1, CuteFacts DEF WatchInv
<1>11. FreeInv'
  BY <1>1, <1>3, CuteFacts DEF FreeInv
<1>. QED
  BY <1>6, <1>7, <1>8, <1>9, <1>10, <1>11

LEMMA AwaitMmaInv ==
  ASSUME CtaInv, NEW w \in Warps, AwaitMma(w)
  PROVE  CtaInv'
<1>. USE DEF CtaInv
<1>. DEFINE n == kTile[w]
            next == IF n + 1 = KTiles THEN "epilogue"
                    ELSE IF w = Lead THEN "produce" ELSE "tma"
<1>1. /\ pc[w] = "mma" /\ mmaBar.phase # n % 2
      /\ kTile' = [kTile EXCEPT ![w] = n + 1]
      /\ pc' = [pc EXCEPT ![w] = next]
      /\ UNCHANGED <<tmaBar, mmaBar, completed, loads, smem, tensorQ, tmem, D, freed>>
  BY DEF AwaitMma, Goto, Passes, Phase, engineVars
<1>2. n \in Nat /\ n < KTiles /\ n + 1 \in 0 .. KTiles
  BY <1>1, CuteFacts DEF CuteTypes, WatchInv
<1>3. n < Computed
  <2>1. n =< Computed /\ Computed \in Nat
    BY CuteCounts DEF WatchInv
  <2>2. n # Computed
    BY <1>1 DEF CoreInv
  <2>. QED
    BY <1>2, <2>1, <2>2
<1>4. Loaded' = Loaded /\ Computed' = Computed
  BY <1>1 DEF Loaded, Computed
<1>5. /\ pc'[w] = next /\ \A v \in Warps \ {w} : pc'[v] = pc[v]
      /\ kTile'[w] = n + 1 /\ \A v \in Warps \ {w} : kTile'[v] = kTile[v]
      /\ next \in {"produce", "tma", "epilogue"}
  BY <1>1 DEF CuteTypes
<1>6. CuteTypes'
  <2>1. kTile' \in [Warps -> 0 .. KTiles]
    BY <1>1, <1>2 DEF CuteTypes
  <2>2. pc' \in [Warps -> {"produce", "tma", "issue", "mma", "epilogue", "sync"}]
    BY <1>1, <1>5 DEF CuteTypes
  <2>. QED
    BY <1>1, <2>1, <2>2 DEF CuteTypes
<1>7. WatchInv'
  <2>1. n + 1 =< Computed
    BY <1>2, <1>3, CuteCounts
  <2>2. D[w] = <<>>
    BY <1>1 DEF WatchInv
  <2>3. \A v \in Warps \ {w} :
          /\ kTile'[v] =< Computed'
          /\ pc'[v] \in {"produce", "issue"} => v = Lead
          /\ pc'[v] = "mma" => kTile'[v] < Loaded'
          /\ pc'[v] \in {"produce", "tma", "issue", "mma"} => kTile'[v] < KTiles
          /\ pc'[v] \in {"epilogue", "sync"} => kTile'[v] = KTiles
          /\ D'[v] = IF pc'[v] = "sync" THEN Product ELSE <<>>
    BY <1>1, <1>4, <1>5 DEF WatchInv
  <2>4. /\ kTile'[w] =< Computed'
        /\ pc'[w] \in {"produce", "issue"} => w = Lead
        /\ pc'[w] # "mma" /\ pc'[w] # "sync"
        /\ pc'[w] \in {"produce", "tma", "issue", "mma"} => kTile'[w] < KTiles
        /\ pc'[w] \in {"epilogue", "sync"} => kTile'[w] = KTiles
        /\ D'[w] = <<>>
    BY <1>1, <1>2, <1>4, <1>5, <2>1, <2>2, CuteFacts
  <2>. QED
    BY <2>3, <2>4 DEF WatchInv
<1>8. FreeInv'
  BY <1>1 DEF FreeInv
<1>9. CASE w = Lead
  <2>1. tensorQ = <<>> /\ Computed = n + 1 /\ Loaded = n + 1 /\ loads = {}
    <3>1. Computed # LeadTile /\ n = LeadTile
      BY <1>3, <1>9, CuteCounts DEF LeadTile
    <3>. QED
      BY <1>1, <1>9, <3>1 DEF LeadInv, StageInv
  <2>2. LeadTile' = n + 1 /\ pc'[Lead] = IF n + 1 = KTiles THEN "epilogue" ELSE "produce"
    BY <1>5, <1>9 DEF LeadTile
  <2>3. LeadInv'
    BY <1>4, <2>1, <2>2 DEF LeadInv
  <2>4. StageInv'
    BY <1>1, <1>4, <2>1, <2>2 DEF StageInv
  <2>5. CoreInv'
    <3>1. tmem = Partial(Computed)
      BY <2>1 DEF CoreInv
    <3>2. tensorQ' = <<>>
      BY <1>1, <2>1
    <3>. QED
      BY <1>1, <1>4, <3>1, <3>2 DEF CoreInv
  <2>. QED
    BY <1>6, <1>7, <1>8, <2>3, <2>4, <2>5
<1>10. CASE w # Lead
  <2>1. pc'[Lead] = pc[Lead] /\ LeadTile' = LeadTile
    BY <1>5, <1>10, CuteFacts DEF LeadTile
  <2>2. LeadInv'
    BY <1>1, <1>4, <2>1 DEF LeadInv
  <2>3. \A op : Load(op)' = Load(op)
    BY <2>1 DEF Load
  <2>4. StageInv'
    BY <1>1, <1>4, <2>1, <2>3 DEF StageInv
  <2>5. CoreInv'
    BY <1>1, <1>4, <2>1 DEF CoreInv, DoMma, DoCommit
  <2>. QED
    BY <1>6, <1>7, <1>8, <2>2, <2>4, <2>5
<1>. QED
  BY <1>9, <1>10

\* By the time a warp has gone through all K tiles the accumulator is complete.
LEMMA EpilogueInv ==
  ASSUME CtaInv, NEW w \in Warps, Epilogue(w)
  PROVE  CtaInv'
<1>. USE DEF CtaInv
<1>1. /\ pc[w] = "epilogue" /\ D' = [D EXCEPT ![w] = tmem]
      /\ pc' = [pc EXCEPT ![w] = "sync"]
      /\ UNCHANGED <<tmaBar, mmaBar, completed, kTile, loads, smem, tensorQ, tmem, freed>>
  BY DEF Epilogue, Goto, engineVars
<1>2. Computed = KTiles
  <2>1. kTile[w] = KTiles /\ kTile[w] =< Computed
    BY <1>1 DEF WatchInv
  <2>. QED
    BY <2>1, CuteCounts, CuteFacts
<1>3. tmem = Product
  <2>1. tensorQ # <<DoCommit>>
    <3>1. ASSUME tensorQ = <<DoCommit>> PROVE FALSE
      <4>1. pc[Lead] = "mma" /\ tensorQ # <<>>
        BY <3>1 DEF CoreInv
      <4>2. Computed = LeadTile /\ LeadTile # KTiles
        BY <4>1 DEF LeadInv
      <4>. QED
        BY <1>2, <4>2
    <3>. QED
      BY <3>1
  <2>. QED
    BY <1>2, <2>1 DEF CoreInv, Partial, Product
<1>4. LeadTile' = LeadTile /\ Loaded' = Loaded /\ Computed' = Computed
  BY <1>1 DEF LeadTile, Loaded, Computed
<1>5. /\ pc'[w] = "sync" /\ \A v \in Warps \ {w} : pc'[v] = pc[v]
      /\ D'[w] = Product /\ \A v \in Warps \ {w} : D'[v] = D[v]
      /\ DOMAIN D' = Warps
  BY <1>1, <1>3 DEF CuteTypes
<1>6. CuteTypes'
  BY <1>1, <1>5 DEF CuteTypes
<1>7. pc'[Lead] = pc[Lead] \/ (pc[Lead] = "epilogue" /\ pc'[Lead] = "sync")
  BY <1>1, <1>5, CuteFacts
<1>8. LeadInv'
  BY <1>1, <1>4, <1>7 DEF LeadInv
<1>9. StageInv'
  <2>1. \A op : Load(op)' = Load(op)
    BY <1>4 DEF Load
  <2>. QED
    BY <1>1, <1>4, <1>7, <2>1 DEF StageInv
<1>10. CoreInv'
  BY <1>1, <1>4, <1>7 DEF CoreInv, DoMma, DoCommit
<1>11. WatchInv'
  BY <1>1, <1>4, <1>5 DEF WatchInv
<1>12. FreeInv'
  BY <1>1, <1>5 DEF FreeInv
<1>. QED
  BY <1>6, <1>8, <1>9, <1>10, <1>11, <1>12

LEMMA LoadLandsInv ==
  ASSUME CtaInv, NEW f \in loads, LoadLands(f)
  PROVE  CtaInv'
<1>. USE DEF CtaInv
<1>1. /\ loads' = loads \ {f} /\ smem' = [smem EXCEPT ![f.op] = f.src]
      /\ tmaBar' = CompleteTx(tmaBar, 1, 1)
      /\ completed' = IF tmaBar'.phase # tmaBar.phase
                      THEN [completed EXCEPT !["tma"] = Loaded + 1] ELSE completed
      /\ UNCHANGED <<mmaBar, pc, kTile, tensorQ, tmem, D, freed>>
  BY DEF LoadLands, Record, Loaded
<1>2. PICK op \in Operands : f = Load(op)
  BY DEF StageInv
<1>3. pc[Lead] = "tma" /\ Loaded = LeadTile /\ LeadTile \in Nat /\ Computed = LeadTile
  BY CuteCounts DEF StageInv, LeadInv
<1>4. /\ IsFiniteSet(loads) /\ Cardinality(loads) \in Nat
      /\ Cardinality(loads') = Cardinality(loads) - 1
      /\ Cardinality(loads') \in Nat /\ (Cardinality(loads') = 0 <=> loads' = {})
  <2>1. IsFiniteSet(loads)
    BY TwoLoads, FS_Subset DEF StageInv
  <2>2. IsFiniteSet(loads') /\ Cardinality(loads') = Cardinality(loads) - 1
    BY <1>1, <2>1, FS_RemoveElement
  <2>. QED
    BY <2>1, <2>2, FS_CardinalityType, FS_EmptySet
<1>. DEFINE p == LeadTile % 2
            c == Cardinality(loads')
<1>5. p \in {0, 1} /\ (LeadTile + 1) % 2 = 1 - p
  BY <1>3, Parity
<1>6. tmaBar = [phase |-> p, pending |-> 0, tx |-> c + 1]
  BY <1>3, <1>4 DEF StageInv
<1>. HIDE DEF p, c
<1>7. tmaBar' = Settle([phase |-> p, pending |-> 0, tx |-> c], 1)
  <2>1. (c + 1) - 1 = c
    BY <1>4 DEF c
  <2>. QED
    BY <1>1, <1>6, <2>1 DEF CompleteTx
<1>8. tmaBar' = IF loads' = {} THEN [phase |-> 1 - p, pending |-> 1, tx |-> 0]
                ELSE [phase |-> p, pending |-> 0, tx |-> c]
  BY <1>4, <1>7 DEF Settle, c
<1>9. tmaBar'.phase # tmaBar.phase <=> loads' = {}
  BY <1>5, <1>6, <1>8
<1>10. LeadTile' = LeadTile /\ Computed' = Computed
       /\ Loaded' = IF loads' = {} THEN LeadTile + 1 ELSE LeadTile
  BY <1>1, <1>3, <1>9 DEF LeadTile, Loaded, Computed, CuteTypes
<1>11. \A o : Load(o)' = Load(o)
  BY <1>10 DEF Load
<1>12. smem'[op] = LeadTile /\ \A o \in Operands \ {op} : smem'[o] = smem[o]
  BY <1>1, <1>2 DEF CuteTypes, Load
<1>13. CuteTypes'
  <2>1. smem' \in [Operands -> Int]
    BY <1>1, <1>2, <1>3 DEF CuteTypes, Load
  <2>2. completed' \in [{"tma", "mma"} -> Nat]
    BY <1>1, <1>3 DEF CuteTypes
  <2>. QED
    BY <1>1, <2>1, <2>2 DEF CuteTypes
<1>14. LeadInv'
  BY <1>1, <1>3, <1>10 DEF LeadInv
<1>15. StageInv'
  <2>1. \A o \in Operands : Load(o) \notin loads' => smem'[o] = LeadTile
    <3>. TAKE o \in Operands
    <3>1. o = op \/ (Load(o) # f /\ smem'[o] = smem[o])
      BY <1>2, <1>12 DEF Load
    <3>. QED
      BY <1>1, <1>3, <1>12, <3>1 DEF StageInv
  <2>2. loads' \subseteq {Load(o) : o \in Operands}
    BY <1>1 DEF StageInv
  <2>3. tmaBar' = [phase |-> Loaded' % 2, pending |-> IF loads' = {} THEN 1 ELSE 0, tx |-> c]
    <3>1. CASE loads' = {}
      <4>1. Loaded' % 2 = 1 - p /\ c = 0
        BY <1>4, <1>5, <1>10, <3>1 DEF c
      <4>. QED
        BY <1>8, <3>1, <4>1
    <3>2. CASE loads' # {}
      <4>1. Loaded' % 2 = p
        BY <1>10, <3>2 DEF p
      <4>. QED
        BY <1>8, <3>2, <4>1
    <3>. QED
      BY <3>1, <3>2
  <2>. QED
    BY <1>1, <1>3, <1>10, <1>11, <2>1, <2>2, <2>3 DEF StageInv, c
<1>16. CoreInv'
  BY <1>1, <1>10 DEF CoreInv, DoMma, DoCommit
<1>17. WatchInv'
  <2>1. Loaded =< Loaded' /\ Loaded \in Nat /\ Loaded' \in Nat
    BY <1>3, <1>10
  <2>2. \A w \in Warps : kTile[w] \in Nat
    BY CuteFacts DEF CuteTypes
  <2>3. \A w \in Warps : kTile[w] < Loaded => kTile[w] < Loaded'
    BY <2>1, <2>2
  <2>. QED
    BY <1>1, <1>10, <2>3 DEF WatchInv
<1>18. FreeInv'
  BY <1>1 DEF FreeInv
<1>. QED
  BY <1>13, <1>14, <1>15, <1>16, <1>17, <1>18

\* What the queue is when the tensor core takes an operation off it.
LEMMA QueueHead ==
  ASSUME CtaInv, tensorQ # <<>>
  PROVE  /\ pc[Lead] = "mma" /\ Computed = LeadTile /\ LeadTile \in Nat
         /\ Head(tensorQ).op = "mma" =>
              /\ tensorQ = <<DoMma, DoCommit>> /\ tensorQ # <<DoCommit>>
              /\ Head(tensorQ) = DoMma /\ Tail(tensorQ) = <<DoCommit>>
         /\ Head(tensorQ).op = "commit" =>
              tensorQ = <<DoCommit>> /\ Tail(tensorQ) = <<>>
         /\ <<DoCommit>> # <<>> /\ DoMma # DoCommit
<1>. USE DEF CtaInv
<1>1. pc[Lead] = "mma" /\ Computed = LeadTile /\ LeadTile \in Nat
  BY CuteCounts DEF CoreInv, LeadInv
<1>2. DoMma.op = "mma" /\ DoCommit.op = "commit"
  BY DEF DoMma, DoCommit
<1>3. /\ Head(<<DoMma, DoCommit>>) = DoMma /\ Tail(<<DoMma, DoCommit>>) = <<DoCommit>>
      /\ Head(<<DoCommit>>) = DoCommit /\ Tail(<<DoCommit>>) = <<>>
      /\ <<DoMma, DoCommit>> # <<DoCommit>> /\ <<DoCommit>> # <<>>
  OBVIOUS
<1>. QED
  BY <1>1, <1>2, <1>3 DEF CoreInv

LEMMA TensorMmaInv ==
  ASSUME CtaInv, TensorMma
  PROVE  CtaInv'
<1>. USE DEF CtaInv
<1>1. /\ tensorQ # <<>> /\ Head(tensorQ).op = "mma"
      /\ tmem' = IF Head(tensorQ).accum THEN Append(tmem, smem) ELSE <<smem>>
      /\ tensorQ' = Tail(tensorQ)
      /\ UNCHANGED <<tmaBar, mmaBar, completed, pc, kTile, loads, smem, D, freed>>
  BY DEF TensorMma
<1>2. /\ pc[Lead] = "mma" /\ Computed = LeadTile /\ LeadTile \in Nat
      /\ Head(tensorQ) = DoMma /\ tensorQ # <<DoCommit>>
      /\ tensorQ' = <<DoCommit>> /\ tensorQ' # <<>>
  BY <1>1, QueueHead
<1>3. LeadTile' = LeadTile /\ Loaded' = Loaded /\ Computed' = Computed
      /\ DoCommit' = DoCommit
  BY <1>1 DEF LeadTile, Loaded, Computed, DoCommit
<1>4. smem = Stage(LeadTile)
  <2>1. \A op \in Operands : smem[op] = LeadTile
    BY <1>2 DEF StageInv
  <2>. QED
    BY <2>1 DEF CuteTypes, Stage
<1>5. tmem' = Partial(LeadTile + 1)
  <2>1. tmem = Partial(LeadTile)
    BY <1>2 DEF CoreInv
  <2>2. Head(tensorQ).accum <=> LeadTile # 0
    <3>1. DoMma.accum <=> LeadTile # 0
      BY Zenon DEF DoMma
    <3>. QED
      BY <1>2, <3>1
  <2>3. CASE LeadTile # 0
    BY <1>1, <1>2, <1>4, <2>1, <2>2, <2>3, OneMoreProduct
  <2>4. CASE LeadTile = 0
    <3>1. tmem' = <<smem>>
      BY <1>1, <2>2, <2>4, Zenon
    <3>2. smem = Stage(0)
      BY <1>4, <2>4
    <3>3. 0 \in Nat /\ LeadTile + 1 = 1
      BY <2>4
    <3>. QED
      BY <3>1, <3>2, <3>3, OneMoreProduct
  <2>. QED
    BY <2>3, <2>4
<1>6. CuteTypes'
  BY <1>1 DEF CuteTypes
<1>7. LeadInv'
  BY <1>1, <1>2, <1>3 DEF LeadInv
<1>8. StageInv'
  <2>1. \A op : Load(op)' = Load(op)
    BY <1>3 DEF Load
  <2>. QED
    BY <1>1, <1>3, <2>1 DEF StageInv
<1>9. CoreInv'
  BY <1>1, <1>2, <1>3, <1>5 DEF CoreInv
<1>10. WatchInv'
  BY <1>1, <1>3 DEF WatchInv
<1>11. FreeInv'
  BY <1>1 DEF FreeInv
<1>. QED
  BY <1>6, <1>7, <1>8, <1>9, <1>10, <1>11

LEMMA TensorCommitInv ==
  ASSUME CtaInv, TensorCommit
  PROVE  CtaInv'
<1>. USE DEF CtaInv
<1>1. /\ tensorQ # <<>> /\ Head(tensorQ).op = "commit"
      /\ mmaBar' = Arrive(mmaBar, 1)
      /\ completed' = IF mmaBar'.phase # mmaBar.phase
                      THEN [completed EXCEPT !["mma"] = Computed + 1] ELSE completed
      /\ tensorQ' = Tail(tensorQ)
      /\ UNCHANGED <<tmaBar, pc, kTile, loads, smem, tmem, D, freed>>
  BY DEF TensorCommit, Record, Computed
<1>2. /\ pc[Lead] = "mma" /\ Computed = LeadTile /\ LeadTile \in Nat
      /\ tensorQ = <<DoCommit>> /\ tensorQ' = <<>> /\ <<DoCommit>> # <<>>
  BY <1>1, QueueHead
<1>. DEFINE p == LeadTile % 2
<1>3. p \in {0, 1} /\ (LeadTile + 1) % 2 = 1 - p
  BY <1>2, Parity
<1>4. mmaBar = [phase |-> p, pending |-> 1, tx |-> 0]
  BY <1>2 DEF CoreInv
<1>. HIDE DEF p
<1>5. mmaBar' = [phase |-> 1 - p, pending |-> 1, tx |-> 0]
  BY <1>1, <1>4 DEF Arrive, Settle
<1>6. mmaBar'.phase # mmaBar.phase
  BY <1>3, <1>4, <1>5
<1>7. LeadTile' = LeadTile /\ Loaded' = Loaded /\ Computed' = LeadTile + 1
      /\ DoCommit' = DoCommit
  BY <1>1, <1>2, <1>6 DEF LeadTile, Loaded, Computed, CuteTypes, DoCommit
<1>8. CuteTypes'
  <2>1. completed' \in [{"tma", "mma"} -> Nat]
    BY <1>1, <1>2 DEF CuteTypes
  <2>. QED
    BY <1>1, <2>1 DEF CuteTypes
<1>9. LeadInv'
  BY <1>1, <1>2, <1>7 DEF LeadInv
<1>10. StageInv'
  <2>1. \A op : Load(op)' = Load(op)
    BY <1>7 DEF Load
  <2>. QED
    BY <1>1, <1>7, <2>1 DEF StageInv
<1>11. CoreInv'
  <2>1. tmem = Partial(LeadTile + 1)
    BY <1>2 DEF CoreInv
  <2>2. mmaBar' = [phase |-> Computed' % 2, pending |-> 1, tx |-> 0]
    BY <1>3, <1>5, <1>7
  <2>. QED
    BY <1>1, <1>2, <1>7, <2>1, <2>2 DEF CoreInv
<1>12. WatchInv'
  <2>1. \A w \in Warps : kTile[w] =< Computed'
    <3>. TAKE w \in Warps
    <3>1. kTile[w] =< LeadTile /\ kTile[w] \in Nat
      BY <1>2, CuteFacts DEF WatchInv, CuteTypes
    <3>. QED
      BY <1>2, <1>7, <3>1
  <2>. QED
    BY <1>1, <1>7, <2>1 DEF WatchInv
<1>13. FreeInv'
  BY <1>1 DEF FreeInv
<1>. QED
  BY <1>8, <1>9, <1>10, <1>11, <1>12, <1>13

LEMMA CuteNext ==
  ASSUME CtaInv, [CtaNext]_ctaVars
  PROVE  CtaInv'
<1>1. ASSUME UNCHANGED <<tmaBar, mmaBar, completed, pc, kTile, engineVars, D>>,
             freed' = freed \/ (freed' = TRUE /\ \A w \in Warps : pc[w] = "sync")
      PROVE  CtaInv'
  <2>1. LeadTile' = LeadTile /\ Loaded' = Loaded /\ Computed' = Computed
        /\ DoMma' = DoMma /\ DoCommit' = DoCommit /\ \A op : Load(op)' = Load(op)
    BY <1>1 DEF LeadTile, Loaded, Computed, DoMma, DoCommit, Load
  <2>2. CuteTypes' /\ LeadInv' /\ CoreInv'
    BY <1>1, <2>1 DEF CtaInv, CuteTypes, LeadInv, CoreInv, engineVars
  <2>3. StageInv' /\ WatchInv' /\ FreeInv'
    BY <1>1, <2>1 DEF CtaInv, StageInv, WatchInv, FreeInv, engineVars
  <2>. QED
    BY <2>2, <2>3 DEF CtaInv
<1>2. CASE \E w \in Warps : Warp(w)
  BY <1>2, ProduceInv, IssueInv, AwaitTmaInv, AwaitMmaInv, EpilogueInv DEF Warp
<1>3. CASE \E f \in loads : LoadLands(f)
  BY <1>3, LoadLandsInv
<1>4. CASE TensorMma \/ TensorCommit
  BY <1>4, TensorMmaInv, TensorCommitInv
<1>5. CASE Free
  BY <1>1, <1>5 DEF Free
<1>6. CASE UNCHANGED ctaVars
  <2>1. UNCHANGED <<tmaBar, mmaBar, completed, pc, kTile, engineVars, D>> /\ freed' = freed
    BY <1>6 DEF ctaVars
  <2>. QED
    BY <1>1, <2>1
<1>. QED
  BY <1>2, <1>3, <1>4, <1>5, <1>6 DEF CtaNext, Finished

------------------------------------------------------------------------------

\* The stage, the tensor core's queue, the accumulator and both barriers are where
\* the lead warp's place in its K loop says, and no warp has passed a phase that had
\* not completed.
THEOREM CuteInvariant == CtaSpec => []CtaInv
<1>1. CtaInit => CtaInv
  BY CuteInit
<1>2. CtaInv /\ [CtaNext]_ctaVars => CtaInv'
  BY CuteNext
<1>. QED
  BY <1>1, <1>2, PTL DEF CtaSpec

\* The two barriers protect the single stage for every number of warps and K tiles:
\* no copy lands under an MMA that is still to read it, and what a warp stores is
\* the whole K reduction even if the warp has been overtaken.
THEOREM CuteStageProtected == CtaSpec => []StageProtected
<1>1. ASSUME CtaInv PROVE StageProtected
  <2>. USE DEF CtaInv
  <2>1. loads # {} => tensorQ = <<>>
    BY <1>1 DEF StageInv, CoreInv
  <2>2. \A w \in Warps : D[w] \in {<<>>, Product}
    BY <1>1 DEF WatchInv
  <2>3. freed => loads = {} /\ tensorQ = <<>> /\ \A w \in Warps : D[w] = Product
    <3>1. freed => \A w \in Warps : pc[w] = "sync"
      BY <1>1 DEF FreeInv
    <3>. QED
      BY <1>1, <3>1, CuteFacts DEF StageInv, CoreInv, WatchInv
  <2>. QED
    BY <2>1, <2>2, <2>3 DEF StageProtected
<1>. QED
  BY <1>1, CuteInvariant, PTL
==============================================================================
