---------------------------- MODULE AtomicMailbox ----------------------------
(***************************************************************************)
(* The CTA-local half of the V2-V4 scheduler: the lane of one CTA, Me,     *)
(* hands each tile it claims (AtomicQueue) to the loader lane, the MMA     *)
(* lane and the 128 writeback threads through a one-slot mailbox guarded   *)
(* by a full and an empty mbarrier.  The other CTAs are present as lanes   *)
(* of the queue, whose own mailboxes may let them go on at any time.       *)
(*                                                                         *)
(* What a role does with a tile is one step here, Work; AtomicKernel puts  *)
(* the GEMM pipeline in its place.                                         *)
(***************************************************************************)
EXTENDS AtomicQueue, CtaRoles, Sequences, MBarrier

CONSTANT Me     \* the CTA whose mailbox is modelled

ASSUME MailboxAssumption == Me \in CTAs

VARIABLES
  mailbox,      \* the slot
  full, empty,  \* work_pipe's two barriers
  slotPs,       \* the lane's PipelineState on empty
  signal,       \* the lane has written the slot and not yet arrived on full
  rolePc,       \* label of each role
  readyPs,      \* _ready of each role's worker: its PipelineState on full
  got,          \* tile_id of each role's worker
  log,          \* history: what the lane put into the slot, in order
  taken         \* history: how many generations each role has read

slotVars == <<mailbox, full, slotPs, signal, log>>
roleVars == <<rolePc, readyPs, got, taken>>
mailboxVars == <<slotVars, empty, roleVars>>
cellVars == <<queueVars, mailboxVars>>

NoWork == -1

\* Faulty: the writeback is not waited for, or the lane counts itself.
TwoConsumers == 2
FourConsumers == 4

\* init_empty: the loader, the MMA and the writeback release each generation.
Consumers == 3

MailboxInit ==
  /\ Init
  /\ mailbox = 0
  /\ full = NewBar(1)
  /\ empty = NewBar(Consumers)
  /\ slotPs = Cursor(1)
  /\ signal = FALSE
  /\ rolePc = [r \in Roles |-> "await"]
  /\ readyPs = [r \in Roles |-> Cursor(0)]
  /\ got = [r \in Roles |-> 0]
  /\ log = <<>>
  /\ taken = [r \in Roles |-> 0]

------------------------------------------------------------------------------
(* The scheduler lane                                                      *)

\* Faulty: the lane does not wait for the slot.
AwaitNothing ==
  /\ ~signal
  /\ SlotEmpty(Me)
  /\ slotPs' = Advance(slotPs, 1)
  /\ UNCHANGED <<mailbox, full, empty, signal, log, roleVars>>

\* empty.wait passes: every consumer of the previous generation has released it.
AwaitSlot ==
  /\ ~signal
  /\ Passes(empty, slotPs.phase)
  /\ SlotEmpty(Me)
  /\ slotPs' = Advance(slotPs, 1)
  /\ UNCHANGED <<mailbox, full, empty, signal, log, roleVars>>

\* Claims do not touch the mailbox.
Acquire ==
  /\ ClaimMain(Me) \/ LeaveMain(Me) \/ ClaimTail(Me)
  /\ UNCHANGED mailboxVars

Deposit(item) ==
  /\ mailbox' = item
  /\ log' = Append(log, item)
  /\ signal' = TRUE
  /\ UNCHANGED <<full, empty, slotPs, roleVars>>

\* Faulty: the lane leaves without a word.
LeaveSilently == PublishDone(Me) /\ UNCHANGED mailboxVars

DepositTile == Publish(Me) /\ Deposit(chunkNext[Me])
DepositDone == PublishDone(Me) /\ Deposit(NoWork)

\* full.arrive, after the fence.
SignalFull ==
  /\ signal
  /\ full' = Arrive(full, 1)
  /\ signal' = FALSE
  /\ UNCHANGED <<mailbox, empty, slotPs, log, roleVars, queueVars>>

------------------------------------------------------------------------------
(* The roles: consume() of the two lanes, consume_wg() of the threads      *)

RoleGoto(r, label) == rolePc' = [rolePc EXCEPT ![r] = label]
\* Faulty: tile 0 is taken for the stop marker.
AfterZero(r) == IF got[r] =< 0 THEN "left" ELSE "work"

AfterRelease(r) == IF got[r] < 0 THEN "left" ELSE "work"

AwaitWork(r) ==
  /\ rolePc[r] = "await"
  /\ Passes(full, readyPs[r].phase)
  /\ readyPs' = [readyPs EXCEPT ![r] = Advance(@, 1)]
  /\ RoleGoto(r, "read")
  /\ UNCHANGED <<queueVars, slotVars, empty, got, taken>>

ReadMailbox(r) ==
  /\ rolePc[r] = "read"
  /\ got' = [got EXCEPT ![r] = mailbox]
  /\ taken' = [taken EXCEPT ![r] = @ + 1]
  /\ RoleGoto(r, IF r \in Threads THEN "sync" ELSE "release")
  /\ UNCHANGED <<queueVars, slotVars, empty, readyPs>>

\* warpgroup_sync(wg_id + 12): all threads have read before the leader releases.
ReadSync ==
  /\ \A w \in Threads : rolePc[w] = "sync"
  /\ rolePc' = [r \in Roles |-> CASE r \notin Threads -> rolePc[r]
                                 [] r = Leader -> "release"
                                 [] OTHER -> AfterRelease(r)]
  /\ UNCHANGED <<queueVars, slotVars, empty, readyPs, got, taken>>

\* empty.arrive; a negative tile ends the role's loop.
ReleaseSlot(r) ==
  /\ rolePc[r] = "release"
  /\ empty' = Arrive(empty, Consumers)
  /\ RoleGoto(r, AfterRelease(r))
  /\ UNCHANGED <<queueVars, slotVars, readyPs, got, taken>>

\* The role's loop body, however long it takes.
Work(r) ==
  /\ rolePc[r] = "work"
  /\ RoleGoto(r, "await")
  /\ UNCHANGED <<queueVars, slotVars, empty, readyPs, got, taken>>

Consume(r) == AwaitWork(r) \/ ReadMailbox(r) \/ ReleaseSlot(r)
MyLane == AwaitSlot \/ Acquire \/ DepositTile \/ DepositDone \/ SignalFull
OtherLane(c) == Lane(c) /\ UNCHANGED mailboxVars

MailboxFinished ==
  /\ \A r \in Roles : rolePc[r] = "left"
  /\ \A c \in CTAs : pc[c] = "done"
  /\ UNCHANGED cellVars

MailboxNext ==
  \/ MyLane
  \/ \E c \in CTAs \ {Me} : OtherLane(c)
  \/ \E r \in Roles : Consume(r) \/ Work(r)
  \/ ReadSync
  \/ MailboxFinished

\* As in AtomicQueue, and every role of the CTA is scheduled.
MailboxFairness ==
  /\ WF_cellVars(MyLane)
  /\ \A c \in CTAs \ {Me} : WF_cellVars(OtherLane(c))
  /\ \A r \in Roles : WF_cellVars(Consume(r) \/ Work(r))
  /\ WF_cellVars(ReadSync)

MailboxSafeSpec == MailboxInit /\ [][MailboxNext]_cellVars
MailboxSpec == MailboxSafeSpec /\ MailboxFairness

------------------------------------------------------------------------------
(* Properties                                                              *)

\* What the variables hold, for proofs to start from.
MailboxTypeOK ==
  /\ TypeOK
  /\ mailbox \in Int /\ full \in BarType(1) /\ empty \in BarType(Consumers)
  /\ slotPs \in CursorType(1) /\ signal \in BOOLEAN
  /\ rolePc \in [Roles -> {"await", "read", "sync", "release", "work", "left"}]
  /\ readyPs \in [Roles -> CursorType(1)]
  /\ got \in [Roles -> Int]
  /\ log \in Seq(Int)
  /\ taken \in [Roles -> Nat]

\* All roles see the same sequence of tiles: what a role took out of the mailbox
\* in its n-th round is what the lane put in in its n-th, whichever role is ahead.
\* The roles never work on different tiles of the same generation.
SameGeneration ==
  \A r \in Roles :
    /\ taken[r] =< Len(log)
    /\ taken[r] > 0 => got[r] = log[taken[r]]
    /\ rolePc[r] = "read" => taken[r] < Len(log) /\ mailbox = log[taken[r] + 1]

\* The lane overwrites the slot only after every loader, MMA and writeback thread
\* has read the generation in it.
ConsumedBeforeOverwrite ==
  [][Len(log') # Len(log) => \A r \in Roles : taken[r] = Len(log)]_cellVars

\* A role stops only because the queue is drained: it has been told so by the
\* lane, which found nothing left for any CTA.
StopsWhenDrained ==
  \A r \in Roles : rolePc[r] = "left" =>
    pc[Me] = "done" /\ Unclaimed = {} /\ taken[r] = Len(log)

\* The stop marker reaches every role: no role of the CTA waits for ever on the
\* mailbox, the lane does not wait for ever on a role that has left, and between
\* them the CTAs publish every tile.
EveryRoleStops ==
  <>((\A r \in Roles : rolePc[r] = "left") /\ \A t \in Tiles : visits[t] = 1)
=============================================================================
