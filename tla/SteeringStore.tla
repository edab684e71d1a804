---------------------------- MODULE SteeringStore ----------------------------
(***************************************************************************)
(* The steering half of the job store for one stream: what                 *)
(* InMemoryJobStore keeps for a stream id and what each of its methods     *)
(* does to it.  Every method runs without an await between its checks and  *)
(* its writes, so a method is one operator over the unprimed and primed    *)
(* store variables; SteeringQueue decides who calls it and when.           *)
(*                                                                         *)
(* A steer is identified by its clientSteerId; the stream, its user and    *)
(* the receipt-safe generation protocol (version 2) are fixed.             *)
(***************************************************************************)
EXTENDS StoreLists

CONSTANTS
    Steers,     \* the steers clients may submit
    NoSteer,    \* no steer: what a generation that recovers nothing recovers
    MaxGen,     \* bound: generations createJob installs on the stream
    QueueMax    \* STEER_QUEUE_MAX_DEPTH

ASSUME NoSteerAssumption  == NoSteer \notin Steers
ASSUME MaxGenAssumption   == MaxGen \in Nat \ {0}
ASSUME QueueMaxAssumption == QueueMax \in Nat \ {0}

Gens  == 1..MaxGen
NoGen == 0

VARIABLES
    job,        \* the stream's record; gen survives the record as the retained epoch
    closed,     \* closedSteerQueues.has(streamId)
    queue,      \* steerQueues.get(streamId), oldest first
    claimed,    \* claimedSteers.get(streamId): drained, not yet durably applied
    parked,     \* the steers of parkedSteers.get(streamId)
    lease,      \* recoveringCreatedAt of each parked steer, or NoGen
    receipt     \* steerReceipts: state and accepting generation of each steer

store == <<job, closed, queue, claimed, parked, lease, receipt>>

Statuses      == {"absent", "running", "requires_action", "terminal"}
ReceiptStates == {"none", "queued", "claimed", "delivered", "leftover",
                  "recovered", "cancelled"}

StoreTypeOK ==
    /\ job \in [gen : 0..MaxGen, status : Statuses, recovers : Steers \cup {NoSteer}]
    /\ closed \in BOOLEAN
    /\ queue \in Seq(Steers)
    /\ claimed \in Seq(Steers)
    /\ parked \in Seq(Steers)
    /\ lease \in [Steers -> 0..MaxGen]
    /\ receipt \in [Steers -> [state : ReceiptStates, gen : 0..MaxGen]]

StoreInit ==
    /\ job = [gen |-> 0, status |-> "absent", recovers |-> NoSteer]
    /\ closed = FALSE
    /\ queue = <<>>
    /\ claimed = <<>>
    /\ parked = <<>>
    /\ lease = [s \in Steers |-> NoGen]
    /\ receipt = [s \in Steers |-> [state |-> "none", gen |-> NoGen]]

Exists == job.status # "absent"
Active == job.status \in {"running", "requires_action"}

\* Mutant: nobody looks at the seal.
OpenUnsealed(g) == job.gen = g /\ job.status = "running"

\* The guard enqueue, drain, restore, admission and delivery share: the call
\* names generation g, and that generation is running with an open queue.
Open(g) == job.gen = g /\ job.status = "running" /\ ~closed

\* Receipts of the steers in S all move to state st.
Settled(S, st) == [s \in Steers |-> IF s \in S THEN [receipt[s] EXCEPT !.state = st]
                                                ELSE receipt[s]]

(***************************************************************************)
(* Admission and cancellation: the steer routes.                           *)
(***************************************************************************)

\* enqueueSteerWithReceipt for a clientSteerId never seen before.
StoreEnqueue(s) ==
    /\ receipt[s].state = "none"
    /\ Open(job.gen)
    /\ Len(queue) < QueueMax
    /\ queue' = Append(queue, s)
    /\ receipt' = [receipt EXCEPT ![s] = [state |-> "queued", gen |-> job.gen]]
    /\ UNCHANGED <<job, closed, claimed, parked, lease>>

\* What normalizeSteerReceipt writes over the receipt of s: evidence that the
\* steer is still pending is trusted only from the same active generation.
Normalized(s) ==
    LET same == Active /\ job.gen = receipt[s].gen
        lost == \/ receipt[s].state = "claimed" /\ ~same
                \/ receipt[s].state = "queued" /\ (~same \/ s \notin Items(queue))
    IN  IF lost THEN [receipt[s] EXCEPT !.state = "leftover"] ELSE receipt[s]

\* getSteerReceipt, and the replay branch of enqueueSteerWithReceipt.
StoreReadReceipt(s) ==
    /\ receipt[s].state # "none"
    /\ receipt' = [receipt EXCEPT ![s] = Normalized(s)]
    /\ UNCHANGED <<job, closed, queue, claimed, parked, lease>>

\* removeSteer: a steer is cancelled only while it is still in the queue.
StoreRemove(s, g) ==
    /\ Exists /\ job.gen = g
    /\ receipt[s] = [state |-> "queued", gen |-> g]
    /\ \E i \in DOMAIN queue :
         /\ queue[i] = s
         /\ queue' = SubSeq(queue, 1, i - 1) \o SubSeq(queue, i + 1, Len(queue))
    /\ receipt' = Settled({s}, "cancelled")
    /\ UNCHANGED <<job, closed, claimed, parked, lease>>

(***************************************************************************)
(* Delivery: the calls the generation's owner makes.                       *)
(***************************************************************************)

\* drainSteers refuses a queue whose receipts do not match its items.
Drainable(g) == /\ Open(g)
                /\ queue # <<>>
                /\ \A s \in Items(queue) : receipt[s] = [state |-> "queued", gen |-> g]

\* drainSteers: everything queued becomes claimed, behind earlier claims.
StoreDrain(g) ==
    /\ Drainable(g)
    /\ queue' = <<>>
    /\ claimed' = claimed \o queue
    /\ receipt' = Settled(Items(queue), "claimed")
    /\ UNCHANGED <<job, closed, parked, lease>>

\* admitTerminalSteers when it seals: claiming is not allowed, or there is
\* nothing to claim and no continuation that would need the queue open.
StoreSeal(g, allowClaim, keepOpen) ==
    /\ Open(g)
    /\ ~allowClaim \/ (queue = <<>> /\ ~keepOpen)
    /\ closed' = TRUE
    /\ UNCHANGED <<job, queue, claimed, parked, lease, receipt>>

\* Mutant: the append asks only whether the stream has a job, of whichever
\* generation.
DeliverableAnyhow(s, g) == Exists

Deliverable(s, g) == /\ Open(g)
                     /\ s \in Items(claimed)
                     /\ receipt[s] = [state |-> "claimed", gen |-> g]

\* Mutant: the claim is settled, its receipt forgotten.
DeliverWithoutReceipt(s, g) ==
    /\ Deliverable(s, g)
    /\ claimed' = Without(claimed, {s})
    /\ UNCHANGED <<job, closed, queue, parked, lease, receipt>>

\* appendChunk with a deliveredSteer: claim and receipt settle together.
StoreDeliver(s, g) ==
    /\ Deliverable(s, g)
    /\ claimed' = Without(claimed, {s})
    /\ receipt' = Settled({s}, "delivered")
    /\ UNCHANGED <<job, closed, queue, parked, lease>>

Restorable(items, g) ==
    /\ Open(g)
    /\ Items(items) \subseteq Items(claimed)
    /\ \A s \in Items(items) : receipt[s] = [state |-> "claimed", gen |-> g]

\* Mutant: the restored items go to the queue's back.
RestoreAtBack(items, g) ==
    LET restored == Without(Within(claimed, Items(items)), Items(queue)) IN
    /\ Restorable(items, g)
    /\ claimed' = Without(claimed, Items(items))
    /\ queue' = queue \o restored
    /\ receipt' = Settled(Items(restored), "queued")
    /\ UNCHANGED <<job, closed, parked, lease>>

\* restoreClaimedSteers: the claimed items return to the queue's front, in
\* claim order, except those the queue already holds.
StoreRestore(items, g) ==
    LET restored == Without(Within(claimed, Items(items)), Items(queue)) IN
    /\ Restorable(items, g)
    /\ claimed' = Without(claimed, Items(items))
    /\ queue' = restored \o queue
    /\ receipt' = Settled(Items(restored), "queued")
    /\ UNCHANGED <<job, closed, parked, lease>>

(***************************************************************************)
(* Status changes.  Every way a generation can end parks what it accepted. *)
(***************************************************************************)

\* The state of the lists after parkQueuedSteers.
ParkedWithQueued == Merge(parked, claimed \o queue)

\* Mutant: claimed steers are dropped instead of parked.
ParkOnlyQueue ==
    /\ queue' = <<>>
    /\ claimed' = <<>>
    /\ parked' = Merge(parked, queue)
    /\ receipt' = Settled(Items(queue), "leftover")

ParkQueued ==
    /\ queue' = <<>>
    /\ claimed' = <<>>
    /\ parked' = ParkedWithQueued
    /\ receipt' = Settled(Items(claimed) \cup Items(queue), "leftover")

\* transitionStatus running -> requires_action, and back.
StorePause(g) ==
    /\ job.gen = g /\ job.status = "running"
    /\ job' = [job EXCEPT !.status = "requires_action"]
    /\ UNCHANGED <<closed, queue, claimed, parked, lease, receipt>>

StoreResume(g) ==
    /\ job.gen = g /\ job.status = "requires_action"
    /\ job' = [job EXCEPT !.status = "running"]
    /\ UNCHANGED <<closed, queue, claimed, parked, lease, receipt>>

\* Mutant: the status changes and the lists stay.
TerminateOnly(g) ==
    /\ job.gen = g /\ Active
    /\ job' = [job EXCEPT !.status = "terminal"]
    /\ UNCHANGED <<closed, queue, claimed, parked, lease, receipt>>

\* transitionStatusAndDrainSteers to complete, error or aborted.
StoreTerminate(g) ==
    /\ job.gen = g /\ Active
    /\ ParkQueued
    /\ job' = [job EXCEPT !.status = "terminal"]
    /\ UNCHANGED <<closed, lease>>

\* deleteJob drops the stream's lists without looking at them.
StoreDelete ==
    /\ job.status = "terminal"
    /\ job' = [job EXCEPT !.status = "absent"]
    /\ queue' = <<>>
    /\ claimed' = <<>>
    /\ closed' = FALSE
    /\ UNCHANGED <<parked, lease, receipt>>

ParkAndDelete ==
    /\ ParkQueued
    /\ job' = [job EXCEPT !.status = "absent"]
    /\ closed' = FALSE
    /\ UNCHANGED lease

\* cleanup's reap of a running job without activity, and evictOldest at the
\* store's job limit, which takes any job.
StoreReapStale   == job.status = "running" /\ ParkAndDelete
StoreEvictOldest == Exists /\ ParkAndDelete

\* createJob: the predecessor's steers are parked, every lease is dropped and
\* the steer the new generation recovers is leased to it.
StoreCreate(rec) ==
    /\ job.gen < MaxGen
    /\ rec # NoSteer =>
         rec \in Items(parked) \cup (IF Exists THEN Items(claimed) \cup Items(queue) ELSE {})
    /\ ParkQueued
    /\ lease' = [s \in Steers |-> IF s = rec THEN job.gen + 1 ELSE NoGen]
    /\ job' = [gen |-> job.gen + 1, status |-> "running", recovers |-> rec]
    /\ closed' = FALSE

(***************************************************************************)
(* Parked steers.                                                          *)
(***************************************************************************)

\* The running or paused generation holds the lease on parked steer s.
Leased(s) == /\ Active /\ job.recovers = s
             /\ s \in Items(parked) /\ lease[s] = job.gen

\* claimParkedSteersDetailed for a version 1 reader hands every unleased
\* steer over for good (a version 2 read changes nothing).
Visible == {s \in Items(parked) : ~Leased(s)}

StoreLegacyClaim ==
    /\ Visible # {}
    /\ parked' = Without(parked, Visible)
    /\ lease' = [s \in Steers |-> IF s \in Visible THEN NoGen ELSE lease[s]]
    /\ UNCHANGED <<job, closed, queue, claimed, receipt>>

\* Mutant: the leftover of a recovery in progress can be dropped.
DiscardAnyLeftover(s) ==
    /\ receipt[s].state = "leftover"
    /\ parked' = Without(parked, {s})
    /\ lease' = [lease EXCEPT ![s] = NoGen]
    /\ receipt' = Settled({s}, "cancelled")
    /\ UNCHANGED <<job, closed, queue, claimed>>

\* discardSteerLeftover: the user drops a leftover, unless the current
\* generation is active and recovers it.
StoreDiscard(s) ==
    /\ receipt[s].state = "leftover"
    /\ ~(Active /\ job.recovers = s)
    /\ parked' = Without(parked, {s})
    /\ lease' = [lease EXCEPT ![s] = NoGen]
    /\ receipt' = Settled({s}, "cancelled")
    /\ UNCHANGED <<job, closed, queue, claimed>>

\* consumeParkedSteer: what it answers generation g for its source s ...
ConsumeOwned(s, g)   == Exists /\ job.gen = g /\ job.recovers = s
ConsumeSettles(s, g) == /\ ConsumeOwned(s, g)
                        /\ s \in Items(parked) /\ lease[s] = g
                        /\ receipt[s].state = "leftover"
ConsumeAnswer(s, g)  == ConsumeSettles(s, g) \/ (ConsumeOwned(s, g) /\ parked = <<>>)

\* ... and what it does.
StoreConsume(s, g) ==
    IF ConsumeSettles(s, g)
    THEN /\ parked' = Without(parked, {s})
         /\ lease' = [lease EXCEPT ![s] = NoGen]
         /\ receipt' = Settled({s}, "recovered")
         /\ UNCHANGED <<job, closed, queue, claimed>>
    ELSE UNCHANGED store

\* The parked payload's TTL runs out; recovery leases extend it past the
\* generation that holds them.
StoreExpireParked ==
    /\ parked # <<>>
    /\ \A s \in Items(parked) : ~Leased(s)
    /\ parked' = <<>>
    /\ lease' = [s \in Steers |-> NoGen]
    /\ UNCHANGED <<job, closed, queue, claimed, receipt>>
=============================================================================
