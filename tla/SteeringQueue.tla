---------------------------- MODULE SteeringQueue ----------------------------
(***************************************************************************)
(* Mid-run steering of one stream: users submit, cancel and discard        *)
(* steers, generations replace each other, and each generation's owner     *)
(* drains the queue at its boundaries, applies what it drained one item    *)
(* at a time and puts back what it could not apply.  The store's methods   *)
(* are atomic (SteeringStore); everything between two of them interleaves. *)
(*                                                                         *)
(* A replaced generation's owner does not stop: it runs on, and only the   *)
(* generation fence of the store keeps it off its successor's steers.      *)
(***************************************************************************)
EXTENDS SteeringStore

CONSTANT StoreFaults    \* the store is remote: replies may be lost, calls may throw

ASSUME StoreFaultsAssumption == StoreFaults \in BOOLEAN

VARIABLES
    pc,         \* where each generation's owner is
    batch,      \* the drained items it has not applied yet
    source,     \* the steer each generation was created to recover
    recovery,   \* how far that recovery is
    delivered,  \* the steer parts in each generation's content, in order
    accepted,   \* history: every steer acknowledged with 202, in order
    lapsed      \* history: parked steers whose TTL ran out or that a version 1
                \* reader took away

owner   == <<pc, batch, source, recovery, delivered>>
history == <<accepted, lapsed>>
vars    == <<store, owner, history>>

PCs        == {"idle", "run", "apply", "restore", "final"}
Recoveries == {"none", "leased", "persisted", "committed", "failed"}

TypeOK ==
    /\ StoreTypeOK
    /\ pc \in [Gens -> PCs]
    /\ batch \in [Gens -> Seq(Steers)]
    /\ source \in [Gens -> Steers \cup {NoSteer}]
    /\ recovery \in [Gens -> Recoveries]
    /\ delivered \in [Gens -> Seq(Steers)]
    /\ accepted \in Seq(Steers)
    /\ lapsed \subseteq Steers

Init ==
    /\ StoreInit
    /\ pc = [g \in Gens |-> "idle"]
    /\ batch = [g \in Gens |-> <<>>]
    /\ source = [g \in Gens |-> NoSteer]
    /\ recovery = [g \in Gens |-> "none"]
    /\ delivered = [g \in Gens |-> <<>>]
    /\ accepted = <<>>
    /\ lapsed = {}

(***************************************************************************)
(* Users: the steer routes and the status route.                           *)
(***************************************************************************)

Enqueue(s) ==
    /\ StoreEnqueue(s)
    /\ accepted' = Append(accepted, s)
    /\ UNCHANGED <<owner, lapsed>>

ReadReceipt(s) == StoreReadReceipt(s) /\ UNCHANGED <<owner, history>>

Cancel(s, g) == StoreRemove(s, g) /\ UNCHANGED <<owner, history>>

Discard(s) == StoreDiscard(s) /\ UNCHANGED <<owner, history>>

LegacyClaim ==
    /\ StoreLegacyClaim
    /\ lapsed' = lapsed \cup Visible
    /\ UNCHANGED <<owner, accepted>>

\* A new turn, or the recovery of one parked or still pending steer.
CreateJob(rec) ==
    /\ StoreCreate(rec)
    /\ pc' = [pc EXCEPT ![job'.gen] = "run"]
    /\ source' = [source EXCEPT ![job'.gen] = rec]
    /\ recovery' = [recovery EXCEPT ![job'.gen] = IF rec = NoSteer THEN "none" ELSE "leased"]
    /\ UNCHANGED <<batch, delivered, history>>

\* The stop route: the owner learns of it only when its next call is refused.
StopJob(g) == StoreTerminate(g) /\ UNCHANGED <<owner, history>>

(***************************************************************************)
(* The generation's owner: drainAndBuildInjections and its three hooks.    *)
(***************************************************************************)

Claim(g) ==
    /\ StoreDrain(g)
    /\ pc' = [pc EXCEPT ![g] = "apply"]
    /\ batch' = [batch EXCEPT ![g] = queue]
    /\ UNCHANGED <<source, recovery, delivered, history>>

\* PostToolBatch and PreemptBoundary.
Drain(g) == pc[g] = "run" /\ Claim(g)

\* StopFinalize: claim, keep open for a planned continuation, or seal.
AdmitTerminal(g, allowClaim, keepOpen) ==
    /\ pc[g] = "run"
    /\ keepOpen => allowClaim
    /\ \/ /\ StoreSeal(g, allowClaim, keepOpen)
          /\ UNCHANGED <<owner, history>>
       \/ allowClaim /\ Claim(g)

Applied(g) ==
    LET rest == Tail(batch[g])
    IN  /\ batch' = [batch EXCEPT ![g] = rest]
        /\ pc' = [pc EXCEPT ![g] = IF rest = <<>> THEN "run" ELSE "apply"]
        /\ delivered' = [delivered EXCEPT ![g] = Append(@, Head(batch[g]))]
        /\ UNCHANGED <<source, recovery, history>>

\* applySteer: the part is pushed and its applied event settles the claim.
ApplyCommits(g) ==
    /\ pc[g] = "apply"
    /\ StoreDeliver(Head(batch[g]), g)
    /\ Applied(g)

\* Mutant: the emit fails after the claim was settled.
FailsAfterCommit(g) ==
    /\ pc[g] = "apply"
    /\ StoreDeliver(Head(batch[g]), g)
    /\ pc' = [pc EXCEPT ![g] = "restore"]
    /\ UNCHANGED <<batch, source, recovery, delivered, history>>

\* applySteer throws (the store fenced the call out, or the emit failed
\* before it): the part is rolled back, the item and its suffix go back.
ApplyFails(g) ==
    /\ pc[g] = "apply"
    /\ pc' = [pc EXCEPT ![g] = "restore"]
    /\ UNCHANGED <<store, batch, source, recovery, delivered, history>>

\* The remote append commits and its reply is lost: applySteer throws too.
ApplyReplyLost(g) ==
    /\ StoreFaults
    /\ pc[g] = "apply"
    /\ StoreDeliver(Head(batch[g]), g)
    /\ pc' = [pc EXCEPT ![g] = "restore"]
    /\ UNCHANGED <<batch, source, recovery, delivered, history>>

\* restoreClaimed, refused by the store or (remote) thrown: the items stay
\* claimed and the owner goes on.
Restore(g) ==
    /\ pc[g] = "restore"
    /\ pc' = [pc EXCEPT ![g] = "run"]
    /\ batch' = [batch EXCEPT ![g] = <<>>]
    /\ \/ StoreRestore(batch[g], g)
       \/ /\ ~Restorable(batch[g], g) \/ StoreFaults
          /\ UNCHANGED store
    /\ UNCHANGED <<source, recovery, delivered, history>>

\* A pause for approval; the owner is between boundaries.
Pause(g) == pc[g] = "run" /\ StorePause(g) /\ UNCHANGED <<owner, history>>

\* The decision resumes the run once the pause-persistence barrier is down:
\* the paused turn's recovery source has been committed by then.
Resume(g) ==
    /\ recovery[g] \in {"none", "committed"}
    /\ StoreResume(g)
    /\ UNCHANGED <<owner, history>>

\* The owner wins the terminal claim and starts the terminal persistence.
FinishRun(g) ==
    /\ pc[g] = "run"
    /\ StoreTerminate(g)
    /\ pc' = [pc EXCEPT ![g] = "final"]
    /\ UNCHANGED <<batch, source, recovery, delivered, history>>

\* The recovered turn's user message is written, under the terminal claim or
\* under the pause-persistence barrier ...
PersistUserMessage(g) ==
    /\ recovery[g] = "leased"
    /\ \/ pc[g] = "final"
       \/ pc[g] = "run" /\ job.gen = g /\ job.status = "requires_action"
    /\ recovery' = [recovery EXCEPT ![g] = "persisted"]
    /\ UNCHANGED <<store, pc, batch, source, delivered, history>>

\* ... and then the parked source is consumed.
ConsumeRecovered(g) ==
    /\ recovery[g] = "persisted"
    /\ recovery' = [recovery EXCEPT ![g] =
                      IF ConsumeAnswer(source[g], g) THEN "committed" ELSE "failed"]
    /\ StoreConsume(source[g], g)
    /\ UNCHANGED <<pc, batch, source, delivered, history>>

(***************************************************************************)
(* The store's timers.                                                     *)
(***************************************************************************)

ReapStale   == StoreReapStale /\ UNCHANGED <<owner, history>>
EvictOldest == StoreEvictOldest /\ UNCHANGED <<owner, history>>
DeleteJob   == StoreDelete /\ UNCHANGED <<owner, history>>

\* cleanup aborts a job whose approval expired undecided.
ExpireApproval ==
    /\ job.status = "requires_action"
    /\ StoreTerminate(job.gen)
    /\ UNCHANGED <<owner, history>>

ExpireParked ==
    /\ StoreExpireParked
    /\ lapsed' = lapsed \cup Items(parked)
    /\ UNCHANGED <<owner, accepted>>

Next ==
    \/ \E s \in Steers : Enqueue(s) \/ ReadReceipt(s) \/ Discard(s)
    \/ \E s \in Steers, g \in Gens : Cancel(s, g)
    \/ \E rec \in Steers \cup {NoSteer} : CreateJob(rec)
    \/ \E g \in Gens, allowClaim, keepOpen \in BOOLEAN : AdmitTerminal(g, allowClaim, keepOpen)
    \/ \E g \in Gens : \/ Drain(g) \/ ApplyCommits(g) \/ ApplyFails(g) \/ ApplyReplyLost(g)
                       \/ Restore(g) \/ Pause(g) \/ Resume(g) \/ StopJob(g) \/ FinishRun(g)
                       \/ PersistUserMessage(g) \/ ConsumeRecovered(g)
    \/ LegacyClaim \/ ReapStale \/ EvictOldest \/ ExpireApproval \/ DeleteJob \/ ExpireParked

Spec == Init /\ [][Next]_vars

(***************************************************************************)
(* Safety.                                                                 *)
(***************************************************************************)

\* No steer a client was told is accepted disappears (the rule every parking
\* path of the store is written for): the receipt of a steer names the one
\* place that holds it, and a leftover is parked until it lapses.
Accounted ==
    \A s \in Steers :
        /\ receipt[s].state = "none"    <=> s \notin Items(accepted)
        /\ receipt[s].state = "queued"  <=> s \in Items(queue)
        /\ receipt[s].state = "claimed" <=> s \in Items(claimed)
        /\ s \in Items(parked) => receipt[s].state = "leftover"
        /\ receipt[s].state = "leftover" => s \in Items(parked) \cup lapsed

\* Queue, claims and parked payload hold no steer twice: removeSteer throws
\* on a duplicate, and a duplicate would be injected twice.
NoDuplicates == Distinct(queue) /\ Distinct(claimed) /\ Distinct(parked)

\* Only steers of the current, active generation are queued or claimed; so
\* normalizeSteerReceipt, the repair of receipts whose generation died,
\* never has anything to repair.
ReceiptsNeedNoRepair ==
    \A s \in Steers : receipt[s].state # "none" => Normalized(s) = receipt[s]

\* A steer becomes part of at most one generation's content, once, and that
\* generation is the one that accepted it: a replaced owner never takes its
\* successor's steers.
DeliveredOnce ==
    \A g \in Gens :
        /\ Distinct(delivered[g])
        /\ \A s \in Items(delivered[g]) : receipt[s] = [state |-> "delivered", gen |-> g]

\* The converse, which the client relies on when it drops its pending chip: a
\* steer whose receipt says delivered is in that generation's content, as soon
\* as its owner is through with the boundary.
DeliveredIsInContent ==
    \A s \in Steers, g \in Gens :
        receipt[s] = [state |-> "delivered", gen |-> g] /\ pc[g] \in {"run", "final"}
          => s \in Items(delivered[g])

\* One steer is recovered into at most one turn, and never after it was
\* delivered inline.
RecoveredOnce ==
    \A g, h \in Gens :
        /\ recovery[g] = "committed" /\ recovery[h] = "committed" /\ source[g] = source[h]
             => g = h
        /\ recovery[g] = "committed" => receipt[source[g]].state # "delivered"

\* What the parking rules rest on, and what makes Accounted, NoDuplicates,
\* DeliveredOnce and ReceiptsNeedNoRepair inductive: a pending steer belongs
\* to the current generation while that is active, and an owner that applies
\* has something to apply.
PendingIsCurrent ==
    \A s \in Steers : receipt[s].state \in {"queued", "claimed"}
                        => Active /\ receipt[s].gen = job.gen

OwnersHoldWork == \A g \in Gens : pc[g] = "apply" => batch[g] # <<>>

IInv == /\ TypeOK
        /\ Accounted
        /\ NoDuplicates
        /\ PendingIsCurrent
        /\ DeliveredOnce
        /\ OwnersHoldWork

\* Once createJob has leased the source of a recovery, cancelling it would
\* invalidate a turn whose user message may already be persisted
\* (discardSteerLeftover's comment).  It does not hold (README, section 4).
RecoveryOwnsSource ==
    \A g \in Gens :
        recovery[g] = "persisted" /\ job.gen = g => receipt[source[g]].state # "cancelled"

(***************************************************************************)
(* What a step may never do.                                               *)
(***************************************************************************)

\* A sealed queue stays sealed until the next generation: nothing is accepted,
\* drained, restored or delivered behind the seal.
SealHolds ==
    closed /\ job'.gen = job.gen =>
        /\ closed' \/ job'.status = "absent"
        /\ accepted' = accepted
        /\ Items(queue') \subseteq Items(queue)
        /\ delivered' = delivered
SealIsFinal == [][SealHolds]_vars

\* A parked steer under the lease of an active recovery leaves the parked
\* payload only when that recovery commits it: no discard, version 1 read or
\* TTL takes it away first.
LeaseKept ==
    \A s \in Steers : Leased(s) =>
        s \in Items(parked') \/ (recovery'[job.gen] = "committed" /\ receipt'[s].state = "recovered")
LeaseProtects == [][LeaseKept]_vars

\* A settled receipt is final: a lost reply is answered the same way however
\* late the client asks.
SettledStates == {"delivered", "recovered", "cancelled"}
SettledKept   == \A s \in Steers : receipt[s].state \in SettledStates => receipt'[s] = receipt[s]
SettledIsFinal == [][SettledKept]_vars

(***************************************************************************)
(* Liveness.                                                               *)
(***************************************************************************)

\* A generation ends: its owner runs out of graph steps and finishes it, or
\* shows no activity any more and the cleanup interval reaps it.  Nothing else
\* is assumed of the owner; it may hang or crash at any point.
GenerationEnds(g) == FinishRun(g) \/ (job.gen = g /\ ReapStale)

\* Approvals have a deadline and the cleanup interval keeps running.
Fairness == WF_vars(ExpireApproval) /\ \A g \in Gens : SF_vars(GenerationEnds(g))

FairSpec == Spec /\ Fairness

\* No accepted steer stays undecided for ever.
EverySteerSettles ==
    \A s \in Steers : receipt[s].state \in {"queued", "claimed"}
                        ~> receipt[s].state \notin {"queued", "claimed"}

(***************************************************************************)
(* The abstract specification: one line of waiting steers.                 *)
(***************************************************************************)
Promise == INSTANCE SteerPromise WITH
    Turns     <- Gens,
    turn      <- job.gen,
    seen      <- Items(accepted),
    pending   <- claimed \o queue,
    answered  <- delivered,
    left      <- Items(parked),
    recovered <- {s \in Steers : receipt[s].state = "recovered"}

PromiseSpec == Promise!Spec
=============================================================================
