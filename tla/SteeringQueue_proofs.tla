------------------------ MODULE SteeringQueue_proofs ------------------------
(***************************************************************************)
(* The safety of steering for every set of steers, number of generations   *)
(* and queue depth, over a local and over a remote store.  The inductive   *)
(* invariant is IInv; one lemma per action, and one for what every way of  *)
(* ending a generation does to the lists (ParkQueued).  Then the seal, the *)
(* leases, the recoveries, the content, and last the refinement of         *)
(* SteerPromise, each with the invariant it needs besides IInv.            *)
(***************************************************************************)
EXTENDS SteeringQueue, StoreLists_proofs

USE MaxGenAssumption, QueueMaxAssumption, NoSteerAssumption, StoreFaultsAssumption

ReceiptTypeOK == receipt \in [Steers -> [state : ReceiptStates, gen : 0..MaxGen]]

(***************************************************************************)
(* What the shared operators do.                                           *)
(***************************************************************************)

\* Settling moves exactly the named receipts and keeps their generations.
LEMMA SettledReceipts ==
  ASSUME ReceiptTypeOK, NEW S, NEW st \in ReceiptStates
  PROVE  /\ Settled(S, st) \in [Steers -> [state : ReceiptStates, gen : 0..MaxGen]]
         /\ \A s \in Steers : /\ s \in S => Settled(S, st)[s].state = st
                              /\ s \notin S => Settled(S, st)[s] = receipt[s]
                              /\ Settled(S, st)[s].gen = receipt[s].gen
BY DEF Settled, ReceiptTypeOK

\* A receipt is known by its state and its generation.
LEMMA ReceiptEqual ==
  ASSUME ReceiptTypeOK, NEW s \in Steers, NEW st, NEW g
  PROVE  receipt[s] = [state |-> st, gen |-> g] <=> receipt[s].state = st /\ receipt[s].gen = g
BY DEF ReceiptTypeOK

\* Whatever ends a generation leaves nothing pending and loses nothing.
LEMMA ParkQueuedKeeps ==
  ASSUME IInv, ParkQueued, UNCHANGED <<delivered, history>>
  PROVE  /\ queue' \in Seq(Steers) /\ claimed' \in Seq(Steers) /\ parked' \in Seq(Steers)
         /\ ReceiptTypeOK'
         /\ Accounted'
         /\ NoDuplicates'
         /\ PendingIsCurrent'
         /\ DeliveredOnce'
<1> DEFINE P == Items(claimed) \cup Items(queue)
<1>1. /\ queue \in Seq(Steers) /\ claimed \in Seq(Steers) /\ parked \in Seq(Steers)
      /\ ReceiptTypeOK
  BY DEF IInv, TypeOK, StoreTypeOK, ReceiptTypeOK
<1>2. Items(claimed) \cap Items(queue) = {}
  <2>1. Items(queue) \subseteq Steers
    BY <1>1, ItemsType
  <2> QED BY <2>1 DEF IInv, Accounted
<1>3. /\ claimed \o queue \in Seq(Steers)
      /\ Items(claimed \o queue) = P
      /\ Distinct(claimed \o queue)
  BY <1>1, <1>2, ConcatItems DEF IInv, NoDuplicates
<1>4. /\ parked' \in Seq(Steers)
      /\ Items(parked') = Items(parked) \cup P
      /\ Distinct(parked')
  <2>1. parked' = Merge(parked, claimed \o queue)
    BY DEF ParkQueued, ParkedWithQueued
  <2>2. Distinct(parked)
    BY DEF IInv, NoDuplicates
  <2> DEFINE q == claimed \o queue
  <2>3. q \in Seq(Steers) /\ Items(q) = P /\ Distinct(q)
    BY <1>3
  <2> HIDE DEF P, q
  <2>4. /\ Merge(parked, q) \in Seq(Steers)
        /\ Items(Merge(parked, q)) = Items(parked) \cup Items(q)
        /\ Distinct(Merge(parked, q))
    BY <1>1, <2>2, <2>3, MergeItems
  <2>5. parked' = Merge(parked, q)
    BY <2>1 DEF q
  <2> QED BY <2>3, <2>4, <2>5
<1>5. queue' = <<>> /\ claimed' = <<>> /\ Items(queue') = {} /\ Items(claimed') = {}
  BY DEF ParkQueued, Items
<1>6. /\ ReceiptTypeOK'
      /\ \A s \in Steers : /\ s \in P => receipt'[s].state = "leftover"
                           /\ s \notin P => receipt'[s] = receipt[s]
                           /\ receipt'[s].gen = receipt[s].gen
  <2>1. "leftover" \in ReceiptStates /\ receipt' = Settled(P, "leftover")
    BY DEF ReceiptStates, ParkQueued
  <2> QED BY <1>1, <2>1, SettledReceipts DEF ReceiptTypeOK
<1>7. \A s \in Steers : s \in P <=> receipt[s].state \in {"queued", "claimed"}
  BY DEF IInv, Accounted
<1> HIDE DEF P
<1>8. Accounted'
  <2>1. accepted' = accepted /\ lapsed' = lapsed
    BY DEF history
  <2>2. \A s \in Steers :
          /\ receipt[s].state = "none" <=> s \notin Items(accepted)
          /\ s \in Items(parked) => receipt[s].state = "leftover"
          /\ receipt[s].state = "leftover" => s \in Items(parked) \cup lapsed
    BY DEF IInv, Accounted
  <2> QED BY <1>4, <1>5, <1>6, <1>7, <2>1, <2>2 DEF Accounted
<1>9. NoDuplicates'
  BY <1>4, <1>5 DEF NoDuplicates, Distinct
<1>10. PendingIsCurrent'
  BY <1>6, <1>7 DEF PendingIsCurrent
<1>11. DeliveredOnce'
  <2>1. delivered' = delivered
    OBVIOUS
  <2>2. ASSUME NEW g \in Gens, NEW s \in Items(delivered[g])
        PROVE  receipt'[s] = receipt[s]
    <3>1. s \in Steers
      <4>1. delivered[g] \in Seq(Steers)
        BY DEF IInv, TypeOK
      <4> QED BY <4>1, ItemsType
    <3>2. receipt[s].state = "delivered"
      <4>1. receipt[s] = [state |-> "delivered", gen |-> g]
        BY DEF IInv, DeliveredOnce
      <4> QED BY <4>1
    <3> QED BY <1>6, <1>7, <3>1, <3>2
  <2> QED BY <2>1, <2>2 DEF IInv, DeliveredOnce
<1> QED BY <1>4, <1>5, <1>6, <1>8, <1>9, <1>10, <1>11

\* The invariant, unfolded once for the action lemmas.
LEMMA InvFacts ==
  ASSUME IInv
  PROVE  /\ queue \in Seq(Steers) /\ claimed \in Seq(Steers) /\ parked \in Seq(Steers)
         /\ accepted \in Seq(Steers)
         /\ Items(queue) \subseteq Steers /\ Items(claimed) \subseteq Steers
         /\ Items(parked) \subseteq Steers /\ Items(accepted) \subseteq Steers
         /\ Distinct(queue) /\ Distinct(claimed) /\ Distinct(parked)
         /\ ReceiptTypeOK
         /\ job.gen \in 0..MaxGen
         /\ \A s \in Steers :
              /\ receipt[s].state = "none"    <=> s \notin Items(accepted)
              /\ receipt[s].state = "queued"  <=> s \in Items(queue)
              /\ receipt[s].state = "claimed" <=> s \in Items(claimed)
              /\ s \in Items(parked) => receipt[s].state = "leftover"
              /\ receipt[s].state = "leftover" => s \in Items(parked) \cup lapsed
              /\ receipt[s].state = "queued" => Active /\ receipt[s].gen = job.gen
              /\ receipt[s].state = "claimed" => Active /\ receipt[s].gen = job.gen
<1>1. /\ queue \in Seq(Steers) /\ claimed \in Seq(Steers) /\ parked \in Seq(Steers)
      /\ accepted \in Seq(Steers) /\ job.gen \in 0..MaxGen /\ ReceiptTypeOK
  BY DEF IInv, TypeOK, StoreTypeOK, ReceiptTypeOK
<1>2. /\ Items(queue) \subseteq Steers /\ Items(claimed) \subseteq Steers
      /\ Items(parked) \subseteq Steers /\ Items(accepted) \subseteq Steers
  BY <1>1, ItemsType
<1> QED BY <1>1, <1>2 DEF IInv, Accounted, NoDuplicates, PendingIsCurrent

\* A step that adds nothing to any content and leaves delivered receipts alone
\* keeps DeliveredOnce.
LEMMA DeliveredKept ==
  ASSUME IInv, delivered' = delivered,
         \A s \in Steers : receipt[s].state = "delivered" => receipt'[s] = receipt[s]
  PROVE  DeliveredOnce'
<1>1. ASSUME NEW g \in Gens, NEW s \in Items(delivered[g])
      PROVE  receipt'[s] = [state |-> "delivered", gen |-> g]
  <2>1. s \in Steers
    <3>1. delivered[g] \in Seq(Steers)
      BY DEF IInv, TypeOK
    <3> QED BY <3>1, ItemsType
  <2>2. receipt[s] = [state |-> "delivered", gen |-> g]
    BY DEF IInv, DeliveredOnce
  <2> QED BY <2>1, <2>2
<1> QED BY <1>1 DEF IInv, DeliveredOnce

(***************************************************************************)
(* One lemma per action.                                                   *)
(***************************************************************************)

\* An accepted steer joins the back of the queue.
LEMMA EnqueueKeeps ==
  ASSUME IInv, NEW s \in Steers, Enqueue(s)
  PROVE  IInv'
<1>1. /\ receipt[s].state = "none" /\ job.status = "running"
      /\ queue' = Append(queue, s)
      /\ receipt' = [receipt EXCEPT ![s] = [state |-> "queued", gen |-> job.gen]]
      /\ accepted' = Append(accepted, s)
      /\ UNCHANGED <<job, closed, claimed, parked, lease, pc, batch, source, recovery,
                     delivered, lapsed>>
  BY DEF Enqueue, StoreEnqueue, Open, owner
<1>2. /\ queue' \in Seq(Steers) /\ Items(queue') = Items(queue) \cup {s} /\ Distinct(queue')
      /\ accepted' \in Seq(Steers) /\ Items(accepted') = Items(accepted) \cup {s}
  <2>1. s \notin Items(queue)
    BY <1>1, InvFacts
  <2> QED BY <1>1, <2>1, InvFacts, AppendItems
<1>3. /\ ReceiptTypeOK'
      /\ receipt'[s].state = "queued" /\ receipt'[s].gen = job.gen
      /\ \A r \in Steers \ {s} : receipt'[r] = receipt[r]
  BY <1>1, InvFacts DEF ReceiptTypeOK, ReceiptStates
<1>4. TypeOK'
  BY <1>1, <1>2, <1>3 DEF IInv, TypeOK, StoreTypeOK, ReceiptTypeOK
<1>5. Accounted'
  BY <1>1, <1>2, <1>3, InvFacts DEF Accounted
<1>6. NoDuplicates'
  BY <1>1, <1>2, InvFacts DEF NoDuplicates
<1>7. PendingIsCurrent'
  BY <1>1, <1>3, InvFacts DEF PendingIsCurrent, Active
<1>8. DeliveredOnce'
  BY <1>1, <1>3, DeliveredKept
<1>9. OwnersHoldWork'
  BY <1>1 DEF IInv, OwnersHoldWork
<1> QED BY <1>4, <1>5, <1>6, <1>7, <1>8, <1>9 DEF IInv

\* A receipt is only read when the invariant makes the repair the identity.
LEMMA NormalizedIsIdentity ==
  ASSUME IInv, NEW s \in Steers
  PROVE  Normalized(s) = receipt[s]
BY InvFacts DEF Normalized

\* Reading a receipt repairs nothing.
LEMMA ReadReceiptKeeps ==
  ASSUME IInv, NEW s \in Steers, ReadReceipt(s)
  PROVE  IInv'
<1>1. receipt' = receipt
  BY NormalizedIsIdentity, InvFacts DEF ReadReceipt, StoreReadReceipt, ReceiptTypeOK
<1>2. UNCHANGED vars
  BY <1>1 DEF ReadReceipt, StoreReadReceipt, vars, store, owner, history
<1> QED BY <1>2 DEF vars, store, owner, history, IInv, TypeOK, StoreTypeOK, Accounted,
                    NoDuplicates, PendingIsCurrent, Active, DeliveredOnce, OwnersHoldWork

\* A cancelled steer leaves the queue and nothing else does.
LEMMA CancelKeeps ==
  ASSUME IInv, NEW s \in Steers, NEW g \in Gens, Cancel(s, g)
  PROVE  IInv'
<1>1. /\ receipt[s].state = "queued"
      /\ receipt' = Settled({s}, "cancelled")
      /\ UNCHANGED <<job, closed, claimed, parked, lease, pc, batch, source, recovery,
                     delivered, accepted, lapsed>>
  BY DEF Cancel, StoreRemove, owner, history
<1>2. PICK i \in DOMAIN queue :
         /\ queue[i] = s
         /\ queue' = SubSeq(queue, 1, i - 1) \o SubSeq(queue, i + 1, Len(queue))
  BY DEF Cancel, StoreRemove
<1>3. queue' \in Seq(Steers) /\ Items(queue') = Items(queue) \ {s} /\ Distinct(queue')
  BY <1>2, InvFacts, SpliceItems
<1>4. /\ ReceiptTypeOK'
      /\ receipt'[s].state = "cancelled"
      /\ \A r \in Steers \ {s} : receipt'[r] = receipt[r]
  <2>1. "cancelled" \in ReceiptStates
    BY DEF ReceiptStates
  <2> QED BY <1>1, <2>1, InvFacts, SettledReceipts DEF ReceiptTypeOK
<1>5. TypeOK'
  BY <1>1, <1>3, <1>4 DEF IInv, TypeOK, StoreTypeOK, ReceiptTypeOK
<1>6. Accounted'
  BY <1>1, <1>3, <1>4, InvFacts DEF Accounted
<1>7. NoDuplicates'
  BY <1>1, <1>3, InvFacts DEF NoDuplicates
<1>8. PendingIsCurrent'
  BY <1>1, <1>4, InvFacts DEF PendingIsCurrent, Active
<1>9. DeliveredOnce'
  BY <1>1, <1>4, DeliveredKept
<1>10. OwnersHoldWork'
  BY <1>1 DEF IInv, OwnersHoldWork
<1> QED BY <1>5, <1>6, <1>7, <1>8, <1>9, <1>10 DEF IInv

\* Steps that take steers out of the parked payload: R leaves it, and the
\* receipts outside R stay.
LEMMA UnparkKeeps ==
  ASSUME IInv, NEW R,
         parked' = Without(parked, R), lease' \in [Steers -> 0..MaxGen], ReceiptTypeOK',
         \A s \in Steers : receipt'[s] # receipt[s] =>
            /\ s \in R /\ receipt[s].state = "leftover"
            /\ receipt'[s].state \in {"cancelled", "recovered"},
         \A s \in R : s \in Items(parked) => receipt'[s].state # "leftover" \/ s \in lapsed',
         lapsed \subseteq lapsed', lapsed' \subseteq Steers,
         UNCHANGED <<job, closed, queue, claimed, pc, batch, source, delivered, accepted>>,
         recovery' \in [Gens -> Recoveries]
  PROVE  IInv'
<1>1. /\ parked' \in Seq(Steers) /\ Items(parked') = Items(parked) \ R /\ Distinct(parked')
  BY InvFacts, WithoutItems
<1>2. TypeOK'
  BY <1>1 DEF IInv, TypeOK, StoreTypeOK, ReceiptTypeOK
<1>3. Accounted'
  <2>1. SUFFICES ASSUME NEW s \in Steers
                 PROVE  /\ receipt'[s].state = "none"    <=> s \notin Items(accepted)
                        /\ receipt'[s].state = "queued"  <=> s \in Items(queue)
                        /\ receipt'[s].state = "claimed" <=> s \in Items(claimed)
                        /\ s \in Items(parked') => receipt'[s].state = "leftover"
                        /\ receipt'[s].state = "leftover" => s \in Items(parked') \cup lapsed'
    BY DEF Accounted
  <2>2. CASE receipt'[s] = receipt[s]
    BY <1>1, <2>2, InvFacts
  <2>3. CASE receipt'[s] # receipt[s]
    BY <1>1, <2>3, InvFacts
  <2> QED BY <2>2, <2>3
<1>4. NoDuplicates'
  BY <1>1, InvFacts DEF NoDuplicates
<1>5. PendingIsCurrent'
  BY InvFacts DEF PendingIsCurrent, Active
<1>6. DeliveredOnce'
  <2>1. \A s \in Steers : receipt[s].state = "delivered" => receipt'[s] = receipt[s]
    OBVIOUS
  <2> QED BY <2>1, DeliveredKept
<1>7. OwnersHoldWork'
  BY DEF IInv, OwnersHoldWork
<1> QED BY <1>2, <1>3, <1>4, <1>5, <1>6, <1>7 DEF IInv

\* A discarded leftover leaves the parked payload as cancelled.
LEMMA DiscardKeeps ==
  ASSUME IInv, NEW s \in Steers, Discard(s)
  PROVE  IInv'
<1>1. /\ receipt[s].state = "leftover"
      /\ parked' = Without(parked, {s})
      /\ lease' = [lease EXCEPT ![s] = NoGen]
      /\ receipt' = Settled({s}, "cancelled")
      /\ UNCHANGED <<job, closed, queue, claimed, pc, batch, source, recovery, delivered,
                     accepted, lapsed>>
  BY DEF Discard, StoreDiscard, owner, history
<1>2. /\ ReceiptTypeOK'
      /\ receipt'[s].state = "cancelled"
      /\ \A r \in Steers \ {s} : receipt'[r] = receipt[r]
  <2>1. "cancelled" \in ReceiptStates
    BY DEF ReceiptStates
  <2> QED BY <1>1, <2>1, InvFacts, SettledReceipts DEF ReceiptTypeOK
<1>3. lease' \in [Steers -> 0..MaxGen] /\ lapsed' \subseteq Steers /\ recovery' \in [Gens -> Recoveries]
  BY <1>1 DEF IInv, TypeOK, StoreTypeOK, NoGen
<1>4. \A r \in Steers : receipt'[r] # receipt[r] =>
        /\ r \in {s} /\ receipt[r].state = "leftover"
        /\ receipt'[r].state \in {"cancelled", "recovered"}
  BY <1>1, <1>2
<1>5. \A r \in {s} : r \in Items(parked) => receipt'[r].state # "leftover" \/ r \in lapsed'
  BY <1>2
<1>6. /\ parked' = Without(parked, {s}) /\ ReceiptTypeOK' /\ lapsed \subseteq lapsed'
      /\ UNCHANGED <<job, closed, queue, claimed, pc, batch, source, delivered, accepted>>
  BY <1>1, <1>2
<1> QED BY <1>3, <1>4, <1>5, <1>6, UnparkKeeps

\* A version 1 read takes every unleased steer away.
LEMMA LegacyClaimKeeps ==
  ASSUME IInv, LegacyClaim
  PROVE  IInv'
<1>1. /\ parked' = Without(parked, Visible)
      /\ lease' = [s \in Steers |-> IF s \in Visible THEN NoGen ELSE lease[s]]
      /\ lapsed' = lapsed \cup Visible
      /\ UNCHANGED <<job, closed, queue, claimed, receipt, pc, batch, source, recovery,
                     delivered, accepted>>
  BY DEF LegacyClaim, StoreLegacyClaim, owner
<1>2. /\ lease' \in [Steers -> 0..MaxGen] /\ recovery' \in [Gens -> Recoveries]
      /\ lapsed \subseteq Steers
  BY <1>1 DEF IInv, TypeOK, StoreTypeOK, NoGen
<1>3. Visible \subseteq Steers
  BY InvFacts DEF Visible
<1>4. ReceiptTypeOK'
  BY <1>1, InvFacts DEF ReceiptTypeOK
<1> QED BY <1>1, <1>2, <1>3, <1>4, UnparkKeeps

\* The parked payload lapses as a whole.
LEMMA ExpireParkedKeeps ==
  ASSUME IInv, ExpireParked
  PROVE  IInv'
<1>1. /\ parked' = <<>>
      /\ lease' = [s \in Steers |-> NoGen]
      /\ lapsed' = lapsed \cup Items(parked)
      /\ UNCHANGED <<job, closed, queue, claimed, receipt, pc, batch, source, recovery,
                     delivered, accepted>>
  BY DEF ExpireParked, StoreExpireParked, owner
<1>2. Items(parked') = {} /\ Distinct(parked')
  BY <1>1 DEF Items, Distinct
<1>3. TypeOK'
  BY <1>1, InvFacts DEF IInv, TypeOK, StoreTypeOK, NoGen
<1>4. Accounted'
  BY <1>1, <1>2, InvFacts DEF Accounted
<1>5. NoDuplicates'
  BY <1>1, <1>2, InvFacts DEF NoDuplicates
<1>6. PendingIsCurrent'
  BY <1>1, InvFacts DEF PendingIsCurrent, Active
<1>7. DeliveredOnce'
  BY <1>1, DeliveredKept
<1>8. OwnersHoldWork'
  BY <1>1 DEF IInv, OwnersHoldWork
<1> QED BY <1>3, <1>4, <1>5, <1>6, <1>7, <1>8 DEF IInv

\* A new generation starts with empty lists: its predecessor's are parked.
LEMMA CreateJobKeeps ==
  ASSUME IInv, NEW rec \in Steers \cup {NoSteer}, CreateJob(rec)
  PROVE  IInv'
<1>1. /\ ParkQueued /\ job.gen < MaxGen
      /\ lease' = [s \in Steers |-> IF s = rec THEN job.gen + 1 ELSE NoGen]
      /\ job' = [gen |-> job.gen + 1, status |-> "running", recovers |-> rec]
      /\ closed' = FALSE
      /\ pc' = [pc EXCEPT ![job'.gen] = "run"]
      /\ source' = [source EXCEPT ![job'.gen] = rec]
      /\ recovery' = [recovery EXCEPT ![job'.gen] = IF rec = NoSteer THEN "none" ELSE "leased"]
      /\ UNCHANGED <<batch, delivered, history>>
  BY DEF CreateJob, StoreCreate
<1>2. /\ queue' \in Seq(Steers) /\ claimed' \in Seq(Steers) /\ parked' \in Seq(Steers)
      /\ ReceiptTypeOK' /\ Accounted' /\ NoDuplicates' /\ PendingIsCurrent' /\ DeliveredOnce'
  BY <1>1, ParkQueuedKeeps
<1>3. job'.gen \in Gens /\ job'.gen = job.gen + 1
  BY <1>1, InvFacts DEF Gens
<1>4. TypeOK'
  <2>1. /\ job' \in [gen : 0..MaxGen, status : Statuses, recovers : Steers \cup {NoSteer}]
        /\ lease' \in [Steers -> 0..MaxGen]
    BY <1>1, InvFacts DEF Statuses, NoGen
  <2>2. /\ pc' \in [Gens -> PCs] /\ source' \in [Gens -> Steers \cup {NoSteer}]
        /\ recovery' \in [Gens -> Recoveries]
    BY <1>1, <1>3 DEF IInv, TypeOK, PCs, Recoveries
  <2> QED BY <1>1, <1>2, <2>1, <2>2 DEF IInv, TypeOK, StoreTypeOK, ReceiptTypeOK, history
<1>5. OwnersHoldWork'
  BY <1>1, <1>3 DEF IInv, OwnersHoldWork, TypeOK
<1> QED BY <1>2, <1>4, <1>5 DEF IInv

\* The ways of ending a generation that leave the owner where it is, and the
\* one in which it moves on to the terminal persistence.
LEMMA EndKeeps ==
  ASSUME IInv, ParkQueued, UNCHANGED <<lease, batch, source, recovery, delivered, history>>,
         NEW st \in Statuses, job' = [job EXCEPT !.status = st], closed' \in BOOLEAN,
         pc' \in [Gens -> PCs],
         \A g \in Gens : pc'[g] = "apply" => pc[g] = "apply"
  PROVE  IInv'
<1>1. /\ queue' \in Seq(Steers) /\ claimed' \in Seq(Steers) /\ parked' \in Seq(Steers)
      /\ ReceiptTypeOK' /\ Accounted' /\ NoDuplicates' /\ PendingIsCurrent' /\ DeliveredOnce'
  BY ParkQueuedKeeps
<1>2. TypeOK'
  BY <1>1 DEF IInv, TypeOK, StoreTypeOK, ReceiptTypeOK, history
<1>3. OwnersHoldWork'
  BY DEF IInv, OwnersHoldWork
<1> QED BY <1>1, <1>2, <1>3 DEF IInv

\* The stop route and the timers that end a generation behind its owner.
LEMMA StopKeeps ==
  ASSUME IInv,
         \/ \E g \in Gens : StopJob(g)
         \/ ReapStale \/ EvictOldest \/ ExpireApproval
  PROVE  IInv'
<1>1. /\ ParkQueued /\ UNCHANGED <<lease, pc, batch, source, recovery, delivered, history>>
      /\ \E st \in {"terminal", "absent"} : job' = [job EXCEPT !.status = st]
      /\ closed' \in {closed, FALSE}
  BY DEF StopJob, ReapStale, EvictOldest, ExpireApproval, StoreTerminate, StoreReapStale,
         StoreEvictOldest, ParkAndDelete, owner
<1>2. closed' \in BOOLEAN /\ pc' \in [Gens -> PCs]
  BY <1>1 DEF IInv, TypeOK, StoreTypeOK
<1>3. "terminal" \in Statuses /\ "absent" \in Statuses
  BY DEF Statuses
<1> QED BY <1>1, <1>2, <1>3, EndKeeps

\* The owner ends its own generation.
LEMMA FinishRunKeeps ==
  ASSUME IInv, NEW g \in Gens, FinishRun(g)
  PROVE  IInv'
<1>1. /\ ParkQueued /\ UNCHANGED <<closed, lease, batch, source, recovery, delivered, history>>
      /\ job' = [job EXCEPT !.status = "terminal"]
      /\ pc' = [pc EXCEPT ![g] = "final"]
  BY DEF FinishRun, StoreTerminate
<1>2. closed' \in BOOLEAN /\ pc' \in [Gens -> PCs]
  BY <1>1 DEF IInv, TypeOK, StoreTypeOK, PCs
<1>3. \A h \in Gens : pc'[h] = "apply" => pc[h] = "apply"
  BY <1>1 DEF IInv, TypeOK
<1>4. "terminal" \in Statuses
  BY DEF Statuses
<1> QED BY <1>1, <1>2, <1>3, <1>4, EndKeeps

\* deleteJob throws the lists away unseen; a terminal job's are empty.
LEMMA DeleteJobKeeps ==
  ASSUME IInv, DeleteJob
  PROVE  IInv'
<1>1. /\ job.status = "terminal" /\ job' = [job EXCEPT !.status = "absent"]
      /\ queue' = <<>> /\ claimed' = <<>> /\ closed' = FALSE
      /\ UNCHANGED <<parked, lease, receipt, pc, batch, source, recovery, delivered, history>>
  BY DEF DeleteJob, StoreDelete, owner
<1>2. ~Active
  BY <1>1 DEF Active
<1>3. queue = <<>> /\ claimed = <<>>
  <2>1. Items(queue) = {} /\ Items(claimed) = {}
    BY <1>2, InvFacts
  <2> QED BY <2>1, InvFacts, ItemsType
<1>4. TypeOK'
  BY <1>1, <1>3 DEF IInv, TypeOK, StoreTypeOK, Statuses, history
<1>5. Accounted' /\ NoDuplicates'
  BY <1>1, <1>3 DEF IInv, Accounted, NoDuplicates, history
<1>6. PendingIsCurrent'
  BY <1>1, <1>2, InvFacts DEF PendingIsCurrent
<1>7. DeliveredOnce' /\ OwnersHoldWork'
  BY <1>1 DEF IInv, DeliveredOnce, OwnersHoldWork
<1> QED BY <1>4, <1>5, <1>6, <1>7 DEF IInv

\* Steps that touch no list and no receipt and leave an active generation active.
LEMMA QuietKeeps ==
  ASSUME IInv,
         UNCHANGED <<queue, claimed, parked, lease, receipt, batch, source, delivered, history>>,
         NEW st \in Statuses, job' = [job EXCEPT !.status = st], Active => Active',
         closed' \in BOOLEAN, pc' \in [Gens -> PCs], recovery' \in [Gens -> Recoveries],
         \A g \in Gens : pc'[g] = "apply" => pc[g] = "apply"
  PROVE  IInv'
<1>1. TypeOK'
  BY DEF IInv, TypeOK, StoreTypeOK, history
<1>2. Accounted' /\ NoDuplicates' /\ DeliveredOnce'
  BY DEF IInv, Accounted, NoDuplicates, DeliveredOnce, history
<1>3. job'.gen = job.gen
  BY DEF IInv, TypeOK, StoreTypeOK
<1>4. PendingIsCurrent'
  BY <1>3 DEF IInv, PendingIsCurrent
<1>5. OwnersHoldWork'
  BY DEF IInv, OwnersHoldWork
<1> QED BY <1>1, <1>2, <1>4, <1>5 DEF IInv

\* Pausing for approval and resuming leave the lists alone.
LEMMA PauseKeeps ==
  ASSUME IInv, NEW g \in Gens, Pause(g) \/ Resume(g)
  PROVE  IInv'
<1>1. /\ \E st \in {"requires_action", "running"} : job' = [job EXCEPT !.status = st]
      /\ UNCHANGED <<closed, queue, claimed, parked, lease, receipt, pc, batch, source,
                     recovery, delivered, history>>
  BY DEF Pause, Resume, StorePause, StoreResume, owner
<1>2. Active'
  BY <1>1 DEF Active, IInv, TypeOK, StoreTypeOK
<1>3. closed' \in BOOLEAN /\ pc' \in [Gens -> PCs] /\ recovery' \in [Gens -> Recoveries]
  BY <1>1 DEF IInv, TypeOK, StoreTypeOK
<1>4. "requires_action" \in Statuses /\ "running" \in Statuses
  BY DEF Statuses
<1> QED BY <1>1, <1>2, <1>3, <1>4, QuietKeeps

\* Steps of the owner that leave the store alone, and the seal.
LEMMA OwnerKeeps ==
  ASSUME IInv, UNCHANGED <<job, queue, claimed, parked, lease, receipt, batch, source,
                           delivered, history>>,
         closed' \in BOOLEAN, pc' \in [Gens -> PCs], recovery' \in [Gens -> Recoveries],
         \A g \in Gens : pc'[g] = "apply" => pc[g] = "apply"
  PROVE  IInv'
<1>1. job.status \in Statuses /\ job' = [job EXCEPT !.status = job.status]
  BY DEF IInv, TypeOK, StoreTypeOK
<1>2. Active => Active'
  BY DEF Active
<1> QED BY <1>1, <1>2, QuietKeeps

\* The terminal seal only closes the queue.
LEMMA SealKeeps ==
  ASSUME IInv, NEW g \in Gens, NEW allowClaim, NEW keepOpen,
         StoreSeal(g, allowClaim, keepOpen), UNCHANGED <<owner, history>>
  PROVE  IInv'
<1>1. closed' = TRUE /\ UNCHANGED <<job, queue, claimed, parked, lease, receipt>>
  BY DEF StoreSeal
<1>2. UNCHANGED <<pc, batch, source, recovery, delivered, history>>
  BY DEF owner
<1>3. closed' \in BOOLEAN /\ pc' \in [Gens -> PCs] /\ recovery' \in [Gens -> Recoveries]
  BY <1>1, <1>2 DEF IInv, TypeOK
<1> QED BY <1>1, <1>2, <1>3, OwnerKeeps

\* A failed application leaves the claim for restoring.
LEMMA ApplyFailsKeeps ==
  ASSUME IInv, NEW g \in Gens, ApplyFails(g)
  PROVE  IInv'
<1>1. /\ pc' = [pc EXCEPT ![g] = "restore"]
      /\ UNCHANGED <<job, closed, queue, claimed, parked, lease, receipt, batch, source,
                     recovery, delivered, history>>
  BY DEF ApplyFails, store
<1>2. /\ closed' \in BOOLEAN /\ pc' \in [Gens -> PCs] /\ recovery' \in [Gens -> Recoveries]
      /\ \A h \in Gens : pc'[h] = "apply" => pc[h] = "apply"
  BY <1>1 DEF IInv, TypeOK, StoreTypeOK, PCs
<1> QED BY <1>1, <1>2, OwnerKeeps

\* Writing the recovered turn's user message does not touch the store.
LEMMA PersistKeeps ==
  ASSUME IInv, NEW g \in Gens, PersistUserMessage(g)
  PROVE  IInv'
<1>1. /\ recovery' = [recovery EXCEPT ![g] = "persisted"]
      /\ UNCHANGED <<job, closed, queue, claimed, parked, lease, receipt, pc, batch, source,
                     delivered, history>>
  BY DEF PersistUserMessage, store
<1>2. closed' \in BOOLEAN /\ pc' \in [Gens -> PCs] /\ recovery' \in [Gens -> Recoveries]
  BY <1>1 DEF IInv, TypeOK, StoreTypeOK, Recoveries
<1> QED BY <1>1, <1>2, OwnerKeeps

\* A recovery consumes its parked source, or is refused and changes nothing.
LEMMA ConsumeKeeps ==
  ASSUME IInv, NEW g \in Gens, ConsumeRecovered(g)
  PROVE  IInv'
<1> DEFINE s == source[g]
<1>1. /\ StoreConsume(s, g)
      /\ UNCHANGED <<pc, batch, source, delivered, history>>
  BY DEF ConsumeRecovered
<1>2. recovery' \in [Gens -> Recoveries] /\ pc' \in [Gens -> PCs]
  BY DEF ConsumeRecovered, IInv, TypeOK, Recoveries
<1>3. CASE ConsumeSettles(s, g)
  <2>1. /\ parked' = Without(parked, {s})
        /\ lease' = [lease EXCEPT ![s] = NoGen]
        /\ receipt' = Settled({s}, "recovered")
        /\ UNCHANGED <<job, closed, queue, claimed>>
        /\ s \in Items(parked) /\ receipt[s].state = "leftover"
    BY <1>1, <1>3 DEF StoreConsume, ConsumeSettles
  <2>2. s \in Steers
    BY <2>1, InvFacts
  <2> HIDE DEF s
  <2>3. /\ ReceiptTypeOK'
        /\ receipt'[s].state = "recovered"
        /\ \A r \in Steers \ {s} : receipt'[r] = receipt[r]
    <3>1. "recovered" \in ReceiptStates
      BY DEF ReceiptStates
    <3> QED BY <2>1, <2>2, <3>1, InvFacts, SettledReceipts DEF ReceiptTypeOK
  <2>4. lapsed' = lapsed /\ accepted' = accepted
    BY <1>1 DEF history
  <2>5. lease' \in [Steers -> 0..MaxGen] /\ lapsed \subseteq Steers
    <3>1. lease \in [Steers -> 0..MaxGen] /\ lapsed \subseteq Steers /\ 0 \in 0..MaxGen
      BY DEF IInv, TypeOK, StoreTypeOK
    <3>2. lease' = [lease EXCEPT ![s] = 0]
      BY <2>1 DEF NoGen
    <3> QED BY <2>2, <3>1, <3>2
  <2>6. UNCHANGED <<job, closed, queue, claimed, pc, batch, source, delivered, accepted>>
    BY <1>1, <2>1, <2>4
  <2>7. \A r \in Steers : receipt'[r] # receipt[r] =>
           /\ r \in {s} /\ receipt[r].state = "leftover"
           /\ receipt'[r].state \in {"cancelled", "recovered"}
    BY <2>1, <2>3
  <2>8. \A r \in {s} : r \in Items(parked) => receipt'[r].state # "leftover" \/ r \in lapsed'
    BY <2>3
  <2>9. parked' = Without(parked, {s}) /\ ReceiptTypeOK' /\ lapsed \subseteq lapsed' /\ lapsed' \subseteq Steers
    BY <2>1, <2>3, <2>4, <2>5
  <2> QED BY <1>2, <2>5, <2>6, <2>7, <2>8, <2>9, UnparkKeeps
<1>4. CASE ~ConsumeSettles(s, g)
  <2>1. UNCHANGED <<job, closed, queue, claimed, parked, lease, receipt>>
    BY <1>1, <1>4 DEF StoreConsume, store
  <2>2. closed' \in BOOLEAN
    BY <2>1 DEF IInv, TypeOK, StoreTypeOK
  <2>3. \A h \in Gens : pc'[h] = "apply" => pc[h] = "apply"
    BY <1>1
  <2> HIDE DEF s
  <2> QED BY <1>1, <1>2, <2>1, <2>2, <2>3, OwnerKeeps
<1> QED BY <1>3, <1>4

\* A boundary moves the whole queue behind the earlier claims.
LEMMA ClaimKeeps ==
  ASSUME IInv, NEW g \in Gens, Claim(g)
  PROVE  IInv'
<1>1. /\ queue' = <<>> /\ claimed' = claimed \o queue
      /\ receipt' = Settled(Items(queue), "claimed")
      /\ queue # <<>>
      /\ pc' = [pc EXCEPT ![g] = "apply"]
      /\ batch' = [batch EXCEPT ![g] = queue]
      /\ UNCHANGED <<job, closed, parked, lease, source, recovery, delivered, history>>
  BY DEF Claim, StoreDrain, Drainable
<1>2. Items(claimed) \cap Items(queue) = {}
  BY InvFacts
<1>3. /\ claimed' \in Seq(Steers)
      /\ Items(claimed') = Items(claimed) \cup Items(queue)
      /\ Distinct(claimed')
  BY <1>1, <1>2, InvFacts, ConcatItems
<1>4. queue' \in Seq(Steers) /\ Items(queue') = {} /\ Distinct(queue')
  BY <1>1 DEF Items, Distinct
<1>5. /\ ReceiptTypeOK'
      /\ \A s \in Steers : /\ s \in Items(queue) => receipt'[s].state = "claimed"
                           /\ s \notin Items(queue) => receipt'[s] = receipt[s]
                           /\ receipt'[s].gen = receipt[s].gen
  <2>1. "claimed" \in ReceiptStates
    BY DEF ReceiptStates
  <2> QED BY <1>1, <2>1, InvFacts, SettledReceipts DEF ReceiptTypeOK
<1>6. TypeOK'
  <2>1. pc' \in [Gens -> PCs] /\ batch' \in [Gens -> Seq(Steers)]
    BY <1>1, InvFacts DEF IInv, TypeOK, PCs
  <2> QED BY <1>1, <1>3, <1>4, <1>5, <2>1 DEF IInv, TypeOK, StoreTypeOK, ReceiptTypeOK, history
<1>7. Accounted'
  <2>1. accepted' = accepted /\ lapsed' = lapsed /\ parked' = parked
    BY <1>1 DEF history
  <2> QED BY <1>3, <1>4, <1>5, <2>1, InvFacts DEF Accounted
<1>8. NoDuplicates'
  BY <1>1, <1>3, <1>4, InvFacts DEF NoDuplicates
<1>9. PendingIsCurrent'
  <2>1. job' = job
    BY <1>1
  <2> QED BY <1>5, <2>1, InvFacts DEF PendingIsCurrent, Active
<1>10. DeliveredOnce'
  <2>1. \A s \in Steers : receipt[s].state = "delivered" => receipt'[s] = receipt[s]
    BY <1>5, InvFacts
  <2> QED BY <1>1, <2>1, DeliveredKept
<1>11. OwnersHoldWork'
  BY <1>1 DEF IInv, OwnersHoldWork, TypeOK
<1> QED BY <1>6, <1>7, <1>8, <1>9, <1>10, <1>11 DEF IInv

\* An applied item leaves the claims as delivered; the part joins the content
\* of the generation that accepted it, or (a lost reply) is rolled back.
LEMMA DeliverKeeps ==
  ASSUME IInv, NEW g \in Gens, ApplyCommits(g) \/ ApplyReplyLost(g)
  PROVE  IInv'
<1> DEFINE s == Head(batch[g])
           rest == Tail(batch[g])
<1>1. /\ claimed' = Without(claimed, {s})
      /\ receipt' = Settled({s}, "delivered")
      /\ s \in Items(claimed) /\ receipt[s] = [state |-> "claimed", gen |-> g]
      /\ pc[g] = "apply"
      /\ UNCHANGED <<job, closed, queue, parked, lease, source, recovery, history>>
  BY DEF ApplyCommits, ApplyReplyLost, Applied, StoreDeliver, Deliverable
<1>2. /\ batch[g] \in Seq(Steers) /\ batch[g] # <<>>
      /\ s \in Steers /\ rest \in Seq(Steers)
  <2>1. batch[g] \in Seq(Steers) /\ batch[g] # <<>>
    BY <1>1 DEF IInv, TypeOK, OwnersHoldWork
  <2> QED BY <2>1, TailItems
<1>3. \/ /\ batch' = [batch EXCEPT ![g] = rest]
         /\ pc' = [pc EXCEPT ![g] = IF rest = <<>> THEN "run" ELSE "apply"]
         /\ delivered' = [delivered EXCEPT ![g] = Append(@, s)]
      \/ /\ pc' = [pc EXCEPT ![g] = "restore"]
         /\ UNCHANGED <<batch, delivered>>
  BY DEF ApplyCommits, ApplyReplyLost, Applied
<1> HIDE DEF s, rest
<1>4. /\ claimed' \in Seq(Steers)
      /\ Items(claimed') = Items(claimed) \ {s}
      /\ Distinct(claimed')
  BY <1>1, InvFacts, WithoutItems
<1>5. /\ ReceiptTypeOK'
      /\ receipt'[s].state = "delivered" /\ receipt'[s].gen = receipt[s].gen
      /\ \A r \in Steers \ {s} : receipt'[r] = receipt[r]
  <2>1. "delivered" \in ReceiptStates
    BY DEF ReceiptStates
  <2> QED BY <1>1, <1>2, <2>1, InvFacts, SettledReceipts DEF ReceiptTypeOK
<1>6. receipt[s].state = "claimed" /\ receipt[s].gen = g
  BY <1>1
<1>7. /\ delivered' \in [Gens -> Seq(Steers)] /\ batch' \in [Gens -> Seq(Steers)]
      /\ pc' \in [Gens -> PCs]
  <2>1. /\ delivered \in [Gens -> Seq(Steers)] /\ batch \in [Gens -> Seq(Steers)]
        /\ pc \in [Gens -> PCs]
    BY DEF IInv, TypeOK
  <2>2. delivered[g] \in Seq(Steers)
    BY <2>1
  <2>3. Append(delivered[g], s) \in Seq(Steers)
    BY <1>2, <2>2, AppendItems
  <2> QED BY <1>2, <1>3, <2>1, <2>3 DEF PCs
<1>8. TypeOK'
  BY <1>1, <1>4, <1>5, <1>7 DEF IInv, TypeOK, StoreTypeOK, ReceiptTypeOK, history
<1>9. Accounted'
  <2>1. accepted' = accepted /\ lapsed' = lapsed /\ parked' = parked /\ queue' = queue
    BY <1>1 DEF history
  <2> QED BY <1>2, <1>4, <1>5, <1>6, <2>1, InvFacts DEF Accounted
<1>10. NoDuplicates'
  BY <1>1, <1>4, InvFacts DEF NoDuplicates
<1>11. PendingIsCurrent'
  <2>1. job' = job
    BY <1>1
  <2> QED BY <1>5, <2>1, InvFacts DEF PendingIsCurrent, Active
<1>12. DeliveredOnce'
  <2>1. \A h \in Gens : /\ delivered[h] \in Seq(Steers)
                        /\ Items(delivered[h]) \subseteq Steers \ {s}
                        /\ Distinct(delivered[h])
                        /\ \A r \in Items(delivered[h]) : receipt[r] = [state |-> "delivered", gen |-> h]
    <3>1. TAKE h \in Gens
    <3>2. delivered[h] \in Seq(Steers)
      BY DEF IInv, TypeOK
    <3>3. Items(delivered[h]) \subseteq Steers
      BY <3>2, ItemsType
    <3>4. /\ Distinct(delivered[h])
          /\ \A r \in Items(delivered[h]) : receipt[r] = [state |-> "delivered", gen |-> h]
      BY DEF IInv, DeliveredOnce
    <3>5. s \notin Items(delivered[h])
      BY <1>6, <3>4
    <3> QED BY <3>2, <3>3, <3>4, <3>5
  <2>2. receipt'[s] = [state |-> "delivered", gen |-> g]
    <3>1. receipt'[s] \in [state : ReceiptStates, gen : 0..MaxGen]
      BY <1>2, <1>5 DEF ReceiptTypeOK
    <3> QED BY <1>5, <1>6, <3>1
  <2>3. CASE delivered' = delivered
    BY <1>5, <2>1, <2>3 DEF DeliveredOnce
  <2>4. CASE delivered' = [delivered EXCEPT ![g] = Append(@, s)]
    <3>1. /\ Items(Append(delivered[g], s)) = Items(delivered[g]) \cup {s}
          /\ Distinct(Append(delivered[g], s))
      BY <1>2, <2>1, AppendItems
    <3>2. delivered \in [Gens -> Seq(Steers)]
      BY DEF IInv, TypeOK
    <3>3. /\ delivered'[g] = Append(delivered[g], s)
          /\ \A h \in Gens \ {g} : delivered'[h] = delivered[h]
      BY <2>4, <3>2
    <3>4. SUFFICES ASSUME NEW h \in Gens
                   PROVE  /\ Distinct(delivered'[h])
                          /\ \A r \in Items(delivered'[h]) :
                                receipt'[r] = [state |-> "delivered", gen |-> h]
      BY DEF DeliveredOnce
    <3>5. CASE h = g
      BY <1>5, <2>1, <2>2, <3>1, <3>3, <3>5
    <3>6. CASE h # g
      BY <1>5, <2>1, <3>3, <3>6
    <3> QED BY <3>5, <3>6
  <2> QED BY <1>3, <2>3, <2>4
<1>13. OwnersHoldWork'
  <2>1. batch \in [Gens -> Seq(Steers)] /\ pc \in [Gens -> PCs]
    BY DEF IInv, TypeOK
  <2> QED BY <1>3, <2>1 DEF IInv, OwnersHoldWork
<1> QED BY <1>8, <1>9, <1>10, <1>11, <1>12, <1>13 DEF IInv

\* What could not be applied returns to the front of the queue.
LEMMA RestoreKeeps ==
  ASSUME IInv, NEW g \in Gens, Restore(g)
  PROVE  IInv'
<1> DEFINE back == Items(batch[g])
           restored == Without(Within(claimed, back), Items(queue))
<1>1. /\ pc' = [pc EXCEPT ![g] = "run"]
      /\ batch' = [batch EXCEPT ![g] = <<>>]
      /\ UNCHANGED <<source, recovery, delivered, history>>
  BY DEF Restore
<1>2. \/ /\ back \subseteq Items(claimed)
         /\ claimed' = Without(claimed, back)
         /\ queue' = restored \o queue
         /\ receipt' = Settled(Items(restored), "queued")
         /\ UNCHANGED <<job, closed, parked, lease>>
      \/ UNCHANGED <<job, closed, queue, claimed, parked, lease, receipt>>
  BY DEF Restore, StoreRestore, Restorable, store
<1> HIDE DEF back
<1>3. /\ pc' \in [Gens -> PCs] /\ batch' \in [Gens -> Seq(Steers)]
      /\ OwnersHoldWork'
  <2>1. /\ pc \in [Gens -> PCs] /\ batch \in [Gens -> Seq(Steers)] /\ OwnersHoldWork
        /\ <<>> \in Seq(Steers)
    BY DEF IInv, TypeOK
  <2> QED BY <1>1, <2>1 DEF OwnersHoldWork, PCs
<1>4. CASE UNCHANGED <<job, closed, queue, claimed, parked, lease, receipt>>
  <2>1. TypeOK'
    BY <1>1, <1>3, <1>4 DEF IInv, TypeOK, StoreTypeOK, history
  <2>2. Accounted' /\ NoDuplicates' /\ DeliveredOnce'
    BY <1>1, <1>4 DEF IInv, Accounted, NoDuplicates, DeliveredOnce, history
  <2>3. PendingIsCurrent'
    BY <1>4 DEF IInv, PendingIsCurrent, Active
  <2> QED BY <1>3, <2>1, <2>2, <2>3 DEF IInv
<1>5. CASE /\ back \subseteq Items(claimed)
           /\ claimed' = Without(claimed, back)
           /\ queue' = restored \o queue
           /\ receipt' = Settled(Items(restored), "queued")
           /\ UNCHANGED <<job, closed, parked, lease>>
  <2>1. /\ claimed' \in Seq(Steers) /\ Distinct(claimed')
        /\ Items(claimed') = Items(claimed) \ back
    BY <1>5, InvFacts, WithoutItems
  <2>2. /\ restored \in Seq(Steers) /\ Distinct(restored)
        /\ Items(restored) = back
        /\ back \cap Items(queue) = {}
    <3>1. /\ Within(claimed, back) \in Seq(Steers) /\ Distinct(Within(claimed, back))
          /\ Items(Within(claimed, back)) = back
      <4>1. claimed \in Seq(Steers) /\ Distinct(claimed) /\ back \subseteq Items(claimed)
        BY <1>5, InvFacts
      <4>2. Items(Within(claimed, back)) = Items(claimed) \cap back
        BY <4>1, WithinItems
      <4> QED BY <4>1, <4>2, WithinItems
    <3>2. back \cap Items(queue) = {}
      BY <1>5, InvFacts
    <3>3. /\ restored \in Seq(Steers) /\ Distinct(restored)
          /\ Items(restored) = Items(Within(claimed, back)) \ Items(queue)
      BY <3>1, WithoutItems
    <3> HIDE DEF restored
    <3> QED BY <3>1, <3>2, <3>3
  <2> HIDE DEF restored
  <2>3. /\ queue' \in Seq(Steers) /\ Distinct(queue')
        /\ Items(queue') = back \cup Items(queue)
    BY <1>5, <2>2, InvFacts, ConcatItems
  <2>4. /\ ReceiptTypeOK'
        /\ \A s \in Steers : /\ s \in back => receipt'[s].state = "queued"
                             /\ s \notin back => receipt'[s] = receipt[s]
                             /\ receipt'[s].gen = receipt[s].gen
    <3>1. "queued" \in ReceiptStates
      BY DEF ReceiptStates
    <3> QED BY <1>5, <2>2, <3>1, InvFacts, SettledReceipts DEF ReceiptTypeOK
  <2>5. \A s \in back : s \in Steers /\ receipt[s].state = "claimed"
    BY <1>5, InvFacts
  <2>6. TypeOK'
    BY <1>1, <1>3, <1>5, <2>1, <2>3, <2>4 DEF IInv, TypeOK, StoreTypeOK, ReceiptTypeOK, history
  <2>7. Accounted'
    <3>1. accepted' = accepted /\ lapsed' = lapsed /\ parked' = parked
      BY <1>1, <1>5 DEF history
    <3> QED BY <2>1, <2>3, <2>4, <2>5, <3>1, InvFacts DEF Accounted
  <2>8. NoDuplicates'
    BY <1>5, <2>1, <2>3, InvFacts DEF NoDuplicates
  <2>9. PendingIsCurrent'
    <3>1. job' = job
      BY <1>5
    <3> QED BY <2>4, <2>5, <3>1, InvFacts DEF PendingIsCurrent, Active
  <2>10. DeliveredOnce'
    <3>1. \A s \in Steers : receipt[s].state = "delivered" => receipt'[s] = receipt[s]
      BY <2>4, <2>5
    <3> QED BY <1>1, <3>1, DeliveredKept
  <2> QED BY <1>3, <2>6, <2>7, <2>8, <2>9, <2>10 DEF IInv
<1> QED BY <1>2, <1>4, <1>5

\* The invariant holds initially.
LEMMA InitKeeps == Init => IInv
<1> SUFFICES ASSUME Init PROVE IInv
  OBVIOUS
<1>1. /\ job = [gen |-> 0, status |-> "absent", recovers |-> NoSteer]
      /\ closed = FALSE /\ queue = <<>> /\ claimed = <<>> /\ parked = <<>>
      /\ lease = [s \in Steers |-> 0]
      /\ receipt = [s \in Steers |-> [state |-> "none", gen |-> 0]]
      /\ pc = [g \in Gens |-> "idle"] /\ batch = [g \in Gens |-> <<>>]
      /\ source = [g \in Gens |-> NoSteer] /\ recovery = [g \in Gens |-> "none"]
      /\ delivered = [g \in Gens |-> <<>>] /\ accepted = <<>> /\ lapsed = {}
  BY DEF Init, StoreInit, NoGen
<1>2. <<>> \in Seq(Steers) /\ Items(<<>>) = {} /\ Distinct(<<>>)
  BY DEF Items, Distinct
<1>3. TypeOK
  <2>1. /\ 0 \in 0..MaxGen /\ "absent" \in Statuses /\ "none" \in ReceiptStates
        /\ "idle" \in PCs /\ "none" \in Recoveries
    BY DEF Statuses, ReceiptStates, PCs, Recoveries
  <2>2. StoreTypeOK
    BY <1>1, <1>2, <2>1 DEF StoreTypeOK
  <2> QED BY <1>1, <1>2, <2>1, <2>2 DEF TypeOK
<1>4. Accounted
  BY <1>1, <1>2 DEF Accounted
<1>5. NoDuplicates
  BY <1>1, <1>2 DEF NoDuplicates
<1>6. PendingIsCurrent
  BY <1>1 DEF PendingIsCurrent
<1>7. DeliveredOnce
  BY <1>1, <1>2 DEF DeliveredOnce
<1>8. OwnersHoldWork
  BY <1>1 DEF OwnersHoldWork
<1> QED BY <1>3, <1>4, <1>5, <1>6, <1>7, <1>8 DEF IInv

\* Every step, and every stutter, keeps the invariant.
LEMMA NextKeeps ==
  ASSUME IInv, [Next]_vars
  PROVE  IInv'
<1>1. ASSUME NEW s \in Steers, Enqueue(s) \/ ReadReceipt(s) \/ Discard(s)
      PROVE  IInv'
  BY <1>1, EnqueueKeeps, ReadReceiptKeeps, DiscardKeeps
<1>2. ASSUME NEW s \in Steers, NEW g \in Gens, Cancel(s, g)
      PROVE  IInv'
  BY <1>2, CancelKeeps
<1>3. ASSUME NEW rec \in Steers \cup {NoSteer}, CreateJob(rec)
      PROVE  IInv'
  BY <1>3, CreateJobKeeps
<1>4. ASSUME NEW g \in Gens, NEW allowClaim, NEW keepOpen, AdmitTerminal(g, allowClaim, keepOpen)
      PROVE  IInv'
  BY <1>4, SealKeeps, ClaimKeeps DEF AdmitTerminal
<1>5. ASSUME NEW g \in Gens, Drain(g) \/ ApplyCommits(g) \/ ApplyFails(g) \/ ApplyReplyLost(g)
      PROVE  IInv'
  BY <1>5, ClaimKeeps, DeliverKeeps, ApplyFailsKeeps DEF Drain
<1>6. ASSUME NEW g \in Gens, Restore(g) \/ Pause(g) \/ Resume(g)
      PROVE  IInv'
  BY <1>6, RestoreKeeps, PauseKeeps
<1>7. ASSUME NEW g \in Gens, \/ StopJob(g) \/ FinishRun(g)
                             \/ PersistUserMessage(g) \/ ConsumeRecovered(g)
      PROVE  IInv'
  BY <1>7, StopKeeps, FinishRunKeeps, PersistKeeps, ConsumeKeeps
<1>8. CASE LegacyClaim \/ ReapStale \/ EvictOldest \/ ExpireApproval \/ DeleteJob \/ ExpireParked
  BY <1>8, LegacyClaimKeeps, StopKeeps, DeleteJobKeeps, ExpireParkedKeeps
<1>9. CASE UNCHANGED vars
  BY <1>9 DEF vars, store, owner, history, IInv, TypeOK, StoreTypeOK, Accounted,
              NoDuplicates, PendingIsCurrent, Active, DeliveredOnce, OwnersHoldWork
<1> QED BY <1>1, <1>2, <1>3, <1>4, <1>5, <1>6, <1>7, <1>8, <1>9 DEF Next

(***************************************************************************)
(* The theorems.                                                           *)
(***************************************************************************)

\* The inductive invariant holds in every reachable state.
THEOREM Invariance == Spec => []IInv
<1>1. Init => IInv
  BY InitKeeps
<1>2. IInv /\ [Next]_vars => IInv'
  BY NextKeeps
<1> QED BY <1>1, <1>2, PTL DEF Spec

\* Type correctness.
THEOREM TypeCorrect == Spec => []TypeOK
<1>1. IInv => TypeOK
  BY DEF IInv
<1> QED BY <1>1, Invariance, PTL

\* No steer a client was told is accepted disappears, whatever ends its
\* generation and whoever runs on after that.
THEOREM AcceptedIsAccounted == Spec => []Accounted
<1>1. IInv => Accounted
  BY DEF IInv
<1> QED BY <1>1, Invariance, PTL

\* Queue, claims and parked payload hold no steer twice.
THEOREM ListsHoldNoDuplicates == Spec => []NoDuplicates
<1>1. IInv => NoDuplicates
  BY DEF IInv
<1> QED BY <1>1, Invariance, PTL

\* A steer becomes part of at most one generation's content, the one that
\* accepted it, and once.
THEOREM InjectedOnce == Spec => []DeliveredOnce
<1>1. IInv => DeliveredOnce
  BY DEF IInv
<1> QED BY <1>1, Invariance, PTL

\* normalizeSteerReceipt never has anything to repair, in a store that loses
\* nothing by itself.
THEOREM RepairIsIdle == Spec => []ReceiptsNeedNoRepair
<1>1. IInv => ReceiptsNeedNoRepair
  BY NormalizedIsIdentity DEF ReceiptsNeedNoRepair
<1> QED BY <1>1, Invariance, PTL

\* The receipts a step may touch are not settled.
LEMMA StepSettles ==
  ASSUME IInv, Next, NEW s \in Steers, receipt[s].state \in SettledStates
  PROVE  receipt'[s] = receipt[s]
<1>1. /\ s \notin Items(queue) /\ s \notin Items(claimed)
      /\ receipt[s].state \notin {"none", "queued", "claimed", "leftover"}
      /\ receipt \in [Steers -> [state : ReceiptStates, gen : 0..MaxGen]]
  BY InvFacts DEF SettledStates, ReceiptTypeOK
<1>2. \A S, st : s \notin S => Settled(S, st)[s] = receipt[s]
  BY DEF Settled
<1>3. ASSUME ParkQueued PROVE receipt'[s] = receipt[s]
  BY <1>1, <1>2, <1>3 DEF ParkQueued
<1>4. ASSUME NEW r \in Steers, Enqueue(r) \/ ReadReceipt(r) \/ Discard(r)
      PROVE  receipt'[s] = receipt[s]
  <2>1. CASE Enqueue(r)
    BY <1>1, <2>1 DEF Enqueue, StoreEnqueue
  <2>2. CASE ReadReceipt(r)
    BY <1>1, <2>2, NormalizedIsIdentity DEF ReadReceipt, StoreReadReceipt
  <2>3. CASE Discard(r)
    BY <1>1, <1>2, <2>3 DEF Discard, StoreDiscard
  <2> QED BY <1>4, <2>1, <2>2, <2>3
<1>5. ASSUME NEW r \in Steers, NEW g \in Gens, Cancel(r, g)
      PROVE  receipt'[s] = receipt[s]
  <2>1. receipt[r].state = "queued" /\ receipt' = Settled({r}, "cancelled")
    BY <1>5 DEF Cancel, StoreRemove
  <2> QED BY <1>1, <1>2, <2>1
<1>6. ASSUME NEW rec \in Steers \cup {NoSteer}, CreateJob(rec)
      PROVE  receipt'[s] = receipt[s]
  BY <1>3, <1>6 DEF CreateJob, StoreCreate
<1>7. ASSUME NEW g \in Gens, Claim(g)
      PROVE  receipt'[s] = receipt[s]
  BY <1>1, <1>2, <1>7 DEF Claim, StoreDrain
<1>8. ASSUME NEW g \in Gens, NEW allowClaim, NEW keepOpen, AdmitTerminal(g, allowClaim, keepOpen)
      PROVE  receipt'[s] = receipt[s]
  BY <1>7, <1>8 DEF AdmitTerminal, StoreSeal
<1>9. ASSUME NEW g \in Gens, ApplyCommits(g) \/ ApplyReplyLost(g)
      PROVE  receipt'[s] = receipt[s]
  BY <1>1, <1>2, <1>9 DEF ApplyCommits, ApplyReplyLost, StoreDeliver, Deliverable
<1>10. ASSUME NEW g \in Gens, Restore(g)
       PROVE  receipt'[s] = receipt[s]
  <2>1. CASE UNCHANGED store
    BY <2>1 DEF store
  <2>2. CASE StoreRestore(batch[g], g)
    <3> DEFINE restored == Without(Within(claimed, Items(batch[g])), Items(queue))
    <3>1. receipt' = Settled(Items(restored), "queued")
      BY <2>2 DEF StoreRestore
    <3>2. Items(restored) \subseteq Items(claimed)
      <4>1. /\ claimed \in Seq(Steers)
            /\ Within(claimed, Items(batch[g])) \in Seq(Steers)
            /\ Items(Within(claimed, Items(batch[g]))) \subseteq Items(claimed)
        BY InvFacts, WithinItems
      <4> QED BY <4>1, WithoutItems
    <3> HIDE DEF restored
    <3> QED BY <1>1, <1>2, <3>1, <3>2
  <2> QED BY <1>10, <2>1, <2>2 DEF Restore
<1>11. ASSUME NEW g \in Gens, ConsumeRecovered(g)
       PROVE  receipt'[s] = receipt[s]
  <2>1. CASE ConsumeSettles(source[g], g)
    BY <1>1, <1>2, <1>11, <2>1 DEF ConsumeRecovered, StoreConsume, ConsumeSettles
  <2>2. CASE ~ConsumeSettles(source[g], g)
    BY <1>11, <2>2 DEF ConsumeRecovered, StoreConsume, store
  <2> QED BY <2>1, <2>2
<1>12. ASSUME NEW g \in Gens, ApplyFails(g) \/ Pause(g) \/ Resume(g) \/ PersistUserMessage(g)
       PROVE  receipt'[s] = receipt[s]
  BY <1>12 DEF ApplyFails, Pause, Resume, PersistUserMessage, StorePause, StoreResume, store
<1>13. ASSUME NEW g \in Gens, StopJob(g) \/ FinishRun(g)
       PROVE  receipt'[s] = receipt[s]
  BY <1>3, <1>13 DEF StopJob, FinishRun, StoreTerminate
<1>14. CASE ReapStale \/ EvictOldest \/ ExpireApproval
  BY <1>3, <1>14 DEF ReapStale, EvictOldest, ExpireApproval, StoreTerminate, StoreReapStale,
                     StoreEvictOldest, ParkAndDelete
<1>15. CASE LegacyClaim \/ DeleteJob \/ ExpireParked
  BY <1>15 DEF LegacyClaim, DeleteJob, ExpireParked, StoreLegacyClaim, StoreDelete,
               StoreExpireParked
<1> QED BY <1>4, <1>5, <1>6, <1>7, <1>8, <1>9, <1>10, <1>11, <1>12, <1>13, <1>14, <1>15
        DEF Next, Drain

\* A settled receipt never changes again.
THEOREM SettledForGood == Spec => SettledIsFinal
<1>1. IInv /\ [Next]_vars => [SettledKept]_vars
  BY StepSettles DEF SettledKept
<1> QED BY <1>1, Invariance, PTL DEF Spec, SettledIsFinal

\* Behind a seal no call of the owner passes the store's guard; what is left
\* to happen is a cancellation, a change of status, or the end.
LEMMA StepSeals ==
  ASSUME IInv, [Next]_vars
  PROVE  SealHolds
<1> SUFFICES ASSUME closed, job'.gen = job.gen
             PROVE  /\ closed' \/ job'.status = "absent"
                    /\ accepted' = accepted
                    /\ Items(queue') \subseteq Items(queue)
                    /\ delivered' = delivered
  BY DEF SealHolds
<1> DEFINE Kept == /\ closed' \/ job'.status = "absent"
                   /\ accepted' = accepted
                   /\ Items(queue') \subseteq Items(queue)
                   /\ delivered' = delivered
<1>1. \A g \in Gens : ~Open(g)
  BY DEF Open
<1>2. job \in [gen : 0..MaxGen, status : Statuses, recovers : Steers \cup {NoSteer}]
      /\ queue \in Seq(Steers) /\ Distinct(queue)
  BY InvFacts DEF IInv, TypeOK, StoreTypeOK
<1>3. ASSUME ParkQueued PROVE Items(queue') = {}
  BY <1>3 DEF ParkQueued, Items
<1>4. ASSUME NEW s \in Steers, Enqueue(s) \/ ReadReceipt(s) \/ Discard(s)
      PROVE  Kept
  <2>1. ~Enqueue(s)
    BY DEF Enqueue, StoreEnqueue, Open
  <2> QED BY <1>4, <2>1 DEF ReadReceipt, StoreReadReceipt, Discard, StoreDiscard, owner, history
<1>5. ASSUME NEW s \in Steers, NEW g \in Gens, Cancel(s, g)
      PROVE  Kept
  <2>1. PICK i \in DOMAIN queue :
          queue' = SubSeq(queue, 1, i - 1) \o SubSeq(queue, i + 1, Len(queue))
    BY <1>5 DEF Cancel, StoreRemove
  <2>2. Items(queue') \subseteq Items(queue)
    BY <1>2, <2>1, SpliceItems
  <2> QED BY <1>5, <2>2 DEF Cancel, StoreRemove, owner, history
<1>6. ASSUME NEW rec \in Steers \cup {NoSteer}, CreateJob(rec)
      PROVE  FALSE
  <2>1. job'.gen = job.gen + 1
    BY <1>6 DEF CreateJob, StoreCreate
  <2> QED BY <1>2, <2>1
<1>7. ASSUME NEW g \in Gens, \/ Drain(g)
                             \/ \E a, k \in BOOLEAN : AdmitTerminal(g, a, k)
                             \/ ApplyCommits(g) \/ ApplyReplyLost(g)
      PROVE  FALSE
  BY <1>1, <1>7 DEF Drain, Claim, StoreDrain, Drainable, AdmitTerminal, StoreSeal,
                    ApplyCommits, ApplyReplyLost, StoreDeliver, Deliverable
<1>8. ASSUME NEW g \in Gens, Restore(g) \/ ApplyFails(g) \/ PersistUserMessage(g)
      PROVE  Kept
  <2>1. UNCHANGED store /\ UNCHANGED <<delivered, history>>
    BY <1>1, <1>8 DEF Restore, StoreRestore, Restorable, ApplyFails, PersistUserMessage
  <2> QED BY <2>1 DEF store, history
<1>9. ASSUME NEW g \in Gens, Pause(g) \/ Resume(g) \/ ConsumeRecovered(g)
      PROVE  Kept
  BY <1>9 DEF Pause, Resume, ConsumeRecovered, StorePause, StoreResume, StoreConsume, store,
              owner, history
<1>10. ASSUME NEW g \in Gens, StopJob(g) \/ FinishRun(g)
       PROVE  Kept
  BY <1>3, <1>10 DEF StopJob, FinishRun, StoreTerminate, owner, history
<1>11. CASE ExpireApproval
  BY <1>3, <1>11 DEF ExpireApproval, StoreTerminate, owner, history
<1>12. CASE ReapStale \/ EvictOldest
  BY <1>2, <1>3, <1>12 DEF ReapStale, EvictOldest, StoreReapStale, StoreEvictOldest,
                           ParkAndDelete, owner, history
<1>13. CASE DeleteJob
  BY <1>2, <1>13 DEF DeleteJob, StoreDelete, owner, history, Items
<1>14. CASE LegacyClaim \/ ExpireParked
  BY <1>14 DEF LegacyClaim, ExpireParked, StoreLegacyClaim, StoreExpireParked, owner
<1>15. CASE UNCHANGED vars
  BY <1>15 DEF vars, store, owner, history
<1> QED BY <1>4, <1>5, <1>6, <1>7, <1>8, <1>9, <1>10, <1>11, <1>12, <1>13, <1>14, <1>15 DEF Next

\* A sealed queue stays sealed until the next generation.
THEOREM SealStays == Spec => SealIsFinal
<1>1. IInv /\ [Next]_vars => [SealHolds]_vars
  BY StepSeals
<1> QED BY <1>1, Invariance, PTL DEF Spec, SealIsFinal

(***************************************************************************)
(* Leases.                                                                 *)
(***************************************************************************)

\* What a step takes out of the parked payload: nothing a lease protects, but
\* for the source that a recovery commits.
LEMMA StepLeases ==
  ASSUME IInv, [Next]_vars
  PROVE  LeaseKept
<1> SUFFICES ASSUME NEW s \in Steers, Leased(s)
             PROVE  \/ s \in Items(parked')
                    \/ recovery'[job.gen] = "committed" /\ receipt'[s].state = "recovered"
  BY DEF LeaseKept
<1>1. s \in Items(parked) /\ Active /\ job.recovers = s /\ parked \in Seq(Steers)
  BY InvFacts DEF Leased
<1>2. ASSUME ParkQueued PROVE s \in Items(parked')
  <2>1. claimed \o queue \in Seq(Steers)
    BY InvFacts, ConcatItems
  <2>2. parked' = Merge(parked, claimed \o queue)
    BY <1>2 DEF ParkQueued, ParkedWithQueued
  <2> DEFINE q == claimed \o queue
  <2> HIDE DEF q
  <2>3. q \in Seq(Steers) /\ parked' = Merge(parked, q)
    BY <2>1, <2>2 DEF q
  <2>4. Items(Merge(parked, q)) = Items(parked) \cup Items(q)
    BY <1>1, <2>3, MergeItems
  <2> QED BY <1>1, <2>3, <2>4
<1>3. ASSUME NEW r \in Steers, Enqueue(r) \/ ReadReceipt(r) \/ Discard(r)
      PROVE  s \in Items(parked')
  <2>1. CASE Discard(r)
    <3>1. r # s /\ parked' = Without(parked, {r})
      BY <1>1, <2>1 DEF Discard, StoreDiscard
    <3>2. Items(parked') = Items(parked) \ {r}
      BY <1>1, <3>1, WithoutItems
    <3> QED BY <1>1, <3>1, <3>2
  <2>2. CASE Enqueue(r) \/ ReadReceipt(r)
    BY <1>1, <2>2 DEF Enqueue, StoreEnqueue, ReadReceipt, StoreReadReceipt
  <2> QED BY <1>3, <2>1, <2>2
<1>4. ASSUME NEW r \in Steers, NEW g \in Gens, Cancel(r, g)
      PROVE  s \in Items(parked')
  BY <1>1, <1>4 DEF Cancel, StoreRemove
<1>5. ASSUME NEW rec \in Steers \cup {NoSteer}, CreateJob(rec)
      PROVE  s \in Items(parked')
  BY <1>2, <1>5 DEF CreateJob, StoreCreate
<1>6. ASSUME NEW g \in Gens, \/ Drain(g) \/ Restore(g) \/ Pause(g) \/ Resume(g)
                             \/ \E a, k \in BOOLEAN : AdmitTerminal(g, a, k)
                             \/ ApplyCommits(g) \/ ApplyReplyLost(g) \/ ApplyFails(g)
                             \/ PersistUserMessage(g)
      PROVE  parked' = parked
  BY <1>6 DEF Drain, Claim, StoreDrain, Restore, StoreRestore, Pause, StorePause, Resume,
              StoreResume, AdmitTerminal, StoreSeal, ApplyCommits, ApplyReplyLost, StoreDeliver,
              ApplyFails, PersistUserMessage, store
<1>7. ASSUME NEW g \in Gens, StopJob(g) \/ FinishRun(g)
      PROVE  s \in Items(parked')
  BY <1>2, <1>7 DEF StopJob, FinishRun, StoreTerminate
<1>8. ASSUME NEW g \in Gens, ConsumeRecovered(g)
      PROVE  \/ s \in Items(parked')
             \/ recovery'[job.gen] = "committed" /\ receipt'[s].state = "recovered"
  <2>1. CASE ConsumeSettles(source[g], g)
    <3>1. source[g] = s /\ job.gen = g
      BY <1>1, <2>1 DEF ConsumeSettles, ConsumeOwned
    <3>2. ConsumeAnswer(source[g], g)
      BY <2>1 DEF ConsumeAnswer
    <3>3. recovery'[g] = "committed"
      BY <1>8, <3>2 DEF ConsumeRecovered, IInv, TypeOK
    <3>4. receipt' = Settled({s}, "recovered")
      BY <1>8, <2>1, <3>1 DEF ConsumeRecovered, StoreConsume
    <3>5. receipt'[s].state = "recovered"
      BY <3>4, InvFacts, SettledReceipts DEF ReceiptStates
    <3> QED BY <3>1, <3>3, <3>5
  <2>2. CASE ~ConsumeSettles(source[g], g)
    BY <1>1, <1>8, <2>2 DEF ConsumeRecovered, StoreConsume, store
  <2> QED BY <2>1, <2>2
<1>9. CASE ReapStale \/ EvictOldest \/ ExpireApproval
  BY <1>2, <1>9 DEF ReapStale, EvictOldest, ExpireApproval, StoreTerminate, StoreReapStale,
                    StoreEvictOldest, ParkAndDelete
<1>10. CASE LegacyClaim
  <2>1. parked' = Without(parked, Visible) /\ s \notin Visible
    BY <1>10 DEF LegacyClaim, StoreLegacyClaim, Visible
  <2>2. Items(parked') = Items(parked) \ Visible
    BY <1>1, <2>1, WithoutItems
  <2> QED BY <1>1, <2>1, <2>2
<1>11. ~ExpireParked
  BY <1>1 DEF ExpireParked, StoreExpireParked
<1>12. CASE DeleteJob \/ UNCHANGED vars
  BY <1>1, <1>12 DEF DeleteJob, StoreDelete, vars, store
<1> QED BY <1>1, <1>3, <1>4, <1>5, <1>6, <1>7, <1>8, <1>9, <1>10, <1>11, <1>12 DEF Next

\* A parked steer under the lease of an active recovery leaves the parked
\* payload only when that recovery commits it.
THEOREM LeasedStaysParked == Spec => LeaseProtects
<1>1. IInv /\ [Next]_vars => [LeaseKept]_vars
  BY StepLeases
<1> QED BY <1>1, Invariance, PTL DEF Spec, LeaseProtects

(***************************************************************************)
(* Recoveries.  Two generations may name one source, when the first ended  *)
(* before it committed; that both commit is what RecInv excludes.          *)
(***************************************************************************)

Left         == {"leftover", "recovered", "cancelled"}
Committed(g) == recovery[g] = "committed"

\* No generation to come has a recovery; a recovered source is not pending
\* any more; a committed one is out of the parked payload, and no later
\* generation names it.
RecInv ==
    /\ \A g \in Gens : g > job.gen => source[g] = NoSteer /\ recovery[g] = "none"
    /\ \A g \in Gens : recovery[g] # "none" => source[g] \in Steers
    /\ \A g \in Gens : source[g] \in Steers => receipt[source[g]].state \in Left
    /\ \A g \in Gens : Committed(g) => source[g] \notin Items(parked)
    /\ \A g, h \in Gens : Committed(g) /\ source[h] = source[g] => h <= g

\* A steer that is no longer pending does not become so again, and is not
\* parked again.
LEMMA LeftStaysLeft ==
  ASSUME IInv, [Next]_vars, NEW s \in Steers, receipt[s].state \in Left
  PROVE  receipt'[s].state \in Left /\ (s \in Items(parked') => s \in Items(parked))
<1> DEFINE Stays == receipt'[s].state \in Left /\ (s \in Items(parked') => s \in Items(parked))
<1>1. /\ s \notin Items(queue) /\ s \notin Items(claimed)
      /\ receipt[s].state \notin {"none", "queued", "claimed"}
      /\ receipt \in [Steers -> [state : ReceiptStates, gen : 0..MaxGen]]
      /\ parked \in Seq(Steers) /\ claimed \in Seq(Steers)
  BY InvFacts DEF Left, ReceiptTypeOK
<1>2. \A S : \A st \in Left : Settled(S, st)[s].state \in Left
  BY <1>1 DEF Settled, Left, ReceiptStates
<1>3. \A S, st : s \notin S => Settled(S, st)[s] = receipt[s]
  BY DEF Settled
<1>4. \A S : Items(Without(parked, S)) \subseteq Items(parked)
  BY <1>1, WithoutItems
<1>5. "leftover" \in Left /\ "recovered" \in Left /\ "cancelled" \in Left
  BY DEF Left
<1>6. ASSUME ParkQueued PROVE Stays
  <2> DEFINE q == claimed \o queue
  <2>1. q \in Seq(Steers) /\ Items(q) = Items(claimed) \cup Items(queue)
    BY InvFacts, ConcatItems
  <2>2. parked' = Merge(parked, q) /\ receipt' = Settled(Items(claimed) \cup Items(queue), "leftover")
    BY <1>6 DEF ParkQueued, ParkedWithQueued
  <2> HIDE DEF q
  <2>3. Items(parked') = Items(parked) \cup Items(q)
    BY <1>1, <2>1, <2>2, MergeItems
  <2> QED BY <1>1, <1>3, <2>1, <2>2, <2>3
<1>7. ASSUME NEW r \in Steers, Enqueue(r) \/ ReadReceipt(r) \/ Discard(r)
      PROVE  Stays
  <2>1. CASE Enqueue(r)
    BY <1>1, <2>1 DEF Enqueue, StoreEnqueue
  <2>2. CASE ReadReceipt(r)
    BY <1>1, <2>2, NormalizedIsIdentity DEF ReadReceipt, StoreReadReceipt
  <2>3. CASE Discard(r)
    BY <1>2, <1>4, <1>5, <2>3 DEF Discard, StoreDiscard
  <2> QED BY <1>7, <2>1, <2>2, <2>3
<1>8. ASSUME NEW r \in Steers, NEW g \in Gens, Cancel(r, g)
      PROVE  Stays
  BY <1>2, <1>5, <1>8 DEF Cancel, StoreRemove
<1>9. ASSUME NEW rec \in Steers \cup {NoSteer}, CreateJob(rec)
      PROVE  Stays
  BY <1>6, <1>9 DEF CreateJob, StoreCreate
<1>10. ASSUME NEW g \in Gens, Claim(g)
       PROVE  Stays
  BY <1>1, <1>3, <1>10 DEF Claim, StoreDrain
<1>11. ASSUME NEW g \in Gens, NEW a, NEW k, AdmitTerminal(g, a, k)
       PROVE  Stays
  BY <1>10, <1>11 DEF AdmitTerminal, StoreSeal
<1>12. ASSUME NEW g \in Gens, ApplyCommits(g) \/ ApplyReplyLost(g)
       PROVE  Stays
  <2> DEFINE r == Head(batch[g])
  <2>1. r \in Items(claimed) /\ receipt' = Settled({r}, "delivered") /\ parked' = parked
    BY <1>12 DEF ApplyCommits, ApplyReplyLost, StoreDeliver, Deliverable
  <2> HIDE DEF r
  <2> QED BY <1>1, <1>3, <2>1
<1>13. ASSUME NEW g \in Gens, Restore(g)
       PROVE  Stays
  <2>1. CASE UNCHANGED store
    BY <2>1 DEF store
  <2>2. CASE StoreRestore(batch[g], g)
    <3> DEFINE restored == Without(Within(claimed, Items(batch[g])), Items(queue))
    <3>1. receipt' = Settled(Items(restored), "queued") /\ parked' = parked
      BY <2>2 DEF StoreRestore
    <3>2. Items(restored) \subseteq Items(claimed)
      <4>1. /\ Within(claimed, Items(batch[g])) \in Seq(Steers)
            /\ Items(Within(claimed, Items(batch[g]))) \subseteq Items(claimed)
        BY <1>1, WithinItems
      <4> QED BY <4>1, WithoutItems
    <3> HIDE DEF restored
    <3> QED BY <1>1, <1>3, <3>1, <3>2
  <2> QED BY <1>13, <2>1, <2>2 DEF Restore
<1>14. ASSUME NEW g \in Gens, ConsumeRecovered(g)
       PROVE  Stays
  BY <1>2, <1>4, <1>5, <1>14 DEF ConsumeRecovered, StoreConsume, store
<1>15. ASSUME NEW g \in Gens, ApplyFails(g) \/ Pause(g) \/ Resume(g) \/ PersistUserMessage(g)
       PROVE  Stays
  BY <1>15 DEF ApplyFails, Pause, Resume, PersistUserMessage, StorePause, StoreResume, store
<1>16. ASSUME NEW g \in Gens, StopJob(g) \/ FinishRun(g)
       PROVE  Stays
  BY <1>6, <1>16 DEF StopJob, FinishRun, StoreTerminate
<1>17. CASE ReapStale \/ EvictOldest \/ ExpireApproval
  BY <1>6, <1>17 DEF ReapStale, EvictOldest, ExpireApproval, StoreTerminate, StoreReapStale,
                     StoreEvictOldest, ParkAndDelete
<1>18. CASE LegacyClaim \/ DeleteJob
  BY <1>4, <1>18 DEF LegacyClaim, DeleteJob, StoreLegacyClaim, StoreDelete
<1>19. CASE ExpireParked \/ UNCHANGED vars
  BY <1>19 DEF ExpireParked, StoreExpireParked, Items, vars, store
<1> QED BY <1>7, <1>8, <1>9, <1>10, <1>11, <1>12, <1>13, <1>14, <1>15, <1>16, <1>17, <1>18, <1>19
        DEF Next, Drain

\* What can become of the recoveries in one step.
LEMMA RecoveryMoves ==
  ASSUME IInv, [Next]_vars
  PROVE  \/ job'.gen = job.gen /\ UNCHANGED <<source, recovery>>
         \/ \E rec \in Steers \cup {NoSteer} : CreateJob(rec)
         \/ /\ job'.gen = job.gen /\ UNCHANGED source
            /\ \E g \in Gens : PersistUserMessage(g) \/ ConsumeRecovered(g)
<1>1. job \in [gen : 0..MaxGen, status : Statuses, recovers : Steers \cup {NoSteer}]
  BY DEF IInv, TypeOK, StoreTypeOK
<1>2. ASSUME NEW s \in Steers, \/ Enqueue(s) \/ ReadReceipt(s) \/ Discard(s)
                               \/ \E g \in Gens : Cancel(s, g)
      PROVE  job'.gen = job.gen /\ UNCHANGED <<source, recovery>>
  BY <1>2 DEF Enqueue, StoreEnqueue, ReadReceipt, StoreReadReceipt, Discard, StoreDiscard,
              Cancel, StoreRemove, owner
<1>3. ASSUME NEW g \in Gens, \/ Drain(g) \/ ApplyCommits(g) \/ ApplyFails(g)
                             \/ ApplyReplyLost(g) \/ Restore(g)
                             \/ \E a, k \in BOOLEAN : AdmitTerminal(g, a, k)
      PROVE  job'.gen = job.gen /\ UNCHANGED <<source, recovery>>
  BY <1>3 DEF Drain, Claim, StoreDrain, AdmitTerminal, StoreSeal, ApplyCommits, ApplyFails,
              ApplyReplyLost, Applied, StoreDeliver, Restore, StoreRestore, store, owner
<1>4. ASSUME NEW g \in Gens, Pause(g) \/ Resume(g) \/ StopJob(g) \/ FinishRun(g)
      PROVE  job'.gen = job.gen /\ UNCHANGED <<source, recovery>>
  BY <1>1, <1>4 DEF Pause, Resume, StopJob, FinishRun, StorePause, StoreResume, StoreTerminate,
                    owner
<1>5. ASSUME NEW g \in Gens, PersistUserMessage(g) \/ ConsumeRecovered(g)
      PROVE  job'.gen = job.gen /\ UNCHANGED source
  BY <1>5 DEF PersistUserMessage, ConsumeRecovered, StoreConsume, store
<1>6. CASE LegacyClaim \/ ReapStale \/ EvictOldest \/ ExpireApproval \/ DeleteJob \/ ExpireParked
           \/ UNCHANGED vars
  BY <1>1, <1>6 DEF LegacyClaim, ReapStale, EvictOldest, ExpireApproval, DeleteJob, ExpireParked,
       StoreLegacyClaim, StoreReapStale, StoreEvictOldest, StoreTerminate, StoreDelete,
       StoreExpireParked, ParkAndDelete, owner, vars, store
<1> QED BY <1>2, <1>3, <1>4, <1>5, <1>6 DEF Next

\* RecInv is kept: a source is leased to the newest generation, and only the
\* newest commits.
LEMMA RecKept ==
  ASSUME IInv, RecInv, [Next]_vars
  PROVE  RecInv'
<1>1. /\ source \in [Gens -> Steers \cup {NoSteer}] /\ recovery \in [Gens -> Recoveries]
      /\ job.gen \in 0..MaxGen /\ NoSteer \notin Steers
  BY DEF IInv, TypeOK, StoreTypeOK
<1>2. \A s \in Steers : receipt[s].state \in Left =>
         receipt'[s].state \in Left /\ (s \in Items(parked') => s \in Items(parked))
  BY LeftStaysLeft
<1>3. CASE job'.gen = job.gen /\ UNCHANGED <<source, recovery>>
  BY <1>2, <1>3 DEF RecInv, Committed
<1>4. ASSUME NEW rec \in Steers \cup {NoSteer}, CreateJob(rec)
      PROVE  RecInv'
  <2> DEFINE n == job.gen + 1
  <2>1. /\ job'.gen = n /\ n \in Gens
        /\ source' = [source EXCEPT ![n] = rec]
        /\ recovery' = [recovery EXCEPT ![n] = IF rec = NoSteer THEN "none" ELSE "leased"]
    BY <1>1, <1>4 DEF CreateJob, StoreCreate, Gens
  <2>2. source[n] = NoSteer /\ recovery[n] = "none"
    BY <1>1, <2>1 DEF RecInv
  <2>3. rec \in Steers => receipt'[rec].state = "leftover" /\ rec \in Items(parked')
    <3> SUFFICES ASSUME rec \in Steers PROVE receipt'[rec].state = "leftover" /\ rec \in Items(parked')
      OBVIOUS
    <3> DEFINE q == claimed \o queue
    <3>1. q \in Seq(Steers) /\ Items(q) = Items(claimed) \cup Items(queue)
      BY InvFacts, ConcatItems
    <3>2. /\ parked' = Merge(parked, q)
          /\ receipt' = Settled(Items(claimed) \cup Items(queue), "leftover")
      BY <1>4 DEF CreateJob, StoreCreate, ParkQueued, ParkedWithQueued
    <3>3. rec \in Items(parked) \cup Items(claimed) \cup Items(queue)
      BY <1>1, <1>4 DEF CreateJob, StoreCreate
    <3> HIDE DEF q
    <3>4. Items(parked') = Items(parked) \cup Items(q)
      BY <3>1, <3>2, InvFacts, MergeItems
    <3>5. receipt'[rec].state = "leftover"
      <4>1. "leftover" \in ReceiptStates
        BY DEF ReceiptStates
      <4>2. rec \in Items(parked) => receipt[rec].state = "leftover"
        BY InvFacts
      <4> QED BY <3>2, <3>3, <4>1, <4>2, InvFacts, SettledReceipts
    <3> QED BY <3>1, <3>3, <3>4, <3>5
  <2>4. \A g \in Gens : Committed(g)' => g # n /\ Committed(g) /\ source'[g] = source[g]
    BY <1>1, <2>1 DEF Committed
  <2>5. \A g \in Gens : Committed(g) => source[g] \in Steers /\ source[g] \notin Items(parked')
    BY <1>2 DEF RecInv, Committed
  <2> HIDE DEF n
  <2>6. \A g \in Gens : g > n => source'[g] = NoSteer /\ recovery'[g] = "none"
    BY <1>1, <2>1 DEF RecInv, Gens, n
  <2>7. \A g \in Gens : recovery'[g] # "none" => source'[g] \in Steers
    BY <1>1, <2>1 DEF RecInv
  <2>8. \A g \in Gens : source'[g] \in Steers => receipt'[source'[g]].state \in Left
    BY <1>1, <1>2, <2>1, <2>3 DEF RecInv, Left
  <2>9. \A g \in Gens : Committed(g)' => source'[g] \notin Items(parked')
    BY <2>4, <2>5
  <2>10. ASSUME NEW g \in Gens, NEW h \in Gens, Committed(g)', source'[h] = source'[g]
         PROVE  h <= g
    <3>1. h # n
      BY <1>1, <2>1, <2>3, <2>4, <2>5, <2>10
    <3>2. source'[h] = source[h]
      BY <1>1, <2>1, <3>1
    <3> QED BY <2>4, <2>10, <3>2 DEF RecInv
  <2>11. job'.gen = n
    BY <2>1
  <2> QED BY <2>6, <2>7, <2>8, <2>9, <2>10, <2>11 DEF RecInv
<1>5. ASSUME NEW g \in Gens, PersistUserMessage(g) \/ ConsumeRecovered(g), job'.gen = job.gen,
             source' = source
      PROVE  RecInv'
  <2>1. /\ \A h \in Gens \ {g} : recovery'[h] = recovery[h]
        /\ recovery[g] # "none"
    BY <1>1, <1>5 DEF PersistUserMessage, ConsumeRecovered
  <2>2. source[g] \in Steers /\ g <= job.gen
    BY <1>1, <2>1 DEF RecInv, Gens
  <2>3. Committed(g)' => g = job.gen /\ source[g] \notin Items(parked')
    <3>1. CASE PersistUserMessage(g)
      BY <1>1, <3>1 DEF PersistUserMessage, Committed
    <3>2. CASE ConsumeRecovered(g)
      <4>1. Committed(g)' => ConsumeAnswer(source[g], g)
        BY <1>1, <3>2 DEF ConsumeRecovered, Committed
      <4>2. ConsumeAnswer(source[g], g) => g = job.gen
        BY DEF ConsumeAnswer, ConsumeSettles, ConsumeOwned
      <4>3. CASE ConsumeSettles(source[g], g)
        <5>1. parked' = Without(parked, {source[g]})
          BY <3>2, <4>3 DEF ConsumeRecovered, StoreConsume
        <5>2. source[g] \notin Items(parked')
          BY <5>1, InvFacts, WithoutItems
        <5> QED BY <4>1, <4>2, <5>2
      <4>4. CASE ~ConsumeSettles(source[g], g)
        <5>1. parked' = parked
          BY <3>2, <4>4 DEF ConsumeRecovered, StoreConsume, store
        <5>2. ConsumeAnswer(source[g], g) => Items(parked) = {}
          BY <4>4 DEF ConsumeAnswer, Items
        <5> QED BY <4>1, <4>2, <5>1, <5>2
      <4> QED BY <4>3, <4>4
    <3> QED BY <1>5, <3>1, <3>2
  <2>4. \A h \in Gens : h > job.gen => source[h] = NoSteer /\ recovery'[h] = "none"
    BY <1>1, <2>1, <2>2 DEF RecInv, Gens
  <2>5. \A h \in Gens : recovery'[h] # "none" => source[h] \in Steers
    BY <2>1, <2>2 DEF RecInv
  <2>6. \A h \in Gens : source[h] \in Steers => receipt'[source[h]].state \in Left
    BY <1>2 DEF RecInv
  <2>7. \A h \in Gens : Committed(h)' => source[h] \notin Items(parked')
    BY <1>2, <2>1, <2>3 DEF RecInv, Committed
  <2>8. ASSUME NEW h \in Gens, NEW i \in Gens, Committed(h)', source[i] = source[h]
        PROVE  i <= h
    <3>1. CASE h = g
      <4>1. source[i] \in Steers /\ h = job.gen
        BY <2>2, <2>3, <2>8, <3>1
      <4> QED BY <1>1, <4>1 DEF RecInv, Gens
    <3>2. CASE h # g
      BY <2>1, <2>8, <3>2 DEF RecInv, Committed
    <3> QED BY <3>1, <3>2
  <2> QED BY <1>5, <2>4, <2>5, <2>6, <2>7, <2>8 DEF RecInv
<1> QED BY <1>3, <1>4, <1>5, RecoveryMoves

\* One steer is recovered into at most one turn, and never after it was
\* delivered inline.
THEOREM RecoveredAtMostOnce == Spec => []RecoveredOnce
<1>1. Init => RecInv
  <2> SUFFICES ASSUME Init PROVE RecInv
    OBVIOUS
  <2>1. \A g \in Gens : source[g] = NoSteer /\ recovery[g] = "none"
    BY DEF Init
  <2> QED BY <2>1 DEF RecInv, Committed
<1>2. IInv /\ RecInv /\ [Next]_vars => RecInv'
  BY RecKept
<1>3. RecInv => RecoveredOnce
  <2> SUFFICES ASSUME RecInv PROVE RecoveredOnce
    OBVIOUS
  <2>1. ASSUME NEW g \in Gens, NEW h \in Gens, Committed(g), Committed(h), source[g] = source[h]
        PROVE  g = h
    <3>1. g <= h /\ h <= g
      BY <2>1 DEF RecInv
    <3> QED BY <3>1 DEF Gens
  <2>2. ASSUME NEW g \in Gens, Committed(g) PROVE receipt[source[g]].state # "delivered"
    BY <2>2 DEF RecInv, Committed, Left
  <2> QED BY <2>1, <2>2 DEF RecoveredOnce, Committed
<1> QED BY <1>1, <1>2, <1>3, Invariance, PTL DEF Spec

(***************************************************************************)
(* A delivered receipt and the content it speaks of.                       *)
(***************************************************************************)

\* Over a store whose replies are not lost a delivered steer is in its
\* generation's content at every moment.
ContentInv ==
    \A s \in Steers, g \in Gens :
        receipt[s] = [state |-> "delivered", gen |-> g] => s \in Items(delivered[g])

\* Receipts become delivered by the step that applies the steer, and content
\* only grows.
LEMMA DeliveryMoves ==
  ASSUME IInv, [Next]_vars, ~StoreFaults
  PROVE  \/ /\ delivered' = delivered
            /\ \A s \in Steers : receipt'[s].state = "delivered" => receipt'[s] = receipt[s]
         \/ \E g \in Gens : ApplyCommits(g)
<1> DEFINE Same == /\ delivered' = delivered
                   /\ \A s \in Steers : receipt'[s].state = "delivered" => receipt'[s] = receipt[s]
<1>1. receipt \in [Steers -> [state : ReceiptStates, gen : 0..MaxGen]]
  BY InvFacts DEF ReceiptTypeOK
<1>2. ASSUME NEW S, NEW st \in ReceiptStates \ {"delivered"}, receipt' = Settled(S, st)
      PROVE  \A s \in Steers : receipt'[s].state = "delivered" => receipt'[s] = receipt[s]
  BY <1>1, <1>2 DEF Settled
<1>3. {"queued", "claimed", "leftover", "recovered", "cancelled"} \subseteq ReceiptStates \ {"delivered"}
  BY DEF ReceiptStates
<1>4. ParkQueued => \A s \in Steers : receipt'[s].state = "delivered" => receipt'[s] = receipt[s]
  BY <1>2, <1>3 DEF ParkQueued
<1>5. ASSUME NEW s \in Steers, \/ Enqueue(s) \/ ReadReceipt(s) \/ Discard(s)
                               \/ \E g \in Gens : Cancel(s, g)
      PROVE  Same
  <2>1. CASE Enqueue(s)
    <3>1. receipt' = [receipt EXCEPT ![s] = [state |-> "queued", gen |-> job.gen]]
      BY <2>1 DEF Enqueue, StoreEnqueue
    <3>2. \A r \in Steers : receipt'[r].state = "delivered" => receipt'[r] = receipt[r]
      BY <1>1, <3>1
    <3> QED BY <2>1, <3>2 DEF Enqueue, owner
  <2>2. CASE ReadReceipt(s)
    BY <1>1, <2>2, NormalizedIsIdentity DEF ReadReceipt, StoreReadReceipt, owner
  <2>3. CASE Discard(s)
    BY <1>2, <1>3, <2>3 DEF Discard, StoreDiscard, owner
  <2>4. CASE \E g \in Gens : Cancel(s, g)
    BY <1>2, <1>3, <2>4 DEF Cancel, StoreRemove, owner
  <2> QED BY <1>5, <2>1, <2>2, <2>3, <2>4
<1>6. ASSUME NEW rec \in Steers \cup {NoSteer}, CreateJob(rec)
      PROVE  Same
  BY <1>4, <1>6 DEF CreateJob, StoreCreate
<1>7. ASSUME NEW g \in Gens, Drain(g) \/ \E a, k \in BOOLEAN : AdmitTerminal(g, a, k)
      PROVE  Same
  <2>1. Claim(g) => Same
    BY <1>2, <1>3 DEF Claim, StoreDrain
  <2>2. (UNCHANGED <<owner, receipt>>) => Same
    BY DEF owner
  <2> QED BY <1>7, <2>1, <2>2 DEF Drain, AdmitTerminal, StoreSeal
<1>8. ASSUME NEW g \in Gens, ApplyFails(g) \/ Pause(g) \/ Resume(g) \/ PersistUserMessage(g)
      PROVE  Same
  BY <1>8 DEF ApplyFails, Pause, Resume, PersistUserMessage, StorePause, StoreResume, store, owner
<1>9. ASSUME NEW g \in Gens, Restore(g)
      PROVE  Same
  <2>1. delivered' = delivered
    BY <1>9 DEF Restore
  <2>2. CASE StoreRestore(batch[g], g)
    <3>1. \E S : receipt' = Settled(S, "queued")
      BY <2>2 DEF StoreRestore
    <3> QED BY <1>2, <1>3, <2>1, <3>1
  <2>3. CASE UNCHANGED store
    BY <2>1, <2>3 DEF store
  <2> QED BY <1>9, <2>2, <2>3 DEF Restore
<1>10. ASSUME NEW g \in Gens, StopJob(g) \/ FinishRun(g)
       PROVE  Same
  BY <1>4, <1>10 DEF StopJob, FinishRun, StoreTerminate, owner
<1>11. ASSUME NEW g \in Gens, ConsumeRecovered(g)
       PROVE  Same
  BY <1>2, <1>3, <1>11 DEF ConsumeRecovered, StoreConsume, store
<1>12. CASE ReapStale \/ EvictOldest \/ ExpireApproval
  BY <1>4, <1>12 DEF ReapStale, EvictOldest, ExpireApproval, StoreTerminate, StoreReapStale,
                     StoreEvictOldest, ParkAndDelete, owner
<1>13. CASE LegacyClaim \/ DeleteJob \/ ExpireParked \/ UNCHANGED vars
  BY <1>13 DEF LegacyClaim, DeleteJob, ExpireParked, StoreLegacyClaim, StoreDelete,
               StoreExpireParked, owner, vars, store
<1>14. \A g \in Gens : ~ApplyReplyLost(g)
  BY DEF ApplyReplyLost
<1> QED BY <1>5, <1>6, <1>7, <1>8, <1>9, <1>10, <1>11, <1>12, <1>13, <1>14 DEF Next

\* Content is kept in step with the receipts.
LEMMA ContentKept ==
  ASSUME IInv, ContentInv, [Next]_vars, ~StoreFaults
  PROVE  ContentInv'
<1>1. CASE /\ delivered' = delivered
           /\ \A s \in Steers : receipt'[s].state = "delivered" => receipt'[s] = receipt[s]
  <2> SUFFICES ASSUME NEW s \in Steers, NEW g \in Gens,
                      receipt'[s] = [state |-> "delivered", gen |-> g]
               PROVE  s \in Items(delivered'[g])
    BY DEF ContentInv
  <2>1. receipt'[s].state = "delivered"
    OBVIOUS
  <2>2. receipt[s] = [state |-> "delivered", gen |-> g]
    BY <1>1, <2>1
  <2> QED BY <1>1, <2>2 DEF ContentInv
<1>2. ASSUME NEW h \in Gens, ApplyCommits(h)
      PROVE  ContentInv'
  <2> DEFINE r == Head(batch[h])
  <2>1. /\ receipt[r] = [state |-> "claimed", gen |-> h] /\ r \in Steers
        /\ receipt' = Settled({r}, "delivered")
    BY <1>2, InvFacts DEF ApplyCommits, StoreDeliver, Deliverable
  <2>2. delivered' = [delivered EXCEPT ![h] = Append(@, r)]
    BY <1>2 DEF ApplyCommits, Applied
  <2> HIDE DEF r
  <2>3. delivered \in [Gens -> Seq(Steers)]
    BY DEF IInv, TypeOK
  <2>4. \A g \in Gens : Items(delivered'[g]) = IF g = h THEN Items(delivered[g]) \cup {r}
                                                        ELSE Items(delivered[g])
    BY <2>1, <2>2, <2>3, AppendItems
  <2> SUFFICES ASSUME NEW s \in Steers, NEW g \in Gens,
                      receipt'[s] = [state |-> "delivered", gen |-> g]
               PROVE  s \in Items(delivered'[g])
    BY DEF ContentInv
  <2>5. CASE s = r
    <3>1. receipt[r].gen = h
      BY <2>1
    <3>2. receipt'[r].gen = receipt[r].gen
      BY <2>1, InvFacts, SettledReceipts DEF ReceiptStates
    <3>3. receipt'[s].gen = g
      OBVIOUS
    <3> QED BY <2>4, <2>5, <3>1, <3>2, <3>3
  <2>6. CASE s # r
    <3>1. receipt'[s] = receipt[s]
      BY <2>1, <2>6 DEF Settled
    <3> QED BY <2>4, <3>1 DEF ContentInv
  <2> QED BY <2>5, <2>6
<1> QED BY <1>1, <1>2, DeliveryMoves

\* A steer whose receipt says delivered is in its generation's content, as
\* soon as the owner is through with the boundary, if no reply is lost.
THEOREM DeliveredIsShown == Spec => [](~StoreFaults => DeliveredIsInContent)
<1>1. Init => ContentInv
  BY DEF Init, StoreInit, ContentInv
<1>2. ASSUME IInv, ContentInv, [Next]_vars, ~StoreFaults
      PROVE  ContentInv'
  BY <1>2, ContentKept
<1>3. Init => (~StoreFaults => ContentInv)
  BY <1>1
<1>4. IInv /\ (~StoreFaults => ContentInv) /\ [Next]_vars => (~StoreFaults => ContentInv)'
  BY <1>2
<1>5. (~StoreFaults => ContentInv) => (~StoreFaults => DeliveredIsInContent)
  BY DEF ContentInv, DeliveredIsInContent
<1> QED BY <1>3, <1>4, <1>5, Invariance, PTL DEF Spec

(***************************************************************************)
(* The promise: one line of waiting steers.                                *)
(***************************************************************************)

\* What the current generation has claimed is what its owner has drained and
\* not applied yet, in that order; while the owner is at it, the run is
\* neither paused nor sealed.
LineInv ==
    /\ \A g \in Gens : g > job.gen => batch[g] = <<>>
    /\ \A g \in Gens : pc[g] = "run" => batch[g] = <<>>
    /\ \A g \in Gens : Active /\ job.gen = g =>
         /\ claimed = batch[g]
         /\ pc[g] \in {"apply", "restore"} => job.status = "running" /\ ~closed

\* A restore of the current generation meets the store's conditions and puts
\* the whole batch back in front of the queue.
LEMMA RestoreIsWhole ==
  ASSUME IInv, LineInv, NEW g \in Gens, Restore(g), Active, job.gen = g
  PROVE  /\ ~StoreFaults => StoreRestore(batch[g], g)
         /\ StoreRestore(batch[g], g) => claimed' = <<>> /\ queue' = claimed \o queue
<1>1. /\ claimed = batch[g] /\ Open(g) /\ pc[g] = "restore"
  BY DEF LineInv, Open, Restore
<1>2. /\ claimed \in Seq(Steers) /\ Distinct(claimed)
      /\ Items(claimed) \subseteq Steers /\ Items(claimed) \cap Items(queue) = {}
      /\ \A s \in Items(claimed) : receipt[s].state = "claimed" /\ receipt[s].gen = g
  BY InvFacts
<1>3. \A s \in Items(claimed) : receipt[s] = [state |-> "claimed", gen |-> g]
  BY <1>2, InvFacts, ReceiptEqual
<1>4. Restorable(batch[g], g)
  BY <1>1, <1>3 DEF Restorable
<1>5. Within(claimed, Items(claimed)) = claimed /\ Without(claimed, Items(queue)) = claimed
  BY <1>2, WithinAll, WithoutNone
<1>6. Items(Without(claimed, Items(claimed))) = {} /\ Without(claimed, Items(claimed)) \in Seq(Steers)
  BY <1>2, WithoutItems
<1>7. Without(claimed, Items(claimed)) = <<>>
  BY <1>6, ItemsType
<1>8. StoreRestore(batch[g], g) => claimed' = <<>> /\ queue' = claimed \o queue
  BY <1>1, <1>5, <1>7 DEF StoreRestore
<1> QED BY <1>4, <1>8 DEF Restore

\* An applied steer is the first of the claimed ones.
LEMMA AppliesTheFirst ==
  ASSUME IInv, LineInv, NEW g \in Gens, ApplyCommits(g)
  PROVE  /\ job.gen = g /\ claimed # <<>>
         /\ Head(batch[g]) = Head(claimed) /\ claimed' = Tail(claimed)
         /\ batch' = [batch EXCEPT ![g] = Tail(claimed)]
<1>1. /\ Open(g) /\ claimed' = Without(claimed, {Head(batch[g])}) /\ pc[g] = "apply"
      /\ batch' = [batch EXCEPT ![g] = Tail(batch[g])]
  BY DEF ApplyCommits, Applied, StoreDeliver, Deliverable
<1>2. job.gen = g /\ claimed = batch[g]
  BY <1>1 DEF LineInv, Open, Active
<1>3. claimed # <<>> /\ claimed \in Seq(Steers) /\ Distinct(claimed)
  BY <1>1, <1>2, InvFacts DEF IInv, OwnersHoldWork
<1>4. Without(claimed, {Head(claimed)}) = Tail(claimed)
  BY <1>3, WithoutHead
<1> QED BY <1>1, <1>2, <1>3, <1>4

\* LineInv is kept.
LEMMA LineKept ==
  ASSUME IInv, LineInv, [Next]_vars, ~StoreFaults
  PROVE  LineInv'
<1>1. /\ job \in [gen : 0..MaxGen, status : Statuses, recovers : Steers \cup {NoSteer}]
      /\ batch \in [Gens -> Seq(Steers)] /\ pc \in [Gens -> PCs]
  BY DEF IInv, TypeOK, StoreTypeOK
<1>2. CASE UNCHANGED <<job, closed, claimed, pc, batch>>
  BY <1>2 DEF LineInv, Active
<1>3. ASSUME job'.gen = job.gen, job'.status \notin {"running", "requires_action"}, batch' = batch,
             \A g \in Gens : pc'[g] = "run" => pc[g] = "run"
      PROVE  LineInv'
  BY <1>3 DEF LineInv, Active
<1>4. ASSUME NEW s \in Steers, \/ Enqueue(s) \/ ReadReceipt(s) \/ Discard(s)
                               \/ \E g \in Gens : Cancel(s, g)
      PROVE  LineInv'
  BY <1>2, <1>4 DEF Enqueue, StoreEnqueue, ReadReceipt, StoreReadReceipt, Discard, StoreDiscard,
              Cancel, StoreRemove, owner
<1>5. ASSUME NEW rec \in Steers \cup {NoSteer}, CreateJob(rec)
      PROVE  LineInv'
  <2> DEFINE n == job.gen + 1
  <2>1. /\ job'.gen = n /\ n \in Gens /\ claimed' = <<>> /\ batch' = batch
        /\ pc' = [pc EXCEPT ![n] = "run"]
    BY <1>1, <1>5 DEF CreateJob, StoreCreate, ParkQueued, Gens
  <2>2. batch[n] = <<>>
    BY <1>1, <2>1 DEF LineInv
  <2> HIDE DEF n
  <2>3. \A g \in Gens : g > n => batch'[g] = <<>>
    BY <1>1, <2>1 DEF LineInv, Gens, n
  <2>4. \A g \in Gens : pc'[g] = "run" => batch'[g] = <<>>
    BY <1>1, <2>1, <2>2 DEF LineInv
  <2>5. claimed' = batch'[n] /\ pc'[n] = "run"
    BY <1>1, <2>1, <2>2
  <2> QED BY <2>1, <2>3, <2>4, <2>5 DEF LineInv
<1>6. ASSUME NEW g \in Gens, pc[g] = "run", Claim(g)
      PROVE  LineInv'
  <2>1. /\ Open(g) /\ claimed' = claimed \o queue /\ batch' = [batch EXCEPT ![g] = queue]
        /\ pc' = [pc EXCEPT ![g] = "apply"] /\ UNCHANGED <<job, closed>>
    BY <1>6 DEF Claim, StoreDrain, Drainable
  <2>2. claimed = <<>> /\ job.gen = g
    BY <1>6, <2>1 DEF LineInv, Open, Active
  <2>3. claimed' = queue
    BY <2>1, <2>2, InvFacts, ConcatEmptySeq
  <2>4. \A h \in Gens \ {g} : batch'[h] = batch[h] /\ pc'[h] = pc[h]
    BY <1>1, <2>1
  <2>5. batch'[g] = queue /\ pc'[g] = "apply"
    BY <1>1, <2>1
  <2>6. job.status = "running" /\ ~closed /\ job.gen \in Nat
    BY <1>1, <2>1 DEF Open
  <2>7. \A h \in Gens : h > job.gen => batch'[h] = <<>>
    BY <2>2, <2>4, <2>6 DEF LineInv
  <2>8. \A h \in Gens : pc'[h] = "run" => batch'[h] = <<>>
    BY <2>4, <2>5 DEF LineInv
  <2>9. job' = job /\ closed' = closed
    BY <2>1
  <2>10. claimed' = batch'[g]
    BY <2>3, <2>5
  <2> QED BY <2>2, <2>6, <2>7, <2>8, <2>9, <2>10 DEF LineInv
<1>7. ASSUME NEW g \in Gens, \/ Drain(g) \/ \E a, k \in BOOLEAN : AdmitTerminal(g, a, k)
      PROVE  LineInv'
  <2>1. CASE pc[g] = "run" /\ Claim(g)
    BY <1>6, <2>1
  <2>2. CASE pc[g] = "run" /\ Open(g) /\ UNCHANGED <<job, claimed, owner>>
    BY <2>2 DEF LineInv, Active, Open, owner
  <2> QED BY <1>7, <2>1, <2>2 DEF Drain, AdmitTerminal, StoreSeal
<1>8. ASSUME NEW g \in Gens, ApplyCommits(g)
      PROVE  LineInv'
  <2>1. /\ job.gen = g /\ claimed' = Tail(claimed) /\ batch' = [batch EXCEPT ![g] = Tail(claimed)]
        /\ UNCHANGED <<job, closed>> /\ pc[g] = "apply"
        /\ pc' = [pc EXCEPT ![g] = IF Tail(batch[g]) = <<>> THEN "run" ELSE "apply"]
        /\ batch'[g] = Tail(batch[g])
    BY <1>1, <1>8, AppliesTheFirst DEF ApplyCommits, StoreDeliver, Applied
  <2>2. \A h \in Gens \ {g} : batch'[h] = batch[h] /\ pc'[h] = pc[h]
    BY <1>1, <2>1
  <2>3. batch'[g] = Tail(claimed) /\ (pc'[g] = "run" => batch'[g] = <<>>)
    BY <1>1, <2>1
  <2>4. job.status = "running" /\ ~closed /\ job.gen \in Nat
    BY <1>1, <1>8 DEF ApplyCommits, StoreDeliver, Deliverable, Open
  <2>5. \A h \in Gens : h > job.gen => batch'[h] = <<>>
    BY <2>1, <2>2, <2>4 DEF LineInv
  <2>6. \A h \in Gens : pc'[h] = "run" => batch'[h] = <<>>
    BY <2>2, <2>3 DEF LineInv
  <2>7. job' = job /\ closed' = closed /\ claimed' = batch'[g] /\ job.gen = g
    BY <2>1, <2>3
  <2> QED BY <2>4, <2>5, <2>6, <2>7 DEF LineInv
<1>9. ASSUME NEW g \in Gens, ApplyFails(g)
      PROVE  LineInv'
  <2>1. /\ UNCHANGED <<job, closed, claimed, batch>> /\ pc[g] = "apply"
        /\ pc' = [pc EXCEPT ![g] = "restore"]
    BY <1>9 DEF ApplyFails, store
  <2> QED BY <1>1, <2>1 DEF LineInv, Active
<1>10. ASSUME NEW g \in Gens, Restore(g)
       PROVE  LineInv'
  <2>1. /\ UNCHANGED <<job, closed>> /\ pc' = [pc EXCEPT ![g] = "run"]
        /\ batch' = [batch EXCEPT ![g] = <<>>]
    BY <1>10 DEF Restore, StoreRestore, store
  <2>2. CASE Active /\ job.gen = g
    <3>1. claimed' = <<>>
      BY <1>10, <2>2, RestoreIsWhole
    <3> QED BY <1>1, <2>1, <2>2, <3>1 DEF LineInv, Active
  <2>3. CASE ~(Active /\ job.gen = g)
    <3>1. UNCHANGED claimed
      <4>1. ~Open(g)
        BY <2>3 DEF Open, Active
      <4> QED BY <1>10, <4>1 DEF Restore, StoreRestore, Restorable, store
    <3> QED BY <1>1, <2>1, <2>3, <3>1 DEF LineInv, Active
  <2> QED BY <2>2, <2>3
<1>11. ASSUME NEW g \in Gens, Pause(g) \/ Resume(g)
       PROVE  LineInv'
  <2>1. /\ job'.gen = job.gen /\ Active /\ UNCHANGED <<closed, claimed, batch, pc>>
        /\ job'.status = "running" \/ (job.gen = g /\ pc[g] = "run")
    BY <1>1, <1>11 DEF Pause, Resume, StorePause, StoreResume, owner, Active
  <2>2. \A h \in Gens : job.gen = h /\ pc[h] \in {"apply", "restore"} =>
             job'.status = "running" /\ ~closed
    BY <2>1 DEF LineInv
  <2> QED BY <2>1, <2>2 DEF LineInv
<1>12. ASSUME NEW g \in Gens, StopJob(g) \/ FinishRun(g)
       PROVE  LineInv'
  <2>1. job'.gen = job.gen /\ job'.status = "terminal" /\ batch' = batch
    BY <1>1, <1>12 DEF StopJob, FinishRun, StoreTerminate, owner
  <2>2. \A h \in Gens : pc'[h] = "run" => pc[h] = "run"
    BY <1>1, <1>12 DEF StopJob, FinishRun, owner
  <2> QED BY <1>3, <2>1, <2>2
<1>13. ASSUME NEW g \in Gens, PersistUserMessage(g) \/ ConsumeRecovered(g)
       PROVE  LineInv'
  BY <1>2, <1>13 DEF PersistUserMessage, ConsumeRecovered, StoreConsume, store
<1>14. CASE ReapStale \/ EvictOldest \/ ExpireApproval \/ DeleteJob
  <2>1. /\ job'.gen = job.gen /\ job'.status \in {"terminal", "absent"} /\ UNCHANGED <<batch, pc>>
    BY <1>1, <1>14 DEF ReapStale, EvictOldest, ExpireApproval, DeleteJob, StoreReapStale,
         StoreEvictOldest, StoreTerminate, StoreDelete, ParkAndDelete, owner
  <2> QED BY <1>3, <2>1
<1>15. CASE LegacyClaim \/ ExpireParked \/ UNCHANGED vars
  BY <1>2, <1>15 DEF LegacyClaim, ExpireParked, StoreLegacyClaim, StoreExpireParked, owner, vars,
                     store
<1>16. \A g \in Gens : ~ApplyReplyLost(g)
  BY DEF ApplyReplyLost
<1> QED BY <1>4, <1>5, <1>7, <1>8, <1>9, <1>10, <1>11, <1>12, <1>13, <1>14, <1>15, <1>16 DEF Next

\* The line of those who wait, and those who became a turn of their own.
Waiting   == claimed \o queue
Recovered == {s \in Steers : receipt[s].state = "recovered"}

\* What a step leaves alone of the line is a stutter of the promise.
LEMMA LineStutters ==
  ASSUME job'.gen = job.gen, accepted' = accepted, Waiting' = Waiting, delivered' = delivered,
         Items(parked') = Items(parked), Recovered' = Recovered
  PROVE  [Promise!Next]_(Promise!promise)
BY DEF Promise!promise, Waiting, Recovered

\* Parking what is queued and claimed keeps everybody who still waits.
LEMMA ParkingKeepsPending ==
  ASSUME IInv, ParkQueued, accepted' = accepted, delivered' = delivered
  PROVE  Promise!KeepPending
<1> DEFINE q == Waiting
<1>1. /\ q \in Seq(Steers) /\ Items(q) = Items(claimed) \cup Items(queue)
      /\ parked \in Seq(Steers)
  BY InvFacts, ConcatItems DEF Waiting
<1>2. /\ claimed' = <<>> /\ queue' = <<>> /\ parked' = Merge(parked, q)
      /\ receipt' = Settled(Items(claimed) \cup Items(queue), "leftover")
  BY DEF ParkQueued, ParkedWithQueued, Waiting
<1> HIDE DEF q
<1>3. Items(parked') = Items(parked) \cup Items(q)
  BY <1>1, <1>2, MergeItems
<1>4. claimed' \o queue' = <<>>
  BY <1>2
<1>5. Recovered' = Recovered
  <2>1. \A s \in Items(claimed) \cup Items(queue) :
           receipt[s].state # "recovered" /\ receipt'[s].state # "recovered"
    <3>1. "leftover" \in ReceiptStates
      BY DEF ReceiptStates
    <3>2. ReceiptTypeOK /\ Items(claimed) \subseteq Steers /\ Items(queue) \subseteq Steers
      BY InvFacts
    <3>3. \A s \in Items(claimed) \cup Items(queue) : receipt'[s].state = "leftover"
      BY <1>2, <3>1, <3>2, SettledReceipts
    <3>4. \A s \in Items(claimed) \cup Items(queue) : receipt[s].state \in {"claimed", "queued"}
      BY <3>2, InvFacts
    <3> QED BY <3>3, <3>4
  <2>2. \A s \in Steers : s \notin Items(claimed) \cup Items(queue) => receipt'[s] = receipt[s]
    BY <1>2 DEF Settled
  <2> QED BY <2>1, <2>2 DEF Recovered
<1>6. Items(parked') = Items(parked) \cup Items(claimed \o queue)
  BY <1>3 DEF q, Waiting
<1>7. accepted' = accepted /\ delivered' = delivered
  OBVIOUS
<1>8. Promise!Items(claimed \o queue) = Items(claimed \o queue)
  BY DEF Promise!Items, Items
<1> QED BY <1>4, <1>5, <1>6, <1>7, <1>8 DEF Promise!KeepPending, Recovered

\* A step that settles receipts of pending or left steers, but not as
\* recovered, leaves the recovered ones.
LEMMA RecoveredStay ==
  ASSUME IInv, NEW S, NEW st \in ReceiptStates \ {"recovered"}, receipt' = Settled(S, st),
         \A s \in S : s \in Steers => receipt[s].state # "recovered"
  PROVE  Recovered' = Recovered
<1>1. \A s \in Steers : receipt'[s].state = "recovered" <=> receipt[s].state = "recovered"
  BY InvFacts, SettledReceipts
<1> QED BY <1>1 DEF Recovered

\* An accepted steer joins the line.
LEMMA EnqueueAccepts ==
  ASSUME IInv, NEW s \in Steers, Enqueue(s)
  PROVE  Promise!Accept(s)
<1>1. /\ receipt[s].state = "none" /\ queue' = Append(queue, s) /\ accepted' = Append(accepted, s)
      /\ receipt' = [receipt EXCEPT ![s] = [state |-> "queued", gen |-> job.gen]]
      /\ UNCHANGED <<job, claimed, parked, delivered>>
  BY DEF Enqueue, StoreEnqueue, owner
<1>2. /\ s \notin Items(accepted) /\ Items(accepted') = Items(accepted) \cup {s}
      /\ claimed' \o queue' = Append(claimed \o queue, s)
  BY <1>1, InvFacts, AppendItems, ConcatAppend
<1>3. Recovered' = Recovered
  <2>1. \A r \in Steers : receipt'[r].state = "recovered" <=> receipt[r].state = "recovered"
    BY <1>1, InvFacts DEF ReceiptTypeOK
  <2> QED BY <2>1 DEF Recovered
<1> QED BY <1>1, <1>2, <1>3 DEF Promise!Accept, Recovered

\* A cancelled steer steps out of the line.
LEMMA CancelStepsOut ==
  ASSUME IInv, NEW s \in Steers, NEW g \in Gens, Cancel(s, g)
  PROVE  \E i \in DOMAIN (claimed \o queue) : Promise!StepOut(i)
<1>1. PICK i \in DOMAIN queue :
        queue' = SubSeq(queue, 1, i - 1) \o SubSeq(queue, i + 1, Len(queue))
  BY DEF Cancel, StoreRemove
<1>2. PICK k \in DOMAIN (claimed \o queue) :
        claimed \o queue' = SubSeq(claimed \o queue, 1, k - 1)
                               \o SubSeq(claimed \o queue, k + 1, Len(claimed \o queue))
  <2>1. claimed \in Seq(Steers) /\ queue \in Seq(Steers)
    BY InvFacts
  <2>2. \E k \in DOMAIN (claimed \o queue) :
          claimed \o (SubSeq(queue, 1, i - 1) \o SubSeq(queue, i + 1, Len(queue)))
            = SubSeq(claimed \o queue, 1, k - 1)
                \o SubSeq(claimed \o queue, k + 1, Len(claimed \o queue))
    BY <2>1, ConcatSplice
  <2> QED BY <1>1, <2>2
<1>3. /\ receipt' = Settled({s}, "cancelled") /\ receipt[s].state = "queued"
      /\ UNCHANGED <<job, claimed, parked, delivered, accepted>>
  BY DEF Cancel, StoreRemove, owner, history
<1>4. Recovered' = Recovered
  BY <1>3, RecoveredStay DEF ReceiptStates
<1>5. Promise!StepOut(k)
  BY <1>2, <1>3, <1>4 DEF Promise!StepOut, Recovered
<1> QED BY <1>5

\* An applied steer is the one at the front of the line.
LEMMA ApplyAnswers ==
  ASSUME IInv, LineInv, NEW g \in Gens, ApplyCommits(g)
  PROVE  Promise!Answer
<1>1. /\ job.gen = g /\ claimed # <<>> /\ Head(batch[g]) = Head(claimed) /\ claimed' = Tail(claimed)
  BY AppliesTheFirst
<1>2. /\ claimed \o queue # <<>> /\ Head(claimed \o queue) = Head(claimed)
      /\ claimed' \o queue = Tail(claimed \o queue)
  BY <1>1, InvFacts, ConcatTail
<1>3. /\ delivered' = [delivered EXCEPT ![g] = Append(@, Head(batch[g]))]
      /\ receipt' = Settled({Head(batch[g])}, "delivered")
      /\ receipt[Head(batch[g])].state = "claimed"
      /\ UNCHANGED <<job, queue, parked, accepted>>
  BY DEF ApplyCommits, Applied, StoreDeliver, Deliverable, history
<1>4. Recovered' = Recovered
  BY <1>3, RecoveredStay DEF ReceiptStates
<1> QED BY <1>1, <1>2, <1>3, <1>4 DEF Promise!Answer, Recovered

\* A step that takes parked steers away is a Forget.
LEMMA UnparkForgets ==
  ASSUME IInv, NEW S, parked' = Without(parked, S), Recovered' = Recovered,
         UNCHANGED <<job, queue, claimed, accepted, delivered>>
  PROVE  \E T \in SUBSET Items(parked) : Promise!Forget(T)
<1>1. Items(parked') = Items(parked) \ (S \cap Items(parked))
  BY InvFacts, WithoutItems
<1>2. Promise!Forget(S \cap Items(parked))
  BY <1>1 DEF Promise!Forget, Recovered
<1> QED BY <1>2

\* A consumed source is a leftover that becomes a turn.
LEMMA ConsumeRecovers ==
  ASSUME IInv, NEW g \in Gens, ConsumeRecovered(g), ConsumeSettles(source[g], g)
  PROVE  \E s \in Steers : Promise!Recover(s)
<1>0. PICK s : s = source[g]
  OBVIOUS
<1>1. /\ s \in Items(parked) /\ parked' = Without(parked, {s})
      /\ receipt' = Settled({s}, "recovered")
      /\ UNCHANGED <<job, queue, claimed, accepted, delivered>>
  BY <1>0 DEF ConsumeRecovered, StoreConsume, ConsumeSettles, history
<1>2. s \in Steers /\ Items(parked') = Items(parked) \ {s}
  BY <1>1, InvFacts, WithoutItems
<1>3. Recovered' = Recovered \cup {s}
  <2>1. \A r \in Steers : receipt'[r].state = "recovered" <=> r = s \/ receipt[r].state = "recovered"
    <3>1. "recovered" \in ReceiptStates
      BY DEF ReceiptStates
    <3>2. ReceiptTypeOK
      BY InvFacts
    <3>3. \A r \in Steers : /\ r \in {s} => receipt'[r].state = "recovered"
                            /\ r \notin {s} => receipt'[r] = receipt[r]
      BY <1>1, <3>1, <3>2, SettledReceipts
    <3>4. ASSUME NEW r \in Steers, r # s
          PROVE  receipt'[r].state = receipt[r].state
      BY <3>3, <3>4
    <3>5. receipt'[s].state = "recovered"
      <4>1. s \in Steers /\ s \in {s}
        BY <1>2
      <4> QED BY <3>3, <4>1
    <3> QED BY <3>4, <3>5
  <2> QED BY <1>2, <2>1 DEF Recovered
<1>4. Promise!Recover(s)
  BY <1>1, <1>2, <1>3 DEF Promise!Recover, Recovered
<1> QED BY <1>2, <1>4

\* Every step is a step of the promise, or a stutter.
LEMMA PromiseStep ==
  ASSUME IInv, LineInv, [Next]_vars, ~StoreFaults
  PROVE  [Promise!Next]_(Promise!promise)
<1> DEFINE Goal == [Promise!Next]_(Promise!promise)
<1>1. /\ job \in [gen : 0..MaxGen, status : Statuses, recovers : Steers \cup {NoSteer}]
      /\ queue \in Seq(Steers) /\ claimed \in Seq(Steers)
  BY InvFacts DEF IInv, TypeOK, StoreTypeOK
<1>2. ASSUME UNCHANGED <<queue, claimed, parked, receipt, accepted, delivered>>, job'.gen = job.gen
      PROVE  Goal
  BY <1>2, LineStutters DEF Waiting, Recovered
<1>3. ASSUME ParkQueued, accepted' = accepted, delivered' = delivered, job'.gen = job.gen
      PROVE  Goal
  <2>1. Promise!EndTurn
    BY <1>3, ParkingKeepsPending DEF Promise!EndTurn
  <2> QED BY <2>1 DEF Promise!Next
<1>4. ASSUME NEW s \in Steers, Enqueue(s)
      PROVE  Goal
  BY <1>4, EnqueueAccepts DEF Promise!Next
<1>5. ASSUME NEW s \in Steers, ReadReceipt(s)
      PROVE  Goal
  <2>1. receipt' = receipt
    BY <1>5, NormalizedIsIdentity, InvFacts DEF ReadReceipt, StoreReadReceipt, ReceiptTypeOK
  <2> QED BY <1>2, <1>5, <2>1 DEF ReadReceipt, StoreReadReceipt, owner, history
<1>6. ASSUME NEW s \in Steers, Discard(s)
      PROVE  Goal
  <2>1. /\ receipt[s].state = "leftover" /\ receipt' = Settled({s}, "cancelled")
        /\ parked' = Without(parked, {s})
        /\ UNCHANGED <<job, queue, claimed, accepted, delivered>>
    BY <1>6 DEF Discard, StoreDiscard, owner, history
  <2>2. Recovered' = Recovered
    BY <2>1, RecoveredStay DEF ReceiptStates
  <2> QED BY <2>1, <2>2, UnparkForgets DEF Promise!Next
<1>7. ASSUME NEW s \in Steers, NEW g \in Gens, Cancel(s, g)
      PROVE  Goal
  BY <1>7, CancelStepsOut DEF Promise!Next
<1>8. ASSUME NEW rec \in Steers \cup {NoSteer}, CreateJob(rec)
      PROVE  Goal
  <2>1. /\ ParkQueued /\ accepted' = accepted /\ delivered' = delivered
        /\ job'.gen = job.gen + 1 /\ job.gen + 1 \in Gens
    BY <1>1, <1>8 DEF CreateJob, StoreCreate, history, Gens
  <2>2. Promise!NewTurn
    BY <2>1, ParkingKeepsPending DEF Promise!NewTurn
  <2> QED BY <2>2 DEF Promise!Next
<1>9. ASSUME NEW g \in Gens, Claim(g)
      PROVE  Goal
  <2>1. /\ queue' = <<>> /\ claimed' = claimed \o queue
        /\ receipt' = Settled(Items(queue), "claimed")
        /\ UNCHANGED <<job, parked, accepted, delivered>>
    BY <1>9 DEF Claim, StoreDrain, history
  <2>2. Waiting' = Waiting
    <3>1. claimed \o queue \in Seq(Steers)
      BY <1>1, ConcatProperties
    <3> QED BY <2>1, <3>1, ConcatEmptySeq DEF Waiting
  <2>3. Recovered' = Recovered
    BY <2>1, InvFacts, RecoveredStay DEF ReceiptStates
  <2> QED BY <2>1, <2>2, <2>3, LineStutters
<1>10. ASSUME NEW g \in Gens, Drain(g) \/ \E a, k \in BOOLEAN : AdmitTerminal(g, a, k)
       PROVE  Goal
  BY <1>2, <1>9, <1>10 DEF Drain, AdmitTerminal, StoreSeal, owner, history
<1>11. ASSUME NEW g \in Gens, ApplyCommits(g)
       PROVE  Goal
  BY <1>11, ApplyAnswers DEF Promise!Next
<1>12. ASSUME NEW g \in Gens, ApplyFails(g) \/ Pause(g) \/ Resume(g) \/ PersistUserMessage(g)
       PROVE  Goal
  BY <1>1, <1>2, <1>12 DEF ApplyFails, Pause, Resume, PersistUserMessage, StorePause, StoreResume,
       store, owner, history
<1>13. ASSUME NEW g \in Gens, Restore(g)
       PROVE  Goal
  <2>1. accepted' = accepted /\ delivered' = delivered
    BY <1>13 DEF Restore, history
  <2>2. CASE UNCHANGED store
    BY <1>2, <2>1, <2>2 DEF store
  <2>3. CASE StoreRestore(batch[g], g)
    <3>1. Active /\ job.gen = g
      BY <2>3 DEF StoreRestore, Restorable, Open, Active
    <3>2. /\ claimed' = <<>> /\ queue' = claimed \o queue
          /\ UNCHANGED <<job, parked>>
      BY <1>13, <2>3, <3>1, RestoreIsWhole DEF StoreRestore
    <3>3. Waiting' = Waiting
      <4>1. claimed \o queue \in Seq(Steers)
        BY <1>1, ConcatProperties
      <4> QED BY <3>2, <4>1, ConcatEmptySeq DEF Waiting
    <3>4. Recovered' = Recovered
      <4> DEFINE restored == Without(Within(claimed, Items(batch[g])), Items(queue))
      <4>1. receipt' = Settled(Items(restored), "queued")
        BY <2>3 DEF StoreRestore
      <4>2. Items(restored) \subseteq Items(claimed)
        <5>1. /\ Within(claimed, Items(batch[g])) \in Seq(Steers)
              /\ Items(Within(claimed, Items(batch[g]))) \subseteq Items(claimed)
          BY <1>1, WithinItems
        <5> QED BY <5>1, WithoutItems
      <4> HIDE DEF restored
      <4> QED BY <4>1, <4>2, InvFacts, RecoveredStay DEF ReceiptStates
    <3> QED BY <2>1, <3>2, <3>3, <3>4, LineStutters
  <2> QED BY <1>13, <2>2, <2>3 DEF Restore
<1>14. ASSUME NEW g \in Gens, StopJob(g) \/ FinishRun(g)
       PROVE  Goal
  BY <1>1, <1>3, <1>14 DEF StopJob, FinishRun, StoreTerminate, owner, history
<1>15. ASSUME NEW g \in Gens, ConsumeRecovered(g)
       PROVE  Goal
  <2>1. CASE ConsumeSettles(source[g], g)
    BY <1>15, <2>1, ConsumeRecovers DEF Promise!Next
  <2>2. CASE ~ConsumeSettles(source[g], g)
    BY <1>2, <1>15, <2>2 DEF ConsumeRecovered, StoreConsume, store, history
  <2> QED BY <2>1, <2>2
<1>16. CASE ReapStale \/ EvictOldest \/ ExpireApproval
  BY <1>1, <1>3, <1>16 DEF ReapStale, EvictOldest, ExpireApproval, StoreReapStale,
       StoreEvictOldest, StoreTerminate, ParkAndDelete, owner, history
<1>17. CASE DeleteJob
  <2>1. /\ job.status = "terminal" /\ job'.gen = job.gen /\ queue' = <<>> /\ claimed' = <<>>
        /\ UNCHANGED <<parked, receipt, accepted, delivered>>
    BY <1>1, <1>17 DEF DeleteJob, StoreDelete, owner, history
  <2>2. Items(queue) = {} /\ Items(claimed) = {}
    BY <2>1, InvFacts DEF Active
  <2>3. queue = <<>> /\ claimed = <<>>
    BY <1>1, <2>2, ItemsType
  <2> QED BY <1>2, <2>1, <2>3
<1>18. CASE LegacyClaim
  BY <1>18, UnparkForgets DEF LegacyClaim, StoreLegacyClaim, Recovered, owner, Promise!Next
<1>19. CASE ExpireParked
  <2>1. parked' = <<>> /\ UNCHANGED <<job, queue, claimed, receipt, accepted, delivered>>
    BY <1>19 DEF ExpireParked, StoreExpireParked, owner
  <2>2. Items(parked') = {}
    BY <2>1 DEF Items
  <2>3. Promise!Forget(Items(parked))
    BY <2>1, <2>2 DEF Promise!Forget
  <2> QED BY <2>3 DEF Promise!Next
<1>20. CASE UNCHANGED vars
  BY <1>2, <1>20 DEF vars, store, owner, history
<1>21. \A g \in Gens : ~ApplyReplyLost(g)
  BY DEF ApplyReplyLost
<1> QED BY <1>4, <1>5, <1>6, <1>7, <1>8, <1>10, <1>11, <1>12, <1>13, <1>14, <1>15, <1>16, <1>17,
           <1>18, <1>19, <1>20, <1>21 DEF Next

\* Over a store whose calls do not fail steering is one line of waiting
\* steers: nobody is overtaken, whatever fails, restores or ends in between.
THEOREM KeepsThePromise == Spec /\ ~StoreFaults => PromiseSpec
<1>1. Init => LineInv /\ Promise!Init
  <2> SUFFICES ASSUME Init PROVE LineInv /\ Promise!Init
    OBVIOUS
  <2>1. /\ job = [gen |-> 0, status |-> "absent", recovers |-> NoSteer]
        /\ queue = <<>> /\ claimed = <<>> /\ parked = <<>> /\ accepted = <<>>
        /\ receipt = [s \in Steers |-> [state |-> "none", gen |-> 0]]
        /\ batch = [g \in Gens |-> <<>>] /\ delivered = [g \in Gens |-> <<>>]
    BY DEF Init, StoreInit, NoGen
  <2>2. LineInv
    BY <2>1 DEF LineInv, Active
  <2>3. Items(<<>>) = {} /\ <<>> \o <<>> = <<>>
    BY DEF Items
  <2>4. {s \in Steers : receipt[s].state = "recovered"} = {}
    BY <2>1
  <2>5. Promise!Init
    BY <2>1, <2>3, <2>4 DEF Promise!Init
  <2> QED BY <2>2, <2>5
<1>2. IInv /\ LineInv /\ ~StoreFaults /\ [Next]_vars => LineInv' /\ (~StoreFaults)'
  BY LineKept
<1>3. IInv /\ LineInv /\ ~StoreFaults /\ [Next]_vars => [Promise!Next]_(Promise!promise)
  BY PromiseStep
<1> QED BY <1>1, <1>2, <1>3, Invariance, PTL DEF Spec, PromiseSpec, Promise!Spec
=============================================================================
