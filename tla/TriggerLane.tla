----------------------------- MODULE TriggerLane -----------------------------
(***************************************************************************)
(* One ordering lane of the agent triggers, from the admission of a        *)
(* delivery to the reclamation of the lane: any number of replicas stage   *)
(* deliveries, reserve the lane's next sequence number for the oldest of   *)
(* them, fold it into the batch at the lane's tail or publish it by        *)
(* itself, finish each other's reservations, settle the receipts of a      *)
(* batch, requeue a dead letter, and delete the lane's document when       *)
(* nothing is left in it.  A replica may stop between any two steps, and   *)
(* the account may be deleted, or the deletion cancelled, meanwhile.       *)
(*                                                                         *)
(* The rows and the lane are MongoDB documents.  Every action of a helper  *)
(* is one operation on them; an updateMany and the count that follows it   *)
(* are one action, and so are two reads of which the first only looks at   *)
(* fields that never change.                                               *)
(***************************************************************************)
EXTENDS StoreLists

CONSTANTS
    NumDeliveries,  \* deliveries, numbered in the order of their ids
    Helper,         \* calls that publish, settle or clean up, one at a time
    Coalescing,     \* deliveries with a coalescing key, which they share
    BatchLimit,     \* deliveries in a batch, its root included
    Mishap,         \* what may befall: "requeue", "crash", "deletion"
    MaxMishaps      \* bound: mishaps in all

Delivery == 1..NumDeliveries
None     == 0                    \* no delivery, no request, no tail
Abandoned == NumDeliveries + 1   \* the clean-up an abandoned turn requests

ASSUME BoundsAssumption ==
    /\ NumDeliveries \in Nat \ {0} /\ BatchLimit \in Nat \ {0}
    /\ MaxMishaps \in Nat
ASSUME SetsAssumption ==
    Coalescing \subseteq Delivery /\ Mishap \subseteq {"requeue", "crash", "deletion"}

VARIABLES
    status,    \* each row's status, "absent" when there is none
    line,      \* the staging rows by (updatedAt, _id)
    ahead,     \* history: pairs of staging rows, the first of which was admitted
               \* earlier and with an earlier updatedAt
    seq,       \* laneSequence
    gen,       \* requeueCount
    members,   \* batchMemberIds
    rootOf,    \* batchRootId
    rootGen,   \* batchRootRequeueCount, 0 when it is missing
    receipts,  \* rows with batchMembersSettledAt
    cleaning,  \* rows with laneCleanupPendingAt
    shut,      \* rows whose coalescing window has passed
    value, publisher, publisherGen, tail,  \* the lane; no document is value 0
    cleanup,   \* its cleanupRequestedAt: the row whose settlement set it
    marker,    \* the account's purge marker is there
    fenced,    \* rows with actorActionAdmissionClosedAt
    account,   \* the account, see Accounts
    pc, target, held, job,  \* each helper: where it is, the delivery it
               \* publishes, its copy of the lane, the row it works on
    mishaps    \* how many mishaps there were

row    == <<status, line, ahead, seq, gen, members, rootOf, rootGen, receipts,
            cleaning, shut>>
lane   == <<value, publisher, publisherGen, tail, cleanup>>
purge  == <<marker, fenced, account>>
local  == <<pc, target, held, job>>
vars   == <<row, lane, purge, local, mishaps>>

Dispatchable == {"pending", "leased"}
Settled      == {"succeeded", "dead"}
Statuses     == {"absent", "staging", "batched"} \cup Dispatchable \cup Settled

Steps == {"idle", "row", "marker", "prepare", "lane", "laneMarker", "next",
          "acquire", "recheck", "find", "join", "again", "publish", "current",
          "fix", "refetch", "release", "abandon", "settle", "mark", "request",
          "clear", "reclaim", "retained", "unrequest", "delete"}

\* A deletion sets its marker and closes the rows; one that commits erases rows
\* and lane in either order, one that does not is called off: it opens the rows
\* and removes the marker, and the account is spared.
Accounts == {"active", "closing", "deleting", "opening", "spared",
             "gone", "rowless", "laneless", "empty"}
Deleted  == {"gone", "rowless", "laneless", "empty"}

NoLane == [value |-> 0, publisher |-> None, gen |-> 0, tail |-> None,
           cleanup |-> None]

\* What a helper keeps of the lane: a publisher its reservation and, to find a
\* batch, the tail; the reclaimer the tail and the request it answers.
Reservation == [NoLane EXCEPT !.value = value, !.publisher = publisher,
                              !.gen = publisherGen,
                              !.tail = IF publisher \in Coalescing THEN tail ELSE None]
Request     == [NoLane EXCEPT !.tail = tail, !.cleanup = cleanup]
NoJob  == [id |-> None, gen |-> 0, as |-> "absent", stamp |-> None]

Copy == [value : Nat, publisher : Delivery \cup {None}, gen : 0..MaxMishaps,
         tail : Delivery \cup {None}, cleanup : Delivery \cup {None, Abandoned}]
Job  == [id : Delivery \cup {None}, gen : 0..MaxMishaps, as : Statuses,
         stamp : Delivery \cup {None}]

TypeOK ==
    /\ status  \in [Delivery -> Statuses]
    /\ line    \in Seq(Delivery)
    /\ seq     \in [Delivery -> Nat]
    /\ gen     \in [Delivery -> 0..MaxMishaps]
    /\ members \in [Delivery -> SUBSET Delivery]
    /\ rootOf  \in [Delivery -> Delivery \cup {None}]
    /\ rootGen \in [Delivery -> 0..MaxMishaps]
    /\ receipts \subseteq Delivery /\ cleaning \subseteq Delivery
    /\ shut \subseteq Delivery
    /\ value \in Nat /\ publisherGen \in 0..MaxMishaps
    /\ publisher \in Delivery \cup {None} /\ tail \in Delivery \cup {None}
    /\ cleanup \in Delivery \cup {None, Abandoned}
    /\ marker \in BOOLEAN /\ fenced \subseteq Delivery /\ account \in Accounts
    /\ ahead \subseteq Delivery \X Delivery
    /\ pc     \in [Helper -> Steps]
    /\ target \in [Helper -> Delivery \cup {None}]
    /\ held   \in [Helper -> Copy]
    /\ job    \in [Helper -> Job]
    /\ mishaps \in 0..MaxMishaps

Init ==
    /\ status = [d \in Delivery |-> "absent"] /\ line = <<>>
    /\ seq = [d \in Delivery |-> 0] /\ gen = [d \in Delivery |-> 0]
    /\ members = [d \in Delivery |-> {}]
    /\ rootOf = [d \in Delivery |-> None] /\ rootGen = [d \in Delivery |-> 0]
    /\ receipts = {} /\ cleaning = {} /\ shut = {}
    /\ value = 0 /\ publisher = None /\ publisherGen = 0
    /\ tail = None /\ cleanup = None
    /\ marker = FALSE /\ fenced = {} /\ account = "active" /\ ahead = {}
    /\ pc = [h \in Helper |-> "idle"] /\ target = [h \in Helper |-> None]
    /\ held = [h \in Helper |-> NoLane] /\ job = [h \in Helper |-> NoJob]
    /\ mishaps = 0

----------------------------------------------------------------------------
(* Moving a helper on.                                                     *)

Goto(h, step) == pc' = [pc EXCEPT ![h] = step]

Finish(h) == /\ Goto(h, "idle")
             /\ target' = [target EXCEPT ![h] = None]
             /\ held'   = [held EXCEPT ![h] = NoLane]
             /\ job'    = [job EXCEPT ![h] = NoJob]

Stay(h, step) == Goto(h, step) /\ UNCHANGED <<target, held, job>>

\* publishStagedDelivery starts its loop over; a helper that only came to
\* finish a reservation has no delivery of its own and is done.
Again(h) == IF target[h] = None THEN Finish(h)
            ELSE /\ Goto(h, "row") /\ UNCHANGED target
                 /\ held' = [held EXCEPT ![h] = NoLane]
                 /\ job'  = [job EXCEPT ![h] = NoJob]

Befalls(m) == /\ m \in Mishap /\ mishaps < MaxMishaps
              /\ mishaps' = mishaps + 1

LeaveLine(D) == /\ line'  = Without(line, D)
                /\ ahead' = {p \in ahead : {p[1], p[2]} \cap D = {}}

----------------------------------------------------------------------------
(* Admission: a new delivery, or a dead letter that is requeued.           *)

\* updatedAt is stamped by the replica before its write, by its own clock: the
\* row may enter the line at any place.
Admit(d) ==
    \E k \in 0..Len(line) :
        /\ line'  = SubSeq(line, 1, k) \o <<d>> \o SubSeq(line, k + 1, Len(line))
        /\ ahead' = ahead \cup (Items(SubSeq(line, 1, k)) \X {d})

Enqueue(h, d) ==
    /\ pc[h] = "idle" /\ status[d] = "absent" /\ account \notin Deleted
    /\ status' = [status EXCEPT ![d] = "staging"]
    /\ Admit(d)
    /\ Goto(h, "row") /\ target' = [target EXCEPT ![h] = d]
    /\ UNCHANGED <<seq, gen, members, rootOf, rootGen, receipts, cleaning, shut>>
    /\ UNCHANGED <<lane, purge, held, job, mishaps>>

Requeue(h, d) ==
    /\ pc[h] = "idle" /\ status[d] = "dead" /\ rootOf[d] = None
    /\ Befalls("requeue")
    /\ status' = [status EXCEPT ![d] = "staging"]
    /\ Admit(d)
    /\ seq'    = [seq EXCEPT ![d] = 0]
    /\ gen'    = [gen EXCEPT ![d] = @ + 1]
    /\ receipts' = receipts \ {d} /\ cleaning' = cleaning \ {d}
    /\ Goto(h, "row") /\ target' = [target EXCEPT ![h] = d]
    /\ UNCHANGED <<members, rootOf, rootGen, shut>>
    /\ UNCHANGED <<lane, purge, held, job>>

\* Maintenance, and an enqueue that is replayed, take up a staging row.
\* Mutant: only while the lane is reserved.
TakeRowReserved(h, d) ==
    /\ pc[h] = "idle" /\ status[d] = "staging" /\ publisher # None
    /\ Goto(h, "row") /\ target' = [target EXCEPT ![h] = d]
    /\ UNCHANGED <<row, lane, purge, held, job, mishaps>>
TakeRow(h, d) ==
    /\ pc[h] = "idle" /\ status[d] = "staging"
    /\ Goto(h, "row") /\ target' = [target EXCEPT ![h] = d]
    /\ UNCHANGED <<row, lane, purge, held, job, mishaps>>

\* Maintenance takes up a reservation somebody left.
TakeLane(h) ==
    /\ pc[h] = "idle" /\ publisher # None
    /\ Goto(h, "laneMarker") /\ held' = [held EXCEPT ![h] = Reservation]
    /\ UNCHANGED <<row, lane, purge, target, job, mishaps>>

----------------------------------------------------------------------------
(* publishStagedDelivery: one turn of its loop.                            *)

ReadRow(h) ==
    /\ pc[h] = "row"
    /\ \/ status[target[h]] # "staging" /\ Finish(h)
       \/ /\ status[target[h]] = "staging"
          /\ Goto(h, "marker")
          /\ job' = [job EXCEPT ![h].gen = IF members[target[h]] = {} THEN 0
                                           ELSE gen[target[h]]]
          /\ UNCHANGED <<target, held>>
    /\ UNCHANGED <<row, lane, purge, mishaps>>

ReadMarker(h) ==
    /\ pc[h] = "marker"
    /\ \/ marker  /\ Finish(h)
       \/ ~marker /\ Stay(h, IF job[h].gen = 0 THEN "lane" ELSE "prepare")
    /\ UNCHANGED <<row, lane, purge, mishaps>>

\* The members of a requeued batch follow their root into its generation;
\* job's gen is 0 for every other delivery.
Prepare(h) ==
    LET r == target[h]
        g == job[h].gen
        P == {m \in members[r] : /\ rootOf[m] = r /\ rootGen[m] = g - 1
                                 /\ status[m] \in {"staging", "batched"} \cup Settled}
    IN  /\ pc[h] = "prepare"
        /\ status'  = [m \in Delivery |-> IF m \in P THEN "batched" ELSE status[m]]
        /\ rootGen' = [m \in Delivery |-> IF m \in P THEN g ELSE rootGen[m]]
        /\ LeaveLine(P)
        /\ IF \A m \in members[r] : /\ status'[m] = "batched"
                                    /\ rootOf[m] = r /\ rootGen'[m] = g
             THEN Stay(h, "lane") ELSE Finish(h)
        /\ UNCHANGED <<seq, gen, members, rootOf, receipts, cleaning, shut>>
        /\ UNCHANGED <<lane, purge, mishaps>>

ReadLane(h) ==
    /\ pc[h] = "lane"
    /\ held' = [held EXCEPT ![h] = Reservation]
    /\ Goto(h, IF publisher # None THEN "laneMarker" ELSE "next")
    /\ UNCHANGED <<row, lane, purge, target, job, mishaps>>

ReadLaneMarker(h) ==
    /\ pc[h] = "laneMarker"
    /\ \/ marker  /\ Finish(h)
       \/ ~marker /\ Stay(h, "find")
    /\ UNCHANGED <<row, lane, purge, mishaps>>

ReadNext(h) ==
    /\ pc[h] = "next"
    /\ \/ line = <<>> /\ Again(h)
       \/ /\ line # <<>>
          /\ Goto(h, "acquire")
          /\ job' = [job EXCEPT ![h].id = Head(line), ![h].gen = gen[Head(line)]]
          /\ UNCHANGED <<target, held>>
    /\ UNCHANGED <<row, lane, purge, mishaps>>

Acquire(h) ==
    /\ pc[h] = "acquire"
    /\ \/ publisher # None /\ Again(h) /\ UNCHANGED lane
       \/ /\ publisher = None
          /\ value' = value + 1
          /\ publisher' = job[h].id /\ publisherGen' = job[h].gen
          /\ cleanup' = None /\ UNCHANGED tail
          /\ held' = [held EXCEPT ![h] = Reservation']
          /\ job'  = [job EXCEPT ![h] = NoJob]
          /\ Goto(h, "recheck") /\ UNCHANGED target
    /\ UNCHANGED <<row, purge, mishaps>>

Recheck(h) ==
    /\ pc[h] = "recheck"
    /\ \/ /\ marker
          /\ Goto(h, "abandon") /\ target' = [target EXCEPT ![h] = None]
          /\ UNCHANGED <<held, job>>
       \/ ~marker /\ Stay(h, "find")
    /\ UNCHANGED <<row, lane, purge, mishaps>>

----------------------------------------------------------------------------
(* recoverLanePublisher: one reservation, by whoever holds a copy of it.   *)

RootOf(d) == {r \in Delivery : d \in members[r]}

WithRoot(h, R) ==
    \/ R = {} /\ job' = [job EXCEPT ![h] = NoJob]
    \/ \E r \in R : job' = [job EXCEPT ![h] = [NoJob EXCEPT !.id = r, !.gen = gen[r]]]

\* The window of the delivery itself is compared with the clock when the update
\* is built, before it is sent.
FindRoot(h) ==
    LET d == held[h].publisher
        alone == d \notin Coalescing \/ status[d] = "absent" \/ members[d] # {}
    IN  /\ pc[h] = "find"
        /\ WithRoot(h, IF alone THEN {} ELSE RootOf(d))
        /\ Goto(h, IF alone \/ RootOf(d) # {} \/ held[h].tail = None \/ d \in shut
                    THEN "publish" ELSE "join")
        /\ UNCHANGED <<row, lane, purge, target, held, mishaps>>

\* The batch at the tail, while it is open.
OpenBatch(h) ==
    LET d == held[h].publisher
    IN  {r \in Delivery \ {d} :
            /\ r = held[h].tail \/ held[h].tail \in members[r]
            /\ status[r] = "pending" /\ r \in Coalescing /\ d \notin members[r]
            /\ Cardinality(members[r]) + 1 < BatchLimit
            /\ {r, d} \cap shut = {}}

Join(h) ==
    /\ pc[h] = "join"
    /\ \/ \E r \in OpenBatch(h) :
              /\ \A q \in OpenBatch(h) : seq[q] <= seq[r]
              /\ members' = [members EXCEPT ![r] = @ \cup {held[h].publisher}]
              /\ WithRoot(h, {r}) /\ Goto(h, "publish") /\ UNCHANGED <<target, held>>
       \/ OpenBatch(h) = {} /\ Stay(h, "again") /\ UNCHANGED members
    /\ UNCHANGED <<status, line, ahead, seq, gen, rootOf, rootGen, receipts, cleaning, shut>>
    /\ UNCHANGED <<lane, purge, mishaps>>

FindAgain(h) ==
    /\ pc[h] = "again"
    /\ WithRoot(h, RootOf(held[h].publisher)) /\ Goto(h, "publish")
    /\ UNCHANGED <<row, lane, purge, target, held, mishaps>>

\* Mutant: in any generation.
IsStagingAgain(h) == status[held[h].publisher] = "staging"
IsStaging(h) == /\ status[held[h].publisher] = "staging"
                /\ gen[held[h].publisher] = held[h].gen

Publish(h) ==
    LET d  == held[h].publisher
        batch == job[h].id # None
    IN  /\ pc[h] = "publish"
        /\ \/ /\ IsStaging(h)
              /\ status' = [status EXCEPT ![d] = IF batch THEN "batched" ELSE "pending"]
              /\ seq'    = [seq EXCEPT ![d] = held[h].value]
              /\ LeaveLine({d})
              /\ rootOf' = IF batch THEN [rootOf EXCEPT ![d] = job[h].id] ELSE rootOf
              /\ rootGen' = IF batch THEN [rootGen EXCEPT ![d] = job[h].gen] ELSE rootGen
              /\ Stay(h, "release")
           \/ /\ ~IsStaging(h)
              /\ Stay(h, "current") /\ UNCHANGED <<status, line, ahead, seq, rootOf, rootGen>>
        /\ UNCHANGED <<gen, members, receipts, cleaning, shut>>
        /\ UNCHANGED <<lane, purge, mishaps>>

\* The row was published, by somebody else, with this very reservation.
Committed(h) ==
    LET d == held[h].publisher
    IN  /\ status[d] \notin {"absent", "staging"}
        /\ gen[d] = held[h].gen /\ seq[d] = held[h].value

\* A member that was settled before it was published has no sequence yet.
ReadCurrent(h) ==
    LET d == held[h].publisher
        late == /\ job[h].id # None
                /\ status[d] \notin {"absent", "staging"}
                /\ seq[d] # held[h].value
    IN  /\ pc[h] = "current"
        /\ \/ /\ late /\ Goto(h, "fix")
              /\ job' = [job EXCEPT ![h].as = status[d]] /\ UNCHANGED <<target, held>>
           \/ ~late /\ Stay(h, IF Committed(h) THEN "release" ELSE "abandon")
        /\ UNCHANGED <<row, lane, purge, mishaps>>

Fix(h) ==
    LET d  == held[h].publisher
        ok == status[d] = job[h].as /\ gen[d] = held[h].gen
    IN  /\ pc[h] = "fix"
        /\ \/ /\ ok
              /\ seq'     = [seq EXCEPT ![d] = held[h].value]
              /\ rootOf'  = [rootOf EXCEPT ![d] = job[h].id]
              /\ rootGen' = [rootGen EXCEPT ![d] = job[h].gen]
           \/ ~ok /\ UNCHANGED <<seq, rootOf, rootGen>>
        /\ Stay(h, "refetch")
        /\ UNCHANGED <<status, line, ahead, gen, members, receipts, cleaning, shut>>
        /\ UNCHANGED <<lane, purge, mishaps>>

ReadFixed(h) ==
    /\ pc[h] = "refetch"
    /\ Stay(h, IF Committed(h) THEN "release" ELSE "abandon")
    /\ UNCHANGED <<row, lane, purge, mishaps>>

\* Mutant: whoever holds the lane now.
FenceOff(h) == TRUE
Fence(h) == /\ value = held[h].value /\ publisher = held[h].publisher
            /\ publisherGen = held[h].gen

Release(h) ==
    /\ pc[h] = "release"
    /\ \/ /\ Fence(h)
          /\ tail' = publisher /\ publisher' = None /\ publisherGen' = 0
          /\ UNCHANGED <<value, cleanup>>
       \/ ~Fence(h) /\ UNCHANGED lane
    /\ Again(h)
    /\ UNCHANGED <<row, purge, mishaps>>

DropLane == /\ value' = 0 /\ publisher' = None /\ publisherGen' = 0
            /\ tail' = None /\ cleanup' = None

Abandon(h) ==
    /\ pc[h] = "abandon"
    /\ \/ Fence(h) /\ value = 1 /\ DropLane
       \/ /\ Fence(h) /\ value # 1
          /\ value' = value - 1 /\ cleanup' = Abandoned
          /\ publisher' = None /\ publisherGen' = 0 /\ UNCHANGED tail
       \/ ~Fence(h) /\ UNCHANGED lane
    /\ Again(h)
    /\ UNCHANGED <<row, purge, mishaps>>

----------------------------------------------------------------------------
(* Dispatch, as far as the lane is concerned.                              *)

\* A coalescing delivery is due when its window has passed.
Claim(d) ==
    /\ status[d] = "pending"
    /\ d \notin Coalescing \/ d \in shut
    /\ status' = [status EXCEPT ![d] = "leased"]
    /\ UNCHANGED <<line, ahead, seq, gen, members, rootOf, rootGen, receipts, cleaning, shut>>
    /\ UNCHANGED <<lane, purge, local, mishaps>>

\* Released, deferred, or to be retried.
GiveBack(d) ==
    /\ status[d] = "leased"
    /\ status' = [status EXCEPT ![d] = "pending"]
    /\ UNCHANGED <<line, ahead, seq, gen, members, rootOf, rootGen, receipts, cleaning, shut>>
    /\ UNCHANGED <<lane, purge, local, mishaps>>

\* The window passes for a delivery, and for a batch with its first member's.
ShutWindow(d) ==
    /\ d \in Coalescing \ shut
    /\ shut' = shut \cup {d} \cup RootOf(d)
    /\ UNCHANGED <<status, line, ahead, seq, gen, members, rootOf, rootGen, receipts, cleaning>>
    /\ UNCHANGED <<lane, purge, local, mishaps>>

\* The mark that a delivery without members has settled them is never read,
\* and its steps are left out.
Conclude(h, d, outcome) ==
    /\ pc[h] = "idle" /\ status[d] = "leased"
    /\ status'   = [status EXCEPT ![d] = outcome]
    /\ cleaning' = IF outcome = "succeeded" THEN cleaning \cup {d} ELSE cleaning
    /\ \/ members[d] = {} /\ outcome = "dead" /\ UNCHANGED local
       \/ /\ members[d] # {} \/ outcome = "succeeded"
          /\ Goto(h, IF members[d] = {} THEN "request" ELSE "settle")
          /\ job' = [job EXCEPT ![h] =
                        [id |-> d, gen |-> gen[d], as |-> outcome,
                         stamp |-> IF outcome = "succeeded" THEN d ELSE None]]
          /\ UNCHANGED <<target, held>>
    /\ UNCHANGED <<line, ahead, seq, gen, members, rootOf, rootGen, receipts, shut>>
    /\ UNCHANGED <<lane, purge, mishaps>>

Complete(h, d)   == Conclude(h, d, "succeeded")
DeadLetter(h, d) == Conclude(h, d, "dead")

\* The producer of an internal delivery withdraws it, or its dead letter.
Retire(h, d) ==
    /\ pc[h] = "idle" /\ status[d] \in Dispatchable \cup {"dead"} /\ d \notin Coalescing
    /\ status'   = [status EXCEPT ![d] = "succeeded"]
    /\ cleaning' = cleaning \cup {d}
    /\ Goto(h, "request")
    /\ job' = [job EXCEPT ![h] = [id |-> d, gen |-> gen[d], as |-> "succeeded", stamp |-> d]]
    /\ UNCHANGED <<line, ahead, seq, gen, members, rootOf, rootGen, receipts, shut>>
    /\ UNCHANGED <<lane, purge, target, held, mishaps>>

----------------------------------------------------------------------------
(* settleBatchMembers and the reclamation of the lane.                     *)

\* Maintenance finds a settled root whose receipts were not written.
TakeReceipts(h, r) ==
    /\ pc[h] = "idle" /\ status[r] \in Settled
    /\ members[r] # {} /\ r \notin receipts
    /\ Goto(h, "settle")
    /\ job' = [job EXCEPT ![h] =
                  [id |-> r, gen |-> gen[r], as |-> status[r],
                   stamp |-> IF status[r] = "succeeded" /\ r \in cleaning THEN r ELSE None]]
    /\ UNCHANGED <<row, lane, purge, target, held, mishaps>>

\* Mutant: of any generation.
OwedOfAny(r, g) == {m \in members[r] : status[m] \in {"staging", "batched"}}
Owed(r, g) == {m \in members[r] : /\ status[m] \in {"staging", "batched"}
                                  /\ rootGen[m] = g}

SettleMembers(h) ==
    LET r == job[h].id
        M == Owed(r, job[h].gen)
    IN  /\ pc[h] = "settle"
        /\ status' = [m \in Delivery |-> IF m \in M THEN job[h].as ELSE status[m]]
        /\ rootOf' = [m \in Delivery |-> IF m \in M THEN r ELSE rootOf[m]]
        /\ LeaveLine(M)
        /\ IF \A m \in members[r] : status'[m] = job[h].as
             THEN Stay(h, "mark") ELSE Finish(h)
        /\ UNCHANGED <<seq, gen, members, rootGen, receipts, cleaning, shut>>
        /\ UNCHANGED <<lane, purge, mishaps>>

\* What came of the generation that a root which succeeded had started: its
\* members follow it, those included that were settled otherwise.
PropagateHandling(r) ==
    LET M == {m \in members[r] : /\ rootOf[m] = r
                                 /\ status[m] \in {"staging", "batched"} \cup Settled}
    IN  /\ status[r] = "succeeded"
        /\ status' = [m \in Delivery |-> IF m \in M THEN "succeeded" ELSE status[m]]
        /\ LeaveLine(M)
        /\ UNCHANGED <<seq, gen, members, rootOf, rootGen, receipts, cleaning, shut>>
        /\ UNCHANGED <<lane, purge, local, mishaps>>

MarkReceipts(h) ==
    LET r == job[h].id
    IN  /\ pc[h] = "mark"
        /\ receipts' = IF status[r] = job[h].as THEN receipts \cup {r} ELSE receipts
        /\ IF job[h].stamp # None THEN Stay(h, "request") ELSE Finish(h)
        /\ UNCHANGED <<status, line, ahead, seq, gen, members, rootOf, rootGen, cleaning, shut>>
        /\ UNCHANGED <<lane, purge, mishaps>>

\* Maintenance finds a row that has not asked for its lane's clean-up.
TakeCleaning(h, r) ==
    /\ pc[h] = "idle" /\ status[r] = "succeeded" /\ r \in cleaning
    /\ Goto(h, "request")
    /\ job' = [job EXCEPT ![h] = [id |-> r, gen |-> gen[r], as |-> "succeeded", stamp |-> r]]
    /\ UNCHANGED <<row, lane, purge, target, held, mishaps>>

RequestCleanup(h) ==
    /\ pc[h] = "request"
    /\ cleanup' = IF value = 0 THEN cleanup ELSE job[h].stamp
    /\ Stay(h, "clear")
    /\ UNCHANGED <<row, purge, mishaps, value, publisher, publisherGen, tail>>

ClearCleaning(h) ==
    LET r == job[h].id
    IN  /\ pc[h] = "clear"
        /\ cleaning' = IF status[r] = "succeeded" THEN cleaning \ {r} ELSE cleaning
        /\ Goto(h, "reclaim") /\ job' = [job EXCEPT ![h] = NoJob]
        /\ UNCHANGED <<target, held>>
        /\ UNCHANGED <<status, line, ahead, seq, gen, members, rootOf, rootGen, receipts, shut>>
        /\ UNCHANGED <<lane, purge, mishaps>>

TakeRequest(h) ==
    /\ pc[h] = "idle" /\ cleanup # None
    /\ Stay(h, "reclaim")
    /\ UNCHANGED <<row, lane, purge, mishaps>>

ReadRequest(h) ==
    /\ pc[h] = "reclaim"
    /\ \/ cleanup = None /\ Finish(h)
       \/ /\ cleanup # None
          /\ Goto(h, "retained") /\ held' = [held EXCEPT ![h] = Request]
          /\ UNCHANGED <<target, job>>
    /\ UNCHANGED <<row, lane, purge, mishaps>>

Retained == \E d \in Delivery : status[d] \notin {"absent", "succeeded"}

ReadRetained(h) ==
    /\ pc[h] = "retained"
    /\ Stay(h, IF Retained THEN "unrequest" ELSE "delete")
    /\ UNCHANGED <<row, lane, purge, mishaps>>

Unrequest(h) ==
    /\ pc[h] = "unrequest"
    /\ cleanup' = IF cleanup = held[h].cleanup THEN None ELSE cleanup
    /\ Finish(h)
    /\ UNCHANGED <<row, purge, mishaps, value, publisher, publisherGen, tail>>

DeleteLane(h) ==
    LET same == /\ tail = held[h].tail /\ cleanup = held[h].cleanup
                /\ publisher = None
    IN  /\ pc[h] = "delete"
        /\ \/ same /\ DropLane
           \/ ~same /\ UNCHANGED lane
        /\ Finish(h)
        /\ UNCHANGED <<row, purge, mishaps>>

----------------------------------------------------------------------------
(* The deletion of the account, and a helper that stops.                   *)

Crash(h) ==
    /\ pc[h] # "idle" /\ Befalls("crash")
    /\ Finish(h)
    /\ UNCHANGED <<row, lane, purge>>

ById(D) == Within([d \in Delivery |-> d], D)

\* The marker is set.
FenceAccount ==
    /\ account = "active" /\ Befalls("deletion")
    /\ account' = "closing" /\ marker' = TRUE
    /\ UNCHANGED <<row, lane, local, fenced>>

\* Every row is closed to new actions, and all staging rows get one updatedAt.
CloseRows ==
    /\ account = "closing"
    /\ account' = "deleting"
    /\ fenced' = {d \in Delivery : status[d] # "absent"}
    /\ line' = ById(Items(line))
    /\ UNCHANGED <<status, ahead, seq, gen, members, rootOf, rootGen, receipts, cleaning, shut>>
    /\ UNCHANGED <<lane, local, mishaps, marker>>

\* A deletion that fails before it commits is called off: the rows it closed are
\* opened, which stamps them once more, ...
CallOff ==
    /\ account \in {"closing", "deleting"}
    /\ account' = "opening" /\ fenced' = {}
    /\ LET open == Without(line, fenced)
       IN  \E k \in 0..Len(open) :
              line' = SubSeq(open, 1, k) \o ById(Items(line) \cap fenced)
                         \o SubSeq(open, k + 1, Len(open))
    /\ UNCHANGED <<status, ahead, seq, gen, members, rootOf, rootGen, receipts, cleaning, shut>>
    /\ UNCHANGED <<lane, local, mishaps, marker>>

\* ... and the marker goes.
Spare ==
    /\ account = "opening"
    /\ account' = "spared" /\ marker' = FALSE
    /\ UNCHANGED <<row, lane, local, mishaps, fenced>>

\* The deletion waits for the leases of the account to end.
DeleteAccount ==
    /\ account = "deleting" /\ \A d \in Delivery : status[d] # "leased"
    /\ account' = "gone"
    /\ UNCHANGED <<row, lane, local, mishaps, marker, fenced>>

EraseRows ==
    /\ account \in {"gone", "laneless"}
    /\ account' = IF account = "gone" THEN "rowless" ELSE "empty"
    /\ status' = [d \in Delivery |-> "absent"] /\ line' = <<>> /\ ahead' = {}
    /\ seq' = [d \in Delivery |-> 0] /\ gen' = [d \in Delivery |-> 0]
    /\ members' = [d \in Delivery |-> {}]
    /\ rootOf' = [d \in Delivery |-> None] /\ rootGen' = [d \in Delivery |-> 0]
    /\ receipts' = {} /\ cleaning' = {} /\ UNCHANGED shut
    /\ UNCHANGED <<lane, local, mishaps, marker, fenced>>

EraseLane ==
    /\ account \in {"gone", "rowless"}
    /\ account' = IF account = "gone" THEN "laneless" ELSE "empty"
    /\ DropLane
    /\ UNCHANGED <<row, local, mishaps, marker, fenced>>

EndPurge ==
    /\ account = "empty" /\ marker
    /\ marker' = FALSE
    /\ UNCHANGED <<row, lane, local, mishaps, fenced, account>>

----------------------------------------------------------------------------
Publication(h) ==
    \/ ReadRow(h) \/ ReadMarker(h) \/ Prepare(h) \/ ReadLane(h)
    \/ ReadLaneMarker(h) \/ ReadNext(h) \/ Acquire(h) \/ Recheck(h)
    \/ FindRoot(h) \/ Join(h) \/ FindAgain(h) \/ Publish(h)
    \/ ReadCurrent(h) \/ Fix(h) \/ ReadFixed(h) \/ Release(h) \/ Abandon(h)

Settlement(h) ==
    \/ SettleMembers(h) \/ MarkReceipts(h) \/ RequestCleanup(h)
    \/ ClearCleaning(h) \/ ReadRequest(h) \/ ReadRetained(h)
    \/ Unrequest(h) \/ DeleteLane(h)

Maintenance(h) ==
    \/ TakeLane(h) \/ TakeRequest(h)
    \/ \E d \in Delivery : TakeRow(h, d) \/ TakeReceipts(h, d) \/ TakeCleaning(h, d)

Settle(h, d) == Complete(h, d) \/ DeadLetter(h, d)

Purge == \/ FenceAccount \/ CloseRows \/ CallOff \/ Spare
         \/ DeleteAccount \/ EraseRows \/ EraseLane \/ EndPurge

Next ==
    \/ \E h \in Helper :
          \/ Publication(h) \/ Settlement(h) \/ Maintenance(h) \/ Crash(h)
          \/ \E d \in Delivery : \/ Enqueue(h, d) \/ Requeue(h, d)
                                 \/ Settle(h, d) \/ Retire(h, d)
    \/ \E d \in Delivery : Claim(d) \/ GiveBack(d) \/ ShutWindow(d) \/ PropagateHandling(d)
    \/ Purge

Spec == Init /\ [][Next]_vars

\* A call that has begun goes on unless its replica stops; maintenance runs on
\* a timer on every replica and takes up, sooner or later, the reservations,
\* the staging rows and the clean-ups it finds; a deletion that has begun goes
\* on, once the leases it waits for have ended.  Nothing else is assumed of
\* dispatch.
Fairness ==
    /\ \A h \in Helper : WF_vars(Publication(h) \/ Settlement(h))
    /\ SF_vars(\E h \in Helper : TakeLane(h))
    /\ SF_vars(\E h \in Helper, d \in Delivery : TakeRow(h, d))
    /\ SF_vars(\E h \in Helper : \/ TakeRequest(h)
                                 \/ \E d \in Delivery : TakeCleaning(h, d))
    /\ SF_vars(DeleteAccount)
    /\ WF_vars(CloseRows \/ Spare \/ EraseRows \/ EraseLane \/ EndPurge)

FairSpec == Spec /\ Fairness

----------------------------------------------------------------------------
\* The deliveries that can be dispatched, and those that wait to be published.
Live    == {d \in Delivery : status[d] \in Dispatchable}
Staging == {d \in Delivery : status[d] = "staging"}

Order == INSTANCE LaneOrder WITH
            waiting <- Staging,
            lane    <- Live,
            ordered <- account = "active"

\* The lane keeps its promise although any helper may finish, with a copy as old
\* as it likes, what another began, and deliveries come back from the dead: until
\* its account is to be deleted, none is published before one that was admitted
\* before it, and only what was admitted is (publishStagedDelivery,
\* recoverLanePublisher).
OrderSpec == Order!Spec

\* In an account that is not to be deleted, whoever may still publish a delivery
\* holds the lane's own reservation, whatever was released, given up, deleted or
\* finished for it since it was read: no two helpers publish under different
\* numbers (recoverLanePublisher, abandonLanePublisher, reclaimLaneIfInactive).
Waits(d, g) == gen[d] = g /\ status[d] = "staging"
Finishing == {"find", "join", "again", "publish"}
OneReservation ==
    account = "active" =>
        \A h \in Helper : /\ pc[h] \in Finishing
                          /\ Waits(held[h].publisher, held[h].gen)
                          => held[h] = Reservation

\* No two deliveries that wait for dispatch have the same laneSequence: each would
\* look at the other as not earlier, and both would be dispatched.  The plots of
\* MCTriggerLate and MCTriggerReprieve refute it.
OwnPlace == \A d, e \in Live : seq[d] = seq[e] => d = e

\* A delivery is not dispatched by itself and in a batch too: publication is
\* idempotent, whoever helps (publishStagedDelivery, recoverLanePublisher).
OneHome == \A r, d \in Delivery : d \in members[r] => status[d] \notin Dispatchable

\* A receipt that is settled in the generation its root is in has the outcome
\* of that root, unless the root is itself in a batch: a settlement that is late
\* does not reach the members of a batch that was requeued in the meantime, and
\* what came of the root's generation reaches all (settleBatchMembers,
\* propagateBatchHandling).
OutcomeIsTheRoots ==
    [][\A d \in Delivery :
          /\ status[d] \in {"staging", "batched", "dead"} /\ status'[d] \in Settled
          /\ status'[d] # status[d] /\ rootOf'[d] # None
          /\ rootGen'[d] = gen[rootOf'[d]] /\ RootOf(rootOf'[d]) = {}
          => status[rootOf'[d]] = status'[d]]_vars

\* Every admitted delivery leaves the line, published, in a batch or erased,
\* wherever the helper that admitted it stopped
\* (recoverAgentTriggerLanePublications).
EveryTurnComes ==
    \A d \in Delivery : status[d] = "staging" ~> status[d] # "staging"

----------------------------------------------------------------------------
(* What order and outcomes rest on: the invariants of TriggerLane_proofs.   *)

\* The line is the staging rows, each once, and its order that of their admission
\* where that is known, until a deletion writes to all rows.
LineIsStaging == Distinct(line) /\ Items(line) = Staging
LineIsInOrder ==
    /\ ahead \subseteq Staging \X Staging
    /\ account = "active" =>
          \A i, j \in 1..Len(line) : i <= j => <<line[j], line[i]>> \notin ahead

\* A row begins in generation 0 and without members.
RowsAreCounted ==
    \A d \in Delivery : /\ gen[d] <= mishaps
                        /\ status[d] = "absent" => gen[d] = 0 /\ members[d] = {}

\* The marker is there from the fence to the end of the deletion, and rows that
\* were erased do not come back.
Erased == account \in {"rowless", "empty"}
PurgeSound ==
    /\ account \in {"active", "spared"} => ~marker
    /\ account \in {"closing", "deleting", "opening", "gone", "rowless", "laneless"} => marker
    /\ Erased => \A d \in Delivery : status[d] = "absent"

\* Generation g of d has been published, or has yet to be and nothing that waits
\* was admitted before it.  What a deletion writes to is no longer in order.
Over(d, g) == \/ Erased \/ gen[d] > g
              \/ gen[d] = g /\ status[d] \notin {"absent", "staging"}
Unpreceded(d) == \A e \in Delivery : <<e, d>> \notin ahead
IsNext(d, g)  == Waits(d, g) /\ (account = "active" => Unpreceded(d))

\* Whoever the lane is reserved for is over or next, and so is whoever a helper
\* has chosen or holds a copy of; a copy that is not over is the lane's own.
ReservedIsNext ==
    publisher # None =>
        value > 0 /\ (Over(publisher, publisherGen) \/ IsNext(publisher, publisherGen))
ChosenIsNext(h) ==
    pc[h] = "acquire" =>
        /\ job[h].id # None
        /\ Over(job[h].id, job[h].gen) \/ IsNext(job[h].id, job[h].gen)
Behind    == {"current", "fix", "refetch", "release"}
Holding   == {"laneMarker", "recheck", "abandon"} \cup Finishing \cup Behind
CopyIsCurrent(h) ==
    LET d == held[h].publisher
        g == held[h].gen
    IN  /\ pc[h] \in Holding =>
              /\ d # None
              /\ \/ Over(d, g)
                 \/ IsNext(d, g) /\ (account = "active" => held[h] = Reservation)
        /\ pc[h] \in Behind \/ (pc[h] = "abandon" /\ account = "active") => Over(d, g)
        /\ pc[h] \in {"row", "marker", "prepare"} => target[h] # None

HasOutcome(h) ==
    pc[h] \in {"settle", "mark"} => job[h].id # None /\ job[h].as \in Settled

LineSound == LineIsStaging /\ LineIsInOrder /\ RowsAreCounted /\ PurgeSound /\ ReservedIsNext
HelperSound(h) == ChosenIsNext(h) /\ CopyIsCurrent(h) /\ HasOutcome(h)

LineInv == TypeOK /\ LineSound /\ \A h \in Helper : HelperSound(h)

\* Batches are of deliveries that coalesce.
MembersCoalesce == \A r \in Delivery : members[r] # {} => {r} \cup members[r] \subseteq Coalescing
RootsCoalesce   == \A d \in Delivery : rootOf[d] # None => d \in Coalescing
FindsRoot(h) ==
    \/ pc[h] \in {"join", "again"}
    \/ pc[h] \in {"publish", "current", "fix"} /\ job[h].id # None
    => held[h].publisher \in Coalescing

\* A settlement of r's members is of a generation that is past, or r has its
\* outcome, or r is in a batch itself.
SettlesForRoot(h) ==
    LET r == job[h].id
    IN  pc[h] = "settle" =>
            \/ Erased \/ gen[r] > job[h].gen \/ RootOf(r) # {}
            \/ gen[r] = job[h].gen /\ status[r] = job[h].as /\ members[r] # {}

BatchInv == /\ MembersCoalesce /\ RootsCoalesce
            /\ \A h \in Helper : SettlesForRoot(h) /\ FindsRoot(h)
==============================================================================
