------------------------- MODULE OpenIDRefreshFlight -------------------------
(***************************************************************************)
(* The durable single-flight row that serializes the OpenID refresh of one *)
(* refresh token over all replicas: who exchanges the token, who joins and *)
(* waits, who delivers the resulting session to the browser, and a logout  *)
(* that tombstones the row.                                                *)
(*                                                                         *)
(* The row is a MongoDB document.  Each method of the store is a series of *)
(* single-document operations, each of them atomic, each an action here;   *)
(* between two of them the other requests go on, leases run out and the    *)
(* TTL index removes what is due.  A request may crash anywhere.           *)
(***************************************************************************)
EXTENDS Integers, FiniteSets

CONSTANTS
    Procs,      \* requests: refreshes, session reuses, logouts
    NoProc,     \* no delivery
    MaxOwners,  \* bound: refreshes that try to lead the flight
    MaxClaims   \* bound: response deliveries that are claimed

ASSUME NoProcAssumption    == NoProc \notin Procs
ASSUME MaxOwnersAssumption == MaxOwners \in Nat \ {0}
ASSUME MaxClaimsAssumption == MaxClaims \in Nat \ {0}

NoOwner == 0    \* of a tombstone, whose ownerId is 'revoked'

VARIABLES
    row,        \* the flight's document, see TypeOK
    owners,     \* owner ids handed out so far
    claims,     \* deliveries claimed so far
    lapsed,     \* requests whose delivery lease has run out
    published,  \* completed generations; sessions may still hold their tokens
    proc        \* each request: where it is (pc), and its owner id or the
                \* generation it delivers (gen)

vars == <<row, owners, claims, lapsed, published, proc>>

RowStatuses == {"absent", "pending", "completed", "failed", "revoked"}
PCs == {"idle",
        "reclaim", "lead", "observe", "join",           \* refreshing
        "have", "claim", "retry", "hold", "auth", "sent",   \* delivering
        "release1", "release2", "release3", "release4",
        "revoke1", "revoke2", "revoke3", "out"}         \* logging out

TypeOK ==
    /\ row \in [status : RowStatuses, owner : 0..MaxOwners,
                result   : BOOLEAN,             \* encryptedResult
                delivery : Procs \cup {NoProc}, \* deliveryId
                revoking : BOOLEAN,             \* revocationRequestedAt
                lockDue  : BOOLEAN,             \* lockExpiresAt has passed
                due      : BOOLEAN]             \* expiresAt has passed
    /\ owners \in 0..MaxOwners
    /\ claims \in 0..MaxClaims
    /\ lapsed \subseteq Procs
    /\ published \subseteq 1..MaxOwners
    /\ proc \in [Procs -> [pc : PCs, gen : 0..MaxOwners]]

Row(st, o) == [status |-> st, owner |-> o, result |-> FALSE, delivery |-> NoProc,
               revoking |-> FALSE, lockDue |-> FALSE, due |-> FALSE]
Absent     == Row("absent", NoOwner)

Init ==
    /\ row = Absent
    /\ owners = 0 /\ claims = 0
    /\ lapsed = {} /\ published = {}
    /\ proc = [p \in Procs |-> [pc |-> "idle", gen |-> NoOwner]]

Exists  == row.status # "absent"
At(p, l) == proc[p].pc = l
Goto(p, l) == proc' = [proc EXCEPT ![p] = IF l = "idle" THEN [pc |-> l, gen |-> NoOwner]
                                                        ELSE [@ EXCEPT !.pc = l]]

\* Mutant: a lease excludes the others however long it has run out.
LiveForEver == row.delivery # NoProc

\* A delivery lease that still excludes everybody else.
Live == row.delivery # NoProc /\ row.delivery \notin lapsed

\* The row is the usable result of generation g, not due as a find sees it.
Completed(g) == row.status = "completed" /\ row.owner = g /\ ~row.revoking
Usable(g)    == Completed(g) /\ ~row.due

(***************************************************************************)
(* Refreshing: acquire, the lease, complete, fail, and joining.            *)
(***************************************************************************)

\* The first half of acquire creates the row; a duplicate key makes the
\* request try to reclaim it.
Acquire(p) ==
    /\ At(p, "idle") /\ owners < MaxOwners
    /\ owners' = owners + 1
    /\ row' = IF Exists THEN row ELSE Row("pending", owners + 1)
    /\ proc' = [proc EXCEPT ![p] = [pc |-> IF Exists THEN "reclaim" ELSE "lead",
                                    gen |-> owners + 1]]
    /\ UNCHANGED <<claims, lapsed, published>>

Reclaimable == Exists /\ \/ row.status = "failed"
                         \/ row.due
                         \/ row.status = "pending" /\ row.lockDue

Reclaim(p) ==
    /\ At(p, "reclaim")
    /\ row' = IF Reclaimable THEN Row("pending", proc[p].gen) ELSE row
    /\ Goto(p, IF Reclaimable THEN "lead" ELSE "join")
    /\ UNCHANGED <<owners, claims, lapsed, published>>

Leads(p) == row.status = "pending" /\ row.owner = proc[p].gen

\* The heartbeat, and assertLeaseOwned during the exchange.
Renew(p) ==
    /\ At(p, "lead")
    /\ IF Leads(p)
       THEN row' = [row EXCEPT !.lockDue = FALSE, !.due = FALSE] /\ UNCHANGED proc
       ELSE Goto(p, "idle") /\ UNCHANGED row
    /\ UNCHANGED <<owners, claims, lapsed, published>>

CompleteRow(p) ==
    /\ row' = [row EXCEPT !.status = "completed", !.result = TRUE, !.delivery = NoProc,
                          !.revoking = FALSE, !.due = FALSE]
    /\ published' = published \cup {proc[p].gen}

\* The exchange succeeded.  Ownership lost meanwhile is an error.
Complete(p) ==
    /\ At(p, "lead")
    /\ IF Leads(p)
       THEN CompleteRow(p) /\ Goto(p, "have")
       ELSE Goto(p, "idle") /\ UNCHANGED <<row, published>>
    /\ UNCHANGED <<owners, claims, lapsed>>

\* The completion's reply is lost: the leader looks whether it took place,
\* and keeps the flight recoverable when it cannot tell.
CompleteUnobserved(p) ==
    /\ At(p, "lead") /\ Leads(p)
    /\ CompleteRow(p)
    /\ Goto(p, "observe")
    /\ UNCHANGED <<owners, claims, lapsed>>

Observe(p) ==
    /\ At(p, "observe")
    /\ Goto(p, IF Usable(proc[p].gen) THEN "have" ELSE "idle")
    /\ UNCHANGED <<row, owners, claims, lapsed, published>>

\* The exchange failed.
Fail(p) ==
    /\ At(p, "lead")
    /\ row' = IF Leads(p) THEN [row EXCEPT !.status = "failed", !.result = FALSE,
                                           !.delivery = NoProc, !.revoking = FALSE,
                                           !.due = FALSE]
                          ELSE row
    /\ Goto(p, "idle")
    /\ UNCHANGED <<owners, claims, lapsed, published>>

\* One round of waitForOpenIDRefreshFlight: a pending row is polled again.
Join(p) ==
    /\ At(p, "join")
    /\ ~(row.status = "pending" /\ ~row.due)
    /\ IF Usable(row.owner) /\ row.result
       THEN proc' = [proc EXCEPT ![p] = [pc |-> "have", gen |-> row.owner]]
       ELSE Goto(p, "idle")
    /\ UNCHANGED <<row, owners, claims, lapsed, published>>

(***************************************************************************)
(* Delivering: withOpenIDResponseDelivery.                                 *)
(***************************************************************************)

\* A request finds a published generation in its session.
Reuse(p, g) ==
    /\ At(p, "idle") /\ g \in published
    /\ proc' = [proc EXCEPT ![p] = [pc |-> "have", gen |-> g]]
    /\ UNCHANGED <<row, owners, claims, lapsed, published>>

\* assertOpenIDRefreshSessionGenerationAvailable: no row is as good as the own.
CheckSession(p) ==
    /\ At(p, "have")
    /\ Goto(p, IF ~Exists \/ row.due \/ Completed(proc[p].gen) THEN "claim" ELSE "idle")
    /\ UNCHANGED <<row, owners, claims, lapsed, published>>

\* Mutant: the lease of another delivery is ignored.
ClaimableAnyhow(g) == ~Exists \/ Completed(g)

\* claimOpenIDRefreshFlightDelivery: on the row of this generation, or on an
\* upserted one without a result when the row is gone.
Claimable(g) == ~Exists \/ (Completed(g) /\ ~Live)

ClaimDelivery(p) ==
    /\ At(p, "claim") /\ claims < MaxClaims
    /\ IF Claimable(proc[p].gen)
       THEN /\ row' = IF Exists THEN [row EXCEPT !.delivery = p, !.due = FALSE]
                      ELSE [Row("completed", proc[p].gen) EXCEPT !.delivery = p]
            /\ claims' = claims + 1
            /\ lapsed' = lapsed \ {p}
            /\ Goto(p, "hold")
       ELSE Goto(p, "retry") /\ UNCHANGED <<row, claims, lapsed>>
    /\ UNCHANGED <<owners, published>>

\* ... and the read that decides whether the claim is worth another try.
RetryClaim(p) ==
    /\ At(p, "retry")
    /\ Goto(p, IF ~Exists \/ row.due \/ Completed(proc[p].gen) THEN "claim" ELSE "idle")
    /\ UNCHANGED <<row, owners, claims, lapsed, published>>

Owns(p) == row.status = "completed" /\ row.owner = proc[p].gen /\ row.delivery = p

\* The read of assertOpenIDRefreshFlightDeliveryAvailable.  On an error the
\* lease is released.
Authorize(p) ==
    /\ At(p, "hold")
    /\ Goto(p, IF Owns(p) /\ ~row.revoking /\ ~row.due /\ p \notin lapsed
               THEN "auth" ELSE "release1")
    /\ UNCHANGED <<row, owners, claims, lapsed, published>>

\* Its answer arrives: the lease is compared with the clock and the response
\* is written without another await.
Send(p) ==
    /\ At(p, "auth")
    /\ Goto(p, IF p \in lapsed THEN "release1" ELSE "sent")
    /\ UNCHANGED <<row, owners, claims, lapsed, published>>

\* The response's finish or close event.
FinishResponse(p) ==
    /\ At(p, "sent")
    /\ Goto(p, "release1")
    /\ UNCHANGED <<row, owners, claims, lapsed, published>>

\* releaseOpenIDRefreshFlightDelivery: revoke the row a logout waits for,
\* delete an upserted row, or clear the lease on a real one; and look for a
\* logout again, as it may have come in between.
ReleaseStep(p, from, hits, after, onward) ==
    /\ At(p, from)
    /\ row' = IF hits THEN after ELSE row
    /\ Goto(p, IF hits THEN "idle" ELSE onward)
    /\ UNCHANGED <<owners, claims, lapsed, published>>

Tombstone == [row EXCEPT !.status = "revoked", !.owner = NoOwner,
                         !.delivery = NoProc, !.revoking = FALSE]

\* Mutants: the deletion of an upserted row does not look at the logout, or
\* at the result.
ReleaseUnheeding(p) == ReleaseStep(p, "release2", Owns(p) /\ ~row.result, Absent, "release3")
ReleaseAnyResult(p) == ReleaseStep(p, "release2", Owns(p) /\ ~row.revoking, Absent, "release3")

ReleaseRevoked(p)     == ReleaseStep(p, "release1", Owns(p) /\ row.revoking,
                                     Tombstone, "release2")
ReleaseSynthetic(p)   == ReleaseStep(p, "release2", Owns(p) /\ ~row.result /\ ~row.revoking,
                                     Absent, "release3")
ReleaseCompleted(p)   == ReleaseStep(p, "release3", Owns(p) /\ row.result /\ ~row.revoking,
                                     [row EXCEPT !.delivery = NoProc], "release4")
ReleaseLateRevoked(p) == ReleaseStep(p, "release4", Owns(p) /\ row.revoking,
                                     Tombstone, "idle")

(***************************************************************************)
(* Logging out: the loop of revokeOpenIDRefreshFlight.                     *)
(***************************************************************************)

Logout(p) ==
    /\ At(p, "idle")
    /\ Goto(p, "revoke1")
    /\ UNCHANGED <<row, owners, claims, lapsed, published>>

\* Mutant: a row under delivery is tombstoned at once.
RevokeAtOnce(p) ==
    /\ At(p, "revoke1")
    /\ IF Exists
       THEN /\ row' = [Tombstone EXCEPT !.lockDue = FALSE, !.due = FALSE]
            /\ Goto(p, "out")
       ELSE UNCHANGED row /\ Goto(p, "revoke2")
    /\ UNCHANGED <<owners, claims, lapsed, published>>

\* Any row that nobody is delivering becomes the tombstone.
Revoke(p) ==
    /\ At(p, "revoke1")
    /\ IF Exists /\ ~Live
       THEN /\ row' = [Tombstone EXCEPT !.lockDue = FALSE, !.due = FALSE]
            /\ Goto(p, "out")
       ELSE UNCHANGED row /\ Goto(p, "revoke2")
    /\ UNCHANGED <<owners, claims, lapsed, published>>

\* A delivery is under way: ask for the revocation and poll.
RequestRevocation(p) ==
    /\ At(p, "revoke2")
    /\ IF row.status = "completed" /\ Live
       THEN row' = [row EXCEPT !.revoking = TRUE, !.due = FALSE] /\ Goto(p, "revoke1")
       ELSE UNCHANGED row /\ Goto(p, "revoke3")
    /\ UNCHANGED <<owners, claims, lapsed, published>>

\* There was no row: create the tombstone, unless there is one by now.
CreateTombstone(p) ==
    /\ At(p, "revoke3")
    /\ row' = IF Exists THEN row ELSE Row("revoked", NoOwner)
    /\ Goto(p, IF Exists THEN "revoke1" ELSE "out")
    /\ UNCHANGED <<owners, claims, lapsed, published>>

LoggedOut(p) ==
    /\ At(p, "out")
    /\ Goto(p, "idle")
    /\ UNCHANGED <<row, owners, claims, lapsed, published>>

(***************************************************************************)
(* Time and crashes.  A pending row's expiresAt is behind its              *)
(* lockExpiresAt (120 s against 30 s, renewed together), a delivered one's *)
(* is not before its deliveryExpiresAt ($max).                             *)
(***************************************************************************)
LockLapses ==
    /\ row.status = "pending" /\ ~row.lockDue
    /\ row' = [row EXCEPT !.lockDue = TRUE]
    /\ UNCHANGED <<owners, claims, lapsed, published, proc>>

DeliveryLapses ==
    /\ Live
    /\ lapsed' = lapsed \cup {row.delivery}
    /\ UNCHANGED <<row, owners, claims, published, proc>>

RowLapses ==
    /\ Exists /\ ~row.due /\ ~Live
    /\ row.status = "pending" => row.lockDue
    /\ row' = [row EXCEPT !.due = TRUE]
    /\ UNCHANGED <<owners, claims, lapsed, published, proc>>

RemoveDue ==
    /\ row.due
    /\ row' = Absent
    /\ UNCHANGED <<owners, claims, lapsed, published, proc>>

Crash(p) ==
    /\ ~At(p, "idle")
    /\ Goto(p, "idle")
    /\ UNCHANGED <<row, owners, claims, lapsed, published>>

LogoutStep(p) == Revoke(p) \/ RequestRevocation(p) \/ CreateTombstone(p)
LeadEnds(p)   == Complete(p) \/ Fail(p) \/ (At(p, "lead") /\ Crash(p))

Next ==
    \/ \E p \in Procs :
         \/ Acquire(p) \/ Reclaim(p) \/ Renew(p) \/ Complete(p) \/ CompleteUnobserved(p)
         \/ Observe(p) \/ Fail(p) \/ Join(p)
         \/ CheckSession(p) \/ ClaimDelivery(p) \/ RetryClaim(p) \/ Authorize(p) \/ Send(p)
         \/ FinishResponse(p) \/ ReleaseRevoked(p) \/ ReleaseSynthetic(p)
         \/ ReleaseCompleted(p) \/ ReleaseLateRevoked(p)
         \/ Logout(p) \/ Revoke(p) \/ RequestRevocation(p) \/ CreateTombstone(p) \/ LoggedOut(p)
         \/ Crash(p)
    \/ \E p \in Procs, g \in 1..MaxOwners : Reuse(p, g)
    \/ LockLapses \/ DeliveryLapses \/ RowLapses \/ RemoveDue

Spec == Init /\ [][Next]_vars

(***************************************************************************)
(* Safety.                                                                 *)
(***************************************************************************)

\* A request that may still write its response: it holds a delivery lease
\* that has not run out.
Delivering(p) == proc[p].pc \in {"hold", "auth"} /\ p \notin lapsed

\* Delivery of a generation is serialized, and the answer a request got when
\* it asked for authorization is still true when it writes the response: no
\* refresh, release, upsert, logout or TTL removal takes the row of a
\* delivering request away.
DeliveryIsExclusive == \A p \in Procs : Delivering(p) => Owns(p)

\* What exclusiveness and the logout's promises rest on: a row is not due
\* while its delivery lease runs, only a result can be asked back, and whoever
\* leads has an owner id.
LeasedIsNotDue      == Live => ~row.due
RevokingIsCompleted == row.revoking => row.status = "completed"
LeadersAreNumbered  == \A p \in Procs : proc[p].pc \in {"reclaim", "lead"} => proc[p].gen # NoOwner

IInv == /\ TypeOK
        /\ DeliveryIsExclusive
        /\ LeasedIsNotDue
        /\ RevokingIsCompleted
        /\ LeadersAreNumbered

\* "A logout that reaches the same flight either tombstones it before this
\* claim or waits for the response to finish before returning": when a logout
\* returns nobody is left who would still write a response.
ReturnsAlone ==
    \A p \in Procs : ~At(p, "out") /\ proc'[p].pc = "out" =>
        \A q \in Procs : ~(proc'[q].pc \in {"hold", "auth"} /\ q \notin lapsed')
LogoutWaits == [][ReturnsAlone]_vars

\* A logout's mark, tombstone or request, stays on the row until the row is
\* due: neither a leader that completes or fails late, a new refresh, a
\* delivery nor its release takes it off.
Revoked         == row.status = "revoked" \/ row.revoking
RevokedStays    == Revoked /\ ~row.due => Revoked'
RevocationHolds == [][RevokedStays]_vars

\* A result joiners may still come for is not lost before it is due, unless
\* to a logout; in particular a release deletes upserted rows only.
HasResult    == row.status = "completed" /\ row.result
ResultStays  == HasResult /\ ~row.due => HasResult' \/ Revoked'
ResultIsKept == [][ResultStays]_vars

(***************************************************************************)
(* Liveness.                                                               *)
(***************************************************************************)

\* Leases run out, the TTL index works, a logout and a joiner that did not
\* crash go on polling, and a token exchange ends one way or another.  Strong
\* fairness stands for the time scales: the row does not appear and disappear
\* (120 s) between every two operations (milliseconds) of a logout for ever.
Fairness ==
    /\ WF_vars(LockLapses) /\ WF_vars(DeliveryLapses)
    /\ WF_vars(RowLapses) /\ WF_vars(RemoveDue)
    /\ \A p \in Procs :
         /\ WF_vars(LogoutStep(p)) /\ SF_vars(Revoke(p) /\ Exists /\ ~Live)
         /\ WF_vars(Join(p)) /\ WF_vars(LeadEnds(p))

FairSpec == Spec /\ Fairness

\* A logout returns, and a joiner gets an answer, whoever crashes.
LoggingOut(p)       == proc[p].pc \in {"revoke1", "revoke2", "revoke3"}
EveryRequestReturns == \A p \in Procs : LoggingOut(p) \/ At(p, "join")
                                          ~> ~(LoggingOut(p) \/ At(p, "join"))
=============================================================================
