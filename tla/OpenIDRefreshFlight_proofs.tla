--------------------- MODULE OpenIDRefreshFlight_proofs ---------------------
(***************************************************************************)
(* The flight row's safety for every number of requests, refreshes and     *)
(* deliveries.  IInv is inductive; the action properties follow from it.   *)
(***************************************************************************)
EXTENDS OpenIDRefreshFlight, TLAPS

USE MaxOwnersAssumption, MaxClaimsAssumption, NoProcAssumption

\* A flight begins without a row and with idle requests.
LEMMA InitKeeps == Init => IInv
BY DEF Init, IInv, TypeOK, DeliveryIsExclusive, Delivering, LeasedIsNotDue, RevokingIsCompleted,
       LeadersAreNumbered, Live, Absent, Row, NoOwner, RowStatuses, PCs

(***************************************************************************)
(* What the record updates do, field by field.                             *)
(***************************************************************************)

RowType  == [status : RowStatuses, owner : 0..MaxOwners, result : BOOLEAN,
             delivery : Procs \cup {NoProc}, revoking : BOOLEAN,
             lockDue : BOOLEAN, due : BOOLEAN]
ProcType == [Procs -> [pc : PCs, gen : 0..MaxOwners]]

\* A request moves, the others stay.
LEMMA GotoFacts ==
  ASSUME NEW p \in Procs, NEW l \in PCs, proc \in ProcType, Goto(p, l)
  PROVE  /\ proc' \in ProcType
         /\ proc'[p].pc = l
         /\ l # "idle" => proc'[p].gen = proc[p].gen
         /\ \A q \in Procs \ {p} : proc'[q] = proc[q]
<1>1. CASE l = "idle"
  BY <1>1 DEF Goto, ProcType, NoOwner, PCs
<1>2. CASE l # "idle"
  BY <1>2 DEF Goto, ProcType, PCs
<1> QED BY <1>1, <1>2

\* Zero is an owner id that no refresh has.
LEMMA NoOwnerType == NoOwner \in 0..MaxOwners
BY DEF NoOwner

\* A new row carries neither result, nor lease, nor mark, and is not due.
LEMMA RowFacts ==
  ASSUME NEW st \in RowStatuses, NEW o \in 0..MaxOwners
  PROVE  /\ Row(st, o) \in RowType
         /\ Row(st, o).status = st /\ Row(st, o).owner = o
         /\ Row(st, o).delivery = NoProc
         /\ Row(st, o).revoking = FALSE /\ Row(st, o).due = FALSE
BY DEF Row, RowType

\* Neither does the absence of a row.
LEMMA AbsentFacts == Absent \in RowType /\ Absent.delivery = NoProc /\ Absent.revoking = FALSE
<1>1. "absent" \in RowStatuses
  BY DEF RowStatuses
<1> QED BY <1>1, RowFacts, NoOwnerType DEF Absent

\* A tombstone carries neither lease nor request.
LEMMA TombstoneFacts ==
  ASSUME row \in RowType
  PROVE  /\ Tombstone \in RowType
         /\ Tombstone.status = "revoked" /\ Tombstone.delivery = NoProc
         /\ Tombstone.revoking = FALSE
<1>1. NoOwner \in 0..MaxOwners
  BY NoOwnerType
<1>2. Tombstone = [row EXCEPT !.status = "revoked", !.owner = NoOwner,
                              !.delivery = NoProc, !.revoking = FALSE]
  BY DEF Tombstone
<1> QED BY <1>1, <1>2 DEF RowType, RowStatuses

(***************************************************************************)
(* What the invariant says of a step.                                      *)
(***************************************************************************)

\* Nobody delivers a row that is not completed, whose lease has run out, or
\* that is due; and besides the holder of its lease nobody at all.
LEMMA Undelivered ==
  ASSUME IInv, NEW q \in Procs, Delivering(q)
  PROVE  /\ row.status = "completed" /\ row.owner = proc[q].gen /\ row.delivery = q
         /\ Live /\ ~row.due
<1>1. Owns(q) /\ q \notin lapsed
  BY DEF IInv, DeliveryIsExclusive, Delivering
<1>2. Live
  BY <1>1 DEF Owns, Live
<1> QED BY <1>1, <1>2 DEF IInv, LeasedIsNotDue, Owns

\* A step of one request that does not start to deliver keeps the invariant
\* if the others' deliveries, should there be any, keep their row.
LEMMA RowStep ==
  ASSUME IInv, NEW p \in Procs,
         row' \in RowType, proc' \in ProcType,
         owners' \in 0..MaxOwners, published' \subseteq 1..MaxOwners,
         claims' = claims, lapsed' = lapsed,
         \A q \in Procs \ {p} : proc'[q] = proc[q],
         proc'[p].pc \notin {"hold", "auth"},
         proc'[p].pc \in {"reclaim", "lead"} => proc'[p].gen # NoOwner,
         \/ \A q \in Procs \ {p} : ~Delivering(q)
         \/ row'.status = row.status /\ row'.owner = row.owner /\ row'.delivery = row.delivery,
         LeasedIsNotDue', RevokingIsCompleted'
  PROVE  IInv'
<1>1. TypeOK'
  BY DEF IInv, TypeOK, RowType, ProcType
<1>2. ASSUME NEW q \in Procs, Delivering(q)' PROVE Owns(q)'
  <2>1. q # p /\ Delivering(q)
    BY <1>2 DEF Delivering
  <2> QED BY <2>1, Undelivered DEF Owns
<1>3. LeadersAreNumbered'
  BY DEF IInv, LeadersAreNumbered
<1> QED BY <1>1, <1>2, <1>3 DEF IInv, DeliveryIsExclusive

\* What the steps need of the type invariant.
LEMMA InvTypes ==
  ASSUME IInv
  PROVE  /\ row \in RowType /\ proc \in ProcType
         /\ owners \in 0..MaxOwners /\ claims \in 0..MaxClaims
         /\ lapsed \subseteq Procs /\ published \subseteq 1..MaxOwners
         /\ LeasedIsNotDue /\ RevokingIsCompleted /\ LeadersAreNumbered
         /\ MaxOwners \in Nat /\ MaxClaims \in Nat
BY DEF IInv, TypeOK, RowType, ProcType

(***************************************************************************)
(* One lemma per group of actions with the same effect on the row.         *)
(***************************************************************************)

\* Steps that leave row and leases alone and start no delivery.
LEMMA QuietKeeps ==
  ASSUME IInv, NEW p \in Procs,
         \/ Observe(p) \/ Join(p) \/ CheckSession(p) \/ RetryClaim(p) \/ Authorize(p)
         \/ Send(p) \/ FinishResponse(p) \/ Logout(p) \/ LoggedOut(p) \/ Crash(p)
         \/ (\E g \in 1..MaxOwners : Reuse(p, g))
  PROVE  IInv'
BY DEF IInv, TypeOK, DeliveryIsExclusive, Delivering, LeasedIsNotDue, RevokingIsCompleted,
       LeadersAreNumbered, Live, Owns, PCs, At, Goto, Observe, Join, CheckSession, RetryClaim, Authorize, Send,
       FinishResponse, Logout, LoggedOut, Crash, Reuse, NoOwner, Usable, Completed

\* Trying to lead: only an absent, failed, due or abandoned row is replaced.
LEMMA AcquireKeeps ==
  ASSUME IInv, NEW p \in Procs, Acquire(p) \/ Reclaim(p)
  PROVE  IInv'
<1> USE InvTypes
<1>1. CASE Acquire(p)
  <2>1. /\ proc' \in ProcType /\ \A q \in Procs \ {p} : proc'[q] = proc[q]
        /\ proc'[p].pc \notin {"hold", "auth"} /\ proc'[p].gen # NoOwner
        /\ owners' \in 0..MaxOwners /\ owners' = owners + 1
        /\ UNCHANGED <<claims, lapsed, published>>
    BY <1>1 DEF Acquire, ProcType, PCs, NoOwner
  <2>2. CASE Exists
    <3>1. row' = row
      BY <1>1, <2>2 DEF Acquire
    <3> QED BY <2>1, <3>1, RowStep DEF LeasedIsNotDue, RevokingIsCompleted, Live
  <2>3. CASE ~Exists
    <3>1. row' = Row("pending", owners + 1)
      BY <1>1, <2>3 DEF Acquire
    <3>2. row' \in RowType /\ row'.delivery = NoProc /\ row'.revoking = FALSE
      BY <2>1, <3>1, RowFacts DEF RowStatuses
    <3>3. \A q \in Procs : ~Delivering(q)
      BY <2>3, Undelivered DEF Exists
    <3> QED BY <2>1, <3>2, <3>3, RowStep DEF LeasedIsNotDue, RevokingIsCompleted, Live
  <2> QED BY <2>2, <2>3
<1>2. CASE Reclaim(p)
  <2>1. CASE Reclaimable
    <3>1. proc[p].gen \in 0..MaxOwners /\ proc[p].gen # NoOwner
      BY <1>2 DEF ProcType, LeadersAreNumbered, Reclaim, At
    <3>2. row' = Row("pending", proc[p].gen) /\ Goto(p, "lead")
          /\ UNCHANGED <<owners, claims, lapsed, published>>
      BY <1>2, <2>1 DEF Reclaim
    <3>3. row' \in RowType /\ row'.delivery = NoProc /\ row'.revoking = FALSE
      BY <3>1, <3>2, RowFacts DEF RowStatuses
    <3>4. /\ proc' \in ProcType /\ proc'[p].pc = "lead" /\ proc'[p].gen = proc[p].gen
          /\ \A q \in Procs \ {p} : proc'[q] = proc[q]
      BY <3>2, GotoFacts DEF PCs
    <3>5. \A q \in Procs : ~Delivering(q)
      BY <2>1, Undelivered DEF Reclaimable
    <3> QED BY <3>1, <3>2, <3>3, <3>4, <3>5, RowStep DEF LeasedIsNotDue, RevokingIsCompleted, Live
  <2>2. CASE ~Reclaimable
    <3>1. row' = row /\ Goto(p, "join") /\ UNCHANGED <<owners, claims, lapsed, published>>
      BY <1>2, <2>2 DEF Reclaim
    <3>2. proc' \in ProcType /\ proc'[p].pc = "join" /\ \A q \in Procs \ {p} : proc'[q] = proc[q]
      BY <3>1, GotoFacts DEF PCs
    <3> QED BY <3>1, <3>2, RowStep DEF LeasedIsNotDue, RevokingIsCompleted, Live
  <2> QED BY <2>1, <2>2
<1> QED BY <1>1, <1>2

\* Leading: the leader's row is pending, so that nobody delivers it.
LEMMA LeadKeeps ==
  ASSUME IInv, NEW p \in Procs,
         Renew(p) \/ Complete(p) \/ CompleteUnobserved(p) \/ Fail(p)
  PROVE  IInv'
<1> USE InvTypes
<1>1. ASSUME UNCHANGED <<row, owners, claims, lapsed, published>>, NEW l \in PCs \ {"hold", "auth", "reclaim", "lead"},
             Goto(p, l)
      PROVE  IInv'
  <2>1. proc' \in ProcType /\ proc'[p].pc = l /\ \A q \in Procs \ {p} : proc'[q] = proc[q]
    BY <1>1, GotoFacts
  <2> QED BY <1>1, <2>1, RowStep DEF LeasedIsNotDue, RevokingIsCompleted, Live
<1>2. ASSUME Leads(p) PROVE (\A q \in Procs : ~Delivering(q)) /\ row.revoking = FALSE
  <2>1. row.status = "pending"
    BY <1>2 DEF Leads
  <2>2. \A q \in Procs : ~Delivering(q)
    BY <2>1, Undelivered
  <2>3. row.revoking \in BOOLEAN /\ ~row.revoking
    BY <2>1 DEF RowType, RevokingIsCompleted
  <2> QED BY <2>2, <2>3
<1>3. CASE Renew(p)
  <2>1. CASE Leads(p)
    <3>1. row' = [row EXCEPT !.lockDue = FALSE, !.due = FALSE]
          /\ UNCHANGED <<proc, owners, claims, lapsed, published>> /\ proc[p].pc = "lead"
      BY <1>3, <2>1 DEF Renew, At
    <3>2. row' \in RowType /\ row'.due = FALSE /\ row'.revoking = row.revoking
      BY <3>1 DEF RowType
    <3> QED BY <1>2, <2>1, <3>1, <3>2, RowStep DEF LeasedIsNotDue, RevokingIsCompleted, LeadersAreNumbered
  <2>2. CASE ~Leads(p)
    BY <1>1, <1>3, <2>2 DEF Renew, PCs
  <2> QED BY <2>1, <2>2
<1>4. ASSUME At(p, "lead"), Leads(p), CompleteRow(p), UNCHANGED <<owners, claims, lapsed>>,
             NEW l \in {"have", "observe"}, Goto(p, l)
      PROVE  IInv'
  <2>1. row' \in RowType /\ row'.due = FALSE /\ row'.revoking = FALSE
    BY <1>4 DEF CompleteRow, RowType, RowStatuses
  <2>2. published' \subseteq 1..MaxOwners
    BY <1>4 DEF CompleteRow, ProcType, At, LeadersAreNumbered, NoOwner
  <2>3. proc' \in ProcType /\ proc'[p].pc = l /\ \A q \in Procs \ {p} : proc'[q] = proc[q]
    BY <1>4, GotoFacts DEF PCs
  <2> QED BY <1>2, <1>4, <2>1, <2>2, <2>3, RowStep DEF LeasedIsNotDue, RevokingIsCompleted
<1>5. CASE Complete(p)
  BY <1>1, <1>4, <1>5 DEF Complete, PCs
<1>6. CASE CompleteUnobserved(p)
  BY <1>4, <1>6 DEF CompleteUnobserved
<1>7. CASE Fail(p)
  <2>1. CASE Leads(p)
    <3>1. /\ row' = [row EXCEPT !.status = "failed", !.result = FALSE, !.delivery = NoProc,
                                !.revoking = FALSE, !.due = FALSE]
          /\ Goto(p, "idle") /\ UNCHANGED <<owners, claims, lapsed, published>>
      BY <1>7, <2>1 DEF Fail
    <3>2. row' \in RowType /\ row'.due = FALSE /\ row'.revoking = FALSE
      BY <3>1 DEF RowType, RowStatuses
    <3>3. proc' \in ProcType /\ proc'[p].pc = "idle" /\ \A q \in Procs \ {p} : proc'[q] = proc[q]
      BY <3>1, GotoFacts DEF PCs
    <3> QED BY <1>2, <2>1, <3>1, <3>2, <3>3, RowStep DEF LeasedIsNotDue, RevokingIsCompleted
  <2>2. CASE ~Leads(p)
    BY <1>1, <1>7, <2>2 DEF Fail, PCs
  <2> QED BY <2>1, <2>2
<1> QED BY <1>3, <1>5, <1>6, <1>7

\* A claim takes a row whose delivery lease, if any, has run out.
LEMMA ClaimKeeps ==
  ASSUME IInv, NEW p \in Procs, ClaimDelivery(p)
  PROVE  IInv'
<1> USE InvTypes
<1>1. CASE ~Claimable(proc[p].gen)
  <2>1. Goto(p, "retry") /\ UNCHANGED <<row, owners, claims, lapsed, published>>
    BY <1>1 DEF ClaimDelivery
  <2>2. proc' \in ProcType /\ proc'[p].pc = "retry" /\ \A q \in Procs \ {p} : proc'[q] = proc[q]
    BY <2>1, GotoFacts DEF PCs
  <2> QED BY <2>1, <2>2, RowStep DEF LeasedIsNotDue, RevokingIsCompleted, Live
<1>2. CASE Claimable(proc[p].gen)
  <2>1. /\ row' = IF Exists THEN [row EXCEPT !.delivery = p, !.due = FALSE]
                   ELSE [Row("completed", proc[p].gen) EXCEPT !.delivery = p]
        /\ claims' = claims + 1 /\ claims < MaxClaims
        /\ lapsed' = lapsed \ {p} /\ Goto(p, "hold") /\ UNCHANGED <<owners, published>>
    BY <1>2 DEF ClaimDelivery
  <2>2. /\ proc' \in ProcType /\ proc'[p].pc = "hold" /\ proc'[p].gen = proc[p].gen
        /\ \A q \in Procs \ {p} : proc'[q] = proc[q]
    BY <2>1, GotoFacts DEF PCs
  <2>3. /\ row' \in RowType /\ row'.delivery = p /\ row'.due = FALSE
        /\ row'.status = "completed" /\ row'.owner = proc[p].gen
    <3>1. CASE Exists
      <4>1. row.status = "completed" /\ row.owner = proc[p].gen
        BY <1>2, <3>1 DEF Claimable, Completed
      <4>2. row' = [row EXCEPT !.delivery = p, !.due = FALSE]
        BY <2>1, <3>1
      <4> QED BY <4>1, <4>2 DEF RowType
    <3>2. CASE ~Exists
      <4>1. /\ Row("completed", proc[p].gen) \in RowType
            /\ Row("completed", proc[p].gen).status = "completed"
            /\ Row("completed", proc[p].gen).owner = proc[p].gen
            /\ Row("completed", proc[p].gen).due = FALSE
        <5>1. "completed" \in RowStatuses
          BY DEF RowStatuses
        <5>2. proc \in ProcType
          OBVIOUS
        <5>3. proc[p].gen \in 0..MaxOwners
          BY <5>2 DEF ProcType
        <5> HIDE InvTypes
        <5> QED BY <5>1, <5>3, RowFacts
      <4>2. row' = [Row("completed", proc[p].gen) EXCEPT !.delivery = p]
        BY <2>1, <3>2
      <4> QED BY <4>1, <4>2 DEF RowType
    <3> QED BY <3>1, <3>2
  <2>4. \A q \in Procs : ~Delivering(q)
    BY <1>2, Undelivered DEF Claimable, Exists
  <2>5. TypeOK'
    BY <2>1, <2>2, <2>3 DEF TypeOK, RowType, ProcType
  <2>6. DeliveryIsExclusive'
    <3>1. ASSUME NEW q \in Procs, q # p PROVE ~Delivering(q)'
      BY <2>1, <2>2, <2>4, <3>1 DEF Delivering
    <3> QED BY <2>2, <2>3, <3>1 DEF DeliveryIsExclusive, Owns
  <2> QED BY <2>2, <2>3, <2>5, <2>6
          DEF IInv, LeasedIsNotDue, RevokingIsCompleted, LeadersAreNumbered
<1> QED BY <1>1, <1>2

\* A release changes the row only while the releasing request's lease is on
\* it, and takes the lease off.
LEMMA ReleaseStepKeeps ==
  ASSUME IInv, NEW p \in Procs, NEW from, NEW hits \in BOOLEAN, NEW after,
         NEW onward \in PCs \ {"hold", "auth", "reclaim", "lead"},
         ReleaseStep(p, from, hits, after, onward),
         hits => /\ Owns(p) /\ after \in RowType /\ after.delivery = NoProc
                 /\ after.revoking => after.status = "completed"
  PROVE  IInv'
<1> USE InvTypes
<1>1. UNCHANGED <<owners, claims, lapsed, published>>
  BY DEF ReleaseStep
<1>2. CASE hits
  <2>1. row' = after /\ Goto(p, "idle")
    BY <1>2 DEF ReleaseStep
  <2>2. proc' \in ProcType /\ proc'[p].pc = "idle" /\ \A q \in Procs \ {p} : proc'[q] = proc[q]
    BY <2>1, GotoFacts DEF PCs
  <2>3. \A q \in Procs \ {p} : ~Delivering(q)
    BY <1>2, Undelivered DEF Owns
  <2> QED BY <1>1, <1>2, <2>1, <2>2, <2>3, RowStep DEF LeasedIsNotDue, RevokingIsCompleted, Live
<1>3. CASE ~hits
  <2>1. row' = row /\ Goto(p, onward)
    BY <1>3 DEF ReleaseStep
  <2>2. proc' \in ProcType /\ proc'[p].pc = onward /\ \A q \in Procs \ {p} : proc'[q] = proc[q]
    BY <2>1, GotoFacts
  <2> QED BY <1>1, <2>1, <2>2, RowStep DEF LeasedIsNotDue, RevokingIsCompleted, Live
<1> QED BY <1>2, <1>3

\* The four conditional updates of a release.
LEMMA ReleaseKeeps ==
  ASSUME IInv, NEW p \in Procs,
         ReleaseRevoked(p) \/ ReleaseSynthetic(p) \/ ReleaseCompleted(p) \/ ReleaseLateRevoked(p)
  PROVE  IInv'
<1>1. /\ row \in RowType /\ row.revoking \in BOOLEAN /\ row.result \in BOOLEAN
      /\ RevokingIsCompleted
  BY InvTypes DEF RowType
<1>2. Tombstone \in RowType /\ Tombstone.delivery = NoProc /\ Tombstone.revoking = FALSE
  BY <1>1, TombstoneFacts
<1>3. (Owns(p) /\ row.revoking) \in BOOLEAN
  BY DEF Owns
<1>4. CASE ReleaseRevoked(p)
  <2>1. ReleaseStep(p, "release1", Owns(p) /\ row.revoking, Tombstone, "release2")
    BY <1>4 DEF ReleaseRevoked
  <2>2. "release2" \in PCs \ {"hold", "auth", "reclaim", "lead"}
    BY DEF PCs
  <2> QED BY <1>2, <1>3, <2>1, <2>2, ReleaseStepKeeps
<1>5. CASE ReleaseSynthetic(p)
  <2>1. ReleaseStep(p, "release2", Owns(p) /\ ~row.result /\ ~row.revoking, Absent, "release3")
    BY <1>5 DEF ReleaseSynthetic
  <2>2. Absent \in RowType /\ Absent.delivery = NoProc /\ Absent.revoking = FALSE
    BY AbsentFacts
  <2>3. "release3" \in PCs \ {"hold", "auth", "reclaim", "lead"}
    BY DEF PCs
  <2>4. (Owns(p) /\ ~row.result /\ ~row.revoking) \in BOOLEAN
    BY DEF Owns
  <2> QED BY <2>1, <2>2, <2>3, <2>4, ReleaseStepKeeps
<1>6. CASE ReleaseCompleted(p)
  <2>1. ReleaseStep(p, "release3", Owns(p) /\ row.result /\ ~row.revoking,
                    [row EXCEPT !.delivery = NoProc], "release4")
    BY <1>6 DEF ReleaseCompleted
  <2>2. /\ [row EXCEPT !.delivery = NoProc] \in RowType
        /\ [row EXCEPT !.delivery = NoProc].delivery = NoProc
        /\ [row EXCEPT !.delivery = NoProc].status = row.status
    BY <1>1 DEF RowType
  <2>3. "release4" \in PCs \ {"hold", "auth", "reclaim", "lead"}
    BY DEF PCs
  <2>4. (Owns(p) /\ row.result /\ ~row.revoking) \in BOOLEAN
    BY DEF Owns
  <2>5. Owns(p) => row.status = "completed"
    BY DEF Owns
  <2> QED BY <2>1, <2>2, <2>3, <2>4, <2>5, ReleaseStepKeeps
<1>7. CASE ReleaseLateRevoked(p)
  <2>1. ReleaseStep(p, "release4", Owns(p) /\ row.revoking, Tombstone, "idle")
    BY <1>7 DEF ReleaseLateRevoked
  <2>2. "idle" \in PCs \ {"hold", "auth", "reclaim", "lead"}
    BY DEF PCs
  <2> QED BY <1>2, <1>3, <2>1, <2>2, ReleaseStepKeeps
<1> QED BY <1>4, <1>5, <1>6, <1>7

\* A logout takes a row nobody delivers, or asks for it.
LEMMA LogoutKeeps ==
  ASSUME IInv, NEW p \in Procs, Revoke(p) \/ RequestRevocation(p) \/ CreateTombstone(p)
  PROVE  IInv'
<1> USE InvTypes
<1>1. UNCHANGED <<owners, claims, lapsed, published>>
  BY DEF Revoke, RequestRevocation, CreateTombstone
<1>2. ASSUME NEW l \in {"out", "revoke1", "revoke2", "revoke3"}, Goto(p, l)
      PROVE  /\ proc' \in ProcType /\ proc'[p].pc = l
             /\ \A q \in Procs \ {p} : proc'[q] = proc[q]
  BY <1>2, GotoFacts DEF PCs
<1>3. ASSUME NEW l \in {"out", "revoke1", "revoke2", "revoke3"}, Goto(p, l), row' = row
      PROVE  IInv'
  BY <1>1, <1>2, <1>3, RowStep DEF LeasedIsNotDue, RevokingIsCompleted, Live
<1>4. CASE Revoke(p)
  <2>1. CASE Exists /\ ~Live
    <3>1. row' = [Tombstone EXCEPT !.lockDue = FALSE, !.due = FALSE] /\ Goto(p, "out")
      BY <1>4, <2>1 DEF Revoke
    <3>2. row' \in RowType /\ row'.delivery = NoProc /\ row'.revoking = FALSE
      BY <3>1, TombstoneFacts DEF RowType
    <3>3. \A q \in Procs : ~Delivering(q)
      BY <2>1, Undelivered
    <3> QED BY <1>1, <1>2, <3>1, <3>2, <3>3, RowStep
            DEF LeasedIsNotDue, RevokingIsCompleted, Live
  <2>2. CASE ~(Exists /\ ~Live)
    BY <1>3, <1>4, <2>2 DEF Revoke
  <2> QED BY <2>1, <2>2
<1>5. CASE RequestRevocation(p)
  <2>1. CASE row.status = "completed" /\ Live
    <3>1. row' = [row EXCEPT !.revoking = TRUE, !.due = FALSE] /\ Goto(p, "revoke1")
      BY <1>5, <2>1 DEF RequestRevocation
    <3>2. /\ row' \in RowType /\ row'.due = FALSE
          /\ row'.status = row.status /\ row'.owner = row.owner /\ row'.delivery = row.delivery
      BY <3>1 DEF RowType
    <3> QED BY <1>1, <1>2, <2>1, <3>1, <3>2, RowStep DEF LeasedIsNotDue, RevokingIsCompleted
  <2>2. CASE ~(row.status = "completed" /\ Live)
    BY <1>3, <1>5, <2>2 DEF RequestRevocation
  <2> QED BY <2>1, <2>2
<1>6. CASE CreateTombstone(p)
  <2>1. CASE Exists
    BY <1>3, <1>6, <2>1 DEF CreateTombstone
  <2>2. CASE ~Exists
    <3>1. row' = Row("revoked", NoOwner) /\ Goto(p, "out")
      BY <1>6, <2>2 DEF CreateTombstone
    <3>2. row' \in RowType /\ row'.delivery = NoProc /\ row'.revoking = FALSE
      BY <3>1, RowFacts, NoOwnerType DEF RowStatuses
    <3>3. \A q \in Procs : ~Delivering(q)
      BY <2>2, Undelivered DEF Exists
    <3> QED BY <1>1, <1>2, <3>1, <3>2, <3>3, RowStep
            DEF LeasedIsNotDue, RevokingIsCompleted, Live
  <2> QED BY <2>1, <2>2
<1> QED BY <1>4, <1>5, <1>6

\* Leases run out, rows fall due and go; a delivery that still counts keeps
\* its row from falling due.
LEMMA TimeKeeps ==
  ASSUME IInv, LockLapses \/ DeliveryLapses \/ RowLapses \/ RemoveDue
  PROVE  IInv'
<1> USE InvTypes
<1>1. UNCHANGED <<owners, claims, published, proc>>
  BY DEF LockLapses, DeliveryLapses, RowLapses, RemoveDue
<1>2. /\ row' \in RowType /\ lapsed \subseteq lapsed' /\ lapsed' \subseteq Procs
      /\ RevokingIsCompleted' /\ LeasedIsNotDue'
      /\ \A q \in Procs : Delivering(q) =>
           \/ row'.status = row.status /\ row'.owner = row.owner /\ row'.delivery = row.delivery
           \/ q \in lapsed'
  <2>1. CASE LockLapses
    <3>1. row' = [row EXCEPT !.lockDue = TRUE] /\ lapsed' = lapsed
      BY <2>1 DEF LockLapses
    <3>2. /\ row' \in RowType /\ row'.due = row.due /\ row'.revoking = row.revoking
          /\ row'.status = row.status /\ row'.owner = row.owner /\ row'.delivery = row.delivery
      BY <3>1 DEF RowType
    <3> QED BY <3>1, <3>2 DEF RevokingIsCompleted, LeasedIsNotDue, Live
  <2>2. CASE DeliveryLapses
    <3>1. row' = row /\ lapsed' = lapsed \cup {row.delivery} /\ Live
      BY <2>2 DEF DeliveryLapses
    <3>2. row.delivery \in Procs
      BY <3>1 DEF Live, RowType
    <3> QED BY <3>1, <3>2 DEF RevokingIsCompleted, LeasedIsNotDue, Live
  <2>3. CASE RowLapses
    <3>1. row' = [row EXCEPT !.due = TRUE] /\ lapsed' = lapsed /\ ~Live
      BY <2>3 DEF RowLapses
    <3>2. /\ row' \in RowType /\ row'.revoking = row.revoking
          /\ row'.status = row.status /\ row'.owner = row.owner /\ row'.delivery = row.delivery
      BY <3>1 DEF RowType
    <3> QED BY <3>1, <3>2 DEF RevokingIsCompleted, LeasedIsNotDue, Live
  <2>4. CASE RemoveDue
    <3>1. row' = Absent /\ lapsed' = lapsed /\ row.due
      BY <2>4 DEF RemoveDue
    <3>2. row' \in RowType /\ row'.delivery = NoProc /\ row'.revoking = FALSE
      BY <3>1, RowFacts, NoOwnerType DEF Absent, RowStatuses
    <3>3. \A q \in Procs : ~Delivering(q)
      BY <3>1, Undelivered
    <3> QED BY <3>1, <3>2, <3>3 DEF RevokingIsCompleted, LeasedIsNotDue, Live
  <2> QED BY <2>1, <2>2, <2>3, <2>4
<1>3. TypeOK'
  BY <1>1, <1>2 DEF TypeOK, RowType, ProcType
<1>4. ASSUME NEW q \in Procs, Delivering(q)' PROVE Owns(q)'
  <2>1. Delivering(q) /\ q \notin lapsed'
    BY <1>1, <1>2, <1>4 DEF Delivering
  <2> QED BY <1>1, <1>2, <2>1, Undelivered DEF Owns
<1>5. LeadersAreNumbered'
  BY <1>1 DEF LeadersAreNumbered
<1> QED BY <1>2, <1>3, <1>4, <1>5 DEF IInv, DeliveryIsExclusive

\* Every step, and every stutter, keeps the invariant.
LEMMA NextKeeps ==
  ASSUME IInv, [Next]_vars
  PROVE  IInv'
<1>1. CASE UNCHANGED vars
  BY <1>1 DEF vars, IInv, TypeOK, DeliveryIsExclusive, Delivering, Owns, LeasedIsNotDue,
              RevokingIsCompleted, LeadersAreNumbered, Live
<1> QED BY <1>1, QuietKeeps, AcquireKeeps, LeadKeeps, ClaimKeeps, ReleaseKeeps, LogoutKeeps,
           TimeKeeps DEF Next

(***************************************************************************)
(* The theorems.                                                           *)
(***************************************************************************)

\* The inductive invariant holds in every reachable state.
THEOREM Invariance == Spec => []IInv
<1>1. Init => IInv
  BY InitKeeps
<1>2. IInv /\ [Next]_vars => IInv'
  BY NextKeeps
<1> QED BY <1>1, <1>2, PTL DEF Spec

\* The row, its deadlines and the requests have their types.
THEOREM TypeCorrect == Spec => []TypeOK
<1>1. IInv => TypeOK
  BY DEF IInv
<1> QED BY <1>1, Invariance, PTL

\* Deliveries of a flight exclude each other, over all replicas.
THEOREM OneDelivery == Spec => []DeliveryIsExclusive
<1>1. IInv => DeliveryIsExclusive
  BY DEF IInv
<1> QED BY <1>1, Invariance, PTL

\* Who does not lead, deliver or log out does not reach the end of a logout.
LEMMA OnlyLogoutReturns ==
  ASSUME IInv, Next, NEW p \in Procs, ~At(p, "out"), proc'[p].pc = "out"
  PROVE  Revoke(p) \/ CreateTombstone(p)
<1> USE InvTypes
<1>1. ASSUME NEW q \in Procs, NEW l \in PCs \ {"out"}, Goto(q, l)
      PROVE  FALSE
  <2>1. proc'[q].pc = l /\ \A r \in Procs \ {q} : proc'[r] = proc[r]
    BY <1>1, GotoFacts
  <2> QED BY <2>1 DEF At
<1>2. ASSUME NEW q \in Procs, q # p, NEW l \in PCs, Goto(q, l)
      PROVE  FALSE
  <2>1. proc'[p] = proc[p]
    BY <1>2, GotoFacts
  <2> QED BY <2>1 DEF At
<1>3. ASSUME proc' = proc PROVE FALSE
  BY <1>3 DEF At
<1>4. ASSUME NEW q \in Procs, NEW l \in PCs \ {"out"}, NEW g, proc' = [proc EXCEPT ![q] = [pc |-> l, gen |-> g]]
      PROVE  FALSE
  BY <1>4 DEF At, ProcType
<1>5. ASSUME NEW q \in Procs, Acquire(q) \/ Reclaim(q) \/ Renew(q) \/ Complete(q)
                              \/ CompleteUnobserved(q) \/ Observe(q) \/ Fail(q) \/ Join(q)
      PROVE  FALSE
  <2>1. CASE Acquire(q)
    <3>1. PICK l \in {"reclaim", "lead"} : proc' = [proc EXCEPT ![q] = [pc |-> l, gen |-> owners + 1]]
      BY <2>1 DEF Acquire
    <3> QED BY <1>4, <3>1 DEF PCs
  <2>2. CASE Reclaim(q) \/ Complete(q) \/ CompleteUnobserved(q) \/ Observe(q) \/ Fail(q)
    BY <1>1, <2>2 DEF Reclaim, Complete, CompleteUnobserved, Observe, Fail, PCs
  <2>3. CASE Renew(q)
    BY <1>1, <1>3, <2>3 DEF Renew, PCs
  <2>4. CASE Join(q)
    BY <1>1, <1>4, <2>4 DEF Join, PCs
  <2> QED BY <1>5, <2>1, <2>2, <2>3, <2>4
<1>6. ASSUME NEW q \in Procs, CheckSession(q) \/ ClaimDelivery(q) \/ RetryClaim(q)
                              \/ Authorize(q) \/ Send(q) \/ FinishResponse(q)
      PROVE  FALSE
  BY <1>1, <1>6 DEF CheckSession, ClaimDelivery, RetryClaim, Authorize, Send, FinishResponse, PCs
<1>7. ASSUME NEW q \in Procs, ReleaseRevoked(q) \/ ReleaseSynthetic(q) \/ ReleaseCompleted(q)
                              \/ ReleaseLateRevoked(q)
      PROVE  FALSE
  BY <1>1, <1>7 DEF ReleaseRevoked, ReleaseSynthetic, ReleaseCompleted, ReleaseLateRevoked,
                    ReleaseStep, PCs
<1>8. ASSUME NEW q \in Procs, Logout(q) \/ RequestRevocation(q) \/ LoggedOut(q) \/ Crash(q)
      PROVE  FALSE
  BY <1>1, <1>8 DEF Logout, RequestRevocation, LoggedOut, Crash, PCs
<1>9. ASSUME NEW q \in Procs, NEW g \in 1..MaxOwners, Reuse(q, g)
      PROVE  FALSE
  BY <1>4, <1>9 DEF Reuse, PCs
<1>10. ASSUME LockLapses \/ DeliveryLapses \/ RowLapses \/ RemoveDue
       PROVE  FALSE
  BY <1>3, <1>10 DEF LockLapses, DeliveryLapses, RowLapses, RemoveDue
<1>11. ASSUME NEW q \in Procs, q # p, Revoke(q) \/ CreateTombstone(q)
       PROVE  FALSE
  BY <1>2, <1>11 DEF Revoke, CreateTombstone, PCs
<1> QED BY <1>5, <1>6, <1>7, <1>8, <1>9, <1>10, <1>11 DEF Next

\* A logout that returns has outwaited every delivery, also those that
\* nobody knew of when it began.
THEOREM LogoutOutwaits == Spec => LogoutWaits
<1>1. ASSUME IInv, Next PROVE ReturnsAlone
  <2> SUFFICES ASSUME NEW p \in Procs, ~At(p, "out"), proc'[p].pc = "out",
                      NEW q \in Procs, proc'[q].pc \in {"hold", "auth"}, q \notin lapsed'
               PROVE  FALSE
    BY DEF ReturnsAlone
  <2>1. Revoke(p) \/ CreateTombstone(p)
    BY <1>1, OnlyLogoutReturns
  <2>2. PICK l \in PCs : Goto(p, l) /\ lapsed' = lapsed
    BY <2>1 DEF Revoke, CreateTombstone, PCs
  <2>3. Delivering(q)
    BY <1>1, <2>2, GotoFacts, InvTypes DEF Delivering
  <2>4. Exists /\ Live
    BY <1>1, <2>3, Undelivered DEF Exists
  <2>5. proc'[p].pc # "out"
    <3>1. Goto(p, "revoke2") \/ Goto(p, "revoke1")
      BY <2>1, <2>4 DEF Revoke, CreateTombstone
    <3> QED BY <1>1, <3>1, GotoFacts, InvTypes DEF PCs
  <2> QED BY <2>5
<1>2. IInv /\ [Next]_vars => [ReturnsAlone]_vars
  BY <1>1
<1> QED BY <1>2, Invariance, PTL DEF Spec, LogoutWaits

\* What a step does to a row that is marked, or has a result, and is not due:
\* nothing that would matter, unless it is, or stays, marked.
Kept == \/ row'.status = row.status /\ row'.result = row.result /\ row'.revoking = row.revoking
        \/ Revoked'

\* The mark of a logout, and a result, are kept by every step.
LEMMA RowKept ==
  ASSUME IInv, Next, ~row.due, Revoked \/ HasResult
  PROVE  Kept
<1>1. /\ row \in RowType
      /\ row.status \in {"completed", "revoked"}
      /\ row.revoking => row.status = "completed"
      /\ row.status = "completed" => row.result \/ row.revoking
  BY InvTypes DEF Revoked, HasResult, RevokingIsCompleted
<1>2. ASSUME row' = row PROVE Kept
  BY <1>2 DEF Kept
<1>3. ASSUME NEW p \in Procs, Leads(p) PROVE FALSE
  BY <1>1, <1>3 DEF Leads
<1>4. ASSUME row' = Tombstone PROVE Kept
  BY <1>1, <1>4, TombstoneFacts DEF Revoked, Kept
<1>5. ASSUME NEW p \in Procs, Acquire(p) \/ Reclaim(p) PROVE Kept
  BY <1>1, <1>2, <1>5 DEF Acquire, Reclaim, Reclaimable, Exists
<1>6. ASSUME NEW p \in Procs, Renew(p) \/ Complete(p) \/ CompleteUnobserved(p) \/ Fail(p)
      PROVE  Kept
  BY <1>2, <1>3, <1>6 DEF Renew, Complete, CompleteUnobserved, Fail
<1>7. ASSUME NEW p \in Procs, ClaimDelivery(p) PROVE Kept
  <2>1. CASE Claimable(proc[p].gen)
    <3>1. row' = [row EXCEPT !.delivery = p, !.due = FALSE]
      BY <1>1, <1>7, <2>1 DEF ClaimDelivery, Exists
    <3> QED BY <1>1, <3>1 DEF RowType, Kept
  <2>2. CASE ~Claimable(proc[p].gen)
    BY <1>2, <1>7, <2>2 DEF ClaimDelivery
  <2> QED BY <2>1, <2>2
<1>8. ASSUME NEW p \in Procs, ReleaseRevoked(p) \/ ReleaseLateRevoked(p) PROVE Kept
  BY <1>2, <1>4, <1>8 DEF ReleaseRevoked, ReleaseLateRevoked, ReleaseStep
<1>9. ASSUME NEW p \in Procs, ReleaseSynthetic(p) PROVE Kept
  <2>1. ~(Owns(p) /\ ~row.result /\ ~row.revoking)
    BY <1>1 DEF Owns
  <2> QED BY <1>2, <1>9, <2>1 DEF ReleaseSynthetic, ReleaseStep
<1>10. ASSUME NEW p \in Procs, ReleaseCompleted(p) PROVE Kept
  <2>1. row' = row \/ row' = [row EXCEPT !.delivery = NoProc]
    BY <1>10 DEF ReleaseCompleted, ReleaseStep
  <2>2. CASE row' = [row EXCEPT !.delivery = NoProc]
    BY <1>1, <2>2 DEF RowType, Kept
  <2> QED BY <1>2, <2>1, <2>2
<1>11. ASSUME NEW p \in Procs, Revoke(p) PROVE Kept
  <2>1. row' = row \/ row' = [Tombstone EXCEPT !.lockDue = FALSE, !.due = FALSE]
    BY <1>11 DEF Revoke
  <2>2. CASE row' = [Tombstone EXCEPT !.lockDue = FALSE, !.due = FALSE]
    <3>1. row'.status = "revoked"
      BY <1>1, <2>2, TombstoneFacts DEF RowType
    <3> QED BY <3>1 DEF Revoked, Kept
  <2> QED BY <1>2, <2>1, <2>2
<1>12. ASSUME NEW p \in Procs, RequestRevocation(p) PROVE Kept
  <2>1. row' = row \/ row' = [row EXCEPT !.revoking = TRUE, !.due = FALSE]
    BY <1>12 DEF RequestRevocation
  <2>2. CASE row' = [row EXCEPT !.revoking = TRUE, !.due = FALSE]
    <3>1. row'.revoking = TRUE
      BY <1>1, <2>2 DEF RowType
    <3> QED BY <3>1 DEF Revoked, Kept
  <2> QED BY <1>2, <2>1, <2>2
<1>13. ASSUME NEW p \in Procs, CreateTombstone(p) PROVE Kept
  BY <1>1, <1>2, <1>13 DEF CreateTombstone, Exists
<1>14. ASSUME NEW p \in Procs,
              \/ Observe(p) \/ Join(p) \/ CheckSession(p) \/ RetryClaim(p) \/ Authorize(p)
              \/ Send(p) \/ FinishResponse(p) \/ Logout(p) \/ LoggedOut(p) \/ Crash(p)
       PROVE  Kept
  <2>1. row' = row
    BY <1>14 DEF Observe, Join, CheckSession, RetryClaim, Authorize, Send, FinishResponse,
                 Logout, LoggedOut, Crash
  <2> QED BY <1>2, <2>1
<1>15. CASE LockLapses \/ DeliveryLapses \/ RemoveDue
  BY <1>1, <1>2, <1>15 DEF LockLapses, DeliveryLapses, RemoveDue
<1>16. CASE RowLapses
  <2>1. row' = [row EXCEPT !.due = TRUE]
    BY <1>16 DEF RowLapses
  <2> QED BY <1>1, <2>1 DEF RowType, Kept
<1>17. ASSUME NEW p \in Procs, NEW g \in 1..MaxOwners, Reuse(p, g) PROVE Kept
  BY <1>2, <1>17 DEF Reuse
<1>18. ASSUME NEW p \in Procs,
              \/ ReleaseRevoked(p) \/ ReleaseSynthetic(p)
              \/ ReleaseCompleted(p) \/ ReleaseLateRevoked(p)
              \/ Revoke(p) \/ RequestRevocation(p) \/ CreateTombstone(p)
       PROVE  Kept
  BY <1>8, <1>9, <1>10, <1>11, <1>12, <1>13, <1>18
<1> QED
  BY <1>5, <1>6, <1>7, <1>14, <1>15, <1>16, <1>17, <1>18 DEF Next

\* A logout's mark stays until the row is due.
THEOREM MarkStays == Spec => RevocationHolds
<1>1. IInv /\ [Next]_vars => [RevokedStays]_vars
  <2>1. ASSUME IInv, Next, Revoked, ~row.due PROVE Revoked'
    BY <2>1, RowKept DEF Kept, Revoked
  <2> QED BY <2>1 DEF RevokedStays
<1> QED BY <1>1, Invariance, PTL DEF Spec, RevocationHolds

\* A result stays for its joiners until it is due or a logout takes it.
THEOREM ResultStaysKept == Spec => ResultIsKept
<1>1. IInv /\ [Next]_vars => [ResultStays]_vars
  <2>1. ASSUME IInv, Next, HasResult, ~row.due PROVE HasResult' \/ Revoked'
    BY <2>1, RowKept DEF Kept, HasResult
  <2> QED BY <2>1 DEF ResultStays
<1> QED BY <1>1, Invariance, PTL DEF Spec, ResultIsKept
=============================================================================
