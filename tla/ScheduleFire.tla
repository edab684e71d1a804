---------------------------- MODULE ScheduleFire ----------------------------
(***************************************************************************)
(* One schedule and the runs of its occurrences: replicas claim it when it *)
(* is due, its owner clicks "run now", and each claim walks through        *)
(* fireSchedule: preflight, reservation of the run row, a last             *)
(* revalidation, the hand-over to the trigger queue, and the advance to    *)
(* the next due time.  Around it the owner edits or deletes the schedule,  *)
(* an account deletion suspends and restores it, leases run out, runs      *)
(* settle and the erasure of drained schedules looks at its rows.          *)
(*                                                                         *)
(* Schedule and runs are MongoDB documents.  Every action is one           *)
(* single-document operation, or a read and the decision it is taken for;  *)
(* whatever else happens, happens between two of them.                     *)
(***************************************************************************)
EXTENDS Integers, FiniteSets

CONSTANTS
    Worker,      \* calls of fireSchedule, one at a time each
    Nobody,      \* no lease holder, no claim, no reservation
    MaxDue,      \* bound: due times the clock reaches
    MaxClicks,   \* bound: manual runs
    MaxEdits,    \* bound: owner edits
    MaxSuspends, \* bound: account deletions that are begun
    MaxChanges,  \* bound: manual runs, edits and deletions begun, together
    Watched      \* bound: the occurrences the sweep of orphans comes to

ASSUME NobodyAssumption == Nobody \notin Worker
ASSUME BoundsAssumption == /\ MaxDue \in Nat \ {0} /\ MaxClicks \in Nat
                           /\ MaxEdits \in Nat     /\ MaxSuspends \in Nat
                           /\ MaxChanges \in Nat

\* An occurrence is a due time, or the time of a click, which is never due.
Due   == 1..MaxDue
Click == (MaxDue + 1)..(MaxDue + MaxClicks)
Occ   == Due \cup Click
Unset == 0

VARIABLES
    sched,    \* the schedule document, see TypeOK
    runs,     \* the run documents, one for each occurrence
    proc,     \* each worker: where it is (pc), the occurrence, the agent and
              \* the configRevision it claimed, the due time it will advance
              \* to, and whether it decided not to fire (skips)
    eraser,   \* eraseScheduleIfDrained, and whether it began on a deleted
              \* schedule (teardown)
    suspend,  \* the account deletion: pc, and the snapshot it restores
    live,     \* occurrences whose delivery or generation is under way
    running,  \* those of them whose generation has begun: it has a job
    sweep,    \* how far a sweep has come with an occurrence's row
    late,     \* history: occurrences that began since the sweep found no job
    clock,    \* the last due time that has passed
    grace,    \* the last due time that is too old to be fired
    clicks, edits, suspends,    \* how often each has happened; edits is the
                                \* schedule's configRevision
    tries,    \* history: calls of enqueueTrigger for an occurrence, up to 2
    fired,    \* the agents an occurrence has a durable delivery for
    wiped,    \* history: occurrences whose row was erased
    wanted    \* history: the owner's last word on enabled

store == <<sched, runs>>
hist  == <<tries, fired, wiped, wanted>>
time  == <<clock, grace>>
count == <<clicks, edits, suspends>>
sweeps == <<sweep, late>>
vars  == <<store, proc, eraser, suspend, live, running, sweeps, time, count, hist>>

\* The bound on what the owner asks for; the fires, sweeps and deletes go on.
MayChange == clicks + edits + suspends < MaxChanges

PCs      == {"idle", "preflight", "unfunded", "overlap", "book", "reserve",
             "recheck", "rollback", "dispatch", "advance", "giveup"}
Reserved == {"recheck", "rollback", "dispatch"}  \* a row, and no delivery yet
Leases   == {"none", "live", "margin", "over"}  \* margin: expired by less than the skew
Active   == {"started", "paused"}
Editions == 0..MaxEdits                   \* agents, and configRevisions
Skipped  == {"unfunded", "overlap"}
Statuses == Active \cup Skipped \cup {"absent", "swept", "settled"}

TypeOK ==
    /\ sched \in [next     : 0..(MaxDue + 1),       \* nextRunAt
                  enabled  : BOOLEAN,
                  agent    : Editions,                \* agent_id
                  deleting : {"no", "marked", "erased"},
                  token    : Worker \cup {Nobody},  \* whose claimToken it is
                  holder   : Worker \cup {Nobody},  \* leaseBy
                  lease    : Leases]                \* leaseUntil
    /\ runs \in [Occ -> [status : Statuses,
                         by   : Worker \cup {Nobody},
                         rev  : Editions,           \* configRevision
                         owes : BOOLEAN]]           \* ~bookkept
    /\ proc \in [Worker -> [pc : PCs, occ : Occ \cup {Unset}, agent : Editions,
                            rev : Editions, to : 0..(MaxDue + 1), skips : BOOLEAN]]
    /\ eraser \in [pc : {"idle", "asked", "unleased", "drained", "wiped"},
                   teardown : BOOLEAN]
    /\ suspend \in [pc : {"idle", "read", "held"}, enabled : BOOLEAN,
                    next : 0..(MaxDue + 1)]
    /\ live \subseteq Occ /\ running \subseteq live
    /\ sweep \in [Occ -> {"none", "jobless", "orphan"}] /\ late \subseteq Occ
    /\ clock \in 0..MaxDue /\ grace \in 0..clock
    /\ clicks \in 0..MaxClicks /\ edits \in 0..MaxEdits /\ suspends \in 0..MaxSuspends
    /\ tries \in [Occ -> 0..2] /\ fired \in [Occ -> SUBSET Editions]
    /\ wiped \subseteq Occ /\ wanted \in BOOLEAN

Idle   == [pc |-> "idle", occ |-> Unset, agent |-> 0, rev |-> 0, to |-> Unset,
           skips |-> FALSE]
Asleep == [pc |-> "idle", teardown |-> FALSE]
NoHold == [pc |-> "idle", enabled |-> FALSE, next |-> Unset]
NoRun  == [status |-> "absent", by |-> Nobody, rev |-> 0, owes |-> FALSE]

\* createScheduleWithSlot inserts the row unarmed; arming is a second write.
Init ==
    /\ sched = [next |-> Unset, enabled |-> TRUE, agent |-> 0, deleting |-> "no",
                token |-> Nobody, holder |-> Nobody, lease |-> "none"]
    /\ runs = [o \in Occ |-> NoRun]
    /\ proc = [w \in Worker |-> Idle]
    /\ eraser = Asleep /\ suspend = NoHold
    /\ live = {} /\ running = {} /\ late = {}
    /\ sweep = [o \in Occ |-> "none"]
    /\ clock = 0 /\ grace = 0
    /\ clicks = 0 /\ edits = 0 /\ suspends = 0
    /\ tries = [o \in Occ |-> 0] /\ fired = [o \in Occ |-> {}]
    /\ wiped = {} /\ wanted = TRUE

-----------------------------------------------------------------------------
(* The parts of the schedule document. *)

Freed(s)    == [s EXCEPT !.lease = "none", !.holder = Nobody]
Rotated(s)  == [s EXCEPT !.token = Nobody]
Disabled(s) == [Freed(s) EXCEPT !.enabled = FALSE]

LeaseFree == sched.lease \in {"none", "over"}

\* Mutant: a release that does not look whose lease it is.
HoldsAnything(w) == TRUE
HoldsLease(w)    == sched.holder = w

\* The due time that has come is too old to be fired.
\* Mutant: without the misfire grace.
NeverMisfired == FALSE
Misfired == sched.next <= grace

Taken(w)  == [sched EXCEPT !.token = w, !.holder = w, !.lease = "live"]
Manual(w) == proc[w].occ \in Click
At(w, l)  == proc[w].pc = l
Goto(w, l) ==
    proc' = [proc EXCEPT ![w] = IF l = "idle" THEN Idle ELSE [@ EXCEPT !.pc = l]]
Skip(w, l) == proc' = [proc EXCEPT ![w].pc = l, ![w].skips = TRUE]

\* Whether w may still act for the schedule it claimed.
RevalidateClaim(w) ==
    /\ sched.token = w /\ sched.deleting = "no" /\ sched.lease = "live"
    /\ Manual(w) \/ sched.enabled

\* How fireSchedule steps aside, and how it leaves an occurrence to a retry: a
\* manual run always releases its lease, which is what its advance does.
Aside(w)   == IF Manual(w) THEN "advance" ELSE "giveup"
\* Mutant: an occurrence that could not be fired is passed over.
BackoffAdvances(w) == "advance"
Backoff(w) == IF Manual(w) THEN "advance" ELSE "idle"

\* What the bookkeeping of a row does to the schedule: the failure or the skip
\* may be one too many.  The streaks that decide are left out; the decision is
\* read before it is written, so that it may come late.  The write is fenced on
\* the revision of the row, and not on a claim.
Booked(rev) == IF rev = edits THEN {sched, Disabled(sched)} ELSE {sched}

\* recordRunOutcome: an active row is settled, its bookkeeping follows, or is
\* left to the reconciler.
Settled(o, s, owes) ==
    [runs EXCEPT ![o] = IF @.status \in Active
                        THEN [@ EXCEPT !.status = s, !.by = Nobody, !.owes = owes]
                        ELSE @]
Outcome(o) ==
    /\ \E owes \in BOOLEAN : runs' = Settled(o, "settled", owes)
    /\ sched' \in IF runs[o].status \in Active THEN Booked(runs[o].rev) ELSE {sched}

\* Mutant: the occurrence index covers started rows only.
DuplicateOfStarted(o) == runs[o].status = "started"
Duplicate(o)    == runs[o] # NoRun
OtherStarted(o) == \E q \in Occ \ {o} : runs[q].status = "started"

-----------------------------------------------------------------------------
(* Claims. *)

ExceptFire  == UNCHANGED <<eraser, suspend, live, running, sweeps, time, count, hist>>

\* A replica's tick claims the schedule when it is due.  An occurrence past the
\* misfire grace is passed over without being fired.
ClaimDueSchedule(w) ==
    /\ At(w, "idle")
    /\ sched.enabled /\ sched.deleting = "no" /\ LeaseFree
    /\ sched.next \in 1..clock
    /\ sched' = Taken(w)
    /\ proc' = [proc EXCEPT ![w] = [pc    |-> IF Misfired THEN "advance" ELSE "preflight",
                                    occ   |-> sched.next,
                                    agent |-> sched.agent,
                                    rev   |-> edits,
                                    to    |-> clock + 1,
                                    skips |-> Misfired]]
    /\ UNCHANGED runs
    /\ ExceptFire

\* The owner clicks "run now": an occurrence of its own, of an enabled or a
\* disabled schedule.
AcquireManualRunLease(w) ==
    /\ At(w, "idle")
    /\ clicks < MaxClicks /\ MayChange
    /\ sched.deleting = "no" /\ LeaseFree
    /\ sched' = Taken(w)
    /\ clicks' = clicks + 1
    /\ proc' = [proc EXCEPT ![w] = [pc |-> "preflight", occ |-> MaxDue + clicks',
                                    agent |-> sched.agent, rev |-> edits,
                                    to |-> Unset, skips |-> FALSE]]
    /\ UNCHANGED <<runs, eraser, suspend, live, running, sweeps, time, edits, suspends, hist>>

-----------------------------------------------------------------------------
(* fireSchedule. *)

\* The owner's policy refuses the occurrence, with or without disabling the
\* schedule; the disable is fenced on the claim.
RefuseByPolicy(w) ==
    /\ At(w, "preflight")
    /\ \/ sched' = sched
       \/ sched' = IF sched.token = w THEN Disabled(sched) ELSE sched
    /\ Skip(w, "advance")
    /\ UNCHANGED runs
    /\ ExceptFire

\* Out of balance: the skip is recorded only under a claim that still holds.
OutOfBalance(w) ==
    /\ At(w, "preflight")
    /\ IF RevalidateClaim(w) THEN Skip(w, "unfunded") ELSE Goto(w, Aside(w))
    /\ UNCHANGED store
    /\ ExceptFire

\* The preflight is through; the process may be shutting down.
Preflighted(w) ==
    /\ At(w, "preflight")
    /\ \/ RevalidateClaim(w) /\ Goto(w, "reserve")
       \/ Goto(w, Aside(w))
    /\ UNCHANGED store
    /\ ExceptFire

\* recordSkippedRun inserts a row of its own kind and goes on to its bookkeeping;
\* a row of another kind stays what it is.  The bookkeeping of an overlap only
\* resets a streak.  A store call may throw.
RecordSkippedRun(w) ==
    /\ proc[w].pc \in Skipped
    /\ LET o == proc[w].occ  s == proc[w].pc
       IN  /\ runs' = [runs EXCEPT ![o] =
                           IF @ = NoRun
                           THEN [@ EXCEPT !.status = s, !.rev = proc[w].rev,
                                          !.owes = (s = "unfunded")]
                           ELSE @]
           /\ \/ s = "unfunded" /\ runs'[o].status = s
                 /\ proc' = [proc EXCEPT ![w].pc = "book", ![w].rev = runs'[o].rev]
              \/ ~(s = "unfunded" /\ runs'[o].status = s) /\ Goto(w, "advance")
              \/ Goto(w, "idle")
    /\ UNCHANGED sched
    /\ ExceptFire

\* applyBalanceSkipBookkeeping: its disable looks at the row's revision only,
\* whoever has the claim by now.
BookSkippedRun(w) ==
    /\ At(w, "book")
    /\ sched' \in Booked(proc[w].rev)
    /\ \/ /\ runs' = [runs EXCEPT ![proc[w].occ].owes = FALSE]
          /\ Goto(w, "advance")
       \/ /\ UNCHANGED runs
          /\ Goto(w, "idle")
    /\ ExceptFire

Reservation(w) == [status |-> "started", by |-> w, rev |-> proc[w].rev, owes |-> FALSE]

\* reserveStartedRun: two unique indexes arbitrate, one row for an occurrence
\* and one started row for a schedule.
ReserveStartedRun(w) ==
    /\ At(w, "reserve")
    /\ LET o == proc[w].occ
       IN  \/ /\ ~Duplicate(o) /\ ~OtherStarted(o)
              /\ runs' = [runs EXCEPT ![o] = Reservation(w)]
              /\ Goto(w, "recheck")
           \/ /\ ~Duplicate(o) /\ OtherStarted(o)
              /\ UNCHANGED runs
              /\ Skip(w, "overlap")
           \/ /\ Duplicate(o) /\ runs[o].status \in Active
              /\ UNCHANGED runs
              /\ Goto(w, Backoff(w))
           \/ /\ Duplicate(o) /\ runs[o].status \notin Active
              /\ UNCHANGED runs
              /\ Goto(w, "advance")
    /\ UNCHANGED sched
    /\ ExceptFire

\* The last check before the point of no return; again, a shutdown may show.
Recheck(w) ==
    /\ At(w, "recheck")
    /\ \/ RevalidateClaim(w) /\ Goto(w, "dispatch")
       \/ Goto(w, "rollback")
    /\ UNCHANGED store
    /\ ExceptFire

\* deleteScheduleRun, fenced on the conversation this fire generated.
RollbackReservation(w) ==
    /\ At(w, "rollback")
    /\ LET o == proc[w].occ
       IN  runs' = [runs EXCEPT ![o] =
                       IF @.status = "started" /\ @.by = w THEN NoRun ELSE @]
    /\ Goto(w, Aside(w))
    /\ UNCHANGED sched
    /\ ExceptFire

\* No slot of the global capacity, attachments that cannot be resolved, a store
\* call that throws: the occurrence stays due, and an automatic claim keeps its
\* lease as backoff.
LeaveForRetry(w) ==
    /\ proc[w].pc \in {"preflight", "reserve", "recheck", "rollback"}
    /\ Goto(w, Backoff(w))
    /\ UNCHANGED store
    /\ ExceptFire

Tried(o) == [tries EXCEPT ![o] = IF @ = 2 THEN 2 ELSE @ + 1]

\* The trigger queue takes the occurrence, or may have: enqueueTrigger can fail
\* before or after it has committed.  The delivery's key names the occurrence
\* and the agent: under a key it knows, the queue takes nothing.
Dispatch(w) ==
    /\ At(w, "dispatch")
    /\ LET o == proc[w].occ  a == proc[w].agent
       IN  /\ \/ UNCHANGED <<live, fired>>
              \/ /\ a \notin fired[o]
                 /\ live' = live \cup {o}
                 /\ fired' = [fired EXCEPT ![o] = @ \cup {a}]
           /\ tries' = Tried(o)
    /\ Goto(w, "advance")
    /\ UNCHANGED <<store, eraser, suspend, running, sweeps, time, count, wiped, wanted>>

\* It rejects the occurrence: the run ends in an error, unless that cannot be
\* recorded, or not all of it.
DispatchRejected(w) ==
    /\ At(w, "dispatch")
    /\ LET o == proc[w].occ
       IN  /\ tries' = Tried(o)
           /\ \/ /\ Outcome(o)
                 /\ Goto(w, "advance")
              \/ /\ Outcome(o) \/ UNCHANGED store
                 /\ Goto(w, Backoff(w))
    /\ UNCHANGED <<eraser, suspend, live, running, sweeps, time, count, fired, wiped, wanted>>

\* A manual run releases its lease by its token; any other moves the schedule
\* on from the occurrence it claimed, by its token too.
\* Mutant: the advance is fenced on the due time, not on the claim.
AdvanceUnfenced(w) == sched.next = proc[w].occ
ReleaseLease(w)    == sched.token = w
AdvanceSchedule(w) == sched.token = w /\ sched.next = proc[w].occ

Advance(w) ==
    /\ At(w, "advance")
    /\ \/ /\ Manual(w) /\ ReleaseLease(w)
          /\ sched' = Freed(sched)
          /\ Goto(w, "idle")
       \/ /\ ~Manual(w) /\ AdvanceSchedule(w)
          /\ sched' = [Freed(sched) EXCEPT !.next = proc[w].to]
          /\ Goto(w, "idle")
       \/ /\ IF Manual(w) THEN ~ReleaseLease(w) ELSE ~AdvanceSchedule(w)
          /\ UNCHANGED sched
          /\ Goto(w, "giveup")
       \/ /\ UNCHANGED sched    \* the store call throws
          /\ Goto(w, "idle")
    /\ UNCHANGED runs
    /\ ExceptFire

\* A claim that was superseded takes its own lease away, not its successor's.
ReleaseLeaseByHolder(w) ==
    /\ At(w, "giveup")
    /\ sched' = IF HoldsLease(w) THEN Freed(sched) ELSE sched
    /\ Goto(w, "idle")
    /\ UNCHANGED runs
    /\ ExceptFire

Crash(w) ==
    /\ ~At(w, "idle")
    /\ Goto(w, "idle")
    /\ UNCHANGED store
    /\ ExceptFire

Fire(w) ==
    \/ RefuseByPolicy(w) \/ OutOfBalance(w) \/ Preflighted(w)
    \/ RecordSkippedRun(w) \/ BookSkippedRun(w) \/ ReserveStartedRun(w)
    \/ Recheck(w) \/ RollbackReservation(w) \/ LeaveForRetry(w)
    \/ Dispatch(w) \/ DispatchRejected(w)
    \/ Advance(w) \/ ReleaseLeaseByHolder(w)

-----------------------------------------------------------------------------
(* The owner, and an account deletion that is called off again. *)

ExceptOwner == UNCHANGED <<runs, proc, eraser, live, running, sweeps, time, clicks>>

\* A PATCH.  It computes the next due time from a clock it read before its
\* write lands, which is fenced on the configuration only.
Edit ==
    /\ edits < MaxEdits /\ MayChange
    /\ edits' = edits + 1
    /\ sched.deleting = "no"
    /\ \E on, retime, other \in BOOLEAN, now \in {clock - 1, clock} \cap Nat :
         /\ sched.enabled # on => retime
         /\ wanted' = IF on = sched.enabled THEN wanted ELSE on
         /\ sched' = [Rotated(sched) EXCEPT
                         !.enabled = on,
                         !.agent = IF other THEN edits' ELSE @,
                         !.next = IF on /\ (retime \/ @ = Unset) THEN now + 1 ELSE @]
    /\ UNCHANGED <<suspend, suspends, tries, fired, wiped>>
    /\ ExceptOwner

\* The reconciler arms a schedule that is enabled and has no next due time.
ArmSchedule ==
    /\ sched.enabled /\ sched.deleting = "no" /\ sched.next = Unset
    /\ \E now \in {clock - 1, clock} \cap Nat : sched' = [sched EXCEPT !.next = now + 1]
    /\ UNCHANGED <<suspend, edits, suspends, hist>>
    /\ ExceptOwner

\* The lease is kept: a fire under way goes on holding it while it unwinds.
MarkScheduleDeleting ==
    /\ sched.deleting = "no"
    /\ sched' = [Rotated(sched) EXCEPT !.deleting = "marked", !.enabled = FALSE,
                                       !.next = Unset]
    /\ UNCHANGED <<suspend, edits, suspends, hist>>
    /\ ExceptOwner

\* suspendUserSchedulesForDeletion reads the schedules, then writes them.
SuspendRead ==
    /\ suspend.pc = "idle" /\ suspends < MaxSuspends /\ MayChange
    /\ sched.deleting = "no"
    /\ suspend' = [pc |-> "read", enabled |-> sched.enabled, next |-> sched.next]
    /\ suspends' = suspends + 1
    /\ UNCHANGED <<sched, edits, hist>>
    /\ ExceptOwner

SuspendWrite ==
    /\ suspend.pc = "read"
    /\ sched.deleting = "no"
    /\ sched' = [Rotated(sched) EXCEPT !.enabled = FALSE, !.next = Unset]
    /\ suspend' = [suspend EXCEPT !.pc = "held"]
    /\ UNCHANGED <<edits, suspends, hist>>
    /\ ExceptOwner

\* restoreUserSchedulesFromDeletion.
Restore ==
    /\ suspend.pc = "held"
    /\ sched.deleting = "no"
    /\ sched' = [Rotated(sched) EXCEPT !.enabled = suspend.enabled, !.next = suspend.next]
    /\ suspend' = NoHold
    /\ UNCHANGED <<edits, suspends, hist>>
    /\ ExceptOwner

-----------------------------------------------------------------------------
(* Runs, and the erasure of their rows. *)

ExceptRun   == UNCHANGED <<proc, suspend, time, count, tries, fired, wanted>>
ExceptSweep == UNCHANGED <<sched, live, running, eraser, wiped>> /\ ExceptRun

\* The delivery reaches the chat route, which makes the job; a refusal there is
\* an outcome.
Start(o) ==
    /\ o \in live \ running
    /\ running' = running \cup {o}
    /\ late' = IF sweep[o] # "none" THEN late \cup {o} ELSE late
    /\ UNCHANGED <<store, live, sweep, eraser, wiped>>
    /\ ExceptRun

\* The completion hook: the run settles, and whichever schedule it is, its
\* erasure is tried.
RecordScheduleOutcome(o) ==
    /\ o \in running
    /\ live' = live \ {o} /\ running' = running \ {o}
    /\ late' = late \ {o}
    /\ Outcome(o)
    /\ eraser' = IF eraser.pc = "idle" THEN [Asleep EXCEPT !.pc = "asked"] ELSE eraser
    /\ UNCHANGED <<sweep, wiped>>
    /\ ExceptRun

\* The hook is lost; the reconciler settles the run from the retained job, or
\* from a delivery that died.
ReconcileRetained(o) ==
    /\ o \in live
    /\ live' = live \ {o} /\ running' = running \ {o}
    /\ late' = late \ {o}
    /\ Outcome(o)
    /\ UNCHANGED <<sweep, eraser, wiped>>
    /\ ExceptRun

\* finalizeBookkeeping: the reconciler comes back to a row whose bookkeeping did
\* not land.  An overlap or an interruption has none that matters here.
FinalizeBookkeeping(o) ==
    /\ runs[o].owes /\ runs[o].status \notin Active \cup {"absent"}
    /\ sched' \in Booked(runs[o].rev)
    /\ runs' \in {runs, [runs EXCEPT ![o].owes = FALSE]}
    /\ UNCHANGED <<live, running, sweeps, eraser, wiped>>
    /\ ExceptRun

\* A run that has neither job nor delivery is interrupted after 30 minutes: it
\* is past the grace by then, and no fire stays that long between its reservation
\* and its dispatch.  The sweep looks for the job, later for the delivery, and
\* settles the row later still, if it is active then.
\* Mutant: not of a deleted schedule.
OrphanUnlessDeleted(o) ==
    /\ runs[o].status \in Active /\ sched.deleting = "no"
    /\ o \notin running
    /\ o \in Due => o <= grace

Orphan(o) ==
    /\ runs[o].status \in Active
    /\ o \notin running
    /\ o \in Due => o <= grace

LookForJob(o) ==
    /\ o \in Watched /\ sweep[o] = "none"
    /\ Orphan(o)
    /\ \A w \in Worker : ~(proc[w].occ = o /\ proc[w].pc \in Reserved)
    /\ sweep' = [sweep EXCEPT ![o] = "jobless"]
    /\ UNCHANGED <<runs, late>>
    /\ ExceptSweep

\* A delivery that waits, or is leased, is left alone.  One whose generation has
\* just begun may have succeeded.  The sweep of deleted schedules does not look.
\* Mutant: nor does any other.
Unasked(o) == TRUE
DeliveryGone(o) == o \notin live \/ o \in running \/ sched.deleting # "no"

LookForDelivery(o) ==
    /\ sweep[o] = "jobless"
    /\ \/ /\ DeliveryGone(o)
          /\ sweep' = [sweep EXCEPT ![o] = "orphan"]
          /\ UNCHANGED late
       \/ /\ o \in live
          /\ sweep' = [sweep EXCEPT ![o] = "none"]
          /\ late' = late \ {o}
    /\ UNCHANGED runs
    /\ ExceptSweep

SettleOrphan(o) ==
    /\ sweep[o] = "orphan"
    /\ runs' = Settled(o, "swept", FALSE)
    /\ sweep' = [sweep EXCEPT ![o] = "none"]
    /\ UNCHANGED late
    /\ ExceptSweep

Sweep(o) == LookForJob(o) \/ LookForDelivery(o) \/ SettleOrphan(o)

\* A run pauses for an approval and goes on: paused, it lets others start.
Pause(o) ==
    /\ o \in running /\ runs[o].status = "started"
    /\ runs' = [runs EXCEPT ![o] = [@ EXCEPT !.status = "paused", !.by = Nobody]]
    /\ UNCHANGED <<sched, live, running, sweeps, eraser, wiped>>
    /\ ExceptRun

MarkRunResumeClaimed(o) ==
    /\ o \in running /\ runs[o].status = "paused"
    /\ ~OtherStarted(o)
    /\ runs' = [runs EXCEPT ![o].status = "started"]
    /\ UNCHANGED <<sched, live, running, sweeps, eraser, wiped>>
    /\ ExceptRun

\* The reconciler, and the delete route, come back to a deleted schedule.
SweepDeleting ==
    /\ sched.deleting = "marked" /\ eraser.pc = "idle"
    /\ eraser' = [Asleep EXCEPT !.pc = "asked"]
    /\ UNCHANGED <<store, live, running, sweeps, wiped>>
    /\ ExceptRun

\* eraseScheduleIfDrained: is it leased, a question put to deleted schedules
\* only; has it an active run; then the rows go, then the schedule.
EraseUnlessLeased ==
    /\ eraser.pc = "asked"
    /\ LET teardown == sched.deleting = "marked"
       IN  eraser' = IF teardown /\ ~LeaseFree
                     THEN Asleep
                     ELSE [pc |-> "unleased", teardown |-> teardown]
    /\ UNCHANGED <<store, live, running, sweeps, wiped>>
    /\ ExceptRun

\* Mutant: a paused run does not count as active.
DrainedOfStarted == \A o \in Occ : runs[o].status # "started"
Drained == \A o \in Occ : runs[o].status \notin Active

EraseUnlessActive ==
    /\ eraser.pc = "unleased"
    /\ eraser' = IF ~Drained
                 THEN Asleep
                 ELSE [eraser EXCEPT !.pc = "drained"]
    /\ UNCHANGED <<store, live, running, sweeps, wiped>>
    /\ ExceptRun

EraseRuns ==
    /\ eraser.pc = "drained"
    /\ runs' = [o \in Occ |-> NoRun]
    /\ wiped' = wiped \cup {o \in Occ : runs[o] # NoRun}
    /\ eraser' = [eraser EXCEPT !.pc = "wiped"]
    /\ UNCHANGED <<sched, live, running, sweeps>>
    /\ ExceptRun

EraseSchedule ==
    /\ eraser.pc = "wiped"
    /\ sched' = IF sched.deleting = "marked"
                THEN [Freed(sched) EXCEPT !.deleting = "erased"]
                ELSE sched
    /\ eraser' = Asleep
    /\ UNCHANGED <<runs, live, running, sweeps, wiped>>
    /\ ExceptRun

EraseFails ==
    /\ eraser.pc # "idle"
    /\ eraser' = Asleep
    /\ UNCHANGED <<store, live, running, sweeps, wiped>>
    /\ ExceptRun

-----------------------------------------------------------------------------
(* Time. *)

ExceptTime == UNCHANGED <<runs, proc, eraser, suspend, live, running, sweeps, count, hist>>

Tick        == /\ clock < MaxDue
               /\ clock' = clock + 1
               /\ UNCHANGED <<sched, grace>>
               /\ ExceptTime
GraceEnds   == /\ grace < clock
               /\ grace' = grace + 1
               /\ UNCHANGED <<sched, clock>>
               /\ ExceptTime
LeaseLapses == /\ sched.lease = "live"
               /\ sched' = [sched EXCEPT !.lease = "margin"]
               /\ UNCHANGED time
               /\ ExceptTime
MarginEnds  == /\ sched.lease = "margin"
               /\ sched' = [sched EXCEPT !.lease = "over"]
               /\ UNCHANGED time
               /\ ExceptTime

-----------------------------------------------------------------------------

Next ==
    \/ \E w \in Worker : ClaimDueSchedule(w) \/ AcquireManualRunLease(w) \/ Fire(w) \/ Crash(w)
    \/ Edit \/ ArmSchedule \/ MarkScheduleDeleting
    \/ SuspendRead \/ SuspendWrite \/ Restore
    \/ \E o \in Occ : \/ Start(o) \/ RecordScheduleOutcome(o) \/ ReconcileRetained(o)
                      \/ FinalizeBookkeeping(o) \/ Sweep(o)
                      \/ Pause(o) \/ MarkRunResumeClaimed(o)
    \/ SweepDeleting
    \/ EraseUnlessLeased \/ EraseUnlessActive \/ EraseRuns \/ EraseSchedule \/ EraseFails
    \/ Tick \/ GraceEnds \/ LeaseLapses \/ MarginEnds

Spec == Init /\ [][Next]_vars

\* A replica goes on claiming what is due, and does not fail at the same step
\* of it each time; a fire comes to an end; what a deadline has been set for
\* happens; a generation ends, and the reconciler comes round and gets through.
Advanced(w) == Advance(w) /\ sched'.next # sched.next
Fairness ==
    /\ \A w \in Worker : /\ SF_vars(ClaimDueSchedule(w)) /\ SF_vars(Advanced(w))
                        /\ WF_vars(Fire(w) \/ Crash(w))
    /\ WF_vars(GraceEnds) /\ WF_vars(LeaseLapses) /\ WF_vars(MarginEnds)
    /\ \A o \in Occ : /\ WF_vars(RecordScheduleOutcome(o) \/ ReconcileRetained(o))
                     /\ WF_vars(Sweep(o))
    /\ WF_vars(SweepDeleting)
    /\ SF_vars(EraseUnlessLeased) /\ SF_vars(EraseUnlessActive)
    /\ SF_vars(EraseRuns) /\ SF_vars(EraseSchedule)
FairSpec == Spec /\ Fairness

-----------------------------------------------------------------------------
(* Properties. *)

\* "it can never fire one twice": an occurrence has one delivery at most.  It
\* does not hold when the rows of a live schedule are erased (README, section 4).
FiredOnce == \A o \in Occ : Cardinality(fired[o]) <= 1

\* As long as the row, the durable claim, is there, the queue is not even asked
\* a second time.
FiredOncePerRow == \A o \in Occ \ wiped : tries[o] <= 1

\* What makes it hold: whoever is between its reservation and its delivery has
\* its own row and has not tried; what has been tried has a row; nothing is under
\* way untried; and what a sweep has come to has a row that nobody reserves.
Claimed     == \A w \in Worker : ~At(w, "idle") => proc[w].occ \in Occ
OwnRow      == \A w \in Worker : LET o == proc[w].occ
                                 IN  proc[w].pc \in Reserved /\ o \notin wiped =>
                                       /\ runs[o] = Reservation(w)
                                       /\ tries[o] = 0
TriedHasRow == \A o \in Occ \ wiped : tries[o] > 0 => runs[o].status # "absent"
AliveIsTried == \A o \in live : tries[o] > 0
SweptHasRow == \A o \in Occ \ wiped : sweep[o] # "none" =>
                 /\ runs[o].status # "absent"
                 /\ \A w \in Worker : ~(proc[w].occ = o /\ proc[w].pc \in Reserved)
IInv == /\ TypeOK /\ Claimed /\ OwnRow /\ TriedHasRow /\ AliveIsTried
        /\ SweptHasRow /\ FiredOncePerRow

\* A live generation's evidence is never destroyed out from under it: while its
\* delivery or generation is under way, a run that was reserved has a row.
\* It does not hold (README, section 4).
EvidenceKept == \A o \in live : runs[o].status # "absent"

\* No run is settled, and so out of the way of the next, while its delivery or
\* generation is under way, but by a sweep that had found no job, whose generation
\* has begun since then or whose schedule is deleted: a delivery that is deferred,
\* however long, does not lose its run to the sweep (README, section 4).
SettledIsOver ==
    \A o \in live \ wiped :
        \/ runs[o].status \in Active
        \/ runs[o].status = "swept" /\ (o \in late \/ sched.deleting # "no")

\* The erasure of a deleted schedule never gets as far as the rows while a run is
\* under way, unless a sweep has interrupted it or its row has been erased before.
TeardownIsDrained ==
    eraser.pc = "drained" /\ eraser.teardown =>
        \A o \in live \ wiped : runs[o].status = "swept"

\* A worker that moves the schedule on from an occurrence has fired it, or
\* decided not to, or found it skipped or interrupted (or its row erased).
Passes(w) == At(w, "advance") /\ sched'.next # sched.next /\ proc'[w] # proc[w]
Excused(w) == LET o == proc[w].occ
              IN  \/ tries[o] > 0 \/ proc[w].skips
                  \/ runs[o].status \in Skipped \cup {"swept"} \/ o \in wiped
NoneLost == [][\A w \in Worker : Passes(w) => Excused(w)]_vars

\* A fire whose claim was superseded, by an edit, a deletion or a takeover,
\* changes nothing of the schedule but its own lease, unless what it books is one
\* skip or failure too many: then it turns the schedule off, and takes the lease of
\* its successor with it, as long as the owner has not edited what was claimed.
Steps(w) == ~At(w, "idle") /\ proc'[w] # proc[w]
Books(w) == /\ At(w, "dispatch") \/ At(w, "book")
            /\ proc[w].rev = edits \/ proc[w].occ \in wiped
SupersededIsHarmless ==
    [][\A w \in Worker : Steps(w) /\ sched.token # w =>
          \/ sched' = sched
          \/ sched.holder = w /\ sched' = Freed(sched)
          \/ Books(w) /\ sched' = Disabled(sched)]_vars

\* Nobody's lease is taken away by another's release: it ends by its holder's
\* step, by a disable, or with the schedule.
LeaseIsOnesOwn ==
    [][\A w \in Worker : sched.holder = w /\ sched'.holder # w =>
          \/ proc'[w] # proc[w]
          \/ sched'.holder = Nobody /\ ~sched'.enabled
          \/ sched'.holder # Nobody /\ sched.lease = "over"]_vars

\* "edited out from under the read is left alone": a schedule its owner has
\* turned off while an account deletion was under way stays off.  It does not
\* hold (README, section 4).
OffStaysOff == sched.enabled => wanted

\* No schedule is stuck at an occurrence, whatever became of it: it moves on, is
\* turned off or is deleted.
Stands(o) == sched.enabled /\ sched.deleting = "no" /\ sched.next = o /\ o <= clock
NeverStuck == \A o \in Due : Stands(o) ~> ~Stands(o)

\* A deleted schedule is erased in the end, once its fire has let go of its
\* lease and its runs have settled.
TeardownEnds == sched.deleting = "marked" ~> sched.deleting = "erased"
=============================================================================
