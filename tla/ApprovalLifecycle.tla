-------------------------- MODULE ApprovalLifecycle --------------------------
(***************************************************************************)
(* A run that pauses for human review, and everybody who races for it:     *)
(* the run's owner that publishes the pause and writes the paused response *)
(* under the pause-persistence barrier, users who decide, users who stop   *)
(* the run, the expiry sweep, the store's cleanup, and the next turn.      *)
(*                                                                         *)
(* A request is a process.  Each await in the code is a step boundary: a   *)
(* process reads the job, others act, and then its compare-and-set is      *)
(* tried on whatever the job has become.  A process may crash, or lose the *)
(* reply of its last call, at any point.                                   *)
(***************************************************************************)
EXTENDS Integers, FiniteSets

CONSTANTS
    Procs,      \* requests and sweeps
    MaxGen,     \* bound: generations of the stream
    MaxActions  \* bound: pauses published on the stream

ASSUME MaxGenAssumption     == MaxGen \in Nat \ {0}
ASSUME MaxActionsAssumption == MaxActions \in Nat \ {0}

Gens     == 1..MaxGen
Actions  == 1..MaxActions
NoAction == 0
Attempts == 3       \* of the abort loop

VARIABLES
    job,        \* generation, status, pending action, pause-persistence barrier
    minted,     \* action ids handed out so far
    expired,    \* actions whose expiresAt has passed
    overdue,    \* actions whose barrier is up for PAUSE_PERSISTENCE_TIMEOUT_MS
    saved,      \* actions whose paused response is durable
    proc,       \* each process: where it is (pc), the generation it works for (at),
                \* the action it publishes, decides, expires or saw when stopping or
                \* failing (want), the status its next attempt to end the run
                \* expects (from), and the abort attempts it made (tries)
    reviewed,   \* history: actions some user decided
    resumed,    \* history: actions a run was resumed from
    lapsed,     \* history: actions an expiry aborted
    asked,      \* history: generations somebody asked to stop
    stopped     \* history: generations a stop aborted

history == <<reviewed, resumed, lapsed, asked, stopped>>
vars    == <<job, minted, expired, overdue, saved, proc, history>>

Statuses == {"absent", "running", "requires_action", "error", "aborted", "complete"}

\* The owner's way through a pause, and the states of the other requests.
Driving == {"drive", "publish", "own", "write", "release"}
PCs     == Driving \cup {"idle", "fail", "end", "resolve", "claim", "expire", "abort",
                        "stop", "restop"}

Request(l, g, a) == [pc |-> l, at |-> g, want |-> a, from |-> "running", tries |-> 0]
Rest             == Request("idle", 0, NoAction)

TypeOK ==
    /\ job \in [gen : 0..MaxGen, status : Statuses, action : 0..MaxActions, barrier : BOOLEAN]
    /\ minted \in 0..MaxActions
    /\ expired \subseteq Actions /\ overdue \subseteq Actions /\ saved \subseteq Actions
    /\ proc \in [Procs -> [pc : PCs, at : 0..MaxGen, want : 0..MaxActions,
                           from : {"running", "requires_action"}, tries : 0..Attempts]]
    /\ reviewed \subseteq Actions /\ resumed \subseteq Actions /\ lapsed \subseteq Actions
    /\ asked \subseteq Gens /\ stopped \subseteq Gens

Init ==
    /\ job = [gen |-> 0, status |-> "absent", action |-> NoAction, barrier |-> FALSE]
    /\ minted = 0
    /\ expired = {} /\ overdue = {} /\ saved = {}
    /\ proc = [p \in Procs |-> Rest]
    /\ reviewed = {} /\ resumed = {} /\ lapsed = {} /\ asked = {} /\ stopped = {}

Active == job.status \in {"running", "requires_action"}
Paused == job.status = "requires_action"

\* Mutants: a compare-and-set without its generation, without its action.
RunningAnywhere(p)  == job.status = "running"
PausedOnAnything(p) == job.gen = proc[p].at /\ Paused /\ ~job.barrier

\* The compare-and-set of a process: its generation, still running ...
RunningAt(p) == job.gen = proc[p].at /\ job.status = "running"

\* ... or still paused on its action.  While the barrier is up the flat action
\* id is the barrier's, which no decision, expiry or stop names.
PausedAt(p)  == job.gen = proc[p].at /\ Paused /\ job.action = proc[p].want /\ ~job.barrier
BarrierAt(p) == job.gen = proc[p].at /\ Paused /\ job.action = proc[p].want /\ job.barrier

Ended(st) == job' = [job EXCEPT !.status = st, !.action = NoAction, !.barrier = FALSE]

At(p, l)     == proc[p].pc = l
Become(p, r) == proc' = [proc EXCEPT ![p] = r]
Goto(p, l)   == Become(p, IF l = "idle" THEN Rest ELSE [proc[p] EXCEPT !.pc = l])

(***************************************************************************)
(* The owner: createJob, pause, ownsPausePersistence, the response write,  *)
(* finishPausePersistence; the driver of a resumed run is an owner too.    *)
(***************************************************************************)

\* A turn begins, replacing whatever the stream held; its request drives it.
CreateJob(p) ==
    /\ At(p, "idle") /\ job.gen < MaxGen
    /\ job' = [gen |-> job.gen + 1, status |-> "running", action |-> NoAction, barrier |-> FALSE]
    /\ Become(p, Request("drive", job.gen + 1, NoAction))
    /\ UNCHANGED <<minted, expired, overdue, saved, history>>

\* pause up to its read of the job: a late interrupt of a dead job is dropped.
Interrupt(p) ==
    /\ At(p, "drive") /\ minted < MaxActions
    /\ minted' = minted + 1
    /\ Become(p, IF RunningAt(p) THEN Request("publish", proc[p].at, minted + 1) ELSE Rest)
    /\ UNCHANGED <<job, expired, overdue, saved, history>>

\* pause's compare-and-set, with the deadline checked inside (notAfterMs): an
\* expired action throws and the owner goes on to its error path.
Publish(p) ==
    /\ At(p, "publish")
    /\ \/ /\ RunningAt(p) /\ proc[p].want \notin expired
          /\ job' = [job EXCEPT !.status = "requires_action", !.action = proc[p].want,
                                !.barrier = TRUE]
          /\ Goto(p, "own")
       \/ /\ RunningAt(p) /\ proc[p].want \in expired
          /\ UNCHANGED job
          /\ Become(p, Request("drive", proc[p].at, NoAction))
       \/ /\ ~RunningAt(p)
          /\ UNCHANGED job
          /\ Goto(p, "idle")
    /\ UNCHANGED <<minted, expired, overdue, saved, history>>

\* Mutant: the barrier is released before the response is written.
ReleaseFirst(p) ==
    /\ At(p, "own")
    /\ Goto(p, IF BarrierAt(p) THEN "release" ELSE "idle")
    /\ UNCHANGED <<job, minted, expired, overdue, saved, history>>

\* ownsPausePersistence.
CheckOwns(p) ==
    /\ At(p, "own")
    /\ Goto(p, IF BarrierAt(p) THEN "write" ELSE "idle")
    /\ UNCHANGED <<job, minted, expired, overdue, saved, history>>

\* The paused response is written; nothing in the write looks at the job.
SaveResponse(p) ==
    /\ At(p, "write")
    /\ saved' = saved \cup {proc[p].want}
    /\ Goto(p, "release")
    /\ UNCHANGED <<job, minted, expired, overdue, history>>

\* The write fails: failPausePersistence terminalizes from the barrier itself.
SaveFails(p) ==
    /\ At(p, "write")
    /\ IF BarrierAt(p) THEN Ended("error") ELSE UNCHANGED job
    /\ Goto(p, "idle")
    /\ UNCHANGED <<minted, expired, overdue, saved, history>>

\* finishPausePersistence; the owner's request is over, or, when the reply is
\* lost, goes on to its error path.
Release(p) ==
    /\ At(p, "release")
    /\ job' = [job EXCEPT !.barrier = @ /\ ~BarrierAt(p)]
    /\ Goto(p, "idle") \/ Become(p, Request("fail", proc[p].at, NoAction))
    /\ UNCHANGED <<minted, expired, overdue, saved, history>>

\* claimTerminalJob by the owner of a run that ends without pausing.
Finish(p) ==
    /\ At(p, "drive")
    /\ IF RunningAt(p) THEN Ended("complete") ELSE UNCHANGED job
    /\ Goto(p, "idle")
    /\ UNCHANGED <<minted, expired, overdue, saved, history>>

(***************************************************************************)
(* The owner's error path: completeJob with an error, a claim that takes   *)
(* the run as it finds it, running or paused, whoever drives it by now.    *)
(***************************************************************************)

\* waitForPausePersistence with a live barrier of p's generation: it polls
\* until the barrier is down ...
Waiting(p) == job.gen = proc[p].at /\ Paused /\ job.barrier

\* The turn throws, while it drives the run or at a call of its pause.
Fail(p) ==
    /\ proc[p].pc \in {"drive", "own", "release"}
    /\ Become(p, Request("fail", proc[p].at, NoAction))
    /\ UNCHANGED <<job, minted, expired, overdue, saved, history>>

\* claimTerminalJob's read: the status and the action its compare-and-set expects.
ReadToFail(p) ==
    /\ At(p, "fail") /\ ~Waiting(p)
    /\ Become(p, IF job.gen = proc[p].at /\ Active
                 THEN [proc[p] EXCEPT !.pc = "end", !.from = job.status, !.want = job.action]
                 ELSE Rest)
    /\ UNCHANGED <<job, minted, expired, overdue, saved, history>>

\* An attempt to end the run finds it as it was read.
AsRead(p) == IF proc[p].from = "running" THEN RunningAt(p) ELSE PausedAt(p)

End(p) ==
    /\ At(p, "end")
    /\ IF AsRead(p) THEN Ended("error") ELSE UNCHANGED job
    /\ Goto(p, "idle")
    /\ UNCHANGED <<minted, expired, overdue, saved, history>>

(***************************************************************************)
(* Decisions: the resume route and resolve.                                *)
(***************************************************************************)

\* A user decides the pending action of the job the route reads.
Decide(p) ==
    /\ At(p, "idle") /\ Paused
    /\ Become(p, Request("resolve", job.gen, job.action))
    /\ reviewed' = reviewed \cup {job.action}
    /\ UNCHANGED <<job, minted, expired, overdue, saved, resumed, lapsed, asked, stopped>>

\* ... which fails it once it is overdue.
FailStalePause(p) ==
    /\ proc[p].pc \in {"resolve", "expire", "restop", "fail"}
    /\ Waiting(p) /\ job.action \in overdue
    /\ Ended("error")
    /\ UNCHANGED <<minted, expired, overdue, saved, proc, history>>

\* What resolve makes of the job it read.
Resolve(p) ==
    /\ At(p, "resolve") /\ ~Waiting(p)
    /\ Goto(p, IF job.gen # proc[p].at \/ ~Paused THEN "idle"
               ELSE IF job.action \in expired     THEN "expire"
               ELSE "claim")
    /\ UNCHANGED <<job, minted, expired, overdue, saved, history>>

\* Mutant: a request whose action somebody else resumed drives the run, too.
ClaimTwice(p) ==
    /\ At(p, "claim")
    /\ \/ /\ PausedAt(p)
          /\ job' = [job EXCEPT !.status = "running", !.action = NoAction]
          /\ resumed' = resumed \cup {job.action}
          /\ Become(p, Request("drive", proc[p].at, NoAction))
       \/ /\ ~PausedAt(p)
          /\ UNCHANGED <<job, resumed>>
          /\ IF RunningAt(p) THEN Become(p, Request("drive", proc[p].at, NoAction))
                             ELSE Goto(p, "idle")
    /\ UNCHANGED <<minted, expired, overdue, saved, reviewed, lapsed, asked, stopped>>

\* resolve's compare-and-set: the winner drives the resumed run.
Claim(p) ==
    /\ At(p, "claim")
    /\ \/ /\ PausedAt(p)
          /\ job' = [job EXCEPT !.status = "running", !.action = NoAction]
          /\ resumed' = resumed \cup {job.action}
          /\ Become(p, Request("drive", proc[p].at, NoAction))
       \/ /\ ~PausedAt(p)
          /\ UNCHANGED <<job, resumed>>
          /\ Goto(p, "idle")
    /\ UNCHANGED <<minted, expired, overdue, saved, reviewed, lapsed, asked, stopped>>

(***************************************************************************)
(* Expiry: the sweep, the resume route, and expireWithIdentity.            *)
(***************************************************************************)

\* The sweep observes an expired action.
Sweep(p) ==
    /\ At(p, "idle") /\ Paused /\ job.action \in expired
    /\ Become(p, Request("expire", job.gen, job.action))
    /\ UNCHANGED <<job, minted, expired, overdue, saved, history>>

ReadToExpire(p) ==
    /\ At(p, "expire") /\ ~Waiting(p)
    /\ Goto(p, IF job.gen = proc[p].at /\ Paused THEN "abort" ELSE "idle")
    /\ UNCHANGED <<job, minted, expired, overdue, saved, history>>

Expire(p) ==
    /\ At(p, "abort")
    /\ \/ /\ PausedAt(p)
          /\ Ended("aborted")
          /\ lapsed' = lapsed \cup {job.action}
       \/ ~PausedAt(p) /\ UNCHANGED <<job, lapsed>>
    /\ Goto(p, "idle")
    /\ UNCHANGED <<minted, expired, overdue, saved, reviewed, resumed, asked, stopped>>

(***************************************************************************)
(* The stop route: abortJob and its retry loop.                            *)
(***************************************************************************)

AskStop(p) ==
    /\ At(p, "idle") /\ Active
    /\ Become(p, Request("restop", job.gen, NoAction))
    /\ asked' = asked \cup {job.gen}
    /\ UNCHANGED <<job, minted, expired, overdue, saved, reviewed, resumed, lapsed, stopped>>

\* The read before an attempt.  After a failed attempt the loop goes on only
\* when the job of the same generation has moved on meanwhile.
Retries(p) ==
    /\ job.gen = proc[p].at /\ Active
    /\ proc[p].tries < Attempts
    /\ \/ proc[p].tries = 0
       \/ job.status # proc[p].from
       \/ Paused /\ job.action # proc[p].want

ReadToStop(p) ==
    /\ At(p, "restop") /\ ~Waiting(p)
    /\ Become(p, IF Retries(p)
                 THEN [proc[p] EXCEPT !.pc = "stop", !.from = job.status, !.want = job.action]
                 ELSE Rest)
    /\ UNCHANGED <<job, minted, expired, overdue, saved, history>>

Stop(p) ==
    /\ At(p, "stop")
    /\ \/ /\ AsRead(p)
          /\ Ended("aborted")
          /\ stopped' = stopped \cup {job.gen}
          /\ Goto(p, "idle")
       \/ /\ ~AsRead(p)
          /\ UNCHANGED <<job, stopped>>
          /\ Become(p, [proc[p] EXCEPT !.pc = "restop", !.tries = @ + 1])
    /\ UNCHANGED <<minted, expired, overdue, saved, reviewed, resumed, lapsed, asked>>

(***************************************************************************)
(* The store's cleanup, time, and crashes.                                 *)
(***************************************************************************)

\* Mutants: cleanup leaves the barrier of an expired action to the approval's
\* expiry; it expires an approval behind its barrier.
CleanupFreshBarrier ==
    /\ Paused /\ job.barrier /\ job.action \in overdue /\ job.action \notin expired
    /\ Ended("error")
    /\ UNCHANGED <<minted, expired, overdue, saved, proc, history>>

CleanupAnyApproval ==
    /\ Paused /\ job.action \in expired
    /\ Ended("aborted")
    /\ lapsed' = lapsed \cup {job.action}
    /\ UNCHANGED <<minted, expired, overdue, saved, proc, reviewed, resumed, asked, stopped>>

\* cleanup: fail an overdue barrier, abort an expired approval.
CleanupBarrier ==
    /\ Paused /\ job.barrier /\ job.action \in overdue
    /\ Ended("error")
    /\ UNCHANGED <<minted, expired, overdue, saved, proc, history>>

CleanupApproval ==
    /\ Paused /\ ~job.barrier /\ job.action \in expired
    /\ Ended("aborted")
    /\ lapsed' = lapsed \cup {job.action}
    /\ UNCHANGED <<minted, expired, overdue, saved, proc, reviewed, resumed, asked, stopped>>

\* ... and reap a running job without activity.
ReapStale ==
    /\ job.status = "running"
    /\ Ended("absent")
    /\ UNCHANGED <<minted, expired, overdue, saved, proc, history>>

\* The in-memory store makes room for a new stream: its oldest job goes,
\* whatever its status.
Evict ==
    /\ job.status # "absent"
    /\ Ended("absent")
    /\ UNCHANGED <<minted, expired, overdue, saved, proc, history>>

Expires(a) ==
    /\ a \in 1..minted /\ a \notin expired
    /\ expired' = expired \cup {a}
    /\ UNCHANGED <<job, minted, overdue, saved, proc, history>>

BarrierOverdue ==
    /\ Paused /\ job.barrier /\ job.action \notin overdue
    /\ overdue' = overdue \cup {job.action}
    /\ UNCHANGED <<job, minted, expired, saved, proc, history>>

\* The replica dies, or the reply of the last call is lost and the request
\* throws: whatever the call did stays done.
Crash(p) ==
    /\ ~At(p, "idle")
    /\ Goto(p, "idle")
    /\ UNCHANGED <<job, minted, expired, overdue, saved, history>>

Next ==
    \/ \E p \in Procs :
         \/ CreateJob(p) \/ Interrupt(p) \/ Publish(p) \/ CheckOwns(p) \/ SaveResponse(p)
         \/ SaveFails(p) \/ Release(p) \/ Finish(p) \/ Fail(p) \/ ReadToFail(p) \/ End(p)
         \/ Decide(p) \/ FailStalePause(p) \/ Resolve(p) \/ Claim(p)
         \/ Sweep(p) \/ ReadToExpire(p) \/ Expire(p)
         \/ AskStop(p) \/ ReadToStop(p) \/ Stop(p)
         \/ Crash(p)
    \/ CleanupBarrier \/ CleanupApproval \/ ReapStale \/ Evict \/ BarrierOverdue
    \/ \E a \in Actions : Expires(a)

Spec == Init /\ [][Next]_vars

(***************************************************************************)
(* Safety.                                                                 *)
(***************************************************************************)

\* "Two approval clicks racing to resume the same job must not both drive the
\* run": at most one process drives a generation, and one that still writes
\* the paused response counts as driving it.
OneDriver ==
    \A p, q \in Procs :
        proc[p].pc \in Driving /\ proc[q].pc \in Driving /\ proc[p].at = proc[q].at => p = q

\* A run is resumed only from a pause whose response is durable: the write
\* linearizes before the decision.
ResumedWasSaved == resumed \subseteq saved

\* A run is resumed only from an action a user decided: a decision on an
\* earlier pause never approves the tool calls of a later one.
ResumedWasReviewed == resumed \subseteq reviewed

\* Only an action past its deadline is expired: a run that was resumed and
\* paused again meanwhile is not aborted by the expiry of its earlier pause.
LapsedWasExpired == lapsed \subseteq expired

\* An action has one outcome.
OneOutcome == resumed \cap lapsed = {}

\* A stop aborts a generation somebody asked to stop, never its replacement.
StoppedWasAsked == stopped \subseteq asked

\* What these rest on.  The job: only a pause has an action and a barrier, and
\* behind a barrier that is down its response is durable and it is undecided.
PauseIsConsistent ==
    /\ job.status = "absent" \/ job.gen >= 1
    /\ job.barrier => Paused
    /\ job.action <= minted /\ (job.action # NoAction <=> Paused)
    /\ Paused /\ ~job.barrier => job.action \in saved
    /\ job.action \notin resumed \cup lapsed
    /\ reviewed \cup expired \subseteq 1..minted

\* Only the owner a job has is in step with it; owners of generations that were
\* replaced, stopped or expired may be anywhere.
InStep(p) ==
    /\ proc[p].at <= job.gen
    /\ proc[p].pc \in Driving /\ proc[p].at = job.gen =>
         /\ job.status = "running" => proc[p].pc \in {"drive", "publish"}
         /\ Paused => /\ job.barrier
                      /\ proc[p].pc \in {"own", "write", "release"}
                      /\ proc[p].want = job.action

\* What a request is about to do, it has a reason for.  An expiry may have read
\* its reason off a later pause; then its own is over for good.
Backed(p) ==
    /\ proc[p].want <= minted
    /\ proc[p].pc = "release" => proc[p].want \in saved
    /\ proc[p].pc \in {"resolve", "claim"} => proc[p].want \in reviewed
    /\ proc[p].pc \in {"expire", "abort"} => proc[p].want \in expired \/ job.action # proc[p].want
    /\ proc[p].pc \in {"own", "write", "release", "expire", "abort"} => proc[p].want # NoAction
    /\ proc[p].pc \in {"stop", "restop"} => proc[p].at \in asked
    /\ proc[p].pc = "stop" => proc[p].tries < Attempts

\* An action that is not published yet nobody else knows.
Fresh(p) ==
    proc[p].pc = "publish" =>
        /\ proc[p].want \notin {NoAction, job.action} \cup reviewed \cup resumed \cup lapsed
        /\ \A q \in Procs \ {p} : proc[q].want # proc[p].want

IInv == /\ TypeOK /\ OneDriver /\ OneOutcome
        /\ ResumedWasSaved /\ ResumedWasReviewed /\ LapsedWasExpired /\ StoppedWasAsked
        /\ PauseIsConsistent
        /\ \A p \in Procs : InStep(p) /\ Backed(p) /\ Fresh(p)

\* While a pause writer is within its lease, its generation leaves the pause
\* through that writer only: neither decision, expiry, stop, error nor cleanup
\* wins.  Only an eviction, which deletes the job, does not ask for the barrier.
BarrierHolds ==
    /\ job.barrier /\ job.action \notin overdue
    /\ job'.gen = job.gen /\ job' # job /\ job'.status # "absent"
    => \E p \in Procs : /\ proc[p].pc \in {"write", "release"}
                        /\ proc'[p].pc \in {"idle", "fail"}
                        /\ proc[p].at = job.gen /\ proc[p].want = job.action
BarrierIsExclusive == [][BarrierHolds]_vars

\* resolve answers false for an action that "had expired", and moves it to a
\* terminal state "instead of resumed".  It does not hold: the deadline may pass
\* between the read and the compare-and-set (README, section 4).
ResumesBeforeDeadline == \A a \in resumed' \ resumed : a \notin expired
NeverResumedLate == [][ResumesBeforeDeadline]_vars

\* A late error "emits nothing" once the pause has won; it does not hold: the
\* error claim takes a run that somebody resumed, or its next pause (README,
\* section 4).
EndsItsOwn ==
    \A p, q \in Procs :
        At(p, "end") /\ job'.status = "error" /\ job.status = "running" =>
            ~(q # p /\ proc[q].pc \in Driving /\ proc[q].at = job.gen)
LateErrorIsNothing == [][EndsItsOwn]_vars

(***************************************************************************)
(* Liveness.                                                               *)
(***************************************************************************)

\* Deadlines pass and the cleanup interval runs; no process is fair.
Fairness ==
    /\ WF_vars(BarrierOverdue) /\ WF_vars(CleanupBarrier) /\ WF_vars(CleanupApproval)
    /\ \A a \in Actions : WF_vars(Expires(a))

FairSpec == Spec /\ Fairness

\* No run stays paused on an action for ever, whoever crashes.
EveryPauseEnds ==
    \A a \in Actions : Paused /\ job.action = a ~> ~(Paused /\ job.action = a)
=============================================================================
