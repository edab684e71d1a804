---------------------- MODULE ApprovalLifecycle_proofs ----------------------
(***************************************************************************)
(* The safety of a paused run for every number of requests, generations    *)
(* and pauses.  IInv is inductive; a step changes the job in one of a few  *)
(* ways and at most one request, so there is one lemma for what the other  *)
(* requests keep (OthersKeep), one that puts a step together from its      *)
(* parts (StepKeeps), and then one lemma per group of actions.             *)
(***************************************************************************)
EXTENDS ApprovalLifecycle, TLAPS

USE MaxGenAssumption, MaxActionsAssumption

JobType  == [gen : 0..MaxGen, status : Statuses, action : 0..MaxActions, barrier : BOOLEAN]
ProcType == [Procs -> [pc : PCs, at : 0..MaxGen, want : 0..MaxActions,
                       from : {"running", "requires_action"}, tries : 0..Attempts]]
HistoryType == /\ minted \in 0..MaxActions
               /\ expired \subseteq Actions /\ overdue \subseteq Actions /\ saved \subseteq Actions
               /\ reviewed \subseteq Actions /\ resumed \subseteq Actions /\ lapsed \subseteq Actions
               /\ asked \subseteq Gens /\ stopped \subseteq Gens

\* The type invariant, part by part.
LEMMA Types == TypeOK <=> job \in JobType /\ proc \in ProcType /\ HistoryType
BY DEF TypeOK, JobType, ProcType, HistoryType

\* Nothing runs in the beginning.
LEMMA InitKeeps == Init => IInv
<1> SUFFICES ASSUME Init PROVE IInv
  OBVIOUS
<1>1. /\ job \in JobType /\ job.gen = 0 /\ job.status = "absent" /\ job.action = NoAction
      /\ job.barrier = FALSE
  BY DEF Init, JobType, Statuses, NoAction
<1>2. /\ proc \in ProcType
      /\ \A p \in Procs : proc[p].pc = "idle" /\ proc[p].at = 0 /\ proc[p].want = NoAction
  BY DEF Init, ProcType, PCs, Driving, Rest, Request, NoAction, Attempts
<1>3. HistoryType
  BY DEF Init, HistoryType, Actions, Gens
<1>4. OneDriver
  BY <1>2 DEF OneDriver, Driving
<1>5. PauseIsConsistent
  BY <1>1 DEF Init, PauseIsConsistent, Paused, NoAction
<1>6. \A p \in Procs : InStep(p) /\ Backed(p) /\ Fresh(p)
  BY <1>1, <1>2 DEF Init, InStep, Backed, Fresh, Driving, NoAction
<1> QED BY <1>1, <1>2, <1>3, <1>4, <1>5, <1>6, Types
        DEF Init, IInv, OneOutcome, ResumedWasSaved, ResumedWasReviewed, LapsedWasExpired,
            StoppedWasAsked

(***************************************************************************)
(* What the updates do, field by field.                                    *)
(***************************************************************************)

\* A job that has ended holds neither action nor barrier.
LEMMA EndedFacts ==
  ASSUME job \in JobType, NEW st \in Statuses, Ended(st)
  PROVE  /\ job' \in JobType /\ job'.gen = job.gen /\ job'.status = st
         /\ job'.action = NoAction /\ job'.barrier = FALSE
<1>1. NoAction \in 0..MaxActions
  BY DEF NoAction
<1>2. job' = [job EXCEPT !.status = st, !.action = NoAction, !.barrier = FALSE]
  BY DEF Ended
<1>3. job' \in JobType
  BY <1>1, <1>2 DEF JobType
<1> QED BY <1>1, <1>2, <1>3 DEF JobType

\* One request changes, the others stay.
LEMMA BecomeFacts ==
  ASSUME proc \in ProcType, NEW p \in Procs, NEW r, Become(p, r),
         r \in [pc : PCs, at : 0..MaxGen, want : 0..MaxActions,
                from : {"running", "requires_action"}, tries : 0..Attempts]
  PROVE  /\ proc' \in ProcType /\ proc'[p] = r
         /\ \A q \in Procs \ {p} : proc'[q] = proc[q]
BY DEF Become, ProcType

\* A new request.
LEMMA RequestFacts ==
  ASSUME proc \in ProcType, NEW p \in Procs, NEW l \in PCs, NEW g \in 0..MaxGen,
         NEW a \in 0..MaxActions, Become(p, Request(l, g, a))
  PROVE  /\ proc' \in ProcType
         /\ proc'[p].pc = l /\ proc'[p].at = g /\ proc'[p].want = a
         /\ \A q \in Procs \ {p} : proc'[q] = proc[q]
BY BecomeFacts DEF Request, Attempts

\* A request comes to rest.
LEMMA RestFacts ==
  ASSUME proc \in ProcType, NEW p \in Procs, Become(p, Rest)
  PROVE  /\ proc' \in ProcType
         /\ proc'[p].pc = "idle" /\ proc'[p].at = 0 /\ proc'[p].want = NoAction
         /\ \A q \in Procs \ {p} : proc'[q] = proc[q]
<1>1. "idle" \in PCs /\ 0 \in 0..MaxGen /\ NoAction \in 0..MaxActions
  BY DEF PCs, NoAction
<1>2. Become(p, Request("idle", 0, NoAction))
  BY DEF Rest
<1> QED BY <1>1, <1>2, RequestFacts

\* A request goes on.
LEMMA GotoFacts ==
  ASSUME proc \in ProcType, NEW p \in Procs, NEW l \in PCs \ {"idle"}, Goto(p, l)
  PROVE  /\ proc' \in ProcType
         /\ proc'[p].pc = l /\ proc'[p].at = proc[p].at /\ proc'[p].want = proc[p].want
         /\ proc'[p].tries = proc[p].tries
         /\ \A q \in Procs \ {p} : proc'[q] = proc[q]
BY DEF Goto, Become, ProcType

\* A request ends.
LEMMA GotoIdleFacts ==
  ASSUME proc \in ProcType, NEW p \in Procs, Goto(p, "idle")
  PROVE  /\ proc' \in ProcType
         /\ proc'[p].pc = "idle" /\ proc'[p].at = 0 /\ proc'[p].want = NoAction
         /\ \A q \in Procs \ {p} : proc'[q] = proc[q]
BY RestFacts DEF Goto

(***************************************************************************)
(* A step, put together from its parts.                                    *)
(***************************************************************************)

\* The part of the invariant that is not about requests.
JobInv == /\ OneOutcome /\ ResumedWasSaved /\ ResumedWasReviewed
          /\ LapsedWasExpired /\ StoppedWasAsked /\ PauseIsConsistent

LEMMA InvParts ==
  IInv <=> /\ job \in JobType /\ proc \in ProcType /\ HistoryType
           /\ OneDriver /\ JobInv
           /\ \A p \in Procs : InStep(p) /\ Backed(p) /\ Fresh(p)
BY Types DEF IInv, JobInv

\* What no step undoes; decisions and outcomes concern the job's action only.
Grows ==
    /\ job.gen <= job'.gen /\ minted <= minted'
    /\ expired \subseteq expired' /\ saved \subseteq saved' /\ asked \subseteq asked'
    /\ reviewed \subseteq reviewed'
    /\ reviewed' \cup resumed' \cup lapsed'
         \subseteq reviewed \cup resumed \cup lapsed \cup {job.action}

\* A request that does not move keeps its part of the invariant when it does
\* not drive the changed job, and neither the job nor another request takes an
\* action it publishes or expires.
LEMMA OtherKeeps ==
  ASSUME IInv, NEW q \in Procs, job' \in JobType, HistoryType', Grows,
         proc'[q] = proc[q],
         job' = job \/ ~Active' \/ proc[q].pc \notin Driving \/ proc[q].at # job'.gen,
         job'.action \in {NoAction, job.action} \/ job'.action # proc[q].want,
         proc[q].pc = "publish" => \A r \in Procs \ {q} : proc'[r].want # proc[q].want
  PROVE  InStep(q)' /\ Backed(q)' /\ Fresh(q)'
<1>1. /\ job \in JobType /\ proc \in ProcType /\ HistoryType
      /\ InStep(q) /\ Backed(q) /\ Fresh(q)
  BY InvParts
<1>2. /\ job.gen \in Nat /\ job'.gen \in Nat /\ proc[q].at \in Nat /\ proc[q].want \in Nat
      /\ minted \in Nat /\ minted' \in Nat
  BY <1>1 DEF JobType, ProcType, HistoryType
<1>3. proc[q].at <= job'.gen /\ proc[q].want <= minted'
  BY <1>1, <1>2 DEF InStep, Backed, Grows
<1>4. InStep(q)'
  BY <1>1, <1>3 DEF InStep, Active, Paused
<1>5. Backed(q)'
  BY <1>1, <1>3 DEF Backed, Grows
<1>6. Fresh(q)'
  BY <1>1 DEF Fresh, Grows
<1> QED BY <1>4, <1>5, <1>6

\* A step of request p.
LEMMA RequestStep ==
  ASSUME IInv, NEW p \in Procs, job' \in JobType, proc' \in ProcType, HistoryType', Grows,
         \A q \in Procs \ {p} : proc'[q] = proc[q],
         JobInv', InStep(p)', Backed(p)', Fresh(p)',
         proc'[p].pc \in Driving =>
           \/ proc[p].pc \in Driving /\ proc[p].at = proc'[p].at
           \/ \A q \in Procs \ {p} : proc[q].pc \notin Driving \/ proc[q].at # proc'[p].at,
         \/ job' = job
         \/ ~Active'
         \/ \A q \in Procs \ {p} : proc[q].pc \notin Driving \/ proc[q].at # job'.gen,
         \/ job'.action \in {NoAction, job.action}
         \/ \A q \in Procs \ {p} : job'.action # proc[q].want,
         \A q \in Procs \ {p} : proc[q].pc = "publish" => proc'[p].want # proc[q].want
  PROVE  IInv'
<1>1. /\ OneDriver /\ proc \in ProcType
      /\ \A q \in Procs : Fresh(q)
  BY InvParts
<1>2. OneDriver'
  BY <1>1 DEF OneDriver
<1>3. ASSUME NEW q \in Procs, q # p PROVE InStep(q)' /\ Backed(q)' /\ Fresh(q)'
  <2>1. proc[q].pc = "publish" => \A r \in Procs \ {q} : proc'[r].want # proc[q].want
    BY <1>1, <1>3 DEF Fresh
  <2>2. proc'[q] = proc[q]
    BY <1>3
  <2> QED BY <1>3, <2>1, <2>2, OtherKeeps
<1>4. TypeOK'
  BY DEF TypeOK, JobType, ProcType, HistoryType
<1> QED BY <1>2, <1>3, <1>4 DEF IInv, JobInv

\* A step of a request that leaves the job alone.
LEMMA QuietStep ==
  ASSUME IInv, NEW p \in Procs, job' = job, proc' \in ProcType, HistoryType', Grows,
         resumed' = resumed, lapsed' = lapsed, stopped' = stopped,
         reviewed' \cup expired' \subseteq 1..minted',
         \A q \in Procs \ {p} : proc'[q] = proc[q],
         InStep(p)', Backed(p)', Fresh(p)',
         proc'[p].pc \in Driving => proc[p].pc \in Driving /\ proc[p].at = proc'[p].at,
         \A q \in Procs \ {p} : proc[q].pc = "publish" => proc'[p].want # proc[q].want
  PROVE  IInv'
<1>1. job \in JobType /\ JobInv /\ HistoryType
  BY InvParts
<1>2. minted \in Nat /\ minted' \in Nat /\ job.action \in Nat
  BY <1>1 DEF HistoryType, JobType
<1>3. JobInv'
  BY <1>1, <1>2 DEF JobInv, OneOutcome, ResumedWasSaved, ResumedWasReviewed, LapsedWasExpired,
                    StoppedWasAsked, PauseIsConsistent, Paused, Grows
<1> QED BY <1>1, <1>3, RequestStep

\* The same, without anything to remember.
LEMMA SilentStep ==
  ASSUME IInv, NEW p \in Procs, UNCHANGED <<job, minted, expired, overdue, saved, history>>,
         proc' \in ProcType,
         \A q \in Procs \ {p} : proc'[q] = proc[q],
         InStep(p)', Backed(p)', Fresh(p)',
         proc'[p].pc \in Driving => proc[p].pc \in Driving /\ proc[p].at = proc'[p].at,
         \A q \in Procs \ {p} : proc[q].pc = "publish" => proc'[p].want # proc[q].want
  PROVE  IInv'
<1>1. HistoryType /\ JobInv /\ job \in JobType
  BY InvParts
<1>2. HistoryType' /\ Grows /\ reviewed' \cup expired' \subseteq 1..minted'
  BY <1>1 DEF HistoryType, history, Grows, JobInv, PauseIsConsistent, JobType
<1> QED BY <1>2, QuietStep DEF history

\* A job that has ended keeps its part of the invariant.
LEMMA EndedJob ==
  ASSUME IInv, NEW st \in Statuses \ {"running", "requires_action"}, Ended(st),
         UNCHANGED <<minted, expired, overdue, saved, reviewed, resumed, asked>>,
         st # "absent" => job.status # "absent",
         \/ lapsed' = lapsed
         \/ lapsed' = lapsed \cup {job.action} /\ Paused /\ job.action \in expired,
         \/ stopped' = stopped
         \/ stopped' = stopped \cup {job.gen} /\ job.gen \in asked
  PROVE  job' \in JobType /\ HistoryType' /\ Grows /\ JobInv' /\ ~Active'
         /\ job'.action = NoAction /\ job'.gen = job.gen
<1>1. job \in JobType /\ JobInv /\ HistoryType
  BY InvParts
<1>2. /\ job' \in JobType /\ job'.gen = job.gen /\ job'.status = st
      /\ job'.action = NoAction /\ job'.barrier = FALSE
  BY <1>1, EndedFacts
<1>3. HistoryType'
  BY <1>1 DEF HistoryType
<1>4. Grows
  BY <1>1, <1>2 DEF Grows, HistoryType, JobType
<1>5. PauseIsConsistent'
  <2>1. job'.status = "absent" \/ job'.gen >= 1
    BY <1>1, <1>2 DEF JobInv, PauseIsConsistent
  <2>2. job'.barrier = FALSE /\ ~Paused' /\ job'.action = 0
    BY <1>2 DEF Paused, NoAction
  <2>3. 0 <= minted
    BY <1>1 DEF HistoryType
  <2>4. 0 \notin resumed' \cup lapsed'
    <3>1. 0 \notin resumed /\ 0 \notin lapsed /\ 0 \notin expired
      BY <1>1 DEF HistoryType, Actions
    <3> QED BY <3>1
  <2>5. reviewed' \cup expired' \subseteq 1..minted'
    BY <1>1 DEF JobInv, PauseIsConsistent
  <2> QED BY <2>1, <2>2, <2>3, <2>4, <2>5 DEF PauseIsConsistent, NoAction
<1>6. OneOutcome' /\ LapsedWasExpired' /\ StoppedWasAsked' /\ ResumedWasSaved' /\ ResumedWasReviewed'
  BY <1>1 DEF JobInv, OneOutcome, LapsedWasExpired, StoppedWasAsked, ResumedWasSaved,
              ResumedWasReviewed, PauseIsConsistent
<1> QED BY <1>2, <1>3, <1>4, <1>5, <1>6 DEF JobInv, Active

(***************************************************************************)
(* One lemma per group of actions.                                         *)
(***************************************************************************)

\* What the steps need of the invariant.
LEMMA InvTypes ==
  ASSUME IInv
  PROVE  /\ job \in JobType /\ proc \in ProcType /\ HistoryType /\ JobInv
         /\ \A p \in Procs : InStep(p) /\ Backed(p) /\ Fresh(p)
         /\ MaxGen \in Nat /\ MaxActions \in Nat
BY InvParts

\* A request at rest needs no part of the invariant.
LEMMA IdleIsSound ==
  ASSUME NEW p \in Procs, job' \in JobType, HistoryType',
         proc'[p].pc = "idle", proc'[p].at = 0, proc'[p].want = NoAction
  PROVE  InStep(p)' /\ Backed(p)' /\ Fresh(p)'
BY DEF InStep, Backed, Fresh, Driving, NoAction, JobType, HistoryType

\* A request that comes to rest without touching anything, as by a crash or
\* after a compare-and-set that missed.
LEMMA GivesUp ==
  ASSUME IInv, NEW p \in Procs, UNCHANGED <<job, minted, expired, overdue, saved, history>>,
         Goto(p, "idle")
  PROVE  IInv'
<1>1. job \in JobType /\ proc \in ProcType /\ HistoryType /\ \A q \in Procs : Fresh(q)
  BY InvTypes
<1>2. /\ proc' \in ProcType
      /\ proc'[p].pc = "idle" /\ proc'[p].at = 0 /\ proc'[p].want = NoAction
      /\ \A q \in Procs \ {p} : proc'[q] = proc[q]
  BY <1>1, GotoIdleFacts
<1>3. HistoryType'
  BY <1>1 DEF HistoryType, history
<1>4. InStep(p)' /\ Backed(p)' /\ Fresh(p)'
  BY <1>1, <1>2, <1>3, IdleIsSound
<1>5. \A q \in Procs \ {p} : proc[q].pc = "publish" => proc'[p].want # proc[q].want
  BY <1>1, <1>2 DEF Fresh
<1> QED BY <1>2, <1>4, <1>5, SilentStep DEF Driving

\* A request that ends the job and comes to rest, or goes back to its loop.
LEMMA EndsJob ==
  ASSUME IInv, NEW p \in Procs, NEW st \in Statuses \ {"running", "requires_action", "absent"},
         Ended(st), job.status # "absent",
         UNCHANGED <<minted, expired, overdue, saved, reviewed, resumed, asked>>,
         \/ lapsed' = lapsed
         \/ lapsed' = lapsed \cup {job.action} /\ Paused /\ job.action \in expired,
         \/ stopped' = stopped
         \/ stopped' = stopped \cup {job.gen} /\ job.gen \in asked,
         Goto(p, "idle")
  PROVE  IInv'
<1>1. job \in JobType /\ proc \in ProcType /\ HistoryType /\ \A q \in Procs : Fresh(q)
  BY InvTypes
<1>2. /\ proc' \in ProcType
      /\ proc'[p].pc = "idle" /\ proc'[p].at = 0 /\ proc'[p].want = NoAction
      /\ \A q \in Procs \ {p} : proc'[q] = proc[q]
  BY <1>1, GotoIdleFacts
<1>3. job' \in JobType /\ HistoryType' /\ Grows /\ JobInv' /\ ~Active' /\ job'.action = NoAction
  BY EndedJob
<1>4. InStep(p)' /\ Backed(p)' /\ Fresh(p)'
  BY <1>2, <1>3, IdleIsSound
<1>5. \A q \in Procs \ {p} : proc[q].pc = "publish" => proc'[p].want # proc[q].want
  BY <1>1, <1>2 DEF Fresh
<1> QED BY <1>2, <1>3, <1>4, <1>5, RequestStep DEF Driving

\* The same by the timers, or by a request that does not move.
LEMMA JobEnds ==
  ASSUME IInv, NEW st \in Statuses \ {"running", "requires_action"}, Ended(st),
         st # "absent" => job.status # "absent",
         UNCHANGED <<minted, expired, overdue, saved, proc, reviewed, resumed, asked, stopped>>,
         \/ lapsed' = lapsed
         \/ lapsed' = lapsed \cup {job.action} /\ Paused /\ job.action \in expired
  PROVE  IInv'
<1>1. proc \in ProcType /\ OneDriver /\ \A q \in Procs : Fresh(q)
  BY InvParts
<1>2. job' \in JobType /\ HistoryType' /\ Grows /\ JobInv' /\ ~Active' /\ job'.action = NoAction
  BY EndedJob
<1>3. ASSUME NEW q \in Procs PROVE InStep(q)' /\ Backed(q)' /\ Fresh(q)'
  <2>1. proc[q].pc = "publish" => \A r \in Procs \ {q} : proc'[r].want # proc[q].want
    BY <1>1 DEF Fresh
  <2> QED BY <1>2, <2>1, OtherKeeps
<1>4. OneDriver'
  BY <1>1 DEF OneDriver
<1>5. TypeOK'
  BY <1>1, <1>2 DEF TypeOK, JobType, ProcType, HistoryType
<1> QED BY <1>2, <1>3, <1>4, <1>5 DEF IInv, JobInv

\* The failed write, the end of a run, its error, the expiry, the timers and
\* the eviction end a job that is there.
LEMMA EndingKeeps ==
  ASSUME IInv,
         \/ \E p \in Procs : \/ SaveFails(p) \/ Finish(p) \/ End(p) \/ Expire(p)
                             \/ FailStalePause(p)
         \/ CleanupBarrier \/ CleanupApproval \/ ReapStale \/ Evict
  PROVE  IInv'
<1>1. \A p \in Procs : Backed(p)
  BY InvTypes
<1>2. ASSUME NEW p \in Procs, SaveFails(p) PROVE IInv'
  <2>1. CASE BarrierAt(p)
    <3>1. Ended("error") /\ Goto(p, "idle") /\ job.status # "absent"
          /\ UNCHANGED <<minted, expired, overdue, saved, history>>
      BY <1>2, <2>1 DEF SaveFails, BarrierAt, Paused
    <3>2. "error" \in Statuses \ {"running", "requires_action", "absent"}
      BY DEF Statuses
    <3> QED BY <3>1, <3>2, EndsJob DEF history
  <2>2. CASE ~BarrierAt(p)
    BY <1>2, <2>2, GivesUp DEF SaveFails
  <2> QED BY <2>1, <2>2
<1>3. ASSUME NEW p \in Procs, Finish(p) PROVE IInv'
  <2>1. CASE RunningAt(p)
    <3>1. Ended("complete") /\ Goto(p, "idle") /\ job.status # "absent"
          /\ UNCHANGED <<minted, expired, overdue, saved, history>>
      BY <1>3, <2>1 DEF Finish, RunningAt
    <3>2. "complete" \in Statuses \ {"running", "requires_action", "absent"}
      BY DEF Statuses
    <3> QED BY <3>1, <3>2, EndsJob DEF history
  <2>2. CASE ~RunningAt(p)
    BY <1>3, <2>2, GivesUp DEF Finish
  <2> QED BY <2>1, <2>2
<1>4. ASSUME NEW p \in Procs, Expire(p) PROVE IInv'
  <2>1. CASE PausedAt(p)
    <3>1. Ended("aborted") /\ lapsed' = lapsed \cup {job.action} /\ Goto(p, "idle")
          /\ UNCHANGED <<minted, expired, overdue, saved, reviewed, resumed, asked, stopped>>
      BY <1>4, <2>1 DEF Expire
    <3>2. Paused /\ job.status # "absent" /\ job.action \in expired
      BY <1>1, <1>4, <2>1 DEF Expire, PausedAt, Paused, Backed, At
    <3>3. "aborted" \in Statuses \ {"running", "requires_action", "absent"}
      BY DEF Statuses
    <3> QED BY <3>1, <3>2, <3>3, EndsJob
  <2>2. CASE ~PausedAt(p)
    BY <1>4, <2>2, GivesUp DEF Expire, history
  <2> QED BY <2>1, <2>2
<1>5. ASSUME NEW p \in Procs, FailStalePause(p) PROVE IInv'
  BY <1>5, JobEnds DEF FailStalePause, Waiting, Paused, history, Statuses
<1>6. CASE CleanupBarrier \/ CleanupApproval \/ ReapStale \/ Evict
  BY <1>6, JobEnds
  DEF CleanupBarrier, CleanupApproval, ReapStale, Evict, Paused, history, Statuses
<1>7. ASSUME NEW p \in Procs, End(p) PROVE IInv'
  <2>1. CASE AsRead(p)
    <3>1. Ended("error") /\ Goto(p, "idle") /\ job.status # "absent"
          /\ UNCHANGED <<minted, expired, overdue, saved, history>>
      BY <1>7, <2>1 DEF End, AsRead, RunningAt, PausedAt, Paused
    <3>2. "error" \in Statuses \ {"running", "requires_action", "absent"}
      BY DEF Statuses
    <3> QED BY <3>1, <3>2, EndsJob DEF history
  <2>2. CASE ~AsRead(p)
    BY <1>7, <2>2, GivesUp DEF End
  <2> QED BY <2>1, <2>2
<1> QED BY <1>2, <1>3, <1>4, <1>5, <1>6, <1>7

\* Time passes for an action.
LEMMA TimeKeeps ==
  ASSUME IInv, BarrierOverdue \/ \E a \in Actions : Expires(a)
  PROVE  IInv'
<1>1. /\ job \in JobType /\ HistoryType /\ proc \in ProcType /\ OneDriver /\ JobInv
      /\ \A q \in Procs : InStep(q) /\ Backed(q) /\ Fresh(q)
  BY InvParts
<1>2. UNCHANGED <<job, minted, saved, proc, history>> /\ expired \subseteq expired'
  BY DEF BarrierOverdue, Expires
<1>3. HistoryType' /\ expired' \subseteq expired \cup 1..minted
  <2>1. CASE BarrierOverdue
    <3>1. job.action \in Actions
      BY <1>1, <2>1 DEF BarrierOverdue, JobInv, PauseIsConsistent, JobType, Actions, NoAction
    <3> QED BY <1>1, <1>2, <2>1, <3>1 DEF BarrierOverdue, HistoryType, history
  <2>2. ASSUME NEW a \in Actions, Expires(a) PROVE HistoryType' /\ expired' \subseteq expired \cup 1..minted
    BY <1>1, <1>2, <2>2 DEF Expires, HistoryType, history
  <2> QED BY <2>1, <2>2
<1>4. Grows
  BY <1>1, <1>2 DEF Grows, history, JobType, HistoryType
<1>5. JobInv'
  BY <1>1, <1>2, <1>3 DEF JobInv, OneOutcome, ResumedWasSaved, ResumedWasReviewed, LapsedWasExpired,
                          StoppedWasAsked, PauseIsConsistent, Paused, history
<1>6. ASSUME NEW q \in Procs PROVE InStep(q)' /\ Backed(q)' /\ Fresh(q)'
  <2>1. proc[q].pc = "publish" => \A r \in Procs \ {q} : proc'[r].want # proc[q].want
    BY <1>1, <1>2 DEF Fresh
  <2> QED BY <1>1, <1>2, <1>3, <1>4, <2>1, OtherKeeps
<1>7. OneDriver'
  BY <1>1, <1>2 DEF OneDriver
<1>8. TypeOK'
  BY <1>1, <1>2, <1>3 DEF TypeOK, JobType, ProcType, HistoryType
<1> QED BY <1>5, <1>6, <1>7, <1>8 DEF IInv, JobInv

\* A request with a new action, generation and place, and the job untouched.
LEMMA NewRequest ==
  ASSUME IInv, NEW p \in Procs, NEW l, NEW g \in 0..MaxGen, NEW a \in 0..MaxActions,
         Become(p, Request(l, g, a)),
         UNCHANGED <<job, minted, expired, overdue, saved, resumed, lapsed, stopped>>,
         reviewed' = reviewed \/ (reviewed' = reviewed \cup {job.action} /\ Paused),
         asked' = asked \/ (asked' = asked \cup {job.gen} /\ Active),
         g <= job.gen, a = NoAction \/ a = job.action,
         \/ l = "resolve" /\ a \in reviewed'
         \/ l = "expire" /\ a \in expired /\ a # NoAction
         \/ l = "restop" /\ g \in asked'
  PROVE  IInv'
<1>1. /\ job \in JobType /\ HistoryType /\ proc \in ProcType /\ JobInv
      /\ \A q \in Procs : Fresh(q)
  BY InvTypes
<1>2. /\ proc' \in ProcType
      /\ proc'[p].pc = l /\ proc'[p].at = g /\ proc'[p].want = a /\ proc'[p].tries = 0
      /\ \A q \in Procs \ {p} : proc'[q] = proc[q]
  <2>1. Request(l, g, a) \in [pc : PCs, at : 0..MaxGen, want : 0..MaxActions,
                              from : {"running", "requires_action"}, tries : 0..Attempts]
    BY DEF Request, PCs, Attempts
  <2> QED BY <1>1, <2>1, BecomeFacts DEF Request
<1>3. Paused => job.action \in Actions /\ job.action <= minted
  BY <1>1 DEF JobInv, PauseIsConsistent, JobType, Actions, NoAction
<1>4. Active => job.gen \in Gens
  BY <1>1 DEF JobInv, PauseIsConsistent, JobType, Gens, Active
<1>5. HistoryType'
  BY <1>1, <1>3, <1>4 DEF HistoryType
<1>6. Grows
  BY <1>1 DEF Grows, JobType, HistoryType
<1>7. reviewed' \cup expired' \subseteq 1..minted'
  <2>1. reviewed \cup expired \subseteq 1..minted
    BY <1>1 DEF JobInv, PauseIsConsistent
  <2>2. Paused => job.action \in 1..minted
    BY <1>1, <1>3 DEF Actions, HistoryType
  <2> QED BY <2>1, <2>2
<1>8. InStep(p)'
  BY <1>2 DEF InStep, Driving
<1>9. Backed(p)'
  <2>1. a <= minted
    BY <1>1, <1>3 DEF JobInv, PauseIsConsistent, HistoryType, NoAction
  <2> QED BY <1>2, <2>1 DEF Backed
<1>10. Fresh(p)'
  BY <1>2 DEF Fresh
<1>11. \A q \in Procs \ {p} : proc[q].pc = "publish" => proc'[p].want # proc[q].want
  BY <1>1, <1>2 DEF Fresh
<1>12. proc'[p].pc \notin Driving
  BY <1>2 DEF Driving
<1> QED BY <1>1, <1>2, <1>5, <1>6, <1>7, <1>8, <1>9, <1>10, <1>11, <1>12, QuietStep

\* Users decide and stop, the sweep finds an expired action.
LEMMA RequestsKeep ==
  ASSUME IInv, NEW p \in Procs, Decide(p) \/ Sweep(p) \/ AskStop(p)
  PROVE  IInv'
<1>1. /\ job \in JobType /\ JobInv
      /\ job.gen \in 0..MaxGen /\ job.action \in 0..MaxActions /\ job.gen <= job.gen
  BY InvTypes DEF JobType
<1>2. Paused => job.action # NoAction
  BY <1>1 DEF JobInv, PauseIsConsistent
<1>3. NoAction \in 0..MaxActions
  BY InvTypes DEF NoAction
<1>4. job.action \in reviewed \cup {job.action} /\ job.gen \in asked \cup {job.gen}
  OBVIOUS
<1>5. CASE Decide(p)
  <2>1. /\ Become(p, Request("resolve", job.gen, job.action)) /\ Paused
        /\ reviewed' = reviewed \cup {job.action}
        /\ UNCHANGED <<job, minted, expired, overdue, saved, resumed, lapsed, asked, stopped>>
    BY <1>5 DEF Decide
  <2> QED BY <1>1, <1>4, <2>1, NewRequest
<1>6. CASE Sweep(p)
  <2>1. /\ Become(p, Request("expire", job.gen, job.action)) /\ Paused /\ job.action \in expired
        /\ UNCHANGED <<job, minted, expired, overdue, saved, history>>
    BY <1>6 DEF Sweep
  <2> QED BY <1>1, <1>2, <2>1, NewRequest DEF history
<1>7. CASE AskStop(p)
  <2>1. /\ Become(p, Request("restop", job.gen, NoAction)) /\ Active
        /\ asked' = asked \cup {job.gen}
        /\ UNCHANGED <<job, minted, expired, overdue, saved, reviewed, resumed, lapsed, stopped>>
    BY <1>7 DEF AskStop
  <2> QED BY <1>1, <1>3, <1>4, <2>1, NewRequest
<1> QED BY <1>5, <1>6, <1>7

\* A request that keeps its generation and action and only goes on.
LEMMA GoesOn ==
  ASSUME IInv, NEW p \in Procs, NEW l \in PCs \ {"idle", "publish"}, Goto(p, l),
         UNCHANGED <<job, minted, expired, overdue, history>>,
         saved' \subseteq Actions, saved \subseteq saved',
         l \in Driving => /\ proc[p].pc \in Driving
                          /\ proc[p].at = job.gen =>
                               /\ job.status = "running" => l = "drive"
                               /\ Paused => job.barrier /\ l # "drive" /\ proc[p].want = job.action,
         l = "release" => proc[p].want \in saved',
         l \in {"resolve", "claim"} => proc[p].want \in reviewed,
         l \in {"expire", "abort"} =>
           proc[p].want # NoAction /\ (proc[p].want \in expired \/ job.action # proc[p].want),
         l \in {"own", "write", "release"} => proc[p].want # NoAction,
         l \in {"stop", "restop"} => proc[p].at \in asked,
         l # "stop"
  PROVE  IInv'
<1>1. /\ job \in JobType /\ HistoryType /\ proc \in ProcType /\ JobInv
      /\ \A q \in Procs : InStep(q) /\ Backed(q) /\ Fresh(q)
  BY InvTypes
<1>2. /\ proc' \in ProcType
      /\ proc'[p].pc = l /\ proc'[p].at = proc[p].at /\ proc'[p].want = proc[p].want
      /\ \A q \in Procs \ {p} : proc'[q] = proc[q]
  BY <1>1, GotoFacts
<1>3. HistoryType'
  BY <1>1 DEF HistoryType, history
<1>4. Grows
  BY <1>1 DEF Grows, JobType, HistoryType, history
<1>5. reviewed' \cup expired' \subseteq 1..minted'
  BY <1>1 DEF JobInv, PauseIsConsistent, history
<1>6. InStep(p)'
  BY <1>1, <1>2 DEF InStep, Paused, Driving, PCs
<1>7. Backed(p)'
  BY <1>1, <1>2 DEF Backed, history
<1>8. Fresh(p)'
  BY <1>2 DEF Fresh
<1>9. \A q \in Procs \ {p} : proc[q].pc = "publish" => proc'[p].want # proc[q].want
  BY <1>1, <1>2 DEF Fresh
<1> QED BY <1>2, <1>3, <1>4, <1>5, <1>6, <1>7, <1>8, <1>9, QuietStep DEF history

\* The owner checks its barrier and writes the response.
LEMMA WriterKeeps ==
  ASSUME IInv, NEW p \in Procs, CheckOwns(p) \/ SaveResponse(p)
  PROVE  IInv'
<1>1. /\ job \in JobType /\ proc \in ProcType /\ HistoryType
      /\ InStep(p) /\ Backed(p)
  BY InvTypes
<1>2. CASE CheckOwns(p)
  <2>1. CASE BarrierAt(p)
    <3>1. Goto(p, "write") /\ UNCHANGED <<job, minted, expired, overdue, saved, history>>
          /\ proc[p].pc = "own"
      BY <1>2, <2>1 DEF CheckOwns, At
    <3>2. Paused /\ job.barrier /\ proc[p].want = job.action /\ job.status # "running"
          /\ proc[p].want # NoAction
      BY <1>1, <2>1, <3>1 DEF BarrierAt, Paused, Backed
    <3>3. saved' \subseteq Actions
      BY <1>1, <3>1 DEF HistoryType
    <3> QED BY <3>1, <3>2, <3>3, GoesOn DEF PCs, Driving
  <2>2. CASE ~BarrierAt(p)
    BY <1>2, <2>2, GivesUp DEF CheckOwns
  <2> QED BY <2>1, <2>2
<1>3. CASE SaveResponse(p)
  <2>1. /\ Goto(p, "release") /\ saved' = saved \cup {proc[p].want} /\ proc[p].pc = "write"
        /\ UNCHANGED <<job, minted, expired, overdue, history>>
    BY <1>3 DEF SaveResponse, At
  <2>2. proc[p].want # NoAction /\ proc[p].want \in Actions
    BY <1>1, <2>1 DEF Backed, ProcType, Actions, NoAction
  <2>3. proc[p].at = job.gen =>
          job.status # "running" /\ (Paused => job.barrier /\ proc[p].want = job.action)
    BY <1>1, <2>1 DEF InStep, Driving
  <2>4. saved' \subseteq Actions
    BY <1>1, <2>1, <2>2 DEF HistoryType
  <2> QED BY <2>1, <2>2, <2>3, <2>4, GoesOn DEF PCs, Driving
<1> QED BY <1>2, <1>3

\* Decisions and expiries read the job.
LEMMA ReadersKeep ==
  ASSUME IInv, NEW p \in Procs, Resolve(p) \/ ReadToExpire(p) \/ Crash(p)
  PROVE  IInv'
<1>1. /\ HistoryType /\ Backed(p) /\ JobInv
  BY InvTypes
<1>2. {"expire", "claim", "abort"} \subseteq PCs \ ({"idle", "publish"} \cup Driving)
  BY DEF PCs, Driving
<1>3. UNCHANGED <<job, minted, expired, overdue, saved, history>> /\ saved' \subseteq Actions
  BY <1>1 DEF Resolve, ReadToExpire, Crash, HistoryType
<1>4. CASE Crash(p)
  BY <1>3, <1>4, GivesUp DEF Crash
<1>5. ASSUME Goto(p, "idle") PROVE IInv'
  BY <1>3, <1>5, GivesUp
<1>6. CASE Resolve(p)
  <2>1. proc[p].pc = "resolve" /\ proc[p].want \in reviewed /\ proc[p].want # NoAction
    BY <1>1, <1>6 DEF Resolve, At, Backed, HistoryType, Actions, NoAction
  <2>2. Goto(p, "idle") \/ Goto(p, "claim") \/ (Goto(p, "expire") /\ job.action \in expired)
    BY <1>6 DEF Resolve
  <2>3. CASE Goto(p, "claim")
    BY <1>2, <1>3, <2>1, <2>3, GoesOn
  <2>4. CASE Goto(p, "expire") /\ job.action \in expired
    BY <1>2, <1>3, <2>1, <2>4, GoesOn
  <2> QED BY <1>5, <2>2, <2>3, <2>4
<1>7. CASE ReadToExpire(p)
  <2>1. proc[p].pc = "expire" /\ proc[p].want # NoAction
        /\ (proc[p].want \in expired \/ job.action # proc[p].want)
    BY <1>1, <1>7 DEF ReadToExpire, At, Backed
  <2>2. Goto(p, "idle") \/ Goto(p, "abort")
    BY <1>7 DEF ReadToExpire
  <2>3. CASE Goto(p, "abort")
    BY <1>2, <1>3, <2>1, <2>3, GoesOn
  <2> QED BY <1>5, <2>2, <2>3
<1> QED BY <1>4, <1>6, <1>7

\* A request that turns to its error path, the job being untouched.
LEMMA TurnsToFail ==
  ASSUME IInv, NEW p \in Procs, UNCHANGED <<job, minted, expired, overdue, saved, history>>,
         Become(p, Request("fail", proc[p].at, NoAction))
  PROVE  IInv'
<1>1. /\ job \in JobType /\ HistoryType /\ proc \in ProcType
      /\ InStep(p) /\ \A q \in Procs : Fresh(q)
  BY InvTypes
<1>2. "fail" \in PCs /\ NoAction \in 0..MaxActions /\ proc[p].at \in 0..MaxGen
  BY <1>1 DEF PCs, NoAction, ProcType
<1>3. /\ proc' \in ProcType
      /\ proc'[p].pc = "fail" /\ proc'[p].at = proc[p].at /\ proc'[p].want = NoAction
      /\ \A q \in Procs \ {p} : proc'[q] = proc[q]
  BY <1>1, <1>2, RequestFacts
<1>4. InStep(p)' /\ Fresh(p)' /\ proc'[p].pc \notin Driving
  BY <1>1, <1>3 DEF InStep, Fresh, Driving
<1>5. Backed(p)'
  BY <1>1, <1>3 DEF Backed, NoAction, HistoryType
<1>6. \A q \in Procs \ {p} : proc[q].pc = "publish" => proc'[p].want # proc[q].want
  BY <1>1, <1>3 DEF Fresh
<1> QED BY <1>3, <1>4, <1>5, <1>6, SilentStep

\* The error path reads the job.
LEMMA FailKeeps ==
  ASSUME IInv, NEW p \in Procs, Fail(p) \/ ReadToFail(p)
  PROVE  IInv'
<1>1. /\ job \in JobType /\ HistoryType /\ proc \in ProcType /\ JobInv
      /\ Backed(p) /\ InStep(p) /\ \A q \in Procs : Fresh(q)
  BY InvTypes
<1>2. CASE Fail(p)
  BY <1>2, TurnsToFail DEF Fail
<1>3. CASE ReadToFail(p)
  <2>1. UNCHANGED <<job, minted, expired, overdue, saved, history>>
    BY <1>3 DEF ReadToFail
  <2>2. CASE job.gen = proc[p].at /\ Active
    <3>1. /\ Become(p, [proc[p] EXCEPT !.pc = "end", !.from = job.status, !.want = job.action])
          /\ job.status \in {"running", "requires_action"} /\ job.action \in 0..MaxActions
      BY <1>1, <1>3, <2>2 DEF ReadToFail, Active, JobType
    <3>2. [proc[p] EXCEPT !.pc = "end", !.from = job.status, !.want = job.action]
            \in [pc : PCs, at : 0..MaxGen, want : 0..MaxActions,
                 from : {"running", "requires_action"}, tries : 0..Attempts]
      BY <1>1, <3>1 DEF ProcType, PCs
    <3>3. /\ proc' \in ProcType /\ \A q \in Procs \ {p} : proc'[q] = proc[q]
          /\ proc'[p] = [proc[p] EXCEPT !.pc = "end", !.from = job.status, !.want = job.action]
      BY <1>1, <3>1, <3>2, BecomeFacts
    <3>4. proc'[p].pc = "end" /\ proc'[p].at = proc[p].at /\ proc'[p].want = job.action
      BY <1>1, <3>3 DEF ProcType
    <3>5. InStep(p)' /\ Fresh(p)' /\ proc'[p].pc \notin Driving
      BY <1>1, <2>1, <3>4 DEF InStep, Fresh, Driving
    <3>6. Backed(p)'
      BY <1>1, <2>1, <3>4 DEF Backed, JobInv, PauseIsConsistent, history
    <3>7. \A q \in Procs \ {p} : proc[q].pc = "publish" => proc'[p].want # proc[q].want
      BY <1>1, <3>4 DEF Fresh
    <3> QED BY <2>1, <3>3, <3>5, <3>6, <3>7, SilentStep
  <2>3. CASE ~(job.gen = proc[p].at /\ Active)
    <3>1. Goto(p, "idle")
      BY <1>3, <2>3 DEF ReadToFail, Goto
    <3> QED BY <2>1, <3>1, GivesUp
  <2> QED BY <2>2, <2>3
<1> QED BY <1>2, <1>3

\* The stop loop reads the job, and its attempt hits or goes round again.
LEMMA StopKeeps ==
  ASSUME IInv, NEW p \in Procs, ReadToStop(p) \/ Stop(p)
  PROVE  IInv'
<1>1. /\ job \in JobType /\ HistoryType /\ proc \in ProcType /\ JobInv
      /\ Backed(p) /\ InStep(p) /\ \A q \in Procs : Fresh(q)
  BY InvTypes
<1>2. /\ job.action \in 0..MaxActions /\ job.action <= minted
      /\ proc[p].want <= minted /\ proc[p].at <= job.gen
  BY <1>1 DEF JobInv, PauseIsConsistent, JobType, Backed, InStep
<1>3. ASSUME UNCHANGED <<job, minted, expired, overdue, saved, history>>, proc' \in ProcType,
             \A q \in Procs \ {p} : proc'[q] = proc[q],
             proc'[p].at = proc[p].at, proc[p].at \in asked,
             proc'[p].want = proc[p].want \/ proc'[p].want = job.action,
             proc'[p].pc = "restop" \/ (proc'[p].pc = "stop" /\ proc'[p].tries < Attempts)
      PROVE  IInv'
  <2>1. InStep(p)' /\ Fresh(p)' /\ proc'[p].pc \notin Driving
    BY <1>2, <1>3 DEF InStep, Fresh, Driving
  <2>2. Backed(p)'
    BY <1>2, <1>3 DEF Backed, history
  <2>3. \A q \in Procs \ {p} : proc[q].pc = "publish" => proc'[p].want # proc[q].want
    BY <1>1, <1>3 DEF Fresh
  <2> QED BY <1>3, <2>1, <2>2, <2>3, SilentStep
<1>4. CASE ReadToStop(p)
  <2>1. /\ proc[p].pc = "restop" /\ UNCHANGED <<job, minted, expired, overdue, saved, history>>
    BY <1>4 DEF ReadToStop, At
  <2>2. CASE Retries(p)
    <3>1. /\ Become(p, [proc[p] EXCEPT !.pc = "stop", !.from = job.status, !.want = job.action])
          /\ job.status \in {"running", "requires_action"} /\ proc[p].tries < Attempts
      BY <1>4, <2>2 DEF ReadToStop, Retries, Active
    <3>2. [proc[p] EXCEPT !.pc = "stop", !.from = job.status, !.want = job.action]
            \in [pc : PCs, at : 0..MaxGen, want : 0..MaxActions,
                 from : {"running", "requires_action"}, tries : 0..Attempts]
      BY <1>1, <1>2, <3>1 DEF ProcType, PCs
    <3>3. /\ proc' \in ProcType /\ \A q \in Procs \ {p} : proc'[q] = proc[q]
          /\ proc'[p] = [proc[p] EXCEPT !.pc = "stop", !.from = job.status, !.want = job.action]
      BY <1>1, <3>1, <3>2, BecomeFacts
    <3>4. /\ proc'[p].pc = "stop" /\ proc'[p].at = proc[p].at /\ proc'[p].want = job.action
          /\ proc'[p].tries = proc[p].tries
      BY <1>1, <3>3 DEF ProcType
    <3>5. proc[p].at \in asked
      BY <1>1, <2>1 DEF Backed
    <3> QED BY <1>3, <2>1, <3>1, <3>3, <3>4, <3>5
  <2>3. CASE ~Retries(p)
    <3>1. Goto(p, "idle")
      BY <1>4, <2>3 DEF ReadToStop, Goto
    <3> QED BY <2>1, <3>1, GivesUp
  <2> QED BY <2>2, <2>3
<1>5. CASE Stop(p)
  <2>1. proc[p].pc = "stop" /\ proc[p].at \in asked /\ proc[p].tries < Attempts
    BY <1>1, <1>5 DEF Stop, At, Backed
  <2>2. CASE AsRead(p)
    <3>1. /\ Ended("aborted") /\ stopped' = stopped \cup {job.gen} /\ Goto(p, "idle")
          /\ UNCHANGED <<minted, expired, overdue, saved, reviewed, resumed, lapsed, asked>>
      BY <1>5, <2>2 DEF Stop
    <3>2. job.gen \in asked /\ job.status # "absent"
      BY <2>1, <2>2 DEF AsRead, RunningAt, PausedAt, Paused
    <3>3. "aborted" \in Statuses \ {"running", "requires_action", "absent"}
      BY DEF Statuses
    <3> QED BY <3>1, <3>2, <3>3, EndsJob
  <2>3. CASE ~AsRead(p)
    <3>1. /\ Become(p, [proc[p] EXCEPT !.pc = "restop", !.tries = @ + 1])
          /\ UNCHANGED <<job, minted, expired, overdue, saved, history>>
      BY <1>5, <2>3 DEF Stop, history
    <3>2. [proc[p] EXCEPT !.pc = "restop", !.tries = @ + 1]
            \in [pc : PCs, at : 0..MaxGen, want : 0..MaxActions,
                 from : {"running", "requires_action"}, tries : 0..Attempts]
      <4>1. /\ proc[p] \in [pc : PCs, at : 0..MaxGen, want : 0..MaxActions,
                             from : {"running", "requires_action"}, tries : 0..Attempts]
            /\ proc[p].tries + 1 \in 0..Attempts
        BY <1>1, <2>1 DEF ProcType, Attempts
      <4>2. "restop" \in PCs
        BY DEF PCs
      <4> QED BY <4>1, <4>2
    <3>3. /\ proc' \in ProcType /\ \A q \in Procs \ {p} : proc'[q] = proc[q]
          /\ proc'[p] = [proc[p] EXCEPT !.pc = "restop", !.tries = @ + 1]
      BY <1>1, <3>1, <3>2, BecomeFacts
    <3>4. proc'[p].pc = "restop" /\ proc'[p].at = proc[p].at /\ proc'[p].want = proc[p].want
      BY <1>1, <3>3 DEF ProcType
    <3> QED BY <1>3, <2>1, <3>1, <3>3, <3>4
  <2> QED BY <2>2, <2>3
<1> QED BY <1>4, <1>5

\* A turn begins: nobody can be in step with it yet but its owner.
LEMMA CreateKeeps ==
  ASSUME IInv, NEW p \in Procs, CreateJob(p)
  PROVE  IInv'
<1>1. /\ job \in JobType /\ HistoryType /\ proc \in ProcType /\ JobInv
      /\ \A q \in Procs : InStep(q) /\ Fresh(q)
  BY InvTypes
<1>2. /\ job.gen \in 0..MaxGen /\ job.gen < MaxGen /\ UNCHANGED <<minted, expired, overdue, saved, history>>
      /\ Become(p, Request("drive", job.gen + 1, NoAction))
      /\ job' = [gen |-> job.gen + 1, status |-> "running", action |-> NoAction, barrier |-> FALSE]
  BY <1>1 DEF CreateJob, JobType
<1>3. job.gen + 1 \in 0..MaxGen /\ NoAction \in 0..MaxActions /\ "drive" \in PCs
  BY <1>2 DEF NoAction, PCs, Driving
<1>4. /\ job' \in JobType /\ job'.gen = job.gen + 1 /\ job'.status = "running"
      /\ job'.action = NoAction /\ job'.barrier = FALSE
  BY <1>2, <1>3 DEF JobType, Statuses
<1>5. /\ proc' \in ProcType
      /\ proc'[p].pc = "drive" /\ proc'[p].at = job.gen + 1 /\ proc'[p].want = NoAction
      /\ \A q \in Procs \ {p} : proc'[q] = proc[q]
  BY <1>1, <1>2, <1>3, RequestFacts
<1>6. HistoryType'
  BY <1>1, <1>2 DEF HistoryType, history
<1>7. Grows
  BY <1>1, <1>2, <1>4 DEF Grows, JobType, HistoryType, history
<1>8. 0 \notin resumed /\ 0 \notin lapsed /\ 0 <= minted
  BY <1>1 DEF HistoryType, Actions
<1>9. PauseIsConsistent'
  <2>1. job'.gen >= 1 /\ ~job'.barrier /\ ~Paused' /\ job'.action = 0
    BY <1>2, <1>4 DEF Paused, NoAction
  <2>2. reviewed' \cup expired' \subseteq 1..minted'
    BY <1>1, <1>2 DEF JobInv, PauseIsConsistent, history
  <2>3. 0 \notin resumed' \cup lapsed' /\ 0 <= minted'
    BY <1>2, <1>8 DEF history
  <2> QED BY <2>1, <2>2, <2>3 DEF PauseIsConsistent, NoAction
<1>10. JobInv'
  BY <1>1, <1>2, <1>9 DEF JobInv, OneOutcome, ResumedWasSaved, ResumedWasReviewed,
                          LapsedWasExpired, StoppedWasAsked, history
<1>11. InStep(p)' /\ Fresh(p)'
  BY <1>2, <1>4, <1>5 DEF InStep, Fresh, Paused
<1>12. Backed(p)'
  BY <1>2, <1>5, <1>8 DEF Backed, NoAction
<1>13. \A q \in Procs \ {p} : proc[q].at # job.gen + 1
  BY <1>1, <1>2 DEF InStep, ProcType
<1>14. \A q \in Procs \ {p} : proc[q].pc = "publish" => proc'[p].want # proc[q].want
  BY <1>1, <1>5 DEF Fresh
<1> QED BY <1>4, <1>5, <1>6, <1>7, <1>10, <1>11, <1>12, <1>13, <1>14, RequestStep

\* An interrupt mints an action nobody has heard of.
LEMMA InterruptKeeps ==
  ASSUME IInv, NEW p \in Procs, Interrupt(p)
  PROVE  IInv'
<1>1. /\ job \in JobType /\ HistoryType /\ proc \in ProcType /\ JobInv
      /\ \A q \in Procs : InStep(q) /\ Backed(q) /\ Fresh(q)
  BY InvTypes
<1>2. /\ minted \in 0..MaxActions /\ minted < MaxActions /\ minted' = minted + 1 /\ proc[p].pc = "drive"
      /\ UNCHANGED <<job, expired, overdue, saved, history>>
  BY <1>1 DEF Interrupt, At, HistoryType
<1>3. HistoryType'
  BY <1>1, <1>2 DEF HistoryType, history
<1>4. Grows
  BY <1>1, <1>2 DEF Grows, JobType, history
<1>5. reviewed' \cup expired' \subseteq 1..minted'
  <2>1. reviewed \cup expired \subseteq 1..minted
    BY <1>1 DEF JobInv, PauseIsConsistent
  <2> QED BY <1>2, <2>1 DEF history
<1>6. /\ minted + 1 \notin reviewed /\ minted + 1 \notin resumed /\ minted + 1 \notin lapsed
      /\ minted + 1 # job.action
  <2>1. reviewed \cup expired \subseteq 1..minted /\ job.action <= minted
    BY <1>1 DEF JobInv, PauseIsConsistent
  <2>2. minted + 1 \notin reviewed /\ minted + 1 \notin expired /\ minted + 1 # job.action
    BY <1>1, <1>2, <2>1 DEF JobType
  <2> QED BY <1>1, <2>2 DEF JobInv, ResumedWasReviewed, LapsedWasExpired
<1>7. \A q \in Procs : proc[q].want # minted + 1
  BY <1>1, <1>2 DEF Backed, ProcType
<1>8. CASE RunningAt(p)
  <2>1. Become(p, Request("publish", proc[p].at, minted + 1))
    BY <1>8 DEF Interrupt
  <2>2. /\ "publish" \in PCs /\ proc[p].at \in 0..MaxGen /\ minted + 1 \in 0..MaxActions
    BY <1>1, <1>2 DEF PCs, Driving, ProcType
  <2>3. /\ proc' \in ProcType
        /\ proc'[p].pc = "publish" /\ proc'[p].at = proc[p].at /\ proc'[p].want = minted + 1
        /\ \A q \in Procs \ {p} : proc'[q] = proc[q]
    BY <1>1, <2>1, <2>2, RequestFacts
  <2>4. InStep(p)'
    BY <1>1, <1>2, <1>8, <2>3 DEF InStep, RunningAt, Paused
  <2>5. Backed(p)'
    BY <1>2, <2>2, <2>3 DEF Backed
  <2>6. Fresh(p)'
    <3>1. proc'[p].want # NoAction
      BY <1>2, <2>3 DEF NoAction
    <3>2. proc'[p].want \notin {job'.action} \cup reviewed' \cup resumed' \cup lapsed'
      BY <1>2, <1>6, <2>3 DEF history
    <3>3. \A q \in Procs \ {p} : proc'[q].want # proc'[p].want
      BY <1>7, <2>3
    <3> QED BY <3>1, <3>2, <3>3 DEF Fresh
  <2>7. \A q \in Procs \ {p} : proc'[p].want # proc[q].want
    BY <1>7, <2>3
  <2> QED BY <1>2, <1>3, <1>4, <1>5, <2>3, <2>4, <2>5, <2>6, <2>7, QuietStep DEF history, Driving
<1>9. CASE ~RunningAt(p)
  <2>1. Become(p, Rest)
    BY <1>9 DEF Interrupt
  <2>2. /\ proc' \in ProcType
        /\ proc'[p].pc = "idle" /\ proc'[p].at = 0 /\ proc'[p].want = NoAction
        /\ \A q \in Procs \ {p} : proc'[q] = proc[q]
    BY <1>1, <2>1, RestFacts
  <2>3. InStep(p)' /\ Backed(p)' /\ Fresh(p)'
    BY <1>1, <1>2, <1>3, <2>2, IdleIsSound
  <2>4. \A q \in Procs \ {p} : proc[q].pc = "publish" => proc'[p].want # proc[q].want
    BY <1>1, <2>2 DEF Fresh
  <2> QED BY <1>2, <1>3, <1>4, <1>5, <2>2, <2>3, <2>4, QuietStep DEF history, Driving
<1> QED BY <1>8, <1>9

\* The pause is published: its action is fresh, so that no request that is
\* under way can mean it.
LEMMA PublishKeeps ==
  ASSUME IInv, NEW p \in Procs, Publish(p)
  PROVE  IInv'
<1>1. /\ job \in JobType /\ HistoryType /\ proc \in ProcType /\ JobInv /\ OneDriver
      /\ \A q \in Procs : InStep(q) /\ Backed(q) /\ Fresh(q)
  BY InvParts
<1>2. /\ proc[p].pc = "publish" /\ proc[p].at \in 0..MaxGen /\ proc[p].want \in 0..MaxActions
      /\ UNCHANGED <<minted, expired, overdue, saved, history>>
  BY <1>1 DEF Publish, At, ProcType
<1>3. \A q \in Procs \ {p} : proc[q].pc \notin Driving \/ proc[q].at # proc[p].at
  BY <1>1, <1>2 DEF OneDriver, Driving
<1>4. CASE RunningAt(p) /\ proc[p].want \notin expired
  <2>1. /\ job' = [job EXCEPT !.status = "requires_action", !.action = proc[p].want, !.barrier = TRUE]
        /\ Goto(p, "own") /\ job.gen = proc[p].at /\ job.status = "running"
    BY <1>4 DEF Publish, RunningAt
  <2>2. job' \in JobType
    BY <1>1, <1>2, <2>1 DEF JobType, Statuses
  <2>3. /\ job'.gen = job.gen /\ job'.status = "requires_action" /\ job'.action = proc[p].want
        /\ job'.barrier = TRUE
    BY <1>1, <1>2, <2>1 DEF JobType
  <2>4. /\ proc' \in ProcType
        /\ proc'[p].pc = "own" /\ proc'[p].at = proc[p].at /\ proc'[p].want = proc[p].want
        /\ \A q \in Procs \ {p} : proc'[q] = proc[q]
    BY <1>1, <2>1, GotoFacts DEF PCs, Driving
  <2>5. HistoryType'
    BY <1>1, <1>2 DEF HistoryType, history
  <2>6. Grows
    BY <1>1, <1>2, <2>3 DEF Grows, JobType, HistoryType, history
  <2>7. /\ proc[p].want # NoAction /\ proc[p].want <= minted
        /\ proc[p].want \notin resumed \cup lapsed
        /\ \A q \in Procs \ {p} : proc[q].want # proc[p].want
    BY <1>1, <1>2 DEF Fresh, Backed
  <2>8. PauseIsConsistent'
    <3>1. Paused' /\ job'.barrier /\ job'.status # "absent"
      BY <2>3 DEF Paused
    <3>2. job'.gen >= 1
      BY <1>1, <2>1, <2>3 DEF JobInv, PauseIsConsistent
    <3>3. job'.action # NoAction /\ job'.action <= minted' /\ job'.action \notin resumed' \cup lapsed'
      BY <1>2, <2>3, <2>7 DEF history
    <3>4. reviewed' \cup expired' \subseteq 1..minted'
      BY <1>1, <1>2 DEF JobInv, PauseIsConsistent, history
    <3> QED BY <3>1, <3>2, <3>3, <3>4 DEF PauseIsConsistent
  <2>9. JobInv'
    BY <1>1, <1>2, <2>8 DEF JobInv, OneOutcome, ResumedWasSaved, ResumedWasReviewed,
                            LapsedWasExpired, StoppedWasAsked, history
  <2>10. InStep(p)'
    BY <1>1, <2>3, <2>4 DEF InStep, Paused
  <2>11. Backed(p)' /\ Fresh(p)'
    BY <1>2, <2>4, <2>7 DEF Backed, Fresh
  <2> QED BY <1>2, <1>3, <2>1, <2>2, <2>3, <2>4, <2>5, <2>6, <2>7, <2>9, <2>10, <2>11, RequestStep
          DEF Driving
<1>5. CASE RunningAt(p) /\ proc[p].want \in expired
  <2>1. /\ job' = job /\ Become(p, Request("drive", proc[p].at, NoAction)) /\ job.status = "running"
    BY <1>5 DEF Publish, RunningAt
  <2>2. "drive" \in PCs /\ NoAction \in 0..MaxActions
    BY DEF PCs, Driving, NoAction
  <2>3. /\ proc' \in ProcType
        /\ proc'[p].pc = "drive" /\ proc'[p].at = proc[p].at /\ proc'[p].want = NoAction
        /\ \A q \in Procs \ {p} : proc'[q] = proc[q]
    BY <1>1, <1>2, <2>1, <2>2, RequestFacts
  <2>4. InStep(p)'
    BY <1>1, <2>1, <2>3 DEF InStep, Paused
  <2>5. Backed(p)' /\ Fresh(p)'
    BY <1>1, <1>2, <2>3 DEF Backed, Fresh, NoAction, HistoryType
  <2>6. \A q \in Procs \ {p} : proc[q].pc = "publish" => proc'[p].want # proc[q].want
    BY <1>1, <2>3 DEF Fresh
  <2> QED BY <1>2, <2>1, <2>3, <2>4, <2>5, <2>6, SilentStep DEF Driving
<1>6. CASE ~RunningAt(p)
  BY <1>2, <1>6, GivesUp DEF Publish
<1> QED BY <1>4, <1>5, <1>6

\* The barrier comes down, its response being durable.
LEMMA ReleaseKeeps ==
  ASSUME IInv, NEW p \in Procs, Release(p)
  PROVE  IInv'
<1>1. /\ job \in JobType /\ HistoryType /\ proc \in ProcType /\ JobInv /\ OneDriver
      /\ \A q \in Procs : InStep(q) /\ Backed(q) /\ Fresh(q)
  BY InvParts
<1>2. /\ proc[p].pc = "release"
      /\ Goto(p, "idle") \/ Become(p, Request("fail", proc[p].at, NoAction))
      /\ UNCHANGED <<minted, expired, overdue, saved, history>>
      /\ job' = [job EXCEPT !.barrier = @ /\ ~BarrierAt(p)]
  BY DEF Release, At
<1>3. CASE BarrierAt(p)
  <2>1. job' = [job EXCEPT !.barrier = FALSE]
    BY <1>2, <1>3
  <2>2. job' \in JobType
    BY <1>1, <2>1 DEF JobType
  <2>3. /\ job'.gen = job.gen /\ job'.status = job.status /\ job'.action = job.action
        /\ job'.barrier = FALSE
    BY <1>1, <2>1 DEF JobType
  <2>4. /\ proc' \in ProcType
        /\ proc'[p].pc \in {"idle", "fail"} /\ proc'[p].want = NoAction
        /\ proc'[p].at \in {0, proc[p].at}
        /\ \A q \in Procs \ {p} : proc'[q] = proc[q]
    <3>1. "fail" \in PCs /\ NoAction \in 0..MaxActions /\ proc[p].at \in 0..MaxGen
      BY <1>1 DEF PCs, NoAction, ProcType
    <3> QED BY <1>1, <1>2, <3>1, GotoIdleFacts, RequestFacts
  <2>5. HistoryType'
    BY <1>1, <1>2 DEF HistoryType, history
  <2>6. Grows
    BY <1>1, <1>2, <2>3 DEF Grows, JobType, HistoryType, history
  <2>7. job.action \in saved /\ job.gen = proc[p].at
    BY <1>1, <1>2, <1>3 DEF Backed, BarrierAt
  <2>8. JobInv'
    BY <1>1, <1>2, <2>3, <2>7 DEF JobInv, OneOutcome, ResumedWasSaved, ResumedWasReviewed,
         LapsedWasExpired, StoppedWasAsked, PauseIsConsistent, Paused, history
  <2>9. \A q \in Procs \ {p} : proc[q].pc \notin Driving \/ proc[q].at # job'.gen
    BY <1>1, <1>2, <2>3, <2>7 DEF OneDriver, Driving
  <2>10. InStep(p)' /\ Backed(p)' /\ Fresh(p)'
    BY <2>3, <2>4, <2>5, <2>7, <1>1 DEF InStep, Backed, Fresh, Driving, NoAction, HistoryType, JobType
  <2>11. \A q \in Procs \ {p} : proc[q].pc = "publish" => proc'[p].want # proc[q].want
    BY <1>1, <2>4 DEF Fresh
  <2> QED BY <2>2, <2>3, <2>4, <2>5, <2>6, <2>8, <2>9, <2>10, <2>11, RequestStep DEF Driving
<1>4. CASE ~BarrierAt(p)
  <2>1. job' = job
    BY <1>1, <1>2, <1>4 DEF JobType
  <2> QED BY <1>2, <2>1, GivesUp, TurnsToFail
<1> QED BY <1>3, <1>4

\* A decision wins: behind a barrier that is down nobody drives the run.
LEMMA ClaimKeeps ==
  ASSUME IInv, NEW p \in Procs, Claim(p)
  PROVE  IInv'
<1>1. /\ job \in JobType /\ HistoryType /\ proc \in ProcType /\ JobInv
      /\ \A q \in Procs : InStep(q) /\ Backed(q) /\ Fresh(q)
  BY InvTypes
<1>2. CASE ~PausedAt(p)
  BY <1>2, GivesUp DEF Claim, history
<1>3. CASE PausedAt(p)
  <2>1. /\ job' = [job EXCEPT !.status = "running", !.action = NoAction]
        /\ resumed' = resumed \cup {job.action}
        /\ Become(p, Request("drive", proc[p].at, NoAction))
        /\ UNCHANGED <<minted, expired, overdue, saved, reviewed, lapsed, asked, stopped>>
    BY <1>3 DEF Claim
  <2>2. job.gen = proc[p].at /\ Paused /\ job.action = proc[p].want /\ ~job.barrier
        /\ proc[p].pc = "claim"
    BY <1>3 DEF PausedAt, Claim, At
  <2>3. "drive" \in PCs /\ NoAction \in 0..MaxActions /\ proc[p].at \in 0..MaxGen
    BY <1>1 DEF PCs, Driving, NoAction, ProcType
  <2>4. job' \in JobType
    BY <1>1, <2>1, <2>3 DEF JobType, Statuses
  <2>5. /\ job'.gen = job.gen /\ job'.status = "running" /\ job'.action = NoAction
        /\ job'.barrier = job.barrier
    BY <1>1, <2>1 DEF JobType
  <2>6. /\ proc' \in ProcType
        /\ proc'[p].pc = "drive" /\ proc'[p].at = proc[p].at /\ proc'[p].want = NoAction
        /\ \A q \in Procs \ {p} : proc'[q] = proc[q]
    BY <1>1, <2>1, <2>3, RequestFacts
  <2>7. job.action \in saved /\ job.action \in reviewed /\ job.action \notin lapsed
        /\ job.action # NoAction /\ job.gen >= 1
    BY <1>1, <2>2 DEF JobInv, PauseIsConsistent, Backed, Paused
  <2>8. HistoryType'
    BY <1>1, <2>1, <2>7 DEF HistoryType
  <2>9. Grows
    BY <1>1, <2>1, <2>5 DEF Grows, JobType, HistoryType
  <2>10. PauseIsConsistent'
    <3>1. ~job'.barrier /\ ~Paused' /\ job'.gen >= 1
      BY <2>2, <2>5, <2>7 DEF Paused
    <3>2. 0 \notin resumed' /\ 0 \notin lapsed' /\ 0 <= minted'
      BY <1>1, <2>1, <2>7 DEF HistoryType, Actions, NoAction
    <3>3. reviewed' \cup expired' \subseteq 1..minted'
      BY <1>1, <2>1 DEF JobInv, PauseIsConsistent
    <3> QED BY <2>5, <3>1, <3>2, <3>3 DEF PauseIsConsistent, NoAction
  <2>11. JobInv'
    BY <1>1, <2>1, <2>7, <2>10 DEF JobInv, OneOutcome, ResumedWasSaved, ResumedWasReviewed,
                                   LapsedWasExpired, StoppedWasAsked
  <2>12. \A q \in Procs : proc[q].pc \notin Driving \/ proc[q].at # job.gen
    BY <1>1, <2>2 DEF InStep, Driving
  <2>13. InStep(p)'
    BY <1>1, <2>5, <2>6 DEF InStep, Paused
  <2>14. Backed(p)' /\ Fresh(p)'
    BY <1>1, <2>1, <2>6 DEF Backed, Fresh, NoAction, HistoryType
  <2>15. \A q \in Procs \ {p} : proc[q].pc = "publish" => proc'[p].want # proc[q].want
    BY <1>1, <2>6 DEF Fresh
  <2> QED BY <2>2, <2>4, <2>5, <2>6, <2>8, <2>9, <2>11, <2>12, <2>13, <2>14, <2>15, RequestStep
<1> QED BY <1>2, <1>3

\* Every step, and every stutter, keeps the invariant.
LEMMA NextKeeps ==
  ASSUME IInv, [Next]_vars
  PROVE  IInv'
<1>1. CASE UNCHANGED vars
  BY <1>1 DEF vars, history, IInv, TypeOK, OneDriver, OneOutcome, ResumedWasSaved,
              ResumedWasReviewed, LapsedWasExpired, StoppedWasAsked, PauseIsConsistent,
              Paused, InStep, Backed, Fresh
<1> QED BY <1>1, CreateKeeps, InterruptKeeps, PublishKeeps, WriterKeeps, EndingKeeps,
           ReleaseKeeps, RequestsKeep, ReadersKeep, ClaimKeeps, StopKeeps, FailKeeps, TimeKeeps DEF Next

(***************************************************************************)
(* The theorems.                                                           *)
(***************************************************************************)

\* The inductive invariant holds in every reachable state.
THEOREM Invariance == Spec => []IInv
<1>1. Init => IInv
  BY InitKeeps
<1>2. IInv /\ [Next]_vars => IInv'
  BY NextKeeps
<1> QED BY <1>1, <1>2, PTL DEF Spec

\* Job, deadlines, requests and histories have their types.
THEOREM TypeCorrect == Spec => []TypeOK
<1>1. IInv => TypeOK
  BY DEF IInv
<1> QED BY <1>1, Invariance, PTL

\* However many clicks race for a paused run, one of them drives it.
THEOREM DrivenOnce == Spec => []OneDriver
<1>1. IInv => OneDriver
  BY DEF IInv
<1> QED BY <1>1, Invariance, PTL

\* A run resumes from a response that is durable.
THEOREM SavedBeforeResumed == Spec => []ResumedWasSaved
<1>1. IInv => ResumedWasSaved
  BY DEF IInv
<1> QED BY <1>1, Invariance, PTL

\* A run resumes from the very action a user decided.
THEOREM ReviewedBeforeResumed == Spec => []ResumedWasReviewed
<1>1. IInv => ResumedWasReviewed
  BY DEF IInv
<1> QED BY <1>1, Invariance, PTL

\* An expiry aborts the very action that expired.
THEOREM ExpiredBeforeLapsed == Spec => []LapsedWasExpired
<1>1. IInv => LapsedWasExpired
  BY DEF IInv
<1> QED BY <1>1, Invariance, PTL

\* No action is both resumed and expired.
THEOREM OutcomeIsUnique == Spec => []OneOutcome
<1>1. IInv => OneOutcome
  BY DEF IInv
<1> QED BY <1>1, Invariance, PTL

\* A stop hits the generation it was meant for.
THEOREM AskedBeforeStopped == Spec => []StoppedWasAsked
<1>1. IInv => StoppedWasAsked
  BY DEF IInv
<1> QED BY <1>1, Invariance, PTL

\* While the barrier is within its time, only its writer takes the run out of
\* the pause, unless the job is deleted: every other compare-and-set wants the
\* run running, or the barrier down, or overdue.
THEOREM WriterAlone == Spec => BarrierIsExclusive
<1>1. ASSUME IInv, Next PROVE BarrierHolds
  <2> SUFFICES ASSUME job.barrier, job.action \notin overdue, job'.gen = job.gen, job' # job,
                      job'.status # "absent"
               PROVE  \E p \in Procs : /\ proc[p].pc \in {"write", "release"}
                                       /\ proc'[p].pc \in {"idle", "fail"}
                                       /\ proc[p].at = job.gen /\ proc[p].want = job.action
    BY DEF BarrierHolds
  <2>1. /\ job \in JobType /\ proc \in ProcType
        /\ Paused /\ job.status = "requires_action"
    BY <1>1, InvTypes DEF JobInv, PauseIsConsistent, Paused
  <2>2. \A p \in Procs : ~RunningAt(p) /\ ~PausedAt(p)
    BY <2>1 DEF RunningAt, PausedAt
  <2>3. ASSUME NEW p \in Procs, SaveFails(p) \/ Release(p)
        PROVE  /\ proc[p].pc \in {"write", "release"} /\ proc'[p].pc \in {"idle", "fail"}
               /\ proc[p].at = job.gen /\ proc[p].want = job.action
    <3>1. /\ proc[p].pc \in {"write", "release"}
          /\ Goto(p, "idle") \/ Become(p, Request("fail", proc[p].at, NoAction))
      BY <2>3 DEF SaveFails, Release, At
    <3>2. proc'[p].pc \in {"idle", "fail"}
      BY <2>1, <3>1 DEF Goto, Become, ProcType, Rest, Request
    <3>3. BarrierAt(p)
      <4>1. CASE SaveFails(p)
        BY <4>1 DEF SaveFails
      <4>2. CASE Release(p)
        <5>1. ASSUME ~BarrierAt(p) PROVE FALSE
          BY <2>1, <4>2, <5>1 DEF Release, JobType
        <5> QED BY <5>1
      <4> QED BY <2>3, <4>1, <4>2
    <3> QED BY <3>1, <3>2, <3>3 DEF BarrierAt
  <2>4. ASSUME NEW p \in Procs, CreateJob(p) PROVE FALSE
    <3>1. job'.gen = job.gen + 1
      BY <2>4 DEF CreateJob
    <3> QED BY <2>1, <3>1 DEF JobType
  <2>5. ASSUME NEW p \in Procs,
               \/ Interrupt(p) \/ Publish(p) \/ CheckOwns(p) \/ SaveResponse(p) \/ Finish(p)
               \/ Fail(p) \/ ReadToFail(p) \/ End(p)
               \/ Decide(p) \/ Resolve(p) \/ Claim(p) \/ Sweep(p) \/ ReadToExpire(p) \/ Expire(p)
               \/ AskStop(p) \/ ReadToStop(p) \/ Stop(p) \/ Crash(p)
        PROVE  FALSE
    <3>1. ~AsRead(p)
      BY <2>2 DEF AsRead
    <3> QED BY <2>2, <2>5, <3>1
        DEF Interrupt, Publish, CheckOwns, SaveResponse, Finish, Fail, ReadToFail, End, Decide,
            Resolve, Claim, Sweep, ReadToExpire, Expire, AskStop, ReadToStop, Stop, Crash
  <2>6. ASSUME (\E p \in Procs : FailStalePause(p)) \/ CleanupBarrier \/ CleanupApproval
               \/ ReapStale \/ Evict \/ BarrierOverdue \/ (\E a \in Actions : Expires(a))
        PROVE  FALSE
    <3>1. job' = job \/ job'.status = "absent" \/ job.action \in overdue \/ ~job.barrier
      BY <2>1, <2>6 DEF FailStalePause, CleanupBarrier, CleanupApproval, ReapStale, Evict,
                        Ended, BarrierOverdue, Expires, JobType
    <3> QED BY <3>1
  <2> QED BY <1>1, <2>3, <2>4, <2>5, <2>6 DEF Next
<1>2. IInv /\ [Next]_vars => [BarrierHolds]_vars
  BY <1>1
<1> QED BY <1>2, Invariance, PTL DEF Spec, BarrierIsExclusive
=============================================================================
