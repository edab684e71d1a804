------------------------ MODULE ScheduleFire_proofs ------------------------
(***************************************************************************)
(* The safety of one schedule's fires for every number of workers, due     *)
(* times, clicks, edits and suspensions.  IInv is inductive; that the      *)
(* queue is asked once as long as the row stands follows from it.  Leases, *)
(* rows, the erasure and the passing over of occurrences have invariants   *)
(* of their own, which rest on it.                                         *)
(***************************************************************************)
EXTENDS ScheduleFire, TLAPS

USE NobodyAssumption, BoundsAssumption

SchedType == [next : 0..(MaxDue + 1), enabled : BOOLEAN, agent : Editions,
              deleting : {"no", "marked", "erased"},
              token : Worker \cup {Nobody}, holder : Worker \cup {Nobody},
              lease : Leases]
RunType   == [status : Statuses, by : Worker \cup {Nobody}, rev : Editions, owes : BOOLEAN]
WorkType  == [pc : PCs, occ : Occ \cup {Unset}, agent : Editions, rev : Editions,
              to : 0..(MaxDue + 1), skips : BOOLEAN]

\* The invariant but for the types.
CoreInv == /\ Claimed /\ OwnRow /\ TriedHasRow /\ AliveIsTried
           /\ SweptHasRow /\ FiredOncePerRow

LEMMA InvParts == IInv <=> TypeOK /\ CoreInv
BY DEF IInv, CoreInv

LEMMA TypeParts ==
  ASSUME TypeOK
  PROVE  sched \in SchedType /\ runs \in [Occ -> RunType] /\ proc \in [Worker -> WorkType]
BY DEF TypeOK, SchedType, RunType, WorkType

\* A schedule starts unarmed, without rows, and with idle workers.
LEMMA InitKeeps == Init => IInv
<1> SUFFICES ASSUME Init PROVE IInv
  OBVIOUS
<1>1. 0 \in Editions
  BY DEF Editions
<1>2. TypeOK
  BY <1>1 DEF Init, TypeOK, Idle, Asleep, NoHold, NoRun, Unset, Statuses, Active, Leases, PCs
<1>3. CoreInv
  BY DEF Init, CoreInv, Claimed, OwnRow, TriedHasRow, AliveIsTried, SweptHasRow,
         FiredOncePerRow, Idle, At, Reserved
<1> QED BY <1>2, <1>3, InvParts

(***************************************************************************)
(* What the helpers return.                                                *)
(***************************************************************************)

\* Releasing, rotating and disabling keep a schedule a schedule.
LEMMA SchedFacts ==
  ASSUME NEW s \in SchedType
  PROVE  Freed(s) \in SchedType /\ Rotated(s) \in SchedType /\ Disabled(s) \in SchedType
BY DEF SchedType, Freed, Rotated, Disabled, Leases

\* So does claiming.
LEMMA TakenFacts ==
  ASSUME NEW w \in Worker, sched \in SchedType
  PROVE  Taken(w) \in SchedType
BY DEF SchedType, Taken, Leases

\* A worker that moves keeps its claim, or becomes idle; the others stay.
LEMMA GotoFacts ==
  ASSUME NEW w \in Worker, NEW l \in PCs, proc \in [Worker -> WorkType], Goto(w, l)
  PROVE  /\ proc' \in [Worker -> WorkType]
         /\ proc'[w].pc = l
         /\ l # "idle" => proc'[w].occ = proc[w].occ /\ proc'[w].rev = proc[w].rev
         /\ \A v \in Worker \ {w} : proc'[v] = proc[v]
<1>1. Idle \in WorkType /\ Idle.pc = "idle"
  BY DEF Idle, WorkType, PCs, Unset, Editions
<1>2. CASE l = "idle"
  <2>1. proc' = [proc EXCEPT ![w] = Idle]
    BY <1>2 DEF Goto
  <2> QED BY <2>1, <1>1, <1>2
<1>3. CASE l # "idle"
  <2>1. proc' = [proc EXCEPT ![w] = [@ EXCEPT !.pc = l]]
    BY <1>3 DEF Goto
  <2> QED BY <2>1, <1>3 DEF WorkType
<1> QED BY <1>2, <1>3

\* The same of a worker that decides not to fire.
LEMMA SkipFacts ==
  ASSUME NEW w \in Worker, NEW l \in PCs, proc \in [Worker -> WorkType], Skip(w, l)
  PROVE  /\ proc' \in [Worker -> WorkType]
         /\ proc'[w].pc = l /\ proc'[w].occ = proc[w].occ
         /\ \A v \in Worker \ {w} : proc'[v] = proc[v]
BY DEF Skip, WorkType

\* A worker that moves to another place takes its decision along, and one that
\* skips takes it.
LEMMA SkipsFacts ==
  ASSUME NEW w \in Worker, NEW l \in PCs, l # "idle", proc \in [Worker -> WorkType]
  PROVE  /\ Goto(w, l) => proc'[w].skips = proc[w].skips /\ proc'[w].occ = proc[w].occ
                           /\ proc'[w].pc = l
         /\ Skip(w, l) => proc'[w].skips = TRUE /\ proc'[w].occ = proc[w].occ
                           /\ proc'[w].pc = l
<1>1. ASSUME Goto(w, l)
      PROVE  proc'[w].skips = proc[w].skips /\ proc'[w].occ = proc[w].occ /\ proc'[w].pc = l
  <2>1. proc' = [proc EXCEPT ![w] = [@ EXCEPT !.pc = l]]
    BY <1>1 DEF Goto
  <2> QED BY <2>1 DEF WorkType
<1>2. ASSUME Skip(w, l)
      PROVE  proc'[w].skips = TRUE /\ proc'[w].occ = proc[w].occ /\ proc'[w].pc = l
  BY <1>2 DEF Skip, WorkType
<1> QED BY <1>1, <1>2

\* A worker that steps aside or backs off goes to a place without a row.
LEMMA AsideFacts ==
  ASSUME NEW w \in Worker
  PROVE  /\ Aside(w) \in PCs /\ Aside(w) \notin Reserved
         /\ Backoff(w) \in PCs /\ Backoff(w) \notin Reserved
BY DEF Aside, Backoff, PCs, Reserved

\* A settled run keeps a row, and no other row changes; one that is not active
\* stays as it is.
LEMMA SettledFacts ==
  ASSUME runs \in [Occ -> RunType], NEW o \in Occ, NEW s \in {"settled", "swept"},
         NEW b \in BOOLEAN, runs' = Settled(o, s, b)
  PROVE  /\ runs' \in [Occ -> RunType]
         /\ \A q \in Occ \ {o} : runs'[q] = runs[q]
         /\ runs'[o].status = "absent" => runs[o].status = "absent"
         /\ runs'[o] = runs[o] \/ (runs[o].status \in Active /\ runs'[o].status = s)
<1>1. s \in Statuses /\ s # "absent"
  BY DEF Statuses
<1>2. CASE runs[o].status \notin Active
  <2>1. runs' = runs
    BY <1>2 DEF Settled
  <2> QED BY <2>1
<1>3. CASE runs[o].status \in Active
  <2> DEFINE r == [runs[o] EXCEPT !.status = s, !.by = Nobody, !.owes = b]
  <2>1. r \in RunType /\ r.status = s
    BY <1>1 DEF RunType
  <2>2. runs' = [runs EXCEPT ![o] = r]
    BY <1>3 DEF Settled
  <2> HIDE DEF r
  <2> QED BY <1>1, <1>3, <2>1, <2>2
<1> QED BY <1>2, <1>3

\* A reservation is a row, and one that owes no bookkeeping.
LEMMA ReservationFacts ==
  ASSUME NEW w \in Worker, proc \in [Worker -> WorkType]
  PROVE  /\ Reservation(w) \in RunType /\ Reservation(w) # NoRun
         /\ Reservation(w).status = "started" /\ Reservation(w).by = w
         /\ Reservation(w).owes = FALSE /\ Reservation(w).rev = proc[w].rev
<1>1. proc[w].rev \in Editions
  BY DEF WorkType
<1> QED BY <1>1 DEF Reservation, RunType, NoRun, Statuses, Active

\* Asking the queue is counted, up to two.
LEMMA TriedFacts ==
  ASSUME tries \in [Occ -> 0..2], NEW o \in Occ
  PROVE  /\ Tried(o) \in [Occ -> 0..2]
         /\ Tried(o)[o] > 0
         /\ tries[o] = 0 => Tried(o)[o] = 1
         /\ \A q \in Occ \ {o} : Tried(o)[q] = tries[q]
<1> DEFINE n == IF tries[o] = 2 THEN 2 ELSE tries[o] + 1
<1>1. n \in 0..2 /\ n > 0 /\ (tries[o] = 0 => n = 1)
  OBVIOUS
<1>2. Tried(o) = [tries EXCEPT ![o] = n]
  BY DEF Tried
<1> HIDE DEF n
<1> QED BY <1>1, <1>2

\* Bookkeeping leaves the schedule as it is, or disables it.
LEMMA BookedFacts ==
  ASSUME sched \in SchedType, NEW n, sched' \in Booked(n)
  PROVE  sched' \in SchedType /\ (sched' = sched \/ sched' = Disabled(sched))
BY SchedFacts DEF Booked

\* An outcome settles the row, if it is active, and books it.
LEMMA OutcomeFacts ==
  ASSUME sched \in SchedType, runs \in [Occ -> RunType], NEW o \in Occ, Outcome(o)
  PROVE  /\ sched' \in SchedType /\ (sched' = sched \/ sched' = Disabled(sched))
         /\ \E b \in BOOLEAN : runs' = Settled(o, "settled", b)
         /\ sched' # sched => runs[o].status \in Active /\ runs[o].rev = edits
<1>1. sched' \in Booked(runs[o].rev) \/ sched' = sched
  BY DEF Outcome
<1>2. sched' # sched => runs[o].status \in Active /\ runs[o].rev = edits
  BY DEF Outcome, Booked
<1> QED BY <1>1, <1>2, BookedFacts DEF Outcome

\* A row whose bookkeeping is done is the row it was, if it owed none.
LEMMA BookedRow ==
  ASSUME runs \in [Occ -> RunType], NEW o \in Occ,
         runs' = runs \/ runs' = [runs EXCEPT ![o].owes = FALSE]
  PROVE  /\ runs' \in [Occ -> RunType]
         /\ \A q \in Occ \ {o} : runs'[q] = runs[q]
         /\ runs'[o].status = runs[o].status
         /\ ~runs[o].owes => runs'[o] = runs[o]
         /\ runs[o] = NoRun => runs'[o] = NoRun
<1>1. runs[o] \in RunType
  OBVIOUS
<1>2. runs'[o] = runs[o] \/ runs'[o] = [runs[o] EXCEPT !.owes = FALSE]
  OBVIOUS
<1>3. [runs[o] EXCEPT !.owes = FALSE] \in RunType
  BY <1>1 DEF RunType
<1>4. ~runs[o].owes => [runs[o] EXCEPT !.owes = FALSE] = runs[o]
  BY <1>1 DEF RunType
<1>5. [runs[o] EXCEPT !.owes = FALSE].status = runs[o].status
  BY <1>1 DEF RunType
<1>6. NoRun.status = "absent" /\ NoRun.owes = FALSE
  BY DEF NoRun
<1> QED BY <1>1, <1>2, <1>3, <1>4, <1>5, <1>6

(***************************************************************************)
(* Types.                                                                  *)
(***************************************************************************)

\* What TypeOK says of the variables that a fire leaves alone.
RestOK ==
    /\ eraser \in [pc : {"idle", "asked", "unleased", "drained", "wiped"},
                   teardown : BOOLEAN]
    /\ suspend \in [pc : {"idle", "read", "held"}, enabled : BOOLEAN,
                    next : 0..(MaxDue + 1)]
    /\ live \subseteq Occ /\ running \subseteq live
    /\ sweep \in [Occ -> {"none", "jobless", "orphan"}] /\ late \subseteq Occ
    /\ clock \in 0..MaxDue /\ grace \in 0..clock
    /\ clicks \in 0..MaxClicks /\ edits \in 0..MaxEdits /\ suspends \in 0..MaxSuspends
    /\ tries \in [Occ -> 0..2] /\ fired \in [Occ -> SUBSET Editions]
    /\ wiped \subseteq Occ /\ wanted \in BOOLEAN

LEMMA TypeSplit ==
  TypeOK <=> /\ sched \in SchedType /\ runs \in [Occ -> RunType]
             /\ proc \in [Worker -> WorkType] /\ RestOK
BY DEF TypeOK, SchedType, RunType, WorkType, RestOK

\* The same of the next state.
LEMMA TypeSplitNext ==
  ASSUME sched' \in SchedType, runs' \in [Occ -> RunType],
         proc' \in [Worker -> WorkType], RestOK'
  PROVE  TypeOK'
BY DEF TypeOK, SchedType, RunType, WorkType, RestOK

LEMMA ExceptFireKeepsRest ==
  ASSUME RestOK, ExceptFire
  PROVE  RestOK'
BY DEF RestOK, ExceptFire, time, count, hist, sweeps

\* A skip is recorded in a row of its own, if there is none; any row stays one.
LEMMA SkippedRow ==
  ASSUME runs \in [Occ -> RunType], proc \in [Worker -> WorkType], Claimed,
         NEW w \in Worker, RecordSkippedRun(w)
  PROVE  /\ proc[w].occ \in Occ
         /\ runs' \in [Occ -> RunType]
         /\ \A q \in Occ \ {proc[w].occ} : runs'[q] = runs[q]
         /\ runs[proc[w].occ] # NoRun => runs'[proc[w].occ] = runs[proc[w].occ]
         /\ runs[proc[w].occ] = NoRun => runs'[proc[w].occ].status \in Skipped
         /\ runs'[proc[w].occ].status = "absent" => runs[proc[w].occ].status = "absent"
<1> DEFINE o == proc[w].occ
           s == proc[w].pc
<1>1. s \in Skipped /\ o \in Occ /\ proc[w].rev \in Editions
  BY DEF RecordSkippedRun, Claimed, At, Skipped, WorkType
<1>2. s \in Statuses /\ s # "absent"
  BY <1>1 DEF Statuses, Skipped
<1> DEFINE r == [NoRun EXCEPT !.status = s, !.rev = proc[w].rev, !.owes = (s = "unfunded")]
<1>3. r \in RunType /\ r.status = s
  BY <1>1, <1>2 DEF RunType, NoRun
<1>4. runs' = [runs EXCEPT ![o] = IF runs[o] = NoRun THEN r ELSE runs[o]]
  BY DEF RecordSkippedRun
<1> HIDE DEF r
<1> QED BY <1>1, <1>2, <1>3, <1>4

\* Its worker goes on, to the bookkeeping or to the advance, or fails.
LEMMA SkippedProc ==
  ASSUME proc \in [Worker -> WorkType], runs \in [Occ -> RunType], Claimed,
         NEW w \in Worker, RecordSkippedRun(w)
  PROVE  /\ proc' \in [Worker -> WorkType]
         /\ proc'[w].pc \in {"book", "advance", "idle"}
         /\ proc'[w].pc # "idle" => proc'[w].occ = proc[w].occ /\ proc'[w].skips = proc[w].skips
         /\ \A v \in Worker \ {w} : proc'[v] = proc[v]
<1>1. proc[w].occ \in Occ /\ runs' \in [Occ -> RunType]
  BY SkippedRow
<1>2. CASE proc' = [proc EXCEPT ![w].pc = "book", ![w].rev = runs'[proc[w].occ].rev]
  <2>1. runs'[proc[w].occ].rev \in Editions /\ "book" \in PCs
    BY <1>1 DEF RunType, PCs
  <2> DEFINE n == runs'[proc[w].occ].rev
             q == [proc[w] EXCEPT !.pc = "book", !.rev = n]
  <2>2. proc' = [proc EXCEPT ![w] = q]
    BY <1>2
  <2> HIDE DEF n
  <2>3. q \in WorkType /\ q.pc = "book" /\ q.occ = proc[w].occ /\ q.skips = proc[w].skips
    BY <2>1 DEF WorkType, n
  <2> HIDE DEF q
  <2> QED BY <2>2, <2>3
<1>3. CASE Goto(w, "advance") \/ Goto(w, "idle")
  BY <1>3, GotoFacts, SkipsFacts DEF PCs
<1> QED BY <1>2, <1>3 DEF RecordSkippedRun

\* The steps of claiming and firing keep the types.
LEMMA FireTypes ==
  ASSUME TypeOK, Claimed, NEW w \in Worker,
         ClaimDueSchedule(w) \/ AcquireManualRunLease(w) \/ Fire(w) \/ Crash(w)
  PROVE  TypeOK'
<1>0. /\ sched \in SchedType /\ runs \in [Occ -> RunType]
      /\ proc \in [Worker -> WorkType] /\ RestOK
  BY TypeSplit
<1>1. CASE ClaimDueSchedule(w)
  <2>1. sched' \in SchedType /\ runs' = runs
    BY <1>0, <1>1, TakenFacts DEF ClaimDueSchedule
  <2>2. /\ sched.next \in Occ /\ clock + 1 \in 0..(MaxDue + 1)
        /\ sched.agent \in Editions /\ edits \in Editions /\ Misfired \in BOOLEAN
    BY <1>0, <1>1 DEF ClaimDueSchedule, RestOK, Occ, Due, SchedType, Misfired, Editions
  <2>3. [pc    |-> IF Misfired THEN "advance" ELSE "preflight",
         occ   |-> sched.next, agent |-> sched.agent, rev |-> edits,
         to    |-> clock + 1, skips |-> Misfired] \in WorkType
    BY <2>2 DEF WorkType, PCs
  <2>4. proc' \in [Worker -> WorkType]
    BY <1>0, <1>1, <2>3 DEF ClaimDueSchedule
  <2> QED BY <1>0, <1>1, <2>1, <2>4, TypeSplitNext, ExceptFireKeepsRest DEF ClaimDueSchedule
<1>2. CASE AcquireManualRunLease(w)
  <2>1. sched' \in SchedType /\ runs' = runs
    BY <1>0, <1>2, TakenFacts DEF AcquireManualRunLease
  <2>2. /\ clicks' \in 0..MaxClicks /\ MaxDue + clicks' \in Occ
        /\ sched.agent \in Editions /\ edits \in Editions
    BY <1>0, <1>2 DEF AcquireManualRunLease, RestOK, Occ, Click, SchedType, Editions
  <2>3. [pc |-> "preflight", occ |-> MaxDue + clicks', agent |-> sched.agent,
         rev |-> edits, to |-> Unset, skips |-> FALSE] \in WorkType
    <3>1. Unset \in 0..(MaxDue + 1) /\ "preflight" \in PCs
      BY DEF Unset, PCs
    <3> QED BY <2>2, <3>1 DEF WorkType
  <2>4. proc' \in [Worker -> WorkType]
    BY <1>0, <1>2, <2>3 DEF AcquireManualRunLease
  <2>5. RestOK'
    BY <1>0, <1>2, <2>2 DEF AcquireManualRunLease, RestOK, time, hist, sweeps
  <2> QED BY <1>0, <2>1, <2>4, <2>5, TypeSplitNext
<1>3. CASE Fire(w)
  <2>0. /\ \A l \in PCs : Goto(w, l) => proc' \in [Worker -> WorkType]
        /\ \A l \in PCs : Skip(w, l) => proc' \in [Worker -> WorkType]
    BY <1>0, GotoFacts, SkipFacts
  <2>1. CASE RefuseByPolicy(w)
    <3>1. sched' \in SchedType
      BY <1>0, <2>1, SchedFacts DEF RefuseByPolicy
    <3>2. proc' \in [Worker -> WorkType] /\ runs' = runs
      BY <2>0, <2>1 DEF RefuseByPolicy, PCs
    <3> QED BY <1>0, <2>1, <3>1, <3>2, TypeSplitNext, ExceptFireKeepsRest DEF RefuseByPolicy
  <2>2. CASE OutOfBalance(w)
    <3>1. proc' \in [Worker -> WorkType] /\ sched' = sched /\ runs' = runs
      BY <2>0, <2>2, AsideFacts DEF OutOfBalance, PCs, store
    <3> QED BY <1>0, <2>2, <3>1, TypeSplitNext, ExceptFireKeepsRest DEF OutOfBalance
  <2>3. CASE Preflighted(w)
    <3>1. proc' \in [Worker -> WorkType] /\ sched' = sched /\ runs' = runs
      BY <2>0, <2>3, AsideFacts DEF Preflighted, PCs, store
    <3> QED BY <1>0, <2>3, <3>1, TypeSplitNext, ExceptFireKeepsRest DEF Preflighted
  <2>4. CASE RecordSkippedRun(w)
    <3>1. runs' \in [Occ -> RunType] /\ sched' = sched /\ proc[w].occ \in Occ
      BY <1>0, <2>4, SkippedRow DEF RecordSkippedRun
    <3>2. proc' \in [Worker -> WorkType]
      BY <1>0, <2>4, SkippedProc
    <3> QED BY <1>0, <2>4, <3>1, <3>2, TypeSplitNext, ExceptFireKeepsRest DEF RecordSkippedRun
  <2>13. CASE BookSkippedRun(w)
    <3>1. proc' \in [Worker -> WorkType]
      BY <2>0, <2>13 DEF BookSkippedRun, PCs
    <3>2. proc[w].occ \in Occ
      BY <2>13 DEF BookSkippedRun, At, Claimed
    <3>3. runs' = runs \/ runs' = [runs EXCEPT ![proc[w].occ].owes = FALSE]
      BY <2>13 DEF BookSkippedRun
    <3>4. runs' \in [Occ -> RunType] /\ sched' \in SchedType
      BY <1>0, <2>13, <3>2, <3>3, BookedRow, BookedFacts DEF BookSkippedRun
    <3> QED BY <1>0, <2>13, <3>1, <3>4, TypeSplitNext, ExceptFireKeepsRest DEF BookSkippedRun
  <2>5. CASE ReserveStartedRun(w)
    <3>1. proc' \in [Worker -> WorkType] /\ sched' = sched
      BY <2>0, <2>5, AsideFacts DEF ReserveStartedRun, PCs
    <3>2. Reservation(w) \in RunType
      BY <1>0, ReservationFacts
    <3>3. runs' \in [Occ -> RunType]
      BY <1>0, <2>5, <3>2 DEF ReserveStartedRun
    <3> QED BY <1>0, <2>5, <3>1, <3>3, TypeSplitNext, ExceptFireKeepsRest DEF ReserveStartedRun
  <2>6. CASE Recheck(w)
    <3>1. proc' \in [Worker -> WorkType] /\ sched' = sched /\ runs' = runs
      BY <2>0, <2>6 DEF Recheck, PCs, store
    <3> QED BY <1>0, <2>6, <3>1, TypeSplitNext, ExceptFireKeepsRest DEF Recheck
  <2>7. CASE RollbackReservation(w)
    <3>1. proc' \in [Worker -> WorkType] /\ sched' = sched
      BY <2>0, <2>7, AsideFacts DEF RollbackReservation
    <3>2. NoRun \in RunType
      BY DEF NoRun, RunType, Statuses, Editions
    <3>3. runs' \in [Occ -> RunType]
      BY <1>0, <2>7, <3>2 DEF RollbackReservation
    <3> QED BY <1>0, <2>7, <3>1, <3>3, TypeSplitNext, ExceptFireKeepsRest DEF RollbackReservation
  <2>8. CASE LeaveForRetry(w)
    <3>1. proc' \in [Worker -> WorkType] /\ sched' = sched /\ runs' = runs
      BY <2>0, <2>8, AsideFacts DEF LeaveForRetry, store
    <3> QED BY <1>0, <2>8, <3>1, TypeSplitNext, ExceptFireKeepsRest DEF LeaveForRetry
  <2>9. CASE Dispatch(w)
    <3>1. proc' \in [Worker -> WorkType] /\ sched' = sched /\ runs' = runs
      BY <2>0, <2>9 DEF Dispatch, PCs, store
    <3>2. proc[w].occ \in Occ /\ proc[w].agent \in Editions
      BY <1>0, <2>9 DEF Dispatch, At, Claimed, WorkType
    <3>3. tries' \in [Occ -> 0..2]
      BY <1>0, <2>9, <3>2, TriedFacts DEF Dispatch, RestOK
    <3>4. fired' \in [Occ -> SUBSET Editions] /\ live' \subseteq Occ
      BY <1>0, <2>9, <3>2 DEF Dispatch, RestOK
    <3>5. RestOK'
      BY <1>0, <2>9, <3>3, <3>4 DEF Dispatch, RestOK, time, count, sweeps
    <3> QED BY <1>0, <3>1, <3>5, TypeSplitNext
  <2>10. CASE DispatchRejected(w)
    <3>1. proc' \in [Worker -> WorkType]
      BY <2>0, <2>10, AsideFacts DEF DispatchRejected, PCs
    <3>2. proc[w].occ \in Occ
      BY <2>10 DEF DispatchRejected, At, Claimed
    <3>a. Outcome(proc[w].occ) \/ UNCHANGED <<sched, runs>>
      BY <2>10 DEF DispatchRejected, store
    <3>b. (\E b \in BOOLEAN : runs' = Settled(proc[w].occ, "settled", b)) \/ runs' = runs
      BY <1>0, <3>2, <3>a, OutcomeFacts
    <3>3. runs' \in [Occ -> RunType]
      BY <1>0, <3>2, <3>b, SettledFacts
    <3>4. sched' \in SchedType
      BY <1>0, <3>2, <3>a, OutcomeFacts
    <3>5. tries' \in [Occ -> 0..2]
      BY <1>0, <2>10, <3>2, TriedFacts DEF DispatchRejected, RestOK
    <3>6. RestOK'
      BY <1>0, <2>10, <3>5 DEF DispatchRejected, RestOK, time, count, sweeps
    <3> QED BY <3>1, <3>3, <3>4, <3>6, TypeSplitNext
  <2>11. CASE Advance(w)
    <3>1. proc' \in [Worker -> WorkType] /\ runs' = runs
      BY <2>0, <2>11 DEF Advance, PCs
    <3>2. Freed(sched) \in SchedType /\ proc[w].to \in 0..(MaxDue + 1)
      BY <1>0, SchedFacts DEF WorkType
    <3>3. [Freed(sched) EXCEPT !.next = proc[w].to] \in SchedType
      BY <3>2 DEF SchedType
    <3>4. sched' \in SchedType
      BY <1>0, <2>11, <3>2, <3>3 DEF Advance
    <3> QED BY <1>0, <2>11, <3>1, <3>4, TypeSplitNext, ExceptFireKeepsRest DEF Advance
  <2>12. CASE ReleaseLeaseByHolder(w)
    <3>1. proc' \in [Worker -> WorkType] /\ runs' = runs
      BY <2>0, <2>12 DEF ReleaseLeaseByHolder, PCs
    <3>2. sched' \in SchedType
      BY <1>0, <2>12, SchedFacts DEF ReleaseLeaseByHolder
    <3> QED BY <1>0, <2>12, <3>1, <3>2, TypeSplitNext, ExceptFireKeepsRest DEF ReleaseLeaseByHolder
  <2> QED BY <1>3, <2>1, <2>2, <2>3, <2>4, <2>5, <2>6, <2>7, <2>8, <2>9, <2>10, <2>11, <2>12,
             <2>13
          DEF Fire
<1>4. CASE Crash(w)
  <2>1. proc' \in [Worker -> WorkType] /\ sched' = sched /\ runs' = runs
    BY <1>0, <1>4, GotoFacts DEF Crash, PCs, store
  <2> QED BY <1>0, <1>4, <2>1, TypeSplitNext, ExceptFireKeepsRest DEF Crash
<1> QED BY <1>1, <1>2, <1>3, <1>4

\* So do the owner's steps, and those of an account deletion.
Owners == Edit \/ ArmSchedule \/ MarkScheduleDeleting \/ SuspendRead \/ SuspendWrite \/ Restore

LEMMA OwnerTypes ==
  ASSUME TypeOK, Owners
  PROVE  /\ TypeOK' /\ runs' = runs /\ proc' = proc
         /\ UNCHANGED <<live, running, sweep, late, tries, wiped>>
<1>0. /\ sched \in SchedType /\ runs \in [Occ -> RunType]
      /\ proc \in [Worker -> WorkType] /\ RestOK
  BY TypeSplit
<1>1. Rotated(sched) \in SchedType
  BY <1>0, SchedFacts
<1>2. runs' = runs /\ proc' = proc /\ UNCHANGED <<live, running, sweep, late, tries, wiped>>
  BY DEF Owners, Edit, ArmSchedule, MarkScheduleDeleting, SuspendRead, SuspendWrite, Restore,
         ExceptOwner, hist, sweeps
<1>a. Unset \in 0..(MaxDue + 1)
  BY DEF Unset
<1>3. CASE Edit
  <2>1. PICK on \in BOOLEAN, retime \in BOOLEAN, other \in BOOLEAN,
             now \in {clock - 1, clock} \cap Nat :
               /\ wanted' = IF on = sched.enabled THEN wanted ELSE on
               /\ sched' = [Rotated(sched) EXCEPT
                               !.enabled = on,
                               !.agent = IF other THEN edits' ELSE @,
                               !.next = IF on /\ (retime \/ @ = Unset) THEN now + 1 ELSE @]
    BY <1>3 DEF Edit
  <2>2. edits' \in 0..MaxEdits /\ now + 1 \in 0..(MaxDue + 1)
    BY <1>0, <1>3 DEF Edit, RestOK
  <2>3. edits' \in Editions
    BY <2>2 DEF Editions
  <2> DEFINE r == Rotated(sched)
             a == IF other THEN edits' ELSE r.agent
             n == IF on /\ (retime \/ r.next = Unset) THEN now + 1 ELSE r.next
  <2>4. a \in Editions /\ n \in 0..(MaxDue + 1)
    BY <1>1, <2>2, <2>3 DEF SchedType
  <2>5. sched' = [r EXCEPT !.enabled = on, !.agent = a, !.next = n]
    BY <1>1, <2>1 DEF SchedType
  <2>6. sched' \in SchedType
    <3> HIDE DEF r, a, n
    <3>1. r \in SchedType
      BY <1>1 DEF r
    <3> QED BY <2>4, <2>5, <3>1 DEF SchedType
  <2>7. wanted' \in BOOLEAN
    BY <1>0, <2>1 DEF RestOK
  <2>8. RestOK'
    BY <1>0, <1>3, <2>2, <2>7 DEF Edit, ExceptOwner, RestOK, time, sweeps
  <2> QED BY <1>0, <1>2, <2>6, <2>8, TypeSplitNext
<1>4. CASE ArmSchedule
  <2>1. PICK now \in {clock - 1, clock} \cap Nat : sched' = [sched EXCEPT !.next = now + 1]
    BY <1>4 DEF ArmSchedule
  <2>2. sched' \in SchedType
    BY <1>0, <2>1 DEF SchedType, RestOK
  <2>3. RestOK'
    BY <1>0, <1>4 DEF ArmSchedule, ExceptOwner, RestOK, time, hist, sweeps
  <2> QED BY <1>0, <1>2, <2>2, <2>3, TypeSplitNext
<1>5. CASE MarkScheduleDeleting
  <2>1. sched' \in SchedType
    BY <1>1, <1>a, <1>5 DEF MarkScheduleDeleting, SchedType
  <2>2. RestOK'
    BY <1>0, <1>5 DEF MarkScheduleDeleting, ExceptOwner, RestOK, time, hist, sweeps
  <2> QED BY <1>0, <1>2, <2>1, <2>2, TypeSplitNext
<1>6. CASE SuspendRead
  <2>1. suspends' \in 0..MaxSuspends
    BY <1>0, <1>6 DEF SuspendRead, RestOK
  <2>2. suspend' \in [pc : {"idle", "read", "held"}, enabled : BOOLEAN, next : 0..(MaxDue + 1)]
    BY <1>0, <1>6 DEF SuspendRead, SchedType
  <2>3. RestOK'
    BY <1>0, <1>6, <2>1, <2>2 DEF SuspendRead, ExceptOwner, RestOK, time, hist, sweeps
  <2> QED BY <1>0, <1>2, <1>6, <2>3, TypeSplitNext DEF SuspendRead
<1>7. CASE SuspendWrite
  <2>1. sched' \in SchedType
    BY <1>1, <1>a, <1>7 DEF SuspendWrite, SchedType
  <2>2. suspend' \in [pc : {"idle", "read", "held"}, enabled : BOOLEAN, next : 0..(MaxDue + 1)]
    BY <1>0, <1>7 DEF SuspendWrite, RestOK
  <2>3. RestOK'
    BY <1>0, <1>7, <2>2 DEF SuspendWrite, ExceptOwner, RestOK, time, hist, sweeps
  <2> QED BY <1>0, <1>2, <2>1, <2>3, TypeSplitNext
<1>8. CASE Restore
  <2>1. suspend.enabled \in BOOLEAN /\ suspend.next \in 0..(MaxDue + 1)
    BY <1>0 DEF RestOK
  <2>2. sched' \in SchedType
    BY <1>1, <1>8, <2>1 DEF Restore, SchedType
  <2>3. suspend' \in [pc : {"idle", "read", "held"}, enabled : BOOLEAN, next : 0..(MaxDue + 1)]
    BY <1>8 DEF Restore, NoHold, Unset
  <2>4. RestOK'
    BY <1>0, <1>8, <2>3 DEF Restore, ExceptOwner, RestOK, time, hist, sweeps
  <2> QED BY <1>0, <1>2, <2>2, <2>4, TypeSplitNext
<1> QED BY <1>2, <1>3, <1>4, <1>5, <1>6, <1>7, <1>8 DEF Owners

\* So do those of the runs, of the erasure and of time.
Ends(o)     == RecordScheduleOutcome(o) \/ ReconcileRetained(o)
Waits(o)    == Pause(o) \/ MarkRunResumeClaimed(o)
RunSteps(o) == Start(o) \/ Ends(o) \/ FinalizeBookkeeping(o) \/ Sweep(o) \/ Waits(o)
EraserSteps == SweepDeleting \/ EraseUnlessLeased \/ EraseUnlessActive \/ EraseRuns
               \/ EraseSchedule \/ EraseFails
TimeSteps   == Tick \/ GraceEnds \/ LeaseLapses \/ MarginEnds

\* What they do to the rows, the schedule, and what is under way.
LEMMA RunFacts ==
  ASSUME TypeOK, NEW o \in Occ, RunSteps(o)
  PROVE  /\ runs' \in [Occ -> RunType] /\ sched' \in SchedType
         /\ sched' = sched \/ sched' = Disabled(sched)
         /\ \A q \in Occ \ {o} : runs'[q] = runs[q]
         /\ runs'[o].status = "absent" => runs[o].status = "absent"
         /\ live' \subseteq live
         /\ UNCHANGED <<proc, suspend, time, count, tries, fired, wanted, wiped>>
<1>0. sched \in SchedType /\ runs \in [Occ -> RunType]
  BY TypeSplit
<1>1. CASE Start(o)
  BY <1>0, <1>1 DEF Start, ExceptRun, store
<1>2. CASE Ends(o)
  <2>1. Outcome(o) /\ live' \subseteq live
        /\ UNCHANGED <<proc, suspend, time, count, tries, fired, wanted, wiped>>
    BY <1>2 DEF Ends, RecordScheduleOutcome, ReconcileRetained, ExceptRun
  <2>2. PICK b \in BOOLEAN : runs' = Settled(o, "settled", b)
    BY <1>0, <2>1, OutcomeFacts
  <2> QED BY <1>0, <2>1, <2>2, OutcomeFacts, SettledFacts
<1>3. CASE FinalizeBookkeeping(o)
  <2>1. /\ runs' = runs \/ runs' = [runs EXCEPT ![o].owes = FALSE]
        /\ sched' \in Booked(runs[o].rev) /\ live' = live /\ runs[o].owes
        /\ UNCHANGED <<proc, suspend, time, count, tries, fired, wanted, wiped>>
    BY <1>3 DEF FinalizeBookkeeping, ExceptRun
  <2>2. sched' \in SchedType /\ (sched' = sched \/ sched' = Disabled(sched))
    BY <1>0, <2>1, BookedFacts
  <2> QED BY <1>0, <2>1, <2>2, BookedRow
<1>4. CASE Sweep(o)
  <2>1. /\ runs' = runs \/ runs' = Settled(o, "swept", FALSE)
        /\ sched' = sched /\ live' = live
        /\ UNCHANGED <<proc, suspend, time, count, tries, fired, wanted, wiped>>
    BY <1>4 DEF Sweep, LookForJob, LookForDelivery, SettleOrphan, ExceptSweep, ExceptRun
  <2> QED BY <1>0, <2>1, SettledFacts
<1>5. CASE Waits(o)
  <2>1. /\ sched' = sched /\ live' = live
        /\ UNCHANGED <<proc, suspend, time, count, tries, fired, wanted, wiped>>
    BY <1>5 DEF Waits, Pause, MarkRunResumeClaimed, ExceptRun
  <2>2. PICK st \in Active, p \in Worker \cup {Nobody} :
           runs' = [runs EXCEPT ![o] = [runs[o] EXCEPT !.status = st, !.by = p]]
    <3>1. CASE Pause(o)
      BY <3>1 DEF Pause, Active
    <3>2. CASE MarkRunResumeClaimed(o)
      <4>1. runs[o].by \in Worker \cup {Nobody}
        BY <1>0 DEF RunType
      <4>2. [runs[o] EXCEPT !.status = "started"]
              = [runs[o] EXCEPT !.status = "started", !.by = runs[o].by]
        BY <1>0 DEF RunType
      <4>3. runs' = [runs EXCEPT ![o] = [runs[o] EXCEPT !.status = "started"]]
        BY <3>2 DEF MarkRunResumeClaimed
      <4> QED BY <4>1, <4>2, <4>3 DEF Active
    <3> QED BY <1>5, <3>1, <3>2 DEF Waits
  <2> DEFINE n == [runs[o] EXCEPT !.status = st, !.by = p]
  <2>3. n \in RunType /\ n.status = st
    BY <1>0 DEF RunType, Statuses
  <2>4. runs' = [runs EXCEPT ![o] = n]
    BY <2>2
  <2> HIDE DEF n
  <2> QED BY <1>0, <2>1, <2>3, <2>4 DEF Active
<1> QED BY <1>1, <1>2, <1>3, <1>4, <1>5 DEF RunSteps

LEMMA RunTypes ==
  ASSUME TypeOK, NEW o \in Occ, RunSteps(o)
  PROVE  TypeOK'
<1>0. /\ sched \in SchedType /\ runs \in [Occ -> RunType]
      /\ proc \in [Worker -> WorkType] /\ RestOK
  BY TypeSplit
<1>1. /\ runs' \in [Occ -> RunType] /\ sched' \in SchedType /\ live' \subseteq live
      /\ UNCHANGED <<proc, suspend, time, count, tries, fired, wanted, wiped>>
  BY RunFacts
<1>2. running' \subseteq live'
  BY <1>0 DEF RestOK, RunSteps, Ends, Waits, Sweep, Start, RecordScheduleOutcome,
     ReconcileRetained, FinalizeBookkeeping, LookForJob, LookForDelivery, SettleOrphan,
     Pause, MarkRunResumeClaimed, ExceptSweep
<1>3. late' \subseteq Occ
  BY <1>0 DEF RestOK, RunSteps, Ends, Waits, Sweep, Start, RecordScheduleOutcome,
     ReconcileRetained, FinalizeBookkeeping, LookForJob, LookForDelivery, SettleOrphan,
     Pause, MarkRunResumeClaimed, ExceptSweep, sweeps
<1>4. sweep' \in [Occ -> {"none", "jobless", "orphan"}]
  BY <1>0 DEF RestOK, RunSteps, Ends, Waits, Sweep, Start, RecordScheduleOutcome,
     ReconcileRetained, FinalizeBookkeeping, LookForJob, LookForDelivery, SettleOrphan,
     Pause, MarkRunResumeClaimed, ExceptSweep, sweeps
<1>6. [Asleep EXCEPT !.pc = "asked"] \in
        [pc : {"idle", "asked", "unleased", "drained", "wiped"}, teardown : BOOLEAN]
  BY DEF Asleep
<1>7. eraser' \in [pc : {"idle", "asked", "unleased", "drained", "wiped"}, teardown : BOOLEAN]
  BY <1>0, <1>6 DEF RestOK, RunSteps, Ends, Waits, Sweep, Start, RecordScheduleOutcome,
     ReconcileRetained, FinalizeBookkeeping, LookForJob, LookForDelivery, SettleOrphan,
     Pause, MarkRunResumeClaimed, ExceptSweep
<1>9. RestOK'
  BY <1>0, <1>1, <1>2, <1>3, <1>4, <1>7 DEF RestOK, time, count
<1> QED BY <1>0, <1>1, <1>9, TypeSplitNext

LEMMA EraserTypes ==
  ASSUME TypeOK, EraserSteps
  PROVE  TypeOK'
<1>0. /\ sched \in SchedType /\ runs \in [Occ -> RunType]
      /\ proc \in [Worker -> WorkType] /\ RestOK
  BY TypeSplit
<1>1. UNCHANGED <<proc, live, running, sweep, late, suspend, time, count, tries, fired, wanted>>
  BY DEF EraserSteps, SweepDeleting, EraseUnlessLeased, EraseUnlessActive, EraseRuns,
         EraseSchedule, EraseFails, ExceptRun, sweeps
<1>2. NoRun \in RunType
  BY DEF NoRun, RunType, Statuses, Editions
<1>3. runs' \in [Occ -> RunType] /\ wiped' \subseteq Occ
  BY <1>0, <1>2 DEF EraserSteps, SweepDeleting, EraseUnlessLeased, EraseUnlessActive, EraseRuns,
                    EraseSchedule, EraseFails, store, RestOK
<1>4. Freed(sched) \in SchedType
  BY <1>0, SchedFacts
<1>5. [Freed(sched) EXCEPT !.deleting = "erased"] \in SchedType
  BY <1>4 DEF SchedType
<1>6. sched' \in SchedType
  BY <1>0, <1>5 DEF EraserSteps, SweepDeleting, EraseUnlessLeased, EraseUnlessActive, EraseRuns,
                    EraseSchedule, EraseFails, store
<1> DEFINE EraserType == [pc : {"idle", "asked", "unleased", "drained", "wiped"},
                          teardown : BOOLEAN]
<1>7. eraser' \in EraserType
  <2>1. Asleep \in EraserType /\ [Asleep EXCEPT !.pc = "asked"] \in EraserType
    BY DEF Asleep
  <2>2. \A t \in BOOLEAN : [pc |-> "unleased", teardown |-> t] \in EraserType
    OBVIOUS
  <2>3. eraser \in EraserType
    BY <1>0 DEF RestOK
  <2>4. /\ [eraser EXCEPT !.pc = "drained"] \in EraserType
        /\ [eraser EXCEPT !.pc = "wiped"] \in EraserType
    BY <2>3
  <2> HIDE DEF EraserType
  <2>5. CASE EraseUnlessLeased
    <3> DEFINE t == sched.deleting = "marked"
    <3>1. [pc |-> "unleased", teardown |-> t] \in EraserType
      BY <2>2
    <3> QED BY <2>1, <2>5, <3>1 DEF EraseUnlessLeased
  <2>6. CASE SweepDeleting \/ EraseUnlessActive \/ EraseRuns \/ EraseSchedule \/ EraseFails
    BY <2>1, <2>4, <2>6 DEF SweepDeleting, EraseUnlessActive, EraseRuns, EraseSchedule, EraseFails
  <2> QED BY <2>5, <2>6 DEF EraserSteps
<1>8. RestOK'
  BY <1>0, <1>1, <1>3, <1>7 DEF RestOK, time, count
<1> QED BY <1>0, <1>1, <1>3, <1>6, <1>8, TypeSplitNext

LEMMA TimeTypes ==
  ASSUME TypeOK, TimeSteps
  PROVE  TypeOK'
<1>0. /\ sched \in SchedType /\ runs \in [Occ -> RunType]
      /\ proc \in [Worker -> WorkType] /\ RestOK
  BY TypeSplit
<1>1. UNCHANGED <<runs, proc, eraser, suspend, live, running, sweeps, count, hist>>
  BY DEF TimeSteps, Tick, GraceEnds, LeaseLapses, MarginEnds, ExceptTime
<1>2. sched' \in SchedType
  BY <1>0 DEF TimeSteps, Tick, GraceEnds, LeaseLapses, MarginEnds, SchedType, Leases
<1>3. clock' \in 0..MaxDue /\ grace' \in 0..clock'
  BY <1>0 DEF TimeSteps, Tick, GraceEnds, LeaseLapses, MarginEnds, RestOK, time
<1>4. RestOK'
  BY <1>0, <1>1, <1>3 DEF RestOK, count, hist, sweeps
<1> QED BY <1>0, <1>1, <1>2, <1>4, TypeSplitNext

(***************************************************************************)
(* The claims, the rows and what the queue has been asked.                 *)
(***************************************************************************)

\* A step keeps them that asks the queue nothing, brings nobody to a new
\* reservation, takes no row from an occurrence that has been tried unless it
\* is counted as wiped, and changes no row that a reservation stands on.
LEMMA CoreKept ==
  ASSUME TypeOK, CoreInv,
         tries' = tries, wiped \subseteq wiped', live' \subseteq live,
         \A v \in Worker : proc'[v].pc # "idle" => proc'[v].occ \in Occ,
         \A v \in Worker : proc'[v].pc \in Reserved =>
            /\ proc[v].pc \in Reserved
            /\ proc'[v].occ = proc[v].occ /\ proc'[v].rev = proc[v].rev,
         \A v \in Worker : proc'[v].pc \in Reserved /\ proc[v].occ \notin wiped' =>
            runs'[proc[v].occ] = runs[proc[v].occ],
         \A q \in Occ \ wiped' : /\ tries[q] > 0 \/ sweep[q] # "none"
                                 /\ runs'[q].status = "absent"
                                 => runs[q].status = "absent",
         \A q \in Occ \ wiped' : sweep'[q] # "none" =>
            \/ sweep[q] # "none"
            \/ /\ runs[q].status # "absent" /\ runs' = runs
               /\ \A v \in Worker : ~(proc[v].occ = q /\ proc[v].pc \in Reserved)
  PROVE  CoreInv'
<1>1. Claimed'
  BY DEF Claimed, At
<1>2. OwnRow'
  <2> SUFFICES ASSUME NEW v \in Worker, proc'[v].pc \in Reserved, proc'[v].occ \notin wiped'
               PROVE  runs'[proc'[v].occ] = Reservation(v)' /\ tries'[proc'[v].occ] = 0
    BY DEF OwnRow
  <2>1. proc[v].pc \in Reserved /\ proc'[v].occ = proc[v].occ /\ proc[v].occ \notin wiped
    OBVIOUS
  <2>2. runs[proc[v].occ] = Reservation(v) /\ tries[proc[v].occ] = 0
    BY <2>1 DEF CoreInv, OwnRow
  <2> QED BY <2>1, <2>2 DEF Reservation
<1>3. TriedHasRow' /\ AliveIsTried' /\ FiredOncePerRow'
  BY DEF CoreInv, TriedHasRow, AliveIsTried, FiredOncePerRow
<1>4. SweptHasRow'
  BY DEF CoreInv, SweptHasRow
<1> QED BY <1>1, <1>2, <1>3, <1>4 DEF CoreInv

\* A row that its worker stands on is its own, has not been tried, and nothing is
\* under way.
LEMMA OwnRowFacts ==
  ASSUME TypeOK, CoreInv, NEW w \in Worker, proc[w].pc \in Reserved, proc[w].occ \notin wiped
  PROVE  /\ runs[proc[w].occ] = Reservation(w)
         /\ runs[proc[w].occ].by = w /\ runs[proc[w].occ].status = "started"
         /\ runs[proc[w].occ].rev = proc[w].rev /\ ~runs[proc[w].occ].owes
         /\ tries[proc[w].occ] = 0 /\ proc[w].occ \notin live
<1>1. runs[proc[w].occ] = Reservation(w) /\ tries[proc[w].occ] = 0
  BY DEF CoreInv, OwnRow
<1>2. proc[w].occ \notin live
  BY <1>1 DEF CoreInv, AliveIsTried
<1>3. proc \in [Worker -> WorkType]
  BY TypeParts
<1> QED BY <1>1, <1>2, <1>3, ReservationFacts

\* Whoever stands on a row that is not wiped stands on it alone.
LEMMA OneOwner ==
  ASSUME TypeOK, CoreInv, NEW v \in Worker, NEW w \in Worker,
         proc[v].pc \in Reserved, proc[w].pc \in Reserved,
         proc[v].occ = proc[w].occ, proc[w].occ \notin wiped
  PROVE  v = w
BY OwnRowFacts

\* A worker's step that only moves it keeps them, unless to a new reservation.
LEMMA MoveKeeps ==
  ASSUME TypeOK, CoreInv, NEW w \in Worker,
         runs' = runs, tries' = tries, wiped' = wiped, live' = live, sweep' = sweep,
         \A v \in Worker \ {w} : proc'[v] = proc[v],
         proc'[w].pc # "idle" => proc'[w].occ \in Occ,
         proc'[w].pc \in Reserved => /\ proc[w].pc \in Reserved
                                     /\ proc'[w].occ = proc[w].occ /\ proc'[w].rev = proc[w].rev
  PROVE  CoreInv'
<1>1. \A v \in Worker : proc'[v].pc # "idle" => proc'[v].occ \in Occ
  BY DEF CoreInv, Claimed, At
<1> QED BY <1>1, CoreKept

\* Asking the queue for an occurrence that was reserved keeps them.
LEMMA AskKeeps ==
  ASSUME TypeOK, CoreInv, NEW w \in Worker, At(w, "dispatch"),
         NEW o \in Occ, o = proc[w].occ,
         tries' = Tried(o), wiped' = wiped, live' \subseteq live \cup {o}, sweep' = sweep,
         \A q \in Occ \ {o} : runs'[q] = runs[q],
         runs'[o].status = "absent" => runs[o].status = "absent",
         proc'[w].pc \notin Reserved, proc'[w].pc # "idle" => proc'[w].occ \in Occ,
         \A v \in Worker \ {w} : proc'[v] = proc[v]
  PROVE  CoreInv'
<1>0. /\ tries \in [Occ -> 0..2] /\ live \subseteq Occ
      /\ proc[w].pc \in Reserved
  BY DEF TypeOK, At, Reserved
<1>1. /\ tries'[o] > 0 /\ (tries[o] = 0 => tries'[o] = 1)
      /\ \A q \in Occ \ {o} : tries'[q] = tries[q]
  BY <1>0, TriedFacts
<1>2. o \notin wiped => tries[o] = 0 /\ runs[o].status # "absent"
  BY <1>0, OwnRowFacts
<1>3. Claimed'
  BY DEF CoreInv, Claimed, At
<1>4. OwnRow'
  <2> SUFFICES ASSUME NEW v \in Worker, proc'[v].pc \in Reserved, proc'[v].occ \notin wiped'
               PROVE  runs'[proc'[v].occ] = Reservation(v)' /\ tries'[proc'[v].occ] = 0
    BY DEF OwnRow
  <2>1. v # w /\ proc'[v] = proc[v]
    OBVIOUS
  <2>2. proc[v].occ # o
    BY <1>0, <2>1, OneOwner
  <2>3. proc[v].occ \in Occ
    BY <2>1 DEF CoreInv, Claimed, At, Reserved
  <2>4. runs[proc[v].occ] = Reservation(v) /\ tries[proc[v].occ] = 0
    BY <2>1 DEF CoreInv, OwnRow
  <2> QED BY <1>1, <2>1, <2>2, <2>3, <2>4 DEF Reservation
<1>5. TriedHasRow'
  <2> SUFFICES ASSUME NEW q \in Occ \ wiped', tries'[q] > 0
               PROVE  runs'[q].status # "absent"
    BY DEF TriedHasRow
  <2>1. CASE q = o
    BY <1>2, <2>1
  <2>2. CASE q # o
    BY <1>1, <2>2 DEF CoreInv, TriedHasRow
  <2> QED BY <2>1, <2>2
<1>6. AliveIsTried'
  BY <1>0, <1>1 DEF CoreInv, AliveIsTried
<1>7. FiredOncePerRow'
  BY <1>1, <1>2 DEF CoreInv, FiredOncePerRow
<1>8. SweptHasRow'
  BY DEF CoreInv, SweptHasRow
<1> QED BY <1>3, <1>4, <1>5, <1>6, <1>7, <1>8 DEF CoreInv

\* A worker that reserves nothing may change its row, if no reservation stands on
\* it: a reserved row owes no bookkeeping.
LEMMA OneRowKeeps ==
  ASSUME TypeOK, CoreInv, NEW w \in Worker, NEW o \in Occ,
         tries' = tries, wiped' = wiped, live' = live, sweep' = sweep,
         \A q \in Occ \ {o} : runs'[q] = runs[q],
         runs[o] # NoRun /\ ~runs[o].owes => runs'[o] = runs[o],
         runs'[o].status = "absent" => runs[o].status = "absent",
         proc'[w].pc \notin Reserved, proc'[w].pc # "idle" => proc'[w].occ \in Occ,
         \A v \in Worker \ {w} : proc'[v] = proc[v]
  PROVE  CoreInv'
<1>1. /\ \A v \in Worker : proc'[v].pc # "idle" => proc'[v].occ \in Occ
      /\ \A v \in Worker : proc'[v].pc \in Reserved =>
           /\ proc[v].pc \in Reserved
           /\ proc'[v].occ = proc[v].occ /\ proc'[v].rev = proc[v].rev
  BY DEF CoreInv, Claimed, At
<1>2. ASSUME NEW v \in Worker, proc'[v].pc \in Reserved, proc[v].occ \notin wiped'
      PROVE  runs'[proc[v].occ] = runs[proc[v].occ]
  <2>1. v # w /\ proc[v].pc \in Reserved /\ proc[v].occ \in Occ
    BY <1>2 DEF CoreInv, Claimed, At, Reserved
  <2>2. /\ runs[proc[v].occ].status = "started" /\ ~runs[proc[v].occ].owes
        /\ NoRun.status = "absent"
    BY <1>2, <2>1, OwnRowFacts DEF NoRun
  <2> QED BY <2>1, <2>2
<1>3. \A q \in Occ \ wiped' : runs'[q].status = "absent" => runs[q].status = "absent"
  OBVIOUS
<1> QED BY <1>1, <1>2, <1>3, CoreKept

\* A reservation is of an occurrence that has no row, and was not tried.
LEMMA ReserveKeeps ==
  ASSUME TypeOK, CoreInv, NEW w \in Worker, NEW o \in Occ, o = proc[w].occ,
         At(w, "reserve"), ~Duplicate(o),
         runs' = [runs EXCEPT ![o] = Reservation(w)],
         Goto(w, "recheck"), tries' = tries, wiped' = wiped, live' = live, sweep' = sweep
  PROVE  CoreInv'
<1>0. runs \in [Occ -> RunType] /\ proc \in [Worker -> WorkType] /\ tries \in [Occ -> 0..2]
  BY TypeParts DEF TypeOK
<1>1. /\ proc'[w].occ = o /\ proc'[w].pc = "recheck" /\ proc'[w].rev = proc[w].rev
      /\ \A v \in Worker \ {w} : proc'[v] = proc[v]
  BY <1>0, GotoFacts DEF PCs
<1>2. runs[o].status = "absent"
  BY DEF Duplicate, NoRun
<1>3. /\ runs'[o] = Reservation(w) /\ runs'[o].status = "started"
      /\ \A q \in Occ \ {o} : runs'[q] = runs[q]
  BY <1>0, ReservationFacts
<1>4. o \notin wiped => tries[o] = 0
  BY <1>0, <1>2 DEF CoreInv, TriedHasRow
<1>5. Claimed'
  BY <1>1 DEF CoreInv, Claimed, At
<1>6. OwnRow'
  <2> SUFFICES ASSUME NEW v \in Worker, proc'[v].pc \in Reserved, proc'[v].occ \notin wiped'
               PROVE  runs'[proc'[v].occ] = Reservation(v)' /\ tries'[proc'[v].occ] = 0
    BY DEF OwnRow
  <2>1. CASE v = w
    BY <1>1, <1>3, <1>4, <2>1 DEF Reservation
  <2>2. CASE v # w
    <3>1. proc'[v] = proc[v] /\ proc[v].occ \in Occ
      BY <1>1, <2>2 DEF CoreInv, Claimed, At, Reserved
    <3>2. runs[proc[v].occ] = Reservation(v) /\ tries[proc[v].occ] = 0
      BY <3>1 DEF CoreInv, OwnRow
    <3>3. proc[v].occ # o
      BY <1>0, <1>2, <3>2, ReservationFacts
    <3> QED BY <1>3, <3>1, <3>2, <3>3 DEF Reservation
  <2> QED BY <2>1, <2>2
<1>7. TriedHasRow' /\ AliveIsTried' /\ FiredOncePerRow'
  BY <1>3, <1>4 DEF CoreInv, TriedHasRow, AliveIsTried, FiredOncePerRow
<1>8. SweptHasRow'
  <2>1. o \notin wiped => sweep[o] = "none"
    BY <1>2 DEF CoreInv, SweptHasRow
  <2> QED BY <1>1, <1>3, <2>1 DEF CoreInv, SweptHasRow
<1> QED BY <1>5, <1>6, <1>7, <1>8 DEF CoreInv

(***************************************************************************)
(* Every step keeps them.                                                  *)
(***************************************************************************)

LEMMA ClaimKeeps ==
  ASSUME TypeOK, CoreInv, NEW w \in Worker, ClaimDueSchedule(w) \/ AcquireManualRunLease(w)
  PROVE  CoreInv'
<1>0. proc \in [Worker -> WorkType] /\ runs' = runs /\ UNCHANGED <<tries, wiped, live, sweep>>
  BY TypeParts DEF ClaimDueSchedule, AcquireManualRunLease, ExceptFire, hist, sweeps
<1>1. proc'[w].pc \in {"preflight", "advance"} /\ proc'[w].occ \in Occ
  <2>1. CASE ClaimDueSchedule(w)
    <3>1. sched.next \in Occ
      BY <2>1 DEF ClaimDueSchedule, TypeOK, Occ, Due
    <3> QED BY <1>0, <2>1, <3>1 DEF ClaimDueSchedule
  <2>2. CASE AcquireManualRunLease(w)
    <3>1. MaxDue + clicks' \in Occ
      BY <2>2 DEF AcquireManualRunLease, TypeOK, Occ, Click
    <3> QED BY <1>0, <2>2, <3>1 DEF AcquireManualRunLease
  <2> QED BY <2>1, <2>2
<1>2. \A v \in Worker \ {w} : proc'[v] = proc[v]
  BY <1>0 DEF ClaimDueSchedule, AcquireManualRunLease
<1> QED BY <1>0, <1>1, <1>2, MoveKeeps DEF Reserved

\* The steps of a fire that leave the rows alone.
Moves(w) == \/ RefuseByPolicy(w) \/ OutOfBalance(w) \/ Preflighted(w) \/ Recheck(w)
            \/ LeaveForRetry(w) \/ Advance(w) \/ ReleaseLeaseByHolder(w) \/ Crash(w)

LEMMA FireKeeps ==
  ASSUME TypeOK, CoreInv, NEW w \in Worker, Fire(w) \/ Crash(w)
  PROVE  CoreInv'
<1>0. /\ proc \in [Worker -> WorkType] /\ runs \in [Occ -> RunType] /\ sched \in SchedType
      /\ live \subseteq Occ
  BY TypeParts DEF TypeOK
<1>1. ~At(w, "idle") /\ proc[w].occ \in Occ
  BY DEF Fire, Crash, RefuseByPolicy, OutOfBalance, Preflighted, RecordSkippedRun, BookSkippedRun,
         ReserveStartedRun, Recheck, RollbackReservation, LeaveForRetry, Dispatch,
         DispatchRejected, Advance, ReleaseLeaseByHolder, At, CoreInv, Claimed, Skipped
<1>2. \A l \in PCs \ Reserved : Goto(w, l) \/ Skip(w, l) =>
        /\ proc'[w].pc \notin Reserved
        /\ proc'[w].pc # "idle" => proc'[w].occ \in Occ
        /\ \A v \in Worker \ {w} : proc'[v] = proc[v]
  BY <1>0, <1>1, GotoFacts, SkipFacts
<1>3. {"idle", "unfunded", "overlap", "reserve", "advance", "giveup", Aside(w), Backoff(w)}
        \subseteq PCs \ Reserved
  BY AsideFacts DEF PCs, Reserved
<1>4. CASE Moves(w)
  <2>1. runs' = runs /\ UNCHANGED <<tries, wiped, live, sweep>>
    BY <1>4 DEF Moves, RefuseByPolicy, OutOfBalance, Preflighted, Recheck, LeaveForRetry, Advance,
                ReleaseLeaseByHolder, Crash, ExceptFire, store, hist, sweeps
  <2>2. CASE Recheck(w)
    <3>1. At(w, "recheck") /\ (Goto(w, "dispatch") \/ Goto(w, "rollback"))
      BY <2>2 DEF Recheck
    <3>2. /\ proc[w].pc \in Reserved /\ proc'[w].occ = proc[w].occ
          /\ proc'[w].rev = proc[w].rev
          /\ \A v \in Worker \ {w} : proc'[v] = proc[v]
      BY <1>0, <3>1, GotoFacts DEF At, Reserved, PCs
    <3> QED BY <1>1, <2>1, <3>2, MoveKeeps
  <2>3. CASE ~Recheck(w)
    <3>1. \E l \in PCs \ Reserved : Goto(w, l) \/ Skip(w, l)
      BY <1>3, <1>4, <2>3 DEF Moves, RefuseByPolicy, OutOfBalance, Preflighted, LeaveForRetry,
                             Advance, ReleaseLeaseByHolder, Crash
    <3> QED BY <1>2, <2>1, <3>1, MoveKeeps
  <2> QED BY <2>2, <2>3
<1>5. CASE RecordSkippedRun(w) \/ BookSkippedRun(w) \/ RollbackReservation(w)
  <2> DEFINE o == proc[w].occ
  <2>0. o \in Occ
    BY <1>1
  <2>1. tries' = tries /\ wiped' = wiped /\ live' = live /\ sweep' = sweep
    BY <1>5 DEF RecordSkippedRun, BookSkippedRun, RollbackReservation, ExceptFire, hist, sweeps
  <2>2. CASE RecordSkippedRun(w)
    <3>1. \A q \in Occ \ {o} : runs'[q] = runs[q]
      BY <1>0, <2>2, SkippedRow DEF CoreInv
    <3>2. runs[o] # NoRun => runs'[o] = runs[o]
      BY <1>0, <2>2, SkippedRow DEF CoreInv
    <3>3. runs'[o].status = "absent" => runs[o].status = "absent"
      BY <1>0, <2>2, SkippedRow DEF CoreInv
    <3>4. /\ proc'[w].pc \notin Reserved
          /\ proc'[w].pc # "idle" => proc'[w].occ \in Occ
          /\ \A v \in Worker \ {w} : proc'[v] = proc[v]
      BY <1>0, <1>1, <2>2, SkippedProc DEF CoreInv, Reserved
    <3> QED BY <2>0, <2>1, <3>1, <3>2, <3>3, <3>4, OneRowKeeps
  <2>3. CASE BookSkippedRun(w)
    <3>1. runs' = runs \/ runs' = [runs EXCEPT ![o].owes = FALSE]
      BY <2>3 DEF BookSkippedRun
    <3>2. /\ \A q \in Occ \ {o} : runs'[q] = runs[q]
          /\ runs'[o].status = runs[o].status
          /\ ~runs[o].owes => runs'[o] = runs[o]
      BY <1>0, <2>0, <3>1, BookedRow
    <3>3. Goto(w, "advance") \/ Goto(w, "idle")
      BY <2>3 DEF BookSkippedRun
    <3>4. /\ proc'[w].pc \notin Reserved
          /\ proc'[w].pc # "idle" => proc'[w].occ \in Occ
          /\ \A v \in Worker \ {w} : proc'[v] = proc[v]
      BY <1>2, <1>3, <3>3
    <3> QED BY <2>0, <2>1, <3>2, <3>4, OneRowKeeps
  <2>4. CASE RollbackReservation(w)
    <3>1. /\ runs' = [runs EXCEPT ![o] = IF runs[o].status = "started" /\ runs[o].by = w
                                         THEN NoRun ELSE runs[o]]
          /\ proc[w].pc \in Reserved /\ Goto(w, Aside(w))
      BY <2>4 DEF RollbackReservation, At, Reserved
    <3>2. \A q \in Occ \ {o} : runs'[q] = runs[q]
      BY <1>0, <3>1
    <3>3. runs[o].by # w => runs'[o] = runs[o]
      BY <1>0, <2>0, <3>1
    <3>4. /\ proc'[w].pc \notin Reserved
          /\ proc'[w].pc # "idle" => proc'[w].occ \in Occ
          /\ \A v \in Worker \ {w} : proc'[v] = proc[v]
      BY <1>2, <1>3, <3>1
    <3>5. o \notin wiped => tries[o] = 0 /\ sweep[o] = "none"
      BY <2>0, <3>1 DEF CoreInv, OwnRow, SweptHasRow
    <3>6. ASSUME NEW v \in Worker, proc'[v].pc \in Reserved, proc[v].occ \notin wiped'
          PROVE  runs'[proc[v].occ] = runs[proc[v].occ]
      <4>1. v # w /\ proc[v].pc \in Reserved /\ proc[v].occ \in Occ
        BY <3>4, <3>6 DEF CoreInv, Claimed, At, Reserved
      <4>2. runs[proc[v].occ].by = v
        BY <2>1, <3>6, <4>1, OwnRowFacts
      <4> QED BY <3>2, <3>3, <4>1, <4>2
    <3>7. /\ \A v \in Worker : proc'[v].pc # "idle" => proc'[v].occ \in Occ
          /\ \A v \in Worker : proc'[v].pc \in Reserved =>
               /\ proc[v].pc \in Reserved
               /\ proc'[v].occ = proc[v].occ /\ proc'[v].rev = proc[v].rev
      BY <3>4 DEF CoreInv, Claimed, At
    <3>8. \A q \in Occ \ wiped' : (tries[q] > 0 \/ sweep[q] # "none") => runs'[q] = runs[q]
      BY <1>0, <2>1, <3>2, <3>5 DEF TypeOK
    <3> QED BY <2>1, <3>6, <3>7, <3>8, CoreKept
  <2> QED BY <1>5, <2>2, <2>3, <2>4
<1>6. CASE ReserveStartedRun(w)
  <2>1. tries' = tries /\ wiped' = wiped /\ live' = live /\ sweep' = sweep
    BY <1>6 DEF ReserveStartedRun, ExceptFire, hist, sweeps
  <2>2. CASE Goto(w, "recheck") /\ ~Duplicate(proc[w].occ)
             /\ runs' = [runs EXCEPT ![proc[w].occ] = Reservation(w)]
    BY <1>1, <1>6, <2>1, <2>2, ReserveKeeps DEF ReserveStartedRun
  <2>3. CASE UNCHANGED runs /\ \E l \in PCs \ Reserved : Goto(w, l) \/ Skip(w, l)
    BY <1>2, <2>1, <2>3, MoveKeeps
  <2> QED BY <1>3, <1>6, <2>2, <2>3 DEF ReserveStartedRun
<1>7. CASE Dispatch(w) \/ DispatchRejected(w)
  <2> DEFINE o == proc[w].occ
  <2>1. /\ At(w, "dispatch") /\ tries' = Tried(o) /\ wiped' = wiped
        /\ live' \subseteq live \cup {o} /\ sweep' = sweep
    BY <1>7 DEF Dispatch, DispatchRejected, sweeps
  <2>2. \E l \in PCs \ Reserved : Goto(w, l)
    BY <1>3, <1>7 DEF Dispatch, DispatchRejected
  <2>3. runs' = runs \/ \E b \in BOOLEAN : runs' = Settled(o, "settled", b)
    BY <1>0, <1>1, <1>7, OutcomeFacts DEF Dispatch, DispatchRejected, store
  <2>4. /\ \A q \in Occ \ {o} : runs'[q] = runs[q]
        /\ runs'[o].status = "absent" => runs[o].status = "absent"
    BY <1>0, <1>1, <2>3, SettledFacts
  <2> QED BY <1>1, <1>2, <2>1, <2>2, <2>4, AskKeeps
<1> QED BY <1>4, <1>5, <1>6, <1>7 DEF Fire, Moves

LEMMA RunKeeps ==
  ASSUME TypeOK, CoreInv, NEW o \in Occ, RunSteps(o)
  PROVE  CoreInv'
<1>0. /\ proc' = proc /\ tries' = tries /\ wiped' = wiped /\ live' \subseteq live
      /\ \A q \in Occ \ {o} : runs'[q] = runs[q]
      /\ runs'[o].status = "absent" => runs[o].status = "absent"
  BY RunFacts
<1>1. proc \in [Worker -> WorkType]
  BY TypeParts
<1>2. \A q \in Occ \ wiped : sweep'[q] # "none" =>
            \/ sweep[q] # "none"
            \/ /\ runs[q].status # "absent" /\ runs' = runs
               /\ \A v \in Worker : ~(proc[v].occ = q /\ proc[v].pc \in Reserved)
  <2>1. sweep \in [Occ -> {"none", "jobless", "orphan"}]
    BY DEF TypeOK
  <2>2. CASE LookForJob(o)
    BY <2>1, <2>2 DEF LookForJob, Orphan, Active
  <2>3. CASE LookForDelivery(o) \/ SettleOrphan(o)
    BY <2>1, <2>3 DEF LookForDelivery, SettleOrphan
  <2>4. CASE ~Sweep(o)
    BY <2>4 DEF RunSteps, Ends, Waits, Start, RecordScheduleOutcome, ReconcileRetained,
       FinalizeBookkeeping, Pause, MarkRunResumeClaimed, sweeps
  <2> QED BY <2>2, <2>3, <2>4 DEF Sweep
<1>3. ASSUME NEW v \in Worker, proc[v].pc \in Reserved, proc[v].occ \notin wiped,
             proc[v].occ = o
      PROVE  runs' = runs
  <2>1. tries[o] = 0 /\ ~runs[o].owes /\ sweep[o] = "none"
    BY <1>1, <1>3, ReservationFacts DEF CoreInv, OwnRow, SweptHasRow
  <2>2. o \notin live
    BY <2>1 DEF CoreInv, AliveIsTried
  <2>3. running \subseteq live
    BY DEF TypeOK
  <2> QED BY <2>1, <2>2, <2>3
          DEF RunSteps, Ends, Waits, Sweep, Start, RecordScheduleOutcome, ReconcileRetained,
              FinalizeBookkeeping, LookForJob, LookForDelivery, SettleOrphan, Pause,
              MarkRunResumeClaimed, store
<1>4. \A v \in Worker : proc'[v].pc \in Reserved /\ proc[v].occ \notin wiped' =>
         runs'[proc[v].occ] = runs[proc[v].occ]
  BY <1>0, <1>3 DEF CoreInv, Claimed, At, Reserved
<1>5. \A v \in Worker : proc'[v].pc # "idle" => proc'[v].occ \in Occ
  BY <1>0 DEF CoreInv, Claimed, At
<1>6. \A q \in Occ \ wiped' : runs'[q].status = "absent" => runs[q].status = "absent"
  BY <1>0
<1> QED BY <1>0, <1>2, <1>4, <1>5, <1>6, CoreKept

\* The erasure takes every row at once, and what it takes is wiped.
LEMMA EraserKeeps ==
  ASSUME TypeOK, CoreInv, EraserSteps
  PROVE  CoreInv'
<1>1. proc' = proc /\ tries' = tries /\ live' = live /\ sweep' = sweep
  BY DEF EraserSteps, SweepDeleting, EraseUnlessLeased, EraseUnlessActive, EraseRuns,
         EraseSchedule, EraseFails, ExceptRun, sweeps
<1>2. CASE EraseRuns
  <2>1. /\ runs' = [q \in Occ |-> NoRun]
        /\ wiped' = wiped \cup {q \in Occ : runs[q] # NoRun}
    BY <1>2 DEF EraseRuns
  <2>2. \A q \in Occ \ wiped' : runs[q] = NoRun /\ runs'[q] = NoRun
    BY <2>1
  <2>3. \A v \in Worker : proc'[v].pc # "idle" => proc'[v].occ \in Occ
    BY <1>1 DEF CoreInv, Claimed, At
  <2>4. \A v \in Worker : proc'[v].pc \in Reserved => proc[v].occ \in Occ
    BY <1>1, <2>3 DEF Reserved
  <2> QED BY <1>1, <2>1, <2>2, <2>3, <2>4, CoreKept
<1>3. CASE ~EraseRuns
  <2>1. runs' = runs /\ wiped' = wiped
    BY <1>3 DEF EraserSteps, SweepDeleting, EraseUnlessLeased, EraseUnlessActive,
                EraseSchedule, EraseFails, store
  <2>2. \A v \in Worker : proc'[v].pc # "idle" => proc'[v].occ \in Occ
    BY <1>1 DEF CoreInv, Claimed, At
  <2> QED BY <1>1, <2>1, <2>2, CoreKept
<1> QED BY <1>2, <1>3

\* What leaves rows, workers and the queue alone keeps them.
LEMMA StillKeeps ==
  ASSUME CoreInv, UNCHANGED <<runs, proc, live, sweep, tries, wiped>>
  PROVE  CoreInv'
BY DEF CoreInv, Claimed, OwnRow, Reservation, TriedHasRow, AliveIsTried, SweptHasRow,
       FiredOncePerRow, At

LEMMA StepKeeps == IInv /\ [Next]_vars => IInv'
<1> SUFFICES ASSUME TypeOK, CoreInv, [Next]_vars
             PROVE  TypeOK' /\ CoreInv'
  BY InvParts DEF IInv, CoreInv
<1>1. ASSUME NEW w \in Worker,
             ClaimDueSchedule(w) \/ AcquireManualRunLease(w) \/ Fire(w) \/ Crash(w)
      PROVE  TypeOK' /\ CoreInv'
  BY <1>1, FireTypes, ClaimKeeps, FireKeeps DEF CoreInv
<1>2. CASE Owners
  BY <1>2, OwnerTypes, StillKeeps
<1>3. ASSUME NEW o \in Occ, RunSteps(o)
      PROVE  TypeOK' /\ CoreInv'
  BY <1>3, RunTypes, RunKeeps
<1>4. CASE EraserSteps
  BY <1>4, EraserTypes, EraserKeeps
<1>5. CASE TimeSteps
  <2>1. UNCHANGED <<runs, proc, live, sweep, tries, wiped>>
    BY <1>5 DEF TimeSteps, Tick, GraceEnds, LeaseLapses, MarginEnds, ExceptTime, hist, sweeps
  <2> QED BY <1>5, <2>1, TimeTypes, StillKeeps
<1>6. CASE UNCHANGED vars
  <2>1. UNCHANGED <<runs, proc, live, sweep, tries, wiped>>
    BY <1>6 DEF vars, store, hist, sweeps
  <2>2. TypeOK'
    BY <1>6 DEF TypeOK, vars, store, hist, time, count, sweeps
  <2> QED BY <2>1, <2>2, StillKeeps
<1> QED BY <1>1, <1>2, <1>3, <1>4, <1>5, <1>6
        DEF Next, Owners, RunSteps, Ends, Waits, EraserSteps, TimeSteps

(***************************************************************************)
(* The theorems.                                                           *)
(***************************************************************************)

\* IInv holds throughout: the types, each worker's claim on its own row, and
\* the row of everything the queue was asked for.
THEOREM Invariant == Spec => []IInv
<1>1. Init => IInv
  BY InitKeeps
<1>2. IInv /\ [Next]_vars => IInv'
  BY StepKeeps
<1> QED BY <1>1, <1>2, PTL DEF Spec

\* The documents, the workers and the history keep their shape.
THEOREM TypeCorrect == Spec => []TypeOK
<1>1. IInv => TypeOK
  BY InvParts
<1> QED BY <1>1, Invariant, PTL

\* However many workers claim, crash, are superseded and claim again, the queue
\* is asked at most once for an occurrence as long as the run row that fireSchedule
\* reserved for it has not been erased.
THEOREM FiredOnceWhileRowStands == Spec => []FiredOncePerRow
<1>1. IInv => FiredOncePerRow
  BY DEF IInv
<1> QED BY <1>1, Invariant, PTL

\* A step that moves worker w is a step of w.
LEMMA WhoMoves ==
  ASSUME TypeOK, CoreInv, NEW w \in Worker, proc'[w] # proc[w], [Next]_vars
  PROVE  ClaimDueSchedule(w) \/ AcquireManualRunLease(w) \/ Fire(w) \/ Crash(w)
<1>0. proc \in [Worker -> WorkType] /\ runs \in [Occ -> RunType]
  BY TypeParts
<1>1. ASSUME NEW v \in Worker, v # w,
             ClaimDueSchedule(v) \/ AcquireManualRunLease(v) \/ Fire(v) \/ Crash(v)
      PROVE  proc'[w] = proc[w]
  <2>1. CASE ClaimDueSchedule(v) \/ AcquireManualRunLease(v)
    BY <1>0, <1>1, <2>1 DEF ClaimDueSchedule, AcquireManualRunLease
  <2>2. CASE Fire(v) \/ Crash(v)
    <3>1. {"idle", "unfunded", "overlap", "reserve", "recheck", "rollback", "dispatch", "advance",
           "giveup", Aside(v), Backoff(v)} \subseteq PCs
      BY AsideFacts DEF PCs
    <3>2. RecordSkippedRun(v) \/ \E l \in PCs : Goto(v, l) \/ Skip(v, l)
      BY <2>2, <3>1 DEF Fire, Crash, RefuseByPolicy, OutOfBalance, Preflighted, BookSkippedRun,
             ReserveStartedRun, Recheck, RollbackReservation, LeaveForRetry, Dispatch,
             DispatchRejected, Advance, ReleaseLeaseByHolder
    <3>3. CASE RecordSkippedRun(v)
      BY <1>0, <1>1, <3>3, SkippedProc DEF CoreInv
    <3> QED BY <1>0, <1>1, <3>2, <3>3, GotoFacts, SkipFacts
  <2> QED BY <1>1, <2>1, <2>2
<1>2. CASE Owners
  BY <1>2, OwnerTypes
<1>3. ASSUME NEW o \in Occ, RunSteps(o)
      PROVE  proc' = proc
  BY <1>3, RunFacts
<1>4. CASE EraserSteps
  BY <1>4 DEF EraserSteps, SweepDeleting, EraseUnlessLeased, EraseUnlessActive, EraseRuns,
              EraseSchedule, EraseFails, ExceptRun
<1>5. CASE TimeSteps
  BY <1>5 DEF TimeSteps, Tick, GraceEnds, LeaseLapses, MarginEnds, ExceptTime
<1>6. CASE UNCHANGED vars
  BY <1>6 DEF vars
<1> QED BY <1>1, <1>2, <1>3, <1>4, <1>5, <1>6
        DEF Next, Owners, RunSteps, Ends, Waits, EraserSteps, TimeSteps

\* A fire whose claim was superseded, by an edit, a suspension, a deletion or a
\* takeover, can only take its own lease away: the policy's disable, the release
\* and the advance are fenced on the claim's token, the last release on its holder.
\* The bookkeeping of its skip or of its failure is fenced on the revision of its
\* row: it turns the schedule off only if the owner has not edited it since.
THEOREM Superseded == Spec => SupersededIsHarmless
<1> DEFINE Harmless == \A w \in Worker : Steps(w) /\ sched.token # w =>
                         \/ sched' = sched
                         \/ sched.holder = w /\ sched' = Freed(sched)
                         \/ Books(w) /\ sched' = Disabled(sched)
<1>1. IInv /\ [Next]_vars => Harmless
  <2> SUFFICES ASSUME TypeOK, CoreInv, [Next]_vars, NEW w \in Worker, Steps(w), sched.token # w
               PROVE  \/ sched' = sched
                      \/ sched.holder = w /\ sched' = Freed(sched)
                      \/ Books(w) /\ sched' = Disabled(sched)
    BY InvParts
  <2>1. Fire(w) \/ Crash(w)
    BY WhoMoves DEF Steps, ClaimDueSchedule, AcquireManualRunLease
  <2>2. CASE DispatchRejected(w)
    <3>1. /\ Outcome(proc[w].occ) \/ sched' = sched
          /\ At(w, "dispatch") /\ proc[w].pc \in Reserved
      BY <2>2 DEF DispatchRejected, store, At, Reserved
    <3>2. \/ sched' = sched
          \/ runs[proc[w].occ].rev = edits /\ sched' = Disabled(sched)
      BY <3>1 DEF Outcome, Booked
    <3>3. proc[w].occ \notin wiped => runs[proc[w].occ].rev = proc[w].rev
      BY <3>1, OwnRowFacts
    <3> QED BY <3>1, <3>2, <3>3 DEF Books
  <2>3. CASE BookSkippedRun(w)
    BY <2>3 DEF BookSkippedRun, Booked, Books
  <2>4. CASE Dispatch(w)
    BY <2>4 DEF Dispatch, store
  <2> QED BY <2>1, <2>2, <2>3, <2>4
          DEF Fire, Crash, RefuseByPolicy, OutOfBalance, Preflighted, RecordSkippedRun,
              ReserveStartedRun, Recheck, RollbackReservation, LeaveForRetry, Advance,
              ReleaseLeaseByHolder, ReleaseLease, AdvanceSchedule, HoldsLease, store
<1> HIDE DEF Harmless
<1>2. Spec => [][Harmless]_vars
  BY <1>1, Invariant, PTL DEF Spec
<1> QED BY <1>2 DEF SupersededIsHarmless, Harmless

(***************************************************************************)
(* Leases.                                                                 *)
(***************************************************************************)

\* Whoever has the claim has the lease, or nobody has; a lease that nobody took
\* is nobody's; and a schedule being deleted is off.
LeaseInv == /\ sched.token # Nobody => sched.holder \in {sched.token, Nobody}
            /\ sched.lease = "none" => sched.holder = Nobody
            /\ sched.deleting # "no" => ~sched.enabled

\* What releasing, rotating, disabling and claiming do to the fields.
LEMMA FreedFields ==
  ASSUME NEW s \in SchedType
  PROVE  /\ Freed(s).holder = Nobody /\ Freed(s).token = s.token
         /\ Freed(s).enabled = s.enabled /\ Freed(s).deleting = s.deleting
         /\ Disabled(s).holder = Nobody /\ Disabled(s).enabled = FALSE
         /\ Rotated(s).token = Nobody /\ Rotated(s).holder = s.holder
         /\ Rotated(s).lease = s.lease
BY DEF SchedType, Freed, Disabled, Rotated

LEMMA TakenFields ==
  ASSUME sched \in SchedType, NEW w \in Worker
  PROVE  /\ Taken(w).holder = w /\ Taken(w).token = w /\ Taken(w).lease = "live"
         /\ Taken(w).enabled = sched.enabled /\ Taken(w).deleting = sched.deleting
BY DEF SchedType, Taken

\* How a step can change the schedule: not at all, by a claim, by a disable, by
\* releasing the lease of a claim that holds, by the erasure, by the owner, or by
\* time.
ByClaim    == /\ LeaseFree
              /\ sched.deleting = "no"
              /\ \E w \in Worker : sched' = Taken(w) /\ proc'[w] # proc[w]
ByDisable  == sched' = Disabled(sched)
ByRelease  == /\ \E w \in Worker : w \in {sched.token, sched.holder} /\ proc'[w] # proc[w]
              /\ \E n \in 0..(MaxDue + 1) :
                    sched' = Freed(sched) \/ sched' = [Freed(sched) EXCEPT !.next = n]
ByErasure  == /\ sched.deleting = "marked"
              /\ sched' = [Freed(sched) EXCEPT !.deleting = "erased"]
ByOwner    == /\ sched'.holder = sched.holder /\ sched'.lease = sched.lease
              /\ sched'.token = Nobody \/ sched'.token = sched.token
              /\ sched'.deleting # "no" => ~sched'.enabled
ByTime     == /\ sched.lease # "none"
              /\ \E l \in {"margin", "over"} : sched' = [sched EXCEPT !.lease = l]

LEMMA FireChanges ==
  ASSUME TypeOK, NEW w \in Worker,
         ClaimDueSchedule(w) \/ AcquireManualRunLease(w) \/ Fire(w) \/ Crash(w)
  PROVE  sched' = sched \/ ByClaim \/ ByDisable \/ ByRelease
<1>0. sched \in SchedType /\ proc \in [Worker -> WorkType]
  BY TypeParts
<1>1. CASE ClaimDueSchedule(w) \/ AcquireManualRunLease(w)
  <2>1. proc'[w].pc \in {"preflight", "advance"} /\ proc[w].pc = "idle"
    BY <1>0, <1>1 DEF ClaimDueSchedule, AcquireManualRunLease, At
  <2> QED BY <1>1, <2>1 DEF ByClaim, ClaimDueSchedule, AcquireManualRunLease
<1>2. CASE Advance(w) \/ ReleaseLeaseByHolder(w)
  <2>1. proc[w].pc \in {"advance", "giveup"} /\ proc[w].to \in 0..(MaxDue + 1)
    BY <1>0, <1>2 DEF Advance, ReleaseLeaseByHolder, At, WorkType
  <2>2. sched' = sched \/ Goto(w, "idle")
    BY <1>2 DEF Advance, ReleaseLeaseByHolder
  <2>3. Goto(w, "idle") => proc'[w] # proc[w]
    <3>1. Goto(w, "idle") => proc'[w].pc = "idle"
      BY <1>0, GotoFacts DEF PCs
    <3> QED BY <2>1, <3>1
  <2> QED BY <1>2, <2>1, <2>2, <2>3
          DEF Advance, ReleaseLeaseByHolder, ReleaseLease, AdvanceSchedule, HoldsLease, ByRelease
<1>3. CASE ~(ClaimDueSchedule(w) \/ AcquireManualRunLease(w) \/ Advance(w) \/ ReleaseLeaseByHolder(w))
  BY <1>3 DEF Fire, Crash, RefuseByPolicy, OutOfBalance, Preflighted, RecordSkippedRun,
         BookSkippedRun, ReserveStartedRun, Recheck, RollbackReservation, LeaveForRetry, Dispatch,
         DispatchRejected, Outcome, Booked, store, ByDisable
<1> QED BY <1>1, <1>2, <1>3

LEMMA OtherChanges ==
  ASSUME TypeOK, LeaseInv,
         Owners \/ (\E o \in Occ : RunSteps(o)) \/ EraserSteps \/ TimeSteps \/ UNCHANGED vars
  PROVE  sched' = sched \/ ByDisable \/ ByErasure \/ ByOwner \/ ByTime
<1>0. sched \in SchedType /\ Rotated(sched) \in SchedType
  BY TypeParts, SchedFacts
<1>1. CASE Edit
  <2> DEFINE r == Rotated(sched)
  <2>1. r \in SchedType /\ r.token = Nobody /\ r.holder = sched.holder /\ r.lease = sched.lease
        /\ r.deleting = "no"
    BY <1>0, <1>1, FreedFields DEF Edit, Rotated, SchedType
  <2>2. PICK on \in BOOLEAN, retime \in BOOLEAN, other \in BOOLEAN,
             now \in {clock - 1, clock} \cap Nat :
               sched' = [r EXCEPT !.enabled = on,
                                  !.agent = IF other THEN edits' ELSE @,
                                  !.next = IF on /\ (retime \/ @ = Unset) THEN now + 1 ELSE @]
    BY <1>1 DEF Edit
  <2> HIDE DEF r
  <2>3. /\ sched'.token = Nobody /\ sched'.holder = sched.holder
        /\ sched'.lease = sched.lease /\ sched'.deleting = "no"
    BY <2>1, <2>2 DEF SchedType
  <2> QED BY <2>3 DEF ByOwner
<1>2. CASE ArmSchedule
  BY <1>0, <1>2 DEF ArmSchedule, SchedType, ByOwner
<1>3. CASE MarkScheduleDeleting
  BY <1>0, <1>3, FreedFields DEF MarkScheduleDeleting, SchedType, ByOwner
<1>4. CASE SuspendWrite
  BY <1>0, <1>4, FreedFields DEF SuspendWrite, SchedType, ByOwner
<1>5. CASE Restore
  <2> DEFINE r == Rotated(sched)
  <2>1. r \in SchedType /\ r.token = Nobody /\ r.holder = sched.holder /\ r.lease = sched.lease
        /\ r.deleting = "no"
    BY <1>0, <1>5, FreedFields DEF Restore, Rotated, SchedType
  <2>2. sched' = [r EXCEPT !.enabled = suspend.enabled, !.next = suspend.next]
    BY <1>5 DEF Restore
  <2> HIDE DEF r
  <2> QED BY <2>1, <2>2 DEF ByOwner, SchedType
<1>6. CASE SuspendRead
  BY <1>6 DEF SuspendRead
<1>7. ASSUME NEW o \in Occ, RunSteps(o)
      PROVE  sched' = sched \/ ByDisable
  BY <1>7, RunFacts DEF ByDisable
<1>8. CASE EraserSteps
  BY <1>8 DEF EraserSteps, SweepDeleting, EraseUnlessLeased, EraseUnlessActive, EraseRuns,
              EraseSchedule, EraseFails, store, ByErasure
<1>9. CASE TimeSteps
  BY <1>9 DEF TimeSteps, Tick, GraceEnds, LeaseLapses, MarginEnds, ByTime
<1>10. CASE UNCHANGED vars
  BY <1>10 DEF vars, store
<1> QED BY <1>1, <1>2, <1>3, <1>4, <1>5, <1>6, <1>7, <1>8, <1>9, <1>10 DEF Owners

Changes == sched' = sched \/ ByClaim \/ ByDisable \/ ByRelease \/ ByErasure \/ ByOwner \/ ByTime

LEMMA StepChanges == TypeOK /\ LeaseInv /\ [Next]_vars => Changes
BY FireChanges, OtherChanges
   DEF Next, Owners, RunSteps, Ends, Waits, EraserSteps, TimeSteps, Changes

LEMMA LeaseStep ==
  ASSUME TypeOK, LeaseInv, Changes
  PROVE  /\ LeaseInv'
         /\ \A w \in Worker : sched.holder = w /\ sched'.holder # w =>
               \/ proc'[w] # proc[w]
               \/ sched'.holder = Nobody /\ ~sched'.enabled
               \/ sched'.holder # Nobody /\ sched.lease = "over"
<1>0. sched \in SchedType /\ Freed(sched) \in SchedType
  BY TypeParts, SchedFacts
<1>1. CASE sched' = sched
  BY <1>1 DEF LeaseInv
<1>2. CASE ByClaim
  <2>1. PICK v \in Worker : sched' = Taken(v) /\ proc'[v] # proc[v]
    BY <1>2 DEF ByClaim
  <2>2. sched'.holder = v /\ sched'.token = v /\ sched'.lease = "live"
        /\ sched'.deleting = "no"
    BY <1>0, <1>2, <2>1, TakenFields DEF ByClaim
  <2>3. LeaseFree
    BY <1>2 DEF ByClaim
  <2> QED BY <2>1, <2>2, <2>3 DEF LeaseInv, LeaseFree
<1>3. CASE ByDisable
  <2>1. sched'.holder = Nobody /\ sched'.enabled = FALSE
    BY <1>0, <1>3, FreedFields DEF ByDisable
  <2> QED BY <2>1 DEF LeaseInv
<1>4. CASE ByRelease
  <2>1. /\ sched'.holder = Nobody /\ sched'.enabled = sched.enabled
        /\ sched'.deleting = sched.deleting
    <3>1. PICK n \in 0..(MaxDue + 1) :
            sched' = Freed(sched) \/ sched' = [Freed(sched) EXCEPT !.next = n]
      BY <1>4 DEF ByRelease
    <3>2. /\ Freed(sched).holder = Nobody /\ Freed(sched).enabled = sched.enabled
          /\ Freed(sched).deleting = sched.deleting
      BY <1>0, FreedFields
    <3> QED BY <1>0, <3>1, <3>2 DEF SchedType
  <2>2. PICK v \in Worker : v \in {sched.token, sched.holder} /\ proc'[v] # proc[v]
    BY <1>4 DEF ByRelease
  <2> QED BY <2>1, <2>2 DEF LeaseInv
<1>5. CASE ByErasure
  <2>1. Freed(sched).holder = Nobody /\ Freed(sched).enabled = sched.enabled
    BY <1>0, FreedFields
  <2>2. sched'.holder = Nobody /\ sched'.enabled = sched.enabled
    BY <1>0, <1>5, <2>1 DEF ByErasure, SchedType
  <2> QED BY <1>5, <2>2 DEF ByErasure, LeaseInv
<1>6. CASE ByOwner
  BY <1>6 DEF ByOwner, LeaseInv
<1>7. CASE ByTime
  <2>1. PICK l \in {"margin", "over"} : sched' = [sched EXCEPT !.lease = l]
    BY <1>7 DEF ByTime
  <2>2. /\ sched'.holder = sched.holder /\ sched'.token = sched.token
        /\ sched'.lease # "none" /\ sched'.deleting = sched.deleting
        /\ sched'.enabled = sched.enabled
    BY <1>0, <2>1 DEF SchedType
  <2> QED BY <2>2 DEF LeaseInv
<1> QED BY <1>1, <1>2, <1>3, <1>4, <1>5, <1>6, <1>7 DEF Changes

\* A worker's lease ends by its own step, by a disable or the erasure of the
\* schedule, or when another takes it after it has lapsed: no release, advance or
\* edit takes the lease of a fire that is under way.
THEOREM LeaseIsKept == Spec => LeaseIsOnesOwn
<1> DEFINE OnesOwn == \A w \in Worker : sched.holder = w /\ sched'.holder # w =>
                        \/ proc'[w] # proc[w]
                        \/ sched'.holder = Nobody /\ ~sched'.enabled
                        \/ sched'.holder # Nobody /\ sched.lease = "over"
<1>1. Init => LeaseInv
  BY DEF Init, LeaseInv
<1>2. TypeOK /\ LeaseInv /\ [Next]_vars => LeaseInv' /\ OnesOwn
  BY StepChanges, LeaseStep
<1> HIDE DEF OnesOwn
<1>3. Spec => [][OnesOwn]_vars
  BY <1>1, <1>2, TypeCorrect, PTL DEF Spec
<1> QED BY <1>3 DEF LeaseIsOnesOwn, OnesOwn

(***************************************************************************)
(* Rows, and the erasure.                                                  *)
(***************************************************************************)

\* A deletion is not taken back.
LEMMA DeletingStays ==
  ASSUME TypeOK, [Next]_vars, sched.deleting # "no"
  PROVE  sched'.deleting # "no"
<1>0. sched \in SchedType /\ Freed(sched) \in SchedType
  BY TypeParts, SchedFacts
<1>1. /\ Freed(sched).deleting = sched.deleting
      /\ Disabled(sched).deleting = sched.deleting
  BY <1>0 DEF Freed, Disabled, SchedType
<1>2. ASSUME NEW w \in Worker,
             ClaimDueSchedule(w) \/ AcquireManualRunLease(w) \/ Fire(w) \/ Crash(w)
      PROVE  sched'.deleting # "no"
  <2>1. sched' = sched \/ ByDisable \/ ByRelease
    BY <1>2, FireChanges DEF ByClaim
  <2>2. ASSUME ByRelease
        PROVE  sched'.deleting = sched.deleting
    <3>1. PICK n \in 0..(MaxDue + 1) :
            sched' = Freed(sched) \/ sched' = [Freed(sched) EXCEPT !.next = n]
      BY <2>2 DEF ByRelease
    <3> QED BY <1>0, <1>1, <3>1 DEF SchedType
  <2> QED BY <1>1, <2>1, <2>2 DEF ByDisable
<1>3. ~Owners
  BY DEF Owners, Edit, ArmSchedule, MarkScheduleDeleting, SuspendRead, SuspendWrite, Restore
<1>4. ASSUME NEW o \in Occ, RunSteps(o)
      PROVE  sched'.deleting # "no"
  <2>1. sched' = sched \/ sched' = Disabled(sched)
    BY <1>4, RunFacts
  <2> QED BY <1>1, <2>1
<1>5. CASE EraserSteps
  <2>1. sched' = sched \/ sched' = [Freed(sched) EXCEPT !.deleting = "erased"]
    BY <1>5 DEF EraserSteps, SweepDeleting, EraseUnlessLeased, EraseUnlessActive, EraseRuns,
                EraseSchedule, EraseFails, store
  <2> QED BY <1>0, <2>1 DEF SchedType
<1>6. CASE TimeSteps
  <2>1. sched' = sched \/ \E l \in Leases : sched' = [sched EXCEPT !.lease = l]
    BY <1>6 DEF TimeSteps, Tick, GraceEnds, LeaseLapses, MarginEnds, Leases
  <2> QED BY <1>0, <2>1 DEF SchedType
<1>7. CASE UNCHANGED vars
  BY <1>7 DEF vars, store
<1> QED BY <1>2, <1>3, <1>4, <1>5, <1>6, <1>7
        DEF Next, Owners, RunSteps, Ends, Waits, EraserSteps, TimeSteps

\* What a step does to a row that is not wiped: it is left alone but for what it
\* owes, skipped, reserved, rolled back before the queue was asked, paused or
\* resumed, settled with its run over, or swept.  What was tried stays tried, and
\* what comes alive has a started row that no sweep has come to.
RowStep(o) ==
    /\ tries[o] > 0 => tries'[o] > 0
    /\ o \in live' => \/ o \in live
                      \/ runs'[o].status = "started" /\ sweep'[o] = "none"
    /\ o \in live' /\ o \in late /\ runs[o].status = "swept" => o \in late'
    /\ \/ runs'[o].status = runs[o].status /\ (runs[o] = NoRun => runs'[o] = NoRun)
       \/ runs[o] = NoRun /\ runs'[o].status \in Skipped \cup {"started"}
       \/ runs'[o] = NoRun /\ runs[o].status = "started" /\ tries[o] = 0 /\ o \notin live'
       \/ runs[o].status \in Active /\ runs'[o].status \in Active
       \/ /\ runs[o].status \in Active /\ runs'[o].status = "settled"
          /\ tries'[o] > 0 /\ o \notin live'
       \/ /\ runs[o].status \in Active /\ runs'[o].status = "swept" /\ sweep'[o] = "none"
          /\ o \notin live' \/ o \in late' \/ sched'.deleting # "no"

\* And to a sweep: it is over, or where it was, or it has found no job, or then no
\* delivery either.  What has begun meanwhile is noted.
SweepStep(o) ==
    /\ o \in running' => o \in running \/ (sweep'[o] # "none" => o \in late')
    /\ \/ sweep'[o] = "none"
       \/ sweep'[o] = sweep[o] /\ (o \in late /\ o \in live' => o \in late')
       \/ /\ sweep'[o] = "jobless" /\ o \notin running'
          /\ runs'[o] = runs[o] /\ runs[o].status \in Active
       \/ /\ sweep'[o] = "orphan" /\ sweep[o] = "jobless" /\ runs'[o] = runs[o]
          /\ o \notin live' \/ o \in late' \/ sched'.deleting # "no"
          /\ o \in late => o \in late'

\* Rows of runs under way are active, or swept as said; an absent row is no row at
\* all; whatever settled had been tried; and a sweep that goes on has not settled
\* its row, knows what began since its first look, and found no delivery.
RowInv == /\ SettledIsOver
          /\ \A o \in Occ \ wiped : runs[o].status = "absent" => runs[o] = NoRun
          /\ \A o \in Occ \ wiped : runs[o].status = "settled" => tries[o] > 0
          /\ \A o \in Occ \ wiped : sweep[o] # "none" =>
                /\ runs[o].status # "swept"
                /\ o \in running => o \in late
          /\ \A o \in Occ \ wiped : sweep[o] = "orphan" =>
                o \notin live \/ o \in late \/ sched.deleting # "no"

LEMMA FireRows ==
  ASSUME TypeOK, CoreInv, NEW w \in Worker,
         ClaimDueSchedule(w) \/ AcquireManualRunLease(w) \/ Fire(w) \/ Crash(w)
  PROVE  /\ wiped' = wiped /\ UNCHANGED <<running, sweep, late>>
         /\ \A q \in Occ \ wiped : RowStep(q)
<1>0. /\ runs \in [Occ -> RunType] /\ tries \in [Occ -> 0..2]
      /\ proc \in [Worker -> WorkType]
  BY TypeParts DEF TypeOK
<1>1. CASE ClaimDueSchedule(w) \/ AcquireManualRunLease(w) \/ Moves(w)
  <2>1. runs' = runs /\ UNCHANGED <<tries, wiped, live, running, sweep, late>>
    BY <1>1 DEF ClaimDueSchedule, AcquireManualRunLease, Moves, RefuseByPolicy, OutOfBalance,
                Preflighted, Recheck, LeaveForRetry, Advance, ReleaseLeaseByHolder, Crash,
                ExceptFire, store, hist, sweeps
  <2> QED BY <2>1 DEF RowStep
<1>2. ASSUME Fire(w), ~Moves(w)
      PROVE  proc[w].occ \in Occ
  BY <1>2 DEF Fire, Moves, RecordSkippedRun, BookSkippedRun, ReserveStartedRun,
              RollbackReservation, Dispatch, DispatchRejected, At, CoreInv, Claimed, Skipped
<1>3. CASE RecordSkippedRun(w)
  <2> DEFINE o == proc[w].occ
  <2>1. UNCHANGED <<tries, wiped, live, running, sweep, late>>
    BY <1>3 DEF RecordSkippedRun, ExceptFire, hist, sweeps
  <2>2. /\ \A q \in Occ \ {o} : runs'[q] = runs[q]
        /\ runs[o] # NoRun => runs'[o] = runs[o]
        /\ runs[o] = NoRun => runs'[o].status \in Skipped
    BY <1>0, <1>3, SkippedRow DEF CoreInv
  <2> QED BY <2>1, <2>2 DEF RowStep
<1>8. CASE BookSkippedRun(w)
  <2> DEFINE o == proc[w].occ
  <2>1. UNCHANGED <<tries, wiped, live, running, sweep, late>>
    BY <1>8 DEF BookSkippedRun, ExceptFire, hist, sweeps
  <2>2. runs' = runs \/ runs' = [runs EXCEPT ![o].owes = FALSE]
    BY <1>8 DEF BookSkippedRun
  <2>3. o \in Occ
    BY <1>8 DEF BookSkippedRun, At, CoreInv, Claimed
  <2>4. /\ \A q \in Occ \ {o} : runs'[q] = runs[q]
        /\ runs'[o].status = runs[o].status
        /\ runs[o] = NoRun => runs'[o] = NoRun
    BY <1>0, <2>2, <2>3, BookedRow
  <2> QED BY <2>1, <2>4 DEF RowStep
<1>4. CASE ReserveStartedRun(w)
  <2>1. UNCHANGED <<tries, wiped, live, running, sweep, late>>
    BY <1>4 DEF ReserveStartedRun, ExceptFire, hist, sweeps
  <2>2. \/ runs' = runs
        \/ /\ runs[proc[w].occ] = NoRun
           /\ runs' = [runs EXCEPT ![proc[w].occ] = Reservation(w)]
    BY <1>4 DEF ReserveStartedRun, Duplicate
  <2>3. Reservation(w).status = "started"
    BY <1>0, ReservationFacts
  <2> QED BY <1>0, <2>1, <2>2, <2>3 DEF RowStep
<1>5. CASE RollbackReservation(w)
  <2> DEFINE o == proc[w].occ
  <2>1. UNCHANGED <<tries, wiped, live, running, sweep, late>>
    BY <1>5 DEF RollbackReservation, ExceptFire, hist, sweeps
  <2>2. /\ proc[w].pc \in Reserved
        /\ runs' = [runs EXCEPT ![o] = IF runs[o].status = "started" /\ runs[o].by = w
                                       THEN NoRun ELSE runs[o]]
    BY <1>5 DEF RollbackReservation, At, Reserved
  <2>3. o \notin wiped => /\ tries[o] = 0 /\ o \notin live
                          /\ runs[o].status = "started" /\ runs[o].by = w
    BY <2>2, OwnRowFacts
  <2>4. \A q \in Occ \ {o} : runs'[q] = runs[q]
    BY <1>0, <2>2
  <2>5. o \in Occ \ wiped => runs'[o] = NoRun
    BY <1>0, <2>2, <2>3
  <2> QED BY <2>1, <2>3, <2>4, <2>5 DEF RowStep
<1>6. CASE Dispatch(w)
  <2> DEFINE o == proc[w].occ
  <2>1. /\ runs' = runs /\ wiped' = wiped /\ live' \subseteq live \cup {o}
        /\ UNCHANGED <<running, sweep, late>>
        /\ tries' = Tried(o) /\ proc[w].pc \in Reserved /\ o \in Occ
    BY <1>6 DEF Dispatch, store, At, Reserved, CoreInv, Claimed, sweeps
  <2>2. \A q \in Occ : tries[q] > 0 => tries'[q] > 0
    BY <1>0, <2>1, TriedFacts
  <2>3. o \notin wiped => runs[o].status = "started" /\ sweep[o] = "none"
    BY <2>1, OwnRowFacts DEF CoreInv, SweptHasRow
  <2> QED BY <2>1, <2>2, <2>3 DEF RowStep
<1>7. CASE DispatchRejected(w)
  <2> DEFINE o == proc[w].occ
  <2>1. /\ wiped' = wiped /\ live' = live /\ UNCHANGED <<running, sweep, late>>
        /\ tries' = Tried(o) /\ proc[w].pc \in Reserved /\ o \in Occ
    BY <1>7 DEF DispatchRejected, At, Reserved, CoreInv, Claimed, sweeps
  <2>a. runs' = runs \/ \E b \in BOOLEAN : runs' = Settled(o, "settled", b)
    BY <1>7 DEF DispatchRejected, Outcome, store
  <2>2. tries'[o] > 0 /\ \A q \in Occ : tries[q] > 0 => tries'[q] > 0
    BY <1>0, <2>1, TriedFacts
  <2>3. o \notin wiped => o \notin live
    BY <2>1, OwnRowFacts
  <2>4. /\ \A q \in Occ \ {o} : runs'[q] = runs[q]
        /\ runs'[o] = runs[o] \/ (runs[o].status \in Active /\ runs'[o].status = "settled")
    BY <1>0, <2>1, <2>a, SettledFacts
  <2> QED BY <2>1, <2>2, <2>3, <2>4 DEF RowStep
<1> QED BY <1>1, <1>3, <1>4, <1>5, <1>6, <1>7, <1>8 DEF Fire, Moves

LEMMA RunRows ==
  ASSUME TypeOK, CoreInv, RowInv, NEW o \in Occ, RunSteps(o)
  PROVE  wiped' = wiped /\ \A q \in Occ \ wiped : RowStep(q) /\ SweepStep(q)
<1>0. /\ runs \in [Occ -> RunType] /\ tries \in [Occ -> 0..2]
      /\ sweep \in [Occ -> {"none", "jobless", "orphan"}] /\ running \subseteq live
  BY TypeParts DEF TypeOK
<1>1. /\ wiped' = wiped /\ tries' = tries /\ live' \subseteq live
      /\ \A q \in Occ \ {o} : runs'[q] = runs[q]
  BY RunFacts
<1>2. ASSUME NEW q \in Occ \ {o}
      PROVE  /\ q \in live' <=> q \in live
             /\ q \in running' <=> q \in running
             /\ q \in late' <=> q \in late
             /\ sweep'[q] = sweep[q]
  BY <1>0 DEF RunSteps, Ends, Waits, Sweep, Start, RecordScheduleOutcome, ReconcileRetained,
     FinalizeBookkeeping, LookForJob, LookForDelivery, SettleOrphan, Pause,
     MarkRunResumeClaimed, ExceptSweep, sweeps
<1>3. \A q \in Occ \ {o} : RowStep(q) /\ SweepStep(q)
  BY <1>1, <1>2 DEF RowStep, SweepStep
<1>4. ASSUME o \notin wiped
      PROVE  RowStep(o) /\ SweepStep(o)
  <2>0. /\ sweep[o] # "none" => runs[o].status # "swept" /\ (o \in running => o \in late)
        /\ sweep[o] = "orphan" => o \notin live \/ o \in late \/ sched.deleting # "no"
    BY <1>4 DEF RowInv
  <2>1. CASE Start(o)
    <3>1. /\ runs' = runs /\ live' = live /\ sweep' = sweep
          /\ late' = IF sweep[o] # "none" THEN late \cup {o} ELSE late
      BY <2>1 DEF Start, store
    <3> QED BY <1>1, <3>1 DEF RowStep, SweepStep
  <2>2. CASE Ends(o)
    <3>0. Outcome(o) /\ o \in live /\ o \notin live' /\ o \notin running' /\ sweep' = sweep
      BY <1>0, <2>2 DEF Ends, RecordScheduleOutcome, ReconcileRetained
    <3>1. \E b \in BOOLEAN : runs' = Settled(o, "settled", b)
      BY <3>0 DEF Outcome
    <3>2. tries[o] > 0
      BY <3>0 DEF CoreInv, AliveIsTried
    <3>3. runs'[o] = runs[o] \/ (runs[o].status \in Active /\ runs'[o].status = "settled")
      BY <1>0, <3>1, SettledFacts
    <3> QED BY <1>1, <3>0, <3>2, <3>3 DEF RowStep, SweepStep
  <2>3. CASE FinalizeBookkeeping(o)
    <3>1. /\ runs' = runs \/ runs' = [runs EXCEPT ![o].owes = FALSE]
          /\ UNCHANGED <<live, running, sweep, late>>
      BY <2>3 DEF FinalizeBookkeeping, sweeps
    <3>2. /\ runs'[o].status = runs[o].status
          /\ runs[o] = NoRun => runs'[o] = NoRun
      BY <1>0, <3>1, BookedRow
    <3> QED BY <1>1, <3>1, <3>2 DEF RowStep, SweepStep
  <2>4. CASE LookForJob(o)
    <3>1. /\ UNCHANGED <<runs, live, running, late, sched>> /\ o \notin running
          /\ runs[o].status \in Active /\ sweep'[o] = "jobless"
      BY <1>0, <2>4 DEF LookForJob, ExceptSweep, Orphan
    <3> QED BY <1>1, <3>1 DEF RowStep, SweepStep
  <2>5. CASE LookForDelivery(o)
    <3>1. UNCHANGED <<runs, live, running, sched>> /\ sweep[o] = "jobless"
      BY <2>5 DEF LookForDelivery, ExceptSweep
    <3>2. \/ sweep'[o] = "orphan" /\ DeliveryGone(o) /\ late' = late
          \/ sweep'[o] = "none"
      BY <1>0, <2>5 DEF LookForDelivery
    <3>3. DeliveryGone(o) => o \notin live \/ o \in late \/ sched.deleting # "no"
      BY <2>0, <3>1 DEF DeliveryGone
    <3> QED BY <1>1, <2>0, <3>1, <3>2, <3>3 DEF RowStep, SweepStep
  <2>6. CASE SettleOrphan(o)
    <3>1. /\ UNCHANGED <<live, running, late, sched>> /\ sweep[o] = "orphan"
          /\ sweep'[o] = "none" /\ runs' = Settled(o, "swept", FALSE)
      BY <1>0, <2>6 DEF SettleOrphan, ExceptSweep
    <3>2. runs'[o] = runs[o] \/ (runs[o].status \in Active /\ runs'[o].status = "swept")
      BY <1>0, <3>1, SettledFacts
    <3> QED BY <1>1, <2>0, <3>1, <3>2 DEF RowStep, SweepStep
  <2>7. CASE Waits(o)
    <3>1. /\ UNCHANGED <<live, running, sweep, late>>
          /\ runs[o].status \in Active /\ runs'[o].status \in Active
      BY <1>0, <2>7 DEF Waits, Pause, MarkRunResumeClaimed, sweeps, Active, RunType
    <3> QED BY <1>1, <3>1 DEF RowStep, SweepStep
  <2> QED BY <2>1, <2>2, <2>3, <2>4, <2>5, <2>6, <2>7 DEF RunSteps, Sweep
<1> QED BY <1>1, <1>3, <1>4

\* Every step is one of these, as far as rows go.
LEMMA StepRows ==
  ASSUME TypeOK, CoreInv, RowInv, [Next]_vars
  PROVE  wiped \subseteq wiped' /\ \A q \in Occ \ wiped' : RowStep(q) /\ SweepStep(q)
<1>1. CASE EraserSteps
  <2>1. UNCHANGED <<tries, live, running, sweep, late>>
    BY <1>1 DEF EraserSteps, SweepDeleting, EraseUnlessLeased, EraseUnlessActive, EraseRuns,
                EraseSchedule, EraseFails, ExceptRun, sweeps
  <2>2. CASE EraseRuns
    <3>1. /\ runs' = [q \in Occ |-> NoRun]
          /\ wiped' = wiped \cup {q \in Occ : runs[q] # NoRun}
      BY <2>2 DEF EraseRuns
    <3>2. \A q \in Occ \ wiped' : runs[q] = NoRun /\ runs'[q] = NoRun
      BY <3>1
    <3>3. wiped \subseteq wiped'
      BY <3>1
    <3> QED BY <2>1, <3>2, <3>3 DEF RowStep, SweepStep, NoRun
  <2>3. CASE ~EraseRuns
    <3>1. runs' = runs /\ wiped' = wiped
      BY <1>1, <2>3 DEF EraserSteps, SweepDeleting, EraseUnlessLeased, EraseUnlessActive,
                        EraseSchedule, EraseFails, store
    <3> QED BY <2>1, <3>1 DEF RowStep, SweepStep
  <2> QED BY <2>2, <2>3
<1>2. CASE Owners \/ TimeSteps \/ UNCHANGED vars
  <2>1. UNCHANGED <<runs, tries, live, running, sweep, late, wiped>>
    BY <1>2, OwnerTypes DEF TimeSteps, Tick, GraceEnds, LeaseLapses, MarginEnds, ExceptTime, hist,
              vars, store, sweeps
  <2> QED BY <2>1 DEF RowStep, SweepStep
<1>3. ASSUME NEW w \in Worker,
             ClaimDueSchedule(w) \/ AcquireManualRunLease(w) \/ Fire(w) \/ Crash(w)
      PROVE  wiped \subseteq wiped' /\ \A q \in Occ \ wiped' : RowStep(q) /\ SweepStep(q)
  <2>1. /\ wiped' = wiped /\ UNCHANGED <<running, sweep, late>>
        /\ \A q \in Occ \ wiped : RowStep(q)
    BY <1>3, FireRows
  <2> QED BY <2>1 DEF SweepStep
<1> QED BY <1>1, <1>2, <1>3, RunRows
        DEF Next, Owners, RunSteps, Ends, Waits, EraserSteps, TimeSteps

LEMMA RowsKept ==
  ASSUME TypeOK, CoreInv, RowInv, [Next]_vars, TypeOK'
  PROVE  RowInv'
<1>1. wiped \subseteq wiped' /\ \A q \in Occ \ wiped' : RowStep(q) /\ SweepStep(q)
  BY StepRows
<1>2. live' \subseteq Occ /\ running' \subseteq live'
  BY DEF TypeOK
<1>d. sched.deleting # "no" => sched'.deleting # "no"
  BY DeletingStays
<1>3. ASSUME NEW q \in Occ \ wiped'
      PROVE  /\ q \in live' => \/ runs'[q].status \in Active
                               \/ /\ runs'[q].status = "swept"
                                  /\ q \in late' \/ sched'.deleting # "no"
             /\ runs'[q].status = "absent" => runs'[q] = NoRun
             /\ runs'[q].status = "settled" => tries'[q] > 0
  <2>1. /\ q \in live => \/ runs[q].status \in Active
                         \/ /\ runs[q].status = "swept"
                            /\ q \in late \/ sched.deleting # "no"
        /\ runs[q].status = "absent" => runs[q] = NoRun
        /\ runs[q].status = "settled" => tries[q] > 0
    BY <1>1 DEF RowInv, SettledIsOver
  <2>2. RowStep(q)
    BY <1>1
  <2>3. /\ "started" \in Active /\ NoRun.status = "absent"
        /\ Active \cap {"absent", "settled", "swept", "unfunded", "overlap"} = {}
        /\ Skipped = {"unfunded", "overlap"}
    BY DEF Active, NoRun, Skipped
  <2>4. CASE runs'[q].status = runs[q].status /\ (runs[q] = NoRun => runs'[q] = NoRun)
    BY <1>d, <2>1, <2>2, <2>3, <2>4 DEF RowStep
  <2>5. CASE runs[q] = NoRun /\ runs'[q].status \in Skipped \cup {"started"}
    <3>1. q \notin live
      BY <2>1, <2>3, <2>5
    <3>2. q \in live' => runs'[q].status = "started"
      BY <2>2, <3>1 DEF RowStep
    <3> QED BY <2>3, <2>5, <3>2
  <2>6. CASE runs'[q] = NoRun /\ q \notin live'
    BY <2>3, <2>6
  <2>7. CASE runs'[q].status \in Active
    BY <2>3, <2>7
  <2>8. CASE runs'[q].status = "settled" /\ tries'[q] > 0 /\ q \notin live'
    BY <2>8
  <2>9. CASE /\ runs'[q].status = "swept"
             /\ q \notin live' \/ q \in late' \/ sched'.deleting # "no"
    BY <2>9
  <2> QED BY <2>2, <2>4, <2>5, <2>6, <2>7, <2>8, <2>9 DEF RowStep
<1>4. ASSUME NEW q \in Occ \ wiped'
      PROVE  /\ sweep'[q] # "none" =>
                  runs'[q].status # "swept" /\ (q \in running' => q \in late')
             /\ sweep'[q] = "orphan" => q \notin live' \/ q \in late' \/ sched'.deleting # "no"
  <2>1. /\ sweep[q] # "none" => runs[q].status # "swept" /\ (q \in running => q \in late)
        /\ sweep[q] = "orphan" => q \notin live \/ q \in late \/ sched.deleting # "no"
    BY <1>1 DEF RowInv
  <2>2. RowStep(q) /\ SweepStep(q)
    BY <1>1
  <2>3. /\ "swept" \notin Active \cup Skipped \cup {"started"} /\ NoRun.status = "absent"
        /\ q \in running' => q \in live'
    BY <1>2 DEF Active, NoRun, Skipped
  <2>4. CASE sweep'[q] = "none"
    BY <2>4
  <2>5. CASE sweep'[q] # "none" /\ sweep'[q] = sweep[q] /\ (q \in late /\ q \in live' => q \in late')
    <3>1. runs'[q].status # "swept"
      BY <2>1, <2>2, <2>3, <2>5 DEF RowStep
    <3>2. q \in running' => q \in late'
      BY <2>1, <2>2, <2>3, <2>5 DEF SweepStep
    <3>3. sweep'[q] = "orphan" => q \notin live' \/ q \in late' \/ sched'.deleting # "no"
      BY <1>d, <2>1, <2>2, <2>5 DEF RowStep
    <3> QED BY <3>1, <3>2, <3>3
  <2>6. CASE /\ sweep'[q] = "jobless" /\ q \notin running'
             /\ runs'[q] = runs[q] /\ runs[q].status \in Active
    BY <2>3, <2>6
  <2>7. CASE /\ sweep'[q] = "orphan" /\ sweep[q] = "jobless" /\ runs'[q] = runs[q]
             /\ q \notin live' \/ q \in late' \/ sched'.deleting # "no"
             /\ q \in late => q \in late'
    BY <2>1, <2>2, <2>7 DEF SweepStep
  <2> QED BY <2>2, <2>4, <2>5, <2>6, <2>7 DEF SweepStep
<1>5. SettledIsOver'
  BY <1>2, <1>3 DEF SettledIsOver
<1> QED BY <1>3, <1>4, <1>5 DEF RowInv

\* While a run's delivery or generation is under way its row, if it was not wiped,
\* is active, or a sweep settled it that had found no job and let the generation
\* begin before its write, or did not ask for a deleted schedule's delivery: no
\* outcome and no rollback frees the schedule's one started row under a run that
\* goes on.
THEOREM SettledRunsAreOver == Spec => []SettledIsOver
<1>1. Init => RowInv
  BY DEF Init, RowInv, SettledIsOver, NoRun
<1>2. IInv /\ RowInv /\ [Next]_vars /\ IInv' => RowInv'
  BY RowsKept, InvParts DEF IInv
<1>3. RowInv => SettledIsOver
  BY DEF RowInv
<1> QED BY <1>1, <1>2, <1>3, Invariant, PTL DEF Spec

(***************************************************************************)
(* The erasure of a deleted schedule.                                      *)
(***************************************************************************)

\* An erasure that began on a deleted schedule goes on on one; once it has found
\* it drained, nothing is under way that was not wiped or swept, and no fire is
\* about to ask the queue for anything else.
DrainInv ==
    /\ eraser.teardown => sched.deleting # "no"
    /\ eraser.pc = "drained" /\ eraser.teardown =>
         /\ \A o \in live \ wiped : runs[o].status = "swept"
         /\ \A w \in Worker : At(w, "dispatch") => proc[w].occ \in wiped

\* Of a deleted schedule nobody gets to the dispatch, and what is dispatched was
\* about to be.
LEMMA NothingStarts ==
  ASSUME TypeOK, CoreInv, [Next]_vars, sched.deleting # "no"
  PROVE  /\ \A q \in live' \ live : \E w \in Worker : At(w, "dispatch") /\ proc[w].occ = q
         /\ \A w \in Worker : At(w, "dispatch")' =>
              At(w, "dispatch") /\ proc'[w].occ = proc[w].occ
<1>0. proc \in [Worker -> WorkType] /\ runs \in [Occ -> RunType]
  BY TypeParts
<1>1. ASSUME NEW w \in Worker, Dispatch(w)
      PROVE  At(w, "dispatch") /\ live' \subseteq live \cup {proc[w].occ}
  BY <1>1 DEF Dispatch
<1>2. (\A w \in Worker : ~Dispatch(w)) => live' \subseteq live
  <2> HAVE \A w \in Worker : ~Dispatch(w)
  <2>1. ASSUME NEW w \in Worker,
               ClaimDueSchedule(w) \/ AcquireManualRunLease(w) \/ Fire(w) \/ Crash(w)
        PROVE  live' = live
    BY <2>1 DEF Fire, ClaimDueSchedule, AcquireManualRunLease, RefuseByPolicy, OutOfBalance,
         Preflighted, RecordSkippedRun, BookSkippedRun, ReserveStartedRun, Recheck,
         RollbackReservation, LeaveForRetry, DispatchRejected, Advance, ReleaseLeaseByHolder,
         Crash, ExceptFire
  <2>2. \A o \in Occ : RunSteps(o) => live' \subseteq live
    BY RunFacts
  <2>3. Owners \/ EraserSteps \/ TimeSteps \/ UNCHANGED vars => live' = live
    BY OwnerTypes DEF EraserSteps, SweepDeleting, EraseUnlessLeased, EraseUnlessActive, EraseRuns,
       EraseSchedule, EraseFails, TimeSteps, Tick, GraceEnds, LeaseLapses, MarginEnds,
       ExceptTime, vars
  <2> QED BY <2>1, <2>2, <2>3 DEF Next, Owners, RunSteps, Ends, Waits, EraserSteps, TimeSteps
<1>3. ASSUME NEW w \in Worker, At(w, "dispatch")', proc'[w] # proc[w]
      PROVE  FALSE
  <2>1. ClaimDueSchedule(w) \/ AcquireManualRunLease(w) \/ Fire(w) \/ Crash(w)
    BY <1>3, WhoMoves
  <2>2. Fire(w) \/ Crash(w)
    BY <2>1 DEF ClaimDueSchedule, AcquireManualRunLease
  <2>3. ~(Recheck(w) /\ Goto(w, "dispatch"))
    <3>1. CASE Recheck(w)
      <4>1. Goto(w, "rollback")
        BY <3>1 DEF Recheck, RevalidateClaim
      <4>2. proc'[w].pc = "rollback"
        BY <1>0, <4>1, GotoFacts DEF PCs
      <4> QED BY <1>3, <4>2 DEF At
    <3> QED BY <3>1
  <2>4. {"idle", "unfunded", "overlap", "reserve", "rollback", "advance", "giveup", "recheck",
         Aside(w), Backoff(w)} \subseteq PCs \ {"dispatch"}
    BY AsideFacts DEF PCs, Reserved
  <2>5. RecordSkippedRun(w) \/ \E l \in PCs \ {"dispatch"} : Goto(w, l) \/ Skip(w, l)
    BY <2>2, <2>3, <2>4 DEF Fire, Crash, RefuseByPolicy, OutOfBalance, Preflighted,
       BookSkippedRun, ReserveStartedRun, Recheck, RollbackReservation, LeaveForRetry, Dispatch,
       DispatchRejected, Advance, ReleaseLeaseByHolder
  <2>6. proc'[w].pc # "dispatch"
    BY <1>0, <2>5, GotoFacts, SkipFacts, SkippedProc DEF CoreInv
  <2> QED BY <1>3, <2>6 DEF At
<1>4. \A w \in Worker : At(w, "dispatch")' => At(w, "dispatch") /\ proc'[w].occ = proc[w].occ
  BY <1>3 DEF At
<1>5. \A q \in live' \ live : \E w \in Worker : At(w, "dispatch") /\ proc[w].occ = q
  BY <1>1, <1>2
<1> QED BY <1>4, <1>5

\* What can become of the erasure in one step.
LEMMA EraserMoves ==
  ASSUME [Next]_vars
  PROVE  \/ eraser' = eraser
         \/ ~eraser'.teardown
         \/ EraseUnlessLeased \/ EraseUnlessActive
         \/ EraseRuns
<1>1. Asleep.teardown = FALSE /\ [Asleep EXCEPT !.pc = "asked"].teardown = FALSE
  BY DEF Asleep
<1> QED BY <1>1
  DEF Next, Fire, vars, ClaimDueSchedule, AcquireManualRunLease, RefuseByPolicy, OutOfBalance,
      Preflighted, RecordSkippedRun, BookSkippedRun, ReserveStartedRun, Recheck,
      RollbackReservation, LeaveForRetry, Dispatch, DispatchRejected, Advance,
      ReleaseLeaseByHolder, Crash, ExceptFire,
      Edit, ArmSchedule, MarkScheduleDeleting, SuspendRead, SuspendWrite, Restore, ExceptOwner,
      Start, RecordScheduleOutcome, ReconcileRetained, FinalizeBookkeeping, Sweep, LookForJob,
      LookForDelivery, SettleOrphan, ExceptSweep, Pause, MarkRunResumeClaimed,
      SweepDeleting, EraseSchedule, EraseFails, Tick, GraceEnds, LeaseLapses, MarginEnds,
      ExceptTime, ExceptRun

LEMMA DrainKept ==
  ASSUME TypeOK, CoreInv, RowInv, DrainInv, [Next]_vars, TypeOK'
  PROVE  DrainInv'
<1>0. eraser \in [pc : {"idle", "asked", "unleased", "drained", "wiped"}, teardown : BOOLEAN]
  BY DEF TypeOK
<1>1. CASE eraser' = eraser
  <2>1. eraser.teardown => sched'.deleting # "no"
    BY DeletingStays DEF DrainInv
  <2>2. wiped \subseteq wiped' /\ \A q \in Occ \ wiped' : RowStep(q)
    BY StepRows
  <2>3. ASSUME eraser.pc = "drained", eraser.teardown
        PROVE  /\ \A o \in live' \ wiped' : runs'[o].status = "swept"
               /\ \A w \in Worker : At(w, "dispatch")' => proc'[w].occ \in wiped'
    <3>1. /\ sched.deleting # "no" /\ \A o \in live \ wiped : runs[o].status = "swept"
          /\ \A w \in Worker : At(w, "dispatch") => proc[w].occ \in wiped
      BY <2>3 DEF DrainInv
    <3>2. ASSUME NEW o \in live' \ wiped'
          PROVE  runs'[o].status = "swept"
      <4>1. o \in Occ /\ runs[o].status = "swept"
        BY <2>2, <3>1, <3>2, NothingStarts DEF TypeOK
      <4>2. NoRun.status = "absent" /\ "swept" \notin Active
        BY DEF NoRun, Active
      <4> QED BY <2>2, <3>2, <4>1, <4>2 DEF RowStep
    <3> QED BY <2>2, <3>1, <3>2, NothingStarts
  <2> QED BY <1>1, <2>1, <2>3 DEF DrainInv, At
<1>2. CASE ~eraser'.teardown
  BY <1>2 DEF DrainInv
<1>3. CASE EraseUnlessLeased
  <2> DEFINE t == sched.deleting = "marked"
  <2>1. sched' = sched /\ (eraser' = Asleep \/ eraser' = [pc |-> "unleased", teardown |-> t])
    BY <1>3 DEF EraseUnlessLeased, store
  <2>2. t \in BOOLEAN /\ (t => sched.deleting # "no")
    OBVIOUS
  <2> HIDE DEF t
  <2>3. eraser'.pc # "drained" /\ (eraser'.teardown => t)
    BY <2>1 DEF Asleep
  <2> QED BY <2>1, <2>2, <2>3 DEF DrainInv
<1>4. CASE EraseUnlessActive
  <2>1. UNCHANGED <<sched, runs, proc, live, wiped>>
    BY <1>4 DEF EraseUnlessActive, store, ExceptRun
  <2>2. CASE ~Drained
    <3>1. eraser' = Asleep
      BY <1>4, <2>2 DEF EraseUnlessActive
    <3> QED BY <3>1 DEF DrainInv, Asleep
  <2>3. CASE Drained
    <3>1. eraser'.teardown = eraser.teardown
      BY <1>0, <1>4, <2>3 DEF EraseUnlessActive
    <3>2. \A o \in live \ wiped : runs[o].status = "swept"
      BY <2>3 DEF Drained, RowInv, SettledIsOver, TypeOK
    <3>3. ASSUME NEW w \in Worker, At(w, "dispatch"), proc[w].occ \notin wiped
          PROVE  FALSE
      <4>1. proc[w].pc \in Reserved /\ proc[w].occ \in Occ
        BY <3>3 DEF At, Reserved, CoreInv, Claimed
      <4>2. runs[proc[w].occ].status = "started"
        BY <3>3, <4>1, OwnRowFacts
      <4> QED BY <2>3, <4>1, <4>2 DEF Drained, Active
    <3> QED BY <2>1, <3>1, <3>2, <3>3 DEF DrainInv, At
  <2> QED BY <2>2, <2>3
<1>5. CASE EraseRuns
  <2>1. sched' = sched /\ eraser' = [eraser EXCEPT !.pc = "wiped"]
    BY <1>5 DEF EraseRuns
  <2>2. eraser'.pc = "wiped" /\ eraser'.teardown = eraser.teardown
    BY <1>0, <2>1
  <2> QED BY <2>1, <2>2 DEF DrainInv
<1> QED BY <1>1, <1>2, <1>3, <1>4, <1>5, EraserMoves

\* The erasure of a deleted schedule takes no row that has a run under way, but for
\* one that a sweep has interrupted: when it has asked for active runs, every other
\* run has come to an end, and a fire that reserves its row later finds the schedule
\* deleted at its last revalidation.
THEOREM TeardownTakesNoLiveRow == Spec => []TeardownIsDrained
<1>1. Init => RowInv /\ DrainInv
  BY DEF Init, RowInv, SettledIsOver, NoRun, DrainInv, Asleep
<1>2. IInv /\ RowInv /\ DrainInv /\ [Next]_vars /\ IInv' => RowInv' /\ DrainInv'
  BY RowsKept, DrainKept, InvParts DEF IInv
<1>3. DrainInv => TeardownIsDrained
  BY DEF DrainInv, TeardownIsDrained
<1> QED BY <1>1, <1>2, <1>3, Invariant, PTL DEF Spec

(***************************************************************************)
(* No occurrence is lost.                                                  *)
(***************************************************************************)

\* A worker that is about to move the schedule on may, and one that is about to
\* record a skip, or to book it, has decided to.
Decided == Skipped \cup {"book"}
PassInv == \A w \in Worker : /\ At(w, "advance") /\ ~Manual(w) => Excused(w)
                             /\ proc[w].pc \in Decided => proc[w].skips

\* What excuses a worker stays, as long as it keeps its claim.
LEMMA ExcuseStays ==
  ASSUME TypeOK, CoreInv, RowInv, [Next]_vars, NEW w \in Worker, proc[w].occ \in Occ,
         Excused(w), proc'[w].occ = proc[w].occ, proc[w].skips => proc'[w].skips
  PROVE  Excused(w)'
<1> DEFINE o == proc[w].occ
<1>1. wiped \subseteq wiped' /\ (o \notin wiped' => RowStep(o))
  BY StepRows
<1>2. CASE o \in wiped'
  BY <1>2 DEF Excused
<1>3. CASE o \notin wiped'
  <2>0. NoRun.status = "absent" /\ Active \cap (Skipped \cup {"swept", "absent"}) = {}
        /\ "absent" \notin Skipped /\ "started" \notin Skipped
    BY DEF Active, NoRun, Skipped
  <2>1. runs[o].status \in Skipped \cup {"swept"} => runs'[o].status = runs[o].status
    BY <1>1, <1>3, <2>0 DEF RowStep
  <2>2. tries[o] > 0 => tries'[o] > 0
    BY <1>1, <1>3 DEF RowStep
  <2> QED BY <1>1, <1>3, <2>1, <2>2 DEF Excused
<1> QED BY <1>2, <1>3

\* A worker that gets to its advance, other than by a manual run, is excused.
LEMMA FireExcuses ==
  ASSUME TypeOK, CoreInv, RowInv, PassInv, [Next]_vars, TypeOK', NEW w \in Worker,
         ClaimDueSchedule(w) \/ AcquireManualRunLease(w) \/ Fire(w) \/ Crash(w)
  PROVE  /\ At(w, "advance")' /\ ~Manual(w)' => Excused(w)'
         /\ proc'[w].pc \in Decided => proc'[w].skips
<1>0. /\ proc \in [Worker -> WorkType] /\ runs \in [Occ -> RunType] /\ tries \in [Occ -> 0..2]
  BY TypeParts DEF TypeOK
<1>10. /\ {"idle", "unfunded", "overlap", "reserve", "recheck", "rollback", "dispatch",
           "advance", "giveup"} \subseteq PCs
       /\ Decided = {"unfunded", "overlap", "book"}
  BY DEF PCs, Decided, Skipped
<1>11. ASSUME Goto(w, "idle")
      PROVE  proc'[w].pc = "idle"
  BY <1>0, <1>10, <1>11, GotoFacts
<1>12. ASSUME NEW l \in {"reserve", "recheck", "rollback", "dispatch", "giveup"}, Goto(w, l)
      PROVE  proc'[w].pc = l
  BY <1>0, <1>10, <1>12, SkipsFacts
<1>13. ASSUME proc'[w].pc \notin {"advance"} \cup Decided
      PROVE  ~At(w, "advance")' /\ proc'[w].pc \notin Decided
  BY <1>13 DEF At
<1>14. ASSUME Skip(w, "advance") \/ Skip(w, "unfunded") \/ Skip(w, "overlap")
      PROVE  proc'[w].skips
  BY <1>0, <1>10, <1>14, SkipsFacts
<1>15. ASSUME Manual(w), Goto(w, "advance")
      PROVE  Manual(w)' /\ proc'[w].pc \notin Decided
  BY <1>0, <1>10, <1>15, SkipsFacts DEF Manual
<1>16. ASSUME Goto(w, Aside(w)) \/ Goto(w, Backoff(w))
      PROVE  \/ proc'[w].pc \notin {"advance"} \cup Decided
             \/ Manual(w)' /\ proc'[w].pc \notin Decided
  BY <1>10, <1>11, <1>12, <1>15, <1>16 DEF Aside, Backoff
<1>1. CASE ClaimDueSchedule(w)
  <2> DEFINE m == Misfired
  <2>1. m \in BOOLEAN
    BY DEF Misfired
  <2>2. proc'[w] = [pc |-> IF m THEN "advance" ELSE "preflight", occ |-> sched.next,
                    agent |-> sched.agent, rev |-> edits, to |-> clock + 1, skips |-> m]
    BY <1>0, <1>1 DEF ClaimDueSchedule
  <2> HIDE DEF m
  <2>3. proc'[w].pc = (IF m THEN "advance" ELSE "preflight") /\ proc'[w].skips = m
    BY <2>2
  <2> QED BY <1>10, <2>1, <2>3 DEF At, Excused
<1>2. CASE AcquireManualRunLease(w)
  <2>1. proc'[w].pc = "preflight"
    BY <1>0, <1>2 DEF AcquireManualRunLease
  <2> QED BY <1>10, <1>13, <2>1
<1>3. CASE RefuseByPolicy(w)
  <2>1. proc'[w].skips
    BY <1>3, <1>14 DEF RefuseByPolicy
  <2> QED BY <2>1 DEF Excused
<1>4. CASE OutOfBalance(w)
  <2>1. Skip(w, "unfunded") \/ Goto(w, Aside(w))
    BY <1>4 DEF OutOfBalance
  <2>2. CASE Skip(w, "unfunded")
    BY <1>14, <2>2 DEF Excused
  <2> QED BY <1>13, <1>16, <2>1, <2>2
<1>5. CASE Preflighted(w) \/ Recheck(w) \/ LeaveForRetry(w) \/ RollbackReservation(w)
  <2>1. \/ \E l \in {"reserve", "rollback", "dispatch"} : Goto(w, l)
        \/ Goto(w, Aside(w)) \/ Goto(w, Backoff(w))
    BY <1>5 DEF Preflighted, Recheck, LeaveForRetry, RollbackReservation
  <2> QED BY <1>10, <1>12, <1>13, <1>16, <2>1
<1>6. CASE RecordSkippedRun(w)
  <2>1. proc[w].skips
    BY <1>6 DEF RecordSkippedRun, PassInv, Decided
  <2>2. proc'[w].pc # "idle" => proc'[w].skips
    BY <1>0, <1>6, <2>1, SkippedProc DEF CoreInv
  <2>3. CASE proc'[w].pc = "idle"
    BY <1>10, <1>13, <2>3
  <2> QED BY <2>2, <2>3 DEF Excused
<1>17. CASE BookSkippedRun(w)
  <2>1. proc[w].skips
    BY <1>17 DEF BookSkippedRun, PassInv, Decided, At
  <2>2. Goto(w, "advance") => proc'[w].skips
    BY <1>0, <1>10, <2>1, SkipsFacts
  <2>3. Goto(w, "advance") \/ Goto(w, "idle")
    BY <1>17 DEF BookSkippedRun
  <2> QED BY <1>10, <1>11, <1>13, <2>2, <2>3 DEF Excused
<1>7. CASE ReserveStartedRun(w)
  <2> DEFINE o == proc[w].occ
  <2>1. \/ Goto(w, "recheck") \/ Skip(w, "overlap") \/ Goto(w, Backoff(w))
        \/ Goto(w, "advance") /\ Duplicate(o) /\ runs[o].status \notin Active
    BY <1>7 DEF ReserveStartedRun
  <2>2. CASE Skip(w, "overlap")
    BY <1>14, <2>2 DEF Excused
  <2>3. CASE Goto(w, "advance") /\ Duplicate(o) /\ runs[o].status \notin Active
    <3>1. o \in Occ
      BY <1>7 DEF ReserveStartedRun, At, CoreInv, Claimed
    <3>2. runs[o].status \in Statuses
      BY <1>0, <3>1 DEF RunType
    <3>3. Excused(w)
      BY <2>3, <3>1, <3>2 DEF Excused, RowInv, Duplicate, Statuses
    <3>4. /\ proc'[w].occ = o /\ proc'[w].skips = proc[w].skips /\ proc'[w].pc = "advance"
      BY <1>0, <1>10, <2>3, SkipsFacts
    <3>5. Excused(w)'
      BY <3>1, <3>3, <3>4, ExcuseStays
    <3> QED BY <1>10, <3>4, <3>5 DEF At
  <2> QED BY <1>10, <1>12, <1>13, <1>16, <2>1, <2>2, <2>3
<1>8. CASE Dispatch(w) \/ DispatchRejected(w)
  <2> DEFINE o == proc[w].occ
  <2>1. tries' = Tried(o) /\ (Goto(w, "advance") \/ Goto(w, Backoff(w)))
    BY <1>8 DEF Dispatch, DispatchRejected
  <2>2. o \in Occ
    BY <1>8 DEF Dispatch, DispatchRejected, At, CoreInv, Claimed
  <2>3. tries'[o] > 0
    BY <1>0, <2>1, <2>2, TriedFacts
  <2>4. CASE Goto(w, "advance")
    <3>1. proc'[w].occ = o /\ proc'[w].pc = "advance"
      BY <1>0, <1>10, <2>4, SkipsFacts
    <3> QED BY <1>10, <2>3, <3>1 DEF Excused, At
  <2> QED BY <1>13, <1>16, <2>1, <2>4
<1>9. CASE Advance(w) \/ ReleaseLeaseByHolder(w) \/ Crash(w)
  <2>1. Goto(w, "idle") \/ Goto(w, "giveup")
    BY <1>9 DEF Advance, ReleaseLeaseByHolder, Crash
  <2> QED BY <1>10, <1>11, <1>12, <1>13, <2>1
<1> QED BY <1>1, <1>2, <1>3, <1>4, <1>5, <1>6, <1>7, <1>8, <1>9, <1>17 DEF Fire

LEMMA PassKept ==
  ASSUME TypeOK, CoreInv, RowInv, PassInv, [Next]_vars, TypeOK'
  PROVE  PassInv'
<1> SUFFICES ASSUME NEW w \in Worker
             PROVE  /\ At(w, "advance")' /\ ~Manual(w)' => Excused(w)'
                    /\ proc'[w].pc \in Decided => proc'[w].skips
  BY DEF PassInv, At, Manual, Excused, Decided
<1>1. CASE proc'[w] # proc[w]
  BY <1>1, WhoMoves, FireExcuses
<1>2. CASE proc'[w] = proc[w]
  <2>1. proc'[w].pc \in Decided => proc'[w].skips
    BY <1>2 DEF PassInv
  <2>2. ASSUME At(w, "advance")', ~Manual(w)'
        PROVE  Excused(w)'
    <3>1. At(w, "advance") /\ ~Manual(w) /\ proc[w].occ \in Occ
      BY <1>2, <2>2 DEF At, Manual, CoreInv, Claimed
    <3> QED BY <1>2, <3>1, ExcuseStays DEF PassInv
  <2> QED BY <2>1, <2>2
<1> QED BY <1>1, <1>2

\* A worker moves the schedule on from an occurrence only when the queue was asked
\* for it, the worker decided not to fire, or the run was found skipped,
\* interrupted or wiped: backing off, a lost race or a failed store call leaves
\* the occurrence due.
THEOREM NoOccurrenceIsLost == Spec => NoneLost
<1> DEFINE Kept == \A w \in Worker : Passes(w) => Excused(w)
<1>1. Init => RowInv /\ PassInv
  BY DEF Init, RowInv, SettledIsOver, NoRun, PassInv, At, Idle, Decided, Skipped
<1>2. IInv /\ RowInv /\ PassInv /\ [Next]_vars /\ IInv' => RowInv' /\ PassInv'
  BY RowsKept, PassKept, InvParts DEF IInv
<1>3. IInv /\ PassInv /\ [Next]_vars => Kept
  <2> SUFFICES ASSUME TypeOK, CoreInv, PassInv, [Next]_vars, NEW w \in Worker, Passes(w)
               PROVE  Excused(w)
    BY InvParts
  <2>0. sched \in SchedType
    BY TypeParts
  <2>1. At(w, "advance") /\ sched'.next # sched.next /\ proc'[w] # proc[w]
    BY DEF Passes
  <2>2. Advance(w) \/ Crash(w)
    <3>1. ClaimDueSchedule(w) \/ AcquireManualRunLease(w) \/ Fire(w) \/ Crash(w)
      BY <2>1, WhoMoves
    <3> QED BY <2>1, <3>1
       DEF Fire, ClaimDueSchedule, AcquireManualRunLease, RefuseByPolicy, OutOfBalance, Preflighted,
           RecordSkippedRun, BookSkippedRun, ReserveStartedRun, Recheck, RollbackReservation,
           LeaveForRetry, Dispatch, DispatchRejected, ReleaseLeaseByHolder, At, Skipped
  <2>3. Freed(sched).next = sched.next
    BY <2>0 DEF Freed, SchedType
  <2>4. ~Manual(w)
    BY <2>1, <2>2, <2>3 DEF Advance, Crash, store
  <2> QED BY <2>1, <2>4 DEF PassInv
<1> HIDE DEF Kept
<1>5. Spec => [][Kept]_vars
  BY <1>1, <1>2, <1>3, Invariant, PTL DEF Spec
<1> QED BY <1>5 DEF NoneLost, Kept
=============================================================================
