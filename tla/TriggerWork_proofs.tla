------------------------- MODULE TriggerWork_proofs -------------------------
(* The safety of the delivery engines for every number of deliveries, slots,
   engines, attempts and mishaps.

   The properties are not inductive by themselves: that a slot is in turn rests
   on what its claim's token guards, and that the budget holds rests on the
   attempts a slot took from its claim being those of the row for as long as the
   token is its own.  IInv says this row by row (RowInv), slot by slot (SlotInv)
   and of the drains (DrainInv).  A step of a slot changes its own row only in
   ways that leave every other slot without the claim (OtherKeeps), so each
   action is left with its own row and its own slot.                           *)
EXTENDS TriggerWork, TLAPS

USE EngineAssumption, NoneAssumption, BudgetAssumption, BoundAssumption

Busy(s) == pc[s] \notin {"idle", "claiming"}
Holds(s) == Busy(s) /\ Fenced(s)
Tries == {"checking", "sending", "completing", "retrying", "deferring"}
Untried == {"claimed", "ordering", "beginning"}

RowInv(d) ==
    /\ attempts[d] = tried[d] + (IF begun[d] THEN 1 ELSE 0)
    /\ attempts[d] <= MaxAttempts
    /\ begun[d] => status[d] \in {"leased", "erased"}
    /\ seq[d] <= lane
    /\ status[d] = "dead" =>
           source[d] = "failed" /\ (refused[d] \/ tried[d] >= MaxAttempts)

SlotInv(s) ==
    /\ Busy(s) <=> job[s] \in Delivery
    /\ pc[s] = "burying" => source[job[s]] = "failed"
    /\ Holds(s) =>
           /\ attempt[s] = attempts[job[s]]
           /\ pc[s] = "beginning" => attempt[s] < MaxAttempts
           /\ pc[s] \in Tries => begun[job[s]]
           /\ pc[s] \in Untried => ~begun[job[s]]
           /\ pc[s] \in {"closing", "burying"} =>
                  refused[job[s]] \/ attempt[s] >= MaxAttempts
           /\ AtWork(s) => ~Blocked(job[s])

DrainInv == (drain["owner"] # "off" => account # "active") /\ DrainedIsQuiet

IInv ==
    /\ TypeOK
    /\ \A d \in Delivery : RowInv(d)
    /\ \A s \in Slot : SlotInv(s)
    /\ DrainInv

RowType ==
    /\ status \in [Delivery -> Status]
    /\ lane \in Nat
    /\ seq \in [Delivery -> Nat]
    /\ lease \in [Delivery -> {"none", "live", "over", "stale"}]
    /\ holder \in [Delivery -> Slot \cup {NoSlot}]
    /\ attempts \in [Delivery -> Nat]
    /\ handling \in [Delivery -> {"none", "started", "settled"}]
    /\ source \in [Delivery -> {"open", "failed"}]
    /\ begun \in [Delivery -> BOOLEAN]
    /\ tried \in [Delivery -> Nat]
    /\ refused \in [Delivery -> BOOLEAN]

SlotType ==
    /\ pc \in [Slot -> Step]
    /\ job \in [Slot -> Delivery \cup {NoDelivery}]
    /\ attempt \in [Slot -> Nat]
    /\ aborted \in [Slot -> BOOLEAN]

RestType ==
    /\ stopped \in [Engine -> BOOLEAN]
    /\ cancelled \in [Engine -> BOOLEAN]
    /\ account \in {"active", "fenced", "deleted"}
    /\ drain \in [Drain -> {"off", "saw", "waiting", "drained", "failed", "lost"}]
    /\ awaited \in [Drain -> SUBSET Slot]
    /\ mishaps \in Nat /\ requeues \in Nat /\ fences \in Nat

(* The type invariant, part by part.                                           *)
LEMMA Types == TypeOK <=> RowType /\ SlotType /\ RestType
BY DEF TypeOK, RowType, SlotType, RestType

(* Nothing is published and nobody works in the beginning.                    *)
LEMMA InitKeeps == Init => IInv
<1> SUFFICES ASSUME Init PROVE IInv
  OBVIOUS
<1>1. RowType
  BY DEF Init, RowType, Status
<1>2. SlotType
  BY DEF Init, SlotType, Step
<1>3. RestType
  BY DEF Init, RestType, Drain
<1>4. ASSUME NEW d \in Delivery PROVE RowInv(d)
  BY DEF Init, RowInv
<1>5. ASSUME NEW s \in Slot PROVE SlotInv(s)
  BY DEF Init, SlotInv, Busy, Holds
<1>6. DrainInv
  BY DEF Init, DrainInv, DrainedIsQuiet, Drain
<1> QED BY <1>1, <1>2, <1>3, <1>4, <1>5, <1>6, Types DEF IInv

(* What a step does to a row that a slot does not lose by it.                 *)
Same(d) ==
    /\ status'[d] = status[d] /\ holder'[d] = holder[d]
    /\ attempts'[d] = attempts[d] /\ begun'[d] = begun[d]
    /\ refused[d] => refused'[d]
    /\ lease'[d] = "live" => lease[d] = "live"
Lost(d, t) == ~(status'[d] = "leased" /\ holder'[d] = t)

(* No step makes anything earlier unsettled.                                  *)
InOrder ==
    \A x \in Delivery :
        \/ seq'[x] = lane + 1 /\ status[x] # "leased" /\ (Same(x) \/ status'[x] # "leased")
        \/ seq'[x] = seq[x] /\ (Unsettled(x)' => Unsettled(x))

(* A claim that outlives the step stays in its turn.                          *)
LEMMA OrderKeeps ==
  ASSUME RowType, \A x \in Delivery : RowInv(x), InOrder,
         NEW d \in Delivery, status[d] = "leased", status'[d] = "leased", ~Blocked(d)
  PROVE  ~Blocked(d)'
<1>1. seq'[d] = seq[d]
  BY DEF InOrder
<1>2. ASSUME NEW x \in Delivery, 0 < seq'[x], seq'[x] < seq'[d], Unsettled(x)'
      PROVE  FALSE
  <2>1. seq[d] \in Nat /\ lane \in Nat /\ seq[d] <= lane
    BY DEF RowType, RowInv
  <2>2. seq'[x] # lane + 1
    BY <1>1, <1>2, <2>1
  <2>3. seq'[x] = seq[x] /\ Unsettled(x)
    BY <1>2, <2>2 DEF InOrder
  <2> QED BY <1>1, <1>2, <2>3 DEF Blocked
<1> QED BY <1>2 DEF Blocked

(* A slot that does not move keeps its part of the invariant.                 *)
LEMMA OtherKeeps ==
  ASSUME IInv, NEW t \in Slot,
         pc'[t] = pc[t], job'[t] = job[t], attempt'[t] = attempt[t],
         job[t] \in Delivery => Same(job[t]) \/ Lost(job[t], t),
         job[t] \in Delivery /\ source[job[t]] = "failed" => source'[job[t]] = "failed",
         InOrder
  PROVE  SlotInv(t)'
<1>1. SlotInv(t) /\ RowType /\ \A x \in Delivery : RowInv(x)
  BY Types DEF IInv
<1>2. Busy(t)' <=> job'[t] \in Delivery
  BY <1>1 DEF SlotInv, Busy
<1>3. (pc[t] = "burying" => source[job[t]] = "failed")'
  BY <1>1 DEF SlotInv, Busy
<1>4. ASSUME Holds(t)'
      PROVE  /\ attempt'[t] = attempts'[job'[t]]
             /\ pc'[t] = "beginning" => attempt'[t] < MaxAttempts
             /\ pc'[t] \in Tries => begun'[job'[t]]
             /\ pc'[t] \in Untried => ~begun'[job'[t]]
             /\ pc'[t] \in {"closing", "burying"} =>
                    refused'[job'[t]] \/ attempt'[t] >= MaxAttempts
             /\ AtWork(t)' => ~Blocked(job[t])'
  <2>1. job[t] \in Delivery /\ Busy(t)
    BY <1>1, <1>4 DEF SlotInv, Holds, Busy
  <2>2. Same(job[t])
    BY <1>4, <2>1 DEF Holds, Fenced, Lost
  <2>3. Holds(t)
    BY <1>4, <2>1, <2>2 DEF Holds, Fenced, Same
  <2>4. AtWork(t)' => AtWork(t)
    BY DEF AtWork
  <2>5. AtWork(t) => ~Blocked(job[t])
    BY <1>1, <2>3 DEF SlotInv
  <2>6. status[job[t]] = "leased" /\ status'[job[t]] = "leased"
    BY <2>2, <2>3 DEF Holds, Fenced, Same
  <2>7. AtWork(t) => ~Blocked(job[t])'
    BY <1>1, <2>1, <2>5, <2>6, OrderKeeps
  <2> QED BY <1>1, <2>2, <2>3, <2>4, <2>7 DEF SlotInv, Same
<1> QED BY <1>2, <1>3, <1>4 DEF SlotInv

-----------------------------------------------------------------------------
(* A step, put together from its parts: s is the slot that takes it, or none.  *)

Grows == \A d \in Delivery : source[d] = "failed" => source'[d] = "failed"
Alone(s) == \A t \in Slot \ {s} :
    pc'[t] = pc[t] /\ job'[t] = job[t] /\ attempt'[t] = attempt[t]
(* Whoever else worked at a row that s changes has lost its claim.            *)
OthersLose(s) == \A d \in Delivery : Same(d) \/ \A t \in Slot \ {s} : Lost(d, t)

LEMMA StepKeeps ==
  ASSUME IInv, TypeOK', NEW s, Alone(s), OthersLose(s), Grows, InOrder,
         \A d \in Delivery : RowInv(d)', UNCHANGED user,
         s \in Slot => SlotInv(s)' /\ (pc'[s] = "sending" => account = "active")
  PROVE  IInv'
<1>1. \A t \in Slot : SlotInv(t)
  BY DEF IInv
<1>2. ASSUME NEW t \in Slot, t # s PROVE SlotInv(t)'
  <2>1. job[t] \in Delivery => Same(job[t]) \/ Lost(job[t], t)
    BY <1>2 DEF OthersLose
  <2>2. job[t] \in Delivery /\ source[job[t]] = "failed" => source'[job[t]] = "failed"
    BY DEF Grows
  <2> QED BY <1>2, <2>1, <2>2, OtherKeeps DEF Alone
<1>3. \A t \in Slot : SlotInv(t)'
  BY <1>2
<1>4. ASSUME drain'["owner"] = "drained", NEW t \in Slot, pc'[t] = "sending",
             Fenced(t)', Live(job[t])'
      PROVE  FALSE
  <2>1. drain["owner"] = "drained" /\ account # "active"
    BY <1>4 DEF IInv, DrainInv, user
  <2>2. t # s
    BY <1>4, <2>1
  <2>3. pc[t] = "sending" /\ job'[t] = job[t]
    BY <1>4, <2>2 DEF Alone
  <2>4. job[t] \in Delivery
    BY <1>1, <2>3 DEF SlotInv, Busy
  <2>5. Same(job[t])
    BY <1>4, <2>2, <2>3, <2>4 DEF OthersLose, Lost, Fenced
  <2>6. Fenced(t) /\ Live(job[t])
    BY <1>4, <2>3, <2>5 DEF Fenced, Live, Same
  <2> QED BY <2>1, <2>3, <2>6 DEF IInv, DrainInv, DrainedIsQuiet
<1>5. DrainInv'
  BY <1>4 DEF IInv, DrainInv, DrainedIsQuiet, user
<1> QED BY <1>3, <1>5 DEF IInv

(* The store does not change.                                                  *)
LEMMA RowStaysFacts ==
  ASSUME RowType, RowStays
  PROVE  /\ InOrder
         /\ \A d \in Delivery : Same(d)
         /\ source' \in [Delivery -> {"open", "failed"}] => RowType'
         /\ Grows => \A d \in Delivery : RowInv(d) => RowInv(d)'
<1>1. UNCHANGED <<status, lane, seq, lease, holder, attempts, handling, begun, tried,
                  refused>>
  BY DEF RowStays, row, history
<1>2. InOrder
  BY <1>1 DEF InOrder, Unsettled
<1>3. \A d \in Delivery : Same(d)
  BY <1>1 DEF Same
<1>4. source' \in [Delivery -> {"open", "failed"}] => RowType'
  BY <1>1 DEF RowType
<1>5. Grows => \A d \in Delivery : RowInv(d) => RowInv(d)'
  BY <1>1 DEF Grows, RowInv
<1> QED BY <1>2, <1>3, <1>4, <1>5

(* A task ends.                                                                *)
LEMMA FinishFacts ==
  ASSUME SlotType, RestType, NEW s \in Slot, Finish(s)
  PROVE  /\ SlotType' /\ awaited' \in [Drain -> SUBSET Slot]
         /\ Alone(s) /\ SlotInv(s)' /\ pc'[s] = "idle"
<1>1. SlotType'
  BY DEF SlotType, Finish, Step
<1>2. awaited' \in [Drain -> SUBSET Slot]
  BY DEF RestType, Finish
<1>3. Alone(s)
  BY DEF SlotType, Finish, Alone
<1>4. pc'[s] = "idle" /\ job'[s] = NoDelivery
  BY DEF SlotType, Finish
<1>5. SlotInv(s)'
  BY <1>4 DEF SlotInv, Busy, Holds
<1> QED BY <1>1, <1>2, <1>3, <1>4, <1>5

(* A task goes on to its next call.                                            *)
LEMMA GoesFacts ==
  ASSUME SlotType, NEW s \in Slot, NEW from, NEW to \in Step, Goes(s, from, to)
  PROVE  /\ SlotType' /\ awaited' = awaited
         /\ Alone(s) /\ pc[s] = from /\ pc'[s] = to
         /\ job' = job /\ attempt' = attempt
BY DEF SlotType, Goes, Alone

(* A task that goes on without touching the store.                            *)
LEMMA MoveKeeps ==
  ASSUME IInv, NEW s \in Slot, NEW from \in Step \ {"idle", "claiming"},
         NEW to \in Step \ {"idle", "claiming"},
         Goes(s, from, to), RowStays, Grows,
         source' \in [Delivery -> {"open", "failed"}],
         UNCHANGED <<engine, user, requeues, fences>>, mishaps' \in Nat,
         to = "burying" => source'[job[s]] = "failed",
         to = "sending" => account = "active",
         Holds(s) =>
             /\ to = "beginning" => attempt[s] < MaxAttempts
             /\ to \in Tries => begun[job[s]]
             /\ to \in Untried => ~begun[job[s]]
             /\ to \in {"closing", "burying"} => refused[job[s]] \/ attempt[s] >= MaxAttempts
             /\ to \notin {"claimed", "ordering", "releasing"} => ~Blocked(job[s])
  PROVE  IInv'
<1>1. RowType /\ SlotType /\ RestType /\ SlotInv(s)
  BY Types DEF IInv
<1>2. /\ SlotType' /\ awaited' = awaited /\ Alone(s) /\ pc[s] = from /\ pc'[s] = to
      /\ job' = job /\ attempt' = attempt
  BY <1>1, GoesFacts
<1>3. /\ InOrder /\ RowType'
      /\ \A d \in Delivery : Same(d)
      /\ \A d \in Delivery : RowInv(d)'
  BY <1>1, RowStaysFacts DEF IInv
<1>4. RestType'
  BY <1>1, <1>2 DEF RestType, engine, user
<1>5. job[s] \in Delivery /\ Busy(s) /\ Busy(s)'
  BY <1>1, <1>2 DEF SlotInv, Busy
<1>6. Holds(s)' => Holds(s)
  BY <1>2, <1>3, <1>5 DEF Holds, Fenced, Same
<1>7. Holds(s) /\ to \notin {"claimed", "ordering", "releasing"} => ~Blocked(job[s])'
  <2> SUFFICES ASSUME Holds(s), to \notin {"claimed", "ordering", "releasing"}
               PROVE  ~Blocked(job[s])'
    OBVIOUS
  <2>1. status' = status /\ seq' = seq /\ handling' = handling
    BY DEF RowStays, row
  <2>2. job'[s] = job[s]
    BY <1>2
  <2>3. ~Blocked(job[s])
    OBVIOUS
  <2> QED BY <2>1, <2>2, <2>3 DEF Blocked, Unsettled
<1>8. SlotInv(s)'
  BY <1>1, <1>2, <1>3, <1>5, <1>6, <1>7 DEF SlotInv, AtWork, Same
<1>9. OthersLose(s)
  BY <1>3 DEF OthersLose
<1>10. TypeOK'
  BY <1>2, <1>3, <1>4 DEF TypeOK, RowType, SlotType, RestType
<1>11. UNCHANGED user
  OBVIOUS
<1> QED BY <1>2, <1>3, <1>8, <1>9, <1>10, <1>11, StepKeeps

(* A task that ends without touching the store.                               *)
LEMMA EndKeeps ==
  ASSUME IInv, NEW s \in Slot, Finish(s), RowStays,
         UNCHANGED <<source, engine, user, requeues, fences>>, mishaps' \in Nat
  PROVE  IInv'
<1>1. RowType /\ SlotType /\ RestType
  BY Types DEF IInv
<1>2. /\ SlotType' /\ awaited' \in [Drain -> SUBSET Slot]
      /\ Alone(s) /\ SlotInv(s)' /\ pc'[s] = "idle"
  BY <1>1, FinishFacts
<1>3. Grows /\ source' \in [Delivery -> {"open", "failed"}]
  BY <1>1 DEF Grows, RowType
<1>4. /\ InOrder /\ RowType'
      /\ \A d \in Delivery : Same(d)
      /\ \A d \in Delivery : RowInv(d)'
  BY <1>1, <1>3, RowStaysFacts DEF IInv
<1>5. RestType'
  BY <1>1, <1>2 DEF RestType, engine, user
<1>6. TypeOK'
  BY <1>2, <1>4, <1>5 DEF TypeOK, RowType, SlotType, RestType
<1>7. OthersLose(s) /\ UNCHANGED user
  BY <1>4 DEF OthersLose
<1> QED BY <1>2, <1>3, <1>4, <1>6, <1>7, StepKeeps

(* The claim of a slot ends: the row moves on and nobody holds it.            *)
LEMMA EndClaimFacts ==
  ASSUME IInv, NEW s \in Slot, NEW d \in Delivery, job[s] = d, Fenced(s),
         NEW to \in {"pending", "succeeded", "dead"}, NEW spent \in BOOLEAN,
         EndClaim(d, to, spent), UNCHANGED source,
         handling' \in [Delivery -> {"none", "started", "settled"}],
         \A x \in Delivery \ {d} : handling'[x] = handling[x],
         \/ spent /\ attempts' = attempts
         \/ ~spent /\ begun[d] /\ attempts' = [attempts EXCEPT ![d] = @ - 1],
         to = "dead" =>
             /\ spent /\ source[d] = "failed"
             /\ refused[d] \/ attempts[d] >= MaxAttempts
  PROVE  /\ RowType' /\ InOrder /\ OthersLose(s) /\ Grows
         /\ \A x \in Delivery : RowInv(x)'
         /\ ~Fenced(s)' \/ job'[s] # d
<1>1. RowType /\ status[d] = "leased" /\ holder[d] = s
  BY Types DEF IInv, Fenced
<1>2. /\ status' = [status EXCEPT ![d] = to]
      /\ lease' = [lease EXCEPT ![d] = "none"]
      /\ holder' = [holder EXCEPT ![d] = NoSlot]
      /\ begun' = [begun EXCEPT ![d] = FALSE]
      /\ tried' = [tried EXCEPT ![d] = IF begun[d] /\ spent THEN @ + 1 ELSE @]
      /\ lane' = lane /\ seq' = seq /\ refused' = refused
  BY DEF EndClaim
<1>3. ASSUME NEW x \in Delivery \ {d}
      PROVE  /\ Same(x) /\ seq'[x] = seq[x] /\ handling'[x] = handling[x]
             /\ tried'[x] = tried[x]
  BY <1>1, <1>2 DEF RowType, Same
<1>4. status'[d] = to /\ begun'[d] = FALSE /\ holder'[d] = NoSlot
  BY <1>1, <1>2 DEF RowType
<1>5. /\ attempts[d] = tried[d] + (IF begun[d] THEN 1 ELSE 0)
      /\ attempts[d] \in Nat /\ tried[d] \in Nat /\ attempts[d] <= MaxAttempts
  BY <1>1 DEF IInv, RowInv, RowType
<1>6. /\ tried'[d] \in Nat /\ attempts'[d] \in Nat
      /\ attempts'[d] = tried'[d] /\ attempts'[d] <= attempts[d]
      /\ to = "dead" => tried'[d] = attempts[d] \/ refused[d]
  <2>1. CASE spent /\ begun[d]
    BY <1>1, <1>2, <1>5, <2>1 DEF RowType
  <2>2. CASE spent /\ ~begun[d]
    BY <1>1, <1>2, <1>5, <2>2 DEF RowType
  <2>3. CASE ~spent
    <3>1. to # "dead"
      BY <2>3
    <3>2. tried'[d] = tried[d] /\ attempts'[d] = attempts[d] - 1 /\ begun[d]
      BY <1>1, <1>2, <2>3 DEF RowType
    <3> QED BY <1>5, <3>1, <3>2
  <2> QED BY <1>1, <2>1, <2>2, <2>3 DEF RowType
<1>7. RowType'
  <2>1. status' \in [Delivery -> Status]
    BY <1>1, <1>2 DEF RowType, Status
  <2>2. lease' \in [Delivery -> {"none", "live", "over", "stale"}]
    BY <1>1, <1>2 DEF RowType
  <2>3. holder' \in [Delivery -> Slot \cup {NoSlot}]
    BY <1>1, <1>2 DEF RowType
  <2>4. begun' \in [Delivery -> BOOLEAN]
    BY <1>1, <1>2 DEF RowType
  <2>5. tried' \in [Delivery -> Nat]
    BY <1>1, <1>2, <1>5 DEF RowType
  <2>6. attempts' \in [Delivery -> Nat]
    BY <1>1, <1>6 DEF RowType
  <2> QED BY <1>1, <1>2, <2>1, <2>2, <2>3, <2>4, <2>5, <2>6 DEF RowType
<1>8. InOrder
  BY <1>1, <1>2, <1>3 DEF InOrder, Unsettled, Same
<1>9. OthersLose(s)
  BY <1>3, <1>4 DEF OthersLose, Lost
<1>10. Grows
  BY DEF Grows
<1>11. RowInv(d)'
  <2>1. seq'[d] <= lane'
    BY <1>1, <1>2 DEF IInv, RowInv, RowType
  <2>2. source'[d] = source[d] /\ refused'[d] = refused[d]
    BY <1>2
  <2>3. to = "dead" => source'[d] = "failed" /\ (refused'[d] \/ tried'[d] >= MaxAttempts)
    BY <1>5, <1>6, <2>2
  <2> QED BY <1>4, <1>5, <1>6, <2>1, <2>3 DEF RowInv
<1>12. ASSUME NEW x \in Delivery \ {d} PROVE RowInv(x)'
  <2>1. RowInv(x) /\ source'[x] = source[x] /\ refused'[x] = refused[x] /\ lane' = lane
    BY <1>2 DEF IInv
  <2> QED BY <1>3, <2>1 DEF RowInv, Same
<1>13. ~Fenced(s)' \/ job'[s] # d
  BY <1>4 DEF Fenced
<1> QED BY <1>7, <1>8, <1>9, <1>10, <1>11, <1>12, <1>13

(* The claim ends, and with it the task.                                       *)
LEMMA EndClaimKeeps ==
  ASSUME IInv, NEW s \in Slot, NEW d \in Delivery, job[s] = d, Fenced(s),
         NEW to \in {"pending", "succeeded", "dead"}, NEW spent \in BOOLEAN,
         EndClaim(d, to, spent), Finish(s),
         UNCHANGED <<source, engine, user, counters>>,
         handling' \in [Delivery -> {"none", "started", "settled"}],
         \A x \in Delivery \ {d} : handling'[x] = handling[x],
         \/ spent /\ attempts' = attempts
         \/ ~spent /\ begun[d] /\ attempts' = [attempts EXCEPT ![d] = @ - 1],
         to = "dead" =>
             /\ spent /\ source[d] = "failed"
             /\ refused[d] \/ attempts[d] >= MaxAttempts
  PROVE  IInv'
<1>1. SlotType /\ RestType
  BY Types DEF IInv
<1>2. /\ SlotType' /\ awaited' \in [Drain -> SUBSET Slot]
      /\ Alone(s) /\ SlotInv(s)' /\ pc'[s] = "idle"
  BY <1>1, FinishFacts
<1>3. /\ RowType' /\ InOrder /\ OthersLose(s) /\ Grows
      /\ \A x \in Delivery : RowInv(x)'
  <2>1. UNCHANGED source
    OBVIOUS
  <2> QED BY <2>1, EndClaimFacts
<1>4. RestType'
  BY <1>1, <1>2 DEF RestType, engine, user, counters
<1>5. TypeOK'
  BY <1>2, <1>3, <1>4 DEF TypeOK, RowType, SlotType, RestType
<1>6. UNCHANGED user
  OBVIOUS
<1> QED BY <1>2, <1>3, <1>5, <1>6, StepKeeps

-----------------------------------------------------------------------------
(* The calls of a task.                                                        *)

LEMMA WorkFacts ==
  ASSUME IInv, NEW s \in Slot, Busy(s)
  PROVE  job[s] \in Delivery /\ (Fenced(s) => Holds(s)) /\ mishaps \in Nat
BY DEF IInv, SlotInv, Holds, TypeOK

LEMMA ElsewhereFacts ==
  ASSUME IInv, Elsewhere
  PROVE  /\ Grows /\ source' \in [Delivery -> {"open", "failed"}]
         /\ UNCHANGED <<source, engine, user, requeues, fences>> /\ mishaps' \in Nat
         /\ UNCHANGED <<source, engine, user, counters>>
BY DEF IInv, TypeOK, Elsewhere, Grows, counters

LEMMA MayFacts ==
  ASSUME IInv, NEW kind, May(kind)
  PROVE  mishaps' \in Nat
BY DEF IInv, TypeOK, May

LEMMA StartKeeps ==
  ASSUME IInv, NEW s \in Slot, Start(s)
  PROVE  IInv'
<1> DEFINE to == IF cancelled[EngineOf[s]] THEN "releasing" ELSE "ordering"
<1>1. Goes(s, "claimed", to) /\ RowStays /\ Elsewhere
  BY DEF Start
<1>2. to \in {"releasing", "ordering"}
  OBVIOUS
<1> HIDE DEF to
<1>3. to \in Step \ {"idle", "claiming"} /\ to \notin {"burying", "sending"}
  BY <1>2 DEF Step
<1>4. Holds(s) => ~begun[job[s]]
  BY <1>1 DEF IInv, SlotInv, Untried, Goes
<1> QED BY <1>1, <1>2, <1>3, <1>4, ElsewhereFacts, MoveKeeps DEF Step, Tries, Untried

LEMMA OrderKeepsInv ==
  ASSUME IInv, NEW s \in Slot, Order(s)
  PROVE  IInv'
<1> DEFINE to == IF Blocked(job[s]) THEN "releasing"
                 ELSE IF Exhausted(attempt[s]) THEN "closing"
                 ELSE IF stopped[EngineOf[s]] \/ cancelled[EngineOf[s]] THEN "releasing"
                 ELSE "beginning"
<1>1. Goes(s, "ordering", to) /\ RowStays /\ Elsewhere
  BY DEF Order
<1>2. attempt[s] \in Nat
  BY DEF IInv, TypeOK
<1>3. /\ to \in {"releasing", "closing", "beginning"}
      /\ to # "releasing" => ~Blocked(job[s])
      /\ to = "closing" => attempt[s] >= MaxAttempts
      /\ to = "beginning" => attempt[s] < MaxAttempts
  BY <1>2 DEF Exhausted
<1> HIDE DEF to
<1>4. to \in Step \ {"idle", "claiming"} /\ to \notin {"burying", "sending"} \cup Tries
  BY <1>3 DEF Step, Tries
<1>5. Holds(s) => ~begun[job[s]]
  BY <1>1 DEF IInv, SlotInv, Untried, Goes
<1> QED BY <1>1, <1>3, <1>4, <1>5, ElsewhereFacts, MoveKeeps DEF Step, Untried

LEMMA CheckKeeps ==
  ASSUME IInv, NEW s \in Slot, Check(s)
  PROVE  IInv'
<1> DEFINE to == IF account = "active" THEN "sending" ELSE "deferring"
<1>1. Goes(s, "checking", to) /\ RowStays /\ Elsewhere
  BY DEF Check
<1>2. pc[s] = "checking"
  BY <1>1 DEF Goes
<1>3. Holds(s) => begun[job[s]] /\ ~Blocked(job[s])
  BY <1>2 DEF IInv, SlotInv, AtWork, Step, Tries
<1>4. to \in {"sending", "deferring"} /\ (to = "sending" => account = "active")
  OBVIOUS
<1> HIDE DEF to
<1>5. to \in Step \ {"idle", "claiming"} /\ to \notin {"burying", "beginning", "closing"}
  BY <1>4 DEF Step
<1> QED BY <1>1, <1>3, <1>4, <1>5, ElsewhereFacts, MoveKeeps DEF Step, Untried

(* What a slot that has begun its attempt may count on while it holds its claim. *)
LEMMA TryFacts ==
  ASSUME IInv, NEW s \in Slot, pc[s] \in Tries
  PROVE  /\ Busy(s) /\ job[s] \in Delivery
         /\ Holds(s) => begun[job[s]] /\ ~Blocked(job[s]) /\ attempt[s] = attempts[job[s]]
BY DEF IInv, SlotInv, AtWork, Step, Tries, Busy

LEMMA AcceptedKeeps ==
  ASSUME IInv, NEW s \in Slot, Accepted(s)
  PROVE  IInv'
<1>1. Goes(s, "sending", "completing") /\ RowStays /\ Elsewhere
  BY DEF Accepted
<1>2. pc[s] \in Tries
  BY <1>1 DEF Goes, Tries
<1> QED BY <1>1, <1>2, TryFacts, ElsewhereFacts, MoveKeeps DEF Step, Untried

LEMMA FailedKeeps ==
  ASSUME IInv, NEW s \in Slot, Failed(s)
  PROVE  IInv'
<1> DEFINE to == IF CutShort(s) THEN "deferring"
                 ELSE IF Exhausted(attempt[s]) THEN "closing" ELSE "retrying"
<1>1. Goes(s, "sending", to) /\ RowStays /\ Elsewhere
  BY DEF Failed
<1>2. pc[s] \in Tries
  BY <1>1 DEF Goes, Tries
<1>3. to \in {"deferring", "closing", "retrying"}
      /\ (to = "closing" => attempt[s] >= MaxAttempts)
  BY DEF Exhausted
<1> HIDE DEF to
<1>4. to \in Step \ {"idle", "claiming"} /\ to \notin {"burying", "sending", "beginning"}
  BY <1>3 DEF Step
<1> QED BY <1>1, <1>2, <1>3, <1>4, TryFacts, ElsewhereFacts, MoveKeeps DEF Step, Untried

LEMMA DeferredKeeps ==
  ASSUME IInv, NEW s \in Slot, Deferred(s)
  PROVE  IInv'
<1>1. /\ Goes(s, "sending", "deferring") /\ RowStays
      /\ UNCHANGED <<source, engine, user, requeues, fences>>
  BY DEF Deferred
<1>2. pc[s] \in Tries
  BY <1>1 DEF Goes, Tries
<1>3. mishaps' \in Nat
  BY MayFacts DEF Deferred, IInv, TypeOK
<1>4. Grows /\ source' \in [Delivery -> {"open", "failed"}]
  BY <1>1 DEF Grows, IInv, TypeOK
<1> QED BY <1>1, <1>2, <1>3, <1>4, TryFacts, MoveKeeps DEF Step, Untried

(* Only the history of a row changes.                                         *)
LEMMA RefusedKeeps ==
  ASSUME IInv, NEW s \in Slot, Refused(s)
  PROVE  IInv'
<1> DEFINE to == IF CutShort(s) THEN "deferring" ELSE "closing"
           d == job[s]
<1>1. /\ Goes(s, "sending", to) /\ Elsewhere
      /\ refused' = [refused EXCEPT ![d] = @ \/ ~CutShort(s)]
      /\ UNCHANGED <<row, begun, tried>>
  BY DEF Refused
<1>2. pc[s] \in Tries /\ to \in Step
  BY <1>1 DEF Goes, Tries, Step
<1>3. RowType /\ SlotType /\ RestType /\ SlotInv(s)
  BY Types DEF IInv
<1>4. d \in Delivery /\ Busy(s)
  BY <1>2, TryFacts
<1>5. /\ SlotType' /\ awaited' = awaited /\ Alone(s) /\ pc'[s] = to
      /\ job' = job /\ attempt' = attempt
  BY <1>1, <1>2, <1>3, GoesFacts
<1>6. UNCHANGED <<status, lane, seq, lease, holder, attempts, handling, begun, tried, source>>
  BY <1>1 DEF row, Elsewhere
<1>7. refused' \in [Delivery -> BOOLEAN]
  BY <1>1, <1>3 DEF RowType
<1>8. \A x \in Delivery : refused[x] => refused'[x]
  BY <1>1, <1>3 DEF RowType
<1>9. to = "closing" => refused'[d]
  BY <1>1, <1>3, <1>4 DEF RowType
<1>10. TypeOK'
  BY <1>1, <1>3, <1>5, <1>6, <1>7, ElsewhereFacts
     DEF TypeOK, RowType, SlotType, RestType, engine, user
<1>11. (\A x \in Delivery : Same(x) /\ RowInv(x)') /\ InOrder /\ Grows
  BY <1>6, <1>8 DEF Same, RowInv, InOrder, Unsettled, Grows, IInv
<1>12. (Holds(s)' => Holds(s)) /\ (~Blocked(d) => ~Blocked(d)')
  BY <1>4, <1>5, <1>6 DEF Holds, Fenced, Blocked, Unsettled
<1>13. to \in {"deferring", "closing"}
  OBVIOUS
<1>14. Holds(s) => begun[d] /\ ~Blocked(d) /\ attempt[s] = attempts[d]
  BY <1>2, TryFacts
<1> HIDE DEF to, d
<1>15. (Busy(s) <=> job[s] \in Delivery)'
  BY <1>4, <1>5, <1>13 DEF Busy, d
<1>16. SlotInv(s)'
  BY <1>5, <1>6, <1>9, <1>12, <1>13, <1>14, <1>15 DEF SlotInv, Untried, d
<1>17. OthersLose(s) /\ UNCHANGED user /\ pc'[s] # "sending"
  BY <1>1, <1>5, <1>11, <1>13 DEF OthersLose, Elsewhere
<1> QED BY <1>5, <1>10, <1>11, <1>16, <1>17, StepKeeps

LEMMA CompleteKeeps ==
  ASSUME IInv, NEW s \in Slot, Complete(s)
  PROVE  IInv'
<1>1. Finish(s) /\ Elsewhere /\ pc[s] \in Tries
  BY DEF Complete, Ends, Tries
<1>2. job[s] \in Delivery
  BY <1>1, TryFacts
<1>3. CASE ~Fenced(s)
  BY <1>1, <1>3, ElsewhereFacts, EndKeeps DEF Complete
<1>4. CASE Fenced(s)
  <2>1. PICK h \in {"none", "started"} :
            /\ EndClaim(job[s], "succeeded", TRUE)
            /\ handling' = [handling EXCEPT ![job[s]] = h]
            /\ attempts' = attempts
    BY <1>4 DEF Complete, Succeed
  <2>2. handling' \in [Delivery -> {"none", "started", "settled"}]
        /\ \A x \in Delivery \ {job[s]} : handling'[x] = handling[x]
    BY <1>2, <2>1 DEF IInv, TypeOK
  <2> QED BY <1>1, <1>2, <1>4, <2>1, <2>2, ElsewhereFacts, EndClaimKeeps
<1> QED BY <1>3, <1>4

LEMMA CompleteThrowsKeeps ==
  ASSUME IInv, NEW s \in Slot, CompleteThrows(s)
  PROVE  IInv'
<1>1. /\ Goes(s, "completing", "retrying") /\ mishaps' \in Nat
      /\ UNCHANGED <<source, engine, user, requeues, fences>>
  BY MayFacts DEF CompleteThrows
<1>2. pc[s] \in Tries
  BY <1>1 DEF Goes, Tries
<1>3. job[s] \in Delivery
  BY <1>2, TryFacts
<1>4. CASE RowStays
  <2>1. Grows /\ source' \in [Delivery -> {"open", "failed"}]
    BY <1>1 DEF Grows, IInv, TypeOK
  <2> QED BY <1>1, <1>2, <1>4, <2>1, TryFacts, MoveKeeps DEF Step, Untried
<1>5. CASE Fenced(s) /\ Succeed(s)
  <2>1. PICK h \in {"none", "started"} :
            /\ EndClaim(job[s], "succeeded", TRUE)
            /\ handling' = [handling EXCEPT ![job[s]] = h]
            /\ attempts' = attempts
    BY <1>5 DEF Succeed
  <2>2. handling' \in [Delivery -> {"none", "started", "settled"}]
        /\ \A x \in Delivery \ {job[s]} : handling'[x] = handling[x]
    BY <1>3, <2>1 DEF IInv, TypeOK
  <2>3. UNCHANGED source
    BY <1>1
  <2>4. /\ RowType' /\ InOrder /\ OthersLose(s) /\ Grows
        /\ \A x \in Delivery : RowInv(x)'
        /\ ~Fenced(s)' \/ job'[s] # job[s]
    BY <1>3, <1>5, <2>1, <2>2, <2>3, EndClaimFacts
  <2>5. SlotType /\ RestType
    BY Types DEF IInv
  <2>6. "retrying" \in Step
    BY DEF Step
  <2>7. /\ SlotType' /\ awaited' = awaited /\ Alone(s) /\ pc'[s] = "retrying"
        /\ job' = job /\ attempt' = attempt
    BY <1>1, <2>5, <2>6, GoesFacts
  <2>8. SlotInv(s)'
    BY <1>3, <2>4, <2>7 DEF SlotInv, Busy, Holds
  <2>9. TypeOK'
    BY <1>1, <2>4, <2>5, <2>7 DEF TypeOK, RowType, SlotType, RestType, engine, user
  <2>10. UNCHANGED user
    BY <1>1
  <2> QED BY <2>4, <2>7, <2>8, <2>9, <2>10, StepKeeps
<1> QED BY <1>4, <1>5 DEF CompleteThrows

LEMMA RetryKeeps ==
  ASSUME IInv, NEW s \in Slot, Retry(s)
  PROVE  IInv'
<1>1. Finish(s) /\ Elsewhere /\ pc[s] \in Tries
  BY DEF Retry, Ends, Tries
<1>2. job[s] \in Delivery /\ handling \in [Delivery -> {"none", "started", "settled"}]
  BY <1>1, TryFacts DEF IInv, TypeOK
<1>3. CASE ~Fenced(s)
  BY <1>1, <1>3, ElsewhereFacts, EndKeeps DEF Retry
<1>4. CASE Fenced(s)
  <2>1. EndClaim(job[s], "pending", TRUE) /\ UNCHANGED <<attempts, handling>>
    BY <1>4 DEF Retry
  <2> QED BY <1>1, <1>2, <1>4, <2>1, ElsewhereFacts, EndClaimKeeps
<1> QED BY <1>3, <1>4

LEMMA GiveBackKeeps ==
  ASSUME IInv, NEW s \in Slot, GiveBack(s)
  PROVE  IInv'
<1>1. Finish(s) /\ Elsewhere /\ Busy(s)
  BY DEF GiveBack, Ends, Busy
<1>2. job[s] \in Delivery /\ handling \in [Delivery -> {"none", "started", "settled"}]
  BY <1>1, WorkFacts DEF IInv, TypeOK
<1>3. CASE ~Fenced(s)
  BY <1>1, <1>3, ElsewhereFacts, EndKeeps DEF GiveBack
<1>4. CASE Fenced(s)
  <2>1. EndClaim(job[s], "pending", TRUE) /\ UNCHANGED <<attempts, handling>>
    BY <1>4 DEF GiveBack
  <2> QED BY <1>1, <1>2, <1>4, <2>1, ElsewhereFacts, EndClaimKeeps
<1> QED BY <1>3, <1>4

LEMMA DeferKeeps ==
  ASSUME IInv, NEW s \in Slot, Defer(s)
  PROVE  IInv'
<1>1. Finish(s) /\ Elsewhere /\ pc[s] \in Tries
  BY DEF Defer, Ends, Tries
<1>2. /\ job[s] \in Delivery /\ (Holds(s) => begun[job[s]]) /\ Busy(s)
      /\ handling \in [Delivery -> {"none", "started", "settled"}]
  BY <1>1, TryFacts DEF IInv, TypeOK
<1>3. CASE RowStays
  BY <1>1, <1>3, ElsewhereFacts, EndKeeps
<1>4. CASE /\ Fenced(s) /\ EndClaim(job[s], "pending", FALSE)
           /\ attempts' = [attempts EXCEPT ![job[s]] = @ - 1] /\ handling' = handling
  <2>1. begun[job[s]]
    BY <1>2, <1>4 DEF Holds
  <2> QED BY <1>1, <1>2, <1>4, <2>1, ElsewhereFacts, EndClaimKeeps
<1> QED BY <1>3, <1>4 DEF Defer

LEMMA CloseSourceKeeps ==
  ASSUME IInv, NEW s \in Slot, CloseSource(s)
  PROVE  IInv'
<1>1. /\ Goes(s, "closing", "burying") /\ RowStays
      /\ source' = [source EXCEPT ![job[s]] = "failed"]
      /\ UNCHANGED <<engine, user, counters>>
  BY DEF CloseSource
<1>2. Busy(s) /\ pc[s] = "closing"
  BY <1>1 DEF Goes, Busy
<1>3. job[s] \in Delivery /\ source \in [Delivery -> {"open", "failed"}] /\ mishaps \in Nat
  BY <1>2, WorkFacts DEF IInv, TypeOK
<1>4. /\ Grows /\ source' \in [Delivery -> {"open", "failed"}]
      /\ source'[job[s]] = "failed"
  BY <1>1, <1>3 DEF Grows
<1>5. Holds(s) => /\ ~Blocked(job[s])
                  /\ refused[job[s]] \/ attempt[s] >= MaxAttempts
  BY <1>2 DEF IInv, SlotInv, AtWork, Step
<1>6. UNCHANGED <<engine, user, requeues, fences>> /\ mishaps' \in Nat
  BY <1>1, <1>3 DEF counters
<1> QED BY <1>1, <1>4, <1>5, <1>6, MoveKeeps DEF Step, Tries, Untried

LEMMA CloseThrowsKeeps ==
  ASSUME IInv, NEW s \in Slot, CloseThrows(s)
  PROVE  IInv'
<1>1. /\ Goes(s, "closing", "releasing") /\ RowStays /\ mishaps' \in Nat
      /\ UNCHANGED <<source, engine, user, requeues, fences>>
  BY MayFacts DEF CloseThrows
<1>2. Grows /\ source' \in [Delivery -> {"open", "failed"}]
  BY <1>1 DEF Grows, IInv, TypeOK
<1> QED BY <1>1, <1>2, MoveKeeps DEF Step, Tries, Untried

LEMMA BuryKeeps ==
  ASSUME IInv, NEW s \in Slot, Bury(s)
  PROVE  IInv'
<1>1. Finish(s) /\ Elsewhere /\ Busy(s) /\ pc[s] = "burying"
  BY DEF Bury, Ends, Busy
<1>2. job[s] \in Delivery /\ handling \in [Delivery -> {"none", "started", "settled"}]
  BY <1>1, WorkFacts DEF IInv, TypeOK
<1>3. CASE ~Fenced(s)
  BY <1>1, <1>3, ElsewhereFacts, EndKeeps DEF Bury
<1>4. CASE Fenced(s)
  <2>1. EndClaim(job[s], "dead", TRUE) /\ UNCHANGED <<attempts, handling>>
    BY <1>4 DEF Bury
  <2>2. /\ source[job[s]] = "failed"
        /\ refused[job[s]] \/ attempts[job[s]] >= MaxAttempts
    BY <1>1, <1>4 DEF IInv, SlotInv, Holds
  <2> QED BY <1>1, <1>2, <1>4, <2>1, <2>2, ElsewhereFacts, EndClaimKeeps
<1> QED BY <1>3, <1>4

LEMMA TaskThrowsKeeps ==
  ASSUME IInv, NEW s \in Slot, TaskThrows(s)
  PROVE  IInv'
<1>1. /\ Finish(s) /\ RowStays /\ mishaps' \in Nat
      /\ UNCHANGED <<source, engine, user, requeues, fences>>
  BY MayFacts DEF TaskThrows
<1> QED BY <1>1, EndKeeps

(* The one step that takes an attempt.                                        *)
LEMMA BeginKeeps ==
  ASSUME IInv, NEW s \in Slot, Begin(s), NEW d \in Delivery, job[s] = d
  PROVE  IInv'
<1>1. pc[s] = "beginning" /\ Elsewhere /\ Busy(s)
  BY DEF Begin, Busy
<1>3. CASE ~(Fenced(s) /\ Live(d))
  BY <1>1, <1>3, ElsewhereFacts, EndKeeps DEF Begin
<1>4. CASE Fenced(s) /\ Live(d)
  <2>1. /\ attempts' = [attempts EXCEPT ![d] = @ + 1]
        /\ begun' = [begun EXCEPT ![d] = TRUE]
        /\ attempt' = [attempt EXCEPT ![s] = attempts[d] + 1]
        /\ aborted' = [aborted EXCEPT ![s] = stopped[EngineOf[s]] \/ cancelled[EngineOf[s]]]
        /\ pc' = [pc EXCEPT ![s] = "checking"]
        /\ UNCHANGED <<job, awaited, status, lane, seq, lease, holder, handling, tried, refused>>
    BY <1>4 DEF Begin
  <2>2. RowType /\ SlotType /\ RestType /\ RowInv(d) /\ SlotInv(s)
    BY Types DEF IInv
  <2>3. /\ attempt[s] = attempts[d] /\ attempts[d] < MaxAttempts /\ ~Blocked(d)
        /\ status[d] = "leased" /\ holder[d] = s
    BY <1>1, <1>4, <2>2 DEF SlotInv, Holds, Fenced, AtWork, Step
  <2>4. attempts[d] \in Nat /\ tried[d] \in Nat
    BY <2>2 DEF RowType
  <2>5. EngineOf[s] \in Engine /\ "checking" \in Step
    BY DEF EngineAssumption, Step
  <2>6. RowType'
    <3>1. attempts' \in [Delivery -> Nat]
      <4>1. attempts \in [Delivery -> Nat] /\ attempts[d] + 1 \in Nat
        BY <2>2, <2>4 DEF RowType
      <4> QED BY <2>1, <4>1
    <3>2. begun' \in [Delivery -> BOOLEAN]
      BY <2>1, <2>2 DEF RowType
    <3>3. source' = source
      BY <1>1 DEF Elsewhere
    <3> QED BY <2>1, <2>2, <3>1, <3>2, <3>3 DEF RowType
  <2>7. SlotType'
    BY <2>1, <2>2, <2>4, <2>5 DEF SlotType, RestType
  <2>8. TypeOK'
    BY <1>1, <2>1, <2>2, <2>6, <2>7
       DEF TypeOK, RowType, SlotType, RestType, Elsewhere, engine, user, counters
  <2>9. UNCHANGED source /\ UNCHANGED user
    BY <1>1 DEF Elsewhere
  <2>10. ASSUME NEW x \in Delivery \ {d} PROVE Same(x) /\ RowInv(x)'
    <3>1. RowInv(x) /\ attempts'[x] = attempts[x] /\ begun'[x] = begun[x]
      BY <2>1, <2>2 DEF RowType, IInv
    <3> QED BY <2>1, <2>9, <3>1 DEF Same, RowInv
  <2>11. attempts'[d] = attempts[d] + 1 /\ begun'[d] = TRUE
    BY <2>1, <2>2 DEF RowType
  <2>12. RowInv(d)'
    <3>1. ~begun[d]
      BY <1>1, <1>4, <2>2 DEF SlotInv, Holds, Untried
    <3>2. attempts[d] = tried[d]
      BY <2>2, <2>4, <3>1 DEF RowInv
    <3> QED BY <2>1, <2>2, <2>3, <2>4, <2>9, <2>11, <3>2 DEF RowInv
  <2>13. InOrder
    BY <2>1 DEF InOrder, Unsettled
  <2>14. OthersLose(s)
    BY <2>1, <2>3, <2>10 DEF OthersLose, Lost
  <2>15. Alone(s) /\ pc'[s] = "checking" /\ attempt'[s] = attempts'[d]
    BY <2>1, <2>2, <2>11 DEF Alone, SlotType
  <2>16. ~Blocked(d)'
    BY <2>1, <2>3 DEF Blocked, Unsettled
  <2>17. SlotInv(s)'
    BY <2>1, <2>11, <2>15, <2>16 DEF SlotInv, Busy, Tries, Untried
  <2>18. Grows
    BY <2>9 DEF Grows
  <2>19. \A x \in Delivery : RowInv(x)'
    BY <2>10, <2>12
  <2> QED BY <2>8, <2>9, <2>13, <2>14, <2>15, <2>17, <2>18, <2>19, StepKeeps
<1> QED BY <1>3, <1>4

LEMMA WorkKeeps ==
  ASSUME IInv, NEW s \in Slot, Work(s)
  PROVE  IInv'
<1>1. CASE Begin(s)
  <2>1. Busy(s)
    BY <1>1 DEF Begin, Busy
  <2>2. job[s] \in Delivery
    BY <2>1, WorkFacts
  <2> QED BY <1>1, <2>2, BeginKeeps
<1> QED BY <1>1, StartKeeps, OrderKeepsInv, CheckKeeps, AcceptedKeeps, RefusedKeeps,
           FailedKeeps, DeferredKeeps, CompleteKeeps, CompleteThrowsKeeps, RetryKeeps,
           CloseSourceKeeps, CloseThrowsKeeps, BuryKeeps, DeferKeeps, GiveBackKeeps,
           TaskThrowsKeeps DEF Work, Send

-----------------------------------------------------------------------------
(* Polling.                                                                    *)

LEMMA BeginPassKeeps ==
  ASSUME IInv, NEW s \in Slot, BeginPass(s)
  PROVE  IInv'
<1>1. Goes(s, "idle", "claiming") /\ RowStays /\ Elsewhere
  BY DEF BeginPass
<1>2. RowType /\ SlotType /\ RestType /\ SlotInv(s) /\ "claiming" \in Step
  BY Types DEF IInv, Step
<1>3. /\ SlotType' /\ awaited' = awaited /\ Alone(s) /\ pc[s] = "idle"
      /\ pc'[s] = "claiming" /\ job' = job
  BY <1>1, <1>2, GoesFacts
<1>4. Grows /\ source' \in [Delivery -> {"open", "failed"}] /\ mishaps' \in Nat
      /\ UNCHANGED <<source, engine, user, requeues, fences>>
  BY <1>1, ElsewhereFacts
<1>5. /\ InOrder /\ RowType' /\ \A d \in Delivery : Same(d)
      /\ \A d \in Delivery : RowInv(d)'
  BY <1>1, <1>2, <1>4, RowStaysFacts DEF IInv
<1>6. RestType'
  BY <1>2, <1>3, <1>4 DEF RestType, engine, user
<1>7. TypeOK'
  BY <1>3, <1>5, <1>6 DEF TypeOK, RowType, SlotType, RestType
<1>8. SlotInv(s)'
  BY <1>2, <1>3 DEF SlotInv, Busy, Holds
<1>9. OthersLose(s) /\ UNCHANGED user
  BY <1>4, <1>5 DEF OthersLose
<1> QED BY <1>3, <1>4, <1>5, <1>7, <1>8, <1>9, StepKeeps

LEMMA NoClaimKeeps ==
  ASSUME IInv, NEW s \in Slot, NoClaim(s)
  PROVE  IInv'
BY ElsewhereFacts, EndKeeps DEF NoClaim, Ends

(* A claim takes the row from whoever held it, with the attempts it finds.    *)
LEMMA ClaimKeeps ==
  ASSUME IInv, NEW s \in Slot, NEW d \in Delivery, Claim(s, d)
  PROVE  IInv'
<1>1. /\ pc[s] = "claiming" /\ Claimable(d) /\ Elsewhere
      /\ pc' = [pc EXCEPT ![s] = "claimed"]
      /\ job' = [job EXCEPT ![s] = d]
      /\ attempt' = [attempt EXCEPT ![s] = attempts[d]]
      /\ status' = [status EXCEPT ![d] = "leased"]
      /\ lease' = [lease EXCEPT ![d] = "live"]
      /\ holder' = [holder EXCEPT ![d] = s]
      /\ begun' = [begun EXCEPT ![d] = FALSE]
      /\ tried' = [tried EXCEPT ![d] = IF begun[d] THEN @ + 1 ELSE @]
      /\ UNCHANGED <<lane, seq, attempts, handling, refused, aborted, awaited>>
  BY DEF Claim
<1>2. RowType /\ SlotType /\ RestType /\ "claimed" \in Step /\ "leased" \in Status
  BY Types DEF IInv, Step, Status
<1>3. /\ attempts[d] = tried[d] + (IF begun[d] THEN 1 ELSE 0)
      /\ attempts[d] \in Nat /\ tried[d] \in Nat /\ attempts[d] <= MaxAttempts
      /\ seq[d] <= lane
  BY <1>2 DEF IInv, RowInv, RowType
<1>4. UNCHANGED <<source, engine, user, counters>>
  BY <1>1 DEF Elsewhere
<1>5. ASSUME NEW x \in Delivery \ {d}
      PROVE  Same(x) /\ tried'[x] = tried[x]
  BY <1>1, <1>2 DEF RowType, Same
<1>6. /\ status'[d] = "leased" /\ holder'[d] = s /\ begun'[d] = FALSE
      /\ pc'[s] = "claimed" /\ job'[s] = d /\ attempt'[s] = attempts[d]
  BY <1>1, <1>2 DEF RowType, SlotType
<1>7. tried'[d] = attempts[d]
  BY <1>1, <1>2, <1>3 DEF RowType
<1>8. RowType'
  <2>1. status' \in [Delivery -> Status]
    BY <1>1, <1>2 DEF RowType
  <2>2. lease' \in [Delivery -> {"none", "live", "over", "stale"}]
    BY <1>1, <1>2 DEF RowType
  <2>3. holder' \in [Delivery -> Slot \cup {NoSlot}]
    BY <1>1, <1>2 DEF RowType
  <2>4. begun' \in [Delivery -> BOOLEAN]
    BY <1>1, <1>2 DEF RowType
  <2>5. tried' \in [Delivery -> Nat]
    BY <1>1, <1>2, <1>3 DEF RowType
  <2> QED BY <1>1, <1>2, <1>4, <2>1, <2>2, <2>3, <2>4, <2>5 DEF RowType
<1>9. SlotType'
  BY <1>1, <1>2, <1>3 DEF SlotType
<1>10. RestType'
  BY <1>1, <1>2, <1>4 DEF RestType, engine, user, counters
<1>11. TypeOK'
  BY <1>8, <1>9, <1>10 DEF TypeOK, RowType, SlotType, RestType
<1>12. InOrder
  BY <1>1, <1>2, <1>5 DEF InOrder, Unsettled, Claimable, Same, RowType
<1>13. Alone(s)
  BY <1>1, <1>2 DEF Alone, SlotType
<1>14. OthersLose(s)
  BY <1>5, <1>6 DEF OthersLose, Lost
<1>15. Grows
  BY <1>4 DEF Grows
<1>16. RowInv(d)'
  BY <1>1, <1>3, <1>6, <1>7 DEF RowInv
<1>17. ASSUME NEW x \in Delivery \ {d} PROVE RowInv(x)'
  BY <1>1, <1>4, <1>5 DEF RowInv, Same, IInv
<1>18. SlotInv(s)'
  BY <1>1, <1>6 DEF SlotInv, Busy, Tries, AtWork
<1>19. UNCHANGED user
  BY <1>4
<1> QED BY <1>6, <1>11, <1>12, <1>13, <1>14, <1>15, <1>16, <1>17, <1>18, <1>19, StepKeeps

-----------------------------------------------------------------------------
(* The lane and the clock.                                                     *)

(* A step that moves no slot.                                                  *)
LEMMA StoreKeeps ==
  ASSUME IInv, TypeOK', UNCHANGED <<pc, job, attempt>>, UNCHANGED user,
         \A d \in Delivery : Same(d) \/ \A t \in Slot : Lost(d, t),
         Grows, InOrder, \A d \in Delivery : RowInv(d)'
  PROVE  IInv'
<1>1. Alone(NoSlot) /\ OthersLose(NoSlot) /\ NoSlot \notin Slot
  BY DEF Alone, OthersLose, NoneAssumption
<1> QED BY <1>1, StepKeeps

LEMMA PublishKeeps ==
  ASSUME IInv, NEW d \in Delivery, Publish(d)
  PROVE  IInv'
<1>1. /\ status[d] = "absent"
      /\ status' = [status EXCEPT ![d] = "pending"] /\ lane' = lane + 1
      /\ seq' = [seq EXCEPT ![d] = lane + 1]
      /\ UNCHANGED <<lease, holder, attempts, handling, source, slot, engine, user,
                     awaited, history, counters>>
  BY DEF Publish
<1>2. RowType /\ SlotType /\ RestType /\ "pending" \in Status
  BY Types DEF IInv, Status
<1>3. UNCHANGED <<begun, tried, refused, pc, job, attempt, aborted>>
  BY <1>1 DEF history, slot
<1>4. RowType'
  BY <1>1, <1>2, <1>3 DEF RowType
<1>5. TypeOK'
  BY <1>1, <1>2, <1>3, <1>4 DEF TypeOK, RowType, SlotType, RestType, engine, user, counters
<1>6. ASSUME NEW x \in Delivery \ {d}
      PROVE  Same(x) /\ seq'[x] = seq[x] /\ status'[x] = status[x]
  BY <1>1, <1>2, <1>3 DEF RowType, Same
<1>7. status'[d] = "pending" /\ seq'[d] = lane + 1
  BY <1>1, <1>2 DEF RowType
<1>8. \A x \in Delivery : Same(x) \/ \A t \in Slot : Lost(x, t)
  BY <1>6, <1>7 DEF Lost
<1>9. InOrder
  BY <1>1, <1>6, <1>7 DEF InOrder, Unsettled
<1>10. ASSUME NEW x \in Delivery PROVE RowInv(x)'
  <2>1. RowInv(x) /\ lane \in Nat /\ seq[x] \in Nat
    BY <1>2 DEF IInv, RowType
  <2> QED BY <1>1, <1>3, <1>6, <1>7, <2>1 DEF RowInv
<1>11. Grows /\ UNCHANGED user
  BY <1>1 DEF Grows
<1> QED BY <1>3, <1>5, <1>8, <1>9, <1>10, <1>11, StoreKeeps

LEMMA RequeueKeeps ==
  ASSUME IInv, NEW d \in Delivery, Requeue(d)
  PROVE  IInv'
<1>1. /\ status[d] = "dead"
      /\ status' = [status EXCEPT ![d] = "pending"] /\ lane' = lane + 1
      /\ seq' = [seq EXCEPT ![d] = lane + 1]
      /\ attempts' = [attempts EXCEPT ![d] = 0]
      /\ tried' = [tried EXCEPT ![d] = 0]
      /\ refused' = [refused EXCEPT ![d] = FALSE]
      /\ requeues' = requeues + 1
      /\ UNCHANGED <<lease, holder, handling, source, slot, engine, user, awaited,
                     begun, mishaps, fences>>
  BY DEF Requeue
<1>2. RowType /\ SlotType /\ RestType /\ "pending" \in Status
  BY Types DEF IInv, Status
<1>3. UNCHANGED <<pc, job, attempt, aborted>>
  BY <1>1 DEF slot
<1>4. RowType'
  <2>1. status' \in [Delivery -> Status]
    BY <1>1, <1>2 DEF RowType
  <2>2. seq' \in [Delivery -> Nat] /\ lane' \in Nat
    BY <1>1, <1>2 DEF RowType
  <2>3. attempts' \in [Delivery -> Nat]
    BY <1>1, <1>2 DEF RowType
  <2>4. tried' \in [Delivery -> Nat]
    BY <1>1, <1>2 DEF RowType
  <2>5. refused' \in [Delivery -> BOOLEAN]
    BY <1>1, <1>2 DEF RowType
  <2> QED BY <1>1, <1>2, <2>1, <2>2, <2>3, <2>4, <2>5 DEF RowType
<1>5. TypeOK'
  BY <1>1, <1>2, <1>3, <1>4 DEF TypeOK, RowType, SlotType, RestType, engine, user
<1>6. ASSUME NEW x \in Delivery \ {d}
      PROVE  Same(x) /\ seq'[x] = seq[x] /\ status'[x] = status[x]
             /\ tried'[x] = tried[x] /\ refused'[x] = refused[x]
  BY <1>1, <1>2 DEF RowType, Same
<1>7. status'[d] = "pending" /\ seq'[d] = lane + 1 /\ attempts'[d] = 0 /\ tried'[d] = 0
  BY <1>1, <1>2 DEF RowType
<1>8. \A x \in Delivery : Same(x) \/ \A t \in Slot : Lost(x, t)
  BY <1>6, <1>7 DEF Lost
<1>9. InOrder
  BY <1>1, <1>6, <1>7 DEF InOrder, Unsettled
<1>10. ASSUME NEW x \in Delivery \ {d} PROVE RowInv(x)'
  <2>1. RowInv(x) /\ lane \in Nat /\ seq[x] \in Nat
    BY <1>2 DEF IInv, RowType
  <2> QED BY <1>1, <1>6, <2>1 DEF RowInv, Same
<1>11. RowInv(d)'
  <2>1. RowInv(d) /\ lane \in Nat
    BY <1>2 DEF IInv, RowType
  <2>2. begun'[d] = FALSE
    BY <1>1, <1>2, <2>1 DEF RowInv, RowType
  <2> QED BY <1>1, <1>7, <2>1, <2>2 DEF RowInv
<1>12. Grows /\ UNCHANGED user
  BY <1>1 DEF Grows
<1> QED BY <1>3, <1>5, <1>8, <1>9, <1>10, <1>11, <1>12, StoreKeeps

LEMMA OutcomeKeeps ==
  ASSUME IInv, NEW d \in Delivery, Outcome(d)
  PROVE  IInv'
<1>1. /\ handling' = [handling EXCEPT ![d] = "settled"]
      /\ UNCHANGED <<status, lane, seq, lease, holder, attempts, source, slot, engine,
                     user, awaited, history, counters>>
  BY DEF Outcome
<1>2. RowType /\ SlotType /\ RestType
  BY Types DEF IInv
<1>3. UNCHANGED <<begun, tried, refused, pc, job, attempt, aborted>>
  BY <1>1 DEF history, slot
<1>4. TypeOK'
  BY <1>1, <1>2, <1>3 DEF TypeOK, RowType, SlotType, RestType, engine, user, counters
<1>5. \A x \in Delivery : Same(x) /\ RowInv(x)'
  BY <1>1, <1>3 DEF Same, RowInv, IInv
<1>6. \A x \in Delivery : handling'[x] = handling[x] \/ handling'[x] = "settled"
  BY <1>1, <1>2 DEF RowType
<1>7. InOrder
  BY <1>1, <1>6 DEF InOrder, Unsettled
<1>8. Grows /\ UNCHANGED user
  BY <1>1 DEF Grows
<1> QED BY <1>3, <1>4, <1>5, <1>7, <1>8, StoreKeeps

(* A clock never makes a lease live.                                          *)
LEMMA ClockKeeps ==
  ASSUME IInv, NEW d \in Delivery, NEW l \in {"over", "stale"},
         lease' = [lease EXCEPT ![d] = l], mishaps' \in Nat,
         UNCHANGED <<status, lane, seq, holder, attempts, handling, source, slot, engine,
                     user, awaited, history, requeues, fences>>
  PROVE  IInv'
<1>1. RowType /\ SlotType /\ RestType
  BY Types DEF IInv
<1>2. UNCHANGED <<begun, tried, refused, pc, job, attempt, aborted>>
  BY DEF history, slot
<1>3. TypeOK'
  BY <1>1, <1>2 DEF TypeOK, RowType, SlotType, RestType, engine, user
<1>4. \A x \in Delivery : lease'[x] = "live" => lease[x] = "live"
  BY <1>1 DEF RowType
<1>5. \A x \in Delivery : Same(x) /\ RowInv(x)'
  BY <1>2, <1>4 DEF Same, RowInv, IInv
<1>6. InOrder /\ Grows
  BY DEF InOrder, Unsettled, Grows
<1>7. UNCHANGED user
  OBVIOUS
<1> QED BY <1>2, <1>3, <1>5, <1>6, <1>7, StoreKeeps

LEMMA LaneKeeps ==
  ASSUME IInv, NEW d \in Delivery, Lane(d)
  PROVE  IInv'
<1>1. CASE LeaseRunsOut(d)
  <2>1. mishaps' \in Nat
    BY <1>1, MayFacts DEF LeaseRunsOut, IInv, TypeOK
  <2> QED BY <1>1, <2>1, ClockKeeps DEF LeaseRunsOut
<1>2. CASE MarginPasses(d)
  <2>1. mishaps' \in Nat /\ UNCHANGED <<requeues, fences>>
    BY <1>2 DEF MarginPasses, IInv, TypeOK, counters
  <2> QED BY <1>2, <2>1, ClockKeeps DEF MarginPasses
<1> QED BY <1>1, <1>2, PublishKeeps, RequeueKeeps, OutcomeKeeps DEF Lane

-----------------------------------------------------------------------------
(* The engines.                                                                *)

LEMMA StopKeeps ==
  ASSUME IInv, NEW e \in Engine, Stop(e)
  PROVE  IInv'
<1>1. /\ stopped' = [stopped EXCEPT ![e] = TRUE] /\ AbortAll(e) /\ mishaps' \in Nat
      /\ UNCHANGED <<row, source, pc, job, attempt, cancelled, user, awaited, history,
                     requeues, fences>>
  BY MayFacts DEF Stop
<1>2. RowType /\ SlotType /\ RestType
  BY Types DEF IInv
<1>3. RowStays /\ Grows /\ source' = source
  BY <1>1 DEF RowStays, Grows
<1>4. /\ InOrder /\ RowType' /\ \A d \in Delivery : Same(d)
      /\ \A d \in Delivery : RowInv(d)'
  BY <1>2, <1>3, RowStaysFacts DEF IInv, RowType
<1>5. aborted' \in [Slot -> BOOLEAN] /\ stopped' \in [Engine -> BOOLEAN]
  BY <1>1, <1>2 DEF AbortAll, SlotType, RestType
<1>6. TypeOK'
  BY <1>1, <1>2, <1>4, <1>5 DEF TypeOK, RowType, SlotType, RestType, user
<1>7. UNCHANGED user /\ UNCHANGED <<pc, job, attempt>>
  BY <1>1
<1> QED BY <1>3, <1>4, <1>6, <1>7, StoreKeeps

LEMMA RenewFacts ==
  ASSUME IInv, NEW e \in Engine, Renew(e)
  PROVE  /\ RowType' /\ InOrder /\ Grows
         /\ \A d \in Delivery : Same(d) /\ RowInv(d)'
         /\ stopped' \in [Engine -> BOOLEAN] /\ cancelled' \in [Engine -> BOOLEAN]
         /\ drain' \in [Drain -> {"off", "saw", "waiting", "drained", "failed", "lost"}]
         /\ account' = account /\ UNCHANGED <<requeues, fences>>
         /\ drain'["owner"] = "drained" => drain["owner"] = "drained"
         /\ drain'["owner"] # "off" => drain["owner"] # "off"
<1>1. /\ stopped' = [stopped EXCEPT ![e] = FALSE]
      /\ cancelled' = [cancelled EXCEPT ![e] = FALSE]
      /\ drain' = [k \in Drain |->
             IF e = Home /\ drain[k] \in {"saw", "waiting"} THEN "lost" ELSE drain[k]]
      /\ UNCHANGED <<row, source, account, history, requeues, fences>>
  BY DEF Renew
<1>2. RowType /\ RestType
  BY Types DEF IInv
<1>3. RowStays /\ Grows /\ source' = source
  BY <1>1 DEF RowStays, Grows
<1>4. /\ InOrder /\ RowType' /\ \A d \in Delivery : Same(d)
      /\ \A d \in Delivery : RowInv(d)'
  BY <1>2, <1>3, RowStaysFacts DEF IInv, RowType
<1>5. stopped' \in [Engine -> BOOLEAN] /\ cancelled' \in [Engine -> BOOLEAN]
  BY <1>1, <1>2 DEF RestType
<1>6. drain' \in [Drain -> {"off", "saw", "waiting", "drained", "failed", "lost"}]
  BY <1>1, <1>2 DEF RestType
<1>7. /\ drain'["owner"] = "drained" => drain["owner"] = "drained"
      /\ drain'["owner"] # "off" => drain["owner"] # "off"
  BY <1>1 DEF Drain
<1> QED BY <1>1, <1>3, <1>4, <1>5, <1>6, <1>7

(* Slots that stop, or that stay, send no more than they did.                 *)
LEMMA QuietKeeps ==
  ASSUME IInv,
         \A t \in Slot : pc'[t] = "sending" => pc[t] = "sending" /\ job'[t] = job[t],
         \A d \in Delivery : Same(d), account' = account,
         drain'["owner"] = "drained" => drain["owner"] = "drained",
         drain'["owner"] # "off" => drain["owner"] # "off"
  PROVE  DrainInv'
<1>1. ASSUME drain'["owner"] = "drained", NEW t \in Slot, pc'[t] = "sending",
             Fenced(t)', Live(job[t])'
      PROVE  FALSE
  <2>1. pc[t] = "sending" /\ job'[t] = job[t] /\ drain["owner"] = "drained"
    BY <1>1
  <2>2. job[t] \in Delivery
    BY <2>1 DEF IInv, SlotInv, Busy
  <2>3. Fenced(t) /\ Live(job[t])
    BY <1>1, <2>1, <2>2 DEF Fenced, Live, Same
  <2> QED BY <2>1, <2>3 DEF IInv, DrainInv, DrainedIsQuiet
<1> QED BY <1>1 DEF IInv, DrainInv, DrainedIsQuiet

LEMMA RestartKeeps ==
  ASSUME IInv, NEW e \in Engine, Restart(e)
  PROVE  IInv'
<1>1. Renew(e) /\ UNCHANGED <<slot, awaited, mishaps>>
  BY DEF Restart
<1>2. UNCHANGED <<pc, job, attempt, aborted, awaited, mishaps>>
  BY <1>1 DEF slot
<1>3. RowType /\ SlotType /\ RestType
  BY Types DEF IInv
<1>4. TypeOK'
  BY <1>1, <1>2, <1>3, RenewFacts DEF TypeOK, RowType, SlotType, RestType
<1>5. ASSUME NEW t \in Slot PROVE SlotInv(t)'
  BY <1>1, <1>2, RenewFacts, OtherKeeps DEF Grows
<1>6. DrainInv'
  BY <1>1, <1>2, RenewFacts, QuietKeeps
<1> QED BY <1>1, <1>4, <1>5, <1>6, RenewFacts DEF IInv

LEMMA CrashKeeps ==
  ASSUME IInv, NEW e \in Engine, Crash(e)
  PROVE  IInv'
<1>1. /\ Renew(e) /\ mishaps' \in Nat
      /\ pc' = [s \in Slot |-> IF EngineOf[s] = e THEN "idle" ELSE pc[s]]
      /\ job' = [s \in Slot |-> IF EngineOf[s] = e THEN NoDelivery ELSE job[s]]
      /\ attempt' = [s \in Slot |-> IF EngineOf[s] = e THEN 0 ELSE attempt[s]]
      /\ aborted' = [s \in Slot |-> EngineOf[s] # e /\ aborted[s]]
      /\ awaited' = [k \in Drain |-> awaited[k] \ SlotsOf(e)]
  BY MayFacts DEF Crash
<1>2. RowType /\ SlotType /\ RestType /\ "idle" \in Step
  BY Types DEF IInv, Step
<1>3. pc' \in [Slot -> Step] /\ job' \in [Slot -> Delivery \cup {NoDelivery}]
  BY <1>1, <1>2 DEF SlotType
<1>4. attempt' \in [Slot -> Nat] /\ aborted' \in [Slot -> BOOLEAN]
  BY <1>1, <1>2 DEF SlotType
<1>5. awaited' \in [Drain -> SUBSET Slot]
  BY <1>1, <1>2 DEF RestType
<1>6. TypeOK'
  BY <1>1, <1>2, <1>3, <1>4, <1>5, RenewFacts DEF TypeOK, RowType, SlotType, RestType
<1>7. ASSUME NEW t \in Slot PROVE SlotInv(t)'
  <2>1. CASE EngineOf[t] = e
    <3>1. pc'[t] = "idle" /\ job'[t] = NoDelivery
      BY <1>1, <2>1
    <3> QED BY <3>1 DEF SlotInv, Busy, Holds, NoneAssumption
  <2>2. CASE EngineOf[t] # e
    <3>1. pc'[t] = pc[t] /\ job'[t] = job[t] /\ attempt'[t] = attempt[t]
      BY <1>1, <2>2
    <3> QED BY <1>1, <3>1, RenewFacts, OtherKeeps DEF Grows
  <2> QED BY <2>1, <2>2
<1>8. \A t \in Slot : pc'[t] = "sending" => pc[t] = "sending" /\ job'[t] = job[t]
  BY <1>1
<1>9. DrainInv'
  BY <1>1, <1>8, RenewFacts, QuietKeeps
<1> QED BY <1>1, <1>6, <1>7, <1>9, RenewFacts DEF IInv

-----------------------------------------------------------------------------
(* The deletion of the account.                                                *)

(* What holds of the rows and the slots when the deletion moves neither.      *)
LEMMA RowsFacts ==
  ASSUME IInv, Rows, UNCHANGED <<pc, job, attempt>>
  PROVE  /\ RowType'
         /\ \A d \in Delivery : Same(d) /\ RowInv(d)'
         /\ \A t \in Slot : SlotInv(t)'
<1>1. RowStays /\ Grows /\ source' = source /\ RowType
  BY Types DEF Rows, RowStays, Grows, IInv
<1>2. /\ InOrder /\ RowType' /\ \A d \in Delivery : Same(d)
      /\ \A d \in Delivery : RowInv(d)'
  BY <1>1, RowStaysFacts DEF IInv, RowType
<1>3. ASSUME NEW t \in Slot PROVE SlotInv(t)'
  BY <1>1, <1>2, OtherKeeps
<1> QED BY <1>2, <1>3

LEMMA AbortFacts ==
  ASSUME IInv, NEW e \in Engine, AbortAll(e)
  PROVE  aborted' \in [Slot -> BOOLEAN]
BY DEF IInv, TypeOK, AbortAll

(* The drain is over only when nothing holds a live lease.                    *)
LEMMA EndDrainKeeps ==
  ASSUME IInv, NEW k \in Drain, EndDrain(k)
  PROVE  IInv'
<1>1. /\ drain[k] = "waiting"
      /\ drain' = [drain EXCEPT ![k] = IF Quiet THEN "drained" ELSE "failed"]
      /\ cancelled' = [cancelled EXCEPT ![Home] = FALSE]
      /\ Rows /\ UNCHANGED <<slot, stopped, account, awaited, counters>>
  BY DEF EndDrain
<1>2. UNCHANGED <<pc, job, attempt, aborted>>
  BY <1>1 DEF slot
<1>3. RowType /\ SlotType /\ RestType
  BY Types DEF IInv
<1>4. cancelled' \in [Engine -> BOOLEAN]
      /\ drain' \in [Drain -> {"off", "saw", "waiting", "drained", "failed", "lost"}]
  BY <1>1, <1>3 DEF RestType
<1>5. TypeOK'
  BY <1>1, <1>2, <1>3, <1>4, RowsFacts DEF TypeOK, RowType, SlotType, RestType, counters
<1>6. DrainInv'
  <2>1. CASE k = "owner" /\ Quiet
    <3>1. account' # "active"
      BY <1>1, <2>1 DEF IInv, DrainInv
    <3>2. \A d \in Delivery : ~Live(d)'
      <4>1. status' = status /\ lease' = lease
        BY <1>1 DEF Rows, row
      <4> QED BY <2>1, <4>1 DEF Quiet, Live
    <3>3. \A t \in Slot : pc'[t] = "sending" => job'[t] \in Delivery
      BY <1>1, <1>2, RowsFacts DEF SlotInv, Busy
    <3> QED BY <3>1, <3>2, <3>3 DEF DrainInv, DrainedIsQuiet, Live
  <2>2. CASE ~(k = "owner" /\ Quiet)
    <3>1. /\ drain'["owner"] = "drained" => drain["owner"] = "drained"
          /\ drain'["owner"] # "off" => drain["owner"] # "off"
      BY <1>1, <1>3, <2>2 DEF RestType
    <3> QED BY <1>1, <1>2, <3>1, RowsFacts, QuietKeeps
  <2> QED BY <2>1, <2>2
<1> QED BY <1>1, <1>2, <1>5, <1>6, RowsFacts DEF IInv

LEMMA StartDrainKeeps ==
  ASSUME IInv, NEW k \in Drain, StartDrain(k)
  PROVE  IInv'
<1>1. /\ drain[k] = "saw" /\ Rows
      /\ UNCHANGED <<pc, job, attempt, stopped, account, counters>>
      /\ drain' = [drain EXCEPT ![k] = "failed"] \/ drain' = [drain EXCEPT ![k] = "waiting"]
  BY DEF StartDrain
<1>2. RowType /\ SlotType /\ RestType
  BY Types DEF IInv
<1>3. /\ aborted' \in [Slot -> BOOLEAN] /\ cancelled' \in [Engine -> BOOLEAN]
      /\ awaited' \in [Drain -> SUBSET Slot]
  <2>1. CASE stopped[Home]
    BY <1>2, <2>1 DEF StartDrain, SlotType, RestType
  <2>2. CASE ~stopped[Home]
    <3>1. AbortAll(Home) /\ cancelled' = [cancelled EXCEPT ![Home] = TRUE]
          /\ awaited' = [awaited EXCEPT ![k] = {s \in SlotsOf(Home) : pc[s] # "idle"}]
      BY <2>2 DEF StartDrain
    <3>2. {s \in SlotsOf(Home) : pc[s] # "idle"} \in SUBSET Slot
      BY DEF SlotsOf
    <3>3. aborted' \in [Slot -> BOOLEAN]
      BY <3>1, AbortFacts, EngineAssumption
    <3> QED BY <1>2, <3>1, <3>2, <3>3 DEF RestType
  <2> QED BY <2>1, <2>2
<1>4. drain' \in [Drain -> {"off", "saw", "waiting", "drained", "failed", "lost"}]
  BY <1>1, <1>2 DEF RestType
<1>5. TypeOK'
  BY <1>1, <1>2, <1>3, <1>4, RowsFacts DEF TypeOK, RowType, SlotType, RestType, counters
<1>6. /\ drain'["owner"] = "drained" => drain["owner"] = "drained"
      /\ drain'["owner"] # "off" => drain["owner"] # "off"
  <2>1. CASE k = "owner"
    BY <1>1, <1>2, <2>1 DEF RestType
  <2>2. CASE k # "owner"
    <3>1. "owner" \in Drain
      BY DEF Drain
    <3> QED BY <1>1, <1>2, <2>2, <3>1 DEF RestType
  <2> QED BY <2>1, <2>2
<1>7. DrainInv'
  BY <1>1, <1>6, RowsFacts, QuietKeeps
<1> QED BY <1>1, <1>5, <1>7, RowsFacts DEF IInv

LEMMA AccountKeeps ==
  ASSUME IInv, Fence \/ SeeFence \/ LiftFence \/ Delete
  PROVE  IInv'
<1>1. /\ Rows /\ UNCHANGED <<slot, engine, awaited, mishaps, requeues>>
      /\ fences' \in Nat
  BY DEF Fence, SeeFence, LiftFence, Delete, counters, IInv, TypeOK
<1>2. UNCHANGED <<pc, job, attempt, aborted, stopped, cancelled>>
  BY <1>1 DEF slot, engine
<1>3. RowType /\ SlotType /\ RestType
  BY Types DEF IInv
<1>4. account' \in {"active", "fenced", "deleted"}
      /\ drain' \in [Drain -> {"off", "saw", "waiting", "drained", "failed", "lost"}]
  BY <1>3 DEF RestType, Fence, SeeFence, LiftFence, Delete
<1>5. TypeOK'
  BY <1>1, <1>2, <1>3, <1>4, RowsFacts DEF TypeOK, RowType, SlotType, RestType
<1>6. DrainInv'
  <2>1. CASE Fence
    BY <1>3, <2>1 DEF Fence, DrainInv, DrainedIsQuiet, RestType, Drain
  <2>2. CASE LiftFence
    BY <1>3, <2>2 DEF LiftFence, DrainInv, DrainedIsQuiet, RestType, Drain
  <2>3. CASE SeeFence \/ Delete
    <3>1. /\ drain'["owner"] = drain["owner"]
          /\ account' = account \/ account' = "deleted"
      BY <1>3, <2>3 DEF SeeFence, Delete, RestType, Drain
    <3>2. ASSUME drain["owner"] = "drained", NEW t \in Slot, pc[t] = "sending"
          PROVE  ~(Fenced(t)' /\ Live(job[t])')
      <4>1. job[t] \in Delivery /\ ~(Fenced(t) /\ Live(job[t]))
        BY <3>2 DEF IInv, SlotInv, Busy, DrainInv, DrainedIsQuiet
      <4>2. Same(job[t]) /\ job'[t] = job[t]
        BY <1>1, <1>2, <4>1, RowsFacts
      <4> QED BY <4>1, <4>2 DEF Fenced, Live, Same
    <3> QED BY <1>2, <3>1, <3>2 DEF IInv, DrainInv, DrainedIsQuiet
  <2> QED BY <2>1, <2>2, <2>3
<1> QED BY <1>1, <1>2, <1>5, <1>6, RowsFacts DEF IInv

(* Nobody holds an erased row.                                                 *)
LEMMA EraseKeeps ==
  ASSUME IInv, Erase
  PROVE  IInv'
<1>1. /\ status' = [d \in Delivery |->
             IF status[d] = "absent" THEN "absent" ELSE "erased"]
      /\ handling' = [d \in Delivery |-> "none"]
      /\ lease' = [d \in Delivery |-> "none"]
      /\ holder' = [d \in Delivery |-> NoSlot]
      /\ UNCHANGED <<lane, seq, attempts, source, slot, engine, user, awaited, history,
                     counters>>
  BY DEF Erase
<1>2. RowType /\ SlotType /\ RestType
  BY Types DEF IInv
<1>3. UNCHANGED <<begun, tried, refused, pc, job, attempt, aborted>>
  BY <1>1 DEF history, slot
<1>4. RowType'
  BY <1>1, <1>2, <1>3 DEF RowType, Status
<1>5. TypeOK'
  BY <1>1, <1>2, <1>3, <1>4 DEF TypeOK, RowType, SlotType, RestType, engine, user, counters
<1>6. \A d \in Delivery : status'[d] \in {"absent", "erased"}
                          /\ (begun[d] => status'[d] = "erased")
  BY <1>1 DEF IInv, RowInv
<1>7. \A d \in Delivery : \A t \in Slot : Lost(d, t)
  BY <1>6 DEF Lost
<1>8. InOrder
  BY <1>1, <1>6 DEF InOrder, Unsettled
<1>9. ASSUME NEW d \in Delivery PROVE RowInv(d)'
  BY <1>1, <1>3, <1>6 DEF RowInv, IInv
<1>10. Grows /\ UNCHANGED user
  BY <1>1 DEF Grows
<1> QED BY <1>3, <1>5, <1>7, <1>8, <1>9, <1>10, StoreKeeps

-----------------------------------------------------------------------------
(* The theorems.                                                               *)

LEMMA NextKeeps == IInv /\ [Next]_vars => IInv'
<1> SUFFICES ASSUME IInv, [Next]_vars PROVE IInv'
  OBVIOUS
<1>1. CASE UNCHANGED vars
  <2>1. UNCHANGED <<row, source, slot, engine, user, awaited, history, counters>>
    BY <1>1 DEF vars
  <2>2. Rows /\ UNCHANGED <<pc, job, attempt, aborted>>
    BY <2>1 DEF Rows, slot
  <2>3. TypeOK'
    BY <2>1, <2>2, RowsFacts DEF IInv, TypeOK, RowType, engine, user, counters
  <2>4. account' = account /\ drain' = drain
    BY <2>1 DEF user
  <2>5. DrainInv'
    BY <2>2, <2>4, RowsFacts, QuietKeeps
  <2> QED BY <2>2, <2>3, <2>5, RowsFacts DEF IInv
<1>2. CASE \E d \in Delivery : Lane(d)
  BY <1>2, LaneKeeps
<1>3. CASE \E s \in Slot : Poll(s) \/ Work(s)
  BY <1>3, BeginPassKeeps, NoClaimKeeps, ClaimKeeps, WorkKeeps DEF Poll
<1>4. CASE \E e \in Engine : Stop(e) \/ Restart(e) \/ Crash(e)
  BY <1>4, StopKeeps, RestartKeeps, CrashKeeps
<1>5. CASE Deletion
  BY <1>5, AccountKeeps, EraseKeeps, StartDrainKeeps, EndDrainKeeps DEF Deletion
<1> QED BY <1>1, <1>2, <1>3, <1>4, <1>5 DEF Next

(* The invariant holds in every reachable state.                              *)
THEOREM Invariance == Spec => []IInv
<1> QED BY InitKeeps, NextKeeps, PTL DEF Spec

(* No row takes more attempts than the budget has, although the budget is
   checked several calls before an attempt is counted.                        *)
THEOREM AttemptsStayWithinBudget == Spec => []WithinBudget
<1>1. IInv => WithinBudget
  BY DEF IInv, RowInv, WithinBudget
<1> QED BY <1>1, Invariance, PTL

(* Deferrals cost no attempt: a dead letter was refused, or every attempt of its
   budget failed or was lost (README.md of agents/triggers).                   *)
THEOREM DeadLettersUsedTheirBudget == Spec => []BudgetIsHonest
<1>1. IInv => BudgetIsHonest
  BY DEF IInv, RowInv, BudgetIsHonest
<1> QED BY <1>1, Invariance, PTL

(* An event is sent only in its turn (findEarlierAgentTriggerDelivery).       *)
THEOREM LaneIsServedInTurn == Spec => []InTurn
<1>1. IInv => InTurn
  BY DEF IInv, SlotInv, InTurn, Holds, AtWork, Busy
<1> QED BY <1>1, Invariance, PTL

(* The source is terminalized before its delivery is dead (engine.ts).        *)
THEOREM SourceIsClosedFirst == Spec => []SourceFirst
<1>1. IInv => SourceFirst
  BY DEF IInv, RowInv, SourceFirst
<1> QED BY <1>1, Invariance, PTL

(* A drained account is quiet on every replica (drainUser).                   *)
THEOREM DrainQuietens == Spec => []DrainedIsQuiet
<1>1. IInv => DrainedIsQuiet
  BY DEF IInv, DrainInv
<1> QED BY <1>1, Invariance, PTL
=============================================================================
