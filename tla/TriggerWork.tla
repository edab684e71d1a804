----------------------------- MODULE TriggerWork -----------------------------
(* The delivery engines of one user's ordering lane, and the account deletion
   that has to quieten them.

   Every replica runs one engine (agents/triggers/engine.ts) that polls one Mongo
   collection (methods/triggerDelivery.ts).  A slot of an engine takes one
   delivery at a time: it claims the row under a lease, checks that nothing
   earlier of the lane is unsettled, takes one of the row's attempts, sends the
   event, and writes what came of it.  Between any two of these calls the lease
   may run out, another replica may claim the row, the engine may be stopped or
   killed, and the owner's account may be fenced for deletion.

   A delivery stands for a published row (a root, where events are batched):
   how rows are staged, put in order, batched and erased is TriggerLane, whose
   promise LaneOrder is all this module takes from it (Publish and Requeue give
   a row the next place of the lane).                                          *)
EXTENDS Naturals

CONSTANTS
    Delivery,    \* the deliveries of one lane
    Slot,        \* the slots of the engines that serve it
    NoDelivery, NoSlot,
    Engine,      \* the engines, one in each process
    EngineOf,    \* EngineOf[s]: the engine slot s belongs to
    Home,        \* the engine of the process that runs the drains
    MaxAttempts, \* engine.ts: the retry budget of a delivery
    Mishap,      \* the faults that may happen
    MaxMishaps,  \* bound: how many of them
    MaxRequeues, \* bound: how often a dead letter is requeued
    MaxFences    \* bound: how often the account's deletion is tried

ASSUME EngineAssumption == EngineOf \in [Slot -> Engine] /\ Home \in Engine
ASSUME NoneAssumption == NoDelivery \notin Delivery /\ NoSlot \notin Slot
ASSUME BudgetAssumption == MaxAttempts \in Nat \ {0}
ASSUME BoundAssumption ==
    MaxMishaps \in Nat /\ MaxRequeues \in Nat /\ MaxFences \in Nat

(* "owner" is the deletion request; "admission" is an enqueue that finds the
   account fenced after it has stored its row.  Both call drainUser.           *)
Drain == {"owner", "admission"}

VARIABLES
    status,     \* the row: where the delivery stands
    lane,       \* the lane's counter
    seq,        \* the row: its laneSequence, 0 before it is published
    lease,      \* the row: "none", or whether leaseUntil is ahead ("live"),
                \* past ("over"), or past by more than the skew margin ("stale")
    holder,     \* the row: the slot whose claimToken it carries
    attempts,   \* the row: attempts
    handling,   \* the row: handling.status of an accepted event
    source,     \* what the event's own source says of it: "open" or "failed"
    pc,         \* the slot: the call it makes next
    job,        \* the slot: the delivery it claimed
    attempt,    \* the slot: the attempts it read from its own claim
    aborted,    \* the slot: its AbortController was aborted
    stopped,    \* the engine: stop() was called
    cancelled,  \* the engine: cancelledUsers holds the user
    account,    \* the user's principal
    drain,      \* the drain: how far it has come
    awaited,    \* the drain: the slots cancelUser waits for
    begun,      \* history: the claim that holds the row has begun its attempt
    tried,      \* history: attempts of this admission that failed or were lost
    refused,    \* history: the event was refused for good
    mishaps, requeues, fences

row == <<status, lane, seq, lease, holder, attempts, handling>>
slot == <<pc, job, attempt, aborted>>
engine == <<stopped, cancelled>>
user == <<account, drain>>
history == <<begun, tried, refused>>
counters == <<mishaps, requeues, fences>>
vars == <<row, source, slot, engine, user, awaited, history, counters>>

Status == {"absent", "pending", "leased", "succeeded", "dead", "erased"}
Step == {"idle", "claiming", "claimed", "ordering", "beginning", "checking",
         "sending", "completing", "retrying", "closing", "burying",
         "deferring", "releasing"}

TypeOK ==
    /\ status \in [Delivery -> Status]
    /\ lane \in Nat
    /\ seq \in [Delivery -> Nat]
    /\ lease \in [Delivery -> {"none", "live", "over", "stale"}]
    /\ holder \in [Delivery -> Slot \cup {NoSlot}]
    /\ attempts \in [Delivery -> Nat]
    /\ handling \in [Delivery -> {"none", "started", "settled"}]
    /\ source \in [Delivery -> {"open", "failed"}]
    /\ pc \in [Slot -> Step]
    /\ job \in [Slot -> Delivery \cup {NoDelivery}]
    /\ attempt \in [Slot -> Nat]
    /\ aborted \in [Slot -> BOOLEAN]
    /\ stopped \in [Engine -> BOOLEAN]
    /\ cancelled \in [Engine -> BOOLEAN]
    /\ account \in {"active", "fenced", "deleted"}
    /\ drain \in [Drain -> {"off", "saw", "waiting", "drained", "failed", "lost"}]
    /\ awaited \in [Drain -> SUBSET Slot]
    /\ begun \in [Delivery -> BOOLEAN]
    /\ tried \in [Delivery -> Nat]
    /\ refused \in [Delivery -> BOOLEAN]
    /\ mishaps \in Nat /\ requeues \in Nat /\ fences \in Nat

Init ==
    /\ status = [d \in Delivery |-> "absent"]
    /\ lane = 0
    /\ seq = [d \in Delivery |-> 0]
    /\ lease = [d \in Delivery |-> "none"]
    /\ holder = [d \in Delivery |-> NoSlot]
    /\ attempts = [d \in Delivery |-> 0]
    /\ handling = [d \in Delivery |-> "none"]
    /\ source = [d \in Delivery |-> "open"]
    /\ pc = [s \in Slot |-> "idle"]
    /\ job = [s \in Slot |-> NoDelivery]
    /\ attempt = [s \in Slot |-> 0]
    /\ aborted = [s \in Slot |-> FALSE]
    /\ stopped = [e \in Engine |-> FALSE]
    /\ cancelled = [e \in Engine |-> FALSE]
    /\ account = "active"
    /\ drain = [k \in Drain |-> "off"]
    /\ awaited = [k \in Drain |-> {}]
    /\ begun = [d \in Delivery |-> FALSE]
    /\ tried = [d \in Delivery |-> 0]
    /\ refused = [d \in Delivery |-> FALSE]
    /\ mishaps = 0 /\ requeues = 0 /\ fences = 0

-----------------------------------------------------------------------------
(* The store: every write of a claim is fenced by the claim's token.          *)

Fenced(s) == status[job[s]] = "leased" /\ holder[job[s]] = s
Live(d) == status[d] = "leased" /\ lease[d] = "live"
Unsettled(d) ==
    status[d] \in {"pending", "leased"}
        \/ (status[d] = "succeeded" /\ handling[d] = "started")
Blocked(d) == \E x \in Delivery : 0 < seq[x] /\ seq[x] < seq[d] /\ Unsettled(x)

May(kind) == kind \in Mishap /\ mishaps < MaxMishaps /\ mishaps' = mishaps + 1

(* The row leaves its claim for status "to"; an attempt of the claim is spent
   unless it is given back.                                                    *)
EndClaim(d, to, spent) ==
    /\ status' = [status EXCEPT ![d] = to]
    /\ lease' = [lease EXCEPT ![d] = "none"]
    /\ holder' = [holder EXCEPT ![d] = NoSlot]
    /\ begun' = [begun EXCEPT ![d] = FALSE]
    /\ tried' = [tried EXCEPT ![d] = IF begun[d] /\ spent THEN @ + 1 ELSE @]
    /\ UNCHANGED <<lane, seq, refused>>

RowStays == UNCHANGED <<row, history>>

(* The task of the slot ends, and with it what a drain waits for.             *)
Finish(s) ==
    /\ pc' = [pc EXCEPT ![s] = "idle"]
    /\ job' = [job EXCEPT ![s] = NoDelivery]
    /\ attempt' = [attempt EXCEPT ![s] = 0]
    /\ aborted' = [aborted EXCEPT ![s] = FALSE]
    /\ awaited' = [k \in Drain |-> awaited[k] \ {s}]

Goes(s, from, to) ==
    /\ pc[s] = from
    /\ pc' = [pc EXCEPT ![s] = to]
    /\ UNCHANGED <<job, attempt, aborted, awaited>>

Ends(s, from) == pc[s] = from /\ Finish(s)

-----------------------------------------------------------------------------
(* The lane, as TriggerLane hands it over.                                     *)

Publish(d) ==
    /\ status[d] = "absent" /\ account # "deleted"
    /\ status' = [status EXCEPT ![d] = "pending"]
    /\ lane' = lane + 1
    /\ seq' = [seq EXCEPT ![d] = lane + 1]
    /\ UNCHANGED <<lease, holder, attempts, handling, source, slot, engine, user,
                   awaited, history, counters>>

Requeue(d) ==
    /\ status[d] = "dead" /\ handling[d] = "none" /\ requeues < MaxRequeues
    /\ status' = [status EXCEPT ![d] = "pending"]
    /\ lane' = lane + 1
    /\ seq' = [seq EXCEPT ![d] = lane + 1]
    /\ attempts' = [attempts EXCEPT ![d] = 0]
    /\ tried' = [tried EXCEPT ![d] = 0]
    /\ refused' = [refused EXCEPT ![d] = FALSE]
    /\ requeues' = requeues + 1
    /\ UNCHANGED <<lease, holder, handling, source, slot, engine, user, awaited,
                   begun, mishaps, fences>>

(* The generation that an accepted event started comes to its end.            *)
Outcome(d) ==
    /\ handling[d] = "started"
    /\ handling' = [handling EXCEPT ![d] = "settled"]
    /\ UNCHANGED <<status, lane, seq, lease, holder, attempts, source, slot, engine,
                   user, awaited, history, counters>>

(* A lease is four times the time a dispatch may take: it runs out on a task
   that is still at work only by a mishap.                                     *)
LeaseRunsOut(d) ==
    /\ Live(d)
    /\ IF \E s \in Slot : job[s] = d /\ Fenced(s)
         THEN May("lapse")
         ELSE UNCHANGED mishaps
    /\ lease' = [lease EXCEPT ![d] = "over"]
    /\ UNCHANGED <<status, lane, seq, holder, attempts, handling, source, slot, engine,
                   user, awaited, history, requeues, fences>>

MarginPasses(d) ==
    /\ status[d] = "leased" /\ lease[d] = "over"
    /\ lease' = [lease EXCEPT ![d] = "stale"]
    /\ UNCHANGED <<status, lane, seq, holder, attempts, handling, source, slot, engine,
                   user, awaited, history, counters>>

-----------------------------------------------------------------------------
(* One slot of an engine.                                                      *)

Elsewhere == UNCHANGED <<source, engine, user, counters>>

BeginPass(s) ==
    /\ ~stopped[EngineOf[s]]
    /\ Goes(s, "idle", "claiming")
    /\ RowStays /\ Elsewhere

\* Mutant: nobody takes over a claim that has run out.
ClaimablePending(d) == status[d] = "pending"

Claimable(d) == status[d] = "pending" \/ (status[d] = "leased" /\ lease[d] = "stale")

Claim(s, d) ==
    /\ pc[s] = "claiming" /\ Claimable(d)
    /\ pc' = [pc EXCEPT ![s] = "claimed"]
    /\ job' = [job EXCEPT ![s] = d]
    /\ attempt' = [attempt EXCEPT ![s] = attempts[d]]
    /\ status' = [status EXCEPT ![d] = "leased"]
    /\ lease' = [lease EXCEPT ![d] = "live"]
    /\ holder' = [holder EXCEPT ![d] = s]
    /\ begun' = [begun EXCEPT ![d] = FALSE]
    /\ tried' = [tried EXCEPT ![d] = IF begun[d] THEN @ + 1 ELSE @]
    /\ UNCHANGED <<lane, seq, attempts, handling, refused, aborted, awaited>>
    /\ Elsewhere

(* Nothing is claimable yet, or others took every candidate.                  *)
NoClaim(s) == Ends(s, "claiming") /\ RowStays /\ Elsewhere

Start(s) ==
    /\ Goes(s, "claimed",
            IF cancelled[EngineOf[s]] THEN "releasing" ELSE "ordering")
    /\ RowStays /\ Elsewhere

Exhausted(n) == n >= MaxAttempts

\* Mutants: an accepted event does not hold up the lane; a claim that finds the
\* budget used up goes straight to the dead letter.
OrderPastRunning(s) ==
    /\ Goes(s, "ordering",
            IF \E x \in Delivery : /\ 0 < seq[x] /\ seq[x] < seq[job[s]]
                                  /\ status[x] \in {"pending", "leased"}
              THEN "releasing"
            ELSE IF Exhausted(attempt[s]) THEN "closing"
            ELSE IF stopped[EngineOf[s]] \/ cancelled[EngineOf[s]] THEN "releasing"
            ELSE "beginning")
    /\ RowStays /\ Elsewhere

OrderBuriesAtOnce(s) ==
    /\ Goes(s, "ordering",
            IF Blocked(job[s]) THEN "releasing"
            ELSE IF Exhausted(attempt[s]) THEN "burying"
            ELSE IF stopped[EngineOf[s]] \/ cancelled[EngineOf[s]] THEN "releasing"
            ELSE "beginning")
    /\ RowStays /\ Elsewhere

Order(s) ==
    /\ Goes(s, "ordering",
            IF Blocked(job[s]) THEN "releasing"
            ELSE IF Exhausted(attempt[s]) THEN "closing"
            ELSE IF stopped[EngineOf[s]] \/ cancelled[EngineOf[s]] THEN "releasing"
            ELSE "beginning")
    /\ RowStays /\ Elsewhere

Begin(s) == LET d == job[s] IN
    /\ pc[s] = "beginning"
    /\ IF Fenced(s) /\ Live(d)
         THEN /\ attempts' = [attempts EXCEPT ![d] = @ + 1]
              /\ begun' = [begun EXCEPT ![d] = TRUE]
              /\ attempt' = [attempt EXCEPT ![s] = attempts[d] + 1]
              /\ aborted' = [aborted EXCEPT
                     ![s] = stopped[EngineOf[s]] \/ cancelled[EngineOf[s]]]
              /\ pc' = [pc EXCEPT ![s] = "checking"]
              /\ UNCHANGED <<job, awaited, status, lane, seq, lease, holder, handling,
                             tried, refused>>
         ELSE Finish(s) /\ RowStays
    /\ Elsewhere

\* Mutant: the event is sent whatever becomes of its account.
CheckNothing(s) == Goes(s, "checking", "sending") /\ RowStays /\ Elsewhere

(* dispatchForActivePrincipal                                                  *)
Check(s) ==
    /\ Goes(s, "checking", IF account = "active" THEN "sending" ELSE "deferring")
    /\ RowStays /\ Elsewhere

Accepted(s) == Goes(s, "sending", "completing") /\ RowStays /\ Elsewhere

(* A send that fails after cancelUser aborted it costs no attempt.            *)
CutShort(s) == aborted[s] /\ cancelled[EngineOf[s]]

Refused(s) == LET d == job[s] IN
    /\ Goes(s, "sending", IF CutShort(s) THEN "deferring" ELSE "closing")
    /\ refused' = [refused EXCEPT ![d] = @ \/ ~CutShort(s)]
    /\ UNCHANGED <<row, begun, tried>>
    /\ Elsewhere

Failed(s) ==
    /\ Goes(s, "sending",
            IF CutShort(s) THEN "deferring"
            ELSE IF Exhausted(attempt[s]) THEN "closing"
            ELSE "retrying")
    /\ RowStays /\ Elsewhere

(* The server finds the account fenced, or is not ready to run the agent.     *)
Deferred(s) ==
    /\ IF account = "active" THEN May("notready") ELSE UNCHANGED mishaps
    /\ Goes(s, "sending", "deferring")
    /\ RowStays
    /\ UNCHANGED <<source, engine, user, requeues, fences>>

Succeed(s) == \E h \in {"none", "started"} :
    /\ EndClaim(job[s], "succeeded", TRUE)
    /\ handling' = [handling EXCEPT ![job[s]] = h]
    /\ UNCHANGED attempts

Complete(s) ==
    /\ Ends(s, "completing")
    /\ IF Fenced(s) THEN Succeed(s) ELSE RowStays
    /\ Elsewhere

(* The write of the result throws, before or after it took effect.            *)
CompleteThrows(s) ==
    /\ May("persist")
    /\ Goes(s, "completing", "retrying")
    /\ RowStays \/ (Fenced(s) /\ Succeed(s))
    /\ UNCHANGED <<source, engine, user, requeues, fences>>

Retry(s) ==
    /\ Ends(s, "retrying")
    /\ IF Fenced(s)
         THEN EndClaim(job[s], "pending", TRUE) /\ UNCHANGED <<attempts, handling>>
         ELSE RowStays
    /\ Elsewhere

(* settleSourceBeforeDeadLetter                                                *)
CloseSource(s) ==
    /\ Goes(s, "closing", "burying")
    /\ source' = [source EXCEPT ![job[s]] = "failed"]
    /\ RowStays
    /\ UNCHANGED <<engine, user, counters>>

CloseThrows(s) ==
    /\ May("source")
    /\ Goes(s, "closing", "releasing")
    /\ RowStays
    /\ UNCHANGED <<source, engine, user, requeues, fences>>

Bury(s) ==
    /\ Ends(s, "burying")
    /\ IF Fenced(s)
         THEN EndClaim(job[s], "dead", TRUE) /\ UNCHANGED <<attempts, handling>>
         ELSE RowStays
    /\ Elsewhere

\* Mutant: the attempt is not given back.
DeferKeepsAttempt(s) ==
    /\ Ends(s, "deferring")
    /\ IF Fenced(s) /\ attempts[job[s]] = attempt[s]
         THEN EndClaim(job[s], "pending", FALSE) /\ UNCHANGED <<attempts, handling>>
         ELSE RowStays
    /\ Elsewhere

Defer(s) == LET d == job[s] IN
    /\ Ends(s, "deferring")
    /\ IF Fenced(s) /\ attempts[d] = attempt[s]
         THEN /\ EndClaim(d, "pending", FALSE)
              /\ attempts' = [attempts EXCEPT ![d] = @ - 1]
              /\ UNCHANGED handling
         ELSE RowStays
    /\ Elsewhere

GiveBack(s) ==
    /\ Ends(s, "releasing")
    /\ IF Fenced(s)
         THEN EndClaim(job[s], "pending", TRUE) /\ UNCHANGED <<attempts, handling>>
         ELSE RowStays
    /\ Elsewhere

(* A call of the task throws: the task ends and its claim is left to run out. *)
TaskThrows(s) ==
    /\ pc[s] \notin {"idle", "claiming", "claimed", "sending", "completing", "closing"}
    /\ May("error")
    /\ Finish(s)
    /\ RowStays
    /\ UNCHANGED <<source, engine, user, requeues, fences>>

-----------------------------------------------------------------------------
(* The engines.                                                                *)

SlotsOf(e) == {s \in Slot : EngineOf[s] = e}

AbortAll(e) == aborted' = [s \in Slot |->
    aborted[s] \/ (EngineOf[s] = e /\ pc[s] \in {"checking", "sending"})]

Stop(e) ==
    /\ ~stopped[e] /\ May("stop")
    /\ stopped' = [stopped EXCEPT ![e] = TRUE]
    /\ AbortAll(e)
    /\ UNCHANGED <<row, source, pc, job, attempt, cancelled, user, awaited, history,
                   requeues, fences>>

(* A new process takes over; a drain that the old one ran is lost with it.     *)
Renew(e) ==
    /\ stopped' = [stopped EXCEPT ![e] = FALSE]
    /\ cancelled' = [cancelled EXCEPT ![e] = FALSE]
    /\ drain' = [k \in Drain |->
           IF e = Home /\ drain[k] \in {"saw", "waiting"} THEN "lost" ELSE drain[k]]
    /\ UNCHANGED <<row, source, account, history, requeues, fences>>

Restart(e) ==
    /\ stopped[e] /\ \A s \in SlotsOf(e) : pc[s] = "idle"
    /\ Renew(e)
    /\ UNCHANGED <<slot, awaited, mishaps>>

Crash(e) ==
    /\ May("crash")
    /\ pc' = [s \in Slot |-> IF EngineOf[s] = e THEN "idle" ELSE pc[s]]
    /\ job' = [s \in Slot |-> IF EngineOf[s] = e THEN NoDelivery ELSE job[s]]
    /\ attempt' = [s \in Slot |-> IF EngineOf[s] = e THEN 0 ELSE attempt[s]]
    /\ aborted' = [s \in Slot |-> EngineOf[s] # e /\ aborted[s]]
    /\ awaited' = [k \in Drain |-> awaited[k] \ SlotsOf(e)]
    /\ Renew(e)

-----------------------------------------------------------------------------
(* The deletion of the account.                                                *)

Rows == UNCHANGED <<row, source, history>>

Fence ==
    /\ account = "active" /\ drain["owner"] = "off" /\ fences < MaxFences
    /\ account' = "fenced"
    /\ drain' = [drain EXCEPT !["owner"] = "saw"]
    /\ fences' = fences + 1
    /\ Rows /\ UNCHANGED <<slot, engine, awaited, mishaps, requeues>>

(* An enqueue stored its row and then finds its principal inactive.           *)
SeeFence ==
    /\ account # "active" /\ drain["admission"] = "off"
    /\ drain' = [drain EXCEPT !["admission"] = "saw"]
    /\ Rows /\ UNCHANGED <<slot, engine, account, awaited, counters>>

(* drainUser: requireMethods throws once the process is stopping; otherwise
   cancelUser marks the user, aborts its sends and waits for its tasks.       *)
StartDrain(k) ==
    /\ drain[k] = "saw"
    /\ IF stopped[Home]
         THEN /\ drain' = [drain EXCEPT ![k] = "failed"]
              /\ UNCHANGED <<cancelled, aborted, awaited>>
         ELSE /\ drain' = [drain EXCEPT ![k] = "waiting"]
              /\ cancelled' = [cancelled EXCEPT ![Home] = TRUE]
              /\ AbortAll(Home)
              /\ awaited' = [awaited EXCEPT
                     ![k] = {s \in SlotsOf(Home) : pc[s] # "idle"}]
    /\ Rows /\ UNCHANGED <<pc, job, attempt, stopped, account, counters>>

Quiet == \A d \in Delivery : ~Live(d)

(* countActiveAgentTriggerDeliveriesByUser; finally releaseUserCancellation   *)
EndDrain(k) ==
    /\ drain[k] = "waiting" /\ awaited[k] = {}
    /\ drain' = [drain EXCEPT ![k] = IF Quiet THEN "drained" ELSE "failed"]
    /\ cancelled' = [cancelled EXCEPT ![Home] = FALSE]
    /\ Rows /\ UNCHANGED <<slot, stopped, account, awaited, counters>>

(* A later step of the deletion fails, or the drain timed out.                *)
LiftFence ==
    /\ account = "fenced" /\ drain["owner"] \in {"drained", "failed"}
    /\ account' = "active"
    /\ drain' = [drain EXCEPT !["owner"] = "off"]
    /\ Rows /\ UNCHANGED <<slot, engine, awaited, counters>>

Delete ==
    /\ account = "fenced" /\ drain["owner"] = "drained"
    /\ account' = "deleted"
    /\ Rows /\ UNCHANGED <<slot, engine, drain, awaited, counters>>

(* purgeUser                                                                   *)
Erase ==
    /\ account = "deleted"
    /\ \E d \in Delivery : status[d] \notin {"absent", "erased"}
    /\ status' = [d \in Delivery |->
           IF status[d] = "absent" THEN "absent" ELSE "erased"]
    /\ handling' = [d \in Delivery |-> "none"]
    /\ lease' = [d \in Delivery |-> "none"]
    /\ holder' = [d \in Delivery |-> NoSlot]
    /\ UNCHANGED <<lane, seq, attempts, source, slot, engine, user, awaited, history,
                   counters>>

-----------------------------------------------------------------------------

Send(s) == Accepted(s) \/ Refused(s) \/ Failed(s) \/ Deferred(s)

Work(s) ==
    \/ Start(s) \/ Order(s) \/ Begin(s) \/ Check(s) \/ Send(s)
    \/ Complete(s) \/ CompleteThrows(s) \/ Retry(s)
    \/ CloseSource(s) \/ CloseThrows(s) \/ Bury(s)
    \/ Defer(s) \/ GiveBack(s) \/ TaskThrows(s)

Poll(s) == BeginPass(s) \/ NoClaim(s) \/ \E d \in Delivery : Claim(s, d)

Lane(d) ==
    \/ Publish(d) \/ Requeue(d) \/ Outcome(d) \/ LeaseRunsOut(d) \/ MarginPasses(d)

Deletion ==
    \/ Fence \/ SeeFence \/ LiftFence \/ Delete \/ Erase
    \/ \E k \in Drain : StartDrain(k) \/ EndDrain(k)

Next ==
    \/ \E d \in Delivery : Lane(d)
    \/ \E s \in Slot : Poll(s) \/ Work(s)
    \/ \E e \in Engine : Stop(e) \/ Restart(e) \/ Crash(e)
    \/ Deletion

Spec == Init /\ [][Next]_vars

(* Tasks go on, engines poll, clocks advance, generations end, drains time out.
   Rows become available in turn (claims take the oldest first), so none is
   passed over for ever.                                                       *)
Fairness ==
    /\ \A s \in Slot : WF_vars(Work(s)) /\ WF_vars(BeginPass(s))
    /\ \A d \in Delivery :
           /\ SF_vars(\E s \in Slot : Claim(s, d))
           /\ WF_vars(Outcome(d) \/ MarginPasses(d))
           /\ WF_vars(LeaseRunsOut(d))
    /\ \A e \in Engine : WF_vars(Restart(e))
    /\ \A k \in Drain : WF_vars(StartDrain(k) \/ EndDrain(k))

FairSpec == Spec /\ Fairness

-----------------------------------------------------------------------------
(* Properties.                                                                 *)

(* Engine.ts takes the row's attempts from its own claim and compares them with
   the budget several calls before beginAttempt counts the next one: no row ever
   takes more attempts than the budget has.                                    *)
WithinBudget == \A d \in Delivery : attempts[d] <= MaxAttempts

(* README.md: a delivery deferred by the deletion fence restores the attempt it
   reserved, so a rolled-back deletion cannot exhaust its retry budget.  A dead
   letter was refused for good, or all its attempts really failed or were lost. *)
BudgetIsHonest ==
    \A d \in Delivery : status[d] = "dead" => refused[d] \/ tried[d] >= MaxAttempts

(* Deliveries of a lane are served in their order: while a slot that still holds
   its claim has begun an attempt, or is about to, nothing earlier of the lane is
   waiting, at work, or accepted with its generation still running.            *)
AtWork(s) == pc[s] \in Step \ {"idle", "claiming", "claimed", "ordering", "releasing"}
InTurn == \A s \in Slot : AtWork(s) /\ Fenced(s) => ~Blocked(job[s])

(* engine.ts: source-owned terminalization commits before its delivery can become
   dead, whichever claim finds the budget used up.                             *)
SourceFirst == \A d \in Delivery : status[d] = "dead" => source[d] = "failed"

(* Once the owner's drain has reported that nothing is active, no engine sends an
   event of the account on a live lease until the fence is lifted, although
   drains of two requests share one cancellation mark and other replicas never
   see it.                                                                     *)
DrainedIsQuiet ==
    drain["owner"] = "drained" =>
        \A s \in Slot : pc[s] = "sending" => ~(Fenced(s) /\ Live(job[s]))

(* Every published delivery is settled or erased, or waits for an account that
   is fenced.                                                                  *)
Over(d) == status[d] \in {"succeeded", "dead", "erased"}
EveryDeliverySettles ==
    \A d \in Delivery :
        status[d] \in {"pending", "leased"} ~> Over(d) \/ account # "active"

=============================================================================
