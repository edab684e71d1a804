# TLA+ models of LibreJPartner

LibreJPartner is a LibreChat fork: an Express API server (`src/api`), a
TypeScript library with most of the server's logic (`src/packages/api`),
MongoDB models and their methods (`src/packages/data-schemas`), and a React
client. Several replicas of the server share MongoDB and, optionally, Redis.
This directory holds TLA+ models of those parts in which replicas, requests,
timers and retries race for shared state, with the TLC runs that check them and
the TLAPS proofs about them.

Paths below are relative to `src/`; `IM` abbreviates
`packages/api/src/stream/implementations/InMemoryJobStore.ts`.

## 1. Inventory

| component | state it keeps | operations | what is hard about it | what makes it correct |
|---|---|---|---|---|
| **Job store** (`IM`, `RedisJobStore.ts`) | per stream: the job record with its generation (`createdAt`) and status, steer queue, claims, parked payload, receipts, chunks | `createJob`, `transitionStatus`, `transitionStatusAndDrainSteers`, `enqueueSteerWithReceipt`, `drainSteers`, `appendChunk`, `restoreClaimedSteers`, `consumeParkedSteer`, ..., `cleanup` | a replaced generation's owner runs on; every path that ends a generation must park what it accepted; timers and eviction | an accepted steer is in exactly one place, in order, settled once |
| **Steering runtime** (`agents/steering/runtime.ts`, `SteeringLifecycle.ts`, steer routes) | the owner's drained batch | drain at tool boundaries, apply item by item, restore the failed suffix, seal at the end | awaits between the items; failed and unanswered calls | a steer is injected once, FIFO, never behind the seal |
| **Approval lifecycle** (`stream/ApprovalLifecycle.ts`, `GenerationJobManager.ts`) | the job's `pendingAction` and pause-persistence barrier | `pause`, `ownsPausePersistence`, `finishPausePersistence`, `resolve`, `expire`, `abortJob`, sweeps | read-then-compare-and-set against approval, stop, expiry, replacement | one driver, one outcome per pause, decision after the write |
| **OpenID refresh flight** (`methods/openidRefreshFlight.ts`, `auth/openid/flight.ts`) | one MongoDB row per refresh token | acquire, renew, complete, fail, join; claim, authorize, release a delivery; revoke | several documents operations per method, leases, TTL index, logout against delivery | one delivery at a time, nothing delivered behind a returned logout |
| **Schedules** (`schedules/fire.ts`, `engine.ts`, `service.ts`, `methods/schedule.ts`, `scheduleRun.ts`) | one MongoDB document per schedule (next due time, claim token, lease) and one per occurrence (the run) | claim due, run now, reserve, dispatch, advance, record outcome, sweep, edit, delete, suspend, erase | a dozen single-document operations per fire, each of which may fail, be overtaken or be the last before a crash | no occurrence is delivered twice, none is passed over by accident, no schedule stands still |
| **Trigger lanes** (`methods/triggerDelivery.ts`) | one MongoDB row per delivery, one document per ordering lane (counter, publisher, tail), purge markers | enqueue, publish, join a batch, recover a reservation, requeue, settle receipts, reclaim the lane, purge | every helper finishes every other's work, with copies of the lane as old as they like; no transactions | one reservation at a time, deliveries are published in the order of their admission, and receipts tell the truth |
| **Trigger delivery engine** (`agents/triggers/engine.ts`, `service.ts`) | leases and attempts on the rows, abort controllers, cancelled users | claim, order, begin, dispatch, complete, retry, bury, defer, stop, drain | slow workers behind their lease; budget, order and account checked calls before they matter | lane order, an honest budget, a quiet account after its drain |
| **Flow state manager** (`flow/manager.ts`) | flow records in a shared cache | `initFlow`, `createFlow`, `createFlowWithHandler`, `completeFlow`, `failFlow`, `deleteFlow`, monitor | get-then-set without a transaction or an owner | one answer per flight, no answer from a stored token that has expired, nobody waits for ever |
| Generation job manager (rest) | runtime state, event buffers, subscribers | subscribe, replay, emit, finalize | replay against live events; cross-replica abort | no event lost or twice for a subscriber |
| Redis event transport | pub/sub sequence numbers, reorder buffer | publish, deliver, flush | reordered and lost messages | in-order delivery |
| Queued turns | leased rows | enqueue, claim, settle | lease takeover | a turn starts once |
| Leader election (`cluster/LeaderElection.ts`) | Redis key, local refresh timer | `isLeader`, `electSelf`, `renewLeadership`, `resign` | renewals against expiry, late replies | one leader; leadership is lost before it is taken |
| Background agents, subagent threads | thread ownership, completion wake-ups | start, complete, wake | wake-up against completion | a completion wakes its parent once |
| MCP connections and OAuth | connection pools, tokens | connect, reconnect, refresh | reconnection storms, token races | one refresh at a time |
| Balances and transactions | balance rows | optimistic update with retries | lost updates | balance = sum of transactions |
| Human in the loop (`agents/hitl`) | none | payload building | -- | -- |
| Japanese advisor (`japanese/service.ts`) | none | prompt assembly, one provider call | -- | -- |
| Caches, files, skills, ACL, admin, prompts, endpoints, client | queries, I/O, user interface | -- | little concurrent state of their own | -- |

How the modelled parts interact: the agent controller
(`api/server/controllers/agents/request.js`) creates a job, drives the run, and
at tool boundaries calls the steering runtime, which calls the store. A tool
that needs review pauses the run through the approval lifecycle; the resume
controller (`resume.js`) claims the pause and drives the run on. Users reach
the store through the routes in `api/server/routes/agents/index.js`. `cleanup`
in the store and the manager's sweep are timers. A refresh of the OpenID
session is a separate request path (`AuthController.js`) over its own row.
A schedule's fire starts a run too: it hands the occurrence to the trigger queue,
the trigger's delivery drives the generation over the loopback route, and its
completion hook reports the outcome back to the schedule's run row. The queue stages
each event in its ordering lane, publishes it with the lane's next number, and the
engines of all replicas claim what is published; the deletion of an account fences
and drains both. The flow manager is a path of its own: MCP connections share token
lookups and logins through it.

## 2. Modules

| module | models | extends |
|---|---|---|
| `StoreLists` | the arrays of the store: filter, concatenation without duplicates | |
| `SteeringStore` | the store's steering state and methods, one operator each | `StoreLists` |
| `SteeringQueue` | who calls the store and when: users, owners, recoveries, timers | `SteeringStore` |
| `SteerPromise` | abstract: one line of waiting steers | `StoreLists` |
| `ApprovalLifecycle` | a paused run and everybody who races for it | |
| `OpenIDRefreshFlight` | the flight row and its requests | |
| `ScheduleFire` | one schedule, the runs of its occurrences, and who touches them | |
| `LaneOrder` | abstract: the waiting line of an ordering lane | |
| `TriggerLane` | staging, publication, batching, settlement and reclamation of a lane | `StoreLists` (instantiates `LaneOrder`) |
| `TriggerWork` | the engines that deliver what a lane has published, and the deletion of the account | |
| `FlowManager` | one flow of the flow state manager | |
| `StoreLists_proofs`, `SteeringQueue_proofs`, `ApprovalLifecycle_proofs`, `OpenIDRefreshFlight_proofs`, `ScheduleFire_proofs`, `TriggerLane_proofs`, `TriggerWork_proofs`, `FlowManager_proofs` | lemmas and theorems | the modules they are about |
| `MCSteeringQueue`, `MCApprovalLifecycle`, `MCOpenIDRefreshFlight`, `MCScheduleFire`, `MCTriggerLane`, `MCTriggerWork`, `MCFlowManager` | model values for TLC | |
| `MCTriggerLate` | one scripted behaviour of a lane, see section 4 | `TriggerLane` |

### Steering

A *steer* is an instruction a user sends to a run that is already going. The
route answers 202 once the store accepted it; from then on the user relies on
its *receipt*.

`SteeringStore` has one variable per map of the store: `job` (its generation,
status and the steer it recovers), `closed`, `queue`, `claimed`, `parked`,
`lease` (`recoveringCreatedAt` inside the parked payload) and `receipt`. The
store's methods contain no `await` between check and write, so each is one
atomic operator, whole: parking (`ParkQueued`) is part of every operator that
ends a generation, settling a receipt is part of the operator that moves the
steer. A steer is identified by its `clientSteerId`; text, quotes and
attachments do not matter to what is checked. Generations are numbered in the
order `createJob` installs them, where the code uses `createdAt`.

`SteeringQueue` adds the owner of each generation: `pc`, the `batch` it has
drained and not applied, the `delivered` parts of its content, and how far the
`recovery` of its `source` has come. An owner whose generation was replaced,
stopped or reaped keeps running; only the store's generation fence stops its
calls. Between any two calls everything else may happen. `StoreFaults = TRUE`
adds what a remote store does: the reply of a committed append is lost, a
restore throws. `accepted` and `lapsed` are history variables: what was
acknowledged, and what the parked TTL or a version 1 reader took away.

`SteerPromise` says what users are promised without mentioning store, owner or
races: one line of waiting steers, taken from the front. `PromiseSpec` is the
refinement: the line is `claimed \o queue`, the answers are `delivered`, and
the leftovers are `parked`.

### Approvals

`ApprovalLifecycle` is written at the grain of the awaits: a process reads the
job in one action and does its compare-and-set in a later one. `job` carries
the pending action and the *pause-persistence barrier*, which is up from the
moment the pause is published until the paused response is durable; while it is
up the flat action id in the store is the barrier's, so no decision, expiry or
stop matches (`PausedAt` against `BarrierAt`). The abort loop's three attempts
are in `Retries`. A decided run is driven by the request that won `Claim`.
`expired` and `overdue` are deadlines that have passed; `Crash` stands for a
dying replica and for a thrown call. An owner whose turn throws, while it drives or at a
call of its pause (`Fail`), goes on to the error path: it waits for a barrier that is up,
reads the job (`ReadToFail`) and claims the terminal status from what it has read, running
or paused (`End`; `claimTerminalJob`). `Evict` is the in-memory store making room
for another stream: the job goes, whatever its status.

### OpenID refresh flight

`OpenIDRefreshFlight` has one action per MongoDB operation: acquiring is a
create and then a reclaim, releasing a delivery four conditional updates,
revoking a loop of three. `row` is the document; `lockDue`, `due` and `lapsed`
say which of its deadlines have passed, so no clock is needed. Authorization of
a response is split at its await: `Authorize` is the read, `Send` the arrival
of its answer, where the code compares the lease with the clock again and
writes the response synchronously.

### Schedules

`ScheduleFire` has one action per document operation, or per read and the decision
taken on it. `sched` is the schedule document: `token` is `claimToken`, by the
worker that wrote it (every claim and every edit writes a fresh one, so a token is
somebody's or nobody's), `holder` and `lease` are `leaseBy` and `leaseUntil`.
`margin` is a lease that has expired by less than the clock skew: its holder no
longer acts on it, nobody else claims it. `runs` has the row of each occurrence,
its status and the conversation that reserved it (`by`). An *occurrence* is a due
time, or the time of a click on "run now". `proc` is a call of `fireSchedule`; its
`pc` names the operation that comes next. `Backoff` and `Aside` are the two ways
in which the code leaves an occurrence: an automatic claim keeps its lease and is
retried when it has lapsed, a manual run always releases.

`Dispatch` stands for `enqueueTrigger`: it commits, or finds its key, or fails before or
after committing. The key is made of the occurrence and the agent, so that the queue
takes a second delivery of one occurrence only for another agent; `fired` has the agents
it has taken. `live` says that a delivery or generation is under way; the generation has
begun, and the job exists, from `Start` on (`running`). `tries`, `late`, `wiped` and
`wanted` are history variables: how often the queue was asked, what began behind a
sweep's first look, which rows were erased, and what the owner last said about
`enabled`. `eraser` walks through `eraseScheduleIfDrained`, of a deleted schedule
(`teardown`) or, after any outcome, of a live one. `suspend` is an account deletion that
is begun and called off.

The bookkeeping of an outcome or of a balance skip counts it on the schedule and may
disable the schedule and clear its lease (`Booked`). That is fenced on the revision of the
configuration the row was reserved with (`rev`), not on a claim; how many failures or skips
it takes is left out, so it may disable the schedule at any of them. `owes` is a row whose
bookkeeping has yet to land; the reconciler finishes it (`FinalizeBookkeeping`).

The sweep of orphans takes a step for each of its operations: `LookForJob` reads the
status of the run's job, `LookForDelivery` the delivery, and `SettleOrphan` writes
the outcome, which asks only whether the row is still active. Anything may happen
in between. The sweep of a deleted schedule's runs (`erasure.ts` 75-134) does not look for
the delivery.

Two times are assumed. The grace of a missed due time (15 minutes) ends before a
row counts as orphaned (30 minutes), as in the code's constants. And no fire takes
30 minutes from its reservation to its dispatch: the sweep has no lease or token
to recognise such a fire by, and `LookForJob` says so in its guard.

### Triggers

A *delivery* is an event sent to an agent. Deliveries of one conversation share an
*ordering lane*. Two modules cut the subsystem at the published row.

`TriggerLane` is everything up to it and behind it. A `Helper` is a call in some
process: an enqueue, a requeue, a settlement, or one turn of the maintenance timer;
each of its actions is one document operation of `triggerDelivery.ts`. `line` holds
the staging rows in the order of `(updatedAt, _id)`. A replica stamps `updatedAt` by its own
clock before it writes, so an admission may enter the line anywhere (`Admit`); `ahead`
remembers of which rows it entered behind. `value`, `publisher` and `tail`
are the lane's document (a value of 0: there is none), `held` is a helper's copy of
it, which no other helper respects: whoever finds the lane reserved finishes the
reservation (`recoverLanePublisher`, from `FindRoot` to `Release`). Deliveries in
`Coalescing` have a coalescing key; within a window of 750 ms the one at the tail
takes the next as a member of its batch (`Join`), and the member is `batched`
instead of published. `gen` is `requeueCount`: a requeued root prepares its members
for its next generation, and a settlement reaches only the members of the
generation it settled. `shut` says that a window has passed, so no clock is needed.
What came of the generation a root started is propagated to its
members, those included that were settled otherwise (`PropagateHandling`).
A deletion sets its marker and closes the rows in two writes (`FenceAccount`,
`CloseRows`), and erases rows and lane in either order; one that is called off opens the
rows and removes the marker (`CallOff`, `Spare`). Both writes give all rows they touch one
`updatedAt`.

`LaneOrder` says what the lane promises: of two deliveries that wait, the one that was
admitted before the other is published before it, and nothing is published that does
not wait; what a batch takes up stops waiting. `OrderSpec` is the refinement:
the staging rows wait, in the order of `ahead`. The promise of order ends when the account
is about to be deleted, since the fence rewrites `updatedAt`. Nothing is promised of the
numbers themselves, which the code does not keep apart (section 4, items 6 and 7).

`TriggerWork` takes published rows from there (`Publish`, `Requeue`) and has one
action per call of `processDelivery`. `lease` has three values because a claim that
has run out is taken over only after a margin. The attempts a slot compares with the
budget are those of its claim (`attempt`), not the row's. `Check` reads the
principal, the send follows. `stopped` and `cancelled` are the engine's; the drains
of the owner's deletion and of an enqueue that met the fence share the one mark in
`cancelled`, and only the process that drains has it (`Home`). `tried` and `refused`
are history variables: what really became of the attempts. Every fault is a kind in
`Mishap`: crash, lease lapse, stop, and calls that throw, before or after they took
effect where the engine tells the two apart.

### Flows

`FlowManager` is written at the grain of the store's gets and sets. A caller that
finds no record looks again, writes a PENDING one and, of a type with a handler, runs
it and settles the flow; the others poll. `seen` is the record a call read before the
set that follows. `drops` counts the deletes a promise has under way, which are two if
an abort meets a poll. `old` and `worn` are clocks: the monitor's timeout and the
token's `expires_at`, which may pass before the token is stored or after it. `spent` are the
tokens that have been stored and have expired, `known` those that had when the call
began. Outsiders are the callback, the cancel route, `initFlow` and the
invalidation of cached tokens.

## 3. Runs

| run | instance | states | shows |
|---|---|---|---|
| `steering` | 3 steers, 2 generations, queue limit 2 | 529,339 | each steer in one place, delivered once; the seal is final; the refinement of `SteerPromise`, on the in-process store |
| `steering_remote` | 2 steers, 3 generations, faults | 486,777 | recovery and lease properties, and `EverySteerSettles`, with lost replies and thrown calls |
| `approval` | 2 requests, 2 generations, 2 pauses | 1,788,283 | one driver, pauses ended by those entitled to it, barrier exclusive; `EveryPauseEnds` |
| `openid` | 2 requests, 2 refreshes, 3 deliveries | 229,892 | exclusive delivery, logout waits, marks and results stay; `EveryRequestReturns` |
| `schedule_fire` | 2 workers, 1 due time, 1 of a click, an edit or a suspension | 4,012,976 | asked once while the row stands, no row of a deleted schedule about to go while its run is under way, none lost, superseded fires harmless but for what they book, leases kept |
| `schedule_live` | 1 worker, 1 due time, 1 edit, the sweep of orphans | 136,909 | nothing settled while its run is under way, but for what the sweep cannot see; `NeverStuck`, `TeardownEnds` |
| `trigger_lane` | 2 deliveries, 2 helpers, 1 crash | 379,073 | one reservation; `EveryTurnComes` |
| `trigger_batch` | 2 deliveries that coalesce, 2 helpers, 1 mishap of any kind | 2,256,431 | the refinement of `LaneOrder`; receipts have their root's outcome |
| `trigger_work` | 2 deliveries, 2 engines of 1 slot, 2 attempts, 1 mishap of 7 kinds, 1 deletion | 2,088,414 | honest budget, order, sources first, quiet after the drain |
| `trigger_work_live` | 2 deliveries, 1 engine, 1 crash or lapse, 1 requeue, 1 deletion | 717,737 | `EveryDeliverySettles` |
| `flow` | 2 callers, 1 outsider, 3 types, 1 mishap | 1,818,132 | one answer per flight, no answer that was stored and had expired when the call began; `EveryCallReturns` |
| `trigger_double` | 3 deliveries, 2 of which coalesce, 2 helpers | | *violation* of `OneHome` |

The inductive invariants of section 5 were checked with TLC on the same or smaller
instances before they were proved.

**Bounds.** `MaxGen` bounds how often `createJob` replaces the stream, `QueueMax`
is `STEER_QUEUE_MAX_DEPTH`, `MaxActions` bounds the pauses, `MaxOwners` the
refreshes that try to lead, `MaxClaims` the deliveries claimed. They are in the
guards of `StoreCreate`, `StoreEnqueue`, `Interrupt`, `Acquire`, `ClaimDelivery`.
`MaxDue`, `MaxClicks`, `MaxEdits` and `MaxSuspends` bound the due times, manual
runs, edits and suspensions of a schedule, in `Tick`, `AcquireManualRunLease`,
`Edit` and `SuspendRead`.
Two generations are what it takes for a replaced owner to meet its successor
and for a leftover to be recovered; three (in `steering_remote`) for a recovery
to be replaced by another recovery of the same steer. Three steers with a queue
limit of two make the limit bite and let one steer be restored in front of
another while a third is accepted. Two pauses are what a decision on the wrong
pause needs; a request that has returned starts again in any role, so that two
requests are enough for a process whose reason is out of date to meet one that has
changed the job meanwhile.
Two helpers are what it takes for a reservation to be finished with an old copy, and
two deliveries for one to overtake another; the double dispatch of section 4 needs a
third, between which and the first the batch opens. One mishap at a time is enough to
leave every intermediate state behind for the other helper, slot or caller to find,
and which mishap it is, is open. Two attempts make the last one differ from the first.
What the order of a lane and its numbers come to with three and four deliveries is
item 7 of section 4 and the theorems of section 5, which have no bound.
`BatchLimit` (8 in the code) does not bite at this size. `MaxMishaps`,
`MaxRequeues` and `MaxFences` are in the guards of `Befalls`, `May`, `Requeue` and
`Fence`.
`Watched` says which occurrences the sweep of orphans comes to: in `schedule_fire` none,
where its looks would multiply the states without being asked about, and in `schedule_live`
the due time; the proofs have every subset.
A schedule's hazards are about two fires of one occurrence, which one due time and
two workers give; `next` still reaches the due time after the last, so a fire is
seen to move on, and to be overtaken by one that has. The click gives a second
occurrence, and so a second run, beside it. `schedule_fire` lets one of a click, an
edit or a suspension fall into a behaviour (`MaxChanges`, which bounds the three
together), at any of its steps. `schedule_live` has no click: what it asks about is one
row.
The proofs have none of these bounds except as parameters.

**Stopping.** Every system here may come to rest when its bounds are used up, so
the configurations of steering, approvals, OpenID, schedules, flows and lanes say
`CHECK_DEADLOCK FALSE`; that something must still happen
is what the liveness properties are for. Deadlock is checked in the runs of the
trigger engines, whose polls never end. The runs with `SYMMETRY` check safety only.

**Fairness.**

* *Steering*: a run ends, by its owner's finishing or, when the owner hangs or
  crashes, by the stale reap of the cleanup interval (`IM` 1228, 20 minutes
  without activity). The disjunction is strongly fair because pauses interrupt
  it; nothing says that an owner ever drains, applies or restores. Approvals have
  a deadline and the same interval aborts them.
* *Approvals*: deadlines pass and the cleanup interval runs. No process is fair,
  so any of them may have crashed.
* *OpenID*: leases and rows run out, the TTL index works, a logout and a joiner
  that are alive go on polling, a token exchange ends or its process dies.
  `Revoke` is strongly fair while there is a row nobody delivers: a row appears
  and disappears on the scale of its 120 seconds, a logout's loop turns in
  milliseconds. `MaxClaims` keeps an endless succession of deliveries from
  starving a logout; the code does not exclude that in principle, its requested
  revocation (`revoking`) does once the current delivery is released.
* *Schedules*: a replica goes on claiming what is due (strongly fair: a schedule
  is claimable in between leases) and the write that moves it on does not fail for
  ever; a fire ends or crashes; leases and the grace run out; a generation ends and
  its outcome or the reconciler settles the row; the sweep of deleted schedules
  comes round and its four steps do not fail for ever. No single step of a fire is
  fair by itself, except the advance.
* *Trigger lanes*: a call that has begun goes on unless its replica stops; the
  maintenance timer takes up reservations, staging rows and clean-ups (strongly fair,
  since the work comes and goes); an account's deletion ends. Nothing is assumed of
  dispatch, so a delivery may stay claimed for ever; the line moves all the same.
* *Trigger work*: tasks go on, engines poll, leases and margins pass, generations end.
  A claim of one row is strongly fair: candidates are taken oldest first, so that no
  row is passed over for ever. No fairness is given to the deletion beyond its drains,
  and `EveryDeliverySettles` excuses an account that stays fenced.
* *Flows*: promises and timers run, a handler settles (its requests have timeouts of
  their own), the clock passes. No outsider has to come.

**Mutants.** Each property has a plausible bug that breaks it, an operator next
to the one it replaces and commented *Mutant*: a dropped guard, a
parking path that forgets the claims, a release that does not look for a logout.

## 4. Where code and comments disagree

The run `trigger_double` shows one. A helper chooses delivery X and is late with its
reservation of the lane; another publishes X by itself; a later delivery becomes the
tail and opens a batch. The first helper reserves the lane for X (`triggerDelivery.ts`
915-943 does not ask for X's status), and the update that joins X to the batch (572-603)
does not ask whether X is still staging; the publication that follows finds X published
and only gives it the root's id (686-700). X is dispatched by itself and in the batch. A
helper that still holds a copy of the first reservation of X, which was in time, does the
same.
`agents/triggers/README.md` 220 says that retrying one event cannot duplicate the
batch. `OneHome` is violated.

Eight more are properties of the modules that do not hold. Each has a configuration
beside the runs, with which TLC finds its counterexample in seconds:

1. `RecoveryOwnsSource` (`MCSteeringDiscardRace.cfg`): `discardSteerLeftover` protects
   the source of a recovery only while the recovering job is running or paused (`IM`
   2315), but the turn claims its terminal status first, then writes its user message,
   then consumes the source (`request.js` 2817-2834). A discard in between succeeds;
   the comment at `IM` 2322 says it must not.
2. `NeverResumedLate` (`MCApprovalLate.cfg`): `resolve` compares the deadline on the
   job it read; the compare-and-set has no `notAfterMs`, while `pause`'s has one. The
   doc comment at `ApprovalLifecycle.ts` 341 says an expired action is never resumed.
3. `FiredOnce` (`MCScheduleTwice.cfg`): every settled run of a live schedule is
   followed by `eraseScheduleIfDrained` (`service.ts` 905), whose look for active runs
   and whose `deleteMany` of run rows (`schedule.ts` 2029-2037) do not ask whether the
   schedule is deleted. The rows are what makes a second reservation of an occurrence
   fail. `fire.ts` 138 says an occurrence can never be fired twice, `service.ts` 902
   that the call is a no-op for live schedules.
4. `EvidenceKept` (`MCScheduleEvidence.cfg`): the same removal is not conditional on
   the look before it: a run reserved in between loses its row while its generation
   runs. The comment at `schedule.ts` 1987 excludes it.
5. `OffStaysOff` (`MCScheduleSuspend.cfg`): the suspension's write is not fenced on
   anything an edit changes, so an edit between its read and its write is lost, and the
   restore turns on what the owner has turned off. The comment is at `schedule.ts` 1762.
6. `OwnPlace` (`MCTriggerReprieve.cfg`), two published deliveries with one number. A
   helper that has reserved the lane finds the purge marker, fences the reservation off
   and gives the number back (`triggerDelivery.ts` 945-951). The deletion is called off
   in between, and another helper that holds a copy of the reservation publishes with
   the number; the next delivery is given it again. The comment at 748-751 says that
   nobody can have used it.
7. `OwnPlace` again (`MCTriggerLate`). A helper chooses a delivery and reserves the lane
   only after that delivery has been published by others, has succeeded, and the lane
   was deleted and begun anew. The number it reserves happens to be the one the
   delivery has, and 706-712 take that for a publication of their own: the delivery is
   made the tail again, its clean-up is requested again with the time it had before, and
   a reclaimer that had looked earlier deletes the lane while a later delivery is in it
   (1192-1199). The next one begins with 1 again, although
   `types/triggerDelivery.ts` 93 calls the numbers monotonic. The behaviour has 76
   steps, too many to be searched for: the module is its plot, and TLC confirms that
   each step is one of `TriggerLane` and that the property is violated at its end.
8. `LateErrorIsNothing` (`MCApprovalStale.cfg`): a call of the pause takes effect and its
   reply is lost, the owner goes on to its error path, and by the time it claims the
   terminal status a decision has resumed the run: the claim ends a run that another
   request drives. `claimTerminalJob` reads the job and takes it as it finds it, running or
   paused (`GenerationJobManager.ts` 3588-3589), where the comment at `request.js`
   3113-3114 has it that the claim is "running -> error" and that a competing pause
   "emits nothing" (`resume.js` 2034 likewise).

Because of items 6 and 7 no run and no theorem promises anything of the lane's numbers. In
the runs as they are the numbers come out right: two deliveries are too few for item 7, and
that is no evidence for the code. The order in which deliveries are *published*
(`OrderSpec`) does not depend on the numbers; the order in which the engines then serve
them does, and `TriggerWork`, which has numbers that grow, is to be read with this in mind.

And these follow from the models without a property of their own:

* With `StoreFaults` the order of steers is lost: if restoring a failed batch throws,
  its steers stay claimed and the owner goes on (`runtime.ts` 143 says that no later
  item may overtake); and so is `DeliveredIsInContent`: an append that commits and
  whose reply is lost counts as failed, the part is rolled back, and the receipt says
  delivered (`client.js` 592 calls the two one durable unit). Both are therefore
  checked on the in-process store, where calls do not fail.
* The schedules' sweep settles the row of a crashed fire, it does not remove it, and by
  then the occurrence is past its grace: it is passed over, where `fire.ts` 554 says it
  reserves cleanly; `NoneLost` excuses it.
* A fire that was superseded can do more than take its own lease away. `fire.ts` 150-152
  says that every write is fenced on the claim token, so that a stale worker "cannot
  clobber the newer authoritative state". The bookkeeping of a balance skip (`schedule.ts`
  1260-1321) and of a failed dispatch is fenced on the revision of the owner's
  configuration only: if the skip or failure is one too many, and the owner has not edited
  the schedule, it turns the schedule off and clears the lease of whoever has taken the
  claim over. `SupersededIsHarmless` excuses this (`Books`). The comment at `fire.ts` 364,
  that skip rows carry no `bookkept: false`, is out of date: `schedule.ts` 1506-1512
  writes one, and the reconciler finishes it.
* The sweep of orphans can interrupt a run whose generation is under way. It reads the
  job's status (`engine.ts` 76-79), awaits the owner's limits (85-88) and reads the delivery
  (213) before it writes "interrupted" (245), which is fenced on an active row only; a
  delivery that was deferred past the 30 minutes and starts between the two reads has
  succeeded by the second one. For a deleted schedule `erasure.ts` 75-134 settles the runs
  without asking for the delivery. `SettledIsOver` and `TeardownIsDrained` excuse these
  (`late`, "swept"): a delivery that is merely deferred keeps its run.
* `isTokenExpired` is asked by callers that find a record when they begin (`manager.ts` 420
  and 430). One that finds it PENDING polls, and `monitorFlow` 233-234
  resolves with what is then stored: a token that expired between the handler's return and
  `completeFlow`'s set is served to it. `SpentIsNotServed` is therefore about tokens that
  were *stored* and had expired when the call began.
* A result of a flow does not stay. `failFlow` reads PENDING, `completeFlow` stores its
  result, `failFlow` stores its failure over it, though `manager.ts` 377 speaks of
  skipping a failure "to prevent overwrite"; and a waiter that has read an overdue
  PENDING record of a retained type writes "timed out" over the result of the callback.
  `invalidateGetTokensFlow` completes a PENDING lookup with the fresh tokens so that
  concurrent waiters do not "later publish server-rejected tokens"
  (`MCPConnectionFactory.ts` 944-948); the lookup's owner, which has read the record
  before, stores its own result over them.

Everything else the runs check holds.

## 5. Proofs

`SteeringQueue_proofs` proves, for every set of steers, every number of
generations, every queue limit and both kinds of store:

| theorem | statement |
|---|---|
| `Invariance` | `Spec => []IInv` |
| `TypeCorrect` | `Spec => []TypeOK` |
| `AcceptedIsAccounted` | `Spec => []Accounted` |
| `ListsHoldNoDuplicates` | `Spec => []NoDuplicates` |
| `InjectedOnce` | `Spec => []DeliveredOnce` |
| `RepairIsIdle` | `Spec => []ReceiptsNeedNoRepair` |
| `SettledForGood` | `Spec => SettledIsFinal` |
| `SealStays` | `Spec => SealIsFinal` |
| `LeasedStaysParked` | `Spec => LeaseProtects` |
| `RecoveredAtMostOnce` | `Spec => []RecoveredOnce` |
| `DeliveredIsShown` | `Spec => [](~StoreFaults => DeliveredIsInContent)` |
| `KeepsThePromise` | `Spec /\ ~StoreFaults => PromiseSpec` (the refinement of `SteerPromise`) |

`ApprovalLifecycle_proofs`, for every set of requests and every number of
generations and pauses:

| theorem | statement |
|---|---|
| `Invariance`, `TypeCorrect` | `Spec => []IInv`, `Spec => []TypeOK` |
| `DrivenOnce` | `Spec => []OneDriver` |
| `SavedBeforeResumed` | `Spec => []ResumedWasSaved` |
| `ReviewedBeforeResumed` | `Spec => []ResumedWasReviewed` |
| `ExpiredBeforeLapsed` | `Spec => []LapsedWasExpired` |
| `OutcomeIsUnique` | `Spec => []OneOutcome` |
| `AskedBeforeStopped` | `Spec => []StoppedWasAsked` |
| `WriterAlone` | `Spec => BarrierIsExclusive` (an eviction excused) |

`OpenIDRefreshFlight_proofs`, for every set of requests and every number of
refreshes and deliveries:

| theorem | statement |
|---|---|
| `Invariance`, `TypeCorrect` | `Spec => []IInv`, `Spec => []TypeOK` |
| `OneDelivery` | `Spec => []DeliveryIsExclusive` |
| `LogoutOutwaits` | `Spec => LogoutWaits` |
| `MarkStays` | `Spec => RevocationHolds` |
| `ResultStaysKept` | `Spec => ResultIsKept` |

`ScheduleFire_proofs`, for every set of workers and every number of due times,
clicks, edits and suspensions:

| theorem | statement |
|---|---|
| `Invariant`, `TypeCorrect` | `Spec => []IInv`, `Spec => []TypeOK` |
| `FiredOnceWhileRowStands` | `Spec => []FiredOncePerRow` |
| `Superseded` | `Spec => SupersededIsHarmless` |
| `LeaseIsKept` | `Spec => LeaseIsOnesOwn` |
| `SettledRunsAreOver` | `Spec => []SettledIsOver` |
| `TeardownTakesNoLiveRow` | `Spec => []TeardownIsDrained` |
| `NoOccurrenceIsLost` | `Spec => NoneLost` |

`TriggerWork_proofs`, for every set of deliveries, slots and engines, every attempt
budget and number of faults, requeues and deletions:

| theorem | statement |
|---|---|
| `Invariance` | `Spec => []IInv` |
| `AttemptsStayWithinBudget` | `Spec => []WithinBudget` |
| `DeadLettersUsedTheirBudget` | `Spec => []BudgetIsHonest` |
| `LaneIsServedInTurn` | `Spec => []InTurn` |
| `SourceIsClosedFirst` | `Spec => []SourceFirst` |
| `DrainQuietens` | `Spec => []DrainedIsQuiet` |

`FlowManager_proofs`, for every set of callers and outsiders, the types and tasks and
any number of faults:

| theorem | statement |
|---|---|
| `Invariance` | `Spec => []IInv` |
| `ExpiredTokenIsNeverServed` | `Spec => []SpentIsNotServed` |
| `OneFlightOneAnswer` | `Spec => []OneFlight` |

`TriggerLane_proofs`, for every number of deliveries, helpers and mishaps, every set of
deliveries that coalesce and every batch limit:

| theorem | statement |
|---|---|
| `TheLineHolds` | `Spec => []LineInv` |
| `TheReservationIsOne` | `Spec => []OneReservation` |
| `ReceiptsAreTheRoots` | `Spec => OutcomeIsTheRoots` |
| `TheOrderIsKept` | `Spec => OrderSpec` (the refinement of `LaneOrder`) |

**Assumptions**: the named `ASSUME`s of `SteeringStore`, `SteeringQueue`,
`ApprovalLifecycle`, `OpenIDRefreshFlight`, `ScheduleFire`, `TriggerLane`,
`TriggerWork` and `FlowManager` (`NoSteer` is not a
steer, `NoProc` not a request, `Nobody` not a worker, the bounds are positive,
`StoreFaults` is a Boolean). `Steers`, `Procs` and `Worker` may be infinite.

**The argument for steering.** `Accounted` alone is not inductive. A step that ends a
generation turns the receipts of the queued and claimed steers into leftovers;
for the others nothing changes, so `Accounted` needs to know that *no other*
steer is still marked queued or claimed, which it says itself. But a step of a
replaced owner, a delivery for instance, names its own generation; that it
cannot touch a successor's steer follows from the receipt's generation, and that
a pending receipt has the current generation is `PendingIsCurrent`. Deletion
drops queue and claims without looking at them (`deleteJob`, `IM` 1012); it is
harmless because by `PendingIsCurrent` a terminal job has neither. `DeliveredOnce`
needs that what is applied was claimed and not delivered before, which is
`Accounted` and `NoDuplicates`, and that an owner that applies has an item,
`OwnersHoldWork`. So `IInv` is the conjunction of `TypeOK`, `Accounted`,
`NoDuplicates`, `PendingIsCurrent`, `DeliveredOnce` and `OwnersHoldWork`; TLC finds it
invariant on the instances of both steering runs. There is one lemma per action (or per
group of actions with the same effect on the lists), `NextKeeps` puts them
together.

The lists are where the work is: `StoreLists` defines `filter` without recursion,
as the subsequence at a set of positions enumerated in order, and
`StoreLists_proofs` proves once what append, concatenation, removal, filter and
merge do to the set of items and to `Distinct`.

Three more invariants carry the other theorems. `RecInv`: a source that was ever leased
is not pending any more, a committed one is out of the parked payload and no later
generation names it; since only the newest generation commits, two cannot. `ContentInv`:
without faults a delivered receipt and its part of the content come in one step.
`LineInv`, for the refinement: what the current generation has claimed is exactly the
batch of its owner, in that order, and while the owner is at it the run is neither paused
nor sealed. So a restore always succeeds as a whole and puts the batch back where it
was, and what is applied is the first of the line. `PromiseStep` then names for each
action the step of the promise it is; the rest of the work is again in `StoreLists_proofs`,
where filters and concatenations are shown to be equal as lists, in order. The theorem
needs that calls do not fail: with faults the order is lost (section 4).

**The argument for approvals.** A compare-and-set is as good as the reason the request
has for it, and between the two anything may happen. So `IInv` says for every request,
wherever it is, what its reason is worth now (`Backed`): who resolves or claims an
action has seen it reviewed, who stops has been asked. An expiry is the difficult one:
`resolve` goes on to expire because the action *of the job it reads* is past its
deadline, which after a resume and a second pause is not the action it names. Then its
own action is over and never comes back, which is the disjunction in `Backed`; that an
action is not reused is `Fresh`. That one request drives follows from `InStep`: a run
that is paused behind a barrier that is down has no driver left, since the one driver it
had is the one that took the barrier down. The error path needs little: whoever is on it
does not drive, and what it takes the run from it has no claim to. `OtherKeeps` is the
frame argument for all requests that do not move, `RequestStep` puts it together with
the one that does, and each action only has to show its own part.

**The argument for the OpenID flight.** Whoever delivers owns the lease on the
row, if its lease has not lapsed (`DeliveryIsExclusive`). This is inductive
together with three facts: a row is not due while its lease runs, so that neither
the TTL index nor a reclaim takes it (`LeasedIsNotDue`); only a completed row is
asked back (`RevokingIsCompleted`), so that a leader's writes cannot meet a
delivery; and whoever leads has an owner id (`LeadersAreNumbered`). `LogoutOutwaits`
then shows that the only steps that return from a logout need a row without a
live lease, or no row. `RowKept` says once what every step does to a row that has
a mark or a result.

**The argument for schedules.** The queue is asked once per row (`FiredOncePerRow`)
because whoever is about to ask owns the row and nobody has asked before (`OwnRow`), and
because what has been asked for has a row (`TriedHasRow`), so that it cannot be reserved
again. Two workers cannot own one row: its `by` names one. A rollback removes only a row
its worker owns, which by `OwnRow` has not been tried; a settled run was tried
(`AliveIsTried`), so nobody stands on it; what a sweep has come to has a row that no
fire has reserved for itself (`SweptHasRow`); and the erasure, which respects none of
this, moves what it takes to `wiped`. `CoreKept` states once under which conditions a
step keeps all four, and each action shows those. The leases need another invariant,
`LeaseInv` in the proof module: whoever's token it is, the lease is theirs or nobody's;
a lease nobody took is nobody's; a deleted schedule is off. `StepChanges` lists the ways
in which a step can change the document at all, the bookkeeping's disable among them,
and the theorem is a case of each. The other three rest on one lemma, `RowStep`, that
says what any step does to a row that has not been erased. A row that is settled was
asked for (`RowInv`), so that it is not reserved anew; and a sweep that has found the
delivery gone either has a row whose generation began behind its first look, or a
deleted schedule, or nothing under way, which stays so until it writes. For
`TeardownIsDrained` the strengthening is that at `drained` nothing at all is under way
outside the erased rows, and nobody is about to ask for one (`DrainInv`): it is kept
because a deletion is not taken back and a deleted schedule grants no claim. For
`NoneLost` it is that whoever has come as far as the advance is excused already
(`PassInv`), and that no excuse is lost while the worker stands there.

**The argument for the engine.** The properties are about slots that *still hold* their
claim (`Fenced`): what a slow worker does after its claim was taken over has no effect on
the row. `IInv` speaks row by row (`RowInv`), slot by slot (`SlotInv`) and of the drains
(`DrainInv`). A row's attempts are those that were tried, and one more while a claim has
begun one; a slot that holds its claim knows the row's own count. So the comparison with
the budget, made calls earlier, is still good when the attempt is counted, and an attempt
that is given back is the one that was begun. `InTurn` is kept because the numbers of a
lane only grow: an earlier row that is settled stays so, or is requeued with a new, later
number. A dead letter's source is closed because the slot that buries closed it and
nothing opens it again. `DrainedIsQuiet` holds since the fence is raised before the drain:
whoever looks at the account afterwards does not send, and whoever looked before holds a
live lease, which the drain counts, or none that a later claim could give it. A step of a
slot leaves every other slot without its row (`OtherKeeps`), so each action is left with
its own row and its own slot.

**The argument for flows.** That a stored, expired token is nobody's answer has to survive
sets that rest on old gets. A token enters the store once, by the set of the call whose
result it is: before that set it is not among the spent ones (`EarlyIsUnstored`), so that
no call knows it as spent. A call listens to the store only once it has found a record
there that had not expired, or has put its own PENDING record in place of one that had;
and what has been stored since then is not among what it knew (`ListensToOthers`).
`OneFlight` rests on `Flight`: while nothing has stepped in, one caller at most is between
its start of the flow and its answer (`OneOwner`), the record says how far it has come,
a record that is missing is one that had failed (`OnlyFailuresVanish`), and whoever has
been told anything was told what the record says (`ToldAsStored`).

**The argument for the lane.** A helper acts on a copy of the lane, and its steps are
fenced only by the number and the publisher in that copy. `LineInv` says what a copy may
be worth: the generation of the delivery it reserves the lane for is *over* (published,
joined, or requeued since), or it is *next*: it is staging, nothing that still waits was
admitted before it, and the copy is the lane's own reservation (`CopyIsCurrent`). So
whoever publishes publishes one that is next, which is the step of `LaneOrder`, and
`OneReservation` is one part of `CopyIsCurrent`: staging rows that are over no longer
match. A row that is next stays next, because an admission enters `ahead` behind those it
was admitted after, never in front of them, although in `line` it may enter anywhere
(`LineIsInOrder` says what the two have to do with each other, `EntersInOrder` and
`LeavesInOrder` that they keep it). That a requeued row is not taken for its earlier self
is the count in `gen`. A fence rewrites the order of the rows, and an erasure takes them:
from the fence on *next* says no more than that the row is staging, and after the erasure
everything is over.

`BatchInv` is what settlements need: a settlement under way is of a generation that is past,
or its root has the outcome it settles, or the root is in a batch itself
(`SettlesForRoot`). The last is the double dispatch of section 4: what such a root settles,
its own root may settle otherwise, and `OutcomeIsTheRoots` makes no statement of it. That
batches are of deliveries that coalesce (`MembersCoalesce`, `RootsCoalesce`) keeps the
withdrawal of an internal delivery's dead letter (`Retire`) out of them.

None of the four theorems has a hypothesis about the behaviours. `OneHome` and `OwnPlace`,
which do not hold (section 4), are not among what is proved, nor assumed.

**Only model-checked**: liveness under fairness, which is out of the prover's reach
(`EverySteerSettles`, `EveryPauseEnds`, `EveryRequestReturns`, `NeverStuck`,
`TeardownEnds`, `EveryTurnComes`, `EveryDeliverySettles`, `EveryCallReturns`). Every other
property of the passing runs, and both refinements, are proved; `DeliveredIsInContent` and
`PromiseSpec` of a store whose calls do not fail, where the runs check them too.

## 6. Not modelled

* Steering: protocol version 1 enqueues (a version 1 *reader* is modelled, as it
  takes parked steers away), preemption flags (`armSteer`, they only decide when
  the owner drains), receipt expiry (activity and parking keep a receipt alive
  while its steer is pending or parked), the idempotency claims of `createJob`,
  and `SteeringLifecycle`'s `park`, `clear` and `closeAndDrain`, which nothing in
  the server calls.
* The Redis store's Lua scripts: each does in one script what the in-memory
  method does in one turn of the event loop. The model adds what is different
  about them: replies get lost, calls throw.
* Approvals: `resolve` without an expected action id (the routes always pass
  one), the branch that finalizes a job whose pending action could not be
  parsed, and a shutdown's errors for the jobs its replica owns
  (`finalizeOwnedJobsForShutdown`). An eviction is modelled, and deletes a paused job
  under a live barrier; `BarrierIsExclusive` is about jobs that are not deleted.
* OpenID: encryption, token expiry, the refresh-token bridge, cookies.
  `createdAt` is present in every row the code writes, so the branches for its
  absence are left out. `Complete` stores the result and publishes the session in one
  step; in the code the session is published first (`session.ts` 1585-1598), and no
  property tells the two apart.
* Schedules: the slots of the global capacity (a fire that gets none takes the way of
  `LeaveForRetry`), the counts of failures and balance skips and the order fence of
  their streaks (any of them may disable the schedule, if its revision is current), the
  schedule lease a resumed run takes, creation slots and idempotency keys, and the stop
  barrier. How the next due time is computed from a cron expression is not a question
  here: it is one more than the last.
* Trigger lanes: worker capabilities and the rows
  of versions before them, expected actions, which never coalesce, and the clean-up that
  `finalizeAgentEventActorDelivery` requests again. Two assumptions: a
  join is written while the window it was built for is open, and an `updateMany` and the
  count that follows it are one step.
* Trigger engines: worker capabilities, back-off times, the chat permissions of actors,
  and the waiting for a handling's terminal outcome. A drain's count (`countActive`)
  also counts admissions of actors and detached actions (3420-3446), which `Quiet`
  leaves out: the modelled drain succeeds more easily than the code's. `InTurn` is about
  the numbers `Publish` gives, which grow; item 7 of section 4 is where a lane's may
  not. That a lease outlasts every send (it is four times the dispatch's timeout) is not
  assumed: it lapses by a mishap.
* Flows: readers that change nothing (`getFlowState`, `isFlowStale`), results that are
  `undefined`, polls that overlap because a get takes more than two seconds, and a set
  that throws after taking effect.
* The components without a module in the table of section 1.

## 7. Plan

Done: steering, approvals, OpenID flight, schedules, trigger lanes, trigger engines,
flows, and the proofs of section 5. Next, the most important first:

1. `ScheduleResume`: the lease of a resumed run, the slots of the global capacity,
   and the replay of a pause that the reconciler read before the run was resumed
   (`engine.ts` 147, where `erasure.ts` 170 has a fence).
2. `QueuedTurns`: leased hand-over of turns behind a run.
3. `EventTransport`: sequence numbers, reorder buffer and replay; abstract: a
   subscriber sees a gapless prefix.
4. `LeaderElection`; then `SubagentThreads`, MCP connections over `FlowManager`, and
   balances.
5. A composition of `SteeringQueue` with `ApprovalLifecycle` over one job record, and of
   `TriggerWork` with `ScheduleFire`, if they stay within reach of TLC.

Theorems to come: that `TriggerWork` takes from a lane what `LaneOrder` has published and
in that order, once the two are composed; then the invariants of the modules above.
