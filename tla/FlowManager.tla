----------------------------- MODULE FlowManager -----------------------------
(* One flow of the flow state manager (packages/api/src/flow/manager.ts): the
   record under one key of a shared Keyv store that lets many requests, in many
   processes, wait for one OAuth login or share one token lookup.

   The store has no compare-and-set.  A caller that finds no flow looks again a
   quarter of a second later, then writes a PENDING record; a handler's caller
   runs its handler and settles the record, every other caller polls it.
   Outsiders (the OAuth callback, the cancel route, the connection factory)
   settle, clear or start the flow by its key.  Completing and failing are a get
   followed by a set, so every call below stops between the two.               *)
EXTENDS Naturals

CONSTANTS
    Caller,       \* the calls of createFlow or createFlowWithHandler
    Outsider,     \* the requests that settle, clear or start the flow by its key
    NoOne,        \* no process
    Rejected,     \* the answer of a promise that was rejected
    Task,         \* what an outsider may call
    Type,         \* the types of flow to look at
    Mishap,       \* the faults that may happen
    MaxMishaps    \* bound: how many of them

Process == Caller \cup Outsider

ASSUME ProcessAssumption ==
    /\ Caller \cap Outsider = {}
    /\ NoOne \notin Process /\ Rejected \notin Process /\ NoOne # Rejected
ASSUME TypeAssumption ==
    /\ Type \subseteq {"mcp_get_tokens", "mcp_oauth", "oauth"} /\ MaxMishaps \in Nat
    /\ Task \subseteq {"complete", "fail", "delete", "init", "invalidate"}

(* A token lookup runs the caller's handler and its result can expire; a login
   waits for the callback of another request; the failure of an MCP login is one
   of the retainedFailureTypes (api/config/index.js).                          *)
HasHandler(t) == t = "mcp_get_tokens"
Retains(t) == t = "mcp_oauth"

VARIABLES
    type,     \* the flow's type
    flow,     \* the record under the key
    pc,       \* the process: the call it makes next
    seen,     \* the process: the record its last get returned
    aborted,  \* the caller: its AbortSignal has fired
    drops,    \* the caller: the deletes of the key it has under way
    told,     \* the caller: what its promise came to
    worn,     \* the results whose expires_at has passed
    spent,    \* history: of these, the ones that have been stored
    known,    \* history: the ones spent when the call began
    starts,   \* history: how often a PENDING record was written
    calm,     \* history: no signal, clock, outsider or store error has stepped in
    mishaps

record == <<flow, starts>>
call == <<pc, seen, aborted, drops, told>>
history == <<worn, spent, known, calm>>
vars == <<type, record, call, history, mishaps>>

(* old: monitorTimeout has passed since createdAt.  by: whose result it is;
   whether a result has expired depends on the result and the clock, and on no
   record that holds it.                                                      *)
Record == [status : {"none", "PENDING", "COMPLETED", "FAILED"},
           by : Process \cup {NoOne}, old : BOOLEAN]

NoFlow == [status |-> "none", by |-> NoOne, old |-> FALSE]
NewFlow == [NoFlow EXCEPT !.status = "PENDING"]

TypeOK ==
    /\ type \in Type
    /\ flow \in Record
    /\ pc \in [Process -> {"idle", "again", "creating", "running", "completing",
                           "storing", "rereading", "failing", "marking",
                           "monitor", "missing", "rewatching", "dropping", "retaining",
                           "deleting", "returned", "gone"}]
    /\ seen \in [Process -> Record]
    /\ aborted \in [Caller -> BOOLEAN]
    /\ drops \in [Caller -> 0 .. 2]
    /\ told \in [Caller -> Process \cup {NoOne, Rejected}]
    /\ spent \subseteq worn /\ worn \subseteq Process
    /\ known \in [Caller -> SUBSET Process]
    /\ starts \in Nat /\ calm \in BOOLEAN /\ mishaps \in Nat

Init ==
    /\ type \in Type
    /\ flow = NoFlow
    /\ pc = [p \in Process |-> "idle"]
    /\ seen = [p \in Process |-> NoFlow]
    /\ aborted = [c \in Caller |-> FALSE]
    /\ drops = [c \in Caller |-> 0]
    /\ told = [c \in Caller |-> NoOne]
    /\ worn = {} /\ spent = {}
    /\ known = [c \in Caller |-> {}]
    /\ starts = 0 /\ calm = TRUE /\ mishaps = 0

-----------------------------------------------------------------------------
(* Calls.                                                                     *)

At(p, step) == pc[p] = step
Goto(p, step) == pc' = [pc EXCEPT ![p] = step]

Answer(c, what) ==
    /\ Goto(c, "returned")
    /\ told' = [told EXCEPT ![c] = what]

(* A flow whose token has expired is no flow to a handler's caller.  Mutant:
   nobody looks at the token.                                                 *)
ExistsAtAll == flow.status # "none"
Exists ==
    /\ flow.status # "none"
    /\ HasHandler(type) /\ flow.status = "COMPLETED" => flow.by \notin worn

(* monitorFlow refuses a signal that has fired already.                       *)
Monitor(c) ==
    \/ ~aborted[c] /\ Goto(c, "monitor") /\ UNCHANGED told
    \/ aborted[c] /\ Answer(c, Rejected)

FirstLook(c) ==
    /\ At(c, "idle")
    /\ known' = [known EXCEPT ![c] = spent]
    /\ \/ Exists /\ Monitor(c)
       \/ ~Exists /\ Goto(c, "again") /\ UNCHANGED told
    /\ UNCHANGED <<type, record, seen, aborted, drops, worn, spent, calm, mishaps>>

SecondLook(c) ==
    /\ At(c, "again")
    /\ \/ Exists /\ Monitor(c)
       \/ ~Exists /\ Goto(c, "creating") /\ UNCHANGED told
    /\ UNCHANGED <<type, record, seen, aborted, drops, history, mishaps>>

Start(c) ==
    /\ At(c, "creating")
    /\ flow' = NewFlow
    /\ starts' = starts + 1
    /\ \/ HasHandler(type) /\ Goto(c, "running") /\ UNCHANGED told
       \/ ~HasHandler(type) /\ Monitor(c)
    /\ UNCHANGED <<type, seen, aborted, drops, history, mishaps>>

(* The handler settles: it returns its result or throws.                      *)
Handle(c) ==
    /\ At(c, "running")
    /\ \E outcome \in {"completing", "failing"} : Goto(c, outcome)
    /\ UNCHANGED <<type, record, seen, aborted, drops, told, history, mishaps>>

-----------------------------------------------------------------------------
(* Settling the flow: completeFlow and failFlow.                              *)

Completed(p) ==
    \/ p \in Caller /\ Goto(p, "rereading")
    \/ p \in Outsider /\ Goto(p, "returned")

ReadToComplete(p) ==
    /\ At(p, "completing")
    /\ seen' = [seen EXCEPT ![p] = flow]
    /\ \/ flow.status \in {"none", "COMPLETED"} /\ Completed(p)
       \/ flow.status \in {"PENDING", "FAILED"} /\ Goto(p, "storing")
    /\ UNCHANGED <<type, record, aborted, drops, told, history, mishaps>>

StoreComplete(p) ==
    /\ At(p, "storing")
    /\ flow' = [seen[p] EXCEPT !.status = "COMPLETED", !.by = p]
    /\ spent' = spent \cup ({p} \cap worn)
    /\ Completed(p)
    /\ UNCHANGED <<type, starts, seen, aborted, drops, told, worn, known, calm, mishaps>>

(* The handler's caller answers with what the store holds, if it holds a
   result, and with its own otherwise.                                        *)
Reread(c) ==
    /\ At(c, "rereading")
    /\ Answer(c, IF flow.status = "COMPLETED" THEN flow.by ELSE c)
    /\ UNCHANGED <<type, record, seen, aborted, drops, history, mishaps>>

(* Mutant: the caller answers although its handler threw.                      *)
FailedQuietly(p) ==
    \/ p \in Caller /\ Answer(p, p)
    \/ p \in Outsider /\ Goto(p, "returned") /\ UNCHANGED told

Failed(p) ==
    \/ p \in Caller /\ Answer(p, Rejected)
    \/ p \in Outsider /\ Goto(p, "returned") /\ UNCHANGED told

ReadToFail(p) ==
    /\ At(p, "failing")
    /\ seen' = [seen EXCEPT ![p] = flow]
    /\ \/ flow.status \in {"none", "COMPLETED"} /\ Failed(p)
       \/ flow.status \in {"PENDING", "FAILED"} /\ Goto(p, "marking") /\ UNCHANGED told
    /\ UNCHANGED <<type, record, aborted, drops, history, mishaps>>

StoreFail(p) ==
    /\ At(p, "marking")
    /\ flow' = [seen[p] EXCEPT !.status = "FAILED"]
    /\ Failed(p)
    /\ UNCHANGED <<type, starts, seen, aborted, drops, history, mishaps>>

-----------------------------------------------------------------------------
(* Waiting for it: a poll of monitorFlow.  A poll that finds the record PENDING
   and young changes nothing.                                                 *)

(* Mutant: without monitorTimeout.                                            *)
NeverOverdue == FALSE
Overdue == flow.status = "PENDING" /\ flow.old

Hear(c) ==
    \/ /\ flow.status = "COMPLETED"
       /\ Answer(c, flow.by)
       /\ UNCHANGED <<drops, seen>>
    \/ /\ flow.status = "FAILED" /\ Retains(type)
       /\ Answer(c, Rejected)
       /\ UNCHANGED <<drops, seen>>
    \/ /\ ~Retains(type)
       /\ flow.status = "FAILED" \/ Overdue
       /\ Goto(c, "dropping")
       /\ drops' = [drops EXCEPT ![c] = 1]
       /\ UNCHANGED <<told, seen>>
    \/ /\ Overdue /\ Retains(type)
       /\ Goto(c, "retaining")
       /\ seen' = [seen EXCEPT ![c] = flow]
       /\ UNCHANGED <<told, drops>>

Poll(c) ==
    /\ At(c, "monitor")
    /\ \/ Hear(c)
       \/ /\ flow.status = "none"
          /\ Goto(c, "missing")
          /\ UNCHANGED <<told, drops, seen>>
    /\ UNCHANGED <<type, record, aborted, history, mishaps>>

(* A missing record is looked for once more, half a second later, and only
   once: one that is PENDING by then is polled on, and must not vanish again.  *)
PollAgain(c) ==
    /\ pc[c] \in {"missing", "rewatching"}
    /\ \/ Hear(c)
       \/ /\ flow.status = "none"
          /\ Answer(c, Rejected)
          /\ UNCHANGED <<drops, seen>>
       \/ /\ At(c, "missing")
          /\ flow.status = "PENDING" /\ ~flow.old
          /\ Goto(c, "rewatching")
          /\ UNCHANGED <<told, drops, seen>>
    /\ UNCHANGED <<type, record, aborted, history, mishaps>>

(* The delete that follows a failure, a timeout or an abort.                   *)
Drop(c) ==
    /\ drops[c] > 0
    /\ flow' = NoFlow
    /\ drops' = [drops EXCEPT ![c] = @ - 1]
    /\ Answer(c, Rejected)
    /\ UNCHANGED <<type, starts, seen, aborted, history, mishaps>>

(* A retained type keeps the timed-out flow, as FAILED, for the rest of its
   time to live.                                                              *)
Retain(c) ==
    /\ At(c, "retaining")
    /\ flow' = [seen[c] EXCEPT !.status = "FAILED"]
    /\ Answer(c, Rejected)
    /\ UNCHANGED <<type, starts, seen, aborted, drops, history, mishaps>>

(* The caller's signal fires.  A promise that is monitoring deletes the key; a
   poll whose get is under way finds the signal aborted and deletes it too.    *)
Abort(c) ==
    /\ ~aborted[c]
    /\ pc[c] \notin {"returned", "gone"}
    /\ aborted' = [aborted EXCEPT ![c] = TRUE]
    /\ \/ /\ pc[c] \in {"monitor", "missing", "rewatching"}
          /\ Goto(c, "dropping")
          /\ \E n \in {1, 2} : drops' = [drops EXCEPT ![c] = n]
       \/ /\ pc[c] \notin {"monitor", "missing", "rewatching"}
          /\ UNCHANGED <<pc, drops>>
    /\ calm' = FALSE
    /\ UNCHANGED <<type, record, seen, told, worn, spent, known, mishaps>>

-----------------------------------------------------------------------------
(* Outsiders: the callback's completeFlow, the cancel route's failFlow,
   deleteFlow, initFlow, and the invalidation of a cached token, which completes
   a PENDING flow with the fresh one and deletes a COMPLETED one.              *)

Arrive(p) ==
    /\ At(p, "idle")
    /\ \E task \in Task :
        \/ task = "complete" /\ Goto(p, "completing") /\ UNCHANGED record
        \/ task = "fail" /\ Goto(p, "failing") /\ UNCHANGED record
        \/ /\ task = "delete"
           /\ flow' = NoFlow
           /\ Goto(p, "returned")
           /\ UNCHANGED starts
        \/ /\ task = "init"
           /\ flow' = NewFlow
           /\ starts' = starts + 1
           /\ Goto(p, "returned")
        \/ /\ task = "invalidate"
           /\ \/ flow.status = "PENDING" /\ Goto(p, "completing")
              \/ flow.status = "COMPLETED" /\ Goto(p, "deleting")
              \/ flow.status \in {"none", "FAILED"} /\ Goto(p, "returned")
           /\ UNCHANGED record
    /\ calm' = FALSE
    /\ UNCHANGED <<type, seen, aborted, drops, told, worn, spent, known, mishaps>>

Delete(p) ==
    /\ At(p, "deleting")
    /\ flow' = NoFlow
    /\ Goto(p, "returned")
    /\ UNCHANGED <<type, starts, seen, aborted, drops, told, history, mishaps>>

-----------------------------------------------------------------------------
(* Time and faults.                                                           *)

(* monitorTimeout passes since a PENDING record's createdAt.                   *)
Age ==
    /\ flow.status = "PENDING" /\ ~flow.old
    /\ flow' = [flow EXCEPT !.old = TRUE]
    /\ calm' = FALSE
    /\ UNCHANGED <<type, starts, call, worn, spent, known, mishaps>>

(* The time to live, which is no shorter than monitorTimeout, runs out.        *)
Expire ==
    /\ flow.status \in {"COMPLETED", "FAILED"} \/ (flow.status = "PENDING" /\ flow.old)
    /\ flow' = NoFlow
    /\ calm' = FALSE
    /\ UNCHANGED <<type, starts, call, worn, spent, known, mishaps>>

(* A token's expires_at passes, before it is stored (it may be worn already when
   it comes) or while it is.  One that the record holds no longer is nobody's
   answer: nothing brings it back.                                            *)
Spend(p) ==
    /\ HasHandler(type) /\ p \notin worn
    /\ \/ pc[p] \in {"completing", "storing"} /\ UNCHANGED spent
       \/ flow.status = "COMPLETED" /\ flow.by = p /\ spent' = spent \cup {p}
    /\ worn' = worn \cup {p}
    /\ UNCHANGED <<type, record, call, known, calm, mishaps>>

Befalls(what) ==
    /\ what \in Mishap /\ mishaps < MaxMishaps
    /\ mishaps' = mishaps + 1

(* A call to the store throws.  A throw inside createFlowWithHandler's try goes
   to its catch, which fails the flow; any other one rejects the promise.      *)
StoreError(c) ==
    /\ Befalls("error")
    /\ pc[c] \notin {"running", "returned", "gone"}
    /\ \/ /\ pc[c] \in {"completing", "storing", "rereading"}
          /\ Goto(c, "failing") /\ UNCHANGED told
       \/ /\ pc[c] \notin {"completing", "storing", "rereading"}
          /\ Answer(c, Rejected)
    /\ drops' = [drops EXCEPT ![c] = 0]
    /\ calm' = FALSE
    /\ UNCHANGED <<type, record, seen, aborted, worn, spent, known>>

(* The process dies, and the call with it.                                     *)
Crash(p) ==
    /\ Befalls("crash")
    /\ pc[p] \notin {"idle", "returned", "gone"}
    /\ Goto(p, "gone")
    /\ drops' = [c \in Caller |-> IF c = p THEN 0 ELSE drops[c]]
    /\ UNCHANGED <<type, record, seen, aborted, told, history>>

-----------------------------------------------------------------------------

Settle(p) == ReadToComplete(p) \/ StoreComplete(p) \/ ReadToFail(p) \/ StoreFail(p)

Step(c) ==
    \/ SecondLook(c) \/ Start(c) \/ Handle(c) \/ Reread(c)
    \/ Poll(c) \/ PollAgain(c) \/ Drop(c) \/ Retain(c)

Next ==
    \/ \E c \in Caller : FirstLook(c) \/ Step(c) \/ Abort(c) \/ StoreError(c)
    \/ \E p \in Process : Settle(p) \/ Crash(p) \/ Spend(p)
    \/ \E p \in Outsider : Arrive(p) \/ Delete(p)
    \/ Age \/ Expire

Spec == Init /\ [][Next]_vars

(* Promises and timers run; a handler settles (its requests have timeouts of
   their own); the clock passes.  No outsider has to come, and no signal, fault
   or expiry has to happen.                                                   *)
Fairness ==
    /\ \A c \in Caller : WF_vars(Step(c) \/ Settle(c))
    /\ WF_vars(Age)

FairSpec == Spec /\ Fairness
-----------------------------------------------------------------------------
(* Properties.                                                                *)

(* One flight, one answer: when one PENDING record was written and neither a
   signal, a timeout, an expiry, an outsider nor the store itself stepped in,
   every caller is told the same thing: the handler's result, or that it failed;
   whoever deletes the failed record first leaves the others no other outcome
   to find.  (createFlowWithHandler, monitorFlow, the delete at 236-238.)      *)
OneFlight ==
    calm /\ starts <= 1 =>
        \A b, c \in Caller :
            told[b] # NoOne /\ told[c] # NoOne => told[b] = told[c]

(* A token that was stored and had expired when the call began is never its
   answer, though the record it was stored in is replaced by get and set, a
   quarter of a second apart, by callers that do not know of each other
   (isTokenExpired, 418-430).  No more than that: a call that finds the flow
   PENDING polls it, and monitorFlow (233-234) resolves with whatever is stored
   then, a token included that had expired by the time it was stored.          *)
SpentIsNotServed == \A c \in Caller : told[c] \notin known[c]

(* What SpentIsNotServed rests on.  Early: the calls whose result may yet be
   stored; Listening: the calls that may answer with what the store holds.     *)
Early == {"idle", "again", "creating", "running", "completing", "storing"}
Listening == {"running", "completing", "storing", "rereading",
              "monitor", "missing", "rewatching"}

KnownIsSpent == \A c \in Caller : known[c] \subseteq spent /\ c \notin known[c]
EarlyIsUnstored ==
    \A p \in Process : pc[p] \in Early =>
        p \notin spent /\ (flow.status = "COMPLETED" => flow.by # p)
ResultHasOwner == flow.status = "COMPLETED" => flow.by \in Process
ListensToOthers ==
    \A c \in Caller : pc[c] \in Listening /\ flow.status = "COMPLETED" =>
        flow.by \notin known[c]
OnlyTokensExpire == worn # {} => HasHandler(type)
IdleIsUntold == \A c \in Caller : pc[c] = "idle" => told[c] = NoOne

IInv ==
    /\ TypeOK /\ SpentIsNotServed /\ KnownIsSpent /\ EarlyIsUnstored /\ ResultHasOwner
    /\ ListensToOthers /\ OnlyTokensExpire /\ IdleIsUntold

(* What OneFlight rests on: while nothing has stepped in, only the caller that
   started the flow settles it, and the record says how far that has come.     *)
Owning == {"running", "completing", "storing", "rereading", "failing", "marking"}

NothingSteppedIn ==
    /\ ~flow.old
    /\ \A c \in Caller : ~aborted[c] /\ (pc[c] \in {"storing", "marking"} => ~seen[c].old)
    /\ \A p \in Outsider : pc[p] = "idle"
NotStarted ==
    starts = 0 => /\ flow.status = "none"
                  /\ \A c \in Caller : /\ pc[c] \in {"idle", "again", "creating", "gone"}
                                        /\ told[c] = NoOne /\ drops[c] = 0
OneOwner ==
    /\ \A b, c \in Caller : pc[b] \in Owning /\ pc[c] \in Owning => b = c
    /\ \A c \in Caller : pc[c] \in Owning =>
           flow.status = IF pc[c] = "rereading" THEN "COMPLETED" ELSE "PENDING"
OnlyFailuresVanish ==
    \A c \in Caller :
        /\ pc[c] \in {"missing", "rewatching"} \/ drops[c] > 0 =>
               flow.status \in {"FAILED", "none"}
        /\ pc[c] # "retaining"
ToldAsStored ==
    \A c \in Caller : told[c] # NoOne =>
        \/ flow.status = "COMPLETED" /\ told[c] = flow.by
        \/ flow.status \in {"FAILED", "none"} /\ told[c] = Rejected

Undisturbed ==
    NothingSteppedIn /\ NotStarted /\ OneOwner /\ OnlyFailuresVanish /\ ToldAsStored
Flight == calm /\ starts <= 1 => Undisturbed

(* Every call returns: the owner may die, the record vanish, be replaced by
   another flow or be settled by someone else, and still no caller polls for
   ever (the timeout and the missing-record branches of monitorFlow).          *)
EveryCallReturns ==
    \A c \in Caller : pc[c] # "idle" ~> pc[c] \in {"returned", "gone"}
=============================================================================
