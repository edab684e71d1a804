------------------------- MODULE FlowManager_proofs -------------------------
(***************************************************************************)
(* That a token which was stored and has expired is never served to a call *)
(* that begins after it, for every number of calls and outsiders, every    *)
(* type of flow and any number of mishaps: IInv (FlowManager) is           *)
(* inductive.  And that an undisturbed flow has one outcome, from Flight,  *)
(* which every step that keeps IInv keeps as well.                         *)
(***************************************************************************)
EXTENDS FlowManager, TLAPS

USE ProcessAssumption, TypeAssumption

Steps == {"idle", "again", "creating", "running", "completing",
          "storing", "rereading", "failing", "marking",
          "monitor", "missing", "rewatching", "dropping", "retaining",
          "deleting", "returned", "gone"}

\* A flow begins without a record and with idle calls.
LEMMA InitKeeps == Init => IInv
BY DEF Init, IInv, TypeOK, Record, NoFlow, Process, SpentIsNotServed, KnownIsSpent,
       EarlyIsUnstored, ResultHasOwner, ListensToOthers,
       OnlyTokensExpire, IdleIsUntold

(***************************************************************************)
(* Types.                                                                  *)
(***************************************************************************)

\* Neither the absence of a record nor a new one has a result.
LEMMA NewRecords ==
  /\ NoFlow \in Record /\ NoFlow.status = "none"
  /\ NewFlow \in Record /\ NewFlow.status = "PENDING"
BY DEF NoFlow, NewFlow, Record

\* A caller's own step keeps the type of what it writes.
LEMMA StepTypes ==
  ASSUME TypeOK, NEW c \in Caller, FirstLook(c) \/ Step(c) \/ Abort(c) \/ StoreError(c)
  PROVE  TypeOK'
<1>1. CASE FirstLook(c)
  BY <1>1 DEF TypeOK, FirstLook, Exists, Monitor, Goto, Answer, At, record, Process
<1>2. CASE SecondLook(c)
  BY <1>2 DEF TypeOK, SecondLook, Exists, Monitor, Goto, Answer, At, record, history, Process
<1>3. CASE Start(c)
  BY <1>3, NewRecords DEF TypeOK, Start, Monitor, Goto, Answer, At, history, Process
<1>4. CASE Handle(c)
  BY <1>4 DEF TypeOK, Handle, Goto, At, record, history, Process
<1>5. CASE Reread(c)
  <2>1. told' \in [Caller -> Process \cup {NoOne, Rejected}]
    BY <1>5 DEF TypeOK, Reread, Answer, Process, Record
  <2> QED BY <1>5, <2>1 DEF TypeOK, Reread, Goto, Answer, record, history, Process
<1>6. CASE Poll(c) \/ PollAgain(c)
  <2>1. told' \in [Caller -> Process \cup {NoOne, Rejected}]
    BY <1>6 DEF TypeOK, Poll, PollAgain, Hear, Answer, Process, Record
  <2>2. pc' \in [Process -> Steps]
    BY <1>6 DEF TypeOK, Poll, PollAgain, Hear, Answer, Goto, Process, Steps
  <2>3. seen' \in [Process -> Record]
    BY <1>6 DEF TypeOK, Poll, PollAgain, Hear, Answer, Process
  <2>4. drops' \in [Caller -> 0 .. 2]
    BY <1>6 DEF TypeOK, Poll, PollAgain, Hear, Answer
  <2> QED BY <1>6, <2>1, <2>2, <2>3, <2>4 DEF TypeOK, Poll, PollAgain, record, history, Steps
<1>7. CASE Drop(c)
  BY <1>7, NewRecords DEF TypeOK, Drop, Goto, Answer, history, Process
<1>8. CASE Retain(c)
  <2>1. flow' \in Record
    BY <1>8 DEF TypeOK, Retain, Record, Process
  <2> QED BY <1>8, <2>1 DEF TypeOK, Retain, Goto, Answer, history, Process
<1>9. CASE Abort(c)
  <2>1. pc' \in [Process -> Steps] /\ drops' \in [Caller -> 0 .. 2]
    BY <1>9 DEF TypeOK, Abort, Goto, Process, Steps
  <2>2. aborted' \in [Caller -> BOOLEAN] /\ calm' \in BOOLEAN
    BY <1>9 DEF TypeOK, Abort
  <2> QED BY <1>9, <2>1, <2>2 DEF TypeOK, Abort, record, Steps
<1>10. CASE StoreError(c)
  <2>1. pc' \in [Process -> Steps] /\ told' \in [Caller -> Process \cup {NoOne, Rejected}]
    BY <1>10 DEF TypeOK, StoreError, Goto, Answer, Process, Steps
  <2>2. drops' \in [Caller -> 0 .. 2]
    BY <1>10 DEF TypeOK, StoreError
  <2>3. mishaps' = mishaps + 1 /\ mishaps \in Nat
    BY <1>10 DEF TypeOK, StoreError, Befalls
  <2>4. calm' \in BOOLEAN
    BY <1>10 DEF StoreError
  <2>5. /\ type' = type /\ flow' = flow /\ starts' = starts /\ seen' = seen
        /\ aborted' = aborted /\ worn' = worn /\ spent' = spent /\ known' = known
    BY <1>10 DEF StoreError, record
  <2> QED BY <2>1, <2>2, <2>3, <2>4, <2>5 DEF TypeOK, Steps
<1> QED BY <1>1, <1>2, <1>3, <1>4, <1>5, <1>6, <1>7, <1>8, <1>9, <1>10 DEF Step

\* So does a step of a process that settles or clears the flow, or dies.
LEMMA SettleTypes ==
  ASSUME TypeOK, NEW p \in Process,
         Settle(p) \/ Crash(p) \/ (p \in Outsider /\ (Arrive(p) \/ Delete(p)))
  PROVE  TypeOK'
<1>1. CASE ReadToComplete(p)
  BY <1>1 DEF TypeOK, ReadToComplete, Completed, Goto, record, history
<1>2. CASE StoreComplete(p)
  <2>1. flow' \in Record
    BY <1>2 DEF TypeOK, StoreComplete, Record
  <2> QED BY <1>2, <2>1 DEF TypeOK, StoreComplete, Completed, Goto, history
<1>3. CASE ReadToFail(p)
  <2>1. told' \in [Caller -> Process \cup {NoOne, Rejected}]
    BY <1>3 DEF TypeOK, ReadToFail, Failed, Answer
  <2>2. pc' \in [Process -> Steps]
    BY <1>3 DEF TypeOK, ReadToFail, Failed, Answer, Goto, Steps
  <2> QED BY <1>3, <2>1, <2>2 DEF TypeOK, ReadToFail, record, history, Steps
<1>4. CASE StoreFail(p)
  <2>1. flow' \in Record
    BY <1>4 DEF TypeOK, StoreFail, Record
  <2>2. pc' \in [Process -> Steps] /\ told' \in [Caller -> Process \cup {NoOne, Rejected}]
    BY <1>4 DEF TypeOK, StoreFail, Failed, Answer, Goto, Steps
  <2> QED BY <1>4, <2>1, <2>2 DEF TypeOK, StoreFail, history, Steps
<1>5. CASE Crash(p)
  BY <1>5 DEF TypeOK, Crash, Befalls, Goto, record, history
<1>6. CASE Arrive(p)
  <2>1. flow' \in Record /\ starts' \in Nat
    BY <1>6, NewRecords DEF TypeOK, Arrive, record
  <2>2. pc' \in [Process -> Steps]
    BY <1>6 DEF TypeOK, Arrive, Goto, Steps
  <2> QED BY <1>6, <2>1, <2>2 DEF TypeOK, Arrive, Steps
<1>7. CASE Delete(p)
  BY <1>7, NewRecords DEF TypeOK, Delete, Goto, history
<1> QED BY <1>1, <1>2, <1>3, <1>4, <1>5, <1>6, <1>7 DEF Settle

\* And so does the clock.
LEMMA ClockTypes ==
  ASSUME TypeOK, Age \/ Expire \/ \E p \in Process : Spend(p)
  PROVE  TypeOK'
<1>1. flow' \in Record
  BY NewRecords DEF TypeOK, Age, Expire, Spend, Record, record
<1> QED BY <1>1 DEF TypeOK, Age, Expire, Spend, call, record

(***************************************************************************)
(* Steps.                                                                  *)
(***************************************************************************)

\* A step of process p keeps the invariant when it leaves the record alone or
\* writes one without a result, does not take p back among the calls that may
\* store, takes it among those that listen only if what they may hear is no
\* expired token that p knows of, and answers p with no such token.
LEMMA CallStep ==
  ASSUME IInv, TypeOK', NEW p \in Process,
         type' = type, worn' = worn, spent' = spent, known' = known,
         flow' = flow \/ flow'.status # "COMPLETED",
         \A q \in Process \ {p} : pc'[q] = pc[q],
         \A c \in Caller \ {p} : told'[c] = told[c],
         pc'[p] # "idle",
         pc'[p] \in Early => pc[p] \in Early,
         p \in Caller =>
            /\ told'[p] = told[p] \/ told'[p] \notin known[p]
            /\ pc'[p] \in Listening /\ flow.status = "COMPLETED" =>
                  pc[p] \in Listening \/ flow.by \notin known[p]
  PROVE  IInv'
<1>1. SpentIsNotServed' /\ KnownIsSpent' /\ IdleIsUntold'
  BY DEF IInv, SpentIsNotServed, KnownIsSpent, IdleIsUntold, Process
<1>2. EarlyIsUnstored' /\ ResultHasOwner'
  BY DEF IInv, EarlyIsUnstored, ResultHasOwner
<1>3. ListensToOthers'
  BY DEF IInv, ListensToOthers, Process
<1>4. OnlyTokensExpire'
  BY DEF IInv, OnlyTokensExpire, HasHandler
<1> QED BY <1>1, <1>2, <1>3, <1>4 DEF IInv

\* What a caller hears from the store when the record has not expired is no
\* token that had expired before.
LEMMA UnspentIsFresh ==
  ASSUME IInv, NEW c \in Caller, Exists, flow.status = "COMPLETED"
  PROVE  flow.by \notin spent /\ flow.by \notin known[c]
BY DEF IInv, TypeOK, Exists, OnlyTokensExpire, KnownIsSpent

(***************************************************************************)
(* The steps.                                                              *)
(***************************************************************************)

\* A call begins: what was stored and has expired by now it must never be told.
LEMMA FirstLookKeeps ==
  ASSUME IInv, NEW c \in Caller, FirstLook(c)
  PROVE  IInv'
<1>1. TypeOK'
  BY StepTypes DEF IInv
<1>2. /\ type' = type /\ flow' = flow /\ worn' = worn /\ spent' = spent
      /\ known' = [known EXCEPT ![c] = spent]
  BY DEF FirstLook, record
<1>3. /\ pc[c] = "idle" /\ c \notin spent /\ told[c] = NoOne
  BY DEF IInv, FirstLook, At, EarlyIsUnstored, IdleIsUntold, Early, Process
<1>4. /\ \A p \in Process \ {c} : pc'[p] = pc[p]
      /\ \A b \in Caller \ {c} : told'[b] = told[b]
      /\ pc'[c] \in {"again", "monitor", "returned"}
      /\ told'[c] \in {NoOne, Rejected}
      /\ pc'[c] = "monitor" => Exists
  BY <1>3 DEF IInv, TypeOK, FirstLook, Monitor, Goto, Answer, Process
<1>5. spent \subseteq Process /\ known \in [Caller -> SUBSET Process]
  BY DEF IInv, TypeOK
<1>6. known'[c] = spent /\ \A b \in Caller \ {c} : known'[b] = known[b]
  BY <1>2, <1>5
<1>7. SpentIsNotServed'
  <2>1. told'[c] \notin known'[c]
    BY <1>4, <1>5, <1>6
  <2> QED BY <2>1, <1>4, <1>6 DEF IInv, SpentIsNotServed
<1>8. KnownIsSpent'
  BY <1>2, <1>3, <1>6 DEF IInv, KnownIsSpent
<1>9. EarlyIsUnstored' /\ IdleIsUntold'
  BY <1>2, <1>3, <1>4 DEF IInv, EarlyIsUnstored, IdleIsUntold, Early, Process
<1>10. ResultHasOwner'
  BY <1>2 DEF IInv, ResultHasOwner
<1>11. ListensToOthers'
  <2>1. ASSUME pc'[c] \in Listening, flow.status = "COMPLETED" PROVE flow.by \notin spent
    BY <2>1, <1>4, UnspentIsFresh DEF Listening
  <2> QED BY <2>1, <1>2, <1>4, <1>6 DEF IInv, ListensToOthers, Process
<1>12. OnlyTokensExpire'
  BY <1>2 DEF IInv, OnlyTokensExpire, HasHandler
<1> QED BY <1>1, <1>7, <1>8, <1>9, <1>10, <1>11, <1>12 DEF IInv

\* The second look starts to listen only to a record that has not expired.
LEMMA SecondLookKeeps ==
  ASSUME IInv, NEW c \in Caller, SecondLook(c)
  PROVE  IInv'
<1>1. TypeOK'
  BY StepTypes DEF IInv, Step
<1>2. pc'[c] \in {"creating", "monitor", "returned"} /\ (pc'[c] = "monitor" => Exists)
  BY DEF IInv, TypeOK, SecondLook, Monitor, Goto, Answer, Process
<1>3. told'[c] = told[c] \/ told'[c] = Rejected
  BY DEF IInv, TypeOK, SecondLook, Monitor, Answer
<1>4. known[c] \subseteq Process /\ c \in Process
  BY DEF IInv, TypeOK, Process
<1>5. /\ \A p \in Process \ {c} : pc'[p] = pc[p]
      /\ \A b \in Caller \ {c} : told'[b] = told[b]
  BY DEF IInv, TypeOK, SecondLook, Monitor, Goto, Answer
<1>6. /\ type' = type /\ flow' = flow /\ worn' = worn /\ spent' = spent /\ known' = known
  BY DEF SecondLook, record, history
<1>7. pc[c] \in Early
  BY DEF SecondLook, At, Early
<1>8. told'[c] = told[c] \/ told'[c] \notin known[c]
  BY <1>3, <1>4
<1>9. pc'[c] \in Listening /\ flow.status = "COMPLETED" => flow.by \notin known[c]
  BY <1>2, UnspentIsFresh DEF Listening
<1>10. pc'[c] # "idle"
  BY <1>2
<1> QED BY ONLY <1>1, <1>4, <1>5, <1>6, <1>7, <1>8, <1>9, <1>10, CallStep, IInv

\* What the other steps of a caller have in common.
LEMMA OwnStep ==
  ASSUME IInv, NEW c \in Caller, Step(c) \/ Abort(c) \/ StoreError(c)
  PROVE  /\ type' = type /\ worn' = worn /\ spent' = spent /\ known' = known
         /\ \A p \in Process \ {c} : pc'[p] = pc[p] /\ seen'[p] = seen[p]
         /\ \A b \in Caller \ {c} : told'[b] = told[b]
         /\ c \in Process
<1>1. CASE SecondLook(c) \/ Start(c) \/ Handle(c) \/ Reread(c) \/ Drop(c) \/ Retain(c)
  BY <1>1 DEF IInv, TypeOK, SecondLook, Start, Handle, Reread, Drop, Retain, Monitor, Goto,
     Answer, history, Process
<1>2. CASE Poll(c) \/ PollAgain(c)
  BY <1>2 DEF IInv, TypeOK, Poll, PollAgain, Hear, Goto, Answer, history, Process
<1>3. CASE Abort(c) \/ StoreError(c)
  BY <1>3 DEF IInv, TypeOK, Abort, StoreError, Goto, Answer, Process
<1> QED BY <1>1, <1>2, <1>3 DEF Step

\* A caller's step after its first look keeps the invariant.
LEMMA StepKeeps ==
  ASSUME IInv, NEW c \in Caller, Step(c) \/ Abort(c) \/ StoreError(c)
  PROVE  IInv'
<1>1. TypeOK'
  BY StepTypes DEF IInv
<1>2. known[c] \subseteq Process /\ c \notin known[c] /\ Rejected \notin known[c]
  BY DEF IInv, TypeOK, KnownIsSpent
<1>4. pc[c] \in Listening /\ flow.status = "COMPLETED" => flow.by \notin known[c]
  BY DEF IInv, ListensToOthers
<1>5. seen \in [Process -> Record] /\ pc \in [Process -> Steps]
  BY DEF IInv, TypeOK, Steps
<1>6. told \in [Caller -> Process \cup {NoOne, Rejected}]
  BY DEF IInv, TypeOK
<1>7. CASE SecondLook(c)
  BY <1>7, SecondLookKeeps
<1>8. CASE Start(c)
  <2>1. flow'.status # "COMPLETED"
    BY <1>8, NewRecords DEF Start
  <2>2. pc'[c] \in {"running", "monitor", "returned"} /\ pc[c] = "creating"
    BY <1>8, <1>5, OwnStep DEF Start, Monitor, Goto, Answer, At
  <2>3. told'[c] = told[c] \/ told'[c] = Rejected
    BY <1>8, <1>6 DEF Start, Monitor, Answer
  <2>4. ListensToOthers'
    BY <2>1 DEF ListensToOthers
  <2>5. EarlyIsUnstored' /\ ResultHasOwner'
    BY <2>1, <2>2, OwnStep DEF IInv, EarlyIsUnstored, ResultHasOwner, Early
  <2>6. SpentIsNotServed' /\ KnownIsSpent' /\ IdleIsUntold'
    BY <2>2, <2>3, <1>2, OwnStep DEF IInv, SpentIsNotServed, KnownIsSpent, IdleIsUntold, Process
  <2>7. OnlyTokensExpire'
    BY OwnStep DEF IInv, OnlyTokensExpire, HasHandler
  <2> QED BY <1>1, <2>4, <2>5, <2>6, <2>7 DEF IInv
<1>9. CASE Handle(c)
  <2>1. /\ pc[c] = "running" /\ pc'[c] \in {"completing", "failing"}
        /\ flow' = flow /\ told' = told
    BY <1>9, <1>5, OwnStep DEF Handle, Goto, At, record
  <2> QED BY <2>1, <1>1, OwnStep, CallStep DEF Early, Listening
<1>10. CASE Reread(c)
  <2>1. /\ pc[c] = "rereading" /\ pc'[c] = "returned"
        /\ flow' = flow
    BY <1>10, <1>5, OwnStep DEF Reread, Answer, Goto, At, record
  <2>2. told'[c] \notin known[c]
    BY <1>10, <1>2, <1>4, <1>6 DEF Reread, Answer, At, Listening
  <2> QED BY <2>1, <2>2, <1>1, OwnStep, CallStep DEF Early, Listening
<1>11. CASE Poll(c) \/ PollAgain(c)
  <2>1. /\ pc[c] \in Listening
        /\ pc'[c] \in {"missing", "rewatching", "returned", "dropping", "retaining"}
        /\ flow' = flow
    BY <1>11, <1>5, OwnStep DEF Poll, PollAgain, Hear, Answer, Goto, At, record, Listening
  <2>2. told'[c] = told[c] \/ told'[c] \notin known[c]
    BY <1>11, <1>2, <1>4, <1>6, <2>1 DEF Poll, PollAgain, Hear, Answer
  <2> QED BY <2>1, <2>2, <1>1, OwnStep, CallStep DEF Early
<1>12. CASE Drop(c) \/ Retain(c)
  <2>1. flow'.status # "COMPLETED"
    BY <1>12, <1>5, NewRecords, OwnStep DEF Drop, Retain, Record
  <2>2. pc'[c] = "returned" /\ told'[c] = Rejected
    BY <1>12, <1>5, <1>6, OwnStep DEF Drop, Retain, Answer, Goto
  <2> QED BY <2>1, <2>2, <1>1, <1>2, OwnStep, CallStep DEF Early, Listening
<1>13. CASE Abort(c)
  <2>1. flow' = flow /\ told' = told
    BY <1>13 DEF Abort, record
  <2>2. pc'[c] = "dropping" \/ pc' = pc
    BY <1>13, <1>5, OwnStep DEF Abort, Goto
  <2>3. CASE pc'[c] = "dropping"
    BY <2>1, <2>3, <1>1, OwnStep, CallStep DEF Early, Listening
  <2>4. CASE pc' = pc
    BY <2>1, <2>4, <1>1, OwnStep DEF IInv, SpentIsNotServed, KnownIsSpent, EarlyIsUnstored,
       ResultHasOwner, ListensToOthers, OnlyTokensExpire, IdleIsUntold,
       HasHandler
  <2> QED BY <2>2, <2>3, <2>4
<1>14. CASE StoreError(c)
  <2>1. flow' = flow
    BY <1>14 DEF StoreError, record
  <2>2. pc'[c] \in {"failing", "returned"}
    BY <1>14, <1>5, OwnStep DEF StoreError, Goto, Answer
  <2>3. told'[c] = told[c] \/ told'[c] = Rejected
    BY <1>14, <1>6 DEF StoreError, Answer
  <2> QED BY <2>1, <2>2, <2>3, <1>1, <1>2, OwnStep, CallStep DEF Early, Listening
<1> QED BY <1>7, <1>8, <1>9, <1>10, <1>11, <1>12, <1>13, <1>14 DEF Step

\* A result is stored for the first time: nobody has known it to be expired.
LEMMA StoreCompleteKeeps ==
  ASSUME IInv, NEW p \in Process, StoreComplete(p)
  PROVE  IInv'
<1>1. TypeOK'
  BY SettleTypes DEF IInv, Settle
<1>2. /\ pc[p] = "storing" /\ type' = type /\ worn' = worn /\ known' = known
      /\ spent' = spent \cup ({p} \cap worn) /\ told' = told
      /\ flow' = [seen[p] EXCEPT !.status = "COMPLETED", !.by = p]
  BY DEF StoreComplete, At, history
<1>3. pc'[p] \in {"rereading", "returned"} /\ \A q \in Process \ {p} : pc'[q] = pc[q]
  BY DEF IInv, TypeOK, StoreComplete, Completed, Goto
<1>4. seen[p] \in Record
  BY DEF IInv, TypeOK
<1>5. flow'.status = "COMPLETED" /\ flow'.by = p
  BY <1>2, <1>4 DEF Record
<1>6. p \notin spent
  BY <1>2 DEF IInv, EarlyIsUnstored, Early
<1>7. SpentIsNotServed' /\ KnownIsSpent' /\ IdleIsUntold'
  BY <1>2, <1>3 DEF IInv, SpentIsNotServed, KnownIsSpent, IdleIsUntold, Process
<1>8. EarlyIsUnstored' /\ ResultHasOwner'
  BY <1>2, <1>3, <1>5, <1>6
     DEF IInv, EarlyIsUnstored, ResultHasOwner, Early
<1>9. ListensToOthers'
  BY <1>2, <1>5, <1>6 DEF IInv, KnownIsSpent, ListensToOthers
<1>10. OnlyTokensExpire'
  BY <1>2 DEF IInv, OnlyTokensExpire, HasHandler
<1> QED BY <1>1, <1>7, <1>8, <1>9, <1>10 DEF IInv

\* The other steps of a process that settles or clears the flow, or dies.
LEMMA SettleKeeps ==
  ASSUME IInv, NEW p \in Process,
         Settle(p) \/ Crash(p) \/ (p \in Outsider /\ (Arrive(p) \/ Delete(p)))
  PROVE  IInv'
<1>1. TypeOK'
  BY SettleTypes DEF IInv
<1>2. ASSUME p \in Caller PROVE known[p] \subseteq Process /\ Rejected \notin known[p]
  BY <1>2 DEF IInv, TypeOK
<1>4. seen \in [Process -> Record] /\ pc \in [Process -> Steps]
  BY DEF IInv, TypeOK, Steps
<1>5. told \in [Caller -> Process \cup {NoOne, Rejected}]
  BY DEF IInv, TypeOK
<1>6. CASE StoreComplete(p)
  BY <1>6, StoreCompleteKeeps
<1>7. CASE ReadToComplete(p)
  <2>1. /\ pc[p] = "completing" /\ pc'[p] \in {"rereading", "returned", "storing"}
        /\ \A q \in Process \ {p} : pc'[q] = pc[q]
    BY <1>7, <1>4 DEF ReadToComplete, Completed, Goto, At
  <2>2. /\ type' = type /\ flow' = flow /\ worn' = worn /\ spent' = spent /\ known' = known
        /\ told' = told
    BY <1>7, <1>4 DEF ReadToComplete, record, history
  <2> QED BY <2>1, <2>2, <1>1, CallStep DEF Early, Listening
<1>8. CASE ReadToFail(p) \/ StoreFail(p)
  <2>1. /\ pc'[p] \in {"marking", "returned"}
        /\ \A q \in Process \ {p} : pc'[q] = pc[q]
    BY <1>8, <1>4 DEF ReadToFail, StoreFail, Failed, Answer, Goto
  <2>2. /\ \A c \in Caller \ {p} : told'[c] = told[c]
        /\ p \in Caller => told'[p] = told[p] \/ told'[p] = Rejected
    BY <1>8, <1>5 DEF ReadToFail, StoreFail, Failed, Answer
  <2>3. /\ type' = type /\ worn' = worn /\ spent' = spent /\ known' = known
    BY <1>8, <1>4 DEF ReadToFail, StoreFail, history
  <2>4. flow' = flow \/ flow'.status # "COMPLETED"
    BY <1>8, <1>4 DEF ReadToFail, StoreFail, record, Record
  <2> QED BY <2>1, <2>2, <2>3, <2>4, <1>1, <1>2, CallStep DEF Early, Listening
<1>9. CASE Crash(p)
  <2>1. pc'[p] = "gone" /\ \A q \in Process \ {p} : pc'[q] = pc[q]
    BY <1>9, <1>4 DEF Crash, Goto
  <2>2. /\ type' = type /\ flow' = flow /\ worn' = worn /\ spent' = spent /\ known' = known
        /\ told' = told
    BY <1>9 DEF Crash, record, history
  <2> QED BY <2>1, <2>2, <1>1, CallStep DEF Early, Listening
<1>10. CASE p \in Outsider /\ (Arrive(p) \/ Delete(p))
  <2>1. /\ pc'[p] \in {"completing", "failing", "deleting", "returned"}
        /\ \A q \in Process \ {p} : pc'[q] = pc[q]
        /\ pc[p] = "idle" \/ pc'[p] = "returned"
    BY <1>10, <1>4 DEF Arrive, Delete, Goto, At
  <2>2. /\ type' = type /\ worn' = worn /\ spent' = spent /\ known' = known /\ told' = told
    BY <1>10 DEF Arrive, Delete, history
  <2>3. flow' = flow \/ flow'.status # "COMPLETED"
    BY <1>10, NewRecords DEF Arrive, Delete, record
  <2>4. p \notin Caller
    BY <1>10
  <2> QED BY <2>1, <2>2, <2>3, <2>4, <1>1, CallStep DEF Early
<1> QED BY <1>6, <1>7, <1>8, <1>9, <1>10 DEF Settle

\* A record that grows old or vanishes holds no result any more.
LEMMA ClockKeeps ==
  ASSUME IInv, Age \/ Expire
  PROVE  IInv'
<1>1. TypeOK'
  BY ClockTypes DEF IInv
<1>2. /\ type' = type /\ pc' = pc /\ told' = told /\ known' = known
      /\ worn' = worn /\ spent' = spent
  BY DEF Age, Expire, call
<1>3. flow'.status # "COMPLETED"
  BY NewRecords DEF Age, Expire, IInv, TypeOK, Record
<1> QED BY <1>1, <1>2, <1>3 DEF IInv, SpentIsNotServed, KnownIsSpent, EarlyIsUnstored,
   ResultHasOwner, ListensToOthers, OnlyTokensExpire, IdleIsUntold, HasHandler

\* A token that expires is known to have expired only by calls to come.
LEMMA SpendKeeps ==
  ASSUME IInv, NEW p \in Process, Spend(p)
  PROVE  IInv'
<1>1. TypeOK'
  BY ClockTypes DEF IInv
<1>2. /\ type' = type /\ flow' = flow /\ pc' = pc /\ told' = told /\ known' = known
      /\ HasHandler(type) /\ spent \subseteq spent'
      /\ spent' = spent \/ (flow.status = "COMPLETED" /\ flow.by = p /\ spent' = spent \cup {p})
  BY DEF Spend, call, record
<1>3. SpentIsNotServed' /\ KnownIsSpent' /\ IdleIsUntold' /\ OnlyTokensExpire'
  BY <1>2 DEF IInv, SpentIsNotServed, KnownIsSpent, IdleIsUntold, OnlyTokensExpire, HasHandler
<1>4. EarlyIsUnstored' /\ ResultHasOwner' /\ ListensToOthers'
  BY <1>2 DEF IInv, EarlyIsUnstored, ResultHasOwner, ListensToOthers
<1> QED BY <1>1, <1>3, <1>4 DEF IInv

(***************************************************************************)
(* The theorems.                                                           *)
(***************************************************************************)

\* Every step of the flow keeps the invariant.
LEMMA NextKeeps == IInv /\ [Next]_vars => IInv'
<1> SUFFICES ASSUME IInv, [Next]_vars PROVE IInv'
  OBVIOUS
<1>1. ASSUME NEW c \in Caller, FirstLook(c) PROVE IInv'
  BY <1>1, FirstLookKeeps
<1>2. ASSUME NEW c \in Caller, Step(c) \/ Abort(c) \/ StoreError(c) PROVE IInv'
  BY <1>2, StepKeeps
<1>3. ASSUME NEW p \in Process, Settle(p) \/ Crash(p) PROVE IInv'
  BY <1>3, SettleKeeps
<1>4. ASSUME NEW p \in Outsider, Arrive(p) \/ Delete(p) PROVE IInv'
  BY <1>4, SettleKeeps DEF Process
<1>5. CASE Age \/ Expire
  BY <1>5, ClockKeeps
<1>7. ASSUME NEW p \in Process, Spend(p) PROVE IInv'
  BY <1>7, SpendKeeps
<1>6. CASE UNCHANGED vars
  BY <1>6 DEF vars, record, call, history, IInv, TypeOK, SpentIsNotServed, KnownIsSpent,
     EarlyIsUnstored, ResultHasOwner, ListensToOthers, OnlyTokensExpire,
     IdleIsUntold, HasHandler
<1> QED BY <1>1, <1>2, <1>3, <1>4, <1>5, <1>6, <1>7 DEF Next

\* The inductive invariant holds, whoever calls, settles, aborts or dies.
THEOREM Invariance == Spec => []IInv
BY InitKeeps, NextKeeps, PTL DEF Spec

\* A token that was stored and had expired when a call began is never its answer.
THEOREM ExpiredTokenIsNeverServed == Spec => []SpentIsNotServed
<1>1. IInv => SpentIsNotServed
  BY DEF IInv
<1> QED BY <1>1, Invariance, PTL

(***************************************************************************)
(* One flight, one answer.                                                 *)
(***************************************************************************)

\* A flow begins undisturbed.
LEMMA FlightInit == Init => Flight
BY DEF Init, Flight, Undisturbed, NothingSteppedIn, NotStarted, OneOwner, OnlyFailuresVanish,
       ToldAsStored, Owning, NoFlow, Process

\* Nothing has stepped in after a step only if nothing had before it.
LEMMA CalmBefore ==
  ASSUME TypeOK, Flight, Next, calm', starts' <= 1
  PROVE  Undisturbed /\ calm /\ starts <= 1
<1>1. calm' => calm
  BY DEF Next, FirstLook, Step, SecondLook, Start, Handle, Reread, Poll, PollAgain, Drop, Retain,
     Abort, StoreError, Settle, ReadToComplete, StoreComplete, ReadToFail, StoreFail, Crash,
     Arrive, Delete, Age, Expire, Spend, history, TypeOK
<1>2. starts' = starts \/ starts' = starts + 1
  BY DEF Next, FirstLook, Step, SecondLook, Start, Handle, Reread, Poll, PollAgain, Drop, Retain,
     Abort, StoreError, Settle, ReadToComplete, StoreComplete, ReadToFail, StoreFail, Crash,
     Arrive, Delete, Age, Expire, Spend, record
<1>3. starts <= 1
  BY <1>2 DEF TypeOK
<1> QED BY <1>1, <1>3 DEF Flight, Undisturbed

\* A caller's looks and the start of the flow.
LEMMA LooksKeepCalm ==
  ASSUME TypeOK, Undisturbed, starts' <= 1, NEW c \in Caller,
         FirstLook(c) \/ SecondLook(c) \/ Start(c)
  PROVE  Undisturbed'
<1>1. /\ pc \in [Process -> Steps] /\ told \in [Caller -> Process \cup {NoOne, Rejected}]
      /\ starts \in Nat /\ c \in Process /\ ~aborted[c]
  BY DEF TypeOK, Steps, Process, Undisturbed, NothingSteppedIn
<1>2. /\ aborted' = aborted /\ drops' = drops /\ seen' = seen /\ told' = told
      /\ type' = type
      /\ \A p \in Process \ {c} : pc'[p] = pc[p]
  BY <1>1 DEF FirstLook, SecondLook, Start, Monitor, Answer, Goto
<1>3. CASE FirstLook(c) \/ SecondLook(c)
  <2>1. flow' = flow /\ starts' = starts /\ pc[c] \in {"idle", "again"}
    BY <1>3 DEF FirstLook, SecondLook, At, record
  <2>2. \/ pc'[c] = "monitor" /\ flow.status # "none"
        \/ pc'[c] \in {"again", "creating"}
    BY <1>1, <1>3 DEF FirstLook, SecondLook, Exists, Monitor, Goto
  <2>3. NothingSteppedIn' /\ NotStarted'
    BY <1>1, <1>2, <2>1, <2>2 DEF Undisturbed, NothingSteppedIn, NotStarted, Process
  <2>4. OneOwner' /\ OnlyFailuresVanish' /\ ToldAsStored'
    BY <1>1, <1>2, <2>1, <2>2
       DEF Undisturbed, OneOwner, OnlyFailuresVanish, ToldAsStored, Owning, Process
  <2> QED BY <2>3, <2>4 DEF Undisturbed
<1>4. CASE Start(c)
  <2>1. /\ starts' = starts + 1 /\ flow'.status = "PENDING" /\ ~flow'.old
        /\ pc'[c] \in {"running", "monitor"}
    BY <1>1, <1>4 DEF Start, NewFlow, NoFlow, Monitor, Goto
  <2>2. starts = 0 /\ starts' # 0
    BY <1>1, <2>1
  <2>3. NothingSteppedIn' /\ NotStarted'
    BY <1>1, <1>2, <2>1, <2>2 DEF Undisturbed, NothingSteppedIn, NotStarted, Process
  <2>4. OneOwner' /\ OnlyFailuresVanish' /\ ToldAsStored'
    BY <1>1, <1>2, <2>1, <2>2
       DEF Undisturbed, NotStarted, OneOwner, OnlyFailuresVanish, ToldAsStored, Owning, Process
  <2> QED BY <2>3, <2>4 DEF Undisturbed
<1> QED BY <1>3, <1>4

\* The owner's own steps.
LEMMA OwnerKeepsCalm ==
  ASSUME TypeOK, ResultHasOwner, Undisturbed, NEW c \in Caller, Handle(c) \/ Reread(c) \/ Settle(c)
  PROVE  Undisturbed'
<1>1. /\ pc \in [Process -> Steps] /\ told \in [Caller -> Process \cup {NoOne, Rejected}]
      /\ seen \in [Process -> Record] /\ flow \in Record
      /\ starts \in Nat /\ c \in Process /\ c \notin Outsider
  BY DEF TypeOK, Steps, Process
<1>2. /\ pc[c] \in Owning /\ starts' = starts /\ aborted' = aborted /\ drops' = drops
      /\ \A p \in Process \ {c} : pc'[p] = pc[p] /\ seen'[p] = seen[p]
      /\ \A b \in Caller \ {c} : told'[b] = told[b]
  BY <1>1 DEF Handle, Reread, Settle, ReadToComplete, StoreComplete, ReadToFail, StoreFail,
     Completed, Failed, Answer, Goto, At, Owning, record
<1>3. /\ flow.status = IF pc[c] = "rereading" THEN "COMPLETED" ELSE "PENDING"
      /\ \A b \in Caller \ {c} : pc[b] \notin Owning
      /\ starts # 0 /\ ~flow.old
  BY <1>2 DEF Undisturbed, OneOwner, NotStarted, NothingSteppedIn, Owning
<1>4. \A b \in Caller : /\ pc[b] \notin {"missing", "rewatching"} /\ ~(drops[b] > 0)
                        /\ (pc[c] # "rereading" => told[b] = NoOne)
  <2>1. /\ flow.status \in {"PENDING", "COMPLETED"}
        /\ (pc[c] # "rereading" => flow.status = "PENDING")
    BY <1>3
  <2>2. \A b \in Caller : pc[b] \notin {"missing", "rewatching"} /\ ~(drops[b] > 0)
    BY <2>1 DEF Undisturbed, OnlyFailuresVanish
  <2>3. ASSUME pc[c] # "rereading", NEW b \in Caller PROVE told[b] = NoOne
    BY <2>1, <2>3 DEF Undisturbed, ToldAsStored
  <2> QED BY <2>2, <2>3
<1>5. NotStarted'
  BY <1>2, <1>3 DEF NotStarted
<1>6. CASE Handle(c)
  <2>1. flow' = flow /\ seen' = seen /\ told' = told /\ pc'[c] \in {"completing", "failing"}
        /\ pc[c] = "running"
    BY <1>1, <1>6 DEF Handle, Goto, At, record
  <2>2. NothingSteppedIn'
    BY <1>1, <1>2, <2>1 DEF Undisturbed, NothingSteppedIn, Process
  <2>3. OneOwner' /\ OnlyFailuresVanish' /\ ToldAsStored'
    BY <1>1, <1>2, <1>3, <1>4, <2>1
       DEF Undisturbed, OneOwner, OnlyFailuresVanish, ToldAsStored, Owning, Process
  <2> QED BY <1>5, <2>2, <2>3 DEF Undisturbed
<1>7. CASE Reread(c)
  <2>1. /\ flow' = flow /\ seen' = seen /\ pc'[c] = "returned" /\ told'[c] = flow.by
        /\ pc[c] = "rereading"
    BY <1>1, <1>3, <1>7 DEF Reread, Answer, Goto, At, record
  <2>2. NothingSteppedIn'
    BY <1>1, <1>2, <2>1 DEF Undisturbed, NothingSteppedIn, Process
  <2>3. OneOwner' /\ OnlyFailuresVanish' /\ ToldAsStored'
    BY <1>1, <1>2, <1>3, <1>4, <2>1
       DEF Undisturbed, OneOwner, OnlyFailuresVanish, ToldAsStored, Owning, Process
  <2> QED BY <1>5, <2>2, <2>3 DEF Undisturbed
<1>8. CASE ReadToComplete(c) \/ ReadToFail(c)
  <2>1. /\ flow' = flow /\ seen'[c] = flow /\ told' = told
        /\ pc'[c] \in {"storing", "marking"} /\ pc[c] \in {"completing", "failing"}
    BY <1>1, <1>3, <1>8 DEF ReadToComplete, ReadToFail, Completed, Failed, Goto, At, record
  <2>2. NothingSteppedIn'
    BY <1>1, <1>2, <1>3, <2>1 DEF Undisturbed, NothingSteppedIn, Process
  <2>3. OneOwner' /\ OnlyFailuresVanish' /\ ToldAsStored'
    BY <1>1, <1>2, <1>3, <1>4, <2>1
       DEF Undisturbed, OneOwner, OnlyFailuresVanish, ToldAsStored, Owning, Process
  <2> QED BY <1>5, <2>2, <2>3 DEF Undisturbed
<1>9. CASE StoreComplete(c)
  <2>1. /\ pc[c] = "storing" /\ pc'[c] = "rereading" /\ seen' = seen /\ told' = told
        /\ flow' = [seen[c] EXCEPT !.status = "COMPLETED", !.by = c]
    BY <1>1, <1>9 DEF StoreComplete, Completed, Goto, At
  <2>2. flow'.status = "COMPLETED" /\ flow'.old = seen[c].old
    BY <1>1, <2>1 DEF Record
  <2>3. NothingSteppedIn'
    BY <1>1, <1>2, <2>1, <2>2 DEF Undisturbed, NothingSteppedIn, Process
  <2>4. OneOwner' /\ OnlyFailuresVanish' /\ ToldAsStored'
    BY <1>1, <1>2, <1>3, <1>4, <2>1, <2>2
       DEF Undisturbed, OneOwner, OnlyFailuresVanish, ToldAsStored, Owning, Process
  <2> QED BY <1>5, <2>3, <2>4 DEF Undisturbed
<1>10. CASE StoreFail(c)
  <2>1. /\ pc[c] = "marking" /\ pc'[c] = "returned" /\ seen' = seen /\ told'[c] = Rejected
        /\ flow' = [seen[c] EXCEPT !.status = "FAILED"]
    BY <1>1, <1>10 DEF StoreFail, Failed, Answer, Goto, At
  <2>2. flow'.status = "FAILED" /\ flow'.old = seen[c].old
    BY <1>1, <2>1 DEF Record
  <2>3. NothingSteppedIn'
    BY <1>1, <1>2, <2>1, <2>2 DEF Undisturbed, NothingSteppedIn, Process
  <2>4. OneOwner' /\ OnlyFailuresVanish' /\ ToldAsStored'
    BY <1>1, <1>2, <1>3, <1>4, <2>1, <2>2
       DEF Undisturbed, OneOwner, OnlyFailuresVanish, ToldAsStored, Owning, Process
  <2> QED BY <1>5, <2>3, <2>4 DEF Undisturbed
<1> QED BY <1>6, <1>7, <1>8, <1>9, <1>10 DEF Settle

\* The polls, the delete after a failure, and the death of a call.
LEMMA PollsKeepCalm ==
  ASSUME TypeOK, Undisturbed, NEW c \in Caller, Poll(c) \/ PollAgain(c) \/ Drop(c) \/ Crash(c)
  PROVE  Undisturbed'
<1>1. /\ pc \in [Process -> Steps] /\ told \in [Caller -> Process \cup {NoOne, Rejected}]
      /\ drops \in [Caller -> 0 .. 2] /\ seen \in [Process -> Record]
      /\ c \in Process /\ c \notin Outsider /\ ~flow.old
  BY DEF TypeOK, Steps, Process, Undisturbed, NothingSteppedIn
<1>2. /\ starts' = starts /\ aborted' = aborted
      /\ \A p \in Process \ {c} : pc'[p] = pc[p]
      /\ \A b \in Caller \ {c} : told'[b] = told[b] /\ drops'[b] = drops[b]
  BY <1>1 DEF Poll, PollAgain, Hear, Drop, Crash, Answer, Goto, record
<1>3. CASE Poll(c) \/ PollAgain(c)
  <2>1. /\ pc[c] \in {"monitor", "missing", "rewatching"} /\ flow' = flow
        /\ seen' = seen
    BY <1>1, <1>3 DEF Poll, PollAgain, Hear, Overdue, At, record
  <2>2. \/ pc'[c] = "returned" /\ flow.status = "COMPLETED" /\ told'[c] = flow.by
           /\ drops' = drops
        \/ pc'[c] = "returned" /\ flow.status \in {"FAILED", "none"} /\ told'[c] = Rejected
           /\ drops' = drops
        \/ pc'[c] = "dropping" /\ flow.status = "FAILED" /\ told' = told
        \/ pc'[c] = "missing" /\ flow.status = "none" /\ told' = told /\ drops' = drops
        \/ pc'[c] = "rewatching" /\ pc[c] = "missing" /\ told' = told /\ drops' = drops
    BY <1>1, <1>3 DEF Poll, PollAgain, Hear, Overdue, Answer, Goto, At
  <2>3. NothingSteppedIn' /\ NotStarted'
    BY <1>1, <1>2, <2>1, <2>2 DEF Undisturbed, NothingSteppedIn, NotStarted, Process
  <2>4. OneOwner' /\ ToldAsStored'
    BY <1>1, <1>2, <2>1, <2>2 DEF Undisturbed, OneOwner, ToldAsStored, Owning, Process
  <2>5. OnlyFailuresVanish'
    BY <1>1, <1>2, <2>1, <2>2 DEF Undisturbed, OnlyFailuresVanish, Process
  <2> QED BY <2>3, <2>4, <2>5 DEF Undisturbed
<1>4. CASE Drop(c)
  <2>1. /\ drops[c] > 0 /\ flow' = NoFlow /\ seen' = seen
        /\ pc'[c] = "returned" /\ told'[c] = Rejected
    BY <1>1, <1>4 DEF Drop, Answer, Goto
  <2>2. flow.status \in {"FAILED", "none"} /\ starts # 0
    BY <2>1 DEF Undisturbed, OnlyFailuresVanish, NotStarted
  <2>3. \A b \in Caller : pc[b] \notin Owning
    BY <2>2 DEF Undisturbed, OneOwner, Owning
  <2>4. flow'.status = "none" /\ ~flow'.old
    BY <2>1 DEF NoFlow
  <2>5. NothingSteppedIn' /\ NotStarted'
    BY <1>1, <1>2, <2>1, <2>2, <2>4 DEF Undisturbed, NothingSteppedIn, NotStarted, Process
  <2>6. OneOwner' /\ OnlyFailuresVanish' /\ ToldAsStored'
    BY <1>1, <1>2, <2>1, <2>2, <2>3, <2>4
       DEF Undisturbed, OneOwner, OnlyFailuresVanish, ToldAsStored, Owning, Process
  <2> QED BY <2>5, <2>6 DEF Undisturbed
<1>5. CASE Crash(c)
  <2>1. /\ pc'[c] = "gone" /\ flow' = flow /\ seen' = seen /\ told' = told /\ drops'[c] = 0
    BY <1>1, <1>5 DEF Crash, Goto, record
  <2>2. NothingSteppedIn' /\ NotStarted'
    BY <1>1, <1>2, <2>1 DEF Undisturbed, NothingSteppedIn, NotStarted, Process
  <2>3. OneOwner' /\ OnlyFailuresVanish' /\ ToldAsStored'
    BY <1>1, <1>2, <2>1
       DEF Undisturbed, OneOwner, OnlyFailuresVanish, ToldAsStored, Owning, Process
  <2> QED BY <2>2, <2>3 DEF Undisturbed
<1> QED BY <1>3, <1>4, <1>5

\* Every step of an undisturbed flow leaves what it rests on in place.
LEMMA FlightKeeps == IInv /\ Flight /\ [Next]_vars => Flight'
<1> SUFFICES ASSUME IInv, Flight, Next, calm', starts' <= 1 PROVE Undisturbed'
  BY DEF Flight, Undisturbed, NothingSteppedIn, NotStarted, OneOwner, OnlyFailuresVanish,
     ToldAsStored, vars, record, call, history
<1>1. TypeOK /\ ResultHasOwner
  BY DEF IInv
<1>2. Undisturbed
  BY <1>1, CalmBefore
<1>3. \A p \in Outsider : pc[p] = "idle"
  BY <1>2 DEF Undisturbed, NothingSteppedIn
<1>4. ASSUME NEW c \in Caller, FirstLook(c) \/ SecondLook(c) \/ Start(c) PROVE Undisturbed'
  BY <1>1, <1>2, <1>4, LooksKeepCalm
<1>5. ASSUME NEW c \in Caller, Handle(c) \/ Reread(c) \/ Settle(c) PROVE Undisturbed'
  BY <1>1, <1>2, <1>5, OwnerKeepsCalm
<1>6. ASSUME NEW c \in Caller, Poll(c) \/ PollAgain(c) \/ Drop(c) \/ Crash(c) PROVE Undisturbed'
  BY <1>1, <1>2, <1>6, PollsKeepCalm
<1>7. ASSUME NEW c \in Caller, Retain(c) PROVE FALSE
  BY <1>2, <1>7 DEF Undisturbed, OnlyFailuresVanish, Retain, At
<1>8. ASSUME NEW c \in Caller, Abort(c) \/ StoreError(c) PROVE FALSE
  BY <1>8 DEF Abort, StoreError
<1>9. ASSUME NEW p \in Outsider, Settle(p) \/ Crash(p) \/ Arrive(p) \/ Delete(p) PROVE FALSE
  BY <1>3, <1>9 DEF Settle, ReadToComplete, StoreComplete, ReadToFail, StoreFail, Crash,
     Arrive, Delete, At
<1>10. CASE Age \/ Expire
  BY <1>10 DEF Age, Expire
<1>11. ASSUME NEW p \in Process, Spend(p) PROVE Undisturbed'
  BY <1>2, <1>11 DEF Spend, call, record, Undisturbed, NothingSteppedIn, NotStarted, OneOwner,
     OnlyFailuresVanish, ToldAsStored
<1> QED BY <1>4, <1>5, <1>6, <1>7, <1>8, <1>9, <1>10, <1>11 DEF Next, Step, Process

\* An undisturbed flow has one outcome: every caller that is told anything is
\* told the same result, or that it failed.
THEOREM OneFlightOneAnswer == Spec => []OneFlight
<1>1. Flight => OneFlight
  BY DEF Flight, Undisturbed, ToldAsStored, OneFlight
<1> QED BY <1>1, FlightInit, FlightKeeps, Invariance, PTL DEF Spec
=============================================================================
