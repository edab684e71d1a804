---------------------------- MODULE SteerPromise ----------------------------
(***************************************************************************)
(* What steering promises its users, without store, owner or races: the    *)
(* steers accepted during a turn wait in one line; the turn takes them     *)
(* from the front, the user may step out of the line, and when the turn    *)
(* is over whoever still waits is kept as a leftover, from which it can be *)
(* recovered, dropped or timed out, but not answered any more.             *)
(***************************************************************************)
EXTENDS StoreLists

CONSTANTS Steers, Turns

VARIABLES
    turn,       \* the turn that last began
    seen,       \* every steer ever accepted
    pending,    \* accepted, not settled: the line
    answered,   \* what each turn took from the line, in order
    left,       \* leftovers of earlier turns
    recovered   \* leftovers that became a turn of their own

promise == <<turn, seen, pending, answered, left, recovered>>

Init ==
    /\ turn = 0
    /\ seen = {}
    /\ pending = <<>>
    /\ answered = [t \in Turns |-> <<>>]
    /\ left = {}
    /\ recovered = {}

Accept(s) ==
    /\ s \notin seen
    /\ seen' = seen \cup {s}
    /\ pending' = Append(pending, s)
    /\ UNCHANGED <<turn, answered, left, recovered>>

Answer ==
    /\ pending # <<>>
    /\ pending' = Tail(pending)
    /\ answered' = [answered EXCEPT ![turn] = Append(@, Head(pending))]
    /\ UNCHANGED <<turn, seen, left, recovered>>

StepOut(i) ==
    /\ pending' = SubSeq(pending, 1, i - 1) \o SubSeq(pending, i + 1, Len(pending))
    /\ UNCHANGED <<turn, seen, answered, left, recovered>>

KeepPending ==
    /\ pending' = <<>>
    /\ left' = left \cup Items(pending)
    /\ UNCHANGED <<seen, answered, recovered>>

EndTurn == KeepPending /\ UNCHANGED turn
NewTurn == KeepPending /\ turn' = turn + 1 /\ turn' \in Turns

Recover(s) ==
    /\ s \in left
    /\ left' = left \ {s}
    /\ recovered' = recovered \cup {s}
    /\ UNCHANGED <<turn, seen, pending, answered>>

Forget(S) ==
    /\ left' = left \ S
    /\ UNCHANGED <<turn, seen, pending, answered, recovered>>

Next ==
    \/ \E s \in Steers : Accept(s) \/ Recover(s)
    \/ Answer
    \/ \E i \in DOMAIN pending : StepOut(i)
    \/ EndTurn \/ NewTurn
    \/ \E S \in SUBSET left : Forget(S)

Spec == Init /\ [][Next]_promise
=============================================================================
