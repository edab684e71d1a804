------------------------------ MODULE LaneOrder ------------------------------
(***************************************************************************)
(* What an ordering lane promises the deliveries that are admitted to it:  *)
(* one that waits is published only when nothing that was admitted before  *)
(* it still waits, and only what waits is published.  A delivery that is   *)
(* folded into a batch, or erased with its account, stops waiting; one     *)
(* that is dispatched for good leaves the lane, and may be admitted again. *)
(* The promise of order ends when the account is about to be deleted.      *)
(***************************************************************************)
EXTENDS Naturals

CONSTANT Delivery

VARIABLES
    waiting,  \* admitted deliveries
    ahead,    \* pairs of them: the first was admitted before the second
    lane,     \* deliveries that can be dispatched
    ordered   \* the promise of order holds

vars == <<waiting, ahead, lane, ordered>>

Init == waiting = {} /\ ahead = {} /\ lane = {} /\ ordered = TRUE

\* Two deliveries that are admitted at the same time are not ordered.
Admit(d) == /\ d \notin waiting \cup lane
            /\ waiting' = waiting \cup {d}
            /\ \E W \in SUBSET waiting : ahead' = ahead \cup (W \X {d})
            /\ UNCHANGED <<lane, ordered>>

Stop(D) == /\ waiting' = waiting \ D
           /\ ahead' = ahead \cap (waiting' \X waiting')

Publish(d) == /\ d \in waiting
              /\ ordered => \A e \in waiting : <<e, d>> \notin ahead
              /\ Stop({d})
              /\ lane' = lane \cup {d}
              /\ UNCHANGED ordered

\* The deliveries of a batch that is settled, or that is prepared to be
\* dispatched again, stop waiting together.
Absorb(D) == Stop(D) /\ UNCHANGED <<lane, ordered>>

Leave(d) == /\ d \in lane
            /\ lane' = lane \ {d}
            /\ UNCHANGED <<waiting, ahead, ordered>>

Close == ordered' = FALSE /\ UNCHANGED <<waiting, ahead, lane>>

Erase == Stop(waiting) /\ lane' = {} /\ UNCHANGED ordered

Next == \/ \E d \in Delivery : Admit(d) \/ Publish(d) \/ Leave(d)
        \/ \E D \in SUBSET Delivery : Absorb(D)
        \/ Close \/ Erase

Spec == Init /\ [][Next]_vars
==============================================================================
