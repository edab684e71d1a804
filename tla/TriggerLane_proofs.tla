-------------------------- MODULE TriggerLane_proofs --------------------------
(***************************************************************************)
(* The ordering lane of the triggers, for any number of deliveries,        *)
(* helpers and mishaps, with batches, requeues and the deletion of the     *)
(* account: the line is the staging rows, and whoever the lane is reserved *)
(* for, and whoever a helper has chosen or holds a copy of, is over or     *)
(* next (LineInv).  So the lane implements LaneOrder, and who may still    *)
(* publish holds the lane's own reservation.  A settlement that is on its  *)
(* way is of a past generation, or of its root's outcome (BatchInv), so    *)
(* receipts have the outcome of their root.                                *)
(***************************************************************************)
EXTENDS TriggerLane, StoreLists_proofs

\* The type invariant in four parts: rows, lane, purge and helpers.
RowTypes ==
    /\ status \in [Delivery -> Statuses] /\ line \in Seq(Delivery)
    /\ ahead \subseteq Delivery \X Delivery
    /\ seq \in [Delivery -> Nat] /\ gen \in [Delivery -> 0..MaxMishaps]
    /\ members \in [Delivery -> SUBSET Delivery]
    /\ rootOf \in [Delivery -> Delivery \cup {None}]
    /\ rootGen \in [Delivery -> 0..MaxMishaps]
    /\ receipts \subseteq Delivery /\ cleaning \subseteq Delivery
    /\ shut \subseteq Delivery
LaneTypes ==
    /\ value \in Nat /\ publisherGen \in 0..MaxMishaps
    /\ publisher \in Delivery \cup {None} /\ tail \in Delivery \cup {None}
    /\ cleanup \in Delivery \cup {None, Abandoned}
PurgeTypes == marker \in BOOLEAN /\ fenced \subseteq Delivery /\ account \in Accounts
LocalTypes ==
    /\ pc \in [Helper -> Steps] /\ target \in [Helper -> Delivery \cup {None}]
    /\ held \in [Helper -> Copy] /\ job \in [Helper -> Job]

\* The type invariant by the parts that the actions change together.
LEMMA TypeParts ==
  TypeOK <=> /\ RowTypes /\ LaneTypes /\ PurgeTypes /\ LocalTypes
             /\ mishaps \in 0..MaxMishaps
BY DEF TypeOK, RowTypes, LaneTypes, PurgeTypes, LocalTypes

\* The same of the next state.
LEMMA TypePartsNext ==
  ASSUME RowTypes', LaneTypes', PurgeTypes', LocalTypes', mishaps' \in 0..MaxMishaps
  PROVE  TypeOK'
BY DEF TypeOK, RowTypes, LaneTypes, PurgeTypes, LocalTypes

\* No delivery has the name of none; generations begin with 0.
LEMMA Names ==
  /\ None \notin Delivery /\ Delivery \subseteq Nat /\ 0 \in 0..MaxMishaps
  /\ 0..MaxMishaps \subseteq Nat
BY BoundsAssumption DEF None, Delivery

\* What a helper that has nothing in hand has in hand.
LEMMA EmptyHands == NoLane \in Copy /\ NoJob \in Job /\ NoJob.id = None
<1>1. NoLane \in Copy
  BY Names DEF NoLane, Copy
<1>2. "absent" \in Statuses
  BY DEF Statuses
<1> QED BY <1>1, <1>2, Names DEF NoJob, Job

\* The types of what LineInv speaks of, by name.
LEMMA LineFacts ==
  ASSUME LineInv
  PROVE  /\ RowTypes /\ LaneTypes /\ PurgeTypes /\ LocalTypes /\ mishaps \in 0..MaxMishaps
         /\ LineIsStaging /\ LineIsInOrder /\ RowsAreCounted /\ PurgeSound /\ ReservedIsNext
         /\ \A h \in Helper : ChosenIsNext(h) /\ CopyIsCurrent(h) /\ HasOutcome(h)
         /\ \A h \in Helper : /\ held[h].publisher \in Delivery \cup {None}
                              /\ held[h].gen \in 0..MaxMishaps /\ held[h].value \in Nat
                              /\ held[h].tail \in Delivery \cup {None}
                              /\ job[h].id \in Delivery \cup {None}
                              /\ job[h].gen \in 0..MaxMishaps /\ job[h].as \in Statuses
                              /\ job[h].stamp \in Delivery \cup {None}
<1>1. RowTypes /\ LaneTypes /\ PurgeTypes /\ LocalTypes /\ mishaps \in 0..MaxMishaps
  BY TypeParts DEF LineInv
<1>2. \A h \in Helper : held[h] \in Copy /\ job[h] \in Job
  BY <1>1 DEF LocalTypes
<1> QED BY <1>1, <1>2 DEF LineInv, LineSound, HelperSound, Copy, Job

\* A generation that waits is not over.
LEMMA OverOrWaits ==
  ASSUME LineInv, NEW d \in Delivery, NEW g \in 0..MaxMishaps, Over(d, g)
  PROVE  ~Waits(d, g)
<1>1. gen[d] \in Nat /\ g \in Nat /\ PurgeSound
  BY LineFacts, Names DEF RowTypes
<1> QED BY <1>1 DEF Over, Waits, PurgeSound

(***************************************************************************)
(* Moving a helper on.                                                     *)
(***************************************************************************)

\* Every helper but h stands still.
Stands(k) == /\ pc'[k] = pc[k] /\ target'[k] = target[k]
             /\ held'[k] = held[k] /\ job'[k] = job[k]
Others(h) == \A k \in Helper \ {h} : Stands(k)

\* A helper that is done has nothing in hand.
LEMMA FinishMoves ==
  ASSUME LocalTypes, NEW h \in Helper, Finish(h)
  PROVE  LocalTypes' /\ Others(h) /\ pc'[h] = "idle"
BY EmptyHands DEF LocalTypes, Finish, Goto, Others, Stands, Steps

\* One that starts over has its delivery.
LEMMA AgainMoves ==
  ASSUME LocalTypes, NEW h \in Helper, Again(h)
  PROVE  /\ LocalTypes' /\ Others(h) /\ pc'[h] \in {"idle", "row"}
         /\ pc'[h] = "row" => target'[h] # None
<1>1. CASE target[h] = None
  BY <1>1, FinishMoves DEF Again
<1>2. CASE target[h] # None
  BY <1>2, EmptyHands DEF LocalTypes, Again, Goto, Others, Stands, Steps
<1> QED BY <1>1, <1>2

\* One that goes on keeps what it has.
LEMMA StayMoves ==
  ASSUME LocalTypes, NEW h \in Helper, NEW s \in Steps, Stay(h, s)
  PROVE  /\ LocalTypes' /\ Others(h) /\ pc'[h] = s
         /\ target' = target /\ held' = held /\ job' = job
BY DEF LocalTypes, Stay, Goto, Others, Stands

\* One that takes up a row has that row in hand.
LEMMA RowMoves ==
  ASSUME LocalTypes, NEW h \in Helper, NEW d \in Delivery, Goto(h, "row"),
         target' = [target EXCEPT ![h] = d], UNCHANGED <<held, job>>
  PROVE  LocalTypes' /\ Others(h) /\ pc'[h] = "row" /\ target'[h] # None
BY Names DEF LocalTypes, Goto, Others, Stands, Steps

\* One that has found something out keeps it in mind.
LEMMA JobMoves ==
  ASSUME LocalTypes, NEW h \in Helper, NEW s \in Steps, Goto(h, s), NEW j \in Job,
         job' = [job EXCEPT ![h] = j], UNCHANGED <<target, held>>
  PROVE  /\ LocalTypes' /\ Others(h) /\ pc'[h] = s /\ job'[h] = j
         /\ target' = target /\ held' = held
BY DEF LocalTypes, Goto, Others, Stands

\* One that copies the lane has the copy.
LEMMA CopyMoves ==
  ASSUME LocalTypes, NEW h \in Helper, NEW s \in Steps, Goto(h, s), NEW c \in Copy,
         held' = [held EXCEPT ![h] = c], UNCHANGED <<target, job>>
  PROVE  /\ LocalTypes' /\ Others(h) /\ pc'[h] = s /\ held'[h] = c
         /\ target' = target /\ job' = job
BY DEF LocalTypes, Goto, Others, Stands

\* One that looks for a root remembers one it found, if it found any.
LEMMA RootMoves ==
  ASSUME LocalTypes, RowTypes, NEW h \in Helper, NEW s \in Steps, Goto(h, s),
         NEW R \in SUBSET Delivery, WithRoot(h, R), UNCHANGED <<target, held>>
  PROVE  /\ LocalTypes' /\ Others(h) /\ pc'[h] = s /\ target' = target /\ held' = held
         /\ job'[h].id \in R \cup {None} /\ (job'[h].id = None => R = {})
         /\ job'[h].id # None => job'[h].gen = gen[job'[h].id]
<1>1. CASE R = {} /\ job' = [job EXCEPT ![h] = NoJob]
  BY <1>1, JobMoves, EmptyHands
<1>2. ASSUME NEW r \in R, job' = [job EXCEPT ![h] = [NoJob EXCEPT !.id = r, !.gen = gen[r]]]
      PROVE  /\ LocalTypes' /\ Others(h) /\ pc'[h] = s /\ target' = target /\ held' = held
             /\ job'[h].id = r /\ job'[h].gen = gen[r]
  <2>1. PICK j : j = [NoJob EXCEPT !.id = r, !.gen = gen[r]]
    OBVIOUS
  <2>2. gen[r] \in 0..MaxMishaps
    BY DEF RowTypes
  <2>3. j \in Job /\ j.id = r /\ j.gen = gen[r]
    BY <2>1, <2>2, EmptyHands DEF Job, NoJob
  <2> QED BY <1>2, <2>1, <2>3, JobMoves
<1> QED BY <1>1, <1>2, Names DEF WithRoot

\* A copy of the lane.
LEMMA ReservationIsCopy ==
  ASSUME LaneTypes
  PROVE  /\ Reservation \in Copy /\ Reservation.value = value
         /\ Reservation.publisher = publisher /\ Reservation.gen = publisherGen
         /\ Reservation.tail = IF publisher \in Coalescing THEN tail ELSE None
         /\ Request \in Copy /\ Request.tail = tail
BY Names DEF LaneTypes, Reservation, Request, NoLane, Copy

\* And of the lane of the next state.
LEMMA ReservationIsCopyNext ==
  ASSUME LaneTypes'
  PROVE  /\ Reservation' \in Copy /\ Reservation'.value = value'
         /\ Reservation'.publisher = publisher' /\ Reservation'.gen = publisherGen'
         /\ Reservation'.tail = IF publisher' \in Coalescing THEN tail' ELSE None
BY Names DEF LaneTypes, Reservation, NoLane, Copy

(***************************************************************************)
(* What a step must keep so that the line is sound after it.               *)
(***************************************************************************)

\* What is over stays over, and what is next stays next until it is over.
OverStays == \A d \in Delivery, g \in 0..MaxMishaps : Over(d, g) => Over(d, g)'
NextStays == \A d \in Delivery, g \in 0..MaxMishaps :
                IsNext(d, g) => Over(d, g)' \/ IsNext(d, g)'

\* The reservation and the tail are as they were.
LaneStands == /\ value' = value /\ publisher' = publisher
              /\ publisherGen' = publisherGen /\ tail' = tail

\* A helper moves on soundly or stands still.
HelpersGoOn == \A k \in Helper : HelperSound(k)' \/ Stands(k)

\* Such a step leaves every copy and every choice what it was.
LEMMA StepIsSound ==
  ASSUME LineInv, TypeOK', LineIsStaging', LineIsInOrder', RowsAreCounted', PurgeSound',
         OverStays, NextStays, account' = "active" => account = "active",
         \/ LaneStands
         \/ /\ ReservedIsNext'
            /\ account' = "active" => publisher = None \/ Over(publisher, publisherGen),
         HelpersGoOn
  PROVE  LineInv'
<1>1. ReservedIsNext'
  BY LineFacts DEF LaneTypes, LaneStands, ReservedIsNext, OverStays, NextStays
<1>2. ASSUME NEW k \in Helper, Stands(k)
      PROVE  HelperSound(k)'
  <2>1. ChosenIsNext(k)'
    BY <1>2, LineFacts DEF ChosenIsNext, Stands, OverStays, NextStays
  <2>2. PICK d, g : d = held[k].publisher /\ g = held[k].gen
    OBVIOUS
  <2>3. held'[k] = held[k] /\ pc'[k] = pc[k] /\ target'[k] = target[k]
    BY <1>2 DEF Stands
  <2>4. d \in Delivery \cup {None} /\ g \in 0..MaxMishaps /\ CopyIsCurrent(k)
    BY <2>2, LineFacts
  <2>5. ASSUME pc[k] \in Holding
        PROVE  /\ d # None
               /\ \/ Over(d, g)'
                  \/ IsNext(d, g)' /\ (account' = "active" => held[k] = Reservation')
    <3>1. d # None
          /\ (Over(d, g) \/ (IsNext(d, g) /\ (account = "active" => held[k] = Reservation)))
      BY <2>2, <2>4, <2>5 DEF CopyIsCurrent
    <3>2. CASE Over(d, g)
      BY <2>4, <3>1, <3>2 DEF OverStays
    <3>3. CASE IsNext(d, g) /\ account' # "active"
      BY <2>4, <3>1, <3>3 DEF NextStays
    <3>4. CASE IsNext(d, g) /\ account' = "active" /\ ~Over(d, g)
      <4>1. held[k] = Reservation
        BY <3>1, <3>4
      <4>2. d = publisher /\ g = publisherGen
        BY <2>2, <4>1, LineFacts, ReservationIsCopy
      <4>3. LaneStands
        BY <3>1, <3>4, <4>2
      <4>4. Reservation' = Reservation
        BY <4>3 DEF LaneStands, Reservation
      <4> QED BY <2>4, <3>1, <3>4, <4>1, <4>4 DEF NextStays
    <3> QED BY <3>1, <3>2, <3>3, <3>4
  <2>6. ASSUME pc[k] \in Behind \/ (pc[k] = "abandon" /\ account' = "active")
        PROVE  Over(d, g)'
    <3>1. Over(d, g) /\ d # None
      BY <2>2, <2>4, <2>6 DEF CopyIsCurrent, Holding
    <3> QED BY <2>4, <3>1 DEF OverStays
  <2>7. CopyIsCurrent(k)'
    BY <2>2, <2>3, <2>4, <2>5, <2>6 DEF CopyIsCurrent
  <2>8. HasOutcome(k)'
    BY <1>2, LineFacts DEF HasOutcome, Stands
  <2> QED BY <2>1, <2>7, <2>8 DEF HelperSound
<1>3. \A k \in Helper : HelperSound(k)'
  BY <1>2 DEF HelpersGoOn
<1> QED BY <1>1, <1>3 DEF LineInv, LineSound

\* Where a helper holds neither a choice nor a copy, nothing is asked of it.
LEMMA ResetIsSound ==
  ASSUME NEW h \in Helper, pc'[h] \notin {"acquire", "settle", "mark"} \cup Holding,
         pc'[h] \in {"row", "marker", "prepare"} => target'[h] # None
  PROVE  HelperSound(h)'
BY DEF HelperSound, ChosenIsNext, CopyIsCurrent, HasOutcome, Behind, Holding

(***************************************************************************)
(* Steps that change neither what the rows say nor the reservation.        *)
(***************************************************************************)

\* What order, batches and places speak of is as it was.
Same == /\ UNCHANGED <<status, line, ahead, seq, gen, members, rootOf, rootGen, shut>>
        /\ UNCHANGED <<marker, account>> /\ LaneStands

\* So whoever was over or next is.
LEMMA SameLooks ==
  ASSUME Same
  PROVE  /\ \A d, g : (Over(d, g)' <=> Over(d, g)) /\ (IsNext(d, g)' <=> IsNext(d, g))
         /\ Reservation' = Reservation
BY DEF Same, LaneStands, Over, Erased, IsNext, Unpreceded, Waits, Reservation

\* A step that writes neither rows nor lane leaves all this as it is.
LEMMA NothingWritten ==
  ASSUME LineInv, UNCHANGED <<row, lane, purge, mishaps>>
  PROVE  /\ Same /\ RowTypes' /\ LaneTypes' /\ PurgeTypes' /\ mishaps' \in 0..MaxMishaps
         /\ mishaps' >= mishaps
<1>1. RowTypes /\ LaneTypes /\ PurgeTypes /\ mishaps \in 0..MaxMishaps
  BY LineFacts
<1>2. RowTypes' /\ LaneTypes' /\ PurgeTypes'
  BY <1>1 DEF row, lane, purge, RowTypes, LaneTypes, PurgeTypes
<1>3. mishaps' = mishaps /\ mishaps >= mishaps
  BY <1>1, BoundsAssumption
<1> QED BY <1>1, <1>2, <1>3 DEF row, lane, purge, Same, LaneStands

\* A step after which each helper has moved on soundly or stands.
LEMMA SameStep ==
  ASSUME LineInv, Same, TypeOK', mishaps' >= mishaps, HelpersGoOn
  PROVE  LineInv'
<1>1. RowTypes /\ mishaps \in 0..MaxMishaps /\ mishaps' \in 0..MaxMishaps
  BY LineFacts DEF TypeOK
<1>2. RowsAreCounted'
  BY <1>1, LineFacts, Names DEF RowTypes, RowsAreCounted, Same
<1>3. LineIsStaging' /\ LineIsInOrder' /\ PurgeSound'
  BY LineFacts DEF LineIsStaging, LineIsInOrder, Staging, PurgeSound, Erased, Same
<1>4. OverStays /\ NextStays
  BY SameLooks DEF OverStays, NextStays
<1> QED BY <1>2, <1>3, <1>4, StepIsSound DEF Same

\* A step of one helper that writes nothing.
LEMMA QuietStep ==
  ASSUME LineInv, NEW h \in Helper, UNCHANGED <<row, lane, purge, mishaps>>,
         LocalTypes', Others(h), HelperSound(h)'
  PROVE  LineInv'
<1>1. HelpersGoOn
  BY DEF HelpersGoOn, Others
<1> QED BY <1>1, NothingWritten, TypePartsNext, SameStep

\* What a copy says of a reservation is true of it as long as it is not written to.
LEMMA CopyMovesOn ==
  ASSUME LineInv, NEW h \in Helper, Same, pc[h] \in Holding, pc'[h] \in Holding,
         held' = held,
         pc'[h] \in Behind \/ (pc'[h] = "abandon" /\ account = "active") =>
            pc[h] \in Behind \/ Over(held[h].publisher, held[h].gen)
  PROVE  HelperSound(h)'
<1>1. CopyIsCurrent(h)
  BY LineFacts
<1>2. CopyIsCurrent(h)'
  BY <1>1, SameLooks DEF CopyIsCurrent, Same, Holding, Finishing, Behind
<1> QED BY <1>2 DEF HelperSound, ChosenIsNext, HasOutcome, Holding, Finishing, Behind

\* A step of a helper that writes nothing and leaves it with nothing in hand.
LEMMA IdleStep ==
  ASSUME LineInv, NEW h \in Helper, UNCHANGED <<row, lane, purge, mishaps>>,
         Finish(h) \/ Again(h)
  PROVE  LineInv' /\ Others(h)
<1>1. /\ LocalTypes' /\ Others(h) /\ pc'[h] \in {"idle", "row"}
      /\ pc'[h] = "row" => target'[h] # None
  BY LineFacts, FinishMoves, AgainMoves
<1>2. HelperSound(h)'
  BY <1>1, ResetIsSound DEF Holding, Finishing, Behind
<1> QED BY <1>1, <1>2, QuietStep

\* The looks at the row and at the marker.
LEMMA LooksKeep ==
  ASSUME LineInv, NEW h \in Helper, ReadRow(h) \/ ReadMarker(h)
  PROVE  LineInv' /\ Others(h)
<1>1. UNCHANGED <<row, lane, purge, mishaps>>
  BY DEF ReadRow, ReadMarker
<1>2. LocalTypes /\ RowTypes /\ target[h] # None /\ target[h] \in Delivery
  BY LineFacts DEF LocalTypes, CopyIsCurrent, ReadRow, ReadMarker
<1>3. CASE Finish(h)
  BY <1>1, <1>3, IdleStep
<1>4. CASE ReadRow(h) /\ ~Finish(h)
  <2>1. PICK g : g = IF members[target[h]] = {} THEN 0 ELSE gen[target[h]]
    OBVIOUS
  <2>2. g \in 0..MaxMishaps
    BY <1>2, <2>1, Names DEF RowTypes
  <2>3. /\ Goto(h, "marker") /\ job' = [job EXCEPT ![h].gen = g]
        /\ UNCHANGED <<target, held>>
    BY <1>4, <2>1 DEF ReadRow
  <2>4. [job[h] EXCEPT !.gen = g] \in Job
    BY <1>2, <2>2 DEF LocalTypes, Job
  <2>5. job' = [job EXCEPT ![h] = [job[h] EXCEPT !.gen = g]]
    BY <1>2, <2>3 DEF LocalTypes
  <2>6. /\ LocalTypes' /\ Others(h) /\ pc'[h] = "marker" /\ target' = target
    BY <1>2, <2>3, <2>4, <2>5, JobMoves DEF Steps
  <2>7. HelperSound(h)'
    BY <1>2, <2>6, ResetIsSound DEF Holding, Finishing, Behind
  <2> QED BY <1>1, <2>6, <2>7, QuietStep
<1>5. CASE ReadMarker(h) /\ ~Finish(h)
  <2>1. PICK s \in {"lane", "prepare"} : Stay(h, s)
    BY <1>5 DEF ReadMarker
  <2>2. LocalTypes' /\ Others(h) /\ pc'[h] = s /\ target' = target
    BY <1>2, <2>1, StayMoves DEF Steps
  <2>3. HelperSound(h)'
    BY <1>2, <2>2, ResetIsSound DEF Holding, Finishing, Behind
  <2> QED BY <1>1, <2>2, <2>3, QuietStep
<1> QED BY <1>3, <1>4, <1>5

\* A look at the lane copies the reservation it finds.
LEMMA CopiesKeep ==
  ASSUME LineInv, NEW h \in Helper, ReadLane(h) \/ TakeLane(h)
  PROVE  /\ LineInv' /\ Others(h) /\ held'[h] = Reservation
         /\ pc'[h] = IF publisher = None THEN "next" ELSE "laneMarker"
<1>1. UNCHANGED <<row, lane, purge, mishaps>>
  BY DEF ReadLane, TakeLane
<1>2. LocalTypes /\ LaneTypes /\ ReservedIsNext
  BY LineFacts
<1>3. PICK s \in {"laneMarker", "next"} :
         /\ Goto(h, s) /\ s = IF publisher = None THEN "next" ELSE "laneMarker"
  BY DEF ReadLane, TakeLane
<1>4. held' = [held EXCEPT ![h] = Reservation] /\ UNCHANGED <<target, job>>
  BY DEF ReadLane, TakeLane
<1>5. LocalTypes' /\ Others(h) /\ held'[h] = Reservation /\ pc'[h] = s
  BY <1>2, <1>3, <1>4, CopyMoves, ReservationIsCopy DEF Steps
<1>6. CASE publisher = None
  <2>1. HelperSound(h)'
    BY <1>3, <1>5, <1>6, ResetIsSound DEF Holding, Finishing, Behind
  <2> QED BY <1>1, <1>3, <1>5, <2>1, QuietStep
<1>7. CASE publisher # None
  <2>1. held'[h].publisher = publisher /\ held'[h].gen = publisherGen
    BY <1>2, <1>5, ReservationIsCopy
  <2>2. Over(publisher, publisherGen) \/ IsNext(publisher, publisherGen)
    BY <1>2, <1>7 DEF ReservedIsNext
  <2>3. /\ Over(publisher, publisherGen)' \/ IsNext(publisher, publisherGen)'
        /\ Reservation' = Reservation /\ publisher' = publisher
    BY <1>1, <2>2, NothingWritten, SameLooks DEF Same, LaneStands
  <2>4. CopyIsCurrent(h)'
    <3>1. publisherGen' = publisherGen
      BY <1>1, NothingWritten DEF Same, LaneStands
    <3> QED BY <1>3, <1>5, <1>7, <2>1, <2>3, <3>1 DEF CopyIsCurrent, Holding, Finishing, Behind
  <2>5. HelperSound(h)'
    BY <1>3, <1>5, <1>7, <2>4 DEF HelperSound, ChosenIsNext, HasOutcome
  <2> QED BY <1>1, <1>3, <1>5, <2>5, QuietStep
<1> QED BY <1>6, <1>7

\* The looks at the marker.
LEMMA SecondLooksKeep ==
  ASSUME LineInv, NEW h \in Helper, ReadLaneMarker(h) \/ Recheck(h)
  PROVE  /\ LineInv' /\ Others(h)
         /\ \/ pc'[h] = "idle"
            \/ pc'[h] = "abandon" /\ marker /\ held' = held
            \/ pc'[h] = "find" /\ ~marker /\ held' = held
<1>1. UNCHANGED <<row, lane, purge, mishaps>>
  BY DEF ReadLaneMarker, Recheck
<1>2. LocalTypes /\ PurgeSound
  BY LineFacts
<1>3. Same
  BY <1>1, NothingWritten
<1>4. CASE Finish(h)
  BY <1>1, <1>2, <1>4, IdleStep, FinishMoves
<1>5. CASE Stay(h, "find") /\ ~marker
  <2>1. LocalTypes' /\ Others(h) /\ pc'[h] = "find" /\ held' = held
    BY <1>2, <1>5, StayMoves DEF Steps
  <2>2. pc[h] \in Holding /\ pc'[h] \in Holding /\ pc'[h] \notin Behind
    BY <2>1 DEF ReadLaneMarker, Recheck, Holding, Finishing, Behind
  <2>3. HelperSound(h)'
    BY <1>3, <2>1, <2>2, CopyMovesOn
  <2> QED BY <1>1, <1>5, <2>1, <2>3, QuietStep
<1>6. CASE Recheck(h) /\ marker
  <2>1. /\ Goto(h, "abandon") /\ target' = [target EXCEPT ![h] = None]
        /\ UNCHANGED <<held, job>> /\ pc[h] = "recheck"
    BY <1>6 DEF Recheck
  <2>2. LocalTypes' /\ Others(h) /\ pc'[h] = "abandon" /\ held' = held
    BY <1>2, <2>1, Names DEF LocalTypes, Goto, Others, Stands, Steps
  <2>3. account # "active"
    BY <1>2, <1>6 DEF PurgeSound
  <2>4. HelperSound(h)'
    BY <1>3, <2>1, <2>2, <2>3, CopyMovesOn DEF Holding, Finishing, Behind
  <2> QED BY <1>1, <1>6, <2>2, <2>4, QuietStep
<1> QED BY <1>4, <1>5, <1>6 DEF ReadLaneMarker, Recheck

\* The looks for a root.
LEMMA RootLooksKeep ==
  ASSUME LineInv, NEW h \in Helper, FindRoot(h) \/ FindAgain(h)
  PROVE  /\ LineInv' /\ Others(h) /\ held' = held
         /\ pc'[h] \in {"join", "publish"} /\ job'[h].id \in Delivery \cup {None}
<1>1. UNCHANGED <<row, lane, purge, mishaps>>
  BY DEF FindRoot, FindAgain
<1>2. LocalTypes /\ RowTypes
  BY LineFacts
<1>3. PICK s \in {"join", "publish"}, R \in SUBSET Delivery :
         Goto(h, s) /\ WithRoot(h, R) /\ UNCHANGED <<target, held>>
  <2>1. RootOf(held[h].publisher) \in SUBSET Delivery /\ {} \in SUBSET Delivery
    BY DEF RootOf
  <2>2. CASE FindAgain(h)
    BY <2>1, <2>2 DEF FindAgain
  <2>3. CASE FindRoot(h)
    BY <2>1, <2>3 DEF FindRoot
  <2> QED BY <2>2, <2>3
<1>4. /\ LocalTypes' /\ Others(h) /\ pc'[h] = s /\ held' = held
      /\ job'[h].id \in R \cup {None}
  BY <1>2, <1>3, RootMoves DEF Steps
<1>5. pc[h] \in Holding /\ pc'[h] \in Holding /\ pc'[h] \notin Behind \cup {"abandon"}
  BY <1>4 DEF FindRoot, FindAgain, Holding, Finishing, Behind
<1>6. HelperSound(h)'
  BY <1>1, <1>4, <1>5, NothingWritten, CopyMovesOn
<1> QED BY <1>1, <1>4, <1>6, QuietStep

\* The look at the line chooses its head.
LEMMA ChoiceKeeps ==
  ASSUME LineInv, NEW h \in Helper, ReadNext(h)
  PROVE  LineInv' /\ Others(h) /\ pc'[h] \in {"idle", "row", "acquire"}
<1>1. UNCHANGED <<row, lane, purge, mishaps>>
  BY DEF ReadNext
<1>2. LocalTypes /\ RowTypes /\ LineIsStaging /\ LineIsInOrder
  BY LineFacts
<1>3. CASE line = <<>> /\ Again(h)
  BY <1>1, <1>2, <1>3, IdleStep, AgainMoves
<1>4. CASE line # <<>>
  <2>1. PICK d : d = Head(line)
    OBVIOUS
  <2>2. d \in Delivery /\ d # None /\ status[d] = "staging"
    BY <1>2, <1>4, <2>1, Names, TailItems DEF RowTypes, LineIsStaging, Staging
  <2>3. Goto(h, "acquire") /\ UNCHANGED <<target, held>>
    BY <1>4 DEF ReadNext
  <2>4. gen[d] \in 0..MaxMishaps /\ job[h] \in Job
    BY <1>2, <2>2 DEF RowTypes, LocalTypes
  <2>5. PICK j : j = [job[h] EXCEPT !.id = d, !.gen = gen[d]]
    OBVIOUS
  <2>6. j \in Job /\ j.id = d /\ j.gen = gen[d]
    BY <2>2, <2>4, <2>5 DEF Job
  <2>7. job' = [job EXCEPT ![h] = j]
    BY <1>2, <1>4, <2>1, <2>5 DEF ReadNext, LocalTypes
  <2>8. LocalTypes' /\ Others(h) /\ pc'[h] = "acquire" /\ job'[h] = j
    BY <1>2, <2>3, <2>6, <2>7, JobMoves DEF Steps
  <2>9. IsNext(d, gen[d])
    <3>1. ASSUME account = "active", NEW e \in Delivery, <<e, d>> \in ahead
          PROVE  FALSE
      <4>1. e \in Items(line) /\ 1 \in 1..Len(line) /\ d = line[1]
        BY <1>2, <1>4, <2>1, <3>1, HeadTailProperties, LenProperties, EmptySeq
           DEF RowTypes, LineIsStaging, LineIsInOrder
      <4>2. PICK n \in 1..Len(line) : e = line[n]
        BY <1>2, <4>1, ItemsType DEF RowTypes, Items
      <4>3. 1 <= n
        BY <1>2, LenProperties DEF RowTypes
      <4> QED BY <1>2, <3>1, <4>1, <4>2, <4>3 DEF LineIsInOrder
    <3> QED BY <2>2, <3>1 DEF IsNext, Waits, Unpreceded
  <2>10. ChosenIsNext(h)'
    <3>1. IsNext(d, gen[d])' /\ gen' = gen
      BY <1>1, <2>9, NothingWritten, SameLooks DEF Same
    <3> QED BY <2>2, <2>6, <2>8, <3>1 DEF ChosenIsNext
  <2>11. HelperSound(h)'
    BY <2>8, <2>10 DEF HelperSound, CopyIsCurrent, HasOutcome, Holding, Finishing, Behind
  <2> QED BY <1>1, <2>8, <2>11, QuietStep
<1> QED BY <1>3, <1>4 DEF ReadNext

\* Who finds the row published goes on behind the publication.
LEMMA FailureKeeps ==
  ASSUME LineInv, NEW h \in Helper,
         (Publish(h) /\ ~IsStaging(h)) \/ ReadCurrent(h) \/ ReadFixed(h)
  PROVE  /\ LineInv' /\ Others(h) /\ held' = held /\ job'[h].id = job[h].id
         /\ pc'[h] \in {"current", "fix", "release", "abandon"}
         /\ pc'[h] = "fix" => job[h].id # None
         /\ pc'[h] = "abandon" => ~Committed(h)
<1>1. UNCHANGED <<row, lane, purge, mishaps>>
  BY DEF Publish, ReadCurrent, ReadFixed, IsStaging, row
<1>2. LocalTypes /\ RowTypes /\ CopyIsCurrent(h)
  BY LineFacts
<1>3. Over(held[h].publisher, held[h].gen)
  BY <1>2 DEF CopyIsCurrent, IsNext, Waits, IsStaging, Publish, ReadCurrent, ReadFixed, Holding,
     Finishing, Behind
<1>4. pc[h] \in Holding
  BY DEF Publish, ReadCurrent, ReadFixed, Holding, Finishing, Behind
<1>5. /\ LocalTypes' /\ Others(h) /\ held' = held /\ job'[h].id = job[h].id
      /\ pc'[h] \in {"current", "fix", "release", "abandon"}
      /\ pc'[h] = "fix" => job[h].id # None
      /\ pc'[h] = "abandon" => ~Committed(h)
  <2>1. CASE \E s \in {"current", "release", "abandon"} :
                Stay(h, s) /\ (s = "abandon" => ~Committed(h))
    BY <1>2, <2>1, StayMoves DEF Steps
  <2>2. CASE ReadCurrent(h) /\ Goto(h, "fix")
    <3>1. PICK j : j = [job[h] EXCEPT !.as = status[held[h].publisher]]
      OBVIOUS
    <3>2. /\ job' = [job EXCEPT ![h].as = status[held[h].publisher]] /\ job[h].id # None
          /\ UNCHANGED <<target, held>>
      <4>1. "fix" # "release" /\ "fix" # "abandon"
        OBVIOUS
      <4>2. pc'[h] = "fix"
        BY <1>2, <2>2 DEF Goto, LocalTypes
      <4> QED BY <1>2, <2>2, <4>1, <4>2, StayMoves DEF ReadCurrent, Steps
    <3>3. status[held[h].publisher] \in Statuses
      <4>1. held[h].publisher # None
        BY <1>2, <1>4 DEF CopyIsCurrent
      <4> QED BY <1>2, <4>1, LineFacts DEF RowTypes
    <3>4. j \in Job /\ j.id = job[h].id
      BY <1>2, <3>1, <3>3 DEF LocalTypes, Job
    <3>5. job' = [job EXCEPT ![h] = j]
      BY <1>2, <3>1, <3>2 DEF LocalTypes
    <3> QED BY <1>2, <2>2, <3>2, <3>4, <3>5, JobMoves DEF Steps
  <2> QED BY <2>1, <2>2 DEF Publish, ReadCurrent, ReadFixed, IsStaging
<1>6. pc'[h] \in Holding
  BY <1>5 DEF Holding, Behind
<1>7. HelperSound(h)'
  BY <1>1, <1>3, <1>4, <1>5, <1>6, NothingWritten, CopyMovesOn
<1> QED BY <1>1, <1>5, <1>7, QuietStep

\* Steps after which a helper is idle, or takes up a row that waits.
LEMMA EndsKeep ==
  ASSUME LineInv, NEW h \in Helper,
         \/ Release(h) /\ ~Fence(h)
         \/ Abandon(h) /\ ~Fence(h)
         \/ Acquire(h) /\ publisher # None
         \/ DeleteLane(h) /\ ~(/\ tail = held[h].tail /\ cleanup = held[h].cleanup
                               /\ publisher = None)
         \/ \E d \in Delivery : TakeRow(h, d)
  PROVE  LineInv' /\ Others(h) /\ UNCHANGED <<row, lane, purge, mishaps>>
<1>1. UNCHANGED <<row, lane, purge, mishaps>>
  BY DEF Release, Abandon, Acquire, DeleteLane, TakeRow
<1>2. CASE Finish(h) \/ Again(h)
  BY <1>1, <1>2, IdleStep
<1>3. CASE \E d \in Delivery : TakeRow(h, d)
  <2>1. PICK d \in Delivery : TakeRow(h, d)
    BY <1>3
  <2>2. LocalTypes' /\ Others(h) /\ pc'[h] = "row" /\ target'[h] # None
    BY <2>1, LineFacts, RowMoves DEF TakeRow
  <2>3. HelperSound(h)'
    BY <2>2, ResetIsSound DEF Holding, Finishing, Behind
  <2> QED BY <1>1, <2>2, <2>3, QuietStep
<1> QED BY <1>1, <1>2, <1>3 DEF Release, Abandon, Acquire, DeleteLane

\* A helper stops.
LEMMA CrashKeeps ==
  ASSUME LineInv, NEW h \in Helper, Crash(h)
  PROVE  LineInv' /\ Others(h) /\ pc'[h] = "idle" /\ Same
<1>1. /\ Finish(h) /\ UNCHANGED <<row, lane, purge>> /\ mishaps < MaxMishaps
      /\ mishaps' = mishaps + 1
  BY DEF Crash, Befalls
<1>2. LocalTypes /\ RowTypes /\ LaneTypes /\ PurgeTypes /\ mishaps \in 0..MaxMishaps
  BY LineFacts
<1>3. RowTypes' /\ LaneTypes' /\ PurgeTypes' /\ Same
  BY <1>1, <1>2 DEF row, lane, purge, RowTypes, LaneTypes, PurgeTypes, Same, LaneStands
<1>4. mishaps' \in 0..MaxMishaps /\ mishaps' >= mishaps
  BY <1>1, <1>2, BoundsAssumption
<1>5. LocalTypes' /\ Others(h) /\ pc'[h] = "idle"
  BY <1>1, <1>2, FinishMoves
<1>6. HelpersGoOn
  BY <1>5, ResetIsSound DEF HelpersGoOn, Others, Holding, Finishing, Behind
<1> QED BY <1>3, <1>4, <1>5, <1>6, SameStep, TypePartsNext

\* Maintenance takes up a settled root, a clean-up that was not asked for, or one
\* that was.
LEMMA TakesKeep ==
  ASSUME LineInv, NEW h \in Helper,
         \/ TakeRequest(h)
         \/ \E d \in Delivery : TakeReceipts(h, d) \/ TakeCleaning(h, d)
  PROVE  /\ LineInv' /\ Others(h) /\ UNCHANGED <<row, lane, purge, mishaps>>
         /\ pc'[h] \in {"reclaim", "settle", "request"}
<1>1. UNCHANGED <<row, lane, purge, mishaps>>
  BY DEF TakeRequest, TakeReceipts, TakeCleaning
<1>2. LocalTypes /\ RowTypes
  BY LineFacts
<1>3. /\ LocalTypes' /\ Others(h) /\ pc'[h] \in {"reclaim", "settle", "request"}
      /\ pc'[h] = "settle" => job'[h].id # None /\ job'[h].as \in Settled
  <2>1. CASE TakeRequest(h)
    BY <1>2, <2>1, StayMoves DEF TakeRequest, Steps
  <2>2. ASSUME NEW d \in Delivery, TakeReceipts(h, d)
        PROVE  /\ LocalTypes' /\ Others(h) /\ pc'[h] = "settle"
               /\ job'[h].id = d /\ job'[h].as = status[d]
    <3>1. PICK j : j = [id |-> d, gen |-> gen[d], as |-> status[d],
                        stamp |-> IF status[d] = "succeeded" /\ d \in cleaning THEN d ELSE None]
      OBVIOUS
    <3>2. j \in Job /\ j.id = d /\ j.as = status[d]
      BY <1>2, <3>1 DEF Job, RowTypes
    <3>3. Goto(h, "settle") /\ job' = [job EXCEPT ![h] = j] /\ UNCHANGED <<target, held>>
      BY <2>2, <3>1 DEF TakeReceipts
    <3>4. LocalTypes' /\ Others(h) /\ pc'[h] = "settle" /\ job'[h] = j
      BY <1>2, <3>2, <3>3, JobMoves DEF Steps
    <3> QED BY <3>2, <3>4
  <2>3. ASSUME NEW d \in Delivery, TakeCleaning(h, d)
        PROVE  LocalTypes' /\ Others(h) /\ pc'[h] = "request"
    <3>1. PICK j : j = [id |-> d, gen |-> gen[d], as |-> "succeeded", stamp |-> d]
      OBVIOUS
    <3>2. j \in Job
      BY <1>2, <3>1 DEF Job, RowTypes, Statuses, Settled
    <3>3. Goto(h, "request") /\ job' = [job EXCEPT ![h] = j] /\ UNCHANGED <<target, held>>
      BY <2>3, <3>1 DEF TakeCleaning
    <3> QED BY <1>2, <3>2, <3>3, JobMoves DEF Steps
  <2>4. ASSUME NEW d \in Delivery, TakeReceipts(h, d)
        PROVE  status[d] \in Settled
    BY <2>4 DEF TakeReceipts
  <2> QED BY <2>1, <2>2, <2>3, <2>4, Names
<1>4. HelperSound(h)'
  <2>1. CASE pc'[h] = "settle"
    BY <1>3, <2>1 DEF HelperSound, ChosenIsNext, CopyIsCurrent, HasOutcome, Holding,
       Finishing, Behind
  <2>2. CASE pc'[h] # "settle"
    BY <1>3, <2>2, ResetIsSound DEF Holding, Finishing, Behind
  <2> QED BY <2>1, <2>2
<1> QED BY <1>1, <1>3, <1>4, QuietStep

\* The steps of a settlement and of a clean-up that only write receipts and requests.
LEMMA RequestsKeep ==
  ASSUME LineInv, NEW h \in Helper,
         MarkReceipts(h) \/ RequestCleanup(h) \/ ClearCleaning(h) \/ Unrequest(h)
  PROVE  /\ LineInv' /\ Others(h) /\ Same
         /\ pc'[h] \in {"idle", "request", "clear", "reclaim"}
<1>1. LocalTypes /\ RowTypes /\ LaneTypes /\ PurgeTypes /\ mishaps \in 0..MaxMishaps
  BY LineFacts
<1>2. UNCHANGED <<purge, mishaps>> /\ Same
  BY DEF MarkReceipts, RequestCleanup, ClearCleaning, Unrequest, row, lane, purge, Same,
     LaneStands
<1>3. receipts' \subseteq Delivery /\ cleaning' \subseteq Delivery
  <2>1. CASE RequestCleanup(h) \/ Unrequest(h)
    BY <1>1, <2>1 DEF RequestCleanup, Unrequest, row, RowTypes
  <2>2. CASE ClearCleaning(h)
    BY <1>1, <2>2 DEF ClearCleaning, RowTypes
  <2>3. CASE MarkReceipts(h)
    <3>1. job[h].id \in Delivery
      BY <2>3, LineFacts DEF MarkReceipts, HasOutcome
    <3> QED BY <1>1, <2>3, <3>1 DEF MarkReceipts, RowTypes
  <2> QED BY <2>1, <2>2, <2>3
<1>4. RowTypes'
  BY <1>1, <1>2, <1>3 DEF Same, RowTypes
<1>5. cleanup' \in Delivery \cup {None, Abandoned}
  BY <1>1, LineFacts DEF MarkReceipts, RequestCleanup, ClearCleaning, Unrequest, lane, LaneTypes
<1>6. LaneTypes' /\ PurgeTypes'
  BY <1>1, <1>2, <1>5 DEF Same, LaneStands, purge, LaneTypes, PurgeTypes
<1>7. mishaps' \in 0..MaxMishaps /\ mishaps' >= mishaps
  BY <1>1, <1>2, BoundsAssumption
<1>8. LocalTypes' /\ Others(h) /\ pc'[h] \in {"idle", "request", "clear", "reclaim"}
  <2>1. CASE RequestCleanup(h) \/ MarkReceipts(h) \/ Unrequest(h)
    <3>1. Finish(h) \/ \E s \in {"request", "clear"} : Stay(h, s)
      BY <2>1 DEF RequestCleanup, MarkReceipts, Unrequest
    <3> QED BY <3>1, <1>1, FinishMoves, StayMoves DEF Steps
  <2>2. CASE ClearCleaning(h)
    BY <2>2, <1>1, EmptyHands, JobMoves DEF ClearCleaning, Steps
  <2> QED BY <2>1, <2>2
<1>9. HelpersGoOn
  BY <1>8, ResetIsSound DEF HelpersGoOn, Others, Holding, Finishing, Behind
<1> QED BY <1>2, <1>4, <1>6, <1>7, <1>8, <1>9, SameStep, TypePartsNext

\* The look at the request, and the look at what the lane retains.
LEMMA ReclaimersKeep ==
  ASSUME LineInv, NEW h \in Helper, ReadRequest(h) \/ ReadRetained(h)
  PROVE  /\ LineInv' /\ Others(h) /\ UNCHANGED <<row, lane, purge, mishaps>>
         /\ pc'[h] \in {"idle", "retained", "unrequest", "delete"}
         /\ ReadRetained(h) => /\ pc[h] = "retained" /\ held' = held
                               /\ pc'[h] = IF Retained THEN "unrequest" ELSE "delete"
         /\ ReadRequest(h) /\ pc'[h] # "idle" => pc'[h] = "retained" /\ held'[h] = Request
<1>1. UNCHANGED <<row, lane, purge, mishaps>>
  BY DEF ReadRequest, ReadRetained
<1>2. LocalTypes /\ LaneTypes
  BY LineFacts
<1>3. CASE Finish(h)
  BY <1>1, <1>2, <1>3, IdleStep, FinishMoves DEF ReadRetained, Stay, Goto, LocalTypes
<1>4. ASSUME Goto(h, "retained"), held' = [held EXCEPT ![h] = Request], UNCHANGED <<target, job>>
      PROVE  LocalTypes' /\ Others(h) /\ pc'[h] = "retained" /\ held'[h] = Request
  BY <1>2, <1>4, ReservationIsCopy, CopyMoves DEF Steps
<1>5. ASSUME ReadRetained(h)
      PROVE  /\ LocalTypes' /\ Others(h) /\ held' = held /\ pc[h] = "retained"
             /\ pc'[h] = IF Retained THEN "unrequest" ELSE "delete"
  BY <1>2, <1>5, StayMoves DEF ReadRetained, Steps
<1>6. CASE ~Finish(h)
  <2>1. /\ LocalTypes' /\ Others(h) /\ pc'[h] \in {"retained", "unrequest", "delete"}
        /\ ReadRequest(h) => pc'[h] = "retained" /\ held'[h] = Request
    BY <1>4, <1>5, <1>6 DEF ReadRequest, ReadRetained
  <2>2. HelperSound(h)'
    BY <2>1, ResetIsSound DEF Holding, Finishing, Behind
  <2> QED BY <1>1, <1>5, <2>1, <2>2, QuietStep
<1> QED BY <1>3, <1>6

(***************************************************************************)
(* Steps that write the lane.                                              *)
(***************************************************************************)

\* A step of one helper that writes the lane, when no copy waits for it.
LEMMA LaneStep ==
  ASSUME LineInv, NEW h \in Helper, Others(h), LocalTypes', LaneTypes',
         UNCHANGED <<row, purge, mishaps>>,
         account = "active" => publisher = None \/ Over(publisher, publisherGen),
         HelperSound(h)', ReservedIsNext'
  PROVE  LineInv'
<1>1. /\ UNCHANGED <<status, line, ahead, gen, members, marker, account>> /\ mishaps' = mishaps
  BY DEF row, purge
<1>2. TypeOK'
  <2>1. RowTypes' /\ PurgeTypes' /\ mishaps' \in 0..MaxMishaps
    BY <1>1, LineFacts DEF row, purge, RowTypes, PurgeTypes
  <2> QED BY <2>1, TypePartsNext
<1>3. OverStays /\ NextStays
  BY <1>1 DEF OverStays, NextStays, Over, Erased, IsNext, Unpreceded, Waits
<1>4. LineIsStaging' /\ LineIsInOrder' /\ RowsAreCounted' /\ PurgeSound'
  BY <1>1, LineFacts
     DEF LineIsStaging, LineIsInOrder, Staging, RowsAreCounted, PurgeSound, Erased
<1>5. HelpersGoOn
  BY DEF HelpersGoOn, Others
<1> QED BY <1>1, <1>2, <1>3, <1>4, <1>5, StepIsSound

\* A reservation of the free lane, for whoever was chosen.
LEMMA ReservationKeeps ==
  ASSUME LineInv, NEW h \in Helper, Acquire(h), publisher = None
  PROVE  /\ LineInv' /\ Others(h) /\ UNCHANGED <<row, purge, mishaps>>
         /\ pc'[h] = "recheck" /\ held'[h] = Reservation'
         /\ value' = value + 1 /\ publisher' # None /\ tail' = tail
<1>0. PICK d, g : d = job[h].id /\ g = job[h].gen
  OBVIOUS
<1>1. /\ pc[h] = "acquire" /\ value' = value + 1 /\ publisher' = d /\ publisherGen' = g
      /\ cleanup' = None /\ tail' = tail
      /\ held' = [held EXCEPT ![h] = Reservation'] /\ job' = [job EXCEPT ![h] = NoJob]
      /\ Goto(h, "recheck") /\ target' = target
      /\ UNCHANGED <<row, purge, mishaps>>
  BY <1>0 DEF Acquire
<1>2. LocalTypes /\ LaneTypes /\ ChosenIsNext(h)
  BY LineFacts
<1>3. d \in Delivery /\ d # None /\ g \in 0..MaxMishaps /\ (Over(d, g) \/ IsNext(d, g))
  BY <1>0, <1>1, <1>2, LineFacts DEF ChosenIsNext
<1>4. LaneTypes'
  BY <1>1, <1>2, <1>3, Names DEF LaneTypes
<1>5. /\ Reservation' \in Copy /\ Reservation'.publisher = d /\ Reservation'.gen = g
  BY <1>1, <1>4, ReservationIsCopyNext
<1>6. LocalTypes' /\ Others(h) /\ pc'[h] = "recheck" /\ held'[h] = Reservation'
  <2>1. held'[h] = Reservation' /\ held' \in [Helper -> Copy]
    BY <1>1, <1>2, <1>5 DEF LocalTypes
  <2>2. pc' \in [Helper -> Steps] /\ pc'[h] = "recheck"
    BY <1>1, <1>2 DEF LocalTypes, Goto, Steps
  <2>3. job' \in [Helper -> Job]
    BY <1>1, <1>2, EmptyHands DEF LocalTypes
  <2>4. Others(h)
    BY <1>1, <1>2 DEF LocalTypes, Goto, Others, Stands
  <2> QED BY <1>1, <1>2, <2>1, <2>2, <2>3, <2>4 DEF LocalTypes
<1>7. /\ Over(d, g)' <=> Over(d, g)
      /\ IsNext(d, g)' <=> IsNext(d, g)
  BY <1>1 DEF row, purge, Over, Erased, IsNext, Unpreceded, Waits
<1>8. CopyIsCurrent(h)'
  BY <1>3, <1>5, <1>6, <1>7 DEF CopyIsCurrent, Holding, Finishing, Behind
<1>9. HelperSound(h)'
  BY <1>6, <1>8 DEF HelperSound, ChosenIsNext, HasOutcome
<1>10. ReservedIsNext'
  BY <1>1, <1>2, <1>3, <1>7 DEF ReservedIsNext, LaneTypes
<1> QED BY <1>1, <1>3, <1>4, <1>6, <1>9, <1>10, LaneStep

\* A reservation that is released or abandoned is for one that is over, unless the
\* account is no longer active.
LEMMA FencedIsOver ==
  ASSUME LineInv, NEW h \in Helper, Fence(h), pc[h] \in {"release", "abandon"}
  PROVE  /\ publisher # None /\ value > 0
         /\ pc[h] = "release" \/ account = "active" => Over(publisher, publisherGen)
<1>1. CopyIsCurrent(h) /\ ReservedIsNext
  BY LineFacts
<1> QED BY <1>1 DEF CopyIsCurrent, Fence, ReservedIsNext, Holding, Behind

\* The lane is freed, by its release, by rolling its value back or with its
\* document.
LEMMA FreeingKeeps ==
  ASSUME LineInv, NEW h \in Helper,
         \/ Release(h) /\ Fence(h)
         \/ Abandon(h) /\ Fence(h)
         \/ DeleteLane(h) /\ publisher = None
  PROVE  LineInv' /\ Others(h) /\ UNCHANGED <<row, purge, mishaps>>
<1>1. /\ LocalTypes /\ LaneTypes
      /\ account = "active" => publisher = None \/ Over(publisher, publisherGen)
  BY FencedIsOver, LineFacts DEF Release, Abandon
<1>2. CASE UNCHANGED lane
  <2>1. DeleteLane(h) /\ Finish(h) /\ UNCHANGED <<row, lane, purge, mishaps>>
    <3>1. value > 0 /\ Abandon(h) /\ Fence(h) => publisher' # publisher
      BY FencedIsOver DEF Abandon, DropLane
    <3>2. Release(h) /\ Fence(h) => publisher' # publisher
      BY FencedIsOver DEF Release
    <3>3. Abandon(h) /\ Fence(h) => value > 0
      BY FencedIsOver DEF Abandon
    <3> QED BY <1>2, <3>1, <3>2, <3>3 DEF DeleteLane, lane
  <2> QED BY <2>1, IdleStep
<1>3. CASE ~UNCHANGED lane
  <2>1. /\ publisher' = None /\ publisherGen' = 0 /\ tail' \in {publisher, tail, None}
        /\ \/ value' = value \/ value' = 0
           \/ Abandon(h) /\ Fence(h) /\ value' = value - 1
        /\ cleanup' \in {cleanup, None, Abandoned}
        /\ UNCHANGED <<row, purge, mishaps>> /\ (Finish(h) \/ Again(h))
    BY <1>3 DEF Release, Abandon, DeleteLane, DropLane
  <2>2. value' \in Nat
    <3>1. Abandon(h) /\ Fence(h) => value > 0
      BY FencedIsOver DEF Abandon
    <3> QED BY <1>1, <2>1, <3>1 DEF LaneTypes
  <2>3. LaneTypes'
    BY <1>1, <2>1, <2>2, Names DEF LaneTypes
  <2>4. LocalTypes' /\ Others(h) /\ pc'[h] \in {"idle", "row"}
        /\ (pc'[h] = "row" => target'[h] # None)
    BY <1>1, <2>1, FinishMoves, AgainMoves
  <2>5. HelperSound(h)' /\ ReservedIsNext'
    BY <2>1, <2>4, ResetIsSound DEF ReservedIsNext, Holding, Finishing, Behind
  <2> QED BY <1>1, <2>1, <2>3, <2>4, <2>5, LaneStep
<1> QED BY <1>2, <1>3

(***************************************************************************)
(* Steps that write the rows.                                              *)
(***************************************************************************)

\* The row of d is there and waits no more.
Published(d) == status[d] \notin {"absent", "staging"}

\* What is published stays published until it is requeued, and what waits stays
\* there until it is published, and behind nothing new.
RowsGoOn ==
    /\ \A e \in Delivery :
          /\ gen'[e] = gen[e] \/ (gen'[e] > gen[e] /\ status[e] # "staging")
          /\ status[e] = "staging" => status'[e] # "absent"
          /\ Published(e) => gen'[e] > gen[e] \/ Published(e)'
    /\ \A e, f \in Delivery :
          status[e] = "staging" /\ <<f, e>> \in ahead' => <<f, e>> \in ahead

\* So what is over stays over, and what is next stays next until it is over.
LEMMA RowsStay ==
  ASSUME LineInv, RowsGoOn, RowTypes', UNCHANGED <<lane, purge>>
  PROVE  OverStays /\ NextStays /\ LaneStands /\ account' = account
<1>1. account' = account /\ LaneStands
  BY DEF lane, purge, LaneStands
<1> SUFFICES ASSUME NEW d \in Delivery, NEW g \in 0..MaxMishaps
             PROVE  /\ Over(d, g) => Over(d, g)'
                    /\ IsNext(d, g) => Over(d, g)' \/ IsNext(d, g)'
  BY <1>1 DEF OverStays, NextStays
<1>2. gen[d] \in Nat /\ gen'[d] \in Nat /\ g \in Nat
  BY LineFacts, Names DEF RowTypes
<1>3. /\ gen'[d] = gen[d] \/ (gen'[d] > gen[d] /\ status[d] # "staging")
      /\ status[d] = "staging" => status'[d] # "absent"
      /\ Published(d) => gen'[d] > gen[d] \/ Published(d)'
  BY DEF RowsGoOn
<1>4. Over(d, g) => Over(d, g)'
  BY <1>1, <1>2, <1>3 DEF Over, Erased, Published
<1>5. ASSUME IsNext(d, g)
      PROVE  Over(d, g)' \/ IsNext(d, g)'
  <2>1. gen'[d] = g /\ status'[d] # "absent"
    BY <1>3, <1>5 DEF IsNext, Waits
  <2>2. CASE status'[d] # "staging"
    BY <2>1, <2>2 DEF Over
  <2>3. CASE status'[d] = "staging"
    <3>1. Unpreceded(d) => Unpreceded(d)'
      BY <1>5 DEF RowsGoOn, IsNext, Waits, Unpreceded
    <3> QED BY <1>1, <1>5, <2>1, <2>3, <3>1 DEF IsNext, Waits
  <2> QED BY <2>2, <2>3
<1> QED BY <1>4, <1>5

\* A step that neither admits nor publishes keeps the line.
LEMMA SameLine ==
  ASSUME LineIsStaging, LineIsInOrder, UNCHANGED <<line, ahead, purge>>,
         \A e \in Delivery : status'[e] = "staging" <=> status[e] = "staging"
  PROVE  LineIsStaging' /\ LineIsInOrder' /\ Staging' = Staging
<1>1. Staging' = Staging /\ account' = account
  BY DEF Staging, purge
<1> QED BY <1>1 DEF LineIsStaging, LineIsInOrder

\* Such a step keeps the line.
LEMMA RowStep ==
  ASSUME LineInv, RowsGoOn, RowTypes', LocalTypes', mishaps' \in 0..MaxMishaps,
         UNCHANGED <<lane, purge>>, LineIsStaging', LineIsInOrder', RowsAreCounted',
         HelpersGoOn, Erased => \A e \in Delivery : status'[e] = "absent"
  PROVE  LineInv'
<1>1. OverStays /\ NextStays /\ LaneStands /\ account' = account
  BY RowsStay
<1>2. LaneTypes' /\ PurgeTypes' /\ PurgeSound'
  BY LineFacts DEF lane, purge, LaneTypes, PurgeTypes, PurgeSound, Erased
<1>3. TypeOK'
  BY <1>2, TypePartsNext
<1> QED BY <1>1, <1>2, <1>3, StepIsSound

\* What a copy says of a reservation is true of it while rows go on.
LEMMA CopyGoesOn ==
  ASSUME LineInv, RowsGoOn, RowTypes', UNCHANGED <<lane, purge>>, NEW h \in Helper,
         pc[h] \in Holding, pc'[h] \in Holding \ {"abandon"}, held' = held,
         pc'[h] \in Behind => Over(held[h].publisher, held[h].gen)'
  PROVE  HelperSound(h)'
<1>1. OverStays /\ NextStays /\ LaneStands /\ account' = account
  BY RowsStay
<1>2. Reservation' = Reservation
  BY <1>1 DEF LaneStands, Reservation
<1>3. PICK d, g : d = held[h].publisher /\ g = held[h].gen
  OBVIOUS
<1>4. d \in Delivery \cup {None} /\ g \in 0..MaxMishaps /\ CopyIsCurrent(h)
  BY <1>3, LineFacts
<1>5. d # None /\ (Over(d, g) \/ (IsNext(d, g) /\ (account = "active" => held[h] = Reservation)))
  BY <1>3, <1>4 DEF CopyIsCurrent
<1>6. Over(d, g)' \/ (IsNext(d, g)' /\ (account = "active" => held[h] = Reservation))
  BY <1>1, <1>4, <1>5 DEF OverStays, NextStays
<1>7. pc'[h] \in Behind => Over(d, g)'
  BY <1>3
<1>8. CopyIsCurrent(h)'
  BY <1>1, <1>2, <1>3, <1>5, <1>6, <1>7 DEF CopyIsCurrent, Holding, Finishing, Behind
<1> QED BY <1>8 DEF HelperSound, ChosenIsNext, HasOutcome, Holding, Finishing, Behind

\* Who enters the line enters it behind those it is ordered after.
LEMMA EntersInOrder ==
  ASSUME RowTypes, LineIsStaging, LineIsInOrder, NEW d \in Delivery, status[d] # "staging",
         Admit(d), account' = account,
         \A e \in Delivery : status'[e] = IF e = d THEN "staging" ELSE status[e]
  PROVE  /\ line' \in Seq(Delivery) /\ LineIsStaging' /\ LineIsInOrder'
         /\ ahead' \subseteq Delivery \X Delivery
         /\ \E W \in SUBSET Staging : ahead' = ahead \cup (W \X {d})
<1>1. PICK k \in 0..Len(line) :
         /\ line' = SubSeq(line, 1, k) \o <<d>> \o SubSeq(line, k + 1, Len(line))
         /\ ahead' = ahead \cup (Items(SubSeq(line, 1, k)) \X {d})
  BY DEF Admit
<1>2. /\ line \in Seq(Delivery) /\ Distinct(line) /\ Items(line) = Staging
      /\ Len(line) \in Nat /\ DOMAIN line = 1..Len(line) /\ k \in Nat /\ k <= Len(line)
      /\ Staging \subseteq Delivery /\ d \notin Staging
      /\ \A i \in 1..Len(line) : line[i] \in Staging
  BY <1>1, ItemsType DEF RowTypes, LineIsStaging, Staging
<1>3. PICK W : W = {line[i] : i \in 1..k}
  OBVIOUS
<1>4. W \subseteq Staging /\ ahead' = ahead \cup (W \X {d})
  <2>1. 1..k \subseteq 1..Len(line)
    BY <1>2
  <2>2. Items(SubSeq(line, 1, k)) = W
    BY <1>2, <1>3, SplitItems
  <2> QED BY <1>1, <1>2, <1>3, <2>1, <2>2
<1>5. line' \in Seq(Delivery) /\ Distinct(line') /\ Items(line') = Items(line) \cup {d}
  <2>1. PICK m : m = <<d>>
    OBVIOUS
  <2>2. m \in Seq(Delivery) /\ Distinct(m) /\ Items(m) = {d}
    BY <2>1 DEF Distinct, Items
  <2>3. PICK r : r = SubSeq(line, 1, k) \o m \o SubSeq(line, k + 1, Len(line))
    OBVIOUS
  <2>4. line \in Seq(Delivery) /\ Distinct(line) /\ Items(line) \cap Items(m) = {}
    BY <1>2, <2>2
  <2>5. r \in Seq(Delivery) /\ Distinct(r) /\ Items(r) = Items(line) \cup Items(m)
    BY <2>2, <2>3, <2>4, InsertItems
  <2>6. line' = r
    BY <1>1, <2>1, <2>3
  <2> QED BY <2>2, <2>5, <2>6
<1>6. /\ Len(line') = Len(line) + 1
      /\ \A i \in 1..Len(line') : line'[i] = IF i <= k THEN line[i]
                                              ELSE IF i = k + 1 THEN d ELSE line[i - 1]
  <2>0. PICK m : m = <<d>>
    OBVIOUS
  <2>1. PICK r : r = SubSeq(line, 1, k) \o m \o SubSeq(line, k + 1, Len(line))
    OBVIOUS
  <2>2. line \in Seq(Delivery) /\ m \in Seq(Delivery) /\ Len(m) = 1 /\ m[1] = d
    BY <1>2, <2>0
  <2>3. Extends(line, m, k, r)
    BY <2>1, <2>2, InsertElements
  <2>4. line' = r
    BY <1>1, <2>0, <2>1
  <2> QED BY <2>2, <2>3, <2>4 DEF Extends
<1>7. Staging' = Staging \cup {d}
  BY DEF Staging
<1>8. LineIsStaging'
  BY <1>2, <1>5, <1>7 DEF LineIsStaging
<1>9. ahead' \subseteq Staging' \X Staging' /\ ahead' \subseteq Delivery \X Delivery
  BY <1>2, <1>4, <1>7 DEF LineIsInOrder
<1>10. ASSUME account' = "active", NEW i \in 1..Len(line'), NEW j \in 1..Len(line'), i <= j,
              <<line'[j], line'[i]>> \in ahead'
       PROVE  FALSE
  <2>1. i \in 1..Len(line) + 1 /\ j \in 1..Len(line) + 1
    BY <1>6
  <2>2. PICK x, y : x = line'[j] /\ y = line'[i]
    OBVIOUS
  <2>3. /\ y = IF i <= k THEN line[i] ELSE IF i = k + 1 THEN d ELSE line[i - 1]
        /\ x = IF j <= k THEN line[j] ELSE IF j = k + 1 THEN d ELSE line[j - 1]
    BY <1>6, <2>2
  <2>4. CASE <<x, y>> \in ahead
    <3>1. x # d /\ y # d
      BY <1>2, <2>4 DEF LineIsInOrder
    <3>2. i # k + 1 /\ j # k + 1
      BY <1>2, <2>1, <2>3, <3>1
    <3>3. PICK m, n : /\ m = IF i <= k THEN i ELSE i - 1
                      /\ n = IF j <= k THEN j ELSE j - 1
      OBVIOUS
    <3>4. m \in 1..Len(line) /\ n \in 1..Len(line) /\ m <= n
      BY <1>2, <1>10, <2>1, <3>2, <3>3
    <3>5. y = line[m] /\ x = line[n]
      BY <2>3, <3>2, <3>3
    <3> QED BY <1>10, <2>4, <3>4, <3>5 DEF LineIsInOrder
  <2>5. CASE x \in W /\ y = d
    <3>1. x \in Staging /\ x # d
      BY <1>2, <1>4, <2>5
    <3>2. i = k + 1
      <4>1. i <= k => line[i] \in Staging
        BY <1>2, <2>1
      <4>2. ~(i <= k) /\ i # k + 1 => i - 1 \in 1..Len(line)
        BY <1>2, <2>1
      <4> QED BY <1>2, <2>3, <2>5, <4>1, <4>2
    <3>3. ~(j <= k) /\ j # k + 1 /\ j - 1 \in 1..Len(line) /\ ~(j - 1 <= k)
      BY <1>2, <1>10, <2>1, <2>3, <3>1, <3>2
    <3>4. x = line[j - 1]
      BY <2>3, <3>3
    <3>5. PICK n \in 1..k : x = line[n]
      BY <1>3, <2>5
    <3>6. n \in DOMAIN line /\ j - 1 \in DOMAIN line /\ n # j - 1
      BY <1>2, <3>3
    <3> QED BY <1>2, <3>4, <3>5, <3>6 DEF Distinct
  <2> QED BY <1>4, <1>10, <2>2, <2>4, <2>5
<1>11. LineIsInOrder'
  BY <1>9, <1>10 DEF LineIsInOrder
<1> QED BY <1>4, <1>5, <1>8, <1>9, <1>11

\* A delivery is admitted, or admitted again.
LEMMA AdmissionKeeps ==
  ASSUME LineInv, NEW h \in Helper, NEW d \in Delivery, Enqueue(h, d) \/ Requeue(h, d)
  PROVE  /\ LineInv' /\ Others(h) /\ pc'[h] = "row"
         /\ status[d] \in {"absent", "dead"} /\ ~Erased
         /\ \A e \in Delivery : status'[e] = IF e = d THEN "staging" ELSE status[e]
         /\ \E W \in SUBSET Staging : ahead' = ahead \cup (W \X {d})
         /\ held' = held /\ job' = job
         /\ UNCHANGED <<members, rootOf, rootGen, shut, lane, purge>>
         /\ \/ status[d] = "absent" /\ gen' = gen /\ seq' = seq
            \/ /\ status[d] = "dead" /\ rootOf[d] = None
               /\ gen' = [gen EXCEPT ![d] = @ + 1] /\ seq' = [seq EXCEPT ![d] = 0]
<1>1. /\ RowTypes /\ LaneTypes /\ PurgeTypes /\ LocalTypes /\ mishaps \in 0..MaxMishaps
      /\ LineIsStaging /\ LineIsInOrder /\ RowsAreCounted /\ PurgeSound
  BY LineFacts
<1>2. /\ status' = [status EXCEPT ![d] = "staging"] /\ Admit(d)
      /\ Goto(h, "row") /\ target' = [target EXCEPT ![h] = d]
      /\ UNCHANGED <<members, rootOf, rootGen, shut, lane, purge, held, job>>
      /\ status[d] \in {"absent", "dead"} /\ ~Erased
  BY <1>1 DEF Enqueue, Requeue, Erased, Deleted, PurgeSound
<1>3. /\ receipts' \subseteq receipts /\ cleaning' \subseteq cleaning
      /\ mishaps' \in 0..MaxMishaps /\ mishaps' >= mishaps
      /\ \/ gen' = gen /\ seq' = seq /\ status[d] = "absent"
         \/ /\ gen' = [gen EXCEPT ![d] = @ + 1] /\ seq' = [seq EXCEPT ![d] = 0]
            /\ status[d] = "dead" /\ rootOf[d] = None /\ mishaps' = mishaps + 1
  <2>1. CASE Enqueue(h, d)
    BY <1>1, <2>1, BoundsAssumption DEF Enqueue
  <2>2. CASE Requeue(h, d)
    BY <1>1, <2>2, BoundsAssumption DEF Requeue, Befalls
  <2> QED BY <2>1, <2>2
<1>4. \A e \in Delivery : gen[e] \in Nat /\ gen[e] <= mishaps
  BY <1>1, Names DEF RowTypes, RowsAreCounted
<1>5. \A e \in Delivery : status'[e] = IF e = d THEN "staging" ELSE status[e]
  BY <1>1, <1>2 DEF RowTypes
<1>6. gen' \in [Delivery -> 0..MaxMishaps] /\ seq' \in [Delivery -> Nat] /\ RowsAreCounted'
  <2>1. CASE gen' = gen /\ seq' = seq
    <3>1. \A e \in Delivery : gen'[e] <= mishaps'
      BY <1>1, <1>3, <1>4, <2>1, Names
    <3>2. \A e \in Delivery : status'[e] = "absent" => gen'[e] = 0 /\ members'[e] = {}
      BY <1>1, <1>2, <1>5, <2>1 DEF RowsAreCounted
    <3> QED BY <1>1, <2>1, <3>1, <3>2 DEF RowTypes, RowsAreCounted
  <2>2. CASE /\ gen' = [gen EXCEPT ![d] = @ + 1] /\ seq' = [seq EXCEPT ![d] = 0]
             /\ mishaps' = mishaps + 1
    <3>1. gen[d] + 1 \in 0..MaxMishaps /\ gen[d] + 1 <= mishaps'
      BY <1>1, <1>3, <1>4, <2>2, BoundsAssumption
    <3>2. gen' \in [Delivery -> 0..MaxMishaps] /\ seq' \in [Delivery -> Nat]
      BY <1>1, <2>2, <3>1 DEF RowTypes
    <3>3. \A e \in Delivery : gen'[e] <= mishaps'
      BY <1>1, <1>3, <1>4, <2>2, <3>1 DEF RowTypes
    <3>4. \A e \in Delivery : status'[e] = "absent" => gen'[e] = 0 /\ members'[e] = {}
      BY <1>1, <1>2, <1>5, <2>2 DEF RowTypes, RowsAreCounted
    <3> QED BY <3>2, <3>3, <3>4 DEF RowsAreCounted
  <2> QED BY <1>3, <2>1, <2>2
<1>7. /\ line' \in Seq(Delivery) /\ LineIsStaging' /\ LineIsInOrder'
      /\ ahead' \subseteq Delivery \X Delivery
      /\ \E W \in SUBSET Staging : ahead' = ahead \cup (W \X {d})
  BY <1>1, <1>2, <1>5, EntersInOrder DEF purge
<1>8. RowTypes'
  <2>1. status' \in [Delivery -> Statuses]
    BY <1>1, <1>2 DEF RowTypes, Statuses
  <2> QED BY <1>1, <1>2, <1>3, <1>6, <1>7, <2>1 DEF RowTypes
<1>9. LocalTypes' /\ Others(h) /\ pc'[h] = "row" /\ target'[h] # None
  BY <1>1, <1>2, RowMoves
<1>10. RowsGoOn
  <2>1. \A e \in Delivery : gen'[e] = gen[e] \/ (gen'[e] > gen[e] /\ e = d /\ status[d] = "dead")
    BY <1>1, <1>3, <1>4 DEF RowTypes
  <2>2. \A e \in Delivery :
           /\ status[e] = "staging" => status'[e] # "absent"
           /\ Published(e) => gen'[e] > gen[e] \/ Published(e)'
    <3>1. CASE gen' = gen /\ seq' = seq /\ status[d] = "absent"
      BY <1>5, <3>1 DEF Published
    <3>2. CASE gen' = [gen EXCEPT ![d] = @ + 1]
      <4>1. gen'[d] > gen[d]
        BY <1>1, <1>4, <3>2 DEF RowTypes
      <4> QED BY <1>5, <4>1 DEF Published
    <3> QED BY <1>3, <3>1, <3>2
  <2>3. \A e, f \in Delivery :
           status[e] = "staging" /\ <<f, e>> \in ahead' => <<f, e>> \in ahead
    BY <1>2, <1>7
  <2> QED BY <2>1, <2>2, <2>3 DEF RowsGoOn
<1>11. HelpersGoOn
  BY <1>9, ResetIsSound DEF Others, HelpersGoOn, Holding, Finishing, Behind
<1>12. LineInv'
  BY <1>2, <1>3, <1>6, <1>7, <1>8, <1>9, <1>10, <1>11, RowStep
<1> QED BY <1>2, <1>3, <1>5, <1>7, <1>9, <1>12

\* Who leaves the line leaves the others in their order.
LEMMA LeavesInOrder ==
  ASSUME RowTypes, LineIsStaging, LineIsInOrder, NEW P, LeaveLine(P), account' = account,
         \A e \in Delivery : status'[e] = "staging" <=> status[e] = "staging" /\ e \notin P
  PROVE  /\ line' \in Seq(Delivery) /\ LineIsStaging' /\ LineIsInOrder'
         /\ ahead' \subseteq ahead /\ ahead' = ahead \cap (Staging' \X Staging')
<1>1. line' = Without(line, P) /\ ahead' = {p \in ahead : {p[1], p[2]} \cap P = {}}
  BY DEF LeaveLine
<1>2. line \in Seq(Delivery) /\ Distinct(line) /\ Items(line) = Staging
  BY DEF RowTypes, LineIsStaging
<1>3. line' \in Seq(Delivery) /\ Distinct(line') /\ Items(line') = Items(line) \ P
  BY <1>1, <1>2, WithoutItems
<1>4. Staging' = Staging \ P
  BY DEF Staging
<1>5. ahead' = ahead \cap (Staging' \X Staging') /\ ahead' \subseteq ahead
  <2>1. ahead \subseteq Staging \X Staging
    BY DEF LineIsInOrder
  <2> QED BY <1>1, <1>4, <2>1
<1>6. ASSUME account' = "active", NEW i \in 1..Len(line'), NEW j \in 1..Len(line'), i <= j
      PROVE  <<line'[j], line'[i]>> \notin ahead'
  <2>1. \E m, n \in 1..Len(line) : m <= n /\ line'[i] = line[m] /\ line'[j] = line[n]
    <3>1. Len(line) \in Nat /\ Len(line') \in Nat
      BY <1>2, <1>3, LenProperties
    <3>2. CASE i < j
      <4>1. PICK m, n \in 1..Len(line) : m < n /\ line'[i] = line[m] /\ line'[j] = line[n]
        BY <1>1, <1>2, <3>2, WithoutKeepsOrder
      <4> QED BY <3>1, <4>1
    <3>3. CASE i = j
      <4>1. line'[i] \in Items(line)
        BY <1>3, ItemsType
      <4>2. PICK m \in 1..Len(line) : line'[i] = line[m]
        BY <1>2, <4>1, ItemsType DEF Items
      <4> QED BY <3>1, <3>3, <4>2
    <3> QED BY <1>6, <3>1, <3>2, <3>3
  <2>2. PICK m, n \in 1..Len(line) : m <= n /\ line'[i] = line[m] /\ line'[j] = line[n]
    BY <2>1
  <2>3. <<line[n], line[m]>> \notin ahead
    BY <1>6, <2>2 DEF LineIsInOrder
  <2> QED BY <1>5, <2>2, <2>3
<1>7. LineIsStaging' /\ LineIsInOrder'
  BY <1>2, <1>3, <1>4, <1>5, <1>6 DEF LineIsStaging, LineIsInOrder
<1> QED BY <1>3, <1>5, <1>7

\* The members of a batch leave the line together, prepared or settled.
LEMMA LeavingKeeps ==
  ASSUME LineInv, NEW P, NEW s \in {"batched"} \cup Settled,
         \A m \in P : status[m] # "absent",
         status' = [m \in Delivery |-> IF m \in P THEN s ELSE status[m]], LeaveLine(P),
         rootOf' \in [Delivery -> Delivery \cup {None}],
         rootGen' \in [Delivery -> 0..MaxMishaps],
         UNCHANGED <<seq, gen, members, receipts, cleaning, shut>>,
         UNCHANGED <<lane, purge, mishaps>>, LocalTypes', HelpersGoOn
  PROVE  LineInv' /\ RowsGoOn /\ ahead' = ahead \cap (Staging' \X Staging')
<1>1. /\ RowTypes /\ mishaps \in 0..MaxMishaps
      /\ LineIsStaging /\ LineIsInOrder /\ RowsAreCounted /\ PurgeSound
  BY LineFacts
<1>2. \A e \in Delivery : status'[e] = IF e \in P THEN s ELSE status[e]
  OBVIOUS
<1>3. s \in Statuses /\ s \notin {"absent", "staging"}
  BY DEF Statuses, Settled
<1>4. /\ line' \in Seq(Delivery) /\ LineIsStaging' /\ LineIsInOrder' /\ ahead' \subseteq ahead
      /\ ahead' = ahead \cap (Staging' \X Staging')
  <2>1. \A e \in Delivery : status'[e] = "staging" <=> status[e] = "staging" /\ e \notin P
    BY <1>2, <1>3
  <2> QED BY <1>1, <2>1, LeavesInOrder DEF purge
<1>5. RowTypes'
  BY <1>1, <1>3, <1>4 DEF RowTypes
<1>6. RowsAreCounted'
  BY <1>1, <1>2, <1>3 DEF RowsAreCounted
<1>7. RowsGoOn
  <2>1. \A e \in Delivery :
          /\ gen'[e] = gen[e]
          /\ status[e] = "staging" => status'[e] # "absent"
          /\ Published(e) => Published(e)'
    BY <1>2, <1>3 DEF Published
  <2> QED BY <1>4, <2>1 DEF RowsGoOn
<1>8. Erased => \A e \in Delivery : status'[e] = "absent"
  BY <1>1, <1>2 DEF PurgeSound
<1>9. LineInv'
  BY <1>1, <1>4, <1>5, <1>6, <1>7, <1>8, RowStep
<1> QED BY <1>4, <1>7, <1>9

\* One helper has moved on soundly.
LEMMA OneGoesOn ==
  ASSUME NEW h \in Helper, Others(h), HelperSound(h)'
  PROVE  HelpersGoOn
BY DEF HelpersGoOn, Others

\* A batch is prepared to be dispatched again.
LEMMA PreparationKeeps ==
  ASSUME LineInv, NEW h \in Helper, Prepare(h)
  PROVE  /\ LineInv' /\ RowsGoOn /\ Others(h) /\ pc'[h] \in {"idle", "lane"}
         /\ ahead' = ahead \cap (Staging' \X Staging')
<1> DEFINE r == target[h]
           P == {m \in members[r] : /\ rootOf[m] = r /\ rootGen[m] = job[h].gen - 1
                                    /\ status[m] \in {"staging", "batched"} \cup Settled}
<1>1. /\ status' = [m \in Delivery |-> IF m \in P THEN "batched" ELSE status[m]]
      /\ rootGen' = [m \in Delivery |-> IF m \in P THEN job[h].gen ELSE rootGen[m]]
      /\ LeaveLine(P) /\ rootOf' = rootOf
      /\ UNCHANGED <<seq, gen, members, receipts, cleaning, shut>>
      /\ UNCHANGED <<lane, purge, mishaps>>
      /\ Finish(h) \/ Stay(h, "lane")
  BY DEF Prepare
<1>2. \A m \in P : status[m] # "absent"
  BY DEF Settled
<1> HIDE DEF P
<1>3. LocalTypes' /\ Others(h) /\ pc'[h] \in {"idle", "lane"}
  BY <1>1, LineFacts, FinishMoves, StayMoves DEF Steps
<1>4. HelperSound(h)'
  BY <1>3, ResetIsSound DEF Holding, Finishing, Behind
<1>5. /\ rootOf' \in [Delivery -> Delivery \cup {None}]
      /\ rootGen' \in [Delivery -> 0..MaxMishaps]
  BY <1>1, LineFacts DEF RowTypes
<1> QED BY <1>1, <1>2, <1>3, <1>4, <1>5, OneGoesOn, LeavingKeeps

\* The receipts of a batch are settled.
LEMMA SettlementKeeps ==
  ASSUME LineInv, NEW h \in Helper, SettleMembers(h)
  PROVE  /\ LineInv' /\ RowsGoOn /\ Others(h) /\ pc'[h] \in {"idle", "mark"}
         /\ ahead' = ahead \cap (Staging' \X Staging')
<1> DEFINE r == job[h].id
           P == Owed(r, job[h].gen)
<1>1. /\ status' = [m \in Delivery |-> IF m \in P THEN job[h].as ELSE status[m]]
      /\ rootOf' = [m \in Delivery |-> IF m \in P THEN r ELSE rootOf[m]]
      /\ LeaveLine(P) /\ rootGen' = rootGen
      /\ UNCHANGED <<seq, gen, members, receipts, cleaning, shut>>
      /\ UNCHANGED <<lane, purge, mishaps>>
      /\ Finish(h) \/ Stay(h, "mark")
      /\ pc[h] = "settle"
  BY DEF SettleMembers
<1>2. \A m \in P : status[m] # "absent"
  BY DEF Owed
<1> HIDE DEF P
<1>3. LocalTypes' /\ Others(h) /\ pc'[h] \in {"idle", "mark"}
      /\ (pc'[h] = "mark" => job' = job)
  BY <1>1, LineFacts, FinishMoves, StayMoves DEF Steps
<1>4. job[h].id \in Delivery /\ job[h].as \in Settled
  BY <1>1, LineFacts DEF HasOutcome
<1>5. HelperSound(h)'
  <2>1. CASE pc'[h] = "idle"
    BY <2>1, ResetIsSound DEF Holding, Finishing, Behind
  <2>2. CASE pc'[h] = "mark"
    BY <1>3, <1>4, <2>2, Names DEF HelperSound, ChosenIsNext, CopyIsCurrent, HasOutcome,
       Holding, Finishing, Behind
  <2> QED BY <1>3, <2>1, <2>2
<1>6. /\ rootOf' \in [Delivery -> Delivery \cup {None}]
      /\ rootGen' \in [Delivery -> 0..MaxMishaps]
  BY <1>1, <1>4, LineFacts DEF RowTypes
<1> QED BY <1>1, <1>2, <1>3, <1>4, <1>5, <1>6, OneGoesOn, LeavingKeeps

\* What came of a root's generation reaches its members.
LEMMA HandlingKeeps ==
  ASSUME LineInv, NEW r \in Delivery, PropagateHandling(r)
  PROVE  /\ LineInv' /\ RowsGoOn /\ ahead' = ahead \cap (Staging' \X Staging')
         /\ status[r] = "succeeded" /\ UNCHANGED local
<1> DEFINE P == {m \in members[r] : /\ rootOf[m] = r
                                    /\ status[m] \in {"staging", "batched"} \cup Settled}
<1>1. /\ status' = [m \in Delivery |-> IF m \in P THEN "succeeded" ELSE status[m]]
      /\ LeaveLine(P) /\ UNCHANGED <<seq, gen, members, rootOf, rootGen, receipts, cleaning>>
      /\ UNCHANGED <<shut, lane, purge, local, mishaps>> /\ status[r] = "succeeded"
  BY DEF PropagateHandling
<1>2. (\A m \in P : status[m] # "absent") /\ "succeeded" \in Settled
  BY DEF Settled
<1> HIDE DEF P
<1>3. LocalTypes' /\ HelpersGoOn
  BY <1>1, LineFacts DEF local, LocalTypes, HelpersGoOn, Stands
<1>4. /\ rootOf' \in [Delivery -> Delivery \cup {None}]
      /\ rootGen' \in [Delivery -> 0..MaxMishaps]
  BY <1>1, LineFacts DEF RowTypes
<1> QED BY <1>1, <1>2, <1>3, <1>4, LeavingKeeps

\* The reserved delivery joins the batch at the tail, or finds it shut.
LEMMA JoiningKeeps ==
  ASSUME LineInv, NEW h \in Helper, Join(h)
  PROVE  /\ LineInv' /\ Others(h) /\ held' = held
         /\ UNCHANGED <<status, line, ahead, seq, gen, rootOf, rootGen, shut, lane, purge>>
         /\ \/ /\ UNCHANGED members /\ OpenBatch(h) = {} /\ pc'[h] = "again"
            \/ \E r \in OpenBatch(h) :
                  /\ members' = [members EXCEPT ![r] = @ \cup {held[h].publisher}]
                  /\ pc'[h] = "publish" /\ job'[h].id = r
<1>1. /\ UNCHANGED <<status, line, ahead, seq, gen, rootOf, rootGen, receipts, cleaning, shut>>
      /\ UNCHANGED <<lane, purge, mishaps>> /\ pc[h] = "join"
  BY DEF Join
<1>2. /\ RowTypes /\ LocalTypes /\ mishaps \in 0..MaxMishaps /\ RowsAreCounted
      /\ LineIsStaging /\ LineIsInOrder /\ CopyIsCurrent(h) /\ PurgeSound
  BY LineFacts
<1>3. RowsGoOn
  BY <1>1 DEF RowsGoOn, Published
<1>4. held[h].publisher \in Delivery
  BY <1>1, <1>2, LineFacts DEF CopyIsCurrent, Holding, Finishing
<1>5. CASE Stay(h, "again") /\ UNCHANGED members /\ OpenBatch(h) = {}
  <2>1. LocalTypes' /\ Others(h) /\ pc'[h] = "again" /\ held' = held
    BY <1>2, <1>5, StayMoves DEF Steps
  <2>2. UNCHANGED <<row, lane, purge, mishaps>>
    BY <1>1, <1>5 DEF row
  <2>3. HelperSound(h)'
    BY <1>1, <2>1, <2>2, NothingWritten, CopyMovesOn DEF Holding, Finishing, Behind
  <2> QED BY <1>1, <1>5, <2>1, <2>2, <2>3, QuietStep
<1>6. ASSUME NEW r \in OpenBatch(h),
             members' = [members EXCEPT ![r] = @ \cup {held[h].publisher}],
             WithRoot(h, {r}), Goto(h, "publish"), UNCHANGED <<target, held>>
      PROVE  LineInv' /\ Others(h) /\ held' = held /\ pc'[h] = "publish" /\ job'[h].id = r
  <2>1. r \in Delivery /\ status[r] = "pending"
    BY DEF OpenBatch
  <2>2. /\ LocalTypes' /\ Others(h) /\ pc'[h] = "publish" /\ held' = held
        /\ job'[h].id = r
    <3>1. {r} \in SUBSET Delivery
      BY <2>1
    <3>2. /\ LocalTypes' /\ Others(h) /\ pc'[h] = "publish" /\ held' = held
          /\ job'[h].id \in {r} \cup {None} /\ (job'[h].id = None => {r} = {})
      BY <1>2, <1>6, <3>1, RootMoves DEF Steps
    <3> QED BY <3>2
  <2>3. members' \in [Delivery -> SUBSET Delivery]
    BY <1>2, <1>4, <1>6, <2>1 DEF RowTypes
  <2>4. RowTypes'
    BY <1>1, <1>2, <2>3 DEF RowTypes
  <2>5. LineIsStaging' /\ LineIsInOrder' /\ RowsAreCounted'
    <3>1. \A e \in Delivery : e # r => members'[e] = members[e]
      BY <1>2, <1>6 DEF RowTypes
    <3>2. RowsAreCounted'
      BY <1>1, <1>2, <2>1, <3>1 DEF RowsAreCounted
    <3> QED BY <1>1, <1>2, <3>2, SameLine
  <2>6. HelperSound(h)'
    BY <1>1, <1>3, <2>2, <2>4, CopyGoesOn DEF Holding, Finishing, Behind
  <2>7. HelpersGoOn
    BY <2>2, <2>6 DEF HelpersGoOn, Others
  <2>8. Erased => \A e \in Delivery : status'[e] = "absent"
    BY <1>1, <1>2 DEF PurgeSound
  <2> QED BY <1>1, <1>2, <1>3, <2>2, <2>4, <2>5, <2>7, <2>8, RowStep
<1> QED BY <1>1, <1>5, <1>6 DEF Join

\* The reserved delivery is published, by itself or in a batch; in an active
\* account nothing that waits was admitted before it.
LEMMA PublicationKeeps ==
  ASSUME LineInv, NEW h \in Helper, Publish(h), IsStaging(h)
  PROVE  LET d == held[h].publisher
         IN  /\ LineInv' /\ Others(h) /\ held' = held /\ job' = job /\ pc'[h] = "release"
             /\ d \in Delivery /\ IsNext(d, held[h].gen)
             /\ account = "active" => held[h] = Reservation
             /\ ahead' = ahead \cap (Staging' \X Staging')
             /\ \A e \in Delivery : /\ seq'[e] = IF e = d THEN held[h].value ELSE seq[e]
                                    /\ status'[e] = IF e # d THEN status[e]
                                                    ELSE IF job[h].id = None THEN "pending"
                                                    ELSE "batched"
                                    /\ rootOf'[e] = IF e = d /\ job[h].id # None THEN job[h].id
                                                    ELSE rootOf[e]
             /\ UNCHANGED <<gen, members, shut, lane, purge>>
<1>0. PICK d, g : d = held[h].publisher /\ g = held[h].gen
  OBVIOUS
<1>1. /\ RowTypes /\ LocalTypes /\ mishaps \in 0..MaxMishaps /\ PurgeSound
      /\ LineIsStaging /\ LineIsInOrder /\ RowsAreCounted /\ CopyIsCurrent(h)
      /\ pc[h] = "publish"
  BY LineFacts DEF Publish
<1>2. status[d] = "staging" /\ gen[d] = g
  BY <1>0 DEF IsStaging
<1>3. d # None /\ (Over(d, g) \/ (IsNext(d, g) /\ (account = "active" => held[h] = Reservation)))
  BY <1>0, <1>1 DEF CopyIsCurrent, Holding, Finishing
<1>4. d \in Delivery /\ g \in 0..MaxMishaps
  BY <1>0, <1>3, LineFacts
<1>5. IsNext(d, g) /\ (account = "active" => held[h] = Reservation)
  BY <1>2, <1>3, <1>4, OverOrWaits DEF Waits
<1>7. PICK s \in {"pending", "batched"} :
         /\ s = IF job[h].id = None THEN "pending" ELSE "batched"
         /\ status' = [status EXCEPT ![d] = s]
  BY <1>0, <1>2 DEF Publish
<1>8. /\ seq' = [seq EXCEPT ![d] = held[h].value] /\ LeaveLine({d})
      /\ rootOf' = IF job[h].id = None THEN rootOf ELSE [rootOf EXCEPT ![d] = job[h].id]
      /\ rootGen' = IF job[h].id = None THEN rootGen ELSE [rootGen EXCEPT ![d] = job[h].gen]
      /\ UNCHANGED <<gen, members, receipts, cleaning, shut, lane, purge, mishaps>>
      /\ Stay(h, "release")
  BY <1>0, <1>2 DEF Publish
<1>9. \A e \in Delivery : /\ status'[e] = IF e = d THEN s ELSE status[e]
                          /\ seq'[e] = IF e = d THEN held[h].value ELSE seq[e]
                          /\ rootOf'[e] = IF e = d /\ job[h].id # None THEN job[h].id
                                          ELSE rootOf[e]
  BY <1>1, <1>4, <1>7, <1>8 DEF RowTypes
<1>10. /\ line' \in Seq(Delivery) /\ LineIsStaging' /\ LineIsInOrder' /\ ahead' \subseteq ahead
       /\ ahead' = ahead \cap (Staging' \X Staging')
  <2>1. \A e \in Delivery : status'[e] = "staging" <=> status[e] = "staging" /\ e \notin {d}
    BY <1>7, <1>9
  <2>2. account' = account
    BY <1>8 DEF purge
  <2> QED BY <1>1, <1>8, <2>1, <2>2, LeavesInOrder
<1>11. RowTypes'
  <2>1. status' \in [Delivery -> Statuses] /\ seq' \in [Delivery -> Nat]
    BY <1>1, <1>4, <1>7, <1>8, LineFacts DEF RowTypes, Statuses, Dispatchable
  <2>2. rootOf' \in [Delivery -> Delivery \cup {None}] /\ rootGen' \in [Delivery -> 0..MaxMishaps]
    BY <1>1, <1>4, <1>8, LineFacts DEF RowTypes
  <2> QED BY <1>1, <1>8, <1>10, <2>1, <2>2 DEF RowTypes
<1>12. RowsAreCounted'
  BY <1>1, <1>7, <1>8, <1>9 DEF RowsAreCounted
<1>13. RowsGoOn
  <2>1. \A e \in Delivery : /\ gen'[e] = gen[e]
                            /\ status[e] = "staging" => status'[e] # "absent"
                            /\ Published(e) => Published(e)'
    BY <1>7, <1>8, <1>9 DEF Published
  <2> QED BY <1>10, <2>1 DEF RowsGoOn
<1>14. /\ LocalTypes' /\ Others(h) /\ pc'[h] = "release" /\ held' = held /\ job' = job
  BY <1>1, <1>8, StayMoves DEF Steps
<1>15. HelperSound(h)'
  <2>1. Over(d, g)' 
    BY <1>2, <1>4, <1>7, <1>8, <1>9 DEF Over
  <2>2. pc[h] \in Holding /\ pc'[h] \in Holding \ {"abandon"}
    BY <1>1, <1>14 DEF Holding, Finishing, Behind
  <2>3. Over(held[h].publisher, held[h].gen)'
    BY <1>0, <1>14, <2>1
  <2> QED BY <1>8, <1>11, <1>13, <1>14, <2>2, <2>3, CopyGoesOn
<1>16. LineInv'
  <2>1. HelpersGoOn
    BY <1>14, <1>15 DEF Others, HelpersGoOn
  <2>2. ~Erased
    BY <1>1, <1>2, <1>4 DEF PurgeSound
  <2> QED BY <1>1, <1>8, <1>10, <1>11, <1>12, <1>13, <1>14, <2>1, <2>2, RowStep
<1> QED BY <1>0, <1>4, <1>5, <1>7, <1>8, <1>9, <1>10, <1>14, <1>16

\* A member that was settled before it was published gets its number.
LEMMA FixingKeeps ==
  ASSUME LineInv, NEW h \in Helper, Fix(h)
  PROVE  /\ LineInv' /\ Others(h) /\ held' = held /\ job' = job /\ pc'[h] = "refetch"
         /\ UNCHANGED <<status, line, ahead, gen, members, shut, lane, purge>>
         /\ held[h].publisher \in Delivery
         /\ \A e \in Delivery \ {held[h].publisher} : seq'[e] = seq[e] /\ rootOf'[e] = rootOf[e]
         /\ \/ UNCHANGED <<seq, rootOf, rootGen>>
            \/ rootOf'[held[h].publisher] = job[h].id /\ status[held[h].publisher] = job[h].as
<1>1. /\ RowTypes /\ LocalTypes /\ mishaps \in 0..MaxMishaps /\ PurgeSound
      /\ LineIsStaging /\ LineIsInOrder /\ RowsAreCounted /\ CopyIsCurrent(h) /\ pc[h] = "fix"
  BY LineFacts DEF Fix
<1>2. /\ UNCHANGED <<status, line, ahead, gen, members, receipts, cleaning, shut>>
      /\ UNCHANGED <<lane, purge, mishaps>> /\ Stay(h, "refetch")
  BY DEF Fix
<1>3. held[h].publisher \in Delivery /\ Over(held[h].publisher, held[h].gen)
  BY <1>1, LineFacts DEF CopyIsCurrent, Holding, Behind
<1>4. \/ UNCHANGED <<seq, rootOf, rootGen>>
      \/ /\ seq' = [seq EXCEPT ![held[h].publisher] = held[h].value]
         /\ rootOf' = [rootOf EXCEPT ![held[h].publisher] = job[h].id]
         /\ rootGen' = [rootGen EXCEPT ![held[h].publisher] = job[h].gen]
         /\ status[held[h].publisher] = job[h].as
  BY DEF Fix
<1>5. RowTypes'
  <2>1. /\ seq' \in [Delivery -> Nat] /\ rootOf' \in [Delivery -> Delivery \cup {None}]
        /\ rootGen' \in [Delivery -> 0..MaxMishaps]
    BY <1>1, <1>3, <1>4, LineFacts DEF RowTypes
  <2> QED BY <1>1, <1>2, <2>1 DEF RowTypes
<1>6. LocalTypes' /\ Others(h) /\ pc'[h] = "refetch" /\ held' = held /\ job' = job
  BY <1>1, <1>2, StayMoves DEF Steps
<1>7. RowsGoOn
  BY <1>2 DEF RowsGoOn, Published
<1>8. HelperSound(h)'
  <2>1. OverStays
    BY <1>2, <1>5, <1>7, RowsStay
  <2>2. Over(held[h].publisher, held[h].gen)'
    <3>1. PICK d, g : d = held[h].publisher /\ g = held[h].gen
      OBVIOUS
    <3>2. d \in Delivery /\ g \in 0..MaxMishaps /\ Over(d, g)
      BY <1>3, <3>1, LineFacts
    <3>3. Over(d, g)'
      BY <2>1, <3>2 DEF OverStays
    <3> QED BY <1>6, <3>1, <3>3
  <2> QED BY <1>1, <1>2, <1>5, <1>6, <1>7, <2>2, CopyGoesOn DEF Holding, Behind
<1>9. LineInv'
  <2>1. HelpersGoOn
    BY <1>6, <1>8 DEF Others, HelpersGoOn
  <2>2. LineIsStaging' /\ LineIsInOrder' /\ RowsAreCounted'
    BY <1>1, <1>2, SameLine DEF RowsAreCounted
  <2>3. Erased => \A e \in Delivery : status'[e] = "absent"
    BY <1>1, <1>2 DEF PurgeSound
  <2> QED BY <1>1, <1>2, <1>5, <1>6, <1>7, <2>1, <2>2, <2>3, RowStep
<1>10. \A e \in Delivery \ {held[h].publisher} : seq'[e] = seq[e] /\ rootOf'[e] = rootOf[e]
  BY <1>1, <1>4 DEF RowTypes
<1>11. \/ UNCHANGED <<seq, rootOf, rootGen>>
       \/ rootOf'[held[h].publisher] = job[h].id /\ status[held[h].publisher] = job[h].as
  BY <1>1, <1>3, <1>4 DEF RowTypes
<1> QED BY <1>2, <1>3, <1>6, <1>9, <1>10, <1>11

\* A step of dispatch.
Outcome(d) == Claim(d) \/ GiveBack(d) \/ \E h \in Helper : Settle(h, d) \/ Retire(h, d)

\* A published delivery is leased, given back, settled or withdrawn, which a dead
\* letter may be, too.
LEMMA OutcomesKeep ==
  ASSUME LineInv, NEW d \in Delivery, Outcome(d)
  PROVE  /\ LineInv' /\ status[d] \in Dispatchable \cup {"dead"} /\ held' = held
         /\ status[d] = "dead" => d \notin Coalescing
         /\ \E s \in Dispatchable \cup Settled :
               /\ \A e \in Delivery : status'[e] = IF e = d THEN s ELSE status[e]
               /\ s = "leased" => d \notin Coalescing \/ d \in shut
               /\ s = "pending" => status[d] = "leased"
               /\ s \in Settled => d \notin Coalescing \/ status[d] = "leased"
         /\ UNCHANGED <<line, ahead, seq, gen, members, rootOf, rootGen, shut, lane, purge>>
         /\ UNCHANGED local \/ \E h \in Helper :
               /\ Others(h) /\ pc'[h] \in {"request", "settle"}
               /\ pc'[h] = "settle" => /\ job'[h].id = d /\ job'[h].gen = gen[d]
                                       /\ job'[h].as = status'[d] /\ members[d] # {}
<1>1. /\ RowTypes /\ LocalTypes /\ mishaps \in 0..MaxMishaps /\ PurgeSound
      /\ LineIsStaging /\ LineIsInOrder /\ RowsAreCounted
  BY LineFacts
<1>2. /\ status[d] \in Dispatchable \cup {"dead"}
      /\ UNCHANGED <<line, ahead, seq, gen, members, rootOf, rootGen, receipts, shut>>
      /\ UNCHANGED <<lane, purge, mishaps, held>>
      /\ cleaning' \in {cleaning, cleaning \cup {d}}
  BY DEF Outcome, Claim, GiveBack, Settle, Complete, DeadLetter, Conclude, Retire,
     Dispatchable, Settled, local
<1>3. \E s \in Dispatchable \cup Settled :
         /\ status' = [status EXCEPT ![d] = s]
         /\ s = "leased" => d \notin Coalescing \/ d \in shut
         /\ s = "pending" => status[d] = "leased"
         /\ s \in Settled => d \notin Coalescing \/ status[d] = "leased"
  <2>1. CASE Claim(d)
    BY <2>1 DEF Claim, Dispatchable, Settled
  <2>2. CASE GiveBack(d)
    BY <2>2 DEF GiveBack, Dispatchable, Settled
  <2>3. ASSUME NEW h \in Helper, Settle(h, d)
        PROVE  status[d] = "leased" /\ \E s \in Settled : status' = [status EXCEPT ![d] = s]
    BY <2>3 DEF Settle, Complete, DeadLetter, Conclude, Settled
  <2>4. ASSUME NEW h \in Helper, Retire(h, d)
        PROVE  d \notin Coalescing /\ status' = [status EXCEPT ![d] = "succeeded"]
    BY <2>4 DEF Retire
  <2>5. "succeeded" \in Settled /\ Settled \cap Dispatchable = {}
        /\ "leased" \notin Settled /\ "pending" \notin Settled
    BY DEF Settled, Dispatchable
  <2> QED BY <2>1, <2>2, <2>3, <2>4, <2>5 DEF Outcome
<1>4. PICK s \in Dispatchable \cup Settled :
         /\ status' = [status EXCEPT ![d] = s]
         /\ s = "leased" => d \notin Coalescing \/ d \in shut
         /\ s = "pending" => status[d] = "leased"
         /\ s \in Settled => d \notin Coalescing \/ status[d] = "leased"
  BY <1>3
<1>5. \A e \in Delivery : status'[e] = IF e = d THEN s ELSE status[e]
  BY <1>1, <1>4 DEF RowTypes
<1>6. RowTypes'
  <2>1. status' \in [Delivery -> Statuses] /\ cleaning' \subseteq Delivery
    BY <1>1, <1>2, <1>4 DEF RowTypes, Statuses
  <2> QED BY <1>1, <1>2, <2>1 DEF RowTypes
<1>7. LineIsStaging' /\ LineIsInOrder' /\ RowsAreCounted'
  <2>1. \A e \in Delivery : status'[e] = "staging" <=> status[e] = "staging"
    BY <1>2, <1>5 DEF Dispatchable, Settled
  <2>2. RowsAreCounted'
    BY <1>1, <1>2, <1>5 DEF RowsAreCounted, Dispatchable, Settled
  <2> QED BY <1>1, <1>2, <2>1, <2>2, SameLine
<1>8. RowsGoOn
  <2>1. \A e \in Delivery : /\ Published(e) => Published(e)'
                            /\ status[e] = "staging" => status'[e] # "absent"
    BY <1>2, <1>5 DEF Published, Dispatchable, Settled
  <2> QED BY <1>2, <2>1 DEF RowsGoOn
<1>9. /\ LocalTypes' /\ HelpersGoOn
      /\ UNCHANGED local \/ \E h \in Helper :
            /\ Others(h) /\ pc'[h] \in {"request", "settle"}
            /\ pc'[h] = "settle" => /\ job'[h].id = d /\ job'[h].gen = gen[d]
                                    /\ job'[h].as = status'[d] /\ members[d] # {}
  <2>1. CASE UNCHANGED local
    BY <1>1, <2>1 DEF local, LocalTypes, HelpersGoOn, Stands
  <2>2. ASSUME NEW h \in Helper, NEW p \in {"request", "settle"}, NEW j \in Job,
               Goto(h, p), job' = [job EXCEPT ![h] = j], UNCHANGED <<target, held>>,
               j.id = d, j.gen = gen[d], j.as \in Settled,
               p = "settle" => j.as = status'[d] /\ members[d] # {}
        PROVE  /\ LocalTypes' /\ HelpersGoOn
               /\ Others(h) /\ pc'[h] \in {"request", "settle"}
               /\ pc'[h] = "settle" => /\ job'[h].id = d /\ job'[h].gen = gen[d]
                                       /\ job'[h].as = status'[d] /\ members[d] # {}
    <3>1. p \in Steps
      BY DEF Steps
    <3>2. LocalTypes' /\ Others(h) /\ pc'[h] = p /\ job'[h] = j
      BY <1>1, <2>2, <3>1, JobMoves
    <3>3. HelperSound(h)'
      <4>1. CASE p = "request"
        BY <3>2, <4>1, ResetIsSound DEF Holding, Finishing, Behind
      <4>2. CASE p = "settle"
        BY <2>2, <3>2, <4>2, Names DEF HelperSound, ChosenIsNext, CopyIsCurrent, HasOutcome,
           Holding, Finishing, Behind
      <4> QED BY <4>1, <4>2
    <3>4. HelpersGoOn
      BY <3>2, <3>3 DEF HelpersGoOn, Others
    <3> QED BY <2>2, <3>2, <3>4
  <2>3. ASSUME ~UNCHANGED local
        PROVE  \E h \in Helper, p \in {"request", "settle"}, j \in Job :
                  /\ Goto(h, p) /\ job' = [job EXCEPT ![h] = j] /\ UNCHANGED <<target, held>>
                  /\ j.id = d /\ j.gen = gen[d] /\ j.as \in Settled
                  /\ p = "settle" => j.as = status'[d] /\ members[d] # {}
    <3>1. PICK h \in Helper : Complete(h, d) \/ DeadLetter(h, d) \/ Retire(h, d)
      BY <2>3 DEF Outcome, Claim, GiveBack, Settle
    <3>2. "succeeded" \in Settled /\ "dead" \in Settled /\ Settled \subseteq Statuses
      BY DEF Settled, Statuses
    <3>3. CASE Retire(h, d)
      <4>1. PICK j : j = [id |-> d, gen |-> gen[d], as |-> "succeeded", stamp |-> d]
        OBVIOUS
      <4>2. j \in Job /\ j.id = d /\ j.gen = gen[d] /\ j.as \in Settled
        BY <1>1, <3>2, <4>1 DEF Job, RowTypes
      <4>3. Goto(h, "request") /\ job' = [job EXCEPT ![h] = j] /\ UNCHANGED <<target, held>>
        BY <3>3, <4>1 DEF Retire
      <4> QED BY <4>2, <4>3
    <3>4. ASSUME NEW o \in Settled, Conclude(h, d, o)
          PROVE  \E p \in {"request", "settle"}, j \in Job :
                    /\ Goto(h, p) /\ job' = [job EXCEPT ![h] = j] /\ UNCHANGED <<target, held>>
                    /\ j.id = d /\ j.gen = gen[d] /\ j.as \in Settled
                    /\ p = "settle" => j.as = status'[d] /\ members[d] # {}
      <4>1. PICK j : j = [id |-> d, gen |-> gen[d], as |-> o,
                          stamp |-> IF o = "succeeded" THEN d ELSE None]
        OBVIOUS
      <4>2. j \in Job /\ j.id = d /\ j.gen = gen[d] /\ j.as = o
        BY <1>1, <3>2, <4>1 DEF Job, RowTypes
      <4>3. PICK p \in {"request", "settle"} :
               Goto(h, p) /\ p = IF members[d] = {} THEN "request" ELSE "settle"
        BY <2>3, <3>4 DEF Conclude
      <4>4. job' = [job EXCEPT ![h] = j] /\ UNCHANGED <<target, held>>
        BY <2>3, <3>4, <4>1 DEF Conclude
      <4>5. o = status'[d]
        BY <1>1, <3>4 DEF Conclude, RowTypes
      <4> QED BY <4>2, <4>3, <4>4, <4>5
    <3> QED BY <3>1, <3>2, <3>3, <3>4 DEF Complete, DeadLetter
  <2> QED BY <2>1, <2>2, <2>3
<1>10. LineInv'
  <2>1. Erased => \A e \in Delivery : status'[e] = "absent"
    BY <1>1, <1>2 DEF PurgeSound, Dispatchable
  <2> QED BY <1>1, <1>2, <1>6, <1>7, <1>8, <1>9, <2>1, RowStep
<1>11. status[d] = "dead" => d \notin Coalescing
  BY DEF Outcome, Claim, GiveBack, Settle, Complete, DeadLetter, Conclude, Retire, Dispatchable
<1> QED BY <1>2, <1>4, <1>5, <1>9, <1>10, <1>11

\* The window of a delivery passes.
LEMMA WindowsKeep ==
  ASSUME LineInv, NEW d \in Delivery, ShutWindow(d)
  PROVE  /\ LineInv' /\ shut \subseteq shut'
         /\ UNCHANGED <<status, line, ahead, seq, gen, members, rootOf, rootGen, lane, purge, local>>
<1>1. /\ RowTypes /\ LocalTypes /\ mishaps \in 0..MaxMishaps /\ PurgeSound
      /\ LineIsStaging /\ LineIsInOrder /\ RowsAreCounted
  BY LineFacts
<1>2. /\ UNCHANGED <<status, line, ahead, seq, gen, members, rootOf, rootGen, receipts, cleaning>>
      /\ UNCHANGED <<lane, purge, local, mishaps>>
      /\ shut' = shut \cup {d} \cup RootOf(d)
  BY DEF ShutWindow
<1>3. RowTypes' /\ LocalTypes'
  BY <1>1, <1>2 DEF RowTypes, LocalTypes, local, RootOf
<1>4. RowsGoOn /\ LineIsStaging' /\ LineIsInOrder' /\ RowsAreCounted' /\ HelpersGoOn
  BY <1>1, <1>2, SameLine DEF RowsGoOn, Published, RowsAreCounted, HelpersGoOn, Stands, local
<1>5. LineInv'
  BY <1>1, <1>2, <1>3, <1>4, RowStep DEF PurgeSound
<1> QED BY <1>2, <1>5

(***************************************************************************)
(* The deletion of the account.                                            *)
(***************************************************************************)

\* Sorting deliveries by their ids.
LEMMA SortedItems ==
  ASSUME NEW D \in SUBSET Delivery
  PROVE  ById(D) \in Seq(Delivery) /\ Distinct(ById(D)) /\ Items(ById(D)) = D
<1> DEFINE q == [d \in Delivery |-> d]
<1>1. q \in Seq(Delivery) /\ Items(q) = Delivery /\ Distinct(q)
  <2>1. Delivery = 1..NumDeliveries /\ NumDeliveries \in Nat
    BY BoundsAssumption DEF Delivery
  <2>2. q \in Seq(Delivery)
    BY <2>1, SeqDef
  <2> QED BY <2>2 DEF Items, Distinct
<1>2. ById(D) = Within(q, D)
  BY DEF ById
<1> HIDE DEF q
<1>3. /\ Within(q, D) \in Seq(Delivery) /\ Items(Within(q, D)) = Items(q) \cap D
      /\ Distinct(Within(q, D))
  BY <1>1, WithinItems
<1> QED BY <1>1, <1>2, <1>3

\* A step of the deletion that keeps the rows, and the helpers where they are.
LEMMA PurgeStep ==
  ASSUME LineInv, UNCHANGED <<status, seq, gen, members, rootOf, rootGen, receipts, cleaning>>,
         UNCHANGED <<ahead, shut, local>>, line' \in Seq(Delivery), Items(line') = Items(line),
         Distinct(line'), PurgeTypes', PurgeSound', Erased' <=> Erased,
         mishaps' \in 0..MaxMishaps, mishaps' >= mishaps,
         account' # "active", UNCHANGED lane \/ (LaneTypes' /\ publisher' = None)
  PROVE  LineInv'
<1>1. /\ RowTypes /\ LaneTypes /\ LocalTypes /\ LineIsStaging /\ LineIsInOrder
      /\ RowsAreCounted /\ mishaps \in 0..MaxMishaps
  BY LineFacts
<1>2. RowTypes' /\ LocalTypes' /\ LaneTypes'
  BY <1>1 DEF RowTypes, LaneTypes, LocalTypes, lane, local
<1>3. RowsAreCounted' /\ LineIsStaging' /\ LineIsInOrder'
  <2>1. Staging' = Staging
    BY DEF Staging
  <2>2. RowsAreCounted'
    BY <1>1, BoundsAssumption DEF RowTypes, RowsAreCounted
  <2> QED BY <1>1, <2>1, <2>2 DEF LineIsStaging, LineIsInOrder
<1>4. OverStays /\ NextStays
  BY DEF OverStays, NextStays, Over, IsNext, Waits
<1>5. HelpersGoOn
  BY DEF HelpersGoOn, Stands, local
<1>6. LaneStands \/ ReservedIsNext'
  BY DEF LaneStands, lane, ReservedIsNext
<1>7. TypeOK'
  BY <1>2, TypePartsNext
<1> QED BY <1>3, <1>4, <1>5, <1>6, <1>7, StepIsSound

\* The deletion begins, closes the rows, is called off or commits, the lane is
\* erased, and the marker goes.
Deletion == FenceAccount \/ CloseRows \/ CallOff \/ Spare \/ DeleteAccount \/ EraseLane \/ EndPurge
LEMMA DeletionKeeps ==
  ASSUME LineInv, Deletion
  PROVE  /\ LineInv' /\ account' # "active"
         /\ UNCHANGED <<status, ahead, seq, gen, members, rootOf, rootGen, shut, local>>
<1> USE DEF Deletion
<1>1. /\ RowTypes /\ LaneTypes /\ LineIsStaging /\ PurgeTypes /\ PurgeSound
      /\ mishaps \in 0..MaxMishaps
  BY LineFacts
<1>2. /\ UNCHANGED <<status, ahead, seq, gen, members, rootOf, rootGen, receipts, cleaning>>
      /\ UNCHANGED <<shut, local>> /\ account' # "active"
  BY DEF FenceAccount, CloseRows, CallOff, Spare, DeleteAccount, EraseLane, EndPurge, row
<1>3. line' \in Seq(Delivery) /\ Items(line') = Items(line) /\ Distinct(line')
  <2>1. Items(line) \subseteq Delivery
    BY <1>1 DEF LineIsStaging, Staging
  <2>2. CASE CloseRows
    BY <2>1, <2>2, SortedItems DEF CloseRows
  <2>3. CASE CallOff
    <3>1. PICK p, q : p = Without(line, fenced) /\ q = ById(Items(line) \cap fenced)
      OBVIOUS
    <3>2. /\ p \in Seq(Delivery) /\ Items(p) = Items(line) \ fenced /\ Distinct(p)
      BY <1>1, <3>1, WithoutItems DEF RowTypes, LineIsStaging
    <3>3. q \in Seq(Delivery) /\ Items(q) = Items(line) \cap fenced /\ Distinct(q)
      BY <2>1, <3>1, SortedItems
    <3>4. PICK k \in 0..Len(p) : line' = SubSeq(p, 1, k) \o q \o SubSeq(p, k + 1, Len(p))
      BY <2>3, <3>1 DEF CallOff
    <3>5. Items(p) \cap Items(q) = {} /\ Items(p) \cup Items(q) = Items(line)
      BY <3>2, <3>3
    <3>6. PICK r : r = SubSeq(p, 1, k) \o q \o SubSeq(p, k + 1, Len(p))
      OBVIOUS
    <3>7. p \in Seq(Delivery) /\ q \in Seq(Delivery) /\ Distinct(p) /\ Distinct(q)
      BY <3>2, <3>3
    <3>8. r \in Seq(Delivery) /\ Distinct(r) /\ Items(r) = Items(p) \cup Items(q)
      BY <3>5, <3>6, <3>7, InsertItems
    <3>9. line' = r
      BY <3>4, <3>6
    <3> QED BY <3>5, <3>8, <3>9
  <2>4. CASE line' = line
    BY <1>1, <2>4 DEF RowTypes, LineIsStaging
  <2> QED BY <2>2, <2>3, <2>4
          DEF FenceAccount, Spare, DeleteAccount, EraseLane, EndPurge, row
<1>4. PurgeTypes' /\ PurgeSound' /\ (Erased' <=> Erased)
  <2>1. PurgeTypes'
    BY <1>1 DEF FenceAccount, CloseRows, CallOff, Spare, DeleteAccount, EraseLane, EndPurge,
       PurgeTypes, Accounts
  <2>2. Erased' <=> Erased
    BY DEF FenceAccount, CloseRows, CallOff, Spare, DeleteAccount, EraseLane, EndPurge, Erased
  <2>3. /\ account' \in {"active", "spared"} => ~marker'
        /\ account' \in {"closing", "deleting", "opening", "gone", "rowless", "laneless"} => marker'
    BY <1>1 DEF FenceAccount, CloseRows, CallOff, Spare, DeleteAccount, EraseLane, EndPurge,
       PurgeSound
  <2> QED BY <1>1, <1>2, <2>1, <2>2, <2>3 DEF PurgeSound
<1>5. mishaps' \in 0..MaxMishaps /\ mishaps' >= mishaps
  <2>1. CASE FenceAccount
    BY <1>1, <2>1, BoundsAssumption DEF FenceAccount, Befalls
  <2>2. CASE ~FenceAccount
    <3>1. mishaps' = mishaps
      BY <2>2 DEF CloseRows, CallOff, Spare, DeleteAccount, EraseLane, EndPurge
    <3> QED BY <1>1, <3>1, BoundsAssumption
  <2> QED BY <2>1, <2>2
<1>6. UNCHANGED lane \/ (LaneTypes' /\ publisher' = None)
  <2>1. CASE EraseLane
    BY <2>1, Names DEF EraseLane, DropLane, LaneTypes
  <2>2. CASE ~EraseLane
    BY <2>2 DEF FenceAccount, CloseRows, CallOff, Spare, DeleteAccount, EndPurge
  <2> QED BY <2>1, <2>2
<1> QED BY <1>2, <1>3, <1>4, <1>5, <1>6, PurgeStep

\* The rows are erased, and nobody waits any more.
LEMMA ErasureKeeps ==
  ASSUME LineInv, EraseRows
  PROVE  /\ LineInv' /\ Erased' /\ UNCHANGED <<lane, local>> /\ ahead' = {}
         /\ account \notin {"active", "spared"} /\ account' # "active"
         /\ \A d \in Delivery : status'[d] = "absent" /\ members'[d] = {}
<1>1. /\ RowTypes /\ LaneTypes /\ LocalTypes /\ PurgeTypes /\ PurgeSound
      /\ mishaps \in 0..MaxMishaps
  BY LineFacts
<1>2. /\ status' = [d \in Delivery |-> "absent"] /\ line' = <<>> /\ ahead' = {}
      /\ seq' = [d \in Delivery |-> 0] /\ gen' = [d \in Delivery |-> 0]
      /\ members' = [d \in Delivery |-> {}]
      /\ rootOf' = [d \in Delivery |-> None] /\ rootGen' = [d \in Delivery |-> 0]
      /\ receipts' = {} /\ cleaning' = {} /\ UNCHANGED shut
      /\ UNCHANGED <<lane, local, mishaps, marker, fenced>>
      /\ account' \in {"rowless", "empty"} /\ (account' = "rowless" => account = "gone")
      /\ account \in {"gone", "laneless"}
  BY DEF EraseRows
<1>3. /\ RowTypes' /\ LaneTypes' /\ LocalTypes' /\ PurgeTypes' /\ mishaps' \in 0..MaxMishaps
  <2>1. RowTypes'
    BY <1>1, <1>2, EmptySeq, Names DEF RowTypes, Statuses
  <2> QED BY <1>1, <1>2, <2>1 DEF LaneTypes, LocalTypes, PurgeTypes, Accounts, lane, local
<1>4. LineIsStaging' /\ LineIsInOrder' /\ RowsAreCounted' /\ PurgeSound' /\ Erased'
  <2>1. LineIsStaging' /\ LineIsInOrder'
    BY <1>2 DEF LineIsStaging, LineIsInOrder, Staging, Items, Distinct
  <2>2. RowsAreCounted'
    BY <1>1, <1>2, BoundsAssumption DEF RowsAreCounted
  <2> QED BY <1>1, <1>2, <2>1, <2>2 DEF PurgeSound, Erased
<1>5. OverStays /\ NextStays
  BY <1>4 DEF OverStays, NextStays, Over
<1>6. HelpersGoOn /\ LaneStands
  BY <1>2 DEF HelpersGoOn, Stands, local, LaneStands, lane
<1>7. TypeOK'
  BY <1>3, TypePartsNext
<1> QED BY <1>2, <1>4, <1>5, <1>6, <1>7, StepIsSound

(***************************************************************************)
(* Every step keeps the line.                                              *)
(***************************************************************************)

\* In the beginning there is nothing.
LEMMA InitLine == Init => LineInv
<1> SUFFICES ASSUME Init PROVE LineInv
  OBVIOUS
<1>1. RowTypes /\ LaneTypes /\ PurgeTypes /\ LocalTypes /\ mishaps \in 0..MaxMishaps
  <2>1. RowTypes
    BY EmptySeq, Names DEF Init, RowTypes, Statuses
  <2>2. LaneTypes /\ PurgeTypes
    BY Names DEF Init, LaneTypes, PurgeTypes, Accounts
  <2> QED BY <2>1, <2>2, EmptyHands, Names DEF Init, LocalTypes, Steps
<1>2. LineIsStaging /\ LineIsInOrder /\ RowsAreCounted
  BY Names DEF Init, LineIsStaging, LineIsInOrder, Staging, Items, Distinct, RowsAreCounted
<1>3. PurgeSound /\ ReservedIsNext /\ \A h \in Helper : HelperSound(h)
  BY DEF Init, PurgeSound, Erased, ReservedIsNext, HelperSound, ChosenIsNext, CopyIsCurrent,
     HasOutcome, Holding, Finishing, Behind
<1> QED BY <1>1, <1>2, <1>3, TypeParts DEF LineInv, LineSound

\* A step of publication.
LEMMA PublicationStep ==
  ASSUME LineInv, NEW h \in Helper, Publication(h)
  PROVE  LineInv' /\ Others(h)
<1>1. CASE ReadRow(h) \/ ReadMarker(h)
  BY <1>1, LooksKeep
<1>2. CASE Prepare(h)
  BY <1>2, PreparationKeeps
<1>3. CASE ReadLane(h)
  BY <1>3, CopiesKeep
<1>4. CASE ReadLaneMarker(h) \/ Recheck(h)
  BY <1>4, SecondLooksKeep
<1>5. CASE ReadNext(h)
  BY <1>5, ChoiceKeeps
<1>6. CASE Acquire(h)
  BY <1>6, ReservationKeeps, EndsKeep
<1>7. CASE FindRoot(h) \/ FindAgain(h)
  BY <1>7, RootLooksKeep
<1>8. CASE Join(h)
  BY <1>8, JoiningKeeps
<1>9. CASE Publish(h)
  BY <1>9, PublicationKeeps, FailureKeeps
<1>10. CASE ReadCurrent(h) \/ ReadFixed(h)
  BY <1>10, FailureKeeps
<1>11. CASE Fix(h)
  BY <1>11, FixingKeeps
<1>12. CASE Release(h) \/ Abandon(h)
  BY <1>12, FreeingKeeps, EndsKeep
<1> QED BY <1>1, <1>2, <1>3, <1>4, <1>5, <1>6, <1>7, <1>8, <1>9, <1>10, <1>11, <1>12
        DEF Publication

\* A step of a settlement or of maintenance.
LEMMA SettlementStep ==
  ASSUME LineInv, NEW h \in Helper, Settlement(h) \/ Maintenance(h)
  PROVE  LineInv' /\ Others(h)
<1>1. CASE SettleMembers(h)
  BY <1>1, SettlementKeeps
<1>2. CASE MarkReceipts(h) \/ RequestCleanup(h) \/ ClearCleaning(h) \/ Unrequest(h)
  BY <1>2, RequestsKeep
<1>3. CASE ReadRequest(h) \/ ReadRetained(h)
  BY <1>3, ReclaimersKeep
<1>4. CASE DeleteLane(h)
  BY <1>4, FreeingKeeps, EndsKeep
<1>5. CASE TakeLane(h)
  BY <1>5, CopiesKeep
<1>6. CASE TakeRequest(h) \/ \E d \in Delivery : TakeReceipts(h, d) \/ TakeCleaning(h, d)
  BY <1>6, TakesKeep
<1>7. CASE \E d \in Delivery : TakeRow(h, d)
  BY <1>7, EndsKeep
<1> QED BY <1>1, <1>2, <1>3, <1>4, <1>5, <1>6, <1>7 DEF Settlement, Maintenance

\* Every step keeps the line sound.
LEMMA LineStep ==
  ASSUME LineInv, [Next]_vars
  PROVE  LineInv'
<1>1. CASE UNCHANGED vars
  <2>1. UNCHANGED <<row, lane, purge, local, mishaps>>
    BY <1>1 DEF vars
  <2>2. LocalTypes' /\ HelpersGoOn
    BY <2>1, LineFacts DEF local, LocalTypes, HelpersGoOn, Stands
  <2> QED BY <2>1, <2>2, NothingWritten, TypePartsNext, SameStep
<1>2. ASSUME NEW d \in Delivery,
             \/ \E h \in Helper : Enqueue(h, d) \/ Requeue(h, d) \/ Settle(h, d) \/ Retire(h, d)
             \/ Claim(d) \/ GiveBack(d) \/ ShutWindow(d) \/ PropagateHandling(d)
      PROVE  LineInv'
  BY <1>2, AdmissionKeeps, OutcomesKeep, WindowsKeep, HandlingKeeps DEF Outcome
<1>3. CASE Purge
  BY <1>3, DeletionKeeps, ErasureKeeps DEF Purge, Deletion
<1> QED BY <1>1, <1>2, <1>3, PublicationStep, SettlementStep, CrashKeeps DEF Next


(***************************************************************************)
(* The steps by what they write.                                           *)
(***************************************************************************)

\* A helper's step that writes neither what the line and the batches are made of nor
\* the account.
Looking(h) ==
    \/ ReadRow(h) \/ ReadMarker(h) \/ ReadLane(h) \/ TakeLane(h)
    \/ ReadLaneMarker(h) \/ Recheck(h) \/ ReadNext(h) \/ Acquire(h)
    \/ FindRoot(h) \/ FindAgain(h) \/ (Publish(h) /\ ~IsStaging(h))
    \/ ReadCurrent(h) \/ ReadFixed(h) \/ Release(h) \/ Abandon(h) \/ DeleteLane(h)
    \/ MarkReceipts(h) \/ RequestCleanup(h) \/ ClearCleaning(h) \/ Unrequest(h)
    \/ ReadRequest(h) \/ ReadRetained(h) \/ Crash(h) \/ TakeRequest(h)
    \/ \E d \in Delivery : TakeRow(h, d) \/ TakeReceipts(h, d) \/ TakeCleaning(h, d)

Rows == <<status, line, ahead, seq, gen, members, rootOf, rootGen, shut, marker, account>>

LEMMA LooksWriteNoRows ==
  ASSUME NEW h \in Helper, Looking(h)
  PROVE  UNCHANGED Rows
<1>1. CASE \/ ReadRow(h) \/ ReadMarker(h) \/ ReadLane(h) \/ TakeLane(h)
           \/ ReadLaneMarker(h) \/ Recheck(h) \/ ReadNext(h) \/ Acquire(h)
           \/ FindRoot(h) \/ FindAgain(h)
  BY <1>1 DEF ReadRow, ReadMarker, ReadLane, TakeLane, ReadLaneMarker, Recheck, ReadNext,
     Acquire, FindRoot, FindAgain, Rows, row, purge
<1>2. CASE \/ Publish(h) /\ ~IsStaging(h)
           \/ ReadCurrent(h) \/ ReadFixed(h) \/ Release(h) \/ Abandon(h) \/ DeleteLane(h)
  BY <1>2 DEF Publish, ReadCurrent, ReadFixed, Release, Abandon, DeleteLane, Rows, row, purge
<1>3. CASE \/ MarkReceipts(h) \/ RequestCleanup(h) \/ ClearCleaning(h) \/ Unrequest(h)
           \/ ReadRequest(h) \/ ReadRetained(h) \/ Crash(h) \/ TakeRequest(h)
  BY <1>3 DEF MarkReceipts, RequestCleanup, ClearCleaning, Unrequest, ReadRequest,
     ReadRetained, Crash, TakeRequest, Rows, row, purge
<1>4. CASE \E d \in Delivery : TakeRow(h, d) \/ TakeReceipts(h, d) \/ TakeCleaning(h, d)
  BY <1>4 DEF TakeRow, TakeReceipts, TakeCleaning, Rows, row, purge
<1> QED BY <1>1, <1>2, <1>3, <1>4 DEF Looking

\* Every other step writes rows or is one of the deletion.
LEMMA StepsAre ==
  ASSUME [Next]_vars
  PROVE  \/ UNCHANGED vars
         \/ \E h \in Helper :
               \/ Looking(h) \/ Prepare(h) \/ SettleMembers(h) \/ Join(h) \/ Fix(h)
               \/ Publish(h) /\ IsStaging(h)
               \/ \E d \in Delivery : Enqueue(h, d) \/ Requeue(h, d)
         \/ \E d \in Delivery : Outcome(d) \/ ShutWindow(d) \/ PropagateHandling(d)
         \/ Deletion \/ EraseRows
<1>1. \A h \in Helper :
         Publication(h) \/ Settlement(h) \/ Maintenance(h) \/ Crash(h) =>
            \/ Looking(h) \/ Prepare(h) \/ SettleMembers(h) \/ Join(h) \/ Fix(h)
            \/ Publish(h) /\ IsStaging(h)
  BY DEF Publication, Settlement, Maintenance, Looking
<1> QED BY <1>1 DEF Next, Outcome, Purge, Deletion

(***************************************************************************)
(* The batches.                                                            *)
(***************************************************************************)

\* A settled root stays what it is until it is requeued, joins a batch itself or is
\* erased, and nobody leaves a batch.
RootsStay ==
    /\ Erased => Erased'
    /\ Erased' \/ /\ \A r \in Delivery : members[r] \subseteq members'[r]
                  /\ \A r \in Delivery :
                        \/ gen'[r] > gen[r] \/ RootOf(r)' # {}
                        \/ /\ gen'[r] = gen[r]
                           /\ status[r] \in Settled /\ members[r] # {} =>
                                 status'[r] = status[r]

\* A helper that goes on owes its settlement to the root's outcome and its root to
\* the batch it found, or stands still.
HelpersFollow ==
    \A k \in Helper : Stands(k) \/ (SettlesForRoot(k)' /\ FindsRoot(k)')

\* Such a step keeps the batches.
LEMMA BatchStep ==
  ASSUME LineInv, RowTypes', BatchInv, MembersCoalesce', RootsCoalesce', RootsStay,
         HelpersFollow
  PROVE  BatchInv'
<1> SUFFICES ASSUME NEW k \in Helper, Stands(k)
             PROVE  SettlesForRoot(k)' /\ FindsRoot(k)'
  BY DEF BatchInv, HelpersFollow
<1>1. SettlesForRoot(k) /\ FindsRoot(k)
  BY DEF BatchInv
<1>2. pc'[k] = pc[k] /\ held'[k] = held[k] /\ job'[k] = job[k]
  BY DEF Stands
<1>3. ASSUME pc[k] = "settle", ~Erased'
      PROVE  SettlesForRoot(k)'
  <2>1. PICK r, g, s : r = job[k].id /\ g = job[k].gen /\ s = job[k].as
    OBVIOUS
  <2>2. r \in Delivery /\ s \in Settled /\ g \in Nat
    BY <1>3, <2>1, LineFacts, Names DEF HasOutcome
  <2>3. gen[r] \in Nat /\ gen'[r] \in Nat
    BY <2>2, LineFacts, Names DEF RowTypes
  <2>4. \/ gen[r] > g \/ RootOf(r) # {}
        \/ gen[r] = g /\ status[r] = s /\ members[r] # {}
    BY <1>1, <1>3, <2>1 DEF SettlesForRoot, RootsStay
  <2>5. RootOf(r) # {} => RootOf(r)' # {}
    BY <1>3 DEF RootsStay, RootOf
  <2>6. \/ gen'[r] > g \/ RootOf(r)' # {}
        \/ gen'[r] = g /\ status'[r] = s /\ members'[r] # {}
    BY <1>3, <2>2, <2>3, <2>4, <2>5 DEF RootsStay
  <2>7. job'[k].id = r /\ job'[k].gen = g /\ job'[k].as = s
    BY <1>2, <2>1
  <2> QED BY <2>6, <2>7 DEF SettlesForRoot
<1> QED BY <1>1, <1>2, <1>3 DEF SettlesForRoot, FindsRoot

\* A helper that settles nothing and looks for no root owes nothing.
Free(k) == pc'[k] \notin {"settle", "join", "again", "publish", "current", "fix"}
LEMMA FreeFollows ==
  ASSUME NEW h \in Helper, Others(h), Free(h)
  PROVE  HelpersFollow
BY DEF HelpersFollow, Free, Others, SettlesForRoot, FindsRoot

\* One that looks for a root, or has one, for a delivery that coalesces.
LEMMA FinderFollows ==
  ASSUME NEW h \in Helper, Others(h), pc'[h] \in {"join", "again", "publish", "current", "fix"},
         pc'[h] \in {"join", "again"} \/ job'[h].id # None => held'[h].publisher \in Coalescing
  PROVE  HelpersFollow
BY DEF HelpersFollow, Others, SettlesForRoot, FindsRoot

\* A step that leaves alone what batches are made of, and the account.
LEMMA StillStep ==
  ASSUME LineInv, BatchInv, UNCHANGED <<status, gen, members, rootOf, account>>,
         HelpersFollow
  PROVE  BatchInv'
<1>1. MembersCoalesce' /\ RootsCoalesce'
  BY DEF BatchInv, MembersCoalesce, RootsCoalesce
<1>2. \A k \in Helper : Stands(k) => SettlesForRoot(k)' /\ FindsRoot(k)'
  BY DEF BatchInv, Stands, SettlesForRoot, FindsRoot, Erased, RootOf
<1> QED BY <1>1, <1>2 DEF BatchInv, HelpersFollow

\* Who looks leaves the others alone, and owes something only by five of the looks.
LEMMA LooksLeaveOthers ==
  ASSUME LineInv, NEW h \in Helper, Looking(h)
  PROVE  /\ Others(h)
         /\ \/ Free(h) \/ FindRoot(h) \/ FindAgain(h)
            \/ Publish(h) /\ ~IsStaging(h)
            \/ ReadCurrent(h)
            \/ \E r \in Delivery : TakeReceipts(h, r)
<1>0. LocalTypes
  BY LineFacts
<1>1. CASE ReadRow(h) \/ ReadMarker(h)
  <2>1. Finish(h) \/ \E s \in {"marker", "lane", "prepare"} : Goto(h, s)
    BY <1>1 DEF ReadRow, ReadMarker, Stay
  <2> QED BY <1>0, <1>1, <2>1, LooksKeep, FinishMoves DEF Goto, LocalTypes, Free
<1>2. CASE ReadLane(h) \/ TakeLane(h)
  BY <1>2, CopiesKeep DEF Free
<1>3. CASE ReadLaneMarker(h) \/ Recheck(h)
  BY <1>3, SecondLooksKeep DEF Free
<1>4. CASE ReadNext(h)
  BY <1>4, ChoiceKeeps DEF Free
<1>5. CASE FindRoot(h) \/ FindAgain(h)
  BY <1>5, RootLooksKeep
<1>6. CASE (Publish(h) /\ ~IsStaging(h)) \/ ReadCurrent(h) \/ ReadFixed(h)
  <2>1. ReadFixed(h) => \E s \in {"release", "abandon"} : Stay(h, s)
    BY DEF ReadFixed
  <2>2. ReadFixed(h) => Free(h)
    BY <1>0, <2>1, StayMoves DEF Steps, Free
  <2> QED BY <1>6, <2>2, FailureKeeps
<1>7. CASE \/ Acquire(h) \/ Release(h) \/ Abandon(h) \/ DeleteLane(h)
           \/ \E d \in Delivery : TakeRow(h, d)
  <2>1. \/ Finish(h) \/ Again(h) \/ Goto(h, "recheck") \/ Goto(h, "row")
    BY <1>7 DEF Acquire, Release, Abandon, DeleteLane, TakeRow
  <2>2. Free(h)
    BY <1>0, <2>1, FinishMoves, AgainMoves DEF Goto, LocalTypes, Free
  <2> QED BY <1>7, <2>2, EndsKeep, ReservationKeeps, FreeingKeeps DEF DeleteLane
<1>8. CASE \/ MarkReceipts(h) \/ RequestCleanup(h) \/ ClearCleaning(h) \/ Unrequest(h)
           \/ ReadRequest(h) \/ ReadRetained(h) \/ Crash(h)
  BY <1>8, RequestsKeep, ReclaimersKeep, CrashKeeps DEF Free
<1>9. CASE TakeRequest(h) \/ \E d \in Delivery : TakeReceipts(h, d) \/ TakeCleaning(h, d)
  <2>1. TakeRequest(h) => pc'[h] = "reclaim"
    BY <1>0 DEF TakeRequest, Stay, Goto, LocalTypes
  <2>2. \A d \in Delivery : TakeCleaning(h, d) => pc'[h] = "request"
    BY <1>0 DEF TakeCleaning, Goto, LocalTypes
  <2> QED BY <1>9, <2>1, <2>2, TakesKeep DEF Free
<1> QED BY <1>1, <1>2, <1>3, <1>4, <1>5, <1>6, <1>7, <1>8, <1>9 DEF Looking

\* The looks keep the batches.
LEMMA LooksKeepBatches ==
  ASSUME LineInv, BatchInv, NEW h \in Helper, Looking(h)
  PROVE  BatchInv'
<1>1. LocalTypes /\ RowTypes
  BY LineFacts
<1>2. UNCHANGED Rows
  BY LooksWriteNoRows
<1>3. CASE Free(h) /\ Others(h)
  BY <1>2, <1>3, FreeFollows, StillStep DEF Rows
<1>4. CASE FindRoot(h)
  <2>1. /\ Others(h) /\ held' = held /\ pc'[h] \in {"join", "publish"}
    BY <1>4, RootLooksKeep
  <2>2. PICK d : d = held[h].publisher
    OBVIOUS
  <2>3. CASE d \in Coalescing
    BY <1>2, <2>1, <2>2, <2>3, FinderFollows, StillStep DEF Rows
  <2>4. CASE d \notin Coalescing
    <3>1. WithRoot(h, {}) /\ Goto(h, "publish")
      BY <1>4, <2>2, <2>4 DEF FindRoot
    <3>2. job' = [job EXCEPT ![h] = NoJob]
      BY <3>1 DEF WithRoot
    <3>3. job'[h].id = None /\ pc'[h] = "publish"
      BY <1>1, <3>1, <3>2, EmptyHands DEF LocalTypes, Goto
    <3> QED BY <1>2, <2>1, <3>3, FinderFollows, StillStep DEF Rows
  <2> QED BY <2>3, <2>4
<1>5. CASE FindAgain(h)
  <2>1. Others(h) /\ held' = held /\ pc'[h] \in {"join", "publish"} /\ pc[h] = "again"
    BY <1>5, RootLooksKeep DEF FindAgain
  <2>2. held[h].publisher \in Coalescing
    BY <2>1 DEF BatchInv, FindsRoot
  <2> QED BY <1>2, <2>1, <2>2, FinderFollows, StillStep DEF Rows
<1>6. CASE (Publish(h) /\ ~IsStaging(h)) \/ (ReadCurrent(h) /\ ~Free(h))
  <2>1. /\ Others(h) /\ held' = held /\ job'[h].id = job[h].id
        /\ pc'[h] \in {"current", "fix"} \/ Free(h)
    BY <1>6, FailureKeeps DEF Free
  <2>2. pc[h] \in {"publish", "current"}
    BY <1>6 DEF Publish, ReadCurrent
  <2>3. job[h].id # None => held[h].publisher \in Coalescing
    BY <2>2 DEF BatchInv, FindsRoot
  <2> QED BY <1>2, <2>1, <2>3, FreeFollows, FinderFollows, StillStep DEF Rows
<1>7. ASSUME NEW r \in Delivery, TakeReceipts(h, r)
      PROVE  BatchInv'
  <2>1. PICK j : j = [id |-> r, gen |-> gen[r], as |-> status[r],
                      stamp |-> IF status[r] = "succeeded" /\ r \in cleaning THEN r ELSE None]
    OBVIOUS
  <2>2. Goto(h, "settle") /\ job' = [job EXCEPT ![h] = j] /\ members[r] # {}
    BY <1>7, <2>1 DEF TakeReceipts
  <2>3. j.id = r /\ j.gen = gen[r] /\ j.as = status[r]
    BY <2>1
  <2>4. Others(h)
    BY <1>7, TakesKeep
  <2>5. SettlesForRoot(h)' /\ FindsRoot(h)'
    BY <1>1, <1>2, <2>2, <2>3 DEF LocalTypes, Goto, Rows, SettlesForRoot, FindsRoot
  <2>6. HelpersFollow
    BY <2>4, <2>5 DEF Others, HelpersFollow
  <2> QED BY <1>2, <2>6, StillStep DEF Rows
<1>8. /\ Others(h)
      /\ \/ Free(h) \/ FindRoot(h) \/ FindAgain(h)
         \/ Publish(h) /\ ~IsStaging(h)
         \/ ReadCurrent(h)
         \/ \E r \in Delivery : TakeReceipts(h, r)
  BY LooksLeaveOthers
<1> QED BY <1>3, <1>4, <1>5, <1>6, <1>7, <1>8

\* What is admitted has a new generation, or did not exist.
LEMMA AdmissionKeepsBatches ==
  ASSUME LineInv, BatchInv, NEW h \in Helper, NEW d \in Delivery, Enqueue(h, d) \/ Requeue(h, d)
  PROVE  BatchInv'
<1>1. /\ LineInv' /\ Others(h) /\ pc'[h] = "row" /\ ~Erased
      /\ \A e \in Delivery : status'[e] = IF e = d THEN "staging" ELSE status[e]
      /\ UNCHANGED <<members, rootOf, shut, purge>>
      /\ \/ status[d] = "absent" /\ gen' = gen
         \/ status[d] = "dead" /\ gen' = [gen EXCEPT ![d] = @ + 1]
  BY AdmissionKeeps
<1>2. RowTypes /\ (\A r \in Delivery : gen[r] \in Nat) /\ RowTypes'
  <2>1. RowTypes'
    BY <1>1, LineFacts DEF LineInv, TypeOK, RowTypes
  <2> QED BY <2>1, LineFacts, Names DEF RowTypes
<1>3. MembersCoalesce' /\ RootsCoalesce'
  BY <1>1 DEF BatchInv, MembersCoalesce, RootsCoalesce
<1>4. RootsStay
  <2>1. ~Erased'
    BY <1>1 DEF purge, Erased
  <2>2. CASE status[d] = "absent" /\ gen' = gen
    BY <1>1, <2>1, <2>2 DEF RootsStay, Settled
  <2>3. CASE gen' = [gen EXCEPT ![d] = @ + 1]
    <3>1. \A r \in Delivery : gen'[r] = IF r = d THEN gen[r] + 1 ELSE gen[r]
      BY <1>2, <2>3 DEF RowTypes
    <3>2. gen'[d] > gen[d]
      BY <1>2, <3>1
    <3> QED BY <1>1, <2>1, <3>1, <3>2 DEF RootsStay
  <2> QED BY <1>1, <2>2, <2>3
<1> QED BY <1>1, <1>2, <1>3, <1>4, FreeFollows, BatchStep DEF Free

\* Members that are prepared or settled are in a batch.
LEMMA LeavingKeepsBatches ==
  ASSUME LineInv, BatchInv, NEW r \in Delivery, NEW P \in SUBSET members[r], RowTypes',
         HelpersFollow, \A e \in Delivery \ P : status'[e] = status[e],
         \A e \in Delivery \ P : rootOf'[e] = rootOf[e],
         UNCHANGED <<gen, members, account>>
  PROVE  BatchInv'
<1>1. \A m \in P : m \in Coalescing /\ RootOf(m)' # {}
  BY LineFacts DEF BatchInv, MembersCoalesce, RootOf
<1>2. MembersCoalesce' /\ RootsCoalesce'
  BY <1>1 DEF BatchInv, MembersCoalesce, RootsCoalesce
<1>3. RootsStay
  BY <1>1 DEF RootsStay, Erased
<1> QED BY <1>2, <1>3, BatchStep

LEMMA PreparationKeepsBatches ==
  ASSUME LineInv, BatchInv, NEW h \in Helper, Prepare(h)
  PROVE  BatchInv'
<1> DEFINE r == target[h]
           P == {m \in members[r] : /\ rootOf[m] = r /\ rootGen[m] = job[h].gen - 1
                                    /\ status[m] \in {"staging", "batched"} \cup Settled}
<1>1. /\ status' = [m \in Delivery |-> IF m \in P THEN "batched" ELSE status[m]]
      /\ rootOf' = rootOf /\ UNCHANGED <<gen, members, account>> /\ pc[h] = "prepare"
  BY DEF Prepare, purge
<1>2. LineInv' /\ Others(h) /\ pc'[h] \in {"idle", "lane"} /\ RowTypes'
  BY PreparationKeeps, TypeParts DEF LineInv, TypeOK, RowTypes
<1>3. r \in Delivery
  <2>1. CopyIsCurrent(h) /\ LocalTypes
    BY LineFacts
  <2> QED BY <1>1, <2>1 DEF CopyIsCurrent, LocalTypes
<1>4. P \in SUBSET members[r]
  OBVIOUS
<1> HIDE DEF P, r
<1>5. HelpersFollow
  BY <1>2, FreeFollows DEF Free
<1> QED BY <1>1, <1>2, <1>3, <1>4, <1>5, LeavingKeepsBatches

LEMMA SettlementKeepsBatches ==
  ASSUME LineInv, BatchInv, NEW h \in Helper, SettleMembers(h)
  PROVE  BatchInv'
<1> DEFINE r == job[h].id
           P == Owed(r, job[h].gen)
<1>1. /\ status' = [m \in Delivery |-> IF m \in P THEN job[h].as ELSE status[m]]
      /\ rootOf' = [m \in Delivery |-> IF m \in P THEN r ELSE rootOf[m]]
      /\ UNCHANGED <<gen, members, account>> /\ pc[h] = "settle"
  BY DEF SettleMembers, purge
<1>2. LineInv' /\ Others(h) /\ pc'[h] \in {"idle", "mark"} /\ RowTypes'
  BY SettlementKeeps, TypeParts DEF LineInv, TypeOK, RowTypes
<1>3. r \in Delivery
  BY <1>1, LineFacts DEF HasOutcome
<1>4. P \in SUBSET members[r]
  BY DEF Owed
<1> HIDE DEF P, r
<1>5. HelpersFollow
  BY <1>2, FreeFollows DEF Free
<1> QED BY <1>1, <1>2, <1>3, <1>4, <1>5, LeavingKeepsBatches

LEMMA HandlingKeepsBatches ==
  ASSUME LineInv, BatchInv, NEW r \in Delivery, PropagateHandling(r)
  PROVE  BatchInv'
<1> DEFINE P == {m \in members[r] : /\ rootOf[m] = r
                                    /\ status[m] \in {"staging", "batched"} \cup Settled}
<1>1. /\ status' = [m \in Delivery |-> IF m \in P THEN "succeeded" ELSE status[m]]
      /\ rootOf' = rootOf /\ UNCHANGED <<gen, members, account, local>>
  BY DEF PropagateHandling, purge
<1>2. LineInv' /\ RowTypes'
  BY HandlingKeeps, TypeParts DEF LineInv, TypeOK, RowTypes
<1>3. P \in SUBSET members[r]
  OBVIOUS
<1> HIDE DEF P
<1>4. HelpersFollow
  BY <1>1 DEF local, HelpersFollow, Stands
<1> QED BY <1>1, <1>2, <1>3, <1>4, LeavingKeepsBatches

\* Who joins a batch coalesces, and so does the batch.
LEMMA JoiningKeepsBatches ==
  ASSUME LineInv, BatchInv, NEW h \in Helper, Join(h)
  PROVE  BatchInv'
<1>1. /\ LineInv' /\ Others(h) /\ held' = held
      /\ UNCHANGED <<status, line, seq, gen, rootOf, rootGen, shut, lane, purge>>
      /\ pc[h] = "join"
  BY JoiningKeeps DEF Join
<1>2. PICK d : d = held[h].publisher
  OBVIOUS
<1>3. /\ d \in Coalescing /\ d \in Delivery /\ RowTypes /\ RowTypes'
  <2>1. RowTypes'
    BY <1>1 DEF LineInv, TypeOK, RowTypes
  <2> QED BY <1>1, <1>2, <2>1, SetsAssumption, LineFacts DEF BatchInv, FindsRoot
<1>4. pc'[h] \in {"again", "publish"}
  BY JoiningKeeps
<1>5. HelpersFollow
  BY <1>1, <1>2, <1>3, <1>4, FinderFollows
<1>6. CASE UNCHANGED members
  BY <1>1, <1>5, <1>6, StillStep DEF purge
<1>7. ASSUME NEW r \in OpenBatch(h),
             members' = [members EXCEPT ![r] = @ \cup {held[h].publisher}]
      PROVE  BatchInv'
  <2>1. r \in Delivery /\ r \in Coalescing
    BY DEF OpenBatch
  <2>2. \A e \in Delivery : members'[e] = IF e = r THEN members[r] \cup {d} ELSE members[e]
    BY <1>2, <1>3, <1>7 DEF RowTypes
  <2>3. MembersCoalesce' /\ RootsCoalesce'
    BY <1>1, <1>3, <2>1, <2>2 DEF BatchInv, MembersCoalesce, RootsCoalesce
  <2>4. RootsStay
    BY <1>1, <2>2 DEF RootsStay, Erased, purge
  <2> QED BY <1>3, <1>5, <2>3, <2>4, BatchStep
<1> QED BY <1>6, <1>7, JoiningKeeps

\* What is published with a root coalesces.
LEMMA PublicationKeepsBatches ==
  ASSUME LineInv, BatchInv, NEW h \in Helper, Publish(h), IsStaging(h)
  PROVE  BatchInv'
<1>0. PICK d : d = held[h].publisher
  OBVIOUS
<1>1. /\ LineInv' /\ Others(h) /\ pc'[h] = "release" /\ d \in Delivery
      /\ \A e \in Delivery :
            /\ e # d => status'[e] = status[e]
            /\ rootOf'[e] = IF e = d /\ job[h].id # None THEN job[h].id ELSE rootOf[e]
      /\ UNCHANGED <<gen, members, purge>>
  BY <1>0, PublicationKeeps
<1>2. status[d] = "staging" /\ RowTypes' /\ pc[h] = "publish"
  BY <1>0, <1>1 DEF IsStaging, Publish, LineInv, TypeOK, RowTypes
<1>3. job[h].id # None => d \in Coalescing
  BY <1>0, <1>2 DEF BatchInv, FindsRoot
<1>4. MembersCoalesce' /\ RootsCoalesce'
  BY <1>1, <1>3 DEF BatchInv, MembersCoalesce, RootsCoalesce
<1>5. RootsStay
  BY <1>1, <1>2 DEF RootsStay, Erased, purge, Settled
<1> QED BY <1>1, <1>2, <1>4, <1>5, FreeFollows, BatchStep DEF Free

\* So does what is given its root later.
LEMMA FixingKeepsBatches ==
  ASSUME LineInv, BatchInv, NEW h \in Helper, Fix(h)
  PROVE  BatchInv'
<1>0. PICK d : d = held[h].publisher
  OBVIOUS
<1>1. /\ LineInv' /\ Others(h) /\ pc'[h] = "refetch" /\ d \in Delivery
      /\ UNCHANGED <<status, line, gen, members, shut, lane, purge>>
      /\ \A e \in Delivery \ {d} : rootOf'[e] = rootOf[e]
      /\ rootOf' = rootOf \/ rootOf'[d] = job[h].id
      /\ pc[h] = "fix"
  BY <1>0, FixingKeeps DEF Fix
<1>2. job[h].id # None => d \in Coalescing
  BY <1>0, <1>1 DEF BatchInv, FindsRoot
<1>3. MembersCoalesce' /\ RootsCoalesce'
  BY <1>1, <1>2 DEF BatchInv, MembersCoalesce, RootsCoalesce
<1>4. RootsStay /\ RowTypes'
  BY <1>1 DEF RootsStay, Erased, purge, LineInv, TypeOK, RowTypes
<1> QED BY <1>1, <1>3, <1>4, FreeFollows, BatchStep DEF Free

\* A settled root is not settled again, unless it was never one.
LEMMA OutcomesKeepBatches ==
  ASSUME LineInv, BatchInv, NEW d \in Delivery, Outcome(d)
  PROVE  BatchInv'
<1>1. /\ LineInv' /\ held' = held
      /\ status[d] \in Dispatchable \/ (status[d] = "dead" /\ d \notin Coalescing)
      /\ UNCHANGED <<line, seq, gen, members, rootOf, rootGen, shut, lane, purge>>
  BY OutcomesKeep
<1>2. \A e \in Delivery \ {d} : status'[e] = status[e]
  BY OutcomesKeep
<1>3. RowTypes' /\ RowTypes
  BY <1>1, LineFacts DEF LineInv, TypeOK, RowTypes
<1>4. MembersCoalesce' /\ RootsCoalesce'
  BY <1>1 DEF BatchInv, MembersCoalesce, RootsCoalesce
<1>5. RootsStay
  <2>1. status[d] \notin Settled \/ members[d] = {}
    BY <1>1 DEF BatchInv, MembersCoalesce, Settled, Dispatchable
  <2> QED BY <1>1, <1>2, <2>1 DEF RootsStay, Erased, purge
<1>6. HelpersFollow
  <2>1. CASE UNCHANGED local
    BY <2>1 DEF local, HelpersFollow, Stands
  <2>2. ASSUME NEW h \in Helper, Others(h), pc'[h] \in {"request", "settle"},
               pc'[h] = "settle" => /\ job'[h].id = d /\ job'[h].gen = gen[d]
                                    /\ job'[h].as = status'[d] /\ members[d] # {}
        PROVE  HelpersFollow
    BY <1>1, <2>2 DEF Others, HelpersFollow, SettlesForRoot, FindsRoot
  <2> QED BY <2>1, <2>2, OutcomesKeep
<1> QED BY <1>3, <1>4, <1>5, <1>6, BatchStep

\* The deletion, and a window that passes.
LEMMA PurgeKeepsBatches ==
  ASSUME LineInv, BatchInv, Deletion \/ EraseRows \/ \E d \in Delivery : ShutWindow(d)
  PROVE  BatchInv'
<1>1. CASE EraseRows
  <2>1. /\ LineInv' /\ Erased' /\ UNCHANGED local
        /\ \A d \in Delivery : members'[d] = {}
    BY <1>1, ErasureKeeps
  <2>2. RowTypes' /\ \A d \in Delivery : rootOf'[d] = None
    BY <1>1, <2>1 DEF LineInv, TypeOK, RowTypes, EraseRows
  <2>3. MembersCoalesce' /\ RootsCoalesce' /\ RootsStay
    BY <2>1, <2>2 DEF MembersCoalesce, RootsCoalesce, RootsStay
  <2>4. HelpersFollow
    BY <2>1 DEF local, HelpersFollow, Stands
  <2> QED BY <2>2, <2>3, <2>4, BatchStep
<1>2. CASE Deletion
  <2>1. /\ LineInv' /\ UNCHANGED <<status, seq, gen, members, rootOf, rootGen, shut, local>>
    BY <1>2, DeletionKeeps
  <2>2. Erased' <=> Erased
    BY <1>2 DEF Deletion, FenceAccount, CloseRows, CallOff, Spare, DeleteAccount, EraseLane,
       EndPurge, Erased
  <2>3. MembersCoalesce' /\ RootsCoalesce' /\ RootsStay
    BY <2>1, <2>2 DEF BatchInv, MembersCoalesce, RootsCoalesce, RootsStay
  <2>4. HelpersFollow /\ RowTypes'
    BY <2>1 DEF local, HelpersFollow, Stands, LineInv, TypeOK, RowTypes
  <2> QED BY <2>3, <2>4, BatchStep
<1>3. ASSUME NEW d \in Delivery, ShutWindow(d)
      PROVE  BatchInv'
  <2>1. UNCHANGED <<status, gen, members, rootOf, purge, local>>
    BY <1>3, WindowsKeep
  <2>2. HelpersFollow
    BY <2>1 DEF local, HelpersFollow, Stands
  <2> QED BY <2>1, <2>2, StillStep DEF purge
<1> QED BY <1>1, <1>2, <1>3

\* Every step keeps the batches.
LEMMA BatchesStep ==
  ASSUME LineInv, BatchInv, [Next]_vars
  PROVE  BatchInv'
<1>1. CASE UNCHANGED vars
  <2>1. HelpersFollow
    BY <1>1 DEF vars, local, HelpersFollow, Stands
  <2> QED BY <1>1, <2>1, StillStep DEF vars, row, purge
<1> QED BY <1>1, StepsAre, LooksKeepBatches, AdmissionKeepsBatches, PreparationKeepsBatches,
        SettlementKeepsBatches, HandlingKeepsBatches, JoiningKeepsBatches,
        PublicationKeepsBatches, FixingKeepsBatches, OutcomesKeepBatches, PurgeKeepsBatches

\* In the beginning there are none.
LEMMA InitBatches == Init => BatchInv
BY Names DEF Init, BatchInv, MembersCoalesce, RootsCoalesce, SettlesForRoot, FindsRoot

\* Only a settlement, what came of a generation, or a withdrawal settles what waits,
\* is in a batch or is dead.
LEMMA StatusMoves ==
  ASSUME LineInv, [Next]_vars, NEW d \in Delivery, status'[d] # status[d],
         status[d] \in {"staging", "batched", "dead"}, status'[d] \in Settled
  PROVE  \/ \E h \in Helper : /\ SettleMembers(h) /\ d \in Owed(job[h].id, job[h].gen)
                              /\ status'[d] = job[h].as /\ rootOf'[d] = job[h].id
         \/ \E r \in Delivery : /\ PropagateHandling(r) /\ rootOf'[d] = r
                                /\ status'[d] = "succeeded" /\ status[r] = "succeeded"
         \/ status[d] = "dead" /\ d \notin Coalescing /\ rootOf'[d] = rootOf[d]
<1>0. \A s \in {"absent", "staging", "batched", "pending", "leased"} : s \notin Settled
  BY DEF Settled
<1>1. ASSUME UNCHANGED vars PROVE FALSE
  BY <1>1 DEF vars, row
<1>2. ASSUME NEW h \in Helper, Looking(h) PROVE FALSE
  BY <1>2, LooksWriteNoRows DEF Rows
<1>3. ASSUME NEW h \in Helper, Join(h) \/ Fix(h) PROVE FALSE
  BY <1>3 DEF Join, Fix
<1>4. ASSUME NEW h \in Helper, Prepare(h) PROVE status'[d] = "batched"
  BY <1>4 DEF Prepare
<1>5. ASSUME NEW h \in Helper, SettleMembers(h)
      PROVE  /\ d \in Owed(job[h].id, job[h].gen)
             /\ status'[d] = job[h].as /\ rootOf'[d] = job[h].id
  BY <1>5 DEF SettleMembers
<1>6. ASSUME NEW h \in Helper, Publish(h), IsStaging(h)
      PROVE  status'[d] \in {"pending", "batched"}
  BY <1>6, PublicationKeeps
<1>7. ASSUME NEW h \in Helper, NEW e \in Delivery, Enqueue(h, e) \/ Requeue(h, e)
      PROVE  status'[d] = "staging"
  BY <1>7, AdmissionKeeps
<1>8. ASSUME NEW e \in Delivery, Outcome(e)
      PROVE  status[d] = "dead" /\ d \notin Coalescing /\ rootOf'[d] = rootOf[d]
  <2>1. /\ status[e] \in Dispatchable \/ (status[e] = "dead" /\ e \notin Coalescing)
        /\ rootOf' = rootOf
    BY <1>8, OutcomesKeep
  <2>2. e = d
    BY <1>8, OutcomesKeep
  <2> QED BY <2>1, <2>2 DEF Dispatchable
<1>9. ASSUME NEW e \in Delivery, ShutWindow(e) PROVE FALSE
  BY <1>9, WindowsKeep
<1>10. ASSUME NEW r \in Delivery, PropagateHandling(r)
       PROVE  rootOf'[d] = r /\ status'[d] = "succeeded" /\ status[r] = "succeeded"
  BY <1>10 DEF PropagateHandling
<1>11. ASSUME Deletion \/ EraseRows PROVE status'[d] \in {status[d], "absent"}
  BY <1>11, DeletionKeeps, ErasureKeeps
<1> QED BY <1>0, <1>1, <1>2, <1>3, <1>4, <1>5, <1>6, <1>7, <1>8, <1>9, <1>10, <1>11, StepsAre

(***************************************************************************)
(* The lane implements the order LaneOrder promises.                       *)
(***************************************************************************)

\* Where nothing is admitted, published, settled or deleted, nothing happens.
LEMMA OrderStutters ==
  ASSUME Staging' = Staging, Live' = Live, ahead' = ahead, account' = account
  PROVE  [Order!Next]_(Order!vars)
BY DEF Order!vars

\* Deliveries that leave the line for a batch stop waiting.
LEMMA SomeStopWaiting ==
  ASSUME Staging' \subseteq Staging, Live' = Live, account' = account,
         ahead' = ahead \cap (Staging' \X Staging')
  PROVE  [Order!Next]_(Order!vars)
<1>1. PICK D : D = Staging \ Staging'
  OBVIOUS
<1>2. D \in SUBSET Delivery /\ Staging' = Staging \ D
  BY <1>1 DEF Staging
<1>3. Order!Absorb(D)
  BY <1>2 DEF Order!Absorb, Order!Stop
<1> QED BY <1>2, <1>3 DEF Order!Next

\* Members that are prepared or settled, or follow their root's generation.
LEMMA MembersStopWaiting ==
  ASSUME LineInv, \/ \E h \in Helper : Prepare(h) \/ SettleMembers(h)
                  \/ \E r \in Delivery : PropagateHandling(r)
  PROVE  [Order!Next]_(Order!vars)
<1>1. ASSUME NEW P, NEW s \in {"batched"} \cup Settled,
             \A m \in P : status[m] \in {"staging", "batched"} \cup Settled,
             status' = [m \in Delivery |-> IF m \in P THEN s ELSE status[m]]
      PROVE  Staging' \subseteq Staging /\ Live' = Live
  <2>1. s \notin Dispatchable /\ s # "staging"
    BY DEF Dispatchable, Settled
  <2>2. \A m \in P : status[m] \notin Dispatchable
    BY <1>1 DEF Dispatchable, Settled
  <2> QED BY <1>1, <2>1, <2>2 DEF Staging, Live
<1>2. ASSUME NEW h \in Helper, Prepare(h)
      PROVE  [Order!Next]_(Order!vars)
  <2>1. PICK P : P = {m \in members[target[h]] :
                        /\ rootOf[m] = target[h] /\ rootGen[m] = job[h].gen - 1
                        /\ status[m] \in {"staging", "batched"} \cup Settled}
    OBVIOUS
  <2>2. /\ status' = [m \in Delivery |-> IF m \in P THEN "batched" ELSE status[m]]
        /\ account' = account
    BY <1>2, <2>1 DEF Prepare, purge
  <2>3. \A m \in P : status[m] \in {"staging", "batched"} \cup Settled
    BY <2>1
  <2>4. Staging' \subseteq Staging /\ Live' = Live
    BY <1>1, <2>2, <2>3
  <2> QED BY <1>2, <2>2, <2>4, PreparationKeeps, SomeStopWaiting
<1>3. ASSUME NEW h \in Helper, SettleMembers(h)
      PROVE  [Order!Next]_(Order!vars)
  <2>1. PICK P, s : P = Owed(job[h].id, job[h].gen) /\ s = job[h].as
    OBVIOUS
  <2>2. /\ status' = [m \in Delivery |-> IF m \in P THEN s ELSE status[m]]
        /\ account' = account
    BY <1>3, <2>1 DEF SettleMembers, purge
  <2>3. s \in Settled /\ \A m \in P : status[m] \in {"staging", "batched"} \cup Settled
    BY <1>3, <2>1, LineFacts DEF Owed, SettleMembers, HasOutcome
  <2>4. Staging' \subseteq Staging /\ Live' = Live
    BY <1>1, <2>2, <2>3
  <2> QED BY <1>3, <2>2, <2>4, SettlementKeeps, SomeStopWaiting
<1>4. ASSUME NEW r \in Delivery, PropagateHandling(r)
      PROVE  [Order!Next]_(Order!vars)
  <2>1. PICK P : P = {m \in members[r] :
                        /\ rootOf[m] = r
                        /\ status[m] \in {"staging", "batched"} \cup Settled}
    OBVIOUS
  <2>2. /\ status' = [m \in Delivery |-> IF m \in P THEN "succeeded" ELSE status[m]]
        /\ account' = account
    BY <1>4, <2>1 DEF PropagateHandling, purge
  <2>3. "succeeded" \in Settled /\ \A m \in P : status[m] \in {"staging", "batched"} \cup Settled
    BY <2>1 DEF Settled
  <2>4. Staging' \subseteq Staging /\ Live' = Live
    BY <1>1, <2>2, <2>3
  <2> QED BY <1>4, <2>2, <2>4, HandlingKeeps, SomeStopWaiting
<1> QED BY <1>2, <1>3, <1>4

\* Who is published has nobody ahead, or joins a batch.
LEMMA TheNextIsPublished ==
  ASSUME LineInv, NEW h \in Helper, Publish(h), IsStaging(h)
  PROVE  [Order!Next]_(Order!vars)
<1>1. PICK d, b : d = held[h].publisher /\ b = (job[h].id # None)
  OBVIOUS
<1>2. /\ d \in Delivery /\ IsNext(d, held[h].gen) /\ account' = account
      /\ ahead' = ahead \cap (Staging' \X Staging')
      /\ \A e \in Delivery : status'[e] = IF e # d THEN status[e]
                                          ELSE IF b THEN "batched" ELSE "pending"
  BY <1>1, PublicationKeeps DEF purge
<1>3. status[d] = "staging" /\ Staging' = Staging \ {d}
  BY <1>1, <1>2 DEF IsStaging, Staging
<1>4. CASE b
  <2>1. Live' = Live
    BY <1>2, <1>3, <1>4 DEF Live, Dispatchable
  <2> QED BY <1>2, <1>3, <2>1, SomeStopWaiting
<1>5. CASE ~b
  <2>1. Live' = Live \cup {d} /\ d \in Staging
    BY <1>2, <1>3, <1>5 DEF Live, Dispatchable, Staging
  <2>2. account = "active" => \A e \in Staging : <<e, d>> \notin ahead
    BY <1>2 DEF IsNext, Unpreceded, Staging
  <2>3. Order!Publish(d)
    BY <1>2, <1>3, <2>1, <2>2 DEF Order!Publish, Order!Stop
  <2> QED BY <1>2, <2>3 DEF Order!Next
<1> QED BY <1>1, <1>4, <1>5

\* An admission is behind some that wait.
LEMMA AdmissionIsOne ==
  ASSUME LineInv, NEW h \in Helper, NEW d \in Delivery, Enqueue(h, d) \/ Requeue(h, d)
  PROVE  [Order!Next]_(Order!vars)
<1>1. /\ status[d] \in {"absent", "dead"} /\ account' = account
      /\ \A e \in Delivery : status'[e] = IF e = d THEN "staging" ELSE status[e]
      /\ \E W \in SUBSET Staging : ahead' = ahead \cup (W \X {d})
  BY AdmissionKeeps DEF purge
<1>2. d \notin Live /\ d \notin Staging /\ Live' = Live /\ Staging' = Staging \cup {d}
  BY <1>1 DEF Live, Dispatchable, Staging
<1>3. Order!Admit(d)
  BY <1>1, <1>2 DEF Order!Admit
<1> QED BY <1>3 DEF Order!Next

\* A delivery that is settled leaves the lane.
LEMMA OutcomesLeave ==
  ASSUME LineInv, NEW d \in Delivery, Outcome(d)
  PROVE  [Order!Next]_(Order!vars)
<1>1. /\ status[d] \in Dispatchable \cup {"dead"} /\ ahead' = ahead /\ account' = account
      /\ status[d] = "dead" => d \notin Coalescing
  BY OutcomesKeep DEF purge
<1>2. PICK s \in Dispatchable \cup Settled :
         /\ \A e \in Delivery : status'[e] = IF e = d THEN s ELSE status[e]
         /\ s = "leased" => status[d] # "dead"
         /\ s = "pending" => status[d] = "leased"
  <2>1. Claim(d) => status[d] = "pending"
    BY DEF Claim
  <2>2. ASSUME ~Claim(d)
        PROVE  status'[d] # "leased" \/ status'[d] = status[d]
    <3>1. RowTypes
      BY LineFacts
    <3>2. GiveBack(d) => status'[d] = "pending"
      BY <3>1 DEF GiveBack, RowTypes
    <3>3. \A h \in Helper : Settle(h, d) \/ Retire(h, d) => status'[d] \in {"succeeded", "dead"}
      BY <3>1 DEF Settle, Complete, DeadLetter, Conclude, Retire, RowTypes
    <3> QED BY <2>2, <3>2, <3>3 DEF Outcome
  <2> QED BY <2>1, <2>2, OutcomesKeep
<1>3. Staging' = Staging
  BY <1>1, <1>2 DEF Staging, Dispatchable, Settled
<1>4. CASE s \in Dispatchable
  <2>1. status[d] \in Dispatchable
    BY <1>1, <1>2, <1>4 DEF Dispatchable
  <2>2. Live' = Live
    BY <1>2, <1>4, <2>1 DEF Live
  <2> QED BY <1>1, <1>3, <2>2, OrderStutters
<1>5. CASE s \notin Dispatchable /\ status[d] = "dead"
  <2>1. Live' = Live
    BY <1>2, <1>5 DEF Live, Dispatchable
  <2> QED BY <1>1, <1>3, <2>1, OrderStutters
<1>6. CASE s \notin Dispatchable /\ status[d] # "dead"
  <2>1. Live' = Live \ {d} /\ d \in Live
    BY <1>1, <1>2, <1>6 DEF Live
  <2>2. Order!Leave(d)
    BY <1>1, <1>3, <2>1 DEF Order!Leave
  <2> QED BY <2>2 DEF Order!Next
<1> QED BY <1>4, <1>5, <1>6

\* The promise of order ends with the account, and its rows with them.
LEMMA TheDeletionCloses ==
  ASSUME LineInv, Deletion \/ EraseRows
  PROVE  [Order!Next]_(Order!vars)
<1>1. CASE Deletion
  <2>1. /\ (account = "active")' = FALSE /\ ahead' = ahead
        /\ Staging' = Staging /\ Live' = Live
    BY <1>1, DeletionKeeps DEF Staging, Live
  <2>2. Order!Close
    BY <2>1 DEF Order!Close
  <2> QED BY <2>2 DEF Order!Next
<1>2. CASE EraseRows
  <2>1. /\ (account = "active")' = (account = "active") /\ ahead' = {}
        /\ \A d \in Delivery : status'[d] = "absent"
    BY <1>2, ErasureKeeps
  <2>2. Staging' = {} /\ Live' = {}
    BY <2>1 DEF Staging, Live, Dispatchable
  <2>3. Order!Erase
    BY <2>1, <2>2 DEF Order!Erase, Order!Stop
  <2> QED BY <2>3 DEF Order!Next
<1> QED BY <1>1, <1>2

\* Every step is one of LaneOrder, or none.
LEMMA OrderStep ==
  ASSUME LineInv, [Next]_vars
  PROVE  [Order!Next]_(Order!vars)
<1>1. ASSUME UNCHANGED <<status, ahead, account>>
      PROVE  [Order!Next]_(Order!vars)
  <2>1. Live' = Live /\ Staging' = Staging
    BY <1>1 DEF Live, Staging
  <2> QED BY <1>1, <2>1, OrderStutters
<1>2. UNCHANGED vars => UNCHANGED <<status, ahead, account>>
  BY DEF vars, row, purge
<1>3. ASSUME NEW h \in Helper, Looking(h) \/ Join(h) \/ Fix(h)
      PROVE  UNCHANGED <<status, ahead, account>>
  BY <1>3, LooksWriteNoRows DEF Rows, Join, Fix, purge
<1>4. ASSUME NEW d \in Delivery, ShutWindow(d)
      PROVE  UNCHANGED <<status, ahead, account>>
  BY <1>4, WindowsKeep DEF purge
<1> QED BY <1>1, <1>2, <1>3, <1>4, StepsAre, MembersStopWaiting, TheNextIsPublished,
           AdmissionIsOne, OutcomesLeave, TheDeletionCloses

(***************************************************************************)
(* The theorems.                                                           *)
(***************************************************************************)

\* Whatever the helpers do, however many there are and wherever they stop, the line
\* is the staging rows, in the order of their admission as far as that is known, who
\* is reserved is over or next, and rows, lane and copies keep their types
\* (publishStagedDelivery, recoverLanePublisher).
THEOREM TheLineHolds == Spec => []LineInv
<1>1. LineInv /\ [Next]_vars => LineInv'
  BY LineStep
<1> QED BY <1>1, InitLine, PTL DEF Spec

\* So in an account that is not to be deleted, whoever may still publish a delivery
\* holds the lane's own reservation, however old its copy is
\* (recoverLanePublisher, abandonLanePublisher, reclaimLaneIfInactive).
THEOREM TheReservationIsOne == Spec => []OneReservation
<1>1. ASSUME LineInv, account = "active", NEW h \in Helper, pc[h] \in Finishing,
             Waits(held[h].publisher, held[h].gen)
      PROVE  held[h] = Reservation
  <2>1. PICK d, g : d = held[h].publisher /\ g = held[h].gen
    OBVIOUS
  <2>2. /\ d # None
        /\ Over(d, g) \/ held[h] = Reservation
    BY <1>1, <2>1, LineFacts DEF CopyIsCurrent, Holding
  <2>3. d \in Delivery /\ g \in 0..MaxMishaps
    BY <1>1, <2>1, <2>2, LineFacts
  <2>4. ~Over(d, g)
    BY <1>1, <2>1, <2>3, OverOrWaits
  <2> QED BY <2>2, <2>4
<1>2. LineInv => OneReservation
  BY <1>1 DEF OneReservation
<1> QED BY <1>2, TheLineHolds, PTL

\* A receipt that is settled in the generation its root is in has the outcome of that
\* root, unless the root is in a batch itself, whoever settles it and however late
\* (settleBatchMembers, propagateBatchHandling, requeueTriggerDelivery).
THEOREM ReceiptsAreTheRoots == Spec => OutcomeIsTheRoots
<1>1. LineInv /\ BatchInv /\ [Next]_vars => BatchInv'
  BY BatchesStep
<1>2. ASSUME LineInv, BatchInv, [Next]_vars, NEW d \in Delivery,
             status[d] \in {"staging", "batched", "dead"}, status'[d] \in Settled,
             status'[d] # status[d], rootOf'[d] # None, rootGen'[d] = gen[rootOf'[d]],
             RootOf(rootOf'[d]) = {}
      PROVE  status[rootOf'[d]] = status'[d]
  <2>1. ASSUME NEW h \in Helper, SettleMembers(h), d \in Owed(job[h].id, job[h].gen),
               status'[d] = job[h].as, rootOf'[d] = job[h].id
        PROVE  status[rootOf'[d]] = status'[d]
    <3>1. /\ SettlesForRoot(h) /\ pc[h] = "settle" /\ rootGen' = rootGen
          /\ rootGen[d] = job[h].gen
      BY <1>2, <2>1 DEF BatchInv, SettleMembers, Owed
    <3>2. ~Erased
      BY <1>2, LineFacts DEF PurgeSound
    <3>3. job[h].id \in Delivery /\ gen[job[h].id] \in Nat
      BY <1>2, <3>1, LineFacts, Names DEF HasOutcome, RowTypes
    <3> QED BY <1>2, <2>1, <3>1, <3>2, <3>3 DEF SettlesForRoot
  <2>2. ~(status[d] = "dead" /\ d \notin Coalescing /\ rootOf'[d] = rootOf[d])
    BY <1>2 DEF BatchInv, RootsCoalesce
  <2> QED BY <1>2, <2>1, <2>2, StatusMoves
<1>3. LineInv /\ BatchInv /\ [Next]_vars =>
         [\A d \in Delivery :
             /\ status[d] \in {"staging", "batched", "dead"} /\ status'[d] \in Settled
             /\ status'[d] # status[d] /\ rootOf'[d] # None
             /\ rootGen'[d] = gen[rootOf'[d]] /\ RootOf(rootOf'[d]) = {}
             => status[rootOf'[d]] = status'[d]]_vars
  BY <1>2
<1> QED BY <1>1, <1>3, InitBatches, TheLineHolds, PTL DEF Spec, OutcomeIsTheRoots

\* The lane implements the order LaneOrder promises, whatever befalls it: until its
\* account is to be deleted none is published before one that was admitted before it
\* and still waits (publishStagedDelivery, recoverLanePublisher).
THEOREM TheOrderIsKept == Spec => OrderSpec
<1>1. Init => Order!Init
  BY DEF Init, Order!Init, Staging, Live, Dispatchable
<1>2. LineInv /\ [Next]_vars => [Order!Next]_(Order!vars)
  BY OrderStep
<1> QED BY <1>1, <1>2, TheLineHolds, PTL DEF Spec, OrderSpec, Order!Spec
==============================================================================
