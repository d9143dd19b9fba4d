------------------------------ MODULE StoreProofs ------------------------------
(* Proofs about StoreQueue, StoreTurns and Store, for every menu of events, *)
(* every limit and clock, and every set of callers.                         *)
EXTENDS Store, StoreTurns, Inductions, FiniteSetTheorems, TLAPS

-----------------------------------------------------------------------------
(* Facts about the data.                                                    *)

(* A non-empty set of items holds one with the smallest id.                 *)
LEMMA FirstIsMember ==
  ASSUME NEW queue, queue # {}, \A i \in queue : i.id \in Nat
  PROVE  First(queue) \in queue /\ \A j \in queue : First(queue).id <= j.id
<1> DEFINE below == {1..i.id : i \in queue}
<1>1. below \subseteq FiniteSubsetsOf(Nat)
  <2> SUFFICES ASSUME NEW i \in queue PROVE 1..i.id \in FiniteSubsetsOf(Nat)
    OBVIOUS
  <2>1. i.id \in Int /\ 1 \in Int
    OBVIOUS
  <2>2. IsFiniteSet(1..i.id)
    BY <2>1, FS_Interval
  <2> QED BY <2>2 DEF FiniteSubsetsOf
<1>2. below # {}
  OBVIOUS
<1>3. PICK low \in below : \A b \in below : <<b, low>> \notin StrictSubsetOrdering(Nat)
  <2> HIDE DEF below
  <2> QED BY <1>1, <1>2, WFMin, FS_StrictSubsetOrderingWellFounded
<1>4. PICK i \in queue : low = 1..i.id
  OBVIOUS
<1>5. ASSUME NEW j \in queue PROVE i.id <= j.id
  <2> SUFFICES ASSUME j.id < i.id PROVE FALSE
    OBVIOUS
  <2>1. 1..j.id \subseteq 1..i.id /\ i.id \in 1..i.id /\ i.id \notin 1..j.id
    OBVIOUS
  <2>2. <<1..j.id, 1..i.id>> \in StrictSubsetOrdering(Nat)
    BY <2>1 DEF StrictSubsetOrdering
  <2> QED BY <1>3, <1>4, <2>2
<1> QED BY <1>5 DEF First

(* What the assumptions say of one event.                                   *)
LEMMA EventFields ==
  ASSUME NEW e \in Events
  PROVE  /\ e.replay \in ReplayKeys /\ e.lane \in Lanes \cup {NoLane}
         /\ e.critical \in BOOLEAN /\ e.base \in Nat
         /\ e.gap \in GapIds /\ e.gap \notin Reserved
         /\ e.critical => e.lane \notin Lanes
BY QueueAssumption DEF EventRecord, Reserved

-----------------------------------------------------------------------------
(* The inductive invariant.                                                 *)

(* An owned item is known by its id, which no later item can get, and is in *)
(* one place only.                                                          *)
ItemsApart ==
  /\ \A i \in Owned : i.id \in 1..ingressOrdinal /\ i.sequence <= ingressOrdinal
  /\ \A i, j \in Owned : i.id = j.id => i = j
  /\ normal \cap critical = {}
  /\ Queued \cap (inflight \cup preApply) = {}

(* What an item charges follows from its event and from whether it may be   *)
(* replaced, which only a normal item of a lane may.                        *)
TokensExact ==
  /\ \A i \in Queued : i.token = EventToken(i.ev, i.coalescible)
  /\ \A i \in normal : i.coalescible => i.ev.lane \in Lanes
  /\ \A i \in critical : ~i.coalescible
  /\ \A i \in inflight \cup preApply : i.token = i.ev.base

IInv == TypeOK /\ ItemsApart /\ TokensExact /\ LaneOwnership /\ ReserveIntact

-----------------------------------------------------------------------------
(* What the steps find and leave.                                           *)

(* The owner of a taken lane is the replaceable item of that lane.          *)
LEMMA LaneOwnerFound ==
  ASSUME TypeOK, ItemsApart, LaneOwnership, NEW e \in Events, LaneTaken(e)
  PROVE  /\ e.lane \in Lanes
         /\ LaneOwner(e) \in normal /\ LaneOwner(e).coalescible
         /\ LaneOwner(e).ev.lane = e.lane
         /\ \A i \in normal : i.coalescible /\ i.ev.lane = e.lane => i = LaneOwner(e)
<1> DEFINE open == {i \in normal : i.coalescible /\ i.ev.lane = e.lane}
<1>1. e.lane \in Lanes /\ pendingCoalesce[e.lane] # 0
  BY DEF LaneTaken
<1>2. PICK i \in open : open = {i} /\ i.id = pendingCoalesce[e.lane]
  BY <1>1 DEF LaneOwnership
<1>3. i \in Owned /\ \A j \in Owned : j.id = pendingCoalesce[e.lane] => j = i
  BY <1>2 DEF ItemsApart, Owned, Queued
<1>4. LaneOwner(e) = i
  BY <1>2, <1>3 DEF LaneOwner
<1> QED BY <1>1, <1>2, <1>4

(* A dequeue takes one queued item, leaves the rest, and keeps the item's   *)
(* base charge in flight.                                                   *)
LEMMA PopTakes ==
  ASSUME TypeOK, ItemsApart, TokensExact, NEW eligible, eligible \subseteq Queued,
         Pop(eligible)
  PROVE  \E item \in Queued :
           /\ critical' = critical \ {item} /\ normal' = normal \ {item}
           /\ inflight' = {[item EXCEPT !.token = item.ev.base]}
           /\ queuedBytes' = queuedBytes - item.token
           /\ inFlightBytes' = inFlightBytes + item.ev.base
           /\ pendingCoalesce' = IF item.coalescible
                                 THEN [pendingCoalesce EXCEPT ![item.ev.lane] = 0]
                                 ELSE pendingCoalesce
           /\ item.coalescible => item \in normal
<1> DEFINE isCritical == TakesCritical(eligible)
           queue == (IF isCritical THEN critical ELSE normal) \cap eligible
           item == First(queue)
<1>1. queue # {}
  BY DEF Pop, TakesCritical, Queued
<1>2. \A i \in queue : i.id \in Nat
  BY DEF TypeOK, Item
<1>3. item \in queue
  <2> HIDE DEF queue
  <2> QED BY <1>1, <1>2, FirstIsMember
<1>4. item \in Queued /\ item \in Item
  BY <1>3 DEF Queued, TypeOK
<1>5. item.token - (IF item.coalescible THEN CoalesceCharge ELSE 0) = item.ev.base
  <2>1. item.token = EventToken(item.ev, item.coalescible)
    BY <1>4 DEF TokensExact
  <2>2. item.ev.base \in Nat /\ CoalesceCharge \in Nat
    BY <1>4, EventFields, QueueAssumption DEF Item
  <2> QED BY <2>1, <2>2 DEF EventToken
<1>6. item.coalescible => item \in normal
  BY <1>4 DEF TokensExact, Queued
<1> HIDE DEF item
<1> QED BY <1>4, <1>5, <1>6 DEF Pop, item, LanesAfterPop

-----------------------------------------------------------------------------
(* Recording a loss.                                                        *)

(* The room an ordinary diagnostic finds is room below the reserve, and a   *)
(* reserved one always finds its own: no loss goes unrecorded.              *)
LEMMA RecordGapFits ==
  ASSUME TypeOK, ReserveIntact, NEW k \in DiagKeys, NEW queued \in Int,
         queued <= queuedBytes, RecordGap(k, queued)
  PROVE  /\ \E t \in DiagKeys : pendingDiagnostics' =
              [pendingDiagnostics EXCEPT ![t] = IF @ < CountCeiling THEN @ + 1 ELSE @]
         /\ pendingDiagnostics' \in [DiagKeys -> 0..CountCeiling]
         /\ ordinaryDiagnosticBytes' \in Nat /\ fixedDiagnosticBytes' \in Nat
         /\ queued + inFlightBytes + ordinaryDiagnosticBytes' <= EventLimit
         /\ fixedDiagnosticBytes' =
              (IF pendingDiagnostics'["critical"] > 0 THEN DiagReserve ELSE 0)
                + (IF pendingDiagnostics'["normal"] > 0 THEN DiagReserve ELSE 0)
                + (IF pendingDiagnostics'["ledger"] > 0 THEN DiagReserve ELSE 0)
<1> DEFINE t == DiagnosticTarget(k, queued)
           charge == DiagCharge(t)
           known == pendingDiagnostics[t] > 0
<1>0. /\ pendingDiagnostics \in [DiagKeys -> 0..CountCeiling]
      /\ ordinaryDiagnosticBytes \in Nat /\ fixedDiagnosticBytes \in Nat
      /\ queuedBytes \in Int /\ inFlightBytes \in Nat
      /\ CountCeiling \in Nat \ {0} /\ DiagReserve \in Nat
      /\ QueuedByteLimit \in Nat /\ QueuedByteLimit >= 3 * DiagReserve
      /\ GapCharge \in [GapIds -> Nat] /\ GapIds \cap Reserved = {}
  BY QueueAssumption DEF TypeOK
<1>1. t \in DiagKeys
  BY <1>0 DEF DiagnosticTarget, FinalDiagnosticIdentity, DiagKeys, Reserved
<1>2. t \notin Reserved => known \/ FitsBelowReserve(queued, charge)
  BY DEF DiagnosticTarget, PendingOrdinary, Reserved
<1>3. charge \in Nat /\ (t \in Reserved => charge = DiagReserve)
  BY <1>0, <1>1 DEF DiagCharge, DiagKeys
<1>4. queued + inFlightBytes + ordinaryDiagnosticBytes <= EventLimit
  BY <1>0 DEF ReserveIntact, EventLimit
<1>5. fixedDiagnosticBytes + (IF t \in Reserved /\ ~known THEN DiagReserve ELSE 0)
        <= 3 * DiagReserve
  BY <1>0, <1>1 DEF ReserveIntact, Reserved
<1>6. known \/ TotalFits(queued, charge)
  <2>1. CASE t \in Reserved
    BY <2>1, <1>0, <1>3, <1>4, <1>5 DEF TotalFits, EventLimit
  <2>2. CASE t \notin Reserved
    BY <2>2, <1>0, <1>2, <1>3, <1>5 DEF TotalFits, FitsBelowReserve, EventLimit
  <2> QED BY <2>1, <2>2
<1>7. /\ pendingDiagnostics' = [pendingDiagnostics EXCEPT
              ![t] = IF @ < CountCeiling THEN @ + 1 ELSE @]
      /\ ordinaryDiagnosticBytes' = ordinaryDiagnosticBytes +
              (IF known \/ t \in Reserved THEN 0 ELSE charge)
      /\ fixedDiagnosticBytes' = fixedDiagnosticBytes +
              (IF ~known /\ t \in Reserved THEN charge ELSE 0)
  BY <1>6 DEF RecordGap
<1>8. queued + inFlightBytes + ordinaryDiagnosticBytes' <= EventLimit
  <2>1. CASE known \/ t \in Reserved
    BY <2>1, <1>0, <1>4, <1>7
  <2>2. CASE ~(known \/ t \in Reserved)
    BY <2>2, <1>0, <1>2, <1>3, <1>7 DEF FitsBelowReserve
  <2> QED BY <2>1, <2>2
<1> HIDE DEF t, charge
<1>9. /\ pendingDiagnostics' \in [DiagKeys -> 0..CountCeiling]
      /\ \A d \in DiagKeys : pendingDiagnostics'[d] > 0 <=>
           (d = t \/ pendingDiagnostics[d] > 0)
  BY <1>0, <1>1, <1>7
<1>10. fixedDiagnosticBytes' =
              (IF pendingDiagnostics'["critical"] > 0 THEN DiagReserve ELSE 0)
                + (IF pendingDiagnostics'["normal"] > 0 THEN DiagReserve ELSE 0)
                + (IF pendingDiagnostics'["ledger"] > 0 THEN DiagReserve ELSE 0)
  <2>1. {"critical", "normal", "ledger"} \subseteq DiagKeys
    BY DEF DiagKeys, Reserved
  <2>2. CASE t \in Reserved
    BY <2>1, <2>2, <1>0, <1>3, <1>7, <1>9 DEF ReserveIntact, Reserved
  <2>3. CASE t \notin Reserved
    BY <2>1, <2>3, <1>0, <1>7, <1>9 DEF ReserveIntact, Reserved
  <2> QED BY <2>2, <2>3
<1>11. ordinaryDiagnosticBytes' \in Nat /\ fixedDiagnosticBytes' \in Nat
  BY <1>0, <1>3, <1>7
<1>12. \E d \in DiagKeys : pendingDiagnostics' =
          [pendingDiagnostics EXCEPT ![d] = IF @ < CountCeiling THEN @ + 1 ELSE @]
  BY <1>1, <1>7
<1> QED BY <1>8, <1>9, <1>10, <1>11, <1>12

-----------------------------------------------------------------------------
(* The invariant holds initially and every step keeps it.                   *)

(* The inductive invariant holds of a fresh Store.                          *)
LEMMA InitIInv == Init => IInv
<1> SUFFICES ASSUME Init PROVE IInv
  OBVIOUS
<1>1. Queued = {} /\ Owned = {} /\ inflight \cup preApply = {}
  BY DEF Init, Queued, Owned
<1>2. TypeOK
  <2>1. IsFiniteSet({}) /\ Cardinality({}) = 0
    BY FS_EmptySet
  <2>2. {} \in GapLedgers
    BY <2>1, QueueAssumption DEF GapLedgers
  <2> QED BY <2>1, <2>2, QueueAssumption DEF Init, TypeOK, Results
<1>3. ItemsApart /\ TokensExact
  BY <1>1 DEF ItemsApart, TokensExact, Init
<1>4. LaneOwnership
  BY DEF LaneOwnership, Init
<1>5. ReserveIntact
  BY QueueAssumption DEF ReserveIntact, Init, DiagKeys, Reserved, EventLimit
<1> QED BY <1>2, <1>3, <1>4, <1>5 DEF IInv

itemVars == <<normal, critical, inflight, preApply, pendingCoalesce, ingressOrdinal>>

(* A step that moves no item keeps what is said of the items.              *)
LEMMA ItemsKept ==
  ASSUME ItemsApart, TokensExact, LaneOwnership, UNCHANGED itemVars
  PROVE  ItemsApart' /\ TokensExact' /\ LaneOwnership'
BY DEF itemVars, ItemsApart, TokensExact, LaneOwnership, Owned, Queued

(* Steps that move neither items nor bytes.                                 *)
LEMMA QuietPublish ==
  ASSUME IInv, NEW e \in Events, PublishReject(e) \/ PublishDuplicate(e)
  PROVE  IInv'
<1> USE DEF PublishReject, PublishDuplicate
<1>1. UNCHANGED itemVars /\ UNCHANGED <<byteVars, diagVars>>
  BY DEF itemVars, laneVars, byteVars, diagVars, applyVars
<1>2. ItemsApart' /\ TokensExact' /\ LaneOwnership'
  BY <1>1, ItemsKept DEF IInv
<1>3. ReserveIntact'
  BY <1>1 DEF IInv, ReserveIntact, byteVars, diagVars, EventLimit
<1>4. stats' \in [Counters -> Nat]
  BY DEF IInv, TypeOK, Counters, Count
<1>5. TypeOK'
  BY <1>4 DEF IInv, TypeOK, runVars, laneVars, lossVars, applyVars, byteVars, diagVars
<1> QED BY <1>2, <1>3, <1>5 DEF IInv

(* A step that leaves queues, lanes and bytes alone keeps the invariant.   *)
LEMMA QuietRun ==
  ASSUME IInv,
         \/ RunStart \/ StopBegin \/ StopPublishFails
         \/ \E reason \in {"cancel", "abort"} : Halt(reason)
         \/ \E result \in Results, gaps \in GapLedgers : ApplyBegin(result, gaps)
  PROVE  IInv'
<1> USE DEF RunStart, StopBegin, StopPublishFails, Halt, ApplyBegin
<1>1. UNCHANGED itemVars /\ UNCHANGED <<byteVars, diagVars>>
  BY DEF itemVars, laneVars, byteVars, diagVars, applyVars
<1>2. ItemsApart' /\ TokensExact' /\ LaneOwnership'
  BY <1>1, ItemsKept DEF IInv
<1>3. ReserveIntact'
  BY <1>1 DEF IInv, ReserveIntact, byteVars, diagVars, EventLimit
<1>4. TypeOK'
  BY DEF IInv, TypeOK, runVars, laneVars, lossVars, applyVars, byteVars, diagVars
<1> QED BY <1>2, <1>3, <1>4 DEF IInv

(* A refused publication that leaves a diagnostic.                          *)
LEMMA RecordingSteps ==
  ASSUME IInv, NEW e \in Events, PublishCollision(e) \/ PublishDropReplacement(e)
  PROVE  IInv'
<1> USE DEF PublishCollision, PublishDropReplacement
<1>1. UNCHANGED itemVars /\ UNCHANGED byteVars
  BY DEF itemVars, laneVars, byteVars, applyVars
<1>2. PICK k \in DiagKeys : RecordGap(k, queuedBytes)
  BY EventFields DEF DiagKeys, Reserved
<1>3. queuedBytes \in Int /\ queuedBytes <= queuedBytes
  BY DEF IInv, TypeOK
<1>4. /\ pendingDiagnostics' \in [DiagKeys -> 0..CountCeiling]
      /\ ordinaryDiagnosticBytes' \in Nat /\ fixedDiagnosticBytes' \in Nat
      /\ queuedBytes + inFlightBytes + ordinaryDiagnosticBytes' <= EventLimit
      /\ fixedDiagnosticBytes' =
              (IF pendingDiagnostics'["critical"] > 0 THEN DiagReserve ELSE 0)
                + (IF pendingDiagnostics'["normal"] > 0 THEN DiagReserve ELSE 0)
                + (IF pendingDiagnostics'["ledger"] > 0 THEN DiagReserve ELSE 0)
  BY <1>2, <1>3, RecordGapFits DEF IInv
<1>5. ItemsApart' /\ TokensExact' /\ LaneOwnership'
  BY <1>1, ItemsKept DEF IInv
<1>6. ReserveIntact'
  BY <1>1, <1>4 DEF IInv, ReserveIntact, byteVars, EventLimit
<1>7. stats' \in [Counters -> Nat]
  BY DEF IInv, TypeOK, Counters, Count
<1>8. TypeOK'
  BY <1>1, <1>4, <1>7 DEF IInv, TypeOK, runVars, laneVars, lossVars, applyVars, byteVars
<1> QED BY <1>5, <1>6, <1>8 DEF IInv

(* Closing a lane keeps every item in its place and only takes the coalesce *)
(* charge off the one that owned the lane.                                  *)
LEMMA LaneCloses ==
  ASSUME IInv, NEW e \in Events
  PROVE  /\ ClosedLaneQueue(e) \subseteq Item /\ IsFiniteSet(ClosedLaneQueue(e))
         /\ Cardinality(ClosedLaneQueue(e)) = Cardinality(normal)
         /\ \A i \in ClosedLaneQueue(e) :
              /\ i.token = EventToken(i.ev, i.coalescible)
              /\ i.coalescible => i \in normal /\ i.ev.lane # e.lane
              /\ \E j \in normal : i.id = j.id /\ i.sequence = j.sequence /\ i.ev = j.ev
         /\ \A j \in normal : j.coalescible /\ j.ev.lane # e.lane => j \in ClosedLaneQueue(e)
         /\ \A i, j \in ClosedLaneQueue(e) : i.id = j.id => i = j
         /\ ClosedLanes(e) \in [Lanes -> Nat]
         /\ \A l \in Lanes : ClosedLanes(e)[l] = IF l = e.lane THEN 0 ELSE pendingCoalesce[l]
         /\ ClosedLaneBytes(e) \in Int /\ ClosedLaneBytes(e) <= queuedBytes
<1>0. CoalesceCharge \in Nat /\ queuedBytes \in Int
  BY QueueAssumption DEF IInv, TypeOK
<1>1. CASE ~LaneTaken(e)
  <2>1. ClosedLaneQueue(e) = normal /\ ClosedLanes(e) = pendingCoalesce
    BY <1>1 DEF ClosedLaneQueue, ClosedLanes
  <2>2. e.lane \in Lanes => pendingCoalesce[e.lane] = 0
    BY <1>1 DEF LaneTaken
  <2>3. \A i \in normal : i.coalescible => i.ev.lane # e.lane
    BY <2>2 DEF IInv, TokensExact, LaneOwnership
  <2>4. ClosedLaneBytes(e) = queuedBytes
    BY <1>0, <1>1 DEF ClosedLaneBytes
  <2> QED BY <2>1, <2>2, <2>3, <2>4, <1>0 DEF IInv, TypeOK, ItemsApart, TokensExact, Owned, Queued
<1>2. CASE LaneTaken(e)
  <2> DEFINE old == LaneOwner(e)
             new == [old EXCEPT !.coalescible = FALSE, !.token = @ - CoalesceCharge]
  <2>1. /\ e.lane \in Lanes /\ old \in normal /\ old.coalescible /\ old.ev.lane = e.lane
        /\ \A i \in normal : i.coalescible /\ i.ev.lane = e.lane => i = old
    BY <1>2, LaneOwnerFound DEF IInv
  <2>2. ClosedLaneQueue(e) = (normal \ {old}) \cup {new}
    BY <1>2 DEF ClosedLaneQueue
  <2>3. ClosedLanes(e) = [pendingCoalesce EXCEPT ![e.lane] = 0]
    BY <1>2 DEF ClosedLanes
  <2>4. ClosedLaneBytes(e) = queuedBytes - CoalesceCharge
    BY <1>2 DEF ClosedLaneBytes
  <2> HIDE DEF old
  <2>5. old \in Item /\ old.token = EventToken(old.ev, old.coalescible)
    BY <2>1 DEF IInv, TypeOK, TokensExact, Queued
  <2>6. old.ev.base \in Nat
    BY <2>5, EventFields DEF Item
  <2>7. new \in Item /\ new.id = old.id /\ new.sequence = old.sequence /\ new.ev = old.ev
        /\ new.coalescible = FALSE /\ new.token = EventToken(new.ev, FALSE)
    <3>2. old.token - CoalesceCharge = EventToken(old.ev, FALSE)
      BY <1>0, <2>1, <2>5, <2>6 DEF EventToken
    <3>3. old.token \in Int /\ old.id \in Nat /\ old.sequence \in Nat /\ old.ev \in Events
      BY <2>5 DEF Item
    <3>4. old.token - CoalesceCharge \in Int
      BY <1>0, <3>3
    <3>5. /\ new.id = old.id /\ new.sequence = old.sequence /\ new.ev = old.ev
          /\ new.coalescible = FALSE /\ new.token = old.token - CoalesceCharge
      BY <2>5 DEF Item
    <3>6. new \in Item
      BY <2>5, <3>4 DEF Item
    <3> QED BY <3>2, <3>5, <3>6
  <2>8. new \notin normal
    BY <2>1, <2>7 DEF IInv, ItemsApart, Owned, Queued
  <2>9. /\ IsFiniteSet(ClosedLaneQueue(e))
        /\ Cardinality(ClosedLaneQueue(e)) = Cardinality(normal)
    <3>1. IsFiniteSet(normal) /\ Cardinality(normal) \in Nat
      BY FS_CardinalityType DEF IInv, TypeOK
    <3>2. IsFiniteSet(normal \ {old}) /\ Cardinality(normal \ {old}) = Cardinality(normal) - 1
      BY <2>1, <3>1, FS_RemoveElement
    <3>3. new \notin normal \ {old}
      BY <2>8
    <3>4. /\ IsFiniteSet((normal \ {old}) \cup {new})
          /\ Cardinality((normal \ {old}) \cup {new}) = Cardinality(normal \ {old}) + 1
      <4> HIDE DEF new
      <4> QED BY <3>2, <3>3, FS_AddElement
    <3> QED BY <2>2, <3>1, <3>2, <3>4
  <2> HIDE DEF new
  <2>10. \A i \in ClosedLaneQueue(e) :
              /\ i.token = EventToken(i.ev, i.coalescible)
              /\ i.coalescible => i \in normal /\ i.ev.lane # e.lane
              /\ \E j \in normal : i.id = j.id /\ i.sequence = j.sequence /\ i.ev = j.ev
    BY <2>1, <2>2, <2>7 DEF IInv, TokensExact, Queued
  <2>11. \A j \in normal : j.coalescible /\ j.ev.lane # e.lane => j \in ClosedLaneQueue(e)
    BY <2>1, <2>2
  <2>12. \A i, j \in ClosedLaneQueue(e) : i.id = j.id => i = j
    BY <2>1, <2>2, <2>7 DEF IInv, ItemsApart, Owned, Queued
  <2>13. ClosedLaneQueue(e) \subseteq Item
    BY <2>2, <2>7 DEF IInv, TypeOK
  <2>14. /\ ClosedLanes(e) \in [Lanes -> Nat]
         /\ \A l \in Lanes : ClosedLanes(e)[l] = IF l = e.lane THEN 0 ELSE pendingCoalesce[l]
    BY <2>1, <2>3 DEF IInv, TypeOK
  <2>15. ClosedLaneBytes(e) \in Int /\ ClosedLaneBytes(e) <= queuedBytes
    BY <1>0, <2>4
  <2> QED BY <2>9, <2>10, <2>11, <2>12, <2>13, <2>14, <2>15
<1> QED BY <1>1, <1>2

(* The queue left by a closed lane keeps the item facts.                    *)
LEMMA LaneClosedItems ==
  ASSUME IInv, NEW e \in Events, normal' = ClosedLaneQueue(e),
         pendingCoalesce' = ClosedLanes(e),
         UNCHANGED <<critical, inflight, preApply, ingressOrdinal>>
  PROVE  ItemsApart' /\ TokensExact' /\ LaneOwnership'
<1>1. ItemsApart'
  <2>1. \A i \in normal' : \E j \in normal : i.id = j.id /\ i.sequence = j.sequence
    BY LaneCloses
  <2>2. \A i, j \in normal' : i.id = j.id => i = j
    BY LaneCloses
  <2> QED BY <2>1, <2>2 DEF IInv, ItemsApart, Owned, Queued
<1>2. TokensExact'
  BY LaneCloses DEF IInv, TokensExact, Queued, EventToken
<1>3. LaneOwnership'
  <2> SUFFICES ASSUME NEW l \in Lanes
               PROVE  LET open == {i \in normal' : i.coalescible /\ i.ev.lane = l}
                      IN  IF pendingCoalesce'[l] = 0 THEN open = {}
                          ELSE \E i \in open : open = {i} /\ i.id = pendingCoalesce'[l]
    BY DEF LaneOwnership
  <2>1. CASE l = e.lane
    BY <2>1, LaneCloses
  <2>2. CASE l # e.lane
    <3>1. {i \in normal' : i.coalescible /\ i.ev.lane = l}
            = {i \in normal : i.coalescible /\ i.ev.lane = l}
      BY <2>2, LaneCloses
    <3>2. pendingCoalesce'[l] = pendingCoalesce[l]
      BY <2>2, LaneCloses
    <3> QED BY <3>1, <3>2 DEF IInv, LaneOwnership
  <2> QED BY <2>1, <2>2
<1> QED BY <1>1, <1>2, <1>3

(* A dropped event, which may still close its lane, keeps the invariant.   *)
LEMMA DropStep ==
  ASSUME IInv, NEW e \in Events, PublishDrop(e)
  PROVE  IInv'
<1>1. /\ normal' = ClosedLaneQueue(e) /\ pendingCoalesce' = ClosedLanes(e)
      /\ queuedBytes' = ClosedLaneBytes(e)
      /\ UNCHANGED <<critical, inflight, preApply, ingressOrdinal, inFlightBytes>>
  BY DEF PublishDrop, applyVars
<1>2. PICK k \in DiagKeys : RecordGap(k, ClosedLaneBytes(e))
  BY DEF PublishDrop, DiagKeys, Reserved
<1>3. queuedBytes' \in Int /\ queuedBytes' <= queuedBytes
  BY <1>1, LaneCloses
<1>4. /\ pendingDiagnostics' \in [DiagKeys -> 0..CountCeiling]
      /\ ordinaryDiagnosticBytes' \in Nat /\ fixedDiagnosticBytes' \in Nat
      /\ queuedBytes' + inFlightBytes + ordinaryDiagnosticBytes' <= EventLimit
      /\ fixedDiagnosticBytes' =
              (IF pendingDiagnostics'["critical"] > 0 THEN DiagReserve ELSE 0)
                + (IF pendingDiagnostics'["normal"] > 0 THEN DiagReserve ELSE 0)
                + (IF pendingDiagnostics'["ledger"] > 0 THEN DiagReserve ELSE 0)
  BY <1>1, <1>2, <1>3, RecordGapFits DEF IInv
<1>5. ItemsApart' /\ TokensExact' /\ LaneOwnership'
  BY <1>1, LaneClosedItems
<1>6. ReserveIntact'
  BY <1>1, <1>4 DEF ReserveIntact, EventLimit
<1>7. stats' \in [Counters -> Nat]
  BY DEF IInv, TypeOK, Counters, Count, PublishDrop
<1>8. /\ normal' \subseteq Item /\ IsFiniteSet(normal')
      /\ Cardinality(normal') <= EventQueue - CriticalReserve
      /\ pendingCoalesce' \in [Lanes -> Nat]
  BY <1>1, LaneCloses DEF IInv, TypeOK
<1>9. TypeOK'
  BY <1>1, <1>3, <1>4, <1>7, <1>8 DEF IInv, TypeOK, PublishDrop, runVars, applyVars, lossVars
<1> QED BY <1>5, <1>6, <1>9 DEF IInv

(* An accepted event, which may close its lane first, keeps it.            *)
LEMMA AcceptStep ==
  ASSUME IInv, NEW e \in Events, PublishAccept(e)
  PROVE  IInv'
<1> DEFINE id   == ingressOrdinal + 1
           item == [id |-> id, sequence |-> id, ev |-> e,
                    token |-> EventToken(e, Coalescible(e)),
                    coalescible |-> Coalescible(e)]
<1>1. /\ normal' = ClosedLaneQueue(e) \cup (IF e.critical THEN {} ELSE {item})
      /\ critical' = critical \cup (IF e.critical THEN {item} ELSE {})
      /\ pendingReplay' = [pendingReplay EXCEPT ![e.replay] = id]
      /\ pendingCoalesce' = IF Coalescible(e)
                            THEN [pendingCoalesce EXCEPT ![e.lane] = id]
                            ELSE ClosedLanes(e)
      /\ queuedBytes' = ClosedLaneBytes(e) + item.token
      /\ ingressOrdinal' = id
      /\ UNCHANGED <<runVars, applyVars, inFlightBytes, diagVars, activeGaps, lossVars,
                     criticalDebt>>
  BY DEF PublishAccept
<1>2. HasRoom(e)
  BY DEF PublishAccept
<1>3. ingressOrdinal \in Nat /\ id \in Nat /\ id > ingressOrdinal
  BY DEF IInv, TypeOK
<1>4. /\ e.lane \in Lanes \cup {NoLane} /\ e.critical \in BOOLEAN /\ e.base \in Nat
      /\ e.replay \in ReplayKeys /\ (e.critical => e.lane \notin Lanes)
      /\ CoalesceCharge \in Nat
  BY EventFields, QueueAssumption
<1>5. Coalescible(e) \in BOOLEAN /\ (Coalescible(e) => ~e.critical)
  <2>1. Coalescible(e) \in BOOLEAN
    BY Zenon DEF Coalescible, LaneTaken
  <2>2. Coalescible(e) => e.lane \in Lanes
    BY DEF Coalescible
  <2> QED BY <1>4, <2>1, <2>2
<1>6. EventToken(e, Coalescible(e)) \in Nat
  BY <1>4, <1>5 DEF EventToken
<1>7. item \in Item
  BY <1>3, <1>5, <1>6 DEF Item
<1>8. /\ item.id = id /\ item.sequence = id /\ item.ev = e
      /\ item.token = EventToken(e, Coalescible(e)) /\ item.coalescible = Coalescible(e)
  OBVIOUS
<1> HIDE DEF item, id
<1>9. \A i \in ClosedLaneQueue(e) \cup critical \cup inflight \cup preApply :
        i.id # id /\ i.id \in 1..ingressOrdinal /\ i.sequence <= ingressOrdinal
  <2>1. \A i \in ClosedLaneQueue(e) :
          \E j \in normal : i.id = j.id /\ i.sequence = j.sequence /\ i.ev = j.ev
    BY LaneCloses
  <2> QED BY <1>3, <2>1 DEF IInv, ItemsApart, Owned, Queued
<1>10. ItemsApart'
  <2>1. \A i \in ClosedLaneQueue(e) : \E j \in normal : i.id = j.id
    BY LaneCloses
  <2>2. \A i, j \in ClosedLaneQueue(e) : i.id = j.id => i = j
    BY LaneCloses
  <2>3. Owned' = ClosedLaneQueue(e) \cup critical \cup inflight \cup preApply \cup {item}
    BY <1>1, <1>4 DEF Owned, Queued, applyVars
  <2>4. \A i, j \in ClosedLaneQueue(e) \cup critical \cup inflight \cup preApply :
          i.id = j.id => i = j
    BY <2>1, <2>2 DEF IInv, ItemsApart, Owned, Queued
  <2>5. \A i, j \in Owned' : i.id = j.id => i = j
    BY <1>8, <1>9, <2>3, <2>4
  <2>6. \A i \in Owned' : i.id \in 1..ingressOrdinal' /\ i.sequence <= ingressOrdinal'
    <3>1. item.id \in 1..ingressOrdinal' /\ item.sequence <= ingressOrdinal'
      BY <1>1, <1>3, <1>8 DEF id
    <3>2. ASSUME NEW i \in ClosedLaneQueue(e) \cup critical \cup inflight \cup preApply
          PROVE  i.id \in 1..ingressOrdinal' /\ i.sequence <= ingressOrdinal'
      <4>1. i.id \in 1..ingressOrdinal /\ i.sequence <= ingressOrdinal /\ i.sequence \in Nat
        BY <1>9, LaneCloses DEF IInv, TypeOK, Item
      <4> QED BY <1>1, <1>3, <4>1
    <3> QED BY <2>3, <3>1, <3>2
  <2>7. \A i \in ClosedLaneQueue(e) : i \notin critical \cup inflight \cup preApply
    BY <2>1 DEF IInv, ItemsApart, Owned, Queued
  <2>8. item \notin ClosedLaneQueue(e) \cup critical \cup inflight \cup preApply
    BY <1>8, <1>9
  <2>9. normal' \cap critical' = {} /\ Queued' \cap (inflight' \cup preApply') = {}
    BY <1>1, <2>7, <2>8 DEF Queued, applyVars, IInv, ItemsApart
  <2> QED BY <2>5, <2>6, <2>9 DEF ItemsApart
<1>11. TokensExact'
  <2>1. \A i \in ClosedLaneQueue(e) :
          /\ i.token = EventToken(i.ev, i.coalescible)
          /\ i.coalescible => i.ev.lane \in Lanes
    BY LaneCloses DEF IInv, TokensExact
  <2> QED BY <1>1, <1>5, <1>8, <2>1 DEF IInv, TokensExact, Queued, EventToken, Coalescible,
             applyVars
<1>12. LaneOwnership'
  <2> SUFFICES ASSUME NEW l \in Lanes
               PROVE  LET open == {i \in normal' : i.coalescible /\ i.ev.lane = l}
                      IN  IF pendingCoalesce'[l] = 0 THEN open = {}
                          ELSE \E i \in open : open = {i} /\ i.id = pendingCoalesce'[l]
    BY DEF LaneOwnership
  <2>0. pendingCoalesce \in [Lanes -> Nat] /\ id # 0
    BY <1>3 DEF IInv, TypeOK
  <2>1. \A i \in ClosedLaneQueue(e) : i.coalescible => i.ev.lane # e.lane
    BY LaneCloses
  <2>2. CASE l = e.lane /\ Coalescible(e)
    <3>1. {i \in normal' : i.coalescible /\ i.ev.lane = l} = {item}
      BY <1>1, <1>5, <1>8, <2>1, <2>2
    <3>2. pendingCoalesce'[l] = id
      BY <1>1, <2>0, <2>2
    <3> QED BY <1>8, <2>0, <3>1, <3>2
  <2>3. CASE l = e.lane /\ ~Coalescible(e)
    <3>1. {i \in normal' : i.coalescible /\ i.ev.lane = l} = {}
      BY <1>1, <1>8, <2>1, <2>3
    <3>2. pendingCoalesce'[l] = 0
      BY <1>1, <2>3, LaneCloses
    <3> QED BY <3>1, <3>2
  <2>4. CASE l # e.lane
    <3>1. {i \in normal' : i.coalescible /\ i.ev.lane = l}
            = {i \in normal : i.coalescible /\ i.ev.lane = l}
      BY <1>1, <1>8, <2>4, LaneCloses
    <3>2. pendingCoalesce'[l] = pendingCoalesce[l]
      BY <1>1, <2>0, <2>4, LaneCloses
    <3> QED BY <3>1, <3>2 DEF IInv, LaneOwnership
  <2> QED BY <2>2, <2>3, <2>4
<1>13. ReserveIntact'
  <2>1. queuedBytes' + inFlightBytes + ordinaryDiagnosticBytes <= EventLimit
    <3>1. /\ ClosedLaneBytes(e) \in Int /\ inFlightBytes \in Int
          /\ ordinaryDiagnosticBytes \in Int /\ EventLimit \in Int
      BY LaneCloses, QueueAssumption DEF IInv, TypeOK, EventLimit
    <3> QED BY <1>1, <1>2, <1>6, <1>8, <3>1 DEF HasRoom, FitsBelowReserve
  <2> QED BY <1>1, <2>1 DEF IInv, ReserveIntact, diagVars, EventLimit
<1>14. TypeOK'
  <2>1. /\ IsFiniteSet(normal') /\ Cardinality(normal') <= EventQueue - CriticalReserve
        /\ IsFiniteSet(critical') /\ Cardinality(critical') <= CriticalReserve
    <3>0. /\ IsFiniteSet(ClosedLaneQueue(e)) /\ IsFiniteSet(critical)
          /\ Cardinality(ClosedLaneQueue(e)) = Cardinality(normal)
          /\ Cardinality(normal) <= EventQueue - CriticalReserve
          /\ Cardinality(critical) <= CriticalReserve
      BY LaneCloses DEF IInv, TypeOK
    <3>1. CASE e.critical
      <4>1. normal' = ClosedLaneQueue(e) /\ critical' = critical \cup {item}
        BY <1>1, <3>1
      <4>2. Cardinality(critical) < CriticalReserve
        BY <1>2, <3>1 DEF HasRoom
      <4>3. IsFiniteSet(critical') /\ Cardinality(critical') <= Cardinality(critical) + 1
        <5>1. /\ IsFiniteSet(critical \cup {item})
              /\ Cardinality(critical \cup {item}) =
                   IF item \in critical THEN Cardinality(critical) ELSE Cardinality(critical) + 1
          BY <3>0, FS_AddElement
        <5>2. Cardinality(critical) \in Nat
          BY <3>0, FS_CardinalityType
        <5> QED BY <4>1, <5>1, <5>2
      <4>4. Cardinality(critical) \in Nat /\ Cardinality(critical') \in Nat
            /\ CriticalReserve \in Nat
        BY <3>0, <4>3, FS_CardinalityType, QueueAssumption
      <4> QED BY <3>0, <4>1, <4>2, <4>3, <4>4
    <3>2. CASE ~e.critical
      <4>1. critical' = critical /\ normal' = ClosedLaneQueue(e) \cup {item}
        BY <1>1, <3>2
      <4>2. Cardinality(normal) < EventQueue - CriticalReserve
        BY <1>2, <3>2 DEF HasRoom
      <4>3. IsFiniteSet(normal')
            /\ Cardinality(normal') <= Cardinality(ClosedLaneQueue(e)) + 1
        <5> DEFINE kept == ClosedLaneQueue(e)
        <5>1. /\ IsFiniteSet(kept \cup {item})
              /\ Cardinality(kept \cup {item}) =
                   IF item \in kept THEN Cardinality(kept) ELSE Cardinality(kept) + 1
          <6> HIDE DEF kept
          <6>1. IsFiniteSet(kept)
            BY <3>0 DEF kept
          <6> QED BY <6>1, FS_AddElement
        <5>2. Cardinality(kept) \in Nat
          BY <3>0, FS_CardinalityType
        <5> QED BY <4>1, <5>1, <5>2
      <4>4. Cardinality(normal) \in Nat /\ Cardinality(normal') \in Nat
            /\ EventQueue - CriticalReserve \in Int
        BY <3>0, <4>3, FS_CardinalityType, QueueAssumption DEF IInv, TypeOK
      <4> QED BY <3>0, <4>1, <4>2, <4>3, <4>4
    <3> QED BY <1>4, <3>1, <3>2
  <2>2. stats' \in [Counters -> Nat]
    BY DEF IInv, TypeOK, Counters, Count, PublishAccept
  <2>3. normal' \subseteq Item /\ critical' \subseteq Item
    BY <1>1, <1>7, LaneCloses DEF IInv, TypeOK
  <2>4. pendingReplay' \in [ReplayKeys -> Nat] /\ pendingCoalesce' \in [Lanes -> Nat]
    BY <1>1, <1>3, <1>4, LaneCloses DEF IInv, TypeOK, Coalescible
  <2>5. queuedBytes' \in Int
    BY <1>1, <1>6, <1>8, LaneCloses
  <2> QED BY <1>1, <1>3, <2>1, <2>2, <2>3, <2>4, <2>5
      DEF IInv, TypeOK, runVars, applyVars, diagVars, lossVars
<1> QED BY <1>10, <1>11, <1>12, <1>13, <1>14 DEF IInv

(* A replacement in place keeps it.                                        *)
LEMMA CoalesceStep ==
  ASSUME IInv, NEW e \in Events, PublishCoalesce(e)
  PROVE  IInv'
<1> DEFINE old == LaneOwner(e)
           new == [old EXCEPT !.ev = e, !.token = EventToken(e, TRUE),
                              !.sequence = ingressOrdinal + 1]
<1>1. /\ normal' = (normal \ {old}) \cup {new}
      /\ pendingReplay' = [pendingReplay EXCEPT ![old.ev.replay] = 0, ![e.replay] = old.id]
      /\ queuedBytes' = queuedBytes + new.token - old.token
      /\ ingressOrdinal' = ingressOrdinal + 1
      /\ UNCHANGED <<runVars, critical, applyVars, pendingCoalesce, inFlightBytes,
                     diagVars, activeGaps, lossVars, criticalDebt>>
  BY DEF PublishCoalesce
<1>2. LaneTaken(e) /\ FitsBelowReserve(queuedBytes - old.token, EventToken(e, TRUE))
  BY DEF PublishCoalesce, Replaces, ReplacementFits
<1>3. /\ e.lane \in Lanes /\ old \in normal /\ old.coalescible /\ old.ev.lane = e.lane
      /\ \A i \in normal : i.coalescible /\ i.ev.lane = e.lane => i = old
  BY <1>2, LaneOwnerFound DEF IInv
<1> HIDE DEF old
<1>4. ingressOrdinal \in Nat /\ old \in Item
  BY <1>3 DEF IInv, TypeOK
<1>5. EventToken(e, TRUE) \in Nat
  BY EventFields, QueueAssumption DEF EventToken
<1>6. /\ new \in Item /\ new.id = old.id /\ new.sequence = ingressOrdinal + 1
      /\ new.ev = e /\ new.coalescible = old.coalescible /\ new.token = EventToken(e, TRUE)
  <2> DEFINE charge == EventToken(e, TRUE)
             ordinal == ingressOrdinal + 1
  <2>1. charge \in Int /\ ordinal \in Nat
    BY <1>4, <1>5 DEF EventToken
  <2> HIDE DEF charge, ordinal
  <2>2. new = [old EXCEPT !.ev = e, !.token = charge, !.sequence = ordinal]
    BY DEF charge, ordinal
  <2>3. /\ new \in Item /\ new.id = old.id /\ new.sequence = ordinal
        /\ new.ev = e /\ new.coalescible = old.coalescible /\ new.token = charge
    BY <1>4, <2>1, <2>2 DEF Item
  <2> QED BY <2>3 DEF charge, ordinal
<1>7. old.coalescible = TRUE
  BY <1>3, <1>4 DEF Item
<1> HIDE DEF new
<1>8. old.id \in 1..ingressOrdinal /\ \A i \in Owned : i.id = old.id => i = old
  BY <1>3 DEF IInv, ItemsApart, Owned, Queued
<1>9. ItemsApart'
  <2>1. Owned' = (Owned \ {old}) \cup {new}
    BY <1>1, <1>3 DEF IInv, ItemsApart, Owned, Queued, applyVars
  <2>2. \A i, j \in Owned' : i.id = j.id => i = j
    BY <1>6, <1>8, <2>1 DEF IInv, ItemsApart
  <2>3. \A i \in Owned' : i.id \in 1..ingressOrdinal' /\ i.sequence <= ingressOrdinal'
    <3>1. \A i \in Owned : i.sequence \in Nat
      BY DEF IInv, TypeOK, Item, Owned, Queued
    <3>2. new.id \in 1..ingressOrdinal' /\ new.sequence <= ingressOrdinal'
      BY <1>1, <1>4, <1>6, <1>8
    <3>3. \A i \in Owned : i.id \in 1..ingressOrdinal' /\ i.sequence <= ingressOrdinal'
      BY <1>1, <1>4, <3>1 DEF IInv, ItemsApart
    <3> QED BY <2>1, <3>2, <3>3
  <2>4. new \notin Owned \ {old}
    BY <1>6, <1>8
  <2>5. normal' \cap critical' = {} /\ Queued' \cap (inflight' \cup preApply') = {}
    <3>1. old \notin critical \cup inflight \cup preApply
      BY <1>3 DEF IInv, ItemsApart, Queued
    <3>2. new \notin critical \cup inflight \cup preApply
      BY <2>4, <3>1 DEF Owned, Queued
    <3> QED BY <1>1, <3>2 DEF IInv, ItemsApart, Queued, applyVars
  <2> QED BY <2>2, <2>3, <2>5 DEF ItemsApart
<1>10. TokensExact'
  <2>1. new.token = EventToken(new.ev, new.coalescible) /\ new.ev.lane \in Lanes
    BY <1>3, <1>6, <1>7
  <2> QED BY <1>1, <2>1 DEF IInv, TokensExact, Queued, EventToken, applyVars
<1>11. LaneOwnership'
  <2> SUFFICES ASSUME NEW l \in Lanes
               PROVE  LET open == {i \in normal' : i.coalescible /\ i.ev.lane = l}
                      IN  IF pendingCoalesce'[l] = 0 THEN open = {}
                          ELSE \E i \in open : open = {i} /\ i.id = pendingCoalesce'[l]
    BY DEF LaneOwnership
  <2>1. CASE l = e.lane
    <3>1. {i \in normal' : i.coalescible /\ i.ev.lane = l} = {new}
      BY <1>1, <1>3, <1>6, <1>7, <2>1
    <3>2. pendingCoalesce[l] # 0 /\ pendingCoalesce[l] = old.id
      BY <1>2, <1>3, <2>1 DEF IInv, LaneOwnership, LaneTaken
    <3> QED BY <1>1, <1>6, <3>1, <3>2
  <2>2. CASE l # e.lane
    <3>1. {i \in normal' : i.coalescible /\ i.ev.lane = l}
            = {i \in normal : i.coalescible /\ i.ev.lane = l}
      BY <1>1, <1>3, <1>6, <2>2
    <3> QED BY <1>1, <3>1 DEF IInv, LaneOwnership
  <2> QED BY <2>1, <2>2
<1>12. queuedBytes' \in Int
  <2>1. new.token \in Int /\ old.token \in Int /\ queuedBytes \in Int
    BY <1>4, <1>6 DEF IInv, TypeOK, Item
  <2> QED BY <1>1, <2>1
<1>13. ReserveIntact'
  <2>1. queuedBytes' + inFlightBytes + ordinaryDiagnosticBytes <= EventLimit
    <3>1. /\ queuedBytes \in Int /\ old.token \in Int /\ inFlightBytes \in Int
          /\ ordinaryDiagnosticBytes \in Int /\ EventLimit \in Int
      BY <1>4, QueueAssumption DEF IInv, TypeOK, EventLimit, Item
    <3>2. (queuedBytes - old.token) + inFlightBytes + ordinaryDiagnosticBytes + new.token
            <= EventLimit
      BY <1>2, <1>6 DEF FitsBelowReserve
    <3>3. new.token \in Int /\ queuedBytes' = queuedBytes + new.token - old.token
      BY <1>1, <1>5, <1>6 DEF EventToken
    <3> QED BY <3>1, <3>2, <3>3
  <2> QED BY <1>1, <2>1 DEF IInv, ReserveIntact, diagVars, EventLimit
<1>14. TypeOK'
  <2>1. IsFiniteSet(normal') /\ Cardinality(normal') <= EventQueue - CriticalReserve
    <3>1. /\ IsFiniteSet(normal) /\ Cardinality(normal) \in Nat
          /\ Cardinality(normal) <= EventQueue - CriticalReserve
      BY FS_CardinalityType DEF IInv, TypeOK
    <3>2. IsFiniteSet(normal \ {old}) /\ Cardinality(normal \ {old}) = Cardinality(normal) - 1
      BY <1>3, <3>1, FS_RemoveElement
    <3>3. /\ IsFiniteSet((normal \ {old}) \cup {new})
          /\ Cardinality((normal \ {old}) \cup {new}) =
               IF new \in normal \ {old} THEN Cardinality(normal \ {old})
               ELSE Cardinality(normal \ {old}) + 1
      BY <3>2, FS_AddElement
    <3>4. EventQueue \in Nat /\ CriticalReserve \in Nat
      BY QueueAssumption
    <3> QED BY <1>1, <3>1, <3>2, <3>3, <3>4
  <2>2. stats' \in [Counters -> Nat]
    BY DEF IInv, TypeOK, Counters, Count, PublishCoalesce
  <2>3. pendingReplay' \in [ReplayKeys -> Nat]
    BY <1>1, <1>4 DEF IInv, TypeOK, Item
  <2>4. normal' \subseteq Item
    BY <1>1, <1>6 DEF IInv, TypeOK
  <2> QED BY <1>1, <1>4, <1>12, <2>1, <2>2, <2>3, <2>4
      DEF IInv, TypeOK, runVars, applyVars, diagVars, lossVars
<1> QED BY <1>9, <1>10, <1>11, <1>13, <1>14 DEF IInv

(* A dequeue keeps it.                                                     *)
LEMMA PopStep ==
  ASSUME IInv, NEW eligible \in SUBSET Queued, Pop(eligible)
  PROVE  IInv'
<1>1. PICK item \in Queued :
           /\ critical' = critical \ {item} /\ normal' = normal \ {item}
           /\ inflight' = {[item EXCEPT !.token = item.ev.base]}
           /\ queuedBytes' = queuedBytes - item.token
           /\ inFlightBytes' = inFlightBytes + item.ev.base
           /\ pendingCoalesce' = IF item.coalescible
                                 THEN [pendingCoalesce EXCEPT ![item.ev.lane] = 0]
                                 ELSE pendingCoalesce
           /\ item.coalescible => item \in normal
  BY PopTakes DEF IInv
<1>2. /\ applyStep = "idle" /\ halt = "no" /\ applyStep' = "popped"
      /\ UNCHANGED <<runVars, preApply, applyResult, pendingReplay, diagVars,
                     activeGaps, lossVars, ingressOrdinal, stats>>
  BY DEF Pop
<1>3. inflight = {} /\ preApply = {}
  BY <1>2 DEF IInv, TypeOK
<1>4. item \in Item /\ item.ev.base \in Nat /\ item.token \in Int
      /\ item.token = EventToken(item.ev, item.coalescible)
  BY EventFields DEF IInv, TypeOK, TokensExact, Queued, Item
<1>5. item.ev.base <= item.token
  BY <1>4, QueueAssumption DEF EventToken
<1> DEFINE held == [item EXCEPT !.token = item.ev.base]
<1>6. /\ held \in Item /\ held.id = item.id /\ held.sequence = item.sequence
      /\ held.ev = item.ev /\ held.token = item.ev.base
  BY <1>4 DEF Item
<1> HIDE DEF held
<1>7. inflight' = {held} /\ preApply' = {}
  BY <1>1, <1>2, <1>3 DEF held
<1>8. Queued' = Queued \ {item} /\ Owned' = (Queued \ {item}) \cup {held}
  BY <1>1, <1>7 DEF Queued, Owned
<1>9. ItemsApart'
  <2>1. item.id \in 1..ingressOrdinal /\ item.sequence <= ingressOrdinal
        /\ \A i \in Queued : i.id = item.id => i = item
    BY DEF IInv, ItemsApart, Owned
  <2>2. held \notin Queued \ {item}
    BY <1>6, <2>1
  <2>3. \A i, j \in Owned' : i.id = j.id => i = j
    BY <1>6, <1>8, <2>1 DEF IInv, ItemsApart, Owned
  <2>4. \A i \in Owned' : i.id \in 1..ingressOrdinal' /\ i.sequence <= ingressOrdinal'
    BY <1>2, <1>6, <1>8, <2>1 DEF IInv, ItemsApart, Owned
  <2> QED BY <1>1, <1>7, <1>8, <2>2, <2>3, <2>4 DEF IInv, ItemsApart
<1>10. TokensExact'
  BY <1>1, <1>6, <1>7 DEF IInv, TokensExact, Queued, EventToken
<1>11. LaneOwnership'
  <2> SUFFICES ASSUME NEW l \in Lanes
               PROVE  LET open == {i \in normal' : i.coalescible /\ i.ev.lane = l}
                      IN  IF pendingCoalesce'[l] = 0 THEN open = {}
                          ELSE \E i \in open : open = {i} /\ i.id = pendingCoalesce'[l]
    BY DEF LaneOwnership
  <2>1. pendingCoalesce \in [Lanes -> Nat]
    BY DEF IInv, TypeOK
  <2>2. CASE item.coalescible /\ item.ev.lane = l
    <3>1. pendingCoalesce'[l] = 0
      BY <1>1, <2>1, <2>2
    <3>2. {i \in normal' : i.coalescible /\ i.ev.lane = l} = {}
      BY <1>1, <2>2 DEF IInv, LaneOwnership
    <3> QED BY <3>1, <3>2
  <2>3. CASE ~(item.coalescible /\ item.ev.lane = l)
    <3>1. pendingCoalesce'[l] = pendingCoalesce[l]
      BY <1>1, <2>1, <2>3
    <3>2. {i \in normal' : i.coalescible /\ i.ev.lane = l}
            = {i \in normal : i.coalescible /\ i.ev.lane = l}
      BY <1>1, <2>3
    <3> QED BY <3>1, <3>2 DEF IInv, LaneOwnership
  <2> QED BY <2>2, <2>3
<1>12. ReserveIntact'
  <2>1. queuedBytes' + inFlightBytes' + ordinaryDiagnosticBytes <= EventLimit
    <3>1. /\ queuedBytes \in Int /\ inFlightBytes \in Int
          /\ ordinaryDiagnosticBytes \in Int /\ EventLimit \in Int
          /\ queuedBytes + inFlightBytes + ordinaryDiagnosticBytes <= EventLimit
      BY QueueAssumption DEF IInv, TypeOK, EventLimit, ReserveIntact
    <3> QED BY <1>1, <1>4, <1>5, <3>1
  <2> QED BY <1>2, <2>1 DEF IInv, ReserveIntact, diagVars, EventLimit
<1>13. TypeOK'
  <2>1. /\ IsFiniteSet(normal') /\ Cardinality(normal') <= EventQueue - CriticalReserve
        /\ IsFiniteSet(critical') /\ Cardinality(critical') <= CriticalReserve
    <3>1. /\ IsFiniteSet(normal) /\ Cardinality(normal) \in Nat
          /\ Cardinality(normal) <= EventQueue - CriticalReserve
          /\ IsFiniteSet(critical) /\ Cardinality(critical) \in Nat
          /\ Cardinality(critical) <= CriticalReserve
      BY FS_CardinalityType DEF IInv, TypeOK
    <3>2. /\ IsFiniteSet(normal \ {item}) /\ Cardinality(normal \ {item}) \in Nat
          /\ Cardinality(normal \ {item}) <= Cardinality(normal)
      BY <3>1, FS_Subset, FS_CardinalityType
    <3>3. /\ IsFiniteSet(critical \ {item}) /\ Cardinality(critical \ {item}) \in Nat
          /\ Cardinality(critical \ {item}) <= Cardinality(critical)
      BY <3>1, FS_Subset, FS_CardinalityType
    <3>4. EventQueue \in Nat /\ CriticalReserve \in Nat
      BY QueueAssumption
    <3> QED BY <1>1, <3>1, <3>2, <3>3, <3>4
  <2>2. criticalDebt' \in 0..DebtLimit
    BY QueueAssumption DEF Pop, IInv, TypeOK
  <2>3. normal' \subseteq Item /\ critical' \subseteq Item
    BY <1>1 DEF IInv, TypeOK
  <2>4. pendingCoalesce' \in [Lanes -> Nat]
    BY <1>1 DEF IInv, TypeOK
  <2>5. queuedBytes' \in Int /\ inFlightBytes' \in Nat
    BY <1>1, <1>4 DEF IInv, TypeOK
  <2> QED BY <1>2, <1>3, <1>6, <1>7, <2>1, <2>2, <2>3, <2>4, <2>5
      DEF IInv, TypeOK, runVars, diagVars, lossVars
<1> QED BY <1>9, <1>10, <1>11, <1>12, <1>13 DEF IInv

(* Releasing the item in flight.                                            *)
LEMMA FinishSteps ==
  ASSUME IInv, ApplyFinish \/ ApplyNoClock
  PROVE  IInv'
<1>1. /\ FinishItem /\ applyStep # "idle"
      /\ halt' \in {halt, "abort"}
      /\ UNCHANGED <<lifecycle, normal, critical, preApply, applyResult, pendingCoalesce,
                     queuedBytes, diagVars, activeGaps, lossVars, ingressOrdinal, criticalDebt>>
  BY DEF ApplyFinish, ApplyNoClock
<1>2. PICK item \in Item : inflight = {item}
  BY <1>1 DEF IInv, TypeOK
<1>3. preApply = {}
  BY <1>1 DEF IInv, TypeOK
<1>4. item.token \in Nat
  <2>1. item.token = item.ev.base /\ item.ev \in Events
    BY <1>2 DEF IInv, TokensExact, Item
  <2> QED BY <2>1, EventFields
<1>5. (CHOOSE i \in inflight : TRUE) = item
  BY <1>2
<1>6. /\ inflight' = {} /\ applyStep' = "idle"
      /\ inFlightBytes' = IF inFlightBytes >= item.token THEN inFlightBytes - item.token ELSE 0
      /\ pendingReplay' \in [ReplayKeys -> Nat]
  BY <1>1, <1>5 DEF FinishItem, ReleaseReplay, IInv, TypeOK
<1>7. inFlightBytes' \in Nat /\ inFlightBytes' <= inFlightBytes
  BY <1>4, <1>6 DEF IInv, TypeOK
<1>8. ItemsApart' /\ TokensExact' /\ LaneOwnership'
  BY <1>1, <1>6 DEF IInv, ItemsApart, TokensExact, LaneOwnership, Owned, Queued
<1>9. ReserveIntact'
  <2>1. /\ queuedBytes \in Int /\ inFlightBytes \in Int /\ ordinaryDiagnosticBytes \in Int
        /\ EventLimit \in Int
    BY QueueAssumption DEF IInv, TypeOK, EventLimit
  <2>2. queuedBytes + inFlightBytes' + ordinaryDiagnosticBytes <= EventLimit
    <3>1. queuedBytes + inFlightBytes + ordinaryDiagnosticBytes <= EventLimit
      BY DEF IInv, ReserveIntact
    <3>2. inFlightBytes' \in Int /\ inFlightBytes' <= inFlightBytes
      BY <1>7
    <3>3. \A q, f, g, d, b \in Int : q + f + d <= b /\ g <= f => q + g + d <= b
      OBVIOUS
    <3> QED BY <2>1, <3>1, <3>2, <3>3
  <2> QED BY <1>1, <2>2 DEF IInv, ReserveIntact, diagVars, EventLimit
<1>10. stats' \in [Counters -> Nat]
  BY DEF IInv, TypeOK, Counters, Count, ApplyFinish, ApplyNoClock
<1>11. TypeOK'
  BY <1>1, <1>3, <1>6, <1>7, <1>10 DEF IInv, TypeOK, diagVars, lossVars
<1> QED BY <1>8, <1>9, <1>11 DEF IInv

(* Setting aside the event of a canceled Apply keeps it.                   *)
LEMMA CanceledStep ==
  ASSUME IInv, ApplyCanceled
  PROVE  IInv'
<1>1. /\ applyStep = "popped" /\ preApply' = inflight /\ inflight' = {}
      /\ applyStep' = "idle" /\ halt' = "cancel"
      /\ UNCHANGED <<lifecycle, normal, critical, applyResult, laneVars, byteVars, diagVars,
                     activeGaps, lossVars, ingressOrdinal, criticalDebt, stats>>
  BY DEF ApplyCanceled
<1>2. preApply = {} /\ (\E i \in inflight : inflight = {i}) /\ inflight \subseteq Item
  BY <1>1 DEF IInv, TypeOK
<1>3. ItemsApart' /\ TokensExact' /\ LaneOwnership'
  BY <1>1, <1>2 DEF IInv, ItemsApart, TokensExact, LaneOwnership, Owned, Queued, laneVars
<1>4. ReserveIntact'
  BY <1>1 DEF IInv, ReserveIntact, byteVars, diagVars, EventLimit
<1>5. TypeOK'
  BY <1>1, <1>2 DEF IInv, TypeOK, laneVars, byteVars, diagVars, lossVars
<1> QED BY <1>3, <1>4, <1>5 DEF IInv

(* The diagnostics leave: their room is free again and no loss is lost.     *)
LEMMA HandOverSteps ==
  ASSUME IInv, NEW gaps \in GapLedgers, PublishDiagnostics(gaps) \/ StopPublish(gaps)
  PROVE  IInv'
<1> USE DEF PublishDiagnostics, StopPublish
<1>1. /\ HandOver(gaps) /\ UNCHANGED itemVars /\ UNCHANGED byteVars
      /\ UNCHANGED <<lifecycle, applyStep, applyResult, pendingReplay, criticalDebt, stats,
                     abortedDiagnostics>>
      /\ halt' \in {halt, "canceled"} /\ (preApply # {} => halt' # "no")
  BY DEF runVars, applyVars, laneVars, itemVars, IInv, TypeOK
<1>2. /\ pendingDiagnostics' = [k \in DiagKeys |-> 0]
      /\ ordinaryDiagnosticBytes' = 0 /\ fixedDiagnosticBytes' = 0
      /\ activeGaps' = gaps /\ reported' \in [DiagKeys -> Nat]
  BY <1>1 DEF HandOver, NoDiagnostics, Plus, IInv, TypeOK
<1>3. ItemsApart' /\ TokensExact' /\ LaneOwnership'
  BY <1>1, ItemsKept DEF IInv
<1>4. ReserveIntact'
  <2>1. {"critical", "normal", "ledger"} \subseteq DiagKeys
    BY DEF DiagKeys, Reserved
  <2>2. /\ queuedBytes \in Int /\ inFlightBytes \in Int /\ ordinaryDiagnosticBytes \in Nat
        /\ EventLimit \in Int
    BY QueueAssumption DEF IInv, TypeOK, EventLimit
  <2>3. queuedBytes + inFlightBytes + 0 <= EventLimit
    BY <2>2 DEF IInv, ReserveIntact
  <2> QED BY <1>1, <1>2, <2>1, <2>3, QueueAssumption DEF ReserveIntact, byteVars, EventLimit
<1>5. TypeOK'
  BY <1>1, <1>2, QueueAssumption DEF IInv, TypeOK, itemVars, byteVars, laneVars
<1> QED BY <1>3, <1>4, <1>5 DEF IInv

(* Disposing of everything at the stop keeps it.                           *)
LEMMA StopEndStep ==
  ASSUME IInv, StopEnd
  PROVE  IInv'
<1>1. applyStep = "idle" => inflight = {}
  BY DEF IInv, TypeOK
<1>2. Queued' = {} /\ preApply' = {} /\ Owned' = inflight
  BY DEF StopEnd, Queued, Owned
<1>3. ItemsApart' /\ TokensExact'
  BY <1>2 DEF StopEnd, IInv, ItemsApart, TokensExact, Owned, Queued
<1>4. LaneOwnership'
  BY DEF StopEnd, LaneOwnership
<1>5. ReserveIntact'
  <2>1. {"critical", "normal", "ledger"} \subseteq DiagKeys
    BY DEF DiagKeys, Reserved
  <2> QED BY <2>1, QueueAssumption DEF StopEnd, NoDiagnostics, ReserveIntact, EventLimit
<1>6. stats' \in [Counters -> Nat]
  <2>1. IsFiniteSet(Queued \cup preApply)
    <3>1. IsFiniteSet(preApply)
      <4>1. preApply = {} \/ \E i \in preApply : preApply = {i}
        BY DEF IInv, TypeOK
      <4>2. ASSUME NEW i \in preApply, preApply = {i} PROVE IsFiniteSet(preApply)
        <5>1. IsFiniteSet({i})
          BY FS_Singleton
        <5> QED BY <4>2, <5>1
      <4> QED BY <4>1, <4>2, FS_EmptySet
    <3> QED BY <3>1, FS_Union DEF IInv, TypeOK, Queued
  <2>2. Cardinality(Disposed) \in Nat
    BY <2>1, FS_CardinalityType DEF Disposed
  <2> QED BY <2>2 DEF StopEnd, IInv, TypeOK, Counters
<1>7. abortedDiagnostics' \in [DiagKeys -> Nat]
  BY DEF StopEnd, IInv, TypeOK, Plus, GivenUp
<1>8. IsFiniteSet({}) /\ Cardinality({}) = 0
  BY FS_EmptySet
<1>9. TypeOK'
  BY <1>6, <1>7, <1>8, QueueAssumption DEF StopEnd, IInv, TypeOK, NoDiagnostics
<1> QED BY <1>3, <1>4, <1>5, <1>9 DEF IInv

(* So does a step that changes nothing.                                    *)
LEMMA StutterStep == IInv /\ UNCHANGED queueVars => IInv'
<1> SUFFICES ASSUME IInv, UNCHANGED queueVars PROVE IInv'
  OBVIOUS
<1>1. UNCHANGED itemVars /\ UNCHANGED <<byteVars, diagVars>>
  BY DEF queueVars, itemVars, laneVars, applyVars
<1>2. ItemsApart' /\ TokensExact' /\ LaneOwnership'
  BY <1>1, ItemsKept DEF IInv
<1>3. ReserveIntact'
  BY <1>1 DEF IInv, ReserveIntact, byteVars, diagVars, EventLimit
<1>4. TypeOK'
  BY DEF IInv, TypeOK, queueVars, runVars, laneVars, lossVars, applyVars, byteVars, diagVars
<1> QED BY <1>2, <1>3, <1>4 DEF IInv

(* Every step keeps the inductive invariant.                               *)
LEMMA NextIInv == IInv /\ [Next]_queueVars => IInv'
<1> SUFFICES ASSUME IInv, [Next]_queueVars PROVE IInv'
  OBVIOUS
<1>1. ASSUME NEW e \in Events, Publish(e) PROVE IInv'
  BY <1>1, QuietPublish, RecordingSteps, CoalesceStep, AcceptStep, DropStep DEF Publish
<1>2. ASSUME RunStep PROVE IInv'
  <2>1. CASE RunStart \/ StopBegin \/ StopPublishFails
             \/ \E reason \in {"cancel", "abort"} : Halt(reason)
    BY <2>1, QuietRun
  <2>2. ASSUME NEW eligible \in Eligibles, Pop(eligible) PROVE IInv'
    <3>1. eligible \in SUBSET Queued
      BY DEF Eligibles, UpTo, Prefix
    <3> QED BY <2>2, <3>1, PopStep
  <2>3. ASSUME NEW result \in Results, NEW gaps \in GapLedgers, ApplyBegin(result, gaps)
        PROVE  IInv'
    BY <2>3, QuietRun
  <2>4. CASE ApplyFinish \/ ApplyNoClock
    BY <2>4, FinishSteps
  <2>5. CASE ApplyCanceled
    BY <2>5, CanceledStep
  <2>6. ASSUME NEW gaps \in GapLedgers, PublishDiagnostics(gaps) \/ StopPublish(gaps)
        PROVE  IInv'
    BY <2>6, HandOverSteps
  <2>7. CASE StopEnd
    BY <2>7, StopEndStep
  <2> QED BY <1>2, <2>1, <2>2, <2>3, <2>4, <2>5, <2>6, <2>7 DEF RunStep
<1>3. CASE UNCHANGED queueVars
  BY <1>3, StutterStep
<1> QED BY <1>1, <1>2, <1>3 DEF Next

-----------------------------------------------------------------------------
(* Theorems.                                                                *)

(* The inductive invariant holds throughout: the four parts the other      *)
(* theorems are read off from.                                             *)
THEOREM SpecIInv == Spec => []IInv
<1>1. Init => IInv
  BY InitIInv
<1>2. IInv /\ [Next]_queueVars => IInv'
  BY NextIInv
<1> QED BY <1>1, <1>2, PTL DEF Spec

(* Every reachable state is well typed: in particular the queues keep their *)
(* slot limits and Run owns one dequeued item exactly while it applies it.  *)
THEOREM TypeCorrect == Spec => []TypeOK
<1>1. IInv => TypeOK
  BY DEF IInv
<1> QED BY <1>1, SpecIInv, PTL

(* Whatever is published and whenever Run dequeues, applies or stops, the   *)
(* room of the three reserved diagnostics is never used by anything else.   *)
THEOREM ReserveAlwaysIntact == Spec => []ReserveIntact
<1>1. IInv => ReserveIntact
  BY DEF IInv
<1> QED BY <1>1, SpecIInv, PTL

(* The coalescing map only ever names the replaceable item of its lane.     *)
THEOREM LaneAlwaysOwned == Spec => []LaneOwnership
<1>1. IInv => LaneOwnership
  BY DEF IInv
<1> QED BY <1>1, SpecIInv, PTL

-----------------------------------------------------------------------------
(* No loss is silent.                                                       *)

(* After the final hand-over of a cancellation nothing can become pending.  *)
NothingLeft ==
  halt = "canceled" =>
    /\ lifecycle \in {"stopping", "stopped"}
    /\ \A k \in DiagKeys : pendingDiagnostics[k] = 0

(* Every step keeps NothingLeft.                                           *)
LEMMA NextNothingLeft == TypeOK /\ NothingLeft /\ [Next]_queueVars => NothingLeft'
<1> SUFFICES ASSUME TypeOK, NothingLeft, [Next]_queueVars PROVE NothingLeft'
  OBVIOUS
<1> USE DEF NothingLeft, runVars, diagVars
<1>1. ASSUME NEW e \in Events, Publish(e) PROVE NothingLeft'
  BY <1>1 DEF Publish, PublishReject, PublishDuplicate, PublishCollision, PublishCoalesce,
              PublishDropReplacement, PublishAccept, PublishDrop, Admitted, Accepting
<1>2. ASSUME RunStep PROVE NothingLeft'
  <2>1. CASE RunStart \/ StopBegin \/ StopPublishFails \/ ApplyFinish \/ ApplyCanceled
             \/ ApplyNoClock
    BY <2>1 DEF RunStart, StopBegin, StopPublishFails, ApplyFinish, ApplyCanceled, ApplyNoClock
  <2>2. ASSUME NEW eligible \in Eligibles, Pop(eligible) PROVE NothingLeft'
    BY <2>2 DEF Pop
  <2>3. ASSUME NEW result \in Results, NEW gaps \in GapLedgers, ApplyBegin(result, gaps)
        PROVE  NothingLeft'
    BY <2>3 DEF ApplyBegin
  <2>4. ASSUME NEW reason \in {"cancel", "abort"}, Halt(reason) PROVE NothingLeft'
    BY <2>4 DEF Halt
  <2>5. ASSUME NEW gaps \in GapLedgers, PublishDiagnostics(gaps) \/ StopPublish(gaps)
        PROVE  NothingLeft'
    BY <2>5 DEF PublishDiagnostics, StopPublish, HandOver, NoDiagnostics
  <2>6. CASE StopEnd
    BY <2>6 DEF StopEnd, NoDiagnostics
  <2> QED BY <1>2, <2>1, <2>2, <2>3, <2>4, <2>5, <2>6 DEF RunStep
<1>3. CASE UNCHANGED queueVars
  BY <1>3 DEF queueVars
<1> QED BY <1>1, <1>2, <1>3 DEF Next

(* Once its final hand-over is done, a canceled Store has nothing pending. *)
THEOREM SpecNothingLeft == Spec => []NothingLeft
<1>1. Init => NothingLeft
  BY DEF Init, NothingLeft
<1> QED BY <1>1, NextNothingLeft, TypeCorrect, PTL DEF Spec

LogStep ==
  IF Losses' > Losses
  THEN \E k \in DiagKeys :
         \/ Logged' = [Logged EXCEPT ![k] = @ + 1]
         \/ Logged' = Logged /\ pendingDiagnostics[k] = CountCeiling
  ELSE Logged' = Logged

(* A step that counts no loss and moves no diagnostic logs nothing.         *)
LEMMA LogKept ==
  ASSUME TypeOK, Losses' = Losses, Logged' = Logged
  PROVE  LogStep
<1>1. Losses \in Int
  BY DEF TypeOK, Losses, Counters
<1> QED BY <1>1 DEF LogStep

(* A step that counts one loss adds it under one identity.                  *)
LEMMA LogGrows ==
  ASSUME IInv, UNCHANGED lossVars, NEW named \in DiagKeys, NEW queued \in Int,
         queued <= queuedBytes, RecordGap(named, queued)
  PROVE  \E t \in DiagKeys :
           \/ Logged' = [Logged EXCEPT ![t] = @ + 1]
           \/ Logged' = Logged /\ pendingDiagnostics[t] = CountCeiling
<1>1. PICK t \in DiagKeys : pendingDiagnostics' =
           [pendingDiagnostics EXCEPT ![t] = IF @ < CountCeiling THEN @ + 1 ELSE @]
  BY RecordGapFits DEF IInv
<1>2. /\ pendingDiagnostics \in [DiagKeys -> 0..CountCeiling] /\ CountCeiling \in Nat
      /\ reported \in [DiagKeys -> Nat] /\ abortedDiagnostics \in [DiagKeys -> Nat]
      /\ reported' = reported /\ abortedDiagnostics' = abortedDiagnostics
  BY QueueAssumption DEF IInv, TypeOK, lossVars
<1>3. CASE pendingDiagnostics[t] < CountCeiling
  <2>1. Logged' = [Logged EXCEPT ![t] = @ + 1]
    <3> DEFINE old == [k \in DiagKeys |-> reported[k] + abortedDiagnostics[k]]
    <3>1. /\ Logged = [k \in DiagKeys |-> pendingDiagnostics[k] + old[k]]
          /\ Logged' = [k \in DiagKeys |-> pendingDiagnostics'[k] + old[k]]
      BY <1>2 DEF Logged, Plus
    <3>2. old \in [DiagKeys -> Nat]
      BY <1>2
    <3> HIDE DEF old
    <3>3. \A k \in DiagKeys : pendingDiagnostics'[k] =
            IF k = t THEN pendingDiagnostics[t] + 1 ELSE pendingDiagnostics[k]
      BY <1>1, <1>2, <1>3
    <3>4. \A k \in DiagKeys : pendingDiagnostics'[k] + old[k] =
            IF k = t THEN (pendingDiagnostics[t] + old[t]) + 1
            ELSE pendingDiagnostics[k] + old[k]
      BY <1>2, <3>2, <3>3
    <3>5. [Logged EXCEPT ![t] = @ + 1] =
            [k \in DiagKeys |-> IF k = t THEN (pendingDiagnostics[t] + old[t]) + 1
                                ELSE pendingDiagnostics[k] + old[k]]
      BY <3>1
    <3> QED BY <3>1, <3>4, <3>5
  <2> QED BY <2>1
<1>4. CASE pendingDiagnostics[t] = CountCeiling
  <2>1. Logged' = Logged
    BY <1>1, <1>2, <1>4 DEF Logged, Plus
  <2> QED BY <1>4, <2>1
<1> QED BY <1>2, <1>3, <1>4

(* Every step logs exactly the losses it counts.                           *)
LEMMA NextLogs == IInv /\ NothingLeft /\ Next => LogStep
<1> SUFFICES ASSUME IInv, NothingLeft, Next PROVE LogStep
  OBVIOUS
<1>0. TypeOK /\ Losses \in Int /\ queuedBytes \in Int /\ stats \in [Counters -> Nat]
  BY DEF IInv, TypeOK, Losses, Counters
<1>1. ASSUME NEW e \in Events, Publish(e) PROVE LogStep
  <2>1. CASE PublishReject(e) \/ PublishDuplicate(e) \/ PublishCoalesce(e) \/ PublishAccept(e)
    <3>1. Losses' = Losses /\ Logged' = Logged
      BY <1>0, <2>1 DEF PublishReject, PublishDuplicate, PublishCoalesce, PublishAccept, Losses,
                  Logged, lossVars, diagVars, Count, Counters
    <3> QED BY <1>0, <3>1, LogKept
  <2>2. CASE PublishCollision(e) \/ PublishDropReplacement(e)
    <3>1. Losses' = Losses + 1
      BY <1>0, <2>2 DEF PublishCollision, PublishDropReplacement, Losses, Count, Counters
    <3>2. UNCHANGED lossVars
      BY <2>2 DEF PublishCollision, PublishDropReplacement
    <3>3. \E k \in DiagKeys : RecordGap(k, queuedBytes)
      BY <2>2, EventFields DEF PublishCollision, PublishDropReplacement, DiagKeys, Reserved
    <3> QED BY <1>0, <3>1, <3>2, <3>3, LogGrows DEF LogStep
  <2>3. CASE PublishDrop(e)
    <3>1. Losses' = Losses + 1
      BY <1>0, <2>3 DEF PublishDrop, Losses, Count, Counters
    <3>2. UNCHANGED lossVars
      BY <2>3 DEF PublishDrop
    <3>3. \E k \in DiagKeys : RecordGap(k, ClosedLaneBytes(e))
      BY <2>3 DEF PublishDrop, DiagKeys, Reserved
    <3>4. ClosedLaneBytes(e) \in Int /\ ClosedLaneBytes(e) <= queuedBytes
      BY LaneCloses
    <3> QED BY <1>0, <3>1, <3>2, <3>3, <3>4, LogGrows DEF LogStep
  <2> QED BY <1>1, <2>1, <2>2, <2>3 DEF Publish
<1>2. ASSUME RunStep PROVE LogStep
  <2>1. ASSUME stats' = stats, UNCHANGED lossVars, UNCHANGED diagVars PROVE LogStep
    BY <1>0, <2>1, LogKept DEF Losses, Logged, lossVars, diagVars
  <2>2. CASE RunStart \/ StopBegin \/ StopPublishFails \/ ApplyCanceled
    BY <2>1, <2>2 DEF RunStart, StopBegin, StopPublishFails, ApplyCanceled
  <2>3. ASSUME NEW eligible \in Eligibles, Pop(eligible) PROVE LogStep
    BY <2>1, <2>3 DEF Pop
  <2>4. ASSUME NEW result \in Results, NEW gaps \in GapLedgers, ApplyBegin(result, gaps)
        PROVE  LogStep
    BY <2>1, <2>4 DEF ApplyBegin
  <2>5. ASSUME NEW reason \in {"cancel", "abort"}, Halt(reason) PROVE LogStep
    BY <2>1, <2>5 DEF Halt
  <2>6. CASE ApplyFinish \/ ApplyNoClock
    <3>1. Losses' = Losses /\ Logged' = Logged
      BY <1>0, <2>6 DEF ApplyFinish, ApplyNoClock, Losses, Logged, lossVars, diagVars, Count,
                        Counters
    <3> QED BY <1>0, <3>1, LogKept
  <2>7. ASSUME NEW gaps \in GapLedgers, PublishDiagnostics(gaps) \/ StopPublish(gaps)
        PROVE  LogStep
    <3>1. /\ HandOver(gaps) /\ stats' = stats /\ abortedDiagnostics' = abortedDiagnostics
      BY <2>7 DEF PublishDiagnostics, StopPublish
    <3>2. /\ pendingDiagnostics' = [k \in DiagKeys |-> 0]
          /\ reported' = Plus(reported, pendingDiagnostics)
      BY <3>1 DEF HandOver, NoDiagnostics
    <3>3. Logged' = Logged
      BY <3>1, <3>2 DEF IInv, TypeOK, Logged, Plus
    <3> QED BY <1>0, <3>1, <3>3, LogKept DEF Losses
  <2>8. CASE StopEnd
    <3>1. /\ pendingDiagnostics' = [k \in DiagKeys |-> 0] /\ reported' = reported
          /\ abortedDiagnostics' = IF halt = "abort"
                                   THEN Plus(abortedDiagnostics, pendingDiagnostics)
                                   ELSE abortedDiagnostics
          /\ halt \in {"canceled", "abort"}
      BY <2>8 DEF StopEnd, NoDiagnostics, GivenUp
    <3>2. halt = "canceled" => \A k \in DiagKeys : pendingDiagnostics[k] = 0
      BY DEF NothingLeft
    <3>3. Logged' = Logged
      BY <3>1, <3>2 DEF IInv, TypeOK, Logged, Plus
    <3>4. Losses' = Losses
      BY <1>0, <2>8 DEF StopEnd, Losses, Counters
    <3> QED BY <1>0, <3>3, <3>4, LogKept
  <2> QED BY <1>2, <2>2, <2>3, <2>4, <2>5, <2>6, <2>7, <2>8 DEF RunStep
<1> QED BY <1>1, <1>2 DEF Next

(* Every dropped event and every collision is logged under exactly one      *)
(* identity, and what is logged never changes otherwise: no diagnostic      *)
(* fails to find room, and none is forgotten by a hand-over or by the stop. *)
THEOREM LossAlwaysLogged == Spec => LossLogged
<1>1. IInv /\ NothingLeft /\ [Next]_queueVars => [LogStep]_queueVars
  BY NextLogs
<1> QED BY <1>1, SpecIInv, SpecNothingLeft, PTL DEF Spec, LossLogged, LogStep

-----------------------------------------------------------------------------
(* The books add up.                                                        *)

(* The byte sum of the model is the sum over the items' tokens.             *)
LEMMA BytesAreSums ==
  ASSUME NEW S, IsFiniteSet(S)
  PROVE  Bytes(S) = SumOver([i \in S |-> i.token], S)
<1> DEFINE w == [i \in S |-> i.token]
           step(h) == [s \in SUBSET S |-> IF s = {} THEN 0
                                          ELSE Chosen(s).token + h[s \ {Chosen(s)}]]
           g == CHOOSE h : h = step(h)
<1>1. \A h : h = step(h) <=> PartialSums(h, w, S)
  <2>1. \A s \in SUBSET S : s # {} => w[Chosen(s)] = Chosen(s).token
    BY PickMember
  <2> HIDE DEF w
  <2> QED BY <2>1 DEF PartialSums
<1>2. PICK f : PartialSums(f, w, S)
  <2> HIDE DEF w
  <2> QED BY SumsExist
<1>3. f = step(f)
  BY <1>1, <1>2
<1>4. g = step(g)
  <2> HIDE DEF step
  <2> QED BY <1>3
<1>5. PartialSums(g, w, S)
  BY <1>1, <1>4
<1>6. Bytes(S) = g[S]
  BY DEF Bytes, MapThenSumSet, MapThenFoldSet, Chosen
<1>7. SumOver(w, S) = g[S]
  <2> HIDE DEF w, g
  <2> QED BY <1>5, SumIsPartial
<1> QED BY <1>6, <1>7

(* No item, no byte.                                                        *)
LEMMA BytesOfNone == Bytes({}) = 0
<1>1. IsFiniteSet({})
  BY FS_EmptySet
<1> QED BY <1>1, BytesAreSums, SumOfNone

(* One item's bytes may be taken off a sum.                                 *)
LEMMA BytesWithout ==
  ASSUME NEW S, S \subseteq Item, IsFiniteSet(S), NEW i \in S
  PROVE  /\ Bytes(S) \in Int /\ Bytes(S \ {i}) \in Int
         /\ Bytes(S) = i.token + Bytes(S \ {i})
<1> DEFINE w == [j \in S |-> j.token]
           rest == S \ {i}
           v == [j \in rest |-> j.token]
<1>1. \A j \in S : w[j] \in Int /\ w[i] = i.token
  BY DEF Item
<1>2. IsFiniteSet(rest) /\ rest \subseteq S /\ \A j \in rest : v[j] = w[j]
  BY FS_Subset
<1>3. Bytes(S) = SumOver(w, S)
  BY BytesAreSums
<1>4. Bytes(rest) = SumOver(v, rest)
  <2> HIDE DEF rest
  <2> QED BY <1>2, BytesAreSums
<1> HIDE DEF w, v
<1>5. SumOver(w, S) = w[i] + SumOver(w, rest)
  BY <1>1, SumRemoves
<1> HIDE DEF rest
<1>6. SumOver(v, rest) = SumOver(w, rest)
  BY <1>2, SumAgrees
<1>7. SumOver(w, rest) \in Int
  BY <1>1, <1>2, SumTyped
<1>8. Bytes(S) \in Int /\ Bytes(rest) \in Int /\ Bytes(S) = i.token + Bytes(rest)
  BY <1>1, <1>3, <1>4, <1>5, <1>6, <1>7
<1> QED BY <1>8 DEF rest

(* A new item adds its bytes.                                               *)
LEMMA BytesWith ==
  ASSUME NEW S, S \subseteq Item, IsFiniteSet(S), NEW i \in Item, i \notin S
  PROVE  Bytes(S \cup {i}) = Bytes(S) + i.token /\ Bytes(S) \in Int
<1> DEFINE more == S \cup {i}
<1>1. more \subseteq Item /\ IsFiniteSet(more) /\ i \in more /\ more \ {i} = S
  BY FS_AddElement
<1> HIDE DEF more
<1>2. Bytes(more) = i.token + Bytes(S) /\ Bytes(S) \in Int
  BY <1>1, BytesWithout
<1>3. i.token \in Int
  BY DEF Item
<1> QED BY <1>2, <1>3 DEF more

(* An item that takes the place of another adds the difference.             *)
LEMMA BytesSwap ==
  ASSUME NEW S, S \subseteq Item, IsFiniteSet(S), NEW old \in S, NEW new \in Item,
         new \notin S \ {old}
  PROVE  /\ Bytes((S \ {old}) \cup {new}) = Bytes(S) + new.token - old.token
         /\ Bytes(S) \in Int
<1> DEFINE rest == S \ {old}
<1>1. rest \subseteq Item /\ IsFiniteSet(rest) /\ new \notin rest
  BY FS_Subset
<1>2. Bytes(S) = old.token + Bytes(rest) /\ Bytes(rest) \in Int
  BY BytesWithout
<1> HIDE DEF rest
<1>3. Bytes(rest \cup {new}) = Bytes(rest) + new.token
  BY <1>1, BytesWith
<1>4. old.token \in Int /\ new.token \in Int
  BY DEF Item
<1>5. Bytes(rest \cup {new}) = Bytes(S) + new.token - old.token /\ Bytes(S) \in Int
  BY <1>2, <1>3, <1>4
<1> QED BY <1>5 DEF rest

(* What the Store owns is finite.                                           *)
LEMMA OwnedFinite ==
  ASSUME TypeOK
  PROVE  /\ Queued \subseteq Item /\ IsFiniteSet(Queued)
         /\ inflight \cup preApply \subseteq Item /\ IsFiniteSet(inflight \cup preApply)
         /\ Owned \subseteq Item /\ IsFiniteSet(Owned) /\ Cardinality(Owned) \in Nat
<1>1. \A S : (S = {} \/ \E i \in S : S = {i}) => IsFiniteSet(S)
  <2>1. IsFiniteSet({})
    BY FS_EmptySet
  <2>2. \A i : IsFiniteSet({i})
    BY FS_Singleton
  <2> QED BY <2>1, <2>2
<1>2. IsFiniteSet(inflight) /\ IsFiniteSet(preApply)
  <2>1. inflight = {} \/ \E i \in inflight : inflight = {i}
    BY DEF TypeOK
  <2>2. preApply = {} \/ \E i \in preApply : preApply = {i}
    BY DEF TypeOK
  <2> QED BY <1>1, <2>1, <2>2
<1>3. Queued \subseteq Item /\ IsFiniteSet(Queued)
  BY FS_Union DEF TypeOK, Queued
<1>4. inflight \cup preApply \subseteq Item /\ IsFiniteSet(inflight \cup preApply)
  BY <1>2, FS_Union DEF TypeOK
<1>5. Owned = Queued \cup (inflight \cup preApply)
  BY DEF Owned
<1>6. Owned \subseteq Item /\ IsFiniteSet(Owned)
  BY <1>3, <1>4, <1>5, FS_Union
<1> QED BY <1>3, <1>4, <1>6, FS_CardinalityType

(* ReplayOwnership, said of one item at a time: whoever carries a key is    *)
(* the item the map names, and the map names an owned item.                 *)
ReplayExact ==
  /\ \A i \in Owned : pendingReplay[i.ev.replay] = i.id
  /\ \A k \in ReplayKeys :
       pendingReplay[k] # 0 =>
         \E i \in Owned : i.ev.replay = k /\ i.id = pendingReplay[k]

(* The two ways of saying it agree, ids being unique.                       *)
LEMMA ReplayReads ==
  ASSUME IInv
  PROVE  ReplayExact => ReplayOwnership
<1> SUFFICES ASSUME ReplayExact, NEW k \in ReplayKeys
             PROVE  LET holders == {i \in Owned : i.ev.replay = k}
                    IN  IF pendingReplay[k] = 0 THEN holders = {}
                        ELSE \E i \in holders : holders = {i} /\ i.id = pendingReplay[k]
  BY DEF ReplayOwnership
<1>1. \A i, j \in Owned : i.id = j.id => i = j
  BY DEF IInv, ItemsApart
<1>2. \A i \in Owned : i.id # 0
  BY DEF IInv, TypeOK, ItemsApart
<1>3. CASE pendingReplay[k] = 0
  BY <1>2, <1>3 DEF ReplayExact
<1>4. CASE pendingReplay[k] # 0
  <2>1. PICK i \in Owned : i.ev.replay = k /\ i.id = pendingReplay[k]
    BY <1>4 DEF ReplayExact
  <2>2. \A j \in Owned : j.ev.replay = k => j = i
    BY <1>1, <2>1 DEF ReplayExact
  <2> QED BY <1>4, <2>1, <2>2
<1> QED BY <1>3, <1>4


(* What the books say of the items: who holds which replay key, the bytes   *)
(* of the queues and of the event being applied, and the count of what was  *)
(* accepted. ItemBooks and DiagnosticBooks together are what a step keeps.  *)
ItemBooks ==
  /\ ReplayExact
  /\ queuedBytes = Bytes(Queued)
  /\ inFlightBytes = Bytes(inflight \cup preApply)
  /\ AcceptedConserved

(* The bytes of the ordinary diagnostics, as a sum that can be cited.       *)
DiagnosticBooks == ordinaryDiagnosticBytes = SumOver(GapCharge, PendingOrdinary)

(* The part of the reserved diagnostics is what ReserveIntact says.         *)
LEMMA BooksRead ==
  ASSUME IInv, ItemBooks, DiagnosticBooks
  PROVE  QueueBooks
<1>1. ordinaryDiagnosticBytes = MapThenSumSet(LAMBDA g : GapCharge[g], PendingOrdinary)
  BY DEF DiagnosticBooks, SumOver
<1>2. fixedDiagnosticBytes =
        DiagReserve * Cardinality({k \in Reserved : pendingDiagnostics[k] > 0})
  <2> DEFINE C == pendingDiagnostics["critical"] > 0
             N == pendingDiagnostics["normal"] > 0
             L == pendingDiagnostics["ledger"] > 0
             c == IF C THEN {"critical"} ELSE {}
             n == IF N THEN {"normal"} ELSE {}
             l == IF L THEN {"ledger"} ELSE {}
  <2>1. {k \in Reserved : pendingDiagnostics[k] > 0} = (c \cup n) \cup l
    BY DEF Reserved
  <2>2. IsFiniteSet({}) /\ Cardinality({}) = 0
    BY FS_EmptySet
  <2>3. \A x : IsFiniteSet({x}) /\ Cardinality({x}) = 1
    BY FS_Singleton
  <2>4. /\ IsFiniteSet(c) /\ Cardinality(c) = (IF C THEN 1 ELSE 0)
        /\ IsFiniteSet(n) /\ Cardinality(n) = (IF N THEN 1 ELSE 0)
        /\ IsFiniteSet(l) /\ Cardinality(l) = (IF L THEN 1 ELSE 0)
    BY <2>2, <2>3
  <2>5. c \cap n = {} /\ (c \cup n) \cap l = {}
    OBVIOUS
  <2> HIDE DEF c, n, l
  <2>6. IsFiniteSet(c \cup n) /\ Cardinality(c \cup n) =
          Cardinality(c) + Cardinality(n) - Cardinality(c \cap n)
    BY <2>4, FS_Union
  <2>7. Cardinality((c \cup n) \cup l) =
          Cardinality(c \cup n) + Cardinality(l) - Cardinality((c \cup n) \cap l)
    BY <2>4, <2>6, FS_Union
  <2>8. Cardinality((c \cup n) \cup l) =
          (IF C THEN 1 ELSE 0) + (IF N THEN 1 ELSE 0) + (IF L THEN 1 ELSE 0)
    BY <2>2, <2>4, <2>5, <2>6, <2>7
  <2>9. fixedDiagnosticBytes =
          (IF C THEN DiagReserve ELSE 0) + (IF N THEN DiagReserve ELSE 0)
            + (IF L THEN DiagReserve ELSE 0)
    BY DEF IInv, ReserveIntact
  <2>10. DiagReserve \in Nat
    BY QueueAssumption
  <2> HIDE DEF C, N, L
  <2>11. fixedDiagnosticBytes = DiagReserve * Cardinality((c \cup n) \cup l)
    BY <2>8, <2>9, <2>10
  <2> QED BY <2>1, <2>11
<1>3. ByteConservation
  BY <1>1, <1>2 DEF ByteConservation, ItemBooks
<1> QED BY <1>3, ReplayReads DEF QueueBooks, ItemBooks, IInv

-----------------------------------------------------------------------------
(* The diagnostic bytes.                                                    *)

(* Recording a loss charges the identity it opens, if it opens one.         *)
LEMMA RecordingCharges ==
  ASSUME TypeOK, DiagnosticBooks, NEW k \in DiagKeys, NEW queued, RecordGap(k, queued)
  PROVE  DiagnosticBooks'
<1> DEFINE t == DiagnosticTarget(k, queued)
           charge == DiagCharge(t)
           known == pendingDiagnostics[t] > 0
<1>0. /\ pendingDiagnostics \in [DiagKeys -> 0..CountCeiling]
      /\ CountCeiling \in Nat \ {0} /\ GapIds \cap Reserved = {}
      /\ GapCharge \in [GapIds -> Nat] /\ IsFiniteSet(GapIds)
      /\ ordinaryDiagnosticBytes \in Nat
  BY QueueAssumption DEF TypeOK
<1>1. t \in DiagKeys
  BY DEF DiagnosticTarget, FinalDiagnosticIdentity, DiagKeys, Reserved
<1>2. CASE known \/ TotalFits(queued, charge)
  <2>1. /\ pendingDiagnostics' = [pendingDiagnostics EXCEPT
              ![t] = IF @ < CountCeiling THEN @ + 1 ELSE @]
        /\ ordinaryDiagnosticBytes' = ordinaryDiagnosticBytes +
              (IF known \/ t \in Reserved THEN 0 ELSE charge)
    BY <1>2 DEF RecordGap
  <2> HIDE DEF t
  <2>2. \A d \in DiagKeys : pendingDiagnostics'[d] > 0 <=>
          (d = t \/ pendingDiagnostics[d] > 0)
    BY <1>0, <1>1, <2>1
  <2>3. GapIds \subseteq DiagKeys
    BY DEF DiagKeys
  <2>4. CASE known \/ t \in Reserved
    <3>1. PendingOrdinary' = PendingOrdinary
      BY <1>0, <2>2, <2>3, <2>4 DEF PendingOrdinary
    <3>2. ordinaryDiagnosticBytes' = ordinaryDiagnosticBytes
      BY <1>0, <2>1, <2>4
    <3> QED BY <3>1, <3>2 DEF DiagnosticBooks
  <2>5. CASE ~(known \/ t \in Reserved)
    <3> DEFINE more == PendingOrdinary'
    <3>1. t \in GapIds /\ charge = GapCharge[t]
      BY <1>1, <2>5 DEF DiagKeys, DiagCharge
    <3>2. t \notin PendingOrdinary /\ more = PendingOrdinary \cup {t} /\ more \subseteq GapIds
      BY <2>2, <2>3, <2>5, <3>1 DEF PendingOrdinary
    <3>3. IsFiniteSet(more) /\ more \ {t} = PendingOrdinary /\ t \in more
      BY <1>0, <3>2, FS_Subset
    <3>4. \A g \in more : GapCharge[g] \in Int
      BY <1>0, <3>2
    <3>5. SumOver(GapCharge, more) = GapCharge[t] + SumOver(GapCharge, PendingOrdinary)
      <4> HIDE DEF more
      <4> QED BY <3>3, <3>4, SumRemoves
    <3>6. ordinaryDiagnosticBytes' = ordinaryDiagnosticBytes + GapCharge[t]
      BY <2>1, <2>5, <3>1
    <3>7. GapCharge[t] \in Nat
      BY <1>0, <3>1
    <3> QED BY <1>0, <3>5, <3>6, <3>7 DEF DiagnosticBooks
  <2> QED BY <2>4, <2>5
<1>3. CASE ~(known \/ TotalFits(queued, charge))
  BY <1>3 DEF RecordGap, diagVars, DiagnosticBooks, PendingOrdinary
<1> QED BY <1>2, <1>3

(* An emptied log charges nothing.                                          *)
LEMMA EmptyLogCharges ==
  ASSUME NoDiagnostics
  PROVE  DiagnosticBooks'
<1>1. PendingOrdinary' = {}
  BY DEF NoDiagnostics, PendingOrdinary, DiagKeys
<1> QED BY <1>1, SumOfNone DEF NoDiagnostics, DiagnosticBooks

(* Every step keeps the diagnostic bytes.                                   *)
LEMMA NextDiagnosticBooks ==
  ASSUME TypeOK, DiagnosticBooks, [Next]_queueVars
  PROVE  DiagnosticBooks'
<1>1. ASSUME UNCHANGED diagVars PROVE DiagnosticBooks'
  BY <1>1 DEF diagVars, DiagnosticBooks, PendingOrdinary
<1>2. ASSUME NEW e \in Events, Publish(e) PROVE DiagnosticBooks'
  <2>1. CASE PublishReject(e) \/ PublishDuplicate(e) \/ PublishCoalesce(e) \/ PublishAccept(e)
    BY <1>1, <2>1 DEF PublishReject, PublishDuplicate, PublishCoalesce, PublishAccept
  <2>2. CASE PublishCollision(e) \/ PublishDropReplacement(e) \/ PublishDrop(e)
    <3>1. \E k \in DiagKeys, queued \in {queuedBytes, ClosedLaneBytes(e)} : RecordGap(k, queued)
      BY <2>2, EventFields
         DEF PublishCollision, PublishDropReplacement, PublishDrop, DiagKeys, Reserved
    <3> QED BY <3>1, RecordingCharges
  <2> QED BY <1>2, <2>1, <2>2 DEF Publish
<1>3. ASSUME RunStep PROVE DiagnosticBooks'
  <2>1. CASE RunStart \/ StopBegin \/ StopPublishFails \/ ApplyFinish \/ ApplyCanceled
             \/ ApplyNoClock
    BY <1>1, <2>1
       DEF RunStart, StopBegin, StopPublishFails, ApplyFinish, ApplyCanceled, ApplyNoClock
  <2>2. ASSUME NEW eligible \in Eligibles, Pop(eligible) PROVE DiagnosticBooks'
    BY <1>1, <2>2 DEF Pop
  <2>3. ASSUME NEW result \in Results, NEW gaps \in GapLedgers, ApplyBegin(result, gaps)
        PROVE  DiagnosticBooks'
    BY <1>1, <2>3 DEF ApplyBegin
  <2>4. ASSUME NEW reason \in {"cancel", "abort"}, Halt(reason) PROVE DiagnosticBooks'
    BY <1>1, <2>4 DEF Halt
  <2>5. ASSUME NEW gaps \in GapLedgers, PublishDiagnostics(gaps) \/ StopPublish(gaps)
        PROVE  DiagnosticBooks'
    BY <2>5, EmptyLogCharges DEF PublishDiagnostics, StopPublish, HandOver
  <2>6. CASE StopEnd
    BY <2>6, EmptyLogCharges DEF StopEnd
  <2> QED BY <1>3, <2>1, <2>2, <2>3, <2>4, <2>5, <2>6 DEF RunStep
<1>4. CASE UNCHANGED queueVars
  BY <1>1, <1>4 DEF queueVars
<1> QED BY <1>2, <1>3, <1>4 DEF Next


-----------------------------------------------------------------------------
(* The items' books, step by step.                                          *)

Settled == {"accepted", "applied", "applyErrors", "canceled", "aborted"}

(* A step that moves no item, no key and no byte.                           *)
LEMMA ItemBooksKept ==
  ASSUME ItemBooks, UNCHANGED <<normal, critical, inflight, preApply, pendingReplay, byteVars>>,
         \A c \in Settled : stats'[c] = stats[c]
  PROVE  ItemBooks'
<1>1. Owned' = Owned /\ Queued' = Queued
  BY DEF Owned, Queued
<1>2. ReplayExact'
  BY <1>1 DEF ItemBooks, ReplayExact
<1>3. AcceptedConserved'
  BY <1>1 DEF ItemBooks, AcceptedConserved, Settled
<1> QED BY <1>1, <1>2, <1>3 DEF ItemBooks, byteVars

(* Putting an item in the place of another with its id.                     *)
LEMMA Swapped ==
  ASSUME NEW S, IsFiniteSet(S), NEW old \in S, NEW new, new \notin S \ {old}
  PROVE  /\ IsFiniteSet((S \ {old}) \cup {new})
         /\ Cardinality((S \ {old}) \cup {new}) = Cardinality(S)
<1> DEFINE rest == S \ {old}
<1>1. IsFiniteSet(rest) /\ Cardinality(rest) = Cardinality(S) - 1
  BY FS_RemoveElement
<1>2. Cardinality(S) \in Nat
  BY FS_CardinalityType
<1> HIDE DEF rest
<1>3. new \notin rest
  BY DEF rest
<1>4. IsFiniteSet(rest \cup {new}) /\ Cardinality(rest \cup {new}) = Cardinality(rest) + 1
  BY <1>1, <1>3, FS_AddElement
<1>5. IsFiniteSet(rest \cup {new}) /\ Cardinality(rest \cup {new}) = Cardinality(S)
  BY <1>1, <1>2, <1>4
<1> QED BY <1>5 DEF rest

(* What a lane closing leaves of the queues and of the books.               *)
LEMMA LaneClosedBooks ==
  ASSUME IInv, ItemBooks, NEW e \in Events
  PROVE  LET queued == ClosedLaneQueue(e) \cup critical
             all == queued \cup inflight \cup preApply
         IN  /\ queued \subseteq Item /\ IsFiniteSet(queued)
             /\ Bytes(queued) = ClosedLaneBytes(e)
             /\ IsFiniteSet(all) /\ Cardinality(all) = Cardinality(Owned)
             /\ \A i \in all : \E j \in Owned : i.id = j.id /\ i.ev = j.ev
             /\ \A j \in Owned : \E i \in all : i.id = j.id /\ i.ev = j.ev
<1> DEFINE queued == ClosedLaneQueue(e) \cup critical
           all == queued \cup inflight \cup preApply
<1>0. /\ Queued \subseteq Item /\ IsFiniteSet(Queued) /\ IsFiniteSet(Owned)
      /\ CoalesceCharge \in Nat /\ queuedBytes \in Int /\ queuedBytes = Bytes(Queued)
  BY OwnedFinite, QueueAssumption DEF IInv, TypeOK, ItemBooks
<1>1. CASE ~LaneTaken(e)
  <2>1. ClosedLaneQueue(e) = normal /\ ClosedLaneBytes(e) = queuedBytes
    BY <1>0, <1>1 DEF ClosedLaneQueue, ClosedLaneBytes
  <2>2. queued = Queued /\ all = Owned
    BY <2>1 DEF Queued, Owned
  <2>3. ClosedLaneBytes(e) = Bytes(Queued)
    BY <1>0, <2>1
  <2> HIDE DEF queued, all
  <2>4. /\ queued \subseteq Item /\ IsFiniteSet(queued)
        /\ Bytes(queued) = ClosedLaneBytes(e)
        /\ IsFiniteSet(all) /\ Cardinality(all) = Cardinality(Owned)
        /\ \A i \in all : \E j \in Owned : i.id = j.id /\ i.ev = j.ev
        /\ \A j \in Owned : \E i \in all : i.id = j.id /\ i.ev = j.ev
    BY <1>0, <2>2, <2>3
  <2> QED BY <2>4 DEF queued, all
<1>2. CASE LaneTaken(e)
  <2> DEFINE old == LaneOwner(e)
             new == [old EXCEPT !.coalescible = FALSE, !.token = @ - CoalesceCharge]
  <2>1. old \in normal
    BY <1>2, LaneOwnerFound DEF IInv
  <2>2. ClosedLaneQueue(e) = (normal \ {old}) \cup {new}
    BY <1>2 DEF ClosedLaneQueue
  <2>3. ClosedLaneBytes(e) = queuedBytes - CoalesceCharge
    BY <1>2 DEF ClosedLaneBytes
  <2> HIDE DEF old
  <2>4. old \in Item /\ old \in Queued /\ old \in Owned
    BY <2>1 DEF IInv, TypeOK, Queued, Owned
  <2>5. old.token \in Int /\ old.token - CoalesceCharge \in Int
    BY <1>0, <2>4 DEF Item
  <2>6. /\ new \in Item /\ new.id = old.id /\ new.ev = old.ev
        /\ new.token = old.token - CoalesceCharge
    BY <2>4, <2>5 DEF Item
  <2> HIDE DEF new
  <2>7. old \notin critical \cup inflight \cup preApply
    BY <2>1 DEF IInv, ItemsApart, Queued
  <2>8. queued = (Queued \ {old}) \cup {new} /\ all = (Owned \ {old}) \cup {new}
    BY <2>1, <2>2, <2>7 DEF Queued, Owned
  <2>9. new \notin Owned \ {old}
    BY <2>4, <2>6 DEF IInv, ItemsApart
  <2>10. new \notin Queued \ {old}
    BY <2>9 DEF Owned
  <2> HIDE DEF queued, all
  <2>11. IsFiniteSet(queued) /\ queued \subseteq Item
    BY <1>0, <2>4, <2>6, <2>8, <2>10, Swapped
  <2>12. Bytes(queued) = Bytes(Queued) + new.token - old.token
    BY <1>0, <2>4, <2>6, <2>8, <2>10, BytesSwap
  <2>13. Bytes(queued) = ClosedLaneBytes(e)
    BY <1>0, <2>3, <2>5, <2>6, <2>12
  <2>14. IsFiniteSet(all) /\ Cardinality(all) = Cardinality(Owned)
    BY <1>0, <2>4, <2>8, <2>9, Swapped
  <2>15. /\ \A i \in all : \E j \in Owned : i.id = j.id /\ i.ev = j.ev
         /\ \A j \in Owned : \E i \in all : i.id = j.id /\ i.ev = j.ev
    BY <2>4, <2>6, <2>8
  <2> QED BY <2>11, <2>13, <2>14, <2>15 DEF queued, all
<1> QED BY <1>1, <1>2

(* A dropped event leaves the books as its lane closing does.               *)
LEMMA DropBooks ==
  ASSUME IInv, ItemBooks, NEW e \in Events, PublishDrop(e)
  PROVE  ItemBooks'
<1>1. /\ normal' = ClosedLaneQueue(e) /\ queuedBytes' = ClosedLaneBytes(e)
      /\ UNCHANGED <<critical, inflight, preApply, pendingReplay, inFlightBytes>>
  BY DEF PublishDrop, applyVars
<1>2. \A c \in Settled : stats'[c] = stats[c]
  BY DEF PublishDrop, Count, Settled, IInv, TypeOK, Counters
<1>3. Queued' = ClosedLaneQueue(e) \cup critical
  BY <1>1 DEF Queued
<1>4. Owned' = ClosedLaneQueue(e) \cup critical \cup inflight \cup preApply
  BY <1>1, <1>3 DEF Owned
<1>5. /\ Bytes(Queued') = ClosedLaneBytes(e) /\ Cardinality(Owned') = Cardinality(Owned)
      /\ \A i \in Owned' : \E j \in Owned : i.id = j.id /\ i.ev = j.ev
      /\ \A j \in Owned : \E i \in Owned' : i.id = j.id /\ i.ev = j.ev
  BY <1>3, <1>4, LaneClosedBooks
<1>6. ReplayExact'
  BY <1>1, <1>5 DEF ItemBooks, ReplayExact
<1>7. AcceptedConserved'
  BY <1>2, <1>5 DEF ItemBooks, AcceptedConserved, Settled
<1> QED BY <1>1, <1>5, <1>6, <1>7 DEF ItemBooks

(* An accepted event enters every book once.                                *)
LEMMA AcceptBooks ==
  ASSUME IInv, ItemBooks, NEW e \in Events, PublishAccept(e)
  PROVE  ItemBooks'
<1> DEFINE id   == ingressOrdinal + 1
           item == [id |-> id, sequence |-> id, ev |-> e,
                    token |-> EventToken(e, Coalescible(e)),
                    coalescible |-> Coalescible(e)]
           queued == ClosedLaneQueue(e) \cup critical
           all == queued \cup inflight \cup preApply
<1>1. /\ normal' = ClosedLaneQueue(e) \cup (IF e.critical THEN {} ELSE {item})
      /\ critical' = critical \cup (IF e.critical THEN {item} ELSE {})
      /\ pendingReplay' = [pendingReplay EXCEPT ![e.replay] = id]
      /\ queuedBytes' = ClosedLaneBytes(e) + item.token
      /\ UNCHANGED <<inflight, preApply, inFlightBytes>>
      /\ pendingReplay[e.replay] = 0
  BY DEF PublishAccept, applyVars, Replayed
<1>2. stats' = [stats EXCEPT !["accepted"] = @ + 1] /\ stats \in [Counters -> Nat]
  BY DEF PublishAccept, Count, IInv, TypeOK
<1>3. /\ ingressOrdinal \in Nat /\ e.lane \in Lanes \cup {NoLane} /\ e.critical \in BOOLEAN
      /\ e.base \in Nat /\ e.replay \in ReplayKeys /\ CoalesceCharge \in Nat
      /\ pendingReplay \in [ReplayKeys -> Nat]
  BY EventFields, QueueAssumption DEF IInv, TypeOK
<1>4. Coalescible(e) \in BOOLEAN
  BY Zenon DEF Coalescible, LaneTaken
<1>5. EventToken(e, Coalescible(e)) \in Int
  BY <1>3, <1>4 DEF EventToken
<1>6. item \in Item /\ item.id = id /\ item.ev = e
  BY <1>3, <1>4, <1>5 DEF Item
<1> HIDE DEF item
<1>7. Queued' = queued \cup {item}
  BY <1>1, <1>3 DEF Queued
<1>8. Owned' = all \cup {item}
  BY <1>1, <1>7 DEF Owned
<1>9. /\ queued \subseteq Item /\ IsFiniteSet(queued) /\ Bytes(queued) = ClosedLaneBytes(e)
      /\ IsFiniteSet(all) /\ Cardinality(all) = Cardinality(Owned)
      /\ \A i \in all : \E j \in Owned : i.id = j.id /\ i.ev = j.ev
      /\ \A j \in Owned : \E i \in all : i.id = j.id /\ i.ev = j.ev
  BY LaneClosedBooks
<1> HIDE DEF queued, all
<1>10. queued \subseteq all
  BY DEF queued, all
<1>11. id \notin {j.id : j \in Owned} /\ id # 0
  BY <1>3 DEF IInv, ItemsApart
<1>12. item \notin all /\ item \notin queued
  BY <1>6, <1>9, <1>10, <1>11
<1> HIDE DEF id
<1>13. queuedBytes' = Bytes(Queued')
  BY <1>1, <1>6, <1>7, <1>9, <1>12, BytesWith
<1>14. inFlightBytes' = Bytes(inflight' \cup preApply')
  BY <1>1 DEF ItemBooks
<1>15. AcceptedConserved'
  <2>1. Cardinality(Owned') = Cardinality(Owned) + 1
    BY <1>8, <1>9, <1>12, FS_AddElement
  <2>2. Cardinality(Owned) \in Nat
    BY OwnedFinite DEF IInv
  <2>3. /\ stats'["accepted"] = stats["accepted"] + 1 /\ stats["accepted"] \in Nat
        /\ \A c \in Settled \ {"accepted"} : stats'[c] = stats[c] /\ stats[c] \in Nat
    BY <1>2 DEF Settled, Counters
  <2> QED BY <2>1, <2>2, <2>3 DEF ItemBooks, AcceptedConserved, Settled
<1>16. ReplayExact'
  <2>0. \A i \in Owned : i.ev.replay # e.replay /\ i.ev.replay \in ReplayKeys
    <3>1. \A i \in Owned : i.id # 0 /\ i.ev \in Events
      BY OwnedFinite DEF IInv, ItemsApart, Item
    <3> QED BY <1>1, <3>1, EventFields DEF ItemBooks, ReplayExact
  <2>1. \A i \in all : i.ev.replay # e.replay /\ i.ev.replay \in ReplayKeys
    BY <1>9, <2>0
  <2>2. \A i \in all : pendingReplay'[i.ev.replay] = i.id
    <3>1. \A i \in all : pendingReplay[i.ev.replay] = i.id
      BY <1>9 DEF ItemBooks, ReplayExact
    <3> QED BY <1>1, <1>3, <2>1, <3>1
  <2>3. pendingReplay'[item.ev.replay] = item.id
    BY <1>1, <1>3, <1>6
  <2>4. ASSUME NEW k \in ReplayKeys, pendingReplay'[k] # 0
        PROVE  \E i \in Owned' : i.ev.replay = k /\ i.id = pendingReplay'[k]
    <3>1. CASE k = e.replay
      BY <1>1, <1>3, <1>6, <1>8, <3>1
    <3>2. CASE k # e.replay
      <4>1. pendingReplay'[k] = pendingReplay[k]
        BY <1>1, <1>3, <3>2
      <4>2. PICK j \in Owned : j.ev.replay = k /\ j.id = pendingReplay[k]
        BY <2>4, <4>1 DEF ItemBooks, ReplayExact
      <4>3. PICK i \in all : i.id = j.id /\ i.ev = j.ev
        BY <1>9
      <4> QED BY <1>8, <4>1, <4>2, <4>3
    <3> QED BY <3>1, <3>2
  <2> QED BY <1>8, <2>2, <2>3, <2>4 DEF ReplayExact
<1> QED BY <1>13, <1>14, <1>15, <1>16 DEF ItemBooks


(* A replacement takes over the place and gives up the older event's key.   *)
LEMMA CoalesceBooks ==
  ASSUME IInv, ItemBooks, NEW e \in Events, PublishCoalesce(e)
  PROVE  ItemBooks'
<1> DEFINE old == LaneOwner(e)
           new == [old EXCEPT !.ev = e, !.token = EventToken(e, TRUE),
                              !.sequence = ingressOrdinal + 1]
<1>1. /\ normal' = (normal \ {old}) \cup {new}
      /\ pendingReplay' = [pendingReplay EXCEPT ![old.ev.replay] = 0, ![e.replay] = old.id]
      /\ queuedBytes' = queuedBytes + new.token - old.token
      /\ UNCHANGED <<critical, inflight, preApply, inFlightBytes>>
      /\ pendingReplay[e.replay] = 0
  BY DEF PublishCoalesce, applyVars, Replayed
<1>2. \A c \in Settled : stats'[c] = stats[c]
  BY DEF PublishCoalesce, Count, Settled, IInv, TypeOK, Counters
<1>3. old \in normal
  BY LaneOwnerFound DEF PublishCoalesce, Replaces, IInv
<1> HIDE DEF old
<1>4. /\ old \in Item /\ old \in Queued /\ old \in Owned
      /\ old \notin critical \cup inflight \cup preApply
  BY <1>3 DEF IInv, TypeOK, ItemsApart, Queued, Owned
<1>5. EventToken(e, TRUE) \in Int /\ ingressOrdinal + 1 \in Nat
  BY EventFields, QueueAssumption DEF EventToken, IInv, TypeOK
<1>6. new \in Item /\ new.id = old.id /\ new.ev = e
  <2> DEFINE charge == EventToken(e, TRUE)
             ordinal == ingressOrdinal + 1
  <2> HIDE DEF charge, ordinal
  <2>1. new = [old EXCEPT !.ev = e, !.token = charge, !.sequence = ordinal]
    BY DEF charge, ordinal
  <2>2. charge \in Int /\ ordinal \in Nat
    BY <1>5 DEF charge, ordinal
  <2> QED BY <1>4, <2>1, <2>2 DEF Item
<1> HIDE DEF new
<1>7. Queued' = (Queued \ {old}) \cup {new} /\ Owned' = (Owned \ {old}) \cup {new}
  BY <1>1, <1>3, <1>4 DEF Queued, Owned
<1>8. new \notin Owned \ {old} /\ new \notin Queued \ {old}
  <2>1. new \notin Owned \ {old}
    BY <1>4, <1>6 DEF IInv, ItemsApart
  <2> QED BY <2>1 DEF Owned
<1>9. /\ Queued \subseteq Item /\ IsFiniteSet(Queued) /\ IsFiniteSet(Owned)
  BY OwnedFinite DEF IInv
<1>10. queuedBytes' = Bytes(Queued')
  <2>1. Bytes(Queued') = Bytes(Queued) + new.token - old.token
    BY <1>4, <1>6, <1>7, <1>8, <1>9, BytesSwap
  <2> QED BY <1>1, <2>1 DEF ItemBooks
<1>11. AcceptedConserved'
  <2>1. Cardinality(Owned') = Cardinality(Owned)
    BY <1>4, <1>7, <1>8, <1>9, Swapped
  <2> QED BY <1>2, <2>1 DEF ItemBooks, AcceptedConserved, Settled
<1>12. ReplayExact'
  <2>0. /\ pendingReplay \in [ReplayKeys -> Nat] /\ e.replay \in ReplayKeys
        /\ old.ev.replay \in ReplayKeys /\ old.id # 0
        /\ pendingReplay[old.ev.replay] = old.id
    BY <1>4, EventFields DEF IInv, TypeOK, ItemsApart, Item, ItemBooks, ReplayExact
  <2>1. old.ev.replay # e.replay
    BY <1>1, <2>0
  <2>2. \A i \in Owned \ {old} :
          i.ev.replay \in ReplayKeys /\ i.ev.replay \notin {e.replay, old.ev.replay}
    <3>1. \A i \in Owned : /\ i.id # 0 /\ i.ev \in Events
                           /\ pendingReplay[i.ev.replay] = i.id
      BY OwnedFinite DEF IInv, ItemsApart, Item, ItemBooks, ReplayExact
    <3>2. \A i \in Owned : i.id = old.id => i = old
      BY <1>4 DEF IInv, ItemsApart
    <3> QED BY <1>1, <2>0, <3>1, <3>2, EventFields
  <2>3. \A k \in ReplayKeys :
          pendingReplay'[k] = IF k = e.replay THEN old.id
                              ELSE IF k = old.ev.replay THEN 0 ELSE pendingReplay[k]
    BY <1>1, <2>0
  <2>4. \A i \in Owned' : pendingReplay'[i.ev.replay] = i.id
    <3>1. \A i \in Owned \ {old} : pendingReplay'[i.ev.replay] = i.id
      BY <2>2, <2>3 DEF ItemBooks, ReplayExact
    <3>2. pendingReplay'[new.ev.replay] = new.id
      BY <1>6, <2>0, <2>3
    <3> QED BY <1>7, <3>1, <3>2
  <2>5. ASSUME NEW k \in ReplayKeys, pendingReplay'[k] # 0
        PROVE  \E i \in Owned' : i.ev.replay = k /\ i.id = pendingReplay'[k]
    <3>1. CASE k = e.replay
      BY <1>6, <1>7, <2>3, <3>1
    <3>2. CASE k # e.replay
      <4>1. k # old.ev.replay /\ pendingReplay'[k] = pendingReplay[k]
        BY <2>3, <2>5, <3>2
      <4>2. PICK i \in Owned : i.ev.replay = k /\ i.id = pendingReplay[k]
        BY <2>5, <4>1 DEF ItemBooks, ReplayExact
      <4> QED BY <1>7, <4>1, <4>2
    <3> QED BY <3>1, <3>2
  <2> QED BY <2>4, <2>5 DEF ReplayExact
<1> QED BY <1>1, <1>10, <1>11, <1>12 DEF ItemBooks

(* The bytes of one item are its token.                                     *)
LEMMA BytesOfOne == ASSUME NEW i \in Item PROVE Bytes({i}) = i.token
<1>1. IsFiniteSet({}) /\ {} \subseteq Item /\ i \notin {}
  BY FS_EmptySet
<1>2. Bytes({} \cup {i}) = Bytes({}) + i.token
  BY <1>1, BytesWith
<1>3. {} \cup {i} = {i} /\ i.token \in Int
  BY DEF Item
<1> QED BY <1>2, <1>3, BytesOfNone

(* Only a halted Store has an item set aside, and only a busy one is        *)
(* applying one.                                                            *)
LEMMA WhereItemsAre ==
  ASSUME TypeOK
  PROVE  /\ applyStep = "idle" => inflight = {}
         /\ halt = "no" \/ applyStep # "idle" => preApply = {}
         /\ applyStep # "idle" => \E i \in inflight : inflight = {i}
BY DEF TypeOK

(* A dequeue moves an item's base charge in flight and drops its coalesce   *)
(* charge.                                                                  *)
LEMMA PopBooks ==
  ASSUME IInv, IInv', ItemBooks, NEW eligible, eligible \subseteq Queued, Pop(eligible)
  PROVE  ItemBooks'
<1>1. PICK item \in Queued :
        /\ critical' = critical \ {item} /\ normal' = normal \ {item}
        /\ inflight' = {[item EXCEPT !.token = item.ev.base]}
        /\ queuedBytes' = queuedBytes - item.token
        /\ inFlightBytes' = inFlightBytes + item.ev.base
  BY PopTakes DEF IInv
<1> DEFINE new == [item EXCEPT !.token = item.ev.base]
<1>2. inflight = {} /\ preApply = {} /\ UNCHANGED <<preApply, pendingReplay, stats>>
  BY WhereItemsAre DEF Pop, IInv
<1>3. /\ Queued \subseteq Item /\ IsFiniteSet(Queued) /\ Owned = Queued
      /\ item \in Item /\ item.token \in Int /\ item.ev.base \in Int
  <2>1. Queued \subseteq Item /\ IsFiniteSet(Queued) /\ Owned = Queued
    BY <1>2, OwnedFinite DEF IInv, Owned
  <2>2. item \in Item
    BY <2>1
  <2>3. item.token \in Int /\ item.ev.base \in Int
    BY <2>2, EventFields DEF Item
  <2> QED BY <2>1, <2>2, <2>3
<1>4. new \in Item /\ new.id = item.id /\ new.ev = item.ev /\ new.token = item.ev.base
  BY <1>3 DEF Item
<1>5. inflight' = {new}
  BY <1>1
<1> HIDE DEF new
<1>6. Queued' = Queued \ {item} /\ Owned' = (Owned \ {item}) \cup {new}
  BY <1>1, <1>2, <1>3, <1>5 DEF Queued, Owned
<1>7. new \notin Owned \ {item}
  BY <1>3, <1>4 DEF IInv, ItemsApart
<1>8. queuedBytes' = Bytes(Queued')
  <2>1. Bytes(Queued) = item.token + Bytes(Queued') /\ Bytes(Queued') \in Int
    BY <1>3, <1>6, BytesWithout
  <2> QED BY <1>1, <1>3, <2>1 DEF ItemBooks
<1>9. inFlightBytes' = Bytes(inflight' \cup preApply')
  <2>1. inflight \cup preApply = {} /\ inflight' \cup preApply' = {new}
    BY <1>2, <1>5
  <2>2. inFlightBytes = 0
    BY <2>1, BytesOfNone DEF ItemBooks
  <2>3. Bytes({new}) = item.ev.base
    BY <1>4, BytesOfOne
  <2>4. inFlightBytes' = item.ev.base
    BY <1>1, <1>3, <2>2
  <2> QED BY <2>1, <2>3, <2>4
<1>10. AcceptedConserved'
  <2>1. Cardinality(Owned') = Cardinality(Owned)
    BY <1>3, <1>6, <1>7, Swapped
  <2> QED BY <1>2, <2>1 DEF ItemBooks, AcceptedConserved
<1>11. ReplayExact'
  <2>1. /\ \A i \in Owned' : \E j \in Owned : i.id = j.id /\ i.ev = j.ev
        /\ \A j \in Owned : \E i \in Owned' : i.id = j.id /\ i.ev = j.ev
    BY <1>3, <1>4, <1>6
  <2> QED BY <1>2, <2>1 DEF ItemBooks, ReplayExact
<1> QED BY <1>8, <1>9, <1>10, <1>11 DEF ItemBooks

(* An item set aside stays owned, with its key and its bytes.               *)
LEMMA CanceledBooks ==
  ASSUME IInv, ItemBooks, ApplyCanceled
  PROVE  ItemBooks'
<1>1. preApply = {}
  BY WhereItemsAre DEF ApplyCanceled, IInv
<1>2. /\ Queued' = Queued /\ Owned' = Owned
      /\ inflight' \cup preApply' = inflight \cup preApply
  BY <1>1 DEF ApplyCanceled, Queued, Owned
<1>3. UNCHANGED <<pendingReplay, byteVars, stats>>
  BY DEF ApplyCanceled, laneVars
<1> QED BY <1>2, <1>3 DEF ItemBooks, ReplayExact, AcceptedConserved, byteVars

(* A finished item leaves with its key and its bytes, and is counted once.  *)
LEMMA FinishBooks ==
  ASSUME IInv, ItemBooks, ApplyFinish \/ ApplyNoClock
  PROVE  ItemBooks'
<1>1. PICK item \in inflight : inflight = {item} /\ preApply = {}
  BY WhereItemsAre DEF ApplyFinish, ApplyNoClock, IInv
<1>2. /\ FinishItem /\ UNCHANGED <<normal, critical, preApply, queuedBytes>>
      /\ \E c \in {"applied", "applyErrors", "aborted"} : Count(c)
  BY DEF ApplyFinish, ApplyNoClock
<1>3. PICK c \in {"applied", "applyErrors", "aborted"} : Count(c)
  BY <1>2
<1>4. item \in Item /\ item \in Owned /\ item \notin Queued /\ item.token \in Int
  BY <1>1 DEF IInv, TypeOK, ItemsApart, Owned, Item
<1>5. inflight' = {} /\ Queued' = Queued /\ Owned' = Queued /\ Owned' = Owned \ {item}
  BY <1>1, <1>2, <1>4 DEF FinishItem, Queued, Owned
<1>6. inFlightBytes' = Bytes(inflight' \cup preApply')
  <2>1. inFlightBytes = item.token
    BY <1>1, <1>4, BytesOfOne DEF ItemBooks
  <2>2. (CHOOSE i \in inflight : TRUE) = item
    BY <1>1
  <2>3. inFlightBytes' =
          IF inFlightBytes >= item.token THEN inFlightBytes - item.token ELSE 0
    BY <1>2, <2>2 DEF FinishItem
  <2>5. inFlightBytes' = 0
    BY <1>4, <2>1, <2>3
  <2>4. inflight' \cup preApply' = {}
    BY <1>1, <1>2, <1>5
  <2> QED BY <2>4, <2>5, BytesOfNone
<1>7. AcceptedConserved'
  <2>1. Cardinality(Owned) \in Nat /\ Cardinality(Owned') = Cardinality(Owned) - 1
    BY <1>4, <1>5, OwnedFinite, FS_RemoveElement DEF IInv
  <2>2. stats \in [Counters -> Nat]
    BY DEF IInv, TypeOK
  <2>3. \A d \in Settled : stats'[d] = IF d = c THEN stats[d] + 1 ELSE stats[d]
    BY <1>3, <2>2 DEF Count, Settled, Counters
  <2>4. \A d \in Settled : stats[d] \in Nat
    BY <2>2 DEF Settled, Counters
  <2> QED BY <2>1, <2>3, <2>4 DEF ItemBooks, AcceptedConserved, Settled
<1>8. ReplayExact'
  <2>1. \A k \in ReplayKeys :
          pendingReplay'[k] = IF k = item.ev.replay THEN 0 ELSE pendingReplay[k]
    BY <1>1, <1>2 DEF FinishItem, ReleaseReplay
  <2>2. \A i \in Owned : i.ev.replay \in ReplayKeys /\ pendingReplay[i.ev.replay] = i.id
    <3>1. \A i \in Owned : i.ev \in Events
      BY OwnedFinite DEF IInv, Item
    <3> QED BY <3>1, EventFields DEF ItemBooks, ReplayExact
  <2>3. \A i \in Owned \ {item} : i.ev.replay # item.ev.replay
    BY <1>4, <2>2 DEF IInv, ItemsApart
  <2>4. \A i \in Owned' : pendingReplay'[i.ev.replay] = i.id
    BY <1>5, <2>1, <2>2, <2>3
  <2>5. \A k \in ReplayKeys : pendingReplay'[k] # 0 =>
          \E i \in Owned' : i.ev.replay = k /\ i.id = pendingReplay'[k]
    BY <1>5, <2>1 DEF ItemBooks, ReplayExact
  <2> QED BY <2>4, <2>5 DEF ReplayExact
<1> QED BY <1>2, <1>5, <1>6, <1>7, <1>8 DEF ItemBooks

(* A Store that stops has finished the event it was applying.               *)
StopIdle == lifecycle \in {"stopping", "stopped"} => applyStep = "idle"

(* Every step keeps that.                                                   *)
LEMMA NextStopIdle == StopIdle /\ [Next]_queueVars => StopIdle'
<1> SUFFICES ASSUME StopIdle, [Next]_queueVars PROVE StopIdle'
  OBVIOUS
<1> USE DEF StopIdle, runVars, applyVars
<1>1. ASSUME NEW e \in Events, Publish(e) PROVE StopIdle'
  BY <1>1 DEF Publish, PublishReject, PublishDuplicate, PublishCollision, PublishCoalesce,
              PublishDropReplacement, PublishAccept, PublishDrop
<1>2. ASSUME RunStep PROVE StopIdle'
  <2>1. CASE RunStart \/ StopBegin \/ StopPublishFails \/ StopEnd
    BY <2>1 DEF RunStart, StopBegin, StopPublishFails, StopEnd
  <2>2. CASE ApplyFinish \/ ApplyCanceled \/ ApplyNoClock
    BY <2>2 DEF ApplyFinish, ApplyCanceled, ApplyNoClock, FinishItem
  <2>3. ASSUME NEW eligible \in Eligibles, Pop(eligible) PROVE StopIdle'
    BY <2>3 DEF Pop
  <2>4. ASSUME NEW result \in Results, NEW gaps \in GapLedgers, ApplyBegin(result, gaps)
        PROVE  StopIdle'
    BY <2>4 DEF ApplyBegin
  <2>5. ASSUME NEW reason \in {"cancel", "abort"}, Halt(reason) PROVE StopIdle'
    BY <2>5 DEF Halt
  <2>6. ASSUME NEW gaps \in GapLedgers, PublishDiagnostics(gaps) \/ StopPublish(gaps)
        PROVE  StopIdle'
    BY <2>6 DEF PublishDiagnostics, StopPublish
  <2> QED BY <1>2, <2>1, <2>2, <2>3, <2>4, <2>5, <2>6 DEF RunStep
<1>3. CASE UNCHANGED queueVars
  BY <1>3 DEF queueVars
<1> QED BY <1>1, <1>2, <1>3 DEF Next

(* The stop counts everything still owned and empties every book.           *)
LEMMA StopEndBooks ==
  ASSUME IInv, StopIdle, ItemBooks, StopEnd
  PROVE  ItemBooks'
<1>1. inflight = {} /\ inflight' = {}
  BY WhereItemsAre DEF StopEnd, IInv, StopIdle
<1>2. Queued' = {} /\ Owned' = {} /\ inflight' \cup preApply' = {}
  BY <1>1 DEF StopEnd, Queued, Owned
<1>3. Disposed = Owned
  BY <1>1 DEF Disposed, Owned
<1>4. PICK c \in {"aborted", "canceled"} :
        stats' = [stats EXCEPT ![c] = @ + Cardinality(Disposed)]
  BY DEF StopEnd
<1>5. AcceptedConserved'
  <2>1. Cardinality(Owned) \in Nat /\ Cardinality(Owned') = 0
    BY <1>2, OwnedFinite, FS_EmptySet DEF IInv
  <2>2. stats \in [Counters -> Nat]
    BY DEF IInv, TypeOK
  <2>3. \A d \in Settled :
          stats'[d] = IF d = c THEN stats[d] + Cardinality(Owned) ELSE stats[d]
    BY <1>3, <1>4, <2>2 DEF Settled, Counters
  <2>4. \A d \in Settled : stats[d] \in Nat
    BY <2>2 DEF Settled, Counters
  <2> QED BY <2>1, <2>3, <2>4 DEF ItemBooks, AcceptedConserved, Settled
<1>6. ReplayExact'
  BY <1>2 DEF StopEnd, ReplayExact
<1>7. queuedBytes' = 0 /\ inFlightBytes' = 0
  BY DEF StopEnd
<1> QED BY <1>2, <1>5, <1>6, <1>7, BytesOfNone DEF ItemBooks

(* Every step keeps the items' books.                                       *)
LEMMA NextItemBooks ==
  ASSUME IInv, IInv', StopIdle, ItemBooks, [Next]_queueVars
  PROVE  ItemBooks'
<1>0. stats \in [Counters -> Nat]
  BY DEF IInv, TypeOK
<1> DEFINE Quiet == /\ UNCHANGED <<normal, critical, inflight, preApply, pendingReplay, byteVars>>
                    /\ \A c \in Settled : stats'[c] = stats[c]
<1>1. Quiet => ItemBooks'
  BY ItemBooksKept
<1>2. ASSUME NEW e \in Events, Publish(e) PROVE ItemBooks'
  <2>1. CASE PublishReject(e) \/ PublishDuplicate(e) \/ PublishCollision(e)
             \/ PublishDropReplacement(e)
    <3>1. Quiet
      BY <1>0, <2>1 DEF PublishReject, PublishDuplicate, PublishCollision,
         PublishDropReplacement, Count, Settled, Counters, applyVars, laneVars
    <3> QED BY <1>1, <3>1
  <2> QED BY <1>2, <2>1, CoalesceBooks, AcceptBooks, DropBooks DEF Publish
<1>3. ASSUME RunStep PROVE ItemBooks'
  <2>1. CASE RunStart \/ StopBegin \/ StopPublishFails
    <3>1. Quiet
      BY <2>1 DEF RunStart, StopBegin, StopPublishFails, applyVars, laneVars
    <3> QED BY <1>1, <3>1
  <2>2. ASSUME NEW eligible \in Eligibles, Pop(eligible) PROVE ItemBooks'
    <3>1. eligible \subseteq Queued
      BY DEF Eligibles, UpTo, Prefix
    <3> QED BY <2>2, <3>1, PopBooks
  <2>3. ASSUME NEW result \in Results, NEW gaps \in GapLedgers, ApplyBegin(result, gaps)
        PROVE  ItemBooks'
    <3>1. Quiet
      BY <2>3 DEF ApplyBegin, laneVars
    <3> QED BY <1>1, <3>1
  <2>4. ASSUME NEW reason \in {"cancel", "abort"}, Halt(reason) PROVE ItemBooks'
    <3>1. Quiet
      BY <2>4 DEF Halt, applyVars, laneVars
    <3> QED BY <1>1, <3>1
  <2>5. ASSUME NEW gaps \in GapLedgers, PublishDiagnostics(gaps) \/ StopPublish(gaps)
        PROVE  ItemBooks'
    <3>1. Quiet
      BY <2>5 DEF PublishDiagnostics, StopPublish, applyVars, laneVars
    <3> QED BY <1>1, <3>1
  <2> QED BY <1>3, <2>1, <2>2, <2>3, <2>4, <2>5, CanceledBooks, FinishBooks, StopEndBooks
      DEF RunStep
<1>4. CASE UNCHANGED queueVars
  <2>1. Quiet
    BY <1>4 DEF queueVars, applyVars, laneVars
  <2> QED BY <1>1, <2>1
<1> QED BY <1>2, <1>3, <1>4 DEF Next

(* Whatever is published, coalesced, dequeued, applied, canceled or         *)
(* disposed of, the books balance: every replay key has its one owner, the  *)
(* byte counters are the sums of what they count, so that no subtraction    *)
(* wraps, and every accepted event is settled once or still owned.          *)
THEOREM BooksAlwaysBalance == Spec => []QueueBooks
<1>1. Init => ItemBooks /\ DiagnosticBooks
  <2> SUFFICES ASSUME Init PROVE ItemBooks /\ DiagnosticBooks
    OBVIOUS
  <2>1. Queued = {} /\ Owned = {} /\ inflight \cup preApply = {} /\ PendingOrdinary = {}
    BY DEF Init, Queued, Owned, PendingOrdinary, DiagKeys
  <2>2. AcceptedConserved
    BY <2>1, FS_EmptySet DEF Init, AcceptedConserved, Counters
  <2>3. ReplayExact
    BY <2>1 DEF Init, ReplayExact
  <2> QED BY <2>1, <2>2, <2>3, BytesOfNone, SumOfNone DEF Init, ItemBooks, DiagnosticBooks
<1>2. IInv /\ IInv' /\ StopIdle /\ ItemBooks /\ DiagnosticBooks /\ [Next]_queueVars
        => ItemBooks' /\ DiagnosticBooks'
  BY NextItemBooks, NextDiagnosticBooks DEF IInv
<1>3. IInv /\ ItemBooks /\ DiagnosticBooks => QueueBooks
  BY BooksRead
<1>4. Init => StopIdle
  BY DEF Init, StopIdle
<1> QED BY <1>1, <1>2, <1>3, <1>4, NextStopIdle, SpecIInv, PTL DEF Spec


-----------------------------------------------------------------------------
(* The turns of the two queues.                                             *)

(* The debt counts at least the passes: it is only reset by a normal        *)
(* dequeue, and while a normal item is ready no critical one is taken       *)
(* without adding to it.                                                    *)
DebtCounts == passes \in 0..criticalDebt

(* Every counted step is a step of the queue.                               *)
LEMMA TurnsAreSteps == [TurnsNext]_<<queueVars, passes>> => [Next]_queueVars
BY DEF TurnsNext, Next, RunStep

(* Every counted step keeps the passes within the debt.                     *)
LEMMA NextDebtCounts ==
  ASSUME IInv, DebtCounts, [TurnsNext]_<<queueVars, passes>>
  PROVE  DebtCounts'
<1>0. criticalDebt \in 0..DebtLimit /\ DebtLimit \in Nat /\ passes \in Nat /\ passes <= criticalDebt
  BY QueueAssumption DEF IInv, TypeOK, DebtCounts
<1>1. ASSUME NEW eligible \in Eligibles, Pop(eligible),
             passes' = IF normal' # normal THEN 0
                       ELSE IF normal \cap eligible # {} THEN passes + 1
                       ELSE passes
      PROVE  DebtCounts'
  <2>1. eligible \subseteq Queued
    BY DEF Eligibles, UpTo, Prefix
  <2> DEFINE isCritical == TakesCritical(eligible)
             queue == (IF isCritical THEN critical ELSE normal) \cap eligible
             item == First(queue)
  <2>2. /\ normal' = normal \ {item}
        /\ criticalDebt' = IF ~isCritical THEN 0
                           ELSE IF criticalDebt < DebtLimit THEN criticalDebt + 1
                           ELSE criticalDebt
    BY <1>1 DEF Pop
  <2>3. item \in queue
    <3>1. queue # {}
      BY <1>1, <2>1 DEF Pop, TakesCritical, Queued
    <3>2. \A i \in queue : i.id \in Nat
      BY DEF IInv, TypeOK, Item
    <3> HIDE DEF queue
    <3> QED BY <3>1, <3>2, FirstIsMember
  <2> HIDE DEF item
  <2>4. CASE isCritical
    <3>1. normal \cap eligible = {} \/ criticalDebt < DebtLimit
      BY <2>4 DEF TakesCritical
    <3>2. normal' = normal
      BY <2>2, <2>3, <2>4 DEF IInv, ItemsApart
    <3>3. CASE normal \cap eligible = {}
      BY <1>0, <1>1, <2>2, <2>4, <3>2, <3>3 DEF DebtCounts
    <3>4. CASE normal \cap eligible # {}
      BY <1>0, <1>1, <2>2, <2>4, <3>1, <3>2, <3>4 DEF DebtCounts
    <3> QED BY <3>3, <3>4
  <2>5. CASE ~isCritical
    <3>1. item \in normal /\ normal' # normal
      BY <2>2, <2>3, <2>5
    <3>2. passes' = 0 /\ criticalDebt' = 0
      BY <1>1, <2>2, <2>5, <3>1
    <3> QED BY <3>2 DEF DebtCounts
  <2> QED BY <2>4, <2>5
<1>2. ASSUME Next, inflight' \subseteq inflight, UNCHANGED passes PROVE DebtCounts'
  <2>1. ASSUME NEW e \in Events, Publish(e) PROVE criticalDebt' = criticalDebt
    BY <2>1 DEF Publish, PublishReject, PublishDuplicate, PublishCollision, PublishCoalesce,
                PublishDropReplacement, PublishAccept, PublishDrop
  <2>2. ASSUME RunStep PROVE criticalDebt' = criticalDebt
    <3>1. CASE RunStart \/ StopBegin \/ StopPublishFails \/ StopEnd
      BY <3>1 DEF RunStart, StopBegin, StopPublishFails, StopEnd
    <3>2. CASE ApplyFinish \/ ApplyCanceled \/ ApplyNoClock
      BY <3>2 DEF ApplyFinish, ApplyCanceled, ApplyNoClock
    <3>3. ASSUME NEW eligible \in Eligibles, Pop(eligible) PROVE FALSE
      <4>1. inflight = {}
        BY <3>3 DEF Pop, IInv, TypeOK
      <4>2. inflight' # {}
        BY <3>3 DEF Pop
      <4> QED BY <1>2, <4>1, <4>2
    <3>4. ASSUME NEW result \in Results, NEW gaps \in GapLedgers, ApplyBegin(result, gaps)
          PROVE  criticalDebt' = criticalDebt
      BY <3>4 DEF ApplyBegin
    <3>5. ASSUME NEW reason \in {"cancel", "abort"}, Halt(reason)
          PROVE  criticalDebt' = criticalDebt
      BY <3>5 DEF Halt
    <3>6. ASSUME NEW gaps \in GapLedgers, PublishDiagnostics(gaps) \/ StopPublish(gaps)
          PROVE  criticalDebt' = criticalDebt
      BY <3>6 DEF PublishDiagnostics, StopPublish
    <3> QED BY <2>2, <3>1, <3>2, <3>3, <3>4, <3>5, <3>6 DEF RunStep
  <2>3. criticalDebt' = criticalDebt
    BY <1>2, <2>1, <2>2 DEF Next
  <2> QED BY <1>2, <2>3 DEF DebtCounts
<1>3. CASE UNCHANGED <<queueVars, passes>>
  BY <1>3 DEF queueVars, DebtCounts
<1> QED BY <1>1, <1>2, <1>3 DEF TurnsNext

(* Between two normal dequeues at most DebtLimit critical ones pass over a  *)
(* normal item that was ready, whatever timers and flushes make ready.      *)
THEOREM NormalWaitAlwaysBounded == TurnsSpec => []NormalWaitBounded
<1>1. TurnsInit => Init /\ DebtCounts
  BY DEF TurnsInit, Init, DebtCounts
<1>2. TurnsSpec => []IInv
  BY <1>1, TurnsAreSteps, SpecIInv, PTL DEF TurnsSpec, Spec
<1>3. IInv /\ DebtCounts /\ [TurnsNext]_<<queueVars, passes>> => DebtCounts'
  BY NextDebtCounts
<1>4. IInv /\ DebtCounts => NormalWaitBounded
  BY QueueAssumption DEF IInv, TypeOK, DebtCounts, NormalWaitBounded
<1> QED BY <1>1, <1>2, <1>3, <1>4, PTL DEF TurnsSpec

-----------------------------------------------------------------------------
(* The scheduler.                                                           *)

-----------------------------------------------------------------------------
(* Steps of the scheduler are steps of the queues.                          *)

Draining == pc \in {"apply", "finish"} /\ back = "drain"

(* What the types rest on: a turn keeps a target while it drains, a flush   *)
(* its request, and a registered request is nobody's answer yet.            *)
Bookkeeping ==
  /\ clock >= 1
  /\ (pc = "done") = (lifecycle = "stopped")
  /\ (pc \in {"apply", "finish"} /\ back = "flush") => flushing # NoCaller
  /\ Draining => Due(turn) \in 1..Horizon
  /\ pc \in {"rearm", "drain", "checked", "advance"} \/ Draining => turn.readiness # 0
  /\ \A c \in Callers : callers[c].cutoff <= ingressOrdinal
  /\ \A c \in Callers : callers[c].pc = "idle" => callers[c].answer = "none"
  /\ FlushPending => callers[registered].answer = "none" /\ registered # flushing
  /\ flushing # NoCaller => callers[flushing].pc # "idle"
  /\ lifecycle = "stopped" => ~FlushPending

StoreIInv == IInv /\ StoreTypeOK /\ Bookkeeping

(* Whatever the scheduler does, its part in the queues is one step of       *)
(* StoreQueue or none.                                                      *)
LEMMA StepOfQueue ==
  ASSUME StoreIInv, [StoreNext]_storeVars
  PROVE  [Next]_queueVars
<1>0. ingressOrdinal \in Nat /\ turn \in TurnRecord /\ turn.cutoff <= ingressOrdinal
      /\ callers \in [Callers -> CallerRecord]
      /\ \A c \in Callers : callers[c].cutoff <= ingressOrdinal
  BY DEF StoreIInv, IInv, TypeOK, StoreTypeOK, LoopTypes, CallerTypes, Bookkeeping
<1>1. ASSUME NEW e \in Events, StorePublish(e) PROVE [Next]_queueVars
  BY <1>1 DEF StorePublish, Publish, Next, schedVars
<1>2. ASSUME NEW reason \in {"cancel", "abort"}, Stop(reason) PROVE Next
  BY <1>2 DEF Stop, Next, RunStep
<1>3. ASSUME PopNext \/ PopDrain \/ PopFlush PROVE [Next]_queueVars
  <2>1. Queued \in Eligibles
    BY DEF Eligibles
  <2>2. UpTo(turn.cutoff) \in Eligibles
    BY <1>0 DEF Eligibles, TurnRecord
  <2>3. ASSUME flushing # NoCaller PROVE Prefix(Cutoff) \in Eligibles
    <3>1. flushing \in Callers
      BY <2>3 DEF StoreIInv, StoreTypeOK, LoopTypes
    <3>2. Cutoff \in 0..ingressOrdinal
      BY <1>0, <3>1 DEF Cutoff, CallerRecord
    <3> QED BY <3>2 DEF Eligibles
  <2>4. ASSUME NEW here, NEW eligible \in Eligibles, NEW heldUp, NEW otherwise,
               PopFor(here, eligible, heldUp, otherwise)
        PROVE  [Next]_queueVars
    BY <2>4 DEF PopFor, Step, Next, RunStep
  <2> QED BY <1>3, <2>1, <2>2, <2>3, <2>4 DEF PopNext, PopDrain, PopFlush
<1>4. ASSUME ApplyAny PROVE Next
  BY <1>4, SchedulerAssumption DEF ApplyAny, Apply, Next, RunStep
<1>5. ASSUME Start \/ Finish \/ ApplyCancel \/ ApplyWithoutClock \/ BeginStop
             \/ PublishFinalFails \/ EndStop
      PROVE  Next
  BY <1>5 DEF Start, Finish, ApplyCancel, ApplyWithoutClock, BeginStop, PublishFinalFails,
              EndStop, Next, RunStep
<1>6. ASSUME NEW gaps \in GapLedgers, NEW changed \in BOOLEAN,
             PublishWithDiagnostics(gaps, changed) \/ PublishFinal(gaps, changed)
      PROVE  Next
  BY <1>6 DEF PublishWithDiagnostics, PublishFinal, Next, RunStep
<1>7. ASSUME TopCanceled \/ SelectCanceled \/ TimerWithoutClock \/ AdvanceFails \/ PublishFails
      PROVE  Next
  BY <1>2, <1>7 DEF TopCanceled, SelectCanceled, TimerWithoutClock, AdvanceFails, PublishFails
<1>8. ASSUME \/ PopFlushRequest \/ NoFlushRequest \/ TakeFiredTimer \/ ArmScheduler
             \/ HandleTimer \/ Rearm \/ CheckFlush \/ Ready \/ AdvanceHeldUp \/ AdvanceAny
             \/ MoveCursor \/ PublishHeldUp \/ PublishCommit \/ PublishRefused
             \/ CheckPrefix \/ FlushPublish \/ Reply \/ Wake \/ Woken
      PROVE  UNCHANGED queueVars
  BY <1>8 DEF PopFlushRequest, NoFlushRequest, TakeFiredTimer, ArmScheduler, HandleTimer, Rearm,
              CheckFlush, Ready, AdvanceHeldUp, AdvanceAny, Advance, MoveCursor, PublishHeldUp,
              PublishCommit, PublishRefused, CheckPrefix, FlushPublish, Reply, Wake, Woken, Step
<1>9. ASSUME Fire \/ Tick \/ Cancel PROVE UNCHANGED queueVars
  BY <1>9 DEF Fire, Tick, Cancel
<1>10. ASSUME NEW c \in Callers, FlushCall(c) \/ FlushGivesUp(c) \/ FlushReturns(c)
       PROVE  UNCHANGED queueVars
  BY <1>10 DEF FlushCall, FlushGivesUp, FlushReturns, callOnlyVars
<1>11. ASSUME NEW p \in Pinners, PinCall(p) \/ PinProceeds(p) PROVE UNCHANGED queueVars
  BY <1>11 DEF PinCall, PinProceeds, PinFence, PinNothing, PinChanges, pinOnlyVars
<1>12. ASSUME Run PROVE [Next]_queueVars
  BY <1>3, <1>4, <1>5, <1>6, <1>7, <1>8, <1>12 DEF Run
<1>13. CASE UNCHANGED storeVars
  BY <1>13 DEF storeVars
<1> QED BY <1>1, <1>9, <1>10, <1>11, <1>12, <1>13 DEF StoreNext

(* What Publish leaves of the queues for the scheduler to see.              *)
LEMMA PublishEffect ==
  ASSUME IInv, NEW e \in Events, Publish(e)
  PROVE  /\ UNCHANGED <<runVars, applyVars>>
         /\ ingressOrdinal' \in Nat /\ ingressOrdinal <= ingressOrdinal'
         /\ \A i \in Queued' : \/ i.sequence > ingressOrdinal
                               \/ \E j \in Queued : j.sequence = i.sequence
         /\ PublishAccept(e) \/ PublishCoalesce(e) \/ ingressOrdinal' = ingressOrdinal
<1>0. ingressOrdinal \in Nat
  BY DEF IInv, TypeOK
<1>1. CASE PublishReject(e) \/ PublishDuplicate(e) \/ PublishCollision(e)
           \/ PublishDropReplacement(e)
  BY <1>0, <1>1 DEF PublishReject, PublishDuplicate, PublishCollision, PublishDropReplacement,
                    Queued
<1>2. CASE PublishCoalesce(e)
  <2> DEFINE old == LaneOwner(e)
             new == [old EXCEPT !.ev = e, !.token = EventToken(e, TRUE),
                                !.sequence = ingressOrdinal + 1]
  <2>1. old \in Item
    BY <1>2, LaneOwnerFound DEF PublishCoalesce, Replaces, IInv, TypeOK
  <2>2. new.sequence = ingressOrdinal + 1
    BY <2>1 DEF Item
  <2>3. /\ normal' = (normal \ {old}) \cup {new} /\ critical' = critical
        /\ ingressOrdinal' = ingressOrdinal + 1 /\ UNCHANGED <<runVars, applyVars>>
    BY <1>2 DEF PublishCoalesce
  <2> HIDE DEF old, new
  <2>4. \A i \in Queued' : i = new \/ i \in Queued
    BY <2>3 DEF Queued
  <2> QED BY <1>0, <1>2, <2>2, <2>3, <2>4
<1>3. ASSUME NEW i \in ClosedLaneQueue(e) PROVE \E j \in Queued : j.sequence = i.sequence
  BY <1>3, LaneCloses DEF Queued
<1>4. CASE PublishAccept(e)
  <2> DEFINE item == [id |-> ingressOrdinal + 1, sequence |-> ingressOrdinal + 1, ev |-> e,
                      token |-> EventToken(e, Coalescible(e)),
                      coalescible |-> Coalescible(e)]
  <2>1. item.sequence = ingressOrdinal + 1
    OBVIOUS
  <2>2. /\ normal' = ClosedLaneQueue(e) \cup (IF e.critical THEN {} ELSE {item})
        /\ critical' = critical \cup (IF e.critical THEN {item} ELSE {})
        /\ ingressOrdinal' = ingressOrdinal + 1 /\ UNCHANGED <<runVars, applyVars>>
    BY <1>4 DEF PublishAccept
  <2> HIDE DEF item
  <2>3. \A i \in Queued' : i = item \/ i \in ClosedLaneQueue(e) \/ i \in Queued
    BY <2>2 DEF Queued
  <2> QED BY <1>0, <1>3, <1>4, <2>1, <2>2, <2>3
<1>5. CASE PublishDrop(e)
  BY <1>0, <1>3, <1>5 DEF PublishDrop, Queued
<1> QED BY <1>1, <1>2, <1>4, <1>5 DEF Publish

(* And what Run does to them.                                               *)
LEMMA RunEffect ==
  ASSUME IInv, RunStep
  PROVE  ingressOrdinal' = ingressOrdinal /\ Queued' \subseteq Queued
<1>1. ASSUME NEW eligible \in Eligibles, Pop(eligible)
      PROVE  ingressOrdinal' = ingressOrdinal /\ Queued' \subseteq Queued
  BY <1>1 DEF Pop, Queued
<1>2. ASSUME NEW result \in Results, NEW gaps \in GapLedgers, ApplyBegin(result, gaps)
      PROVE  UNCHANGED <<ingressOrdinal, normal, critical>>
  BY <1>2 DEF ApplyBegin
<1>3. ASSUME NEW reason, Halt(reason) PROVE UNCHANGED <<ingressOrdinal, normal, critical>>
  BY <1>3 DEF Halt
<1>4. ASSUME NEW gaps \in GapLedgers, PublishDiagnostics(gaps) \/ StopPublish(gaps)
      PROVE  UNCHANGED <<ingressOrdinal, normal, critical>>
  BY <1>4 DEF PublishDiagnostics, StopPublish
<1>5. ASSUME RunStart \/ ApplyFinish \/ ApplyCanceled \/ ApplyNoClock \/ StopBegin
             \/ StopPublishFails
      PROVE  UNCHANGED <<ingressOrdinal, normal, critical>>
  BY <1>5 DEF RunStart, ApplyFinish, ApplyCanceled, ApplyNoClock, StopBegin, StopPublishFails
<1>6. CASE StopEnd
  BY <1>6 DEF StopEnd, Queued
<1> QED BY <1>1, <1>2, <1>3, <1>4, <1>5, <1>6 DEF RunStep, Queued

(* A non-empty set of times has an earliest one.                            *)
LEMMA EarliestIsMember ==
  ASSUME NEW times, times \subseteq Nat, times # {}
  PROVE  Min(times) \in times /\ \A t \in times : Min(times) <= t
<1> DEFINE items == {[id |-> t] : t \in times}
           first == First(items)
<1>1. first \in items /\ \A i \in items : first.id <= i.id
  <2>1. items # {}
    OBVIOUS
  <2>2. ASSUME NEW i \in items PROVE i.id \in Nat
    <3>1. PICK t \in times : i = [id |-> t]
      OBVIOUS
    <3> QED BY <3>1
  <2> HIDE DEF items
  <2> QED BY <2>1, <2>2, FirstIsMember
<1>2. first.id \in times
  <2>1. PICK t \in times : first = [id |-> t]
    BY <1>1
  <2>2. [id |-> t].id = t
    OBVIOUS
  <2> HIDE DEF first
  <2> QED BY <2>1, <2>2
<1>3. ASSUME NEW t \in times PROVE first.id <= t
  <2>1. [id |-> t] \in items
    OBVIOUS
  <2>2. first.id <= [id |-> t].id
    <3> HIDE DEF items, first
    <3> QED BY <1>1, <2>1
  <2> QED BY <2>2
<1> HIDE DEF first
<1> QED BY <1>2, <1>3 DEF Min

(* Targets are times, and the Reconciler's among them lies after the cursor. *)
LEMMA TargetInTime ==
  ASSUME StoreTypeOK
  PROVE  /\ Target.batch \in Time /\ Target.semantic \in Time
         /\ Due(Target) # 0 => Due(Target) \in 1..Horizon
         /\ Target.semantic # 0 => Target.semantic > deadlineCursor
<1> DEFINE later == {d \in deadlines : d > deadlineCursor}
<1>0. /\ Horizon \in Nat \ {0} /\ BatchLatency \in Nat /\ Deadlines \subseteq 1..Horizon
      /\ deadlines \subseteq Deadlines /\ firstDirty \in 0..Horizon
      /\ deadlineCursor \in 0..Horizon
  BY SchedulerAssumption DEF StoreTypeOK, GenerationTypes, Time
<1>a. \A d \in deadlines : d \in Nat /\ 1 <= d /\ d <= Horizon
  BY <1>0
<1>1. NextDeadline(deadlineCursor) = IF later = {} THEN 0 ELSE Min(later)
  BY DEF NextDeadline
<1>2. later # {} => Min(later) \in later
  <2>1. later \subseteq Nat
    BY <1>a
  <2> HIDE DEF later
  <2> QED BY <2>1, EarliestIsMember
<1>3. Target.batch \in Time
  BY <1>0 DEF Target, BatchDue, Time
<1>4. Target.semantic \in Time /\ (Target.semantic # 0 => Target.semantic > deadlineCursor)
  <2>1. CASE later = {}
    BY <1>0, <1>1, <2>1 DEF Target, Time
  <2>2. CASE later # {}
    <3>1. Min(later) \in deadlines /\ Min(later) > deadlineCursor
      BY <1>2, <2>2
    <3>2. Target.semantic = Min(later)
      BY <1>1, <2>2 DEF Target
    <3> HIDE DEF later
    <3>3. /\ Target.semantic \in deadlines /\ Target.semantic > deadlineCursor
      BY <3>1, <3>2
    <3>4. Target.semantic \in Nat /\ Target.semantic <= Horizon
      BY <1>a, <3>3
    <3> QED BY <1>0, <3>3, <3>4 DEF Time
  <2> QED BY <2>1, <2>2
<1> QED BY <1>0, <1>3, <1>4 DEF Due, Time

(* No timer, no turn.                                                       *)
LEMMA NothingTyped ==
  /\ NoTurn \in TurnRecord /\ NoTurn.cutoff = 0
  /\ NoTimer \in TimerRecord /\ NoTimer.cutoff = 0 /\ NoTimer.state = "none"
BY SchedulerAssumption DEF NoTurn, TurnRecord, NoTimer, TimerRecord, Time

(* A fresh Store is idle, with nothing scheduled.                           *)
LEMMA InitStoreIInv == StoreInit => StoreIInv
<1> SUFFICES ASSUME StoreInit PROVE StoreIInv
  OBVIOUS
<1> USE SchedulerAssumption DEF StoreInit
<1>1. IInv
  BY InitIInv
<1>2. lifecycle = "open" /\ applyStep = "idle" /\ ingressOrdinal = 0
  BY DEF Init
<1>3. LoopTypes
  <2>1. pc \in Labels /\ ~Turning /\ flushResult \in Results \cup {"canceled"}
    BY DEF Labels, Turning, Results
  <2>2. appliedAt \in Time /\ refused \subseteq Nat /\ turn.cutoff <= ingressOrdinal
    BY <1>2, NothingTyped DEF Time
  <2> QED BY <1>2, <2>1, <2>2, NothingTyped DEF LoopTypes
<1>4. TimerTypes
  <2>1. 1 \in Time /\ timer.state = "none" /\ timer.cutoff <= ingressOrdinal
    BY <1>2, NothingTyped DEF Time
  <2> QED BY <2>1, NothingTyped DEF TimerTypes
<1>5. GenerationTypes
  <2>1. 0 \in Time
    BY DEF Time
  <2> QED BY <2>1 DEF GenerationTypes
<1>6. CallerTypes
  BY DEF CallerTypes, CallerRecord, PinnerRecord, Results, Time, FlushPending
<1>7. Bookkeeping
  BY <1>2 DEF Bookkeeping, Draining, FlushPending
<1> QED BY <1>1, <1>3, <1>4, <1>5, <1>6, <1>7 DEF StoreIInv, StoreTypeOK

-----------------------------------------------------------------------------
(* The types, step by step.                                                 *)

(* A Publish call keeps them: items only get ordinals beyond every cutoff.  *)
LEMMA PublishTypes ==
  ASSUME StoreIInv, NEW e \in Events, StorePublish(e)
  PROVE  StoreTypeOK' /\ Bookkeeping'
<1> USE SchedulerAssumption DEF StoreIInv
<1>1. /\ UNCHANGED <<runVars, applyVars>>
      /\ ingressOrdinal' \in Nat /\ ingressOrdinal \in Nat /\ ingressOrdinal <= ingressOrdinal'
  <2>1. Publish(e)
    BY DEF StorePublish, Publish
  <2> QED BY <2>1, PublishEffect DEF IInv, TypeOK
<1>2. /\ UNCHANGED <<loopVars, errorVars, timer, schedulerPrimed, firstDirty, genVars, dueVars,
                     callVars, envVars>>
      /\ lastNow' = lastNow \/ lastNow' = clock
      /\ wake' = wake \/ wake' = TRUE
      /\ publicationBlock' = publicationBlock \/ publicationBlock' = FALSE
      /\ deadlineCursor' = deadlineCursor \/ deadlineCursor' = 0
      /\ cursorEpoch' = cursorEpoch \/ cursorEpoch' = cursorEpoch + 1
  BY DEF StorePublish, FreshIngress, schedVars, timeVars, dirtyVars, cursorVars
<1>3. turn \in TurnRecord /\ timer \in TimerRecord /\ callers \in [Callers -> CallerRecord]
  BY DEF StoreTypeOK, LoopTypes, TimerTypes, CallerTypes
<1>4. /\ timer.cutoff \in Nat /\ turn.cutoff \in Nat
      /\ \A c \in Callers : callers[c].cutoff \in Nat
  BY <1>3 DEF TurnRecord, TimerRecord, CallerRecord
<1>5. LoopTypes'
  BY <1>1, <1>2, <1>4 DEF StoreTypeOK, LoopTypes, applyVars, loopVars, errorVars, Turning, Due
<1>6. TimerTypes'
  <2>1. wake' \in BOOLEAN /\ lastNow' \in Time
    BY <1>2 DEF StoreTypeOK, TimerTypes
  <2> QED BY <1>1, <1>2, <1>4, <2>1 DEF StoreTypeOK, TimerTypes, envVars, Due
<1>7. GenerationTypes'
  <2>1. publicationBlock' \in BOOLEAN
    BY <1>2 DEF StoreTypeOK, GenerationTypes
  <2> QED BY <1>2, <2>1 DEF StoreTypeOK, GenerationTypes, genVars, dueVars, Time
<1>8. CallerTypes'
  BY <1>2 DEF StoreTypeOK, CallerTypes, callVars, FlushPending
<1>9. Bookkeeping'
  BY <1>1, <1>2, <1>4 DEF Bookkeeping, runVars, loopVars, envVars, callVars, FlushPending,
                         Draining, Due
<1> QED BY <1>5, <1>6, <1>7, <1>8, <1>9 DEF StoreTypeOK

(* A stop that begins in the loop keeps them: only pc and halt change.      *)
LEMMA HaltTypes ==
  ASSUME StoreIInv,
         TopCanceled \/ SelectCanceled \/ TimerWithoutClock \/ AdvanceFails \/ PublishFails
  PROVE  StoreTypeOK' /\ Bookkeeping'
<1>1. /\ pc \in {"top", "select", "timer", "advance", "publish"} /\ pc' = "stop"
      /\ lifecycle = "running" /\ lifecycle' = lifecycle /\ UNCHANGED applyVars
      /\ UNCHANGED <<ingressOrdinal, back, turn, booted, flushing, flushResult, appliedAt>>
      /\ UNCHANGED <<errorVars, wake, timeVars, dirtyVars, cursorVars, genVars, dueVars, callVars,
                     envVars>>
  BY DEF TopCanceled, SelectCanceled, TimerWithoutClock, AdvanceFails, PublishFails, Publishing,
         Stop, Halt, Goto
<1>2. LoopTypes'
  <2>1. /\ pc' \in Labels /\ ~Turning'
        /\ pc' \notin {"apply", "finish", "flush", "prefix", "flushPublish", "reply"}
        /\ pc \notin {"apply", "finish"}
    BY <1>1 DEF Labels, Turning
  <2>2. LoopTypes
    BY DEF StoreIInv, StoreTypeOK
  <2> QED BY <1>1, <2>1, <2>2 DEF LoopTypes, applyVars, errorVars
<1>3. TimerTypes'
  <2>1. TimerTypes
    BY DEF StoreIInv, StoreTypeOK
  <2> QED BY <1>1, <2>1 DEF TimerTypes, timeVars, envVars
<1>4. GenerationTypes'
  <2>1. GenerationTypes
    BY DEF StoreIInv, StoreTypeOK
  <2> QED BY <1>1, <2>1 DEF GenerationTypes, dirtyVars, cursorVars, genVars, dueVars
<1>5. CallerTypes'
  <2>1. CallerTypes
    BY DEF StoreIInv, StoreTypeOK
  <2> QED BY <1>1, <2>1 DEF CallerTypes, FlushPending, callVars
<1>6. Bookkeeping'
  <2>1. Bookkeeping
    BY DEF StoreIInv
  <2> QED BY <1>1, <2>1 DEF Bookkeeping, Draining, FlushPending, callVars, envVars
<1> QED BY <1>2, <1>3, <1>4, <1>5, <1>6 DEF StoreTypeOK

(* The head of the loop, the dequeue and the apply.                         *)
LEMMA LoopStepTypes ==
  ASSUME StoreIInv,
         \/ Start \/ TopCanceled \/ SelectCanceled \/ PopFlushRequest \/ NoFlushRequest
         \/ TakeFiredTimer \/ PopNext \/ PopDrain \/ PopFlush
         \/ Finish \/ ApplyCancel \/ ApplyWithoutClock
  PROVE  StoreTypeOK' /\ Bookkeeping'
<1> USE SchedulerAssumption
    DEF StoreIInv, StoreTypeOK, LoopTypes, TimerTypes, GenerationTypes, CallerTypes, Bookkeeping,
        Draining, Due, FlushPending, Turning, Labels, Time, loopVars, errorVars, timeVars, dirtyVars,
        cursorVars, genVars, dueVars, callVars, envVars, queueVars, runVars, applyVars
<1>1. CASE Start
  BY <1>1 DEF Start, RunStart, Goto
<1>2. CASE TopCanceled \/ SelectCanceled
  BY <1>2, HaltTypes
<1>3. CASE PopFlushRequest
  BY <1>3 DEF PopFlushRequest, Results
<1>4. CASE NoFlushRequest
  <2>1. LoopTypes'
    BY <1>4 DEF NoFlushRequest, Step, Goto
  <2>2. TimerTypes' /\ GenerationTypes'
    BY <1>4 DEF NoFlushRequest, Step, Goto
  <2>3. CallerTypes' /\ Bookkeeping'
    BY <1>4 DEF NoFlushRequest, Step, Goto
  <2> QED BY <2>1, <2>2, <2>3
<1>5. CASE TakeFiredTimer
  <2>1. LoopTypes'
    BY <1>5 DEF TakeFiredTimer, NoTimer, TurnRecord, TimerRecord
  <2>2. TimerTypes'
    <3>1. timer' = timer \/ timer' = NoTimer
      BY <1>5 DEF TakeFiredTimer
    <3>2. UNCHANGED <<wake, lastNow, schedulerPrimed, clock, ctxDone, ingressOrdinal>>
      BY <1>5 DEF TakeFiredTimer
    <3>3. ingressOrdinal \in Nat
      BY DEF IInv, TypeOK
    <3> QED BY <3>1, <3>2, <3>3, NothingTyped
  <2>3. GenerationTypes' /\ CallerTypes'
    BY <1>5 DEF TakeFiredTimer, NoTimer, TurnRecord, TimerRecord
  <2>4. Bookkeeping'
    BY <1>5 DEF TakeFiredTimer, NoTimer, TurnRecord, TimerRecord
  <2> QED BY <2>1, <2>2, <2>3, <2>4
<1>6. CASE PopNext
  BY <1>6 DEF PopNext, PopFor, Pop, Step, Goto
<1>7. CASE PopDrain
  BY <1>7 DEF PopDrain, PopFor, Pop, Step, Goto
<1>8. CASE PopFlush
  BY <1>8 DEF PopFlush, PopFor, Pop, Step, Goto
<1>9. CASE Finish
  <2>1. (CHOOSE i \in inflight : TRUE).id \in Nat
    <3>1. PICK i \in inflight : inflight = {i}
      BY <1>9 DEF Finish, ApplyFinish, IInv, TypeOK
    <3>2. i.id \in Nat
      BY DEF IInv, TypeOK, Item
    <3> QED BY <3>1, <3>2
  <2>2. refused' \subseteq Nat /\ prefixErrorAt' \in Nat
    <3> DEFINE id == (CHOOSE i \in inflight : TRUE).id
    <3>1. /\ refused' = refused \/ refused' = refused \cup {id}
          /\ prefixErrorAt' = prefixErrorAt \/ prefixErrorAt' = id
      BY <1>9 DEF Finish
    <3> HIDE DEF id
    <3> QED BY <2>1, <3>1 DEF id
  <2>3. applyResult \in Results
    BY DEF IInv, TypeOK
  <2>4. LoopTypes'
    BY <1>9, <2>2, <2>3 DEF Finish, ApplyFinish, FinishItem, AfterApply, Results
  <2>5. TimerTypes' /\ GenerationTypes'
    BY <1>9 DEF Finish, ApplyFinish
  <2>6. CallerTypes' /\ Bookkeeping'
    BY <1>9 DEF Finish, ApplyFinish, AfterApply
  <2> QED BY <2>4, <2>5, <2>6
<1>10. CASE ApplyCancel
  BY <1>10 DEF ApplyCancel, ApplyCanceled, Results
<1>11. CASE ApplyWithoutClock
  BY <1>11 DEF ApplyWithoutClock, ApplyNoClock, FinishItem, Results
<1> HIDE SchedulerAssumption
    DEF StoreIInv, StoreTypeOK, LoopTypes, TimerTypes, GenerationTypes, CallerTypes, Bookkeeping,
        Draining, Due, FlushPending, Turning, Labels, Time, loopVars, errorVars, timeVars, dirtyVars,
        cursorVars, genVars, dueVars, callVars, envVars, queueVars, runVars, applyVars
<1> QED BY <1>1, <1>2, <1>3, <1>4, <1>5, <1>6, <1>7, <1>8, <1>9, <1>10, <1>11

(* The Reconciler's answers: what it schedules, and what it commits.        *)
LEMMA ReconcilerStepTypes ==
  ASSUME StoreIInv, ApplyAny \/ AdvanceAny
  PROVE  StoreTypeOK' /\ Bookkeeping'
<1> USE SchedulerAssumption
    DEF StoreIInv, StoreTypeOK, LoopTypes, TimerTypes, GenerationTypes, CallerTypes, Bookkeeping,
        Draining, Due, FlushPending, Turning, Labels, Time, loopVars, errorVars, timeVars, dirtyVars,
        cursorVars, genVars, dueVars, callVars, envVars, queueVars, runVars, applyVars
<1>1. CASE ApplyAny
  BY <1>1 DEF ApplyAny, Apply, ApplyBegin, Commit, Dirtied, Rescheduled
<1>2. ASSUME NEW result \in Outcomes, NEW changed \in BOOLEAN, NEW scheduled \in Scheduled(result),
             Advance(result, changed, scheduled)
      PROVE  StoreTypeOK' /\ Bookkeeping'
  <2>1. scheduled \subseteq Deadlines
    BY DEF Scheduled, Served
  <2>2. deadlines' \subseteq Deadlines /\ attempted' \subseteq Deadlines
    BY <1>2, <2>1 DEF Advance, Served
  <2>3. turn.readiness \in Time
    BY DEF TurnRecord
  <2>4. LoopTypes' /\ TimerTypes'
    BY <1>2 DEF Advance, Goto
  <2>5. GenerationTypes'
    BY <1>2, <2>2, <2>3 DEF Advance, Commit
  <2>6. CallerTypes' /\ Bookkeeping'
    BY <1>2 DEF Advance, Goto
  <2> QED BY <2>4, <2>5, <2>6
<1> QED BY <1>1, <1>2 DEF AdvanceAny

(* What arming leaves: nothing, a turn that starts now, or a live timer.    *)
LEMMA Arming ==
  ASSUME StoreIInv, ArmScheduler
  PROVE  /\ \/ UNCHANGED <<turn, timer>> /\ pc' \in {"top", "select"}
            \/ UNCHANGED turn /\ timer' = Armed(Target, deadlineCursor)
                /\ pc' \in {"top", "select"} /\ Due(Target) # 0
            \/ /\ timer' = NoTimer /\ pc' = "timer" /\ Due(Target) # 0
               /\ \E now \in Time :
                    turn' = [batch |-> Target.batch, semantic |-> Target.semantic,
                             after |-> deadlineCursor, cutoff |-> ingressOrdinal,
                             cursor |-> cursorEpoch, readiness |-> now]
         /\ lastNow' = lastNow \/ lastNow' = clock
         /\ schedulerPrimed' \in BOOLEAN
         /\ pc \in {"arm", "idleArm"}
         /\ UNCHANGED <<queueVars, back, booted, flushing, flushResult, appliedAt, errorVars, wake,
                        dirtyVars, cursorVars, genVars, dueVars, callVars, envVars>>
<1>1. clock \in Time /\ lastNow \in Time /\ schedulerPrimed \in BOOLEAN
  BY DEF StoreIInv, StoreTypeOK, TimerTypes
<1> QED BY <1>1 DEF ArmScheduler, Step, Goto, timeVars

(* Arming keeps the types.                                                  *)
LEMMA ArmSchedulerTypes ==
  ASSUME StoreIInv, ArmScheduler
  PROVE  StoreTypeOK' /\ Bookkeeping'
<1> USE DEF StoreIInv, StoreTypeOK
<1>0. ingressOrdinal \in Nat /\ cursorEpoch \in Nat /\ deadlineCursor \in Time
      /\ 0 \in Nat /\ ingressOrdinal <= ingressOrdinal /\ 0 <= ingressOrdinal
  BY DEF IInv, TypeOK, GenerationTypes
<1>1. /\ Target.batch \in Time /\ Target.semantic \in Time
      /\ Due(Target) # 0 => Due(Target) \in 1..Horizon
  BY TargetInTime
<1>2. /\ turn' \in TurnRecord /\ turn'.cutoff <= ingressOrdinal
      /\ pc' # "timer" => turn' = turn
      /\ pc' = "timer" => Due(turn)' \in 1..Horizon
  BY <1>0, <1>1, Arming DEF LoopTypes, TurnRecord, Due
<1>3. /\ timer' \in TimerRecord /\ timer'.cutoff <= ingressOrdinal
      /\ timer'.state # "none" => (Due(timer)' \in 1..Horizon)
  <2>1. CASE UNCHANGED timer
    BY <1>0, <2>1 DEF TimerTypes, Due
  <2>2. CASE timer' = NoTimer
    BY <1>0, <2>2, NothingTyped
  <2>3. CASE timer' = Armed(Target, deadlineCursor) /\ Due(Target) # 0
    BY <1>0, <1>1, <2>3 DEF Armed, TimerRecord, Due
  <2> QED BY <2>1, <2>2, <2>3, Arming
<1>4. LoopTypes'
  <2>1. /\ pc' \in {"top", "select", "timer"} /\ pc \in {"arm", "idleArm"}
        /\ UNCHANGED <<applyStep, ingressOrdinal, back, booted, flushing, flushResult, appliedAt,
                       prefixErrorAt, refused>>
    BY Arming DEF queueVars, applyVars, errorVars
  <2>2. pc' \in Labels
    BY <2>1 DEF Labels
  <2>3. /\ (pc' = "apply") = (applyStep' = "popped") /\ (pc' = "finish") = (applyStep' = "applied")
        /\ pc' \notin {"flush", "prefix", "flushPublish", "reply"}
    BY <2>1 DEF LoopTypes
  <2>4. Turning' => Due(turn)' \in 1..Horizon
    BY <1>2, <2>1 DEF Turning
  <2> QED BY <1>2, <2>1, <2>2, <2>3, <2>4 DEF LoopTypes
<1>5. TimerTypes'
  BY <1>3, Arming DEF TimerTypes, queueVars, envVars
<1>6. GenerationTypes' /\ CallerTypes'
  BY Arming DEF GenerationTypes, CallerTypes, dirtyVars, cursorVars, genVars, dueVars, callVars,
                FlushPending
<1>7. Bookkeeping'
  BY Arming DEF Bookkeeping, Draining, FlushPending, queueVars, runVars, callVars, envVars
<1> QED BY <1>4, <1>5, <1>6, <1>7

(* The timer and the turn it starts.                                        *)
LEMMA TimerStepTypes ==
  ASSUME StoreIInv,
         \/ ArmScheduler \/ Fire \/ HandleTimer \/ TimerWithoutClock \/ Rearm \/ CheckFlush
         \/ Ready \/ AdvanceHeldUp \/ AdvanceFails \/ MoveCursor \/ Wake \/ Woken
  PROVE  StoreTypeOK' /\ Bookkeeping'
<1> USE SchedulerAssumption
    DEF StoreIInv, StoreTypeOK, LoopTypes, TimerTypes, GenerationTypes, CallerTypes, Bookkeeping,
        Draining, Due, FlushPending, Turning, Labels, Time, loopVars, errorVars, timeVars, dirtyVars,
        cursorVars, genVars, dueVars, callVars, envVars, queueVars, runVars, applyVars
<1>0. ingressOrdinal \in Nat
  BY DEF IInv, TypeOK
<1>1. CASE ArmScheduler
  BY <1>1, ArmSchedulerTypes
<1>2. CASE Fire
  <2>1. /\ timer' \in TimerRecord /\ timer'.cutoff = ingressOrdinal
        /\ Due(timer)' = Due(timer) /\ timer.state = "armed"
    BY <1>0, <1>2 DEF Fire, TimerRecord
  <2> HIDE DEF Due
  <2> QED BY <1>0, <1>2, <2>1 DEF Fire
<1>3. CASE HandleTimer
  BY <1>3 DEF HandleTimer, TurnRecord
<1>4. CASE TimerWithoutClock \/ AdvanceFails
  BY <1>4, HaltTypes
<1>5. CASE Rearm
  BY <1>0, <1>5 DEF Rearm, Leave, Armed, NoTurn, TurnRecord, TimerRecord
<1>6. CASE CheckFlush
  BY <1>0, <1>6 DEF CheckFlush, Leave, NoTurn, TurnRecord
<1>7. CASE Ready
  BY <1>7 DEF Ready, Step, Goto
<1>8. CASE AdvanceHeldUp
  BY <1>8 DEF AdvanceHeldUp, Step, Goto
<1>9. CASE MoveCursor
  <2>1. deadlineCursor' \in Time
    BY <1>9 DEF MoveCursor, CursorAfter, TurnRecord
  <2> QED BY <1>9, <2>1 DEF MoveCursor, Goto
<1>10. CASE Wake
  <2>1. LoopTypes'
    BY <1>10 DEF Wake, Goto
  <2>2. TimerTypes' /\ GenerationTypes'
    BY <1>10 DEF Wake
  <2>3. CallerTypes' /\ Bookkeeping'
    BY <1>10 DEF Wake, Goto
  <2> QED BY <2>1, <2>2, <2>3
<1>11. CASE Woken
  <2>1. LoopTypes'
    BY <1>11 DEF Woken, Goto, NoTimer, TimerRecord
  <2>2. TimerTypes'
    <3>1. timer' = timer \/ timer' = NoTimer
      BY <1>11 DEF Woken
    <3>2. UNCHANGED <<wake, lastNow, schedulerPrimed, clock, ctxDone, ingressOrdinal>>
      BY <1>11 DEF Woken
    <3> QED BY <1>0, <3>1, <3>2, NothingTyped
  <2>3. GenerationTypes' /\ CallerTypes'
    BY <1>11 DEF Woken, Goto, NoTimer, TimerRecord
  <2>4. Bookkeeping'
    BY <1>11 DEF Woken, Goto, NoTimer, TimerRecord
  <2> QED BY <2>1, <2>2, <2>3, <2>4
<1> HIDE SchedulerAssumption
    DEF StoreIInv, StoreTypeOK, LoopTypes, TimerTypes, GenerationTypes, CallerTypes, Bookkeeping,
        Draining, Due, FlushPending, Turning, Labels, Time, loopVars, errorVars, timeVars, dirtyVars,
        cursorVars, genVars, dueVars, callVars, envVars, queueVars, runVars, applyVars
<1> QED BY <1>1, <1>2, <1>3, <1>4, <1>5, <1>6, <1>7, <1>8, <1>9, <1>10, <1>11

(* Exposing a generation keeps the types.                                   *)
LEMMA ExposeTyped ==
  ASSUME NEW generation \in Nat, Expose(generation)
  PROVE  /\ published' \in Nat /\ pendingGeneration' \in Nat
         /\ firstDirty' \in Time /\ publicationBlock' \in BOOLEAN
<1>1. 0 \in Time
  BY SchedulerAssumption DEF Time
<1> QED BY <1>1 DEF Expose

(* Publication, the flush and the stop.                                     *)
LEMMA PublicationStepTypes ==
  ASSUME StoreIInv,
         \/ PublishHeldUp \/ PublishCommit \/ PublishRefused \/ PublishFails
         \/ CheckPrefix \/ FlushPublish \/ Reply \/ BeginStop \/ PublishFinalFails \/ EndStop
         \/ \E gaps \in GapLedgers, changed \in BOOLEAN :
              PublishWithDiagnostics(gaps, changed) \/ PublishFinal(gaps, changed)
  PROVE  StoreTypeOK' /\ Bookkeeping'
<1> USE SchedulerAssumption
    DEF StoreIInv, StoreTypeOK, LoopTypes, TimerTypes, GenerationTypes, CallerTypes, Bookkeeping,
        Draining, Due, FlushPending, Turning, Labels, Time, loopVars, errorVars, timeVars, dirtyVars,
        cursorVars, genVars, dueVars, callVars, envVars, queueVars, runVars, applyVars
<1>0. ingressOrdinal \in Nat /\ 0 <= ingressOrdinal
  BY DEF IInv, TypeOK
<1>1. CASE PublishHeldUp
  BY <1>0, <1>1, NothingTyped DEF PublishHeldUp, Leave
<1>2. CASE PublishCommit
  <2>1. LoopTypes' /\ TimerTypes'
    BY <1>0, <1>2, NothingTyped DEF PublishCommit, Expose, Leave, Publishing
  <2>2. GenerationTypes'
    BY <1>2, ExposeTyped DEF PublishCommit
  <2>3. CallerTypes' /\ Bookkeeping'
    BY <1>0, <1>2, NothingTyped DEF PublishCommit, Expose, Leave, Publishing
  <2> QED BY <2>1, <2>2, <2>3
<1>3. CASE PublishRefused
  BY <1>0, <1>3, NothingTyped DEF PublishRefused, Leave, Publishing
<1>4. CASE PublishFails
  BY <1>4, HaltTypes
<1>5. CASE CheckPrefix
  BY <1>5 DEF CheckPrefix, Results
<1>6. CASE FlushPublish
  <2>1. LoopTypes' /\ TimerTypes'
    BY <1>6 DEF FlushPublish, Expose, Goto
  <2>2. GenerationTypes'
    BY <1>6, ExposeTyped DEF FlushPublish
  <2>3. CallerTypes' /\ Bookkeeping'
    BY <1>6 DEF FlushPublish, Expose, Goto
  <2> QED BY <2>1, <2>2, <2>3
<1>7. CASE Reply
  BY <1>7 DEF Reply, CallerRecord, Results
<1>8. CASE BeginStop
  BY <1>0, <1>8, NothingTyped DEF BeginStop, StopBegin, Goto
<1>9. CASE PublishFinalFails
  BY <1>9 DEF PublishFinalFails, StopPublishFails
<1>10. CASE EndStop
  <2>1. LoopTypes' /\ TimerTypes'
    BY <1>10 DEF EndStop, StopEnd, Goto
  <2>2. GenerationTypes'
    <3>1. 0 \in Time
      OBVIOUS
    <3>2. publicationBlock' \in BOOLEAN
      BY <1>10 DEF EndStop
    <3> QED BY <1>10, <3>1, <3>2 DEF EndStop
  <2>3. CallerTypes' /\ Bookkeeping'
    BY <1>10 DEF EndStop, StopEnd, Goto
  <2> QED BY <2>1, <2>2, <2>3
<1>11. ASSUME NEW gaps \in GapLedgers, NEW changed \in BOOLEAN, PublishWithDiagnostics(gaps, changed)
       PROVE  StoreTypeOK' /\ Bookkeeping'
  <2>1. LoopTypes' /\ TimerTypes'
    BY <1>0, <1>11, NothingTyped DEF PublishWithDiagnostics, PublishDiagnostics, HandOver, Publishing,
                                     Expose, Leave
  <2>2. GenerationTypes'
    <3>1. current' \in Nat /\ Expose(current')
      BY <1>11 DEF PublishWithDiagnostics
    <3> QED BY <1>11, <3>1, ExposeTyped DEF PublishWithDiagnostics
  <2>3. CallerTypes' /\ Bookkeeping'
    BY <1>0, <1>11, NothingTyped DEF PublishWithDiagnostics, PublishDiagnostics, HandOver, Publishing,
                                     Expose, Leave
  <2> QED BY <2>1, <2>2, <2>3
<1>12. ASSUME NEW gaps \in GapLedgers, NEW changed \in BOOLEAN, PublishFinal(gaps, changed)
       PROVE  StoreTypeOK' /\ Bookkeeping'
  <2>1. LoopTypes' /\ TimerTypes'
    BY <1>12 DEF PublishFinal, StopPublish, HandOver, Expose
  <2>2. GenerationTypes'
    <3>1. CASE DiagnosticsPending
      <4>1. current' \in Nat /\ Expose(current')
        BY <1>12, <3>1 DEF PublishFinal
      <4> QED BY <1>12, <4>1, ExposeTyped DEF PublishFinal
    <3>2. CASE ~DiagnosticsPending
      BY <1>12, <3>2, ExposeTyped DEF PublishFinal
    <3> QED BY <3>1, <3>2
  <2>3. CallerTypes' /\ Bookkeeping'
    BY <1>12 DEF PublishFinal, StopPublish, HandOver, Expose
  <2> QED BY <2>1, <2>2, <2>3
<1> HIDE SchedulerAssumption
    DEF StoreIInv, StoreTypeOK, LoopTypes, TimerTypes, GenerationTypes, CallerTypes, Bookkeeping,
        Draining, Due, FlushPending, Turning, Labels, Time, loopVars, errorVars, timeVars, dirtyVars,
        cursorVars, genVars, dueVars, callVars, envVars, queueVars, runVars, applyVars
<1> QED BY <1>1, <1>2, <1>3, <1>4, <1>5, <1>6, <1>7, <1>8, <1>9, <1>10, <1>11, <1>12

(* A pin caller only writes its own record, with a well-formed one.         *)
LEMMA PinnerMoves ==
  ASSUME StoreIInv, NEW p \in Pinners, PinCall(p) \/ PinProceeds(p)
  PROVE  \E record \in PinnerRecord : pinners' = [pinners EXCEPT ![p] = record]
<1>1. pinners[p] \in PinnerRecord /\ clock \in Time /\ 0 \in Time
  BY SchedulerAssumption DEF StoreIInv, StoreTypeOK, CallerTypes, TimerTypes, Time
<1>2. CASE PinCall(p)
  <2>1. Fenced # {} => (CHOOSE i \in Fenced : TRUE).id \in Nat
    BY DEF Fenced, StoreIInv, IInv, TypeOK, Item
  <2>2. /\ [pc |-> "returned", fence |-> 0, now |-> 0] \in PinnerRecord
        /\ [pc |-> "locking", fence |-> 0, now |-> clock] \in PinnerRecord
        /\ Fenced # {} => [pc |-> "fenced", fence |-> (CHOOSE i \in Fenced : TRUE).id, now |-> clock]
                            \in PinnerRecord
    BY <1>1, <2>1 DEF PinnerRecord
  <2> QED BY <1>2, <2>2 DEF PinCall
<1>3. CASE PinProceeds(p)
  <2>1. /\ [pinners[p] EXCEPT !.pc = "locking", !.fence = 0] \in PinnerRecord
        /\ [pinners[p] EXCEPT !.pc = "returned", !.now = 0] \in PinnerRecord
    BY <1>1 DEF PinnerRecord
  <2>2. \/ pinners' = [pinners EXCEPT ![p] = [pinners[p] EXCEPT !.pc = "locking", !.fence = 0]]
        \/ pinners' = [pinners EXCEPT ![p] = [pinners[p] EXCEPT !.pc = "returned", !.now = 0]]
    BY <1>3 DEF PinProceeds, PinFence, PinNothing, PinChanges, PinLocks
  <2> QED BY <2>1, <2>2
<1> QED BY <1>2, <1>3

(* Flush and pin callers, the timer's watcher and the environment.          *)
LEMMA CallerStepTypes ==
  ASSUME StoreIInv,
         \/ Tick \/ Cancel
         \/ \E c \in Callers : FlushCall(c) \/ FlushGivesUp(c) \/ FlushReturns(c)
         \/ \E p \in Pinners : PinCall(p) \/ PinProceeds(p)
  PROVE  StoreTypeOK' /\ Bookkeeping'
<1> USE SchedulerAssumption
    DEF StoreIInv, StoreTypeOK, LoopTypes, TimerTypes, GenerationTypes, CallerTypes, Bookkeeping,
        Draining, Due, FlushPending, Turning, Labels, Time, loopVars, errorVars, timeVars, dirtyVars,
        cursorVars, genVars, dueVars, callVars, envVars, queueVars, runVars, applyVars
<1>0. ingressOrdinal \in Nat /\ 0 <= ingressOrdinal
  BY DEF IInv, TypeOK
<1>1. CASE Tick
  BY <1>1 DEF Tick
<1>2. CASE Cancel
  BY <1>2 DEF Cancel
<1>3. ASSUME NEW c \in Callers, FlushCall(c) \/ FlushGivesUp(c) \/ FlushReturns(c)
      PROVE  StoreTypeOK' /\ Bookkeeping'
  <2>1. callers' \in [Callers -> CallerRecord]
    <3>1. PICK record \in CallerRecord : callers' = [callers EXCEPT ![c] = record]
      <4>1. callers[c] \in CallerRecord
        OBVIOUS
      <4>2. /\ [callers[c] EXCEPT !.pc = "waiting", !.cutoff = ingressOrdinal] \in CallerRecord
            /\ [callers[c] EXCEPT !.pc = "returned", !.answer = "refused"] \in CallerRecord
            /\ [callers[c] EXCEPT !.pc = "returned", !.answer = "none"] \in CallerRecord
            /\ [callers[c] EXCEPT !.pc = "returned"] \in CallerRecord
        BY <1>0, <4>1 DEF CallerRecord
      <4>3. CASE FlushCall(c)
        <5>1. \/ callers' = [callers EXCEPT ![c] = [callers[c] EXCEPT !.pc = "waiting", !.cutoff = ingressOrdinal]]
              \/ callers' = [callers EXCEPT ![c] = [callers[c] EXCEPT !.pc = "returned", !.answer = "refused"]]
          BY <4>3 DEF FlushCall
        <5> QED BY <4>2, <5>1
      <4>4. CASE FlushGivesUp(c)
        BY <4>2, <4>4 DEF FlushGivesUp
      <4>5. CASE FlushReturns(c)
        <5>1. [callers[c] EXCEPT !.pc = "returned", !.answer = callers[c].answer] \in CallerRecord
          BY <4>1 DEF CallerRecord
        <5> QED BY <4>2, <4>5, <5>1 DEF FlushReturns
      <4> QED BY <1>3, <4>3, <4>4, <4>5
    <3> QED BY <3>1
  <2>2. UNCHANGED callOnlyVars /\ wake' \in BOOLEAN
    BY <1>3 DEF FlushCall, FlushGivesUp, FlushReturns
  <2>3. LoopTypes' /\ TimerTypes' /\ GenerationTypes'
    BY <2>2 DEF callOnlyVars
  <2>4. \A d \in Callers \ {c} : callers'[d] = callers[d]
    BY <1>3 DEF FlushCall, FlushGivesUp, FlushReturns
  <2>5. CASE callers'[c].pc = "returned" /\ callers'[c].cutoff = callers[c].cutoff
             /\ registered' \in {registered, NoCaller} \ {c}
    BY <2>1, <2>2, <2>4, <2>5 DEF callOnlyVars
  <2>6. CASE callers'[c].pc = "waiting" /\ callers'[c].cutoff = ingressOrdinal
             /\ callers'[c].answer = callers[c].answer /\ callers[c].pc = "idle"
             /\ registered' = c /\ Accepting
    BY <1>0, <2>1, <2>2, <2>4, <2>6 DEF callOnlyVars, Accepting
  <2>7. CASE FlushCall(c)
    <3>1. callers[c].pc = "idle" /\ callers[c] \in CallerRecord
      BY <2>7 DEF FlushCall
    <3>2. registered \in {registered, NoCaller} \ {c}
      BY <3>1
    <3> QED BY <2>5, <2>6, <2>7, <3>1, <3>2 DEF FlushCall, CallerRecord
  <2>8. CASE FlushGivesUp(c)
    <3>1. registered' \in {registered, NoCaller} \ {c}
      BY <2>8 DEF FlushGivesUp
    <3> QED BY <2>5, <2>8, <3>1 DEF FlushGivesUp, CallerRecord
  <2>9. CASE FlushReturns(c)
    <3>1. registered \in {registered, NoCaller} \ {c}
      BY <2>9 DEF FlushReturns
    <3>2. registered' = registered /\ callers'[c].pc = "returned"
          /\ callers'[c].cutoff = callers[c].cutoff
      BY <2>9 DEF FlushReturns, CallerRecord
    <3> QED BY <2>5, <3>1, <3>2
  <2> QED BY <1>3, <2>7, <2>8, <2>9
<1>4. ASSUME NEW p \in Pinners, PinCall(p) \/ PinProceeds(p)
      PROVE  StoreTypeOK' /\ Bookkeeping'
  <2>1. pinners[p] \in PinnerRecord /\ pinners[p].now \in Time
    BY DEF PinnerRecord
  <2>2. pinners' \in [Pinners -> PinnerRecord]
    <3>1. PICK record \in PinnerRecord : pinners' = [pinners EXCEPT ![p] = record]
      BY <1>4, PinnerMoves
    <3> QED BY <3>1
  <2>3. UNCHANGED pinOnlyVars
    BY <1>4 DEF PinCall, PinProceeds, PinFence, PinNothing, PinChanges
  <2>4. /\ timer' = timer \/ timer' = NoTimer
        /\ wake' \in BOOLEAN /\ lastNow' \in Time
    BY <1>4, <2>1 DEF PinCall, PinProceeds, PinFence, PinNothing, PinChanges, PinResetsTimer
  <2>5. LoopTypes' /\ CallerTypes'
    BY <2>2, <2>3 DEF pinOnlyVars
  <2>6. TimerTypes'
    BY <1>0, <2>3, <2>4, NothingTyped DEF pinOnlyVars
  <2>7. Bookkeeping'
    BY <2>3 DEF pinOnlyVars
  <2>8. GenerationTypes'
    <3>1. CASE UNCHANGED <<dirtyVars, cursorVars, genVars, dueVars>>
      BY <3>1
    <3>2. ASSUME NEW scheduled \in Rescheduled, PinChanges(p, scheduled) PROVE GenerationTypes'
      <4>1. scheduled \subseteq Deadlines
        BY DEF Rescheduled
      <4>2. publicationBlock' \in BOOLEAN
        BY <3>2 DEF PinChanges
      <4>3. 0 \in Time
        OBVIOUS
      <4>4. firstDirty' \in Time
        BY <2>1, <3>2, <4>3 DEF PinChanges
      <4> QED BY <3>2, <4>1, <4>2, <4>3, <4>4 DEF PinChanges
    <3> QED BY <1>4, <3>1, <3>2 DEF PinCall, PinProceeds, PinFence, PinNothing
  <2> QED BY <2>5, <2>6, <2>7, <2>8
<1> QED BY <1>1, <1>2, <1>3, <1>4

(* Every step keeps the types and what they rest on.                        *)
LEMMA StoreNextTypes ==
  ASSUME StoreIInv, [StoreNext]_storeVars
  PROVE  StoreIInv'
<1>1. IInv'
  BY StepOfQueue, NextIInv DEF StoreIInv
<1>2. CASE Run
  <2>1. CASE \/ Start \/ TopCanceled \/ SelectCanceled \/ PopFlushRequest \/ NoFlushRequest
             \/ TakeFiredTimer \/ PopNext \/ PopDrain \/ PopFlush
             \/ Finish \/ ApplyCancel \/ ApplyWithoutClock
    BY <1>1, <2>1, LoopStepTypes DEF StoreIInv
  <2>2. CASE ApplyAny \/ AdvanceAny
    BY <1>1, <2>2, ReconcilerStepTypes DEF StoreIInv
  <2>3. CASE \/ ArmScheduler \/ HandleTimer \/ TimerWithoutClock \/ Rearm \/ CheckFlush
             \/ Ready \/ AdvanceHeldUp \/ AdvanceFails \/ MoveCursor \/ Wake \/ Woken
    BY <1>1, <2>3, TimerStepTypes DEF StoreIInv
  <2>4. CASE \/ PublishHeldUp \/ PublishCommit \/ PublishRefused \/ PublishFails
             \/ CheckPrefix \/ FlushPublish \/ Reply \/ BeginStop \/ PublishFinalFails \/ EndStop
             \/ \E gaps \in GapLedgers, changed \in BOOLEAN :
                  PublishWithDiagnostics(gaps, changed) \/ PublishFinal(gaps, changed)
    BY <1>1, <2>4, PublicationStepTypes DEF StoreIInv
  <2> QED BY <1>2, <2>1, <2>2, <2>3, <2>4 DEF Run
<1>3. ASSUME NEW e \in Events, StorePublish(e) PROVE StoreIInv'
  BY <1>1, <1>3, PublishTypes DEF StoreIInv
<1>4. CASE Fire
  BY <1>1, <1>4, TimerStepTypes DEF StoreIInv
<1>5. CASE \/ Tick \/ Cancel
           \/ \E c \in Callers : FlushCall(c) \/ FlushGivesUp(c) \/ FlushReturns(c)
           \/ \E p \in Pinners : PinCall(p) \/ PinProceeds(p)
  BY <1>1, <1>5, CallerStepTypes DEF StoreIInv
<1>6. CASE UNCHANGED storeVars
  <2>1. StoreTypeOK' /\ Bookkeeping'
    BY <1>6 DEF storeVars, schedVars, queueVars, runVars, applyVars, loopVars, errorVars, timeVars,
                dirtyVars, cursorVars, genVars, dueVars, callVars, envVars,
                StoreIInv, StoreTypeOK, LoopTypes, TimerTypes, GenerationTypes, CallerTypes,
                Bookkeeping, Draining, Due, FlushPending, Turning
  <2> QED BY <1>1, <2>1 DEF StoreIInv
<1> QED BY <1>2, <1>3, <1>4, <1>5, <1>6 DEF StoreNext

-----------------------------------------------------------------------------
(* Theorems: types, and the queues the scheduler drives.                    *)

(* The inductive invariant of the Store holds throughout.                   *)
THEOREM StoreSpecIInv == StoreSpec => []StoreIInv
<1>1. StoreInit => StoreIInv
  BY InitStoreIInv
<1>2. StoreIInv /\ [StoreNext]_storeVars => StoreIInv'
  BY StoreNextTypes
<1> QED BY <1>1, <1>2, PTL DEF StoreSpec

(* Every variable of the scheduler keeps its type: Run is at an apply label *)
(* exactly while it owns an event, and a request stays registered until Run *)
(* takes it or its caller gives up.                                         *)
THEOREM StoreTypeCorrect == StoreSpec => []StoreTypeOK
<1>1. StoreIInv => StoreTypeOK
  BY DEF StoreIInv
<1> QED BY <1>1, StoreSpecIInv, PTL

(* The scheduler implements StoreQueue: whatever it dequeues, applies,      *)
(* publishes and disposes of, the queues see one of their own steps.        *)
THEOREM StoreRefinesQueue == StoreSpec => Spec
<1>1. StoreInit => Init
  BY DEF StoreInit
<1>2. StoreIInv /\ [StoreNext]_storeVars => [Next]_queueVars
  BY StepOfQueue
<1> QED BY <1>1, <1>2, StoreSpecIInv, PTL DEF StoreSpec, Spec

(* So no loss is silent in the running Store either: what StoreQueue proves *)
(* of its losses holds of every schedule of Run, flushes and pins.          *)
THEOREM StoreLogsLosses == StoreSpec => LossLogged
BY StoreRefinesQueue, LossAlwaysLogged

(* And its books balance under every schedule.                              *)
THEOREM StoreBooksBalance == StoreSpec => []QueueBooks
BY StoreRefinesQueue, BooksAlwaysBalance

-----------------------------------------------------------------------------
(* Generations.                                                             *)

Live == lifecycle \in {"open", "running"}

(* What a step may do to the generations of a live Store: nothing, with the *)
(* batch clock left running, show the newest one, or commit another.        *)
GenerationEffect ==
  \/ UNCHANGED genVars /\ (firstDirty # 0 => firstDirty' # 0) /\ (Live' => Live)
  \/ published' = current' /\ pendingGeneration' = 0
  \/ /\ current' = current + 1 /\ pendingGeneration' = current' /\ published' = published
     /\ firstDirty' # 0 /\ (Live' => Live)
  \/ ~Live'

(* No step does more.                                                       *)
LEMMA StepsOfGenerations ==
  ASSUME StoreIInv, GenerationsAgree, [StoreNext]_storeVars
  PROVE  GenerationEffect
<1> USE SchedulerAssumption DEF GenerationEffect
<1>0. /\ clock \in Nat /\ clock # 0 /\ current \in Nat
      /\ turn.readiness \in Nat /\ (pc = "advance" => turn.readiness # 0)
  BY DEF StoreIInv, StoreTypeOK, Bookkeeping, LoopTypes, TimerTypes, GenerationTypes, Time,
         TurnRecord
<1>1. ASSUME NEW e \in Events, StorePublish(e) PROVE GenerationEffect
  <2>1. Publish(e)
    BY <1>1 DEF StorePublish, Publish
  <2>2. lifecycle' = lifecycle
    BY <2>1, PublishEffect DEF StoreIInv, runVars
  <2>3. UNCHANGED <<genVars, firstDirty>>
    BY <1>1 DEF StorePublish, schedVars, dirtyVars
  <2> QED BY <2>2, <2>3 DEF Live
<1>2. ASSUME NEW reason \in {"cancel", "abort"}, Stop(reason) PROVE GenerationEffect
  BY <1>2 DEF Stop, Halt, dirtyVars, Live
<1>3. ASSUME TopCanceled \/ SelectCanceled \/ TimerWithoutClock \/ AdvanceFails \/ PublishFails
      PROVE  GenerationEffect
  BY <1>2, <1>3 DEF TopCanceled, SelectCanceled, TimerWithoutClock, AdvanceFails, PublishFails
<1>4. ASSUME PopNext \/ PopDrain \/ PopFlush PROVE GenerationEffect
  BY <1>4 DEF PopNext, PopDrain, PopFlush, PopFor, Pop, Step, Live, dirtyVars, queueVars, runVars
<1>5. CASE ApplyAny
  BY <1>0, <1>5 DEF ApplyAny, Apply, ApplyBegin, Commit, Dirtied, Live, genVars, runVars
<1>6. CASE AdvanceAny
  BY <1>0, <1>6 DEF AdvanceAny, Advance, Commit, Live, genVars, queueVars, runVars
<1>7. ASSUME NEW gaps \in GapLedgers, NEW changed \in BOOLEAN,
             PublishWithDiagnostics(gaps, changed) \/ PublishFinal(gaps, changed)
      PROVE  GenerationEffect
  BY <1>7 DEF PublishWithDiagnostics, PublishFinal, StopPublish, Expose, Live
<1>8. CASE Start \/ Finish \/ ApplyCancel \/ ApplyWithoutClock
  BY <1>8 DEF Start, RunStart, Finish, ApplyFinish, ApplyCancel, ApplyCanceled, ApplyWithoutClock,
              ApplyNoClock, Live, dirtyVars
<1>9. CASE BeginStop \/ PublishFinalFails \/ EndStop
  BY <1>9 DEF BeginStop, StopBegin, PublishFinalFails, StopPublishFails, EndStop, StopEnd, Live
<1>10. CASE PublishCommit \/ FlushPublish
  BY <1>10 DEF PublishCommit, FlushPublish, Publishing, Expose, GenerationsAgree, Live, queueVars,
               runVars, genVars, dirtyVars
<1>11. CASE \/ PopFlushRequest \/ NoFlushRequest \/ TakeFiredTimer \/ ArmScheduler
            \/ HandleTimer \/ Rearm \/ CheckFlush \/ Ready \/ AdvanceHeldUp
            \/ MoveCursor \/ PublishHeldUp \/ PublishRefused \/ CheckPrefix \/ Reply
            \/ Wake \/ Woken
  <2>1. UNCHANGED <<genVars, firstDirty, lifecycle>>
    BY <1>11 DEF PopFlushRequest, NoFlushRequest, TakeFiredTimer, ArmScheduler, HandleTimer, Rearm,
              CheckFlush, Ready, AdvanceHeldUp, MoveCursor, PublishHeldUp, PublishRefused,
              CheckPrefix, Reply, Wake, Woken, Step, queueVars, runVars, dirtyVars
  <2> QED BY <2>1 DEF Live
<1>12. CASE Fire \/ Tick \/ Cancel
  BY <1>12 DEF Fire, Tick, Cancel, queueVars, runVars, dirtyVars, Live
<1>13. ASSUME NEW c \in Callers, FlushCall(c) \/ FlushGivesUp(c) \/ FlushReturns(c)
       PROVE  GenerationEffect
  BY <1>13 DEF FlushCall, FlushGivesUp, FlushReturns, callOnlyVars, queueVars, runVars, dirtyVars,
               Live
<1>14. ASSUME NEW p \in Pinners, PinCall(p) \/ PinProceeds(p) PROVE GenerationEffect
  BY <1>14 DEF PinCall, PinProceeds, PinFence, PinNothing, PinChanges, pinOnlyVars, queueVars,
               runVars, dirtyVars, Live
<1>15. CASE UNCHANGED storeVars
  BY <1>15 DEF storeVars, schedVars, queueVars, runVars, dirtyVars, Live
<1>16. CASE Run
  BY <1>3, <1>4, <1>5, <1>6, <1>7, <1>8, <1>9, <1>10, <1>11, <1>16 DEF Run
<1> QED BY <1>1, <1>12, <1>13, <1>14, <1>15, <1>16 DEF StoreNext

(* Snapshot shows the newest commit except while it is the pending one,     *)
(* which then has a batch clock running, whatever the Reconciler commits    *)
(* and whichever of timer, flush, pin and diagnostics publishes it.         *)
THEOREM GenerationsAlwaysAgree == StoreSpec => []GenerationsAgree
<1>1. StoreInit => GenerationsAgree
  BY DEF StoreInit, GenerationsAgree
<1>2. StoreIInv /\ GenerationsAgree /\ [StoreNext]_storeVars => GenerationsAgree'
  <2> SUFFICES ASSUME StoreIInv, GenerationsAgree, [StoreNext]_storeVars PROVE GenerationsAgree'
    OBVIOUS
  <2>1. current \in Nat /\ published \in Nat
    BY DEF StoreIInv, StoreTypeOK, GenerationTypes
  <2>2. GenerationEffect
    BY StepsOfGenerations
  <2> QED BY <2>1, <2>2 DEF GenerationEffect, GenerationsAgree, Live, genVars
<1> QED BY <1>1, <1>2, StoreSpecIInv, PTL DEF StoreSpec

-----------------------------------------------------------------------------
(* The deadline cursor.                                                     *)

InTurn == pc \in {"timer", "rearm", "drain", "checked", "advance", "cursor"} \/ Draining

(* While the epoch a timer or a turn recorded is current, nothing was       *)
(* accepted since, so its cutoff covers the whole queue.                    *)
EpochsCover ==
  /\ timer.state = "fired" =>
       /\ timer.epoch <= cursorEpoch
       /\ timer.epoch = cursorEpoch => timer.cutoff = ingressOrdinal
  /\ InTurn =>
       /\ turn.cursor <= cursorEpoch
       /\ turn.cursor = cursorEpoch => turn.cutoff = ingressOrdinal

(* A target lies after the cursor, and a turn has the timer to itself.      *)
TargetsAhead ==
  /\ timer.state # "none" /\ timer.semantic # 0 => timer.semantic > deadlineCursor
  /\ InTurn => timer.state = "none"
  /\ InTurn /\ turn.semantic # 0 => turn.semantic > deadlineCursor

(* A turn advances over a drained queue only.                               *)
DrainedFirst ==
  /\ pc = "checked" => FlushPending \/ UpTo(turn.cutoff) = {}
  /\ pc \in {"advance", "cursor"} => UpTo(turn.cutoff) = {} /\ turn.semantic # 0

(* With the cursor set nothing is owned that could schedule a deadline      *)
(* behind it, and before it moves everything up to it has been gone over.   *)
CursorCovers ==
  /\ deadlineCursor # 0 => Queued = {} /\ inflight = {}
  /\ pc = "cursor" /\ turn.cursor = cursorEpoch =>
       \A d \in deadlines : d <= turn.semantic => d \in attempted

CursorIInv ==
  EpochsCover /\ TargetsAhead /\ DrainedFirst /\ CursorCovers /\ DeadlineNotSkipped

(* The numbers the steps compare.                                           *)
LEMMA CursorNumbers ==
  ASSUME StoreIInv
  PROVE  /\ ingressOrdinal \in Nat /\ cursorEpoch \in Nat /\ deadlineCursor \in Nat
         /\ turn.cursor \in Nat /\ turn.cutoff \in Nat /\ turn.semantic \in Nat
         /\ timer.epoch \in Nat /\ timer.cutoff \in Nat /\ timer.semantic \in Nat
         /\ turn.cutoff <= ingressOrdinal
         /\ \A d \in Deadlines : d \in Nat /\ d # 0
         /\ deadlines \subseteq Deadlines
         /\ \A i \in Queued : i.sequence \in Nat /\ i.sequence <= ingressOrdinal
BY SchedulerAssumption
   DEF StoreIInv, IInv, TypeOK, ItemsApart, Owned, Queued, Item, StoreTypeOK, LoopTypes, TimerTypes,
       GenerationTypes, Time, TurnRecord, TimerRecord

(* New ingress resets the cursor, and what is refused moves nothing.        *)
LEMMA PublishCursor ==
  ASSUME StoreIInv, StoreIInv', CursorIInv, NEW e \in Events, StorePublish(e)
  PROVE  CursorIInv'
<1>1. Publish(e)
  BY DEF StorePublish, Publish
<1>2. /\ UNCHANGED inflight
      /\ ingressOrdinal' \in Nat /\ ingressOrdinal <= ingressOrdinal'
      /\ \A i \in Queued' : i.sequence > ingressOrdinal \/ \E j \in Queued : j.sequence = i.sequence
      /\ PublishAccept(e) \/ PublishCoalesce(e) \/ ingressOrdinal' = ingressOrdinal
  BY <1>1, PublishEffect DEF StoreIInv, applyVars
<1>3. /\ \A i \in Queued : i.sequence \in Nat /\ i.sequence <= ingressOrdinal
      /\ \A i \in Queued' : i.sequence \in Nat /\ i.sequence <= ingressOrdinal'
  BY CursorNumbers DEF StoreIInv, IInv, TypeOK, ItemsApart, Owned, Queued, Item
<1>4. UNCHANGED <<pc, back, turn, timer, deadlines, attempted, registered>>
  BY DEF StorePublish, schedVars, loopVars, dueVars, callVars, timeVars
<1>5. \/ cursorEpoch' = cursorEpoch + 1 /\ deadlineCursor' = 0
      \/ /\ cursorEpoch' = cursorEpoch /\ deadlineCursor' = deadlineCursor
         /\ ingressOrdinal' = ingressOrdinal
  BY <1>2 DEF StorePublish, FreshIngress, schedVars, cursorVars, PublishReject, PublishDuplicate,
              PublishCollision, PublishDropReplacement, PublishDrop
<1>6. UpTo(turn.cutoff) = {} => UpTo(turn.cutoff)' = {}
  BY <1>2, <1>3, <1>4, CursorNumbers DEF UpTo
<1>7. EpochsCover' /\ TargetsAhead'
  BY <1>4, <1>5, CursorNumbers DEF CursorIInv, EpochsCover, TargetsAhead, InTurn, Draining
<1>8. DrainedFirst'
  BY <1>4, <1>6 DEF CursorIInv, DrainedFirst, FlushPending
<1>9. CursorCovers'
  <2>1. deadlineCursor' # 0 => Queued' = {} /\ inflight' = {}
    BY <1>2, <1>3, <1>5 DEF CursorIInv, CursorCovers
  <2> QED BY <2>1, <1>4, <1>5, CursorNumbers DEF CursorIInv, CursorCovers, EpochsCover, InTurn
<1>10. DeadlineNotSkipped'
  BY <1>4, <1>5, CursorNumbers DEF CursorIInv, DeadlineNotSkipped
<1> QED BY <1>7, <1>8, <1>9, <1>10 DEF CursorIInv

(* Steps that leave the cursor, the epochs, the turn and the deadlines, and *)
(* that no turn takes.                                                      *)
LEMMA QuietCursor ==
  ASSUME StoreIInv, CursorIInv, UNCHANGED <<ingressOrdinal, cursorVars, dueVars>>,
         Queued' \subseteq Queued, inflight' \subseteq inflight,
         timer' = timer \/ timer' = NoTimer,
         \/ UNCHANGED <<pc, back, turn>> /\ (FlushPending => FlushPending')
         \/ ~InTurn'
  PROVE  CursorIInv'
<1>1. timer' = timer \/ timer'.state = "none"
  BY NothingTyped
<1>2. UpTo(turn.cutoff) = {} /\ turn' = turn => UpTo(turn.cutoff)' = {}
  BY DEF UpTo
<1>3. EpochsCover' /\ TargetsAhead'
  BY <1>1 DEF CursorIInv, EpochsCover, TargetsAhead, InTurn, Draining, cursorVars
<1>4. DrainedFirst'
  BY <1>2 DEF CursorIInv, DrainedFirst, InTurn
<1>5. CursorCovers'
  BY DEF CursorIInv, CursorCovers, InTurn, cursorVars, dueVars
<1>6. DeadlineNotSkipped'
  BY DEF CursorIInv, DeadlineNotSkipped, cursorVars, dueVars
<1> QED BY <1>3, <1>4, <1>5, <1>6 DEF CursorIInv

(* The steps of Run that end a turn or never were in one.                   *)
LEMMA RunOutsideTurns ==
  ASSUME StoreIInv, CursorIInv,
         \/ Start \/ TopCanceled \/ SelectCanceled \/ PopFlushRequest \/ NoFlushRequest
         \/ ApplyCancel \/ ApplyWithoutClock \/ TimerWithoutClock \/ CheckFlush \/ AdvanceHeldUp
         \/ AdvanceFails \/ PublishHeldUp \/ PublishCommit \/ PublishRefused \/ PublishFails
         \/ CheckPrefix \/ FlushPublish \/ Reply \/ Wake \/ Woken \/ BeginStop
         \/ PublishFinalFails \/ EndStop
         \/ \E gaps \in GapLedgers, changed \in BOOLEAN :
              PublishWithDiagnostics(gaps, changed) \/ PublishFinal(gaps, changed)
  PROVE  CursorIInv'
<1> DEFINE Quiet == /\ UNCHANGED <<ingressOrdinal, cursorVars, dueVars>>
                    /\ Queued' \subseteq Queued /\ inflight' \subseteq inflight
                    /\ timer' = timer \/ timer' = NoTimer
                    /\ ~InTurn'
<1>1. ASSUME NEW reason, Stop(reason) PROVE Quiet
  BY <1>1 DEF Stop, Halt, Goto, InTurn, Draining, Queued, timeVars, applyVars
<1>2. CASE TopCanceled \/ SelectCanceled \/ TimerWithoutClock \/ AdvanceFails \/ PublishFails
  <2>1. Quiet
    BY <1>1, <1>2 DEF TopCanceled, SelectCanceled, TimerWithoutClock, AdvanceFails, PublishFails
  <2> QED BY <2>1, QuietCursor
<1>3. CASE Start \/ BeginStop \/ PublishFinalFails
  <2>1. Quiet
    BY <1>3 DEF Start, RunStart, BeginStop, StopBegin, PublishFinalFails, StopPublishFails, Goto,
                InTurn, Draining, Queued, timeVars, applyVars, loopVars
  <2> QED BY <2>1, QuietCursor
<1>4. CASE ApplyCancel \/ ApplyWithoutClock
  <2>1. Quiet
    BY <1>4 DEF ApplyCancel, ApplyCanceled, ApplyWithoutClock, ApplyNoClock, FinishItem,
                InTurn, Draining, Queued, timeVars
  <2> QED BY <2>1, QuietCursor
<1>5. CASE \/ PopFlushRequest \/ NoFlushRequest \/ CheckFlush \/ AdvanceHeldUp \/ PublishHeldUp
           \/ PublishCommit \/ PublishRefused \/ CheckPrefix \/ FlushPublish \/ Reply \/ Wake
           \/ Woken
  <2>1. UNCHANGED queueVars /\ UNCHANGED <<cursorVars, dueVars>>
    BY <1>5 DEF PopFlushRequest, NoFlushRequest, CheckFlush, AdvanceHeldUp, PublishHeldUp,
                PublishCommit, PublishRefused, CheckPrefix, FlushPublish, Reply, Wake, Woken, Step
  <2>2. timer' = timer \/ timer' = NoTimer
    BY <1>5 DEF PopFlushRequest, NoFlushRequest, CheckFlush, AdvanceHeldUp, PublishHeldUp,
                PublishCommit, PublishRefused, CheckPrefix, FlushPublish, Reply, Wake, Woken, Step,
                timeVars
  <2>3. pc' \in {"flush", "fired", "arm", "top", "publish", "flushPublish", "reply", "stop", "boot",
                 "woken"}
    BY <1>5 DEF PopFlushRequest, NoFlushRequest, CheckFlush, AdvanceHeldUp, PublishHeldUp,
                PublishCommit, PublishRefused, CheckPrefix, FlushPublish, Reply, Wake, Woken, Step,
                Goto, Leave
  <2>4. Quiet
    BY <2>1, <2>2, <2>3 DEF InTurn, Draining, Queued, queueVars, applyVars
  <2> QED BY <2>4, QuietCursor
<1>6. CASE EndStop
  <2>1. Quiet
    BY <1>6 DEF EndStop, StopEnd, Goto, InTurn, Draining, Queued, timeVars
  <2> QED BY <2>1, QuietCursor
<1>7. ASSUME NEW gaps \in GapLedgers, NEW changed \in BOOLEAN,
             PublishWithDiagnostics(gaps, changed) \/ PublishFinal(gaps, changed)
      PROVE  CursorIInv'
  <2>1. Quiet
    BY <1>7 DEF PublishWithDiagnostics, PublishDiagnostics, PublishFinal, StopPublish, Leave,
                InTurn, Draining, Queued, loopVars, applyVars
  <2> QED BY <2>1, QuietCursor
<1> QED BY <1>2, <1>3, <1>4, <1>5, <1>6, <1>7

(* Dequeue and apply: a deadline an event schedules finds the cursor at 0,  *)
(* and a drain only ends with the queue drained or a flush waiting.         *)
LEMMA ApplyCursor ==
  ASSUME StoreIInv, CursorIInv, PopNext \/ PopDrain \/ PopFlush \/ ApplyAny \/ Finish
  PROVE  CursorIInv'
<1> USE DEF CursorIInv
<1>1. ASSUME NEW here \in {"pop", "drain", "flush"}, NEW eligible, eligible \subseteq Queued,
             here = "drain" => eligible = UpTo(turn.cutoff),
             NEW heldUp, here = "drain" => heldUp = FlushPending,
             NEW otherwise, here = "pop" => otherwise = "idleArm",
             here = "drain" => otherwise = "checked", here = "flush" => otherwise = "prefix",
             PopFor(here, eligible, heldUp, otherwise)
      PROVE  CursorIInv'
  <2>1. CASE eligible # {} /\ ~heldUp
    <3>1. Pop(eligible) /\ pc' = "apply" /\ back' = here /\ pc = here
          /\ UNCHANGED <<turn, timer, cursorVars, dueVars>>
      BY <1>1, <2>1 DEF PopFor, timeVars
    <3>2. Queued # {} /\ Queued' \subseteq Queued /\ ingressOrdinal' = ingressOrdinal
      BY <1>1, <2>1, <3>1 DEF Pop, Queued
    <3>3. EpochsCover' /\ TargetsAhead'
      BY <3>1, <3>2 DEF EpochsCover, TargetsAhead, InTurn, Draining, cursorVars
    <3>4. DrainedFirst' /\ CursorCovers' /\ DeadlineNotSkipped'
      BY <3>1, <3>2 DEF DrainedFirst, CursorCovers, DeadlineNotSkipped, cursorVars, dueVars
    <3> QED BY <3>3, <3>4
  <2>2. CASE ~(eligible # {} /\ ~heldUp)
    <3>1. pc = here /\ pc' = otherwise
          /\ UNCHANGED <<back, turn, timer, registered, queueVars, cursorVars, dueVars>>
      BY <1>1, <2>2 DEF PopFor, Step, Goto, timeVars, callVars
    <3>2. UNCHANGED <<ingressOrdinal, normal, critical, inflight>>
      BY <3>1 DEF queueVars, applyVars
    <3>3. EpochsCover' /\ TargetsAhead'
      BY <1>1, <3>1, <3>2 DEF EpochsCover, TargetsAhead, InTurn, Draining, cursorVars
    <3>4. DrainedFirst'
      BY <1>1, <2>2, <3>1, <3>2 DEF DrainedFirst, UpTo, Queued, FlushPending
    <3>5. CursorCovers' /\ DeadlineNotSkipped'
      BY <1>1, <3>1, <3>2 DEF CursorCovers, DeadlineNotSkipped, Queued, cursorVars, dueVars
    <3> QED BY <3>3, <3>4, <3>5
  <2> QED BY <2>1, <2>2
<1>2. CASE PopNext
  BY <1>1, <1>2 DEF PopNext
<1>3. CASE PopDrain
  <2>1. UpTo(turn.cutoff) \subseteq Queued
    BY DEF UpTo
  <2> QED BY <1>1, <1>3, <2>1 DEF PopDrain
<1>4. CASE PopFlush
  <2>1. Prefix(Cutoff) \subseteq Queued
    BY DEF Prefix
  <2> QED BY <1>1, <1>4, <2>1 DEF PopFlush
<1>5. CASE ApplyAny
  <2>1. inflight # {}
    BY <1>5 DEF ApplyAny, Apply, ApplyBegin, StoreIInv, IInv, TypeOK
  <2>2. deadlineCursor = 0
    BY <2>1 DEF CursorCovers
  <2>3. pc = "apply" /\ pc' = "finish"
        /\ UNCHANGED <<back, turn, timer, normal, critical, inflight, ingressOrdinal, cursorVars>>
    BY <1>5 DEF ApplyAny, Apply, ApplyBegin
  <2>4. EpochsCover' /\ TargetsAhead'
    BY <2>3 DEF EpochsCover, TargetsAhead, InTurn, Draining, cursorVars
  <2>5. DrainedFirst' /\ CursorCovers'
    BY <2>2, <2>3 DEF DrainedFirst, CursorCovers, cursorVars
  <2>6. DeadlineNotSkipped'
    <3>1. deadlines' \subseteq Deadlines
      BY <1>5, CursorNumbers DEF ApplyAny, Apply, Rescheduled
    <3> QED BY <2>2, <2>3, <3>1, CursorNumbers DEF DeadlineNotSkipped, cursorVars
  <2> QED BY <2>4, <2>5, <2>6
<1>6. CASE Finish
  <2>1. /\ pc = "finish" /\ pc' \in {"arm", back, "reply", "stop"} /\ (pc' = "pop" => back # "pop")
        /\ inflight' = {}
        /\ UNCHANGED <<back, turn, timer, normal, critical, ingressOrdinal, cursorVars, dueVars>>
    BY <1>6 DEF Finish, ApplyFinish, FinishItem, AfterApply, timeVars
  <2>2. back \in {"pop", "drain", "flush"}
    BY DEF StoreIInv, StoreTypeOK, LoopTypes
  <2>3. EpochsCover' /\ TargetsAhead'
    BY <2>1, <2>2 DEF EpochsCover, TargetsAhead, InTurn, Draining, cursorVars
  <2>4. DrainedFirst' /\ CursorCovers' /\ DeadlineNotSkipped'
    BY <2>1, <2>2 DEF DrainedFirst, CursorCovers, DeadlineNotSkipped, Queued, cursorVars, dueVars
  <2> QED BY <2>3, <2>4
<1> QED BY <1>2, <1>3, <1>4, <1>5, <1>6

(* The timer hands its target and its cutoff to the turn it starts.         *)
LEMMA TimerCursor ==
  ASSUME StoreIInv, CursorIInv,
         TakeFiredTimer \/ ArmScheduler \/ Fire \/ HandleTimer \/ Rearm \/ Ready
  PROVE  CursorIInv'
<1> USE DEF CursorIInv
<1>1. CASE ArmScheduler
  <2>1. /\ pc \in {"arm", "idleArm"} /\ ~InTurn
        /\ UNCHANGED <<normal, critical, inflight, ingressOrdinal, back, registered, cursorVars,
                       dueVars>>
    BY <1>1, Arming DEF InTurn, Draining, queueVars, applyVars, callVars
  <2>2. CASE UNCHANGED <<turn, timer>> /\ pc' \in {"top", "select"}
    <3>1. ~InTurn'
      BY <2>2 DEF InTurn, Draining
    <3> QED BY <2>1, <2>2, <3>1, QuietCursor DEF Queued
  <2>3. CASE UNCHANGED turn /\ timer' = Armed(Target, deadlineCursor) /\ pc' \in {"top", "select"}
    <3>1. ~InTurn' /\ pc' \notin {"checked", "advance", "cursor"}
      BY <2>3 DEF InTurn, Draining
    <3>2. /\ timer'.state = "armed" /\ timer'.semantic = Target.semantic
          /\ Target.semantic # 0 => Target.semantic > deadlineCursor
      BY <2>3, TargetInTime DEF Armed, StoreIInv
    <3>3. EpochsCover' /\ TargetsAhead'
      BY <2>1, <3>1, <3>2 DEF EpochsCover, TargetsAhead, cursorVars
    <3>4. DrainedFirst' /\ CursorCovers' /\ DeadlineNotSkipped'
      BY <2>1, <3>1 DEF DrainedFirst, CursorCovers, DeadlineNotSkipped, Queued, cursorVars, dueVars
    <3> QED BY <3>3, <3>4
  <2>4. CASE /\ timer' = NoTimer /\ pc' = "timer"
             /\ \E now \in Time :
                  turn' = [batch |-> Target.batch, semantic |-> Target.semantic,
                           after |-> deadlineCursor, cutoff |-> ingressOrdinal,
                           cursor |-> cursorEpoch, readiness |-> now]
    <3>1. /\ turn'.semantic = Target.semantic /\ turn'.cutoff = ingressOrdinal
          /\ turn'.cursor = cursorEpoch
          /\ Target.semantic # 0 => Target.semantic > deadlineCursor
      BY <2>4, TargetInTime DEF StoreIInv
    <3>2. timer'.state = "none"
      BY <2>4, NothingTyped
    <3>3. EpochsCover' /\ TargetsAhead'
      BY <2>1, <2>4, <3>1, <3>2, CursorNumbers DEF EpochsCover, TargetsAhead, cursorVars
    <3>4. DrainedFirst' /\ CursorCovers' /\ DeadlineNotSkipped'
      BY <2>1, <2>4 DEF DrainedFirst, CursorCovers, DeadlineNotSkipped, Queued, cursorVars, dueVars
    <3> QED BY <3>3, <3>4
  <2> QED BY <1>1, <2>2, <2>3, <2>4, Arming
<1>2. CASE TakeFiredTimer
  <2>1. /\ pc = "fired" /\ ~InTurn
        /\ UNCHANGED <<normal, critical, inflight, ingressOrdinal, back, registered, cursorVars,
                       dueVars>>
    BY <1>2 DEF TakeFiredTimer, InTurn, Draining, queueVars, applyVars, callVars
  <2>2. CASE pc' = "pop" /\ UNCHANGED <<turn, timer>>
    <3>1. ~InTurn'
      BY <2>2 DEF InTurn, Draining
    <3> QED BY <2>1, <2>2, <3>1, QuietCursor DEF Queued
  <2>3. CASE pc' # "pop"
    <3>1. /\ pc' = "timer" /\ timer.state = "fired" /\ timer' = NoTimer
          /\ turn'.semantic = timer.semantic /\ turn'.cutoff = timer.cutoff
          /\ turn'.cursor = timer.epoch
      BY <1>2, <2>3 DEF TakeFiredTimer
    <3>2. timer'.state = "none"
      BY <3>1, NothingTyped
    <3>3. EpochsCover' /\ TargetsAhead'
      BY <2>1, <3>1, <3>2 DEF EpochsCover, TargetsAhead, cursorVars
    <3>4. DrainedFirst' /\ CursorCovers' /\ DeadlineNotSkipped'
      BY <2>1, <3>1 DEF DrainedFirst, CursorCovers, DeadlineNotSkipped, Queued, cursorVars, dueVars
    <3> QED BY <3>3, <3>4
  <2> QED BY <1>2, <2>2, <2>3 DEF TakeFiredTimer
<1>3. CASE Fire
  <2>1. timer \in TimerRecord
    BY DEF StoreIInv, StoreTypeOK, TimerTypes
  <2>2. /\ timer.state = "armed" /\ timer'.state = "fired" /\ timer'.semantic = timer.semantic
        /\ timer'.epoch = cursorEpoch /\ timer'.cutoff = ingressOrdinal
        /\ UNCHANGED <<pc, back, turn, normal, critical, inflight, ingressOrdinal, registered,
                       cursorVars, dueVars>>
    BY <1>3, <2>1 DEF Fire, TimerRecord, queueVars, applyVars, loopVars, callVars
  <2>3. EpochsCover' /\ TargetsAhead'
    BY <2>2, CursorNumbers DEF EpochsCover, TargetsAhead, InTurn, Draining, cursorVars
  <2>4. DrainedFirst' /\ CursorCovers' /\ DeadlineNotSkipped'
    BY <2>2 DEF DrainedFirst, CursorCovers, DeadlineNotSkipped, UpTo, Queued, FlushPending,
                cursorVars, dueVars
  <2> QED BY <2>3, <2>4
<1>4. CASE HandleTimer
  <2>1. turn \in TurnRecord
    BY DEF StoreIInv, StoreTypeOK, LoopTypes
  <2>2. /\ pc = "timer" /\ pc' \in {"rearm", "drain"}
        /\ turn'.semantic = turn.semantic /\ turn'.cutoff = turn.cutoff /\ turn'.cursor = turn.cursor
        /\ UNCHANGED <<back, timer, normal, critical, inflight, ingressOrdinal, cursorVars, dueVars>>
    BY <1>4, <2>1 DEF HandleTimer, TurnRecord, queueVars, applyVars
  <2>3. EpochsCover' /\ TargetsAhead'
    BY <2>2 DEF EpochsCover, TargetsAhead, InTurn, Draining, cursorVars
  <2>4. DrainedFirst' /\ CursorCovers' /\ DeadlineNotSkipped'
    BY <2>2 DEF DrainedFirst, CursorCovers, DeadlineNotSkipped, Queued, cursorVars, dueVars
  <2> QED BY <2>3, <2>4
<1>5. CASE Rearm
  <2>1. /\ pc = "rearm" /\ pc' = "top" /\ timer'.state = "armed" /\ timer'.semantic = turn.semantic
        /\ UNCHANGED <<back, normal, critical, inflight, ingressOrdinal, cursorVars, dueVars>>
    BY <1>5 DEF Rearm, Leave, Armed, queueVars, applyVars
  <2>2. EpochsCover' /\ TargetsAhead'
    BY <2>1 DEF EpochsCover, TargetsAhead, InTurn, Draining, cursorVars
  <2>3. DrainedFirst' /\ CursorCovers' /\ DeadlineNotSkipped'
    BY <2>1 DEF DrainedFirst, CursorCovers, DeadlineNotSkipped, Queued, cursorVars, dueVars
  <2> QED BY <2>2, <2>3
<1>6. CASE Ready
  <2>1. /\ pc = "checked" /\ ~FlushPending
        /\ pc' = "publish" \/ (pc' = "advance" /\ turn.semantic # 0)
        /\ UNCHANGED <<back, turn, timer, normal, critical, inflight, ingressOrdinal, cursorVars,
                       dueVars>>
    BY <1>6 DEF Ready, Step, Goto, queueVars, applyVars, timeVars
  <2>2. EpochsCover' /\ TargetsAhead'
    BY <2>1 DEF EpochsCover, TargetsAhead, InTurn, Draining, cursorVars
  <2>3. DrainedFirst' /\ CursorCovers' /\ DeadlineNotSkipped'
    BY <2>1 DEF DrainedFirst, CursorCovers, DeadlineNotSkipped, UpTo, Queued, cursorVars, dueVars
  <2> QED BY <2>2, <2>3
<1> QED BY <1>1, <1>2, <1>3, <1>4, <1>5, <1>6

(* Advance goes over what lies up to the target, and only then, with no new *)
(* epoch, the cursor moves there.                                           *)
LEMMA AdvanceCursor ==
  ASSUME StoreIInv, CursorIInv, AdvanceAny \/ MoveCursor
  PROVE  CursorIInv'
<1> USE DEF CursorIInv
<1>1. ASSUME NEW result \in Outcomes, NEW changed \in BOOLEAN, NEW scheduled \in Scheduled(result),
             Advance(result, changed, scheduled)
      PROVE  CursorIInv'
  <2>1. /\ pc = "advance" /\ pc' = "cursor"
        /\ deadlines' = scheduled /\ attempted' = (attempted \cup Served) \ (scheduled \ deadlines)
        /\ UNCHANGED <<back, turn, timer, normal, critical, inflight, ingressOrdinal, cursorVars>>
    BY <1>1 DEF Advance, Goto, queueVars, applyVars, timeVars
  <2>2. \A d \in scheduled : d \in deadlines \/ (d \in Deadlines /\ d > turn.semantic)
    BY DEF Scheduled, Served
  <2>3. ASSUME NEW d \in scheduled, d <= turn.semantic PROVE d \in attempted'
    <3>1. d \in deadlines
      BY <2>2, <2>3, CursorNumbers
    <3>2. d \in Served
      BY <2>3, <3>1 DEF Served
    <3> QED BY <2>1, <3>1, <3>2
  <2>4. EpochsCover' /\ TargetsAhead'
    BY <2>1 DEF EpochsCover, TargetsAhead, InTurn, Draining, cursorVars
  <2>5. DrainedFirst'
    BY <2>1 DEF DrainedFirst, UpTo, Queued
  <2>6. CursorCovers'
    BY <2>1, <2>3 DEF CursorCovers, Queued, cursorVars
  <2>7. deadlineCursor < turn.semantic
    BY <2>1, CursorNumbers DEF TargetsAhead, InTurn, DrainedFirst
  <2>8. ASSUME NEW d \in scheduled, d <= deadlineCursor PROVE d <= turn.semantic
    <3>1. d \in Nat
      BY <2>2, CursorNumbers
    <3> QED BY <2>7, <2>8, <3>1, CursorNumbers
  <2>9. DeadlineNotSkipped'
    BY <2>1, <2>3, <2>8 DEF DeadlineNotSkipped, cursorVars
  <2> QED BY <2>4, <2>5, <2>6, <2>9
<1>2. CASE MoveCursor
  <2>1. /\ pc = "cursor" /\ pc' = "publish" /\ cursorEpoch' = cursorEpoch
        /\ deadlineCursor' = IF cursorEpoch = turn.cursor THEN turn.semantic ELSE deadlineCursor
        /\ UNCHANGED <<back, turn, timer, normal, critical, inflight, ingressOrdinal, applyStep,
                       dueVars>>
    BY <1>2 DEF MoveCursor, CursorAfter, Goto, queueVars, applyVars, timeVars
  <2>2. inflight = {}
    <3>1. applyStep = "idle"
      BY <2>1 DEF StoreIInv, IInv, TypeOK, StoreTypeOK, LoopTypes
    <3> QED BY <3>1 DEF StoreIInv, IInv, TypeOK
  <2>3. cursorEpoch = turn.cursor => Queued = {}
    <3>1. UpTo(turn.cutoff) = {}
      BY <2>1 DEF DrainedFirst
    <3>2. cursorEpoch = turn.cursor => turn.cutoff = ingressOrdinal
      BY <2>1 DEF EpochsCover, InTurn
    <3> QED BY <3>1, <3>2, CursorNumbers DEF UpTo
  <2>4. timer.state = "none"
    BY <2>1 DEF TargetsAhead, InTurn
  <2>5. EpochsCover' /\ TargetsAhead'
    BY <2>1, <2>4 DEF EpochsCover, TargetsAhead, InTurn, Draining
  <2>6. DrainedFirst' /\ CursorCovers'
    BY <2>1, <2>2, <2>3 DEF DrainedFirst, CursorCovers, Queued
  <2>7. DeadlineNotSkipped'
    BY <2>1 DEF DeadlineNotSkipped, CursorCovers, dueVars
  <2> QED BY <2>5, <2>6, <2>7
<1> QED BY <1>1, <1>2 DEF AdvanceAny

(* Callers and the environment: a pin puts the cursor back.                 *)
LEMMA CallerCursor ==
  ASSUME Impatient = {}, StoreIInv, CursorIInv,
         \/ Tick \/ Cancel \/ UNCHANGED storeVars
         \/ \E c \in Callers : FlushCall(c) \/ FlushGivesUp(c) \/ FlushReturns(c)
         \/ \E p \in Pinners : PinCall(p) \/ PinProceeds(p)
  PROVE  CursorIInv'
<1> DEFINE Quiet == /\ UNCHANGED <<pc, back, turn, normal, critical, inflight, ingressOrdinal,
                                   timer, cursorVars, dueVars>>
                    /\ FlushPending => FlushPending'
<1>1. ASSUME Quiet PROVE CursorIInv'
  BY <1>1, QuietCursor DEF Queued
<1>2. CASE Tick \/ Cancel \/ UNCHANGED storeVars
  <2>1. Quiet
    BY <1>2 DEF Tick, Cancel, storeVars, schedVars, loopVars, queueVars, applyVars, callVars,
                timeVars, FlushPending
  <2> QED BY <1>1, <2>1
<1>3. ASSUME NEW c \in Callers, FlushCall(c) \/ FlushGivesUp(c) \/ FlushReturns(c)
      PROVE  CursorIInv'
  <2>1. ~FlushGivesUp(c)
    BY DEF FlushGivesUp
  <2>2. Quiet
    BY <1>3, <2>1, SchedulerAssumption
       DEF FlushCall, FlushReturns, callOnlyVars, loopVars, queueVars, applyVars, timeVars,
           FlushPending
  <2> QED BY <1>1, <2>2
<1>4. ASSUME NEW p \in Pinners, PinCall(p) \/ PinFence(p) \/ PinNothing(p) PROVE CursorIInv'
  <2>1. Quiet
    BY <1>4 DEF PinCall, PinFence, PinNothing, pinOnlyVars, loopVars, queueVars, applyVars,
                FlushPending
  <2> QED BY <1>1, <2>1
<1>5. ASSUME NEW p \in Pinners, NEW scheduled \in Rescheduled, PinChanges(p, scheduled)
      PROVE  CursorIInv'
  <2>1. /\ deadlineCursor' = 0 /\ cursorEpoch' = cursorEpoch + 1 /\ timer' = NoTimer
        /\ UNCHANGED <<pc, back, turn, normal, critical, inflight, ingressOrdinal, registered>>
        /\ deadlines' = scheduled
    BY <1>5 DEF PinChanges, PinResetsTimer, pinOnlyVars, loopVars, queueVars, applyVars
  <2>2. timer'.state = "none"
    BY <2>1, NothingTyped
  <2>3. EpochsCover' /\ TargetsAhead'
    BY <2>1, <2>2, CursorNumbers DEF CursorIInv, EpochsCover, TargetsAhead, InTurn, Draining
  <2>4. DrainedFirst'
    BY <2>1 DEF CursorIInv, DrainedFirst, UpTo, Queued, FlushPending
  <2>5. CursorCovers'
    BY <2>1, CursorNumbers DEF CursorIInv, EpochsCover, CursorCovers, InTurn
  <2>6. DeadlineNotSkipped'
    BY <2>1, CursorNumbers DEF DeadlineNotSkipped, Rescheduled
  <2> QED BY <2>3, <2>4, <2>5, <2>6 DEF CursorIInv
<1> QED BY <1>2, <1>3, <1>4, <1>5 DEF PinProceeds

(* While no caller gives up, every step keeps what the cursor rests on.     *)
LEMMA StoreNextCursor ==
  ASSUME Impatient = {}, StoreIInv, CursorIInv, [StoreNext]_storeVars
  PROVE  CursorIInv'
<1>1. ASSUME NEW e \in Events, StorePublish(e) PROVE CursorIInv'
  BY <1>1, StoreNextTypes, PublishCursor
<1>2. CASE Run
  BY <1>2, RunOutsideTurns, ApplyCursor, TimerCursor, AdvanceCursor DEF Run
<1>3. CASE Fire
  BY <1>3, TimerCursor
<1>4. CASE \/ Tick \/ Cancel \/ UNCHANGED storeVars
           \/ \E c \in Callers : FlushCall(c) \/ FlushGivesUp(c) \/ FlushReturns(c)
           \/ \E p \in Pinners : PinCall(p) \/ PinProceeds(p)
  BY <1>4, CallerCursor
<1> QED BY <1>1, <1>2, <1>3, <1>4 DEF StoreNext

(* What the cursor rests on holds throughout, as long as no flush caller    *)
(* gives up: one that does may leave a turn with its queue not drained.     *)
THEOREM StoreSpecCursor == ASSUME Impatient = {} PROVE StoreSpec => []CursorIInv
<1>1. StoreInit => CursorIInv
  BY NothingTyped DEF StoreInit, Init, CursorIInv, EpochsCover, TargetsAhead, DrainedFirst,
                      CursorCovers, DeadlineNotSkipped, InTurn, Draining, Queued
<1>2. StoreIInv /\ CursorIInv /\ [StoreNext]_storeVars => CursorIInv'
  BY StoreNextCursor
<1> QED BY <1>1, <1>2, StoreSpecIInv, PTL DEF StoreSpec

(* Every deadline the cursor excludes from the next target was gone over by *)
(* an Advance since it was scheduled, whatever is published, pinned and     *)
(* flushed meanwhile.                                                       *)
THEOREM NoDeadlineSkipped == ASSUME Impatient = {} PROVE StoreSpec => []DeadlineNotSkipped
<1>1. CursorIInv => DeadlineNotSkipped
  BY DEF CursorIInv
<1> QED BY <1>1, StoreSpecCursor, PTL

(* The Store advances to a deadline only when everything accepted up to the *)
(* cutoff recorded for it has left the queue.                               *)
THEOREM AdvancesAfterDrain == ASSUME Impatient = {} PROVE StoreSpec => AdvanceAfterDrain
<1>1. CursorIInv /\ [StoreNext]_storeVars
        => [pc = "advance" /\ pc' = "cursor" => UpTo(turn.cutoff) = {}]_storeVars
  BY DEF CursorIInv, DrainedFirst
<1> QED BY <1>1, StoreSpecCursor, PTL DEF StoreSpec, AdvanceAfterDrain
-----------------------------------------------------------------------------
(* Wakeups.                                                                 *)

(* On its way to sleep Run has found no request, no fired timer, nothing    *)
(* queued and no target without a timer: whatever came since set wake.      *)
Falling == {"fired", "pop", "idleArm", "select"}
RequestWakes == pc \in Falling /\ FlushPending => wake
TimerWakes == pc \in Falling \ {"fired"} /\ timer.state = "fired" => wake
IngressWakes == pc \in {"idleArm", "select"} /\ Queued # {} => wake
TargetArmed ==
  pc = "select" /\ ~wake /\ Due(Target) # 0 => timer.state = "armed" /\ Due(timer) <= Due(Target)
WakeIInv == RequestWakes /\ TimerWakes /\ IngressWakes /\ TargetArmed

(* Run falls asleep by four steps; every other one goes elsewhere.          *)
LEMMA RunFallsAsleep ==
  ASSUME StoreIInv, Run
  PROVE  \/ pc' \notin Falling
         \/ pc = "top" /\ NoFlushRequest
         \/ TakeFiredTimer \/ PopNext \/ ArmScheduler
<1> USE DEF Falling
<1>1. ASSUME NEW reason, Stop(reason) PROVE pc' = "stop"
  BY <1>1 DEF Stop, Goto
<1>2. CASE TopCanceled \/ SelectCanceled \/ TimerWithoutClock \/ AdvanceFails \/ PublishFails
  BY <1>1, <1>2 DEF TopCanceled, SelectCanceled, TimerWithoutClock, AdvanceFails, PublishFails
<1>3. CASE Start \/ PopFlushRequest \/ (NoFlushRequest /\ pc # "top") \/ ApplyCancel \/ ApplyWithoutClock
  BY <1>3 DEF Start, Goto, PopFlushRequest, NoFlushRequest, ApplyCancel, ApplyWithoutClock
<1>4. CASE PopDrain \/ PopFlush
  BY <1>4 DEF PopDrain, PopFlush, PopFor, Step, Goto
<1>5. CASE ApplyAny \/ AdvanceAny
  BY <1>5 DEF ApplyAny, Apply, AdvanceAny, Advance, Goto
<1>6. CASE Finish
  <2>1. back \in {"pop", "drain", "flush"} /\ pc' = AfterApply
    BY <1>6 DEF Finish, StoreIInv, StoreTypeOK, LoopTypes
  <2> QED BY <2>1 DEF AfterApply
<1>7. CASE \/ HandleTimer \/ Rearm \/ CheckFlush \/ Ready \/ AdvanceHeldUp \/ MoveCursor
           \/ PublishHeldUp \/ PublishCommit \/ PublishRefused \/ CheckPrefix \/ FlushPublish \/ Reply
  BY <1>7 DEF HandleTimer, Rearm, CheckFlush, Ready, AdvanceHeldUp, MoveCursor, PublishHeldUp,
              PublishCommit, PublishRefused, CheckPrefix, FlushPublish, Reply, Leave, Step, Goto
<1>8. ASSUME NEW gaps \in GapLedgers, NEW changed \in BOOLEAN,
             PublishWithDiagnostics(gaps, changed) \/ PublishFinal(gaps, changed)
      PROVE  pc' \notin Falling
  BY <1>8 DEF PublishWithDiagnostics, PublishFinal, Leave, loopVars
<1>9. CASE Wake \/ Woken \/ BeginStop \/ PublishFinalFails \/ EndStop
  BY <1>9 DEF Wake, Woken, BeginStop, PublishFinalFails, EndStop, Goto, loopVars
<1> QED BY <1>2, <1>3, <1>4, <1>5, <1>6, <1>7, <1>8, <1>9 DEF Run

(* What anybody else does while Run falls asleep either wakes it or gives   *)
(* it nothing new.                                                          *)
LEMMA WakeOrNothingNew ==
  ASSUME StoreIInv, WakeIInv, pc' = pc,
         \/ wake' = TRUE
         \/ /\ wake' = wake /\ timer' = timer
            /\ registered' = registered \/ registered' = NoCaller
            /\ Queued = {} => Queued' = {}
            /\ UNCHANGED <<dirtyVars, deadlines, deadlineCursor>>
  PROVE  WakeIInv'
<1>1. CASE wake' = TRUE
  BY <1>1 DEF WakeIInv, RequestWakes, TimerWakes, IngressWakes, TargetArmed
<1>2. CASE /\ wake' = wake /\ timer' = timer
           /\ registered' = registered \/ registered' = NoCaller
           /\ Queued = {} => Queued' = {}
           /\ UNCHANGED <<dirtyVars, deadlines, deadlineCursor>>
  <2>1. RequestWakes'
    BY <1>2 DEF WakeIInv, RequestWakes, FlushPending
  <2>2. TimerWakes' /\ IngressWakes'
    BY <1>2 DEF WakeIInv, TimerWakes, IngressWakes
  <2>3. Due(Target)' = Due(Target) /\ Due(timer)' = Due(timer)
    BY <1>2 DEF Target, Due, BatchDue, NextDeadline, dirtyVars
  <2>4. TargetArmed'
    BY <1>2, <2>3 DEF WakeIInv, TargetArmed
  <2> QED BY <2>1, <2>2, <2>4 DEF WakeIInv
<1> QED BY <1>1, <1>2

(* Run itself looks at everything before it sleeps.                         *)
LEMMA RunWake ==
  ASSUME StoreIInv, WakeIInv, Run PROVE WakeIInv'
<1> USE DEF WakeIInv, RequestWakes, TimerWakes, IngressWakes, TargetArmed, Falling
<1>0. wake \in BOOLEAN
  BY DEF StoreIInv, StoreTypeOK, TimerTypes
<1>1. CASE pc' \notin Falling
  BY <1>1
<1>2. CASE pc = "top" /\ NoFlushRequest
  <2>1. pc' = "fired" /\ ~FlushPending /\ registered' = registered
    BY <1>2 DEF NoFlushRequest, Step, Goto, callVars
  <2> QED BY <2>1 DEF FlushPending
<1>3. CASE TakeFiredTimer
  <2>1. pc' = "timer" \/ (pc' = "pop" /\ UNCHANGED <<timer, wake, registered>>
                          /\ (timer.state = "fired" => FlushPending))
    BY <1>3 DEF TakeFiredTimer, callVars
  <2>2. pc = "fired"
    BY <1>3 DEF TakeFiredTimer
  <2> QED BY <2>1, <2>2 DEF FlushPending
<1>4. CASE PopNext
  <2>1. \/ pc' = "apply"
        \/ /\ pc' = "idleArm" /\ (Queued = {} \/ FlushPending)
           /\ UNCHANGED <<timer, wake, registered, normal, critical>>
    BY <1>4 DEF PopNext, PopFor, Step, Goto, callVars, queueVars, timeVars
  <2>2. pc = "pop"
    BY <1>4 DEF PopNext, PopFor
  <2> QED BY <2>1, <2>2 DEF FlushPending, Queued
<1>5. CASE ArmScheduler
  <2>1. UNCHANGED <<wake, registered, normal, critical, dirtyVars, deadlines, deadlineCursor>>
    BY <1>5, Arming DEF callVars, queueVars, dueVars, cursorVars
  <2>2. Due(Target)' = Due(Target)
    BY <2>1 DEF Target, Due, BatchDue, NextDeadline, dirtyVars
  <2>3. Due(Target) # 0 => Due(Target) \in Nat
    BY TargetInTime, SchedulerAssumption DEF StoreIInv
  <2>4. CASE FlushPending \/ Due(Target) = 0 \/ ~Replaceable
    <3>1. UNCHANGED timer /\ (pc = "idleArm" => pc' = "select") /\ (pc = "arm" => pc' = "top")
      BY <1>5, <2>4 DEF ArmScheduler, Step, Goto, timeVars
    <3>2. pc \in {"arm", "idleArm"}
      BY <1>5 DEF ArmScheduler
    <3>3. pc' = "select" => pc = "idleArm"
      BY <3>1, <3>2
    <3>4. CASE pc' = "select" /\ ~wake
      <4>1. ~FlushPending /\ timer.state # "fired" /\ Queued = {}
        BY <3>3, <3>4
      <4>2. Due(Target) # 0 => timer.state = "armed" /\ Due(timer) <= Due(Target)
        <5>1. timer.state # "none" => timer.state = "armed" /\ Due(timer) \in Nat
          BY <4>1, SchedulerAssumption DEF StoreIInv, StoreTypeOK, TimerTypes, TimerRecord
        <5> QED BY <2>3, <2>4, <4>1, <5>1 DEF Replaceable
      <4>3. Due(timer)' = Due(timer)
        BY <3>1 DEF Due
      <4> QED BY <2>1, <2>2, <3>1, <3>4, <4>1, <4>2, <4>3 DEF FlushPending, Queued
    <3>5. CASE pc' = "select" /\ wake
      BY <2>1, <3>5
    <3> QED BY <3>1, <3>2, <3>4, <3>5
  <2>5. CASE ~(FlushPending \/ Due(Target) = 0 \/ ~Replaceable)
    <3>1. \/ pc' = "timer"
          \/ pc' = "top"
          \/ pc' = "select" /\ pc = "idleArm" /\ timer' = Armed(Target, deadlineCursor)
      BY <1>5, <2>5 DEF ArmScheduler
    <3>2. CASE pc' = "select" /\ pc = "idleArm" /\ timer' = Armed(Target, deadlineCursor)
      <4>1. timer'.state = "armed" /\ Due(timer)' = Due(Target)
        BY <3>2 DEF Armed, Due
      <4> QED BY <2>1, <2>2, <2>3, <3>2, <4>1 DEF FlushPending, Queued
    <3> QED BY <3>1, <3>2
  <2> QED BY <2>4, <2>5
<1> QED BY <1>1, <1>2, <1>3, <1>4, <1>5, RunFallsAsleep

(* No step loses a wakeup.                                                  *)
LEMMA StoreNextWake ==
  ASSUME StoreIInv, WakeIInv, [StoreNext]_storeVars PROVE WakeIInv'
<1>1. ASSUME NEW e \in Events, StorePublish(e) PROVE WakeIInv'
  <2>1. pc' = pc
    BY <1>1 DEF StorePublish, schedVars, loopVars
  <2>2. CASE PublishAccept(e) \/ PublishCoalesce(e)
    <3>1. wake' = TRUE
      <4>1. ingressOrdinal' = ingressOrdinal + 1 /\ ingressOrdinal \in Nat
        BY <2>2 DEF PublishAccept, PublishCoalesce, StoreIInv, IInv, TypeOK
      <4>2. CASE \/ PublishCollision(e) \/ PublishDropReplacement(e) \/ PublishDrop(e)
                 \/ PublishReject(e) \/ PublishDuplicate(e)
        BY <4>1, <4>2 DEF PublishCollision, PublishDropReplacement, PublishDrop, PublishReject,
                          PublishDuplicate
      <4>3. CASE FreshIngress
        BY <4>3 DEF FreshIngress
      <4> QED BY <1>1, <4>2, <4>3 DEF StorePublish
    <3> QED BY <2>1, <3>1, WakeOrNothingNew
  <2>3. CASE ~(PublishAccept(e) \/ PublishCoalesce(e))
    <3>1. UNCHANGED <<wake, timer, registered, dirtyVars, deadlines, deadlineCursor>>
      BY <1>1, <2>3 DEF StorePublish, schedVars, timeVars, callVars, dueVars, cursorVars
    <3>2. Queued = {} => Queued' = {}
      <4>1. CASE PublishReject(e) \/ PublishDuplicate(e) \/ PublishCollision(e)
                 \/ PublishDropReplacement(e)
        BY <4>1 DEF PublishReject, PublishDuplicate, PublishCollision, PublishDropReplacement,
                    Queued
      <4>2. CASE PublishDrop(e)
        <5>1. normal' = ClosedLaneQueue(e) /\ critical' = critical
          BY <4>2 DEF PublishDrop
        <5>2. normal = {} => ClosedLaneQueue(e) = {}
          BY LaneCloses DEF StoreIInv
        <5> QED BY <5>1, <5>2 DEF Queued
      <4> QED BY <1>1, <2>3, <4>1, <4>2 DEF StorePublish
    <3> QED BY <2>1, <3>1, <3>2, WakeOrNothingNew
  <2> QED BY <2>2, <2>3
<1>2. CASE Run
  BY <1>2, RunWake
<1>3. CASE Fire
  <2>1. pc' = pc /\ wake' = TRUE
    BY <1>3 DEF Fire, loopVars
  <2> QED BY <2>1, WakeOrNothingNew
<1>4. ASSUME NEW c \in Callers, FlushCall(c) \/ FlushGivesUp(c) \/ FlushReturns(c)
      PROVE  WakeIInv'
  <2>1. /\ pc' = pc /\ UNCHANGED <<timer, normal, critical, dirtyVars, deadlines, deadlineCursor>>
        /\ wake' = TRUE \/ (wake' = wake /\ (registered' = registered \/ registered' = NoCaller))
    BY <1>4 DEF FlushCall, FlushGivesUp, FlushReturns, callOnlyVars, loopVars, timeVars, queueVars,
                dueVars, cursorVars
  <2> QED BY <2>1, WakeOrNothingNew DEF Queued
<1>5. ASSUME NEW p \in Pinners, PinCall(p) \/ PinProceeds(p) PROVE WakeIInv'
  <2>1. pc' = pc
    BY <1>5 DEF PinCall, PinProceeds, PinFence, PinNothing, PinChanges, pinOnlyVars, loopVars
  <2>2. \/ wake' = TRUE
        \/ UNCHANGED <<wake, timer, registered, normal, critical, dirtyVars, deadlines,
                       deadlineCursor>>
    BY <1>5 DEF PinCall, PinProceeds, PinFence, PinNothing, PinChanges, PinResetsTimer,
                pinOnlyVars, queueVars, dueVars, cursorVars
  <2> QED BY <2>1, <2>2, WakeOrNothingNew DEF Queued
<1>6. CASE Tick \/ Cancel \/ UNCHANGED storeVars
  <2>1. UNCHANGED <<pc, wake, timer, registered, normal, critical, dirtyVars, deadlines,
                    deadlineCursor>>
    BY <1>6 DEF Tick, Cancel, storeVars, schedVars, loopVars, timeVars, queueVars, callVars,
                dueVars, cursorVars
  <2> QED BY <2>1, WakeOrNothingNew DEF Queued
<1> QED BY <1>1, <1>2, <1>3, <1>4, <1>5, <1>6 DEF StoreNext

(* Run never sleeps on anything that is ready: when it waits and nobody has *)
(* woken it, nothing is queued, no flush is asked for, no timer has fired,  *)
(* and what is due next has a timer that fires by then. With the types, the *)
(* scheduler is in order for every clock, menu of events and set of callers *)
(* (Run's select, armScheduler, watchTimer, Publish, SetPinned, flush).     *)
THEOREM SchedulerAlwaysInOrder == StoreSpec => []SchedulerInOrder
<1>1. StoreInit => WakeIInv
  BY DEF StoreInit, WakeIInv, RequestWakes, TimerWakes, IngressWakes, TargetArmed, Falling
<1>2. StoreIInv /\ WakeIInv /\ [StoreNext]_storeVars => WakeIInv'
  BY StoreNextWake
<1>3. StoreIInv /\ WakeIInv => SchedulerInOrder
  BY DEF StoreIInv, WakeIInv, RequestWakes, TimerWakes, IngressWakes, TargetArmed, Falling,
         SchedulerInOrder, NoLostWakeup
<1> QED BY <1>1, <1>2, <1>3, StoreSpecIInv, PTL DEF StoreSpec
-----------------------------------------------------------------------------
(* What readers and flush callers are told.                                 *)

(* Run owns a running Store until it stops, and a flush that goes well is   *)
(* answered by a Run that does not stop.                                    *)
RunsUntilStop ==
  /\ pc \notin {"reply", "stop", "stopping", "done"} => halt = "no"
  /\ pc = "reply" /\ flushResult \notin {"fatal", "canceled"} => halt = "no"
  /\ pc \notin {"stopping", "done"} => Live
(* The first error is known.                                                *)
ErrorsKnown == \A n \in refused : prefixErrorAt # 0 /\ prefixErrorAt <= n
(* A flush on its way to "ok" has emptied its prefix, found no error before *)
(* it, and shows the newest commit.                                         *)
ReplyOk == pc = "reply" /\ flushResult = "ok"
PrefixGone ==
  pc \in {"prefix", "flushPublish"} \/ ReplyOk => \A i \in Queued : i.id > Cutoff
ErrorsLater ==
  (pc = "flushPublish" /\ flushResult = "ok") \/ ReplyOk => \A n \in refused : n > Cutoff
NewestShown == ReplyOk => published = current
FlushIInv == RunsUntilStop /\ ErrorsKnown /\ PrefixGone /\ ErrorsLater /\ NewestShown

(* Where a flush has its prefix behind it.                                  *)
Flushed == {"prefix", "flushPublish", "reply"}

(* Run comes there, and goes on from there, by few steps.                   *)
LEMMA RunFlushes ==
  ASSUME StoreIInv, Run
  PROVE  \/ pc' \notin Flushed /\ (UNCHANGED errorVars \/ Finish)
         \/ PopFlush /\ pc' = "prefix"
         \/ CheckPrefix \/ FlushPublish
         \/ (Finish \/ ApplyCancel \/ ApplyWithoutClock) /\ pc' = "reply"
<1> USE DEF Flushed
<1>1. ASSUME NEW reason, Stop(reason) PROVE pc' = "stop" /\ UNCHANGED errorVars
  BY <1>1 DEF Stop, Goto
<1>2. CASE TopCanceled \/ SelectCanceled \/ TimerWithoutClock \/ AdvanceFails \/ PublishFails
  BY <1>1, <1>2 DEF TopCanceled, SelectCanceled, TimerWithoutClock, AdvanceFails, PublishFails
<1>3. CASE Start \/ PopFlushRequest \/ NoFlushRequest \/ TakeFiredTimer
  BY <1>3 DEF Start, Goto, PopFlushRequest, NoFlushRequest, TakeFiredTimer, Step
<1>4. CASE ApplyCancel \/ ApplyWithoutClock
  BY <1>4 DEF ApplyCancel, ApplyWithoutClock
<1>5. CASE PopNext \/ PopDrain \/ PopFlush
  BY <1>5 DEF PopNext, PopDrain, PopFlush, PopFor, Step, Goto
<1>6. CASE ApplyAny \/ AdvanceAny
  BY <1>6 DEF ApplyAny, Apply, AdvanceAny, Advance, Goto
<1>7. CASE Finish
  <2>1. back \in {"pop", "drain", "flush"} /\ pc' = AfterApply
    BY <1>7 DEF Finish, StoreIInv, StoreTypeOK, LoopTypes
  <2> QED BY <1>7, <2>1 DEF AfterApply
<1>8. CASE \/ HandleTimer \/ Rearm \/ CheckFlush \/ Ready \/ AdvanceHeldUp \/ MoveCursor
           \/ PublishHeldUp \/ PublishCommit \/ PublishRefused
  BY <1>8 DEF HandleTimer, Rearm, CheckFlush, Ready, AdvanceHeldUp, MoveCursor, PublishHeldUp,
              PublishCommit, PublishRefused, Leave, Step, Goto
<1>9. CASE ArmScheduler
  BY <1>9, Arming
<1>10. CASE Reply
  BY <1>10 DEF Reply
<1>11. ASSUME NEW gaps \in GapLedgers, NEW changed \in BOOLEAN,
              PublishWithDiagnostics(gaps, changed) \/ PublishFinal(gaps, changed)
       PROVE  pc' \notin Flushed /\ UNCHANGED errorVars
  BY <1>11 DEF PublishWithDiagnostics, PublishFinal, Leave, loopVars
<1>12. CASE Wake \/ Woken \/ BeginStop \/ PublishFinalFails \/ EndStop
  BY <1>12 DEF Wake, Woken, BeginStop, PublishFinalFails, EndStop, Goto, loopVars
<1> QED BY <1>2, <1>3, <1>4, <1>5, <1>6, <1>7, <1>8, <1>9, <1>10, <1>11, <1>12 DEF Run

(* Who stops Run, and when.                                                 *)
LEMMA StopsKnown ==
  ASSUME StoreIInv, RunsUntilStop, [StoreNext]_storeVars
  PROVE  RunsUntilStop'
<1> USE DEF RunsUntilStop
<1>1. ASSUME UNCHANGED <<lifecycle, halt, pc, flushResult>> PROVE RunsUntilStop'
  BY <1>1 DEF Live
<1>2. ASSUME UNCHANGED <<lifecycle, halt>>, pc \notin {"reply", "stop", "stopping", "done"}
      PROVE  RunsUntilStop'
  BY <1>2 DEF Live
<1>3. ASSUME NEW e \in Events, StorePublish(e) PROVE RunsUntilStop'
  <2>1. Publish(e) /\ UNCHANGED <<pc, flushResult>>
    BY <1>3 DEF StorePublish, Publish, schedVars, loopVars
  <2> QED BY <1>1, <2>1, PublishEffect DEF StoreIInv, runVars
<1>4. CASE TopCanceled \/ SelectCanceled \/ TimerWithoutClock \/ AdvanceFails \/ PublishFails
  BY <1>4 DEF TopCanceled, SelectCanceled, TimerWithoutClock, AdvanceFails, PublishFails, Stop, Halt,
              Goto, Live
<1>5. CASE Start
  BY <1>5 DEF Start, RunStart, Goto, Live
<1>6. CASE PopNext \/ PopDrain \/ PopFlush
  BY <1>2, <1>6 DEF PopNext, PopDrain, PopFlush, PopFor, Pop, Step, queueVars, runVars
<1>7. CASE ApplyAny \/ AdvanceAny
  BY <1>2, <1>7 DEF ApplyAny, Apply, ApplyBegin, AdvanceAny, Advance, queueVars, runVars
<1>8. CASE Finish
  <2>1. /\ pc = "finish" /\ lifecycle' = lifecycle /\ pc' = AfterApply
        /\ halt' = IF applyResult = "fatal" THEN "abort" ELSE halt
        /\ back \in {"pop", "drain", "flush"}
        /\ applyResult = "fatal" /\ back = "flush" => flushResult' = "fatal"
    BY <1>8 DEF Finish, ApplyFinish, StoreIInv, StoreTypeOK, LoopTypes
  <2> QED BY <2>1 DEF AfterApply, Live
<1>9. CASE ApplyCancel \/ ApplyWithoutClock
  BY <1>9 DEF ApplyCancel, ApplyCanceled, ApplyWithoutClock, ApplyNoClock, Live
<1>10. CASE \/ PopFlushRequest \/ NoFlushRequest \/ TakeFiredTimer \/ HandleTimer \/ Rearm
            \/ CheckFlush \/ Ready \/ AdvanceHeldUp \/ MoveCursor \/ PublishHeldUp \/ PublishCommit
            \/ PublishRefused \/ CheckPrefix \/ FlushPublish \/ Wake \/ Woken
  <2>1. UNCHANGED <<lifecycle, halt>> /\ pc \notin {"reply", "stop", "stopping", "done"}
    BY <1>10 DEF PopFlushRequest, NoFlushRequest, TakeFiredTimer, HandleTimer, Rearm, CheckFlush,
                 Ready, AdvanceHeldUp, MoveCursor, PublishHeldUp, PublishCommit, PublishRefused,
                 Publishing, CheckPrefix, FlushPublish, Wake, Woken, Step, queueVars, runVars
  <2> QED BY <1>2, <2>1
<1>11. CASE ArmScheduler
  BY <1>2, <1>11, Arming DEF queueVars, runVars
<1>12. CASE Reply
  BY <1>12 DEF Reply, queueVars, runVars, Live
<1>13. ASSUME NEW gaps \in GapLedgers, NEW changed \in BOOLEAN,
              PublishWithDiagnostics(gaps, changed) \/ PublishFinal(gaps, changed)
       PROVE  RunsUntilStop'
  BY <1>13 DEF PublishWithDiagnostics, PublishDiagnostics, Publishing, PublishFinal, StopPublish,
               runVars, loopVars, Live
<1>14. CASE BeginStop \/ PublishFinalFails \/ EndStop
  BY <1>14 DEF BeginStop, StopBegin, PublishFinalFails, StopPublishFails, EndStop, StopEnd, Goto,
               loopVars
<1>15. CASE Fire \/ Tick \/ Cancel \/ UNCHANGED storeVars
  BY <1>1, <1>15 DEF Fire, Tick, Cancel, storeVars, schedVars, queueVars, runVars, loopVars
<1>16. ASSUME NEW c \in Callers, FlushCall(c) \/ FlushGivesUp(c) \/ FlushReturns(c)
       PROVE  RunsUntilStop'
  BY <1>1, <1>16 DEF FlushCall, FlushGivesUp, FlushReturns, callOnlyVars, queueVars, runVars,
                     loopVars
<1>17. ASSUME NEW p \in Pinners, PinCall(p) \/ PinProceeds(p) PROVE RunsUntilStop'
  BY <1>1, <1>17 DEF PinCall, PinProceeds, PinFence, PinNothing, PinChanges, pinOnlyVars, queueVars,
                     runVars, loopVars
<1>18. CASE Run
  BY <1>4, <1>5, <1>6, <1>7, <1>8, <1>9, <1>10, <1>11, <1>12, <1>13, <1>14, <1>18 DEF Run
<1> QED BY <1>3, <1>15, <1>16, <1>17, <1>18 DEF StoreNext

(* Who is neither Run nor a flush caller leaves what a flush rests on: what *)
(* is queued meanwhile comes after its cutoff, and a pin shows what it      *)
(* commits.                                                                 *)
LEMMA FlushLeft ==
  ASSUME StoreIInv, StoreIInv', FlushIInv, RunsUntilStop',
         UNCHANGED <<pc, flushing, flushResult, errorVars>>,
         flushing # NoCaller => callers'[flushing].cutoff = callers[flushing].cutoff,
         \A i \in Queued' : i.id > ingressOrdinal \/ \E j \in Queued : j.id = i.id,
         published = current => published' = current'
  PROVE  FlushIInv'
<1>1. flushing # NoCaller /\ flushing \in Callers =>
        /\ Cutoff' = Cutoff /\ Cutoff <= ingressOrdinal /\ Cutoff \in Nat /\ ingressOrdinal \in Nat
  BY DEF Cutoff, StoreIInv, Bookkeeping, StoreTypeOK, CallerTypes, CallerRecord, IInv, TypeOK
<1>2. pc \in Flushed => flushing # NoCaller /\ flushing \in Callers
  BY DEF Flushed, StoreIInv, StoreTypeOK, LoopTypes
<1>3. \A i \in Queued' : i.id \in Nat
  BY DEF StoreIInv, IInv, TypeOK, Item, Queued
<1>4. ErrorsKnown'
  BY DEF FlushIInv, ErrorsKnown, errorVars
<1>5. PrefixGone'
  <2> SUFFICES ASSUME pc \in {"prefix", "flushPublish"} \/ ReplyOk, NEW i \in Queued'
               PROVE  i.id > Cutoff'
    BY DEF PrefixGone, ReplyOk
  <2>1. Cutoff' = Cutoff /\ Cutoff <= ingressOrdinal /\ Cutoff \in Nat /\ ingressOrdinal \in Nat
    BY <1>1, <1>2 DEF ReplyOk, Flushed
  <2>2. \A j \in Queued : j.id > Cutoff
    BY DEF FlushIInv, PrefixGone
  <2>3. CASE \E j \in Queued : j.id = i.id
    BY <2>1, <2>2, <2>3
  <2>4. CASE i.id > ingressOrdinal
    <3>1. i.id \in Nat
      BY <1>3
    <3> QED BY <2>1, <2>4, <3>1
  <2> QED BY <2>3, <2>4
<1>6. ErrorsLater'
  <2> SUFFICES ASSUME (pc = "flushPublish" /\ flushResult = "ok") \/ ReplyOk
               PROVE  \A n \in refused : n > Cutoff'
    BY DEF ErrorsLater, ReplyOk, errorVars
  <2>1. Cutoff' = Cutoff
    BY <1>1, <1>2 DEF ReplyOk, Flushed
  <2> QED BY <2>1 DEF FlushIInv, ErrorsLater
<1>7. NewestShown'
  BY DEF FlushIInv, NewestShown, ReplyOk
<1> QED BY <1>4, <1>5, <1>6, <1>7 DEF FlushIInv

(* What is queued after a Publish came with it or keeps its id.             *)
LEMMA PublishIds ==
  ASSUME IInv, NEW e \in Events, Publish(e)
  PROVE  \A i \in Queued' : i.id > ingressOrdinal \/ \E j \in Queued : j.id = i.id
<1>0. ingressOrdinal \in Nat
  BY DEF IInv, TypeOK
<1>1. CASE PublishReject(e) \/ PublishDuplicate(e) \/ PublishCollision(e)
           \/ PublishDropReplacement(e)
  BY <1>1 DEF PublishReject, PublishDuplicate, PublishCollision, PublishDropReplacement, Queued
<1>2. CASE PublishCoalesce(e)
  <2> DEFINE old == LaneOwner(e)
             new == [old EXCEPT !.ev = e, !.token = EventToken(e, TRUE),
                                !.sequence = ingressOrdinal + 1]
  <2>1. old \in normal /\ old \in Item
    BY <1>2, LaneOwnerFound DEF PublishCoalesce, Replaces, IInv, TypeOK
  <2>2. new.id = old.id
    BY <2>1 DEF Item
  <2>3. normal' = (normal \ {old}) \cup {new} /\ critical' = critical
    BY <1>2 DEF PublishCoalesce
  <2> HIDE DEF old, new
  <2> QED BY <2>1, <2>2, <2>3 DEF Queued
<1>3. ASSUME NEW i \in ClosedLaneQueue(e) PROVE \E j \in Queued : j.id = i.id
  BY <1>3, LaneCloses DEF Queued
<1>4. CASE PublishAccept(e)
  <2> DEFINE item == [id |-> ingressOrdinal + 1, sequence |-> ingressOrdinal + 1, ev |-> e,
                      token |-> EventToken(e, Coalescible(e)),
                      coalescible |-> Coalescible(e)]
  <2>1. item.id = ingressOrdinal + 1
    OBVIOUS
  <2>2. /\ normal' = ClosedLaneQueue(e) \cup (IF e.critical THEN {} ELSE {item})
        /\ critical' = critical \cup (IF e.critical THEN {item} ELSE {})
    BY <1>4 DEF PublishAccept
  <2> HIDE DEF item
  <2>3. \A i \in Queued' : i = item \/ i \in ClosedLaneQueue(e) \/ i \in Queued
    BY <2>2 DEF Queued
  <2> QED BY <1>0, <1>3, <2>1, <2>3
<1>5. CASE PublishDrop(e)
  BY <1>3, <1>5 DEF PublishDrop, Queued
<1> QED BY <1>1, <1>2, <1>4, <1>5 DEF Publish

(* Run empties the prefix, looks for an error in it and shows the newest    *)
(* commit before it says "ok".                                              *)
LEMMA RunFlushHonest ==
  ASSUME StoreIInv, GenerationsAgree, FlushIInv, RunsUntilStop', Run
  PROVE  FlushIInv'
<1> USE DEF FlushIInv
<1>1. ASSUME ~(pc' \in Flushed), ErrorsKnown' PROVE FlushIInv'
  BY <1>1 DEF Flushed, PrefixGone, ErrorsLater, NewestShown, ReplyOk
<1>2. ASSUME pc' = "reply", flushResult' # "ok", ErrorsKnown' PROVE FlushIInv'
  BY <1>2 DEF PrefixGone, ErrorsLater, NewestShown, ReplyOk
<1>3. UNCHANGED errorVars => ErrorsKnown'
  BY DEF ErrorsKnown, errorVars
<1>4. CASE Finish
  <2>1. PICK i \in inflight : inflight = {i}
    BY <1>4 DEF Finish, ApplyFinish, StoreIInv, IInv, TypeOK
  <2>2. (CHOOSE j \in inflight : TRUE).id = i.id /\ i.id \in Nat /\ i.id # 0
    <3>1. i.id \in 1..ingressOrdinal /\ ingressOrdinal \in Nat
      BY DEF StoreIInv, IInv, ItemsApart, Owned, TypeOK
    <3>2. (CHOOSE j \in inflight : TRUE) = i
      BY <2>1
    <3>3. i.id \in Nat /\ i.id # 0
      BY <3>1
    <3> QED BY <3>2, <3>3
  <2>3. \/ UNCHANGED errorVars
        \/ /\ prefixErrorAt' = IF prefixErrorAt = 0 \/ i.id < prefixErrorAt THEN i.id ELSE prefixErrorAt
           /\ refused' = refused \cup {i.id}
    BY <1>4, <2>2 DEF Finish
  <2>4. refused \subseteq Nat /\ prefixErrorAt \in Nat
    BY DEF StoreIInv, StoreTypeOK, LoopTypes
  <2>5. ErrorsKnown'
    <3>1. CASE UNCHANGED errorVars
      BY <1>3, <3>1
    <3>2. CASE /\ prefixErrorAt' = IF prefixErrorAt = 0 \/ i.id < prefixErrorAt THEN i.id ELSE prefixErrorAt
               /\ refused' = refused \cup {i.id}
      <4>1. prefixErrorAt' # 0 /\ prefixErrorAt' <= i.id
        BY <2>2, <2>4, <3>2
      <4>2. \A n \in refused : prefixErrorAt' <= n
        BY <2>2, <2>4, <3>2 DEF ErrorsKnown
      <4> QED BY <3>2, <4>1, <4>2 DEF ErrorsKnown
    <3> QED BY <2>3, <3>1, <3>2
  <2>6. pc' \in Flushed => pc' = "reply" /\ flushResult' # "ok"
    <3>1. back \in {"pop", "drain", "flush"} /\ pc' = AfterApply
      BY <1>4 DEF Finish, StoreIInv, StoreTypeOK, LoopTypes
    <3>2. pc' \in Flushed => back = "flush" /\ applyResult = "fatal" /\ pc' = "reply"
      BY <3>1 DEF AfterApply, Flushed
    <3> QED BY <1>4, <3>2 DEF Finish
  <2> QED BY <1>1, <1>2, <2>5, <2>6
<1>5. CASE pc' \notin Flushed /\ UNCHANGED errorVars
  BY <1>1, <1>3, <1>5
<1>6. CASE (ApplyCancel \/ ApplyWithoutClock) /\ pc' = "reply"
  <2>1. flushResult' # "ok" /\ UNCHANGED errorVars
    BY <1>6 DEF ApplyCancel, ApplyWithoutClock
  <2> QED BY <1>2, <1>3, <1>6, <2>1
<1>7. CASE PopFlush /\ pc' = "prefix"
  <2>1. Prefix(Cutoff) = {} /\ Step("prefix")
    BY <1>7 DEF PopFlush, PopFor
  <2>2. UNCHANGED <<normal, critical, flushing, callers, errorVars>>
    BY <2>1 DEF Step, Goto, queueVars, callVars
  <2>3. flushing \in Callers /\ Cutoff \in Nat
    BY <1>7 DEF PopFlush, Cutoff, StoreIInv, StoreTypeOK, LoopTypes, CallerTypes, CallerRecord
  <2>4. \A i \in Queued : i.id > Cutoff
    <3>1. \A i \in Queued : i.id \in Nat /\ ~(i.id <= Cutoff)
      BY <2>1 DEF Prefix, StoreIInv, IInv, TypeOK, Item, Queued
    <3> QED BY <2>3, <3>1
  <2>5. PrefixGone'
    BY <2>2, <2>4 DEF PrefixGone, Queued, Cutoff
  <2>6. ErrorsLater' /\ NewestShown'
    BY <1>7 DEF ErrorsLater, NewestShown, ReplyOk
  <2> QED BY <1>3, <2>2, <2>5, <2>6
<1>8. CASE CheckPrefix
  <2>1. /\ pc = "prefix" /\ pc' = "flushPublish"
        /\ flushResult' = IF PrefixError THEN "admission" ELSE flushResult
        /\ UNCHANGED <<normal, critical, flushing, callers, errorVars>>
    BY <1>8 DEF CheckPrefix, queueVars, callVars
  <2>2. PrefixGone'
    BY <2>1 DEF PrefixGone, Queued, Cutoff
  <2>3. flushing \in Callers /\ Cutoff \in Nat
    BY <2>1 DEF Cutoff, StoreIInv, StoreTypeOK, LoopTypes, CallerTypes, CallerRecord
  <2>4. ~PrefixError => \A n \in refused : n > Cutoff
    <3>1. refused \subseteq Nat /\ prefixErrorAt \in Nat
      BY DEF StoreIInv, StoreTypeOK, LoopTypes
    <3> QED BY <2>3, <3>1 DEF PrefixError, ErrorsKnown
  <2>5. ErrorsLater'
    BY <2>1, <2>4 DEF ErrorsLater, ReplyOk, errorVars, Cutoff
  <2>6. NewestShown'
    BY <2>1 DEF NewestShown, ReplyOk
  <2> QED BY <1>3, <2>1, <2>2, <2>5, <2>6
<1>9. CASE FlushPublish
  <2>1. /\ pc = "flushPublish" /\ pc' = "reply" /\ flushResult' = flushResult
        /\ UNCHANGED <<normal, critical, flushing, callers, errorVars>>
        /\ IF pendingGeneration = 0 THEN UNCHANGED genVars
           ELSE published' = pendingGeneration /\ UNCHANGED current
    BY <1>9 DEF FlushPublish, Goto, Expose, queueVars, callVars
  <2>2. PrefixGone'
    BY <2>1 DEF PrefixGone, Queued, Cutoff
  <2>3. ErrorsLater'
    BY <2>1 DEF ErrorsLater, ReplyOk, errorVars, Cutoff
  <2>4. published' = current'
    BY <2>1 DEF RunsUntilStop, Live, GenerationsAgree, genVars
  <2> QED BY <1>3, <2>1, <2>2, <2>3, <2>4 DEF NewestShown
<1> QED BY <1>4, <1>5, <1>6, <1>7, <1>8, <1>9, RunFlushes

(* No step makes a flush dishonest.                                         *)
LEMMA StoreNextFlush ==
  ASSUME StoreIInv, GenerationsAgree, FlushIInv, [StoreNext]_storeVars
  PROVE  FlushIInv'
<1>0. RunsUntilStop' /\ StoreIInv'
  BY StopsKnown, StoreNextTypes DEF FlushIInv
<1>1. ASSUME NEW e \in Events, StorePublish(e) PROVE FlushIInv'
  <2>1. Publish(e) /\ UNCHANGED <<pc, flushing, flushResult, errorVars, callers, published, current>>
    BY <1>1 DEF StorePublish, Publish, schedVars, loopVars, callVars, genVars
  <2>2. \A i \in Queued' : i.id > ingressOrdinal \/ \E j \in Queued : j.id = i.id
    BY <2>1, PublishIds DEF StoreIInv
  <2> QED BY <1>0, <2>1, <2>2, FlushLeft
<1>2. CASE Run
  BY <1>0, <1>2, RunFlushHonest
<1>3. CASE Fire \/ Tick \/ Cancel \/ UNCHANGED storeVars
  <2>1. UNCHANGED <<pc, flushing, flushResult, errorVars, callers, published, current, normal, critical>>
    BY <1>3 DEF Fire, Tick, Cancel, storeVars, schedVars, loopVars, callVars, genVars, queueVars
  <2> QED BY <1>0, <2>1, FlushLeft DEF Queued
<1>4. ASSUME NEW c \in Callers, FlushCall(c) \/ FlushGivesUp(c) \/ FlushReturns(c)
      PROVE  FlushIInv'
  <2>1. UNCHANGED <<pc, flushing, flushResult, errorVars, published, current, normal, critical>>
    BY <1>4 DEF FlushCall, FlushGivesUp, FlushReturns, callOnlyVars, loopVars, genVars, queueVars
  <2>2. ASSUME flushing # NoCaller PROVE callers'[flushing].cutoff = callers[flushing].cutoff
    <3>1. /\ callers \in [Callers -> CallerRecord] /\ flushing \in Callers
          /\ callers[flushing].pc # "idle"
      BY <2>2 DEF StoreIInv, StoreTypeOK, LoopTypes, CallerTypes, Bookkeeping
    <3>2. callers[c] \in CallerRecord
      BY <3>1
    <3>3. CASE flushing # c
      BY <1>4, <3>1, <3>3 DEF FlushCall, FlushGivesUp, FlushReturns
    <3>4. CASE flushing = c
      BY <1>4, <3>1, <3>2, <3>4 DEF FlushCall, FlushGivesUp, FlushReturns, CallerRecord
    <3> QED BY <3>3, <3>4
  <2> QED BY <1>0, <2>1, <2>2, FlushLeft DEF Queued
<1>5. ASSUME NEW p \in Pinners, PinCall(p) \/ PinProceeds(p) PROVE FlushIInv'
  <2>1. UNCHANGED <<pc, flushing, flushResult, errorVars, callers, normal, critical>>
    BY <1>5 DEF PinCall, PinProceeds, PinFence, PinNothing, PinChanges, pinOnlyVars, loopVars,
                queueVars
  <2>2. published = current => published' = current'
    <3>1. current \in Nat
      BY DEF StoreIInv, StoreTypeOK, GenerationTypes
    <3> QED BY <1>5, <3>1 DEF PinCall, PinProceeds, PinFence, PinNothing, PinChanges, genVars
  <2> QED BY <1>0, <2>1, <2>2, FlushLeft DEF Queued
<1> QED BY <1>1, <1>2, <1>3, <1>4, <1>5 DEF StoreNext

(* Only a Reply says "ok" to a caller, to the one whose flush it ends.      *)
LEMMA WhoSaysOk ==
  ASSUME StoreIInv, [StoreNext]_storeVars, NEW c \in Callers,
         callers[c].answer # "ok", callers'[c].answer = "ok"
  PROVE  c = flushing /\ ReplyOk
<1>1. callers \in [Callers -> CallerRecord] /\ callers' # callers
  BY DEF StoreIInv, StoreTypeOK, CallerTypes
<1>2. ASSUME NEW e \in Events, StorePublish(e) PROVE FALSE
  BY <1>1, <1>2 DEF StorePublish, schedVars, callVars
<1>3. ASSUME Run PROVE Reply
  <2>1. ASSUME NEW reason, Stop(reason) PROVE FALSE
    BY <1>1, <2>1 DEF Stop, callVars
  <2>2. ~(TopCanceled \/ SelectCanceled \/ TimerWithoutClock \/ AdvanceFails \/ PublishFails)
    BY <2>1 DEF TopCanceled, SelectCanceled, TimerWithoutClock, AdvanceFails, PublishFails
  <2>3. ~(Start \/ PopFlushRequest \/ NoFlushRequest \/ TakeFiredTimer \/ ApplyCancel
            \/ ApplyWithoutClock \/ Finish)
    BY <1>1 DEF Start, PopFlushRequest, NoFlushRequest, TakeFiredTimer, ApplyCancel,
                ApplyWithoutClock, Finish, Step, callVars
  <2>4. ~(PopNext \/ PopDrain \/ PopFlush)
    BY <1>1 DEF PopNext, PopDrain, PopFlush, PopFor, Step, callVars
  <2>5. ~(ApplyAny \/ AdvanceAny)
    BY <1>1 DEF ApplyAny, Apply, AdvanceAny, Advance, callVars
  <2>6. ~ArmScheduler
    BY <1>1, Arming DEF callVars
  <2>7. ~(\/ HandleTimer \/ Rearm \/ CheckFlush \/ Ready \/ AdvanceHeldUp \/ MoveCursor
          \/ PublishHeldUp \/ PublishCommit \/ PublishRefused \/ CheckPrefix \/ FlushPublish
          \/ Wake \/ Woken \/ BeginStop \/ PublishFinalFails \/ EndStop)
    BY <1>1 DEF HandleTimer, Rearm, CheckFlush, Ready, AdvanceHeldUp, MoveCursor, PublishHeldUp,
                PublishCommit, PublishRefused, CheckPrefix, FlushPublish, Wake, Woken, BeginStop,
                PublishFinalFails, EndStop, Step, callVars
  <2>8. ~(\E gaps \in GapLedgers, changed \in BOOLEAN :
            PublishWithDiagnostics(gaps, changed) \/ PublishFinal(gaps, changed))
    BY <1>1 DEF PublishWithDiagnostics, PublishFinal, callVars
  <2> QED BY <1>3, <2>2, <2>3, <2>4, <2>5, <2>6, <2>7, <2>8 DEF Run
<1>4. ~(Fire \/ Tick \/ Cancel \/ UNCHANGED storeVars)
  BY <1>1 DEF Fire, Tick, Cancel, storeVars, schedVars, callVars
<1>5. ASSUME NEW d \in Callers, FlushCall(d) \/ FlushGivesUp(d) \/ FlushReturns(d) PROVE FALSE
  <2>1. callers[c] \in CallerRecord /\ callers[d] \in CallerRecord
    BY <1>1
  <2>2. d = c
    BY <1>1, <1>5 DEF FlushCall, FlushGivesUp, FlushReturns
  <2>3. ~FlushCall(c)
    BY <1>1, <2>1 DEF FlushCall, CallerRecord
  <2>4. ~FlushGivesUp(c)
    BY <1>1, <2>1 DEF FlushGivesUp, CallerRecord
  <2>5. ~FlushReturns(c)
    BY <1>1, <2>1 DEF FlushReturns, CallerRecord
  <2> QED BY <1>5, <2>2, <2>3, <2>4, <2>5
<1>6. ASSUME NEW p \in Pinners, PinCall(p) \/ PinProceeds(p) PROVE FALSE
  BY <1>1, <1>6 DEF PinCall, PinProceeds, PinFence, PinNothing, PinChanges, pinOnlyVars
<1>7. Reply
  BY <1>2, <1>3, <1>4, <1>5, <1>6 DEF StoreNext
<1> QED BY <1>1, <1>7 DEF Reply, ReplyOk, CallerRecord

(* A commit that stays unpublished keeps the batch clock it found running.  *)
LEMMA ClockStays ==
  ASSUME StoreIInv, GenerationsAgree, RunsUntilStop, [StoreNext]_storeVars,
         pendingGeneration # 0, pendingGeneration' # 0
  PROVE  firstDirty' = firstDirty
<1>0. pc \notin {"stopping", "done"} => firstDirty # 0
  BY DEF RunsUntilStop, Live, GenerationsAgree
<1>1. ASSUME NEW e \in Events, StorePublish(e) PROVE firstDirty' = firstDirty
  BY <1>1 DEF StorePublish, FreshIngress, schedVars, dirtyVars
<1>2. CASE TopCanceled \/ SelectCanceled \/ TimerWithoutClock \/ AdvanceFails \/ PublishFails
  <2>1. ASSUME NEW reason, Stop(reason) PROVE firstDirty' = firstDirty
    BY <2>1 DEF Stop, dirtyVars
  <2> QED BY <1>2, <2>1 DEF TopCanceled, SelectCanceled, TimerWithoutClock, AdvanceFails, PublishFails
<1>3. CASE \/ Start \/ PopFlushRequest \/ NoFlushRequest \/ TakeFiredTimer \/ ApplyCancel
           \/ ApplyWithoutClock
  BY <1>3 DEF Start, PopFlushRequest, NoFlushRequest, TakeFiredTimer, ApplyCancel, ApplyWithoutClock,
              Step, dirtyVars
<1>4. CASE PopNext \/ PopDrain \/ PopFlush
  BY <1>4 DEF PopNext, PopDrain, PopFlush, PopFor, Step, dirtyVars
<1>5. CASE ApplyAny \/ Finish \/ AdvanceAny
  <2>1. firstDirty # 0
    BY <1>0, <1>5 DEF ApplyAny, Apply, Finish, AdvanceAny, Advance
  <2> QED BY <1>5, <2>1 DEF ApplyAny, Apply, Dirtied, Finish, AdvanceAny, Advance
<1>6. CASE ArmScheduler
  BY <1>6, Arming DEF dirtyVars
<1>7. CASE \/ HandleTimer \/ Rearm \/ CheckFlush \/ Ready \/ AdvanceHeldUp \/ MoveCursor
           \/ PublishHeldUp \/ PublishRefused \/ CheckPrefix \/ Reply \/ Wake \/ Woken
           \/ BeginStop \/ PublishFinalFails
  BY <1>7 DEF HandleTimer, Rearm, CheckFlush, Ready, AdvanceHeldUp, MoveCursor, PublishHeldUp,
              PublishRefused, CheckPrefix, Reply, Wake, Woken, BeginStop, PublishFinalFails, Step,
              dirtyVars
<1>8. ~(PublishCommit \/ FlushPublish \/ EndStop)
  BY DEF PublishCommit, FlushPublish, EndStop, Expose
<1>9. ASSUME NEW gaps \in GapLedgers, NEW changed \in BOOLEAN,
             PublishWithDiagnostics(gaps, changed) \/ PublishFinal(gaps, changed)
      PROVE  FALSE
  BY <1>9 DEF PublishWithDiagnostics, PublishFinal, Expose
<1>10. CASE Run
  BY <1>2, <1>3, <1>4, <1>5, <1>6, <1>7, <1>8, <1>9, <1>10 DEF Run
<1>11. CASE Fire \/ Tick \/ Cancel \/ UNCHANGED storeVars
  BY <1>11 DEF Fire, Tick, Cancel, storeVars, schedVars, dirtyVars
<1>12. ASSUME NEW c \in Callers, FlushCall(c) \/ FlushGivesUp(c) \/ FlushReturns(c)
       PROVE  firstDirty' = firstDirty
  BY <1>12 DEF FlushCall, FlushGivesUp, FlushReturns, callOnlyVars, dirtyVars
<1>13. ASSUME NEW p \in Pinners, PinCall(p) \/ PinProceeds(p) PROVE firstDirty' = firstDirty
  BY <1>13 DEF PinCall, PinProceeds, PinFence, PinNothing, PinChanges, dirtyVars
<1> QED BY <1>1, <1>10, <1>11, <1>12, <1>13 DEF StoreNext

(* What an honest flush says of one caller.                                 *)
Told(c) ==
  /\ \A i \in Owned : i.id > callers[c].cutoff
  /\ \A n \in refused : n > callers[c].cutoff
  /\ published = current

(* "ok" says what it means.                                                 *)
LEMMA OkIsHonest ==
  ASSUME StoreIInv, FlushIInv, [StoreNext]_storeVars, NEW c \in Callers,
         callers[c].answer # "ok", callers'[c].answer = "ok"
  PROVE  Told(c)
<1>1. c = flushing /\ ReplyOk
  BY WhoSaysOk
<1>2. Cutoff = callers[c].cutoff
  BY <1>1 DEF Cutoff
<1>3. halt = "no"
  BY <1>1 DEF FlushIInv, RunsUntilStop, ReplyOk
<1>4. applyStep = "idle"
  BY <1>1 DEF ReplyOk, StoreIInv, StoreTypeOK, LoopTypes, IInv, TypeOK
<1>5. inflight = {} /\ preApply = {}
  BY <1>3, <1>4 DEF StoreIInv, IInv, TypeOK
<1>6. Owned = Queued
  BY <1>5 DEF Owned, Queued
<1>7. /\ \A i \in Queued : i.id > Cutoff
      /\ \A n \in refused : n > Cutoff
      /\ published = current
  BY <1>1 DEF FlushIInv, PrefixGone, ErrorsLater, NewestShown
<1> QED BY <1>2, <1>6, <1>7 DEF Told

(* A flush answers "ok" only when every event accepted before it was called *)
(* is applied without an error and readers see the newest commit; and while *)
(* a commit stays unpublished nothing moves its batch clock, for every      *)
(* number of callers and pins, every limit and every outcome of an Apply    *)
(* (handleFlushRequest, appliedPrefixError, publishPendingForFlush,         *)
(* retainUnpublishedCurrentLocked).                                         *)
THEOREM VisibilityAlwaysHonest == StoreSpec => VisibilityHonest
<1>1. StoreInit => FlushIInv
  BY DEF StoreInit, Init, FlushIInv, RunsUntilStop, Live, ErrorsKnown, PrefixGone, ErrorsLater,
         NewestShown, ReplyOk
<1>2. StoreIInv /\ GenerationsAgree /\ FlushIInv /\ [StoreNext]_storeVars => FlushIInv'
  BY StoreNextFlush
<1>3. StoreIInv /\ GenerationsAgree /\ FlushIInv /\ [StoreNext]_storeVars
        => (pendingGeneration # 0 /\ pendingGeneration' # 0 => firstDirty' = firstDirty)
  BY ClockStays DEF FlushIInv
<1>4. StoreIInv /\ FlushIInv /\ [StoreNext]_storeVars
        => \A c \in Callers :
             (callers[c].answer # "ok" /\ callers'[c].answer = "ok") =>
               /\ \A i \in Owned : i.id > callers[c].cutoff
               /\ \A n \in refused : n > callers[c].cutoff
               /\ published = current
  BY OkIsHonest DEF Told
<1>5. StoreSpec => BatchClockFixed
  BY <1>1, <1>2, <1>3, StoreSpecIInv, GenerationsAlwaysAgree, PTL DEF StoreSpec, BatchClockFixed
<1>6. StoreSpec => FlushHonest
  BY <1>1, <1>2, <1>4, StoreSpecIInv, GenerationsAlwaysAgree, PTL DEF StoreSpec, FlushHonest
<1> QED BY <1>5, <1>6 DEF VisibilityHonest

=============================================================================
