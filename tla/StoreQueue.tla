------------------------------ MODULE StoreQueue ------------------------------
(***************************************************************************)
(* The ingress side of the graph Store (src/internal/graph/store.go):      *)
(* Publish with its replay, collision and coalescing rules, the byte and   *)
(* slot budgets, the pending diagnostics that stand for refused events,    *)
(* the dequeue with its 32:1 rule, the ownership of the one event being    *)
(* applied, and the disposal of everything still owned when Run stops.     *)
(*                                                                         *)
(* Each action is one critical section of queueMu. When the run loop       *)
(* dequeues, what ends it, and when diagnostics are committed is left      *)
(* open here; module Store adds the scheduler that decides it.             *)
(*                                                                         *)
(* A queue is the set of its items. Items are appended with a fresh, ever  *)
(* growing firstSequence and a replacement keeps it, so the slice order of *)
(* the code is the order of firstSequence, here the item's id.             *)
(***************************************************************************)
EXTENDS Integers, FiniteSets, FiniteSetsExt

CONSTANTS
  Events,           (* the events a collector may publish (EventRecord)       *)
  ReplayKeys,       (* replay digests                                         *)
  Prints,           (* event fingerprints                                     *)
  Lanes, NoLane,    (* coalesce keys, and the key of what never coalesces     *)
  Fields,           (* the optional metrics an event may carry                *)
  GapIds,           (* ordinary gap identities (source, capability, kind)     *)
  SequenceGaps,     (* those a late event may close again                     *)
  GapCharge,        (* bytes each ordinary identity charges                   *)
  EventQueue, CriticalReserve, QueuedByteLimit,   (* StoreConfig              *)
  CoalesceCharge,   (* storeCoalesceEntryCharge                               *)
  DiagReserve,      (* storeDiagnosticReserve                                 *)
  MaxGaps,          (* the Reconciler's gap limit                             *)
  DebtLimit,        (* critical dequeues before a ready normal one, 32        *)
  CountCeiling,     (* maxJSONSafeInteger                                     *)
  MaxCalls          (* bound: Publish calls that are counted                  *)

EventRecord ==
  [replay: ReplayKeys, print: Prints, lane: Lanes \cup {NoLane},
   critical: BOOLEAN, base: Nat, ordered: BOOLEAN, stamp: Nat,
   fields: SUBSET Fields, gap: GapIds \ SequenceGaps]

(* The three identities every Store keeps room for.                        *)
Reserved == {"critical", "normal", "ledger"}
DiagKeys == GapIds \cup Reserved

(* newStore's rules, and what CoalesceKey and storeEventCritical imply: a  *)
(* critical event never has a coalesce key.                                *)
ASSUME QueueAssumption ==
  /\ Events \subseteq EventRecord
  /\ \A e \in Events : e.critical => e.lane = NoLane
  /\ NoLane \notin Lanes
  /\ GapIds \cap Reserved = {}
  /\ IsFiniteSet(GapIds) /\ SequenceGaps \subseteq GapIds
  /\ GapCharge \in [GapIds -> Nat]
  /\ EventQueue \in Nat /\ CriticalReserve \in Nat
  /\ 0 < CriticalReserve /\ CriticalReserve < EventQueue
  /\ CoalesceCharge \in Nat /\ DiagReserve \in Nat /\ QueuedByteLimit \in Nat
  /\ QueuedByteLimit >= 3 * DiagReserve
  /\ MaxGaps \in Nat /\ MaxGaps >= 3 /\ DebtLimit \in Nat \ {0}
  /\ CountCeiling \in Nat \ {0} /\ MaxCalls \in Nat

VARIABLES
  lifecycle,            (* storeLifecycle                                     *)
  halt,                 (* why Run is about to return, once it is             *)
  normal, critical,     (* the two queues                                     *)
  inflight,             (* the dequeued item Run owns, if any                 *)
  preApply,             (* the item whose Apply was canceled before it began  *)
  applyStep,            (* where the run loop is with the inflight item       *)
  applyResult,          (* the outcome its Apply returned                     *)
  pendingReplay,        (* replay key -> id of the owned item, 0 if none      *)
  pendingCoalesce,      (* lane -> id of the replaceable item, 0 if none      *)
  queuedBytes, inFlightBytes,
  pendingDiagnostics,   (* identity -> pending count, 0 if none               *)
  ordinaryDiagnosticBytes, fixedDiagnosticBytes,
  activeGaps,           (* ordinary identities open in the Reconciler ledger  *)
  reported,             (* identity -> losses handed to the gap ledger        *)
  abortedDiagnostics,   (* identity -> losses an abort gave up on             *)
  ingressOrdinal, criticalDebt,
  stats

laneVars  == <<pendingReplay, pendingCoalesce>>
byteVars  == <<queuedBytes, inFlightBytes>>
diagVars  == <<pendingDiagnostics, ordinaryDiagnosticBytes, fixedDiagnosticBytes>>
applyVars == <<inflight, preApply, applyStep, applyResult>>
lossVars  == <<reported, abortedDiagnostics>>
runVars   == <<lifecycle, halt>>
queueVars ==
  <<runVars, normal, critical, applyVars, laneVars, byteVars, diagVars,
    activeGaps, lossVars, ingressOrdinal, criticalDebt, stats>>

Item ==
  [id: Nat, sequence: Nat, ev: Events, token: Int, coalescible: BOOLEAN]

Counters ==
  {"accepted", "coalesced", "duplicates", "rejected", "collisions", "dropped",
   "applied", "applyErrors", "canceled", "aborted"}

Queued == normal \cup critical
Owned  == Queued \cup inflight \cup preApply

Init ==
  /\ lifecycle = "open" /\ halt = "no"
  /\ normal = {} /\ critical = {} /\ inflight = {} /\ preApply = {}
  /\ applyStep = "idle" /\ applyResult = "ok"
  /\ pendingReplay = [k \in ReplayKeys |-> 0]
  /\ pendingCoalesce = [l \in Lanes |-> 0]
  /\ queuedBytes = 0 /\ inFlightBytes = 0
  /\ pendingDiagnostics = [k \in DiagKeys |-> 0]
  /\ ordinaryDiagnosticBytes = 0 /\ fixedDiagnosticBytes = 0
  /\ activeGaps = {}
  /\ reported = [k \in DiagKeys |-> 0]
  /\ abortedDiagnostics = [k \in DiagKeys |-> 0]
  /\ ingressOrdinal = 0 /\ criticalDebt = 0
  /\ stats = [c \in Counters |-> 0]

Count(c) == stats' = [stats EXCEPT ![c] = @ + 1]

-----------------------------------------------------------------------------
(* Budgets.                                                                *)

EventLimit == QueuedByteLimit - 3 * DiagReserve

(* Mutant: the event being applied no longer counts.                       *)
FitsWithoutInFlight(queued, add) ==
  queued + ordinaryDiagnosticBytes + add <= EventLimit

(* eventFitsLocked and ordinaryDiagnosticFitsLocked: neither events nor    *)
(* ordinary diagnostics may enter the room kept for the reserved ones.     *)
FitsBelowReserve(queued, add) ==
  queued + inFlightBytes + ordinaryDiagnosticBytes + add <= EventLimit

TotalFits(queued, add) ==
  queued + inFlightBytes + ordinaryDiagnosticBytes + fixedDiagnosticBytes + add
    <= QueuedByteLimit

EventToken(e, coalescible) == e.base + (IF coalescible THEN CoalesceCharge ELSE 0)

-----------------------------------------------------------------------------
(* Pending diagnostics.                                                    *)

DiagCharge(k) == IF k \in Reserved THEN DiagReserve ELSE GapCharge[k]

PendingOrdinary == {g \in GapIds : pendingDiagnostics[g] > 0}

(* A new ordinary identity is only opened below MaxGaps - 3; past it the   *)
(* loss is counted under the gap ledger's own identity.                    *)
FinalDiagnosticIdentity(k) ==
  IF \/ k \in Reserved \cup PendingOrdinary \cup activeGaps
     \/ Cardinality(PendingOrdinary \cup activeGaps) < MaxGaps - 3
  THEN k ELSE "ledger"

DiagnosticTarget(k, queued) ==
  LET final == FinalDiagnosticIdentity(k)
  IN  IF \/ final \in Reserved \cup PendingOrdinary
         \/ FitsBelowReserve(queued, DiagCharge(final))
      THEN final ELSE "ledger"

(* recordGapLocked: merge into a pending identity with a saturating count, *)
(* or open one if the byte budget has room for it.                         *)
RecordGap(k, queued) ==
  LET target == DiagnosticTarget(k, queued)
      charge == DiagCharge(target)
      known  == pendingDiagnostics[target] > 0
  IN  IF known \/ TotalFits(queued, charge)
      THEN /\ pendingDiagnostics' = [pendingDiagnostics EXCEPT
                ![target] = IF @ < CountCeiling THEN @ + 1 ELSE @]
           /\ ordinaryDiagnosticBytes' = ordinaryDiagnosticBytes +
                (IF known \/ target \in Reserved THEN 0 ELSE charge)
           /\ fixedDiagnosticBytes' = fixedDiagnosticBytes +
                (IF ~known /\ target \in Reserved THEN charge ELSE 0)
      ELSE UNCHANGED diagVars

NoDiagnostics ==
  /\ pendingDiagnostics' = [k \in DiagKeys |-> 0]
  /\ ordinaryDiagnosticBytes' = 0 /\ fixedDiagnosticBytes' = 0

DiagnosticsPending == \E k \in DiagKeys : pendingDiagnostics[k] > 0

Plus(f, g) == [k \in DiagKeys |-> f[k] + g[k]]

-----------------------------------------------------------------------------
(* Publish.                                                                *)

Calls ==
  stats["accepted"] + stats["coalesced"] + stats["duplicates"]
    + stats["rejected"] + stats["dropped"]

Accepting == lifecycle \in {"open", "running"}

(* Publish decided this event is small enough, and the lifecycle check     *)
(* under queueMu passed.                                                   *)
Admitted(e) ==
  /\ Calls < MaxCalls
  /\ Accepting
  /\ EventToken(e, e.lane # NoLane) <= QueuedByteLimit

ReplayOwner(e) == CHOOSE i \in Owned : i.id = pendingReplay[e.replay]
LaneOwner(e)   == CHOOSE i \in Owned : i.id = pendingCoalesce[e.lane]

Replayed(e)  == pendingReplay[e.replay] # 0
LaneTaken(e) == e.lane \in Lanes /\ pendingCoalesce[e.lane] # 0

(* canCoalesceReplace: same ordering regime, strictly newer, and no metric *)
(* the older event carried goes missing.                                   *)
CanCoalesceReplace(older, newer) ==
  /\ older.ordered = newer.ordered
  /\ older.fields \subseteq newer.fields
  /\ newer.stamp > older.stamp

Replaces(e) == LaneTaken(e) /\ CanCoalesceReplace(LaneOwner(e).ev, e)

ReplacementFits(e) ==
  FitsBelowReserve(queuedBytes - LaneOwner(e).token, EventToken(e, TRUE))

PublishReject(e) ==
  /\ Calls < MaxCalls
  /\ ~Accepting \/ EventToken(e, e.lane # NoLane) > QueuedByteLimit
  /\ Count("rejected")
  /\ UNCHANGED <<runVars, normal, critical, applyVars, laneVars, byteVars,
                 diagVars, activeGaps, lossVars, ingressOrdinal, criticalDebt>>

PublishDuplicate(e) ==
  /\ Admitted(e) /\ Replayed(e) /\ ReplayOwner(e).ev.print = e.print
  /\ Count("duplicates")
  /\ UNCHANGED <<runVars, normal, critical, applyVars, laneVars, byteVars,
                 diagVars, activeGaps, lossVars, ingressOrdinal, criticalDebt>>

PublishCollision(e) ==
  /\ Admitted(e) /\ Replayed(e) /\ ReplayOwner(e).ev.print # e.print
  /\ RecordGap(e.gap, queuedBytes)
  /\ stats' = [stats EXCEPT !["rejected"] = @ + 1, !["collisions"] = @ + 1]
  /\ UNCHANGED <<runVars, normal, critical, applyVars, laneVars, byteVars,
                 activeGaps, lossVars, ingressOrdinal, criticalDebt>>

(* The waiting item takes the newer event in place: its position, that is  *)
(* its id, stays; its sequence becomes the newest ordinal.                 *)
PublishCoalesce(e) ==
  /\ Admitted(e) /\ ~Replayed(e) /\ Replaces(e) /\ ReplacementFits(e)
  /\ LET old == LaneOwner(e)
         new == [old EXCEPT !.ev = e, !.token = EventToken(e, TRUE),
                            !.sequence = ingressOrdinal + 1]
     IN  /\ normal' = (normal \ {old}) \cup {new}
         /\ pendingReplay' = [pendingReplay EXCEPT ![old.ev.replay] = 0,
                                                   ![e.replay] = old.id]
         /\ queuedBytes' = queuedBytes + new.token - old.token
  /\ ingressOrdinal' = ingressOrdinal + 1
  /\ Count("coalesced")
  /\ UNCHANGED <<runVars, critical, applyVars, pendingCoalesce, inFlightBytes,
                 diagVars, activeGaps, lossVars, criticalDebt>>

PublishDropReplacement(e) ==
  /\ Admitted(e) /\ ~Replayed(e) /\ Replaces(e) /\ ~ReplacementFits(e)
  /\ RecordGap("normal", queuedBytes)
  /\ Count("dropped")
  /\ UNCHANGED <<runVars, normal, critical, applyVars, laneVars, byteVars,
                 activeGaps, lossVars, ingressOrdinal, criticalDebt>>

(* An event that finds its lane taken but may not replace the item there   *)
(* closes the lane: the item stays queued without its coalesce charge, and *)
(* the event itself queues behind it, not replaceable.                     *)
ClosedLaneQueue(e) ==
  IF LaneTaken(e)
  THEN LET old == LaneOwner(e)
       IN  (normal \ {old}) \cup
             {[old EXCEPT !.coalescible = FALSE, !.token = @ - CoalesceCharge]}
  ELSE normal

ClosedLanes(e) ==
  IF LaneTaken(e) THEN [pendingCoalesce EXCEPT ![e.lane] = 0] ELSE pendingCoalesce

(* Mutant: the coalesce charge of a closed lane stays on the books.        *)
ClosedLaneBytesKept(e) == queuedBytes

ClosedLaneBytes(e) == queuedBytes - (IF LaneTaken(e) THEN CoalesceCharge ELSE 0)

Coalescible(e) == e.lane \in Lanes /\ ~LaneTaken(e)

HasRoom(e) ==
  /\ FitsBelowReserve(ClosedLaneBytes(e), EventToken(e, Coalescible(e)))
  /\ IF e.critical THEN Cardinality(critical) < CriticalReserve
                   ELSE Cardinality(normal) < EventQueue - CriticalReserve

PublishAccept(e) ==
  /\ Admitted(e) /\ ~Replayed(e) /\ ~Replaces(e) /\ HasRoom(e)
  /\ LET id   == ingressOrdinal + 1
         item == [id |-> id, sequence |-> id, ev |-> e,
                  token |-> EventToken(e, Coalescible(e)),
                  coalescible |-> Coalescible(e)]
     IN  /\ normal' = ClosedLaneQueue(e) \cup (IF e.critical THEN {} ELSE {item})
         /\ critical' = critical \cup (IF e.critical THEN {item} ELSE {})
         /\ pendingReplay' = [pendingReplay EXCEPT ![e.replay] = id]
         /\ pendingCoalesce' = IF Coalescible(e)
                               THEN [pendingCoalesce EXCEPT ![e.lane] = id]
                               ELSE ClosedLanes(e)
         /\ queuedBytes' = ClosedLaneBytes(e) + item.token
         /\ ingressOrdinal' = id
  /\ Count("accepted")
  /\ UNCHANGED <<runVars, applyVars, inFlightBytes, diagVars, activeGaps, lossVars,
                 criticalDebt>>

PublishDrop(e) ==
  /\ Admitted(e) /\ ~Replayed(e) /\ ~Replaces(e) /\ ~HasRoom(e)
  /\ normal' = ClosedLaneQueue(e)
  /\ pendingCoalesce' = ClosedLanes(e)
  /\ queuedBytes' = ClosedLaneBytes(e)
  /\ RecordGap(IF e.critical THEN "critical" ELSE "normal", ClosedLaneBytes(e))
  /\ Count("dropped")
  /\ UNCHANGED <<runVars, critical, applyVars, pendingReplay, inFlightBytes,
                 activeGaps, lossVars, ingressOrdinal, criticalDebt>>

Publish(e) ==
  \/ PublishReject(e)
  \/ PublishDuplicate(e)
  \/ PublishCollision(e)
  \/ PublishCoalesce(e)
  \/ PublishDropReplacement(e)
  \/ PublishAccept(e)
  \/ PublishDrop(e)

-----------------------------------------------------------------------------
(* The run loop's side: dequeue, apply, finish.                            *)

RunStart ==
  /\ lifecycle = "open" /\ lifecycle' = "running"
  /\ UNCHANGED <<halt, normal, critical, applyVars, laneVars, byteVars,
                 diagVars, activeGaps, lossVars, ingressOrdinal, criticalDebt, stats>>

First(queue) == CHOOSE i \in queue : \A j \in queue : i.id <= j.id

(* Mutant: the debt never runs out.                                        *)
TakesCriticalAlways(eligible) == critical \cap eligible # {}

TakesCritical(eligible) ==
  /\ critical \cap eligible # {}
  /\ normal \cap eligible = {} \/ criticalDebt < DebtLimit

(* Mutant: the coalescing map still names what was dequeued.               *)
LanesAfterPopKept(item) == pendingCoalesce

LanesAfterPop(item) ==
  IF item.coalescible THEN [pendingCoalesce EXCEPT ![item.ev.lane] = 0]
                      ELSE pendingCoalesce

(* popQueueItemMode: the first eligible item of the class whose turn it    *)
(* is. The in-flight item keeps its base charge and its replay key, but    *)
(* not its coalesce entry.                                                 *)
Pop(eligible) ==
  /\ lifecycle = "running" /\ halt = "no" /\ applyStep = "idle"
  /\ eligible # {}
  /\ LET isCritical == TakesCritical(eligible)
         item == First((IF isCritical THEN critical ELSE normal) \cap eligible)
         kept == item.token - (IF item.coalescible THEN CoalesceCharge ELSE 0)
     IN  /\ critical' = critical \ {item}
         /\ normal' = normal \ {item}
         /\ criticalDebt' = IF ~isCritical THEN 0
                            ELSE IF criticalDebt < DebtLimit THEN criticalDebt + 1
                            ELSE criticalDebt
         /\ pendingCoalesce' = LanesAfterPop(item)
         /\ inflight' = {[item EXCEPT !.token = kept]}
         /\ queuedBytes' = queuedBytes - item.token
         /\ inFlightBytes' = inFlightBytes + kept
  /\ applyStep' = "popped"
  /\ UNCHANGED <<runVars, preApply, applyResult, pendingReplay, diagVars,
                 activeGaps, lossVars, ingressOrdinal, stats>>

(* Run takes any item, a timer those up to the ordinal it recorded, a flush *)
(* those first queued up to its request.                                   *)
UpTo(cutoff)   == {i \in Queued : i.sequence <= cutoff}
Prefix(cutoff) == {i \in Queued : i.id <= cutoff}

Eligibles ==
  {Queued} \cup {UpTo(c) : c \in 0..ingressOrdinal}
           \cup {Prefix(c) : c \in 0..ingressOrdinal}

(* Ordinary gaps the Reconciler may hold: its own ledger limit.            *)
GapLedgers == {g \in SUBSET GapIds : Cardinality(g) <= MaxGaps - 3}

(* applyOneOutcome up to the first unlock: the event is applied, with or   *)
(* without opening gaps or closing sequence gaps, or refused, or fails.    *)
ApplyBegin(result, gaps) ==
  /\ applyStep = "popped"
  /\ applyStep' = "applied" /\ applyResult' = result
  /\ result = "fatal" => gaps = activeGaps
  /\ activeGaps \ gaps \subseteq SequenceGaps
  /\ activeGaps' = gaps
  /\ UNCHANGED <<runVars, normal, critical, inflight, preApply, laneVars,
                 byteVars, diagVars, lossVars, ingressOrdinal, criticalDebt,
                 stats>>

ReleaseReplay(items) ==
  pendingReplay' = [k \in ReplayKeys |->
    IF \E i \in items : i.ev.replay = k THEN 0 ELSE pendingReplay[k]]

(* finishItemLocked: the item's replay key and in-flight bytes go.         *)
FinishItem ==
  /\ ReleaseReplay(inflight)
  /\ inFlightBytes' =
       LET token == (CHOOSE i \in inflight : TRUE).token
       IN  IF inFlightBytes >= token THEN inFlightBytes - token ELSE 0
  /\ inflight' = {} /\ applyStep' = "idle"

ApplyFinish ==
  /\ applyStep = "applied"
  /\ FinishItem
  /\ Count(IF applyResult = "ok" THEN "applied" ELSE "applyErrors")
  /\ halt' = IF applyResult = "fatal" THEN "abort" ELSE halt
  /\ UNCHANGED <<lifecycle, normal, critical, preApply, applyResult,
                 pendingCoalesce, queuedBytes, diagVars, activeGaps, lossVars,
                 ingressOrdinal, criticalDebt>>

(* The context ended between dequeue and Apply: the item is kept aside for *)
(* the stop to account for.                                                *)
ApplyCanceled ==
  /\ applyStep = "popped"
  /\ preApply' = inflight /\ inflight' = {} /\ applyStep' = "idle"
  /\ halt' = "cancel"
  /\ UNCHANGED <<lifecycle, normal, critical, applyResult, laneVars, byteVars,
                 diagVars, activeGaps, lossVars, ingressOrdinal, criticalDebt, stats>>

ApplyNoClock ==
  /\ applyStep = "popped"
  /\ FinishItem
  /\ Count("aborted")
  /\ halt' = "abort"
  /\ UNCHANGED <<lifecycle, normal, critical, preApply, applyResult,
                 pendingCoalesce, queuedBytes, diagVars, activeGaps, lossVars,
                 ingressOrdinal, criticalDebt>>

(* Run notices its canceled context, or a scheduler step failed.           *)
Halt(reason) ==
  /\ lifecycle = "running" /\ halt = "no" /\ applyStep = "idle"
  /\ halt' = reason
  /\ UNCHANGED <<lifecycle, normal, critical, applyVars, laneVars, byteVars,
                 diagVars, activeGaps, lossVars, ingressOrdinal, criticalDebt, stats>>

-----------------------------------------------------------------------------
(* Diagnostics leave in one batch; stop.                                   *)

(* prepareStoreDiagnostics: each pending identity is merged into the gap   *)
(* ledger, the ordinary ones under their own name as far as it has room.   *)
HandOver(gaps) ==
  /\ gaps \in GapLedgers
  /\ activeGaps \subseteq gaps /\ gaps \subseteq activeGaps \cup PendingOrdinary
  /\ activeGaps' = gaps
  /\ NoDiagnostics
  /\ reported' = Plus(reported, pendingDiagnostics)

PublishDiagnostics(gaps) ==
  /\ lifecycle = "running" /\ halt = "no" /\ applyStep = "idle"
  /\ DiagnosticsPending
  /\ HandOver(gaps)
  /\ UNCHANGED <<runVars, normal, critical, applyVars, laneVars, byteVars,
                 abortedDiagnostics, ingressOrdinal, criticalDebt, stats>>

StopBegin ==
  /\ lifecycle = "running" /\ halt \in {"cancel", "abort"} /\ applyStep = "idle"
  /\ lifecycle' = "stopping"
  /\ UNCHANGED <<halt, normal, critical, applyVars, laneVars, byteVars,
                 diagVars, activeGaps, lossVars, ingressOrdinal, criticalDebt, stats>>

(* publishPendingFinal: only a cancellation gets it; its failure turns the *)
(* stop into an abort.                                                     *)
StopPublish(gaps) ==
  /\ lifecycle = "stopping" /\ halt = "cancel"
  /\ halt' = "canceled"
  /\ HandOver(gaps)
  /\ UNCHANGED <<lifecycle, normal, critical, applyVars, laneVars, byteVars,
                 abortedDiagnostics, ingressOrdinal, criticalDebt, stats>>

StopPublishFails ==
  /\ lifecycle = "stopping" /\ halt = "cancel" /\ DiagnosticsPending
  /\ halt' = "abort"
  /\ UNCHANGED <<lifecycle, normal, critical, applyVars, laneVars, byteVars,
                 diagVars, activeGaps, lossVars, ingressOrdinal, criticalDebt, stats>>

Disposed == Queued \cup preApply

(* Mutant: an abort drops the pending diagnostics uncounted.               *)
GivenUpUncounted == abortedDiagnostics

GivenUp ==
  IF halt = "abort" THEN Plus(abortedDiagnostics, pendingDiagnostics)
                    ELSE abortedDiagnostics

StopEnd ==
  /\ lifecycle = "stopping" /\ halt \in {"canceled", "abort"}
  /\ lifecycle' = "stopped"
  /\ stats' = [stats EXCEPT ![IF halt = "abort" THEN "aborted" ELSE "canceled"]
                               = @ + Cardinality(Disposed)]
  /\ abortedDiagnostics' = GivenUp
  /\ normal' = {} /\ critical' = {} /\ preApply' = {}
  /\ pendingReplay' = [k \in ReplayKeys |-> 0]
  /\ pendingCoalesce' = [l \in Lanes |-> 0]
  /\ queuedBytes' = 0 /\ inFlightBytes' = 0
  /\ NoDiagnostics
  /\ UNCHANGED <<halt, inflight, applyStep, applyResult, activeGaps, reported,
                 ingressOrdinal, criticalDebt>>

Results == {"ok", "admission", "fatal"}

RunStep ==
  \/ RunStart
  \/ \E eligible \in Eligibles : Pop(eligible)
  \/ \E result \in Results, gaps \in GapLedgers : ApplyBegin(result, gaps)
  \/ ApplyFinish \/ ApplyCanceled \/ ApplyNoClock
  \/ \E reason \in {"cancel", "abort"} : Halt(reason)
  \/ \E gaps \in GapLedgers : PublishDiagnostics(gaps) \/ StopPublish(gaps)
  \/ StopBegin \/ StopPublishFails \/ StopEnd

Next == (\E e \in Events : Publish(e)) \/ RunStep

Spec == Init /\ [][Next]_queueVars

-----------------------------------------------------------------------------
(* Properties.                                                             *)

(* Every variable has its type, the queues respect their slot limits, and  *)
(* Run owns at most one dequeued event, exactly while it is applying it.   *)
TypeOK ==
  /\ lifecycle \in {"open", "running", "stopping", "stopped"}
  /\ halt \in {"no", "cancel", "canceled", "abort"}
  /\ normal \subseteq Item /\ IsFiniteSet(normal)
  /\ Cardinality(normal) <= EventQueue - CriticalReserve
  /\ critical \subseteq Item /\ IsFiniteSet(critical)
  /\ Cardinality(critical) <= CriticalReserve
  /\ inflight \subseteq Item /\ preApply \subseteq Item
  /\ applyStep \in {"idle", "popped", "applied"} /\ applyResult \in Results
  /\ IF applyStep = "idle" THEN inflight = {} ELSE \E i \in inflight : inflight = {i}
  /\ preApply # {} => /\ halt # "no" /\ applyStep = "idle"
                     /\ \E i \in preApply : preApply = {i}
  /\ pendingReplay \in [ReplayKeys -> Nat]
  /\ pendingCoalesce \in [Lanes -> Nat]
  /\ queuedBytes \in Int /\ inFlightBytes \in Nat
  /\ pendingDiagnostics \in [DiagKeys -> 0..CountCeiling]
  /\ ordinaryDiagnosticBytes \in Nat /\ fixedDiagnosticBytes \in Nat
  /\ activeGaps \in GapLedgers
  /\ reported \in [DiagKeys -> Nat] /\ abortedDiagnostics \in [DiagKeys -> Nat]
  /\ ingressOrdinal \in Nat /\ criticalDebt \in 0..DebtLimit
  /\ stats \in [Counters -> Nat]

(* A replay key is held exactly by the one owned item that carries it, so  *)
(* an event that is queued, in flight or set aside is never queued again,  *)
(* and one that left the Store can be (pendingReplay in Publish, the       *)
(* coalescing replacement, finishItemLocked).                              *)
ReplayOwnership ==
  \A k \in ReplayKeys :
    LET holders == {i \in Owned : i.ev.replay = k}
    IN  IF pendingReplay[k] = 0 THEN holders = {}
        ELSE \E i \in holders : holders = {i} /\ i.id = pendingReplay[k]

(* The coalescing map names a lane's item exactly while that item waits in *)
(* the normal queue and may still be replaced; in particular nothing that  *)
(* was dequeued can be overwritten through it.                             *)
LaneOwnership ==
  \A l \in Lanes :
    LET open == {i \in normal : i.coalescible /\ i.ev.lane = l}
    IN  IF pendingCoalesce[l] = 0 THEN open = {}
        ELSE \E i \in open : open = {i} /\ i.id = pendingCoalesce[l]

Bytes(items) == MapThenSumSet(LAMBDA i : i.token, items)

(* The four byte counters are the sums of what they count, through every   *)
(* replacement, lane closing, dequeue, finish, hand-over and stop, so the  *)
(* uint64 subtractions of the code never wrap.                             *)
ByteConservation ==
  /\ queuedBytes = Bytes(Queued)
  /\ inFlightBytes = Bytes(inflight \cup preApply)
  /\ ordinaryDiagnosticBytes =
       MapThenSumSet(LAMBDA g : GapCharge[g], PendingOrdinary)
  /\ fixedDiagnosticBytes =
       DiagReserve * Cardinality({k \in Reserved : pendingDiagnostics[k] > 0})

(* Events and ordinary diagnostics together never enter the room kept for  *)
(* the three reserved diagnostics, and those never need more than it.      *)
ReserveIntact ==
  /\ queuedBytes + inFlightBytes + ordinaryDiagnosticBytes <= EventLimit
  /\ fixedDiagnosticBytes =
       (IF pendingDiagnostics["critical"] > 0 THEN DiagReserve ELSE 0)
         + (IF pendingDiagnostics["normal"] > 0 THEN DiagReserve ELSE 0)
         + (IF pendingDiagnostics["ledger"] > 0 THEN DiagReserve ELSE 0)

(* The equation of StoreStats: an accepted event is applied, failed,       *)
(* canceled, aborted or still owned, exactly one of them.                  *)
AcceptedConserved ==
  stats["accepted"] = stats["applied"] + stats["applyErrors"] + stats["canceled"]
                        + stats["aborted"] + Cardinality(Owned)

(* The books of the queue: types and bounds, one owner for every replay     *)
(* key, bytes and stats that add up to what the Store owns.                *)
QueueBooks == TypeOK /\ ReplayOwnership /\ ByteConservation /\ AcceptedConserved

Losses == stats["dropped"] + stats["collisions"]

(* Losses known under an identity: pending, handed over, or given up on.   *)
Logged == Plus(pendingDiagnostics, Plus(reported, abortedDiagnostics))

(* No loss is silent: each dropped event and each collision adds one to    *)
(* the losses logged under exactly one identity (until its count is at the *)
(* ceiling), and no other step changes what is logged.                     *)
LossLogged ==
  [][IF Losses' > Losses
     THEN \E k \in DiagKeys :
            \/ Logged' = [Logged EXCEPT ![k] = @ + 1]
            \/ Logged' = Logged /\ pendingDiagnostics[k] = CountCeiling
     ELSE Logged' = Logged]_queueVars

=============================================================================
