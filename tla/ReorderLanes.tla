----------------------------- MODULE ReorderLanes -----------------------------
(***************************************************************************)
(* The protocol lanes of the Reconciler (src/internal/graph/reconcile.go): *)
(* how Apply orders the events of one lane by sequence, buffers what comes *)
(* early, recognises what comes late and what was seen before; how Advance *)
(* gives up on holes at a lane's deadline; and how lanes are released.     *)
(*                                                                         *)
(* Apply and Advance are transactions: the code stages every change in a   *)
(* reconcileTxn and commits it or throws it away, so each call is one      *)
(* action, and a plan is the part of the transaction that is about lanes.  *)
(* What an event means is left out: its semantics succeed, or are refused  *)
(* with an admission error if it is one of Fallible.                       *)
(***************************************************************************)
EXTENDS Integers, FiniteSets, FiniteSetsExt

CONSTANTS
  Events,          (* the protocol events a source may send (EventRecord)     *)
  Keys,            (* replay digests                                          *)
  Prints, NoPrint, (* fingerprints, and the absence of one                    *)
  Lanes,           (* actor, incarnation and SourceRef (sequenceKey)          *)
  Sources, SourceOf,   (* SourceIDs, and the one of each lane                 *)
  Actors, ActorOf,     (* incarnations of actors, and the one of each lane    *)
  Fallible,        (* events whose semantics may be refused                   *)
  Tight,           (* whether the byte limits or the gap ledger may be full   *)
  MaxSeq,          (* math.MaxUint64                                          *)
  HistoryLimit, ReorderWindow,   (* ReconcileConfig                           *)
  CountCeiling,    (* maxJSONSafeInteger                                      *)
  Horizon          (* bound: the last instant of the clock                    *)

Time == 0..Horizon

(* seq is 0 for an event without a sequence; at is its ReceivedAt; retires  *)
(* are the incarnations it proves succeeded, if it opens its lane.          *)
EventRecord ==
  [key: Keys, print: Prints, lane: Lanes, seq: 0..MaxSeq, at: 1..Horizon,
   retires: SUBSET Actors]

ASSUME LanesAssumption ==
  /\ Events \subseteq EventRecord /\ IsFiniteSet(Events)
  /\ \A e \in Events : ActorOf[e.lane] \notin e.retires
  /\ NoPrint \notin Prints
  /\ SourceOf \in [Lanes -> Sources] /\ ActorOf \in [Lanes -> Actors]
  /\ IsFiniteSet(Lanes)
  /\ Tight \in BOOLEAN
  /\ MaxSeq \in Nat \ {0} /\ HistoryLimit \in Nat \ {0}
  /\ ReorderWindow \in Nat \ {0} /\ CountCeiling \in Nat \ {0}
  /\ Horizon \in Nat \ {0}

(* What an event is recognised by: its digest and its fingerprint. One that *)
(* is sent again has both.                                                  *)
Identity(e) == <<e.key, e.print>>

Identities == Keys \X Prints

(* The fingerprint digests the source, the incarnations, the actor and the  *)
(* sequence (Event.Fingerprint).                                            *)
ASSUME IdentityAssumption ==
  \A d, e \in Events : Identity(d) = Identity(e) => d.lane = e.lane /\ d.seq = e.seq

VARIABLES
  clock,           (* the time Advance is called with                         *)
  records,         (* sequenceRecords                                         *)
  fingerprints,    (* the fingerprint kept for each replay digest             *)
  historyUnits,    (* historyUnits, the part that lanes and replay use        *)
  sequenceGap,     (* the public (source, GapSequence) row of each source     *)
  retired,         (* retiredIncarnations, and incarnations whose node was    *)
                   (* removed: no event of theirs is accepted any more        *)
  outcome,         (* what the last call returned                             *)
  applied,         (* history: the numbers each lane applied since it opened  *)
  effects          (* history: how often each event took effect, up to 2      *)

laneVars == <<clock, records, fingerprints, historyUnits, sequenceGap, retired,
              outcome, applied, effects>>

-----------------------------------------------------------------------------
(* Sequence records.                                                        *)

MissingRange == [first: 1..MaxSeq, last: 1..MaxSeq]

SequenceRecord ==
  [regime: {"none", "unsequenced", "ordered", "exhausted"}, next: 0..MaxSeq,
   deadline: 0..(Horizon + ReorderWindow), buffered: SUBSET Events,
   missing: SUBSET MissingRange]

(* A lane without a record: none was opened, or it was released.            *)
NoRecord ==
  [regime |-> "none", next |-> 0, deadline |-> 0, buffered |-> {}, missing |-> {}]

Sequences(events) == {e.seq : e \in events}

Numbers(ranges) == UNION {r.first..r.last : r \in ranges}

(* The highest number applied, MaxSeq once the lane is exhausted.           *)
AdvanceSequenceRecord(record, n) ==
  IF n = MaxSeq THEN [record EXCEPT !.regime = "exhausted", !.next = MaxSeq]
                ELSE [record EXCEPT !.regime = "ordered", !.next = n + 1]

(* Mutant: the deadline outlives what waited for it.                        *)
UnbufferKeepsDeadline(record, taken) ==
  [record EXCEPT !.buffered = record.buffered \ taken]

(* The record once taken have left its buffer: an empty buffer has no       *)
(* deadline, any other keeps the one it had.                                *)
Unbuffer(record, taken) ==
  [record EXCEPT
     !.buffered = record.buffered \ taken,
     !.deadline = IF record.buffered \subseteq taken THEN 0 ELSE record.deadline]

RemoveSequence(ranges, n) ==
  LET hit == {r \in ranges : r.first <= n /\ n <= r.last}
  IN  (ranges \ hit)
        \cup {[first |-> r.first, last |-> n - 1] : r \in {h \in hit : h.first < n}}
        \cup {[first |-> n + 1, last |-> r.last] : r \in {h \in hit : n < h.last}}

(* One event for each of the numbers.                                       *)
OnePer(numbers, events) ==
  /\ Sequences(events) = numbers
  /\ \A d, e \in events : d.seq = e.seq => d = e

SourceMissing(recs, s) == \E l \in Lanes : SourceOf[l] = s /\ recs[l].missing # {}

-----------------------------------------------------------------------------
(* Gaps and releases.                                                       *)

NoGap == [count |-> 0, at |-> 0]

(* Mutant: a lane closes the row of its source whatever the others miss.    *)
CloseGapsAlways(gaps, recs, sources) ==
  [s \in Sources |-> IF s \in sources THEN NoGap ELSE gaps[s]]

(* The row of a source goes when the last range of its lanes is gone.       *)
CloseGaps(gaps, recs, sources) ==
  [s \in Sources |-> IF s \in sources /\ ~SourceMissing(recs, s) THEN NoGap ELSE gaps[s]]

LanesOf(actors) == {l \in Lanes : ActorOf[l] \in actors}

Release(recs, lanes) == [l \in Lanes |-> IF l \in lanes THEN NoRecord ELSE recs[l]]

(* The sources whose row a release may close.                               *)
GoneSources(gone) == {SourceOf[l] : l \in {g \in gone : records[g] # NoRecord}}

(* What the lanes have between them, each with its lane.                    *)
InLanes(of) == UNION {{l} \X of[l] : l \in DOMAIN of}

HistoryIn(recs, lanes) ==
  Cardinality(InLanes([l \in lanes |-> recs[l].buffered \cup recs[l].missing]))

-----------------------------------------------------------------------------
(* Replay.                                                                  *)

Buffered == UNION {records[l].buffered : l \in Lanes}

Known(e) ==
  \/ fingerprints[e.key] # NoPrint
  \/ \E b \in Buffered : b.key = e.key

Conflicts(e) ==
  \/ fingerprints[e.key] \notin {NoPrint, e.print}
  \/ \E b \in Buffered : b.key = e.key /\ b.print # e.print

-----------------------------------------------------------------------------
(* Apply: what each path of stageProtocolEvent stages for an event no one   *)
(* has seen: the records and gaps, the change of historyUnits, and the      *)
(* events that take effect.                                                 *)

(* The first event of a lane is its baseline and takes effect at once. If   *)
(* it proves a new incarnation, the lanes of the old one are released.      *)
OpenPlan(e) ==
  LET gone == LanesOf(e.retires)
      opened == IF e.seq = 0
                THEN [NoRecord EXCEPT !.regime = "unsequenced"]
                ELSE AdvanceSequenceRecord(NoRecord, e.seq)
      recs == [Release(records, gone) EXCEPT ![e.lane] = opened]
  IN  [records |-> recs,
       gaps |-> CloseGaps(sequenceGap, recs, GoneSources(gone)),
       delta |-> 1 - HistoryIn(records, gone),
       ran |-> {e}, gone |-> gone]

UnsequencedPlan(e) ==
  [records |-> records, gaps |-> sequenceGap, delta |-> 1, ran |-> {e}, gone |-> {}]

(* Mutant: late evidence of a missing number takes effect.                  *)
LatePlanTakesEffect(e) ==
  LET record == records[e.lane]
      kept == RemoveSequence(record.missing, e.seq)
      recs == [records EXCEPT ![e.lane].missing = kept]
      hit == IF e.seq \in Numbers(record.missing) THEN {SourceOf[e.lane]} ELSE {}
  IN  [records |-> recs, gaps |-> CloseGaps(sequenceGap, recs, hit),
       delta |-> 1 + Cardinality(kept) - Cardinality(record.missing),
       ran |-> IF hit = {} THEN {} ELSE {e}, gone |-> {}]

(* Evidence of a number the lane has passed never takes effect. It strikes  *)
(* the number off the missing ranges; a hit inside a range splits it.       *)
LatePlan(e) ==
  LET record == records[e.lane]
      kept == RemoveSequence(record.missing, e.seq)
      recs == [records EXCEPT ![e.lane].missing = kept]
      hit == IF e.seq \in Numbers(record.missing) THEN {SourceOf[e.lane]} ELSE {}
  IN  [records |-> recs, gaps |-> CloseGaps(sequenceGap, recs, hit),
       delta |-> 1 + Cardinality(kept) - Cardinality(record.missing),
       ran |-> {}, gone |-> {}]

(* An event ahead of its turn waits; the first to wait sets the deadline.   *)
EarlyPlan(e) ==
  LET record == records[e.lane]
  IN  [records |->
         [records EXCEPT
            ![e.lane].buffered = record.buffered \cup {e},
            ![e.lane].deadline = IF record.deadline = 0 THEN e.at + ReorderWindow
                                                        ELSE record.deadline],
       gaps |-> sequenceGap, delta |-> 2, ran |-> {}, gone |-> {}]

(* The numbers that leave the buffer when n is next: the run from n, as far *)
(* as the head of the heap is what is next. An older number at the head     *)
(* stops it, and so does a second event of a number that has just run.      *)
ReadyRun(buffered, n) ==
  {s \in Sequences(buffered) :
     /\ \A b \in buffered : b.seq >= n
     /\ n <= s
     /\ \A t \in n..(s - 1) :
          /\ t \in Sequences(buffered)
          /\ \A b, c \in buffered : b.seq = t /\ c.seq = t => b = c}

(* The event that is next takes effect, and with it what it makes ready.    *)
NextPlan(e, drained) ==
  LET record == records[e.lane]
  IN  [records |->
         [records EXCEPT ![e.lane] =
            AdvanceSequenceRecord(Unbuffer(record, drained),
                                  Max(Sequences(drained \cup {e})))],
       gaps |-> sequenceGap, delta |-> 1 - Cardinality(drained),
       ran |-> drained \cup {e}, gone |-> {}]

-----------------------------------------------------------------------------
(* Apply: commit the plan, or refuse the event and leave everything.        *)

Call(result) ==
  /\ outcome' = result
  /\ UNCHANGED clock

Unchanged ==
  UNCHANGED <<records, fingerprints, historyUnits, sequenceGap, retired, applied, effects>>

CountEffects(ran) ==
  effects' = [i \in Identities |->
    Min({2, effects[i] + Cardinality({e \in ran : Identity(e) = i})})]

Commit(e, plan) ==
  /\ historyUnits + plan.delta <= HistoryLimit
  /\ records' = plan.records
  /\ sequenceGap' = plan.gaps
  /\ historyUnits' = historyUnits + plan.delta
  /\ fingerprints' = [fingerprints EXCEPT ![e.key] = e.print]
  /\ retired' = IF e \in plan.ran /\ records[e.lane] = NoRecord
                THEN retired \cup e.retires ELSE retired
  /\ applied' = [l \in Lanes |->
       IF l \in plan.gone THEN {}
       ELSE IF l = e.lane THEN applied[l] \cup (Sequences(plan.ran) \ {0})
       ELSE applied[l]]
  /\ CountEffects(plan.ran)
  /\ Call("ok")

(* Refused: the semantics of an event that would run, an incarnation that   *)
(* was succeeded, the history limit, or a byte limit.                       *)
Refuse(plan) ==
  /\ \/ plan.ran \cap Fallible # {}
     \/ historyUnits + plan.delta > HistoryLimit
     \/ Tight
  /\ Unchanged
  /\ Call("refused")

Settle(e, plan) == Commit(e, plan) \/ Refuse(plan)

New(e) == e.at <= clock /\ ~Known(e)

ApplyReplay(e) ==
  /\ e.at <= clock /\ Known(e)
  /\ Unchanged
  /\ Call(IF Conflicts(e) THEN "collision" ELSE "ok")

ApplyOpen(e) ==
  /\ New(e) /\ records[e.lane] = NoRecord
  /\ ActorOf[e.lane] \notin retired
  /\ Settle(e, OpenPlan(e))

(* The node of the event's incarnation is gone, so its semantics fail.      *)
ApplyRetired(e) ==
  /\ New(e) /\ ActorOf[e.lane] \in retired
  /\ Unchanged
  /\ Call("refused")

Regime(e) == records[e.lane].regime

Sequenced(e) == Regime(e) \in {"ordered", "exhausted"}

ApplyRegimeMismatch(e) ==
  /\ New(e) /\ Regime(e) # "none"
  /\ (e.seq # 0) # Sequenced(e)
  /\ Unchanged
  /\ Call("regime")

ApplyUnsequenced(e) ==
  /\ New(e) /\ Regime(e) = "unsequenced" /\ e.seq = 0
  /\ Settle(e, UnsequencedPlan(e))

ApplyLate(e) ==
  /\ New(e) /\ Sequenced(e) /\ e.seq # 0
  /\ Regime(e) = "exhausted" \/ e.seq < records[e.lane].next
  /\ Settle(e, LatePlan(e))

ApplyEarly(e) ==
  /\ New(e) /\ Regime(e) = "ordered" /\ e.seq > records[e.lane].next
  /\ Settle(e, EarlyPlan(e))

ApplyNext(e) ==
  /\ New(e) /\ Regime(e) = "ordered" /\ e.seq # 0 /\ e.seq = records[e.lane].next
  /\ \E drained \in SUBSET records[e.lane].buffered :
       /\ OnePer(ReadyRun(records[e.lane].buffered, e.seq + 1), drained)
       /\ Settle(e, NextPlan(e, drained))

Apply(e) ==
  \/ ApplyReplay(e) \/ ApplyOpen(e) \/ ApplyRetired(e) \/ ApplyRegimeMismatch(e)
  \/ ApplyUnsequenced(e) \/ ApplyLate(e) \/ ApplyEarly(e) \/ ApplyNext(e)

-----------------------------------------------------------------------------
(* Advance: every lane whose deadline has come drains its buffer upwards,   *)
(* holes and all, up to the first event that is refused. Such a head is     *)
(* deferred: it stays, with what waits behind it, and is reported.          *)

DueLanes == {l \in Lanes : records[l].deadline # 0 /\ records[l].deadline <= clock}

(* What is not older than the lane; older leftovers are thrown away.        *)
Fresh(l) ==
  {b \in records[l].buffered : records[l].regime = "ordered" /\ b.seq >= records[l].next}

Waiting == UNION {Fresh(l) : l \in DueLanes}

Left(l, heads) ==
  {b \in Fresh(l) : \E h \in heads : h.lane = l /\ h.seq <= b.seq}

(* done took effect and heads were deferred, however often the code went    *)
(* over what it had deferred.                                               *)
Drains(heads, done) ==
  /\ \A g, h \in heads : g.lane = h.lane => g = h
  /\ done \subseteq UNION {Fresh(l) \ Left(l, heads) : l \in DueLanes}
  /\ \A l \in DueLanes :
       OnePer(Sequences(Fresh(l) \ Left(l, heads)), done \cap Fresh(l))

(* The holes below the numbers that ran.                                    *)
MissedRanges(next, numbers) ==
  {r \in MissingRange :
     /\ next <= r.first /\ r.first <= r.last
     /\ r.first = next \/ r.first - 1 \in numbers
     /\ r.last + 1 \in numbers
     /\ \A n \in r.first..r.last : n \notin numbers}

Missed(l, done) ==
  IF l \in DueLanes THEN MissedRanges(records[l].next, Sequences(done \cap Fresh(l)))
                    ELSE {}

(* Mutant: the buffer is emptied although an event was refused.             *)
DrainLaneEmptied(l, heads, done) ==
  LET record == records[l]
      numbers == Sequences(done \cap Fresh(l))
      moved == IF numbers = {} THEN record ELSE AdvanceSequenceRecord(record, Max(numbers))
  IN  Unbuffer([moved EXCEPT !.missing = record.missing \cup Missed(l, done)], record.buffered)

DrainLane(l, heads, done) ==
  LET record == records[l]
      numbers == Sequences(done \cap Fresh(l))
      moved == IF numbers = {} THEN record ELSE AdvanceSequenceRecord(record, Max(numbers))
  IN  Unbuffer([moved EXCEPT !.missing = record.missing \cup Missed(l, done)],
               record.buffered \ Left(l, heads))

Drained(heads, done) ==
  [l \in Lanes |-> IF l \in DueLanes THEN DrainLane(l, heads, done) ELSE records[l]]

(* The rows of the sources that missed something: the count is cumulative   *)
(* and saturates, and the time is the earliest deadline.                    *)
OpenGaps(gaps, lanes, done) ==
  [s \in Sources |->
    LET opened == {l \in lanes : SourceOf[l] = s /\ Missed(l, done) # {}}
        fresh == Cardinality(InLanes([l \in opened |-> Numbers(Missed(l, done))]))
    IN  IF opened = {} THEN gaps[s]
        ELSE [count |-> Min({CountCeiling, gaps[s].count + fresh}),
              at |-> Min({records[l].deadline : l \in opened}
                           \cup (IF gaps[s] = NoGap THEN {} ELSE {gaps[s].at}))]]

(* A deferred event gives its fingerprint back, if the one kept is its own  *)
(* and no other buffered event has its key: its place in the buffer is      *)
(* what a replay is recognised by from then on.                             *)
Forgotten(deferred, recs) ==
  {h \in deferred :
     /\ fingerprints[h.key] = h.print
     /\ \A l \in Lanes : \A b \in recs[l].buffered : b.key = h.key => b = h}

(* One that runs after all has its fingerprint restored.                    *)
Restored(done) == {e \in done : fingerprints[e.key] = NoPrint}

Refingerprint(forgotten, restored) ==
  [k \in Keys |->
    IF \E h \in forgotten : h.key = k THEN NoPrint
    ELSE IF \E e \in restored : e.key = k THEN (CHOOSE e \in restored : e.key = k).print
    ELSE fingerprints[k]]

(* first is what the first pass over the lanes runs, before ghosts expire:  *)
(* the retries run the rest, from an event that was refused at first.       *)
FirstPass(first, done) ==
  /\ first \subseteq done
  /\ \A f \in first, e \in done \ first : f.lane = e.lane => f.seq < e.seq
  /\ \A e \in done \ first :
       \E h \in Fallible \cap (done \ first) : h.lane = e.lane /\ h.seq <= e.seq

(* Mutant: the fingerprints given back stay counted.                        *)
AdvanceDeltaKeepsForgotten(heads, done, gone, forgotten) ==
  LET drained == Drained(heads, done)
  IN  Cardinality(InLanes([l \in DueLanes |-> Missed(l, done)]))
        - Cardinality(InLanes([l \in DueLanes |-> records[l].buffered \ Left(l, heads)]))
        + Cardinality(Restored(done)) - HistoryIn(drained, gone)

AdvanceDelta(heads, done, gone, forgotten) ==
  LET drained == Drained(heads, done)
  IN  Cardinality(InLanes([l \in DueLanes |-> Missed(l, done)]))
        - Cardinality(InLanes([l \in DueLanes |-> records[l].buffered \ Left(l, heads)]))
        + Cardinality(Restored(done)) - Cardinality(forgotten)
        - HistoryIn(drained, gone)

(* dead are the actors whose ghost expires at this instant; the row of a    *)
(* source may close with their lanes before the retries find a new hole.    *)
AdvanceWith(heads, done, first, dead) ==
  LET gone == LanesOf(dead)
      recs == Release(Drained(heads, done), gone)
      deferred == {h \in heads : h.lane \notin gone}
      forgotten == Forgotten(deferred, recs)
      delta == AdvanceDelta(heads, done, gone, forgotten)
      closed == CloseGaps(sequenceGap, Release(Drained(heads, first), gone), GoneSources(gone))
  IN  \/ /\ historyUnits + delta <= HistoryLimit
         /\ records' = recs
         /\ sequenceGap' = OpenGaps(closed, DueLanes \ gone, done)
         /\ historyUnits' = historyUnits + delta
         /\ fingerprints' = Refingerprint(forgotten, Restored(done))
         /\ applied' = [l \in Lanes |->
              IF l \in gone THEN {}
              ELSE IF l \in DueLanes THEN applied[l] \cup Sequences(done \cap Fresh(l))
              ELSE applied[l]]
         /\ CountEffects(done)
         /\ retired' = retired \cup dead
         /\ Call(IF deferred = {} THEN "advanced" ELSE "deferred")
      \/ /\ historyUnits + delta > HistoryLimit \/ Tight
         /\ Unchanged
         /\ Call("refused")

Advance ==
  \E heads \in SUBSET (Fallible \cap Waiting), done \in SUBSET Waiting :
    /\ Drains(heads, done)
    /\ \E first \in SUBSET done, dead \in SUBSET (Actors \ retired) :
         FirstPass(first, done) /\ AdvanceWith(heads, done, first, dead)

(* Unpinning a ghost that has expired removes it at once.                   *)
Unpin(a) ==
  LET gone == LanesOf({a})
      recs == Release(records, gone)
  IN  /\ \E l \in gone : records[l] # NoRecord
      /\ records' = recs
      /\ sequenceGap' = CloseGaps(sequenceGap, recs, GoneSources(gone))
      /\ historyUnits' = historyUnits - HistoryIn(records, gone)
      /\ applied' = [l \in Lanes |-> IF l \in gone THEN {} ELSE applied[l]]
      /\ retired' = retired \cup {a}
      /\ UNCHANGED <<fingerprints, effects>>
      /\ Call("ok")

Tick ==
  /\ clock < Horizon
  /\ clock' = clock + 1
  /\ UNCHANGED <<records, fingerprints, historyUnits, sequenceGap, retired, outcome,
                 applied, effects>>

LanesInit ==
  /\ clock = 1
  /\ records = [l \in Lanes |-> NoRecord]
  /\ fingerprints = [k \in Keys |-> NoPrint]
  /\ historyUnits = 0
  /\ sequenceGap = [s \in Sources |-> NoGap]
  /\ retired = {}
  /\ outcome = "ok"
  /\ applied = [l \in Lanes |-> {}]
  /\ effects = [i \in Identities |-> 0]

LanesNext ==
  \/ \E e \in Events : Apply(e)
  \/ Advance
  \/ \E a \in Actors : Unpin(a)
  \/ Tick

LanesSpec == LanesInit /\ [][LanesNext]_laneVars

-----------------------------------------------------------------------------
(* Properties.                                                              *)

(* Every variable has its type, and events wait in their own lane.          *)
LanesTypeOK ==
  /\ clock \in 1..Horizon
  /\ records \in [Lanes -> SequenceRecord]
  /\ \A l \in Lanes : \A b \in records[l].buffered : b.lane = l /\ b.seq # 0
  /\ fingerprints \in [Keys -> Prints \cup {NoPrint}]
  /\ historyUnits \in Int
  /\ sequenceGap \in [Sources -> [count: 0..CountCeiling, at: 0..(Horizon + ReorderWindow)]]
  /\ retired \subseteq Actors
  /\ outcome \in {"ok", "advanced", "deferred", "refused", "collision", "regime"}
  /\ applied \in [Lanes -> SUBSET (1..MaxSeq)]
  /\ effects \in [Identities -> 0..2]

(* historyUnits, which the code changes by increments on every path, counts *)
(* what it stands for: one unit for each fingerprint, buffered event and    *)
(* missing range.                                                           *)
HistoryExact ==
  historyUnits = Cardinality({k \in Keys : fingerprints[k] # NoPrint}) + HistoryIn(records, Lanes)

(* A source shows a sequence gap exactly while one of its lanes misses a    *)
(* number, through recoveries, releases and several lanes of one source.    *)
GapTellsMissing ==
  \A s \in Sources : (sequenceGap[s] # NoGap) <=> SourceMissing(records, s)

(* Its count is at least what is missing now, unless it is saturated.       *)
GapCountsMissing ==
  \A s \in Sources :
    LET missing == InLanes([l \in {k \in Lanes : SourceOf[k] = s} |-> Numbers(records[l].missing)])
    IN  sequenceGap[s].count >= Min({CountCeiling, Cardinality(missing)})

(* Nothing waits in a buffer without a deadline that will let it out.       *)
WaitingHasDeadline ==
  \A l \in Lanes : (records[l].buffered # {}) <=> (records[l].deadline # 0)

(* An event that is next does not wait for nothing: an older leftover is at *)
(* the head of the heap, or the lane's deadline has come and it was refused.*)
ReadyHasReason ==
  \A l \in Lanes : \A b \in records[l].buffered :
    (records[l].regime = "ordered" /\ b.seq = records[l].next) =>
      \/ \E c \in records[l].buffered : c.seq < records[l].next
      \/ l \in DueLanes

(* An Advance that reports success leaves no lane due.                      *)
AdvanceHonest ==
  [][outcome' = "advanced" /\ clock' = clock => DueLanes' = {}]_laneVars

(* An event leaves its buffer only with its number applied or its lane      *)
(* released: a refused head and what waits behind it stay (prepareAdvance). *)
NoneDropped ==
  [][\A l \in Lanes : \A e \in records[l].buffered :
       e \in records'[l].buffered \/ e.seq \in applied'[l] \/ records'[l] = NoRecord]_laneVars

(* An event takes effect once, however it is repeated, delayed or           *)
(* reordered, whatever is released meanwhile, and although the fingerprint  *)
(* of one that was deferred is given back (forgetFingerprint).              *)
EffectOnce == \A i \in Identities : effects[i] <= 1

(* The lanes are in order: types, units, counts, deadlines, and every event *)
(* takes effect once.                                                       *)
LanesInOrder ==
  /\ LanesTypeOK /\ HistoryExact /\ GapCountsMissing
  /\ WaitingHasDeadline /\ ReadyHasReason /\ EffectOnce

(* Lanes implement OrderedDelivery.                                         *)
LaneView ==
  [l \in Lanes |->
    IF records[l].regime \in {"ordered", "exhausted"}
    THEN [open |-> TRUE,
          upto |-> IF records[l].regime = "exhausted" THEN MaxSeq ELSE records[l].next - 1,
          delivered |-> applied[l], missing |-> Numbers(records[l].missing)]
    ELSE [open |-> FALSE, upto |-> 0, delivered |-> {}, missing |-> {}]]

Delivery == INSTANCE OrderedDelivery WITH view <- LaneView

(* Whatever order events come in, a lane delivers upwards, and what it       *)
(* passes over is recorded as missing (stageProtocolEvent, prepareAdvance). *)
DeliversInOrder == Delivery!Spec

=============================================================================
