-------------------------- MODULE ReorderLanesProofs --------------------------
(* Proofs about ReorderLanes, for every set of events and every limit.      *)
EXTENDS ReorderLanes, FiniteSetTheorems, TLAPS

-----------------------------------------------------------------------------
(* Facts about the data.                                                    *)

(* A non-empty set of numbers has a least one.                              *)
LEMMA MinIsMember ==
  ASSUME NEW S, S \subseteq Nat, S # {}
  PROVE  Min(S) \in S /\ \A x \in S : Min(S) <= x
<1> DEFINE below == {1..x : x \in S}
<1>1. below \subseteq FiniteSubsetsOf(Nat)
  <2> SUFFICES ASSUME NEW x \in S PROVE 1..x \in FiniteSubsetsOf(Nat)
    OBVIOUS
  <2>1. x \in Int /\ 1 \in Int
    OBVIOUS
  <2>2. IsFiniteSet(1..x)
    BY <2>1, FS_Interval
  <2> QED BY <2>2 DEF FiniteSubsetsOf
<1>2. below # {}
  OBVIOUS
<1>3. PICK low \in below : \A b \in below : <<b, low>> \notin StrictSubsetOrdering(Nat)
  <2> HIDE DEF below
  <2> QED BY <1>1, <1>2, WFMin, FS_StrictSubsetOrderingWellFounded
<1>4. PICK x \in S : low = 1..x
  OBVIOUS
<1>5. ASSUME NEW y \in S PROVE x <= y
  <2> SUFFICES ASSUME y < x PROVE FALSE
    OBVIOUS
  <2>1. 1..y \subseteq 1..x /\ x \in 1..x /\ x \notin 1..y
    OBVIOUS
  <2>2. <<1..y, 1..x>> \in StrictSubsetOrdering(Nat)
    BY <2>1 DEF StrictSubsetOrdering
  <2> QED BY <1>3, <1>4, <2>2
<1> QED BY <1>5 DEF Min

(* A non-empty set of numbers up to N has a greatest one.                   *)
LEMMA MaxIsMember ==
  ASSUME NEW N \in Nat, NEW S, S \subseteq 0..N, S # {}
  PROVE  Max(S) \in S /\ \A x \in S : x <= Max(S)
<1> DEFINE T == {N - x : x \in S}
<1>1. T \subseteq Nat /\ T # {}
  <2>1. \A x \in S : N - x \in Nat
    OBVIOUS
  <2> QED BY <2>1
<1>2. Min(T) \in T /\ \A t \in T : Min(T) <= t
  <2> HIDE DEF T
  <2> QED BY <1>1, MinIsMember
<1>3. PICK x \in S : Min(T) = N - x
  BY <1>2
<1>4. ASSUME NEW y \in S PROVE y <= x
  <2>1. N - y \in T
    OBVIOUS
  <2>2. N - x <= N - y
    BY <1>2, <1>3, <2>1
  <2> QED BY <2>2
<1>5. \E m \in S : \A y \in S : m >= y
  BY <1>4
<1>6. Max(S) \in S /\ \A y \in S : Max(S) >= y
  BY <1>5 DEF Max
<1> QED BY <1>6

(* Striking a number off the ranges strikes it off their numbers and no     *)
(* other, and what is left are ranges.                                      *)
LEMMA RemoveSequenceStrikes ==
  ASSUME NEW ranges \in SUBSET MissingRange, NEW n \in 1..MaxSeq
  PROVE  /\ RemoveSequence(ranges, n) \subseteq MissingRange
         /\ Numbers(RemoveSequence(ranges, n)) = Numbers(ranges) \ {n}
         /\ \A r \in RemoveSequence(ranges, n) : \E h \in ranges : r.last <= h.last
         /\ n \notin Numbers(ranges) => RemoveSequence(ranges, n) = ranges
<1> USE LanesAssumption
<1> DEFINE hit == {r \in ranges : r.first <= n /\ n <= r.last}
           kept == RemoveSequence(ranges, n)
<1>0. \A r \in ranges : r.first \in 1..MaxSeq /\ r.last \in 1..MaxSeq
  BY DEF MissingRange
<1>1. ASSUME NEW r \in kept
      PROVE  \/ r \in ranges /\ ~(r.first <= n /\ n <= r.last)
             \/ \E h \in hit : h.first < n /\ r = [first |-> h.first, last |-> n - 1]
             \/ \E h \in hit : n < h.last /\ r = [first |-> n + 1, last |-> h.last]
  BY DEF RemoveSequence
<1>2. kept \subseteq MissingRange
  <2> SUFFICES ASSUME NEW r \in kept PROVE r \in MissingRange
    OBVIOUS
  <2> QED BY <1>0, <1>1 DEF MissingRange
<1>3. ASSUME NEW x \in Numbers(kept) PROVE x \in Numbers(ranges) /\ x # n
  <2>1. PICK r \in kept : x \in r.first..r.last
    BY DEF Numbers
  <2> QED BY <1>0, <1>1, <2>1 DEF Numbers
<1>4. ASSUME NEW x \in Numbers(ranges), x # n PROVE x \in Numbers(kept)
  <2>1. PICK h \in ranges : x \in h.first..h.last
    BY DEF Numbers
  <2>2. CASE h \notin hit
    BY <2>1, <2>2 DEF RemoveSequence, Numbers
  <2>3. CASE h \in hit /\ x < n
    <3>1. h.first < n
      BY <1>0, <2>1, <2>3
    <3>2. [first |-> h.first, last |-> n - 1] \in kept
      BY <2>3, <3>1 DEF RemoveSequence
    <3> HIDE DEF kept
    <3> QED BY <1>0, <2>1, <2>3, <3>2 DEF Numbers
  <2>4. CASE h \in hit /\ n < x
    <3>1. n < h.last
      BY <1>0, <2>1, <2>4
    <3>2. [first |-> n + 1, last |-> h.last] \in kept
      BY <2>4, <3>1 DEF RemoveSequence
    <3> HIDE DEF kept
    <3> QED BY <1>0, <2>1, <2>4, <3>2 DEF Numbers
  <2>5. x < n \/ n < x
    BY <1>0, <1>4, <2>1
  <2> QED BY <2>2, <2>3, <2>4, <2>5
<1>5. ASSUME n \notin Numbers(ranges) PROVE kept = ranges
  <2>1. hit = {}
    BY <1>0, <1>5 DEF Numbers
  <2> QED BY <2>1 DEF RemoveSequence
<1>6. Numbers(kept) = Numbers(ranges) \ {n}
  <2> HIDE DEF kept
  <2> QED BY <1>3, <1>4
<1>7. \A r \in kept : \E h \in ranges : r.last <= h.last
  <2> HIDE DEF kept
  <2> QED BY <1>0, <1>1
<1> QED BY <1>2, <1>5, <1>6, <1>7

(* The holes of a drain cover what it passes over: every number from where  *)
(* the lane stood up to the highest that ran, but those that ran.           *)
LEMMA MissedRangesCover ==
  ASSUME NEW next \in 1..MaxSeq, NEW ran \in SUBSET (next..MaxSeq), ran # {}
  PROVE  Numbers(MissedRanges(next, ran)) = (next..Max(ran)) \ ran
<1> USE LanesAssumption
<1> DEFINE m == Max(ran)
<1>1. m \in ran /\ \A x \in ran : x <= m
  <2>1. ran \subseteq 0..MaxSeq /\ MaxSeq \in Nat
    OBVIOUS
  <2> QED BY <2>1, MaxIsMember
<1>2. m \in next..MaxSeq
  BY <1>1
<1> HIDE DEF m
<1>3. ASSUME NEW x \in Numbers(MissedRanges(next, ran)) PROVE x \in (next..m) \ ran
  <2>1. PICK r \in MissedRanges(next, ran) : x \in r.first..r.last
    BY DEF Numbers
  <2>2. /\ r.first \in 1..MaxSeq /\ r.last \in 1..MaxSeq /\ next <= r.first
        /\ r.last + 1 \in ran /\ x \notin ran
    BY <2>1 DEF MissedRanges, MissingRange
  <2>3. r.last + 1 <= m
    BY <1>1, <2>2
  <2> QED BY <1>2, <2>1, <2>2, <2>3
<1>4. ASSUME NEW x \in (next..m) \ ran PROVE x \in Numbers(MissedRanges(next, ran))
  <2> DEFINE F == {k \in next..x : k = next \/ k - 1 \in ran}
             L == {k \in x..(m - 1) : k + 1 \in ran}
             f == Max(F)
             g == Min(L)
  <2>1. x < m
    BY <1>1, <1>2
  <2>2. f \in F /\ \A k \in F : k <= f
    <3>1. F \subseteq 0..MaxSeq /\ next \in F /\ MaxSeq \in Nat
      BY <1>2
    <3> HIDE DEF F
    <3> QED BY <3>1, MaxIsMember
  <2>3. g \in L /\ \A k \in L : g <= k
    <3>1. L \subseteq Nat /\ m - 1 \in L
      BY <1>1, <1>2, <2>1
    <3> HIDE DEF L
    <3> QED BY <3>1, MinIsMember
  <2> HIDE DEF f, g
  <2>4. f \in next..x /\ (f = next \/ f - 1 \in ran) /\ g \in x..(m - 1) /\ g + 1 \in ran
    BY <2>2, <2>3
  <2>5. ASSUME NEW n \in f..g PROVE n \notin ran
    <3> SUFFICES ASSUME n \in ran PROVE FALSE
      OBVIOUS
    <3>0. n \in Int /\ x \in Int /\ n # x
      OBVIOUS
    <3>1. CASE n < x
      <4>1. n + 1 \in next..x /\ (n + 1) - 1 \in ran
        BY <2>4, <3>0, <3>1
      <4>2. n + 1 \in F
        BY <4>1
      <4> QED BY <2>2, <2>4, <4>2
    <3>2. CASE x < n
      <4>1. n - 1 \in x..(m - 1) /\ (n - 1) + 1 \in ran
        BY <1>2, <2>4, <3>0, <3>2
      <4>2. n - 1 \in L
        BY <4>1
      <4> QED BY <2>3, <2>4, <4>2
    <3> QED BY <3>0, <3>1, <3>2
  <2> DEFINE r == [first |-> f, last |-> g]
  <2> HIDE DEF F, L
  <2>6. r \in MissingRange /\ x \in r.first..r.last
    BY <1>2, <2>4 DEF MissingRange
  <2>7. r \in MissedRanges(next, ran)
    <3>1. next <= f /\ f <= g
      BY <1>2, <2>4
    <3> QED BY <2>4, <2>5, <2>6, <3>1 DEF MissedRanges
  <2> QED BY <2>6, <2>7 DEF Numbers
<1> QED BY <1>3, <1>4 DEF m

(* Nothing is missed where nothing ran.                                     *)
LEMMA NothingRanNothingMissed ==
  ASSUME NEW next
  PROVE  MissedRanges(next, {}) = {}
BY DEF MissedRanges

(* A run that is ready follows its predecessor without a hole.              *)
LEMMA ReadyRunFollows ==
  ASSUME NEW buffered \in SUBSET Events, NEW n \in Nat,
         NEW s \in ReadyRun(buffered, n)
  PROVE  /\ s \in Sequences(buffered) /\ s \in n..MaxSeq
         /\ n..s \subseteq ReadyRun(buffered, n)
<1> USE LanesAssumption
<1>1. s \in Sequences(buffered) /\ n <= s /\ \A b \in buffered : b.seq >= n
  BY DEF ReadyRun
<1>2. s \in 0..MaxSeq
  BY <1>1 DEF Sequences, EventRecord
<1>3. ASSUME NEW t \in n..s PROVE t \in ReadyRun(buffered, n)
  <2>1. n..(t - 1) \subseteq n..(s - 1) /\ (t \in n..(s - 1) \/ t = s) /\ n <= t
    BY <1>2
  <2>2. t \in Sequences(buffered)
    BY <2>1, <1>1 DEF ReadyRun
  <2>3. \A u \in n..(t - 1) :
          /\ u \in Sequences(buffered)
          /\ \A b, c \in buffered : b.seq = u /\ c.seq = u => b = c
    BY <2>1 DEF ReadyRun
  <2> QED BY <1>1, <2>1, <2>2, <2>3 DEF ReadyRun
<1> QED BY <1>1, <1>2, <1>3

(* Everything a lane holds is finite.                                       *)
LEMMA RangesFinite == IsFiniteSet(MissingRange)
<1> USE LanesAssumption
<1> DEFINE D == (1..MaxSeq) \X (1..MaxSeq)
           f == [p \in D |-> [first |-> p[1], last |-> p[2]]]
<1>1. IsFiniteSet(1..MaxSeq)
  <2>1. 1 \in Int /\ MaxSeq \in Int
    OBVIOUS
  <2> QED BY <2>1, FS_Interval
<1>2. IsFiniteSet(D)
  BY <1>1, FS_Product
<1>3. \A r \in MissingRange : \E p \in D : f[p] = r
  <2> SUFFICES ASSUME NEW r \in MissingRange PROVE \E p \in D : f[p] = r
    OBVIOUS
  <2>1. <<r.first, r.last>> \in D /\ r = [first |-> r.first, last |-> r.last]
    BY DEF MissingRange
  <2>2. f[<<r.first, r.last>>] = r
    BY <2>1
  <2> QED BY <2>1, <2>2
<1>4. f \in [D -> MissingRange]
  BY DEF MissingRange
<1>5. f \in Surjection(D, MissingRange)
  <2> HIDE DEF f, D
  <2> QED BY <1>3, <1>4 DEF Surjection
<1> HIDE DEF f, D
<1> QED BY <1>2, <1>5, FS_Surjection

(* What is counted over lanes is finite if it comes from a finite set.      *)
LEMMA InLanesFinite ==
  ASSUME NEW lanes \in SUBSET Lanes, NEW T, IsFiniteSet(T),
         NEW of, DOMAIN of = lanes, \A l \in lanes : of[l] \subseteq T
  PROVE  Cardinality(InLanes(of)) \in Nat
<1>1. IsFiniteSet(Lanes \X T)
  BY LanesAssumption, FS_Product
<1>2. InLanes(of) \subseteq Lanes \X T
  BY DEF InLanes
<1>3. IsFiniteSet(InLanes(of))
  BY <1>1, <1>2, FS_Subset
<1> QED BY <1>3, FS_CardinalityType

-----------------------------------------------------------------------------
(* What every step finds and leaves, lane by lane.                          *)

(* A lane has its record and the numbers it applied. A lane that is not     *)
(* open has nothing; an ordered one applied and misses numbers below its    *)
(* next only, and whatever waits although the lane has passed it bears a    *)
(* number that was applied, so throwing it away loses nothing.              *)
LaneGood(l, r, a) ==
  /\ r \in SequenceRecord
  /\ a \in SUBSET (1..MaxSeq)
  /\ \A b \in r.buffered : b.lane = l /\ b.seq # 0
  /\ (r.buffered # {}) <=> (r.deadline # 0)
  /\ r.regime = "none" => r = NoRecord
  /\ r = NoRecord => a = {}
  /\ r.regime = "ordered" => (1 <= r.next /\ a \subseteq 1..(r.next - 1))
  /\ r.regime = "ordered" => \A m \in r.missing : m.last < r.next
  /\ \A b \in r.buffered : r.regime # "ordered" \/ b.seq < r.next => b.seq \in a

(* How OrderedDelivery sees it.                                             *)
ViewOf(r, a) ==
  IF r.regime \in {"ordered", "exhausted"}
  THEN [open |-> TRUE, upto |-> IF r.regime = "exhausted" THEN MaxSeq ELSE r.next - 1,
        delivered |-> a, missing |-> Numbers(r.missing)]
  ELSE [open |-> FALSE, upto |-> 0, delivered |-> {}, missing |-> {}]

Delivers(before, after) ==
  \/ after = before
  \/ Delivery!Opens(before, after)
  \/ Delivery!Moves(before, after)
  \/ Delivery!Recovers(before, after)
  \/ Delivery!Closes(after)

Keeps(r, r2, a2) ==
  \A b \in r.buffered : b \in r2.buffered \/ b.seq \in a2 \/ r2 = NoRecord

(* What a step does to a lane.                                              *)
LaneEffect(l, r, a, r2, a2) ==
  /\ LaneGood(l, r2, a2)
  /\ Delivers(ViewOf(r, a), ViewOf(r2, a2))
  /\ Keeps(r, r2, a2)

(* A lane that nobody touches keeps all that is said of it.                 *)
LEMMA UntouchedLane ==
  ASSUME NEW l, NEW r, NEW a, LaneGood(l, r, a)
  PROVE  LaneEffect(l, r, a, r, a)
BY DEF LaneEffect, Delivers, Keeps

(* A lane whose actor retires is closed (releaseActorSequence): a closed    *)
(* lane is good and the reader above sees it close.                         *)
LEMMA ReleasedLane ==
  ASSUME NEW l, NEW r, NEW a
  PROVE  LaneEffect(l, r, a, NoRecord, {})
<1> USE LanesAssumption
<1>1. NoRecord \in SequenceRecord
  BY DEF NoRecord, SequenceRecord
<1>2. LaneGood(l, NoRecord, {})
  BY <1>1 DEF LaneGood, NoRecord
<1>3. ViewOf(NoRecord, {}) = Delivery!Closed
  BY DEF ViewOf, NoRecord, Delivery!Closed
<1> QED BY <1>2, <1>3 DEF LaneEffect, Delivers, Keeps, Delivery!Closes

(* Moving a record to the number that ran changes its regime and its next.  *)
LEMMA AdvancedRecord ==
  ASSUME NEW r \in SequenceRecord, NEW n \in 1..MaxSeq
  PROVE  /\ AdvanceSequenceRecord(r, n) \in SequenceRecord
         /\ AdvanceSequenceRecord(r, n).buffered = r.buffered
         /\ AdvanceSequenceRecord(r, n).deadline = r.deadline
         /\ AdvanceSequenceRecord(r, n).missing = r.missing
         /\ n = MaxSeq => AdvanceSequenceRecord(r, n).regime = "exhausted"
         /\ n < MaxSeq => /\ AdvanceSequenceRecord(r, n).regime = "ordered"
                          /\ AdvanceSequenceRecord(r, n).next = n + 1
<1> USE LanesAssumption
<1>1. CASE n = MaxSeq
  <2>1. AdvanceSequenceRecord(r, n) = [r EXCEPT !.regime = "exhausted", !.next = MaxSeq]
    BY <1>1 DEF AdvanceSequenceRecord
  <2>2. MaxSeq \in 0..MaxSeq /\ "exhausted" \in {"none", "unsequenced", "ordered", "exhausted"}
    OBVIOUS
  <2>3. AdvanceSequenceRecord(r, n) \in SequenceRecord
    BY <2>1, <2>2 DEF SequenceRecord
  <2>4. /\ AdvanceSequenceRecord(r, n).buffered = r.buffered
        /\ AdvanceSequenceRecord(r, n).deadline = r.deadline
        /\ AdvanceSequenceRecord(r, n).missing = r.missing
        /\ AdvanceSequenceRecord(r, n).regime = "exhausted"
    BY <2>1 DEF SequenceRecord
  <2> QED BY <1>1, <2>3, <2>4
<1>2. CASE n < MaxSeq
  <2>1. AdvanceSequenceRecord(r, n) = [r EXCEPT !.regime = "ordered", !.next = n + 1]
    BY <1>2 DEF AdvanceSequenceRecord
  <2>2. n + 1 \in 0..MaxSeq
    BY <1>2
  <2>3. AdvanceSequenceRecord(r, n) \in SequenceRecord
    BY <2>1, <2>2 DEF SequenceRecord
  <2>4. /\ AdvanceSequenceRecord(r, n).buffered = r.buffered
        /\ AdvanceSequenceRecord(r, n).deadline = r.deadline
        /\ AdvanceSequenceRecord(r, n).missing = r.missing
        /\ AdvanceSequenceRecord(r, n).regime = "ordered"
        /\ AdvanceSequenceRecord(r, n).next = n + 1
    BY <2>1 DEF SequenceRecord
  <2> QED BY <1>2, <2>3, <2>4
<1> QED BY <1>1, <1>2

(* The first event opens its lane with itself applied.                      *)
LEMMA OpenedLane ==
  ASSUME NEW l, NEW n \in 1..MaxSeq
  PROVE  LaneEffect(l, NoRecord, {}, AdvanceSequenceRecord(NoRecord, n), {n})
<1> USE LanesAssumption
<1> DEFINE r2 == AdvanceSequenceRecord(NoRecord, n)
<1>0. /\ NoRecord \in SequenceRecord /\ NoRecord.buffered = {} /\ NoRecord.deadline = 0
      /\ NoRecord.missing = {}
  BY DEF NoRecord, SequenceRecord
<1>1. /\ r2 \in SequenceRecord /\ r2.buffered = {} /\ r2.deadline = 0 /\ r2.missing = {}
      /\ n = MaxSeq => r2.regime = "exhausted"
      /\ n < MaxSeq => r2.regime = "ordered" /\ r2.next = n + 1
  BY <1>0, AdvancedRecord
<1>2. NoRecord.regime = "none"
  BY DEF NoRecord
<1> HIDE DEF r2
<1>3. LaneGood(l, r2, {n})
  BY <1>1, <1>2 DEF LaneGood
<1>4. ViewOf(NoRecord, {}) = Delivery!Closed
  BY DEF ViewOf, NoRecord, Delivery!Closed
<1>5. ViewOf(r2, {n}) = [open |-> TRUE, upto |-> n, delivered |-> {n}, missing |-> {}]
  <2>1. Numbers(r2.missing) = {}
    BY <1>1 DEF Numbers
  <2>2. r2.regime \in {"ordered", "exhausted"}
    BY <1>1
  <2>3. (IF r2.regime = "exhausted" THEN MaxSeq ELSE r2.next - 1) = n
    BY <1>1
  <2> QED BY <2>1, <2>2, <2>3 DEF ViewOf
<1>6. Delivery!Opens(ViewOf(NoRecord, {}), ViewOf(r2, {n}))
  <2> DEFINE v == [open |-> TRUE, upto |-> n, delivered |-> {n}, missing |-> {}]
  <2>1. v.upto = n
    OBVIOUS
  <2>2. v = [open |-> TRUE, upto |-> v.upto, delivered |-> {v.upto}, missing |-> {}]
    BY <2>1
  <2> HIDE DEF v
  <2>3. Delivery!Opens(Delivery!Closed, v)
    BY <2>2 DEF Delivery!Opens
  <2> QED BY <1>4, <1>5, <2>3 DEF v
<1>7. Keeps(NoRecord, r2, {n})
  BY DEF Keeps, NoRecord
<1> QED BY <1>3, <1>6, <1>7 DEF LaneEffect, Delivers, r2

(* An event without a number opens an unsequenced lane, which holds         *)
(* nothing.                                                                 *)
LEMMA UnsequencedLane ==
  ASSUME NEW l
  PROVE  LaneEffect(l, NoRecord, {}, [NoRecord EXCEPT !.regime = "unsequenced"], {})
<1> USE LanesAssumption
<1> DEFINE r2 == [NoRecord EXCEPT !.regime = "unsequenced"]
<1>1. r2 \in SequenceRecord /\ r2.buffered = {} /\ r2.deadline = 0 /\ r2.regime = "unsequenced"
  BY DEF NoRecord, SequenceRecord
<1>2. LaneGood(l, r2, {})
  BY <1>1 DEF LaneGood
<1>3. ViewOf(r2, {}) = ViewOf(NoRecord, {})
  BY <1>1 DEF ViewOf, NoRecord
<1>4. Keeps(NoRecord, r2, {})
  BY DEF Keeps, NoRecord
<1> QED BY <1>2, <1>3, <1>4 DEF LaneEffect, Delivers

(* Striking a number off the missing ones of a view.                        *)
LEMMA StruckView ==
  ASSUME NEW upto \in Nat, NEW delivered \in SUBSET Nat, NEW missing \in SUBSET Nat,
         NEW n \in missing
  PROVE  Delivers([open |-> TRUE, upto |-> upto, delivered |-> delivered, missing |-> missing],
                  [open |-> TRUE, upto |-> upto, delivered |-> delivered,
                   missing |-> missing \ {n}])
<1> DEFINE v == [open |-> TRUE, upto |-> upto, delivered |-> delivered, missing |-> missing]
           v2 == [open |-> TRUE, upto |-> upto, delivered |-> delivered,
                  missing |-> missing \ {n}]
<1>1. /\ v \in Delivery!View /\ v.open = TRUE /\ v.upto = upto
      /\ v.delivered = delivered /\ v.missing = missing
  BY DEF Delivery!View
<1>2. [v EXCEPT !.missing = v.missing \ {n}] = v2
  <2> HIDE DEF v
  <2>1. \A m : [v EXCEPT !.missing = m] =
          [open |-> v.open, upto |-> v.upto, delivered |-> v.delivered, missing |-> m]
    BY <1>1 DEF Delivery!View
  <2> QED BY <1>1, <2>1
<1> HIDE DEF v, v2
<1>3. Delivery!Recovers(v, v2)
  BY <1>1, <1>2 DEF Delivery!Recovers
<1> QED BY <1>3 DEF v, v2, Delivers

(* Late evidence strikes one number off, or does nothing.                   *)
LEMMA LateLane ==
  ASSUME NEW l, NEW r, NEW a, LaneGood(l, r, a), NEW n \in 1..MaxSeq
  PROVE  LaneEffect(l, r, a, [r EXCEPT !.missing = RemoveSequence(r.missing, n)], a)
<1> USE LanesAssumption
<1> DEFINE kept == RemoveSequence(r.missing, n)
           r2 == [r EXCEPT !.missing = kept]
<1>0. r \in SequenceRecord /\ r.missing \in SUBSET MissingRange
  BY DEF LaneGood, SequenceRecord
<1>1. /\ kept \subseteq MissingRange
      /\ Numbers(kept) = Numbers(r.missing) \ {n}
      /\ n \notin Numbers(r.missing) => kept = r.missing
      /\ \A x \in kept : \E h \in r.missing : x.last <= h.last
  BY <1>0, RemoveSequenceStrikes
<1> HIDE DEF kept
<1>2. /\ r2 \in SequenceRecord /\ r2.regime = r.regime /\ r2.next = r.next
      /\ r2.deadline = r.deadline /\ r2.buffered = r.buffered /\ r2.missing = kept
      /\ r2 = NoRecord => r.regime = "none"
  BY <1>0, <1>1 DEF SequenceRecord, NoRecord
<1>3. r.regime = "none" => kept = {}
  <2> SUFFICES ASSUME r.regime = "none" PROVE kept = {}
    OBVIOUS
  <2>1. r.missing = {}
    BY DEF LaneGood, NoRecord
  <2>2. n \notin Numbers(r.missing)
    BY <2>1 DEF Numbers
  <2> QED BY <1>1, <2>1, <2>2
<1>4. r.regime = "none" => r2 = NoRecord
  <2> SUFFICES ASSUME r.regime = "none" PROVE r2 = NoRecord
    OBVIOUS
  <2>1. r = NoRecord /\ kept = {}
    BY <1>3 DEF LaneGood
  <2> QED BY <2>1 DEF NoRecord
<1> HIDE DEF r2
<1>5. LaneGood(l, r2, a)
  <2>1. ASSUME r.regime = "ordered", NEW x \in kept PROVE x.last < r.next
    <3>1. PICK h \in r.missing : x.last <= h.last
      BY <1>1
    <3>2. h.last < r.next
      BY <2>1 DEF LaneGood
    <3>3. x.last \in Int /\ h.last \in Int /\ r.next \in Int
      BY <1>0, <1>1 DEF MissingRange, SequenceRecord
    <3> QED BY <3>1, <3>2, <3>3
  <2> QED BY <1>2, <1>4, <2>1 DEF LaneGood
<1>6. Delivers(ViewOf(r, a), ViewOf(r2, a))
  <2>1. CASE r.regime \notin {"ordered", "exhausted"}
    BY <1>2, <2>1 DEF ViewOf, Delivers
  <2>2. CASE n \notin Numbers(r.missing)
    BY <1>1, <1>2, <2>2 DEF ViewOf, Delivers
  <2>3. CASE r.regime \in {"ordered", "exhausted"} /\ n \in Numbers(r.missing)
    <3> DEFINE upto == IF r.regime = "exhausted" THEN MaxSeq ELSE r.next - 1
               v == [open |-> TRUE, upto |-> upto, delivered |-> a, missing |-> Numbers(r.missing)]
    <3>1. ViewOf(r, a) = v
      BY <2>3 DEF ViewOf
    <3>2. ViewOf(r2, a) = [open |-> TRUE, upto |-> upto, delivered |-> a, missing |-> Numbers(kept)]
      BY <1>2, <2>3 DEF ViewOf
    <3> HIDE DEF upto
    <3>3. Numbers(kept) = Numbers(r.missing) \ {n}
      BY <1>1
    <3>4. upto \in Nat /\ a \in SUBSET Nat /\ Numbers(r.missing) \in SUBSET Nat
      <4>1. r.regime = "ordered" => 1 <= r.next
        BY DEF LaneGood
      <4>2. r.next \in 0..MaxSeq /\ a \subseteq 1..MaxSeq
        BY <1>0 DEF LaneGood, SequenceRecord
      <4>3. Numbers(r.missing) \subseteq Nat
        BY <1>0 DEF Numbers, MissingRange
      <4> QED BY <2>3, <4>1, <4>2, <4>3 DEF upto
    <3> HIDE DEF v
    <3> QED BY <2>3, <3>1, <3>2, <3>3, <3>4, StruckView DEF v
  <2> QED BY <2>1, <2>2, <2>3
<1> QED BY <1>2, <1>5, <1>6 DEF LaneEffect, Keeps, r2, kept

(* An early event waits.                                                    *)
LEMMA EarlyLane ==
  ASSUME NEW l, NEW r, NEW a, LaneGood(l, r, a), r.regime = "ordered",
         NEW e \in Events, e.lane = l, e.seq > r.next,
         NEW d \in 1..(Horizon + ReorderWindow)
  PROVE  LaneEffect(l, r, a,
           [r EXCEPT !.buffered = r.buffered \cup {e},
                     !.deadline = IF r.deadline = 0 THEN d ELSE r.deadline], a)
<1> USE LanesAssumption
<1> DEFINE until == IF r.deadline = 0 THEN d ELSE r.deadline
           waiting == r.buffered \cup {e}
           r2 == [r EXCEPT !.buffered = waiting, !.deadline = until]
<1>0. r \in SequenceRecord /\ r.deadline \in 0..(Horizon + ReorderWindow)
  BY DEF LaneGood, SequenceRecord
<1>1a. until \in 0..(Horizon + ReorderWindow) /\ until # 0
  BY <1>0
<1>1b. waiting \in SUBSET Events
  BY <1>0 DEF SequenceRecord
<1> HIDE DEF until, waiting
<1>1. /\ r2 \in SequenceRecord /\ r2.regime = r.regime /\ r2.next = r.next
      /\ r2.deadline # 0 /\ r2.buffered = waiting /\ r2.missing = r.missing
  BY <1>0, <1>1a, <1>1b DEF SequenceRecord
<1>2. e.seq # 0 /\ e.seq \in Nat /\ r.next \in Nat
  BY <1>0 DEF EventRecord, LaneGood, SequenceRecord
<1>3. r2.regime # "none" /\ r2 # NoRecord
  BY <1>1 DEF NoRecord
<1> HIDE DEF r2
<1>4. LaneGood(l, r2, a)
  BY <1>1, <1>2, <1>3 DEF LaneGood, waiting
<1>5. ViewOf(r2, a) = ViewOf(r, a)
  BY <1>1 DEF ViewOf
<1> QED BY <1>1, <1>4, <1>5 DEF LaneEffect, Keeps, Delivers, r2, waiting, until

(* What a good lane shows is a view of OrderedDelivery.                     *)
LEMMA ViewTyped ==
  ASSUME NEW l, NEW r, NEW a, LaneGood(l, r, a)
  PROVE  ViewOf(r, a) \in Delivery!View
<1> USE LanesAssumption
<1>1. r \in SequenceRecord /\ a \subseteq 1..MaxSeq /\ (r.regime = "ordered" => 1 <= r.next)
  BY DEF LaneGood
<1>2. r.next \in Nat /\ r.missing \subseteq MissingRange
  BY <1>1 DEF SequenceRecord
<1>3. Numbers(r.missing) \subseteq Nat
  BY <1>2 DEF Numbers, MissingRange
<1>4. CASE r.regime \in {"ordered", "exhausted"}
  <2> DEFINE upto == IF r.regime = "exhausted" THEN MaxSeq ELSE r.next - 1
  <2>1. upto \in Nat
    BY <1>1, <1>2, <1>4
  <2>2. ViewOf(r, a) = [open |-> TRUE, upto |-> upto, delivered |-> a,
                        missing |-> Numbers(r.missing)]
    BY <1>4 DEF ViewOf
  <2>3. a \subseteq Nat
    BY <1>1
  <2> HIDE DEF upto
  <2> QED BY <1>3, <2>1, <2>2, <2>3 DEF Delivery!View
<1>5. CASE r.regime \notin {"ordered", "exhausted"}
  BY <1>5 DEF ViewOf, Delivery!View
<1> QED BY <1>4, <1>5

(* What leaves the buffer takes the deadline with it if it leaves nothing.  *)
LEMMA UnbufferedRecord ==
  ASSUME NEW r \in SequenceRecord, (r.buffered # {}) <=> (r.deadline # 0), NEW taken
  PROVE  /\ Unbuffer(r, taken) \in SequenceRecord
         /\ Unbuffer(r, taken).regime = r.regime /\ Unbuffer(r, taken).next = r.next
         /\ Unbuffer(r, taken).missing = r.missing
         /\ Unbuffer(r, taken).buffered = r.buffered \ taken
         /\ (r.buffered \ taken # {}) <=> (Unbuffer(r, taken).deadline # 0)
<1> USE LanesAssumption
<1> DEFINE until == IF r.buffered \subseteq taken THEN 0 ELSE r.deadline
           rest == r.buffered \ taken
<1>1. Unbuffer(r, taken) = [r EXCEPT !.buffered = rest, !.deadline = until]
  BY DEF Unbuffer
<1>2. r.buffered \in SUBSET Events /\ r.deadline \in 0..(Horizon + ReorderWindow)
  BY DEF SequenceRecord
<1>3. rest \in SUBSET Events /\ until \in 0..(Horizon + ReorderWindow)
  BY <1>2
<1>4. (rest # {}) <=> (until # 0)
  BY <1>2
<1> HIDE DEF rest, until
<1>5. Unbuffer(r, taken) \in SequenceRecord
  BY <1>1, <1>3 DEF SequenceRecord
<1>6. /\ Unbuffer(r, taken).regime = r.regime /\ Unbuffer(r, taken).next = r.next
      /\ Unbuffer(r, taken).missing = r.missing
      /\ Unbuffer(r, taken).buffered = rest /\ Unbuffer(r, taken).deadline = until
  BY <1>1 DEF SequenceRecord
<1> QED BY <1>4, <1>5, <1>6 DEF rest

(* A lane that moves up to the highest number that ran: what it passes over *)
(* is missing, what it leaves waiting is ahead of it or has run.            *)
LEMMA MovedLane ==
  ASSUME NEW l, NEW r, NEW a, LaneGood(l, r, a), r.regime = "ordered",
         NEW ran \in SUBSET (r.next..MaxSeq), ran # {},
         NEW r2 \in SequenceRecord,
         Max(ran) = MaxSeq => r2.regime = "exhausted",
         Max(ran) < MaxSeq => r2.regime = "ordered" /\ r2.next = Max(ran) + 1,
         NEW missed, Numbers(missed) = (r.next..Max(ran)) \ ran,
         \A x \in missed : x \in MissingRange /\ x.last + 1 \in ran,
         r2.missing = r.missing \cup missed,
         r2.buffered \subseteq r.buffered,
         (r2.buffered # {}) <=> (r2.deadline # 0),
         \A b \in r.buffered : b \in r2.buffered \/ b.seq \in a \cup ran,
         \A b \in r2.buffered : b.seq <= Max(ran) => b.seq \in a \cup ran
  PROVE  LaneEffect(l, r, a, r2, a \cup ran)
<1> USE LanesAssumption
<1> DEFINE m == Max(ran)
           a2 == a \cup ran
<1>0. r \in SequenceRecord /\ r.next \in 1..MaxSeq /\ a \subseteq 1..(r.next - 1)
  <2>1. r \in SequenceRecord /\ 1 <= r.next /\ a \subseteq 1..(r.next - 1)
    BY DEF LaneGood
  <2>2. r.next \in 0..MaxSeq
    BY <2>1 DEF SequenceRecord
  <2> QED BY <2>1, <2>2
<1>1. m \in ran /\ \A x \in ran : x <= m
  <2>1. ran \subseteq 0..MaxSeq /\ MaxSeq \in Nat
    BY <1>0
  <2> QED BY <2>1, MaxIsMember
<1>2. m \in r.next..MaxSeq
  BY <1>1
<1> HIDE DEF m
<1>3. a2 \subseteq 1..m
  BY <1>0, <1>1, <1>2
<1>4. (m = MaxSeq /\ r2.regime = "exhausted")
        \/ (m < MaxSeq /\ r2.regime = "ordered" /\ r2.next = m + 1)
  BY <1>2 DEF m
<1>5. LaneGood(l, r2, a2)
  <2>1. a2 \in SUBSET (1..MaxSeq)
    BY <1>2, <1>3
  <2>2. \A b \in r2.buffered : b.lane = l /\ b.seq # 0
    BY DEF LaneGood
  <2>3. r2.regime \in {"ordered", "exhausted"} /\ r2 # NoRecord
    BY <1>4 DEF NoRecord
  <2>4. r2.regime = "ordered" => (1 <= r2.next /\ a2 \subseteq 1..(r2.next - 1))
    BY <1>2, <1>3, <1>4
  <2>5. ASSUME NEW b \in r2.buffered, r2.regime # "ordered" \/ b.seq < r2.next
        PROVE  b.seq \in a2
    <3>1. b \in Events
      BY DEF SequenceRecord
    <3>2. b.seq \in 0..MaxSeq
      BY <3>1 DEF EventRecord
    <3>3. b.seq <= m
      BY <1>2, <1>4, <2>5, <3>2
    <3> QED BY <3>3 DEF m
  <2>6. ASSUME r2.regime = "ordered", NEW x \in r2.missing PROVE x.last < r2.next
    <3>1. r2.next = m + 1
      BY <1>4, <2>6
    <3>2. CASE x \in r.missing
      <4>1. x.last < r.next
        BY <3>2 DEF LaneGood
      <4>2. x.last \in Int
        BY <1>0, <3>2 DEF MissingRange, SequenceRecord
      <4> QED BY <1>0, <1>2, <3>1, <4>1, <4>2
    <3>3. CASE x \in missed
      <4>1. x.last \in Int /\ x.last + 1 <= m
        BY <1>1, <3>3 DEF MissingRange
      <4> QED BY <1>2, <3>1, <4>1
    <3> QED BY <3>2, <3>3
  <2> HIDE DEF a2
  <2> QED BY <2>1, <2>2, <2>3, <2>4, <2>5, <2>6 DEF LaneGood
<1>6. Delivery!Moves(ViewOf(r, a), ViewOf(r2, a2))
  <2>1. Numbers(r2.missing) = Numbers(r.missing) \cup Numbers(missed)
    BY DEF Numbers
  <2>2. Numbers(missed) = (r.next..m) \ a2
    <3>1. Numbers(missed) = (r.next..m) \ ran
      BY DEF m
    <3>2. \A x \in a : x < r.next
      BY <1>0
    <3> QED BY <1>0, <1>2, <3>1, <3>2
  <2>3. (IF r2.regime = "exhausted" THEN MaxSeq ELSE r2.next - 1) = m
    BY <1>2, <1>4
  <2>4. /\ ViewOf(r, a).open /\ ViewOf(r, a).upto = r.next - 1
        /\ ViewOf(r, a).delivered = a /\ ViewOf(r, a).missing = Numbers(r.missing)
    BY DEF ViewOf
  <2>5. /\ ViewOf(r2, a2).open /\ ViewOf(r2, a2).upto = m
        /\ ViewOf(r2, a2).delivered = a2
        /\ ViewOf(r2, a2).missing = Numbers(r.missing) \cup ((r.next..m) \ a2)
    <3>1. r2.regime \in {"ordered", "exhausted"}
      BY <1>4
    <3> HIDE DEF a2
    <3> QED BY <2>1, <2>2, <2>3, <3>1 DEF ViewOf
  <2>6. (r.next - 1) + 1 = r.next /\ r.next - 1 < m
    BY <1>0, <1>2
  <2>7. a \subseteq a2 /\ a2 \ a \subseteq r.next..m /\ m \in a2
    BY <1>0, <1>1
  <2> HIDE DEF a2
  <2> QED BY <2>4, <2>5, <2>6, <2>7 DEF Delivery!Moves
<1>7. Keeps(r, r2, a2)
  BY DEF Keeps
<1> QED BY <1>5, <1>6, <1>7 DEF LaneEffect, Delivers

(* The event that is next takes effect with the run it makes ready.         *)
LEMMA NextLane ==
  ASSUME NEW l, NEW r, NEW a, LaneGood(l, r, a), r.regime = "ordered",
         NEW e \in Events, e.seq = r.next,
         NEW drained \in SUBSET r.buffered, OnePer(ReadyRun(r.buffered, e.seq + 1), drained)
  PROVE  LaneEffect(l, r, a,
           AdvanceSequenceRecord(Unbuffer(r, drained), Max(Sequences(drained \cup {e}))),
           a \cup Sequences(drained \cup {e}))
<1> USE LanesAssumption
<1> DEFINE ran == Sequences(drained \cup {e})
           u == Unbuffer(r, drained)
           r2 == AdvanceSequenceRecord(u, Max(ran))
<1>0. /\ r \in SequenceRecord /\ r.next \in 1..MaxSeq /\ r.buffered \in SUBSET Events
      /\ (r.buffered # {}) <=> (r.deadline # 0)
  <2>1. r \in SequenceRecord /\ 1 <= r.next /\ ((r.buffered # {}) <=> (r.deadline # 0))
    BY DEF LaneGood
  <2>2. r.next \in 0..MaxSeq /\ r.buffered \in SUBSET Events
    BY <2>1 DEF SequenceRecord
  <2> QED BY <2>1, <2>2
<1>1. e.seq \in ran /\ ran = Sequences(drained) \cup {e.seq}
  BY DEF Sequences
<1>2. Sequences(drained) = ReadyRun(r.buffered, e.seq + 1)
  BY DEF OnePer
<1>3. \A s \in Sequences(drained) :
        s \in (e.seq + 1)..MaxSeq /\ (e.seq + 1)..s \subseteq Sequences(drained)
  <2> SUFFICES ASSUME NEW s \in ReadyRun(r.buffered, e.seq + 1)
               PROVE  /\ s \in (e.seq + 1)..MaxSeq
                      /\ (e.seq + 1)..s \subseteq ReadyRun(r.buffered, e.seq + 1)
    BY <1>2
  <2>1. e.seq + 1 \in Nat
    BY <1>0
  <2> QED BY <1>0, <2>1, ReadyRunFollows
<1>4. ran \in SUBSET (r.next..MaxSeq) /\ ran # {}
  <2> SUFFICES ASSUME NEW x \in ran PROVE x \in r.next..MaxSeq
    BY <1>1
  <2>1. CASE x = e.seq
    BY <1>0, <2>1
  <2>2. CASE x \in Sequences(drained)
    <3>1. x \in (e.seq + 1)..MaxSeq
      BY <1>3, <2>2
    <3> QED BY <1>0, <3>1
  <2> HIDE DEF ran
  <2> QED BY <1>1, <2>1, <2>2
<1> HIDE DEF ran
<1> DEFINE m == Max(ran)
<1>5. m \in ran /\ \A x \in ran : x <= m
  <2>1. ran \subseteq 0..MaxSeq /\ MaxSeq \in Nat
    BY <1>0, <1>4
  <2> QED BY <1>4, <2>1, MaxIsMember
<1>6. m \in 1..MaxSeq
  BY <1>0, <1>4, <1>5
<1> HIDE DEF m
<1>7. Numbers({}) = (r.next..m) \ ran
  <2>1. Numbers({}) = {}
    BY DEF Numbers
  <2>2. ASSUME NEW x \in r.next..m PROVE x \in ran
    <3>1. CASE x = r.next
      BY <1>1, <3>1
    <3>2. CASE x # r.next /\ m = e.seq
      BY <1>0, <3>2
    <3>3. CASE x # r.next /\ m # e.seq
      <4>1. m \in Sequences(drained)
        BY <1>1, <1>5, <3>3
      <4>2. x \in (e.seq + 1)..m
        BY <1>0, <3>3
      <4> QED BY <1>1, <1>3, <4>1, <4>2
    <3> QED BY <3>1, <3>2, <3>3
  <2> QED BY <2>1, <2>2
<1>8. /\ u \in SequenceRecord /\ u.missing = r.missing
      /\ u.buffered = r.buffered \ drained /\ ((u.buffered # {}) <=> (u.deadline # 0))
  BY <1>0, UnbufferedRecord
<1>9. /\ r2 \in SequenceRecord /\ r2.missing = r.missing /\ r2.buffered = r.buffered \ drained
      /\ ((r2.buffered # {}) <=> (r2.deadline # 0))
      /\ (m = MaxSeq => r2.regime = "exhausted")
      /\ (m < MaxSeq => r2.regime = "ordered" /\ r2.next = m + 1)
  <2> HIDE DEF u
  <2>1. AdvanceSequenceRecord(u, m) = r2
    BY DEF m
  <2> QED BY <1>6, <1>8, <2>1, AdvancedRecord
<1> HIDE DEF r2
<1>10. \A b \in r.buffered : b \in r2.buffered \/ b.seq \in a \cup ran
  BY <1>1, <1>9 DEF Sequences
<1>11. ASSUME NEW b \in r2.buffered, b.seq <= m PROVE b.seq \in a \cup ran
  <2>1. b \in r.buffered /\ b.seq \in 0..MaxSeq
    BY <1>0, <1>9 DEF EventRecord
  <2>2. CASE b.seq < r.next
    BY <2>1, <2>2 DEF LaneGood
  <2>3. CASE r.next <= b.seq
    <3>1. b.seq \in r.next..m
      BY <1>0, <1>11, <2>1, <2>3
    <3>2. (r.next..m) \ ran = {}
      BY <1>7 DEF Numbers
    <3> QED BY <3>1, <3>2
  <2> QED BY <1>0, <2>1, <2>2, <2>3
<1>12. r2.missing = r.missing \cup {} /\ r2.buffered \subseteq r.buffered
  BY <1>9
<1>13. LaneEffect(l, r, a, r2, a \cup ran)
  <2> DEFINE none == {}
  <2>1. /\ Numbers(none) = (r.next..m) \ ran
        /\ \A x \in none : x \in MissingRange /\ x.last + 1 \in ran
        /\ r2.missing = r.missing \cup none
    BY <1>7, <1>12
  <2>2. \A b \in r2.buffered : b.seq <= m => b.seq \in a \cup ran
    BY <1>11
  <2> HIDE DEF none
  <2> QED BY <1>4, <1>9, <1>10, <1>12, <2>1, <2>2, MovedLane DEF m
<1> QED BY <1>13 DEF r2, u, ran

(* A lane that is due drains: what runs moves it up, the rest stays.        *)
LEMMA DrainedLane ==
  ASSUME NEW l \in DueLanes, NEW heads \in SUBSET Events, NEW done, Drains(heads, done),
         LaneGood(l, records[l], applied[l])
  PROVE  LaneEffect(l, records[l], applied[l], DrainLane(l, heads, done),
                    applied[l] \cup Sequences(done \cap Fresh(l)))
<1> USE LanesAssumption
<1> DEFINE r == records[l]
           a == applied[l]
           ran == Sequences(done \cap Fresh(l))
           moved == IF ran = {} THEN r ELSE AdvanceSequenceRecord(r, Max(ran))
           all == r.missing \cup Missed(l, done)
           u == [moved EXCEPT !.missing = all]
           r2 == DrainLane(l, heads, done)
<1>0. /\ r \in SequenceRecord /\ r.next \in 0..MaxSeq /\ r.buffered \in SUBSET Events
      /\ r.missing \in SUBSET MissingRange
      /\ (r.buffered # {}) <=> (r.deadline # 0)
      /\ r.regime = "ordered" => r.next \in 1..MaxSeq
  <2>1. r \in SequenceRecord /\ (r.regime = "ordered" => 1 <= r.next)
        /\ ((r.buffered # {}) <=> (r.deadline # 0))
    BY DEF LaneGood
  <2>2. r.next \in 0..MaxSeq /\ r.buffered \in SUBSET Events /\ r.missing \in SUBSET MissingRange
    BY <2>1 DEF SequenceRecord
  <2> QED BY <2>1, <2>2
<1>1. /\ Left(l, heads) \subseteq Fresh(l) /\ Fresh(l) \subseteq r.buffered
      /\ \A b \in r.buffered \ Fresh(l) : b.seq \in a
  <2>1. \A b \in r.buffered : b.seq \in 0..MaxSeq
    BY <1>0 DEF EventRecord
  <2>2. \A b \in r.buffered \ Fresh(l) : r.regime # "ordered" \/ b.seq < r.next
    BY <1>0, <2>1 DEF Fresh
  <2> QED BY <2>2 DEF Left, Fresh, LaneGood
<1>2. ran = Sequences(Fresh(l) \ Left(l, heads))
  BY DEF Drains, OnePer
<1>3. Missed(l, done) = MissedRanges(r.next, ran)
  BY DEF Missed
<1>4. Missed(l, done) \subseteq MissingRange
  BY <1>3 DEF MissedRanges
<1>5. r2 = Unbuffer(u, r.buffered \ Left(l, heads))
  BY DEF DrainLane
<1>6. ran \in SUBSET (r.next..MaxSeq) /\ (ran # {} => r.regime = "ordered")
  <2>1. \A b \in Fresh(l) : r.regime = "ordered" /\ b.seq >= r.next /\ b.seq \in 0..MaxSeq
    BY <1>0 DEF Fresh, EventRecord
  <2> QED BY <1>0, <2>1 DEF Sequences
<1>7. ASSUME moved \in SequenceRecord, moved.buffered = r.buffered, moved.deadline = r.deadline
      PROVE  /\ r2 \in SequenceRecord /\ r2.regime = moved.regime /\ r2.next = moved.next
             /\ r2.missing = all /\ r2.buffered = Left(l, heads)
             /\ (r2.buffered # {}) <=> (r2.deadline # 0)
  <2> HIDE DEF moved
  <2>1. all \in SUBSET MissingRange
    BY <1>0, <1>4
  <2> HIDE DEF all
  <2>2. u \in SequenceRecord
    BY <1>7, <2>1 DEF SequenceRecord
  <2>3. /\ u.regime = moved.regime /\ u.next = moved.next /\ u.missing = all
        /\ u.buffered = r.buffered /\ u.deadline = r.deadline
    BY <1>7 DEF SequenceRecord
  <2>4. r.buffered \ (r.buffered \ Left(l, heads)) = Left(l, heads)
    BY <1>1
  <2>5. (u.buffered # {}) <=> (u.deadline # 0)
    BY <1>0, <2>3
  <2> DEFINE taken == r.buffered \ Left(l, heads)
  <2> HIDE DEF u, r2
  <2>6. /\ Unbuffer(u, taken) \in SequenceRecord
        /\ Unbuffer(u, taken).regime = u.regime /\ Unbuffer(u, taken).next = u.next
        /\ Unbuffer(u, taken).missing = u.missing
        /\ Unbuffer(u, taken).buffered = u.buffered \ taken
        /\ (u.buffered \ taken # {}) <=> (Unbuffer(u, taken).deadline # 0)
    <3> HIDE DEF taken
    <3> QED BY <2>2, <2>5, UnbufferedRecord
  <2>7. r2 = Unbuffer(u, taken) /\ u.buffered \ taken = Left(l, heads)
    BY <1>5, <2>3, <2>4
  <2> HIDE DEF taken
  <2> QED BY <2>3, <2>6, <2>7
<1> HIDE DEF r2
<1>8. CASE ran = {}
  <2>1. moved = r
    BY <1>8
  <2>2. all = r.missing
    BY <1>3, <1>8, NothingRanNothingMissed
  <2>3. /\ r2 \in SequenceRecord /\ r2.regime = r.regime /\ r2.next = r.next
        /\ r2.missing = r.missing /\ r2.buffered = Left(l, heads)
        /\ (r2.buffered # {}) <=> (r2.deadline # 0)
    BY <1>0, <1>7, <2>1, <2>2
  <2>4. Left(l, heads) = Fresh(l)
    <3>1. \A b \in Fresh(l) \ Left(l, heads) : b.seq \in ran
      <4> HIDE DEF ran
      <4> QED BY <1>2 DEF Sequences
    <3>2. Fresh(l) \ Left(l, heads) = {}
      <4> HIDE DEF ran
      <4> QED BY <1>8, <3>1
    <3> QED BY <1>1, <3>2
  <2>5. r.regime # "none" /\ r2 # NoRecord
    <3>1. r.deadline # 0
      BY DEF DueLanes
    <3>2. r # NoRecord
      BY <3>1 DEF NoRecord
    <3> QED BY <2>3, <3>2 DEF LaneGood, NoRecord
  <2>6. LaneGood(l, r2, a)
    <3>1. \A b \in Fresh(l) : ~(r.regime # "ordered" \/ b.seq < r.next)
      BY <1>0 DEF Fresh, EventRecord
    <3> QED BY <1>1, <2>3, <2>4, <2>5, <3>1 DEF LaneGood
  <2>7. ViewOf(r2, a) = ViewOf(r, a)
    BY <2>3 DEF ViewOf
  <2>8. Keeps(r, r2, a)
    BY <1>1, <2>3, <2>4 DEF Keeps
  <2>9. a \cup ran = a
    BY <1>8
  <2> QED BY <2>6, <2>7, <2>8, <2>9 DEF LaneEffect, Delivers, r2
<1>9. CASE ran # {}
  <2> DEFINE m == Max(ran)
  <2>0. r.regime = "ordered" /\ r.next \in 1..MaxSeq
    BY <1>0, <1>6, <1>9
  <2>1. m \in ran
    <3> HIDE DEF ran
    <3>1. ran \subseteq 0..MaxSeq /\ MaxSeq \in Nat
      BY <1>6, <2>0
    <3> QED BY <1>9, <3>1, MaxIsMember
  <2>2. m \in 1..MaxSeq
    <3> HIDE DEF ran, m
    <3> QED BY <1>6, <2>0, <2>1
  <2>3. moved = AdvanceSequenceRecord(r, m)
    BY <1>9
  <2>4. /\ moved \in SequenceRecord /\ moved.buffered = r.buffered
        /\ moved.deadline = r.deadline
        /\ (m = MaxSeq => moved.regime = "exhausted")
        /\ (m < MaxSeq => moved.regime = "ordered" /\ moved.next = m + 1)
    <3> HIDE DEF m, moved
    <3> QED BY <1>0, <2>2, <2>3, AdvancedRecord
  <2> HIDE DEF moved
  <2>5. /\ r2 \in SequenceRecord /\ r2.regime = moved.regime /\ r2.next = moved.next
        /\ r2.missing = all /\ r2.buffered = Left(l, heads)
        /\ (r2.buffered # {}) <=> (r2.deadline # 0)
    BY <1>7, <2>4
  <2>6. Numbers(Missed(l, done)) = (r.next..m) \ ran
    <3> HIDE DEF ran
    <3> QED BY <1>3, <1>6, <1>9, <2>0, MissedRangesCover
  <2>7. \A b \in r.buffered : b \in r2.buffered \/ b.seq \in a \cup ran
    BY <1>1, <1>2, <2>5 DEF Sequences
  <2>8. ASSUME NEW b \in r2.buffered PROVE ~(b.seq <= m)
    <3>1. PICK h \in heads : h.lane = l /\ h.seq <= b.seq
      BY <2>5 DEF Left
    <3>2. PICK c \in Fresh(l) \ Left(l, heads) : c.seq = m
      <4> HIDE DEF m
      <4> QED BY <1>2, <2>1 DEF Sequences
    <3>3. ~(h.seq <= c.seq)
      BY <3>1, <3>2 DEF Left
    <3>4. b.seq \in Nat /\ h.seq \in Nat /\ c.seq \in Nat
      BY <1>0, <1>1, <2>5 DEF EventRecord
    <3> QED BY <3>1, <3>2, <3>3, <3>4
  <2>9. r2.buffered \subseteq r.buffered
    BY <1>1, <2>5
  <2>10. LaneEffect(l, r, a, r2, a \cup ran)
    <3>1. (m = MaxSeq => r2.regime = "exhausted")
          /\ (m < MaxSeq => r2.regime = "ordered" /\ r2.next = m + 1)
      BY <2>4, <2>5
    <3>2. \A b \in r2.buffered : b.seq <= m => b.seq \in a \cup ran
      BY <2>8
    <3> HIDE DEF ran
    <3>3. \A x \in Missed(l, done) : x \in MissingRange /\ x.last + 1 \in ran
      BY <1>3 DEF MissedRanges
    <3> QED BY <1>6, <1>9, <2>0, <2>5, <2>6, <2>7, <2>9, <3>1, <3>2, <3>3, MovedLane
  <2> QED BY <2>10 DEF r2
<1> QED BY <1>8, <1>9

-----------------------------------------------------------------------------
(* The inductive invariant: every lane is good, and the row of a source     *)
(* tells whether one of its lanes misses something, and since when.         *)

GapRow == [count: 0..CountCeiling, at: 0..(Horizon + ReorderWindow)]

GapsGood(gaps, recs) ==
  /\ gaps \in [Sources -> GapRow]
  /\ \A s \in Sources : (gaps[s] # NoGap) <=> SourceMissing(recs, s)
  /\ \A s \in Sources : gaps[s] # NoGap => gaps[s].at # 0

RestTyped ==
  /\ clock \in 1..Horizon
  /\ fingerprints \in [Keys -> Prints \cup {NoPrint}]
  /\ historyUnits \in Int
  /\ retired \subseteq Actors
  /\ outcome \in {"ok", "advanced", "deferred", "refused", "collision", "regime"}
  /\ effects \in [Identities -> 0..2]

LanesGood ==
  /\ records \in [Lanes -> SequenceRecord]
  /\ applied \in [Lanes -> SUBSET (1..MaxSeq)]
  /\ \A l \in Lanes : LaneGood(l, records[l], applied[l])

LanesIInv == RestTyped /\ LanesGood /\ GapsGood(sequenceGap, records)

(* What a step does to all lanes.                                           *)
LanesMove == \A l \in Lanes : LaneEffect(l, records[l], applied[l], records'[l], applied'[l])

(* Lanes that were each changed as LaneEffect allows are good lanes.        *)
LEMMA LanesMoveGood ==
  ASSUME records' \in [Lanes -> SequenceRecord], applied' \in [Lanes -> SUBSET (1..MaxSeq)],
         LanesMove
  PROVE  LanesGood'
BY DEF LanesMove, LanesGood, LaneEffect

(* A row may go when the last range of its source went with this change.    *)
LEMMA ClosedGapsGood ==
  ASSUME NEW gaps, NEW recs, GapsGood(gaps, recs), NEW recs2, NEW sources,
         \A s \in Sources : SourceMissing(recs2, s) => SourceMissing(recs, s),
         \A s \in Sources \ sources : SourceMissing(recs, s) => SourceMissing(recs2, s)
  PROVE  GapsGood(CloseGaps(gaps, recs2, sources), recs2)
<1> USE LanesAssumption
<1> DEFINE gaps2 == CloseGaps(gaps, recs2, sources)
<1>1. NoGap \in GapRow
  BY DEF NoGap, GapRow
<1>2. gaps2 \in [Sources -> GapRow]
  BY <1>1 DEF CloseGaps, GapsGood
<1>3. ASSUME NEW s \in Sources
      PROVE  /\ (gaps2[s] # NoGap) <=> SourceMissing(recs2, s)
             /\ gaps2[s] # NoGap => gaps2[s].at # 0
  <2>1. gaps2[s] = IF s \in sources /\ ~SourceMissing(recs2, s) THEN NoGap ELSE gaps[s]
    BY DEF CloseGaps
  <2>2. /\ (gaps[s] # NoGap) <=> SourceMissing(recs, s)
        /\ gaps[s] # NoGap => gaps[s].at # 0
    BY DEF GapsGood
  <2> HIDE DEF gaps2
  <2>3. CASE s \in sources /\ ~SourceMissing(recs2, s)
    BY <2>1, <2>3
  <2>4. CASE ~(s \in sources /\ ~SourceMissing(recs2, s))
    <3>1. SourceMissing(recs, s) <=> SourceMissing(recs2, s)
      BY <2>4
    <3>2. gaps2[s] = gaps[s]
      BY <2>1, <2>4
    <3> QED BY <2>2, <3>1, <3>2
  <2> QED BY <2>3, <2>4
<1> HIDE DEF gaps2
<1> QED BY <1>2, <1>3 DEF GapsGood, gaps2

(* What the lanes hold can be counted.                                      *)
LEMMA HistoryCounted ==
  ASSUME NEW recs \in [Lanes -> SequenceRecord], NEW lanes \in SUBSET Lanes
  PROVE  HistoryIn(recs, lanes) \in Nat
<1> DEFINE of == [l \in lanes |-> recs[l].buffered \cup recs[l].missing]
<1>1. IsFiniteSet(Events \cup MissingRange)
  BY LanesAssumption, RangesFinite, FS_Union
<1>2. DOMAIN of = lanes /\ \A l \in lanes : of[l] \subseteq Events \cup MissingRange
  BY DEF SequenceRecord
<1> HIDE DEF of
<1>3. Cardinality(InLanes(of)) \in Nat
  BY <1>1, <1>2, InLanesFinite
<1> QED BY <1>3 DEF HistoryIn, of

-----------------------------------------------------------------------------
(* Apply.                                                                   *)

AppliedWith(e, plan) ==
  [l \in Lanes |->
    IF l \in plan.gone THEN {}
    ELSE IF l = e.lane THEN applied[l] \cup (Sequences(plan.ran) \ {0})
    ELSE applied[l]]

(* What a plan must be for its commit to be sound.                          *)
PlanGood(e, plan) ==
  /\ plan.records \in [Lanes -> SequenceRecord]
  /\ plan.ran \in SUBSET Events
  /\ plan.delta \in Int
  /\ \A l \in Lanes :
       LaneEffect(l, records[l], applied[l], plan.records[l], AppliedWith(e, plan)[l])
  /\ GapsGood(plan.gaps, plan.records)

(* Counting the events that ran stays within the counter's cap.             *)
LEMMA CountedEffects ==
  ASSUME effects \in [Identities -> 0..2], NEW ran \in SUBSET Events, CountEffects(ran)
  PROVE  effects' \in [Identities -> 0..2]
<1>1. ASSUME NEW i \in Identities
      PROVE  Min({2, effects[i] + Cardinality({e \in ran : Identity(e) = i})}) \in 0..2
  <2> DEFINE n == Cardinality({e \in ran : Identity(e) = i})
  <2>1. IsFiniteSet({e \in ran : Identity(e) = i})
    <3>1. {e \in ran : Identity(e) = i} \in SUBSET Events
      OBVIOUS
    <3> QED BY <3>1, LanesAssumption, FS_Subset
  <2>2. n \in Nat
    BY <2>1, FS_CardinalityType
  <2> HIDE DEF n
  <2>3. {2, effects[i] + n} \subseteq Nat /\ {2, effects[i] + n} # {}
    BY <2>2
  <2>4. /\ Min({2, effects[i] + n}) \in {2, effects[i] + n}
        /\ Min({2, effects[i] + n}) <= 2
    BY <2>3, MinIsMember
  <2>5. Min({2, effects[i] + n}) \in 0..2
    BY <2>3, <2>4
  <2> QED BY <2>5 DEF n
<1> QED BY <1>1 DEF CountEffects

(* A plan that is good keeps the invariant when it is committed.            *)
LEMMA CommitKeeps ==
  ASSUME LanesIInv, NEW e \in Events, NEW plan, PlanGood(e, plan), Commit(e, plan)
  PROVE  LanesMove /\ LanesIInv'
<1> USE LanesAssumption
<1>1. records' = plan.records /\ applied' = AppliedWith(e, plan) /\ sequenceGap' = plan.gaps
  BY DEF Commit, AppliedWith
<1>2. LanesMove
  BY <1>1 DEF LanesMove, PlanGood
<1>3. \A l \in Lanes : AppliedWith(e, plan)[l] \in SUBSET (1..MaxSeq)
  BY DEF PlanGood, LaneEffect, LaneGood
<1>4. applied' \in [Lanes -> SUBSET (1..MaxSeq)]
  BY <1>1, <1>3 DEF AppliedWith
<1>5. LanesGood'
  BY <1>1, <1>2, <1>4, LanesMoveGood DEF PlanGood
<1>6. e.key \in Keys /\ e.print \in Prints /\ e.retires \subseteq Actors
  BY DEF EventRecord
<1>7. RestTyped'
  <2>1. clock' \in 1..Horizon /\ outcome' = "ok"
    BY DEF Commit, Call, LanesIInv, RestTyped
  <2>2. fingerprints' \in [Keys -> Prints \cup {NoPrint}]
    BY <1>6 DEF Commit, LanesIInv, RestTyped
  <2>3. historyUnits' \in Int
    BY DEF Commit, LanesIInv, RestTyped, PlanGood
  <2>4. retired' \subseteq Actors
    BY <1>6 DEF Commit, LanesIInv, RestTyped
  <2>5. effects' \in [Identities -> 0..2]
    BY CountedEffects DEF Commit, LanesIInv, RestTyped, PlanGood
  <2> QED BY <2>1, <2>2, <2>3, <2>4, <2>5 DEF RestTyped
<1>8. GapsGood(sequenceGap, records)'
  BY <1>1 DEF PlanGood
<1> QED BY <1>2, <1>5, <1>7, <1>8 DEF LanesIInv

(* A call that leaves everything but its answer.                            *)
LEMMA UnchangedKeeps ==
  ASSUME LanesIInv, Unchanged, clock' \in 1..Horizon,
         outcome' \in {"ok", "advanced", "deferred", "refused", "collision", "regime"}
  PROVE  LanesMove /\ LanesIInv'
<1>1. records' = records /\ applied' = applied /\ sequenceGap' = sequenceGap
  BY DEF Unchanged
<1>2. LanesMove
  BY <1>1, UntouchedLane DEF LanesMove, LanesIInv, LanesGood
<1>3. LanesGood' /\ GapsGood(sequenceGap, records)'
  BY <1>1 DEF LanesIInv, LanesGood
<1>4. RestTyped'
  BY DEF Unchanged, LanesIInv, RestTyped
<1> QED BY <1>2, <1>3, <1>4 DEF LanesIInv

(* A plan that is good keeps the invariant, committed or refused (the       *)
(* limits of reserveHistory).                                               *)
LEMMA SettleKeeps ==
  ASSUME LanesIInv, NEW e \in Events, NEW plan, PlanGood(e, plan), Settle(e, plan)
  PROVE  LanesMove /\ LanesIInv'
<1>1. CASE Commit(e, plan)
  BY <1>1, CommitKeeps
<1>2. CASE Refuse(plan)
  <2>1. Unchanged /\ outcome' = "refused" /\ clock' = clock
    BY <1>2 DEF Refuse, Call
  <2>2. clock' \in 1..Horizon
    BY <2>1 DEF LanesIInv, RestTyped
  <2> QED BY <2>1, <2>2, UnchangedKeeps
<1> QED BY <1>1, <1>2 DEF Settle

(* Releasing lanes closes the rows of the sources only they kept open.      *)
LEMMA ReleaseClosesGaps ==
  ASSUME LanesIInv, NEW gone \in SUBSET Lanes, NEW recs2,
         \A l \in Lanes : recs2[l].missing = IF l \in gone THEN {} ELSE records[l].missing
  PROVE  GapsGood(CloseGaps(sequenceGap, recs2, GoneSources(gone)), recs2)
<1>1. \A s \in Sources : SourceMissing(recs2, s) => SourceMissing(records, s)
  BY DEF SourceMissing
<1>2. ASSUME NEW s \in Sources \ GoneSources(gone), SourceMissing(records, s)
      PROVE  SourceMissing(recs2, s)
  <2>1. PICK l \in Lanes : SourceOf[l] = s /\ records[l].missing # {}
    BY <1>2 DEF SourceMissing
  <2>2. records[l] # NoRecord
    BY <2>1 DEF NoRecord
  <2>3. l \notin gone
    BY <2>1, <2>2 DEF GoneSources
  <2> QED BY <2>1, <2>3 DEF SourceMissing
<1>3. GapsGood(sequenceGap, records)
  BY DEF LanesIInv
<1> QED BY <1>1, <1>2, <1>3, ClosedGapsGood

(* The plan of the event that opens a lane is good.                         *)
LEMMA OpenPlanGood ==
  ASSUME LanesIInv, NEW e \in Events, records[e.lane] = NoRecord
  PROVE  PlanGood(e, OpenPlan(e))
<1> USE LanesAssumption
<1> DEFINE gone == LanesOf(e.retires)
           opened == IF e.seq = 0 THEN [NoRecord EXCEPT !.regime = "unsequenced"]
                                  ELSE AdvanceSequenceRecord(NoRecord, e.seq)
           recs == [Release(records, gone) EXCEPT ![e.lane] = opened]
           plan == OpenPlan(e)
<1>0. e.lane \in Lanes /\ e.seq \in 0..MaxSeq /\ gone \in SUBSET Lanes /\ e.lane \notin gone
  BY DEF EventRecord, LanesOf
<1>1. /\ plan.records = recs /\ plan.delta = 1 - HistoryIn(records, gone)
      /\ plan.gaps = CloseGaps(sequenceGap, recs, GoneSources(gone))
      /\ plan.ran = {e} /\ plan.gone = gone
  BY DEF OpenPlan
<1>2. LaneEffect(e.lane, NoRecord, {}, opened, Sequences({e}) \ {0})
  <2>1. CASE e.seq = 0
    <3>1. Sequences({e}) \ {0} = {}
      BY <2>1 DEF Sequences
    <3> QED BY <2>1, <3>1, UnsequencedLane
  <2>2. CASE e.seq # 0
    <3>1. e.seq \in 1..MaxSeq
      BY <1>0, <2>2
    <3>2. Sequences({e}) \ {0} = {e.seq}
      BY <2>2 DEF Sequences
    <3>3. opened = AdvanceSequenceRecord(NoRecord, e.seq)
      BY <2>2
    <3>4. LaneEffect(e.lane, NoRecord, {}, AdvanceSequenceRecord(NoRecord, e.seq), {e.seq})
      BY <3>1, OpenedLane
    <3> HIDE DEF opened
    <3> QED BY <3>2, <3>3, <3>4
  <2> QED BY <2>1, <2>2
<1>3. opened.missing = {}
  <2>1. CASE e.seq = 0
    BY <2>1 DEF NoRecord
  <2>2. CASE e.seq # 0
    <3>1. e.seq \in 1..MaxSeq
      BY <1>0, <2>2
    <3>2. NoRecord \in SequenceRecord /\ NoRecord.missing = {}
      BY DEF NoRecord, SequenceRecord
    <3> QED BY <2>2, <3>1, <3>2, AdvancedRecord
  <2> QED BY <2>1, <2>2
<1> HIDE DEF opened, gone
<1>4. \A l \in Lanes : recs[l] = IF l = e.lane THEN opened
                                  ELSE IF l \in gone THEN NoRecord ELSE records[l]
  BY DEF Release
<1>5. DOMAIN recs = Lanes /\ recs = [l \in Lanes |-> recs[l]]
  BY DEF Release
<1> HIDE DEF recs
<1>6. \A l \in Lanes : LaneGood(l, records[l], applied[l])
  BY DEF LanesIInv, LanesGood
<1>7. ASSUME NEW l \in Lanes
      PROVE  LaneEffect(l, records[l], applied[l], recs[l], AppliedWith(e, plan)[l])
  <2>1. AppliedWith(e, plan)[l] =
          IF l \in gone THEN {}
          ELSE IF l = e.lane THEN applied[l] \cup (Sequences({e}) \ {0}) ELSE applied[l]
    BY <1>1 DEF AppliedWith
  <2> HIDE DEF plan
  <2>2. CASE l = e.lane
    <3>1. applied[l] = {}
      BY <1>6, <2>2 DEF LaneGood
    <3>2. AppliedWith(e, plan)[l] = Sequences({e}) \ {0}
      BY <1>0, <2>1, <2>2, <3>1
    <3>3. recs[l] = opened
      BY <1>4, <2>2
    <3> QED BY <1>2, <2>2, <3>1, <3>2, <3>3
  <2>3. CASE l \in gone
    <3>1. AppliedWith(e, plan)[l] = {} /\ recs[l] = NoRecord
      BY <1>0, <1>4, <2>1, <2>3
    <3> QED BY <3>1, ReleasedLane
  <2>4. CASE l # e.lane /\ l \notin gone
    <3>1. AppliedWith(e, plan)[l] = applied[l] /\ recs[l] = records[l]
      BY <1>4, <2>1, <2>4
    <3> QED BY <1>6, <3>1, UntouchedLane
  <2> QED BY <2>2, <2>3, <2>4
<1>8. recs \in [Lanes -> SequenceRecord]
  <2>1. \A l \in Lanes : recs[l] \in SequenceRecord
    BY <1>7 DEF LaneEffect, LaneGood
  <2> QED BY <1>5, <2>1
<1>9. GapsGood(plan.gaps, recs)
  <2>1. \A l \in Lanes : recs[l].missing = IF l \in gone THEN {} ELSE records[l].missing
    <3>1. NoRecord.missing = {}
      BY DEF NoRecord
    <3>2. records[e.lane].missing = {}
      BY <3>1
    <3> SUFFICES ASSUME NEW l \in Lanes
                 PROVE  recs[l].missing = IF l \in gone THEN {} ELSE records[l].missing
      OBVIOUS
    <3>3. CASE l = e.lane
      BY <1>0, <1>3, <1>4, <3>2, <3>3
    <3>4. CASE l # e.lane
      BY <1>4, <3>1, <3>4
    <3> QED BY <3>3, <3>4
  <2>2. GapsGood(CloseGaps(sequenceGap, recs, GoneSources(gone)), recs)
    BY <1>0, <2>1, ReleaseClosesGaps
  <2> QED BY <1>1, <2>2
<1>10. plan.delta \in Int
  <2>1. HistoryIn(records, gone) \in Nat
    BY <1>0, HistoryCounted DEF LanesIInv, LanesGood
  <2> QED BY <1>1, <2>1
<1>11. plan.ran \in SUBSET Events
  BY <1>1
<1> HIDE DEF plan
<1> QED BY <1>1, <1>7, <1>8, <1>9, <1>10, <1>11 DEF PlanGood, plan

(* A plan that is about the event's own lane only, and leaves all rows.     *)
LEMMA OwnLanePlanGood ==
  ASSUME LanesIInv, NEW e \in Events, NEW plan,
         NEW r2, plan.records = [records EXCEPT ![e.lane] = r2],
         plan.gone = {}, plan.ran \in SUBSET Events, plan.delta \in Int,
         LaneEffect(e.lane, records[e.lane], applied[e.lane], r2,
                    applied[e.lane] \cup (Sequences(plan.ran) \ {0})),
         GapsGood(plan.gaps, plan.records)
  PROVE  PlanGood(e, plan)
<1> USE LanesAssumption
<1>0. e.lane \in Lanes
  BY DEF EventRecord
<1>1. /\ records \in [Lanes -> SequenceRecord] /\ r2 \in SequenceRecord
      /\ \A l \in Lanes : LaneGood(l, records[l], applied[l])
  BY DEF LanesIInv, LanesGood, LaneEffect, LaneGood
<1>2. plan.records \in [Lanes -> SequenceRecord]
  BY <1>0, <1>1
<1>3. ASSUME NEW l \in Lanes
      PROVE  LaneEffect(l, records[l], applied[l], plan.records[l], AppliedWith(e, plan)[l])
  <2>1. AppliedWith(e, plan)[l] =
          IF l = e.lane THEN applied[l] \cup (Sequences(plan.ran) \ {0}) ELSE applied[l]
    BY DEF AppliedWith
  <2>2. plan.records[l] = IF l = e.lane THEN r2 ELSE records[l]
    BY <1>0, <1>1
  <2>3. CASE l = e.lane
    BY <2>1, <2>2, <2>3
  <2>4. CASE l # e.lane
    BY <1>1, <2>1, <2>2, <2>4, UntouchedLane
  <2> QED BY <2>3, <2>4
<1> QED BY <1>2, <1>3 DEF PlanGood

(* Where the same ranges are missing, the rows stay right.                  *)
LEMMA SameMissingGapsGood ==
  ASSUME LanesIInv, NEW recs2,
         \A l \in Lanes : recs2[l].missing = records[l].missing
  PROVE  GapsGood(sequenceGap, recs2)
BY DEF GapsGood, SourceMissing, LanesIInv

(* The plan of an event for an unsequenced lane is good.                    *)
LEMMA UnsequencedPlanGood ==
  ASSUME LanesIInv, NEW e \in Events, e.seq = 0
  PROVE  PlanGood(e, UnsequencedPlan(e))
<1> USE LanesAssumption
<1> DEFINE plan == UnsequencedPlan(e)
<1>0. e.lane \in Lanes /\ records \in [Lanes -> SequenceRecord]
  BY DEF EventRecord, LanesIInv, LanesGood
<1>1. /\ plan.records = records /\ plan.gone = {} /\ plan.ran = {e} /\ plan.delta = 1
      /\ plan.gaps = sequenceGap
  BY DEF UnsequencedPlan
<1> HIDE DEF plan
<1>2. plan.records = [records EXCEPT ![e.lane] = records[e.lane]]
  BY <1>0, <1>1
<1>3. applied[e.lane] \cup (Sequences(plan.ran) \ {0}) = applied[e.lane]
  BY <1>1 DEF Sequences
<1>4. LaneEffect(e.lane, records[e.lane], applied[e.lane], records[e.lane], applied[e.lane])
  BY <1>0, UntouchedLane DEF LanesIInv, LanesGood
<1>5. GapsGood(plan.gaps, plan.records)
  BY <1>1 DEF LanesIInv
<1>6. plan.ran \in SUBSET Events /\ plan.delta \in Int
  BY <1>1
<1>7. PlanGood(e, plan)
  <2> DEFINE r == records[e.lane]
             a == applied[e.lane]
  <2>1. LaneEffect(e.lane, r, a, r, a \cup (Sequences(plan.ran) \ {0}))
    BY <1>3, <1>4
  <2>2. plan.records = [records EXCEPT ![e.lane] = r]
    BY <1>2
  <2> HIDE DEF r
  <2> QED BY <1>1, <1>5, <1>6, <2>1, <2>2, OwnLanePlanGood DEF r
<1> QED BY <1>7 DEF plan

(* The plan of an event ahead of its lane's next number is good: it is      *)
(* buffered, and a deadline is set if none was.                             *)
LEMMA EarlyPlanGood ==
  ASSUME LanesIInv, NEW e \in Events, records[e.lane].regime = "ordered",
         e.seq > records[e.lane].next
  PROVE  PlanGood(e, EarlyPlan(e))
<1> USE LanesAssumption
<1> DEFINE plan == EarlyPlan(e)
           r == records[e.lane]
           r2 == [r EXCEPT !.buffered = r.buffered \cup {e},
                           !.deadline = IF r.deadline = 0 THEN e.at + ReorderWindow
                                                          ELSE r.deadline]
<1>0. e.lane \in Lanes /\ records \in [Lanes -> SequenceRecord]
      /\ e.at + ReorderWindow \in 1..(Horizon + ReorderWindow)
  BY DEF EventRecord, LanesIInv, LanesGood
<1>1. /\ plan.records = [records EXCEPT ![e.lane] = r2] /\ plan.gone = {} /\ plan.ran = {}
      /\ plan.delta = 2 /\ plan.gaps = sequenceGap
  <2>1. plan.gone = {} /\ plan.ran = {} /\ plan.delta = 2 /\ plan.gaps = sequenceGap
    BY DEF EarlyPlan
  <2>2. plan.records = [records EXCEPT ![e.lane] = r2]
    BY <1>0 DEF EarlyPlan
  <2> QED BY <2>1, <2>2
<1>2. LaneEffect(e.lane, r, applied[e.lane], r2, applied[e.lane])
  <2>1. LaneGood(e.lane, r, applied[e.lane])
    BY <1>0 DEF LanesIInv, LanesGood
  <2> HIDE DEF r
  <2>2. r.regime = "ordered" /\ e.seq > r.next
    BY DEF r
  <2> QED BY <1>0, <2>1, <2>2, EarlyLane
<1>3. r2.missing = r.missing
  BY <1>0 DEF SequenceRecord
<1> HIDE DEF r2, plan
<1>4. \A l \in Lanes : plan.records[l].missing = records[l].missing
  BY <1>0, <1>1, <1>3
<1>5. GapsGood(plan.gaps, plan.records)
  BY <1>1, <1>4, SameMissingGapsGood
<1>6. applied[e.lane] \cup (Sequences(plan.ran) \ {0}) = applied[e.lane]
  BY <1>1 DEF Sequences
<1>7. plan.ran \in SUBSET Events /\ plan.delta \in Int
  BY <1>1
<1>8. PlanGood(e, plan)
  BY <1>1, <1>2, <1>5, <1>6, <1>7, OwnLanePlanGood
<1> QED BY <1>8 DEF plan

(* The plan of the event a lane waits for is good: it runs, and the         *)
(* buffered run that follows it is drained.                                 *)
LEMMA NextPlanGood ==
  ASSUME LanesIInv, NEW e \in Events, records[e.lane].regime = "ordered",
         e.seq = records[e.lane].next,
         NEW drained \in SUBSET records[e.lane].buffered,
         OnePer(ReadyRun(records[e.lane].buffered, e.seq + 1), drained)
  PROVE  PlanGood(e, NextPlan(e, drained))
<1> USE LanesAssumption
<1> DEFINE plan == NextPlan(e, drained)
           r == records[e.lane]
           m == Max(Sequences(drained \cup {e}))
           r2 == AdvanceSequenceRecord(Unbuffer(r, drained), m)
<1>0. e.lane \in Lanes /\ records \in [Lanes -> SequenceRecord]
      /\ LaneGood(e.lane, r, applied[e.lane])
  BY DEF EventRecord, LanesIInv, LanesGood
<1>1. /\ plan.records = [records EXCEPT ![e.lane] = r2] /\ plan.gone = {}
      /\ plan.ran = drained \cup {e}
      /\ plan.delta = 1 - Cardinality(drained) /\ plan.gaps = sequenceGap
  BY DEF NextPlan
<1>2. /\ r.buffered \in SUBSET Events /\ r.regime = "ordered" /\ e.seq = r.next
      /\ 1 <= r.next /\ r.next \in 0..MaxSeq /\ r \in SequenceRecord
      /\ ((r.buffered # {}) <=> (r.deadline # 0))
  <2>1. r \in SequenceRecord /\ r.regime = "ordered" /\ e.seq = r.next
    BY <1>0
  <2>2. 1 <= r.next /\ ((r.buffered # {}) <=> (r.deadline # 0))
    BY <1>0, <2>1 DEF LaneGood
  <2> QED BY <2>1, <2>2 DEF SequenceRecord
<1>3. LaneEffect(e.lane, r, applied[e.lane], r2, applied[e.lane] \cup Sequences(drained \cup {e}))
  <2> HIDE DEF r
  <2>1. drained \in SUBSET r.buffered /\ OnePer(ReadyRun(r.buffered, e.seq + 1), drained)
    BY DEF r
  <2> QED BY <1>0, <1>2, <2>1, NextLane
<1> HIDE DEF plan
<1>4. Sequences(plan.ran) \ {0} = Sequences(drained \cup {e})
  <2>1. e.seq # 0
    BY <1>2
  <2>2. \A b \in drained : b.seq # 0
    BY <1>0 DEF LaneGood
  <2> QED BY <1>1, <2>1, <2>2 DEF Sequences
<1>5. r2.missing = r.missing
  <2> HIDE DEF r, r2
  <2>1. /\ Unbuffer(r, drained) \in SequenceRecord /\ Unbuffer(r, drained).missing = r.missing
    BY <1>2, UnbufferedRecord
  <2>2. m \in 1..MaxSeq
    <3>1. \A s \in Sequences(drained) : s \in 0..MaxSeq
      BY <1>2 DEF Sequences, EventRecord, r
    <3>2. Sequences(drained \cup {e}) = Sequences(drained) \cup {e.seq}
      BY DEF Sequences
    <3>3. Sequences(drained \cup {e}) \subseteq 0..MaxSeq /\ e.seq \in Sequences(drained \cup {e})
      BY <1>2, <3>1, <3>2
    <3>4. m \in 0..MaxSeq /\ e.seq <= m
      BY <3>3, MaxIsMember
    <3> HIDE DEF m
    <3> QED BY <1>2, <3>4
  <2> HIDE DEF m
  <2>3. AdvanceSequenceRecord(Unbuffer(r, drained), m).missing = r.missing
    BY <2>1, <2>2, AdvancedRecord
  <2> QED BY <2>3 DEF r2
<1> HIDE DEF r2
<1>6. \A l \in Lanes : plan.records[l].missing = records[l].missing
  BY <1>0, <1>1, <1>5
<1>7. GapsGood(plan.gaps, plan.records)
  BY <1>1, <1>6, SameMissingGapsGood
<1>8. plan.ran \in SUBSET Events /\ plan.delta \in Int
  <2>1. IsFiniteSet(drained)
    BY <1>2, FS_Subset
  <2>2. Cardinality(drained) \in Nat
    BY <2>1, FS_CardinalityType
  <2> QED BY <1>1, <1>2, <2>2
<1>9. PlanGood(e, plan)
  BY <1>1, <1>3, <1>4, <1>7, <1>8, OwnLanePlanGood
<1> QED BY <1>9 DEF plan

(* The plan of a number already passed is good: it is struck out of the     *)
(* missing ranges and nothing runs twice.                                   *)
LEMMA LatePlanGood ==
  ASSUME LanesIInv, NEW e \in Events, e.seq # 0
  PROVE  PlanGood(e, LatePlan(e))
<1> USE LanesAssumption
<1> DEFINE plan == LatePlan(e)
           r == records[e.lane]
           kept == RemoveSequence(r.missing, e.seq)
           r2 == [r EXCEPT !.missing = kept]
           hit == IF e.seq \in Numbers(r.missing) THEN {SourceOf[e.lane]} ELSE {}
           recs == [records EXCEPT ![e.lane] = r2]
<1>0. e.lane \in Lanes /\ records \in [Lanes -> SequenceRecord] /\ e.seq \in 1..MaxSeq
      /\ r.missing \in SUBSET MissingRange /\ r \in SequenceRecord
      /\ LaneGood(e.lane, r, applied[e.lane])
  <2>1. e.lane \in Lanes /\ e.seq \in 0..MaxSeq
    BY DEF EventRecord
  <2>2. records \in [Lanes -> SequenceRecord] /\ LaneGood(e.lane, r, applied[e.lane])
    BY <2>1 DEF LanesIInv, LanesGood
  <2>3. r \in SequenceRecord
    BY <2>1, <2>2
  <2>4. r.missing \in SUBSET MissingRange
    BY <2>3 DEF SequenceRecord
  <2> QED BY <2>1, <2>2, <2>3, <2>4
<1>1. /\ plan.records = recs /\ plan.gone = {} /\ plan.ran = {}
      /\ plan.delta = 1 + Cardinality(kept) - Cardinality(r.missing)
      /\ plan.gaps = CloseGaps(sequenceGap, recs, hit)
  <2>1. [records EXCEPT ![e.lane].missing = kept] = recs
    BY <1>0
  <2> QED BY <2>1 DEF LatePlan
<1>2. /\ kept \subseteq MissingRange
      /\ e.seq \notin Numbers(r.missing) => kept = r.missing
      /\ Numbers(kept) = Numbers(r.missing) \ {e.seq}
  <2> HIDE DEF r
  <2> QED BY <1>0, RemoveSequenceStrikes
<1>3. LaneEffect(e.lane, r, applied[e.lane], r2, applied[e.lane])
  <2> HIDE DEF r
  <2> QED BY <1>0, LateLane
<1>4. r2.missing = kept
  BY <1>0 DEF SequenceRecord
<1>5. \A l \in Lanes : recs[l].missing = IF l = e.lane THEN kept ELSE records[l].missing
  <2> HIDE DEF r2
  <2> QED BY <1>0, <1>4
<1> HIDE DEF recs, r2
<1>6. kept # {} => r.missing # {}
  <2> HIDE DEF r
  <2> QED BY DEF RemoveSequence
<1> HIDE DEF kept
<1>7. GapsGood(CloseGaps(sequenceGap, recs, hit), recs)
  <2>1. \A s \in Sources : SourceMissing(recs, s) => SourceMissing(records, s)
    BY <1>5, <1>6 DEF SourceMissing
  <2>2. ASSUME NEW s \in Sources \ hit, SourceMissing(records, s)
        PROVE  SourceMissing(recs, s)
    <3>1. PICK l \in Lanes : SourceOf[l] = s /\ records[l].missing # {}
      BY <2>2 DEF SourceMissing
    <3>2. recs[l].missing = records[l].missing
      BY <1>2, <1>5, <3>1
    <3> QED BY <3>1, <3>2 DEF SourceMissing
  <2>3. GapsGood(sequenceGap, records)
    BY DEF LanesIInv
  <2> HIDE DEF hit
  <2> QED BY <2>1, <2>2, <2>3, ClosedGapsGood
<1>8. GapsGood(plan.gaps, plan.records)
  BY <1>1, <1>7
<1>9. plan.ran \in SUBSET Events /\ plan.delta \in Int
  <2>1. IsFiniteSet(kept) /\ IsFiniteSet(r.missing)
    BY <1>0, <1>2, RangesFinite, FS_Subset
  <2>2. Cardinality(kept) \in Nat /\ Cardinality(r.missing) \in Nat
    BY <2>1, FS_CardinalityType
  <2> HIDE DEF plan, r
  <2> QED BY <1>1, <2>2
<1>10. plan.records = [records EXCEPT ![e.lane] = r2]
  BY <1>1 DEF recs
<1> HIDE DEF plan
<1>11. applied[e.lane] \cup (Sequences(plan.ran) \ {0}) = applied[e.lane]
  BY <1>1 DEF Sequences
<1>12. PlanGood(e, plan)
  <2>1. LaneEffect(e.lane, records[e.lane], applied[e.lane], r2,
                   applied[e.lane] \cup (Sequences(plan.ran) \ {0}))
    BY <1>3, <1>11
  <2> QED BY <1>1, <1>8, <1>9, <1>10, <2>1, OwnLanePlanGood
<1> QED BY <1>12 DEF plan

(* Whatever Apply does with an event.                                       *)
LEMMA ApplyKeeps ==
  ASSUME LanesIInv, NEW e \in Events, Apply(e)
  PROVE  LanesMove /\ LanesIInv'
<1> USE LanesAssumption
<1>0. clock \in 1..Horizon /\ e.seq \in 0..MaxSeq
  BY DEF LanesIInv, RestTyped, EventRecord
<1>1. CASE ApplyReplay(e)
  <2>1. Unchanged /\ clock' = clock /\ outcome' \in {"ok", "collision"}
    BY <1>1 DEF ApplyReplay, Call
  <2> QED BY <1>0, <2>1, UnchangedKeeps
<1>2. CASE ApplyOpen(e)
  <2>1. records[e.lane] = NoRecord /\ Settle(e, OpenPlan(e))
    BY <1>2 DEF ApplyOpen
  <2> QED BY <2>1, OpenPlanGood, SettleKeeps
<1>3. CASE ApplyRetired(e)
  <2>1. Unchanged /\ clock' = clock /\ outcome' = "refused"
    BY <1>3 DEF ApplyRetired, Call
  <2> QED BY <1>0, <2>1, UnchangedKeeps
<1>4. CASE ApplyRegimeMismatch(e)
  <2>1. Unchanged /\ clock' = clock /\ outcome' = "regime"
    BY <1>4 DEF ApplyRegimeMismatch, Call
  <2> QED BY <1>0, <2>1, UnchangedKeeps
<1>5. CASE ApplyUnsequenced(e)
  <2>1. e.seq = 0 /\ Settle(e, UnsequencedPlan(e))
    BY <1>5 DEF ApplyUnsequenced
  <2> QED BY <2>1, UnsequencedPlanGood, SettleKeeps
<1>6. CASE ApplyLate(e)
  <2>1. e.seq # 0 /\ Settle(e, LatePlan(e))
    BY <1>6 DEF ApplyLate
  <2> QED BY <2>1, LatePlanGood, SettleKeeps
<1>7. CASE ApplyEarly(e)
  <2>1. /\ records[e.lane].regime = "ordered" /\ e.seq > records[e.lane].next
        /\ Settle(e, EarlyPlan(e))
    BY <1>7 DEF ApplyEarly, Regime
  <2> QED BY <2>1, EarlyPlanGood, SettleKeeps
<1>8. CASE ApplyNext(e)
  <2>1. records[e.lane].regime = "ordered" /\ e.seq = records[e.lane].next
    BY <1>8 DEF ApplyNext, Regime
  <2>2. PICK drained \in SUBSET records[e.lane].buffered :
          /\ OnePer(ReadyRun(records[e.lane].buffered, e.seq + 1), drained)
          /\ Settle(e, NextPlan(e, drained))
    BY <1>8 DEF ApplyNext
  <2>3. PlanGood(e, NextPlan(e, drained))
    BY <2>1, <2>2, NextPlanGood
  <2> QED BY <2>2, <2>3, SettleKeeps
<1> QED BY <1>1, <1>2, <1>3, <1>4, <1>5, <1>6, <1>7, <1>8 DEF Apply

-----------------------------------------------------------------------------
(* Advance.                                                                 *)

(* The earliest of some instants, none of them zero.                        *)
LEMMA EarliestInstant ==
  ASSUME NEW T, T \subseteq 1..(Horizon + ReorderWindow), T # {}
  PROVE  Min(T) \in 1..(Horizon + ReorderWindow)
<1>1. T \subseteq Nat
  BY LanesAssumption
<1> QED BY <1>1, MinIsMember

OpensHole(s, lanes, done) == \E l \in lanes : SourceOf[l] = s /\ Missed(l, done) # {}

HolesShown(gaps, after, lanes, done) ==
  /\ after \in [Sources -> GapRow]
  /\ \A s \in Sources : OpensHole(s, lanes, done) => after[s] # NoGap /\ after[s].at # 0
  /\ \A s \in Sources : ~OpensHole(s, lanes, done) => after[s] = gaps[s]

(* The holes that opened are found open by the row of their source.         *)
LEMMA OpenedGaps ==
  ASSUME LanesGood, NEW gaps \in [Sources -> GapRow],
         \A s \in Sources : gaps[s] # NoGap => gaps[s].at # 0,
         NEW lanes \in SUBSET DueLanes, NEW done
  PROVE  HolesShown(gaps, OpenGaps(gaps, lanes, done), lanes, done)
<1> USE LanesAssumption
<1> DEFINE opened(s) == {l \in lanes : SourceOf[l] = s /\ Missed(l, done) # {}}
           fresh(s) == Cardinality(InLanes([l \in opened(s) |-> Numbers(Missed(l, done))]))
           times(s) == {records[l].deadline : l \in opened(s)}
                         \cup (IF gaps[s] = NoGap THEN {} ELSE {gaps[s].at})
           row(s) == [count |-> Min({CountCeiling, gaps[s].count + fresh(s)}),
                      at |-> Min(times(s))]
           after == OpenGaps(gaps, lanes, done)
<1>1. \A s \in Sources : after[s] = IF opened(s) = {} THEN gaps[s] ELSE row(s)
  BY DEF OpenGaps
<1>2. after = [s \in Sources |-> IF opened(s) = {} THEN gaps[s] ELSE row(s)]
  BY DEF OpenGaps
<1>3. ASSUME NEW s \in Sources PROVE fresh(s) \in Nat
  <2> DEFINE of == [l \in opened(s) |-> Numbers(Missed(l, done))]
  <2>1. \A l \in opened(s) : of[l] \subseteq 1..MaxSeq
    <3> SUFFICES ASSUME NEW l \in opened(s), NEW n \in Numbers(Missed(l, done))
                 PROVE  n \in 1..MaxSeq
      OBVIOUS
    <3>1. Missed(l, done) \subseteq MissingRange
      BY DEF Missed, MissedRanges
    <3> QED BY <3>1 DEF Numbers, MissingRange
  <2>2. IsFiniteSet(1..MaxSeq)
    <3>1. 1 \in Int /\ MaxSeq \in Int
      OBVIOUS
    <3> QED BY <3>1, FS_Interval
  <2>3. DOMAIN of = opened(s) /\ opened(s) \in SUBSET Lanes
    BY DEF DueLanes
  <2> HIDE DEF of, opened
  <2>4. Cardinality(InLanes(of)) \in Nat
    BY <2>1, <2>2, <2>3, InLanesFinite
  <2> QED BY <2>4 DEF of
<1>4. ASSUME NEW s \in Sources, opened(s) # {}
      PROVE  row(s) \in GapRow /\ row(s).at # 0
  <2>1. times(s) \subseteq 1..(Horizon + ReorderWindow)
    <3>1. ASSUME NEW l \in opened(s) PROVE records[l].deadline \in 1..(Horizon + ReorderWindow)
      <4>1. l \in Lanes /\ records[l].deadline # 0
        BY DEF DueLanes
      <4>2. records[l].deadline \in 0..(Horizon + ReorderWindow)
        BY <4>1 DEF LanesGood, SequenceRecord
      <4> QED BY <4>1, <4>2
    <3>2. gaps[s] # NoGap => gaps[s].at \in 1..(Horizon + ReorderWindow)
      BY DEF GapRow
    <3> HIDE DEF opened
    <3> QED BY <3>1, <3>2
  <2>2. times(s) # {}
    <3>1. PICK l \in opened(s) : TRUE
      <4> HIDE DEF opened
      <4> QED BY <1>4
    <3>2. records[l].deadline \in times(s)
      <4> HIDE DEF opened
      <4> QED BY <3>1
    <3> QED BY <3>2
  <2>3. Min(times(s)) \in 1..(Horizon + ReorderWindow)
    <3> HIDE DEF times
    <3> QED BY <2>1, <2>2, EarliestInstant
  <2>4. Min({CountCeiling, gaps[s].count + fresh(s)}) \in 0..CountCeiling
    <3> DEFINE c == gaps[s].count + fresh(s)
    <3>1. gaps[s].count \in Nat
      BY DEF GapRow
    <3>2. fresh(s) \in Nat
      BY <1>3
    <3> HIDE DEF fresh
    <3>3. c \in Nat
      BY <3>1, <3>2
    <3> HIDE DEF c
    <3>4. {CountCeiling, c} \subseteq Nat /\ {CountCeiling, c} # {}
      BY <3>3
    <3>5. /\ Min({CountCeiling, c}) \in {CountCeiling, c}
          /\ Min({CountCeiling, c}) <= CountCeiling
      BY <3>4, MinIsMember
    <3>6. Min({CountCeiling, c}) \in 0..CountCeiling
      BY <3>3, <3>5
    <3> QED BY <3>6 DEF c
  <2> HIDE DEF times, fresh
  <2> QED BY <2>3, <2>4 DEF GapRow
<1> HIDE DEF row
<1>5. after \in [Sources -> GapRow]
  BY <1>2, <1>4
<1>6. ASSUME NEW s \in Sources, opened(s) # {} PROVE after[s] # NoGap /\ after[s].at # 0
  <2>1. after[s] = row(s) /\ row(s).at # 0
    BY <1>1, <1>4, <1>6
  <2> QED BY <2>1 DEF NoGap
<1> HIDE DEF after
<1>7. ASSUME NEW s \in Sources PROVE OpensHole(s, lanes, done) <=> opened(s) # {}
  BY DEF OpensHole
<1> HIDE DEF opened
<1>8. HolesShown(gaps, after, lanes, done)
  BY <1>1, <1>5, <1>6, <1>7 DEF HolesShown
<1> QED BY <1>8 DEF after

(* What the retries run cannot fill a hole the first pass left: if nothing  *)
(* is missed in the end, nothing was missed at first.                       *)
LEMMA FirstPassMissesNoMore ==
  ASSUME LanesGood, NEW heads, NEW done, Drains(heads, done),
         NEW first, FirstPass(first, done), NEW l \in Lanes, Missed(l, done) = {}
  PROVE  Missed(l, first) = {}
<1> USE LanesAssumption
<1> SUFFICES ASSUME l \in DueLanes, NEW r \in Missed(l, first) PROVE FALSE
  BY DEF Missed
<1> DEFINE next == records[l].next
           ran == Sequences(done \cap Fresh(l))
           early == Sequences(first \cap Fresh(l))
<1>0. records[l] \in SequenceRecord /\ records[l].buffered \in SUBSET Events
      /\ LaneGood(l, records[l], applied[l])
  BY DEF LanesGood, SequenceRecord
<1>1. /\ r \in MissingRange /\ next <= r.first /\ r.first <= r.last /\ r.last + 1 \in early
      /\ \A n \in r.first..r.last : n \notin early
  BY DEF Missed, MissedRanges
<1>2. r.first \in 1..MaxSeq /\ r.last \in 1..MaxSeq
  BY <1>1 DEF MissingRange
<1>3. PICK f \in first \cap Fresh(l) : f.seq = r.last + 1
  BY <1>1 DEF Sequences
<1>4. f \in done /\ f \in records[l].buffered /\ f.lane = l /\ records[l].regime = "ordered"
  BY <1>0, <1>3 DEF FirstPass, Fresh, LaneGood
<1>5. r.last + 1 \in ran
  BY <1>3, <1>4 DEF Sequences
<1>6. next \in 1..MaxSeq
  <2>1. 1 <= next /\ next \in 0..MaxSeq
    BY <1>0, <1>4 DEF LaneGood, SequenceRecord
  <2> QED BY <2>1
<1>7. ran \in SUBSET (next..MaxSeq)
  <2>1. \A b \in Fresh(l) : b.seq >= next /\ b.seq \in 0..MaxSeq
    BY <1>0 DEF Fresh, EventRecord
  <2> QED BY <1>6, <2>1 DEF Sequences
<1>8. r.first \notin ran
  <2> SUFFICES ASSUME r.first \in ran PROVE FALSE
    OBVIOUS
  <2>1. PICK b \in done \cap Fresh(l) : b.seq = r.first
    BY DEF Sequences
  <2>2. b \notin first
    <3>1. r.first \notin early
      <4>1. r.first \in r.first..r.last
        BY <1>1, <1>2
      <4> HIDE DEF early
      <4> QED BY <1>1, <4>1
    <3> QED BY <2>1, <3>1 DEF Sequences
  <2>3. b.lane = l
    BY <1>0, <2>1 DEF Fresh, LaneGood
  <2>4. f.seq < b.seq
    BY <1>3, <1>4, <2>1, <2>2, <2>3 DEF FirstPass
  <2> QED BY <1>1, <1>2, <1>3, <2>1, <2>4
<1>9. Numbers(MissedRanges(next, ran)) = (next..Max(ran)) \ ran
  <2> HIDE DEF ran, next
  <2> QED BY <1>5, <1>6, <1>7, MissedRangesCover
<1>10. r.last + 1 <= Max(ran)
  <2> HIDE DEF ran
  <2>1. ran \subseteq 0..MaxSeq /\ MaxSeq \in Nat
    BY <1>6, <1>7
  <2> QED BY <1>5, <2>1, MaxIsMember
<1>11. Max(ran) \in Int
  <2> HIDE DEF ran
  <2>1. ran \subseteq 0..MaxSeq /\ MaxSeq \in Nat
    BY <1>6, <1>7
  <2>2. Max(ran) \in ran
    BY <1>5, <2>1, MaxIsMember
  <2> QED BY <2>1, <2>2
<1>12. r.first \in next..Max(ran)
  <2> HIDE DEF ran, next
  <2> QED BY <1>1, <1>2, <1>6, <1>10, <1>11
<1>13. MissedRanges(next, ran) = {}
  BY DEF Missed
<1>14. Numbers(MissedRanges(next, ran)) = {}
  BY <1>13 DEF Numbers
<1> QED BY <1>8, <1>9, <1>12, <1>14

(* Whatever runs, a drained lane misses what it missed and the new holes,   *)
(* and keeps what was left.                                                 *)
LEMMA DrainedRecord ==
  ASSUME LanesGood, NEW l \in DueLanes, NEW heads, NEW done
  PROVE  /\ DrainLane(l, heads, done).missing = records[l].missing \cup Missed(l, done)
         /\ DrainLane(l, heads, done).buffered = Left(l, heads)
<1> USE LanesAssumption
<1> DEFINE r == records[l]
           ran == Sequences(done \cap Fresh(l))
           moved == IF ran = {} THEN r ELSE AdvanceSequenceRecord(r, Max(ran))
           all == r.missing \cup Missed(l, done)
           u == [moved EXCEPT !.missing = all]
           taken == r.buffered \ Left(l, heads)
<1>0. r \in SequenceRecord /\ r.buffered \in SUBSET Events
  BY DEF DueLanes, LanesGood, SequenceRecord
<1>1. moved \in SequenceRecord /\ moved.buffered = r.buffered
  <2>1. CASE ran = {}
    BY <1>0, <2>1
  <2>2. CASE ran # {}
    <3>1. ran \subseteq 0..MaxSeq
      BY <1>0 DEF Sequences, Fresh, EventRecord
    <3>2. \A x \in ran : x # 0
      <4>1. \A b \in r.buffered : b.seq # 0
        BY DEF DueLanes, LanesGood, LaneGood
      <4> QED BY <4>1 DEF Sequences, Fresh
    <3> DEFINE m == Max(ran)
    <3>3. m \in 1..MaxSeq
      <4> HIDE DEF ran
      <4>1. m \in ran
        BY <2>2, <3>1, MaxIsMember
      <4> HIDE DEF m
      <4>2. m \in 0..MaxSeq /\ m # 0
        BY <3>1, <3>2, <4>1
      <4> QED BY <4>2
    <3>4. moved = AdvanceSequenceRecord(r, m)
      BY <2>2
    <3> HIDE DEF m, moved, r
    <3> QED BY <1>0, <3>3, <3>4, AdvancedRecord
  <2> QED BY <2>1, <2>2
<1>2. DrainLane(l, heads, done) = Unbuffer(u, taken)
  BY DEF DrainLane
<1> HIDE DEF moved, all
<1>3. /\ u.missing = all /\ u.buffered = r.buffered
      /\ Unbuffer(u, taken).missing = u.missing
      /\ Unbuffer(u, taken).buffered = u.buffered \ taken
  <2>1. u.missing = all /\ u.buffered = r.buffered
    BY <1>1 DEF SequenceRecord
  <2>2. /\ Unbuffer(u, taken).missing = u.missing
        /\ Unbuffer(u, taken).buffered = u.buffered \ taken
    <3>1. DOMAIN u = {"regime", "next", "deadline", "buffered", "missing"}
      BY <1>1 DEF SequenceRecord
    <3> HIDE DEF u, taken
    <3> QED BY <3>1 DEF Unbuffer
  <2> QED BY <2>1, <2>2
<1>4. r.buffered \ taken = Left(l, heads)
  <2>1. Left(l, heads) \subseteq r.buffered
    BY DEF Left, Fresh
  <2> QED BY <2>1
<1> HIDE DEF u, taken
<1> QED BY <1>2, <1>3, <1>4 DEF all

(* Lanes that go close rows, holes that open open them.                     *)
LEMMA AdvancedGapsGood ==
  ASSUME LanesIInv, NEW heads, NEW done, Drains(heads, done),
         NEW first, FirstPass(first, done), NEW gone \in SUBSET Lanes
  PROVE  GapsGood(OpenGaps(CloseGaps(sequenceGap, Release(Drained(heads, first), gone),
                                     GoneSources(gone)),
                           DueLanes \ gone, done),
                  Release(Drained(heads, done), gone))
<1> USE LanesAssumption
<1> DEFINE recs1 == Release(Drained(heads, first), gone)
           recs2 == Release(Drained(heads, done), gone)
           closed == CloseGaps(sequenceGap, recs1, GoneSources(gone))
           lanes == DueLanes \ gone
           gaps2 == OpenGaps(closed, lanes, done)
           opens(s) == OpensHole(s, lanes, done)
<1>0. LanesGood /\ GapsGood(sequenceGap, records)
  BY DEF LanesIInv
<1>1. \A l \in Lanes : recs1[l].missing =
        IF l \in gone THEN {} ELSE records[l].missing \cup Missed(l, first)
  <2> SUFFICES ASSUME NEW l \in Lanes
               PROVE  recs1[l].missing =
                        IF l \in gone THEN {} ELSE records[l].missing \cup Missed(l, first)
    OBVIOUS
  <2>1. CASE l \in gone
    BY <2>1 DEF Release, NoRecord
  <2>2. CASE l \notin gone /\ l \in DueLanes
    BY <1>0, <2>2, DrainedRecord DEF Release, Drained
  <2>3. CASE l \notin gone /\ l \notin DueLanes
    BY <2>3 DEF Release, Drained, Missed
  <2> QED BY <2>1, <2>2, <2>3
<1>2. \A l \in Lanes : recs2[l].missing =
        IF l \in gone THEN {} ELSE records[l].missing \cup Missed(l, done)
  <2> SUFFICES ASSUME NEW l \in Lanes
               PROVE  recs2[l].missing =
                        IF l \in gone THEN {} ELSE records[l].missing \cup Missed(l, done)
    OBVIOUS
  <2>1. CASE l \in gone
    BY <2>1 DEF Release, NoRecord
  <2>2. CASE l \notin gone /\ l \in DueLanes
    BY <1>0, <2>2, DrainedRecord DEF Release, Drained
  <2>3. CASE l \notin gone /\ l \notin DueLanes
    BY <2>3 DEF Release, Drained, Missed
  <2> QED BY <2>1, <2>2, <2>3
<1> HIDE DEF recs1, recs2
<1>3. \A s \in Sources : closed[s] =
        IF s \in GoneSources(gone) /\ ~SourceMissing(recs1, s) THEN NoGap ELSE sequenceGap[s]
  BY DEF CloseGaps
<1>4. closed \in [Sources -> GapRow] /\ (\A s \in Sources : closed[s] # NoGap => closed[s].at # 0)
  <2>1. NoGap \in GapRow
    BY DEF NoGap, GapRow
  <2>2. closed \in [Sources -> GapRow]
    BY <1>0, <2>1 DEF CloseGaps, GapsGood
  <2>3. \A s \in Sources : closed[s] # NoGap => closed[s].at # 0
    <3> HIDE DEF closed
    <3> QED BY <1>0, <1>3 DEF GapsGood
  <2> QED BY <2>2, <2>3
<1> HIDE DEF closed
<1>5. /\ gaps2 \in [Sources -> GapRow]
      /\ \A s \in Sources :
           /\ opens(s) => (gaps2[s] # NoGap /\ gaps2[s].at # 0)
           /\ ~opens(s) => gaps2[s] = closed[s]
  <2>1. lanes \in SUBSET DueLanes
    OBVIOUS
  <2> HIDE DEF lanes
  <2>2. HolesShown(closed, OpenGaps(closed, lanes, done), lanes, done)
    BY <1>0, <1>4, <2>1, OpenedGaps
  <2>3. HolesShown(closed, gaps2, lanes, done)
    BY <2>2
  <2> HIDE DEF gaps2
  <2> QED BY <2>3 DEF HolesShown
<1> HIDE DEF gaps2
<1>6. ASSUME NEW s \in Sources
      PROVE  /\ (gaps2[s] # NoGap) <=> SourceMissing(recs2, s)
             /\ gaps2[s] # NoGap => gaps2[s].at # 0
  <2>1. CASE opens(s)
    <3>1. PICK l \in lanes : SourceOf[l] = s /\ Missed(l, done) # {}
      BY <2>1 DEF OpensHole
    <3>2. l \in Lanes /\ recs2[l].missing # {}
      BY <1>2, <3>1 DEF DueLanes
    <3>3. SourceMissing(recs2, s)
      BY <3>1, <3>2 DEF SourceMissing
    <3> QED BY <1>5, <2>1, <3>3
  <2>2. CASE ~opens(s)
    <3>1. gaps2[s] = closed[s]
      BY <1>5, <2>2
    <3>2. \A l \in Lanes \ gone : SourceOf[l] = s => Missed(l, done) = {}
      BY <2>2 DEF Missed, OpensHole
    <3>3. \A l \in Lanes \ gone : SourceOf[l] = s => Missed(l, first) = {}
      BY <1>0, <3>2, FirstPassMissesNoMore
    <3>4. \A l \in Lanes : SourceOf[l] = s =>
            /\ recs1[l].missing = IF l \in gone THEN {} ELSE records[l].missing
            /\ recs2[l].missing = IF l \in gone THEN {} ELSE records[l].missing
      <4> HIDE DEF opens
      <4> QED BY <1>1, <1>2, <3>2, <3>3
    <3> HIDE DEF opens
    <3>5. SourceMissing(recs1, s) <=> SourceMissing(recs2, s)
      BY <3>4 DEF SourceMissing
    <3>6. SourceMissing(recs2, s) => SourceMissing(records, s)
      BY <3>4 DEF SourceMissing
    <3>7. s \notin GoneSources(gone) /\ SourceMissing(records, s) => SourceMissing(recs2, s)
      <4> SUFFICES ASSUME s \notin GoneSources(gone), SourceMissing(records, s)
                   PROVE  SourceMissing(recs2, s)
        OBVIOUS
      <4>1. PICK l \in Lanes : SourceOf[l] = s /\ records[l].missing # {}
        BY DEF SourceMissing
      <4>2. records[l] # NoRecord
        BY <4>1 DEF NoRecord
      <4>3. l \notin gone
        BY <4>1, <4>2 DEF GoneSources
      <4> QED BY <3>4, <4>1, <4>3 DEF SourceMissing
    <3>8. (sequenceGap[s] # NoGap) <=> SourceMissing(records, s)
      BY <1>0 DEF GapsGood
    <3>9. (closed[s] # NoGap) <=> SourceMissing(recs2, s)
      <4>1. CASE s \in GoneSources(gone) /\ ~SourceMissing(recs1, s)
        BY <1>3, <3>5, <4>1
      <4>2. CASE s \in GoneSources(gone) /\ SourceMissing(recs1, s)
        BY <1>3, <3>5, <3>6, <3>8, <4>2
      <4>3. CASE s \notin GoneSources(gone)
        BY <1>3, <3>6, <3>7, <3>8, <4>3
      <4> QED BY <4>1, <4>2, <4>3
    <3> QED BY <1>4, <3>1, <3>9
  <2> QED BY <2>1, <2>2
<1>7. GapsGood(gaps2, recs2)
  BY <1>5, <1>6 DEF GapsGood
<1> QED BY <1>7 DEF gaps2, closed, recs1, recs2

(* Advance keeps the invariant, whichever heads fail, lanes end and actors  *)
(* retire.                                                                  *)
LEMMA AdvanceWithKeeps ==
  ASSUME LanesIInv, NEW heads \in SUBSET (Fallible \cap Waiting), NEW done \in SUBSET Waiting,
         Drains(heads, done), NEW first \in SUBSET done, NEW dead \in SUBSET (Actors \ retired),
         FirstPass(first, done), AdvanceWith(heads, done, first, dead)
  PROVE  LanesMove /\ LanesIInv'
<1> USE LanesAssumption
<1> DEFINE gone == LanesOf(dead)
           recs == Release(Drained(heads, done), gone)
           deferred == {h \in heads : h.lane \notin gone}
           forgotten == Forgotten(deferred, recs)
           delta == AdvanceDelta(heads, done, gone, forgotten)
           closed == CloseGaps(sequenceGap, Release(Drained(heads, first), gone),
                               GoneSources(gone))
           appliedNow == [l \in Lanes |->
              IF l \in gone THEN {}
              ELSE IF l \in DueLanes THEN applied[l] \cup Sequences(done \cap Fresh(l))
              ELSE applied[l]]
<1>0. LanesGood /\ RestTyped
  BY DEF LanesIInv
<1>1. Waiting \subseteq Events /\ gone \in SUBSET Lanes /\ DueLanes \in SUBSET Lanes
  <2>1. \A l \in Lanes : records[l].buffered \subseteq Events
    BY <1>0 DEF LanesGood, SequenceRecord
  <2> QED BY <2>1 DEF Waiting, Fresh, DueLanes, LanesOf
<1>2. heads \in SUBSET Events /\ done \in SUBSET Events
  BY <1>1
<1>3. ASSUME NEW l \in Lanes
      PROVE  LaneEffect(l, records[l], applied[l], recs[l], appliedNow[l])
  <2>0. LaneGood(l, records[l], applied[l])
    BY <1>0 DEF LanesGood
  <2>1. CASE l \in gone
    <3>1. recs[l] = NoRecord /\ appliedNow[l] = {}
      BY <2>1 DEF Release
    <3> HIDE DEF recs, appliedNow
    <3> QED BY <3>1, ReleasedLane
  <2>2. CASE l \notin gone /\ l \in DueLanes
    <3>1. /\ recs[l] = DrainLane(l, heads, done)
          /\ appliedNow[l] = applied[l] \cup Sequences(done \cap Fresh(l))
      BY <2>2 DEF Release, Drained
    <3>2. LaneEffect(l, records[l], applied[l], DrainLane(l, heads, done),
                     applied[l] \cup Sequences(done \cap Fresh(l)))
      BY <1>2, <2>0, <2>2, DrainedLane
    <3> QED BY <3>1, <3>2
  <2>3. CASE l \notin gone /\ l \notin DueLanes
    <3>1. recs[l] = records[l] /\ appliedNow[l] = applied[l]
      BY <2>3 DEF Release, Drained
    <3> QED BY <2>0, <3>1, UntouchedLane
  <2> QED BY <2>1, <2>2, <2>3
<1>4. recs \in [Lanes -> SequenceRecord] /\ appliedNow \in [Lanes -> SUBSET (1..MaxSeq)]
  <2>1. \A l \in Lanes : recs[l] \in SequenceRecord /\ appliedNow[l] \in SUBSET (1..MaxSeq)
    BY <1>3 DEF LaneEffect, LaneGood
  <2>2. recs = [l \in Lanes |-> recs[l]] /\ appliedNow = [l \in Lanes |-> appliedNow[l]]
    BY DEF Release
  <2> HIDE DEF recs, appliedNow
  <2> QED BY <2>1, <2>2
<1>5. GapsGood(OpenGaps(closed, DueLanes \ gone, done), recs)
  BY <1>1, AdvancedGapsGood
<1>6. delta \in Int
  <2>1. Cardinality(InLanes([l \in DueLanes |-> Missed(l, done)])) \in Nat
    <3> DEFINE of == [l \in DueLanes |-> Missed(l, done)]
    <3>1. DOMAIN of = DueLanes /\ \A l \in DueLanes : of[l] \subseteq MissingRange
      BY DEF Missed, MissedRanges
    <3> HIDE DEF of
    <3>2. Cardinality(InLanes(of)) \in Nat
      BY <1>1, <3>1, RangesFinite, InLanesFinite
    <3> QED BY <3>2 DEF of
  <2>2. Cardinality(InLanes([l \in DueLanes |-> records[l].buffered \ Left(l, heads)])) \in Nat
    <3> DEFINE of == [l \in DueLanes |-> records[l].buffered \ Left(l, heads)]
    <3>1. DOMAIN of = DueLanes /\ \A l \in DueLanes : of[l] \subseteq Events
      BY <1>0, <1>1 DEF LanesGood, SequenceRecord
    <3> HIDE DEF of
    <3>2. Cardinality(InLanes(of)) \in Nat
      BY <1>1, <3>1, InLanesFinite
    <3> QED BY <3>2 DEF of
  <2>3. Cardinality(Restored(done)) \in Nat /\ Cardinality(forgotten) \in Nat
    <3>1. Restored(done) \in SUBSET Events /\ forgotten \in SUBSET Events
      BY <1>2 DEF Restored, Forgotten
    <3> HIDE DEF forgotten
    <3>2. IsFiniteSet(Restored(done)) /\ IsFiniteSet(forgotten)
      BY <3>1, FS_Subset
    <3> QED BY <3>2, FS_CardinalityType
  <2>4. HistoryIn(Drained(heads, done), gone) \in Nat
    <3>1. \A l \in Lanes : Drained(heads, done)[l] \in SequenceRecord
      <4> SUFFICES ASSUME NEW l \in Lanes PROVE Drained(heads, done)[l] \in SequenceRecord
        OBVIOUS
      <4>1. LaneGood(l, records[l], applied[l])
        BY <1>0 DEF LanesGood
      <4>2. CASE l \in DueLanes
        <5>1. LaneEffect(l, records[l], applied[l], DrainLane(l, heads, done),
                         applied[l] \cup Sequences(done \cap Fresh(l)))
          BY <1>2, <4>1, <4>2, DrainedLane
        <5>2. DrainLane(l, heads, done) \in SequenceRecord
          BY <5>1 DEF LaneEffect, LaneGood
        <5> QED BY <4>2, <5>2 DEF Drained
      <4>3. CASE l \notin DueLanes
        BY <4>1, <4>3 DEF Drained, LaneGood
      <4> QED BY <4>2, <4>3
    <3>2. Drained(heads, done) \in [Lanes -> SequenceRecord]
      BY <3>1 DEF Drained
    <3> QED BY <1>1, <3>2, HistoryCounted
  <2> HIDE DEF gone, forgotten
  <2> QED BY <2>1, <2>2, <2>3, <2>4 DEF AdvanceDelta
<1>7. Refingerprint(forgotten, Restored(done)) \in [Keys -> Prints \cup {NoPrint}]
  <2>1. ASSUME NEW k \in Keys, \E e \in Restored(done) : e.key = k
        PROVE  (CHOOSE e \in Restored(done) : e.key = k).print \in Prints
    <3>1. (CHOOSE e \in Restored(done) : e.key = k) \in Restored(done)
      BY <2>1
    <3>2. (CHOOSE e \in Restored(done) : e.key = k) \in Events
      BY <1>2, <3>1 DEF Restored
    <3> QED BY <3>2 DEF EventRecord
  <2>2. \A k \in Keys : fingerprints[k] \in Prints \cup {NoPrint}
    BY <1>0 DEF RestTyped
  <2> HIDE DEF forgotten
  <2> QED BY <2>1, <2>2 DEF Refingerprint
<1>8. CASE /\ records' = recs /\ applied' = appliedNow
           /\ sequenceGap' = OpenGaps(closed, DueLanes \ gone, done)
           /\ historyUnits' = historyUnits + delta
           /\ fingerprints' = Refingerprint(forgotten, Restored(done))
           /\ CountEffects(done)
           /\ retired' = retired \cup dead
           /\ Call(IF deferred = {} THEN "advanced" ELSE "deferred")
  <2> HIDE DEF recs, appliedNow, closed, gone, delta, forgotten, deferred
  <2>1. LanesMove
    BY <1>3, <1>8 DEF LanesMove
  <2>2. LanesGood'
    BY <1>4, <1>8, <2>1, LanesMoveGood
  <2>3. GapsGood(sequenceGap, records)'
    BY <1>5, <1>8
  <2>4. RestTyped'
    <3>1. clock' \in 1..Horizon /\ outcome' \in {"advanced", "deferred"}
      BY <1>0, <1>8 DEF Call, RestTyped
    <3>2. fingerprints' \in [Keys -> Prints \cup {NoPrint}]
      BY <1>7, <1>8
    <3>3. historyUnits' \in Int
      BY <1>0, <1>6, <1>8 DEF RestTyped
    <3>4. effects' \in [Identities -> 0..2]
      BY <1>0, <1>2, <1>8, CountedEffects DEF RestTyped
    <3>5. retired' \subseteq Actors
      BY <1>0, <1>8 DEF RestTyped
    <3> QED BY <3>1, <3>2, <3>3, <3>4, <3>5 DEF RestTyped
  <2> QED BY <2>1, <2>2, <2>3, <2>4 DEF LanesIInv
<1>9. CASE Unchanged /\ Call("refused")
  <2>1. clock' \in 1..Horizon /\ outcome' = "refused"
    BY <1>0, <1>9 DEF Call, RestTyped
  <2> QED BY <1>9, <2>1, UnchangedKeeps
<1> QED BY <1>8, <1>9 DEF AdvanceWith

(* Unpinning an actor whose ghost has gone releases its lanes and keeps the *)
(* invariant.                                                               *)
LEMMA UnpinKeeps ==
  ASSUME LanesIInv, NEW x \in Actors, Unpin(x)
  PROVE  LanesMove /\ LanesIInv'
<1> USE LanesAssumption
<1> DEFINE gone == LanesOf({x})
           recs == Release(records, gone)
           appliedNow == [l \in Lanes |-> IF l \in gone THEN {} ELSE applied[l]]
<1>0. LanesGood /\ RestTyped /\ gone \in SUBSET Lanes
  BY DEF LanesIInv, LanesOf
<1>1. /\ records' = recs /\ applied' = appliedNow
      /\ sequenceGap' = CloseGaps(sequenceGap, recs, GoneSources(gone))
      /\ historyUnits' = historyUnits - HistoryIn(records, gone)
      /\ retired' = retired \cup {x}
      /\ fingerprints' = fingerprints /\ effects' = effects
      /\ Call("ok")
  BY DEF Unpin
<1>2. \A l \in Lanes : LaneEffect(l, records[l], applied[l], recs[l], appliedNow[l])
  <2> SUFFICES ASSUME NEW l \in Lanes
               PROVE  LaneEffect(l, records[l], applied[l], recs[l], appliedNow[l])
    OBVIOUS
  <2>1. LaneGood(l, records[l], applied[l])
    BY <1>0 DEF LanesGood
  <2>2. CASE l \in gone
    <3>1. recs[l] = NoRecord /\ appliedNow[l] = {}
      BY <2>2 DEF Release
    <3> HIDE DEF recs, appliedNow
    <3> QED BY <3>1, ReleasedLane
  <2>3. CASE l \notin gone
    <3>1. recs[l] = records[l] /\ appliedNow[l] = applied[l]
      BY <2>3 DEF Release
    <3> QED BY <2>1, <3>1, UntouchedLane
  <2> QED BY <2>2, <2>3
<1>3. recs \in [Lanes -> SequenceRecord] /\ appliedNow \in [Lanes -> SUBSET (1..MaxSeq)]
  <2>1. \A l \in Lanes : recs[l] \in SequenceRecord /\ appliedNow[l] \in SUBSET (1..MaxSeq)
    BY <1>2 DEF LaneEffect, LaneGood
  <2>2. recs = [l \in Lanes |-> recs[l]] /\ appliedNow = [l \in Lanes |-> appliedNow[l]]
    BY DEF Release
  <2> HIDE DEF recs, appliedNow
  <2> QED BY <2>1, <2>2
<1>4. GapsGood(CloseGaps(sequenceGap, recs, GoneSources(gone)), recs)
  <2>1. \A l \in Lanes : recs[l].missing = IF l \in gone THEN {} ELSE records[l].missing
    BY DEF Release, NoRecord
  <2> HIDE DEF recs, gone
  <2> QED BY <1>0, <2>1, ReleaseClosesGaps
<1>5. HistoryIn(records, gone) \in Nat
  BY <1>0, HistoryCounted DEF LanesGood
<1> HIDE DEF recs, gone, appliedNow
<1>6. LanesMove
  BY <1>1, <1>2 DEF LanesMove
<1>7. LanesGood'
  BY <1>1, <1>3, <1>6, LanesMoveGood
<1>8. RestTyped'
  BY <1>0, <1>1, <1>5 DEF RestTyped, Call
<1>9. GapsGood(sequenceGap, records)'
  BY <1>1, <1>4
<1> QED BY <1>6, <1>7, <1>8, <1>9 DEF LanesIInv

-----------------------------------------------------------------------------
(* Theorems.                                                                *)

(* No lane is open at the start.                                            *)
LEMMA InitGood == LanesInit => LanesIInv
<1> USE LanesAssumption
<1> SUFFICES ASSUME LanesInit PROVE LanesIInv
  OBVIOUS
<1>1. /\ clock = 1 /\ records = [l \in Lanes |-> NoRecord]
      /\ fingerprints = [k \in Keys |-> NoPrint] /\ historyUnits = 0
      /\ sequenceGap = [s \in Sources |-> NoGap] /\ retired = {} /\ outcome = "ok"
      /\ applied = [l \in Lanes |-> {}] /\ effects = [i \in Identities |-> 0]
  BY DEF LanesInit
<1>2. ASSUME NEW l \in Lanes PROVE LaneGood(l, NoRecord, {})
  BY ReleasedLane DEF LaneEffect
<1>3. NoRecord \in SequenceRecord
  BY DEF NoRecord, SequenceRecord
<1>4. LanesGood
  BY <1>1, <1>2, <1>3 DEF LanesGood
<1>5. GapsGood(sequenceGap, records)
  <2>1. NoGap \in GapRow /\ NoRecord.missing = {}
    BY DEF NoGap, GapRow, NoRecord
  <2> QED BY <1>1, <2>1 DEF GapsGood, SourceMissing
<1>6. RestTyped
  BY <1>1 DEF RestTyped
<1> QED BY <1>4, <1>5, <1>6 DEF LanesIInv

(* Every step keeps the invariant, and changes each lane as LaneEffect      *)
(* allows.                                                                  *)
LEMMA StepGood ==
  ASSUME LanesIInv, [LanesNext]_laneVars
  PROVE  LanesMove /\ LanesIInv'
<1>1. CASE \E e \in Events : Apply(e)
  BY <1>1, ApplyKeeps
<1>2. CASE Advance
  <2>1. PICK heads \in SUBSET (Fallible \cap Waiting), done \in SUBSET Waiting :
          /\ Drains(heads, done)
          /\ \E first \in SUBSET done, dead \in SUBSET (Actors \ retired) :
               FirstPass(first, done) /\ AdvanceWith(heads, done, first, dead)
    BY <1>2 DEF Advance
  <2>2. PICK first \in SUBSET done, dead \in SUBSET (Actors \ retired) :
          FirstPass(first, done) /\ AdvanceWith(heads, done, first, dead)
    BY <2>1
  <2> QED BY <2>1, <2>2, AdvanceWithKeeps
<1>3. CASE \E x \in Actors : Unpin(x)
  BY <1>3, UnpinKeeps
<1>4. CASE Tick
  <2>1. Unchanged /\ outcome' = outcome /\ clock' = clock + 1 /\ clock < Horizon
    BY <1>4 DEF Tick, Unchanged
  <2>2. clock' \in 1..Horizon
    BY <2>1, LanesAssumption DEF LanesIInv, RestTyped
  <2>3. outcome' \in {"ok", "advanced", "deferred", "refused", "collision", "regime"}
    BY <2>1 DEF LanesIInv, RestTyped
  <2> QED BY <2>1, <2>2, <2>3, UnchangedKeeps
<1>5. CASE UNCHANGED laneVars
  <2>1. Unchanged /\ outcome' = outcome /\ clock' = clock
    BY <1>5 DEF laneVars, Unchanged
  <2>2. /\ clock' \in 1..Horizon
        /\ outcome' \in {"ok", "advanced", "deferred", "refused", "collision", "regime"}
    BY <2>1 DEF LanesIInv, RestTyped
  <2> QED BY <2>1, <2>2, UnchangedKeeps
<1> QED BY <1>1, <1>2, <1>3, <1>4, <1>5 DEF LanesNext

(* The inductive invariant holds in every state.                            *)
LEMMA LanesAlwaysGood == LanesSpec => []LanesIInv
<1>1. LanesInit => LanesIInv
  BY InitGood
<1>2. LanesIInv /\ [LanesNext]_laneVars => LanesIInv'
  BY StepGood
<1> QED BY <1>1, <1>2, PTL DEF LanesSpec

(* Every variable of the lanes keeps its type, and what waits waits in its  *)
(* own lane (sequenceRecords).                                              *)
THEOREM LanesTypeCorrect == LanesSpec => []LanesTypeOK
<1>1. LanesIInv => LanesTypeOK
  <2> SUFFICES ASSUME LanesIInv PROVE LanesTypeOK
    OBVIOUS
  <2>1. /\ records \in [Lanes -> SequenceRecord]
        /\ applied \in [Lanes -> SUBSET (1..MaxSeq)]
        /\ \A l \in Lanes : \A b \in records[l].buffered : b.lane = l /\ b.seq # 0
    BY DEF LanesIInv, LanesGood, LaneGood
  <2>2. sequenceGap \in [Sources -> [count: 0..CountCeiling, at: 0..(Horizon + ReorderWindow)]]
    BY DEF LanesIInv, GapsGood, GapRow
  <2> QED BY <2>1, <2>2 DEF LanesIInv, RestTyped, LanesTypeOK
<1> QED BY <1>1, LanesAlwaysGood, PTL

(* No event waits without a deadline, and no deadline stands for nothing    *)
(* (stageProtocolEvent, prepareAdvance).                                    *)
THEOREM WaitingAlwaysHasDeadline == LanesSpec => []WaitingHasDeadline
<1>1. LanesIInv => WaitingHasDeadline
  BY DEF LanesIInv, LanesGood, LaneGood, WaitingHasDeadline
<1> QED BY <1>1, LanesAlwaysGood, PTL

(* The public gap row of a source stands exactly while one of its lanes     *)
(* misses a number, whatever closes, opens and recovers in one transaction  *)
(* (stageSequenceGap, sourceHasMissing).                                    *)
THEOREM GapAlwaysTellsMissing == LanesSpec => []GapTellsMissing
<1>1. LanesIInv => GapTellsMissing
  BY DEF LanesIInv, GapsGood, GapTellsMissing
<1> QED BY <1>1, LanesAlwaysGood, PTL

(* No event leaves a buffer unless its number was applied or its lane was   *)
(* released: a leftover that is thrown away bears an applied number         *)
(* (stageProtocolEvent, prepareAdvance).                                    *)
THEOREM NothingIsDropped == LanesSpec => NoneDropped
<1>1. LanesIInv /\ [LanesNext]_laneVars =>
        [\A l \in Lanes : \A e \in records[l].buffered :
           e \in records'[l].buffered \/ e.seq \in applied'[l] \/ records'[l] = NoRecord]_laneVars
  BY StepGood DEF LanesMove, LaneEffect, Keeps
<1> QED BY <1>1, LanesAlwaysGood, PTL DEF LanesSpec, NoneDropped

(* An Advance that answers without an error leaves no lane whose deadline   *)
(* has come (prepareAdvance).                                               *)
THEOREM AdvanceIsHonest == LanesSpec => AdvanceHonest
<1>1. ASSUME LanesIInv, LanesNext, outcome' = "advanced", clock' = clock
      PROVE  DueLanes' = {}
  <2>1. Advance
    <3>1. ASSUME NEW e \in Events, Apply(e) PROVE FALSE
      <4>1. outcome' \in {"ok", "refused", "collision", "regime"}
        BY <3>1 DEF Apply, ApplyReplay, ApplyOpen, ApplyRetired, ApplyRegimeMismatch,
                    ApplyUnsequenced, ApplyLate, ApplyEarly, ApplyNext, Settle, Commit,
                    Refuse, Call
      <4> QED BY <1>1, <4>1
    <3>2. ASSUME NEW x \in Actors, Unpin(x) PROVE FALSE
      BY <1>1, <3>2 DEF Unpin, Call
    <3>3. ~Tick
      BY <1>1 DEF Tick, LanesIInv, RestTyped
    <3> QED BY <1>1, <3>1, <3>2, <3>3 DEF LanesNext
  <2>2. PICK heads \in SUBSET (Fallible \cap Waiting), done \in SUBSET Waiting :
          \E first \in SUBSET done, dead \in SUBSET (Actors \ retired) :
            AdvanceWith(heads, done, first, dead)
    BY <2>1 DEF Advance
  <2>3. PICK first \in SUBSET done, dead \in SUBSET (Actors \ retired) :
          AdvanceWith(heads, done, first, dead)
    BY <2>2
  <2> DEFINE gone == LanesOf(dead)
             deferred == {h \in heads : h.lane \notin gone}
  <2>4. records' = Release(Drained(heads, done), gone) /\ deferred = {}
    <3>1. CASE outcome' = "refused"
      BY <1>1, <3>1
    <3>2. CASE /\ records' = Release(Drained(heads, done), gone)
               /\ Call(IF deferred = {} THEN "advanced" ELSE "deferred")
      <4>1. outcome' = IF deferred = {} THEN "advanced" ELSE "deferred"
        BY <3>2 DEF Call
      <4> HIDE DEF deferred
      <4> QED BY <1>1, <3>2, <4>1
    <3> QED BY <2>3, <3>1, <3>2 DEF AdvanceWith, Call
  <2>5. ASSUME NEW l \in Lanes PROVE ~(records'[l].deadline # 0 /\ records'[l].deadline <= clock')
    <3>1. CASE l \in gone
      BY <2>4, <3>1 DEF Release, NoRecord
    <3>2. CASE l \notin gone /\ l \in DueLanes
      <4>1. records'[l] = DrainLane(l, heads, done)
        BY <2>4, <3>2 DEF Release, Drained
      <4>2. Left(l, heads) = {}
        BY <2>4, <3>2 DEF Left
      <4>3. records'[l].buffered = {}
        BY <1>1, <3>2, <4>1, <4>2, DrainedRecord DEF LanesIInv
      <4>4. LaneGood(l, records'[l], applied'[l])
        BY <1>1, StepGood DEF LanesIInv, LanesGood
      <4> QED BY <4>3, <4>4 DEF LaneGood
    <3>3. CASE l \notin gone /\ l \notin DueLanes
      <4>1. records'[l] = records[l]
        BY <2>4, <3>3 DEF Release, Drained
      <4> QED BY <1>1, <3>3, <4>1 DEF DueLanes
    <3> QED BY <3>1, <3>2, <3>3
  <2> QED BY <2>5 DEF DueLanes
<1>2. LanesIInv /\ [LanesNext]_laneVars =>
        [outcome' = "advanced" /\ clock' = clock => DueLanes' = {}]_laneVars
  BY <1>1
<1> QED BY <1>2, LanesAlwaysGood, PTL DEF LanesSpec, AdvanceHonest

(* Lanes implement OrderedDelivery: whatever order events come in, a lane   *)
(* delivers upwards and accounts for every number it passes.                *)
THEOREM LanesDeliverInOrder == LanesSpec => DeliversInOrder
<1> USE LanesAssumption
<1>1. LaneView = [l \in Lanes |-> ViewOf(records[l], applied[l])]
  BY DEF LaneView, ViewOf
<1>2. LanesInit => Delivery!Init
  <2> SUFFICES ASSUME LanesInit PROVE Delivery!Init
    OBVIOUS
  <2>1. \A l \in Lanes : ViewOf(records[l], applied[l]) = Delivery!Closed
    BY DEF LanesInit, NoRecord, ViewOf, Delivery!Closed
  <2> QED BY <1>1, <2>1 DEF Delivery!Init
<1>3. ASSUME LanesIInv, [LanesNext]_laneVars
      PROVE  Delivery!Next
  <2>0. LanesMove /\ LanesGood'
    BY <1>3, StepGood DEF LanesIInv
  <2>1. LaneView' = [l \in Lanes |-> ViewOf(records'[l], applied'[l])]
    BY DEF LaneView, ViewOf
  <2>2. \A l \in Lanes : ViewOf(records'[l], applied'[l]) \in Delivery!View
    <3> SUFFICES ASSUME NEW l \in Lanes
                 PROVE  ViewOf(records'[l], applied'[l]) \in Delivery!View
      OBVIOUS
    <3>1. LaneGood(l, records'[l], applied'[l])
      BY <2>0 DEF LanesGood
    <3> QED BY <3>1, ViewTyped
  <2>3. LaneView' \in [Lanes -> Delivery!View]
    BY <2>1, <2>2
  <2>4. ASSUME NEW l \in Lanes PROVE Delivers(LaneView[l], LaneView'[l])
    <3>1. Delivers(ViewOf(records[l], applied[l]), ViewOf(records'[l], applied'[l]))
      BY <2>0 DEF LanesMove, LaneEffect
    <3>2. LaneView[l] = ViewOf(records[l], applied[l])
      BY <1>1
    <3>3. LaneView'[l] = ViewOf(records'[l], applied'[l])
      BY <2>1
    <3> QED BY <3>1, <3>2, <3>3
  <2> QED BY <2>3, <2>4 DEF Delivery!Next, Delivers
<1>4. LanesIInv /\ [LanesNext]_laneVars => [Delivery!Next]_LaneView
  BY <1>3
<1> QED BY <1>2, <1>4, LanesAlwaysGood, PTL DEF LanesSpec, Delivery!Spec, DeliversInOrder

-----------------------------------------------------------------------------
(* What keeps the lanes in order beyond their records: the units of        *)
(* history, the counts of the gaps, the deadlines, and that an event takes  *)
(* effect once.                                                             *)

-----------------------------------------------------------------------------
(* The steps that change something, each with what it found.                *)

OpenStep(e) ==
  /\ New(e) /\ records[e.lane] = NoRecord /\ ActorOf[e.lane] \notin retired
  /\ Commit(e, OpenPlan(e))

UnsequencedStep(e) ==
  /\ New(e) /\ records[e.lane].regime = "unsequenced" /\ e.seq = 0
  /\ Commit(e, UnsequencedPlan(e))

LateStep(e) ==
  /\ New(e) /\ records[e.lane].regime \in {"ordered", "exhausted"} /\ e.seq # 0
  /\ Commit(e, LatePlan(e))

EarlyStep(e) ==
  /\ New(e) /\ records[e.lane].regime = "ordered" /\ e.seq > records[e.lane].next
  /\ Commit(e, EarlyPlan(e))

NextStep(e, drained) ==
  /\ New(e) /\ records[e.lane].regime = "ordered" /\ e.seq = records[e.lane].next
  /\ drained \in SUBSET records[e.lane].buffered
  /\ OnePer(ReadyRun(records[e.lane].buffered, e.seq + 1), drained)
  /\ Commit(e, NextPlan(e, drained))

DeferredBy(heads, gone) == {h \in heads : h.lane \notin gone}

AdvanceStep(heads, done, first, dead) ==
  LET gone == LanesOf(dead)
      recs == Release(Drained(heads, done), gone)
      forgotten == Forgotten(DeferredBy(heads, gone), recs)
      closed == CloseGaps(sequenceGap, Release(Drained(heads, first), gone), GoneSources(gone))
  IN  /\ heads \in SUBSET (Fallible \cap Waiting) /\ done \in SUBSET Waiting
      /\ first \in SUBSET done /\ dead \in SUBSET (Actors \ retired)
      /\ Drains(heads, done) /\ FirstPass(first, done)
      /\ records' = recs
      /\ sequenceGap' = OpenGaps(closed, DueLanes \ gone, done)
      /\ historyUnits' = historyUnits + AdvanceDelta(heads, done, gone, forgotten)
      /\ fingerprints' = Refingerprint(forgotten, Restored(done))
      /\ applied' = [l \in Lanes |->
           IF l \in gone THEN {}
           ELSE IF l \in DueLanes THEN applied[l] \cup Sequences(done \cap Fresh(l))
           ELSE applied[l]]
      /\ CountEffects(done)
      /\ retired' = retired \cup dead
      /\ clock' = clock

QuietStep == Unchanged /\ clock' \in {clock, clock + 1}

StepKind ==
  \/ QuietStep
  \/ \E e \in Events : OpenStep(e) \/ UnsequencedStep(e) \/ LateStep(e) \/ EarlyStep(e)
  \/ \E e \in Events : \E drained \in SUBSET records[e.lane].buffered : NextStep(e, drained)
  \/ \E heads, done, first, dead : AdvanceStep(heads, done, first, dead)
  \/ \E a \in Actors : Unpin(a)

(* A call that commits its plan takes one of these steps, any other leaves  *)
(* everything (Apply, Advance).                                             *)
LEMMA StepKinds ==
  ASSUME LanesIInv, [LanesNext]_laneVars
  PROVE  StepKind
<1>0. clock \in 1..Horizon /\ Horizon \in Nat
  BY LanesAssumption DEF LanesIInv, RestTyped
<1>1. ASSUME NEW e \in Events, Apply(e) PROVE StepKind
  <2>1. ASSUME NEW plan, Settle(e, plan) PROVE Commit(e, plan) \/ QuietStep
    BY <1>0, <2>1 DEF Settle, Refuse, Call, QuietStep
  <2>2. CASE ApplyReplay(e) \/ ApplyRetired(e) \/ ApplyRegimeMismatch(e)
    <3>1. QuietStep
      BY <1>0, <2>2 DEF ApplyReplay, ApplyRetired, ApplyRegimeMismatch, Call, QuietStep
    <3> QED BY <3>1 DEF StepKind
  <2>3. CASE ApplyOpen(e)
    BY <2>1, <2>3 DEF ApplyOpen, OpenStep, StepKind
  <2>4. CASE ApplyUnsequenced(e)
    BY <2>1, <2>4 DEF ApplyUnsequenced, Regime, UnsequencedStep, StepKind
  <2>5. CASE ApplyLate(e)
    BY <2>1, <2>5 DEF ApplyLate, Regime, Sequenced, LateStep, StepKind
  <2>6. CASE ApplyEarly(e)
    BY <2>1, <2>6 DEF ApplyEarly, Regime, EarlyStep, StepKind
  <2>7. CASE ApplyNext(e)
    <3>1. New(e) /\ records[e.lane].regime = "ordered" /\ e.seq = records[e.lane].next
      BY <2>7 DEF ApplyNext, Regime
    <3>2. PICK drained \in SUBSET records[e.lane].buffered :
            /\ OnePer(ReadyRun(records[e.lane].buffered, e.seq + 1), drained)
            /\ Settle(e, NextPlan(e, drained))
      BY <2>7 DEF ApplyNext
    <3>3. CASE Commit(e, NextPlan(e, drained))
      <4>1. NextStep(e, drained)
        BY <3>1, <3>2, <3>3 DEF NextStep
      <4> QED BY <4>1 DEF StepKind
    <3>4. CASE QuietStep
      BY <3>4 DEF StepKind
    <3> QED BY <2>1, <3>2, <3>3, <3>4
  <2> QED BY <1>1, <2>2, <2>3, <2>4, <2>5, <2>6, <2>7 DEF Apply
<1>2. CASE Advance
  <2>1. PICK heads \in SUBSET (Fallible \cap Waiting), done \in SUBSET Waiting :
          /\ Drains(heads, done)
          /\ \E first \in SUBSET done, dead \in SUBSET (Actors \ retired) :
               FirstPass(first, done) /\ AdvanceWith(heads, done, first, dead)
    BY <1>2 DEF Advance
  <2>2. PICK first \in SUBSET done, dead \in SUBSET (Actors \ retired) :
          FirstPass(first, done) /\ AdvanceWith(heads, done, first, dead)
    BY <2>1
  <2>3. AdvanceStep(heads, done, first, dead) \/ QuietStep
    <3>1. CASE Unchanged /\ Call("refused")
      BY <1>0, <3>1 DEF Call, QuietStep
    <3>2. CASE ~(Unchanged /\ Call("refused"))
      BY <2>1, <2>2, <3>2 DEF AdvanceWith, AdvanceStep, DeferredBy, Call
    <3> QED BY <3>1, <3>2
  <2> QED BY <2>3 DEF StepKind
<1>3. CASE \E a \in Actors : Unpin(a)
  BY <1>3 DEF StepKind
<1>4. CASE Tick
  BY <1>0, <1>4 DEF Tick, Unchanged, QuietStep, StepKind
<1>5. CASE UNCHANGED laneVars
  BY <1>0, <1>5 DEF laneVars, Unchanged, QuietStep, StepKind
<1> QED BY <1>1, <1>2, <1>3, <1>4, <1>5 DEF LanesNext

-----------------------------------------------------------------------------
(* What the steps do to the records.                                        *)

(* The lane that opens holds nothing, the lanes of whom it succeeds go.     *)
LEMMA OpenRecords ==
  ASSUME LanesIInv, NEW e \in Events, OpenStep(e)
  PROVE  /\ e.lane \in Lanes /\ e.lane \notin LanesOf(e.retires)
         /\ records'[e.lane].buffered = {} /\ records'[e.lane].missing = {}
         /\ \A l \in Lanes \ {e.lane} :
              records'[l] = IF l \in LanesOf(e.retires) THEN NoRecord ELSE records[l]
         /\ retired' = retired \cup e.retires
<1> USE LanesAssumption
<1> DEFINE opened == IF e.seq = 0 THEN [NoRecord EXCEPT !.regime = "unsequenced"]
                                  ELSE AdvanceSequenceRecord(NoRecord, e.seq)
<1>0. e.lane \in Lanes /\ e.seq \in 0..MaxSeq /\ e.lane \notin LanesOf(e.retires)
  BY DEF EventRecord, LanesOf
<1>1. records' = [Release(records, LanesOf(e.retires)) EXCEPT ![e.lane] = opened]
  BY DEF OpenStep, Commit, OpenPlan
<1>2. opened.buffered = {} /\ opened.missing = {}
  <2>1. CASE e.seq = 0
    BY <2>1 DEF NoRecord
  <2>2. CASE e.seq # 0
    BY <2>2 DEF NoRecord, AdvanceSequenceRecord
  <2> QED BY <2>1, <2>2
<1> HIDE DEF opened
<1>3. records'[e.lane] = opened
  BY <1>0, <1>1 DEF Release
<1>4. \A l \in Lanes \ {e.lane} :
        records'[l] = IF l \in LanesOf(e.retires) THEN NoRecord ELSE records[l]
  BY <1>0, <1>1 DEF Release
<1>5. retired' = retired \cup e.retires
  <2>1. OpenPlan(e).ran = {e}
    BY DEF OpenPlan
  <2> QED BY <2>1 DEF OpenStep, Commit
<1> QED BY <1>0, <1>2, <1>3, <1>4, <1>5

(* The lane of the event that is next holds what did not run with it.       *)
NextRecord(r, e, drained) ==
  AdvanceSequenceRecord(Unbuffer(r, drained), Max(Sequences(drained \cup {e})))

(* The record of a lane after the event it waited for.                      *)
LEMMA NextRecords ==
  ASSUME LanesIInv, NEW e \in Events, NEW drained \in SUBSET records[e.lane].buffered,
         NextStep(e, drained)
  PROVE  /\ e.lane \in Lanes
         /\ records' = [records EXCEPT ![e.lane] = NextRecord(records[e.lane], e, drained)]
         /\ records'[e.lane].buffered = records[e.lane].buffered \ drained
         /\ records'[e.lane].missing = records[e.lane].missing
         /\ \A l \in Lanes \ {e.lane} : records'[l] = records[l]
<1> USE LanesAssumption
<1>0. e.lane \in Lanes /\ records \in [Lanes -> SequenceRecord]
      /\ LaneGood(e.lane, records[e.lane], applied[e.lane])
  BY DEF EventRecord, LanesIInv, LanesGood
<1>1. records' = [records EXCEPT ![e.lane] = NextRecord(records[e.lane], e, drained)]
  BY DEF NextStep, Commit, NextPlan, NextRecord
<1> DEFINE r == records[e.lane]
           u == Unbuffer(r, drained)
           n == Max(Sequences(drained \cup {e}))
<1>2. u.buffered = r.buffered \ drained /\ u.missing = r.missing
      /\ DOMAIN u = {"regime", "next", "deadline", "buffered", "missing"}
  <2>1. r \in SequenceRecord
    BY <1>0
  <2> QED BY <2>1 DEF Unbuffer, SequenceRecord
<1>3. /\ AdvanceSequenceRecord(u, n).buffered = r.buffered \ drained
      /\ AdvanceSequenceRecord(u, n).missing = r.missing
  <2> HIDE DEF u, n, r
  <2> QED BY <1>2 DEF AdvanceSequenceRecord
<1>4. /\ NextRecord(r, e, drained).buffered = r.buffered \ drained
      /\ NextRecord(r, e, drained).missing = r.missing
  BY <1>3 DEF NextRecord
<1>5. records'[e.lane] = NextRecord(r, e, drained)
  BY <1>0, <1>1
<1>6. \A l \in Lanes \ {e.lane} : records'[l] = records[l]
  BY <1>0, <1>1
<1> QED BY <1>0, <1>1, <1>4, <1>5, <1>6

(* The numbers that run with it are the next one and what follows it.       *)
LEMMA NextRuns ==
  ASSUME LanesIInv, NEW e \in Events, NEW drained \in SUBSET records[e.lane].buffered,
         NextStep(e, drained)
  PROVE  /\ Max(Sequences(drained \cup {e})) \in 1..MaxSeq
         /\ Max(Sequences(drained \cup {e})) \in Sequences(drained \cup {e})
         /\ \A d \in drained : d.seq <= Max(Sequences(drained \cup {e}))
         /\ e.seq <= Max(Sequences(drained \cup {e}))
         /\ records'[e.lane].regime = "ordered" =>
              records'[e.lane].next = Max(Sequences(drained \cup {e})) + 1
<1> USE LanesAssumption
<1> DEFINE r == records[e.lane]
           ran == Sequences(drained \cup {e})
           n == Max(ran)
<1>0. /\ r \in SequenceRecord /\ r.buffered \in SUBSET Events
      /\ ((r.buffered # {}) <=> (r.deadline # 0))
      /\ \A b \in r.buffered : b.seq # 0
      /\ e.seq = r.next /\ 1 <= r.next /\ r.next \in 0..MaxSeq
  <2>1. e.lane \in Lanes
    BY DEF EventRecord
  <2>2. r \in SequenceRecord /\ LaneGood(e.lane, r, applied[e.lane])
    BY <2>1 DEF LanesIInv, LanesGood
  <2>3. e.seq = r.next /\ r.regime = "ordered"
    BY DEF NextStep
  <2> QED BY <2>2, <2>3 DEF LaneGood, SequenceRecord
<1>1. ran \subseteq 0..MaxSeq /\ ran # {} /\ e.seq \in ran /\ \A d \in drained : d.seq \in ran
  <2>1. \A b \in drained \cup {e} : b.seq \in 0..MaxSeq
    BY <1>0 DEF EventRecord
  <2> QED BY <2>1 DEF Sequences
<1>2. \A x \in ran : x # 0
  BY <1>0 DEF Sequences
<1>3. n \in ran /\ \A x \in ran : x <= n
  <2> HIDE DEF ran
  <2> QED BY <1>1, MaxIsMember
<1> HIDE DEF n
<1>4. n \in 1..MaxSeq
  <2> HIDE DEF ran
  <2>1. n \in 0..MaxSeq /\ n # 0
    BY <1>1, <1>2, <1>3
  <2> QED BY <2>1
<1> HIDE DEF ran
<1>5. records'[e.lane] = AdvanceSequenceRecord(Unbuffer(r, drained), n)
  <2>1. e.lane \in Lanes /\ records \in [Lanes -> SequenceRecord]
    BY DEF EventRecord, LanesIInv, LanesGood
  <2> HIDE DEF r
  <2> QED BY <2>1, NextRecords DEF NextRecord, n, ran, r
<1>6. records'[e.lane].regime = "ordered" => records'[e.lane].next = n + 1
  <2>1. Unbuffer(r, drained) \in SequenceRecord
    <3> HIDE DEF r
    <3> QED BY <1>0, UnbufferedRecord
  <2> DEFINE u == Unbuffer(r, drained)
  <2>2. /\ n = MaxSeq => AdvanceSequenceRecord(u, n).regime = "exhausted"
        /\ n < MaxSeq => AdvanceSequenceRecord(u, n).next = n + 1
    <3> HIDE DEF u
    <3> QED BY <1>4, <2>1, AdvancedRecord DEF u
  <2> HIDE DEF u
  <2>3. n = MaxSeq \/ n < MaxSeq
    BY <1>4
  <2>4. records'[e.lane] = AdvanceSequenceRecord(u, n)
    BY <1>5 DEF u
  <2> QED BY <2>2, <2>3, <2>4
<1> QED BY <1>1, <1>3, <1>4, <1>6 DEF n, ran

(* An Advance releases lanes, drains those that are due, and leaves the     *)
(* rest. A lane that keeps something keeps its deadline.                    *)
LEMMA AdvanceRecords ==
  ASSUME LanesIInv, NEW heads, NEW done, NEW first, NEW dead,
         AdvanceStep(heads, done, first, dead)
  PROVE  /\ \A l \in LanesOf(dead) : records'[l] = NoRecord
         /\ \A l \in DueLanes \ LanesOf(dead) : records'[l] = DrainLane(l, heads, done)
         /\ \A l \in (Lanes \ DueLanes) \ LanesOf(dead) : records'[l] = records[l]
<1>1. records' = Release(Drained(heads, done), LanesOf(dead))
  BY DEF AdvanceStep
<1>2. DueLanes \subseteq Lanes /\ LanesOf(dead) \subseteq Lanes
  BY DEF DueLanes, LanesOf
<1> QED BY <1>1, <1>2 DEF Release, Drained

(* A lane of which something is left keeps its deadline.                    *)
LEMMA DrainedDeadline ==
  ASSUME LanesGood, NEW l \in DueLanes, NEW heads, NEW done, Left(l, heads) # {}
  PROVE  DrainLane(l, heads, done).deadline = records[l].deadline
<1> USE LanesAssumption
<1> DEFINE r == records[l]
           ran == Sequences(done \cap Fresh(l))
           moved == IF ran = {} THEN r ELSE AdvanceSequenceRecord(r, Max(ran))
           u == [moved EXCEPT !.missing = r.missing \cup Missed(l, done)]
           taken == r.buffered \ Left(l, heads)
<1>0. r \in SequenceRecord
  BY DEF DueLanes, LanesGood
<1>1. DOMAIN moved = {"regime", "next", "deadline", "buffered", "missing"}
      /\ moved.buffered = r.buffered /\ moved.deadline = r.deadline
  <2>1. CASE ran = {}
    BY <1>0, <2>1 DEF SequenceRecord
  <2>2. CASE ran # {}
    <3>1. moved = AdvanceSequenceRecord(r, Max(ran))
      BY <2>2
    <3> HIDE DEF moved, ran, r
    <3>2. DOMAIN r = {"regime", "next", "deadline", "buffered", "missing"}
      BY <1>0 DEF SequenceRecord
    <3> QED BY <3>1, <3>2 DEF AdvanceSequenceRecord
  <2> QED BY <2>1, <2>2
<1> HIDE DEF moved
<1>2. /\ DOMAIN u = {"regime", "next", "deadline", "buffered", "missing"}
      /\ u.buffered = r.buffered /\ u.deadline = r.deadline
  BY <1>1
<1>3. DrainLane(l, heads, done) = Unbuffer(u, taken)
  BY DEF DrainLane, moved
<1>4. ~(r.buffered \subseteq taken)
  <2>1. Left(l, heads) \subseteq r.buffered
    BY DEF Left, Fresh
  <2> QED BY <2>1
<1> HIDE DEF u, taken
<1>5. Unbuffer(u, taken).deadline = u.deadline
  BY <1>2, <1>4 DEF Unbuffer
<1> QED BY <1>2, <1>3, <1>5

-----------------------------------------------------------------------------
(* Reasons to wait.                                                         *)

(* ReadyHasReason of one lane.                                              *)
LaneReasoned(r, now) ==
  \A b \in r.buffered :
    (r.regime = "ordered" /\ b.seq = r.next) =>
      \/ \E c \in r.buffered : c.seq < r.next
      \/ r.deadline # 0 /\ r.deadline <= now

(* What waits after a run: either the head of the heap kept the run from    *)
(* starting, or two events bear the number at which it ended.               *)
LEMMA RunEndsForAReason ==
  ASSUME NEW buffered \in SUBSET Events, NEW n \in 1..MaxSeq,
         NEW drained \in SUBSET buffered, OnePer(ReadyRun(buffered, n + 1), drained),
         NEW m \in n..MaxSeq, m = n \/ m \in Sequences(drained),
         \A d \in drained : d.seq <= m,
         NEW b \in buffered \ drained, b.seq = m + 1
  PROVE  \E c \in buffered \ drained : c.seq < m + 1
<1> USE LanesAssumption
<1>0. \A x \in buffered : x.seq \in 0..MaxSeq
  BY DEF EventRecord
<1>1. /\ Sequences(drained) = ReadyRun(buffered, n + 1)
      /\ \A c, d \in drained : c.seq = d.seq => c = d
  BY DEF OnePer
<1>2. m + 1 \notin ReadyRun(buffered, n + 1)
  <2>1. \A s \in Sequences(drained) : s <= m
    BY DEF Sequences
  <2> QED BY <1>1, <2>1
<1>3. m + 1 \in Sequences(buffered) /\ n + 1 <= m + 1
  BY DEF Sequences
<1>4. CASE \E x \in buffered : ~(x.seq >= n + 1)
  <2>1. PICK x \in buffered : ~(x.seq >= n + 1)
    BY <1>4
  <2>2. x \notin drained
    <3>1. \A s \in ReadyRun(buffered, n + 1) : n + 1 <= s
      BY DEF ReadyRun
    <3>2. x \in drained => x.seq \in Sequences(drained)
      BY DEF Sequences
    <3> QED BY <1>0, <1>1, <2>1, <3>1, <3>2
  <2> QED BY <1>0, <2>1, <2>2
<1>5. CASE \A x \in buffered : x.seq >= n + 1
  <2>1. PICK t \in (n + 1)..((m + 1) - 1) :
          ~(/\ t \in Sequences(buffered)
            /\ \A c, d \in buffered : c.seq = t /\ d.seq = t => c = d)
    BY <1>2, <1>3, <1>5 DEF ReadyRun
  <2>2. t \in (n + 1)..m
    BY <2>1
  <2>3. m \in ReadyRun(buffered, n + 1)
    BY <1>1, <2>2
  <2>4. t \in ReadyRun(buffered, n + 1)
    <3>1. n + 1 \in Nat
      OBVIOUS
    <3> QED BY <2>2, <2>3, <3>1, ReadyRunFollows
  <2>5. t \in Sequences(buffered)
    BY <2>4 DEF ReadyRun
  <2>6. PICK c \in buffered, d \in buffered : c.seq = t /\ d.seq = t /\ c # d
    BY <2>1, <2>5
  <2>7. c \notin drained \/ d \notin drained
    BY <1>1, <2>6
  <2> QED BY <2>2, <2>6, <2>7
<1> QED BY <1>4, <1>5

(* Every step leaves every lane a reason (stageProtocolEvent, the drain     *)
(* loop; prepareAdvance).                                                   *)
LEMMA ReasonsStay ==
  ASSUME LanesIInv, \A l \in Lanes : LaneReasoned(records[l], clock), StepKind
  PROVE  \A l \in Lanes : LaneReasoned(records'[l], clock')
<1> USE LanesAssumption
<1> SUFFICES ASSUME NEW l \in Lanes PROVE LaneReasoned(records'[l], clock')
  OBVIOUS
<1>0. /\ records \in [Lanes -> SequenceRecord] /\ LaneGood(l, records[l], applied[l])
      /\ clock \in 1..Horizon /\ LaneReasoned(records[l], clock)
  BY DEF LanesIInv, LanesGood, RestTyped
<1>1. records[l].buffered \in SUBSET Events /\ records[l].deadline \in Nat
      /\ records[l].next \in 0..MaxSeq
  <2>1. records[l] \in SequenceRecord
    BY <1>0
  <2> QED BY <2>1 DEF SequenceRecord
<1>2. ASSUME records'[l] = records[l], clock' = clock PROVE LaneReasoned(records'[l], clock')
  BY <1>0, <1>2
<1>3. ASSUME records'[l].buffered = {} PROVE LaneReasoned(records'[l], clock')
  BY <1>3 DEF LaneReasoned
<1>4. CASE QuietStep
  <2>1. records'[l] = records[l] /\ clock' \in {clock, clock + 1}
    BY <1>4 DEF QuietStep, Unchanged
  <2>2. ASSUME NEW b \in records[l].buffered, records[l].regime = "ordered",
               b.seq = records[l].next, ~\E c \in records[l].buffered : c.seq < records[l].next
        PROVE  records[l].deadline # 0 /\ records[l].deadline <= clock'
    <3>1. records[l].deadline # 0 /\ records[l].deadline <= clock
      BY <1>0, <2>2 DEF LaneReasoned
    <3> QED BY <1>0, <1>1, <2>1, <3>1
  <2> QED BY <2>1, <2>2 DEF LaneReasoned
<1>5. ASSUME NEW e \in Events, OpenStep(e) PROVE LaneReasoned(records'[l], clock')
  <2>1. clock' = clock
    BY <1>5 DEF OpenStep, Commit, Call
  <2>2. NoRecord.buffered = {}
    BY DEF NoRecord
  <2>3. l = e.lane => records'[l].buffered = {}
    BY <1>5, OpenRecords
  <2>4. l # e.lane => records'[l] = NoRecord \/ records'[l] = records[l]
    BY <1>5, OpenRecords
  <2> QED BY <1>2, <1>3, <2>1, <2>2, <2>3, <2>4
<1>6. ASSUME NEW e \in Events, UnsequencedStep(e) PROVE LaneReasoned(records'[l], clock')
  BY <1>2, <1>6 DEF UnsequencedStep, Commit, UnsequencedPlan, Call
<1>7. ASSUME NEW e \in Events, LateStep(e) PROVE LaneReasoned(records'[l], clock')
  <2>1. clock' = clock
    BY <1>7 DEF LateStep, Commit, Call
  <2>2. /\ records'[l].buffered = records[l].buffered /\ records'[l].regime = records[l].regime
        /\ records'[l].next = records[l].next /\ records'[l].deadline = records[l].deadline
    <3> DEFINE kept == RemoveSequence(records[e.lane].missing, e.seq)
    <3>1. records' = [records EXCEPT ![e.lane].missing = kept]
      BY <1>7 DEF LateStep, Commit, LatePlan
    <3> HIDE DEF kept
    <3>2. l # e.lane => records'[l] = records[l]
      BY <1>0, <3>1
    <3>3. l = e.lane => records'[l] = [records[l] EXCEPT !.missing = kept]
      BY <1>0, <3>1
    <3>4. records[l] \in SequenceRecord
      BY <1>0
    <3> QED BY <3>2, <3>3, <3>4 DEF SequenceRecord
  <2> QED BY <1>0, <2>1, <2>2 DEF LaneReasoned
<1>8. ASSUME NEW e \in Events, EarlyStep(e) PROVE LaneReasoned(records'[l], clock')
  <2>1. clock' = clock
    BY <1>8 DEF EarlyStep, Commit, Call
  <2> DEFINE r == records[e.lane]
             until == IF r.deadline = 0 THEN e.at + ReorderWindow ELSE r.deadline
  <2>2. records' = [records EXCEPT ![e.lane].buffered = r.buffered \cup {e},
                                   ![e.lane].deadline = until]
    BY <1>8 DEF EarlyStep, Commit, EarlyPlan
  <2>3. CASE l # e.lane
    <3>1. records'[l] = records[l]
      BY <1>0, <2>2, <2>3
    <3> QED BY <1>2, <2>1, <3>1
  <2>4. CASE l = e.lane
    <3>1. e.seq \in Int /\ e.seq > r.next
      BY <1>8 DEF EarlyStep, EventRecord
    <3>2. /\ records'[l].buffered = r.buffered \cup {e} /\ records'[l].deadline = until
          /\ records'[l].next = r.next /\ records'[l].regime = r.regime
      <4> HIDE DEF until
      <4>1. records'[l] = [r EXCEPT !.buffered = r.buffered \cup {e}, !.deadline = until]
        BY <1>0, <2>2, <2>4
      <4>2. r \in SequenceRecord
        BY <1>0, <2>4
      <4> HIDE DEF r
      <4> QED BY <4>1, <4>2 DEF SequenceRecord
    <3>3. r.buffered # {} => until = r.deadline
      BY <1>0, <2>4 DEF LaneGood
    <3>4. r.next \in Int /\ LaneReasoned(r, clock)
      BY <1>0, <1>1, <2>4
    <3> HIDE DEF r, until
    <3> QED BY <2>1, <3>1, <3>2, <3>3, <3>4 DEF LaneReasoned
  <2> QED BY <2>3, <2>4
<1>9. ASSUME NEW e \in Events, NEW drained \in SUBSET records[e.lane].buffered,
             NextStep(e, drained)
      PROVE  LaneReasoned(records'[l], clock')
  <2>1. clock' = clock
    BY <1>9 DEF NextStep, Commit, Call
  <2>2. CASE l # e.lane
    <3>1. records'[l] = records[l]
      BY <1>9, <2>2, NextRecords
    <3> QED BY <1>2, <2>1, <3>1
  <2>3. CASE l = e.lane
    <3> DEFINE m == Max(Sequences(drained \cup {e}))
    <3>1. /\ m \in 1..MaxSeq /\ m \in Sequences(drained \cup {e})
          /\ \A d \in drained : d.seq <= m
          /\ e.seq <= m
          /\ records'[e.lane].regime = "ordered" => records'[e.lane].next = m + 1
      BY <1>9, NextRuns
    <3>2. records'[e.lane].buffered = records[e.lane].buffered \ drained
      BY <1>9, NextRecords
    <3>3. e.seq \in 1..MaxSeq
      BY <1>0, <1>1, <1>9, <2>3 DEF NextStep, LaneGood
    <3>4. m = e.seq \/ m \in Sequences(drained)
      BY <3>1 DEF Sequences
    <3>5. OnePer(ReadyRun(records[e.lane].buffered, e.seq + 1), drained)
      BY <1>9 DEF NextStep
    <3> HIDE DEF m
    <3>6. m \in (e.seq)..MaxSeq
      BY <3>1, <3>3
    <3>7. ASSUME NEW b \in records[e.lane].buffered \ drained, b.seq = m + 1
          PROVE  \E c \in records[e.lane].buffered \ drained : c.seq < m + 1
      <4> DEFINE buffered == records[e.lane].buffered
                 n == e.seq
      <4>1. buffered \in SUBSET Events /\ drained \in SUBSET buffered /\ n \in 1..MaxSeq
            /\ OnePer(ReadyRun(buffered, n + 1), drained) /\ m \in n..MaxSeq
            /\ (m = n \/ m \in Sequences(drained)) /\ b \in buffered \ drained
        BY <1>1, <2>3, <3>3, <3>4, <3>5, <3>6
      <4>2. \E c \in buffered \ drained : c.seq < m + 1
        <5> HIDE DEF buffered, n
        <5> QED BY <3>1, <3>7, <4>1, RunEndsForAReason
      <4> QED BY <4>2
    <3> QED BY <2>3, <3>1, <3>2, <3>7 DEF LaneReasoned
  <2> QED BY <2>2, <2>3
<1>10. ASSUME NEW heads, NEW done, NEW first, NEW dead, AdvanceStep(heads, done, first, dead)
       PROVE  LaneReasoned(records'[l], clock')
  <2>1. clock' = clock
    BY <1>10 DEF AdvanceStep
  <2>2. CASE l \in LanesOf(dead)
    <3>1. records'[l] = NoRecord
      BY <1>10, <2>2, AdvanceRecords
    <3> QED BY <1>3, <3>1 DEF NoRecord
  <2>3. CASE l \in DueLanes \ LanesOf(dead)
    <3>1. records'[l] = DrainLane(l, heads, done)
      BY <1>10, <2>3, AdvanceRecords
    <3>2. LanesGood
      BY DEF LanesIInv
    <3>3. records'[l].buffered = Left(l, heads)
      BY <2>3, <3>1, <3>2, DrainedRecord
    <3>4. CASE Left(l, heads) = {}
      BY <1>3, <3>3, <3>4
    <3>5. CASE Left(l, heads) # {}
      <4>1. records'[l].deadline = records[l].deadline
        BY <2>3, <3>1, <3>2, <3>5, DrainedDeadline
      <4>2. records'[l].deadline # 0 /\ records'[l].deadline <= clock'
        BY <2>1, <2>3, <4>1 DEF DueLanes
      <4> QED BY <4>2 DEF LaneReasoned
    <3> QED BY <3>4, <3>5
  <2>4. CASE l \notin DueLanes /\ l \notin LanesOf(dead)
    <3>1. records'[l] = records[l]
      BY <1>10, <2>4, AdvanceRecords
    <3> QED BY <1>2, <2>1, <3>1
  <2> QED BY <2>2, <2>3, <2>4
<1>11. ASSUME NEW x \in Actors, Unpin(x) PROVE LaneReasoned(records'[l], clock')
  <2>1. records'[l] = NoRecord \/ records'[l] = records[l]
    BY <1>11 DEF Unpin, Release
  <2>2. clock' = clock
    BY <1>11 DEF Unpin, Call
  <2> QED BY <1>2, <1>3, <2>1, <2>2 DEF NoRecord
<1> QED BY <1>4, <1>5, <1>6, <1>7, <1>8, <1>9, <1>10, <1>11 DEF StepKind

-----------------------------------------------------------------------------
(* Taking effect once.                                                      *)

(* No two events wait under one digest.                                     *)
ApartKeys == \A b, c \in Buffered : b.key = c.key => b = c

(* The lanes of an incarnation that is over are closed.                     *)
RetiredClosed == \A l \in Lanes : ActorOf[l] \in retired => records[l] = NoRecord

(* What keeps an event from taking effect again: its incarnation is over,   *)
(* its lane applied its number, or its fingerprint is kept, for good when   *)
(* it does not wait.                                                        *)
Spent(e) ==
  \/ ActorOf[e.lane] \in retired
  \/ e.seq # 0 /\ e.seq \in applied[e.lane]
  \/ fingerprints[e.key] # NoPrint /\ \A b \in Buffered : b.key # e.key

OnceIInv ==
  /\ ApartKeys /\ RetiredClosed /\ EffectOnce
  /\ \A b \in Buffered : effects[Identity(b)] = 0
  /\ \A e \in Events : effects[Identity(e)] # 0 => Spent(e)

(* A plan under which something runs buffers nothing.                       *)
LEMMA RunPlansBuffer ==
  ASSUME LanesIInv, NEW e \in Events, NEW drained \in SUBSET records[e.lane].buffered,
         OpenStep(e) \/ UnsequencedStep(e) \/ NextStep(e, drained)
  PROVE  Buffered' \subseteq Buffered
<1>1. \A l \in Lanes : records'[l].buffered \subseteq records[l].buffered
  <2> SUFFICES ASSUME NEW l \in Lanes
               PROVE  records'[l].buffered \subseteq records[l].buffered
    OBVIOUS
  <2>1. CASE OpenStep(e)
    <3>1. l = e.lane => records'[l].buffered = {}
      BY <2>1, OpenRecords
    <3>2. l # e.lane => records'[l] = NoRecord \/ records'[l] = records[l]
      BY <2>1, OpenRecords
    <3> QED BY <3>1, <3>2 DEF NoRecord
  <2>2. CASE UnsequencedStep(e)
    BY <2>2 DEF UnsequencedStep, Commit, UnsequencedPlan
  <2>3. CASE NextStep(e, drained)
    <3>1. l = e.lane => records'[l].buffered = records[l].buffered \ drained
      BY <2>3, NextRecords
    <3>2. l # e.lane => records'[l] = records[l]
      BY <2>3, NextRecords
    <3> QED BY <3>1, <3>2
  <2> QED BY <2>1, <2>2, <2>3
<1> QED BY <1>1 DEF Buffered

(* An Advance buffers nothing.                                              *)
LEMMA AdvanceBuffers ==
  ASSUME LanesIInv, NEW heads, NEW done, NEW first, NEW dead,
         AdvanceStep(heads, done, first, dead)
  PROVE  \A l \in Lanes : records'[l].buffered \subseteq records[l].buffered
<1> SUFFICES ASSUME NEW l \in Lanes
             PROVE  records'[l].buffered \subseteq records[l].buffered
  OBVIOUS
<1>1. CASE l \in LanesOf(dead)
  BY <1>1, AdvanceRecords DEF NoRecord
<1>2. CASE l \in DueLanes \ LanesOf(dead)
  <2>1. records'[l].buffered = Left(l, heads)
    BY <1>2, AdvanceRecords, DrainedRecord DEF LanesIInv
  <2> QED BY <2>1 DEF Left, Fresh
<1>3. CASE l \notin DueLanes /\ l \notin LanesOf(dead)
  BY <1>3, AdvanceRecords
<1> QED BY <1>1, <1>2, <1>3

(* Only an event that comes early begins to wait.                           *)
LEMMA NewlyBuffered ==
  ASSUME LanesIInv, StepKind
  PROVE  \/ Buffered' \subseteq Buffered
         \/ \E e \in Events : EarlyStep(e) /\ Buffered' \subseteq Buffered \cup {e}
<1> USE LanesAssumption
<1>0. records \in [Lanes -> SequenceRecord] /\ NoRecord.buffered = {}
  BY DEF LanesIInv, LanesGood, NoRecord
<1>1. ASSUME \A l \in Lanes : records'[l].buffered \subseteq records[l].buffered
      PROVE  Buffered' \subseteq Buffered
  BY <1>1 DEF Buffered
<1>2. CASE QuietStep
  BY <1>1, <1>2 DEF QuietStep, Unchanged
<1>3. ASSUME NEW e \in Events, OpenStep(e) \/ UnsequencedStep(e)
      PROVE  Buffered' \subseteq Buffered
  BY <1>3, RunPlansBuffer
<1>4. ASSUME NEW e \in Events, LateStep(e) PROVE Buffered' \subseteq Buffered
  <2> DEFINE kept == RemoveSequence(records[e.lane].missing, e.seq)
  <2>1. records' = [records EXCEPT ![e.lane].missing = kept]
    BY <1>4 DEF LateStep, Commit, LatePlan
  <2> HIDE DEF kept
  <2>2. ASSUME NEW l \in Lanes PROVE records'[l].buffered = records[l].buffered
    <3>1. l # e.lane => records'[l] = records[l]
      BY <1>0, <2>1
    <3>2. l = e.lane => records'[l] = [records[l] EXCEPT !.missing = kept]
      BY <1>0, <2>1
    <3>3. records[l] \in SequenceRecord
      BY <1>0
    <3> QED BY <3>1, <3>2, <3>3 DEF SequenceRecord
  <2> QED BY <1>1, <2>2
<1>5. ASSUME NEW e \in Events, EarlyStep(e) PROVE Buffered' \subseteq Buffered \cup {e}
  <2> DEFINE r == records[e.lane]
             until == IF r.deadline = 0 THEN e.at + ReorderWindow ELSE r.deadline
  <2>1. records' = [records EXCEPT ![e.lane].buffered = r.buffered \cup {e},
                                   ![e.lane].deadline = until]
    BY <1>5 DEF EarlyStep, Commit, EarlyPlan
  <2>2. ASSUME NEW l \in Lanes PROVE records'[l].buffered \subseteq records[l].buffered \cup {e}
    <3> HIDE DEF until
    <3>1. l # e.lane => records'[l] = records[l]
      BY <1>0, <2>1
    <3>2. l = e.lane =>
            records'[l] = [records[l] EXCEPT !.buffered = r.buffered \cup {e}, !.deadline = until]
      BY <1>0, <2>1
    <3>3. records[l] \in SequenceRecord
      BY <1>0
    <3> QED BY <3>1, <3>2, <3>3 DEF SequenceRecord
  <2> QED BY <2>2 DEF Buffered
<1>6. ASSUME NEW e \in Events, NEW drained \in SUBSET records[e.lane].buffered,
             NextStep(e, drained)
      PROVE  Buffered' \subseteq Buffered
  BY <1>6, RunPlansBuffer
<1>7. ASSUME NEW heads, NEW done, NEW first, NEW dead, AdvanceStep(heads, done, first, dead)
      PROVE  Buffered' \subseteq Buffered
  BY <1>1, <1>7, AdvanceBuffers
<1>8. ASSUME NEW x \in Actors, Unpin(x) PROVE Buffered' \subseteq Buffered
  <2>1. \A l \in Lanes : records'[l] = NoRecord \/ records'[l] = records[l]
    BY <1>8 DEF Unpin, Release
  <2> QED BY <1>0, <1>1, <2>1
<1> QED BY <1>2, <1>3, <1>4, <1>5, <1>6, <1>7, <1>8 DEF StepKind

(* Lanes never forget a number but with their incarnation.                  *)
LEMMA AppliedStays ==
  ASSUME LanesIInv, StepKind
  PROVE  /\ retired \subseteq retired'
         /\ \A l \in Lanes : applied[l] \subseteq applied'[l] \/ ActorOf[l] \in retired'
<1> USE LanesAssumption
<1>1. CASE QuietStep
  BY <1>1 DEF QuietStep, Unchanged
<1>2. ASSUME NEW e \in Events, NEW plan, Commit(e, plan), plan.gone = {}
      PROVE  /\ retired \subseteq retired'
             /\ \A l \in Lanes : applied[l] \subseteq applied'[l]
  BY <1>2 DEF Commit
<1>3. ASSUME NEW e \in Events, OpenStep(e)
      PROVE  /\ retired \subseteq retired'
             /\ \A l \in Lanes : applied[l] \subseteq applied'[l] \/ ActorOf[l] \in retired'
  <2>1. retired' = retired \cup e.retires
    BY <1>3, OpenRecords
  <2>2. OpenPlan(e).gone = LanesOf(e.retires)
    BY DEF OpenPlan
  <2>3. \A l \in Lanes \ LanesOf(e.retires) : applied[l] \subseteq applied'[l]
    BY <1>3, <2>2 DEF OpenStep, Commit
  <2> QED BY <2>1, <2>3 DEF LanesOf
<1>4. ASSUME NEW e \in Events, UnsequencedStep(e) \/ LateStep(e) \/ EarlyStep(e)
      PROVE  /\ retired \subseteq retired'
             /\ \A l \in Lanes : applied[l] \subseteq applied'[l]
  <2>1. UnsequencedPlan(e).gone = {} /\ LatePlan(e).gone = {} /\ EarlyPlan(e).gone = {}
    BY DEF UnsequencedPlan, LatePlan, EarlyPlan
  <2> QED BY <1>2, <1>4, <2>1 DEF UnsequencedStep, LateStep, EarlyStep
<1>5. ASSUME NEW e \in Events, NEW drained \in SUBSET records[e.lane].buffered,
             NextStep(e, drained)
      PROVE  /\ retired \subseteq retired'
             /\ \A l \in Lanes : applied[l] \subseteq applied'[l]
  <2>1. NextPlan(e, drained).gone = {}
    BY DEF NextPlan
  <2> QED BY <1>2, <1>5, <2>1 DEF NextStep
<1>6. ASSUME NEW heads, NEW done, NEW first, NEW dead, AdvanceStep(heads, done, first, dead)
      PROVE  /\ retired \subseteq retired'
             /\ \A l \in Lanes : applied[l] \subseteq applied'[l] \/ ActorOf[l] \in retired'
  BY <1>6 DEF AdvanceStep, LanesOf
<1>7. ASSUME NEW x \in Actors, Unpin(x)
      PROVE  /\ retired \subseteq retired'
             /\ \A l \in Lanes : applied[l] \subseteq applied'[l] \/ ActorOf[l] \in retired'
  BY <1>7 DEF Unpin, LanesOf
<1> QED BY <1>1, <1>3, <1>4, <1>5, <1>6, <1>7 DEF StepKind

(* A fingerprint is given back only while its event waits, and nothing      *)
(* begins to wait under a digest whose fingerprint is kept.                 *)
LEMMA PrintsStay ==
  ASSUME LanesIInv, StepKind, NEW k \in Keys, fingerprints[k] # NoPrint,
         \A b \in Buffered : b.key # k
  PROVE  fingerprints'[k] # NoPrint /\ \A b \in Buffered' : b.key # k
<1> USE LanesAssumption
<1>0. fingerprints \in [Keys -> Prints \cup {NoPrint}] /\ \A e \in Events : e.print # NoPrint
  BY DEF LanesIInv, RestTyped, EventRecord
<1>1. \A b \in Buffered' : b.key # k
  <2>1. ASSUME NEW e \in Events, EarlyStep(e) PROVE e.key # k
    BY <2>1 DEF EarlyStep, New, Known
  <2> QED BY <2>1, NewlyBuffered
<1>2. ASSUME NEW e \in Events, NEW plan, Commit(e, plan) PROVE fingerprints'[k] # NoPrint
  BY <1>0, <1>2 DEF Commit
<1>3. ASSUME NEW heads, NEW done, NEW first, NEW dead, AdvanceStep(heads, done, first, dead)
      PROVE  fingerprints'[k] # NoPrint
  <2> DEFINE forgotten == Forgotten(DeferredBy(heads, LanesOf(dead)),
                                    Release(Drained(heads, done), LanesOf(dead)))
  <2>1. fingerprints' = Refingerprint(forgotten, Restored(done)) /\ heads \subseteq Waiting
    BY <1>3 DEF AdvanceStep
  <2>2. forgotten \subseteq heads /\ Waiting \subseteq Buffered
    BY DEF Forgotten, DeferredBy, Waiting, Fresh, Buffered, DueLanes
  <2> HIDE DEF forgotten
  <2>3. ~\E h \in forgotten : h.key = k
    BY <2>1, <2>2
  <2>4. ~\E e \in Restored(done) : e.key = k
    BY DEF Restored
  <2> QED BY <2>1, <2>3, <2>4 DEF Refingerprint
<1>4. ASSUME QuietStep PROVE fingerprints'[k] # NoPrint
  BY <1>4 DEF QuietStep, Unchanged
<1>5. ASSUME NEW x \in Actors, Unpin(x) PROVE fingerprints'[k] # NoPrint
  BY <1>5 DEF Unpin
<1>6. fingerprints'[k] # NoPrint
  BY <1>2, <1>3, <1>4, <1>5 DEF StepKind, OpenStep, UnsequencedStep, LateStep, EarlyStep, NextStep
<1> QED BY <1>1, <1>6

(* What is spent stays spent.                                               *)
LEMMA SpentStays ==
  ASSUME LanesIInv, StepKind, NEW e \in Events, Spent(e)
  PROVE  Spent(e)'
<1>0. e.lane \in Lanes /\ e.key \in Keys
  BY LanesAssumption DEF EventRecord
<1>1. CASE ActorOf[e.lane] \in retired
  BY <1>1, AppliedStays DEF Spent
<1>2. CASE e.seq # 0 /\ e.seq \in applied[e.lane]
  BY <1>0, <1>2, AppliedStays DEF Spent
<1>3. CASE fingerprints[e.key] # NoPrint /\ \A b \in Buffered : b.key # e.key
  <2>1. fingerprints'[e.key] # NoPrint /\ \A b \in Buffered' : b.key # e.key
    BY <1>0, <1>3, PrintsStay
  <2> QED BY <2>1 DEF Spent
<1> QED BY <1>1, <1>2, <1>3 DEF Spent

(* The events that take effect in a step: none did before, no two of them   *)
(* share a digest, and each is spent and no longer waits.                   *)
RanOnce(ran) ==
  /\ ran \in SUBSET Events
  /\ CountEffects(ran) \/ (ran = {} /\ effects' = effects)
  /\ \A d, e \in ran : d.key = e.key => d = e
  /\ \A e \in ran :
       effects[Identity(e)] = 0 /\ Spent(e)' /\ \A b \in Buffered' : b.key # e.key

(* An event no one has seen, whose lane is open or may open and has not     *)
(* applied its number, did not take effect.                                 *)
LEMMA NewIsUnused ==
  ASSUME OnceIInv, NEW e \in Events, New(e), ActorOf[e.lane] \notin retired,
         e.seq = 0 \/ e.seq \notin applied[e.lane]
  PROVE  effects[Identity(e)] = 0
BY DEF OnceIInv, Spent, New, Known

(* What runs in Apply runs for the first time.                              *)
LEMMA OpenRuns ==
  ASSUME LanesIInv, OnceIInv, StepKind, NEW e \in Events, OpenStep(e)
  PROVE  RanOnce({e})
<1>1. OpenPlan(e).ran = {e} /\ CountEffects(OpenPlan(e).ran)
  BY DEF OpenStep, Commit, OpenPlan
<1>2. applied[e.lane] = {}
  BY LanesAssumption DEF OpenStep, LanesIInv, LanesGood, LaneGood, EventRecord
<1>3. effects[Identity(e)] = 0
  BY <1>2, NewIsUnused DEF OpenStep
<1>4. Buffered' \subseteq Buffered
  BY RunPlansBuffer
<1>5. Spent(e)' /\ \A b \in Buffered' : b.key # e.key
  <2>1. New(e) /\ e.key \in Keys /\ e.print # NoPrint
    BY LanesAssumption DEF OpenStep, EventRecord
  <2>2. fingerprints' = [fingerprints EXCEPT ![e.key] = e.print]
        /\ DOMAIN fingerprints = Keys
    BY DEF OpenStep, Commit, LanesIInv, RestTyped
  <2> QED BY <1>4, <2>1, <2>2 DEF Spent, New, Known
<1> QED BY <1>1, <1>3, <1>5 DEF RanOnce

(* An event outside any order takes effect once.                            *)
LEMMA UnsequencedRuns ==
  ASSUME LanesIInv, OnceIInv, StepKind, NEW e \in Events, UnsequencedStep(e)
  PROVE  RanOnce({e})
<1>1. UnsequencedPlan(e).ran = {e} /\ CountEffects(UnsequencedPlan(e).ran)
  BY DEF UnsequencedStep, Commit, UnsequencedPlan
<1>2. ActorOf[e.lane] \notin retired
  <2>1. e.lane \in Lanes /\ records[e.lane] # NoRecord
    BY LanesAssumption DEF UnsequencedStep, NoRecord, EventRecord
  <2> QED BY <2>1 DEF OnceIInv, RetiredClosed
<1>3. effects[Identity(e)] = 0
  BY <1>2, NewIsUnused DEF UnsequencedStep
<1>4. Buffered' \subseteq Buffered
  BY RunPlansBuffer
<1>5. Spent(e)' /\ \A b \in Buffered' : b.key # e.key
  <2>1. New(e) /\ e.key \in Keys /\ e.print # NoPrint
    BY LanesAssumption DEF UnsequencedStep, EventRecord
  <2>2. fingerprints' = [fingerprints EXCEPT ![e.key] = e.print]
        /\ DOMAIN fingerprints = Keys
    BY DEF UnsequencedStep, Commit, LanesIInv, RestTyped
  <2> QED BY <1>4, <2>1, <2>2 DEF Spent, New, Known
<1> QED BY <1>1, <1>3, <1>5 DEF RanOnce

(* So do the event a lane waited for and those drained behind it.           *)
LEMMA NextRunsOnce ==
  ASSUME LanesIInv, OnceIInv, StepKind, NEW e \in Events,
         NEW drained \in SUBSET records[e.lane].buffered, NextStep(e, drained)
  PROVE  RanOnce(drained \cup {e})
<1> USE LanesAssumption
<1>0. /\ e.lane \in Lanes /\ LaneGood(e.lane, records[e.lane], applied[e.lane])
      /\ records[e.lane].regime = "ordered" /\ e.seq = records[e.lane].next /\ New(e)
      /\ records[e.lane] \in SequenceRecord
  BY DEF NextStep, LanesIInv, LanesGood, EventRecord
<1>1. /\ NextPlan(e, drained).ran = drained \cup {e}
      /\ CountEffects(NextPlan(e, drained).ran)
  BY DEF NextStep, Commit, NextPlan
<1>2. drained \subseteq Buffered /\ drained \subseteq Events
  BY <1>0 DEF Buffered, SequenceRecord
<1>3. effects[Identity(e)] = 0
  <2>1. ActorOf[e.lane] \notin retired
    <3>1. records[e.lane] # NoRecord
      BY <1>0 DEF NoRecord
    <3> QED BY <1>0, <3>1 DEF OnceIInv, RetiredClosed
  <2>2. e.seq \notin applied[e.lane]
    <3>1. applied[e.lane] \subseteq 1..(records[e.lane].next - 1)
      BY <1>0 DEF LaneGood
    <3>2. records[e.lane].next \in Int
      BY <1>0 DEF SequenceRecord
    <3> QED BY <1>0, <3>1, <3>2
  <2> QED BY <1>0, <2>1, <2>2, NewIsUnused
<1>4. Buffered' \subseteq Buffered
  BY RunPlansBuffer
<1>5. Spent(e)' /\ \A b \in Buffered' : b.key # e.key
  <2>1. e.key \in Keys /\ e.print # NoPrint
    BY DEF EventRecord
  <2>2. fingerprints' = [fingerprints EXCEPT ![e.key] = e.print]
        /\ DOMAIN fingerprints = Keys
    BY DEF NextStep, Commit, LanesIInv, RestTyped
  <2> QED BY <1>0, <1>4, <2>1, <2>2 DEF Spent, New, Known
<1>6. ASSUME NEW d \in drained
      PROVE  effects[Identity(d)] = 0 /\ Spent(d)' /\ \A b \in Buffered' : b.key # d.key
  <2>1. effects[Identity(d)] = 0
    BY <1>2 DEF OnceIInv
  <2>2. d.lane = e.lane /\ d.seq # 0
    BY <1>0 DEF LaneGood
  <2>3. d.seq \in applied'[d.lane]
    <3>1. d.seq \in Sequences(drained \cup {e})
      BY DEF Sequences
    <3>2. NextPlan(e, drained).gone = {}
      BY DEF NextPlan
    <3> QED BY <1>0, <1>1, <2>2, <3>1, <3>2 DEF NextStep, Commit
  <2>4. ASSUME NEW b \in Buffered', b.key = d.key PROVE FALSE
    <3>1. b = d
      BY <1>2, <1>4, <2>4 DEF OnceIInv, ApartKeys
    <3>2. PICK l \in Lanes : d \in records'[l].buffered
      BY <3>1 DEF Buffered
    <3>3. l # e.lane
      BY <3>2, NextRecords
    <3>4. d \in records[l].buffered
      BY <3>2, <3>3, NextRecords
    <3>5. d.lane = l
      BY <3>4 DEF LanesIInv, LanesGood, LaneGood
    <3> QED BY <2>2, <3>3, <3>5
  <2> QED BY <2>1, <2>2, <2>3, <2>4 DEF Spent
<1>7. ASSUME NEW c \in drained \cup {e}, NEW d \in drained \cup {e}, c.key = d.key
      PROVE  c = d
  <2>1. \A b \in drained : b.key # e.key
    BY <1>0, <1>2 DEF New, Known
  <2> QED BY <1>2, <1>7, <2>1 DEF OnceIInv, ApartKeys
<1> QED BY <1>1, <1>2, <1>3, <1>5, <1>6, <1>7 DEF RanOnce

(* What an Advance runs, runs for the first time.                           *)
LEMMA AdvanceRunsOnce ==
  ASSUME LanesIInv, OnceIInv, StepKind, NEW heads, NEW done, NEW first, NEW dead,
         AdvanceStep(heads, done, first, dead)
  PROVE  RanOnce(done)
<1> USE LanesAssumption
<1>0. /\ done \subseteq Waiting /\ Drains(heads, done) /\ CountEffects(done)
      /\ retired' = retired \cup dead
  BY DEF AdvanceStep
<1>1. Waiting \subseteq Buffered /\ Buffered \subseteq Events
  <2>1. \A l \in Lanes : records[l].buffered \subseteq Events
    BY DEF LanesIInv, LanesGood, SequenceRecord
  <2> QED BY <2>1 DEF Waiting, Fresh, Buffered, DueLanes
<1>2. (\A l \in Lanes : records'[l].buffered \subseteq records[l].buffered)
      /\ Buffered' \subseteq Buffered
  BY AdvanceBuffers DEF Buffered
<1>3. ASSUME NEW d \in done
      PROVE  effects[Identity(d)] = 0 /\ Spent(d)' /\ \A b \in Buffered' : b.key # d.key
  <2>1. effects[Identity(d)] = 0
    BY <1>0, <1>1 DEF OnceIInv
  <2>2. PICK l \in DueLanes : d \in Fresh(l) \ Left(l, heads)
    BY <1>0 DEF Drains
  <2>3. l \in Lanes /\ d \in records[l].buffered /\ d.lane = l /\ d.seq # 0
    BY <2>2 DEF DueLanes, Fresh, LanesIInv, LanesGood, LaneGood
  <2>4. Spent(d)'
    <3>1. CASE l \in LanesOf(dead)
      BY <1>0, <2>3, <3>1 DEF LanesOf, Spent
    <3>2. CASE l \notin LanesOf(dead)
      <4>1. applied'[l] = applied[l] \cup Sequences(done \cap Fresh(l))
        BY <2>2, <2>3, <3>2 DEF AdvanceStep
      <4>2. d.seq \in applied'[l]
        BY <2>2, <4>1 DEF Sequences
      <4> QED BY <2>3, <4>2 DEF Spent
    <3> QED BY <3>1, <3>2
  <2>5. ASSUME NEW b \in Buffered', b.key = d.key PROVE FALSE
    <3>1. b = d
      BY <1>0, <1>1, <1>2, <2>5 DEF OnceIInv, ApartKeys
    <3>2. PICK k \in Lanes : d \in records'[k].buffered
      BY <3>1 DEF Buffered
    <3>3. k = l
      BY <1>2, <2>3, <3>2 DEF LanesIInv, LanesGood, LaneGood
    <3>4. l \notin LanesOf(dead)
      BY <3>2, <3>3, AdvanceRecords DEF NoRecord
    <3>5. records'[l].buffered = Left(l, heads)
      BY <2>2, <3>4, AdvanceRecords, DrainedRecord DEF LanesIInv
    <3> QED BY <2>2, <3>2, <3>3, <3>5
  <2> QED BY <2>1, <2>4, <2>5
<1>4. \A c, d \in done : c.key = d.key => c = d
  BY <1>0, <1>1 DEF OnceIInv, ApartKeys
<1> QED BY <1>0, <1>1, <1>3, <1>4 DEF RanOnce

(* Whatever the step, the events that take effect do so for the first time. *)
LEMMA EverythingRunsOnce ==
  ASSUME LanesIInv, OnceIInv, StepKind
  PROVE  \E ran : RanOnce(ran)
<1>1. ASSUME effects' = effects PROVE RanOnce({})
  BY <1>1 DEF RanOnce
<1>2. ASSUME CountEffects({}) PROVE RanOnce({})
  BY <1>2 DEF RanOnce
<1>3. ASSUME NEW e \in Events, LateStep(e) \/ EarlyStep(e) PROVE RanOnce({})
  <2>1. LatePlan(e).ran = {} /\ EarlyPlan(e).ran = {}
    BY DEF LatePlan, EarlyPlan
  <2> QED BY <1>2, <1>3, <2>1 DEF LateStep, EarlyStep, Commit
<1>4. ASSUME QuietStep PROVE RanOnce({})
  BY <1>1, <1>4 DEF QuietStep, Unchanged
<1>5. ASSUME NEW x \in Actors, Unpin(x) PROVE RanOnce({})
  BY <1>1, <1>5 DEF Unpin
<1> QED BY <1>3, <1>4, <1>5, OpenRuns, UnsequencedRuns, NextRunsOnce, AdvanceRunsOnce
        DEF StepKind

(* An event counts for each time it takes effect.                           *)
LEMMA CountedOnce ==
  ASSUME RestTyped, NEW ran, RanOnce(ran), NEW i \in Identities, effects[i] <= 1
  PROVE  /\ effects'[i] <= 1
         /\ effects'[i] # 0 => (effects[i] # 0 \/ \E e \in ran : Identity(e) = i)
         /\ effects[i] = 0 /\ (~\E e \in ran : Identity(e) = i) => effects'[i] = 0
<1>0. effects[i] \in 0..2
  BY DEF RestTyped
<1>1. CASE effects' = effects
  BY <1>0, <1>1
<1>2. CASE CountEffects(ran)
  <2> DEFINE these == {e \in ran : Identity(e) = i}
             n == Cardinality(these)
             T == {2, effects[i] + n}
  <2>1. effects'[i] = Min(T)
    BY <1>2 DEF CountEffects
  <2>2. CASE these = {}
    <3>1. n = 0
      BY <2>2, FS_EmptySet
    <3>2. T \subseteq Nat /\ T # {}
      BY <1>0, <3>1
    <3>3. Min(T) \in T /\ \A x \in T : Min(T) <= x
      <4> HIDE DEF T
      <4> QED BY <3>2, MinIsMember
    <3>4. Min(T) = effects[i]
      <4>1. T = {2, effects[i]} /\ effects[i] \in T
        BY <1>0, <3>1
      <4> HIDE DEF T
      <4> QED BY <1>0, <3>3, <4>1
    <3> QED BY <2>1, <2>2, <3>4
  <2>3. CASE these # {}
    <3>1. PICK e \in ran : Identity(e) = i
      BY <2>3
    <3>2. these = {e}
      <4>1. \A d \in these : d.key = e.key
        BY <3>1 DEF Identity
      <4> QED BY <3>1, <4>1 DEF RanOnce
    <3>3. n = 1
      BY <3>2, FS_Singleton
    <3>4. effects[i] = 0
      BY <3>1 DEF RanOnce
    <3>5. T \subseteq Nat /\ T # {} /\ 1 \in T
      BY <3>3, <3>4
    <3>6. Min(T) <= 1
      <4> HIDE DEF T
      <4> QED BY <3>5, MinIsMember
    <3> HIDE DEF T
    <3> QED BY <2>1, <3>1, <3>6
  <2> QED BY <2>2, <2>3
<1> QED BY <1>1, <1>2 DEF RanOnce

(* The lanes of an incarnation that is over stay closed: whatever it sends  *)
(* is refused, and what retires it closes them.                             *)
LEMMA RetiredStayClosed ==
  ASSUME LanesIInv, RetiredClosed, StepKind
  PROVE  RetiredClosed'
<1> USE LanesAssumption
<1> SUFFICES ASSUME NEW l \in Lanes, ActorOf[l] \in retired' PROVE records'[l] = NoRecord
  BY DEF RetiredClosed
<1>0. records \in [Lanes -> SequenceRecord] /\ \A e \in Events : e.lane \in Lanes
  BY DEF LanesIInv, LanesGood, EventRecord
<1>1. CASE QuietStep
  BY <1>1 DEF QuietStep, Unchanged, RetiredClosed
<1>2. ASSUME NEW e \in Events, OpenStep(e) PROVE records'[l] = NoRecord
  <2>1. retired' = retired \cup e.retires
    BY <1>2, OpenRecords
  <2>2. l # e.lane
    BY <1>2, <2>1 DEF OpenStep
  <2> QED BY <1>2, <2>1, <2>2, OpenRecords DEF RetiredClosed, LanesOf
<1>3. ASSUME NEW e \in Events, NEW plan, Commit(e, plan), records[e.lane] # NoRecord,
             \A k \in Lanes \ {e.lane} : plan.records[k] = records[k]
      PROVE  records'[l] = NoRecord
  <2>1. retired' = retired /\ records' = plan.records
    BY <1>3 DEF Commit
  <2>2. records[l] = NoRecord
    BY <2>1 DEF RetiredClosed
  <2> QED BY <1>3, <2>1, <2>2
<1>4. ASSUME NEW e \in Events, NEW drained \in SUBSET records[e.lane].buffered,
             UnsequencedStep(e) \/ LateStep(e) \/ EarlyStep(e) \/ NextStep(e, drained)
      PROVE  records'[l] = NoRecord
  <2>1. records[e.lane] # NoRecord
    BY <1>4 DEF UnsequencedStep, LateStep, EarlyStep, NextStep, NoRecord
  <2>2. \A k \in Lanes \ {e.lane} :
          /\ UnsequencedPlan(e).records[k] = records[k]
          /\ LatePlan(e).records[k] = records[k]
          /\ EarlyPlan(e).records[k] = records[k]
          /\ NextPlan(e, drained).records[k] = records[k]
    BY <1>0 DEF UnsequencedPlan, LatePlan, EarlyPlan, NextPlan
  <2> QED BY <1>3, <1>4, <2>1, <2>2 DEF UnsequencedStep, LateStep, EarlyStep, NextStep
<1>5. ASSUME NEW heads, NEW done, NEW first, NEW dead, AdvanceStep(heads, done, first, dead)
      PROVE  records'[l] = NoRecord
  <2>1. retired' = retired \cup dead
    BY <1>5 DEF AdvanceStep
  <2>2. CASE l \in LanesOf(dead)
    BY <1>5, <2>2, AdvanceRecords
  <2>3. CASE l \notin LanesOf(dead)
    <3>1. records[l] = NoRecord
      BY <2>1, <2>3 DEF RetiredClosed, LanesOf
    <3>2. l \notin DueLanes
      BY <3>1 DEF DueLanes, NoRecord
    <3> QED BY <1>5, <2>3, <3>1, <3>2, AdvanceRecords
  <2> QED BY <2>2, <2>3
<1>6. ASSUME NEW x \in Actors, Unpin(x) PROVE records'[l] = NoRecord
  BY <1>6 DEF Unpin, Release, LanesOf, RetiredClosed
<1> QED BY <1>1, <1>2, <1>4, <1>5, <1>6 DEF StepKind

(* Every step lets every event take effect once.                            *)
LEMMA OnceStays ==
  ASSUME LanesIInv, OnceIInv, StepKind
  PROVE  OnceIInv'
<1>1. PICK ran : RanOnce(ran)
  BY EverythingRunsOnce
<1>2. RestTyped /\ Buffered \subseteq Events
  <2>1. \A l \in Lanes : records[l].buffered \subseteq Events
    BY DEF LanesIInv, LanesGood, SequenceRecord
  <2> QED BY <2>1 DEF LanesIInv, Buffered
<1>3. \A e \in Events : Identity(e) \in Identities
  BY LanesAssumption DEF EventRecord, Identity, Identities
<1>4. EffectOnce'
  BY <1>1, <1>2, CountedOnce DEF OnceIInv, EffectOnce
<1>5. RetiredClosed'
  BY RetiredStayClosed DEF OnceIInv
<1>6. ApartKeys'
  <2>1. CASE Buffered' \subseteq Buffered
    BY <2>1 DEF OnceIInv, ApartKeys
  <2>2. ASSUME NEW e \in Events, EarlyStep(e), Buffered' \subseteq Buffered \cup {e}
        PROVE  ApartKeys'
    <3>1. \A b \in Buffered : b.key # e.key
      BY <2>2 DEF EarlyStep, New, Known
    <3> QED BY <2>2, <3>1 DEF OnceIInv, ApartKeys
  <2> QED BY <2>1, <2>2, NewlyBuffered
<1>7. ASSUME NEW b \in Buffered' PROVE effects'[Identity(b)] = 0
  <2>1. ~\E e \in ran : Identity(e) = Identity(b)
    BY <1>1 DEF RanOnce, Identity
  <2>2. CASE b \in Buffered
    <3>1. effects[Identity(b)] = 0 /\ Identity(b) \in Identities
      BY <1>2, <1>3, <2>2 DEF OnceIInv
    <3> QED BY <1>1, <1>2, <2>1, <3>1, CountedOnce
  <2>3. CASE b \in Events /\ EarlyStep(b)
    <3>1. ActorOf[b.lane] \notin retired
      <4>1. b.lane \in Lanes /\ records[b.lane] # NoRecord
        BY <2>3, LanesAssumption DEF EarlyStep, NoRecord, EventRecord
      <4> QED BY <4>1 DEF OnceIInv, RetiredClosed
    <3>2. b.seq \notin applied[b.lane]
      <4>1. LaneGood(b.lane, records[b.lane], applied[b.lane])
        BY <2>3, LanesAssumption DEF LanesIInv, LanesGood, EventRecord
      <4>2. applied[b.lane] \subseteq 1..(records[b.lane].next - 1) /\ b.seq > records[b.lane].next
        BY <2>3, <4>1 DEF EarlyStep, LaneGood
      <4>3. records[b.lane].next \in Int
        BY <4>1, LanesAssumption DEF LaneGood, SequenceRecord
      <4> QED BY <4>2, <4>3
    <3>3. effects[Identity(b)] = 0 /\ Identity(b) \in Identities
      BY <1>3, <2>3, <3>1, <3>2, NewIsUnused DEF EarlyStep
    <3> QED BY <1>1, <1>2, <2>1, <3>3, CountedOnce
  <2> QED BY <2>2, <2>3, NewlyBuffered
<1>8. ASSUME NEW e \in Events, effects'[Identity(e)] # 0 PROVE Spent(e)'
  <2>1. CASE effects[Identity(e)] # 0
    BY <2>1, SpentStays DEF OnceIInv
  <2>2. CASE \E d \in ran : Identity(d) = Identity(e)
    <3>1. PICK d \in ran : Identity(d) = Identity(e)
      BY <2>2
    <3>2. d \in Events /\ Spent(d)'
      BY <1>1 DEF RanOnce
    <3>3. d.lane = e.lane /\ d.seq = e.seq /\ d.key = e.key
      BY <3>1, <3>2, IdentityAssumption DEF Identity
    <3> QED BY <3>2, <3>3 DEF Spent
  <2>3. effects[Identity(e)] <= 1
    BY <1>3 DEF OnceIInv, EffectOnce
  <2> QED BY <1>1, <1>2, <1>3, <1>8, <2>1, <2>2, <2>3, CountedOnce
<1> QED BY <1>4, <1>5, <1>6, <1>7, <1>8 DEF OnceIInv

-----------------------------------------------------------------------------
(* The counts of the gaps.                                                  *)

(* The smaller of two numbers.                                              *)
LEMMA MinOfTwo ==
  ASSUME NEW a \in Nat, NEW b \in Nat
  PROVE  Min({a, b}) = IF a <= b THEN a ELSE b
<1>1. {a, b} \subseteq Nat /\ {a, b} # {}
  OBVIOUS
<1>2. Min({a, b}) \in {a, b} /\ Min({a, b}) <= a /\ Min({a, b}) <= b
  BY <1>1, MinIsMember
<1> QED BY <1>2

(* What the lanes of a source miss.                                         *)
MissingAt(recs, s) ==
  InLanes([l \in {k \in Lanes : SourceOf[k] = s} |-> Numbers(recs[l].missing)])

CountsMissing(gaps, recs) ==
  \A s \in Sources : gaps[s].count >= Min({CountCeiling, Cardinality(MissingAt(recs, s))})

(* What is in the lanes is in one of them.                                  *)
LEMMA InOneLane ==
  ASSUME NEW of, NEW p
  PROVE  p \in InLanes(of) <=> \E l \in DOMAIN of : \E x \in of[l] : p = <<l, x>>
BY DEF InLanes

(* What a source misses can be counted.                                     *)
LEMMA MissingFinite ==
  ASSUME NEW recs \in [Lanes -> SequenceRecord], NEW s
  PROVE  IsFiniteSet(MissingAt(recs, s)) /\ Cardinality(MissingAt(recs, s)) \in Nat
<1> USE LanesAssumption
<1>1. IsFiniteSet(1..MaxSeq)
  <2>1. 1 \in Int /\ MaxSeq \in Int
    OBVIOUS
  <2> QED BY <2>1, FS_Interval
<1>2. IsFiniteSet(Lanes \X (1..MaxSeq))
  BY <1>1, FS_Product
<1>3. MissingAt(recs, s) \in SUBSET (Lanes \X (1..MaxSeq))
  <2> SUFFICES ASSUME NEW p \in MissingAt(recs, s) PROVE p \in Lanes \X (1..MaxSeq)
    OBVIOUS
  <2>1. PICK l \in Lanes : \E x \in Numbers(recs[l].missing) : p = <<l, x>>
    BY InOneLane DEF MissingAt
  <2>2. PICK x \in Numbers(recs[l].missing) : p = <<l, x>>
    BY <2>1
  <2>3. recs[l].missing \subseteq MissingRange
    BY DEF SequenceRecord
  <2>4. PICK r \in recs[l].missing : x \in r.first..r.last
    BY <2>2 DEF Numbers
  <2>5. x \in 1..MaxSeq
    BY <2>3, <2>4 DEF MissingRange
  <2> QED BY <2>2, <2>5
<1>4. IsFiniteSet(MissingAt(recs, s))
  BY <1>2, <1>3, FS_Subset
<1> QED BY <1>4, FS_CardinalityType

(* A source that misses no more misses no more in number.                   *)
LEMMA MissingShrinks ==
  ASSUME NEW recs \in [Lanes -> SequenceRecord], NEW recs2, NEW s,
         \A l \in Lanes : Numbers(recs2[l].missing) \subseteq Numbers(recs[l].missing)
  PROVE  /\ Cardinality(MissingAt(recs2, s)) \in Nat
         /\ Cardinality(MissingAt(recs2, s)) <= Cardinality(MissingAt(recs, s))
<1>1. IsFiniteSet(MissingAt(recs, s))
  BY MissingFinite
<1>2. MissingAt(recs2, s) \in SUBSET MissingAt(recs, s)
  <2> SUFFICES ASSUME NEW p \in MissingAt(recs2, s) PROVE p \in MissingAt(recs, s)
    OBVIOUS
  <2>1. PICK l \in Lanes : SourceOf[l] = s /\ \E x \in Numbers(recs2[l].missing) : p = <<l, x>>
    BY InOneLane DEF MissingAt
  <2>2. \E x \in Numbers(recs[l].missing) : p = <<l, x>>
    BY <2>1
  <2> QED BY <2>1, <2>2, InOneLane DEF MissingAt
<1>3. IsFiniteSet(MissingAt(recs2, s))
  BY <1>1, <1>2, FS_Subset
<1> QED BY <1>1, <1>2, <1>3, FS_Subset, FS_CardinalityType

(* A source that misses nothing misses zero.                                *)
LEMMA NothingMissing ==
  ASSUME NEW recs, NEW s, ~SourceMissing(recs, s)
  PROVE  Cardinality(MissingAt(recs, s)) = 0
<1>1. \A l \in Lanes : SourceOf[l] = s => Numbers(recs[l].missing) = {}
  BY DEF SourceMissing, Numbers
<1>2. MissingAt(recs, s) = {}
  BY <1>1, InOneLane DEF MissingAt
<1> QED BY <1>2, FS_EmptySet

(* Rows that stay or close keep counting what is missing.                   *)
LEMMA ClosedCounts ==
  ASSUME NEW gaps \in [Sources -> GapRow], NEW recs \in [Lanes -> SequenceRecord],
         CountsMissing(gaps, recs), NEW recs2, NEW gaps2,
         \A l \in Lanes : Numbers(recs2[l].missing) \subseteq Numbers(recs[l].missing),
         \A s \in Sources : gaps2[s] = gaps[s] \/ (gaps2[s] = NoGap /\ ~SourceMissing(recs2, s))
  PROVE  CountsMissing(gaps2, recs2)
<1> USE LanesAssumption
<1> SUFFICES ASSUME NEW s \in Sources
             PROVE  gaps2[s].count >= Min({CountCeiling, Cardinality(MissingAt(recs2, s))})
  BY DEF CountsMissing
<1> DEFINE a == Cardinality(MissingAt(recs, s))
           b == Cardinality(MissingAt(recs2, s))
<1>1. a \in Nat /\ b \in Nat /\ b <= a
  BY MissingFinite, MissingShrinks
<1>2. CASE gaps2[s] = gaps[s]
  <2>1. gaps[s].count >= Min({CountCeiling, a}) /\ gaps[s].count \in Nat
    BY DEF CountsMissing, GapRow
  <2> HIDE DEF a, b
  <2>2. gaps[s].count >= Min({CountCeiling, b})
    BY <1>1, <2>1, MinOfTwo
  <2> QED BY <1>2, <2>2 DEF b
<1>3. CASE gaps2[s] = NoGap /\ ~SourceMissing(recs2, s)
  <2>1. b = 0
    BY <1>3, NothingMissing
  <2>2. gaps2[s].count = 0
    BY <1>3 DEF NoGap
  <2> HIDE DEF b
  <2>3. gaps2[s].count >= Min({CountCeiling, b})
    BY <2>1, <2>2, MinOfTwo
  <2> QED BY <2>3 DEF b
<1> QED BY <1>2, <1>3

(* An Advance counts what it newly misses on top of what the row counted    *)
(* (recordSequenceGap).                                                     *)
LEMMA AdvancedCounts ==
  ASSUME LanesIInv, CountsMissing(sequenceGap, records),
         NEW heads, NEW done, NEW first, NEW dead, AdvanceStep(heads, done, first, dead)
  PROVE  CountsMissing(sequenceGap', records')
<1> USE LanesAssumption
<1> SUFFICES ASSUME NEW s \in Sources
             PROVE  sequenceGap'[s].count
                      >= Min({CountCeiling, Cardinality(MissingAt(records', s))})
  BY DEF CountsMissing
<1> DEFINE gone == LanesOf(dead)
           lanes == DueLanes \ gone
           recs1 == Release(Drained(heads, first), gone)
           closed == CloseGaps(sequenceGap, recs1, GoneSources(gone))
           opened == {l \in lanes : SourceOf[l] = s /\ Missed(l, done) # {}}
           freshOf == [l \in opened |-> Numbers(Missed(l, done))]
           F == InLanes(freshOf)
           M1 == MissingAt(records, s)
           M2 == MissingAt(records', s)
<1>0. /\ LanesGood /\ records \in [Lanes -> SequenceRecord]
      /\ sequenceGap \in [Sources -> GapRow]
      /\ DueLanes \subseteq Lanes /\ gone \subseteq Lanes
      /\ sequenceGap[s].count >= Min({CountCeiling, Cardinality(M1)})
      /\ sequenceGap[s].count \in Nat
  BY DEF LanesIInv, LanesGood, GapsGood, GapRow, DueLanes, LanesOf, CountsMissing
<1>1. ASSUME NEW l \in Lanes
      PROVE  records'[l].missing =
               IF l \in gone THEN {} ELSE records[l].missing \cup Missed(l, done)
  <2>1. CASE l \in gone
    BY <2>1, AdvanceRecords DEF NoRecord
  <2>2. CASE l \in DueLanes \ gone
    BY <1>0, <2>2, AdvanceRecords, DrainedRecord
  <2>3. CASE l \notin DueLanes /\ l \notin gone
    BY <2>3, AdvanceRecords DEF Missed
  <2> QED BY <2>1, <2>2, <2>3
<1>2. ASSUME NEW l \in Lanes, l \notin gone
      PROVE  records[l].missing \subseteq recs1[l].missing
  <2>1. CASE l \in DueLanes
    <3>1. recs1[l] = DrainLane(l, heads, first)
      BY <1>2, <2>1 DEF Release, Drained
    <3> HIDE DEF recs1
    <3> QED BY <1>0, <2>1, <3>1, DrainedRecord
  <2>2. CASE l \notin DueLanes
    BY <1>2, <2>2 DEF Release, Drained
  <2> QED BY <2>1, <2>2
<1>3. IsFiniteSet(M1) /\ Cardinality(M1) \in Nat
  BY <1>0, MissingFinite
<1>4. IsFiniteSet(F) /\ Cardinality(F) \in Nat
  <2>1. \A l \in opened : Numbers(Missed(l, done)) \subseteq 1..MaxSeq
    <3> SUFFICES ASSUME NEW l \in opened, NEW n \in Numbers(Missed(l, done))
                 PROVE  n \in 1..MaxSeq
      OBVIOUS
    <3>1. Missed(l, done) \subseteq MissingRange
      BY DEF Missed, MissedRanges
    <3> QED BY <3>1 DEF Numbers, MissingRange
  <2>2. F \in SUBSET (Lanes \X (1..MaxSeq))
    <3>1. opened \subseteq Lanes
      BY <1>0
    <3> HIDE DEF opened
    <3> QED BY <2>1, <3>1, InOneLane
  <2>3. IsFiniteSet(Lanes \X (1..MaxSeq))
    <3>1. 1 \in Int /\ MaxSeq \in Int
      OBVIOUS
    <3> QED BY <3>1, FS_Interval, FS_Product
  <2> HIDE DEF F
  <2>4. IsFiniteSet(F)
    BY <2>2, <2>3, FS_Subset
  <2> QED BY <2>4, FS_CardinalityType
<1>5. ASSUME NEW p \in M2
      PROVE  \E l \in Lanes \ gone : \E x :
               /\ SourceOf[l] = s /\ p = <<l, x>>
               /\ x \in Numbers(records[l].missing) \/ p \in F
  <2>1. PICK l \in Lanes : SourceOf[l] = s /\ \E x \in Numbers(records'[l].missing) : p = <<l, x>>
    BY InOneLane DEF MissingAt
  <2>2. PICK x \in Numbers(records'[l].missing) : p = <<l, x>>
    BY <2>1
  <2>3. l \notin gone
    BY <1>1, <2>2 DEF Numbers
  <2>4. x \in Numbers(records[l].missing) \/ x \in Numbers(Missed(l, done))
    BY <1>1, <2>2, <2>3 DEF Numbers
  <2>5. ASSUME x \in Numbers(Missed(l, done)) PROVE p \in F
    <3>1. Missed(l, done) # {}
      BY <2>5 DEF Numbers
    <3>2. l \in opened
      BY <2>1, <2>3, <3>1 DEF Missed
    <3>3. DOMAIN freshOf = opened /\ freshOf[l] = Numbers(Missed(l, done))
      BY <3>2
    <3> HIDE DEF freshOf, opened
    <3> QED BY <2>2, <2>5, <3>2, <3>3, InOneLane
  <2> HIDE DEF F
  <2> QED BY <2>1, <2>2, <2>3, <2>4, <2>5
<1>6. M2 \subseteq M1 \cup F
  <2>1. ASSUME NEW l \in Lanes, SourceOf[l] = s, NEW x \in Numbers(records[l].missing)
        PROVE  <<l, x>> \in M1
    BY <2>1, InOneLane DEF MissingAt
  <2> HIDE DEF M1, M2, F, gone
  <2> QED BY <1>5, <2>1
<1>7. \/ closed[s] = sequenceGap[s]
      \/ closed[s] = NoGap /\ M2 \subseteq F
  <2>1. closed[s] = IF s \in GoneSources(gone) /\ ~SourceMissing(recs1, s)
                    THEN NoGap ELSE sequenceGap[s]
    BY DEF CloseGaps
  <2>2. ASSUME ~SourceMissing(recs1, s) PROVE M2 \subseteq F
    <3>1. \A l \in Lanes \ gone : SourceOf[l] = s => Numbers(records[l].missing) = {}
      <4> HIDE DEF recs1
      <4> QED BY <1>2, <2>2 DEF SourceMissing, Numbers
    <3> HIDE DEF M2, F, gone
    <3> QED BY <1>5, <3>1
  <2> HIDE DEF closed, M2, F
  <2> QED BY <2>1, <2>2
<1>8. sequenceGap'[s] = IF opened = {} THEN closed[s]
        ELSE [count |-> Min({CountCeiling, closed[s].count + Cardinality(F)}),
              at |-> Min({records[l].deadline : l \in opened}
                           \cup (IF closed[s] = NoGap THEN {} ELSE {closed[s].at}))]
  BY DEF AdvanceStep, OpenGaps
<1>9. opened = {} => Cardinality(F) = 0
  <2>1. opened = {} => F = {}
    BY InOneLane
  <2> HIDE DEF F, opened
  <2> QED BY <2>1, FS_EmptySet
<1>10. \/ sequenceGap'[s].count = Min({CountCeiling, closed[s].count + Cardinality(F)})
       \/ sequenceGap'[s].count = closed[s].count /\ Cardinality(F) = 0
  <2>1. CASE opened = {}
    <3> HIDE DEF closed, F, opened
    <3> QED BY <1>8, <1>9, <2>1
  <2>2. CASE opened # {}
    <3> DEFINE n == Min({CountCeiling, closed[s].count + Cardinality(F)})
               at == Min({records[l].deadline : l \in opened}
                           \cup (IF closed[s] = NoGap THEN {} ELSE {closed[s].at}))
    <3>1. sequenceGap'[s] = [count |-> n, at |-> at]
      <4> HIDE DEF closed, F, opened
      <4> QED BY <1>8, <2>2
    <3> HIDE DEF n, at
    <3>2. sequenceGap'[s].count = n
      BY <3>1
    <3> HIDE DEF closed, F, opened
    <3> QED BY <3>2 DEF n
  <2> QED BY <2>1, <2>2
<1> DEFINE a == Cardinality(M1)
           b == Cardinality(M2)
           f == Cardinality(F)
<1>11. b \in Nat /\ b <= a + f /\ (M2 \subseteq F => b <= f)
  <2> HIDE DEF M1, M2, F
  <2>1. IsFiniteSet(M1 \cup F) /\ Cardinality(M1 \cup F) = a + f - Cardinality(M1 \cap F)
    BY <1>3, <1>4, FS_Union
  <2>2. IsFiniteSet(M1 \cap F) /\ Cardinality(M1 \cap F) \in Nat
    BY <1>3, FS_Intersection, FS_CardinalityType
  <2>3. M2 \in SUBSET (M1 \cup F)
    BY <1>6
  <2>4. IsFiniteSet(M2) /\ b <= Cardinality(M1 \cup F)
    <3> DEFINE U == M1 \cup F
    <3> HIDE DEF U
    <3>1. IsFiniteSet(U) /\ M2 \in SUBSET U
      BY <2>1, <2>3 DEF U
    <3>2. IsFiniteSet(M2) /\ b <= Cardinality(U)
      BY <3>1, FS_Subset
    <3> QED BY <3>2 DEF U
  <2>5. b \in Nat
    BY <2>4, FS_CardinalityType
  <2>6. ASSUME M2 \subseteq F PROVE b <= f
    <3>1. M2 \in SUBSET F
      BY <2>6
    <3> QED BY <1>4, <3>1, FS_Subset
  <2>7. a \in Nat /\ f \in Nat
    BY <1>3, <1>4
  <2>8. b <= a + f
    <3> HIDE DEF a, b, f
    <3> QED BY <2>1, <2>2, <2>4, <2>5, <2>7
  <2> QED BY <2>5, <2>6, <2>8
<1>12. /\ a \in Nat /\ f \in Nat
       /\ sequenceGap[s].count >= Min({CountCeiling, a})
       /\ closed[s] = sequenceGap[s] \/ (closed[s].count = 0 /\ b <= f)
       /\ \/ sequenceGap'[s].count = Min({CountCeiling, closed[s].count + f})
          \/ sequenceGap'[s].count = closed[s].count /\ f = 0
  <2>1. a \in Nat /\ f \in Nat
    BY <1>3, <1>4
  <2>2. closed[s] = sequenceGap[s] \/ (closed[s].count = 0 /\ b <= f)
    <3> HIDE DEF closed, M2, F
    <3> QED BY <1>7, <1>11 DEF NoGap
  <2>3. sequenceGap[s].count >= Min({CountCeiling, a})
    BY <1>0
  <2> HIDE DEF closed, a, b, M1, M2
  <2> QED BY <1>10, <2>1, <2>2, <2>3
<1> DEFINE c == closed[s].count
           c2 == sequenceGap'[s].count
<1>13. c2 >= Min({CountCeiling, b})
  <2>1. closed[s] = sequenceGap[s] => c = sequenceGap[s].count
    BY DEF c
  <2>2. \/ c \in Nat /\ c >= Min({CountCeiling, a})
        \/ c = 0 /\ b <= f
    <3> HIDE DEF a, b, f, closed
    <3> QED BY <1>0, <1>12, <2>1
  <2>3. c2 = Min({CountCeiling, c + f}) \/ (c2 = c /\ f = 0)
    <3> HIDE DEF a, b, f, closed
    <3> QED BY <1>12
  <2>4. a \in Nat /\ b \in Nat /\ f \in Nat /\ b <= a + f
    BY <1>11, <1>12
  <2> HIDE DEF a, b, f, c, c2, closed
  <2>5. c \in Nat
    BY <2>2
  <2>6. Min({CountCeiling, a}) = (IF CountCeiling <= a THEN CountCeiling ELSE a)
        /\ Min({CountCeiling, b}) = (IF CountCeiling <= b THEN CountCeiling ELSE b)
        /\ Min({CountCeiling, c + f}) = (IF CountCeiling <= c + f THEN CountCeiling ELSE c + f)
    <3>1. c + f \in Nat
      BY <2>4, <2>5
    <3> QED BY <2>4, <3>1, MinOfTwo
  <2> QED BY <2>2, <2>3, <2>4, <2>5, <2>6
<1> QED BY <1>13

(* Every step leaves every row a count that is high enough.                 *)
LEMMA CountsStay ==
  ASSUME LanesIInv, CountsMissing(sequenceGap, records), StepKind
  PROVE  CountsMissing(sequenceGap', records')
<1> USE LanesAssumption
<1>0. /\ records \in [Lanes -> SequenceRecord] /\ sequenceGap \in [Sources -> GapRow]
      /\ NoRecord.missing = {}
  BY DEF LanesIInv, LanesGood, GapsGood, NoRecord
<1>1. ASSUME \A l \in Lanes : Numbers(records'[l].missing) \subseteq Numbers(records[l].missing),
             \A s \in Sources :
               \/ sequenceGap'[s] = sequenceGap[s]
               \/ sequenceGap'[s] = NoGap /\ ~SourceMissing(records', s)
      PROVE  CountsMissing(sequenceGap', records')
  BY <1>0, <1>1, ClosedCounts
<1>2. ASSUME NEW recs2, NEW sources, sequenceGap' = CloseGaps(sequenceGap, recs2, sources),
             records' = recs2
      PROVE  \A s \in Sources :
               \/ sequenceGap'[s] = sequenceGap[s]
               \/ sequenceGap'[s] = NoGap /\ ~SourceMissing(records', s)
  BY <1>2 DEF CloseGaps
<1>3. CASE QuietStep
  BY <1>1, <1>3 DEF QuietStep, Unchanged
<1>4. ASSUME NEW e \in Events, OpenStep(e) PROVE CountsMissing(sequenceGap', records')
  <2>1. ASSUME NEW l \in Lanes
        PROVE  Numbers(records'[l].missing) \subseteq Numbers(records[l].missing)
    <3>1. l = e.lane => records'[l].missing = {}
      BY <1>4, OpenRecords
    <3>2. l # e.lane => records'[l] = NoRecord \/ records'[l] = records[l]
      BY <1>4, OpenRecords
    <3> QED BY <1>0, <3>1, <3>2 DEF Numbers
  <2>2. /\ records' = OpenPlan(e).records
        /\ sequenceGap' = CloseGaps(sequenceGap, OpenPlan(e).records,
                                    GoneSources(LanesOf(e.retires)))
    BY <1>4 DEF OpenStep, Commit, OpenPlan
  <2> QED BY <1>1, <1>2, <2>1, <2>2
<1>5. ASSUME NEW e \in Events, UnsequencedStep(e) PROVE CountsMissing(sequenceGap', records')
  <2>1. records' = records /\ sequenceGap' = sequenceGap
    BY <1>5 DEF UnsequencedStep, Commit, UnsequencedPlan
  <2> QED BY <1>1, <2>1
<1>6. ASSUME NEW e \in Events, LateStep(e) PROVE CountsMissing(sequenceGap', records')
  <2> DEFINE kept == RemoveSequence(records[e.lane].missing, e.seq)
             recs == [records EXCEPT ![e.lane].missing = kept]
             hit == IF e.seq \in Numbers(records[e.lane].missing)
                    THEN {SourceOf[e.lane]} ELSE {}
  <2>1. records' = recs /\ sequenceGap' = CloseGaps(sequenceGap, recs, hit)
    BY <1>6 DEF LateStep, Commit, LatePlan
  <2>2. Numbers(kept) \subseteq Numbers(records[e.lane].missing)
    <3>1. e.lane \in Lanes /\ e.seq \in 1..MaxSeq
      BY <1>6 DEF LateStep, EventRecord
    <3>2. records[e.lane].missing \in SUBSET MissingRange
      BY <1>0, <3>1 DEF SequenceRecord
    <3> QED BY <3>1, <3>2, RemoveSequenceStrikes
  <2> HIDE DEF kept, hit
  <2>3. ASSUME NEW l \in Lanes
        PROVE  Numbers(records'[l].missing) \subseteq Numbers(records[l].missing)
    <3>1. l # e.lane => records'[l] = records[l]
      BY <1>0, <2>1
    <3>2. l = e.lane => records'[l] = [records[l] EXCEPT !.missing = kept]
      BY <1>0, <2>1
    <3>3. records[l] \in SequenceRecord
      BY <1>0
    <3>4. l = e.lane => records'[l].missing = kept
      BY <3>2, <3>3 DEF SequenceRecord
    <3> QED BY <2>2, <3>1, <3>4
  <2> HIDE DEF recs
  <2> QED BY <1>1, <1>2, <2>1, <2>3
<1>7. ASSUME NEW e \in Events, EarlyStep(e) PROVE CountsMissing(sequenceGap', records')
  <2> DEFINE r == records[e.lane]
             until == IF r.deadline = 0 THEN e.at + ReorderWindow ELSE r.deadline
  <2>1. records' = [records EXCEPT ![e.lane].buffered = r.buffered \cup {e},
                                   ![e.lane].deadline = until]
        /\ sequenceGap' = sequenceGap
    BY <1>7 DEF EarlyStep, Commit, EarlyPlan
  <2>2. ASSUME NEW l \in Lanes PROVE records'[l].missing = records[l].missing
    <3> HIDE DEF until
    <3>1. l # e.lane => records'[l] = records[l]
      BY <1>0, <2>1
    <3>2. l = e.lane =>
            records'[l] = [records[l] EXCEPT !.buffered = r.buffered \cup {e}, !.deadline = until]
      BY <1>0, <2>1
    <3>3. records[l] \in SequenceRecord
      BY <1>0
    <3> QED BY <3>1, <3>2, <3>3 DEF SequenceRecord
  <2> QED BY <1>1, <2>1, <2>2
<1>8. ASSUME NEW e \in Events, NEW drained \in SUBSET records[e.lane].buffered,
             NextStep(e, drained)
      PROVE  CountsMissing(sequenceGap', records')
  <2>1. sequenceGap' = sequenceGap
    BY <1>8 DEF NextStep, Commit, NextPlan
  <2>2. \A l \in Lanes : records'[l].missing = records[l].missing
    BY <1>8, NextRecords
  <2> QED BY <1>1, <2>1, <2>2
<1>9. ASSUME NEW x \in Actors, Unpin(x) PROVE CountsMissing(sequenceGap', records')
  <2>1. records' = Release(records, LanesOf({x}))
        /\ sequenceGap' = CloseGaps(sequenceGap, Release(records, LanesOf({x})),
                                    GoneSources(LanesOf({x})))
    BY <1>9 DEF Unpin
  <2>2. ASSUME NEW l \in Lanes
        PROVE  Numbers(records'[l].missing) \subseteq Numbers(records[l].missing)
    <3>1. records'[l] = NoRecord \/ records'[l] = records[l]
      BY <2>1 DEF Release
    <3> QED BY <1>0, <3>1 DEF Numbers
  <2> QED BY <1>1, <1>2, <2>1, <2>2
<1>10. ASSUME NEW heads, NEW done, NEW first, NEW dead, AdvanceStep(heads, done, first, dead)
       PROVE  CountsMissing(sequenceGap', records')
  BY <1>10, AdvancedCounts
<1> QED BY <1>3, <1>4, <1>5, <1>6, <1>7, <1>8, <1>9, <1>10 DEF StepKind

-----------------------------------------------------------------------------
(* The units of history.                                                    *)

(* What some lanes hold between them: HistoryIn counts it.                  *)
HeldIn(recs, lanes) == InLanes([l \in lanes |-> recs[l].buffered \cup recs[l].missing])

Kept == {k \in Keys : fingerprints[k] # NoPrint}

UnitsExact == IsFiniteSet(Kept) /\ HistoryExact

(* A finite set from which some leave and which others join.                *)
LEMMA SetChanges ==
  ASSUME NEW S, IsFiniteSet(S), NEW gone \in SUBSET S,
         NEW new, IsFiniteSet(new), new \cap S = {}
  PROVE  /\ IsFiniteSet((S \ gone) \cup new)
         /\ Cardinality((S \ gone) \cup new)
              = Cardinality(S) - Cardinality(gone) + Cardinality(new)
<1> DEFINE T == S \ gone
<1>1. IsFiniteSet(T) /\ Cardinality(T) = Cardinality(S) - Cardinality(S \cap gone)
  BY FS_Difference
<1>2. S \cap gone = gone /\ T \cap new = {}
  OBVIOUS
<1>3. IsFiniteSet(gone)
  BY FS_Subset
<1> HIDE DEF T
<1>4. IsFiniteSet(T \cup new)
      /\ Cardinality(T \cup new) = Cardinality(T) + Cardinality(new) - Cardinality(T \cap new)
  BY <1>1, FS_Union
<1>5. Cardinality(T \cap new) = 0
  BY <1>2, FS_EmptySet
<1>6. /\ Cardinality(S) \in Nat /\ Cardinality(gone) \in Nat /\ Cardinality(new) \in Nat
      /\ Cardinality(T) \in Nat
  BY <1>1, <1>3, FS_CardinalityType
<1>7. Cardinality(T) = Cardinality(S) - Cardinality(gone)
  BY <1>1, <1>2
<1>8. Cardinality(T \cup new) = Cardinality(S) - Cardinality(gone) + Cardinality(new)
  BY <1>4, <1>5, <1>6, <1>7
<1> QED BY <1>4, <1>8 DEF T

(* Events that share no digest have as many digests.                        *)
LEMMA KeysOfApart ==
  ASSUME NEW S, IsFiniteSet(S), \A b, c \in S : b.key = c.key => b = c
  PROVE  IsFiniteSet({b.key : b \in S}) /\ Cardinality({b.key : b \in S}) = Cardinality(S)
<1> DEFINE T == {b.key : b \in S}
           f == [b \in S |-> b.key]
<1>1. f \in [S -> T] /\ (\A b, c \in S : f[b] = f[c] => b = c)
      /\ (\A t \in T : \E b \in S : f[b] = t)
  OBVIOUS
<1> HIDE DEF f
<1>2. f \in Bijection(S, T)
  BY <1>1 DEF Bijection, Injection, IsInjective, Surjection
<1>3. ExistsBijection(S, T)
  BY <1>2 DEF ExistsBijection
<1> HIDE DEF T
<1>4. IsFiniteSet(T) /\ Cardinality(T) = Cardinality(S)
  BY <1>3, FS_Bijection
<1> QED BY <1>4 DEF T

(* One lane holds as much as it holds.                                      *)
LEMMA OfOneLane ==
  ASSUME NEW l, NEW S, IsFiniteSet(S)
  PROVE  IsFiniteSet({l} \X S) /\ Cardinality({l} \X S) = Cardinality(S)
<1>1. IsFiniteSet({l}) /\ Cardinality({l}) = 1
  BY FS_Singleton
<1>2. IsFiniteSet({l} \X S) /\ Cardinality({l} \X S) = Cardinality({l}) * Cardinality(S)
  BY <1>1, FS_Product
<1>3. Cardinality(S) \in Nat
  BY FS_CardinalityType
<1> QED BY <1>1, <1>2, <1>3

(* What the records of some lanes hold.                                     *)
LEMMA InHeld ==
  ASSUME NEW recs, NEW lanes, NEW p
  PROVE  p \in HeldIn(recs, lanes) <=>
           \E l \in lanes : \E x \in recs[l].buffered \cup recs[l].missing : p = <<l, x>>
<1> DEFINE of == [l \in lanes |-> recs[l].buffered \cup recs[l].missing]
<1>1. DOMAIN of = lanes /\ \A l \in lanes : of[l] = recs[l].buffered \cup recs[l].missing
  OBVIOUS
<1> HIDE DEF of
<1>2. p \in InLanes(of) <=>
        \E l \in lanes : \E x \in recs[l].buffered \cup recs[l].missing : p = <<l, x>>
  BY <1>1, InOneLane
<1> QED BY <1>2 DEF HeldIn, of

(* A lane with its thing is held exactly if the lane holds the thing.       *)
LEMMA PairHeld ==
  ASSUME NEW recs, NEW lanes, NEW l, NEW x
  PROVE  <<l, x>> \in HeldIn(recs, lanes) <=>
           l \in lanes /\ x \in recs[l].buffered \cup recs[l].missing
BY InHeld

(* A finite universe of what lanes hold.                                    *)
LEMMA HeldFinite ==
  ASSUME NEW recs \in [Lanes -> SequenceRecord], NEW lanes \in SUBSET Lanes
  PROVE  /\ IsFiniteSet(HeldIn(recs, lanes))
         /\ HeldIn(recs, lanes) \in SUBSET HeldIn(recs, Lanes)
         /\ HistoryIn(recs, lanes) = Cardinality(HeldIn(recs, lanes))
         /\ HistoryIn(recs, lanes) \in Nat
<1> USE LanesAssumption
<1>1. IsFiniteSet(Lanes \X (Events \cup MissingRange))
  <2>1. IsFiniteSet(Events \cup MissingRange)
    BY RangesFinite, FS_Union
  <2> QED BY <2>1, FS_Product
<1>2. HeldIn(recs, lanes) \in SUBSET (Lanes \X (Events \cup MissingRange))
  <2> SUFFICES ASSUME NEW p \in HeldIn(recs, lanes)
               PROVE  p \in Lanes \X (Events \cup MissingRange)
    OBVIOUS
  <2>1. PICK l \in lanes : \E x \in recs[l].buffered \cup recs[l].missing : p = <<l, x>>
    BY InHeld
  <2>2. recs[l] \in SequenceRecord
    OBVIOUS
  <2>3. recs[l].buffered \subseteq Events /\ recs[l].missing \subseteq MissingRange
    BY <2>2 DEF SequenceRecord
  <2> QED BY <2>1, <2>3
<1>3. IsFiniteSet(HeldIn(recs, lanes))
  BY <1>1, <1>2, FS_Subset
<1>4. HeldIn(recs, lanes) \in SUBSET HeldIn(recs, Lanes)
  <2> SUFFICES ASSUME NEW p \in HeldIn(recs, lanes) PROVE p \in HeldIn(recs, Lanes)
    OBVIOUS
  <2> QED BY InHeld
<1>5. HistoryIn(recs, lanes) = Cardinality(HeldIn(recs, lanes))
  BY DEF HistoryIn, HeldIn
<1> QED BY <1>3, <1>4, <1>5, FS_CardinalityType

(* No range is an event.                                                    *)
LEMMA KindsApart ==
  ASSUME NEW r \in SequenceRecord
  PROVE  /\ r.buffered \subseteq Events /\ r.missing \subseteq MissingRange
         /\ IsFiniteSet(r.buffered) /\ IsFiniteSet(r.missing)
         /\ Events \cap MissingRange = {}
<1> USE LanesAssumption
<1>1. r.buffered \in SUBSET Events /\ r.missing \in SUBSET MissingRange
  BY DEF SequenceRecord
<1>2. IsFiniteSet(r.buffered) /\ IsFiniteSet(r.missing)
  BY <1>1, RangesFinite, FS_Subset
<1>3. ASSUME NEW x \in Events, x \in MissingRange PROVE FALSE
  <2>1. DOMAIN x = {"key", "print", "lane", "seq", "at", "retires"}
    BY DEF EventRecord
  <2>2. DOMAIN x = {"first", "last"}
    BY <1>3 DEF MissingRange
  <2>3. "key" \in {"first", "last"}
    BY <2>1, <2>2
  <2> QED BY <2>3
<1> QED BY <1>1, <1>2, <1>3

(* The units of history follow what is kept and held.                       *)
LEMMA UnitsFollow ==
  ASSUME LanesIInv, UnitsExact, LanesIInv',
         NEW keysGone \in SUBSET Kept, NEW keysNew, IsFiniteSet(keysNew), keysNew \cap Kept = {},
         Kept' = (Kept \ keysGone) \cup keysNew,
         NEW gone \in SUBSET HeldIn(records, Lanes),
         NEW new, IsFiniteSet(new), new \cap HeldIn(records, Lanes) = {},
         HeldIn(records', Lanes) = (HeldIn(records, Lanes) \ gone) \cup new,
         historyUnits' = historyUnits
           + (Cardinality(keysNew) - Cardinality(keysGone))
           + (Cardinality(new) - Cardinality(gone))
  PROVE  UnitsExact'
<1> DEFINE H == HeldIn(records, Lanes)
           K == Kept
<1>0. /\ records \in [Lanes -> SequenceRecord] /\ records' \in [Lanes -> SequenceRecord]
      /\ IsFiniteSet(H) /\ IsFiniteSet(K) /\ IsFiniteSet(gone) /\ IsFiniteSet(keysGone)
  <2>1. records \in [Lanes -> SequenceRecord] /\ records' \in [Lanes -> SequenceRecord]
    BY DEF LanesIInv, LanesGood
  <2>2. IsFiniteSet(H) /\ IsFiniteSet(K)
    BY <2>1, HeldFinite DEF UnitsExact
  <2> QED BY <2>1, <2>2, FS_Subset
<1>1. historyUnits = Cardinality(K) + Cardinality(H)
  <2>1. Kept = {k \in Keys : fingerprints[k] # NoPrint}
    BY DEF Kept
  <2>2. HistoryIn(records, Lanes) = Cardinality(H)
    BY <1>0, HeldFinite
  <2> QED BY <2>1, <2>2 DEF UnitsExact, HistoryExact
<1>2. /\ IsFiniteSet(Kept')
      /\ Cardinality(Kept') = Cardinality(K) - Cardinality(keysGone) + Cardinality(keysNew)
  <2> HIDE DEF K
  <2>1. keysGone \in SUBSET K /\ keysNew \cap K = {} /\ Kept' = (K \ keysGone) \cup keysNew
    BY DEF K
  <2> QED BY <1>0, <2>1, SetChanges
<1>3. Cardinality(HeldIn(records', Lanes)) = Cardinality(H) - Cardinality(gone) + Cardinality(new)
  <2> HIDE DEF H
  <2>1. gone \in SUBSET H /\ new \cap H = {} /\ HeldIn(records', Lanes) = (H \ gone) \cup new
    BY DEF H
  <2>2. IsFiniteSet(H) /\ IsFiniteSet(new) /\ gone \in SUBSET H /\ new \cap H = {}
    BY <1>0, <2>1
  <2>3. Cardinality((H \ gone) \cup new) = Cardinality(H) - Cardinality(gone) + Cardinality(new)
    BY ONLY <2>2, SetChanges
  <2> QED BY <2>1, <2>3
<1>4. HistoryIn(records', Lanes) = Cardinality(HeldIn(records', Lanes))
  BY <1>0, HeldFinite
<1>5. /\ Cardinality(K) \in Nat /\ Cardinality(H) \in Nat /\ Cardinality(gone) \in Nat
      /\ Cardinality(keysGone) \in Nat /\ Cardinality(new) \in Nat /\ Cardinality(keysNew) \in Nat
  BY <1>0, FS_CardinalityType
<1>6. historyUnits' = Cardinality(Kept') + HistoryIn(records', Lanes)
  <2> HIDE DEF H, K
  <2> QED BY <1>1, <1>2, <1>3, <1>4, <1>5
<1>7. Kept' = {k \in Keys : fingerprints'[k] # NoPrint}
  BY DEF Kept
<1> QED BY <1>2, <1>6, <1>7 DEF UnitsExact, HistoryExact

(* One lane changes what it holds.                                          *)
LEMMA OneLaneHolds ==
  ASSUME NEW recs, NEW recs2, NEW l \in Lanes,
         \A k \in Lanes \ {l} : recs2[k] = recs[k],
         NEW gone \in SUBSET (recs[l].buffered \cup recs[l].missing),
         NEW new, new \cap (recs[l].buffered \cup recs[l].missing) = {},
         recs2[l].buffered \cup recs2[l].missing
           = ((recs[l].buffered \cup recs[l].missing) \ gone) \cup new
  PROVE  /\ {l} \X gone \in SUBSET HeldIn(recs, Lanes)
         /\ ({l} \X new) \cap HeldIn(recs, Lanes) = {}
         /\ HeldIn(recs2, Lanes) = (HeldIn(recs, Lanes) \ ({l} \X gone)) \cup ({l} \X new)
<1>1. \A x : /\ <<l, x>> \in {l} \X gone <=> x \in gone
             /\ <<l, x>> \in {l} \X new <=> x \in new
  OBVIOUS
<1>2. \A p : /\ p \in {l} \X gone => \E x : p = <<l, x>>
             /\ p \in {l} \X new => \E x : p = <<l, x>>
  OBVIOUS
<1>3. {l} \X gone \in SUBSET HeldIn(recs, Lanes)
  <2> SUFFICES ASSUME NEW p \in {l} \X gone PROVE p \in HeldIn(recs, Lanes)
    OBVIOUS
  <2>1. PICK x : p = <<l, x>>
    BY <1>2
  <2> QED BY <1>1, <2>1, PairHeld
<1>4. ({l} \X new) \cap HeldIn(recs, Lanes) = {}
  <2> SUFFICES ASSUME NEW p \in {l} \X new, p \in HeldIn(recs, Lanes) PROVE FALSE
    OBVIOUS
  <2>1. PICK x : p = <<l, x>>
    BY <1>2
  <2>2. x \in new /\ x \in recs[l].buffered \cup recs[l].missing
    BY <1>1, <2>1, PairHeld
  <2> QED BY <2>2
<1>5. ASSUME NEW p
      PROVE  p \in HeldIn(recs2, Lanes)
               <=> (p \in HeldIn(recs, Lanes) /\ p \notin {l} \X gone) \/ p \in {l} \X new
  <2>1. ASSUME NEW k \in Lanes, NEW x, p = <<k, x>>
        PROVE  p \in HeldIn(recs2, Lanes)
                 <=> (p \in HeldIn(recs, Lanes) /\ p \notin {l} \X gone) \/ p \in {l} \X new
    <3>1. /\ p \in HeldIn(recs, Lanes) <=> x \in recs[k].buffered \cup recs[k].missing
          /\ p \in HeldIn(recs2, Lanes) <=> x \in recs2[k].buffered \cup recs2[k].missing
      BY <2>1, PairHeld
    <3>2. CASE k = l
      BY <1>1, <2>1, <3>1, <3>2
    <3>3. CASE k # l
      BY <2>1, <3>1, <3>3
    <3> QED BY <3>2, <3>3
  <2>2. p \in HeldIn(recs, Lanes) \/ p \in HeldIn(recs2, Lanes) \/ p \in {l} \X new
          => \E k \in Lanes : \E x : p = <<k, x>>
    <3>1. p \in HeldIn(recs, Lanes) => \E k \in Lanes : \E x : p = <<k, x>>
      BY InHeld
    <3>2. p \in HeldIn(recs2, Lanes) => \E k \in Lanes : \E x : p = <<k, x>>
      BY InHeld
    <3> QED BY <1>2, <3>1, <3>2
  <2> QED BY <2>1, <2>2
<1> QED BY <1>3, <1>4, <1>5

(* What goes with lanes that are released.                                  *)
LEMMA ReleaseHolds ==
  ASSUME NEW recs, NEW recs2, NEW gone \in SUBSET Lanes,
         \A l \in Lanes :
           recs2[l].buffered \cup recs2[l].missing
             = IF l \in gone THEN {} ELSE recs[l].buffered \cup recs[l].missing
  PROVE  HeldIn(recs2, Lanes) = HeldIn(recs, Lanes) \ HeldIn(recs, gone)
<1> SUFFICES ASSUME NEW p
             PROVE  p \in HeldIn(recs2, Lanes)
                      <=> p \in HeldIn(recs, Lanes) /\ p \notin HeldIn(recs, gone)
  OBVIOUS
<1>1. ASSUME NEW k \in Lanes, NEW x, p = <<k, x>>
      PROVE  p \in HeldIn(recs2, Lanes)
               <=> p \in HeldIn(recs, Lanes) /\ p \notin HeldIn(recs, gone)
  <2>1. /\ p \in HeldIn(recs, Lanes) <=> x \in recs[k].buffered \cup recs[k].missing
        /\ p \in HeldIn(recs, gone) <=> k \in gone /\ x \in recs[k].buffered \cup recs[k].missing
        /\ p \in HeldIn(recs2, Lanes) <=> x \in recs2[k].buffered \cup recs2[k].missing
    BY <1>1, PairHeld
  <2>2. CASE k \in gone
    BY <2>1, <2>2
  <2>3. CASE k \notin gone
    BY <2>1, <2>3
  <2> QED BY <2>2, <2>3
<1>2. /\ p \in HeldIn(recs, Lanes) => \E k \in Lanes : \E x : p = <<k, x>>
      /\ p \in HeldIn(recs2, Lanes) => \E k \in Lanes : \E x : p = <<k, x>>
  BY InHeld
<1> QED BY <1>1, <1>2

(* An event no one has seen leaves its fingerprint.                         *)
LEMMA CommitUnits ==
  ASSUME LanesIInv, UnitsExact, LanesIInv', NEW e \in Events, NEW plan,
         New(e), Commit(e, plan),
         NEW gone \in SUBSET HeldIn(records, Lanes),
         NEW new, IsFiniteSet(new), new \cap HeldIn(records, Lanes) = {},
         HeldIn(records', Lanes) = (HeldIn(records, Lanes) \ gone) \cup new,
         plan.delta = 1 + (Cardinality(new) - Cardinality(gone))
  PROVE  UnitsExact'
<1> USE LanesAssumption
<1>1. e.key \in Keys /\ e.print # NoPrint /\ e.key \notin Kept
  BY DEF New, Known, EventRecord, Kept
<1>2. fingerprints' = [fingerprints EXCEPT ![e.key] = e.print]
      /\ fingerprints \in [Keys -> Prints \cup {NoPrint}]
  BY DEF Commit, LanesIInv, RestTyped
<1>3. Kept' = (Kept \ {}) \cup {e.key}
  BY <1>1, <1>2 DEF Kept
<1>4. /\ IsFiniteSet({e.key}) /\ Cardinality({e.key}) = 1 /\ Cardinality({}) = 0
      /\ {e.key} \cap Kept = {} /\ {} \in SUBSET Kept
  <2>1. IsFiniteSet({e.key}) /\ Cardinality({e.key}) = 1
    BY FS_Singleton
  <2>2. Cardinality({}) = 0
    BY FS_EmptySet
  <2> QED BY <1>1, <2>1, <2>2
<1>5. IsFiniteSet(gone)
  <2>1. IsFiniteSet(HeldIn(records, Lanes))
    BY HeldFinite DEF LanesIInv, LanesGood
  <2> QED BY <2>1, FS_Subset
<1>6. historyUnits \in Int /\ Cardinality(new) \in Nat /\ Cardinality(gone) \in Nat
  BY <1>5, FS_CardinalityType DEF LanesIInv, RestTyped
<1>7. historyUnits' = historyUnits + (1 - 0) + (Cardinality(new) - Cardinality(gone))
  <2>1. historyUnits' = historyUnits + plan.delta
    BY DEF Commit
  <2> QED BY <1>6, <2>1
<1>8. historyUnits' = historyUnits + (Cardinality({e.key}) - Cardinality({}))
                        + (Cardinality(new) - Cardinality(gone))
  BY <1>4, <1>7
<1> DEFINE keysNew == {e.key}
           keysGone == {}
<1>9. /\ keysGone \in SUBSET Kept /\ IsFiniteSet(keysNew) /\ keysNew \cap Kept = {}
      /\ Kept' = (Kept \ keysGone) \cup keysNew
      /\ historyUnits' = historyUnits + (Cardinality(keysNew) - Cardinality(keysGone))
                        + (Cardinality(new) - Cardinality(gone))
  BY <1>3, <1>4, <1>8
<1> HIDE DEF keysNew, keysGone
<1> QED BY <1>9, UnitsFollow

(* Every path of Apply counts what it keeps and holds: the lanes it         *)
(* releases, the ranges it strikes, the event that waits, what leaves the   *)
(* buffer (stageProtocolEvent).                                             *)
LEMMA OpenUnits ==
  ASSUME LanesIInv, UnitsExact, LanesIInv', NEW e \in Events, OpenStep(e)
  PROVE  UnitsExact'
<1> DEFINE lanes == LanesOf(e.retires)
           gone == HeldIn(records, lanes)
           plan == OpenPlan(e)
<1>1. records \in [Lanes -> SequenceRecord] /\ lanes \in SUBSET Lanes
  BY DEF LanesIInv, LanesGood, LanesOf
<1>2. NoRecord.buffered = {} /\ NoRecord.missing = {}
  BY DEF NoRecord
<1>3. ASSUME NEW l \in Lanes
      PROVE  records'[l].buffered \cup records'[l].missing
               = IF l \in lanes THEN {} ELSE records[l].buffered \cup records[l].missing
  <2>1. CASE l = e.lane
    <3>1. records[l] = NoRecord
      BY <2>1 DEF OpenStep
    <3> QED BY <1>2, <2>1, <3>1, OpenRecords
  <2>2. CASE l # e.lane
    BY <1>2, <2>2, OpenRecords
  <2> QED BY <2>1, <2>2
<1>4. HeldIn(records', Lanes) = HeldIn(records, Lanes) \ HeldIn(records, lanes)
  <2> HIDE DEF lanes
  <2> QED BY <1>1, <1>3, ReleaseHolds
<1>5. gone \in SUBSET HeldIn(records, Lanes) /\ Cardinality(gone) \in Nat
      /\ HistoryIn(records, lanes) = Cardinality(gone)
  <2> HIDE DEF lanes
  <2> QED BY <1>1, HeldFinite
<1>6. IsFiniteSet({}) /\ Cardinality({}) = 0
  BY FS_EmptySet
<1>7. New(e) /\ Commit(e, plan) /\ plan.delta = 1 - HistoryIn(records, lanes)
  BY DEF OpenStep, OpenPlan
<1> HIDE DEF lanes, gone, plan
<1>8. plan.delta = 1 + (0 - Cardinality(gone))
  BY <1>5, <1>7
<1> DEFINE new == {}
<1>9. /\ HeldIn(records', Lanes) = (HeldIn(records, Lanes) \ gone) \cup new
      /\ IsFiniteSet(new) /\ new \cap HeldIn(records, Lanes) = {}
      /\ plan.delta = 1 + (Cardinality(new) - Cardinality(gone))
  <2>1. HeldIn(records', Lanes) = (HeldIn(records, Lanes) \ gone) \cup new
    BY <1>4 DEF gone
  <2> QED BY <1>6, <1>8, <2>1
<1> HIDE DEF new
<1> QED BY <1>5, <1>7, <1>9, CommitUnits

(* A change of one lane that a plan counts.                                 *)
LEMMA LaneUnits ==
  ASSUME LanesIInv, UnitsExact, LanesIInv', NEW e \in Events, NEW plan,
         New(e), Commit(e, plan),
         \A k \in Lanes \ {e.lane} : records'[k] = records[k],
         NEW left \in SUBSET (records[e.lane].buffered \cup records[e.lane].missing),
         NEW come, IsFiniteSet(come),
         come \cap (records[e.lane].buffered \cup records[e.lane].missing) = {},
         records'[e.lane].buffered \cup records'[e.lane].missing
           = ((records[e.lane].buffered \cup records[e.lane].missing) \ left) \cup come,
         plan.delta = 1 + (Cardinality(come) - Cardinality(left))
  PROVE  UnitsExact'
<1> DEFINE l == e.lane
           gone == {l} \X left
           new == {l} \X come
<1>1. l \in Lanes /\ records[l] \in SequenceRecord
  BY LanesAssumption DEF EventRecord, LanesIInv, LanesGood
<1>2. IsFiniteSet(left)
  <2>1. IsFiniteSet(records[l].buffered \cup records[l].missing)
    BY <1>1, KindsApart, FS_Union
  <2> QED BY <2>1, FS_Subset
<1>3. /\ gone \in SUBSET HeldIn(records, Lanes) /\ new \cap HeldIn(records, Lanes) = {}
      /\ HeldIn(records', Lanes) = (HeldIn(records, Lanes) \ gone) \cup new
  <2> DEFINE recs == records
             recs2 == records'
  <2>1. /\ \A k \in Lanes \ {l} : recs2[k] = recs[k]
        /\ left \in SUBSET (recs[l].buffered \cup recs[l].missing)
        /\ come \cap (recs[l].buffered \cup recs[l].missing) = {}
        /\ recs2[l].buffered \cup recs2[l].missing
             = ((recs[l].buffered \cup recs[l].missing) \ left) \cup come
    OBVIOUS
  <2> HIDE DEF recs, recs2, l
  <2>2. /\ {l} \X left \in SUBSET HeldIn(recs, Lanes)
        /\ ({l} \X come) \cap HeldIn(recs, Lanes) = {}
        /\ HeldIn(recs2, Lanes) = (HeldIn(recs, Lanes) \ ({l} \X left)) \cup ({l} \X come)
    BY ONLY <1>1, <2>1, OneLaneHolds
  <2> QED BY <2>2 DEF recs, recs2
<1>4. /\ IsFiniteSet(new) /\ Cardinality(new) = Cardinality(come)
      /\ Cardinality(gone) = Cardinality(left)
  BY <1>2, OfOneLane
<1> HIDE DEF gone, new
<1>5. plan.delta = 1 + (Cardinality(new) - Cardinality(gone))
  BY <1>4
<1> QED BY <1>3, <1>4, <1>5, CommitUnits

(* An event outside any order keeps the history units exact.                *)
LEMMA UnsequencedUnits ==
  ASSUME LanesIInv, UnitsExact, LanesIInv', NEW e \in Events, UnsequencedStep(e)
  PROVE  UnitsExact'
<1> DEFINE plan == UnsequencedPlan(e)
           left == {}
           come == {}
<1>1. New(e) /\ Commit(e, plan) /\ records' = records /\ plan.delta = 1
  BY DEF UnsequencedStep, UnsequencedPlan, Commit
<1>2. IsFiniteSet({}) /\ Cardinality({}) = 0
  BY FS_EmptySet
<1> HIDE DEF plan
<1>3. /\ left \in SUBSET (records[e.lane].buffered \cup records[e.lane].missing)
      /\ come \cap (records[e.lane].buffered \cup records[e.lane].missing) = {}
      /\ records'[e.lane].buffered \cup records'[e.lane].missing
           = ((records[e.lane].buffered \cup records[e.lane].missing) \ left) \cup come
      /\ \A k \in Lanes \ {e.lane} : records'[k] = records[k]
  BY <1>1
<1>4. IsFiniteSet(come) /\ plan.delta = 1 + (Cardinality(come) - Cardinality(left))
  BY <1>1, <1>2
<1> HIDE DEF left, come
<1> QED BY <1>1, <1>3, <1>4, LaneUnits

(* An event that fills a gap keeps the history units exact.                 *)
LEMMA LateUnits ==
  ASSUME LanesIInv, UnitsExact, LanesIInv', NEW e \in Events, LateStep(e)
  PROVE  UnitsExact'
<1> USE LanesAssumption
<1> DEFINE plan == LatePlan(e)
           r == records[e.lane]
           kept == RemoveSequence(r.missing, e.seq)
           left == r.missing \ kept
           come == kept \ r.missing
<1>1. /\ New(e) /\ Commit(e, plan) /\ records' = [records EXCEPT ![e.lane].missing = kept]
      /\ plan.delta = 1 + Cardinality(kept) - Cardinality(r.missing)
  BY DEF LateStep, LatePlan, Commit
<1>2. e.lane \in Lanes /\ e.seq \in 1..MaxSeq /\ r \in SequenceRecord
      /\ records \in [Lanes -> SequenceRecord]
  BY DEF LateStep, EventRecord, LanesIInv, LanesGood
<1>3. /\ r.buffered \subseteq Events /\ r.missing \subseteq MissingRange
      /\ IsFiniteSet(r.missing) /\ Events \cap MissingRange = {}
  BY <1>2, KindsApart
<1>4. kept \subseteq MissingRange /\ IsFiniteSet(kept)
  <2> DEFINE m == r.missing
             n == e.seq
  <2>0. m \in SUBSET MissingRange /\ n \in 1..MaxSeq
    BY <1>2, <1>3
  <2>1. kept \in SUBSET MissingRange
    <3> HIDE DEF m, n
    <3>1. RemoveSequence(m, n) \in SUBSET MissingRange
      BY <2>0, RemoveSequenceStrikes
    <3> QED BY <3>1 DEF m, n
  <2> HIDE DEF kept
  <2> QED BY <2>1, RangesFinite, FS_Subset
<1> HIDE DEF plan, kept
<1>5. records'[e.lane].buffered = r.buffered /\ records'[e.lane].missing = kept
  <2>1. records'[e.lane] = [r EXCEPT !.missing = kept]
    BY <1>1, <1>2
  <2> HIDE DEF r
  <2> QED BY <1>2, <2>1 DEF SequenceRecord
<1>6. \A k \in Lanes \ {e.lane} : records'[k] = records[k]
  BY <1>1, <1>2
<1>7. IsFiniteSet(come)
  BY <1>4, FS_Difference
<1>8. Cardinality(come) - Cardinality(left) = Cardinality(kept) - Cardinality(r.missing)
  <2> DEFINE m == r.missing
  <2>1. Cardinality(come) = Cardinality(kept) - Cardinality(kept \cap m)
    BY <1>4, FS_Difference
  <2>2. Cardinality(left) = Cardinality(m) - Cardinality(m \cap kept)
    BY <1>3, FS_Difference
  <2>3. m \cap kept = kept \cap m
    OBVIOUS
  <2>4. Cardinality(kept) \in Nat /\ Cardinality(m) \in Nat /\ Cardinality(m \cap kept) \in Nat
    BY <1>3, <1>4, FS_CardinalityType, FS_Intersection
  <2> HIDE DEF come, left, m
  <2>5. Cardinality(come) - Cardinality(left) = Cardinality(kept) - Cardinality(m)
    <3> DEFINE a == Cardinality(kept)
               b == Cardinality(m)
               c == Cardinality(m \cap kept)
    <3>1. Cardinality(come) = a - c /\ Cardinality(left) = b - c
          /\ a \in Nat /\ b \in Nat /\ c \in Nat
      BY <2>1, <2>2, <2>3, <2>4
    <3> HIDE DEF a, b, c
    <3>2. Cardinality(come) - Cardinality(left) = a - b
      BY <3>1
    <3> QED BY <3>2 DEF a, b
  <2> QED BY <2>5 DEF m
<1>9. /\ left \in SUBSET (r.buffered \cup r.missing)
      /\ come \cap (r.buffered \cup r.missing) = {}
      /\ records'[e.lane].buffered \cup records'[e.lane].missing
           = ((r.buffered \cup r.missing) \ left) \cup come
  <2> HIDE DEF r
  <2> QED BY <1>3, <1>4, <1>5
<1>10. plan.delta = 1 + (Cardinality(come) - Cardinality(left))
  <2>1. Cardinality(kept) \in Nat /\ Cardinality(r.missing) \in Nat
    BY <1>3, <1>4, FS_CardinalityType
  <2> HIDE DEF come, left
  <2> QED BY <1>1, <1>8, <2>1
<1> HIDE DEF left, come
<1> QED BY <1>1, <1>6, <1>7, <1>9, <1>10, LaneUnits

(* An event that is buffered or refused keeps the history units exact.      *)
LEMMA EarlyUnits ==
  ASSUME LanesIInv, UnitsExact, LanesIInv', NEW e \in Events, EarlyStep(e)
  PROVE  UnitsExact'
<1> USE LanesAssumption
<1> DEFINE plan == EarlyPlan(e)
           r == records[e.lane]
           until == IF r.deadline = 0 THEN e.at + ReorderWindow ELSE r.deadline
           left == {}
           come == {e}
<1>1. /\ New(e) /\ Commit(e, plan) /\ plan.delta = 2
      /\ records' = [records EXCEPT ![e.lane].buffered = r.buffered \cup {e},
                                    ![e.lane].deadline = until]
  BY DEF EarlyStep, EarlyPlan, Commit
<1>2. e.lane \in Lanes /\ r \in SequenceRecord /\ records \in [Lanes -> SequenceRecord]
  BY DEF EventRecord, LanesIInv, LanesGood
<1>3. r.missing \subseteq MissingRange /\ Events \cap MissingRange = {}
  BY <1>2, KindsApart
<1> HIDE DEF plan, until
<1>4. records'[e.lane].buffered = r.buffered \cup {e} /\ records'[e.lane].missing = r.missing
  <2>1. records'[e.lane] = [r EXCEPT !.buffered = r.buffered \cup {e}, !.deadline = until]
    BY <1>1, <1>2
  <2> HIDE DEF r
  <2> QED BY <1>2, <2>1 DEF SequenceRecord
<1>5. \A k \in Lanes \ {e.lane} : records'[k] = records[k]
  BY <1>1, <1>2
<1>6. e \notin r.buffered /\ e \notin r.missing
  <2>1. e \notin Buffered
    BY <1>1 DEF New, Known
  <2> QED BY <1>2, <1>3, <2>1 DEF Buffered
<1>7. /\ left \in SUBSET (r.buffered \cup r.missing)
      /\ come \cap (r.buffered \cup r.missing) = {}
      /\ records'[e.lane].buffered \cup records'[e.lane].missing
           = ((r.buffered \cup r.missing) \ left) \cup come
  <2> HIDE DEF r
  <2> QED BY <1>4, <1>6
<1>8. IsFiniteSet(come) /\ plan.delta = 1 + (Cardinality(come) - Cardinality(left))
  <2>1. IsFiniteSet(come) /\ Cardinality(come) = 1
    BY FS_Singleton
  <2>2. Cardinality(left) = 0
    BY FS_EmptySet
  <2> HIDE DEF left, come
  <2> QED BY <1>1, <2>1, <2>2
<1>9. New(e) /\ Commit(e, plan)
  BY <1>1
<1> HIDE DEF left, come
<1> QED BY <1>5, <1>7, <1>8, <1>9, LaneUnits

(* A lane that moves on keeps the history units exact.                      *)
LEMMA NextUnits ==
  ASSUME LanesIInv, UnitsExact, LanesIInv', NEW e \in Events,
         NEW drained \in SUBSET records[e.lane].buffered, NextStep(e, drained)
  PROVE  UnitsExact'
<1> USE LanesAssumption
<1> DEFINE plan == NextPlan(e, drained)
           r == records[e.lane]
           come == {}
<1>1. New(e) /\ Commit(e, plan) /\ plan.delta = 1 - Cardinality(drained)
  BY DEF NextStep, NextPlan
<1>2. e.lane \in Lanes /\ r \in SequenceRecord
  BY DEF EventRecord, LanesIInv, LanesGood
<1>3. /\ r.buffered \subseteq Events /\ r.missing \subseteq MissingRange
      /\ Events \cap MissingRange = {} /\ IsFiniteSet(drained)
  <2>1. IsFiniteSet(r.buffered)
    BY <1>2, KindsApart
  <2>2. IsFiniteSet(drained)
    BY <2>1, FS_Subset
  <2> QED BY <1>2, <2>2, KindsApart
<1>4. /\ records'[e.lane].buffered = r.buffered \ drained
      /\ records'[e.lane].missing = r.missing
      /\ \A k \in Lanes \ {e.lane} : records'[k] = records[k]
  BY NextRecords
<1> HIDE DEF plan
<1>5. /\ drained \in SUBSET (r.buffered \cup r.missing)
      /\ come \cap (r.buffered \cup r.missing) = {}
      /\ records'[e.lane].buffered \cup records'[e.lane].missing
           = ((r.buffered \cup r.missing) \ drained) \cup come
  <2>1. drained \in SUBSET r.buffered
    OBVIOUS
  <2> HIDE DEF r
  <2> QED BY <1>3, <1>4, <2>1
<1>6. IsFiniteSet(come) /\ plan.delta = 1 + (Cardinality(come) - Cardinality(drained))
  <2>1. IsFiniteSet(come) /\ Cardinality(come) = 0
    BY FS_EmptySet
  <2>2. Cardinality(drained) \in Nat
    BY <1>3, FS_CardinalityType
  <2> HIDE DEF come
  <2> QED BY <1>1, <2>1, <2>2
<1> HIDE DEF come
<1> QED BY <1>1, <1>4, <1>5, <1>6, LaneUnits

(* What leaves the buffers in an Advance, and the holes it finds.           *)
LeavesIn(heads) == InLanes([l \in DueLanes |-> records[l].buffered \ Left(l, heads)])

HolesIn(done) == InLanes([l \in DueLanes |-> Missed(l, done)])

(* What a release takes out of the buffers.                                 *)
LEMMA InLeaves ==
  ASSUME NEW heads, NEW p
  PROVE  p \in LeavesIn(heads) <=>
           \E l \in DueLanes : \E x \in records[l].buffered \ Left(l, heads) : p = <<l, x>>
<1> DEFINE of == [l \in DueLanes |-> records[l].buffered \ Left(l, heads)]
<1>1. DOMAIN of = DueLanes /\ \A l \in DueLanes : of[l] = records[l].buffered \ Left(l, heads)
  OBVIOUS
<1> HIDE DEF of
<1>2. p \in InLanes(of) <=>
        \E l \in DueLanes : \E x \in records[l].buffered \ Left(l, heads) : p = <<l, x>>
  BY <1>1, InOneLane
<1> QED BY <1>2 DEF LeavesIn, of

(* What a release gives up.                                                 *)
LEMMA InHoles ==
  ASSUME NEW done, NEW p
  PROVE  p \in HolesIn(done) <=> \E l \in DueLanes : \E x \in Missed(l, done) : p = <<l, x>>
<1> DEFINE of == [l \in DueLanes |-> Missed(l, done)]
<1>1. DOMAIN of = DueLanes /\ \A l \in DueLanes : of[l] = Missed(l, done)
  OBVIOUS
<1> HIDE DEF of
<1>2. p \in InLanes(of) <=> \E l \in DueLanes : \E x \in Missed(l, done) : p = <<l, x>>
  BY <1>1, InOneLane
<1> QED BY <1>2 DEF HolesIn, of

(* The holes an Advance finds are new: they begin where the lane had come.  *)
LEMMA HolesAreNew ==
  ASSUME LanesGood, NEW l \in DueLanes, NEW done, NEW x \in Missed(l, done)
  PROVE  x \in MissingRange /\ x \notin records[l].buffered /\ x \notin records[l].missing
<1> USE LanesAssumption
<1>1. l \in Lanes
  BY DEF DueLanes
<1>2. LaneGood(l, records[l], applied[l]) /\ records[l] \in SequenceRecord
  BY <1>1 DEF LanesGood
<1>3. x \in MissedRanges(records[l].next, Sequences(done \cap Fresh(l)))
  BY DEF Missed
<1>4. /\ x \in MissingRange /\ records[l].next <= x.first /\ x.first <= x.last
      /\ x.last + 1 \in Sequences(done \cap Fresh(l))
  BY <1>3 DEF MissedRanges
<1>5. records[l].regime = "ordered"
  BY <1>4 DEF Sequences, Fresh
<1>6. x \notin records[l].missing
  <2>1. \A m \in records[l].missing : m.last < records[l].next
    BY <1>2, <1>5 DEF LaneGood
  <2>2. records[l].next \in Int /\ x.first \in Int /\ x.last \in Int
    BY <1>2, <1>4 DEF SequenceRecord, MissingRange
  <2> QED BY <1>4, <2>1, <2>2
<1>7. x \notin records[l].buffered
  BY <1>2, <1>4, KindsApart
<1> QED BY <1>4, <1>6, <1>7

(* The lanes hold what they held but what left, and the holes.              *)
LEMMA DrainHolds ==
  ASSUME LanesGood, NEW heads, NEW done
  PROVE  /\ LeavesIn(heads) \in SUBSET HeldIn(records, Lanes)
         /\ HolesIn(done) \cap HeldIn(records, Lanes) = {}
         /\ IsFiniteSet(HolesIn(done))
         /\ HeldIn(Drained(heads, done), Lanes)
              = (HeldIn(records, Lanes) \ LeavesIn(heads)) \cup HolesIn(done)
<1> USE LanesAssumption
<1>0. DueLanes \subseteq Lanes /\ records \in [Lanes -> SequenceRecord]
  BY DEF DueLanes, LanesGood
<1>1. LeavesIn(heads) \in SUBSET HeldIn(records, Lanes)
  <2> SUFFICES ASSUME NEW p \in LeavesIn(heads) PROVE p \in HeldIn(records, Lanes)
    OBVIOUS
  <2>1. PICK l \in DueLanes : \E x \in records[l].buffered \ Left(l, heads) : p = <<l, x>>
    BY InLeaves
  <2>2. PICK x \in records[l].buffered : p = <<l, x>>
    BY <2>1
  <2> QED BY <1>0, <2>2, PairHeld
<1>2. HolesIn(done) \cap HeldIn(records, Lanes) = {}
  <2> SUFFICES ASSUME NEW p \in HolesIn(done), p \in HeldIn(records, Lanes) PROVE FALSE
    OBVIOUS
  <2>1. PICK l \in DueLanes : \E x \in Missed(l, done) : p = <<l, x>>
    BY InHoles
  <2>2. PICK x \in Missed(l, done) : p = <<l, x>>
    BY <2>1
  <2>3. x \in records[l].buffered \cup records[l].missing
    BY <2>2, PairHeld
  <2> QED BY <2>3, HolesAreNew
<1>3. IsFiniteSet(HolesIn(done))
  <2>1. IsFiniteSet(Lanes \X MissingRange)
    BY RangesFinite, FS_Product
  <2>2. HolesIn(done) \in SUBSET (Lanes \X MissingRange)
    <3> SUFFICES ASSUME NEW p \in HolesIn(done) PROVE p \in Lanes \X MissingRange
      OBVIOUS
    <3>1. PICK l \in DueLanes : \E x \in Missed(l, done) : p = <<l, x>>
      BY InHoles
    <3>2. PICK x \in Missed(l, done) : p = <<l, x>>
      BY <3>1
    <3>3. x \in MissingRange /\ l \in Lanes
      BY <1>0, HolesAreNew
    <3> QED BY <3>2, <3>3
  <2> QED BY <2>1, <2>2, FS_Subset
<1>4. ASSUME NEW l \in Lanes, NEW x
      PROVE  <<l, x>> \in HeldIn(Drained(heads, done), Lanes)
               <=> \/ <<l, x>> \in HeldIn(records, Lanes) /\ <<l, x>> \notin LeavesIn(heads)
                   \/ <<l, x>> \in HolesIn(done)
  <2> DEFINE d == Drained(heads, done)
  <2>1. /\ <<l, x>> \in HeldIn(d, Lanes) <=> x \in d[l].buffered \cup d[l].missing
        /\ <<l, x>> \in HeldIn(records, Lanes)
             <=> x \in records[l].buffered \cup records[l].missing
    BY PairHeld
  <2>2. /\ <<l, x>> \in LeavesIn(heads)
             <=> l \in DueLanes /\ x \in records[l].buffered \ Left(l, heads)
        /\ <<l, x>> \in HolesIn(done) <=> l \in DueLanes /\ x \in Missed(l, done)
    BY InLeaves, InHoles
  <2>3. CASE l \in DueLanes
    <3>1. d[l] = DrainLane(l, heads, done)
      BY <2>3 DEF Drained
    <3>2. /\ d[l].missing = records[l].missing \cup Missed(l, done)
          /\ d[l].buffered = Left(l, heads)
      <4> HIDE DEF d
      <4> QED BY <2>3, <3>1, DrainedRecord
    <3>3. Left(l, heads) \subseteq records[l].buffered
      BY DEF Left, Fresh
    <3>4. \A y \in records[l].missing : y \notin records[l].buffered
      <4>1. records[l] \in SequenceRecord
        BY <1>0
      <4> QED BY <4>1, KindsApart
    <3> HIDE DEF d
    <3> QED BY <2>1, <2>2, <2>3, <3>2, <3>3, <3>4 DEF d
  <2>4. CASE l \notin DueLanes
    <3>1. d[l] = records[l]
      BY <2>4 DEF Drained
    <3> HIDE DEF d
    <3> QED BY <2>1, <2>2, <2>4, <3>1 DEF d
  <2> QED BY <2>3, <2>4
<1>5. HeldIn(Drained(heads, done), Lanes)
        = (HeldIn(records, Lanes) \ LeavesIn(heads)) \cup HolesIn(done)
  <2> SUFFICES ASSUME NEW p
               PROVE  p \in HeldIn(Drained(heads, done), Lanes)
                        <=> \/ p \in HeldIn(records, Lanes) /\ p \notin LeavesIn(heads)
                            \/ p \in HolesIn(done)
    OBVIOUS
  <2>1. p \in HeldIn(Drained(heads, done), Lanes) => \E l \in Lanes : \E x : p = <<l, x>>
    BY InHeld
  <2>2. p \in HeldIn(records, Lanes) => \E l \in Lanes : \E x : p = <<l, x>>
    BY InHeld
  <2>3. p \in HolesIn(done) => \E l \in Lanes : \E x : p = <<l, x>>
    BY <1>0, InHoles
  <2> QED BY <1>4, <2>1, <2>2, <2>3
<1> QED BY <1>1, <1>2, <1>3, <1>5

(* The fingerprints given back and restored, each for a digest of its own.  *)
LEMMA AdvanceKeeps ==
  ASSUME LanesIInv, OnceIInv, UnitsExact, NEW heads, NEW done, NEW first, NEW dead,
         AdvanceStep(heads, done, first, dead),
         NEW forgotten,
         forgotten = Forgotten(DeferredBy(heads, LanesOf(dead)),
                               Release(Drained(heads, done), LanesOf(dead)))
  PROVE  /\ IsFiniteSet(Kept')
         /\ Cardinality(forgotten) \in Nat /\ Cardinality(Restored(done)) \in Nat
         /\ Cardinality(Kept') = Cardinality(Kept) - Cardinality(forgotten)
                                   + Cardinality(Restored(done))
<1> USE LanesAssumption
<1> DEFINE lost == {b.key : b \in forgotten}
           back == {b.key : b \in Restored(done)}
<1>1. Waiting \subseteq Buffered /\ Buffered \subseteq Events
  <2>1. \A l \in Lanes : records[l].buffered \subseteq Events
    BY DEF LanesIInv, LanesGood, SequenceRecord
  <2> QED BY <2>1 DEF Waiting, Fresh, Buffered, DueLanes
<1>2. /\ forgotten \subseteq heads /\ heads \subseteq Waiting
      /\ Restored(done) \subseteq done /\ done \subseteq Waiting
      /\ fingerprints' = Refingerprint(forgotten, Restored(done))
      /\ fingerprints \in [Keys -> Prints \cup {NoPrint}]
  BY DEF AdvanceStep, Forgotten, DeferredBy, Restored, LanesIInv, RestTyped
<1>3. /\ IsFiniteSet(forgotten) /\ \A b, c \in forgotten : b.key = c.key => b = c
      /\ IsFiniteSet(Restored(done)) /\ \A b, c \in Restored(done) : b.key = c.key => b = c
  <2>1. forgotten \in SUBSET Events /\ Restored(done) \in SUBSET Events
    BY <1>1, <1>2
  <2>2. IsFiniteSet(forgotten) /\ IsFiniteSet(Restored(done))
    BY <2>1, FS_Subset
  <2> QED BY <1>1, <1>2, <2>2 DEF OnceIInv, ApartKeys
<1>4. \A b \in forgotten : b.key \in Keys /\ fingerprints[b.key] = b.print /\ b.print # NoPrint
  BY <1>1, <1>2 DEF Forgotten, EventRecord
<1>5. \A b \in Restored(done) :
        b.key \in Keys /\ fingerprints[b.key] = NoPrint /\ b.print # NoPrint
  BY <1>1, <1>2 DEF Restored, EventRecord
<1>6. lost \in SUBSET Kept /\ back \cap Kept = {}
  BY <1>4, <1>5 DEF Kept
<1>7. Kept' = (Kept \ lost) \cup back
  <2> SUFFICES ASSUME NEW k \in Keys
               PROVE  fingerprints'[k] # NoPrint
                        <=> (fingerprints[k] # NoPrint /\ k \notin lost) \/ k \in back
    BY <1>5 DEF Kept
  <2>1. fingerprints'[k] =
          IF \E h \in forgotten : h.key = k THEN NoPrint
          ELSE IF \E e \in Restored(done) : e.key = k
               THEN (CHOOSE e \in Restored(done) : e.key = k).print
               ELSE fingerprints[k]
    BY <1>2 DEF Refingerprint
  <2>2. CASE k \in lost
    <3>1. fingerprints'[k] = NoPrint
      BY <2>1, <2>2
    <3>2. k \notin back
      BY <1>6, <2>2
    <3> QED BY <2>2, <3>1, <3>2
  <2>3. CASE k \notin lost /\ k \in back
    <3> DEFINE c == CHOOSE e \in Restored(done) : e.key = k
    <3>1. c \in Restored(done)
      BY <2>3
    <3>2. fingerprints'[k] = c.print
      BY <2>1, <2>3
    <3> HIDE DEF c
    <3> QED BY <1>5, <2>3, <3>1, <3>2
  <2>4. CASE k \notin lost /\ k \notin back
    BY <2>1, <2>4
  <2> QED BY <2>2, <2>3, <2>4
<1>8. /\ IsFiniteSet(lost) /\ Cardinality(lost) = Cardinality(forgotten)
      /\ IsFiniteSet(back) /\ Cardinality(back) = Cardinality(Restored(done))
  BY <1>3, KeysOfApart
<1>9. IsFiniteSet(Kept)
  BY DEF UnitsExact
<1> HIDE DEF lost, back
<1>10. /\ IsFiniteSet(Kept')
       /\ Cardinality(Kept') = Cardinality(Kept) - Cardinality(lost) + Cardinality(back)
  <2> DEFINE K == Kept
  <2>1. IsFiniteSet(K) /\ lost \in SUBSET K /\ back \cap K = {} /\ IsFiniteSet(back)
    BY <1>6, <1>8, <1>9
  <2> HIDE DEF K
  <2>2. /\ IsFiniteSet((K \ lost) \cup back)
        /\ Cardinality((K \ lost) \cup back) = Cardinality(K) - Cardinality(lost) + Cardinality(back)
    BY ONLY <2>1, SetChanges
  <2> QED BY <1>7, <2>2 DEF K
<1> QED BY <1>3, <1>8, <1>10, FS_CardinalityType

(* An Advance counts the holes, what left, what its ghosts took with them   *)
(* and the fingerprints it gave back or restored (prepareAdvance).          *)
LEMMA AdvanceUnits ==
  ASSUME LanesIInv, OnceIInv, UnitsExact, LanesIInv',
         NEW heads, NEW done, NEW first, NEW dead, AdvanceStep(heads, done, first, dead)
  PROVE  UnitsExact'
<1> USE LanesAssumption
<1> DEFINE lanes == LanesOf(dead)
           mid == Drained(heads, done)
           forgotten == Forgotten(DeferredBy(heads, lanes), Release(mid, lanes))
           R == HeldIn(records, Lanes)
           T == LeavesIn(heads)
           M == HolesIn(done)
           D == HeldIn(mid, Lanes)
           G == HeldIn(mid, lanes)
           H2 == HeldIn(records', Lanes)
<1>0. /\ LanesGood /\ records \in [Lanes -> SequenceRecord]
      /\ records' \in [Lanes -> SequenceRecord] /\ lanes \in SUBSET Lanes
  BY DEF LanesIInv, LanesGood, LanesOf
<1>1. IsFiniteSet(R)
  <2> HIDE DEF R
  <2> QED BY <1>0, HeldFinite DEF R
<1>2. T \in SUBSET R /\ M \cap R = {} /\ IsFiniteSet(M) /\ D = (R \ T) \cup M
  BY <1>0, DrainHolds
<1>3. G \in SUBSET D
  <2> SUFFICES ASSUME NEW p \in G PROVE p \in D
    OBVIOUS
  <2> HIDE DEF mid, lanes
  <2>1. PICK l \in lanes : \E x \in mid[l].buffered \cup mid[l].missing : p = <<l, x>>
    BY InHeld
  <2>2. PICK x \in mid[l].buffered \cup mid[l].missing : p = <<l, x>>
    BY <2>1
  <2> QED BY <1>0, <2>2, PairHeld
<1>4. H2 = D \ G
  <2>1. \A l \in Lanes :
          records'[l].buffered \cup records'[l].missing
            = IF l \in lanes THEN {} ELSE mid[l].buffered \cup mid[l].missing
    BY DEF AdvanceStep, Release, NoRecord
  <2> DEFINE recs2 == records'
  <2>2. \A l \in Lanes :
          recs2[l].buffered \cup recs2[l].missing
            = IF l \in lanes THEN {} ELSE mid[l].buffered \cup mid[l].missing
    BY <2>1
  <2> HIDE DEF mid, lanes, recs2
  <2>3. HeldIn(recs2, Lanes) = HeldIn(mid, Lanes) \ HeldIn(mid, lanes)
    BY ONLY <1>0, <2>2, ReleaseHolds
  <2> QED BY <2>3 DEF recs2
<1>5. historyUnits = Cardinality(Kept) + Cardinality(R)
  <2>1. Kept = {k \in Keys : fingerprints[k] # NoPrint}
    BY DEF Kept
  <2>2. HistoryIn(records, Lanes) = Cardinality(R)
    BY DEF HistoryIn, HeldIn
  <2> QED BY <2>1, <2>2 DEF UnitsExact, HistoryExact
<1>6. historyUnits' = historyUnits
        + (Cardinality(M) - Cardinality(T)
             + Cardinality(Restored(done)) - Cardinality(forgotten) - Cardinality(G))
  <2>1. historyUnits' = historyUnits + AdvanceDelta(heads, done, lanes, forgotten)
    BY DEF AdvanceStep
  <2>2. AdvanceDelta(heads, done, lanes, forgotten)
          = Cardinality(M) - Cardinality(T)
             + Cardinality(Restored(done)) - Cardinality(forgotten) - Cardinality(G)
    BY DEF AdvanceDelta, HistoryIn, HeldIn, LeavesIn, HolesIn
  <2> QED BY <2>1, <2>2
<1>7. /\ IsFiniteSet(Kept')
      /\ Cardinality(forgotten) \in Nat /\ Cardinality(Restored(done)) \in Nat
      /\ Cardinality(Kept') = Cardinality(Kept) - Cardinality(forgotten)
                                + Cardinality(Restored(done))
  BY AdvanceKeeps
<1>8. HistoryIn(records', Lanes) = Cardinality(H2)
  BY DEF HistoryIn, HeldIn
<1>9. Kept' = {k \in Keys : fingerprints'[k] # NoPrint} /\ Cardinality(Kept) \in Nat
  BY FS_CardinalityType DEF Kept, UnitsExact
<1> HIDE DEF R, T, M, D, G, H2, forgotten
<1>10. /\ IsFiniteSet(D) /\ Cardinality(D) = Cardinality(R) - Cardinality(T) + Cardinality(M)
  <2>1. /\ IsFiniteSet((R \ T) \cup M)
        /\ Cardinality((R \ T) \cup M) = Cardinality(R) - Cardinality(T) + Cardinality(M)
    BY ONLY <1>1, <1>2, SetChanges
  <2> QED BY <1>2, <2>1
<1>11. Cardinality(H2) = Cardinality(D) - Cardinality(G)
  <2>1. Cardinality(D \ G) = Cardinality(D) - Cardinality(D \cap G)
    BY <1>10, FS_Difference
  <2>2. D \cap G = G
    BY <1>3
  <2> QED BY <1>4, <2>1, <2>2
<1>12. IsFiniteSet(G) /\ IsFiniteSet(T)
  BY <1>1, <1>2, <1>3, <1>10, FS_Subset
<1>13. /\ Cardinality(R) \in Nat /\ Cardinality(T) \in Nat /\ Cardinality(M) \in Nat
       /\ Cardinality(D) \in Nat /\ Cardinality(G) \in Nat
  BY <1>1, <1>2, <1>10, <1>12, FS_CardinalityType
<1>14. historyUnits' = Cardinality(Kept') + Cardinality(H2)
  BY <1>5, <1>6, <1>7, <1>9, <1>10, <1>11, <1>13
<1> QED BY <1>7, <1>8, <1>9, <1>14 DEF UnitsExact, HistoryExact

(* Removing an expired ghost takes the units of its lanes.                  *)
LEMMA UnpinUnits ==
  ASSUME LanesIInv, UnitsExact, LanesIInv', NEW a \in Actors, Unpin(a)
  PROVE  UnitsExact'
<1> DEFINE lanes == LanesOf({a})
           G == HeldIn(records, lanes)
           R == HeldIn(records, Lanes)
           H2 == HeldIn(records', Lanes)
<1>0. /\ records \in [Lanes -> SequenceRecord] /\ lanes \in SUBSET Lanes
      /\ records' = Release(records, lanes) /\ fingerprints' = fingerprints
      /\ historyUnits' = historyUnits - HistoryIn(records, lanes)
  BY DEF LanesIInv, LanesGood, LanesOf, Unpin
<1>1. H2 = R \ G
  <2>1. \A l \in Lanes :
          records'[l].buffered \cup records'[l].missing
            = IF l \in lanes THEN {} ELSE records[l].buffered \cup records[l].missing
    BY <1>0 DEF Release, NoRecord
  <2> DEFINE recs2 == records'
  <2>2. \A l \in Lanes :
          recs2[l].buffered \cup recs2[l].missing
            = IF l \in lanes THEN {} ELSE records[l].buffered \cup records[l].missing
    BY <2>1
  <2> HIDE DEF lanes, recs2
  <2>3. HeldIn(recs2, Lanes) = HeldIn(records, Lanes) \ HeldIn(records, lanes)
    BY ONLY <1>0, <2>2, ReleaseHolds
  <2> QED BY <2>3 DEF recs2
<1>2. IsFiniteSet(R) /\ G \in SUBSET R
  <2> HIDE DEF lanes
  <2> QED BY <1>0, HeldFinite
<1>3. historyUnits = Cardinality(Kept) + Cardinality(R)
  BY DEF HistoryIn, HeldIn, UnitsExact, HistoryExact, Kept
<1>4. historyUnits' = historyUnits - Cardinality(G)
  BY <1>0 DEF HistoryIn, HeldIn
<1>5. HistoryIn(records', Lanes) = Cardinality(H2)
  BY DEF HistoryIn, HeldIn
<1>6. Kept' = {k \in Keys : fingerprints'[k] # NoPrint} /\ Kept' = Kept
      /\ IsFiniteSet(Kept) /\ Cardinality(Kept) \in Nat
  BY <1>0, FS_CardinalityType DEF Kept, UnitsExact
<1> HIDE DEF R, G, H2
<1>7. Cardinality(H2) = Cardinality(R) - Cardinality(G)
  <2>1. Cardinality(R \ G) = Cardinality(R) - Cardinality(R \cap G)
    BY <1>2, FS_Difference
  <2>2. R \cap G = G
    BY <1>2
  <2> QED BY <1>1, <2>1, <2>2
<1>8. Cardinality(R) \in Nat /\ Cardinality(G) \in Nat
  BY <1>2, FS_Subset, FS_CardinalityType
<1>9. historyUnits' = Cardinality(Kept') + Cardinality(H2)
  <2>1. Cardinality(Kept') = Cardinality(Kept)
    BY <1>6
  <2>2. historyUnits' = Cardinality(Kept) + Cardinality(H2)
    <3> DEFINE k == Cardinality(Kept)
    <3>1. k \in Nat /\ historyUnits = k + Cardinality(R)
      BY <1>3, <1>6
    <3> HIDE DEF k
    <3>2. historyUnits' = k + Cardinality(H2)
      BY <1>4, <1>7, <1>8, <3>1
    <3> QED BY <3>2 DEF k
  <2> QED BY <2>1, <2>2
<1> QED BY <1>5, <1>6, <1>9 DEF UnitsExact, HistoryExact

(* Every step leaves the units exact.                                       *)
LEMMA UnitsStay ==
  ASSUME LanesIInv, OnceIInv, UnitsExact, LanesIInv', StepKind
  PROVE  UnitsExact'
<1>1. CASE QuietStep
  BY <1>1 DEF QuietStep, Unchanged, UnitsExact, Kept, HistoryExact, HistoryIn
<1> QED BY <1>1, OpenUnits, UnsequencedUnits, LateUnits, EarlyUnits, NextUnits, AdvanceUnits,
           UnpinUnits DEF StepKind

-----------------------------------------------------------------------------
(* The lanes are in order.                                                  *)

HistoryIInv ==
  /\ LanesIInv /\ OnceIInv /\ UnitsExact
  /\ \A l \in Lanes : LaneReasoned(records[l], clock)
  /\ CountsMissing(sequenceGap, records)

(* A Reconciler that has seen nothing is in order.                          *)
LEMMA HistoryInitially == LanesInit => HistoryIInv
<1> USE LanesAssumption
<1> SUFFICES ASSUME LanesInit PROVE HistoryIInv
  OBVIOUS
<1>1. /\ LanesIInv /\ records = [l \in Lanes |-> NoRecord]
      /\ fingerprints = [k \in Keys |-> NoPrint] /\ historyUnits = 0
      /\ sequenceGap = [s \in Sources |-> NoGap] /\ retired = {}
      /\ effects = [i \in Identities |-> 0]
      /\ NoRecord.buffered = {} /\ NoRecord.missing = {}
  BY InitGood DEF LanesInit, NoRecord
<1>2. Buffered = {}
  BY <1>1 DEF Buffered
<1>3. OnceIInv
  <2>1. \A e \in Events : Identity(e) \in Identities
    BY DEF EventRecord, Identity, Identities
  <2> QED BY <1>1, <1>2, <2>1 DEF OnceIInv, ApartKeys, RetiredClosed, EffectOnce
<1>4. UnitsExact
  <2>1. Kept = {}
    BY <1>1 DEF Kept
  <2>2. HeldIn(records, Lanes) = {}
    BY <1>1, InHeld
  <2>3. IsFiniteSet({}) /\ Cardinality({}) = 0
    BY FS_EmptySet
  <2>4. {k \in Keys : fingerprints[k] # NoPrint} = {} /\ HistoryIn(records, Lanes) = 0
    BY <2>1, <2>2, <2>3 DEF Kept, HistoryIn, HeldIn
  <2>5. historyUnits = 0 + 0
    BY <1>1
  <2> QED BY <2>1, <2>3, <2>4, <2>5 DEF UnitsExact, HistoryExact
<1>5. \A l \in Lanes : LaneReasoned(records[l], clock)
  BY <1>1 DEF LaneReasoned
<1>6. CountsMissing(sequenceGap, records)
  <2> SUFFICES ASSUME NEW s \in Sources
               PROVE  sequenceGap[s].count >= Min({CountCeiling, Cardinality(MissingAt(records, s))})
    BY DEF CountsMissing
  <2>1. ~SourceMissing(records, s)
    BY <1>1 DEF SourceMissing
  <2>2. Cardinality(MissingAt(records, s)) = 0
    BY <2>1, NothingMissing
  <2>3. Min({CountCeiling, 0}) = 0
    BY MinOfTwo
  <2>4. sequenceGap[s].count = 0
    BY <1>1 DEF NoGap
  <2> QED BY <2>2, <2>3, <2>4
<1> QED BY <1>1, <1>3, <1>4, <1>5, <1>6 DEF HistoryIInv

(* Every step keeps the history invariant.                                  *)
LEMMA HistoryStays ==
  ASSUME HistoryIInv, [LanesNext]_laneVars
  PROVE  HistoryIInv'
<1>1. LanesIInv /\ OnceIInv /\ UnitsExact
      /\ (\A l \in Lanes : LaneReasoned(records[l], clock))
      /\ CountsMissing(sequenceGap, records)
  BY DEF HistoryIInv
<1>2. StepKind
  BY <1>1, StepKinds
<1>3. LanesIInv'
  BY <1>1, StepGood
<1>4. OnceIInv'
  BY <1>1, <1>2, OnceStays
<1>5. UnitsExact'
  BY <1>1, <1>2, <1>3, UnitsStay
<1>6. \A l \in Lanes : LaneReasoned(records'[l], clock')
  BY <1>1, <1>2, ReasonsStay
<1>7. CountsMissing(sequenceGap', records')
  BY <1>1, <1>2, CountsStay
<1>8. /\ (\A l \in Lanes : LaneReasoned(records[l], clock))'
      /\ CountsMissing(sequenceGap, records)'
  BY <1>6, <1>7 DEF LaneReasoned, CountsMissing, MissingAt
<1> QED BY <1>3, <1>4, <1>5, <1>8 DEF HistoryIInv

(* The history invariant holds at any time.                                 *)
LEMMA HistoryAlwaysGood == LanesSpec => []HistoryIInv
<1>1. LanesInit => HistoryIInv
  BY HistoryInitially
<1>2. HistoryIInv /\ [LanesNext]_laneVars => HistoryIInv'
  BY HistoryStays
<1> QED BY <1>1, <1>2, PTL DEF LanesSpec

(* The lanes are in order: the units of history are exactly what the lanes  *)
(* and the replay table hold, the count of a gap row is never below what is *)
(* missing, whatever waits has a deadline and a reason, and every event     *)
(* takes effect at most once (stageProtocolEvent, prepareAdvance).          *)
THEOREM LanesAlwaysInOrder == LanesSpec => []LanesInOrder
<1>1. HistoryIInv => ReadyHasReason
  <2> SUFFICES ASSUME HistoryIInv, NEW l \in Lanes, NEW b \in records[l].buffered,
                      records[l].regime = "ordered", b.seq = records[l].next
               PROVE  \/ \E c \in records[l].buffered : c.seq < records[l].next
                      \/ l \in DueLanes
    BY DEF ReadyHasReason
  <2>1. LaneReasoned(records[l], clock)
    BY DEF HistoryIInv
  <2> QED BY <2>1 DEF LaneReasoned, DueLanes
<1>2. HistoryIInv => GapCountsMissing
  BY DEF HistoryIInv, CountsMissing, MissingAt, GapCountsMissing
<1>3. HistoryIInv => HistoryExact /\ EffectOnce
  BY DEF HistoryIInv, UnitsExact, OnceIInv
<1> QED BY <1>1, <1>2, <1>3, HistoryAlwaysGood, LanesTypeCorrect, WaitingAlwaysHasDeadline, PTL
        DEF LanesInOrder

=============================================================================
