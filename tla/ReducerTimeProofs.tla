-------------------------- MODULE ReducerTimeProofs --------------------------
(***************************************************************************)
(* Proofs about Reducer and time: what an actor is shown as is what its    *)
(* evidence says by the clock of the last step, and approvals end alone.   *)
(*                                                                         *)
(* Timely says of one actor that nothing of it ran out behind the cursor:  *)
(* a lane, an approval or a state that does has a deadline that is still   *)
(* to come. Every operator that changes an actor leads from a timely actor *)
(* to a timely one, and an Advance reaches every actor that is due.        *)
(* Alone says why an actor may ask for less than before.                   *)
(***************************************************************************)
EXTENDS ReducerProofs

-----------------------------------------------------------------------------
(* Evidence in time.                                                        *)

(* A fold at a later time is the same if nothing becomes due in between.    *)
LEMMA FoldsAlike ==
  ASSUME NEW s, FiledStates(s), NEW q, FiledApprovals(q), NEW h, FiledHealth(h),
         NEW f \in Nat, NEW g \in Nat, f <= g,
         \A e \in ToSet(s) : e.until <= f \/ e.until > g,
         \A x \in h : x.last + HookFreshness > g
  PROVE  FoldState(s, q, h, f) = FoldState(s, q, h, g)
<1>1. ToSet(s) \subseteq StateRecords
  BY MembersIn DEF FiledStates
<1>2. ASSUME NEW x PROVE Fresh(h, x, f) = Fresh(h, x, g)
  <2>1. \A y \in h : y.last + HookFreshness \in Nat
    BY EvidenceAssumption DEF FiledHealth
  <2>2. \A y \in h : f < y.last + HookFreshness /\ g < y.last + HookFreshness
    <3> SUFFICES ASSUME NEW y \in h
                 PROVE  f < y.last + HookFreshness /\ g < y.last + HookFreshness
      OBVIOUS
    <3> DEFINE d == y.last + HookFreshness
    <3>1. d \in Nat /\ d > g
      BY <2>1
    <3> HIDE DEF d
    <3>2. f < d /\ g < d
      BY ONLY <3>1, f \in Nat, g \in Nat, f <= g
    <3> QED BY <3>2 DEF d
  <2> QED BY <2>2 DEF Fresh
<1>3. ASSUME NEW e \in ToSet(s) PROVE CountsAt(e, h, f) = CountsAt(e, h, g)
  <2> DEFINE d == e.until
  <2>1. d \in Nat /\ (d <= f \/ d > g)
    BY <1>1 DEF StateRecords
  <2> HIDE DEF d
  <2>2. (d = 0 \/ f < d) <=> (d = 0 \/ g < d)
    BY ONLY <2>1, f \in Nat, g \in Nat, f <= g
  <2>3. Current(e, f) <=> Current(e, g)
    BY <2>2 DEF Current, d
  <2>4. Fresh(h, e.source, f) = Fresh(h, e.source, g)
    BY <1>2
  <2> QED BY <2>3, <2>4 DEF CountsAt
<1>4. {e \in ToSet(s) : CountsAt(e, h, f)} = {e \in ToSet(s) : CountsAt(e, h, g)}
  BY <1>3
<1>5. {e \in ToSet(q) : Fresh(h, e.source, f)} = {e \in ToSet(q) : Fresh(h, e.source, g)}
  <2>1. \A e \in ToSet(q) : Fresh(h, e.source, f) = Fresh(h, e.source, g)
    BY <1>2
  <2> QED BY <2>1
<1> DEFINE S(x) == {e \in ToSet(s) : CountsAt(e, h, x)}
           Q(x) == {e \in ToSet(q) : Fresh(h, e.source, x)}
<1>6. S(f) = S(g) /\ Q(f) = Q(g)
  BY <1>4, <1>5
<1> DEFINE Of(A, B) ==
             LET best == Strongest(Among(s, A))
                 asked == Among(q, B)
             IN IF Terminal(best.value) \/ asked = <<>> THEN best
                ELSE Strongest([i \in DOMAIN asked |-> asked[i].evidence])
<1>7. FoldState(s, q, h, f) = Of(S(f), Q(f)) /\ FoldState(s, q, h, g) = Of(S(g), Q(g))
  BY DEF FoldState
<1> HIDE DEF S, Q, Of
<1> QED BY <1>6, <1>7

(* What it means that a poll never sent its heartbeat.                      *)
Unmatched(q, h) == \A c \in ToSet(q) : \A x \in h : x.source # HealthKey(c.source)

LEMMA MissingMeans ==
  ASSUME NEW q, FiledProofs(q), NEW h
  PROVE  LET m == MissingHealthDeadline(q, h) IN
         /\ m # 0 <=> OnlyNative(q) /\ Polled(q) # {} /\ Unmatched(q, h)
         /\ m # 0 => \E c \in Polled(q) : m = c.at + HookFreshness
         /\ m # 0 => \A c \in Polled(q) : m <= c.at + HookFreshness
<1> DEFINE D == {c.at + HookFreshness : c \in Polled(q)}
           m == MissingHealthDeadline(q, h)
           given == OnlyNative(q) /\ Polled(q) # {} /\ Unmatched(q, h)
<1>1. \A c \in Polled(q) : c.at + HookFreshness \in Nat \ {0}
  <2>1. ToSet(q) \subseteq ProofRecords
    BY MembersIn DEF FiledProofs
  <2>2. \A c \in Polled(q) : c.at \in Nat
    BY <2>1 DEF Polled, ProofRecords
  <2> QED BY <2>2, EvidenceAssumption
<1>2. m = IF given THEN Min(D) ELSE 0
  BY DEF MissingHealthDeadline, Unmatched
<1>3. given => D # {} /\ D \subseteq Nat
  BY <1>1
<1>4. given => Min(D) \in D /\ \A x \in D : Min(D) <= x
  <2> HIDE DEF D, given
  <2> QED BY <1>3, EarliestIs
<1> HIDE DEF m, given
<1>5. given => m \in D /\ \A x \in D : m <= x
  BY <1>2, <1>4
<1>6. given => m # 0
  BY <1>1, <1>5
<1>7. ~given => m = 0
  BY <1>2
<1> QED BY <1>5, <1>6, <1>7 DEF m, given

LEMMA MissingUnheard ==
  ASSUME NEW q, FiledProofs(q), NEW h, MissingHealthDeadline(q, h) # 0, NEW now
  PROVE  UnheardOf(q, h, now)
<1>1. OnlyNative(q) /\ Unmatched(q, h)
  BY MissingMeans
<1> QED BY <1>1 DEF UnheardOf, Unmatched, Fresh

(* Of lanes that are only more, no new deadline follows.                    *)
LEMMA MissingLess ==
  ASSUME NEW q, FiledProofs(q), NEW h, NEW k,
         \A x \in h : \E y \in k : y.source = x.source,
         MissingHealthDeadline(q, k) # 0
  PROVE  MissingHealthDeadline(q, k) = MissingHealthDeadline(q, h)
<1>1. OnlyNative(q) /\ Polled(q) # {} /\ Unmatched(q, k)
  BY MissingMeans
<1>2. Unmatched(q, h)
  BY <1>1 DEF Unmatched
<1> QED BY <1>1, <1>2 DEF MissingHealthDeadline, Unmatched

(* A source states the identity anew: the deadline is still after b.        *)
LEMMA MissingStated ==
  ASSUME NEW q, FiledProofs(q), NEW r, FiledProofs(r), NEW c \in ProofRecords,
         ToSet(r) = (ToSet(q) \ Own(q, c)) \cup {c}, NEW h, NEW b \in Nat,
         c.at + HookFreshness > b,
         MissingHealthDeadline(q, h) # 0 => MissingHealthDeadline(q, h) > b,
         MissingHealthDeadline(r, h) # 0
  PROVE  MissingHealthDeadline(r, h) > b
<1> DEFINE m == MissingHealthDeadline(r, h)
           n == MissingHealthDeadline(q, h)
<1>1. /\ OnlyNative(r) /\ Unmatched(r, h)
      /\ \E x \in Polled(r) : m = x.at + HookFreshness
  BY MissingMeans
<1>2. PICK x \in Polled(r) : m = x.at + HookFreshness
  BY <1>1
<1>3. CASE x = c
  BY <1>2, <1>3
<1>4. CASE x # c
  <2>1. x \in ToSet(q) /\ x \in Polled(q)
    BY <1>4 DEF Polled
  <2>2. q # <<>>
    BY <2>1, NoRows
  <2>3. \A y \in ToSet(q) : \E z \in ToSet(r) : z.source = y.source
    BY DEF Own
  <2>4. OnlyNative(q)
    BY <1>1, <2>2, <2>3 DEF OnlyNative
  <2>5. Unmatched(q, h)
    BY <1>1, <2>3 DEF Unmatched
  <2>6. n # 0 /\ n <= x.at + HookFreshness
    BY <2>1, <2>4, <2>5, MissingMeans
  <2>7. n \in Nat /\ m \in Nat
    BY MissingIs
  <2> HIDE DEF n, m
  <2>8. n > b /\ n <= m
    BY <1>2, <2>6 DEF n, m
  <2> QED BY ONLY <2>7, <2>8, b \in Nat DEF m
<1> QED BY <1>3, <1>4

-----------------------------------------------------------------------------
(* Actors in time: the invariant.                                           *)

Bare(t, a) ==
  /\ t.proofs[a] = <<>> /\ t.states[a] = <<>> /\ t.approvals[a] = <<>> /\ t.health[a] = {}

Missing(t, a) == MissingHealthDeadline(t.proofs[a], t.health[a])

(* What is shown as stale has reason to be, and an end has a ghost.         *)
Fitting(t, a) ==
  LET n == t.nodes[a] IN
  /\ n.stale \in BOOLEAN /\ n.ghostAt \in Nat
  /\ n.stale => ~Terminal(n.state.value) /\ OnlyNative(t.proofs[a])
  /\ Terminal(n.state.value) => n.ghostAt # 0

(* No lane becomes overdue at a time the cursor has passed.                 *)
LanesAhead(t, a, c) == \A h \in t.health[a] : h.last + HookFreshness > c

(* The state is the one folded at some time f, since when no evidence has   *)
(* run out that the cursor has passed.                                      *)
FoldedBy(t, a, c, now) ==
  \E f \in 0..now :
    /\ t.nodes[a].state = Shown(FoldState(t.states[a], t.approvals[a], t.health[a], f))
    /\ \A e \in ToSet(t.states[a]) : e.until <= f \/ e.until > c

(* A poll that never sent its heartbeat is still waited for.                *)
PollAhead(t, a, c) ==
  t.nodes[a].ghostAt = 0 /\ ~t.nodes[a].stale /\ Missing(t, a) # 0 => Missing(t, a) > c

Timely(t, a, c, now) ==
  IF Present(t, a)
  THEN Fitting(t, a) /\ LanesAhead(t, a, c) /\ FoldedBy(t, a, c, now) /\ PollAhead(t, a, c)
  ELSE Bare(t, a)

InTime(t, c, now) == \A a \in Actors : Timely(t, a, c, now)

(* Nothing these are about changes.                                         *)
TimeFields == {"proofs", "states", "approvals", "health"}
Alike(t, u, a) ==
  /\ \A f \in TimeFields : u[f][a] = t[f][a]
  /\ Present(u, a) <=> Present(t, a)
  /\ Present(t, a) => /\ u.nodes[a].state = t.nodes[a].state
                      /\ u.nodes[a].stale = t.nodes[a].stale
                      /\ u.nodes[a].ghostAt = t.nodes[a].ghostAt

LEMMA AlikeTimely ==
  ASSUME NEW t, NEW u, NEW a, NEW c, NEW now, Timely(t, a, c, now), Alike(t, u, a)
  PROVE  Timely(u, a, c, now)
<1>1. /\ u.proofs[a] = t.proofs[a] /\ u.states[a] = t.states[a]
      /\ u.approvals[a] = t.approvals[a] /\ u.health[a] = t.health[a]
  BY DEF Alike, TimeFields
<1>2. CASE Present(t, a)
  <2>1. /\ Present(u, a) /\ u.nodes[a].state = t.nodes[a].state
        /\ u.nodes[a].stale = t.nodes[a].stale /\ u.nodes[a].ghostAt = t.nodes[a].ghostAt
    BY <1>2 DEF Alike
  <2>2. Fitting(t, a) /\ LanesAhead(t, a, c) /\ FoldedBy(t, a, c, now) /\ PollAhead(t, a, c)
    BY <1>2 DEF Timely
  <2>3. Fitting(u, a)
    BY <1>1, <2>1, <2>2 DEF Fitting
  <2>4. LanesAhead(u, a, c)
    BY <1>1, <2>2 DEF LanesAhead
  <2>5. FoldedBy(u, a, c, now)
    BY <1>1, <2>1, <2>2 DEF FoldedBy
  <2>6. PollAhead(u, a, c)
    BY <1>1, <2>1, <2>2 DEF PollAhead, Missing
  <2> QED BY <2>1, <2>3, <2>4, <2>5, <2>6 DEF Timely
<1>3. CASE ~Present(t, a)
  BY <1>1, <1>3 DEF Alike, Timely, Bare
<1> QED BY <1>2, <1>3

LEMMA AlikeAgain ==
  ASSUME NEW t, NEW u, NEW v, NEW a, Alike(t, u, a), Alike(u, v, a)
  PROVE  Alike(t, v, a)
BY DEF Alike

LEMMA AlikeInTime ==
  ASSUME NEW t, NEW u, NEW c, NEW now, InTime(t, c, now), \A a \in Actors : Alike(t, u, a)
  PROVE  InTime(u, c, now)
BY AlikeTimely DEF InTime

(* Owners whose nodes and rows are those of before.                         *)
LEMMA AlikeRows ==
  ASSUME NEW t, NEW u, NEW a, u.nodes[a] = t.nodes[a],
         \A f \in TimeFields : u[f][a] = t[f][a]
  PROVE  Alike(t, u, a)
BY DEF Alike, Present

LEMMA AlikeElsewhere ==
  ASSUME NEW t, NEW u, NEW a, Edited(t, u, a), NEW b \in Actors \ {a}
  PROVE  Alike(t, u, b)
<1>1. u.nodes = t.nodes
  BY DEF Edited, StillFields
<1>2. \A f \in TimeFields : u[f][b] = t[f][b]
  BY DEF Edited, EvidenceFields, TimeFields
<1> QED BY <1>1, <1>2, AlikeRows

(* Without an actor a clock that runs, and one that stands.                 *)
LEMMA InTimeLater ==
  ASSUME NEW t, NEW c, NEW now \in Nat, InTime(t, c, now)
  PROVE  InTime(t, c, now + 1)
<1> SUFFICES ASSUME NEW a \in Actors PROVE Timely(t, a, c, now + 1)
  BY DEF InTime
<1>1. Timely(t, a, c, now)
  BY DEF InTime
<1>2. 0..now \subseteq 0..(now + 1)
  OBVIOUS
<1>3. FoldedBy(t, a, c, now) => FoldedBy(t, a, c, now + 1)
  BY <1>2 DEF FoldedBy
<1> QED BY <1>1, <1>3 DEF Timely

-----------------------------------------------------------------------------
(* What a fold leaves.                                                      *)

(* The times of a state and of its ghost.                                   *)
LEMMA WithStateTimes ==
  ASSUME NEW n, IsNode(n), NEW w
  PROVE  LET m == WithState(n, w) IN
         /\ IsNode(m) /\ m.inc = n.inc /\ m.state = Shown(w)
         /\ m.stale = (n.stale /\ ~Terminal(w.value))
         /\ m.ghostAt = IF Terminal(w.value) THEN w.at + GhostTTL(w.value) ELSE n.ghostAt
<1> DEFINE m == WithState(n, w)
           ids == IF w = NoEvidence THEN {} ELSE {w.source.id}
           S == IF w.via = "state" THEN ids ELSE {}
           X == IF w.via = "terminal" THEN ids ELSE {}
           b == n.stale /\ ~Terminal(w.value)
           sh == Shown(w)
           k == [n EXCEPT !.state = sh, !.stale = b, !.stateSources = S, !.terminalSources = X]
           C == IF w.value = "completed" THEN w.at ELSE 0
           F == IF w.value = "failed" THEN w.at ELSE 0
           G == w.at + GhostTTL(w.value)
           l == [k EXCEPT !.completedAt = C, !.failedAt = F, !.ghostAt = G]
<1>1. IsNode(m) /\ m.inc = n.inc /\ m.state = Shown(w)
  BY WithStateIs
<1>2. m = IF ~Terminal(w.value) THEN k ELSE l
  BY DEF WithState, TerminalMetadata
<1> HIDE DEF b, S, X, sh, C, F, G
<1>3. k.stale = b /\ k.ghostAt = n.ghostAt /\ IsNode(k)
  BY DEF IsNode, NodeFields
<1> HIDE DEF k
<1>4. l.stale = b /\ l.ghostAt = G
  BY <1>3 DEF IsNode, NodeFields
<1> HIDE DEF l, m
<1>5. /\ m.stale = b /\ m.ghostAt = IF Terminal(w.value) THEN G ELSE n.ghostAt
  BY <1>2, <1>3, <1>4
<1> QED BY <1>1, <1>5 DEF m, b, G

LEMMA MarkTimes ==
  ASSUME NEW n, IsNode(n), NEW p
  PROVE  LET m == [n EXCEPT !.partial = p] IN
         m.ghostAt = n.ghostAt /\ m.stale = n.stale /\ m.state = n.state
BY DEF IsNode, NodeFields

(* The rows and the other nodes are what they were.                         *)
LEMMA ProjectTimes ==
  ASSUME NEW t, IsOwners(t), NEW a \in Actors, NEW now, NEW w, NEW after, IsNode(after)
  PROVE  LET u == ProjectAs(t, a, now, w, after) IN
         /\ IsOwners(u) /\ Present(u, a)
         /\ \A f \in TimeFields : u[f] = t[f]
         /\ \A b \in Actors \ {a} : u.nodes[b] = t.nodes[b]
         /\ u.nodes[a].state = after.state /\ u.nodes[a].stale = after.stale
         /\ u.nodes[a].ghostAt = after.ghostAt
         /\ u.error \in {t.error, "transition-time"}
<1> DEFINE moves == after.state # t.nodes[a].state
           value == w.value
           l == Logged(t, a, now, value, moves)
           v == WithNode(l, a, after)
           g == GhostEdges(v, a, after.inc)
           u == ProjectAs(t, a, now, w, after)
           m == [after EXCEPT !.partial = NodePartial(after, l.gaps)]
<1>1. u \in {v, g}
  BY DEF ProjectAs
<1> HIDE DEF moves, value
<1>2. IsOwners(l) /\ l.nodes = t.nodes
  BY LoggedAside DEF Aside, SharedFields
<1>3. l.error \in {t.error, "transition-time"} /\ \A f \in TimeFields : l[f] = t[f]
  <2>1. \/ l = t \/ l = Failed(t, "transition-time")
        \/ \E x : l = [t EXCEPT !.transitions[a] = x]
    BY DEF Logged
  <2> HIDE DEF l
  <2> QED BY <2>1 DEF Failed, IsOwners, OwnerFields, TimeFields
<1> HIDE DEF l
<1>4. /\ IsOwners(v) /\ v.nodes[a] = m /\ \A b \in Actors \ {a} : v.nodes[b] = l.nodes[b]
      /\ \A f \in OwnerFields \ {"nodes"} : v[f] = l[f]
  BY <1>2, WithNodeDoes
<1>5. IsOwners(g) /\ \A f \in OwnerFields \ {"edges"} : g[f] = v[f]
  BY <1>4, GhostEdgesDoes
<1>6. IsNode(m) /\ m.ghostAt = after.ghostAt /\ m.stale = after.stale /\ m.state = after.state
  BY MarkIs, MarkTimes
<1> HIDE DEF v, g, u, m
<1>7. IsOwners(u) /\ u.nodes = v.nodes /\ u.error = v.error /\ \A f \in TimeFields : u[f] = v[f]
  BY <1>1, <1>4, <1>5 DEF OwnerFields, TimeFields
<1>8. v.error = l.error /\ \A f \in TimeFields : v[f] = l[f]
  BY <1>4 DEF OwnerFields, TimeFields
<1>9. Present(u, a)
  BY <1>4, <1>6, <1>7, NodeShows DEF Present
<1>10. \A b \in Actors \ {a} : u.nodes[b] = t.nodes[b]
  BY <1>2, <1>4, <1>7
<1>11. u.nodes[a] = m
  BY <1>4, <1>7
<1>12. u.error \in {t.error, "transition-time"} /\ \A f \in TimeFields : u[f] = t[f]
  BY <1>3, <1>7, <1>8
<1> QED BY <1>6, <1>7, <1>9, <1>10, <1>11, <1>12 DEF u

(* stageStateProjection.                                                    *)
Projected(t, u, a, w) ==
  /\ IsOwners(u) /\ Present(u, a) /\ \A f \in TimeFields : u[f] = t[f]
  /\ \A b \in Actors \ {a} : u.nodes[b] = t.nodes[b]
  /\ u.nodes[a].state = Shown(w)
  /\ u.nodes[a].stale = (t.nodes[a].stale /\ ~Terminal(w.value))
  /\ u.nodes[a].ghostAt = IF Terminal(w.value) THEN w.at + GhostTTL(w.value)
                          ELSE t.nodes[a].ghostAt
  /\ u.error \in {t.error, "transition-time"}

LEMMA ProjectionTimes ==
  ASSUME NEW t, IsOwners(t), NEW a \in Actors, Present(t, a), NEW now
  PROVE  Projected(t, StateProjection(t, a, now), a,
                   FoldState(t.states[a], t.approvals[a], t.health[a], now))
<1> DEFINE w == FoldState(t.states[a], t.approvals[a], t.health[a], now)
           n == t.nodes[a]
           after == WithState(n, w)
           u == ProjectAs(t, a, now, w, after)
<1>1. StateProjection(t, a, now) = u
  BY DEF StateProjection, ProjectTo
<1>2. IsNode(n)
  BY PresentIsNode
<1> HIDE DEF w, n
<1>3. /\ IsNode(after) /\ after.inc = n.inc /\ after.state = Shown(w)
      /\ after.stale = (n.stale /\ ~Terminal(w.value))
      /\ after.ghostAt = IF Terminal(w.value) THEN w.at + GhostTTL(w.value) ELSE n.ghostAt
  BY <1>2, WithStateTimes
<1> HIDE DEF after
<1>4. /\ IsOwners(u) /\ Present(u, a)
      /\ \A f \in TimeFields : u[f] = t[f]
      /\ \A b \in Actors \ {a} : u.nodes[b] = t.nodes[b]
      /\ u.nodes[a].state = after.state /\ u.nodes[a].stale = after.stale
      /\ u.nodes[a].ghostAt = after.ghostAt
      /\ u.error \in {t.error, "transition-time"}
  BY <1>3, ProjectTimes
<1> HIDE DEF u
<1>5. Projected(t, u, a, w)
  BY <1>3, <1>4 DEF Projected, n
<1> QED BY <1>1, <1>5 DEF w

-----------------------------------------------------------------------------
(* An actor whose rows have changed is folded again.                        *)

(* What has to stand for the fold to bring the actor in time.               *)
Sustained(t, a, c) ==
  LET n == t.nodes[a] IN
  /\ n.stale \in BOOLEAN /\ n.ghostAt \in Nat
  /\ n.stale => OnlyNative(t.proofs[a])
  /\ LanesAhead(t, a, c)
Standing(t, a, c) == Sustained(t, a, c) /\ PollAhead(t, a, c)

LEMMA RefoldedFits ==
  ASSUME NEW t, IsOwners(t), NEW a \in Actors, Present(t, a), FiledActor(t, a),
         NEW c \in Nat, NEW now \in Nat, c <= now, Sustained(t, a, c)
  PROVE  LET u == StateProjection(t, a, now)
             w == FoldState(t.states[a], t.approvals[a], t.health[a], now)
         IN /\ Projected(t, u, a, w) /\ Fitting(u, a) /\ LanesAhead(u, a, c)
            /\ FoldedBy(u, a, c, now)
<1> DEFINE w == FoldState(t.states[a], t.approvals[a], t.health[a], now)
           u == StateProjection(t, a, now)
           n == t.nodes[a]
           G == w.at + GhostTTL(w.value)
<1>1. Projected(t, u, a, w)
  BY ProjectionTimes
<1>2. FiledStates(t.states[a]) /\ FiledApprovals(t.approvals[a])
  BY DEF FiledActor
<1>3. w \in Judged
  BY <1>2, FoldStateIs
<1> HIDE DEF u
<1>4. /\ u.proofs[a] = t.proofs[a] /\ u.states[a] = t.states[a]
      /\ u.approvals[a] = t.approvals[a] /\ u.health[a] = t.health[a]
  BY <1>1 DEF Projected, TimeFields
<1>5. u.nodes[a].state = Shown(FoldState(u.states[a], u.approvals[a], u.health[a], now))
  BY <1>1, <1>4 DEF Projected
<1> HIDE DEF w
<1>6. /\ Present(u, a) /\ u.nodes[a].state = Shown(w)
      /\ u.nodes[a].stale = (n.stale /\ ~Terminal(w.value))
      /\ u.nodes[a].ghostAt = IF Terminal(w.value) THEN G ELSE n.ghostAt
  BY <1>1 DEF Projected
<1>7. u.nodes[a].state.value = w.value
  BY <1>6 DEF Shown
<1>8. Terminal(w.value) => G \in Nat /\ G # 0
  <2> SUFFICES ASSUME Terminal(w.value) PROVE G \in Nat /\ G # 0
    OBVIOUS
  <2>1. w # NoEvidence
    <3>1. ~Terminal(NoEvidence.value)
      BY DEF NoEvidence, Evidence, Terminal
    <3> QED BY <3>1
  <2>2. w.at \in Nat
    BY <1>3, <2>1 DEF Judged, StateRecords
  <2>3. GhostTTL(w.value) \in Nat \ {0}
    BY EvidenceAssumption DEF GhostTTL
  <2> QED BY <2>2, <2>3
<1> HIDE DEF G
<1>9. n.stale \in BOOLEAN /\ n.ghostAt \in Nat /\ (n.stale => OnlyNative(t.proofs[a]))
  BY DEF Sustained
<1>10. Fitting(u, a)
  BY <1>4, <1>6, <1>7, <1>8, <1>9 DEF Fitting
<1>11. LanesAhead(u, a, c)
  BY <1>4 DEF Sustained, LanesAhead
<1>12. FoldedBy(u, a, c, now)
  <2>1. \A e \in ToSet(u.states[a]) : e.until <= now \/ e.until > c
    <3> SUFFICES ASSUME NEW e \in ToSet(u.states[a]) PROVE e.until <= now \/ e.until > c
      OBVIOUS
    <3>1. ToSet(t.states[a]) \subseteq StateRecords
      BY <1>2, MembersIn DEF FiledStates
    <3>2. e \in ToSet(t.states[a])
      BY <1>4
    <3>3. e.until \in Nat
      BY <3>1, <3>2 DEF StateRecords
    <3> QED BY <3>3
  <2>2. now \in 0..now
    OBVIOUS
  <2> QED BY <1>5, <2>1, <2>2 DEF FoldedBy
<1> QED BY <1>1, <1>10, <1>11, <1>12 DEF u, w

LEMMA RefoldedTimely ==
  ASSUME NEW t, IsOwners(t), NEW a \in Actors, Present(t, a), FiledActor(t, a),
         NEW c \in Nat, NEW now \in Nat, c <= now, Standing(t, a, c)
  PROVE  Timely(StateProjection(t, a, now), a, c, now)
<1> DEFINE w == FoldState(t.states[a], t.approvals[a], t.health[a], now)
           u == StateProjection(t, a, now)
           n == t.nodes[a]
<1>1. /\ Projected(t, u, a, w) /\ Fitting(u, a) /\ LanesAhead(u, a, c)
      /\ FoldedBy(u, a, c, now)
  BY RefoldedFits DEF Standing
<1> HIDE DEF u, w
<1>2. PollAhead(u, a, c)
  <2>1. PollAhead(t, a, c) /\ n.stale \in BOOLEAN
    BY DEF Standing, Sustained
  <2>2. Missing(u, a) = Missing(t, a)
    BY <1>1 DEF Missing, Projected, TimeFields
  <2>3. u.nodes[a].ghostAt = 0 => ~Terminal(w.value)
    BY <1>1 DEF Projected, Fitting, Shown
  <2>4. u.nodes[a].ghostAt = 0 /\ ~u.nodes[a].stale => n.ghostAt = 0 /\ ~n.stale
    BY <1>1, <2>3 DEF Projected
  <2> QED BY <2>1, <2>2, <2>4 DEF PollAhead
<1> QED BY <1>1, <1>2 DEF Projected, Timely, u

(* The other actors are left alone.                                         *)
LEMMA RefoldedInTime ==
  ASSUME NEW t, Well(t), NEW a \in Actors, NEW c \in Nat, NEW now \in Nat, c <= now,
         InTime(t, c, now), NEW x, Redone(t, x, a), Present(t, a) => Standing(x, a, c)
  PROVE  LET u == StateProjection(x, a, now) IN u.error = "" => InTime(u, c, now)
<1> DEFINE u == StateProjection(x, a, now)
           w == FoldState(x.states[a], x.approvals[a], x.health[a], now)
<1>1. Well(x)
  BY RedoneWell
<1>2. x.nodes = t.nodes /\ Edited(t, x, a)
  BY DEF Redone, Refiled, Edited, StillFields
<1>3. IsOwners(x) /\ FiledActor(x, a)
  BY <1>1, WellHistory DEF Filed
<1> SUFFICES ASSUME u.error = "" PROVE InTime(u, c, now)
  OBVIOUS
<1>4. Present(x, a)
  <2> SUFFICES ASSUME ~Present(x, a) PROVE FALSE
    OBVIOUS
  <2>1. u = Failed(x, "state-owner")
    BY DEF StateProjection
  <2>2. u.error = "state-owner"
    BY <1>3, <2>1 DEF Failed, IsOwners, OwnerFields
  <2> QED BY <2>2
<1>5. Standing(x, a, c)
  BY <1>2, <1>4 DEF Present
<1>6. Timely(u, a, c, now)
  BY <1>3, <1>4, <1>5, RefoldedTimely
<1>7. Projected(x, u, a, w)
  BY <1>3, <1>4, ProjectionTimes
<1> HIDE DEF u, w
<1>8. ASSUME NEW b \in Actors \ {a} PROVE Timely(u, b, c, now)
  <2>1. Alike(t, x, b)
    BY <1>2, AlikeElsewhere
  <2>2. u.nodes[b] = x.nodes[b] /\ \A f \in TimeFields : u[f] = x[f]
    BY <1>7 DEF Projected
  <2>3. \A f \in TimeFields : u[f][b] = x[f][b]
    BY <2>2
  <2>4. Alike(x, u, b)
    BY <2>2, <2>3, AlikeRows
  <2>5. Alike(t, u, b)
    BY <2>1, <2>4, AlikeAgain
  <2>6. Timely(t, b, c, now)
    BY DEF InTime
  <2> QED BY <2>5, <2>6, AlikeTimely
<1> QED BY <1>6, <1>8 DEF InTime

LEMMA StandingAgain ==
  ASSUME NEW t, NEW a, NEW c, NEW now, Present(t, a), Timely(t, a, c, now),
         FiledProofs(t.proofs[a]), NEW x, x.nodes = t.nodes, x.proofs[a] = t.proofs[a],
         LanesAhead(x, a, c),
         \A h \in t.health[a] : \E k \in x.health[a] : k.source = h.source
  PROVE  Standing(x, a, c)
<1>1. Fitting(t, a) /\ PollAhead(t, a, c)
  BY DEF Timely
<1>2. PollAhead(x, a, c)
  <2> SUFFICES ASSUME x.nodes[a].ghostAt = 0, ~x.nodes[a].stale, Missing(x, a) # 0
               PROVE  Missing(x, a) > c
    BY DEF PollAhead
  <2>1. MissingHealthDeadline(t.proofs[a], x.health[a]) # 0
    BY DEF Missing
  <2>2. Missing(x, a) = Missing(t, a)
    BY <2>1, MissingLess DEF Missing
  <2> QED BY <1>1, <2>2 DEF PollAhead
<1> QED BY <1>1, <1>2 DEF Standing, Sustained, Fitting

(* What a heartbeat makes of the lanes.                                     *)
Lanes(t, u, a, lane, c) ==
  /\ u.proofs[a] = t.proofs[a]
  /\ LanesAhead(u, a, c)
  /\ \A h \in t.health[a] : \E k \in u.health[a] : k.source = h.source
  /\ \E k \in u.health[a] : k.source = lane

LEMMA BeatLanes ==
  ASSUME NEW t, IsOwners(t), Filed(t), NEW a \in Actors, NEW lane, NEW at \in Nat, NEW c \in Nat,
         at + HookFreshness > c, LanesAhead(t, a, c)
  PROVE  Lanes(t, Beat(t, a, lane, at), a, lane, c)
<1> DEFINE kept == {x \in t.health[a] : x.source = lane}
           last == Max({at} \cup {x.last : x \in kept})
           beat == [source |-> lane, last |-> last]
           h == (t.health[a] \ kept) \cup {beat}
           H == t.history + One(kept = {})
           u == [t EXCEPT !.health[a] = h, !.history = H]
<1>1. Beat(t, a, lane, at) = u
  BY DEF Beat
<1>2. FiledHealth(t.health[a])
  BY DEF Filed, FiledActor
<1>3. last \in Nat /\ last >= at
  <2> DEFINE L == {at} \cup {x.last : x \in kept}
  <2>1. CASE kept = {}
    <3>1. L = {at}
      BY <2>1
    <3> QED BY <3>1, LaterOf
  <2>2. CASE kept # {}
    <3>1. PICK x \in kept : TRUE
      BY <2>2
    <3>2. kept = {x} /\ x.last \in Nat
      BY <1>2, <3>1 DEF FiledHealth
    <3>3. L = {at, x.last}
      BY <3>2
    <3> QED BY <3>2, <3>3, LaterOf
  <2> QED BY <2>1, <2>2
<1> HIDE DEF last
<1>4. last + HookFreshness > c
  BY <1>3, EvidenceAssumption
<1>5. \A k \in h : k.last + HookFreshness > c
  BY <1>4 DEF LanesAhead
<1>7. beat \in h /\ beat.source = lane
  OBVIOUS
<1>6. ASSUME NEW g \in t.health[a] PROVE \E k \in h : k.source = g.source
  <2>1. g \in h \/ g.source = lane
    OBVIOUS
  <2> HIDE DEF h, beat
  <2> QED BY <1>7, <2>1
<1> HIDE DEF beat
<1> HIDE DEF h, H
<1>8. u.proofs[a] = t.proofs[a] /\ u.health[a] = h
  BY DEF IsOwners, OwnerFields, Filed, EvidenceFields
<1> HIDE DEF u
<1>9. Lanes(t, u, a, lane, c)
  BY <1>5, <1>6, <1>7, <1>8 DEF Lanes, LanesAhead
<1> QED BY <1>1, <1>9

LEMMA PurgeLanes ==
  ASSUME NEW t, IsOwners(t), Filed(t), NEW a \in Actors, NEW lanes
  PROVE  LET u == PurgeHealth(t, a, lanes) IN
         u.proofs[a] = t.proofs[a] /\ u.health[a] = {h \in t.health[a] : h.source \notin lanes}
<1> DEFINE keeps(e) == \/ HealthKey(e.source) \notin lanes \/ Terminal(e.value)
                       \/ e.source.authority = Native /\ e.source.mode = "immutable"
           s == Among(t.states[a], {e \in ToSet(t.states[a]) : keeps(e)})
           q == Among(t.approvals[a],
                         {e \in ToSet(t.approvals[a]) : HealthKey(e.source) \notin lanes})
           h == {x \in t.health[a] : x.source \notin lanes}
           H == t.history - (Len(t.states[a]) - Len(s)) - (Len(t.approvals[a]) - Len(q))
                             - Cardinality(t.health[a] \ h)
           u == [t EXCEPT !.states[a] = s, !.approvals[a] = q, !.health[a] = h, !.history = H]
<1>1. PurgeHealth(t, a, lanes) = u
  BY DEF PurgeHealth
<1> HIDE DEF s, q, h, H
<1>2. u.proofs[a] = t.proofs[a] /\ u.health[a] = h
  BY DEF IsOwners, OwnerFields, Filed, EvidenceFields
<1> QED BY <1>1, <1>2 DEF h

LEMMA RefreshLanes ==
  ASSUME NEW t, IsOwners(t), Filed(t), t.history \in Int, NEW a \in Actors, NEW lane,
         NEW at \in Nat, NEW c \in Nat, at + HookFreshness > c, LanesAhead(t, a, c)
  PROVE  Lanes(t, RefreshHealth(t, a, lane, at), a, lane, c)
<1> DEFINE p == PurgeHealth(t, a, {lane})
<1>1. PICK u \in {t, p} : RefreshHealth(t, a, lane, at) = Beat(u, a, lane, at)
  BY DEF RefreshHealth
<1>2. IsOwners(p) /\ Filed(p)
  BY PurgeAside, PurgeBooks, RefiledFiled DEF Aside
<1>3. p.proofs[a] = t.proofs[a] /\ p.health[a] = {h \in t.health[a] : h.source # lane}
  BY PurgeLanes
<1> HIDE DEF p
<1>4. IsOwners(u) /\ Filed(u)
  BY <1>1, <1>2
<1>5. /\ u.proofs[a] = t.proofs[a]
      /\ u.health[a] \subseteq t.health[a]
      /\ \A h \in t.health[a] : h \in u.health[a] \/ h.source = lane
  BY <1>1, <1>3
<1>6. LanesAhead(u, a, c)
  BY <1>5 DEF LanesAhead
<1> DEFINE v == Beat(u, a, lane, at)
<1>7. Lanes(u, v, a, lane, c)
  BY <1>4, <1>6, BeatLanes
<1> HIDE DEF v
<1>8. Lanes(t, v, a, lane, c)
  BY <1>5, <1>7 DEF Lanes
<1> QED BY <1>1, <1>8 DEF v

-----------------------------------------------------------------------------
(* The events that are folded, in time.                                     *)

Lasting(t, u, a, c) ==
  /\ u.proofs[a] = t.proofs[a]
  /\ LanesAhead(u, a, c)
  /\ \A h \in t.health[a] : \E k \in u.health[a] : k.source = h.source

LEMMA LastingStands ==
  ASSUME NEW t, Well(t), NEW a \in Actors, NEW c, NEW now, InTime(t, c, now), NEW x,
         Redone(t, x, a), Present(t, a) => Lasting(t, x, a, c)
  PROVE  Present(t, a) => Standing(x, a, c)
<1> SUFFICES ASSUME Present(t, a) PROVE Standing(x, a, c)
  OBVIOUS
<1>1. Timely(t, a, c, now)
  BY DEF InTime
<1>2. FiledProofs(t.proofs[a])
  BY WellHistory DEF Filed, FiledActor
<1>3. x.nodes = t.nodes
  BY DEF Redone, Refiled, Edited, StillFields
<1> QED BY <1>1, <1>2, <1>3, StandingAgain DEF Lasting

LEMMA LastingNot ==
  ASSUME NEW t, NEW a \in Actors, NEW c, NEW now, InTime(t, c, now), Present(t, a)
  PROVE  Lasting(t, t, a, c)
<1>1. LanesAhead(t, a, c)
  BY DEF InTime, Timely
<1> QED BY <1>1 DEF Lasting

(* Stages that leave proofs and lanes as they are.                          *)
LEMMA RowsLanes ==
  ASSUME NEW t, IsOwners(t), NEW e, NEW at, NEW a
  PROVE  /\ StateRows(t, e, at).proofs = t.proofs /\ StateRows(t, e, at).health = t.health
         /\ ClearApprovals(t, a).proofs = t.proofs /\ ClearApprovals(t, a).health = t.health
         /\ ExitRow(t, e, at).proofs = t.proofs /\ ExitRow(t, e, at).health = t.health
<1>1. \A x, y, z : LET v == [t EXCEPT !.approvals[a] = x, !.history = y]
                       w == [t EXCEPT !.states[a] = x, !.history = y]
                   IN /\ v.proofs = t.proofs /\ v.health = t.health
                      /\ w.proofs = t.proofs /\ w.health = t.health
  BY DEF IsOwners, OwnerFields
<1>2. ClearApprovals(t, a).proofs = t.proofs /\ ClearApprovals(t, a).health = t.health
  BY DEF ClearApprovals, IsOwners, OwnerFields
<1>3. ExitRow(t, e, at).proofs = t.proofs /\ ExitRow(t, e, at).health = t.health
  BY DEF ExitRow, IsOwners, OwnerFields
<1>4. StateRows(t, e, at).proofs = t.proofs /\ StateRows(t, e, at).health = t.health
  <2> DEFINE b == e.actor
  <2>1. \/ \E x, y : StateRows(t, e, at) = [t EXCEPT !.approvals[b] = x, !.history = y]
        \/ \E x, y, z : StateRows(t, e, at) =
                          [t EXCEPT !.approvals[b] = x, !.states[b] = y, !.history = z]
    BY DEF StateRows
  <2> DEFINE u == StateRows(t, e, at)
  <2> HIDE DEF u, b
  <2>2. CASE \E x, y : u = [t EXCEPT !.approvals[b] = x, !.history = y]
    BY <2>2 DEF IsOwners, OwnerFields, u
  <2>3. CASE \E x, y, z : u = [t EXCEPT !.approvals[b] = x, !.states[b] = y, !.history = z]
    BY <2>3 DEF IsOwners, OwnerFields, u
  <2> QED BY <2>1, <2>2, <2>3 DEF u
<1> QED BY <1>2, <1>3, <1>4

LEMMA LastingBeside ==
  ASSUME NEW t, NEW a, NEW c, NEW u, Lasting(t, u, a, c), NEW v, v.proofs = u.proofs,
         v.health = u.health
  PROVE  Lasting(t, v, a, c)
BY DEF Lasting, LanesAhead

LEMMA StateInTime ==
  ASSUME NEW t, Well(t), NEW e \in Events, NEW at \in Nat, NEW c \in Nat, NEW now \in Nat,
         c <= now, at + HookFreshness > c, InTime(t, c, now)
  PROVE  LET u == StageState(t, e, at, now) IN u.error = "" => InTime(u, c, now)
<1> DEFINE a == e.actor
           h == HealthKey(e.source)
           r == RefreshHealth(t, a, h, at)
           u == IF ~Terminal(e.value) /\ e.source.authority # Passive THEN r ELSE t
           w == StateRows(u, e, at)
           x == IF Terminal(e.value) THEN ClearApprovals(w, a) ELSE w
<1>0. a \in Actors
  BY EventIs
<1>1. StageState(t, e, at, now) = StateProjection(x, a, now)
  BY DEF StageState
<1>2. Redone(t, u, a) /\ (Present(t, a) => Lasting(t, u, a, c))
  <2>1. u \in {t, r}
    OBVIOUS
  <2> HIDE DEF h, a
  <2>2. Redone(t, r, a)
    BY <1>0, WellHistory, RefreshAside, AsideKeeps, RefreshBooks DEF Well, Redone
  <2>3. Present(t, a) => Lasting(t, t, a, c)
    BY <1>0, LastingNot
  <2>4. Present(t, a) => Lasting(t, r, a, c)
    <3> SUFFICES ASSUME Present(t, a) PROVE Lasting(t, r, a, c)
      OBVIOUS
    <3>1. LanesAhead(t, a, c)
      BY <1>0, <2>3 DEF Lasting
    <3>2. Lanes(t, r, a, h, c)
      BY <1>0, <3>1, WellHistory, RefreshLanes
    <3> QED BY <3>2 DEF Lanes, Lasting
  <2> HIDE DEF r, u
  <2> QED BY <1>0, <2>1, <2>2, <2>3, <2>4, RedoneNot
<1> HIDE DEF u
<1>3. Redone(t, w, a) /\ (Present(t, a) => Lasting(t, w, a, c))
  <2>0. Well(u)
    BY <1>0, <1>2, RedoneWell
  <2>1. Keeps(u, w)
    BY <2>0, WellHistory, RowsAside, AsideKeeps DEF Well
  <2>2. Refiled(u, w, a)
    BY <2>0, WellHistory, RowsBooks
  <2>3. w.proofs = u.proofs /\ w.health = u.health
    BY <2>0, WellHistory, RowsLanes
  <2> HIDE DEF w, a
  <2>4. Redone(t, w, a)
    BY <1>0, <1>2, <2>1, <2>2, RedoneAgain DEF Redone
  <2> QED BY <1>2, <2>3, <2>4, LastingBeside
<1> HIDE DEF w, a
<1>4. Redone(t, x, a) /\ (Present(t, a) => Lasting(t, x, a, c))
  <2> DEFINE y == ClearApprovals(w, a)
  <2>0. Well(w)
    BY <1>0, <1>3, RedoneWell
  <2>1. Redone(w, y, a)
    BY <1>0, <2>0, WellHistory, ClearAside, AsideKeeps, ClearBooks DEF Well, Redone
  <2>3. y.proofs = w.proofs /\ y.health = w.health
    BY <2>0, WellHistory, RowsLanes
  <2>5. x \in {w, y}
    OBVIOUS
  <2> HIDE DEF x, y
  <2>2. Redone(t, y, a)
    BY <1>0, <1>3, <2>1, RedoneAgain
  <2>4. Present(t, a) => Lasting(t, y, a, c)
    BY <1>3, <2>3, LastingBeside
  <2> QED BY <1>3, <2>2, <2>4, <2>5
<1> HIDE DEF x
<1>5. Present(t, a) => Standing(x, a, c)
  BY <1>0, <1>4, LastingStands
<1> DEFINE v == StateProjection(x, a, now)
<1>6. v.error = "" => InTime(v, c, now)
  BY <1>0, <1>4, <1>5, RefoldedInTime
<1> HIDE DEF v
<1> QED BY <1>1, <1>6 DEF v

LEMMA ExitInTime ==
  ASSUME NEW t, Well(t), NEW e \in Events, NEW at \in Nat, NEW c \in Nat, NEW now \in Nat,
         c <= now, InTime(t, c, now)
  PROVE  LET u == StageExit(t, e, at, now) IN u.error = "" => InTime(u, c, now)
<1> DEFINE a == e.actor
           u == ExitRow(t, e, at)
           x == ClearApprovals(u, a)
<1>0. a \in Actors
  BY EventIs
<1>1. StageExit(t, e, at, now) = StateProjection(x, a, now)
  BY DEF StageExit, ExitRow
<1>2. Aside(t, u)
  BY DEF ExitRow, Well, Sound, Aside, SharedFields, IsOwners, OwnerFields
<1>3. Redone(t, u, a)
  BY <1>2, WellHistory, AsideKeeps, ExitBooks DEF Redone, Well
<1>7. u.proofs = t.proofs /\ u.health = t.health
  BY RowsLanes, WellHistory
<1> HIDE DEF u, a
<1>4. Well(u)
  BY <1>0, <1>3, RedoneWell
<1>5. Redone(u, x, a)
  BY <1>0, <1>4, WellHistory, ClearAside, AsideKeeps, ClearBooks DEF Well, Redone
<1>8. x.proofs = u.proofs /\ x.health = u.health
  BY <1>4, WellHistory, RowsLanes
<1> HIDE DEF x
<1>6. Redone(t, x, a)
  BY <1>0, <1>3, <1>5, RedoneAgain
<1>9. Present(t, a) => Lasting(t, x, a, c)
  BY <1>0, <1>7, <1>8, LastingNot, LastingBeside
<1>10. Present(t, a) => Standing(x, a, c)
  BY <1>0, <1>6, <1>9, LastingStands
<1> DEFINE v == StateProjection(x, a, now)
<1>11. v.error = "" => InTime(v, c, now)
  BY <1>0, <1>6, <1>10, RefoldedInTime
<1> HIDE DEF v
<1> QED BY <1>1, <1>11 DEF v

(* The staleness of a node alone.                                           *)
Staled(t, u, a, b) ==
  /\ IsOwners(u) /\ Present(u, a) /\ u.error = t.error
  /\ \A f \in TimeFields : u[f] = t[f]
  /\ \A x \in Actors \ {a} : u.nodes[x] = t.nodes[x]
  /\ u.nodes[a].state = t.nodes[a].state /\ u.nodes[a].ghostAt = t.nodes[a].ghostAt
  /\ u.nodes[a].stale = b

LEMMA StaleBitTimes ==
  ASSUME NEW t, IsOwners(t), NEW a \in Actors, Present(t, a), NEW b
  PROVE  Staled(t, StaleBit(t, a, b), a, b)
<1> DEFINE n == t.nodes[a]
           m == [n EXCEPT !.stale = b]
           u == [t EXCEPT !.nodes[a] = m]
<1>1. StaleBit(t, a, b) = u
  BY DEF StaleBit
<1>2. IsNode(n)
  BY PresentIsNode
<1>3. IsNode(m) /\ m.state = n.state /\ m.ghostAt = n.ghostAt /\ m.stale = b
  <2> HIDE DEF n
  <2> QED BY <1>2, StaleIs, StaleKeepsGhost DEF IsNode, NodeFields
<1> HIDE DEF m, n
<1>4. /\ IsOwners(u) /\ u.nodes[a] = m /\ u.error = t.error
      /\ \A x \in Actors \ {a} : u.nodes[x] = t.nodes[x]
      /\ \A f \in TimeFields : u[f] = t[f]
  BY <1>3 DEF IsOwners, OwnerFields, TimeFields
<1> HIDE DEF u
<1>5. Present(u, a)
  BY <1>3, <1>4, NodeShows DEF Present
<1>6. Staled(t, u, a, b)
  BY <1>3, <1>4, <1>5 DEF Staled, n
<1> QED BY <1>1, <1>6

(* An actor that is, or is not, stale for a good reason.                    *)
LEMMA StaleBitTimely ==
  ASSUME NEW t, IsOwners(t), NEW a \in Actors, Present(t, a), NEW b \in BOOLEAN, NEW c, NEW now,
         Fitting(t, a), LanesAhead(t, a, c), FoldedBy(t, a, c, now),
         b => ~Terminal(t.nodes[a].state.value) /\ OnlyNative(t.proofs[a]),
         ~b => (t.nodes[a].ghostAt = 0 /\ Missing(t, a) # 0 => Missing(t, a) > c)
  PROVE  Timely(StaleBit(t, a, b), a, c, now)
<1> DEFINE u == StaleBit(t, a, b)
<1>1. /\ Present(u, a) /\ \A f \in TimeFields : u[f] = t[f]
      /\ u.nodes[a].state = t.nodes[a].state /\ u.nodes[a].ghostAt = t.nodes[a].ghostAt
      /\ u.nodes[a].stale = b
  BY StaleBitTimes DEF Staled
<1> HIDE DEF u
<1>2. /\ u.proofs[a] = t.proofs[a] /\ u.states[a] = t.states[a]
      /\ u.approvals[a] = t.approvals[a] /\ u.health[a] = t.health[a]
  BY <1>1 DEF TimeFields
<1>3. Fitting(u, a)
  BY <1>1, <1>2 DEF Fitting
<1>4. LanesAhead(u, a, c)
  BY <1>2 DEF LanesAhead
<1>5. FoldedBy(u, a, c, now)
  BY <1>1, <1>2 DEF FoldedBy
<1>6. PollAhead(u, a, c)
  BY <1>1, <1>2 DEF PollAhead, Missing
<1> QED BY <1>1, <1>3, <1>4, <1>5, <1>6 DEF Timely, u

LEMMA HeartbeatInTime ==
  ASSUME NEW t, Well(t), NEW e \in Events, NEW at \in Nat, NEW c \in Nat, NEW now \in Nat,
         c <= now, at + HookFreshness > c, InTime(t, c, now)
  PROVE  LET u == StageHeartbeat(t, e, at, now) IN u.error = "" => InTime(u, c, now)
<1> DEFINE a == e.actor
           s == e.source
           x == RefreshHealth(t, a, s, at)
           v == StateProjection(x, a, now)
           y == Heard(v, e)
           w == FoldState(x.states[a], x.approvals[a], x.health[a], now)
<1>0. a \in Actors
  BY EventIs
<1>1. StageHeartbeat(t, e, at, now) = y
  BY DEF StageHeartbeat
<1> SUFFICES ASSUME y.error = "" PROVE InTime(y, c, now)
  BY <1>1
<1> HIDE DEF a, s
<1>2. Redone(t, x, a)
  BY <1>0, WellHistory, RefreshAside, AsideKeeps, RefreshBooks DEF Well, Redone
<1>3. Present(t, a) => Lanes(t, x, a, s, c)
  <2> SUFFICES ASSUME Present(t, a) PROVE Lanes(t, x, a, s, c)
    OBVIOUS
  <2>1. LanesAhead(t, a, c)
    BY <1>0, LastingNot DEF Lasting
  <2> QED BY <1>0, <2>1, WellHistory, RefreshLanes
<1>4. Well(x)
  BY <1>0, <1>2, RedoneWell
<1> HIDE DEF x
<1>5. Present(t, a) => Lasting(t, x, a, c)
  BY <1>3 DEF Lanes, Lasting
<1>6. Present(t, a) => Standing(x, a, c)
  BY <1>0, <1>2, <1>5, LastingStands
<1>7. v.error = "" => InTime(v, c, now)
  BY <1>0, <1>2, <1>6, RefoldedInTime
<1>8. ~Present(x, a) => v.error # ""
  BY <1>4, WellHistory DEF StateProjection, Failed, IsOwners, OwnerFields
<1>9. Present(x, a) => Projected(x, v, a, w)
  BY <1>0, <1>4, WellHistory, ProjectionTimes
<1> HIDE DEF v, w
<1>10. CASE v.error # ""
  <2>1. y = v
    BY <1>10 DEF Heard
  <2> QED BY <1>10, <2>1
<1>11. CASE v.error = ""
  <2>1. InTime(v, c, now) /\ Present(x, a) /\ Projected(x, v, a, w)
    BY <1>7, <1>8, <1>9, <1>11
  <2>2. Present(t, a)
    BY <1>2, <2>1 DEF Redone, Refiled, Edited, StillFields, Present
  <2> DEFINE b == FALSE
             z == StaleBit(v, a, b)
             polls == /\ e.source.authority = Native /\ e.source.mode = "observation"
                      /\ \E q \in ToSet(v.proofs[a]) : /\ q.source.authority = Native
                                                        /\ HealthKey(q.source) = e.source
  <2>3. y = IF polls THEN z ELSE v
    BY <1>11 DEF Heard, a
  <2>4. CASE ~polls
    <3>1. y = v
      BY <2>3, <2>4
    <3> QED BY <2>1, <3>1
  <2>5. CASE polls
    <3>1. y = z
      BY <2>3, <2>5
    <3>2. IsOwners(v) /\ Present(v, a) /\ v.proofs[a] = x.proofs[a] /\ v.health[a] = x.health[a]
      BY <2>1 DEF Projected, TimeFields
    <3>3. Timely(v, a, c, now)
      BY <1>0, <2>1 DEF InTime
    <3>4. Fitting(v, a) /\ LanesAhead(v, a, c) /\ FoldedBy(v, a, c, now)
      BY <3>2, <3>3 DEF Timely
    <3>5. Missing(v, a) = 0
      <4>1. PICK k \in x.health[a] : k.source = s
        BY <1>3, <2>2 DEF Lanes
      <4>2. PICK q \in ToSet(v.proofs[a]) : HealthKey(q.source) = s
        BY <2>5 DEF s
      <4>3. ~Unmatched(v.proofs[a], v.health[a])
        BY <3>2, <4>1, <4>2 DEF Unmatched
      <4>4. FiledProofs(v.proofs[a])
        BY <1>0, <1>4, <3>2, WellHistory DEF Filed, FiledActor
      <4>5. MissingHealthDeadline(v.proofs[a], v.health[a]) = 0
        BY <4>3, <4>4, MissingMeans
      <4> QED BY <4>5 DEF Missing
    <3>6. b \in BOOLEAN /\ ~b
      OBVIOUS
    <3> HIDE DEF b, polls
    <3>7. Timely(z, a, c, now)
      BY <1>0, <3>2, <3>4, <3>5, <3>6, StaleBitTimely
    <3>8. Staled(v, z, a, b)
      BY <1>0, <3>2, StaleBitTimes
    <3> HIDE DEF z
    <3>9. ASSUME NEW d \in Actors \ {a} PROVE Timely(z, d, c, now)
      <4>1. \A f \in TimeFields : z[f][d] = v[f][d]
        BY <3>8 DEF Staled
      <4>2. z.nodes[d] = v.nodes[d]
        BY <3>8 DEF Staled
      <4>3. Alike(v, z, d)
        BY <4>1, <4>2, AlikeRows
      <4>4. Timely(v, d, c, now)
        BY <2>1 DEF InTime
      <4> QED BY <4>3, <4>4, AlikeTimely
    <3>10. InTime(z, c, now)
      BY <3>7, <3>9 DEF InTime
    <3> QED BY <3>1, <3>10
  <2> QED BY <2>4, <2>5
<1> QED BY <1>10, <1>11

-----------------------------------------------------------------------------
(* NodeObserved, in time.                                                   *)

(* What a node observed again keeps, and what a new one begins with.        *)
IdentityTimes(n, before, e, sw) ==
  /\ IsNode(n)
  /\ before # NoNode /\ ~sw =>
       /\ n.state = before.state /\ n.ghostAt = before.ghostAt
       /\ n.stale = (before.stale /\ e.source.authority = Native)
  /\ before = NoNode \/ sw => n.state = NoState /\ n.ghostAt = 0 /\ n.stale = FALSE

LEMMA ObservedTimes ==
  ASSUME NEW t, NEW e \in Events, NEW before, before = t.nodes[e.actor],
         before = NoNode \/ IsNode(before), NEW sw \in BOOLEAN
  PROVE  IdentityTimes(ObservedNode(t, e, sw), before, e, sw)
<1> DEFINE fold == FoldNode(t.proofs[e.actor])
           fresh == FreshNode(e.inc)
           usage == before.usage
           sources == before.metricSources
           kept == [fresh EXCEPT !.usage = usage]
           resumed == [kept EXCEPT !.metricSources = sources]
           base == IF before = NoNode THEN fresh ELSE IF sw THEN resumed ELSE before
           x == fold.name
           y == fold.startedAt
           z == fold.startTicks
           i == fold.identity
           native == e.source.authority = Native
           b == base.stale /\ native
           p == [base EXCEPT !.name = x]
           q == [p EXCEPT !.startedAt = y]
           r == [q EXCEPT !.startTicks = z]
           s == [r EXCEPT !.identity = i]
           n == [s EXCEPT !.stale = b]
           Same(k, l) == k.state = l.state /\ k.ghostAt = l.ghostAt /\ k.stale = l.stale
<1>1. ObservedNode(t, e, sw) = n
  BY DEF ObservedNode
<1>2. IsNode(fresh) /\ fresh.ghostAt = 0 /\ fresh.stale = FALSE /\ fresh.state = NoState
  <2>1. fresh.ghostAt = 0 /\ fresh.stale = FALSE
    BY DEF FreshNode
  <2>2. e.inc \in Incs
    BY EventIs
  <2>3. IsNode(fresh) /\ fresh.state = NoState
    BY <2>2, FreshIs
  <2> QED BY <2>1, <2>3
<1> HIDE DEF usage, sources
<1>3. IsNode(kept) /\ Same(kept, fresh)
  <2> HIDE DEF fresh
  <2> QED BY <1>2, SetField DEF NodeFields
<1> HIDE DEF kept
<1>4. IsNode(resumed) /\ Same(resumed, kept)
  BY <1>3, SetField DEF NodeFields
<1> HIDE DEF resumed, fresh
<1>5. /\ IsNode(base)
      /\ before # NoNode /\ ~sw => base = before
      /\ before = NoNode \/ sw => base.state = NoState /\ base.ghostAt = 0 /\ base.stale = FALSE
  BY <1>2, <1>3, <1>4
<1> HIDE DEF base, x, y, z, i, native
<1>6. IsNode(p) /\ Same(p, base)
  BY <1>5, SetField DEF NodeFields
<1> HIDE DEF b
<1> HIDE DEF p
<1>7. IsNode(q) /\ Same(q, p)
  BY <1>6, SetField DEF NodeFields
<1> HIDE DEF q
<1>8. IsNode(r) /\ Same(r, q)
  BY <1>7, SetField DEF NodeFields
<1> HIDE DEF r
<1>9. IsNode(s) /\ Same(s, r)
  BY <1>8, SetField DEF NodeFields
<1> HIDE DEF s
<1>10. IsNode(n) /\ n.state = s.state /\ n.ghostAt = s.ghostAt /\ n.stale = b
  BY <1>9, SetField DEF NodeFields
<1> HIDE DEF n
<1>11. IsNode(n) /\ n.state = base.state /\ n.ghostAt = base.ghostAt /\ n.stale = b
  BY <1>6, <1>7, <1>8, <1>9, <1>10
<1>12. /\ before # NoNode /\ ~sw =>
            /\ n.state = before.state /\ n.ghostAt = before.ghostAt
            /\ n.stale = (before.stale /\ native)
       /\ before = NoNode \/ sw => n.state = NoState /\ n.ghostAt = 0 /\ n.stale = FALSE
  BY <1>5, <1>11 DEF b
<1>13. IdentityTimes(n, before, e, sw)
  BY <1>11, <1>12 DEF native, IdentityTimes
<1> QED BY <1>1, <1>13

(* stageNode shows the node it has folded.                                  *)
Showing(t, u, a, n) ==
  /\ IsOwners(u) /\ Present(u, a) /\ \A f \in TimeFields : u[f] = t[f]
  /\ \A b \in Actors \ {a} : u.nodes[b] = t.nodes[b]
  /\ u.nodes[a].state = n.state /\ u.nodes[a].stale = n.stale
  /\ u.nodes[a].ghostAt = n.ghostAt
  /\ u.error = t.error

LEMMA WithNodeTimes ==
  ASSUME NEW t, IsOwners(t), NEW a \in Actors, NEW n, IsNode(n)
  PROVE  Showing(t, WithNode(t, a, n), a, n)
<1> DEFINE u == WithNode(t, a, n)
           p == NodePartial(n, t.gaps)
           m == [n EXCEPT !.partial = p]
<1>1. /\ IsOwners(u) /\ u.nodes[a] = m /\ \A b \in Actors \ {a} : u.nodes[b] = t.nodes[b]
      /\ \A f \in OwnerFields \ {"nodes"} : u[f] = t[f]
  BY WithNodeDoes
<1> HIDE DEF u, p
<1>2. IsNode(m) /\ m.ghostAt = n.ghostAt /\ m.stale = n.stale /\ m.state = n.state
  BY MarkIs, MarkTimes
<1> HIDE DEF m
<1>3. u.error = t.error /\ \A f \in TimeFields : u[f] = t[f]
  BY <1>1 DEF OwnerFields, TimeFields
<1>4. Present(u, a)
  BY <1>1, <1>2, NodeShows DEF Present
<1>5. Showing(t, u, a, n)
  BY <1>1, <1>2, <1>3, <1>4 DEF Showing
<1> QED BY <1>5 DEF u

(* The rows an identity leaves: those of other sources, and its own.        *)
Stated(q, r, e, b) ==
  \E c \in ProofRecords :
    /\ c.source = e.source /\ c.at + HookFreshness > b
    /\ ToSet(r) = (ToSet(q) \ Own(q, c)) \cup {c}

LEMMA StatedPoll ==
  ASSUME NEW q, FiledProofs(q), NEW r, FiledProofs(r), NEW e, NEW b \in Nat, Stated(q, r, e, b),
         NEW h, MissingHealthDeadline(q, h) # 0 => MissingHealthDeadline(q, h) > b,
         MissingHealthDeadline(r, h) # 0
  PROVE  MissingHealthDeadline(r, h) > b
<1>1. PICK c \in ProofRecords : /\ c.source = e.source /\ c.at + HookFreshness > b
                                /\ ToSet(r) = (ToSet(q) \ Own(q, c)) \cup {c}
  BY DEF Stated
<1> QED BY <1>1, MissingStated

LEMMA StatedNative ==
  ASSUME NEW q, FiledProofs(q), NEW r, FiledProofs(r), NEW e, NEW b, Stated(q, r, e, b)
  PROVE  /\ OnlyNative(q) /\ e.source.authority = Native => OnlyNative(r)
         /\ OnlyNative(r) => e.source.authority = Native
<1>1. PICK c \in ProofRecords : /\ c.source = e.source
                                /\ ToSet(r) = (ToSet(q) \ Own(q, c)) \cup {c}
  BY DEF Stated
<1>2. r # <<>>
  BY <1>1, NoRows
<1> QED BY <1>1, <1>2 DEF OnlyNative

LEMMA ShownAgainTimely ==
  ASSUME NEW t, NEW a \in Actors, NEW c \in Nat, NEW now, Present(t, a), Timely(t, a, c, now),
         NEW e, NEW u, Present(u, a), FiledProofs(t.proofs[a]), FiledProofs(u.proofs[a]),
         u.states[a] = t.states[a], u.approvals[a] = t.approvals[a], u.health[a] = t.health[a],
         u.nodes[a].state = t.nodes[a].state, u.nodes[a].ghostAt = t.nodes[a].ghostAt,
         u.nodes[a].stale = (t.nodes[a].stale /\ e.source.authority = Native),
         Stated(t.proofs[a], u.proofs[a], e, c)
  PROVE  Timely(u, a, c, now)
<1> DEFINE n == t.nodes[a]
           m == u.nodes[a]
<1>1. Fitting(t, a) /\ LanesAhead(t, a, c) /\ FoldedBy(t, a, c, now) /\ PollAhead(t, a, c)
  BY DEF Timely
<1>2. Fitting(u, a)
  <2>1. n.stale \in BOOLEAN /\ (n.stale => ~Terminal(n.state.value) /\ OnlyNative(t.proofs[a]))
        /\ (Terminal(n.state.value) => n.ghostAt # 0) /\ n.ghostAt \in Nat
    BY <1>1 DEF Fitting
  <2>2. m.stale => ~Terminal(m.state.value) /\ OnlyNative(u.proofs[a])
    BY <2>1, StatedNative
  <2>3. m.stale \in BOOLEAN
    OBVIOUS
  <2> QED BY <2>1, <2>2, <2>3 DEF Fitting
<1>3. LanesAhead(u, a, c)
  BY <1>1 DEF LanesAhead
<1>4. FoldedBy(u, a, c, now)
  BY <1>1 DEF FoldedBy
<1>5. PollAhead(u, a, c)
  <2> SUFFICES ASSUME m.ghostAt = 0, ~m.stale, Missing(u, a) # 0 PROVE Missing(u, a) > c
    BY DEF PollAhead
  <2>1. OnlyNative(u.proofs[a])
    BY MissingMeans DEF Missing
  <2>2. e.source.authority = Native
    BY <2>1, StatedNative
  <2>3. ~n.stale /\ n.ghostAt = 0
    BY <2>2
  <2>4. Missing(t, a) # 0 => Missing(t, a) > c
    BY <1>1, <2>3 DEF PollAhead
  <2> QED BY <2>4, StatedPoll DEF Missing
<1> QED BY <1>2, <1>3, <1>4, <1>5 DEF Timely

(* Without evidence there is no state.                                      *)
LEMMA FoldNothing ==
  ASSUME NEW now
  PROVE  FoldState(<<>>, <<>>, {}, now) = NoEvidence
<1>1. <<>> \in Seq(StateRecords) /\ Len(<<>>) = 0
  OBVIOUS
<1>2. \A T : Among(<<>>, T) = <<>>
  BY AmongNone
<1>3. Strongest(<<>>) = NoEvidence
  <2>1. PICK f : f[0] = NoEvidence /\ Strongest(<<>>) = f[Len(<<>>)]
    BY <1>1, StrongestTrail
  <2> QED BY <1>1, <2>1
<1> DEFINE S == {e \in ToSet(<<>>) : CountsAt(e, {}, now)}
           Q == {e \in ToSet(<<>>) : Fresh({}, e.source, now)}
           best == Strongest(Among(<<>>, S))
           asked == Among(<<>>, Q)
<1>4. FoldState(<<>>, <<>>, {}, now)
        = IF Terminal(best.value) \/ asked = <<>> THEN best
          ELSE Strongest([i \in DOMAIN asked |-> asked[i].evidence])
  BY DEF FoldState
<1> HIDE DEF S, Q
<1> QED BY <1>2, <1>3, <1>4

LEMMA ShownFreshTimely ==
  ASSUME NEW a \in Actors, NEW c \in Nat, NEW now \in Nat,
         NEW e, NEW u, Present(u, a), FiledProofs(u.proofs[a]),
         u.states[a] = <<>>, u.approvals[a] = <<>>, u.health[a] = {},
         u.nodes[a].state = NoState, u.nodes[a].ghostAt = 0, u.nodes[a].stale = FALSE,
         Stated(<<>>, u.proofs[a], e, c)
  PROVE  Timely(u, a, c, now)
<1>1. ~Terminal(NoState.value)
  BY DEF NoState, Shown, NoEvidence, Evidence, Terminal
<1>2. Fitting(u, a)
  <2> DEFINE m == u.nodes[a]
  <2>1. ~m.stale /\ m.stale \in BOOLEAN
    BY Zenon
  <2>2. ~Terminal(m.state.value) /\ m.ghostAt \in Nat
    BY <1>1
  <2> QED BY <2>1, <2>2, Zenon DEF Fitting
<1>3. LanesAhead(u, a, c)
  BY DEF LanesAhead
<1>4. FoldedBy(u, a, c, now)
  <2>1. ToSet(<<>>) = {}
    BY NoRows
  <2>2. now \in 0..now
    OBVIOUS
  <2> QED BY <2>1, <2>2, FoldNothing DEF FoldedBy, NoState
<1>5. PollAhead(u, a, c)
  <2>1. FiledProofs(<<>>)
    BY NoRows DEF FiledProofs
  <2>2. MissingHealthDeadline(<<>>, u.health[a]) = 0
    BY DEF MissingHealthDeadline, OnlyNative
  <2> QED BY <2>1, <2>2, StatedPoll DEF PollAhead, Missing
<1> QED BY <1>2, <1>3, <1>4, <1>5 DEF Timely

(* An identity is stated: the rows of its actor.                            *)
Identified(t, v, a, e, b) ==
  /\ IsOwners(v) /\ v.nodes = t.nodes /\ v.error = t.error /\ FiledProofs(v.proofs[a])
  /\ v.states = t.states /\ v.approvals = t.approvals /\ v.health = t.health
  /\ \A x \in Actors \ {a} : v.proofs[x] = t.proofs[x]
  /\ Stated(t.proofs[a], v.proofs[a], e, b)

LEMMA WithProofTimes ==
  ASSUME NEW t, IsOwners(t), Filed(t), t.history \in Int, NEW e \in Events, NEW at \in Nat,
         NEW b \in Nat, at + HookFreshness > b
  PROVE  Identified(t, WithProof(t, e, at), e.actor, e, b)
<1> DEFINE a == e.actor
           q == t.proofs[a]
           row == NodeContribution(q, e, at)
           own == Own(q, row)
           s == AcceptOwn(q, row)
           c == IF Knows(t, e) THEN t.current[a] ELSE Proof(e)
           H == t.history + One(~HoldsOwn(q, e))
           v == [t EXCEPT !.current[a] = c, !.proofs[a] = s, !.history = H]
<1>0. a \in Actors
  BY EventIs
<1>1. WithProof(t, e, at) = v
  BY DEF WithProof
<1>2. /\ IsOwners(v) /\ v.nodes = t.nodes /\ v.edges = t.edges /\ v.gaps = t.gaps
      /\ v.error = t.error
  BY <1>1, WithProofBeside
<1>3. FiledProofs(q)
  BY <1>0 DEF Filed, FiledActor
<1>4. row \in ProofRecords /\ row.source = e.source
  BY <1>3, ContributionIs
<1>5. row.at = at
  BY DEF NodeContribution
<1>6. s = Accept(q, own, row)
  BY DEF AcceptOwn
<1> HIDE DEF s, row, c, H, q, a
<1>7. FiledProofs(s) /\ ToSet(s) = (ToSet(q) \ own) \cup {row}
  BY <1>3, <1>4, <1>6, ProofComes
<1>8. Stated(q, s, e, b)
  BY <1>4, <1>5, <1>7 DEF Stated
<1>9. /\ v.states = t.states /\ v.approvals = t.approvals /\ v.health = t.health
      /\ v.proofs[a] = s /\ \A x \in Actors \ {a} : v.proofs[x] = t.proofs[x]
  BY <1>0 DEF IsOwners, OwnerFields, Filed, EvidenceFields
<1> HIDE DEF v
<1>10. Identified(t, v, a, e, b)
  BY <1>2, <1>7, <1>8, <1>9 DEF Identified, q
<1> QED BY <1>1, <1>10 DEF a

(* The evidence of an incarnation goes with it.                             *)
LEMMA SucceedTimes ==
  ASSUME NEW t, IsOwners(t), Filed(t), NEW e \in Events
  PROVE  LET v == Succeed(t, e)
             a == e.actor
         IN /\ Bare(v, a) /\ v.nodes = t.nodes
            /\ \A f \in TimeFields : \A b \in Actors \ {a} : v[f][b] = t[f][b]
<1> DEFINE a == e.actor
           R == t.retired \cup {<<a, t.current[a].inc>>}
           P == [t.proofs EXCEPT ![a] = <<>>]
           S == [t.states EXCEPT ![a] = <<>>]
           A == [t.approvals EXCEPT ![a] = <<>>]
           L == [t.health EXCEPT ![a] = {}]
           H == t.history + 1 - EvidenceUnits(t, a)
           v == [t EXCEPT !.retired = R, !.proofs = P, !.states = S, !.approvals = A,
                          !.health = L, !.history = H]
<1>0. a \in Actors
  BY EventIs
<1>1. Succeed(t, e) = v
  BY DEF Succeed
<1> HIDE DEF a
<1>2. /\ P[a] = <<>> /\ S[a] = <<>> /\ A[a] = <<>> /\ L[a] = {}
      /\ \A b \in Actors \ {a} : /\ P[b] = t.proofs[b] /\ S[b] = t.states[b]
                                 /\ A[b] = t.approvals[b] /\ L[b] = t.health[b]
  BY <1>0 DEF Filed, EvidenceFields
<1> HIDE DEF R, P, S, A, L, H
<1>3. /\ v.proofs = P /\ v.states = S /\ v.approvals = A /\ v.health = L /\ v.nodes = t.nodes
  BY DEF IsOwners, OwnerFields
<1> HIDE DEF v
<1>4. Bare(v, a)
  BY <1>2, <1>3 DEF Bare
<1>5. \A f \in TimeFields : \A b \in Actors \ {a} : v[f][b] = t[f][b]
  BY <1>2, <1>3 DEF TimeFields
<1> QED BY <1>1, <1>3, <1>4, <1>5 DEF a

(* The identity of an actor that is shown, and goes on.                     *)
LEMMA NodeAgainInTime ==
  ASSUME NEW t, Well(t), NEW e \in Events, NEW at \in Nat, NEW c \in Nat, NEW now \in Nat,
         at + HookFreshness > c, InTime(t, c, now), Present(t, e.actor)
  PROVE  LET u == ShowObserved(WithProof(t, e, at), e, FALSE) IN InTime(u, c, now)
<1> DEFINE a == e.actor
           v == WithProof(t, e, at)
           no == FALSE
           n == ObservedNode(v, e, no)
           u == ShowObserved(v, e, no)
           native == e.source.authority = Native
<1>0. a \in Actors /\ no \in BOOLEAN /\ ~no
  BY EventIs
<1>1. Identified(t, v, a, e, c)
  BY WellHistory, WithProofTimes
<1>2. v.nodes = t.nodes /\ IsOwners(v)
  BY <1>1 DEF Identified
<1>3. t.nodes[a] # NoNode /\ IsNode(t.nodes[a]) /\ v.nodes[a] = t.nodes[a]
  BY <1>0, <1>2, PresentIsNode, WellHistory DEF Present
<1>4. u = WithNode(v, a, n)
  BY DEF ShowObserved
<1> HIDE DEF v, no
<1>5. IsNode(n) /\ n.state = t.nodes[a].state /\ n.ghostAt = t.nodes[a].ghostAt
      /\ n.stale = (t.nodes[a].stale /\ native)
  <2> DEFINE before == v.nodes[a]
  <2>1. before = v.nodes[e.actor] /\ (before = NoNode \/ IsNode(before)) /\ before # NoNode
    BY <1>3
  <2> HIDE DEF before
  <2>2. IdentityTimes(n, before, e, no)
    BY <2>1, <1>0, ObservedTimes
  <2> QED BY <1>0, <1>3, <2>1, <2>2 DEF before, IdentityTimes
<1> HIDE DEF n, u, a
<1>6. Showing(v, u, a, n)
  BY <1>0, <1>2, <1>4, <1>5, WithNodeTimes
<1>7. /\ u.proofs = v.proofs /\ u.states = t.states /\ u.approvals = t.approvals
      /\ u.health = t.health
  BY <1>1, <1>6 DEF Showing, TimeFields, Identified
<1>8. Timely(u, a, c, now)
  <2>1. Timely(t, a, c, now) /\ Present(t, a)
    BY <1>0 DEF InTime, a
  <2>2. FiledProofs(t.proofs[a])
    BY <1>0, WellHistory DEF Filed, FiledActor
  <2>3. FiledProofs(u.proofs[a]) /\ Stated(t.proofs[a], u.proofs[a], e, c)
    BY <1>1, <1>7 DEF Identified
  <2>4. /\ Present(u, a) /\ u.nodes[a].state = t.nodes[a].state
        /\ u.nodes[a].ghostAt = t.nodes[a].ghostAt
        /\ u.nodes[a].stale = (t.nodes[a].stale /\ e.source.authority = Native)
    BY <1>5, <1>6 DEF Showing, native
  <2> QED BY <1>0, <1>7, <2>1, <2>2, <2>3, <2>4, ShownAgainTimely
<1>9. ASSUME NEW b \in Actors \ {a} PROVE Timely(u, b, c, now)
  <2>1. u.nodes[b] = t.nodes[b]
    BY <1>2, <1>6 DEF Showing
  <2>2. \A f \in TimeFields : u[f][b] = t[f][b]
    BY <1>1, <1>7 DEF TimeFields, Identified
  <2>3. Alike(t, u, b)
    BY <2>1, <2>2, AlikeRows
  <2>4. Timely(t, b, c, now)
    BY DEF InTime
  <2> QED BY <2>3, <2>4, AlikeTimely
<1>10. InTime(u, c, now)
  BY <1>8, <1>9 DEF InTime
<1> QED BY <1>10 DEF u, v, no

(* An actor of which there is nothing is observed.                          *)
LEMMA NodeFreshInTime ==
  ASSUME NEW t, NEW e \in Events, NEW at \in Nat, NEW c \in Nat, NEW now \in Nat,
         at + HookFreshness > c, InTime(t, c, now),
         NEW s, IsOwners(s), Filed(s), s.history \in Int, Bare(s, e.actor), s.nodes = t.nodes,
         \A f \in TimeFields : \A b \in Actors \ {e.actor} : s[f][b] = t[f][b],
         NEW sw \in BOOLEAN, sw \/ s.nodes[e.actor] = NoNode
  PROVE  LET u == ShowObserved(WithProof(s, e, at), e, sw) IN InTime(u, c, now)
<1> DEFINE a == e.actor
           v == WithProof(s, e, at)
           n == ObservedNode(v, e, sw)
           u == ShowObserved(v, e, sw)
           native == e.source.authority = Native
<1>0. a \in Actors
  BY EventIs
<1>1. Identified(s, v, a, e, c)
  BY WithProofTimes
<1>2. v.nodes = s.nodes /\ IsOwners(v)
  BY <1>1 DEF Identified
<1>4. u = WithNode(v, a, n)
  BY DEF ShowObserved
<1> HIDE DEF v
<1>5. IsNode(n) /\ n.state = NoState /\ n.ghostAt = 0 /\ n.stale = FALSE
  <2> DEFINE before == v.nodes[a]
  <2>1. before = v.nodes[e.actor] /\ (before = NoNode \/ IsNode(before))
    BY <1>0, <1>2 DEF IsOwners
  <2>2. before = NoNode \/ sw
    BY <1>2
  <2> HIDE DEF before
  <2>3. IdentityTimes(n, before, e, sw)
    BY <2>1, ObservedTimes
  <2> QED BY <2>2, <2>3 DEF IdentityTimes
<1> HIDE DEF n, u
<1>6. Showing(v, u, a, n)
  BY <1>0, <1>2, <1>4, <1>5, WithNodeTimes
<1>7. /\ u.proofs = v.proofs /\ u.states = s.states /\ u.approvals = s.approvals
      /\ u.health = s.health
  BY <1>1, <1>6 DEF Showing, TimeFields, Identified
<1>8. Timely(u, a, c, now)
  <2>1. /\ u.states[a] = <<>> /\ u.approvals[a] = <<>> /\ u.health[a] = {}
        /\ s.proofs[a] = <<>>
    BY <1>7 DEF Bare
  <2>3. FiledProofs(u.proofs[a]) /\ Stated(<<>>, u.proofs[a], e, c)
    BY <1>1, <1>7, <2>1 DEF Identified
  <2>4. /\ Present(u, a) /\ u.nodes[a].state = NoState
        /\ u.nodes[a].ghostAt = 0 /\ u.nodes[a].stale = FALSE
    BY <1>5, <1>6 DEF Showing
  <2> HIDE DEF a
  <2> QED BY <1>0, <2>1, <2>3, <2>4, ShownFreshTimely
<1>9. ASSUME NEW b \in Actors \ {a} PROVE Timely(u, b, c, now)
  <2>1. u.nodes[b] = t.nodes[b]
    BY <1>2, <1>6 DEF Showing
  <2>2. \A f \in TimeFields : u[f][b] = t[f][b]
    <3>1. \A f \in TimeFields : s[f][b] = t[f][b]
      OBVIOUS
    <3> QED BY <1>1, <1>7, <3>1 DEF TimeFields, Identified
  <2>3. Alike(t, u, b)
    BY <2>1, <2>2, AlikeRows
  <2>4. Timely(t, b, c, now)
    BY DEF InTime
  <2> QED BY <2>3, <2>4, AlikeTimely
<1>10. InTime(u, c, now)
  BY <1>8, <1>9 DEF InTime
<1> QED BY <1>10 DEF u, v

LEMMA NodeInTime ==
  ASSUME NEW t, Well(t), NEW e \in Events, NEW at \in Nat, NEW c \in Nat, NEW now \in Nat,
         at + HookFreshness > c, InTime(t, c, now)
  PROVE  InTime(StageNode(t, e, at), c, now)
<1> DEFINE a == e.actor
<1>0. a \in Actors
  BY EventIs
<1>1. CASE ~Switches(t, e) /\ Present(t, e.actor)
  <2> DEFINE no == FALSE
             u == ShowObserved(WithProof(t, e, at), e, no)
  <2>1. StageNode(t, e, at) = u
    BY <1>1 DEF StageNode
  <2>2. InTime(u, c, now)
    BY <1>1, NodeAgainInTime
  <2> QED BY <2>1, <2>2
<1>2. CASE ~Switches(t, e) /\ ~Present(t, e.actor)
  <2> DEFINE no == FALSE
             u == ShowObserved(WithProof(t, e, at), e, no)
  <2>1. StageNode(t, e, at) = u
    BY <1>2 DEF StageNode
  <2>2. Bare(t, a) /\ t.nodes[a] = NoNode
    BY <1>0, <1>2 DEF InTime, Timely, Present
  <2>3. no \in BOOLEAN
    OBVIOUS
  <2> HIDE DEF no
  <2>4. InTime(u, c, now)
    BY <2>2, <2>3, WellHistory, NodeFreshInTime
  <2> QED BY <2>1, <2>4
<1>3. CASE Switches(t, e)
  <2> DEFINE s == Succeed(t, e)
             yes == TRUE
             w == ShowObserved(WithProof(s, e, at), e, yes)
             old == t.current[a].inc
             new == e.inc
             u == ResumeEdges(w, a, old, new)
  <2>1. StageNode(t, e, at) = u
    BY <1>3 DEF StageNode
  <2>2. IsOwners(s) /\ Filed(s) /\ Balanced(s) /\ s.edges = t.edges
    BY SucceedBooks
  <2>3. /\ Bare(s, a) /\ s.nodes = t.nodes
        /\ \A f \in TimeFields : \A b \in Actors \ {a} : s[f][b] = t[f][b]
    BY WellHistory, SucceedTimes
  <2>4. yes \in BOOLEAN /\ yes
    OBVIOUS
  <2> HIDE DEF s, yes
  <2>5. s.history \in Int
    BY <2>2, HistoryIs
  <2>6. InTime(w, c, now)
    BY <2>2, <2>3, <2>4, <2>5, NodeFreshInTime
  <2>7. u.nodes = w.nodes /\ \A f \in TimeFields : u[f] = w[f]
    <3>1. IsOwners(w)
      <4> DEFINE v == WithProof(s, e, at)
                 before == v.nodes[e.actor]
                 n == ObservedNode(v, e, yes)
      <4>1. IsOwners(v) /\ v.edges = s.edges
        BY <2>2, WithProofIs
      <4>2. before = NoNode \/ IsNode(before)
        BY <1>0, <4>1 DEF IsOwners
      <4>3. w = WithNode(v, a, n)
        BY DEF ShowObserved
      <4> HIDE DEF v, w
      <4>4. IsNode(n)
        BY <2>4, <4>2, ObservedTimes DEF IdentityTimes
      <4> HIDE DEF n
      <4>5. Showing(v, w, a, n)
        BY <1>0, <4>1, <4>3, <4>4, WithNodeTimes
      <4> QED BY <4>5 DEF Showing
    <3>2. \E E, H : u = [w EXCEPT !.edges = E, !.history = H]
      <4> HIDE DEF w
      <4> QED BY DEF ResumeEdges
    <3> HIDE DEF w, u
    <3> QED BY <3>1, <3>2 DEF IsOwners, OwnerFields, TimeFields
  <2> HIDE DEF u, w
  <2>8. ASSUME NEW b \in Actors PROVE Alike(w, u, b)
    BY <2>7, AlikeRows
  <2>9. InTime(u, c, now)
    BY <2>6, <2>8, AlikeInTime
  <2> QED BY <2>1, <2>9
<1> QED BY <1>1, <1>2, <1>3

-----------------------------------------------------------------------------
(* What the others leave alone.                                             *)

(* Owners with the rows and nodes of before are in time as before.          *)
LEMMA BesideInTime ==
  ASSUME NEW t, NEW u, u.nodes = t.nodes, \A f \in TimeFields : u[f] = t[f],
         NEW c, NEW now, InTime(t, c, now)
  PROVE  InTime(u, c, now)
BY AlikeRows, AlikeInTime

LEMMA CursorInTime ==
  ASSUME NEW t, IsOwners(t), NEW e, NEW at, NEW c, NEW now, InTime(t, c, now)
  PROVE  /\ InTime(MoveCursor(t, e, at), c, now)
         /\ MoveCursor(t, e, at).error = t.error
<1> DEFINE r == [ordered |-> e.ordered, at |-> at]
           C == [t.cursors EXCEPT ![<<e.source, e.actor>>] = r]
           H == t.history + One(CursorOf(t, e) = NoCursor)
           u == [t EXCEPT !.cursors = C, !.history = H]
<1>1. MoveCursor(t, e, at) \in {t, u}
  BY DEF MoveCursor
<1> HIDE DEF C, H
<1>2. u.nodes = t.nodes /\ u.error = t.error /\ \A f \in TimeFields : u[f] = t[f]
  BY DEF IsOwners, OwnerFields, TimeFields
<1> HIDE DEF u
<1> QED BY <1>1, <1>2, BesideInTime

LEMMA WithEdgeInTime ==
  ASSUME NEW t, NEW v, IsOwners(v), v.nodes = t.nodes, \A f \in TimeFields : v[f] = t[f],
         NEW k \in EdgeKeys, NEW e, IsEdge(e), NEW c, NEW now, InTime(t, c, now)
  PROVE  InTime(WithEdge(v, k, e), c, now)
<1> DEFINE u == WithEdge(v, k, e)
           g == [e EXCEPT !.partial = EdgePartial(k, e, v.gaps)]
<1>1. u.edges[k] = g /\ \A x \in OwnerFields \ {"edges"} : u[x] = v[x]
  BY WithEdgeDoes
<1> HIDE DEF u
<1>2. u.nodes = t.nodes /\ \A f \in TimeFields : u[f] = t[f]
  BY <1>1 DEF OwnerFields, TimeFields
<1>3. InTime(u, c, now)
  BY <1>2, BesideInTime
<1> QED BY <1>3 DEF u

LEMMA RelationshipInTime ==
  ASSUME NEW t, Well(t), NEW e \in Events, e.kind = "relationship",
         RelationshipRefusal(t, e) = "", NEW c, NEW now, InTime(t, c, now)
  PROVE  InTime(StageRelationship(t, e), c, now)
<1> DEFINE k == e.edge
           old == EdgeOrNew(t, e)
           ended == Terminal(t.nodes[k.source].state.value)
                      \/ Terminal(t.nodes[k.target].state.value)
           H == t.history + One(e.source \notin old.contributors)
           v == [t EXCEPT !.history = H]
           C == old.contributors \cup {e.source}
           new == [old EXCEPT !.contributors = C, !.ghost = ended]
<1>1. StageRelationship(t, e) = WithEdge(v, k, new)
  BY DEF StageRelationship
<1>2. ~EndsRefused(t, e)
  BY DEF RelationshipRefusal
<1>3. k \in EdgeKeys /\ IsEdge(old)
  BY <1>2, EdgeOrNewIs DEF Well
<1>4. IsOwners(v) /\ v.nodes = t.nodes /\ \A f \in TimeFields : v[f] = t[f]
  <2> HIDE DEF H
  <2> QED BY DEF Well, Sound, IsOwners, OwnerFields, TimeFields
<1> HIDE DEF k, old, C, ended, v
<1>5. IsEdge(new)
  <2>0. PICK g : g = ended
    BY Zenon
  <2> DEFINE h == [old EXCEPT !.contributors = C]
             f == [h EXCEPT !.ghost = g]
  <2>1. new = f
    BY ONLY <2>0
  <2>2. IsEdge(old)
    BY <1>3
  <2>3. IsEdge(h)
    <3> HIDE DEF old, C
    <3> QED BY ONLY <2>2 DEF IsEdge
  <2>4. IsEdge(f)
    <3> HIDE DEF h
    <3>1. LET x == [h EXCEPT !.ghost = g] IN
          IsEdge(x) /\ x.contributors = h.contributors /\ x.messages = h.messages
      BY ONLY <2>3, GhostedIs
    <3> QED BY ONLY <2>3, <3>1
  <2> HIDE DEF new, f
  <2> QED BY ONLY <2>1, <2>4
<1> HIDE DEF new
<1> QED BY <1>1, <1>3, <1>4, <1>5, WithEdgeInTime

LEMMA MessageInTime ==
  ASSUME NEW t, Well(t), NEW e \in Events, NEW at \in Nat, e.kind = "message",
         MessageRefusal(t, e) = "", NEW c, NEW now, InTime(t, c, now)
  PROVE  InTime(StageMessage(t, e, at), c, now)
<1> DEFINE k == e.edge
           old == EdgeOrNew(t, e)
           message == [digest |-> e.digest, source |-> e.source, at |-> at]
           H == t.history + 1
           F == t.fingerprints \cup {e.digest}
           X == t.expiry \cup {[at |-> at + MessageWindow, digest |-> e.digest, edge |-> k]}
           v == [t EXCEPT !.history = H, !.fingerprints = F, !.expiry = X]
           M == old.messages \cup {message}
           new == [old EXCEPT !.messages = M]
<1>1. StageMessage(t, e, at) = WithEdge(v, k, new)
  BY DEF StageMessage
<1>2. ~EndsRefused(t, e)
  BY DEF MessageRefusal
<1>3. k \in EdgeKeys /\ IsEdge(old)
  BY <1>2, EdgeOrNewIs DEF Well
<1>4. IsOwners(v) /\ v.nodes = t.nodes /\ \A f \in TimeFields : v[f] = t[f]
  <2> HIDE DEF H, F, X
  <2> QED BY DEF Well, Sound, IsOwners, OwnerFields, TimeFields
<1> HIDE DEF k, old, M, v
<1>5. IsEdge(new)
  BY <1>3, OtherMessages
<1> HIDE DEF new
<1> QED BY <1>1, <1>3, <1>4, <1>5, WithEdgeInTime

(* Usage is no evidence of a state.                                         *)
LEMMA UsageTimes ==
  ASSUME NEW n, IsNode(n), NEW usage, NEW sources
  PROVE  LET m == [n EXCEPT !.usage = usage, !.metricSources = sources] IN
         IsNode(m) /\ m.ghostAt = n.ghostAt /\ m.stale = n.stale /\ m.state = n.state
BY DEF IsNode, NodeFields

LEMMA MetricsInTime ==
  ASSUME NEW t, Well(t), t.error = "", NEW e \in Events, NEW at \in Nat, NEW c, NEW now,
         InTime(t, c, now), StageMetrics(t, e, at).error = ""
  PROVE  InTime(StageMetrics(t, e, at), c, now)
<1> DEFINE a == e.actor
           u == MetricsRow(t, e, at)
           fold == FoldMetrics(u.metrics[a])
           usage == fold.usage
           sources == fold.sources
           n == t.nodes[a]
           m == [n EXCEPT !.usage = usage, !.metricSources = sources]
           w == WithNode(u, a, m)
<1>1. StageMetrics(t, e, at) = IF ~Present(t, a) THEN Failed(t, "metrics-owner") ELSE w
  BY DEF StageMetrics, MetricsRow
<1>2. Present(t, a)
  <2> SUFFICES ASSUME ~Present(t, a) PROVE FALSE
    OBVIOUS
  <2>1. Failed(t, "metrics-owner").error = "metrics-owner"
    BY DEF Failed, Well, Sound, IsOwners, OwnerFields
  <2> QED BY <1>1, <2>1
<1>3. a \in Actors
  BY EventIs
<1>4. IsOwners(u) /\ u.nodes = t.nodes /\ \A f \in TimeFields : u[f] = t[f]
  BY <1>3 DEF Well, Sound, IsOwners, OwnerFields, MetricsRow, TimeFields
<1>5. IsNode(t.nodes[a])
  BY <1>2, <1>3, PresentIsNode DEF Well, Sound
<1> HIDE DEF u, a, usage, sources
<1>6. IsNode(m) /\ m.ghostAt = n.ghostAt /\ m.stale = n.stale /\ m.state = n.state
  <2> HIDE DEF n
  <2>1. IsNode(n)
    BY <1>5 DEF n
  <2> QED BY <2>1 DEF IsNode, NodeFields
<1> HIDE DEF m
<1>7. Showing(u, w, a, m)
  BY <1>3, <1>4, <1>6, WithNodeTimes
<1> HIDE DEF w
<1>8. ASSUME NEW b \in Actors PROVE Alike(t, w, b)
  <2>1. \A f \in TimeFields : w[f][b] = t[f][b]
    BY <1>4, <1>7 DEF Showing
  <2>2. CASE b = a
    BY <1>2, <1>6, <1>7, <2>1, <2>2 DEF Showing, Alike
  <2>3. CASE b # a
    <3>1. w.nodes[b] = t.nodes[b]
      BY <1>4, <1>7, <2>3 DEF Showing
    <3> QED BY <2>1, <3>1, AlikeRows
  <2> QED BY <2>2, <2>3
<1>9. InTime(w, c, now)
  BY <1>8, AlikeInTime
<1> QED BY <1>1, <1>2, <1>9

(* A gap only marks.                                                        *)
LEMMA PartialUpdatesInTime ==
  ASSUME NEW t, Sound(t), NEW G, NEW c, NEW now, InTime(t, c, now)
  PROVE  LET u == PartialUpdates([t EXCEPT !.gaps = G]) IN
         InTime(u, c, now) /\ u.error = t.error
<1> DEFINE v == [t EXCEPT !.gaps = G]
           N == [a \in Actors |-> IF Present(t, a)
                 THEN [t.nodes[a] EXCEPT !.partial = NodePartial(t.nodes[a], G)] ELSE NoNode]
           E == [k \in EdgeKeys |-> IF Linked(t, k)
                 THEN [t.edges[k] EXCEPT !.partial = EdgePartial(k, t.edges[k], G)] ELSE NoEdge]
           u == [v EXCEPT !.nodes = N, !.edges = E]
<1>0. IsOwners(t)
  BY DEF Sound
<1>1. /\ IsOwners(v) /\ v.gaps = G /\ \A f \in OwnerFields \ {"gaps"} : v[f] = t[f]
  BY <1>0 DEF IsOwners, OwnerFields
<1>2. PartialUpdates(v) = u
  <2>1. v.nodes = t.nodes /\ v.edges = t.edges /\ v.gaps = G
    BY <1>1 DEF OwnerFields
  <2> HIDE DEF v
  <2> QED BY <2>1 DEF PartialUpdates, Present, Linked
<1>3. ASSUME NEW a \in Actors
      PROVE  /\ N[a] # NoNode <=> Present(t, a)
             /\ Present(t, a) => /\ N[a].state = t.nodes[a].state
                                 /\ N[a].stale = t.nodes[a].stale
                                 /\ N[a].ghostAt = t.nodes[a].ghostAt
  <2>1. CASE Present(t, a)
    <3> DEFINE n == t.nodes[a]
               p == NodePartial(n, G)
               m == [n EXCEPT !.partial = p]
    <3>1. IsNode(n)
      BY <1>0, <2>1, PresentIsNode
    <3>2. N[a] = m
      BY <2>1
    <3> HIDE DEF N, p
    <3>3. m.ghostAt = n.ghostAt /\ m.stale = n.stale /\ m.state = n.state
      BY <3>1, MarkTimes
    <3>4. IsNode(m)
      BY <3>1, MarkIs
    <3> QED BY <2>1, <3>2, <3>3, <3>4, NodeShows
  <2>2. CASE ~Present(t, a)
    BY <2>2
  <2> QED BY <2>1, <2>2
<1> HIDE DEF N, E
<1>4. u.nodes = N /\ u.error = t.error /\ \A f \in TimeFields : u[f] = t[f]
  <2>1. v.error = t.error /\ \A f \in TimeFields : v[f] = t[f]
    BY <1>1 DEF OwnerFields, TimeFields
  <2> HIDE DEF v
  <2> QED BY <1>1, <2>1 DEF IsOwners, OwnerFields, TimeFields
<1> HIDE DEF u
<1>5. \A a \in Actors : Alike(t, u, a)
  BY <1>3, <1>4 DEF Alike, Present
<1>6. InTime(u, c, now)
  BY <1>5, AlikeInTime
<1> QED BY <1>2, <1>4, <1>6 DEF u, v

LEMMA GapInTime ==
  ASSUME NEW t, Well(t), NEW e, NEW c, NEW now, InTime(t, c, now)
  PROVE  InTime(StageGap(t, e), c, now)
<1> DEFINE G == IF e.resolved THEN t.gaps \ {ObservedGap(e)} ELSE t.gaps \cup {ObservedGap(e)}
<1> HIDE DEF G
<1>1. InTime(PartialUpdates([t EXCEPT !.gaps = G]), c, now)
  BY PartialUpdatesInTime DEF Well
<1> QED BY <1>1 DEF StageGap, G

LEMMA DiagnosedInTime ==
  ASSUME NEW t, Well(t), NEW e, NEW refusal, NEW c, NEW now, InTime(t, c, now)
  PROVE  InTime(Diagnosed(t, e, refusal), c, now) /\ Diagnosed(t, e, refusal).error = t.error
<1> DEFINE own == CASE refusal \in {"count", "history"} -> Catchall
                    [] refusal = "regime" -> GapKey(e.source.id, EventCapability(e), "schema")
                    [] refusal = "cycle" -> GapKey(e.source.id, "spawn", "collision")
                    [] OTHER -> GapKey(e.source.id, EventCapability(e), "collision")
           row == IF own # Catchall /\ RowsFull(t.gaps, own) THEN Catchall ELSE own
           G == t.gaps \cup {row}
           u == PartialUpdates([t EXCEPT !.gaps = G])
<1>1. Diagnosed(t, e, refusal) = u
  BY DEF Diagnosed
<1> HIDE DEF G
<1>2. InTime(u, c, now) /\ u.error = t.error
  BY PartialUpdatesInTime DEF Well
<1> QED BY <1>1, <1>2

LEMMA PinInTime ==
  ASSUME NEW t, IsOwners(t), NEW a \in Actors, Present(t, a), NEW b, NEW c, NEW now,
         InTime(t, c, now)
  PROVE  LET u == [t EXCEPT !.nodes[a].pinned = b] IN
         InTime(u, c, now) /\ u.error = t.error
<1> DEFINE m == [t.nodes[a] EXCEPT !.pinned = b]
           u == [t EXCEPT !.nodes[a] = m]
<1>1. [t EXCEPT !.nodes[a].pinned = b] = u
  OBVIOUS
<1>2. /\ IsNode(m) /\ m.ghostAt = t.nodes[a].ghostAt
      /\ m.stale = t.nodes[a].stale /\ m.state = t.nodes[a].state
  BY PresentIsNode, SetField DEF NodeFields
<1> HIDE DEF m
<1>3. /\ u.nodes[a] = m /\ \A x \in Actors \ {a} : u.nodes[x] = t.nodes[x]
      /\ u.error = t.error /\ \A f \in TimeFields : u[f] = t[f]
  BY DEF IsOwners, OwnerFields, TimeFields
<1> HIDE DEF u
<1>4. \A x \in Actors : Alike(t, u, x)
  BY <1>2, <1>3, NodeShows DEF Alike, Present
<1>5. InTime(u, c, now)
  BY <1>4, AlikeInTime
<1> QED BY <1>1, <1>3, <1>5

LEMMA MessageExpiryInTime ==
  ASSUME NEW t, Well(t), NEW d, NEW c, NEW now, InTime(t, c, now)
  PROVE  LET u == MessageExpiry(t, d) IN
         /\ InTime(u, c, now) /\ u.nodes = t.nodes /\ u.error = t.error
         /\ \A f \in TimeFields : u[f] = t[f]
<1> DEFINE u == MessageExpiry(t, d)
<1>1. PICK X, E, H : u = [t EXCEPT !.expiry = X, !.edges = E, !.history = H]
  BY DEF MessageExpiry
<1> HIDE DEF u
<1>2. u.nodes = t.nodes /\ u.error = t.error /\ \A f \in TimeFields : u[f] = t[f]
  BY <1>1 DEF Well, Sound, IsOwners, OwnerFields, TimeFields
<1>3. InTime(u, c, now)
  BY <1>2, BesideInTime
<1> QED BY <1>2, <1>3 DEF u

(* An actor that goes leaves nothing, the others are left alone.            *)
Departed(t, u, d, scope) ==
  /\ u.error = t.error
  /\ \A a \in Actors :
       IF a \in scope /\ GhostOver(t.nodes[a], d)
       THEN ~Present(u, a) /\ Bare(u, a)
       ELSE u.nodes[a] = t.nodes[a] /\ \A f \in TimeFields : u[f][a] = t[f][a]

LEMMA GhostExpiryClears ==
  ASSUME NEW t, Well(t), NEW d, NEW scope
  PROVE  Departed(t, GhostExpiry(t, d, scope), d, scope)
<1> DEFINE u == GhostExpiry(t, d, scope)
           gone == {a \in scope : GhostOver(t.nodes[a], d)}
           clear(f, none) == [a \in Actors |-> IF a \in gone THEN none ELSE f[a]]
           cut == UNION {EdgesOf(t, a, t.nodes[a].inc) : a \in gone}
           N == clear(t.nodes, NoNode)
           P == clear(t.proofs, <<>>)
           M == clear(t.metrics, <<>>)
           S == clear(t.states, <<>>)
           A == clear(t.approvals, <<>>)
           L == clear(t.health, {})
           E == [k \in EdgeKeys |-> IF k \in cut THEN NoEdge ELSE t.edges[k]]
           X == {x \in t.expiry : x.edge \notin cut}
           H == t.history - EdgeUnits(t, cut) - ActorUnits(t, gone)
           v == [t EXCEPT !.nodes = N, !.proofs = P, !.metrics = M, !.states = S,
                          !.approvals = A, !.health = L, !.edges = E, !.expiry = X,
                          !.history = H]
<1>1. u = v
  BY DEF GhostExpiry
<1> HIDE DEF u, E, X, H, M
<1>2. \A a \in Actors :
        IF a \in gone
        THEN N[a] = NoNode /\ P[a] = <<>> /\ S[a] = <<>> /\ A[a] = <<>> /\ L[a] = {}
        ELSE /\ N[a] = t.nodes[a] /\ P[a] = t.proofs[a] /\ S[a] = t.states[a]
             /\ A[a] = t.approvals[a] /\ L[a] = t.health[a]
  OBVIOUS
<1> HIDE DEF N, P, S, A, L
<1>3. /\ v.nodes = N /\ v.proofs = P /\ v.states = S /\ v.approvals = A /\ v.health = L
      /\ v.error = t.error
  BY DEF Well, Sound, IsOwners, OwnerFields
<1> HIDE DEF v
<1>4. Departed(t, v, d, scope)
  BY <1>2, <1>3 DEF Departed, Present, Bare, TimeFields
<1> QED BY <1>1, <1>4 DEF u

LEMMA GhostExpiryInTime ==
  ASSUME NEW t, NEW u, NEW d, NEW scope, Departed(t, u, d, scope), NEW c, NEW now,
         InTime(t, c, now)
  PROVE  InTime(u, c, now)
<1> SUFFICES ASSUME NEW a \in Actors PROVE Timely(u, a, c, now)
  BY DEF InTime
<1>1. CASE a \in scope /\ GhostOver(t.nodes[a], d)
  BY <1>1 DEF Departed, Timely
<1>2. CASE ~(a \in scope /\ GhostOver(t.nodes[a], d))
  <2>1. u.nodes[a] = t.nodes[a] /\ \A f \in TimeFields : u[f][a] = t[f][a]
    BY <1>2 DEF Departed
  <2> QED BY <2>1, AlikeRows, AlikeTimely DEF InTime
<1> QED BY <1>1, <1>2

-----------------------------------------------------------------------------
(* What a deadline brings in time.                                          *)

(* stageDueStateExpiry settles an actor.                                    *)
Due(t, a, now) == \/ \E e \in ToSet(t.states[a]) : ~Current(e, now)
                  \/ DueLanes(t, a, now) # {} \/ HealthMissing(t, a, now)

LEMMA TimelyLater ==
  ASSUME NEW t, NEW a, NEW c, NEW now \in Nat, NEW d \in Nat, d <= now, Timely(t, a, c, d)
  PROVE  Timely(t, a, c, now)
<1>1. 0..d \subseteq 0..now
  OBVIOUS
<1>2. FoldedBy(t, a, c, d) => FoldedBy(t, a, c, now)
  BY <1>1 DEF FoldedBy
<1> QED BY <1>2 DEF Timely

LEMMA LanesNotDue ==
  ASSUME NEW t, NEW a, FiledHealth(t.health[a]), NEW d \in Nat
  PROVE  \A h \in t.health[a] : h.source \notin DueLanes(t, a, d) => h.last + HookFreshness > d
<1> SUFFICES ASSUME NEW h \in t.health[a], h.source \notin DueLanes(t, a, d)
             PROVE  h.last + HookFreshness > d
  OBVIOUS
<1>1. ~(d >= h.last + HookFreshness)
  BY DEF DueLanes
<1>2. h.last + HookFreshness \in Nat
  BY EvidenceAssumption DEF FiledHealth
<1> DEFINE x == h.last + HookFreshness
<1>3. ~(d >= x) /\ x \in Nat
  BY <1>1, <1>2
<1> HIDE DEF x
<1>4. x > d
  BY ONLY <1>3, d \in Nat
<1> QED BY <1>4 DEF x

(* An actor that is not due stays in time.                                  *)
LEMMA NotDueTimely ==
  ASSUME NEW t, NEW a \in Actors, FiledActor(t, a), NEW c, NEW now, NEW d \in Nat,
         Timely(t, a, c, now), ~Due(t, a, d)
  PROVE  Timely(t, a, d, now)
<1>1. CASE ~Present(t, a)
  BY <1>1 DEF Timely
<1>2. CASE Present(t, a)
  <2>0. Fitting(t, a) /\ FoldedBy(t, a, c, now)
    BY <1>2 DEF Timely
  <2>1. LanesAhead(t, a, d)
    <3>1. DueLanes(t, a, d) = {} /\ FiledHealth(t.health[a])
      BY DEF Due, FiledActor
    <3> QED BY <3>1, LanesNotDue DEF LanesAhead
  <2>2. FoldedBy(t, a, d, now)
    <3>1. PICK f \in 0..now :
            /\ t.nodes[a].state = Shown(FoldState(t.states[a], t.approvals[a], t.health[a], f))
            /\ \A e \in ToSet(t.states[a]) : e.until <= f \/ e.until > c
      BY <2>0 DEF FoldedBy
    <3>2. ASSUME NEW e \in ToSet(t.states[a]) PROVE e.until <= f \/ e.until > d
      <4>1. e.until = 0 \/ d < e.until
        BY DEF Due, Current
      <4>2. e.until \in Nat
        BY MembersIn DEF FiledActor, FiledStates, StateRecords
      <4> QED BY <4>1, <4>2
    <3> QED BY <3>1, <3>2 DEF FoldedBy
  <2>3. PollAhead(t, a, d)
    <3> SUFFICES ASSUME t.nodes[a].ghostAt = 0, ~t.nodes[a].stale, Missing(t, a) # 0
                 PROVE  Missing(t, a) > d
      BY DEF PollAhead
    <3>1. ~Terminal(t.nodes[a].state.value)
      BY <2>0 DEF Fitting
    <3>2. ~(d >= Missing(t, a))
      BY <1>2, <3>1 DEF Due, HealthMissing, Missing
    <3>3. Missing(t, a) \in Nat
      BY MissingIs DEF Missing, FiledActor
    <3> QED BY <3>2, <3>3
  <2> QED BY <1>2, <2>0, <2>1, <2>2, <2>3 DEF Timely
<1> QED BY <1>1, <1>2

LEMMA DueIsPresent ==
  ASSUME NEW t, NEW a \in Actors, NEW c, NEW now, NEW d, Timely(t, a, c, now), Due(t, a, d)
  PROVE  Present(t, a)
<1> SUFFICES ASSUME ~Present(t, a) PROVE FALSE
  OBVIOUS
<1>1. t.states[a] = <<>> /\ t.health[a] = {}
  BY DEF Timely, Bare
<1>2. ToSet(<<>>) = {}
  BY DEF ToSet
<1> QED BY <1>1, <1>2 DEF Due, DueLanes, HealthMissing

(* An actor that is due is brought in time.                                 *)
LEMMA DueSettled ==
  ASSUME NEW u, Well(u), NEW a \in Actors, Present(u, a), NEW c, NEW now, Timely(u, a, c, now),
         NEW d \in Nat
  PROVE  LET lanes == DueLanes(u, a, d)
             v == Settle(u, a, d, lanes, PurgeHealth(u, a, lanes))
         IN v.error = "" => Timely(v, a, d, d) /\ \A b \in Actors \ {a} : Alike(u, v, b)
<1> DEFINE lanes == DueLanes(u, a, d)
           x == PurgeHealth(u, a, lanes)
           v == StateProjection(x, a, d)
           w == FoldState(x.states[a], x.approvals[a], x.health[a], d)
           silent == \E p \in ToSet(u.proofs[a]) : /\ p.source.authority = Native
                                                   /\ HealthKey(p.source) \in lanes
           suspect == silent \/ HealthMissing(x, a, d)
           dead == ~Terminal(v.nodes[a].state.value)
                     /\ UnheardOf(v.proofs[a], v.health[a], d)
           y == MarkStale(v, a, d, suspect)
<1>1. Settle(u, a, d, lanes, x) = y
  BY DEF Settle
<1>6. y = IF v.error # "" \/ ~suspect THEN v ELSE StaleBit(v, a, dead)
  BY DEF MarkStale
<1> HIDE DEF v, w, y, suspect, silent, dead
<1> SUFFICES ASSUME y.error = ""
             PROVE  Timely(y, a, d, d) /\ \A b \in Actors \ {a} : Alike(u, y, b)
  BY <1>1
<1>2. IsOwners(u) /\ Filed(u) /\ FiledActor(u, a) /\ FiledHealth(u.health[a])
  BY WellHistory DEF Filed, FiledActor
<1>3. x.proofs[a] = u.proofs[a] /\ x.health[a] = {h \in u.health[a] : h.source \notin lanes}
  <2> HIDE DEF lanes
  <2>1. IsOwners(u) /\ Filed(u)
    BY <1>2
  <2> QED BY ONLY <2>1, a \in Actors, PurgeLanes
<1>4. Redone(u, x, a)
  BY WellHistory, PurgeAside, AsideKeeps, PurgeBooks DEF Well, Redone
<1>5. \A h \in u.health[a] : h.source \notin lanes => h.last + HookFreshness > d
  BY <1>2, LanesNotDue
<1> HIDE DEF lanes, x
<1>7. x.nodes = u.nodes /\ Edited(u, x, a)
  BY <1>4 DEF Redone, Refiled, Edited, StillFields
<1>8. Well(x) /\ IsOwners(x) /\ FiledActor(x, a)
  <2>1. Well(x)
    BY <1>4, RedoneWell
  <2> QED BY <2>1, WellHistory DEF Filed
<1>9. Fitting(u, a)
  BY DEF Timely
<1>10. Sustained(x, a, d)
  <2>1. LanesAhead(x, a, d)
    BY <1>3, <1>5 DEF LanesAhead
  <2> QED BY <1>3, <1>7, <1>9, <2>1 DEF Sustained, Fitting
<1>11. Present(x, a)
  BY <1>7 DEF Present
<1>12. /\ Projected(x, v, a, w) /\ Fitting(v, a) /\ LanesAhead(v, a, d)
       /\ FoldedBy(v, a, d, d)
  <2>1. d <= d
    BY ONLY d \in Nat
  <2> QED BY <1>8, <1>10, <1>11, <2>1, RefoldedFits DEF v, w
<1>13. /\ IsOwners(v) /\ Present(v, a) /\ v.proofs[a] = x.proofs[a] /\ v.health[a] = x.health[a]
       /\ \A b \in Actors \ {a} : Alike(u, v, b)
  <2>1. /\ IsOwners(v) /\ Present(v, a) /\ \A f \in TimeFields : v[f] = x[f]
        /\ \A b \in Actors \ {a} : v.nodes[b] = x.nodes[b]
    BY <1>12 DEF Projected
  <2>2. v.proofs = x.proofs /\ v.health = x.health
    BY <2>1 DEF TimeFields
  <2>3. ASSUME NEW b \in Actors \ {a} PROVE Alike(u, v, b)
    <3>1. Alike(u, x, b)
      BY <1>7, AlikeElsewhere
    <3>2. Alike(x, v, b)
      BY <2>1, AlikeRows
    <3> QED BY <3>1, <3>2, AlikeAgain
  <2> QED BY <2>1, <2>2, <2>3
<1>14. FiledProofs(v.proofs[a])
  BY <1>8, <1>13 DEF FiledActor
<1>15. CASE v.error = "" /\ suspect
  <2> DEFINE z == StaleBit(v, a, dead)
  <2>1. y = z
    BY <1>6, <1>15
  <2>2. dead \in BOOLEAN
    BY DEF dead
  <2>3. dead => ~Terminal(v.nodes[a].state.value) /\ OnlyNative(v.proofs[a])
    BY DEF UnheardOf, dead
  <2>4. ~dead => (v.nodes[a].ghostAt = 0 /\ Missing(v, a) # 0 => Missing(v, a) > d)
    <3> SUFFICES ASSUME ~dead, v.nodes[a].ghostAt = 0, Missing(v, a) # 0 PROVE FALSE
      OBVIOUS
    <3>1. UnheardOf(v.proofs[a], v.health[a], d)
      BY <1>14, MissingUnheard DEF Missing
    <3>2. Terminal(v.nodes[a].state.value)
      BY <3>1 DEF dead
    <3> QED BY <1>12, <3>2 DEF Fitting
  <2>5. Timely(z, a, d, d)
    BY <1>12, <1>13, <2>2, <2>3, <2>4, StaleBitTimely
  <2>6. Staled(v, z, a, dead)
    BY <1>13, StaleBitTimes
  <2> HIDE DEF z
  <2>7. \A b \in Actors \ {a} : Alike(v, z, b)
    BY <2>6, AlikeRows DEF Staled
  <2> QED BY <1>13, <2>1, <2>5, <2>7, AlikeAgain
<1>16. CASE v.error = "" /\ ~suspect
  <2>1. y = v
    BY <1>6, <1>16
  <2>2. PollAhead(v, a, d)
    <3> SUFFICES ASSUME v.nodes[a].ghostAt = 0, ~v.nodes[a].stale, Missing(v, a) # 0
                 PROVE  Missing(v, a) > d
      BY DEF PollAhead
    <3>1. ~Terminal(w.value)
      <4>1. Terminal(v.nodes[a].state.value) => v.nodes[a].ghostAt # 0
        BY <1>12 DEF Fitting
      <4>2. v.nodes[a].state.value = w.value
        <5>1. v.nodes[a].state = Shown(w)
          BY <1>12 DEF Projected
        <5> QED BY ONLY <5>1 DEF Shown
      <4> QED BY <4>1, <4>2
    <3>2. u.nodes[a].ghostAt = 0 /\ ~u.nodes[a].stale
      <4>1. x.nodes[a].ghostAt = 0 /\ v.nodes[a].stale = (x.nodes[a].stale /\ ~Terminal(w.value))
        BY <1>12, <3>1 DEF Projected
      <4> QED BY <1>7, <3>1, <4>1
    <3>3. ~Terminal(x.nodes[a].state.value) /\ ~x.nodes[a].stale
      BY <1>7, <1>9, <3>2 DEF Fitting
    <3>4. Missing(v, a) = MissingHealthDeadline(x.proofs[a], x.health[a])
      BY <1>13 DEF Missing
    <3>5. ~(d >= Missing(v, a))
      BY <1>11, <1>16, <3>3, <3>4 DEF HealthMissing, suspect
    <3>6. Missing(v, a) \in Nat
      BY <1>14, MissingIs DEF Missing
    <3> DEFINE m == Missing(v, a)
    <3>7. ~(d >= m) /\ m \in Nat
      BY <3>5, <3>6
    <3> HIDE DEF m
    <3>8. m > d
      BY ONLY <3>7, d \in Nat
    <3> QED BY <3>8 DEF m
  <2> QED BY <1>12, <1>13, <2>1, <2>2 DEF Timely
<1>17. v.error = ""
  BY <1>6
<1> QED BY <1>15, <1>16, <1>17

(* Those already settled are in time, the others as they were.              *)
SettledBy(t, u, s, d) ==
  \A a \in Actors : IF a \in s THEN Timely(u, a, d, d) ELSE Alike(t, u, a)

LEMMA AlikeDue ==
  ASSUME NEW t, NEW u, NEW a, Alike(t, u, a), NEW d
  PROVE  DueLanes(u, a, d) = DueLanes(t, a, d)
BY DEF Alike, TimeFields, DueLanes

LEMMA SettleOneInTime ==
  ASSUME NEW t, NEW c, NEW now, InTime(t, c, now), NEW d \in Nat,
         NEW u, Well(u), NEW s, SettledBy(t, u, s, d), NEW a \in Actors, a \notin s,
         Due(t, a, d), u.error = "", SettleOne(t, d, a, u).error = ""
  PROVE  SettledBy(t, SettleOne(t, d, a, u), s \cup {a}, d)
<1> DEFINE lanes == DueLanes(u, a, d)
           v == Settle(u, a, d, lanes, PurgeHealth(u, a, lanes))
<1>1. Alike(t, u, a) /\ Timely(t, a, c, now)
  BY DEF SettledBy, InTime
<1>2. SettleOne(t, d, a, u) = v
  <2>1. lanes = DueLanes(t, a, d)
    <3>1. Alike(t, u, a)
      BY <1>1
    <3> QED BY ONLY <3>1, AlikeDue
  <2> HIDE DEF lanes
  <2> QED BY <2>1 DEF SettleOne
<1>3. Present(u, a)
  BY <1>1, DueIsPresent DEF Alike
<1>4. Timely(u, a, c, now)
  BY <1>1, AlikeTimely
<1>5. Timely(v, a, d, d) /\ \A b \in Actors \ {a} : Alike(u, v, b)
  BY <1>2, <1>3, <1>4, DueSettled
<1> HIDE DEF v
<1>6. ASSUME NEW b \in Actors
      PROVE  IF b \in s \cup {a} THEN Timely(v, b, d, d) ELSE Alike(t, v, b)
  <2>1. CASE b = a
    BY <1>5, <2>1
  <2>2. CASE b # a /\ b \in s
    BY <1>5, <2>2, AlikeTimely DEF SettledBy
  <2>3. CASE b # a /\ b \notin s
    BY <1>5, <2>3, AlikeAgain DEF SettledBy
  <2> QED BY <2>1, <2>2, <2>3
<1> QED BY <1>2, <1>6 DEF SettledBy

LEMMA AlikeNot == ASSUME NEW t, NEW a PROVE Alike(t, t, a)
BY DEF Alike

LEMMA SettlesInTime ==
  ASSUME NEW t, Well(t), NEW c, NEW now, InTime(t, c, now), NEW d \in Nat,
         NEW S, S \subseteq Actors, IsFiniteSet(S), \A a \in S : Due(t, a, d),
         NEW f, Settles(f, t, d, S)
  PROVE  f[S].error = "" => SettledBy(t, f[S], S, d)
<1> DEFINE Good(s) == Well(f[s]) /\ (f[s].error = "" => SettledBy(t, f[s], s, d))
           bad == {s \in SUBSET S : ~Good(s)}
<1>1. ASSUME bad # {} PROVE FALSE
  <2>0. bad \subseteq SUBSET S
    OBVIOUS
  <2>1. PICK least \in bad : \A b \in bad : b \subseteq least => b = least
    <3> HIDE DEF bad
    <3> QED BY <1>1, <2>0, SmallestException
  <2>2. least \in SUBSET S /\ ~Good(least)
    BY <2>1
  <2>3. least # {}
    <3> SUFFICES ASSUME least = {} PROVE FALSE
      OBVIOUS
    <3>1. f[least] = t
      BY <2>2 DEF Settles
    <3>2. SettledBy(t, t, {}, d)
      BY AlikeNot DEF SettledBy
    <3> QED BY <2>2, <3>1, <3>2
  <2>4. Chosen(least) \in least
    BY <2>3, PickMember
  <2> DEFINE rest == least \ {Chosen(least)}
             u == f[rest]
             a == Chosen(least)
             v == SettleOne(t, d, a, u)
             lanes == DueLanes(t, a, d)
  <2>5. rest \in SUBSET S /\ rest \subseteq least /\ rest # least /\ a \notin rest
    BY <2>2, <2>4
  <2>6. Well(u) /\ (u.error = "" => SettledBy(t, u, rest, d))
    BY <2>1, <2>5
  <2>7. f[least] = v
    BY <2>2, <2>3 DEF Settles
  <2>8. a \in Actors /\ Due(t, a, d) /\ least = rest \cup {a}
    BY <2>2, <2>4
  <2>9. v = IF u.error # "" THEN u
            ELSE Settle(u, a, d, lanes, PurgeHealth(u, a, lanes))
    BY DEF SettleOne
  <2> HIDE DEF v, u, lanes, a, rest
  <2>10. Well(v)
    BY <2>6, <2>8, <2>9, SettleWell
  <2>11. v.error = "" => u.error = ""
    BY <2>9
  <2>12. v.error = "" => SettledBy(t, v, rest \cup {a}, d)
    <3> SUFFICES ASSUME v.error = "" PROVE SettledBy(t, v, rest \cup {a}, d)
      OBVIOUS
    <3> QED BY <2>5, <2>6, <2>8, <2>11, SettleOneInTime DEF v
  <2> QED BY <2>2, <2>7, <2>8, <2>10, <2>12
<1>2. S \notin bad
  BY <1>1
<1> QED BY <1>2

LEMMA DueInTime ==
  ASSUME NEW t, Well(t), NEW c, NEW now \in Nat, InTime(t, c, now), NEW d \in Nat, d <= now,
         DueStateExpiry(t, d).error = ""
  PROVE  InTime(DueStateExpiry(t, d), d, now)
<1> DEFINE S == {a \in Actors : \/ \E e \in ToSet(t.states[a]) : ~Current(e, d)
                                \/ DueLanes(t, a, d) # {} \/ HealthMissing(t, a, d)}
           f == CHOOSE h : Settles(h, t, d, S)
           u == f[S]
<1>1. S \subseteq Actors /\ IsFiniteSet(S)
  BY FS_Subset, ReducerAssumption
<1>2. DueStateExpiry(t, d) = u
  <2> HIDE DEF S
  <2> QED BY DEF DueStateExpiry, FoldSet, MapThenFoldSet, Settles, SettleOne, Chosen, S
<1>3. \A a \in Actors : a \in S <=> Due(t, a, d)
  BY DEF Due
<1> HIDE DEF S
<1>4. Settles(f, t, d, S)
  BY <1>1, SettlesExist
<1> HIDE DEF f
<1>5. SettledBy(t, u, S, d)
  BY <1>1, <1>2, <1>3, <1>4, SettlesInTime
<1> HIDE DEF u
<1>6. ASSUME NEW a \in Actors PROVE Timely(u, a, d, now)
  <2>1. CASE a \in S
    BY <1>5, <2>1, TimelyLater DEF SettledBy
  <2>2. CASE a \notin S
    <3>1. Timely(t, a, d, now)
      BY <1>3, <2>2, WellHistory, NotDueTimely DEF Filed, InTime
    <3> QED BY <1>5, <2>2, <3>1, AlikeTimely DEF SettledBy
  <2> QED BY <2>1, <2>2
<1> QED BY <1>2, <1>6 DEF InTime

LEMMA AdvancedInTime ==
  ASSUME NEW t, Well(t), NEW c, NEW now \in Nat, InTime(t, c, now), NEW d \in Nat, d <= now,
         Advanced(t, d).error = ""
  PROVE  InTime(Advanced(t, d), d, now)
<1> DEFINE m == MessageExpiry(t, d)
           g == GhostExpiry(m, d, Actors)
           u == DueStateExpiry(g, d)
<1>1. Advanced(t, d) = u
  BY DEF Advanced
<1>2. Well(m) /\ InTime(m, c, now)
  BY MessageExpiryWell, MessageExpiryInTime
<1> HIDE DEF m
<1>3. Well(g) /\ InTime(g, c, now)
  BY <1>2, GhostExpiryWell, GhostExpiryClears, GhostExpiryInTime
<1> HIDE DEF g
<1> QED BY <1>1, <1>3, DueInTime

-----------------------------------------------------------------------------
(* Every step leaves the actors in time.                                    *)

(* While the graph runs they are in time for the cursor; what stopped it    *)
(* left them as they were.                                                  *)
TimeInv ==
  /\ owners.error = ""
  /\ \E c \in 0..clock : InTime(owners, c, clock) /\ (outcome = "" => c = cursor)

(* An event is heard of before the heartbeat it brings is overdue.          *)
Prompt == Delay < HookFreshness

LEMMA TimeInvRuns ==
  ASSUME RecInv, TimeInv, outcome = ""
  PROVE  /\ Well(owners) /\ InTime(owners, cursor, clock) /\ owners.error = ""
         /\ cursor \in Nat /\ clock \in Nat /\ cursor <= clock /\ cursor \in 0..clock
<1>1. Well(owners) /\ owners.error = "" /\ InTime(owners, cursor, clock)
  BY DEF RecInv, InOrder, TimeInv
<1>2. clock \in 1..Horizon /\ cursor \in 0..clock /\ Horizon \in Nat
  BY ReducerAssumption DEF RecInv
<1>3. clock \in Nat /\ cursor \in Nat /\ cursor <= clock
  BY ONLY <1>2
<1> QED BY <1>1, <1>2, <1>3

LEMMA CommitTimes ==
  ASSUME NEW u, u.error = "", Commit(u), clock' = clock, cursor' \in 0..clock,
         InTime(u, cursor', clock)
  PROVE  TimeInv'
<1>1. owners' = u
  BY DEF Commit
<1> QED BY <1>1 DEF TimeInv

LEMMA FinishedTimes ==
  ASSUME RecInv, TimeInv, outcome = "", NEW u, Finished(u), clock' = clock,
         cursor' \in 0..clock, u.error = "" => InTime(u, cursor', clock)
  PROVE  TimeInv'
<1>1. CASE u.error = ""
  BY <1>1, CommitTimes DEF Finished
<1>2. CASE u.error # ""
  <2>1. owners' = owners /\ outcome' # ""
    BY <1>2 DEF Finished, Break
  <2>2. InTime(owners, cursor, clock) /\ cursor \in 0..clock /\ owners.error = ""
    BY TimeInvRuns
  <2> QED BY <2>1, <2>2 DEF TimeInv
<1> QED BY <1>1, <1>2

LEMMA FinishTimes ==
  ASSUME RecInv, TimeInv, outcome = "", NEW e, NEW u, Finish(e, u),
         u.error = "" => InTime(u, cursor, clock)
  PROVE  TimeInv'
<1> DEFINE g == Diagnosed(owners, e, "history")
           v == IF u.error = "" /\ u.history > HistoryLimit THEN g ELSE u
<1>1. Finished(v) /\ clock' = clock /\ cursor' = cursor
  BY DEF Finish
<1>2. InTime(g, cursor, clock)
  BY TimeInvRuns, DiagnosedInTime
<1> HIDE DEF g
<1>3. v.error = "" => InTime(v, cursor, clock)
  BY <1>2
<1> HIDE DEF v
<1>4. cursor' \in 0..clock /\ (v.error = "" => InTime(v, cursor', clock))
  BY <1>1, <1>3, TimeInvRuns
<1> QED BY <1>1, <1>4, FinishedTimes

LEMMA PromptArrives ==
  ASSUME RecInv, Prompt, NEW e, NEW at \in Nat, Arrives(e, at)
  PROVE  at + HookFreshness > cursor
<1>1. at + Delay >= clock
  BY DEF Arrives
<1>2. cursor \in Nat /\ clock \in Nat /\ cursor <= clock
  BY DEF RecInv
<1>3. Delay \in Nat /\ HookFreshness \in Nat /\ Delay < HookFreshness
  BY ReducerAssumption, EvidenceAssumption DEF Prompt
<1> QED BY ONLY <1>1, <1>2, <1>3, at \in Nat

LEMMA ObserveTimes ==
  ASSUME RecInv, TimeInv, Prompt, NEW e \in Events, NEW at \in 1..Horizon,
         \/ ObserveNode(e, at) \/ ObserveMetrics(e, at) \/ ObserveState(e, at)
         \/ ObserveHeartbeat(e, at) \/ ObserveExit(e, at) \/ ObserveRelationship(e, at)
         \/ ObserveMessage(e, at) \/ ObserveGap(e, at)
  PROVE  TimeInv'
<1> DEFINE t == Base(e, at)
<1>0. at \in Nat
  BY ReducerAssumption
<1>a. Arrives(e, at)
  BY DEF ObserveNode, ObserveMetrics, ObserveState, ObserveHeartbeat, ObserveExit,
         ObserveRelationship, ObserveMessage, ObserveGap, Accepted, Takes
<1>b. outcome = "" /\ at + HookFreshness > cursor
  BY <1>0, <1>a, PromptArrives DEF Arrives
<1>c. /\ Well(owners) /\ InTime(owners, cursor, clock) /\ owners.error = ""
      /\ cursor \in Nat /\ clock \in Nat /\ cursor <= clock
  BY <1>b, TimeInvRuns
<1>1. Well(t) /\ t.error = "" /\ InTime(t, cursor, clock)
  <2>1. Well(t)
    <3>1. at \in Nat \ {0}
      BY ReducerAssumption
    <3> QED BY <1>c, <3>1, CursorWell DEF Base
  <2>2. IsOwners(owners)
    BY <1>c DEF Well, Sound
  <2>3. InTime(t, cursor, clock) /\ t.error = owners.error
    BY <1>c, <2>2, CursorInTime DEF Base
  <2> QED BY <1>c, <2>1, <2>3
<1>d. \A u : (u.error = "" => InTime(u, cursor, clock)) /\ Finish(e, u) => TimeInv'
  BY <1>b, FinishTimes
<1> HIDE DEF t
<1>2. CASE ObserveNode(e, at)
  <2>1. Finish(e, StageNode(t, e, at))
    BY <1>2 DEF ObserveNode, t
  <2>2. InTime(StageNode(t, e, at), cursor, clock)
    BY <1>0, <1>b, <1>c, <1>1, NodeInTime
  <2> QED BY <1>d, <2>1, <2>2
<1>3. CASE ObserveMetrics(e, at)
  <2> DEFINE u == StageMetrics(t, e, at)
  <2>1. Finish(e, u)
    BY <1>3 DEF ObserveMetrics, t
  <2>2. u.error = "" => InTime(u, cursor, clock)
    BY <1>0, <1>1, MetricsInTime
  <2> HIDE DEF u
  <2> QED BY <1>d, <2>1, <2>2
<1>4. CASE ObserveState(e, at)
  <2> DEFINE u == StageState(t, e, at, clock)
  <2>1. Finish(e, u)
    BY <1>4 DEF ObserveState, t
  <2>2. u.error = "" => InTime(u, cursor, clock)
    BY <1>0, <1>b, <1>c, <1>1, StateInTime
  <2> HIDE DEF u
  <2> QED BY <1>d, <2>1, <2>2
<1>5. CASE ObserveHeartbeat(e, at)
  <2> DEFINE u == StageHeartbeat(t, e, at, clock)
  <2>1. Finish(e, u)
    BY <1>5 DEF ObserveHeartbeat, t
  <2>2. u.error = "" => InTime(u, cursor, clock)
    BY <1>0, <1>b, <1>c, <1>1, HeartbeatInTime
  <2> HIDE DEF u
  <2> QED BY <1>d, <2>1, <2>2
<1>6. CASE ObserveExit(e, at)
  <2> DEFINE u == StageExit(t, e, at, clock)
  <2>1. Finish(e, u)
    BY <1>6 DEF ObserveExit, t
  <2>2. u.error = "" => InTime(u, cursor, clock)
    BY <1>0, <1>c, <1>1, ExitInTime
  <2> HIDE DEF u
  <2> QED BY <1>d, <2>1, <2>2
<1>7. CASE ObserveRelationship(e, at)
  <2>1. /\ e.kind = "relationship" /\ Refusal(t, e) = ""
        /\ Finish(e, StageRelationship(t, e))
    BY <1>7 DEF ObserveRelationship, Accepted, t
  <2>2. RelationshipRefusal(t, e) = ""
    BY <2>1 DEF Refusal
  <2>3. InTime(StageRelationship(t, e), cursor, clock)
    BY <1>1, <2>1, <2>2, RelationshipInTime
  <2> QED BY <1>d, <2>1, <2>3
<1>8. CASE ObserveMessage(e, at)
  <2>1. /\ e.kind = "message" /\ Refusal(t, e) = ""
        /\ Finish(e, StageMessage(t, e, at))
    BY <1>8 DEF ObserveMessage, Accepted, t
  <2>2. MessageRefusal(t, e) = ""
    BY <2>1 DEF Refusal
  <2>3. InTime(StageMessage(t, e, at), cursor, clock)
    BY <1>0, <1>1, <2>1, <2>2, MessageInTime
  <2> QED BY <1>d, <2>1, <2>3
<1>9. CASE ObserveGap(e, at)
  <2>1. Finish(e, StageGap(t, e))
    BY <1>9 DEF ObserveGap, t
  <2>2. InTime(StageGap(t, e), cursor, clock)
    BY <1>1, GapInTime
  <2> QED BY <1>d, <2>1, <2>2
<1> QED BY <1>2, <1>3, <1>4, <1>5, <1>6, <1>7, <1>8, <1>9

LEMMA RefuseTimes ==
  ASSUME RecInv, TimeInv, NEW e, NEW at, Refuse(e, at)
  PROVE  TimeInv'
<1>1. PICK refusal : Commit(Diagnosed(owners, e, refusal))
  BY DEF Refuse
<1>2. outcome = "" /\ clock' = clock /\ cursor' = cursor
  BY DEF Refuse, Arrives
<1> DEFINE u == Diagnosed(owners, e, refusal)
<1>3. InTime(u, cursor, clock) /\ u.error = "" /\ cursor \in 0..clock
  BY <1>2, TimeInvRuns, DiagnosedInTime
<1> HIDE DEF u
<1> QED BY <1>1, <1>2, <1>3, CommitTimes DEF u

LEMMA PinTimes ==
  ASSUME RecInv, TimeInv, NEW a \in Actors, Pin(a) \/ Unpin(a)
  PROVE  TimeInv'
<1>1. outcome = "" /\ clock' = clock /\ cursor' = cursor /\ Present(owners, a)
  BY DEF Pin, Unpin
<1>2. /\ Well(owners) /\ IsOwners(owners) /\ InTime(owners, cursor, clock)
      /\ owners.error = "" /\ cursor \in 0..clock
  BY <1>1, TimeInvRuns DEF Well, Sound
<1>3. \A u : u.error = "" /\ Commit(u) /\ InTime(u, cursor, clock) => TimeInv'
  BY <1>1, <1>2, CommitTimes
<1>4. CASE Pin(a)
  <2> DEFINE b == TRUE
             u == [owners EXCEPT !.nodes[a].pinned = b]
  <2>1. Commit(u)
    BY <1>4 DEF Pin
  <2> HIDE DEF b
  <2>2. InTime(u, cursor, clock) /\ u.error = owners.error
    BY <1>1, <1>2, PinInTime
  <2> HIDE DEF u
  <2> QED BY <1>2, <1>3, <2>1, <2>2
<1>5. CASE Unpin(a)
  <2> DEFINE b == FALSE
             u == [owners EXCEPT !.nodes[a].pinned = b]
             v == GhostExpiry(u, clock, {a})
  <2>1. Commit(u) \/ Commit(v)
    BY <1>5 DEF Unpin
  <2> HIDE DEF b
  <2>2. Well(u) /\ InTime(u, cursor, clock) /\ u.error = owners.error
    BY <1>1, <1>2, PinWell, PinInTime
  <2> HIDE DEF u
  <2>3. InTime(v, cursor, clock) /\ v.error = u.error
    <3>1. Departed(u, v, clock, {a})
      BY <2>2, GhostExpiryClears
    <3> HIDE DEF v
    <3> QED BY <2>2, <3>1, GhostExpiryInTime DEF Departed
  <2> HIDE DEF v
  <2> QED BY <1>2, <1>3, <2>1, <2>2, <2>3
<1> QED BY <1>4, <1>5

LEMMA AdvanceTimes ==
  ASSUME RecInv, TimeInv, Advance
  PROVE  TimeInv'
<1> DEFINE S == NextDeadlines(owners, cursor)
           d == Min(S)
           u == Advanced(owners, d)
<1>0. Well(owners) /\ Shaped(owners) /\ clock \in Nat /\ InTime(owners, cursor, clock)
  BY TimeInvRuns DEF RecInv, InOrder, Advance
<1>1. d \in Nat
  <2>1. S \subseteq Nat
    BY <1>0, DeadlinesAreInstants DEF NextDeadlines
  <2>2. S # {}
    BY DEF Advance
  <2> HIDE DEF S
  <2> QED BY <2>1, <2>2, EarliestIs
<1>2. outcome = "" /\ d <= clock /\ cursor' = d /\ Finished(u) /\ clock' = clock
  BY DEF Advance
<1> HIDE DEF d
<1>3. u.error = "" => InTime(u, d, clock)
  BY <1>0, <1>1, <1>2, AdvancedInTime
<1> HIDE DEF u
<1>4. cursor' \in 0..clock
  <2>1. d \in 0..clock
    <3>1. d \in Nat /\ clock \in Nat /\ d <= clock
      BY <1>0, <1>1, <1>2
    <3> QED BY ONLY <3>1
  <2> QED BY <1>2, <2>1
<1> QED BY <1>2, <1>3, <1>4, FinishedTimes

LEMMA StepTimes ==
  ASSUME Prompt, RecInv, TimeInv, [Next]_vars
  PROVE  TimeInv'
<1>1. ASSUME NEW e \in Events, NEW at \in 1..Horizon,
             \/ ObserveNode(e, at) \/ ObserveMetrics(e, at) \/ ObserveState(e, at)
             \/ ObserveHeartbeat(e, at) \/ ObserveExit(e, at) \/ ObserveRelationship(e, at)
             \/ ObserveMessage(e, at) \/ ObserveGap(e, at)
      PROVE  TimeInv'
  BY <1>1, ObserveTimes
<1>2. ASSUME NEW e, NEW at, Refuse(e, at) PROVE TimeInv'
  BY <1>2, RefuseTimes
<1>3. ASSUME NEW a \in Pins, Pin(a) \/ Unpin(a) PROVE TimeInv'
  BY <1>3, PinTimes, ReducerAssumption
<1>4. ASSUME Tick PROVE TimeInv'
  <2>1. /\ outcome = "" /\ owners' = owners /\ outcome' = outcome /\ cursor' = cursor
        /\ clock' = clock + 1
    BY <1>4 DEF Tick
  <2>2. /\ InTime(owners, cursor, clock) /\ owners.error = "" /\ clock \in Nat
        /\ cursor \in Nat /\ cursor <= clock
    BY <2>1, TimeInvRuns
  <2>3. InTime(owners, cursor, clock + 1)
    BY <2>2, InTimeLater
  <2>4. cursor \in 0..(clock + 1)
    <3>1. clock \in Nat /\ cursor \in Nat /\ cursor <= clock
      BY <2>2
    <3> QED BY ONLY <3>1
  <2> QED BY <2>1, <2>2, <2>3, <2>4 DEF TimeInv
<1>5. ASSUME UNCHANGED vars PROVE TimeInv'
  <2>1. owners' = owners /\ outcome' = outcome /\ cursor' = cursor /\ clock' = clock
    BY <1>5 DEF vars
  <2> QED BY <2>1 DEF TimeInv
<1>6. ASSUME NEW e, NEW at, Ignore(e, at) PROVE TimeInv'
  <2>1. UNCHANGED vars
    BY <1>6 DEF Ignore
  <2> QED BY <1>5, <2>1
<1>7. Next \/ UNCHANGED vars
  OBVIOUS
<1>8. CASE Next
  <2> USE DEF Next
  <2> HIDE DEF TimeInv
  <2> QED BY <1>1, <1>2, <1>3, <1>4, <1>6, <1>8, AdvanceTimes
<1> QED BY <1>5, <1>7, <1>8

LEMMA NothingIsLate ==
  ASSUME Init
  PROVE  TimeInv
<1>1. clock = 1 /\ cursor = 0 /\ owners = NoOwners
  BY DEF Init
<1>2. \A a \in Actors : ~Present(NoOwners, a) /\ Bare(NoOwners, a)
  BY DEF NoOwners, Present, Bare
<1>3. NoOwners.error = ""
  BY DEF NoOwners
<1>4. InTime(owners, 0, 1)
  BY <1>1, <1>2 DEF InTime, Timely
<1>5. 0 \in 0..1
  OBVIOUS
<1> QED BY <1>1, <1>3, <1>4, <1>5 DEF TimeInv

LEMMA TimeInvAlways ==
  ASSUME Prompt
  PROVE  Spec => []TimeInv
<1>1. Init => TimeInv
  BY NothingIsLate
<1>2. RecInv /\ TimeInv /\ [Next]_vars => TimeInv'
  BY StepTimes
<1> QED BY <1>1, <1>2, RecInvAlways, PTL DEF Spec

-----------------------------------------------------------------------------
(* When no deadline is due nothing is overdue.                              *)

LEMMA DeadlinesNamed ==
  ASSUME NEW t, NEW a \in Actors
  PROVE  /\ \A e \in ToSet(t.states[a]) : e.until \in Deadlines(t)
         /\ \A h \in t.health[a] : h.last + HookFreshness \in Deadlines(t)
         /\ Present(t, a) /\ ~t.nodes[a].stale /\ ~Terminal(t.nodes[a].state.value) =>
              Missing(t, a) \in Deadlines(t)
<1> DEFINE S(b) == {e.until : e \in ToSet(t.states[b])}
           H(b) == {h.last + HookFreshness : h \in t.health[b]}
           M(b) == IF t.nodes[b].stale \/ Terminal(t.nodes[b].state.value) THEN {}
                   ELSE {MissingHealthDeadline(t.proofs[b], t.health[b])}
           G(b) == IF t.nodes[b].pinned THEN {} ELSE {t.nodes[b].ghostAt}
           N(b) == IF ~Present(t, b) THEN {} ELSE M(b) \cup G(b)
           X == {x.at : x \in t.expiry}
           R(b) == S(b) \cup H(b) \cup N(b)
<1>1. Deadlines(t) = X \cup UNION {R(b) : b \in Actors}
  BY DEF Deadlines
<1>2. \A e \in ToSet(t.states[a]) : e.until \in S(a)
  OBVIOUS
<1>3. \A h \in t.health[a] : h.last + HookFreshness \in H(a)
  OBVIOUS
<1>4. Present(t, a) /\ ~t.nodes[a].stale /\ ~Terminal(t.nodes[a].state.value) =>
        Missing(t, a) \in N(a)
  BY DEF Missing
<1> HIDE DEF S, H, N, X
<1>5. S(a) \subseteq R(a) /\ H(a) \subseteq R(a) /\ N(a) \subseteq R(a)
  OBVIOUS
<1> HIDE DEF R
<1>6. R(a) \subseteq UNION {R(b) : b \in Actors}
  OBVIOUS
<1>7. R(a) \subseteq Deadlines(t)
  BY <1>1, <1>6
<1> QED BY <1>2, <1>3, <1>4, <1>5, <1>7

(* Without a deadline on the way the cursor may as well be now.             *)
LEMMA QuietInTime ==
  ASSUME NEW t, Well(t), NEW c \in Nat, NEW now \in Nat, c <= now, InTime(t, c, now),
         Deadlines(t) \subseteq Nat, \A d \in Deadlines(t) : d > c => d > now
  PROVE  InTime(t, now, now)
<1> SUFFICES ASSUME NEW a \in Actors PROVE Timely(t, a, now, now)
  BY DEF InTime
<1>1. CASE ~Present(t, a)
  BY <1>1 DEF InTime, Timely
<1>2. CASE Present(t, a)
  <2>0. Fitting(t, a) /\ LanesAhead(t, a, c) /\ FoldedBy(t, a, c, now) /\ PollAhead(t, a, c)
    BY <1>2 DEF InTime, Timely
  <2>1. LanesAhead(t, a, now)
    BY <2>0, DeadlinesNamed DEF LanesAhead
  <2>2. FoldedBy(t, a, now, now)
    <3>1. PICK f \in 0..now :
            /\ t.nodes[a].state = Shown(FoldState(t.states[a], t.approvals[a], t.health[a], f))
            /\ \A e \in ToSet(t.states[a]) : e.until <= f \/ e.until > c
      BY <2>0 DEF FoldedBy
    <3>2. \A e \in ToSet(t.states[a]) : e.until <= f \/ e.until > now
      BY <3>1, DeadlinesNamed
    <3> QED BY <3>1, <3>2 DEF FoldedBy
  <2>3. PollAhead(t, a, now)
    <3> SUFFICES ASSUME t.nodes[a].ghostAt = 0, ~t.nodes[a].stale, Missing(t, a) # 0
                 PROVE  Missing(t, a) > now
      BY DEF PollAhead
    <3>1. Missing(t, a) > c
      BY <2>0 DEF PollAhead
    <3>2. ~Terminal(t.nodes[a].state.value)
      BY <2>0 DEF Fitting
    <3>3. Missing(t, a) \in Deadlines(t)
      BY <1>2, <3>2, DeadlinesNamed
    <3> QED BY <3>1, <3>3
  <2> QED BY <1>2, <2>0, <2>1, <2>2, <2>3 DEF Timely
<1> QED BY <1>1, <1>2

(* Purging no lane purges nothing.                                          *)
LEMMA PurgeNothing ==
  ASSUME NEW t, IsOwners(t), Filed(t), NEW a \in Actors
  PROVE  LET u == PurgeHealth(t, a, {}) IN
         /\ u.proofs[a] = t.proofs[a] /\ u.states[a] = t.states[a]
         /\ u.approvals[a] = t.approvals[a] /\ u.health[a] = t.health[a]
<1> DEFINE keeps(e) == \/ HealthKey(e.source) \notin {} \/ Terminal(e.value)
                       \/ e.source.authority = Native /\ e.source.mode = "immutable"
           s == Among(t.states[a], {e \in ToSet(t.states[a]) : keeps(e)})
           q == Among(t.approvals[a],
                         {e \in ToSet(t.approvals[a]) : HealthKey(e.source) \notin {}})
           h == {x \in t.health[a] : x.source \notin {}}
           H == t.history - (Len(t.states[a]) - Len(s)) - (Len(t.approvals[a]) - Len(q))
                             - Cardinality(t.health[a] \ h)
           u == [t EXCEPT !.states[a] = s, !.approvals[a] = q, !.health[a] = h, !.history = H]
<1>1. PurgeHealth(t, a, {}) = u
  BY DEF PurgeHealth
<1>2. {e \in ToSet(t.states[a]) : keeps(e)} = ToSet(t.states[a])
  OBVIOUS
<1>3. {e \in ToSet(t.approvals[a]) : HealthKey(e.source) \notin {}} = ToSet(t.approvals[a])
  OBVIOUS
<1>4. h = t.health[a]
  OBVIOUS
<1>5. t.states[a] \in Seq(StateRecords) /\ t.approvals[a] \in Seq(ApprovalRecords)
  BY DEF Filed, FiledActor, FiledStates, FiledApprovals
<1>6. s = t.states[a]
  BY <1>2, <1>5, AmongAll
<1>7. q = t.approvals[a]
  BY <1>3, <1>5, AmongAll
<1> HIDE DEF s, q, h, H
<1>8. u.proofs[a] = t.proofs[a] /\ u.states[a] = s /\ u.approvals[a] = q /\ u.health[a] = h
  BY DEF IsOwners, OwnerFields, Filed, EvidenceFields
<1> QED BY <1>1, <1>4, <1>6, <1>7, <1>8

(* The actor is shown as before.                                            *)
Still(t, u, a) ==
  /\ Present(u, a) <=> Present(t, a)
  /\ Present(t, a) => /\ u.nodes[a].state = t.nodes[a].state
                      /\ t.nodes[a].ghostAt = 0 => /\ u.nodes[a].ghostAt = 0
                                                   /\ u.nodes[a].stale = t.nodes[a].stale

LEMMA StillSettled ==
  ASSUME NEW u, Well(u), NEW a \in Actors, Present(u, a), NEW now \in Nat,
         Timely(u, a, now, now)
  PROVE  LET y == Settle(u, a, now, {}, PurgeHealth(u, a, {}))
         IN Still(u, y, a) /\ \A b \in Actors \ {a} : Alike(u, y, b)
<1> DEFINE x == PurgeHealth(u, a, {})
           v == StateProjection(x, a, now)
           w == FoldState(x.states[a], x.approvals[a], x.health[a], now)
           silent == \E p \in ToSet(u.proofs[a]) : /\ p.source.authority = Native
                                                   /\ HealthKey(p.source) \in {}
           suspect == silent \/ HealthMissing(x, a, now)
           dead == ~Terminal(v.nodes[a].state.value)
                     /\ UnheardOf(v.proofs[a], v.health[a], now)
           y == MarkStale(v, a, now, suspect)
<1>1. Settle(u, a, now, {}, x) = y
  BY DEF Settle
<1>2. y = IF v.error # "" \/ ~suspect THEN v ELSE StaleBit(v, a, dead)
  BY DEF MarkStale
<1> HIDE DEF v, w, y, suspect, dead
<1> SUFFICES Still(u, y, a) /\ \A b \in Actors \ {a} : Alike(u, y, b)
  BY <1>1
<1>0. ~silent
  OBVIOUS
<1> HIDE DEF silent
<1>3. IsOwners(u) /\ Filed(u) /\ FiledActor(u, a)
  BY WellHistory DEF Filed
<1>4. /\ x.proofs[a] = u.proofs[a] /\ x.states[a] = u.states[a]
      /\ x.approvals[a] = u.approvals[a] /\ x.health[a] = u.health[a]
  BY ONLY <1>3, a \in Actors, PurgeNothing
<1>5. Redone(u, x, a)
  <2> DEFINE none == {}
  <2>1. x = PurgeHealth(u, a, none)
    OBVIOUS
  <2> HIDE DEF none, x
  <2> QED BY <2>1, WellHistory, PurgeAside, AsideKeeps, PurgeBooks DEF Well, Redone
<1> HIDE DEF x
<1>6. x.nodes = u.nodes /\ Edited(u, x, a)
  BY <1>5 DEF Redone, Refiled, Edited, StillFields
<1>7. IsOwners(x) /\ Present(x, a)
  <2>1. Well(x)
    BY <1>5, RedoneWell
  <2> QED BY <1>6, <2>1, WellHistory DEF Present
<1>8. Projected(x, v, a, w)
  BY <1>7, ProjectionTimes DEF v, w
<1>9. /\ Fitting(u, a) /\ LanesAhead(u, a, now) /\ FoldedBy(u, a, now, now)
      /\ PollAhead(u, a, now)
  BY DEF Timely
<1>10. u.nodes[a].state = Shown(w)
  <2>1. PICK f \in 0..now :
          /\ u.nodes[a].state = Shown(FoldState(u.states[a], u.approvals[a], u.health[a], f))
          /\ \A e \in ToSet(u.states[a]) : e.until <= f \/ e.until > now
    BY <1>9 DEF FoldedBy
  <2>2. FiledStates(u.states[a]) /\ FiledApprovals(u.approvals[a]) /\ FiledHealth(u.health[a])
    BY <1>3 DEF FiledActor
  <2>3. f \in Nat /\ f <= now
    OBVIOUS
  <2>4. \A h \in u.health[a] : h.last + HookFreshness > now
    BY <1>9 DEF LanesAhead
  <2>5. FoldState(u.states[a], u.approvals[a], u.health[a], f)
          = FoldState(u.states[a], u.approvals[a], u.health[a], now)
    BY <2>1, <2>2, <2>3, <2>4, FoldsAlike
  <2> QED BY <1>4, <2>1, <2>5 DEF w
<1>11. u.nodes[a].ghostAt = 0 => ~Terminal(w.value)
  <2>1. u.nodes[a].state.value = w.value
    BY ONLY <1>10 DEF Shown
  <2> QED BY <1>9, <2>1 DEF Fitting
<1>12. /\ IsOwners(v) /\ Present(v, a) /\ v.nodes[a].state = u.nodes[a].state
       /\ \A b \in Actors \ {a} : Alike(u, v, b)
  <2>1. /\ IsOwners(v) /\ Present(v, a) /\ v.nodes[a].state = Shown(w)
        /\ \A f \in TimeFields : v[f] = x[f]
        /\ \A b \in Actors \ {a} : v.nodes[b] = x.nodes[b]
    BY <1>8 DEF Projected
  <2>2. ASSUME NEW b \in Actors \ {a} PROVE Alike(u, v, b)
    <3>1. Alike(u, x, b)
      BY <1>6, AlikeElsewhere
    <3>2. Alike(x, v, b)
      BY <2>1, AlikeRows
    <3> QED BY <3>1, <3>2, AlikeAgain
  <2> QED BY <1>10, <2>1, <2>2
<1>13. u.nodes[a].ghostAt = 0 => v.nodes[a].ghostAt = 0 /\ v.nodes[a].stale = u.nodes[a].stale
  <2> SUFFICES ASSUME u.nodes[a].ghostAt = 0
               PROVE  v.nodes[a].ghostAt = 0 /\ v.nodes[a].stale = u.nodes[a].stale
    OBVIOUS
  <2>1. /\ v.nodes[a].stale = (x.nodes[a].stale /\ ~Terminal(w.value))
        /\ v.nodes[a].ghostAt = x.nodes[a].ghostAt
    BY <1>8, <1>11 DEF Projected
  <2>2. u.nodes[a].stale \in BOOLEAN
    BY <1>9 DEF Fitting
  <2> QED BY <1>6, <1>11, <2>1, <2>2
<1>14. u.nodes[a].ghostAt = 0 => ~suspect
  <2> SUFFICES ASSUME u.nodes[a].ghostAt = 0, suspect PROVE FALSE
    OBVIOUS
  <2>1. Missing(u, a) # 0 /\ now >= Missing(u, a) /\ ~u.nodes[a].stale
    BY <1>0, <1>4, <1>6 DEF suspect, HealthMissing, Missing
  <2>2. Missing(u, a) > now
    BY <1>9, <2>1 DEF PollAhead
  <2>3. Missing(u, a) \in Nat
    BY <1>3, MissingIs DEF Missing, FiledActor
  <2> DEFINE m == Missing(u, a)
  <2>4. now >= m /\ m > now /\ m \in Nat
    BY <2>1, <2>2, <2>3
  <2> HIDE DEF m
  <2> QED BY ONLY <2>4, now \in Nat
<1>15. CASE v.error # "" \/ ~suspect
  <2>1. y = v
    BY <1>2, <1>15
  <2> QED BY <1>12, <1>13, <2>1 DEF Still
<1>16. CASE ~(v.error # "" \/ ~suspect)
  <2> DEFINE z == StaleBit(v, a, dead)
  <2>1. y = z
    BY <1>2, <1>16
  <2>2. Staled(v, z, a, dead)
    BY <1>12, StaleBitTimes
  <2> HIDE DEF z
  <2>3. \A b \in Actors \ {a} : Alike(v, z, b)
    BY <2>2, AlikeRows DEF Staled
  <2>4. Present(z, a) /\ z.nodes[a].state = v.nodes[a].state
    BY <2>2 DEF Staled
  <2>5. Still(u, z, a)
    BY <1>12, <1>14, <1>16, <2>4 DEF Still
  <2> QED BY <1>12, <2>1, <2>3, <2>5, AlikeAgain
<1> QED BY <1>15, <1>16

StillBy(t, u, s) == \A a \in Actors : IF a \in s THEN Still(t, u, a) ELSE Alike(t, u, a)

LEMMA AlikeStill ==
  ASSUME NEW t, NEW u, NEW v, NEW a, Still(t, u, a), Alike(u, v, a)
  PROVE  Still(t, v, a)
BY DEF Alike, Still

LEMMA StillAlike ==
  ASSUME NEW t, NEW u, NEW v, NEW a, Alike(t, u, a), Still(u, v, a)
  PROVE  Still(t, v, a)
BY DEF Alike, Still

LEMMA SettleOneStill ==
  ASSUME NEW t, Well(t), NEW now \in Nat, InTime(t, now, now),
         NEW u, Well(u), NEW s, StillBy(t, u, s), NEW a \in Actors, a \notin s, Due(t, a, now)
  PROVE  StillBy(t, SettleOne(t, now, a, u), s \cup {a})
<1> DEFINE v == Settle(u, a, now, {}, PurgeHealth(u, a, {}))
           y == SettleOne(t, now, a, u)
<1>1. Alike(t, u, a) /\ Timely(t, a, now, now)
  BY DEF StillBy, InTime
<1>2. Present(t, a)
  BY <1>1, DueIsPresent
<1>3. Present(u, a) /\ Timely(u, a, now, now)
  BY <1>1, <1>2, AlikeTimely DEF Alike
<1>4. DueLanes(t, a, now) = {}
  <2>1. \A h \in t.health[a] : h.last + HookFreshness > now /\ h.last + HookFreshness \in Nat
    <3>1. FiledHealth(t.health[a])
      BY WellHistory DEF Filed, FiledActor
    <3>2. \A h \in t.health[a] : h.last + HookFreshness \in Nat
      BY <3>1, EvidenceAssumption DEF FiledHealth
    <3>3. LanesAhead(t, a, now)
      BY <1>1, <1>2 DEF Timely
    <3> QED BY <3>2, <3>3 DEF LanesAhead
  <2>2. ASSUME NEW h \in t.health[a] PROVE ~(now >= h.last + HookFreshness)
    <3> DEFINE x == h.last + HookFreshness
    <3>1. x > now /\ x \in Nat
      BY <2>1
    <3> HIDE DEF x
    <3>2. ~(now >= x)
      BY ONLY <3>1, now \in Nat
    <3> QED BY <3>2 DEF x
  <2> QED BY <2>2 DEF DueLanes
<1>5. y = IF u.error # "" THEN u ELSE v
  BY <1>4 DEF SettleOne
<1>6. Still(u, v, a) /\ \A b \in Actors \ {a} : Alike(u, v, b)
  BY <1>3, StillSettled
<1> HIDE DEF v
<1>7. Still(u, y, a) /\ \A b \in Actors \ {a} : Alike(u, y, b)
  BY <1>5, <1>6, AlikeNot DEF Still
<1> HIDE DEF y
<1>8. ASSUME NEW b \in Actors
      PROVE  IF b \in s \cup {a} THEN Still(t, y, b) ELSE Alike(t, y, b)
  <2>1. CASE b = a
    BY <1>1, <1>7, <2>1, StillAlike
  <2>2. CASE b # a /\ b \in s
    BY <1>7, <2>2, AlikeStill DEF StillBy
  <2>3. CASE b # a /\ b \notin s
    BY <1>7, <2>3, AlikeAgain DEF StillBy
  <2> QED BY <2>1, <2>2, <2>3
<1> QED BY <1>8 DEF StillBy, y

LEMMA SettlesStill ==
  ASSUME NEW t, Well(t), NEW now \in Nat, InTime(t, now, now),
         NEW S, S \subseteq Actors, IsFiniteSet(S), \A a \in S : Due(t, a, now),
         NEW f, Settles(f, t, now, S)
  PROVE  StillBy(t, f[S], S)
<1> DEFINE Good(s) == Well(f[s]) /\ StillBy(t, f[s], s)
           bad == {s \in SUBSET S : ~Good(s)}
<1>1. ASSUME bad # {} PROVE FALSE
  <2>0. bad \subseteq SUBSET S
    OBVIOUS
  <2>1. PICK least \in bad : \A b \in bad : b \subseteq least => b = least
    <3> HIDE DEF bad
    <3> QED BY <1>1, <2>0, SmallestException
  <2>2. least \in SUBSET S /\ ~Good(least)
    BY <2>1
  <2>3. least # {}
    <3> SUFFICES ASSUME least = {} PROVE FALSE
      OBVIOUS
    <3>1. f[least] = t
      BY <2>2 DEF Settles
    <3>2. StillBy(t, t, {})
      BY AlikeNot DEF StillBy
    <3> QED BY <2>2, <3>1, <3>2
  <2>4. Chosen(least) \in least
    BY <2>3, PickMember
  <2> DEFINE rest == least \ {Chosen(least)}
             u == f[rest]
             a == Chosen(least)
             v == SettleOne(t, now, a, u)
             lanes == DueLanes(t, a, now)
  <2>5. rest \in SUBSET S /\ rest \subseteq least /\ rest # least /\ a \notin rest
    BY <2>2, <2>4
  <2>6. Well(u) /\ StillBy(t, u, rest)
    BY <2>1, <2>5
  <2>7. f[least] = v
    BY <2>2, <2>3 DEF Settles
  <2>8. a \in Actors /\ Due(t, a, now) /\ least = rest \cup {a}
    BY <2>2, <2>4
  <2>9. v = IF u.error # "" THEN u
            ELSE Settle(u, a, now, lanes, PurgeHealth(u, a, lanes))
    BY DEF SettleOne
  <2> HIDE DEF v, u, lanes, a, rest
  <2>10. Well(v)
    BY <2>6, <2>8, <2>9, SettleWell
  <2>11. StillBy(t, v, rest \cup {a})
    BY <2>5, <2>6, <2>8, SettleOneStill DEF v
  <2> QED BY <2>2, <2>7, <2>8, <2>10, <2>11
<1>2. S \notin bad
  BY <1>1
<1> QED BY <1>2

(* Who is in time now is shown as before by a call of Advance.              *)
LEMMA AdvancedStill ==
  ASSUME NEW t, Well(t), NEW now \in Nat, InTime(t, now, now)
  PROVE  \A a \in Actors : Present(Advanced(t, now), a) =>
           /\ Advanced(t, now).nodes[a].state = t.nodes[a].state
           /\ t.nodes[a].ghostAt = 0 => Advanced(t, now).nodes[a].stale = t.nodes[a].stale
<1> DEFINE m == MessageExpiry(t, now)
           g == GhostExpiry(m, now, Actors)
           S == {a \in Actors : \/ \E e \in ToSet(g.states[a]) : ~Current(e, now)
                                \/ DueLanes(g, a, now) # {} \/ HealthMissing(g, a, now)}
           f == CHOOSE h : Settles(h, g, now, S)
           u == f[S]
<1>1. Advanced(t, now) = DueStateExpiry(g, now)
  BY DEF Advanced
<1>2. Well(m) /\ InTime(m, now, now) /\ m.nodes = t.nodes
  BY MessageExpiryWell, MessageExpiryInTime
<1> HIDE DEF m
<1>3. Well(g) /\ InTime(g, now, now) /\ Departed(m, g, now, Actors)
  BY <1>2, GhostExpiryWell, GhostExpiryClears, GhostExpiryInTime
<1> HIDE DEF g
<1>4. S \subseteq Actors /\ IsFiniteSet(S)
  BY FS_Subset, ReducerAssumption
<1>5. DueStateExpiry(g, now) = u
  <2> HIDE DEF S
  <2> QED BY DEF DueStateExpiry, FoldSet, MapThenFoldSet, Settles, SettleOne, Chosen, S
<1>6. \A a \in Actors : a \in S <=> Due(g, a, now)
  BY DEF Due
<1> HIDE DEF S
<1>7. Settles(f, g, now, S)
  BY <1>4, SettlesExist
<1> HIDE DEF f
<1>8. StillBy(g, u, S)
  BY <1>3, <1>4, <1>6, <1>7, SettlesStill
<1> HIDE DEF u
<1> SUFFICES ASSUME NEW a \in Actors, Present(u, a)
             PROVE  /\ u.nodes[a].state = t.nodes[a].state
                    /\ t.nodes[a].ghostAt = 0 => u.nodes[a].stale = t.nodes[a].stale
  BY <1>1, <1>5
<1>9. Present(g, a)
  BY <1>8 DEF StillBy, Still, Alike
<1>10. g.nodes[a] = t.nodes[a]
  <2>1. ~GhostOver(m.nodes[a], now)
    BY <1>3, <1>9 DEF Departed
  <2> QED BY <1>2, <1>3, <2>1 DEF Departed
<1>11. /\ u.nodes[a].state = g.nodes[a].state
       /\ g.nodes[a].ghostAt = 0 => u.nodes[a].stale = g.nodes[a].stale
  BY <1>8, <1>9 DEF StillBy, Still, Alike
<1> QED BY <1>10, <1>11

LEMMA TimeInvIs ==
  ASSUME RecInv, TimeInv
  PROVE  NothingOverdue /\ StaleExact
<1>1. StaleExact
  <2>1. PICK c : InTime(owners, c, clock)
    BY DEF TimeInv
  <2> QED BY <2>1 DEF StaleExact, InTime, Timely, Fitting
<1>2. NothingOverdue
  <2> SUFFICES ASSUME outcome = "", NextDeadlines(owners, cursor) \cap 1..clock = {}
               PROVE  \A a \in Actors : Present(Advanced(owners, clock), a) =>
                        /\ Advanced(owners, clock).nodes[a].state = owners.nodes[a].state
                        /\ owners.nodes[a].ghostAt = 0 =>
                             Advanced(owners, clock).nodes[a].stale = owners.nodes[a].stale
    BY DEF NothingOverdue
  <2>1. /\ Well(owners) /\ InTime(owners, cursor, clock)
        /\ cursor \in Nat /\ clock \in Nat /\ cursor <= clock
    BY TimeInvRuns
  <2>2. Deadlines(owners) \subseteq Nat
    BY DeadlinesAreInstants DEF RecInv, InOrder
  <2>3. ASSUME NEW d \in Deadlines(owners), d > cursor PROVE d > clock
    <3>1. d \notin 1..clock
      BY <2>3 DEF NextDeadlines
    <3>2. d \in Nat /\ d > cursor /\ cursor \in Nat /\ clock \in Nat
      BY <2>1, <2>2, <2>3
    <3> QED BY ONLY <3>1, <3>2
  <2>4. InTime(owners, clock, clock)
    BY <2>1, <2>2, <2>3, QuietInTime
  <2> QED BY <2>1, <2>4, AdvancedStill
<1> QED BY <1>1, <1>2

(* What an actor is shown as is what its evidence says, in time: when no    *)
(* deadline is due nothing has run out that Run has not woken for, and only *)
(* an actor that native polls alone know, and that has not ended, is shown  *)
(* as stale.  It is assumed that no event waits as long as a heartbeat      *)
(* lasts.                                                                   *)
THEOREM FoldedAlwaysInTime ==
  ASSUME Delay < HookFreshness
  PROVE  Spec => []FoldedInTime
<1>1. Prompt
  BY DEF Prompt
<1>2. RecInv /\ TimeInv => FoldedInTime
  BY TimeInvIs DEF FoldedInTime
<1> QED BY <1>1, <1>2, RecInvAlways, TimeInvAlways, PTL

-----------------------------------------------------------------------------
(* Approvals end alone.                                                     *)

(* What t asks of a and u no longer does.                                   *)
Answered(t, u, a) == Asked(t, a) \ Asked(u, a)

(* Why more than one approval of an actor may end at once.                  *)
Alone(t, u, a, now) ==
  \/ \E p : Answered(t, u, a) \subseteq {p}
  \/ u.current[a] # t.current[a]
  \/ ~Present(u, a) \/ Terminal(u.nodes[a].state.value)
  \/ \A x \in Answered(t, u, a) : ~Fresh(t.health[a], x[1], now)
EachAlone(t, u, now) == \A a \in Actors : Alone(t, u, a, now)

LEMMA KeptAlone ==
  ASSUME NEW t, NEW u, NEW now, NEW a, u.approvals[a] = t.approvals[a]
  PROVE  Alone(t, u, a, now)
BY DEF Answered, Asked, Alone

LEMMA KeptEachAlone ==
  ASSUME NEW t, NEW u, NEW now, u.approvals = t.approvals
  PROVE  EachAlone(t, u, now)
BY KeptAlone DEF EachAlone

(* Only approvals of the lanes end.                                         *)
Dropped(t, u, a, lanes) == \A x \in Answered(t, u, a) : HealthKey(x[1]) \in lanes

LEMMA DroppedNot ==
  ASSUME NEW t, NEW u, NEW a, u.approvals[a] = t.approvals[a], NEW lanes
  PROVE  Dropped(t, u, a, lanes)
BY DEF Answered, Asked, Dropped

LEMMA DroppedAgain ==
  ASSUME NEW t, NEW u, NEW v, NEW a, NEW lanes, Dropped(t, u, a, lanes), Dropped(u, v, a, lanes)
  PROVE  Dropped(t, v, a, lanes)
BY DEF Answered, Dropped

(* A lane whose heartbeat is overdue keeps nothing fresh: it has one row.   *)
LEMMA LaneOver ==
  ASSUME NEW L, FiledHealth(L), NEW h \in L, NEW at \in Nat, NEW now \in Nat, at <= now,
         at >= h.last + HookFreshness, NEW s, HealthKey(s) = h.source
  PROVE  ~Fresh(L, s, now)
<1> SUFFICES ASSUME NEW k \in L, k.source = HealthKey(s), now < k.last + HookFreshness
             PROVE  FALSE
  BY DEF Fresh
<1>1. k = h /\ h.last \in Nat
  BY DEF FiledHealth
<1> DEFINE x == h.last
<1>2. /\ x \in Nat /\ HookFreshness \in Nat /\ at >= x + HookFreshness
      /\ now < x + HookFreshness /\ at <= now
  BY <1>1, EvidenceAssumption
<1> HIDE DEF x
<1> QED BY ONLY <1>2, at \in Nat, now \in Nat

LEMMA OverdueAlone ==
  ASSUME NEW t, NEW u, NEW a, FiledHealth(t.health[a]), NEW lanes, Dropped(t, u, a, lanes),
         NEW at \in Nat, NEW now \in Nat, at <= now,
         \A l \in lanes : \E h \in t.health[a] : h.source = l /\ at >= h.last + HookFreshness
  PROVE  Alone(t, u, a, now)
<1>1. ASSUME NEW x \in Answered(t, u, a) PROVE ~Fresh(t.health[a], x[1], now)
  <2>1. PICK h \in t.health[a] : h.source = HealthKey(x[1]) /\ at >= h.last + HookFreshness
    BY DEF Dropped
  <2> QED BY <2>1, LaneOver
<1> QED BY <1>1 DEF Alone

-----------------------------------------------------------------------------
(* The approvals a lane takes with it.                                      *)
LEMMA PurgeApprovals ==
  ASSUME NEW t, IsOwners(t), Filed(t), NEW a \in Actors, NEW lanes
  PROVE  Dropped(t, PurgeHealth(t, a, lanes), a, lanes)
<1> DEFINE keeps(e) == \/ HealthKey(e.source) \notin lanes \/ Terminal(e.value)
                       \/ e.source.authority = Native /\ e.source.mode = "immutable"
           s == Among(t.states[a], {e \in ToSet(t.states[a]) : keeps(e)})
           Q == {e \in ToSet(t.approvals[a]) : HealthKey(e.source) \notin lanes}
           q == Among(t.approvals[a], Q)
           h == {x \in t.health[a] : x.source \notin lanes}
           H == t.history - (Len(t.states[a]) - Len(s)) - (Len(t.approvals[a]) - Len(q))
                             - Cardinality(t.health[a] \ h)
           u == [t EXCEPT !.states[a] = s, !.approvals[a] = q, !.health[a] = h, !.history = H]
<1>1. PurgeHealth(t, a, lanes) = u
  BY DEF PurgeHealth
<1>2. q \in Seq(ApprovalRecords) /\ ToSet(q) = ToSet(t.approvals[a]) \cap Q
  <2>1. t.approvals[a] \in Seq(ApprovalRecords)
    BY DEF Filed, FiledActor, FiledApprovals
  <2> HIDE DEF Q
  <2> QED BY <2>1, AmongMembers
<1> HIDE DEF s, q, h, H
<1>3. u.approvals[a] = q
  BY DEF IsOwners, OwnerFields, Filed, EvidenceFields
<1> HIDE DEF u
<1>4. ASSUME NEW x \in Answered(t, u, a) PROVE HealthKey(x[1]) \in lanes
  <2>1. PICK e \in ToSet(t.approvals[a]) : x = <<e.source, e.rel>>
    BY DEF Answered, Asked
  <2>2. e \notin ToSet(q)
    BY <1>3, <2>1 DEF Answered, Asked
  <2>3. HealthKey(e.source) \in lanes
    BY <1>2, <2>2
  <2> QED BY <2>1, <2>3
<1> QED BY <1>1, <1>4 DEF Dropped

LEMMA BeatApprovals ==
  ASSUME NEW t, IsOwners(t), NEW a, NEW lane, NEW at
  PROVE  Beat(t, a, lane, at).approvals = t.approvals
BY DEF Beat, IsOwners, OwnerFields

(* refreshHealthEpoch ends the approvals of a lane that was overdue.        *)
Rolled(t, a, lane, at) ==
  \E h \in t.health[a] : h.source = lane /\ at >= h.last + HookFreshness
Refreshed(t, u, a, lane, at) ==
  \/ u.approvals = t.approvals
  \/ Dropped(t, u, a, {lane}) /\ Rolled(t, a, lane, at)

LEMMA RolledAlone ==
  ASSUME NEW t, NEW u, NEW a, FiledHealth(t.health[a]), NEW lane, Dropped(t, u, a, {lane}),
         NEW at \in Nat, NEW now \in Nat, at <= now, Rolled(t, a, lane, at)
  PROVE  Alone(t, u, a, now)
<1>1. \A l \in {lane} : \E h \in t.health[a] : h.source = l /\ at >= h.last + HookFreshness
  BY DEF Rolled
<1> DEFINE lanes == {lane}
<1> HIDE DEF lanes
<1>2. /\ \A l \in lanes : \E h \in t.health[a] : h.source = l /\ at >= h.last + HookFreshness
      /\ Dropped(t, u, a, lanes)
  BY <1>1 DEF lanes
<1> QED BY <1>2, OverdueAlone

LEMMA RefreshApprovals ==
  ASSUME NEW t, IsOwners(t), Filed(t), NEW a \in Actors, NEW lane, NEW at
  PROVE  Refreshed(t, RefreshHealth(t, a, lane, at), a, lane, at)
<1> DEFINE p == PurgeHealth(t, a, {lane})
           rolled == \E h \in t.health[a] : h.source = lane /\ at >= h.last + HookFreshness
           u == RefreshHealth(t, a, lane, at)
<1>1. CASE ~rolled
  <2>1. u = Beat(t, a, lane, at)
    BY <1>1 DEF RefreshHealth
  <2> QED BY <2>1, BeatApprovals DEF Refreshed
<1>2. CASE rolled
  <2>1. u = Beat(p, a, lane, at)
    BY <1>2 DEF RefreshHealth
  <2>2. IsOwners(p)
    BY PurgeAside DEF Aside
  <2>3. Dropped(t, p, a, {lane})
    BY PurgeApprovals
  <2> HIDE DEF p, u
  <2>4. u.approvals = p.approvals
    BY <2>1, <2>2, BeatApprovals
  <2>5. Dropped(t, u, a, {lane})
    BY <2>3, <2>4 DEF Dropped, Answered, Asked
  <2> QED BY <1>2, <2>5 DEF u, Refreshed, Rolled
<1> QED BY <1>1, <1>2

-----------------------------------------------------------------------------
(* The approvals when an actor is folded.                                   *)

(* A fold leaves approvals and lanes alone, and shows nobody new.           *)
Unasked(t, u) ==
  /\ u.approvals = t.approvals /\ u.health = t.health
  /\ \A b \in Actors : Present(u, b) => Present(t, b)

LEMMA ProjectionUnasked ==
  ASSUME NEW t, IsOwners(t), NEW a \in Actors, NEW now
  PROVE  Unasked(t, StateProjection(t, a, now))
<1> DEFINE w == FoldState(t.states[a], t.approvals[a], t.health[a], now)
           v == StateProjection(t, a, now)
<1>1. CASE ~Present(t, a)
  <2>1. v = Failed(t, "state-owner")
    BY <1>1 DEF StateProjection
  <2> HIDE DEF v
  <2>2. v.approvals = t.approvals /\ v.health = t.health /\ v.nodes = t.nodes
    BY <2>1 DEF Failed, IsOwners, OwnerFields
  <2>3. Unasked(t, v)
    BY <2>2 DEF Unasked, Present
  <2> QED BY <2>3 DEF v
<1>2. CASE Present(t, a)
  <2>1. Projected(t, v, a, w)
    BY <1>2, ProjectionTimes
  <2> HIDE DEF v, w
  <2>2. v.approvals = t.approvals /\ v.health = t.health
    BY <2>1 DEF Projected, TimeFields
  <2>3. \A b \in Actors : Present(v, b) => Present(t, b)
    BY <1>2, <2>1 DEF Projected, Present
  <2>4. Unasked(t, v)
    BY <2>2, <2>3 DEF Unasked
  <2> QED BY <2>4 DEF v
<1> QED BY <1>1, <1>2

(* An actor with evidence of its end is shown as ended.                     *)
LEMMA EndedProjection ==
  ASSUME NEW t, IsOwners(t), NEW a \in Actors, FiledActor(t, a), NEW now,
         NEW e \in ToSet(t.states[a]), Terminal(e.value), e.until = 0
  PROVE  LET v == StateProjection(t, a, now) IN
         ~Present(v, a) \/ Terminal(v.nodes[a].state.value)
<1> DEFINE w == FoldState(t.states[a], t.approvals[a], t.health[a], now)
           v == StateProjection(t, a, now)
<1>1. Terminal(w.value)
  BY FoldStateIs DEF FiledActor
<1>2. CASE ~Present(t, a)
  BY <1>2, ProjectionUnasked DEF Unasked
<1>3. CASE Present(t, a)
  <2>1. Projected(t, v, a, w)
    BY <1>3, ProjectionTimes
  <2> HIDE DEF v, w
  <2>2. v.nodes[a].state.value = w.value
    BY <2>1 DEF Projected, Shown
  <2>3. Terminal(v.nodes[a].state.value)
    BY <1>1, <2>2
  <2> QED BY <2>3 DEF v
<1> QED BY <1>2, <1>3

(* The row of an event that ends its actor has no end itself.               *)
LEMMA EndHasNoEnd ==
  ASSUME NEW t, NEW e \in Events, StateRefusal(t, e) = "", Terminal(e.value), NEW at
  PROVE  StateEvidence(e, at).until = 0
<1>1. ~ValidityForbidden(e.value, e.validFor)
  BY DEF StateRefusal
<1>2. e.validFor = 0
  <2> DEFINE x == e.validFor
  <2>1. ~(x > 0)
    BY <1>1 DEF ValidityForbidden
  <2>2. x \in Nat
    BY EventIs
  <2> HIDE DEF x
  <2>3. x = 0
    BY ONLY <2>1, <2>2
  <2> QED BY <2>3 DEF x
<1>3. NormalizeValidity(e.value, e.validFor) = 0
  BY <1>2 DEF NormalizeValidity, DefaultValidity, Terminal
<1> QED BY <1>3 DEF StateEvidence, Evidence

(* A state ends the approval it answers and no other.                       *)
LEMMA RowsApprovals ==
  ASSUME NEW t, IsOwners(t), Filed(t), NEW e \in Events, NEW at \in Nat
  PROVE  LET w == StateRows(t, e, at) IN
         /\ Answered(t, w, e.actor) \subseteq {<<e.source, e.rel>>}
         /\ \A b \in Actors \ {e.actor} : w.approvals[b] = t.approvals[b]
         /\ Terminal(e.value) => StateEvidence(e, at) \in ToSet(w.states[e.actor])
<1> DEFINE a == e.actor
           A == t.approvals[a]
           asked == {x \in ToSet(A) : x.source = e.source /\ x.rel = e.rel}
           row == StateEvidence(e, at)
           ask == [source |-> e.source, rel |-> e.rel, evidence |-> row]
           ends == e.rel # "" /\ asked # {}
           u == StateRows(t, e, at)
           Ends(q) == {<<x.source, x.rel>> : x \in ToSet(A)} \ {<<x.source, x.rel>> : x \in ToSet(q)}
           p == <<e.source, e.rel>>
<1>0. a \in Actors
  BY EventIs
<1>1. FiledApprovals(A) /\ FiledStates(t.states[a])
  BY <1>0 DEF Filed, FiledActor
<1>2. asked = Keyed(A, ApprovalKey, p)
  <2> HIDE DEF A
  <2> QED BY <1>1, AskedRows
<1>3. row \in StateRecords /\ row.source = e.source
  BY EvidenceIs
<1>4. ask \in ApprovalRecords /\ ApprovalKey[ask] = p
  BY <1>3, EventIs DEF ApprovalRecords, ApprovalKey
<1>5. \A x \in asked : <<x.source, x.rel>> = p
  OBVIOUS
<1>6. CASE Awaits(e.value)
  <2> DEFINE q == Accept(A, asked, ask)
             H == t.history + One(asked = {})
             v == [t EXCEPT !.approvals[a] = q, !.history = H]
  <2>1. u = v
    BY <1>6 DEF StateRows
  <2>2. ~Terminal(e.value)
    BY <1>6 DEF Awaits, Terminal
  <2> HIDE DEF asked, ask, A, p
  <2>3. ToSet(q) = (ToSet(A) \ asked) \cup {ask}
    BY <1>1, <1>2, <1>4, ApprovalComes
  <2> HIDE DEF H, q
  <2>4. v.approvals[a] = q /\ \A b \in Actors \ {a} : v.approvals[b] = t.approvals[b]
    BY <1>0 DEF IsOwners, OwnerFields, Filed, EvidenceFields
  <2> HIDE DEF v
  <2>5. Ends(q) \subseteq {p}
    BY <1>5, <2>3
  <2>6. Answered(t, v, a) = Ends(q)
    BY <2>4 DEF Answered, Asked, A
  <2> QED BY <2>1, <2>2, <2>4, <2>5, <2>6 DEF p
<1>7. CASE ~Awaits(e.value)
  <2> DEFINE q == IF ends THEN Without(A, asked) ELSE A
             s == AcceptOwn(t.states[a], row)
             H == t.history - One(ends) + One(~HoldsOwn(t.states[a], e))
             v == [t EXCEPT !.approvals[a] = q, !.states[a] = s, !.history = H]
             own == Own(t.states[a], row)
  <2>1. u = v
    BY <1>7 DEF StateRows
  <2>2. s = Accept(t.states[a], own, row)
    BY DEF AcceptOwn
  <2>3. ToSet(A) \ asked \subseteq ToSet(q)
    <3>1. CASE ends
      <4>1. q = Among(A, ToSet(A) \ asked)
        BY <3>1 DEF Without
      <4> DEFINE T == ToSet(A) \ asked
      <4> HIDE DEF A, T, q
      <4>2. ToSet(Among(A, T)) = ToSet(A) \cap T
        BY <1>1, AmongMembers DEF FiledApprovals
      <4> QED BY <4>1, <4>2 DEF T
    <3>2. CASE ~ends
      BY <3>2
    <3> QED BY <3>1, <3>2
  <2> HIDE DEF s, own
  <2>4. row \in ToSet(s)
    <3> HIDE DEF row
    <3> QED BY <1>1, <1>3, <2>2, StateComes DEF own
  <2> HIDE DEF H, q, row, asked, A
  <2>5. /\ v.approvals[a] = q /\ v.states[a] = s
        /\ \A b \in Actors \ {a} : v.approvals[b] = t.approvals[b]
    BY <1>0 DEF IsOwners, OwnerFields, Filed, EvidenceFields
  <2> HIDE DEF v
  <2>6. Ends(q) \subseteq {p}
    <3> HIDE DEF p
    <3> QED BY <1>5, <2>3
  <2>7. Answered(t, v, a) = Ends(q)
    BY <2>5 DEF Answered, Asked, A
  <2> QED BY <2>1, <2>4, <2>5, <2>6, <2>7 DEF row
<1> QED BY <1>6, <1>7

-----------------------------------------------------------------------------
(* Which approvals an event ends.                                           *)

LEMMA ClearKeepsStates ==
  ASSUME NEW t, IsOwners(t), NEW a
  PROVE  ClearApprovals(t, a).states = t.states
BY DEF ClearApprovals, IsOwners, OwnerFields

(* Only the actor whose rows are edited can lose approvals.                 *)
LEMMA EditedAlone ==
  ASSUME NEW t, NEW a \in Actors, NEW x, Edited(t, x, a), NEW v, v.approvals = x.approvals,
         NEW now, Alone(t, v, a, now)
  PROVE  EachAlone(t, v, now)
<1> SUFFICES ASSUME NEW b \in Actors PROVE Alone(t, v, b, now)
  BY DEF EachAlone
<1>1. CASE b = a
  BY <1>1
<1>2. CASE b # a
  <2>1. v.approvals[b] = t.approvals[b]
    BY <1>2 DEF Edited, EvidenceFields
  <2> QED BY <2>1, KeptAlone
<1> QED BY <1>1, <1>2

LEMMA StateAlone ==
  ASSUME NEW t, Well(t), NEW e \in Events, NEW at \in Nat, NEW now \in Nat, at <= now,
         StateRefusal(t, e) = ""
  PROVE  EachAlone(t, StageState(t, e, at, now), now)
<1> DEFINE a == e.actor
           h == HealthKey(e.source)
           r == RefreshHealth(t, a, h, at)
           u == IF ~Terminal(e.value) /\ e.source.authority # Passive THEN r ELSE t
           w == StateRows(u, e, at)
           y == ClearApprovals(w, a)
           x == IF Terminal(e.value) THEN y ELSE w
           v == StateProjection(x, a, now)
           p == <<e.source, e.rel>>
           row == StateEvidence(e, at)
<1>0. a \in Actors
  BY EventIs
<1>1. StageState(t, e, at, now) = v
  BY DEF StageState
<1>2. Redone(t, u, a)
  <2>1. u \in {t, r}
    OBVIOUS
  <2> HIDE DEF h, a
  <2>2. Redone(t, r, a)
    BY <1>0, WellHistory, RefreshAside, AsideKeeps, RefreshBooks DEF Well, Redone
  <2> HIDE DEF r, u
  <2> QED BY <1>0, <2>1, <2>2, RedoneNot
<1>3. Well(u)
  <2> HIDE DEF u, a
  <2> QED BY <1>0, <1>2, RedoneWell
<1>4. /\ Answered(u, w, a) \subseteq {p}
      /\ Terminal(e.value) => row \in ToSet(w.states[a])
  <2> HIDE DEF u
  <2> QED BY <1>3, WellHistory, RowsApprovals
<1>5. Redone(t, w, a)
  <2> HIDE DEF u
  <2>1. Keeps(u, w)
    BY <1>3, WellHistory, RowsAside, AsideKeeps DEF Well
  <2>2. Refiled(u, w, a)
    BY <1>3, WellHistory, RowsBooks
  <2> HIDE DEF w, a
  <2> QED BY <1>0, <1>2, <2>1, <2>2, RedoneAgain DEF Redone
<1>6. Well(w)
  <2> HIDE DEF w, a
  <2> QED BY <1>0, <1>5, RedoneWell
<1>7. Redone(t, y, a)
  <2> HIDE DEF w, a
  <2>1. Redone(w, y, a)
    BY <1>0, <1>6, WellHistory, ClearAside, AsideKeeps, ClearBooks DEF Well, Redone
  <2> HIDE DEF y
  <2> QED BY <1>0, <1>5, <2>1, RedoneAgain
<1>8. Redone(t, x, a)
  <2> HIDE DEF w, y, a
  <2> QED BY <1>5, <1>7
<1>9. Well(x) /\ Edited(t, x, a)
  <2> HIDE DEF x, a
  <2> QED BY <1>0, <1>8, RedoneWell DEF Redone, Refiled
<1>10. v.approvals = x.approvals
  <2> HIDE DEF x, a
  <2> QED BY <1>0, <1>9, WellHistory, ProjectionUnasked DEF Unasked
<1>11. CASE Terminal(e.value)
  <2>1. x = y
    BY <1>11
  <2>2. y.states = w.states
    <3> HIDE DEF w
    <3> QED BY <1>6, WellHistory, ClearKeepsStates
  <2>3. row \in ToSet(x.states[a])
    <3> HIDE DEF x, y, w, row
    <3> QED BY <1>4, <1>11, <2>1, <2>2
  <2>4. row.until = 0 /\ Terminal(row.value)
    BY <1>11, EndHasNoEnd, EvidenceIs
  <2>5. IsOwners(x) /\ FiledActor(x, a)
    <3> HIDE DEF x, a
    <3> QED BY <1>0, <1>9, WellHistory DEF Filed
  <2> HIDE DEF x, row, a
  <2>6. ~Present(v, a) \/ Terminal(v.nodes[a].state.value)
    BY <1>0, <2>3, <2>4, <2>5, EndedProjection
  <2> HIDE DEF v
  <2>7. Alone(t, v, a, now)
    BY <2>6 DEF Alone
  <2> QED BY <1>0, <1>1, <1>9, <1>10, <2>7, EditedAlone
<1>12. CASE ~Terminal(e.value)
  <2>1. x = w
    BY <1>12
  <2>2. u \in {t, r}
    OBVIOUS
  <2>3. Refreshed(t, r, a, h, at)
    <3> HIDE DEF a, h
    <3> QED BY <1>0, WellHistory, RefreshApprovals
  <2> HIDE DEF x, w, u, r, v, y
  <2>4. Answered(t, v, a) = Answered(t, w, a)
    BY <1>10, <2>1 DEF Answered, Asked
  <2>5. CASE u.approvals = t.approvals
    <3>1. Answered(t, w, a) = Answered(u, w, a)
      BY <2>5 DEF Answered, Asked
    <3>2. Answered(t, v, a) \subseteq {p}
      BY <1>4, <2>4, <3>1
    <3> HIDE DEF a, p
    <3>3. Alone(t, v, a, now)
      BY <3>2 DEF Alone
    <3> QED BY <1>0, <1>1, <1>9, <1>10, <3>3, EditedAlone
  <2>6. CASE u = r /\ Dropped(t, r, a, {h}) /\ Rolled(t, a, h, at)
    <3>1. Dropped(u, w, a, {h})
      <4>1. HealthKey(p[1]) = h
        OBVIOUS
      <4> HIDE DEF p, h, a
      <4> QED BY <1>4, <4>1 DEF Dropped
    <3> HIDE DEF h, a
    <3>2. Dropped(t, w, a, {h})
      BY <2>6, <3>1, DroppedAgain
    <3>3. Dropped(t, v, a, {h})
      BY <2>4, <3>2 DEF Dropped
    <3>4. FiledHealth(t.health[a])
      BY <1>0, WellHistory DEF Filed, FiledActor
    <3>5. Alone(t, v, a, now)
      BY <2>6, <3>3, <3>4, RolledAlone
    <3> QED BY <1>0, <1>1, <1>9, <1>10, <3>5, EditedAlone
  <2> QED BY <2>2, <2>3, <2>5, <2>6 DEF Refreshed
<1> QED BY <1>11, <1>12

LEMMA ExitAlone ==
  ASSUME NEW t, Well(t), NEW e \in Events, e.kind = "exit", NEW at \in Nat, NEW now
  PROVE  EachAlone(t, StageExit(t, e, at, now), now)
<1> DEFINE a == e.actor
           row == ExitEvidence(e, at)
           u == ExitRow(t, e, at)
           x == ClearApprovals(u, a)
           v == StateProjection(x, a, now)
<1>0. a \in Actors
  BY EventIs
<1>1. StageExit(t, e, at, now) = v
  BY DEF StageExit, ExitRow
<1>2. Aside(t, u)
  BY DEF ExitRow, Well, Sound, Aside, SharedFields, IsOwners, OwnerFields
<1>3. Redone(t, u, a)
  BY <1>2, WellHistory, AsideKeeps, ExitBooks DEF Redone, Well
<1>4. row \in ToSet(u.states[a])
  <2> DEFINE s == AcceptOwn(t.states[a], row)
             H == t.history + One(~HoldsOwn(t.states[a], e))
             own == Own(t.states[a], row)
  <2>1. u = [t EXCEPT !.states[a] = s, !.history = H]
    BY DEF ExitRow
  <2>2. s = Accept(t.states[a], own, row)
    BY DEF AcceptOwn
  <2>3. FiledStates(t.states[a]) /\ row \in StateRecords
    BY <1>0, WellHistory, EvidenceIs DEF Filed, FiledActor
  <2> HIDE DEF s, row
  <2>4. row \in ToSet(s)
    BY <2>2, <2>3, StateComes
  <2> HIDE DEF H, u, a
  <2>5. IsOwners(t) /\ Filed(t)
    BY WellHistory
  <2>6. u.states[a] = s
    BY <1>0, <2>1, <2>5 DEF IsOwners, OwnerFields, Filed, EvidenceFields
  <2> QED BY <2>4, <2>6
<1>5. row.until = 0 /\ Terminal(row.value)
  BY EvidenceIs, ReducerAssumption
<1> HIDE DEF u, a, row
<1>6. Well(u)
  BY <1>0, <1>3, RedoneWell
<1>7. Redone(u, x, a)
  BY <1>0, <1>6, WellHistory, ClearAside, AsideKeeps, ClearBooks DEF Well, Redone
<1>8. x.states = u.states
  BY <1>6, WellHistory, ClearKeepsStates
<1> HIDE DEF x
<1>9. Redone(t, x, a)
  BY <1>0, <1>3, <1>7, RedoneAgain
<1>10. Well(x) /\ Edited(t, x, a)
  BY <1>0, <1>9, RedoneWell DEF Redone, Refiled
<1>11. IsOwners(x) /\ FiledActor(x, a)
  BY <1>0, <1>10, WellHistory DEF Filed
<1>12. v.approvals = x.approvals
  BY <1>0, <1>11, ProjectionUnasked DEF Unasked
<1>13. ~Present(v, a) \/ Terminal(v.nodes[a].state.value)
  BY <1>0, <1>4, <1>5, <1>8, <1>11, EndedProjection
<1> HIDE DEF v
<1>14. Alone(t, v, a, now)
  BY <1>13 DEF Alone
<1> QED BY <1>0, <1>1, <1>10, <1>12, <1>14, EditedAlone

LEMMA HeardUnasked ==
  ASSUME NEW t, IsOwners(t), NEW e
  PROVE  Heard(t, e).approvals = t.approvals
BY DEF Heard, StaleBit, Failed, IsOwners, OwnerFields

LEMMA HeartbeatAlone ==
  ASSUME NEW t, Well(t), NEW e \in Events, NEW at \in Nat, NEW now \in Nat, at <= now
  PROVE  EachAlone(t, StageHeartbeat(t, e, at, now), now)
<1> DEFINE a == e.actor
           h == e.source
           r == RefreshHealth(t, a, h, at)
           v == StateProjection(r, a, now)
           g == Heard(v, e)
<1>0. a \in Actors
  BY EventIs
<1>1. StageHeartbeat(t, e, at, now) = g
  BY DEF StageHeartbeat
<1> HIDE DEF a, h
<1>2. Keeps(t, r) /\ Refiled(t, r, a)
  BY <1>0, WellHistory, RefreshAside, AsideKeeps, RefreshBooks DEF Well
<1>3. Refreshed(t, r, a, h, at)
  BY <1>0, WellHistory, RefreshApprovals
<1> HIDE DEF r
<1>4. Well(r) /\ Edited(t, r, a)
  BY <1>0, <1>2, RefiledWell DEF Refiled
<1>5. v.approvals = r.approvals
  BY <1>0, <1>4, WellHistory, ProjectionUnasked DEF Unasked
<1>6. Well(v)
  BY <1>0, <1>4, ProjectionWell
<1> HIDE DEF v
<1>7. g.approvals = r.approvals
  BY <1>5, <1>6, WellHistory, HeardUnasked
<1> HIDE DEF g
<1>8. Alone(t, g, a, now)
  <2>1. CASE r.approvals = t.approvals
    BY <1>7, <2>1, KeptAlone
  <2>2. CASE Dropped(t, r, a, {h}) /\ Rolled(t, a, h, at)
    <3>1. Dropped(t, g, a, {h})
      BY <1>7, <2>2 DEF Dropped, Answered, Asked
    <3>2. FiledHealth(t.health[a])
      BY <1>0, WellHistory DEF Filed, FiledActor
    <3> QED BY <2>2, <3>1, <3>2, RolledAlone
  <2> QED BY <1>3, <2>1, <2>2 DEF Refreshed
<1> QED BY <1>0, <1>1, <1>4, <1>7, <1>8, EditedAlone

-----------------------------------------------------------------------------
(* What ends no approval.                                                   *)

LEMMA CursorUnasked ==
  ASSUME NEW t, IsOwners(t), NEW e, NEW at
  PROVE  LET u == MoveCursor(t, e, at) IN
         u.approvals = t.approvals /\ u.current = t.current /\ u.health = t.health
<1> DEFINE r == [ordered |-> e.ordered, at |-> at]
           C == [t.cursors EXCEPT ![<<e.source, e.actor>>] = r]
           H == t.history + One(CursorOf(t, e) = NoCursor)
           u == [t EXCEPT !.cursors = C, !.history = H]
<1>1. MoveCursor(t, e, at) \in {t, u}
  BY DEF MoveCursor
<1> HIDE DEF C, H
<1>2. u.approvals = t.approvals /\ u.current = t.current /\ u.health = t.health
  BY DEF IsOwners, OwnerFields
<1> HIDE DEF u
<1> QED BY <1>1, <1>2

LEMMA NodeUnasked ==
  ASSUME NEW t, IsOwners(t), NEW a, NEW n
  PROVE  WithNode(t, a, n).approvals = t.approvals
BY DEF WithNode, IsOwners, OwnerFields

LEMMA EdgeUnasked ==
  ASSUME NEW t, IsOwners(t), NEW k, NEW e
  PROVE  WithEdge(t, k, e).approvals = t.approvals
BY DEF WithEdge, IsOwners, OwnerFields

LEMMA MetricsUnasked ==
  ASSUME NEW t, IsOwners(t), NEW e, NEW at
  PROVE  StageMetrics(t, e, at).approvals = t.approvals
<1> DEFINE a == e.actor
           u == MetricsRow(t, e, at)
           fold == FoldMetrics(u.metrics[a])
           m == [t.nodes[a] EXCEPT !.usage = fold.usage, !.metricSources = fold.sources]
           w == WithNode(u, a, m)
<1>1. StageMetrics(t, e, at) \in {Failed(t, "metrics-owner"), w}
  BY DEF StageMetrics, MetricsRow
<1>2. Failed(t, "metrics-owner").approvals = t.approvals
  BY DEF Failed, IsOwners, OwnerFields
<1>3. u.approvals = t.approvals /\ "approvals" \in DOMAIN u
  BY DEF MetricsRow, IsOwners, OwnerFields
<1> HIDE DEF u, m
<1>4. w.approvals = u.approvals
  BY DEF WithNode
<1> HIDE DEF w
<1> QED BY <1>1, <1>2, <1>3, <1>4

LEMMA RelationshipUnasked ==
  ASSUME NEW t, IsOwners(t), NEW e
  PROVE  StageRelationship(t, e).approvals = t.approvals
<1> DEFINE k == e.edge
           old == EdgeOrNew(t, e)
           H == t.history + One(e.source \notin old.contributors)
           v == [t EXCEPT !.history = H]
<1>1. PICK new : StageRelationship(t, e) = WithEdge(v, k, new)
  BY DEF StageRelationship
<1> HIDE DEF H, k
<1>2. v.approvals = t.approvals
  BY DEF IsOwners, OwnerFields
<1> HIDE DEF v
<1>3. WithEdge(v, k, new).approvals = v.approvals
  BY DEF WithEdge
<1> QED BY <1>1, <1>2, <1>3

LEMMA MessageUnasked ==
  ASSUME NEW t, IsOwners(t), NEW e, NEW at
  PROVE  StageMessage(t, e, at).approvals = t.approvals
<1> DEFINE k == e.edge
           H == t.history + 1
           F == t.fingerprints \cup {e.digest}
           X == t.expiry \cup {[at |-> at + MessageWindow, digest |-> e.digest, edge |-> k]}
           v == [t EXCEPT !.history = H, !.fingerprints = F, !.expiry = X]
<1>1. PICK new : StageMessage(t, e, at) = WithEdge(v, k, new)
  BY DEF StageMessage
<1> HIDE DEF H, F, X, k
<1>2. v.approvals = t.approvals
  BY DEF IsOwners, OwnerFields
<1> HIDE DEF v
<1>3. WithEdge(v, k, new).approvals = v.approvals
  BY DEF WithEdge
<1> QED BY <1>1, <1>2, <1>3

LEMMA GapsUnasked ==
  ASSUME NEW t, IsOwners(t), NEW G
  PROVE  PartialUpdates([t EXCEPT !.gaps = G]).approvals = t.approvals
<1> DEFINE v == [t EXCEPT !.gaps = G]
<1>1. v.approvals = t.approvals
  BY DEF IsOwners, OwnerFields
<1>2. PICK N, E : PartialUpdates(v) = [v EXCEPT !.nodes = N, !.edges = E]
  BY DEF PartialUpdates
<1> HIDE DEF v
<1>3. [v EXCEPT !.nodes = N, !.edges = E].approvals = v.approvals
  OBVIOUS
<1> QED BY <1>1, <1>2, <1>3 DEF v

LEMMA GapUnasked ==
  ASSUME NEW t, IsOwners(t), NEW e
  PROVE  StageGap(t, e).approvals = t.approvals
<1> DEFINE G == IF e.resolved THEN t.gaps \ {ObservedGap(e)} ELSE t.gaps \cup {ObservedGap(e)}
<1> HIDE DEF G
<1>1. PartialUpdates([t EXCEPT !.gaps = G]).approvals = t.approvals
  BY GapsUnasked
<1> QED BY <1>1 DEF StageGap, G

LEMMA DiagnosedUnasked ==
  ASSUME NEW t, IsOwners(t), NEW e, NEW refusal
  PROVE  Diagnosed(t, e, refusal).approvals = t.approvals
<1> DEFINE own == CASE refusal \in {"count", "history"} -> Catchall
                    [] refusal = "regime" -> GapKey(e.source.id, EventCapability(e), "schema")
                    [] refusal = "cycle" -> GapKey(e.source.id, "spawn", "collision")
                    [] OTHER -> GapKey(e.source.id, EventCapability(e), "collision")
           row == IF own # Catchall /\ RowsFull(t.gaps, own) THEN Catchall ELSE own
           G == t.gaps \cup {row}
<1>1. Diagnosed(t, e, refusal) = PartialUpdates([t EXCEPT !.gaps = G])
  BY DEF Diagnosed
<1> HIDE DEF G
<1> QED BY <1>1, GapsUnasked

(* An incarnation that succeeds another ends the approvals of its actor.    *)
LEMMA ProofUnasked ==
  ASSUME NEW t, IsOwners(t), NEW e, NEW at
  PROVE  LET v == WithProof(t, e, at) IN
         v.approvals = t.approvals /\ DOMAIN v = OwnerFields
<1> DEFINE a == e.actor
           Q == AcceptOwn(t.proofs[a], NodeContribution(t.proofs[a], e, at))
           c == IF Knows(t, e) THEN t.current[a] ELSE Proof(e)
           C == [t.current EXCEPT ![a] = c]
           P == [t.proofs EXCEPT ![a] = Q]
           H == t.history + One(~HoldsOwn(t.proofs[a], e))
           v == [t EXCEPT !.current = C, !.proofs = P, !.history = H]
<1>1. WithProof(t, e, at) = v
  BY DEF WithProof, IsOwners, OwnerFields
<1> HIDE DEF C, P, H
<1>2. v.approvals = t.approvals /\ DOMAIN v = OwnerFields
  BY DEF IsOwners, OwnerFields
<1> HIDE DEF v
<1> QED BY <1>1, <1>2

LEMMA ShowUnasked ==
  ASSUME NEW v, DOMAIN v = OwnerFields, NEW e, NEW sw
  PROVE  LET w == ShowObserved(v, e, sw) IN
         w.approvals = v.approvals /\ DOMAIN w = OwnerFields
<1>1. PICK N : ShowObserved(v, e, sw) = [v EXCEPT !.nodes = N]
  BY DEF ShowObserved, WithNode, OwnerFields
<1> QED BY <1>1 DEF OwnerFields

LEMMA NodeAlone ==
  ASSUME NEW t, Well(t), NEW e \in Events, NEW at, NodeRefusal(t, e) = "", NEW now
  PROVE  EachAlone(t, StageNode(t, e, at), now)
<1> DEFINE a == e.actor
<1>0. a \in Actors /\ IsOwners(t) /\ Filed(t) /\ Sound(t)
  BY EventIs, WellHistory DEF Well
<1>1. CASE ~Switches(t, e)
  <2> DEFINE no == FALSE
             v == WithProof(t, e, at)
             u == ShowObserved(v, e, no)
  <2>1. StageNode(t, e, at) = u
    BY <1>1 DEF StageNode
  <2>2. v.approvals = t.approvals /\ DOMAIN v = OwnerFields
    BY <1>0, ProofUnasked
  <2> HIDE DEF v, no
  <2>3. u.approvals = t.approvals
    BY <2>2, ShowUnasked
  <2> QED BY <2>1, <2>3, KeptEachAlone
<1>2. CASE Switches(t, e)
  <2> DEFINE yes == TRUE
             s == Succeed(t, e)
             v == WithProof(s, e, at)
             w == ShowObserved(v, e, yes)
             old == t.current[a].inc
             new == e.inc
             u == ResumeEdges(w, a, old, new)
  <2>1. StageNode(t, e, at) = u
    BY <1>2 DEF StageNode
  <2>2. IsOwners(s)
    BY <1>0, <1>2, SucceedBooks
  <2>3. \A b \in Actors \ {a} : s.approvals[b] = t.approvals[b]
    BY <1>0, SucceedTimes DEF TimeFields
  <2> HIDE DEF s, yes
  <2>4. v.approvals = s.approvals /\ DOMAIN v = OwnerFields
    BY <2>2, ProofUnasked
  <2> HIDE DEF v
  <2>5. w.approvals = s.approvals /\ DOMAIN w = OwnerFields
    BY <2>4, ShowUnasked
  <2> HIDE DEF w
  <2>6. PICK E, H : u = [w EXCEPT !.edges = E, !.history = H]
    BY DEF ResumeEdges
  <2>7. u.current[a].inc = e.inc
    <3>1. Succeeded(t, StageNode(t, e, at), e)
      BY <1>0, <1>2, NodeSwitchSound
    <3> HIDE DEF u
    <3>2. Succeeded(t, u, e)
      BY <2>1, <3>1
    <3> QED BY <3>2 DEF Succeeded
  <2> HIDE DEF u
  <2>8. u.approvals = s.approvals
    BY <2>5, <2>6 DEF OwnerFields
  <2>9. t.current[a].inc # e.inc
    BY <1>2 DEF Switches, Knows
  <2>10. ASSUME NEW b \in Actors PROVE Alone(t, u, b, now)
    <3>1. CASE b = a
      BY <2>7, <2>9, <3>1 DEF Alone
    <3>2. CASE b # a
      BY <2>3, <2>8, <3>2, KeptAlone
    <3> QED BY <3>1, <3>2
  <2> QED BY <2>1, <2>10 DEF EachAlone
<1> QED BY <1>1, <1>2

-----------------------------------------------------------------------------
(* Deadlines end the approvals of overdue lanes only.                       *)

(* What a loop over the actors that are due has ended so far.               *)
Eased(t, u, d) ==
  \A a \in Actors :
    Dropped(t, u, a, DueLanes(t, a, d)) /\ (Present(u, a) => Present(t, a))

LEMMA UnaskedAgain ==
  ASSUME NEW t, NEW u, NEW v, Unasked(t, u), Unasked(u, v)
  PROVE  Unasked(t, v)
BY DEF Unasked

LEMMA StaleBitUnasked ==
  ASSUME NEW t, IsOwners(t), NEW a \in Actors, NEW b
  PROVE  Unasked(t, StaleBit(t, a, b))
<1> DEFINE u == StaleBit(t, a, b)
<1>1. CASE ~Present(t, a)
  <2>1. u = Failed(t, "state-owner")
    BY <1>1 DEF StaleBit
  <2> HIDE DEF u
  <2>2. u.approvals = t.approvals /\ u.health = t.health /\ u.nodes = t.nodes
    BY <2>1 DEF Failed, IsOwners, OwnerFields
  <2>3. Unasked(t, u)
    BY <2>2 DEF Unasked, Present
  <2> QED BY <2>3 DEF u
<1>2. CASE Present(t, a)
  <2> DEFINE m == [t.nodes[a] EXCEPT !.stale = b]
  <2>1. u = [t EXCEPT !.nodes[a] = m]
    BY <1>2 DEF StaleBit
  <2> HIDE DEF u, m
  <2>2. /\ u.approvals = t.approvals /\ u.health = t.health
        /\ \A x \in Actors \ {a} : u.nodes[x] = t.nodes[x]
    BY <2>1 DEF IsOwners, OwnerFields
  <2>3. Unasked(t, u)
    BY <1>2, <2>2 DEF Unasked, Present
  <2> QED BY <2>3 DEF u
<1> QED BY <1>1, <1>2

LEMMA SettleUnasked ==
  ASSUME NEW u, Well(u), NEW a \in Actors, NEW now, NEW lanes
  PROVE  LET v == Settle(u, a, now, lanes, PurgeHealth(u, a, lanes)) IN
         /\ Dropped(u, v, a, lanes)
         /\ \A b \in Actors \ {a} : v.approvals[b] = u.approvals[b]
         /\ \A b \in Actors : Present(v, b) => Present(u, b)
<1> DEFINE p == PurgeHealth(u, a, lanes)
           x == StateProjection(p, a, now)
           silent == \E c \in ToSet(u.proofs[a]) : /\ c.source.authority = Native
                                                   /\ HealthKey(c.source) \in lanes
           suspect == silent \/ HealthMissing(p, a, now)
           dead == ~Terminal(x.nodes[a].state.value)
                     /\ UnheardOf(x.proofs[a], x.health[a], now)
           v == Settle(u, a, now, lanes, p)
<1>1. v = MarkStale(x, a, now, suspect)
  BY DEF Settle
<1>2. Keeps(u, p) /\ Refiled(u, p, a) /\ Dropped(u, p, a, lanes) /\ p.nodes = u.nodes
  BY WellHistory, PurgeAside, AsideKeeps, PurgeBooks, PurgeApprovals
     DEF Well, Aside, SharedFields
<1> HIDE DEF p, v
<1>3. Well(p)
  BY <1>2, RefiledWell
<1>4. Well(x) /\ Unasked(p, x)
  BY <1>3, WellHistory, ProjectionWell, ProjectionUnasked
<1>5. v \in {x, StaleBit(x, a, dead)}
  BY <1>1 DEF MarkStale
<1> HIDE DEF x, suspect, dead
<1>6. Unasked(x, StaleBit(x, a, dead)) /\ Unasked(x, x)
  BY <1>4, WellHistory, StaleBitUnasked DEF Unasked
<1>7. Unasked(p, v)
  BY <1>4, <1>5, <1>6, UnaskedAgain
<1>8. Dropped(u, v, a, lanes)
  BY <1>2, <1>7 DEF Unasked, Dropped, Answered, Asked
<1>9. \A b \in Actors \ {a} : v.approvals[b] = u.approvals[b]
  BY <1>2, <1>7 DEF Unasked, Refiled, Edited, EvidenceFields
<1>10. \A b \in Actors : Present(v, b) => Present(u, b)
  BY <1>2, <1>7 DEF Unasked, Present
<1> QED BY <1>8, <1>9, <1>10 DEF v, p

LEMMA SettleOneEases ==
  ASSUME NEW t, NEW d, NEW u, Well(u), Eased(t, u, d), NEW a \in Actors
  PROVE  Eased(t, SettleOne(t, d, a, u), d)
<1> DEFINE lanes == DueLanes(t, a, d)
           v == Settle(u, a, d, lanes, PurgeHealth(u, a, lanes))
<1>1. SettleOne(t, d, a, u) \in {u, v}
  BY DEF SettleOne
<1> HIDE DEF lanes
<1>2. /\ Dropped(u, v, a, lanes)
      /\ \A b \in Actors \ {a} : v.approvals[b] = u.approvals[b]
      /\ \A b \in Actors : Present(v, b) => Present(u, b)
  BY SettleUnasked
<1> HIDE DEF v
<1>3. ASSUME NEW b \in Actors
      PROVE  Dropped(t, v, b, DueLanes(t, b, d)) /\ (Present(v, b) => Present(t, b))
  <2>1. Dropped(t, u, b, DueLanes(t, b, d)) /\ (Present(u, b) => Present(t, b))
    BY DEF Eased
  <2>2. CASE b = a
    BY <1>2, <2>1, <2>2, DroppedAgain DEF lanes
  <2>3. CASE b # a
    <3>1. Dropped(u, v, b, DueLanes(t, b, d))
      BY <1>2, <2>3, DroppedNot
    <3> QED BY <1>2, <2>1, <3>1, DroppedAgain
  <2> QED BY <2>2, <2>3
<1>4. Eased(t, v, d)
  BY <1>3 DEF Eased
<1> QED BY <1>1, <1>4

LEMMA SettlesEase ==
  ASSUME NEW t, Well(t), NEW d, NEW S, S \subseteq Actors, IsFiniteSet(S),
         NEW f, Settles(f, t, d, S)
  PROVE  Eased(t, f[S], d)
<1> DEFINE Good(s) == Well(f[s]) /\ Eased(t, f[s], d)
           bad == {s \in SUBSET S : ~Good(s)}
<1>1. ASSUME bad # {} PROVE FALSE
  <2>0. bad \subseteq SUBSET S
    OBVIOUS
  <2>1. PICK least \in bad : \A b \in bad : b \subseteq least => b = least
    <3> HIDE DEF bad
    <3> QED BY <1>1, <2>0, SmallestException
  <2>2. least \in SUBSET S /\ ~Good(least)
    BY <2>1
  <2>3. least # {}
    <3>1. Eased(t, t, d)
      BY DroppedNot DEF Eased
    <3> QED BY <2>2, <3>1 DEF Settles
  <2>4. Chosen(least) \in least
    BY <2>3, PickMember
  <2> DEFINE rest == least \ {Chosen(least)}
             u == f[rest]
             a == Chosen(least)
             v == SettleOne(t, d, a, u)
             lanes == DueLanes(t, a, d)
  <2>5. rest \in SUBSET S /\ rest \subseteq least /\ rest # least
    BY <2>2, <2>4
  <2>6. Well(u) /\ Eased(t, u, d)
    BY <2>1, <2>5
  <2>7. f[least] = v
    BY <2>2, <2>3 DEF Settles
  <2>8. a \in Actors
    BY <2>2, <2>4
  <2>9. v \in {u, Settle(u, a, d, lanes, PurgeHealth(u, a, lanes))}
    BY DEF SettleOne
  <2> HIDE DEF u, lanes, a, rest
  <2>10. Eased(t, v, d)
    BY <2>6, <2>8, SettleOneEases
  <2> HIDE DEF v
  <2>11. Well(v)
    BY <2>6, <2>8, <2>9, SettleWell
  <2> QED BY <2>2, <2>7, <2>10, <2>11
<1>2. S \notin bad
  BY <1>1
<1> QED BY <1>2

LEMMA DueEases ==
  ASSUME NEW t, Well(t), NEW d
  PROVE  Eased(t, DueStateExpiry(t, d), d)
<1> DEFINE S == {a \in Actors : \/ \E e \in ToSet(t.states[a]) : ~Current(e, d)
                                \/ DueLanes(t, a, d) # {} \/ HealthMissing(t, a, d)}
           f == CHOOSE h : Settles(h, t, d, S)
<1>1. S \subseteq Actors /\ IsFiniteSet(S)
  BY FS_Subset, ReducerAssumption
<1>2. DueStateExpiry(t, d) = f[S]
  <2> HIDE DEF S
  <2> QED BY DEF DueStateExpiry, FoldSet, MapThenFoldSet, Settles, SettleOne, Chosen, S
<1> HIDE DEF S
<1>3. Settles(f, t, d, S)
  BY <1>1, SettlesExist
<1> HIDE DEF f
<1> QED BY <1>1, <1>2, <1>3, SettlesEase

(* A ghost that goes takes its approvals with it.                           *)
LEMMA GhostAlone ==
  ASSUME NEW t, NEW u, NEW d, NEW scope, Departed(t, u, d, scope), NEW now
  PROVE  EachAlone(t, u, now)
<1> SUFFICES ASSUME NEW a \in Actors PROVE Alone(t, u, a, now)
  BY DEF EachAlone
<1>1. CASE a \in scope /\ GhostOver(t.nodes[a], d)
  BY <1>1 DEF Departed, Alone
<1>2. CASE ~(a \in scope /\ GhostOver(t.nodes[a], d))
  <2>1. u.approvals[a] = t.approvals[a]
    BY <1>2 DEF Departed, TimeFields
  <2> QED BY <2>1, KeptAlone
<1> QED BY <1>1, <1>2

LEMMA DueLaneIsOver ==
  ASSUME NEW t, NEW a, NEW d, NEW l \in DueLanes(t, a, d)
  PROVE  \E h \in t.health[a] : h.source = l /\ d >= h.last + HookFreshness
BY DEF DueLanes

LEMMA AdvancedAlone ==
  ASSUME NEW t, Well(t), NEW d \in Nat, NEW now \in Nat, d <= now
  PROVE  EachAlone(t, Advanced(t, d), now)
<1> DEFINE m == MessageExpiry(t, d)
           g == GhostExpiry(m, d, Actors)
           u == DueStateExpiry(g, d)
<1>1. Advanced(t, d) = u
  BY DEF Advanced
<1>2. Well(m) /\ m.approvals = t.approvals /\ m.health = t.health
  <2>1. PICK X, E, H : m = [t EXCEPT !.expiry = X, !.edges = E, !.history = H]
    BY DEF MessageExpiry
  <2>2. Well(m)
    BY MessageExpiryWell
  <2> HIDE DEF m
  <2> QED BY <2>1, <2>2 DEF Well, Sound, IsOwners, OwnerFields
<1> HIDE DEF m
<1>3. Well(g) /\ Departed(m, g, d, Actors)
  BY <1>2, GhostExpiryWell, GhostExpiryClears
<1> HIDE DEF g
<1>4. Eased(g, u, d)
  BY <1>3, DueEases
<1> HIDE DEF u
<1>5. ASSUME NEW a \in Actors PROVE Alone(t, u, a, now)
  <2>1. CASE GhostOver(m.nodes[a], d)
    <3>1. ~Present(g, a)
      BY <1>3, <2>1 DEF Departed
    <3>2. ~Present(u, a)
      BY <1>4, <3>1 DEF Eased
    <3> QED BY <3>2 DEF Alone
  <2>2. CASE ~GhostOver(m.nodes[a], d)
    <3>1. g.approvals[a] = t.approvals[a] /\ g.health[a] = t.health[a]
      BY <1>2, <1>3, <2>2 DEF Departed, TimeFields
    <3> DEFINE lanes == DueLanes(g, a, d)
    <3>2. Dropped(g, u, a, lanes)
      BY <1>4 DEF Eased
    <3>3. Dropped(t, u, a, lanes)
      BY <3>1, <3>2 DEF Dropped, Answered, Asked
    <3>4. \A l \in lanes : \E h \in t.health[a] : h.source = l /\ d >= h.last + HookFreshness
      BY <3>1, DueLaneIsOver
    <3>5. FiledHealth(t.health[a])
      BY WellHistory DEF Filed, FiledActor
    <3> HIDE DEF lanes
    <3> QED BY <3>3, <3>4, <3>5, OverdueAlone
  <2> QED BY <2>1, <2>2
<1> QED BY <1>1, <1>5 DEF EachAlone

-----------------------------------------------------------------------------
(* Every step ends approvals alone.                                         *)
EndsAlone == EachAlone(owners, owners', clock)

LEMMA CommitAlone ==
  ASSUME NEW u, EachAlone(owners, u, clock), Commit(u)
  PROVE  EndsAlone
BY DEF Commit, EndsAlone

LEMMA StillAlone ==
  ASSUME owners' = owners
  PROVE  EndsAlone
BY KeptEachAlone DEF EndsAlone

LEMMA FinishedAlone ==
  ASSUME NEW u, EachAlone(owners, u, clock), Finished(u)
  PROVE  EndsAlone
BY CommitAlone, StillAlone DEF Finished, Break

LEMMA FinishAlone ==
  ASSUME IsOwners(owners), NEW e, NEW u, EachAlone(owners, u, clock), Finish(e, u)
  PROVE  EndsAlone
<1> DEFINE g == Diagnosed(owners, e, "history")
           v == IF u.error = "" /\ u.history > HistoryLimit THEN g ELSE u
<1>1. Finished(v)
  BY DEF Finish
<1>2. EachAlone(owners, g, clock)
  BY DiagnosedUnasked, KeptEachAlone
<1> HIDE DEF g
<1>3. EachAlone(owners, v, clock)
  BY <1>2
<1> HIDE DEF v
<1> QED BY <1>1, <1>3, FinishedAlone

LEMMA BaseAlone ==
  ASSUME IsOwners(owners), NEW e, NEW at, NEW u, EachAlone(Base(e, at), u, clock)
  PROVE  EachAlone(owners, u, clock)
<1> DEFINE t == Base(e, at)
<1>1. t.approvals = owners.approvals /\ t.current = owners.current /\ t.health = owners.health
  BY CursorUnasked DEF Base
<1> HIDE DEF t
<1>2. ASSUME NEW a \in Actors PROVE Alone(owners, u, a, clock)
  <2>1. Alone(t, u, a, clock)
    BY DEF EachAlone, t
  <2>2. Answered(t, u, a) = Answered(owners, u, a)
    BY <1>1 DEF Answered, Asked
  <2> QED BY <1>1, <2>1, <2>2 DEF Alone
<1> QED BY <1>2 DEF EachAlone

LEMMA ObserveAlone ==
  ASSUME RecInv, NEW e \in Events, NEW at \in 1..Horizon,
         \/ ObserveNode(e, at) \/ ObserveMetrics(e, at) \/ ObserveState(e, at)
         \/ ObserveHeartbeat(e, at) \/ ObserveExit(e, at) \/ ObserveRelationship(e, at)
         \/ ObserveMessage(e, at) \/ ObserveGap(e, at)
  PROVE  EndsAlone
<1> DEFINE t == Base(e, at)
<1>0. at \in Nat /\ at \in Nat \ {0} /\ clock \in Nat
  BY ReducerAssumption DEF RecInv
<1>a. at <= clock
  BY DEF ObserveNode, ObserveMetrics, ObserveState, ObserveHeartbeat, ObserveExit,
         ObserveRelationship, ObserveMessage, ObserveGap, Accepted, Takes, Arrives
<1>b. Well(owners) /\ IsOwners(owners)
  BY WellHistory DEF RecInv, InOrder
<1>1. Well(t) /\ IsOwners(t)
  BY <1>0, <1>b, CursorWell, WellHistory DEF Base
<1>c. \A u : EachAlone(t, u, clock) /\ Finish(e, u) => EndsAlone
  BY <1>b, BaseAlone, FinishAlone
<1>d. \A u : u.approvals = t.approvals => EachAlone(t, u, clock)
  BY KeptEachAlone
<1> HIDE DEF t
<1>2. CASE ObserveNode(e, at)
  <2>1. e.kind = "node" /\ Refusal(t, e) = "" /\ Finish(e, StageNode(t, e, at))
    BY <1>2 DEF ObserveNode, Accepted, t
  <2>2. NodeRefusal(t, e) = ""
    BY <2>1 DEF Refusal
  <2>3. EachAlone(t, StageNode(t, e, at), clock)
    BY <1>1, <2>2, NodeAlone
  <2> QED BY <1>c, <2>1, <2>3
<1>3. CASE ObserveMetrics(e, at)
  <2>1. Finish(e, StageMetrics(t, e, at))
    BY <1>3 DEF ObserveMetrics, t
  <2> QED BY <1>1, <1>c, <1>d, <2>1, MetricsUnasked
<1>4. CASE ObserveState(e, at)
  <2>1. e.kind = "state" /\ Refusal(t, e) = "" /\ Finish(e, StageState(t, e, at, clock))
    BY <1>4 DEF ObserveState, Accepted, t
  <2>2. StateRefusal(t, e) = ""
    BY <2>1 DEF Refusal
  <2>3. EachAlone(t, StageState(t, e, at, clock), clock)
    BY <1>0, <1>a, <1>1, <2>2, StateAlone
  <2> QED BY <1>c, <2>1, <2>3
<1>5. CASE ObserveHeartbeat(e, at)
  <2>1. Finish(e, StageHeartbeat(t, e, at, clock))
    BY <1>5 DEF ObserveHeartbeat, t
  <2>2. EachAlone(t, StageHeartbeat(t, e, at, clock), clock)
    BY <1>0, <1>a, <1>1, HeartbeatAlone
  <2> QED BY <1>c, <2>1, <2>2
<1>6. CASE ObserveExit(e, at)
  <2>1. e.kind = "exit" /\ Finish(e, StageExit(t, e, at, clock))
    BY <1>6 DEF ObserveExit, Accepted, t
  <2>2. EachAlone(t, StageExit(t, e, at, clock), clock)
    BY <1>0, <1>1, <2>1, ExitAlone
  <2> QED BY <1>c, <2>1, <2>2
<1>7. CASE ObserveRelationship(e, at)
  <2>1. Finish(e, StageRelationship(t, e))
    BY <1>7 DEF ObserveRelationship, t
  <2> QED BY <1>1, <1>c, <1>d, <2>1, RelationshipUnasked
<1>8. CASE ObserveMessage(e, at)
  <2>1. Finish(e, StageMessage(t, e, at))
    BY <1>8 DEF ObserveMessage, t
  <2> QED BY <1>1, <1>c, <1>d, <2>1, MessageUnasked
<1>9. CASE ObserveGap(e, at)
  <2>1. Finish(e, StageGap(t, e))
    BY <1>9 DEF ObserveGap, t
  <2> QED BY <1>1, <1>c, <1>d, <2>1, GapUnasked
<1> QED BY <1>2, <1>3, <1>4, <1>5, <1>6, <1>7, <1>8, <1>9

LEMMA RefuseAlone ==
  ASSUME IsOwners(owners), NEW e, NEW at, Refuse(e, at)
  PROVE  EndsAlone
<1>1. PICK refusal : Commit(Diagnosed(owners, e, refusal))
  BY DEF Refuse
<1>2. EachAlone(owners, Diagnosed(owners, e, refusal), clock)
  BY DiagnosedUnasked, KeptEachAlone
<1> QED BY <1>1, <1>2, CommitAlone

LEMMA PinAlone ==
  ASSUME RecInv, NEW a \in Actors, Pin(a) \/ Unpin(a)
  PROVE  EndsAlone
<1>1. Present(owners, a)
  BY DEF Pin, Unpin
<1>2. Well(owners) /\ IsOwners(owners)
  BY WellHistory DEF RecInv, InOrder
<1>3. CASE Pin(a)
  <2> DEFINE b == TRUE
             u == [owners EXCEPT !.nodes[a].pinned = b]
  <2>1. Commit(u)
    BY <1>3 DEF Pin
  <2> HIDE DEF b
  <2>2. u.approvals = owners.approvals
    BY <1>2 DEF IsOwners, OwnerFields
  <2> HIDE DEF u
  <2> QED BY <2>1, <2>2, KeptEachAlone, CommitAlone
<1>4. CASE Unpin(a)
  <2> DEFINE b == FALSE
             u == [owners EXCEPT !.nodes[a].pinned = b]
             v == GhostExpiry(u, clock, {a})
  <2>1. Commit(u) \/ Commit(v)
    BY <1>4 DEF Unpin
  <2> HIDE DEF b
  <2>2. /\ Well(u) /\ u.approvals = owners.approvals
        /\ u.health = owners.health /\ u.current = owners.current
    <3>1. Well(u)
      BY <1>1, <1>2, PinWell
    <3> QED BY <1>2, <3>1 DEF IsOwners, OwnerFields
  <2> HIDE DEF u
  <2>3. EachAlone(u, v, clock)
    <3> DEFINE scope == {a}
    <3> HIDE DEF scope
    <3>1. EachAlone(u, GhostExpiry(u, clock, scope), clock)
      BY <2>2, GhostExpiryClears, GhostAlone
    <3> QED BY <3>1 DEF scope
  <2> HIDE DEF v
  <2>4. ASSUME NEW x \in Actors PROVE Alone(owners, v, x, clock)
    <3>1. Alone(u, v, x, clock)
      BY <2>3 DEF EachAlone
    <3>2. Answered(u, v, x) = Answered(owners, v, x)
      BY <2>2 DEF Answered, Asked
    <3> QED BY <2>2, <3>1, <3>2 DEF Alone
  <2>5. EachAlone(owners, v, clock)
    BY <2>4 DEF EachAlone
  <2> QED BY <2>1, <2>2, <2>5, KeptEachAlone, CommitAlone
<1> QED BY <1>3, <1>4

LEMMA AdvanceAlone ==
  ASSUME RecInv, Advance
  PROVE  EndsAlone
<1> DEFINE S == NextDeadlines(owners, cursor)
           d == Min(S)
           u == Advanced(owners, d)
<1>0. Well(owners) /\ Shaped(owners) /\ clock \in Nat
  BY ReducerAssumption DEF RecInv, InOrder
<1>1. d \in Nat
  <2>1. S \subseteq Nat
    BY <1>0, DeadlinesAreInstants DEF NextDeadlines
  <2>2. S # {}
    BY DEF Advance
  <2> HIDE DEF S
  <2> QED BY <2>1, <2>2, EarliestIs
<1>2. d <= clock /\ Finished(u)
  BY DEF Advance
<1> HIDE DEF d
<1>3. EachAlone(owners, u, clock)
  BY <1>0, <1>1, <1>2, AdvancedAlone
<1> HIDE DEF u
<1> QED BY <1>2, <1>3, FinishedAlone

LEMMA StepAlone ==
  ASSUME RecInv, [Next]_vars
  PROVE  EndsAlone
<1>1. ASSUME NEW e \in Events, NEW at \in 1..Horizon,
             \/ ObserveNode(e, at) \/ ObserveMetrics(e, at) \/ ObserveState(e, at)
             \/ ObserveHeartbeat(e, at) \/ ObserveExit(e, at) \/ ObserveRelationship(e, at)
             \/ ObserveMessage(e, at) \/ ObserveGap(e, at)
      PROVE  EndsAlone
  BY <1>1, ObserveAlone
<1>2. ASSUME NEW e, NEW at, Refuse(e, at) PROVE EndsAlone
  BY <1>2, RefuseAlone, WellHistory DEF RecInv, InOrder
<1>3. ASSUME NEW a \in Pins, Pin(a) \/ Unpin(a) PROVE EndsAlone
  BY <1>3, PinAlone, ReducerAssumption
<1>4. ASSUME Tick PROVE EndsAlone
  BY <1>4, StillAlone DEF Tick
<1>5. ASSUME UNCHANGED vars PROVE EndsAlone
  BY <1>5, StillAlone DEF vars
<1>6. ASSUME NEW e, NEW at, Ignore(e, at) PROVE EndsAlone
  <2>1. UNCHANGED vars
    BY <1>6 DEF Ignore
  <2> QED BY <1>5, <2>1
<1>7. Next \/ UNCHANGED vars
  OBVIOUS
<1>8. CASE Next
  <2> USE DEF Next
  <2> HIDE DEF EndsAlone
  <2> QED BY <1>1, <1>2, <1>3, <1>4, <1>6, <1>8, AdvanceAlone
<1> QED BY <1>5, <1>7, <1>8

LEMMA AtMostOne ==
  ASSUME NEW p, NEW S, S \subseteq {p}
  PROVE  Cardinality(S) <= 1
<1>1. S = {} \/ S = {p}
  OBVIOUS
<1>2. Cardinality(S) \in {0, 1}
  BY <1>1, FS_EmptySet, FS_Singleton
<1> QED BY ONLY <1>2

(* No step ends two approvals of an actor at once, unless the actor ends,   *)
(* is succeeded or leaves, or nothing was heard in time of the sources that *)
(* asked for those that end: an answer to one request is never taken for an *)
(* answer to another, whatever events and deadlines come in between.        *)
THEOREM ApprovalsAlwaysIndependent == Spec => ApprovalsIndependent
<1> DEFINE Ends == \A a \in Actors :
             LET ended == Asked(owners, a) \ Asked(owners', a)
             IN \/ Cardinality(ended) <= 1
                \/ owners'.current[a] # owners.current[a]
                \/ ~Present(owners', a) \/ Terminal(owners'.nodes[a].state.value)
                \/ \A x \in ended : ~Fresh(owners.health[a], x[1], clock)
<1>1. EndsAlone => Ends
  <2> SUFFICES ASSUME EndsAlone, NEW a \in Actors
               PROVE  \/ Cardinality(Answered(owners, owners', a)) <= 1
                      \/ owners'.current[a] # owners.current[a]
                      \/ ~Present(owners', a) \/ Terminal(owners'.nodes[a].state.value)
                      \/ \A x \in Answered(owners, owners', a) :
                           ~Fresh(owners.health[a], x[1], clock)
    BY DEF Answered
  <2>1. Alone(owners, owners', a, clock)
    BY DEF EndsAlone, EachAlone
  <2>2. ASSUME NEW p, Answered(owners, owners', a) \subseteq {p}
        PROVE  Cardinality(Answered(owners, owners', a)) <= 1
    BY <2>2, AtMostOne
  <2> QED BY <2>1, <2>2 DEF Alone
<1>2. RecInv /\ [Next]_vars => [Ends]_vars
  BY <1>1, StepAlone
<1> HIDE DEF Ends
<1>3. Spec => [][Ends]_vars
  BY <1>2, RecInvAlways, PTL DEF Spec
<1> QED BY <1>3 DEF ApprovalsIndependent, Ends

=============================================================================
