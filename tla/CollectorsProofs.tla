---------------------------- MODULE CollectorsProofs ----------------------------
(* What the collectors get right, for any homes, lanes and windows: one     *)
(* incarnation per session, nothing invisible for longer than its grace,    *)
(* and a one-shot that shows everything. Three inductive invariants build   *)
(* on each other: Sighted (types, clocks, who is bound when), Watched       *)
(* (where every session is between its birth and the graph, live) and Shown *)
(* (what has been said, marked and reconciled, in a one-shot).              *)
EXTENDS Collectors, Inductions

-----------------------------------------------------------------------------
(* Types.                                                                  *)

Kinds == {"node", "active", "exit", "beat", "spawn"}

(* What a collector tells the store.                                       *)
Events ==
  {e \in [kind : Kinds, who : Sessions, inc : Incs \ {NoInc}, child : Sessions,
          childInc : Incs \ {NoInc}] :
     /\ e.kind = "spawn" => <<e.who, e.child>> \in Spawns
     /\ e.kind = "node" => e.child = e.who}

Graphs == [inc : [Sessions -> Incs], state : [Sessions -> States], edges : SUBSET Spawns]

-----------------------------------------------------------------------------
(* The two folds, place by place.                                          *)

(* A queue takes one event more or stays.                                  *)
LEMMA PublishTyped ==
  ASSUME NEW q \in Seq(Events), NEW e \in Events
  PROVE  Publish(q, e) \in Seq(Events)
BY DEF Publish

(* PublishAll goes through the events in their order.                      *)
LEMMA PublishTrail ==
  ASSUME NEW q \in Seq(Events), NEW es \in Seq(Events)
  PROVE  \E f : /\ f[0] = q /\ FoldLeft(Publish, q, es) = f[Len(es)]
                /\ \A i \in 0..Len(es) : f[i] \in Seq(Events)
                /\ \A i \in 1..Len(es) : f[i] = Publish(f[i - 1], es[i])
<1> DEFINE n == Len(es)
           V == Seq(Events)
           G == [p \in V \X (1..n) |-> Publish(p[1], es[p[2]])]
<1>0. n \in Nat /\ DOMAIN es = 1..n /\ \A i \in 1..n : es[i] \in Events
  OBVIOUS
<1>1. \A v \in V, i \in 1..n : G[<<v, i>>] = Publish(v, es[i]) /\ Publish(v, es[i]) \in V
  BY <1>0, PublishTyped
<1> HIDE DEF G
<1>2. PICK h : FoldOver(h, q, G, n) /\ \A t \in SUBSET (1..n) : h[t] \in V
  <2>1. q \in V /\ \A v \in V, i \in 1..n : G[<<v, i>>] \in V
    BY <1>1
  <2> HIDE DEF V, n
  <2> QED BY <1>0, <2>1, FoldPlaces
<1>3. h = [t \in SUBSET (1..n) |->
             IF t = {} THEN q ELSE Publish(h[t \ {Max(t)}], es[Max(t)])]
  <2>1. \A t \in SUBSET (1..n) : t # {} =>
          G[<<h[t \ {Max(t)}], Max(t)>>] = Publish(h[t \ {Max(t)}], es[Max(t)])
    <3> SUFFICES ASSUME NEW t \in SUBSET (1..n), t # {}
                 PROVE  G[<<h[t \ {Max(t)}], Max(t)>>] = Publish(h[t \ {Max(t)}], es[Max(t)])
      OBVIOUS
    <3>1. Max(t) \in 1..n /\ t \ {Max(t)} \in SUBSET (1..n)
      BY <1>0, GreatestNumber
    <3>2. h[t \ {Max(t)}] \in V
      BY <1>2, <3>1
    <3> HIDE DEF V, n
    <3> QED BY <1>1, <3>1, <3>2
  <2> HIDE DEF V, n
  <2> QED BY <1>2, <2>1 DEF FoldOver
<1> DEFINE Eqn(g) == g = [t \in SUBSET (1..n) |->
                            IF t = {} THEN q ELSE Publish(g[t \ {Max(t)}], es[Max(t)])]
           k == CHOOSE g : Eqn(g)
<1>4. Eqn(k)
  BY <1>3
<1>5. FoldLeft(Publish, q, es) = k[1..n]
  BY <1>0 DEF FoldLeft, MapThenFoldSet
<1> HIDE DEF k
<1> DEFINE f == [i \in 0..n |-> k[1..i]]
<1>6. f[0] = q /\ f[n] = k[1..n]
  <2>1. 0 \in 0..n /\ n \in 0..n /\ 1..0 = {} /\ {} \in SUBSET (1..n)
    BY <1>0
  <2> QED BY <1>4, <2>1
<1>7. \A i \in 1..n : f[i] = Publish(f[i - 1], es[i])
  <2> SUFFICES ASSUME NEW i \in 1..n PROVE f[i] = Publish(f[i - 1], es[i])
    OBVIOUS
  <2>1. /\ 1..i \in SUBSET (1..n) /\ 1..i # {} /\ Max(1..i) = i
        /\ (1..i) \ {Max(1..i)} = 1..(i - 1)
    BY <1>0, LastPlace
  <2>2. f[i] = k[1..i] /\ f[i - 1] = k[1..(i - 1)]
    BY <1>0
  <2>3. k[1..i] = Publish(k[(1..i) \ {Max(1..i)}], es[Max(1..i)])
    <3> DEFINE u == 1..i
    <3> HIDE DEF u, n
    <3> QED BY <1>4, <2>1 DEF u
  <2> QED BY <2>1, <2>2, <2>3
<1>8. \A i \in 0..n : f[i] \in V
  <2> DEFINE typed == {i \in 0..n : f[i] \in V}
  <2>1. 0 \in typed
    BY <1>0, <1>6
  <2>2. \A i \in 1..n : i - 1 \in typed => i \in typed
    <3> HIDE DEF f, V
    <3>1. \A i \in 1..n : f[i - 1] \in V => f[i] \in V
      <4> HIDE DEF n
      <4> QED BY <1>1, <1>7
    <3>2. \A i \in 1..n : i \in 0..n
      BY <1>0
    <3> HIDE DEF n
    <3> QED BY <3>1, <3>2
  <2>3. 0..n \subseteq typed
    <3> HIDE DEF typed, n
    <3> QED BY <1>0, <2>1, <2>2, UpToBound
  <2> QED BY <2>3
<1> HIDE DEF f
<1> QED BY <1>5, <1>6, <1>7, <1>8

(* A graph takes one event more.                                           *)
LEMMA ReconciledTyped ==
  ASSUME NEW g \in Graphs, NEW e \in Events
  PROVE  Reconciled(g, e) \in Graphs
<1>1. CASE e.kind = "node" /\ g.inc[e.who] = NoInc
  BY <1>1 DEF Reconciled, Graphs, Events
<1>2. CASE e.kind \in {"active", "exit"} /\ g.inc[e.who] = e.inc /\ g.state[e.who] # "exit"
  BY <1>2 DEF Reconciled, Graphs, Events, States
<1>3. CASE e.kind = "spawn" /\ g.inc[e.who] = e.inc /\ g.inc[e.child] = e.childInc
  BY <1>3 DEF Reconciled, Graphs, Events
<1>4. CASE Reconciled(g, e) = g
  BY <1>4
<1> QED BY <1>1, <1>2, <1>3, <1>4 DEF Reconciled

(* Reconcile goes through the events in their order.                       *)
LEMMA ReconcileTrail ==
  ASSUME NEW q \in Graphs, NEW es \in Seq(Events)
  PROVE  \E f : /\ f[0] = q /\ FoldLeft(Reconciled, q, es) = f[Len(es)]
                /\ \A i \in 0..Len(es) : f[i] \in Graphs
                /\ \A i \in 1..Len(es) : f[i] = Reconciled(f[i - 1], es[i])
<1> DEFINE n == Len(es)
           V == Graphs
           G == [p \in V \X (1..n) |-> Reconciled(p[1], es[p[2]])]
<1>0. n \in Nat /\ DOMAIN es = 1..n /\ \A i \in 1..n : es[i] \in Events
  OBVIOUS
<1>1. \A v \in V, i \in 1..n : G[<<v, i>>] = Reconciled(v, es[i]) /\ Reconciled(v, es[i]) \in V
  BY <1>0, ReconciledTyped
<1> HIDE DEF G
<1>2. PICK h : FoldOver(h, q, G, n) /\ \A t \in SUBSET (1..n) : h[t] \in V
  <2>1. q \in V /\ \A v \in V, i \in 1..n : G[<<v, i>>] \in V
    BY <1>1
  <2> HIDE DEF V, n
  <2> QED BY <1>0, <2>1, FoldPlaces
<1>3. h = [t \in SUBSET (1..n) |->
             IF t = {} THEN q ELSE Reconciled(h[t \ {Max(t)}], es[Max(t)])]
  <2>1. \A t \in SUBSET (1..n) : t # {} =>
          G[<<h[t \ {Max(t)}], Max(t)>>] = Reconciled(h[t \ {Max(t)}], es[Max(t)])
    <3> SUFFICES ASSUME NEW t \in SUBSET (1..n), t # {}
                 PROVE  G[<<h[t \ {Max(t)}], Max(t)>>] = Reconciled(h[t \ {Max(t)}], es[Max(t)])
      OBVIOUS
    <3>1. Max(t) \in 1..n /\ t \ {Max(t)} \in SUBSET (1..n)
      BY <1>0, GreatestNumber
    <3>2. h[t \ {Max(t)}] \in V
      BY <1>2, <3>1
    <3> HIDE DEF V, n
    <3> QED BY <1>1, <3>1, <3>2
  <2> HIDE DEF V, n
  <2> QED BY <1>2, <2>1 DEF FoldOver
<1> DEFINE Eqn(g) == g = [t \in SUBSET (1..n) |->
                            IF t = {} THEN q ELSE Reconciled(g[t \ {Max(t)}], es[Max(t)])]
           k == CHOOSE g : Eqn(g)
<1>4. Eqn(k)
  BY <1>3
<1>5. FoldLeft(Reconciled, q, es) = k[1..n]
  BY <1>0 DEF FoldLeft, MapThenFoldSet
<1> HIDE DEF k
<1> DEFINE f == [i \in 0..n |-> k[1..i]]
<1>6. f[0] = q /\ f[n] = k[1..n]
  <2>1. 0 \in 0..n /\ n \in 0..n /\ 1..0 = {} /\ {} \in SUBSET (1..n)
    BY <1>0
  <2> QED BY <1>4, <2>1
<1>7. \A i \in 1..n : f[i] = Reconciled(f[i - 1], es[i])
  <2> SUFFICES ASSUME NEW i \in 1..n PROVE f[i] = Reconciled(f[i - 1], es[i])
    OBVIOUS
  <2>1. /\ 1..i \in SUBSET (1..n) /\ 1..i # {} /\ Max(1..i) = i
        /\ (1..i) \ {Max(1..i)} = 1..(i - 1)
    BY <1>0, LastPlace
  <2>2. f[i] = k[1..i] /\ f[i - 1] = k[1..(i - 1)]
    BY <1>0
  <2>3. k[1..i] = Reconciled(k[(1..i) \ {Max(1..i)}], es[Max(1..i)])
    <3> DEFINE u == 1..i
    <3> HIDE DEF u, n
    <3> QED BY <1>4, <2>1 DEF u
  <2> QED BY <2>1, <2>2, <2>3
<1>8. \A i \in 0..n : f[i] \in V
  <2> DEFINE typed == {i \in 0..n : f[i] \in V}
  <2>1. 0 \in typed
    BY <1>0, <1>6
  <2>2. \A i \in 1..n : i - 1 \in typed => i \in typed
    <3> HIDE DEF f, V
    <3>1. \A i \in 1..n : f[i - 1] \in V => f[i] \in V
      <4> HIDE DEF n
      <4> QED BY <1>1, <1>7
    <3>2. \A i \in 1..n : i \in 0..n
      BY <1>0
    <3> HIDE DEF n
    <3> QED BY <3>1, <3>2
  <2>3. 0..n \subseteq typed
    <3> HIDE DEF typed, n
    <3> QED BY <1>0, <2>1, <2>2, UpToBound
  <2> QED BY <2>3
<1> HIDE DEF f
<1> QED BY <1>5, <1>6, <1>7, <1>8

(* What came into a queue is in the order it was published in.             *)
InTurn(q, es, r) ==
  \A k \in 1..Len(r) : k > Len(q) =>
    \E i \in 1..Len(es) : /\ r[k] = es[i]
                          /\ \A j \in 1..(i - 1) : \E m \in 1..(k - 1) : r[m] = es[j]

(* What a publication leaves in the queue: what was there, in its places,  *)
(* then what is new, each after everything published before it.            *)
LEMMA PublishQueue ==
  ASSUME NEW q \in Seq(Events), NEW es \in Seq(Events), IsInjective(q),
         NEW r, r = FoldLeft(Publish, q, es)
  PROVE  /\ r \in Seq(Events) /\ IsInjective(r) /\ Len(q) <= Len(r)
         /\ \A i \in 1..Len(q) : r[i] = q[i]
         /\ ToSet(r) = ToSet(q) \cup ToSet(es)
         /\ InTurn(q, es, r)
<1> DEFINE n == Len(es)
           Past(i) == {es[j] : j \in 1..i}
           New(u, k, i) == \E p \in 1..i : /\ u[k] = es[p]
                                           /\ \A j \in 1..(p - 1) : \E m \in 1..(k - 1) : u[m] = es[j]
           Fine(u, i) == /\ IsInjective(u) /\ Len(q) <= Len(u)
                         /\ \A k \in 1..Len(q) : u[k] = q[k]
                         /\ ToSet(u) = ToSet(q) \cup Past(i)
                         /\ \A k \in 1..Len(u) : k > Len(q) => New(u, k, i)
<1>0. n \in Nat /\ DOMAIN es = 1..n /\ \A i \in 1..n : es[i] \in Events
  OBVIOUS
<1>1. PICK f : /\ f[0] = q /\ FoldLeft(Publish, q, es) = f[n]
               /\ \A i \in 0..n : f[i] \in Seq(Events)
               /\ \A i \in 1..n : f[i] = Publish(f[i - 1], es[i])
  <2> HIDE DEF n
  <2> QED BY PublishTrail DEF n
<1> DEFINE fine == {i \in 0..n : Fine(f[i], i)}
<1>2. 0 \in fine
  <2>1. 0 \in 0..n /\ Past(0) = {} /\ Len(q) \in Nat
    BY <1>0
  <2> QED BY <1>1, <2>1
<1>3. ASSUME NEW i \in 1..n, Fine(f[i - 1], i - 1) PROVE Fine(f[i], i)
  <2> DEFINE u == f[i - 1]
             x == es[i]
  <2>0. /\ i \in Nat /\ i - 1 \in 0..n /\ u \in Seq(Events) /\ x \in Events
        /\ 1..(i - 1) \subseteq 1..i /\ i \in 1..i
    BY <1>0, <1>1
  <2>1. Past(i) = Past(i - 1) \cup {x}
    <3>1. 1..i = 1..(i - 1) \cup {i}
      BY <2>0
    <3> QED BY <3>1
  <2>2. f[i] = Publish(u, x)
    BY <1>1
  <2>3. CASE x \in ToSet(u)
    <3>1. f[i] = u
      BY <2>2, <2>3 DEF Publish
    <3>2. Past(i) \cup ToSet(q) = Past(i - 1) \cup ToSet(q)
      <4> HIDE DEF Past, x
      <4> QED BY <1>3, <2>1, <2>3
    <3>3. \A k : New(u, k, i - 1) => New(u, k, i)
      BY <2>0
    <3> HIDE DEF New, Past, x
    <3> QED BY <1>3, <3>1, <3>2, <3>3
  <2>4. CASE x \notin ToSet(u)
    <3> DEFINE v == Append(u, x)
    <3>1. f[i] = v
      BY <2>2, <2>4 DEF Publish
    <3>2. /\ v \in Seq(Events) /\ Len(v) = Len(u) + 1 /\ Len(u) \in Nat /\ v[Len(u) + 1] = x
          /\ \A k \in 1..Len(u) : v[k] = u[k]
          /\ DOMAIN v = 1..(Len(u) + 1) /\ DOMAIN u = 1..Len(u) /\ Len(q) \in Nat
      BY <2>0
    <3>3. ToSet(v) = ToSet(u) \cup {x}
      <4> HIDE DEF x, u
      <4> QED BY <2>0, ToSetAppend
    <3> HIDE DEF v, u, x
    <3>4. IsInjective(v)
      <4>1. \A k \in 1..Len(u) : v[k] # x
        BY <2>4, <3>2 DEF ToSet
      <4>2. IsInjective(u)
        BY <1>3 DEF u
      <4> QED BY <3>2, <4>1, <4>2 DEF IsInjective
    <3>5. Len(q) <= Len(v) /\ \A k \in 1..Len(q) : v[k] = q[k]
      <4>1. Len(q) <= Len(u) /\ \A k \in 1..Len(q) : u[k] = q[k]
        BY <1>3 DEF u
      <4> QED BY <3>2, <4>1
    <3>6. ToSet(v) = ToSet(q) \cup Past(i)
      <4>1. ToSet(u) = ToSet(q) \cup Past(i - 1)
        BY <1>3 DEF u
      <4> HIDE DEF Past
      <4> QED BY <2>1, <3>3, <4>1
    <3>7. ASSUME NEW k \in 1..Len(v), k > Len(q) PROVE New(v, k, i)
      <4>1. CASE k \in 1..Len(u)
        <5>1. New(u, k, i - 1)
          BY <1>3, <3>7, <4>1 DEF u
        <5>2. \A m \in 1..(k - 1) : v[m] = u[m]
          BY <3>2, <4>1
        <5>3. v[k] = u[k]
          BY <3>2, <4>1
        <5> QED BY <2>0, <5>1, <5>2, <5>3
      <4>2. CASE k = Len(u) + 1
        <5>1. \A j \in 1..(i - 1) : \E m \in 1..(k - 1) : v[m] = es[j]
          <6> SUFFICES ASSUME NEW j \in 1..(i - 1) PROVE \E m \in 1..(k - 1) : v[m] = es[j]
            OBVIOUS
          <6>1. es[j] \in ToSet(u)
            <7>1. es[j] \in Past(i - 1)
              OBVIOUS
            <7>2. ToSet(u) = ToSet(q) \cup Past(i - 1)
              BY <1>3 DEF u
            <7> HIDE DEF Past
            <7> QED BY <7>1, <7>2
          <6>2. PICK m \in 1..Len(u) : u[m] = es[j]
            BY <3>2, <6>1 DEF ToSet
          <6> QED BY <3>2, <4>2, <6>2
        <5>2. v[k] = es[i]
          BY <3>2, <4>2 DEF x
        <5> QED BY <2>0, <5>1, <5>2
      <4> QED BY <3>2, <4>1, <4>2
    <3> HIDE DEF Past, New
    <3> QED BY <3>1, <3>4, <3>5, <3>6, <3>7
  <2> QED BY <2>3, <2>4
<1>4. n \in fine
  <2>1. \A i \in 1..n : i - 1 \in fine => i \in fine
    <3>1. \A i \in 1..n : i \in 0..n
      BY <1>0
    <3> HIDE DEF Fine, n
    <3> QED BY <1>3, <3>1
  <2>2. 0..n \subseteq fine
    <3> HIDE DEF fine, n
    <3> QED BY <1>0, <1>2, <2>1, UpToBound
  <2> QED BY <1>0, <2>2
<1>5. Fine(f[n], n) /\ f[n] \in Seq(Events)
  <2>1. n \in 0..n
    BY <1>0
  <2> HIDE DEF Fine
  <2> QED BY <1>1, <1>4, <2>1
<1>6. Past(n) = ToSet(es)
  BY <1>0 DEF ToSet
<1>7. r = f[n]
  BY <1>1
<1>8. InTurn(q, es, r)
  BY <1>5, <1>7 DEF InTurn
<1> HIDE DEF Past
<1> QED BY <1>5, <1>6, <1>7, <1>8

(* What one event does to the identities and the edges of a graph.         *)
LEMMA ReconciledFacts ==
  ASSUME NEW g \in Graphs, NEW e \in Events, NEW h, h = Reconciled(g, e)
  PROVE  /\ \A s \in Sessions : g.inc[s] # NoInc => h.inc[s] = g.inc[s]
         /\ \A s \in Sessions : \/ h.inc[s] = g.inc[s]
                                \/ e.kind = "node" /\ e.who = s /\ h.inc[s] = e.inc
         /\ e.kind = "node" => h.inc[e.who] # NoInc
         /\ g.edges \subseteq h.edges
         /\ e.kind = "spawn" /\ g.inc[e.who] = e.inc /\ g.inc[e.child] = e.childInc
              => <<e.who, e.child>> \in h.edges
<1>1. CASE e.kind = "node" /\ g.inc[e.who] = NoInc
  BY <1>1 DEF Reconciled, Graphs, Events
<1>2. CASE e.kind \in {"active", "exit"} /\ g.inc[e.who] = e.inc /\ g.state[e.who] # "exit"
  BY <1>2 DEF Reconciled, Graphs, Events
<1>3. CASE e.kind = "spawn" /\ g.inc[e.who] = e.inc /\ g.inc[e.child] = e.childInc
  BY <1>3 DEF Reconciled, Graphs, Events
<1>4. CASE /\ ~(e.kind = "node" /\ g.inc[e.who] = NoInc)
           /\ ~(e.kind \in {"active", "exit"} /\ g.inc[e.who] = e.inc /\ g.state[e.who] # "exit")
           /\ ~(e.kind = "spawn" /\ g.inc[e.who] = e.inc /\ g.inc[e.child] = e.childInc)
  <2>1. h = g
    BY <1>4 DEF Reconciled
  <2> QED BY <1>4, <2>1
<1> QED BY <1>1, <1>2, <1>3, <1>4

(* By the i-th event s is known, and only under v.                         *)
Settled(g, es, i, s, v) ==
  /\ g.inc[s] \in {NoInc, v}
  /\ \A j \in 1..Len(es) : es[j].kind = "node" /\ es[j].who = s => es[j].inc = v
  /\ \/ g.inc[s] # NoInc
     \/ \E j \in 1..(i - 1) : es[j].kind = "node" /\ es[j].who = s

(* What a batch of events does to them. An edge is drawn when both its     *)
(* ends are known, or come earlier in the batch, under the incarnations    *)
(* the edge names.                                                         *)
LEMMA ReconcileKnows ==
  ASSUME NEW g \in Graphs, NEW es \in Seq(Events), NEW h, h = FoldLeft(Reconciled, g, es)
  PROVE  /\ h \in Graphs
         /\ \A s \in Sessions : g.inc[s] # NoInc => h.inc[s] = g.inc[s]
         /\ \A s \in Sessions :
              \/ h.inc[s] = g.inc[s]
              \/ \E j \in 1..Len(es) : es[j].kind = "node" /\ es[j].who = s /\ h.inc[s] = es[j].inc
         /\ \A j \in 1..Len(es) : es[j].kind = "node" => h.inc[es[j].who] # NoInc
         /\ g.edges \subseteq h.edges
         /\ \A i \in 1..Len(es) :
              /\ es[i].kind = "spawn"
              /\ Settled(g, es, i, es[i].who, es[i].inc)
              /\ Settled(g, es, i, es[i].child, es[i].childInc)
              => <<es[i].who, es[i].child>> \in h.edges
<1> DEFINE n == Len(es)
<1>0. n \in Nat /\ \A i \in 1..n : es[i] \in Events
  OBVIOUS
<1>1. PICK f : /\ f[0] = g /\ FoldLeft(Reconciled, g, es) = f[n]
               /\ \A i \in 0..n : f[i] \in Graphs
               /\ \A i \in 1..n : f[i] = Reconciled(f[i - 1], es[i])
  <2> HIDE DEF n
  <2> QED BY ReconcileTrail DEF n
<1> DEFINE Node(j, s) == es[j].kind = "node" /\ es[j].who = s
           Match(j) == /\ es[j].kind = "spawn" /\ f[j - 1].inc[es[j].who] = es[j].inc
                       /\ f[j - 1].inc[es[j].child] = es[j].childInc
           Kept(i) == \A s \in Sessions : g.inc[s] # NoInc => f[i].inc[s] = g.inc[s]
           From(i) == \A s \in Sessions : \/ f[i].inc[s] = g.inc[s]
                                          \/ \E j \in 1..i : Node(j, s) /\ f[i].inc[s] = es[j].inc
           Knows(i) == \A j \in 1..i : es[j].kind = "node" => f[i].inc[es[j].who] # NoInc
           Draws(i) == /\ g.edges \subseteq f[i].edges
                       /\ \A j \in 1..i : Match(j) => <<es[j].who, es[j].child>> \in f[i].edges
           Fine(i) == Kept(i) /\ From(i) /\ Knows(i) /\ Draws(i)
           fine == {i \in 0..n : Fine(i)}
<1>2. 0 \in fine
  <2>1. 0 \in 0..n /\ 1..0 = {}
    BY <1>0
  <2> QED BY <1>1, <2>1
<1>3. ASSUME NEW i \in 1..n, Fine(i - 1) PROVE Fine(i)
  <2> DEFINE u == f[i - 1]
             v == f[i]
             e == es[i]
  <2>0. /\ u \in Graphs /\ e \in Events /\ v = Reconciled(u, e)
        /\ i \in 1..i /\ 1..(i - 1) \subseteq 1..i /\ \A j \in 1..i : j = i \/ j \in 1..(i - 1)
        /\ \A j \in 1..i : es[j] \in Events
    <3>1. i - 1 \in 0..n
      BY <1>0
    <3> QED BY <1>0, <1>1, <3>1
  <2>1. /\ \A s \in Sessions : u.inc[s] # NoInc => v.inc[s] = u.inc[s]
        /\ \A s \in Sessions : \/ v.inc[s] = u.inc[s]
                               \/ Node(i, s) /\ v.inc[s] = e.inc
        /\ e.kind = "node" => v.inc[e.who] # NoInc
        /\ u.edges \subseteq v.edges
        /\ Match(i) => <<e.who, e.child>> \in v.edges
    <3> HIDE DEF u, v
    <3> QED BY <2>0, ReconciledFacts DEF u
  <2>2. \A j \in 1..i : es[j].who \in Sessions
    BY <2>0 DEF Events
  <2> HIDE DEF u, v, e, n
  <2>3. Kept(i - 1) /\ From(i - 1) /\ Knows(i - 1) /\ Draws(i - 1)
    BY <1>3
  <2> HIDE DEF Node, Match
  <2>4. Kept(i)
    BY <2>1, <2>3 DEF u, v
  <2>5. From(i)
    BY <2>0, <2>1, <2>3 DEF u, v, e
  <2>6. Knows(i)
    <3> SUFFICES ASSUME NEW j \in 1..i, es[j].kind = "node" PROVE v.inc[es[j].who] # NoInc
      BY DEF v
    <3>1. CASE j = i
      BY <2>1, <3>1 DEF e
    <3>2. CASE j \in 1..(i - 1)
      BY <2>1, <2>2, <2>3, <3>2 DEF u
    <3> QED BY <2>0, <3>1, <3>2
  <2>7. Draws(i)
    BY <2>0, <2>1, <2>3 DEF u, v, e
  <2> HIDE DEF Kept, From, Knows, Draws
  <2> QED BY <2>4, <2>5, <2>6, <2>7
<1>4. \A i \in 0..n : Fine(i)
  <2>1. \A i \in 1..n : i - 1 \in fine => i \in fine
    <3>1. \A i \in 1..n : i \in 0..n
      BY <1>0
    <3> HIDE DEF Fine, n
    <3> QED BY <1>3, <3>1
  <2>2. 0..n \subseteq fine
    <3> HIDE DEF fine, n
    <3> QED BY <1>0, <1>2, <2>1, UpToBound
  <2> HIDE DEF Fine
  <2> QED BY <2>2
<1>5. h = f[n] /\ n \in 0..n /\ f[n] \in Graphs
  BY <1>0, <1>1
<1>6. ASSUME NEW i \in 1..n, NEW s \in Sessions, NEW v, Settled(g, es, i, s, v)
      PROVE  f[i - 1].inc[s] = v
  <2>1. i - 1 \in 0..n /\ 1..(i - 1) \subseteq 1..n
    BY <1>0
  <2>2. Kept(i - 1) /\ From(i - 1) /\ Knows(i - 1)
    <3> HIDE DEF Kept, From, Knows, Draws
    <3> QED BY <1>4, <2>1
  <2>3. CASE g.inc[s] # NoInc
    BY <1>6, <2>2, <2>3 DEF Settled
  <2>4. CASE g.inc[s] = NoInc
    <3>1. f[i - 1].inc[s] # NoInc
      BY <1>6, <2>2, <2>4 DEF Settled
    <3>2. PICK j \in 1..(i - 1) : Node(j, s) /\ f[i - 1].inc[s] = es[j].inc
      BY <2>2, <2>4, <3>1
    <3> QED BY <1>6, <2>1, <3>2 DEF Settled
  <2> QED BY <2>3, <2>4
<1>7. ASSUME NEW i \in 1..n, es[i].kind = "spawn", Settled(g, es, i, es[i].who, es[i].inc),
             Settled(g, es, i, es[i].child, es[i].childInc)
      PROVE  <<es[i].who, es[i].child>> \in h.edges
  <2>1. es[i].who \in Sessions /\ es[i].child \in Sessions
    BY <1>0 DEF Events
  <2>2. Match(i)
    <3> HIDE DEF n
    <3> QED BY <1>6, <1>7, <2>1
  <2>3. Draws(n)
    <3> HIDE DEF Draws, Kept, From, Knows
    <3> QED BY <1>4, <1>5
  <2> HIDE DEF Match
  <2> QED BY <1>5, <2>2, <2>3
<1>8. Kept(n) /\ From(n) /\ Knows(n) /\ Draws(n)
  <2> HIDE DEF Draws, Kept, From, Knows
  <2> QED BY <1>4, <1>5
<1> QED BY <1>5, <1>7, <1>8


-----------------------------------------------------------------------------
(* What a lane says in a tick.                                             *)

(* The sessions and the sightings are finitely many.                       *)
LEMMA FinitelyMany ==
  /\ \A S \in SUBSET Sessions : IsFiniteSet(S)
  /\ \A S \in SUBSET Spawns : IsFiniteSet(S)
<1>1. IsFiniteSet(Sessions) /\ Spawns \subseteq Sessions \X Sessions
  BY CollectorsAssumption
<1>2. IsFiniteSet(Sessions \X Sessions)
  BY <1>1, FS_Product
<1> QED BY <1>1, <1>2, FS_Subset

(* An event of every session of a set.                                     *)
LEMMA Listed ==
  ASSUME NEW kind \in Kinds, kind # "spawn", NEW S \in SUBSET Sessions, NEW q,
         q = [i \in 1..Cardinality(S) |->
                Told(kind, SetToSeq(S)[i], IncarnationFor(SetToSeq(S)[i]))]
  PROVE  q \in Seq(Events) /\ ToSet(q) = {Told(kind, s, IncarnationFor(s)) : s \in S}
<1>1. /\ Cardinality(S) \in Nat /\ SetToSeq(S) \in [1..Cardinality(S) -> S]
      /\ ToSet(SetToSeq(S)) = S
  BY FinitelyMany, SetToSeqOf
<1> DEFINE t == SetToSeq(S)
           n == Cardinality(S)
<1> HIDE DEF t, n
<1>2. \A s \in Sessions : Told(kind, s, IncarnationFor(s)) \in Events
  BY DEF Told, Events, IncarnationFor, Incs, NoInc
<1>3. q = [i \in 1..n |-> Told(kind, t[i], IncarnationFor(t[i]))]
  BY DEF t, n
<1>4. \A i \in 1..n : t[i] \in S /\ q[i] = Told(kind, t[i], IncarnationFor(t[i]))
  BY <1>1, <1>3 DEF t, n
<1>5. q \in Seq(Events)
  <2>1. q \in [1..n -> Events] /\ n \in Nat
    <3>1. \A i \in 1..n : q[i] \in Events
      BY <1>2, <1>4
    <3> QED BY <1>1, <1>3, <3>1 DEF n
  <2> QED BY <2>1, NumberedIsSeq
<1>6. DOMAIN q = 1..n /\ DOMAIN t = 1..n
  BY <1>1, <1>3 DEF t, n
<1>7. ToSet(q) = {Told(kind, t[i], IncarnationFor(t[i])) : i \in 1..n}
  BY <1>4, <1>6 DEF ToSet
<1>8. S = {t[i] : i \in 1..n}
  BY <1>1, <1>6 DEF ToSet, t
<1>9. ToSet(q) = {Told(kind, s, IncarnationFor(s)) : s \in S}
  BY <1>7, <1>8
<1> QED BY <1>5, <1>9

(* The sighting of a child.                                                *)
Link(e) == [kind |-> "spawn", who |-> e[1], inc |-> IncarnationFor(e[1]),
            child |-> e[2], childInc |-> IncarnationFor(e[2])]

(* An event of every sighting of a set.                                    *)
LEMMA Linked ==
  ASSUME NEW S \in SUBSET Spawns, NEW q,
         q = [i \in 1..Cardinality(S) |-> Link(SetToSeq(S)[i])]
  PROVE  q \in Seq(Events) /\ ToSet(q) = {Link(e) : e \in S}
<1>1. /\ Cardinality(S) \in Nat /\ SetToSeq(S) \in [1..Cardinality(S) -> S]
      /\ ToSet(SetToSeq(S)) = S
  BY FinitelyMany, SetToSeqOf
<1> DEFINE t == SetToSeq(S)
           n == Cardinality(S)
<1> HIDE DEF t, n
<1>2. \A e \in Spawns : Link(e) \in Events
  <2> SUFFICES ASSUME NEW e \in Spawns PROVE Link(e) \in Events
    OBVIOUS
  <2>1. e = <<e[1], e[2]>> /\ e[1] \in Sessions /\ e[2] \in Sessions
    BY CollectorsAssumption
  <2> QED BY <2>1 DEF Link, Events, IncarnationFor, Incs, NoInc, Kinds
<1>3. q = [i \in 1..n |-> Link(t[i])]
  BY DEF t, n
<1>4. \A i \in 1..n : t[i] \in S /\ q[i] = Link(t[i])
  BY <1>1, <1>3 DEF t, n
<1>5. q \in Seq(Events)
  <2>1. q \in [1..n -> Events] /\ n \in Nat
    <3>1. \A i \in 1..n : q[i] \in Events
      BY <1>2, <1>4
    <3> QED BY <1>1, <1>3, <3>1 DEF n
  <2> QED BY <2>1, NumberedIsSeq
<1>6. DOMAIN q = 1..n /\ DOMAIN t = 1..n
  BY <1>1, <1>3 DEF t, n
<1>7. ToSet(q) = {Link(t[i]) : i \in 1..n}
  BY <1>4, <1>6 DEF ToSet
<1>8. S = {t[i] : i \in 1..n}
  BY <1>1, <1>6 DEF ToSet, t
<1>9. ToSet(q) = {Link(e) : e \in S}
  BY <1>7, <1>8
<1> QED BY <1>5, <1>9

(* An event of the tick of a lane is of sessions it publishes, under the   *)
(* incarnation it computes for each.                                       *)
Sound(l, e) ==
  /\ {e.who, e.child} \subseteq Published(l)
  /\ e.inc = IncarnationFor(e.who) /\ e.childInc = IncarnationFor(e.child)

(* The nodes of a sequence's edges come before them, but for those of u.   *)
NodesFirst(es, u) ==
  \A i \in 1..Len(es) : es[i].kind = "spawn" =>
    \A s \in {es[i].who, es[i].child} \ u :
      \E j \in 1..(i - 1) : es[j].kind = "node" /\ es[j].who = s

(* A whole emission.                                                       *)
LEMMA EmissionFacts ==
  ASSUME NEW l
  PROVE  /\ Emission(l) \in Seq(Events)
         /\ \A e \in ToSet(Emission(l)) : Sound(l, e)
         /\ \A s \in Published(l) : Told("node", s, IncarnationFor(s)) \in ToSet(Emission(l))
         /\ \A e \in Spawns : {e[1], e[2]} \subseteq Published(l) => Link(e) \in ToSet(Emission(l))
         /\ NodesFirst(Emission(l), {})
<1> DEFINE nodes == Published(l)
           links == {e \in Spawns : e[1] \in nodes /\ e[2] \in nodes}
           up == {s \in nodes \cap Children : ~Exited(s)}
           over == {s \in nodes : Exited(s)}
           All(kind, S) == [i \in 1..Cardinality(S) |->
                              Told(kind, SetToSeq(S)[i], IncarnationFor(SetToSeq(S)[i]))]
           a == All("node", nodes)
           b == All("active", up)
           c == All("exit", over)
           d == [i \in 1..Cardinality(links) |-> Link(SetToSeq(links)[i])]
<1>1. Emission(l) = a \o b \o c \o d
  BY DEF Emission, Link
<1>2. nodes \in SUBSET Sessions /\ up \in SUBSET Sessions /\ over \in SUBSET Sessions
      /\ links \in SUBSET Spawns /\ up \subseteq nodes /\ over \subseteq nodes
  BY DEF Published, Seen, Scan, OnDisk
<1> HIDE DEF nodes, links, up, over
<1> DEFINE Of(kind, S) == {Told(kind, s, IncarnationFor(s)) : s \in S}
<1>3. /\ a \in Seq(Events) /\ ToSet(a) = Of("node", nodes)
      /\ b \in Seq(Events) /\ ToSet(b) = Of("active", up)
      /\ c \in Seq(Events) /\ ToSet(c) = Of("exit", over)
      /\ d \in Seq(Events) /\ ToSet(d) = {Link(e) : e \in links}
  <2>1. a \in Seq(Events) /\ ToSet(a) = Of("node", nodes)
    BY <1>2, Listed DEF Kinds
  <2>2. b \in Seq(Events) /\ ToSet(b) = Of("active", up)
    BY <1>2, Listed DEF Kinds
  <2>3. c \in Seq(Events) /\ ToSet(c) = Of("exit", over)
    BY <1>2, Listed DEF Kinds
  <2>4. d \in Seq(Events) /\ ToSet(d) = {Link(e) : e \in links}
    BY <1>2, Linked
  <2> QED BY <2>1, <2>2, <2>3, <2>4
<1> HIDE DEF a, b, c, d, All
<1>4. /\ a \o b \in Seq(Events) /\ a \o b \o c \in Seq(Events) /\ Emission(l) \in Seq(Events)
      /\ ToSet(Emission(l)) = ToSet(a) \cup ToSet(b) \cup ToSet(c) \cup ToSet(d)
      /\ ToSet(a \o b \o c) = ToSet(a) \cup ToSet(b) \cup ToSet(c)
  <2>1. a \o b \in Seq(Events) /\ ToSet(a \o b) = ToSet(a) \cup ToSet(b)
    BY <1>3, ToSetConcat
  <2> DEFINE ab == a \o b
  <2>5. ab \in Seq(Events) /\ c \in Seq(Events) /\ d \in Seq(Events)
    BY <1>3, <2>1
  <2> HIDE DEF ab
  <2>2. ab \o c \in Seq(Events) /\ ToSet(ab \o c) = ToSet(ab) \cup ToSet(c)
    BY <2>5, ToSetConcat
  <2> DEFINE abc == ab \o c
  <2> HIDE DEF abc
  <2>3. abc \o d \in Seq(Events) /\ ToSet(abc \o d) = ToSet(abc) \cup ToSet(d)
    <3>1. abc \in Seq(Events)
      BY <2>2 DEF abc
    <3> QED BY <2>5, <3>1, ToSetConcat
  <2> QED BY <1>1, <2>1, <2>2, <2>3 DEF ab, abc
<1>5. ASSUME NEW e \in ToSet(Emission(l)) PROVE Sound(l, e)
  <2>1. \A s \in nodes, k \in Kinds : Sound(l, Told(k, s, IncarnationFor(s)))
    BY DEF Sound, Told, nodes
  <2>2. \A p \in links : Sound(l, Link(p))
    BY DEF Sound, Link, links, nodes
  <2>3. e \in Of("node", nodes) \/ e \in Of("active", up) \/ e \in Of("exit", over)
          \/ e \in {Link(p) : p \in links}
    BY <1>3, <1>4, <1>5
  <2> QED BY <1>2, <2>1, <2>2, <2>3 DEF Kinds
<1>6. \A s \in Published(l) : Told("node", s, IncarnationFor(s)) \in ToSet(Emission(l))
  BY <1>3, <1>4 DEF nodes
<1>7. \A e \in Spawns : {e[1], e[2]} \subseteq Published(l) => Link(e) \in ToSet(Emission(l))
  BY <1>3, <1>4 DEF nodes, links
<1>8. NodesFirst(Emission(l), {})
  <2> DEFINE abc == a \o b \o c
             es == Emission(l)
  <2>1. /\ es = abc \o d /\ abc \in Seq(Events)
        /\ abc = (a \o b) \o c
    BY <1>1, <1>4
  <2>2. /\ Len(a) \in Nat /\ Len(abc) \in Nat /\ Len(d) \in Nat /\ Len(a) <= Len(abc)
        /\ Len(es) = Len(abc) + Len(d)
        /\ \A i \in 1..Len(a) : es[i] = a[i]
        /\ \A i \in 1..Len(abc) : es[i] = abc[i]
    <3>1. Len(a \o b) = Len(a) + Len(b) /\ \A i \in 1..Len(a) : (a \o b)[i] = a[i]
      BY <1>3
    <3> DEFINE ab == a \o b
    <3> HIDE DEF ab
    <3>2. Len(ab \o c) = Len(ab) + Len(c) /\ \A i \in 1..Len(ab) : (ab \o c)[i] = ab[i]
      BY <1>3, <1>4 DEF ab
    <3>3. Len(abc) = Len(ab) + Len(c) /\ \A i \in 1..Len(ab) : abc[i] = ab[i]
      BY <3>2 DEF ab
    <3> HIDE DEF abc
    <3>4. Len(es) = Len(abc) + Len(d) /\ \A i \in 1..Len(abc) : es[i] = abc[i]
      BY <1>3, <2>1
    <3>5. Len(a) \in Nat /\ Len(b) \in Nat /\ Len(c) \in Nat /\ Len(d) \in Nat
      BY <1>3
    <3>6. Len(ab) = Len(a) + Len(b) /\ \A i \in 1..Len(a) : ab[i] = a[i]
      BY <3>1 DEF ab
    <3> HIDE DEF es
    <3> QED BY <3>3, <3>4, <3>5, <3>6
  <2> HIDE DEF abc, es
  <2>3. \A e \in ToSet(abc) : e.kind # "spawn"
    <3>1. ToSet(abc) = Of("node", nodes) \cup Of("active", up) \cup Of("exit", over)
      BY <1>3, <1>4 DEF abc
    <3> QED BY <3>1 DEF Told
  <2> SUFFICES ASSUME NEW i \in 1..Len(es), es[i].kind = "spawn",
                      NEW s \in {es[i].who, es[i].child}
               PROVE  \E j \in 1..(i - 1) : es[j].kind = "node" /\ es[j].who = s
    BY DEF NodesFirst, es
  <2>4. ~(i \in 1..Len(abc))
    <3>1. \A j \in 1..Len(abc) : abc[j] \in ToSet(abc)
      <4>1. DOMAIN abc = 1..Len(abc)
        <5>1. abc \in Seq(Events)
          BY <2>1
        <5> QED BY <5>1
      <4> QED BY <4>1 DEF ToSet
    <3> QED BY <2>2, <2>3, <3>1
  <2>5. s \in nodes
    <3>1. es[i] \in ToSet(es) /\ es[i] \in Events
      BY <1>4 DEF ToSet, es
    <3>2. Sound(l, es[i])
      BY <1>5, <3>1 DEF es
    <3> QED BY <3>2 DEF Sound, nodes
  <2>6. Told("node", s, IncarnationFor(s)) \in ToSet(a)
    BY <1>3, <2>5
  <2>7. PICK j \in 1..Len(a) : a[j] = Told("node", s, IncarnationFor(s))
    BY <1>3, <2>6 DEF ToSet
  <2>8. j \in 1..(i - 1) /\ es[j] = a[j]
    BY <2>2, <2>4
  <2> QED BY <2>7, <2>8 DEF Told
<1> QED BY <1>4, <1>5, <1>6, <1>7, <1>8


(* The batch a tick hands to the store: the emission, but for what was     *)
(* dropped, and the heartbeats.                                            *)
Batch(l, d) ==
  LET es == IF d = 0 THEN Emission(l) ELSE RemoveAt(Emission(l), d)
  IN  es \o Heartbeats(es)

(* The sessions the drop concerns.                                         *)
Hit(l, d) == IF d = 0 THEN {} ELSE {Emission(l)[d].who, Emission(l)[d].child}

(* An emission without one of its events.                                  *)
LEMMA DroppedFacts ==
  ASSUME NEW l, NEW d \in 0..Len(Emission(l)), NEW es,
         es = IF d = 0 THEN Emission(l) ELSE RemoveAt(Emission(l), d)
  PROVE  /\ es \in Seq(Events)
         /\ \A e \in ToSet(es) : Sound(l, e)
         /\ \A s \in Published(l) \ Hit(l, d) : Told("node", s, IncarnationFor(s)) \in ToSet(es)
         /\ \A e \in Spawns : {e[1], e[2]} \subseteq Published(l) \ Hit(l, d)
              => Link(e) \in ToSet(es)
         /\ NodesFirst(es, Hit(l, d))
<1>1. CASE d = 0
  <2>1. es = Emission(l) /\ Hit(l, d) = {}
    BY <1>1 DEF Hit
  <2> QED BY <2>1, EmissionFacts
<1>2. CASE d # 0
  <2> DEFINE m == Emission(l)
             u == Hit(l, d)
             n == Len(m)
  <2>1. /\ m \in Seq(Events) /\ \A e \in ToSet(m) : Sound(l, e)
        /\ \A s \in Published(l) : Told("node", s, IncarnationFor(s)) \in ToSet(m)
        /\ \A e \in Spawns : {e[1], e[2]} \subseteq Published(l) => Link(e) \in ToSet(m)
        /\ NodesFirst(m, {})
    BY EmissionFacts
  <2>2. es = RemoveAt(m, d) /\ u = {m[d].who, m[d].child}
    BY <1>2 DEF Hit
  <2> HIDE DEF m, u, n
  <2>3. d \in 1..n /\ n \in Nat /\ DOMAIN m = 1..n
    <3>1. n \in Nat /\ DOMAIN m = 1..n
      BY <2>1 DEF n
    <3>2. d \in 0..n
      BY DEF m, n
    <3> QED BY <1>2, <3>1, <3>2
  <2>4. /\ es \in Seq(Events) /\ Len(es) = n - 1
        /\ \A i \in 1..(n - 1) : es[i] = IF i < d THEN m[i] ELSE m[i + 1]
    BY <2>1, <2>2, <2>3, RemoveAtPlaces DEF n
  <2>5. DOMAIN es = 1..(n - 1)
    BY <2>4
  <2>a. \A i \in 1..(n - 1) : i \in 1..n /\ i + 1 \in 1..n
    BY <2>3
  <2>6. \A e \in ToSet(es) : e \in ToSet(m)
    <3>1. \A i \in 1..(n - 1) : es[i] \in ToSet(m)
      BY <2>3, <2>4, <2>a DEF ToSet
    <3> QED BY <2>5, <3>1 DEF ToSet
  <2>7. \A e \in ToSet(m) : e \in ToSet(es) \/ e = m[d]
    <3> SUFFICES ASSUME NEW i \in 1..n, i # d PROVE m[i] \in ToSet(es)
      BY <2>3 DEF ToSet
    <3>1. CASE i < d
      <4>1. i \in 1..(n - 1)
        BY <2>3, <3>1
      <4>2. es[i] = m[i]
        BY <2>4, <3>1, <4>1
      <4> QED BY <2>5, <4>1, <4>2 DEF ToSet
    <3>2. CASE ~(i < d)
      <4>1. i - 1 \in 1..(n - 1) /\ ~(i - 1 < d) /\ i - 1 + 1 = i
        BY <2>3, <3>2
      <4>2. es[i - 1] = m[i]
        BY <2>4, <4>1
      <4> QED BY <2>5, <4>1, <4>2 DEF ToSet
    <3> QED BY <3>1, <3>2
  <2>8. \A s \in Published(l) \ u : Told("node", s, IncarnationFor(s)) \in ToSet(es)
    BY <2>1, <2>2, <2>7 DEF Told
  <2>9. \A e \in Spawns : {e[1], e[2]} \subseteq Published(l) \ u => Link(e) \in ToSet(es)
    BY <2>1, <2>2, <2>7 DEF Link
  <2>10. ASSUME NEW i \in 1..(n - 1), es[i].kind = "spawn",
                NEW s \in {es[i].who, es[i].child} \ u
         PROVE  \E j \in 1..(i - 1) : es[j].kind = "node" /\ es[j].who = s
    <3> DEFINE p == IF i < d THEN i ELSE i + 1
    <3>1. p \in 1..n /\ es[i] = m[p]
      BY <2>4, <2>a
    <3>2. PICK j \in 1..(p - 1) : m[j].kind = "node" /\ m[j].who = s
      <4> HIDE DEF p
      <4>1. p \in 1..Len(m)
        BY <3>1 DEF n
      <4>2. m[p].kind = "spawn" /\ s \in {m[p].who, m[p].child} \ u
        BY <2>10, <3>1
      <4> QED BY <2>1, <4>1, <4>2 DEF NodesFirst
    <3>3. j # d
      BY <2>2, <2>10, <3>2
    <3>4. CASE j < d
      <4>1. j \in 1..(i - 1) /\ j \in 1..(n - 1)
        BY <2>3, <3>4, <3>2
      <4>2. es[j] = m[j]
        BY <2>4, <3>4, <4>1
      <4> QED BY <3>2, <4>1, <4>2
    <3>5. CASE ~(j < d)
      <4>1. j - 1 \in 1..(i - 1) /\ j - 1 \in 1..(n - 1) /\ ~(j - 1 < d) /\ j - 1 + 1 = j
        BY <2>3, <3>2, <3>3, <3>5
      <4>2. es[j - 1] = m[j]
        BY <2>4, <4>1
      <4> QED BY <3>2, <4>1, <4>2
    <3> QED BY <3>4, <3>5
  <2>11. NodesFirst(es, u)
    BY <2>4, <2>10 DEF NodesFirst
  <2> QED BY <2>1, <2>4, <2>6, <2>8, <2>9, <2>11 DEF u
<1> QED BY <1>1, <1>2

(* The heartbeats are of the nodes of the emission.                        *)
LEMMA HeartbeatFacts ==
  ASSUME NEW es \in Seq(Events), NEW hb, hb = Heartbeats(es)
  PROVE  /\ hb \in Seq(Events)
         /\ \A e \in ToSet(hb) : /\ e.kind = "beat"
                                 /\ \E x \in ToSet(es) : e = [x EXCEPT !.kind = "beat"]
<1> DEFINE T == {e \in ToSet(es) : e.kind = "node" /\ ~Exited(e.who)}
           up == Among(es, T)
<1>1. up \in Seq(Events) /\ ToSet(up) = ToSet(es) \cap T
  <2> HIDE DEF T
  <2> QED BY AmongMembers
<1>2. hb = [i \in DOMAIN up |-> [up[i] EXCEPT !.kind = "beat"]]
  BY DEF Heartbeats
<1> HIDE DEF up, T
<1>3. DOMAIN up = 1..Len(up) /\ Len(up) \in Nat /\ \A i \in 1..Len(up) : up[i] \in Events
  BY <1>1
<1>4. \A i \in 1..Len(up) : up[i] \in ToSet(es) /\ hb[i] = [up[i] EXCEPT !.kind = "beat"]
  BY <1>1, <1>2, <1>3 DEF ToSet
<1>5. \A x \in Events : [x EXCEPT !.kind = "beat"] \in Events /\ [x EXCEPT !.kind = "beat"].kind = "beat"
  BY DEF Events, Kinds
<1>6. \A i \in 1..Len(up) : hb[i] \in Events
  BY <1>3, <1>4, <1>5
<1>7. hb \in [1..Len(up) -> Events]
  BY <1>2, <1>3, <1>6
<1>8. hb \in Seq(Events) /\ DOMAIN hb = 1..Len(up)
  BY <1>3, <1>7, NumberedIsSeq
<1>9. \A i \in 1..Len(up) : /\ hb[i].kind = "beat"
                             /\ \E x \in ToSet(es) : hb[i] = [x EXCEPT !.kind = "beat"]
  <2> SUFFICES ASSUME NEW i \in 1..Len(up)
               PROVE  /\ hb[i].kind = "beat"
                      /\ \E x \in ToSet(es) : hb[i] = [x EXCEPT !.kind = "beat"]
    OBVIOUS
  <2>1. up[i] \in Events
    BY <1>3
  <2>2. up[i] \in ToSet(es) /\ hb[i] = [up[i] EXCEPT !.kind = "beat"]
    BY <1>4
  <2> QED BY <1>5, <2>1, <2>2
<1> QED BY <1>8, <1>9 DEF ToSet

(* The batch keeps what the emission has.                                  *)
LEMMA BatchFacts ==
  ASSUME NEW l, NEW d \in 0..Len(Emission(l))
  PROVE  /\ Batch(l, d) \in Seq(Events)
         /\ \A e \in ToSet(Batch(l, d)) : Sound(l, e)
         /\ \A s \in Published(l) \ Hit(l, d) :
              Told("node", s, IncarnationFor(s)) \in ToSet(Batch(l, d))
         /\ \A e \in Spawns : {e[1], e[2]} \subseteq Published(l) \ Hit(l, d)
              => Link(e) \in ToSet(Batch(l, d))
         /\ NodesFirst(Batch(l, d), Hit(l, d))
<1> DEFINE es == IF d = 0 THEN Emission(l) ELSE RemoveAt(Emission(l), d)
           hb == Heartbeats(es)
           u == Hit(l, d)
<1>1. /\ es \in Seq(Events) /\ \A e \in ToSet(es) : Sound(l, e)
      /\ \A s \in Published(l) \ u : Told("node", s, IncarnationFor(s)) \in ToSet(es)
      /\ \A e \in Spawns : {e[1], e[2]} \subseteq Published(l) \ u => Link(e) \in ToSet(es)
      /\ NodesFirst(es, u)
  <2> HIDE DEF u
  <2> QED BY DroppedFacts DEF u
<1>2. Batch(l, d) = es \o hb
  BY DEF Batch
<1> HIDE DEF es, u
<1>3. /\ hb \in Seq(Events)
      /\ \A e \in ToSet(hb) : /\ e.kind = "beat"
                              /\ \E x \in ToSet(es) : e = [x EXCEPT !.kind = "beat"]
  BY <1>1, HeartbeatFacts
<1> HIDE DEF hb
<1>4. es \o hb \in Seq(Events) /\ ToSet(es \o hb) = ToSet(es) \cup ToSet(hb)
  BY <1>1, <1>3, ToSetConcat
<1>5. \A e \in ToSet(hb) : Sound(l, e)
  <2>1. \A x \in ToSet(es) : x \in Events
    BY <1>1 DEF ToSet
  <2>2. \A x \in ToSet(es) : LET e == [x EXCEPT !.kind = "beat"]
                             IN e.who = x.who /\ e.child = x.child /\ e.inc = x.inc /\ e.childInc = x.childInc
    BY <2>1 DEF Events
  <2> SUFFICES ASSUME NEW e \in ToSet(hb) PROVE Sound(l, e)
    OBVIOUS
  <2>3. PICK x \in ToSet(es) : e = [x EXCEPT !.kind = "beat"]
    BY <1>3
  <2>4. e.who = x.who /\ e.child = x.child /\ e.inc = x.inc /\ e.childInc = x.childInc
    BY <2>2, <2>3
  <2> QED BY <1>1, <2>4 DEF Sound
<1>6. NodesFirst(es \o hb, u)
  <2> SUFFICES ASSUME NEW i \in 1..Len(es \o hb), (es \o hb)[i].kind = "spawn",
                      NEW s \in {(es \o hb)[i].who, (es \o hb)[i].child} \ u
               PROVE  \E j \in 1..(i - 1) : (es \o hb)[j].kind = "node" /\ (es \o hb)[j].who = s
    BY DEF NodesFirst
  <2>1. /\ Len(es) \in Nat /\ Len(hb) \in Nat /\ Len(es \o hb) = Len(es) + Len(hb)
        /\ \A j \in 1..(Len(es) + Len(hb)) :
             (es \o hb)[j] = IF j <= Len(es) THEN es[j] ELSE hb[j - Len(es)]
    BY <1>1, <1>3
  <2>2. i <= Len(es)
    <3> SUFFICES ASSUME ~(i <= Len(es)) PROVE FALSE
      OBVIOUS
    <3>1. i - Len(es) \in 1..Len(hb) /\ (es \o hb)[i] = hb[i - Len(es)]
      BY <2>1
    <3>2. hb[i - Len(es)] \in ToSet(hb)
      BY <1>3, <3>1 DEF ToSet
    <3> QED BY <1>3, <3>1, <3>2
  <2>3. i \in 1..Len(es) /\ (es \o hb)[i] = es[i]
    BY <2>1, <2>2
  <2>4. PICK j \in 1..(i - 1) : es[j].kind = "node" /\ es[j].who = s
    BY <1>1, <2>3 DEF NodesFirst
  <2>5. (es \o hb)[j] = es[j]
    BY <2>1, <2>2
  <2> QED BY <2>4, <2>5
<1> QED BY <1>1, <1>2, <1>4, <1>5, <1>6 DEF u


-----------------------------------------------------------------------------
(* Everything has its type, and the disk and the clocks are in order.      *)

Times == {Never} \cup Nat

Typed ==
  /\ mode \in {"live", "once"} /\ now \in Start..(Start + MaxSeconds)
  /\ main \in {"capture", "live", "occupancy", "lanes", "flush", "visible", "sample", "done"}
  /\ due \subseteq {"overlay", "rows"} \cup ToSet(Lanes)
  /\ born \in [Sessions -> Times] /\ touched \in [Sessions -> Times]
  /\ exited \in [Sessions -> Times]
  /\ proc \subseteq Bindable /\ overlays \subseteq Bindable /\ frame \subseteq Bindable
  /\ awaiting \subseteq Sessions /\ ready \subseteq ToSet(Lanes)
  /\ first = [l \in ToSet(Lanes) |-> first[l]]
  /\ graph \in Graphs /\ inbox \in Seq(Events) /\ IsInjective(inbox)
  /\ mark \in 0..Len(inbox) /\ expired \in BOOLEAN

(* Files appear before they are written or end, and a session that ended   *)
(* has no process.                                                         *)
DiskInOrder ==
  /\ \A s \in OnDisk : born[s] <= touched[s] /\ touched[s] <= now
  /\ \A s \in Sessions : Exited(s) => /\ s \in OnDisk \ proc /\ mode = "live"
                                      /\ born[s] <= exited[s] /\ exited[s] <= now
  /\ proc \subseteq OnDisk /\ awaiting \subseteq OnDisk

(* Lanes are due only in a second of theirs, and only a live run goes on.  *)
ClocksInOrder ==
  /\ due \cap ToSet(Lanes) # {} => (now - Start) % PollEvery = 0
  /\ main = "live" => mode = "live"
  /\ main \notin {"capture", "live"} => mode = "once"
  /\ mode = "once" => now = Start /\ awaiting = {} /\ due \subseteq ToSet(Lanes)
  /\ main = "capture" => /\ now = Start /\ due = {} /\ awaiting = {} /\ inbox = <<>>
                         /\ overlays = {} /\ frame = {} /\ graph.edges = {}
                         /\ \A s \in Sessions : graph.inc[s] = NoInc
                         /\ \A l \in ToSet(Lanes) : ~first[l].done

InOrder == Typed /\ DiskInOrder /\ ClocksInOrder

(* A tick publishes a batch.                                               *)
LEMMA TickPublishes ==
  ASSUME NEW l, NativeTick(l)
  PROVE  \E d \in 0..Len(Emission(l)) :
           /\ inbox' = FoldLeft(Publish, inbox, Batch(l, d))
           /\ unlucky' = unlucky \cup Hit(l, d)
<1>1. PICK d \in 0..Len(Emission(l)) :
        LET es == IF d = 0 THEN Emission(l) ELSE RemoveAt(Emission(l), d)
        IN /\ unlucky' = IF d = 0 THEN unlucky
                         ELSE unlucky \cup {Emission(l)[d].who, Emission(l)[d].child}
           /\ PublishAll(es \o Heartbeats(es))
  BY DEF NativeTick
<1> QED BY <1>1 DEF Batch, Hit, PublishAll

(* Occupancy publishes the rows of the moment.                             *)
LEMMA OccupancyPublishes ==
  ASSUME frame \subseteq Bindable, OccupancyPublish
  PROVE  \E es \in Seq(Events) :
           /\ inbox' = FoldLeft(Publish, inbox, es)
           /\ ToSet(es) = {Told("node", s, "process") : s \in frame}
<1> DEFINE es == [i \in 1..Cardinality(frame) |-> Told("node", SetToSeq(frame)[i], "process")]
           ls == [i \in 1..Cardinality(frame) |->
                    Told("node", SetToSeq(frame)[i], IncarnationFor(SetToSeq(frame)[i]))]
<1>1. inbox' = FoldLeft(Publish, inbox, es)
  BY DEF OccupancyPublish, PublishAll
<1>2. frame \in SUBSET Sessions
  BY CollectorsAssumption
<1>3. ls \in Seq(Events) /\ ToSet(ls) = {Told("node", s, IncarnationFor(s)) : s \in frame}
  <2> HIDE DEF ls
  <2> QED BY <1>2, Listed DEF Kinds, ls
<1>4. \A i \in 1..Cardinality(frame) : SetToSeq(frame)[i] \in frame
  BY <1>2, FinitelyMany, SetToSeqOf
<1>5. es = ls
  BY <1>4 DEF IncarnationFor
<1>6. \A s \in frame : IncarnationFor(s) = "process"
  BY DEF IncarnationFor
<1> HIDE DEF es, ls
<1> QED BY <1>1, <1>3, <1>5, <1>6

(* A publication keeps the queue's type, and its mark.                     *)
LEMMA QueueTyped ==
  ASSUME Typed, NEW es \in Seq(Events), inbox' = FoldLeft(Publish, inbox, es)
  PROVE  inbox' \in Seq(Events) /\ IsInjective(inbox') /\ mark \in 0..Len(inbox')
<1>1. /\ inbox' \in Seq(Events) /\ IsInjective(inbox') /\ Len(inbox) <= Len(inbox')
  BY PublishQueue DEF Typed
<1> QED BY <1>1 DEF Typed

(* What Reconcile leaves.                                                  *)
LEMMA ReconcileTyped ==
  ASSUME Typed, NEW n \in 1..Len(inbox), inbox' = SubSeq(inbox, n + 1, Len(inbox)),
         mark' = IF mark > n THEN mark - n ELSE 0
  PROVE  /\ SubSeq(inbox, 1, n) \in Seq(Events) /\ Len(SubSeq(inbox, 1, n)) = n
         /\ \A i \in 1..n : SubSeq(inbox, 1, n)[i] = inbox[i]
         /\ inbox' \in Seq(Events) /\ IsInjective(inbox') /\ mark' \in 0..Len(inbox')
         /\ Len(inbox') = Len(inbox) - n /\ \A i \in 1..(Len(inbox) - n) : inbox'[i] = inbox[i + n]
<1>1. inbox \in Seq(Events) /\ Len(inbox) \in Nat /\ mark \in 0..Len(inbox) /\ IsInjective(inbox)
      /\ DOMAIN inbox = 1..Len(inbox)
  BY DEF Typed
<1>2. /\ SubSeq(inbox, 1, n) \in Seq(Events) /\ Len(SubSeq(inbox, 1, n)) = n
      /\ \A i \in 1..n : SubSeq(inbox, 1, n)[i] = inbox[i]
  BY <1>1, CutPlaces
<1>3. /\ inbox' \in Seq(Events) /\ Len(inbox') = Len(inbox) - n
      /\ \A i \in 1..(Len(inbox) - n) : inbox'[i] = inbox[i + n]
  BY <1>1, CutPlaces
<1>4. mark' \in 0..Len(inbox')
  <2> DEFINE len == Len(inbox)
  <2>1. len \in Nat /\ mark \in 0..len /\ n \in 1..len /\ Len(inbox') = len - n
    BY <1>1, <1>3
  <2> HIDE DEF len
  <2> QED BY <2>1
<1>5. IsInjective(inbox')
  <2>1. DOMAIN inbox' = 1..(Len(inbox) - n)
    BY <1>3
  <2>2. \A i \in 1..(Len(inbox) - n) : i + n \in 1..Len(inbox)
    BY <1>1
  <2>3. \A i, j \in 1..(Len(inbox) - n) : i + n = j + n => i = j
    BY <1>1
  <2>4. SUFFICES ASSUME NEW i \in 1..(Len(inbox) - n), NEW j \in 1..(Len(inbox) - n),
                      inbox'[i] = inbox'[j]
               PROVE  i = j
    BY <2>1 DEF IsInjective
  <2>5. inbox[i + n] = inbox[j + n]
    BY <1>3, <2>4
  <2>6. i + n \in DOMAIN inbox /\ j + n \in DOMAIN inbox
    BY <1>1, <2>2
  <2>7. \A a, b \in DOMAIN inbox : inbox[a] = inbox[b] => a = b
    BY <1>1 DEF IsInjective
  <2> QED BY <2>3, <2>5, <2>6, <2>7
<1> QED BY <1>2, <1>3, <1>4, <1>5


(* The lanes are finitely many, as many as their sequence is long.         *)
LEMMA LanesFinite ==
  /\ IsFiniteSet(ToSet(Lanes)) /\ Cardinality(ToSet(Lanes)) = Len(Lanes) /\ Len(Lanes) \in Nat
  /\ DOMAIN Lanes = 1..Len(Lanes)
<1>1. /\ DOMAIN Lanes = 1..Len(Lanes) /\ Len(Lanes) \in Nat /\ IsInjective(Lanes)
      /\ Lanes \in [1..Len(Lanes) -> ToSet(Lanes)]
  BY CollectorsAssumption DEF ToSet
<1>2. \A l \in ToSet(Lanes) : \E i \in 1..Len(Lanes) : Lanes[i] = l
  BY <1>1 DEF ToSet
<1>3. Lanes \in Bijection(1..Len(Lanes), ToSet(Lanes))
  BY <1>1, <1>2 DEF Bijection, Injection, Surjection, IsInjective
<1>4. ExistsBijection(1..Len(Lanes), ToSet(Lanes))
  BY <1>3 DEF ExistsBijection
<1>5. \E n \in Nat : ExistsBijection(1..n, ToSet(Lanes))
  BY <1>1, <1>4
<1>6. IsFiniteSet(ToSet(Lanes))
  BY <1>5, FS_NatBijection
<1>7. Cardinality(ToSet(Lanes)) = Len(Lanes)
  BY <1>1, <1>4, FS_CountingElements
<1> QED BY <1>1, <1>6, <1>7

(* The first state is in order.                                            *)
LEMMA InitInOrder == Init => InOrder
<1> SUFFICES ASSUME Init PROVE InOrder
  OBVIOUS
<1>0. /\ {PollEvery, BindWindow, ExitWindow, Horizon, MaxSeconds} \subseteq Nat
      /\ Start \in Nat /\ Start > 0 /\ Bindable \subseteq Sessions
  BY CollectorsAssumption DEF Start
<1>1. Typed
  <2>1. graph \in Graphs
    BY DEF Init, Graphs, Incs, States, NoInc
  <2>2. inbox \in Seq(Events) /\ IsInjective(inbox) /\ mark \in 0..Len(inbox)
    BY DEF Init, IsInjective
  <2>3. now \in Start..(Start + MaxSeconds)
    BY <1>0 DEF Init
  <2>4. born \in [Sessions -> Times] /\ touched \in [Sessions -> Times]
        /\ exited \in [Sessions -> Times]
    BY <1>0 DEF Init, Times, Never
  <2>5. proc \subseteq Bindable
    BY DEF Init
  <2> QED BY <2>1, <2>2, <2>3, <2>4, <2>5 DEF Init, Typed
<1>2. DiskInOrder
  <2>1. \A s \in OnDisk : born[s] <= touched[s] /\ touched[s] <= now
    BY <1>0 DEF Init, OnDisk
  <2>2. \A s \in Sessions : ~Exited(s)
    BY DEF Init, Exited
  <2>3. proc \subseteq OnDisk /\ awaiting \subseteq OnDisk
    BY <1>0 DEF Init, OnDisk
  <2> QED BY <2>1, <2>2, <2>3 DEF DiskInOrder
<1>3. ClocksInOrder
  BY DEF Init, ClocksInOrder, NoWitness
<1> QED BY <1>1, <1>2, <1>3 DEF InOrder

(* Everything stays typed.                                                 *)
LEMMA NextTyped == ASSUME InOrder, CollectorsNext PROVE Typed'
<1>0. /\ {PollEvery, BindWindow, ExitWindow, Horizon, MaxSeconds} \subseteq Nat
      /\ Start \in Nat /\ Start > 0 /\ Bindable \subseteq Sessions
  BY CollectorsAssumption DEF Start
<1> USE DEF InOrder, Typed
<1>1. CASE Capture
  <2>1. overlays' \subseteq Bindable /\ frame' \subseteq Bindable
    BY <1>1 DEF Capture, Refresh, CollectOverlays, Rows
  <2>2. main' \in {"occupancy", "live"} /\ due' = ToSet(Lanes)
    BY <1>1 DEF Capture
  <2> QED BY <1>1, <2>1, <2>2 DEF Capture, world, evidence
<1>2. CASE RefreshOverlayOnly
  <2>1. overlays' \subseteq Bindable
    BY <1>2 DEF RefreshOverlayOnly, Refresh, CollectOverlays
  <2> QED BY <1>2, <2>1 DEF RefreshOverlayOnly, world, evidence, caller
<1>3. CASE TickProc
  BY <1>3 DEF TickProc, Rows, world, evidence, caller
<1>4. CASE Reconcile
  <2>1. PICK n \in 1..Len(inbox) :
          /\ graph' = FoldLeft(Reconciled, graph, SubSeq(inbox, 1, n))
          /\ inbox' = SubSeq(inbox, n + 1, Len(inbox))
          /\ mark' = IF mark > n THEN mark - n ELSE 0
    BY <1>4 DEF Reconcile
  <2>2. SubSeq(inbox, 1, n) \in Seq(Events) /\ inbox' \in Seq(Events) /\ IsInjective(inbox')
        /\ mark' \in 0..Len(inbox')
    <3> HIDE DEF Typed
    <3> QED BY <2>1, ReconcileTyped
  <2>3. graph' \in Graphs
    BY <2>1, <2>2, ReconcileKnows
  <2> QED BY <1>4, <2>2, <2>3 DEF Reconcile, world, engine
<1>5. CASE OccupancyPublish
  <2>1. PICK es \in Seq(Events) : inbox' = FoldLeft(Publish, inbox, es)
    BY <1>5, OccupancyPublishes
  <2>2. inbox' \in Seq(Events) /\ IsInjective(inbox') /\ mark \in 0..Len(inbox')
    <3> HIDE DEF Typed
    <3> QED BY <2>1, QueueTyped DEF InOrder
  <2> QED BY <1>5, <2>2 DEF OccupancyPublish, world, engine, caller
<1>6. ASSUME NEW l \in ToSet(Lanes), NativeTick(l) PROVE Typed'
  <2>1. PICK d \in 0..Len(Emission(l)) : inbox' = FoldLeft(Publish, inbox, Batch(l, d))
    BY <1>6, TickPublishes
  <2>2. inbox' \in Seq(Events) /\ IsInjective(inbox') /\ mark \in 0..Len(inbox')
    <3>1. Batch(l, d) \in Seq(Events)
      BY BatchFacts
    <3> HIDE DEF Typed
    <3> QED BY <2>1, <3>1, QueueTyped DEF InOrder
  <2>3. awaiting' \subseteq Sessions /\ due' \subseteq due
    BY <1>6 DEF NativeTick, Seen, Scan, OnDisk
  <2>4. first' = [m \in ToSet(Lanes) |-> first'[m]]
    BY <1>6 DEF NativeTick, FirstTick
  <2> QED BY <1>6, <2>2, <2>3, <2>4 DEF NativeTick, world, engine, caller
<1>7. ASSUME NEW l \in ToSet(Lanes), ScanFails(l) PROVE Typed'
  <2>4. first' = [m \in ToSet(Lanes) |-> first'[m]]
    BY <1>7 DEF ScanFails, FirstTick
  <2> QED BY <1>7, <2>4 DEF ScanFails, world, engine, caller
<1>8. CASE OccupancySeen
  BY <1>8 DEF OccupancySeen, world, engine, evidence
<1>9. CASE LaneReady
  <2>1. PICK l \in ToSet(Lanes) : ready' = ready \cup {l}
    <3>1. DOMAIN Lanes = 1..Len(Lanes) /\ Len(Lanes) \in Nat
      BY CollectorsAssumption
    <3>2. Cardinality(ready) \in Nat
      <4>1. ready \subseteq {Lanes[i] : i \in 1..Len(Lanes)}
        BY <3>1 DEF ToSet
      <4>2. IsFiniteSet(ToSet(Lanes))
        BY LanesFinite
      <4> QED BY <4>2, FS_Subset, FS_CardinalityType
    <3>3. NextLane \in ToSet(Lanes)
      BY <1>9, <3>1, <3>2 DEF LaneReady, NextLane, ToSet
    <3> QED BY <1>9, <3>3 DEF LaneReady
  <2> QED BY <1>9, <2>1 DEF LaneReady, world, engine, evidence
<1>10. CASE FlushBegins
  <2>1. mark' \in 0..Len(inbox) /\ expired' \in BOOLEAN /\ main' = "flush"
    <3>1. mark' = Len(inbox) /\ main' = "flush" /\ expired' \in {expired, TRUE}
      BY <1>10 DEF FlushBegins
    <3>2. Len(inbox) \in Nat
      OBVIOUS
    <3> HIDE DEF Typed
    <3>3. expired \in BOOLEAN
      BY DEF Typed
    <3>4. Len(inbox) \in 0..Len(inbox)
      BY <3>2
    <3> QED BY <3>1, <3>3, <3>4
  <2> QED BY <1>10, <2>1 DEF FlushBegins, world, engine, evidence
<1>11. CASE FlushEnds
  <2>1. expired' \in BOOLEAN /\ main' \in {"visible", "sample"}
    BY <1>11 DEF FlushEnds
  <2> QED BY <1>11, <2>1 DEF FlushEnds, world, engine, evidence
<1>12. CASE WaitVisible
  <2>1. expired' \in BOOLEAN /\ main' = "sample"
    BY <1>12 DEF WaitVisible
  <2> QED BY <1>12, <2>1 DEF WaitVisible, world, engine, evidence
<1>13. CASE Sample
  BY <1>13 DEF Sample, world, engine, evidence
<1>14. ASSUME NEW s \in Sessions, Born(s) PROVE Typed'
  <2>1. born' \in [Sessions -> Times] /\ touched' \in [Sessions -> Times] /\ proc' \subseteq Bindable
    BY <1>0, <1>14 DEF Born, Times
  <2> QED BY <1>14, <2>1 DEF Born, engine, evidence, caller
<1>15. ASSUME NEW s \in Sessions, Writes(s) PROVE Typed'
  <2>1. touched' \in [Sessions -> Times]
    BY <1>0, <1>15 DEF Writes, Times
  <2> QED BY <1>15, <2>1 DEF Writes, engine, evidence, caller
<1>16. ASSUME NEW s \in Sessions, Quits(s) PROVE Typed'
  BY <1>16 DEF Quits, engine, evidence, caller
<1>17. ASSUME NEW s \in Sessions, Exits(s) PROVE Typed'
  <2>1. touched' \in [Sessions -> Times] /\ exited' \in [Sessions -> Times]
    BY <1>0, <1>17 DEF Exits, Times
  <2> QED BY <1>17, <2>1 DEF Exits, engine, evidence, caller
<1>18. CASE Second
  <2>1. now' \in Start..(Start + MaxSeconds)
    BY <1>0, <1>18 DEF Second
  <2>2. due' \subseteq {"overlay"} \cup ToSet(Lanes)
    BY <1>18 DEF Second
  <2> QED BY <1>18, <2>1, <2>2 DEF Second, world, engine, evidence, caller
<1> QED BY <1>1, <1>2, <1>3, <1>4, <1>5, <1>6, <1>7, <1>8, <1>9, <1>10, <1>11, <1>12, <1>13,
          <1>14, <1>15, <1>16, <1>17, <1>18 DEF CollectorsNext


(* The disk and the clocks stay in order.                                  *)
LEMMA NextDisk == ASSUME InOrder, CollectorsNext PROVE DiskInOrder'
<1>0. /\ {PollEvery, BindWindow, ExitWindow, Horizon, MaxSeconds} \subseteq Nat
      /\ Start \in Nat /\ Start > 0 /\ Bindable \subseteq Sessions
      /\ now \in Nat
  BY CollectorsAssumption DEF Start, InOrder, Typed
<1> USE DEF InOrder, DiskInOrder, OnDisk, Exited
<1>1. CASE UNCHANGED <<born, touched, exited, proc, now, awaiting, mode>>
  BY <1>1
<1>2. ASSUME NEW l \in ToSet(Lanes), NativeTick(l) PROVE DiskInOrder'
  <2>1. awaiting' \subseteq OnDisk
    BY <1>2 DEF NativeTick, Seen, Scan
  <2> QED BY <1>2, <2>1 DEF NativeTick, world
<1>3. ASSUME NEW s \in Sessions, Born(s) PROVE DiskInOrder'
  <2>1. ~Exited(s)
    BY <1>3 DEF Born
  <2>2. /\ born' = [born EXCEPT ![s] = now] /\ touched' = [touched EXCEPT ![s] = now]
        /\ proc' = proc \cup ({s} \cap Bindable)
        /\ UNCHANGED <<exited, awaiting, now, mode>>
    BY <1>3 DEF Born, evidence
  <2>3. born \in [Sessions -> Times] /\ touched \in [Sessions -> Times] /\ now # Never
    BY <1>0 DEF Typed, Never
  <2>4. /\ OnDisk' = OnDisk \cup {s} /\ s \notin OnDisk
        /\ \A x \in OnDisk : born'[x] = born[x] /\ touched'[x] = touched[x]
        /\ born'[s] = now /\ touched'[s] = now
    BY <1>3, <2>2, <2>3 DEF Born
  <2>5. \A x \in OnDisk' : born'[x] <= touched'[x] /\ touched'[x] <= now'
    BY <1>0, <2>2, <2>4
  <2>6. \A x \in Sessions : Exited(x)' => /\ x \in OnDisk' \ proc' /\ mode' = "live"
                                          /\ born'[x] <= exited'[x] /\ exited'[x] <= now'
    <3> SUFFICES ASSUME NEW x \in Sessions, Exited(x)
                 PROVE  /\ x \in OnDisk' \ proc' /\ mode' = "live"
                        /\ born'[x] <= exited'[x] /\ exited'[x] <= now'
      BY <2>2
    <3>1. x # s /\ x \in OnDisk
      BY <2>1
    <3> HIDE DEF OnDisk, Exited
    <3> QED BY <2>2, <2>4, <3>1
  <2>7. proc' \subseteq OnDisk' /\ awaiting' \subseteq OnDisk'
    BY <2>2, <2>4
  <2> QED BY <2>5, <2>6, <2>7
<1>4. ASSUME NEW s \in Sessions, Writes(s) PROVE DiskInOrder'
  BY <1>0, <1>4 DEF Writes, Typed, evidence, Times, Never
<1>5. ASSUME NEW s \in Sessions, Quits(s) PROVE DiskInOrder'
  BY <1>5 DEF Quits, evidence
<1>6. ASSUME NEW s \in Sessions, Exits(s) PROVE DiskInOrder'
  <2>1. mode = "live"
    BY <1>6 DEF Exits, Changes, ClocksInOrder
  <2>2. born[s] <= now
    BY <1>0, <1>6 DEF Exits, Typed, Times, Never
  <2> QED BY <1>0, <1>6, <2>1, <2>2 DEF Exits, Typed, evidence
<1>7. CASE Second
  <2>1. now' = now + 1 /\ UNCHANGED <<born, touched, exited, proc, awaiting, mode>>
    BY <1>7 DEF Second, world, evidence
  <2>2. /\ \A s \in Sessions : exited[s] # Never => exited[s] \in Nat
        /\ \A s \in Sessions : born[s] # Never => touched[s] \in Int
    BY DEF Typed, Times, Never
  <2>3. \A t \in Int : t <= now => t <= now'
    BY <1>0, <2>1
  <2>4. OnDisk' = OnDisk /\ \A s \in Sessions : Exited(s)' <=> Exited(s)
    BY <2>1
  <2>5. \A s \in OnDisk' : born'[s] <= touched'[s] /\ touched'[s] <= now'
    BY <2>1, <2>2, <2>3, <2>4
  <2>6. \A s \in Sessions : Exited(s)' => /\ s \in OnDisk' \ proc' /\ mode' = "live"
                                          /\ born'[s] <= exited'[s] /\ exited'[s] <= now'
    <3> SUFFICES ASSUME NEW s \in Sessions, Exited(s)
                 PROVE  /\ s \in OnDisk' \ proc' /\ mode' = "live"
                        /\ born'[s] <= exited'[s] /\ exited'[s] <= now'
      BY <2>4
    <3>1. exited[s] \in Int
      BY <2>2
    <3>2. exited[s] <= now'
      BY <2>3, <3>1
    <3> HIDE DEF OnDisk, Exited
    <3> QED BY <2>1, <2>4, <3>2
  <2>7. proc' \subseteq OnDisk' /\ awaiting' \subseteq OnDisk'
    BY <2>1, <2>4
  <2> QED BY <2>5, <2>6, <2>7
<1>8. CASE \/ Capture \/ RefreshOverlayOnly \/ TickProc \/ Reconcile \/ OccupancyPublish
           \/ \E l \in ToSet(Lanes) : ScanFails(l)
           \/ OccupancySeen \/ LaneReady \/ FlushBegins \/ FlushEnds \/ WaitVisible \/ Sample
  <2>1. UNCHANGED <<born, touched, exited, proc, now, awaiting, mode>>
    BY <1>8 DEF Capture, RefreshOverlayOnly, TickProc, Reconcile, OccupancyPublish, ScanFails,
       OccupancySeen, LaneReady, FlushBegins, FlushEnds, WaitVisible, Sample, world, evidence
  <2> HIDE DEF DiskInOrder
  <2> QED BY <1>1, <2>1
<1> QED BY <1>2, <1>3, <1>4, <1>5, <1>6, <1>7, <1>8 DEF CollectorsNext

(* The clocks stay in order.                                               *)
LEMMA NextClocks == ASSUME InOrder, CollectorsNext PROVE ClocksInOrder'
<1>0. /\ {PollEvery, BindWindow, ExitWindow, Horizon, MaxSeconds} \subseteq Nat
      /\ PollEvery > 1 /\ Start \in Nat /\ now \in Nat
      /\ \A l \in ToSet(Lanes) : l \notin {"overlay", "rows"}
  BY CollectorsAssumption DEF Start, InOrder, Typed
<1>a. main' # "capture"
  <2>1. CASE Capture
    BY <2>1 DEF Capture
  <2>2. CASE RefreshOverlayOnly \/ TickProc \/ Second \/ \E s \in Sessions : Born(s) \/ Writes(s) \/ Quits(s) \/ Exits(s)
    BY <2>2 DEF RefreshOverlayOnly, TickProc, Second, Born, Writes, Quits, Exits, Changes, caller
  <2>3. CASE Reconcile
    <3>1. PICK n \in 1..Len(inbox) : TRUE
      BY <2>3 DEF Reconcile
    <3>2. inbox # <<>>
      <4> SUFFICES ASSUME inbox = <<>> PROVE FALSE
        OBVIOUS
      <4> QED BY <3>1
    <3> QED BY <2>3, <3>2 DEF Reconcile, InOrder, ClocksInOrder
  <2>4. CASE OccupancyPublish \/ \E l \in ToSet(Lanes) : NativeTick(l) \/ ScanFails(l)
    BY <2>4 DEF OccupancyPublish, NativeTick, ScanFails, Collecting, caller
  <2>5. CASE OccupancySeen \/ LaneReady \/ FlushBegins \/ FlushEnds \/ WaitVisible \/ Sample
    BY <2>5 DEF OccupancySeen, LaneReady, FlushBegins, FlushEnds, WaitVisible, Sample
  <2> QED BY <2>1, <2>2, <2>3, <2>4, <2>5 DEF CollectorsNext
<1> DEFINE OnTime == due \cap ToSet(Lanes) # {} => (now - Start) % PollEvery = 0
           Moded == /\ main = "live" => mode = "live"
                    /\ main \notin {"capture", "live"} => mode = "once"
                    /\ mode = "once" => now = Start /\ awaiting = {} /\ due \subseteq ToSet(Lanes)
<1>b. OnTime /\ Moded
  BY DEF InOrder, ClocksInOrder
<1>1. CASE Capture
  <2>1. now = Start /\ awaiting = {}
    BY <1>1 DEF Capture, InOrder, ClocksInOrder
  <2>2. (now - Start) % PollEvery = 0
    <3>1. now - Start = 0 /\ 0 % PollEvery = 0
      BY <1>0, <2>1
    <3> QED BY <3>1
  <2>3. UNCHANGED <<mode, now, awaiting>> /\ due' = ToSet(Lanes)
        /\ main' = IF mode = "once" THEN "occupancy" ELSE "live"
    BY <1>1 DEF Capture, evidence
  <2>4. mode \in {"live", "once"}
    BY DEF InOrder, Typed
  <2> QED BY <1>a, <2>1, <2>2, <2>3, <2>4 DEF ClocksInOrder
<1> DEFINE Still == /\ UNCHANGED <<mode, now>> /\ due' \cap ToSet(Lanes) \subseteq due
                    /\ \/ main' = main
                       \/ main' \notin {"capture", "live"} /\ main \notin {"capture", "live"}
                    /\ mode = "once" => awaiting' = {} /\ due' \subseteq due
<1>2. CASE Still
  <2>1. OnTime'
    BY <1>b, <1>2
  <2>2. Moded'
    BY <1>b, <1>2
  <2> QED BY <1>a, <2>1, <2>2 DEF ClocksInOrder
<1>3. CASE RefreshOverlayOnly \/ TickProc
  <2>1. mode # "once"
    BY <1>3, <1>b DEF RefreshOverlayOnly, TickProc
  <2>2. /\ UNCHANGED <<mode, now, main>> /\ due' \cap ToSet(Lanes) \subseteq due
    BY <1>0, <1>3 DEF RefreshOverlayOnly, TickProc, caller
  <2>3. Still
    BY <2>1, <2>2
  <2> HIDE DEF Still
  <2> QED BY <1>2, <2>3
<1>4. CASE Reconcile \/ OccupancyPublish \/ \E l \in ToSet(Lanes) : ScanFails(l)
  <2>1. UNCHANGED <<mode, now, main, awaiting>> /\ due' \subseteq due
    BY <1>4 DEF Reconcile, OccupancyPublish, ScanFails, caller
  <2>3. Still
    BY <1>b, <2>1
  <2> HIDE DEF Still
  <2> QED BY <1>2, <2>3
<1>5. ASSUME NEW l \in ToSet(Lanes), NativeTick(l) PROVE ClocksInOrder'
  <2>1. UNCHANGED <<mode, now, main>> /\ due' \subseteq due
    BY <1>5 DEF NativeTick, caller
  <2>2. mode = "once" => awaiting' = {}
    BY <1>5, <1>b DEF NativeTick, AwaitBinding
  <2>3. Still
    BY <2>1, <2>2
  <2> HIDE DEF Still
  <2> QED BY <1>2, <2>3
<1>6. CASE OccupancySeen \/ LaneReady \/ FlushBegins \/ FlushEnds \/ WaitVisible \/ Sample
  <2>1. UNCHANGED <<mode, now, due, awaiting>>
    BY <1>6 DEF OccupancySeen, LaneReady, FlushBegins, FlushEnds, WaitVisible, Sample, evidence
  <2>2. main' \notin {"capture", "live"} /\ main \notin {"capture", "live"}
    BY <1>6 DEF OccupancySeen, LaneReady, FlushBegins, FlushEnds, WaitVisible, Sample
  <2>3. Still
    BY <1>b, <2>1, <2>2
  <2> HIDE DEF Still
  <2> QED BY <1>2, <2>3
<1>7. CASE \E s \in Sessions : Born(s) \/ Writes(s) \/ Quits(s) \/ Exits(s)
  <2>1. UNCHANGED <<mode, now, due, awaiting, main>>
    BY <1>7 DEF Born, Writes, Quits, Exits, evidence, caller
  <2>3. Still
    BY <1>b, <2>1
  <2> HIDE DEF Still
  <2> QED BY <1>2, <2>3
<1>8. CASE Second
  <2>1. mode = "live" /\ main' = main /\ mode' = mode /\ main = "live" /\ now' = now + 1
    BY <1>8, <1>b DEF Second, caller
  <2>2. OnTime'
    BY <1>0, <1>8, <2>1 DEF Second
  <2> QED BY <1>a, <2>1, <2>2 DEF ClocksInOrder
<1> QED BY <1>1, <1>3, <1>4, <1>5, <1>6, <1>7, <1>8 DEF CollectorsNext

(* The order is an invariant.                                              *)
LEMMA StepInOrder == InOrder /\ [CollectorsNext]_collectorVars => InOrder'
<1> SUFFICES ASSUME InOrder, [CollectorsNext]_collectorVars PROVE InOrder'
  OBVIOUS
<1>1. CASE CollectorsNext
  BY <1>1, NextTyped, NextDisk, NextClocks DEF InOrder
<1>2. CASE UNCHANGED collectorVars
  BY <1>2 DEF collectorVars, world, engine, evidence, caller, ghosts, InOrder, Typed, DiskInOrder,
     ClocksInOrder, OnDisk, Exited
<1> QED BY <1>1, <1>2

-----------------------------------------------------------------------------
(* One incarnation per session.                                            *)

(* A session whose process an overlay can name, undisturbed, is in the rows *)
(* from the second after it appeared on; until then its lane has not given  *)
(* it its tick of grace and come back.                                      *)
Bound(s) ==
  /\ s \in proc
  /\ main # "capture" =>
       /\ s \in frame => s \in overlays
       /\ s \in overlays => s \in frame \/ "rows" \in due
       /\ s \notin overlays => born[s] = now \/ (born[s] = now - 1 /\ "overlay" \in due)
       /\ s \notin frame => mode = "live" /\ born[s] >= now - 1
       /\ s \in awaiting \ frame =>
            Home[s] \notin due /\ (born[s] = now => (now - Start) % PollEvery = 0)

BoundAll ==
  /\ overlays \cup frame \subseteq OnDisk
  /\ \A s \in (OnDisk \cap Bindable) \ disturbed : Bound(s)

(* Nothing is bound at first.                                              *)
LEMMA InitBound == Init => BoundAll
BY DEF Init, BoundAll, Bound, OnDisk

(* The sessions stay bound.                                                *)
LEMMA NextBound == ASSUME InOrder, BoundAll, CollectorsNext PROVE BoundAll'
<1>0. /\ {PollEvery, BindWindow, ExitWindow, Horizon, MaxSeconds} \subseteq Nat
      /\ PollEvery > 1 /\ Start \in Nat /\ now \in Nat /\ now >= Start /\ Bindable \subseteq Sessions
      /\ \A l \in ToSet(Lanes) : l \notin {"overlay", "rows"}
      /\ \A s \in Sessions : Home[s] \in ToSet(Lanes)
  BY CollectorsAssumption DEF Start, InOrder, Typed
<1>a. born \in [Sessions -> Times]
  BY DEF InOrder, Typed
<1>b. \A s \in OnDisk : s \in Sessions /\ born[s] \in Nat
  BY <1>a DEF OnDisk, Times
<1>1. CASE Capture
  <2>1. /\ awaiting' = {} /\ UNCHANGED <<born, proc, now, mode>>
        /\ main' # "capture"
    BY <1>1 DEF Capture, InOrder, ClocksInOrder, world, evidence
  <2>2. PICK lost \in SUBSET ToSet(Lanes) :
          /\ overlays' = {s \in OnDisk \cap proc : Home[s] \notin lost}
          /\ disturbed' = disturbed \cup {s \in OnDisk : Home[s] \in lost}
    BY <1>1 DEF Capture, Refresh, CollectOverlays
  <2>3. frame' = overlays' \cap proc
    BY <1>1 DEF Capture, Rows
  <2>4. OnDisk' = OnDisk
    BY <2>1 DEF OnDisk
  <2>5. \A s \in (OnDisk' \cap Bindable) \ disturbed' :
          s \in proc' /\ s \in overlays' /\ s \in frame'
    BY <2>1, <2>2, <2>3, <2>4 DEF BoundAll, Bound
  <2> QED BY <2>1, <2>2, <2>3, <2>4, <2>5 DEF BoundAll, Bound
<1>2. CASE RefreshOverlayOnly
  <2>1. /\ UNCHANGED <<born, proc, now, mode, main, frame, awaiting>> /\ main = "live"
        /\ due' = (due \ {"overlay"}) \cup {"rows"} /\ mode = "live"
    BY <1>2 DEF RefreshOverlayOnly, world, evidence, caller, InOrder, ClocksInOrder
  <2>2. PICK lost \in SUBSET ToSet(Lanes) :
          /\ overlays' = {s \in OnDisk \cap proc : Home[s] \notin lost}
          /\ disturbed' = disturbed \cup {s \in OnDisk : Home[s] \in lost}
    BY <1>2 DEF RefreshOverlayOnly, Refresh, CollectOverlays
  <2>3. OnDisk' = OnDisk
    BY <2>1 DEF OnDisk
  <2>4. ASSUME NEW s \in (OnDisk' \cap Bindable) \ disturbed' PROVE Bound(s)'
    <3>1. Bound(s) /\ s \in overlays'
      BY <2>2, <2>3 DEF BoundAll, Bound
    <3>2. Home[s] \in due' => Home[s] \in due
      BY <1>0, <2>1
    <3> QED BY <2>1, <3>1, <3>2 DEF Bound
  <2> QED BY <2>1, <2>2, <2>3, <2>4 DEF BoundAll
<1>3. CASE TickProc
  <2>1. /\ UNCHANGED <<born, proc, now, mode, main, overlays, awaiting, disturbed>> /\ main = "live"
        /\ due' = due \ {"rows"} /\ mode = "live" /\ frame' = overlays \cap proc
    BY <1>3 DEF TickProc, Rows, world, evidence, caller, ghosts, InOrder, ClocksInOrder
  <2>3. OnDisk' = OnDisk
    BY <2>1 DEF OnDisk
  <2>4. ASSUME NEW s \in (OnDisk' \cap Bindable) \ disturbed' PROVE Bound(s)'
    <3>1. Bound(s) /\ born[s] \in Nat
      BY <1>b, <2>1, <2>3 DEF BoundAll
    <3>2. CASE s \in overlays
      BY <2>1, <3>1, <3>2 DEF Bound
    <3>3. CASE s \notin overlays
      <4>1. s \notin frame /\ born[s] >= now - 1 /\ ("overlay" \in due => "overlay" \in due')
        BY <1>0, <2>1, <3>1, <3>3 DEF Bound
      <4> QED BY <2>1, <3>1, <3>3, <4>1 DEF Bound
    <3> QED BY <3>2, <3>3
  <2> QED BY <2>1, <2>3, <2>4 DEF BoundAll
<1>4. ASSUME NEW l \in ToSet(Lanes), NativeTick(l) PROVE BoundAll'
  <2>1. /\ UNCHANGED <<born, proc, now, mode, main, overlays, frame, disturbed>>
        /\ due' = due \ {l} /\ l \in due
        /\ awaiting' = {s \in awaiting : Home[s] # l \/ s \in Seen(l)}
                         \cup {s \in Seen(l) : AwaitBinding(s)}
    BY <1>4 DEF NativeTick, world, engine, caller
  <2>2. (now - Start) % PollEvery = 0
    BY <1>4, <2>1 DEF InOrder, ClocksInOrder
  <2>3. OnDisk' = OnDisk
    BY <2>1 DEF OnDisk
  <2>4. ASSUME NEW s \in (OnDisk' \cap Bindable) \ disturbed' PROVE Bound(s)'
    <3>1. Bound(s)
      BY <2>1, <2>3 DEF BoundAll
    <3>2. \A k \in {"overlay", "rows"} : k \in due => k \in due'
      BY <1>0, <1>4, <2>1
    <3>3. ASSUME s \in awaiting' \ frame, main # "capture"
          PROVE  Home[s] \notin due' /\ (born[s] = now => (now - Start) % PollEvery = 0)
      <4>1. CASE s \in awaiting
        BY <2>1, <3>1, <3>3, <4>1 DEF Bound
      <4>2. CASE s \in Seen(l)
        BY <2>1, <2>2, <4>2 DEF Seen, Scan
      <4> QED BY <2>1, <3>3, <4>1, <4>2
    <3> QED BY <2>1, <3>1, <3>2, <3>3 DEF Bound
  <2> QED BY <2>1, <2>3, <2>4 DEF BoundAll
<1>5. ASSUME NEW l \in ToSet(Lanes), ScanFails(l) PROVE BoundAll'
  <2>1. /\ UNCHANGED <<born, proc, now, mode, main, overlays, frame, disturbed, awaiting>>
        /\ due' = due \ {l}
    BY <1>5 DEF ScanFails, world, engine, caller
  <2>2. \A k \in {"overlay", "rows"} : k \in due => k \in due'
    BY <1>0, <1>5, <2>1
  <2> QED BY <2>1, <2>2 DEF BoundAll, Bound, OnDisk
<1>6. ASSUME NEW x \in Sessions, Born(x) PROVE BoundAll'
  <2>1. /\ UNCHANGED <<now, mode, main, overlays, frame, disturbed, awaiting, due>>
        /\ born' = [born EXCEPT ![x] = now] /\ x \notin OnDisk /\ mode = "live"
        /\ proc' = proc \cup ({x} \cap Bindable) /\ now # Never
    BY <1>0, <1>6 DEF Born, engine, evidence, caller, ghosts, OnDisk, Changes, InOrder,
       ClocksInOrder, Never
  <2>2. /\ OnDisk' = OnDisk \cup {x} /\ \A s \in OnDisk : born'[s] = born[s]
        /\ born'[x] = now
    BY <1>a, <1>6, <2>1 DEF OnDisk
  <2>3. ASSUME NEW s \in (OnDisk' \cap Bindable) \ disturbed' PROVE Bound(s)'
    <3>1. CASE s \in OnDisk
      <4>1. Bound(s) /\ born'[s] = born[s]
        BY <2>1, <2>2, <3>1 DEF BoundAll
      <4> QED BY <2>1, <4>1 DEF Bound
    <3>2. CASE s = x
      <4>1. s \notin overlays /\ s \notin frame /\ s \notin awaiting /\ s \in proc'
        BY <2>1, <3>2 DEF BoundAll, InOrder, DiskInOrder
      <4>2. born'[s] = now' /\ born'[s] >= now' - 1
        BY <1>0, <2>1, <2>2, <3>2
      <4>3. s \notin overlays' /\ s \notin frame' /\ s \notin awaiting' /\ mode' = "live"
        BY <2>1, <4>1
      <4> QED BY <4>1, <4>2, <4>3 DEF Bound
    <3> QED BY <2>2, <3>1, <3>2
  <2> QED BY <2>1, <2>2, <2>3 DEF BoundAll
<1>7. ASSUME NEW x \in Sessions, Quits(x) PROVE BoundAll'
  <2>1. /\ UNCHANGED <<born, now, mode, main, overlays, frame, awaiting, due>>
        /\ proc' = proc \ {x} /\ disturbed' = disturbed \cup {x}
    BY <1>7 DEF Quits, engine, evidence, caller
  <2> QED BY <2>1 DEF BoundAll, Bound, OnDisk
<1>8. CASE Second
  <2>1. /\ UNCHANGED <<born, proc, mode, main, overlays, frame, awaiting, disturbed>>
        /\ due = {} /\ now' = now + 1 /\ main = "live"
        /\ due' = {"overlay"} \cup (IF (now + 1 - Start) % PollEvery = 0 THEN ToSet(Lanes) ELSE {})
    BY <1>8 DEF Second, world, engine, evidence, caller, ghosts
  <2>2. OnDisk' = OnDisk
    BY <2>1 DEF OnDisk
  <2>3. ASSUME NEW s \in (OnDisk' \cap Bindable) \ disturbed' PROVE Bound(s)'
    <3>1. Bound(s) /\ born[s] \in Nat /\ Home[s] # "overlay"
      BY <1>0, <1>b, <2>1, <2>2 DEF BoundAll
    <3>2. s \in overlays => s \in frame
      BY <2>1, <3>1 DEF Bound
    <3>3. s \notin overlays => born[s] = now' - 1 /\ "overlay" \in due'
      BY <1>0, <2>1, <3>1 DEF Bound
    <3>4. s \notin frame => born[s] = now /\ mode = "live" /\ born[s] >= now' - 1 /\ born[s] # now'
      BY <1>0, <2>1, <3>1, <3>2 DEF Bound
    <3>5. ASSUME s \in awaiting \ frame PROVE Home[s] \notin due'
      <4>1. (now - Start) % PollEvery = 0
        BY <2>1, <3>1, <3>4, <3>5 DEF Bound
      <4>2. (now - Start) + 1 = now + 1 - Start /\ now - Start \in Nat
        BY <1>0
      <4>3. (now + 1 - Start) % PollEvery # 0
        <5> DEFINE y == now - Start
        <5>1. y \in Nat /\ y % PollEvery = 0 /\ now + 1 - Start = y + 1
          BY <4>1, <4>2
        <5> HIDE DEF y
        <5>2. (y + 1) % PollEvery = 1
          <6>1. /\ (y + 1) % PollEvery = IF y % PollEvery = PollEvery - 1 THEN 0 ELSE (y % PollEvery) + 1
            BY <1>0, <5>1, NextModulo
          <6> QED BY <1>0, <5>1, <6>1
        <5> QED BY <5>1, <5>2
      <4> QED BY <2>1, <3>1, <4>3
    <3> QED BY <2>1, <3>1, <3>2, <3>3, <3>4, <3>5 DEF Bound
  <2> QED BY <2>1, <2>2, <2>3 DEF BoundAll
<1>9. CASE \/ Reconcile \/ OccupancyPublish
           \/ OccupancySeen \/ LaneReady \/ FlushBegins \/ FlushEnds \/ WaitVisible \/ Sample
           \/ \E s \in Sessions : Writes(s) \/ Exits(s)
  <2>1. /\ UNCHANGED <<born, proc, now, mode, overlays, frame, disturbed, awaiting, due>>
        /\ main' = main \/ main # "capture"
    <3>1. CASE Reconcile \/ OccupancyPublish
      BY <3>1 DEF Reconcile, OccupancyPublish, world, engine, caller, ghosts
    <3>2. CASE OccupancySeen \/ LaneReady \/ FlushBegins \/ FlushEnds \/ WaitVisible \/ Sample
      BY <3>2 DEF OccupancySeen, LaneReady, FlushBegins, FlushEnds, WaitVisible, Sample, world,
         engine, evidence, ghosts
    <3>3. CASE \E s \in Sessions : Writes(s) \/ Exits(s)
      BY <3>3 DEF Writes, Exits, engine, evidence, caller, ghosts
    <3> QED BY <1>9, <3>1, <3>2, <3>3
  <2> QED BY <2>1 DEF BoundAll, Bound, OnDisk
<1> QED BY <1>1, <1>2, <1>3, <1>4, <1>5, <1>6, <1>7, <1>8, <1>9 DEF CollectorsNext


(* The incarnation every event of a session names.                         *)
Right(s) ==
  IF s \in Bindable \ disturbed THEN "process"
  ELSE IF mode = "once" THEN IncarnationFor(s) ELSE "invocation"

Steady(s) == mode = "once" \/ s \notin disturbed

(* An event of a steady session names it.                                  *)
Names(e) ==
  /\ e.kind \in {"node", "spawn"} /\ Steady(e.who) => e.inc = Right(e.who)
  /\ e.kind = "spawn" /\ Steady(e.child) => e.childInc = Right(e.child)

OneIncarnation ==
  /\ \A s \in Sessions : Steady(s) => graph.inc[s] \in {NoInc, Right(s)}
  /\ \A i \in 1..Len(inbox) : Names(inbox[i])

(* What a lane publishes of a steady session names it.                     *)
LEMMA PublishedRight ==
  ASSUME InOrder, BoundAll, NEW l \in ToSet(Lanes), Collecting, l \in due,
         NEW s \in Published(l), Steady(s)
  PROVE  IncarnationFor(s) = Right(s)
<1>0. /\ {PollEvery, BindWindow, ExitWindow, Horizon, MaxSeconds} \subseteq Nat
      /\ PollEvery > 1 /\ BindWindow > PollEvery /\ now \in Nat /\ Bindable \subseteq Sessions
  BY CollectorsAssumption DEF Start, InOrder, Typed
<1>1. s \in Seen(l) /\ ~AwaitBinding(s) /\ s \in OnDisk /\ Home[s] = l
  BY DEF Published, Seen, Scan
<1>2. CASE s \in Bindable \ disturbed
  <2>1. Bound(s) /\ main # "capture"
    BY <1>1, <1>2 DEF BoundAll, Collecting
  <2>2. ~Exited(s)
    BY <1>1, <2>1 DEF InOrder, DiskInOrder, Bound, OnDisk
  <2>3. now - touched[s] < BindWindow \/ s \in frame
    <3> SUFFICES ASSUME s \notin frame PROVE now - touched[s] < BindWindow
      OBVIOUS
    <3>1. born[s] >= now - 1 /\ born[s] <= touched[s] /\ touched[s] <= now
      BY <1>1, <2>1 DEF Bound, InOrder, DiskInOrder
    <3>2. born[s] \in Int /\ touched[s] \in Int
      BY <1>1 DEF InOrder, Typed, OnDisk, Times, Never
    <3> QED BY <1>0, <3>1, <3>2
  <2>4. s \in frame
    BY <1>1, <2>1, <2>2, <2>3 DEF AwaitBinding, Bound
  <2> QED BY <1>2, <2>4 DEF Right, IncarnationFor
<1>3. CASE s \notin Bindable \ disturbed /\ mode = "once"
  BY <1>3 DEF Right
<1>4. CASE s \notin Bindable \ disturbed /\ mode # "once"
  <2>1. s \notin frame
    BY <1>4 DEF Steady, InOrder, Typed
  <2> QED BY <1>4, <2>1 DEF Right, IncarnationFor
<1> QED BY <1>2, <1>3, <1>4

(* No two incarnations at first.                                           *)
LEMMA InitOne == Init => OneIncarnation
BY DEF Init, OneIncarnation

(* A publication that names the right ones.                                *)
LEMMA PublishOne ==
  ASSUME InOrder, OneIncarnation, NEW es \in Seq(Events), \A e \in ToSet(es) : Names(e),
         inbox' = FoldLeft(Publish, inbox, es),
         UNCHANGED <<graph, mode, frame, disturbed>>
  PROVE  OneIncarnation'
<1>1. /\ ToSet(inbox') = ToSet(inbox) \cup ToSet(es) /\ inbox' \in Seq(Events)
      /\ inbox \in Seq(Events)
  BY PublishQueue DEF InOrder, Typed
<1>2. \A e : Names(e)' <=> Names(e)
  BY DEF Names, Steady, Right, IncarnationFor
<1>3. \A e \in ToSet(inbox) : Names(e)
  BY <1>1 DEF OneIncarnation, ToSet
<1>4. \A i \in 1..Len(inbox') : inbox'[i] \in ToSet(inbox')
  BY <1>1 DEF ToSet
<1>5. \A i \in 1..Len(inbox') : Names(inbox'[i])
  BY <1>1, <1>3, <1>4
<1>6. \A i \in 1..Len(inbox') : Names(inbox[i])'
  BY <1>5 DEF Names, Steady, Right, IncarnationFor
<1>7. \A s \in Sessions : Steady(s)' => graph'.inc[s] \in {NoInc, Right(s)'}
  BY DEF OneIncarnation, Steady, Right, IncarnationFor
<1> QED BY <1>6, <1>7 DEF OneIncarnation


(* The right incarnations stay the right ones.                             *)
LEMMA OneKept ==
  ASSUME OneIncarnation, UNCHANGED <<graph, inbox, mode>>, disturbed \subseteq disturbed',
         \/ UNCHANGED <<frame, disturbed>>
         \/ mode = "live"
  PROVE  OneIncarnation'
<1>1. \A s : Steady(s)' => Steady(s) /\ Right(s)' = Right(s)
  <2> SUFFICES ASSUME NEW s, Steady(s)' PROVE Steady(s) /\ Right(s)' = Right(s)
    OBVIOUS
  <2>1. CASE UNCHANGED <<frame, disturbed>>
    BY <2>1 DEF Steady, Right, IncarnationFor
  <2>2. CASE mode = "live"
    BY <2>2 DEF Steady, Right
  <2> QED BY <2>1, <2>2
<1>2. \A e : Names(e) => Names(e)'
  BY <1>1 DEF Names
<1>3. inbox' = inbox /\ graph' = graph
  OBVIOUS
<1>4. \A i \in 1..Len(inbox') : Names(inbox[i])'
  BY <1>2, <1>3 DEF OneIncarnation
<1>5. \A s \in Sessions : Steady(s)' => graph'.inc[s] \in {NoInc, Right(s)'}
  BY <1>1, <1>3 DEF OneIncarnation
<1> QED BY <1>3, <1>4, <1>5 DEF OneIncarnation

(* Every session keeps to one incarnation.                                 *)
LEMMA NextOne ==
  ASSUME InOrder, BoundAll, OneIncarnation, CollectorsNext
  PROVE  OneIncarnation'
<1>0. InOrder' => inbox' \in Seq(Events)
  BY DEF InOrder, Typed
<1>1. CASE Capture
  <2>1. inbox' = <<>> /\ \A s \in Sessions : graph'.inc[s] = NoInc
    BY <1>1 DEF Capture, InOrder, ClocksInOrder, evidence
  <2>2. 1..Len(inbox') = {}
    BY <2>1
  <2> QED BY <2>1, <2>2 DEF OneIncarnation
<1>2. CASE RefreshOverlayOnly \/ TickProc \/ \E s \in Sessions : Quits(s)
  <2>1. /\ mode = "live" /\ UNCHANGED <<graph, inbox, mode>> /\ disturbed \subseteq disturbed'
    BY <1>2 DEF RefreshOverlayOnly, TickProc, Quits, Refresh, Changes, InOrder, ClocksInOrder,
       evidence, ghosts
  <2> QED BY <2>1, OneKept
<1>3. CASE Reconcile
  <2>1. PICK n \in 1..Len(inbox) :
          /\ graph' = FoldLeft(Reconciled, graph, SubSeq(inbox, 1, n))
          /\ inbox' = SubSeq(inbox, n + 1, Len(inbox))
          /\ mark' = IF mark > n THEN mark - n ELSE 0
    BY <1>3 DEF Reconcile
  <2> DEFINE es == SubSeq(inbox, 1, n)
  <2>2. /\ es \in Seq(Events) /\ Len(es) = n /\ \A i \in 1..n : es[i] = inbox[i]
        /\ Len(inbox') = Len(inbox) - n
        /\ \A i \in 1..(Len(inbox) - n) : inbox'[i] = inbox[i + n]
        /\ Len(inbox) \in Nat
    BY <2>1, ReconcileTyped DEF InOrder, Typed
  <2>3. \A s \in Sessions :
          \/ graph'.inc[s] = graph.inc[s]
          \/ \E j \in 1..Len(es) : es[j].kind = "node" /\ es[j].who = s /\ graph'.inc[s] = es[j].inc
    <3>1. graph \in Graphs /\ graph' = FoldLeft(Reconciled, graph, es)
      BY <2>1 DEF InOrder, Typed
    <3> HIDE DEF es
    <3> QED BY <2>2, <3>1, ReconcileKnows
  <2> HIDE DEF es
  <2>4. UNCHANGED <<mode, frame, disturbed>>
    BY <1>3 DEF Reconcile, engine, ghosts
  <2>5. \A e : Names(e)' <=> Names(e)
    BY <2>4 DEF Names, Steady, Right, IncarnationFor
  <2>6. \A s : (Steady(s)' <=> Steady(s)) /\ Right(s)' = Right(s)
    BY <2>4 DEF Steady, Right, IncarnationFor
  <2>7. \A i \in 1..(Len(inbox) - n) : Names(inbox[i + n])
    <3>1. \A i \in 1..(Len(inbox) - n) : i + n \in 1..Len(inbox)
      BY <2>2
    <3> QED BY <3>1 DEF OneIncarnation
  <2>8. \A i \in 1..Len(inbox') : Names(inbox[i])'
    BY <2>2, <2>5, <2>7
  <2>9. \A j \in 1..n : Names(es[j])
    <3>1. \A j \in 1..n : j \in 1..Len(inbox)
      BY <2>2
    <3> QED BY <2>2, <3>1 DEF OneIncarnation
  <2>10. \A s \in Sessions : Steady(s)' => graph'.inc[s] \in {NoInc, Right(s)'}
    <3> SUFFICES ASSUME NEW s \in Sessions, Steady(s) PROVE graph'.inc[s] \in {NoInc, Right(s)}
      BY <2>6
    <3>1. CASE graph'.inc[s] = graph.inc[s]
      BY <3>1 DEF OneIncarnation
    <3>2. ASSUME NEW j \in 1..Len(es), es[j].kind = "node", es[j].who = s, graph'.inc[s] = es[j].inc
          PROVE  graph'.inc[s] = Right(s)
      BY <2>2, <2>9, <3>2 DEF Names
    <3> QED BY <2>3, <3>1, <3>2
  <2> QED BY <2>8, <2>10 DEF OneIncarnation
<1>4. CASE OccupancyPublish
  <2>1. PICK es \in Seq(Events) : /\ inbox' = FoldLeft(Publish, inbox, es)
                                  /\ ToSet(es) = {Told("node", s, "process") : s \in frame}
    BY <1>4, OccupancyPublishes DEF InOrder, Typed
  <2>2. \A s \in frame : Steady(s) => Right(s) = "process"
    BY DEF Steady, Right, IncarnationFor, InOrder, Typed
  <2>3. \A e \in ToSet(es) : Names(e)
    BY <2>1, <2>2 DEF Names, Told
  <2>4. UNCHANGED <<graph, mode, frame, disturbed>>
    BY <1>4 DEF OccupancyPublish, engine, ghosts
  <2> QED BY <2>1, <2>3, <2>4, PublishOne
<1>5. ASSUME NEW l \in ToSet(Lanes), NativeTick(l) PROVE OneIncarnation'
  <2>1. PICK d \in 0..Len(Emission(l)) : inbox' = FoldLeft(Publish, inbox, Batch(l, d))
    BY <1>5, TickPublishes
  <2>2. Batch(l, d) \in Seq(Events) /\ \A e \in ToSet(Batch(l, d)) : Sound(l, e)
    BY BatchFacts
  <2>3. \A s \in Published(l) : Steady(s) => IncarnationFor(s) = Right(s)
    <3>1. Collecting /\ l \in due
      BY <1>5 DEF NativeTick
    <3> QED BY <3>1, PublishedRight
  <2>4. \A e \in ToSet(Batch(l, d)) : Names(e)
    BY <2>2, <2>3 DEF Names, Sound
  <2>5. UNCHANGED <<graph, mode, frame, disturbed>>
    BY <1>5 DEF NativeTick, engine
  <2> QED BY <2>1, <2>2, <2>4, <2>5, PublishOne
<1>6. CASE \/ \E l \in ToSet(Lanes) : ScanFails(l)
           \/ OccupancySeen \/ LaneReady \/ FlushBegins \/ FlushEnds \/ WaitVisible \/ Sample
           \/ \E s \in Sessions : Born(s) \/ Writes(s) \/ Exits(s)
           \/ Second
  <2>1. UNCHANGED <<graph, inbox, mode, frame, disturbed>>
    <3>1. CASE \E l \in ToSet(Lanes) : ScanFails(l)
      BY <3>1 DEF ScanFails, engine
    <3>2. CASE OccupancySeen \/ LaneReady \/ FlushBegins \/ FlushEnds \/ WaitVisible \/ Sample
      BY <3>2 DEF OccupancySeen, LaneReady, FlushBegins, FlushEnds, WaitVisible, Sample,
         engine, evidence, ghosts
    <3>3. CASE \E s \in Sessions : Born(s) \/ Writes(s) \/ Exits(s)
      BY <3>3 DEF Born, Writes, Exits, engine, evidence, ghosts
    <3>4. CASE Second
      BY <3>4 DEF Second, engine, evidence, ghosts
    <3> QED BY <1>6, <3>1, <3>2, <3>3, <3>4
  <2> QED BY <2>1, OneKept
<1> QED BY <1>1, <1>2, <1>3, <1>4, <1>5, <1>6 DEF CollectorsNext

(* The inductive invariant behind the sightings.                           *)
Sighted == InOrder /\ BoundAll /\ OneIncarnation

(* It holds at first, and every step keeps it.                             *)
LEMMA SightedInductive ==
  /\ Init => Sighted
  /\ Sighted /\ [CollectorsNext]_collectorVars => Sighted'
<1>1. Init => Sighted
  BY InitInOrder, InitBound, InitOne DEF Sighted
<1>2. ASSUME Sighted, [CollectorsNext]_collectorVars PROVE Sighted'
  <2>1. InOrder'
    BY <1>2, StepInOrder DEF Sighted
  <2>2. CASE CollectorsNext
    BY <1>2, <2>1, <2>2, NextBound, NextOne DEF Sighted
  <2>3. CASE UNCHANGED collectorVars
    <3>1. BoundAll'
      BY <1>2, <2>3 DEF collectorVars, world, engine, evidence, caller, ghosts, BoundAll, Bound,
         OnDisk, Sighted
    <3>2. OneIncarnation'
      BY <1>2, <2>3, OneKept DEF collectorVars, engine, evidence, ghosts, Sighted
    <3> QED BY <2>1, <3>1, <3>2 DEF Sighted
  <2> QED BY <1>2, <2>2, <2>3
<1> QED BY <1>1, <1>2

(* Every sighting is of one incarnation, and everything has its type: a    *)
(* session whose process an overlay can name is never established under    *)
(* the incarnation of a session without a process.                         *)
THEOREM CollectorsSightings == CollectorsSpec => []SightingsInOrder
<1>1. Sighted => SightingsInOrder
  <2>1. InOrder => CollectorsTypeOK
    BY DEF InOrder, Typed, CollectorsTypeOK, Graphs, OnDisk
  <2>2. Sighted => NewbornBound
    <3> SUFFICES ASSUME Sighted, NEW s \in Bindable \ disturbed PROVE graph.inc[s] # "invocation"
      BY DEF NewbornBound
    <3>1. s \in Sessions
      BY CollectorsAssumption
    <3>2. Steady(s) /\ Right(s) = "process"
      BY DEF Steady, Right
    <3> QED BY <3>1, <3>2 DEF Sighted, OneIncarnation, NoInc
  <2> QED BY <2>1, <2>2 DEF Sighted, SightingsInOrder
<1> QED BY <1>1, SightedInductive, PTL DEF CollectorsSpec


-----------------------------------------------------------------------------
(* What is known stays known.                                              *)

(* The graph has the node, or its event waits.                             *)
KnownNode(s) ==
  \/ graph.inc[s] # NoInc
  \/ \E i \in 1..Len(inbox) : inbox[i].kind = "node" /\ inbox[i].who = s

(* The graph has the edge, or its event waits.                             *)
KnownEdge(e) ==
  \/ e \in graph.edges
  \/ \E i \in 1..Len(inbox) : inbox[i].kind = "spawn" /\ <<inbox[i].who, inbox[i].child>> = e

(* The nodes of a waiting edge are known before it.                        *)
NodesAhead ==
  \A i \in 1..Len(inbox) : inbox[i].kind = "spawn" =>
    \A s \in {inbox[i].who, inbox[i].child} \ unlucky :
      \/ graph.inc[s] # NoInc
      \/ \E j \in 1..(i - 1) : inbox[j].kind = "node" /\ inbox[j].who = s

(* A step that keeps what is known.                                        *)
Keeps ==
  /\ NodesAhead'
  /\ \A s \in Sessions : KnownNode(s) => KnownNode(s)'
  /\ \A e \in Spawns : {e[1], e[2]} \cap unlucky = {} /\ Steady(e[1]) /\ Steady(e[2]) /\ KnownEdge(e)
       => KnownEdge(e)'

(* A publication keeps it, and makes what it publishes known.              *)
LEMMA PublishKeeps ==
  ASSUME InOrder, NodesAhead, NEW es \in Seq(Events), inbox' = FoldLeft(Publish, inbox, es),
         graph' = graph, unlucky \subseteq unlucky', NodesFirst(es, unlucky')
  PROVE  /\ Keeps
         /\ \A s \in Sessions : \A v : Told("node", s, v) \in ToSet(es) => KnownNode(s)'
         /\ \A e \in Spawns : Link(e) \in ToSet(es) => KnownEdge(e)'
<1>1. /\ inbox \in Seq(Events) /\ inbox' \in Seq(Events) /\ Len(inbox) <= Len(inbox')
      /\ \A i \in 1..Len(inbox) : inbox'[i] = inbox[i]
      /\ ToSet(inbox') = ToSet(inbox) \cup ToSet(es)
      /\ \A k \in 1..Len(inbox') : k > Len(inbox) =>
           \E i \in 1..Len(es) : /\ inbox'[k] = es[i]
                                 /\ \A j \in 1..(i - 1) : \E m \in 1..(k - 1) : inbox'[m] = es[j]
  <2>1. inbox \in Seq(Events) /\ IsInjective(inbox)
    BY DEF InOrder, Typed
  <2>2. /\ inbox' \in Seq(Events) /\ Len(inbox) <= Len(inbox')
        /\ \A i \in 1..Len(inbox) : inbox'[i] = inbox[i]
        /\ ToSet(inbox') = ToSet(inbox) \cup ToSet(es)
        /\ InTurn(inbox, es, inbox')
    BY <2>1, PublishQueue
  <2> QED BY <2>1, <2>2 DEF InTurn
<1>2. Len(inbox) \in Nat /\ Len(inbox') \in Nat /\ \A i \in 1..Len(inbox) : i \in 1..Len(inbox')
  BY <1>1
<1>3. NodesAhead'
  <2> SUFFICES ASSUME NEW k \in 1..Len(inbox'), inbox'[k].kind = "spawn",
                      NEW s \in {inbox'[k].who, inbox'[k].child} \ unlucky'
               PROVE  \/ graph'.inc[s] # NoInc
                      \/ \E j \in 1..(k - 1) : inbox'[j].kind = "node" /\ inbox'[j].who = s
    BY DEF NodesAhead
  <2>1. CASE k \in 1..Len(inbox)
    <3>1. \/ graph.inc[s] # NoInc
          \/ \E j \in 1..(k - 1) : inbox[j].kind = "node" /\ inbox[j].who = s
      <4>1. inbox[k] = inbox'[k]
        BY <1>1, <2>1
      <4>2. inbox[k].kind = "spawn" /\ s \in {inbox[k].who, inbox[k].child} \ unlucky
        BY <4>1
      <4> QED BY <2>1, <4>2 DEF NodesAhead
    <3>2. \A j \in 1..(k - 1) : j \in 1..Len(inbox)
      BY <1>2, <2>1
    <3> QED BY <1>1, <3>1, <3>2
  <2>2. CASE k \notin 1..Len(inbox)
    <3>1. k > Len(inbox)
      BY <1>2, <2>2
    <3>2. PICK i \in 1..Len(es) : /\ inbox'[k] = es[i]
                                  /\ \A j \in 1..(i - 1) : \E m \in 1..(k - 1) : inbox'[m] = es[j]
      BY <1>1, <3>1
    <3>3. PICK j \in 1..(i - 1) : es[j].kind = "node" /\ es[j].who = s
      BY <3>2 DEF NodesFirst
    <3> QED BY <3>2, <3>3
  <2> QED BY <2>1, <2>2
<1>4. \A s \in Sessions : KnownNode(s) => KnownNode(s)'
  BY <1>1, <1>2 DEF KnownNode
<1>5. \A e \in Spawns : KnownEdge(e) => KnownEdge(e)'
  BY <1>1, <1>2 DEF KnownEdge
<1>6. \A x \in ToSet(es) : \E i \in 1..Len(inbox') : inbox'[i] = x
  <2>1. DOMAIN inbox' = 1..Len(inbox')
    BY <1>1
  <2>2. ToSet(inbox') = {inbox'[i] : i \in 1..Len(inbox')}
    BY <2>1 DEF ToSet
  <2> QED BY <1>1, <2>2
<1>7. \A s \in Sessions : \A v : Told("node", s, v) \in ToSet(es) => KnownNode(s)'
  BY <1>6 DEF KnownNode, Told
<1>8. \A e \in Spawns : Link(e) \in ToSet(es) => KnownEdge(e)'
  <2>1. \A e \in Spawns : <<e[1], e[2]>> = e
    BY CollectorsAssumption
  <2> QED BY <1>6, <2>1 DEF KnownEdge, Link
<1> QED BY <1>3, <1>4, <1>5, <1>7, <1>8 DEF Keeps

(* Reconcile takes what it makes known, and moves the rest up.             *)
LEMMA ReconcileMoves ==
  ASSUME InOrder, OneIncarnation, NodesAhead, Reconcile
  PROVE  /\ NodesAhead' /\ graph.edges \subseteq graph'.edges
         /\ \A s \in Sessions : graph.inc[s] # NoInc => graph'.inc[s] # NoInc
         /\ \E n \in 1..Len(inbox) :
              /\ Len(inbox') = Len(inbox) - n /\ mark' = IF mark > n THEN mark - n ELSE 0
              /\ \A k \in 1..Len(inbox) :
                   \/ k > n /\ inbox'[k - n] = inbox[k]
                   \/ /\ inbox[k].kind = "node" => graph'.inc[inbox[k].who] # NoInc
                      /\ \A e \in Spawns :
                           /\ inbox[k].kind = "spawn" /\ <<inbox[k].who, inbox[k].child>> = e
                           /\ {e[1], e[2]} \cap unlucky = {} /\ Steady(e[1]) /\ Steady(e[2])
                           => e \in graph'.edges
<1>1. PICK n \in 1..Len(inbox) :
        /\ graph' = FoldLeft(Reconciled, graph, SubSeq(inbox, 1, n))
        /\ inbox' = SubSeq(inbox, n + 1, Len(inbox))
        /\ mark' = IF mark > n THEN mark - n ELSE 0
  BY DEF Reconcile
<1> DEFINE es == SubSeq(inbox, 1, n)
<1>2. /\ es \in Seq(Events) /\ Len(es) = n /\ \A i \in 1..n : es[i] = inbox[i]
      /\ Len(inbox') = Len(inbox) - n
      /\ \A i \in 1..(Len(inbox) - n) : inbox'[i] = inbox[i + n]
      /\ Len(inbox) \in Nat /\ \A i \in 1..Len(inbox) : inbox[i] \in Events
  BY <1>1, ReconcileTyped DEF InOrder, Typed
<1>3. graph \in Graphs /\ graph' = FoldLeft(Reconciled, graph, es)
  BY <1>1 DEF InOrder, Typed
<1> HIDE DEF es
<1>4. /\ \A s \in Sessions : graph.inc[s] # NoInc => graph'.inc[s] = graph.inc[s]
      /\ \A j \in 1..n : inbox[j].kind = "node" => graph'.inc[inbox[j].who] # NoInc
      /\ graph.edges \subseteq graph'.edges
      /\ \A i \in 1..n :
           /\ es[i].kind = "spawn"
           /\ Settled(graph, es, i, es[i].who, es[i].inc)
           /\ Settled(graph, es, i, es[i].child, es[i].childInc)
           => <<es[i].who, es[i].child>> \in graph'.edges
  <2>1. /\ \A s \in Sessions : graph.inc[s] # NoInc => graph'.inc[s] = graph.inc[s]
        /\ \A j \in 1..Len(es) : es[j].kind = "node" => graph'.inc[es[j].who] # NoInc
        /\ graph.edges \subseteq graph'.edges
        /\ \A i \in 1..Len(es) :
             /\ es[i].kind = "spawn"
             /\ Settled(graph, es, i, es[i].who, es[i].inc)
             /\ Settled(graph, es, i, es[i].child, es[i].childInc)
             => <<es[i].who, es[i].child>> \in graph'.edges
    <3>1. es \in Seq(Events)
      BY <1>2
    <3> QED BY <1>3, <3>1, ReconcileKnows
  <2> QED BY <1>2, <2>1
<1>5. unlucky' = unlucky
  BY DEF Reconcile, ghosts
<1>6. \A k \in 1..Len(inbox) : k \in 1..n \/ (k - n \in 1..Len(inbox') /\ inbox'[k - n] = inbox[k])
  <2> SUFFICES ASSUME NEW k \in 1..Len(inbox), ~(k \in 1..n)
               PROVE  k - n \in 1..Len(inbox') /\ inbox'[k - n] = inbox[k]
    OBVIOUS
  <2>1. k - n \in 1..(Len(inbox) - n) /\ k - n + n = k
    BY <1>2
  <2> QED BY <1>2, <2>1
<1>8. NodesAhead'
  <2> SUFFICES ASSUME NEW i \in 1..Len(inbox'), inbox'[i].kind = "spawn",
                      NEW s \in {inbox'[i].who, inbox'[i].child} \ unlucky
               PROVE  \/ graph'.inc[s] # NoInc
                      \/ \E j \in 1..(i - 1) : inbox'[j].kind = "node" /\ inbox'[j].who = s
    BY <1>5 DEF NodesAhead
  <2>1. i + n \in 1..Len(inbox) /\ inbox'[i] = inbox[i + n]
    BY <1>2
  <2>2. \/ graph.inc[s] # NoInc
        \/ \E j \in 1..((i + n) - 1) : inbox[j].kind = "node" /\ inbox[j].who = s
    <3> DEFINE k == i + n
    <3>1. k \in 1..Len(inbox) /\ inbox[k].kind = "spawn"
          /\ s \in {inbox[k].who, inbox[k].child} \ unlucky
      BY <2>1
    <3> HIDE DEF k
    <3>2. \/ graph.inc[s] # NoInc
          \/ \E j \in 1..(k - 1) : inbox[j].kind = "node" /\ inbox[j].who = s
      BY <3>1 DEF NodesAhead
    <3> QED BY <3>2 DEF k
  <2>3. s \in Sessions
    <3>1. inbox[i + n] \in Events
      BY <1>2, <2>1
    <3>2. inbox[i + n].who \in Sessions /\ inbox[i + n].child \in Sessions
      BY <3>1 DEF Events
    <3> QED BY <2>1, <3>2
  <2>4. CASE graph.inc[s] # NoInc
    BY <1>4, <2>3, <2>4
  <2>5. ASSUME NEW j \in 1..((i + n) - 1), inbox[j].kind = "node", inbox[j].who = s
        PROVE  \/ graph'.inc[s] # NoInc
               \/ \E m \in 1..(i - 1) : inbox'[m].kind = "node" /\ inbox'[m].who = s
    <3>1. j \in 1..Len(inbox)
      BY <1>2, <2>1
    <3>2. CASE j \in 1..n
      BY <1>4, <2>5, <3>2
    <3>3. CASE j \notin 1..n
      <4>1. j - n \in 1..(i - 1)
        BY <1>2, <2>1, <3>3
      <4> QED BY <1>6, <2>5, <3>1, <3>3, <4>1
    <3> QED BY <3>2, <3>3
  <2> QED BY <2>2, <2>4, <2>5
<1>9. ASSUME NEW e \in Spawns, {e[1], e[2]} \cap unlucky = {}, Steady(e[1]), Steady(e[2]),
             NEW k \in 1..n, inbox[k].kind = "spawn", <<inbox[k].who, inbox[k].child>> = e
      PROVE  e \in graph'.edges
  <2>1. e[1] = inbox[k].who /\ e[2] = inbox[k].child /\ es[k] = inbox[k]
    BY <1>2, <1>9
  <2>2. /\ inbox[k].inc = Right(e[1]) /\ inbox[k].childInc = Right(e[2])
        /\ e[1] \in Sessions /\ e[2] \in Sessions
    <3>0. k \in 1..Len(inbox)
      BY <1>2
    <3>1. Names(inbox[k])
      BY <3>0 DEF OneIncarnation
    <3>2. inbox[k].who \in Sessions /\ inbox[k].child \in Sessions
      <4>1. inbox[k] \in Events
        BY <1>2, <3>0
      <4> QED BY <4>1 DEF Events
    <3> QED BY <1>9, <2>1, <3>1, <3>2 DEF Names
  <2>3. ASSUME NEW s \in {e[1], e[2]} PROVE Settled(graph, es, k, s, Right(s))
    <3>1. s \in Sessions /\ Steady(s) /\ s \notin unlucky
      BY <1>9, <2>2
    <3>2. graph.inc[s] \in {NoInc, Right(s)}
      BY <3>1 DEF OneIncarnation
    <3>3. \A j \in 1..n : es[j].kind = "node" /\ es[j].who = s => es[j].inc = Right(s)
      <4>1. \A j \in 1..n : j \in 1..Len(inbox)
        BY <1>2
      <4>2. \A j \in 1..n : Names(es[j])
        BY <1>2, <4>1 DEF OneIncarnation
      <4> QED BY <3>1, <4>2 DEF Names
    <3>4. \/ graph.inc[s] # NoInc
          \/ \E j \in 1..(k - 1) : inbox[j].kind = "node" /\ inbox[j].who = s
      BY <1>9, <2>1, <3>1 DEF NodesAhead
    <3>5. \A j \in 1..(k - 1) : es[j] = inbox[j]
      <4>1. \A j \in 1..(k - 1) : j \in 1..n
        BY <1>2, <1>9
      <4> QED BY <1>2, <4>1
    <3> QED BY <1>2, <3>2, <3>3, <3>4, <3>5 DEF Settled
  <2>4. <<es[k].who, es[k].child>> \in graph'.edges
    BY <1>2, <1>4, <1>9, <2>1, <2>2, <2>3
  <2> QED BY <1>9, <2>1, <2>4
<1>10. \A k \in 1..Len(inbox) : k \in 1..n \/ (k > n /\ inbox'[k - n] = inbox[k])
  BY <1>2, <1>6
<1>11. \A s \in Sessions : graph.inc[s] # NoInc => graph'.inc[s] # NoInc
  BY <1>4
<1>12. \A k \in 1..Len(inbox) :
         \/ k > n /\ inbox'[k - n] = inbox[k]
         \/ /\ inbox[k].kind = "node" => graph'.inc[inbox[k].who] # NoInc
            /\ \A e \in Spawns :
                 /\ inbox[k].kind = "spawn" /\ <<inbox[k].who, inbox[k].child>> = e
                 /\ {e[1], e[2]} \cap unlucky = {} /\ Steady(e[1]) /\ Steady(e[2])
                 => e \in graph'.edges
  BY <1>4, <1>9, <1>10
<1>13. graph.edges \subseteq graph'.edges
  BY <1>4
<1> QED BY <1>1, <1>2, <1>8, <1>11, <1>12, <1>13

(* Reconcile keeps it.                                                     *)
LEMMA ReconcileKeeps ==
  ASSUME InOrder, OneIncarnation, NodesAhead, Reconcile
  PROVE  Keeps
<1>1. /\ NodesAhead' /\ graph.edges \subseteq graph'.edges
      /\ \A s \in Sessions : graph.inc[s] # NoInc => graph'.inc[s] # NoInc
  BY ReconcileMoves
<1>2. PICK n \in 1..Len(inbox) :
        /\ Len(inbox') = Len(inbox) - n
        /\ \A k \in 1..Len(inbox) :
             \/ k > n /\ inbox'[k - n] = inbox[k]
             \/ /\ inbox[k].kind = "node" => graph'.inc[inbox[k].who] # NoInc
                /\ \A e \in Spawns :
                     /\ inbox[k].kind = "spawn" /\ <<inbox[k].who, inbox[k].child>> = e
                     /\ {e[1], e[2]} \cap unlucky = {} /\ Steady(e[1]) /\ Steady(e[2])
                     => e \in graph'.edges
  BY ReconcileMoves
<1>3. Len(inbox) \in Nat
  BY DEF InOrder, Typed
<1>4. \A k \in 1..Len(inbox) : k > n => k - n \in 1..Len(inbox')
  BY <1>2, <1>3
<1>5. \A s \in Sessions : KnownNode(s) => KnownNode(s)'
  BY <1>1, <1>2, <1>4 DEF KnownNode
<1>6. \A e \in Spawns : {e[1], e[2]} \cap unlucky = {} /\ Steady(e[1]) /\ Steady(e[2])
                         /\ KnownEdge(e) => KnownEdge(e)'
  BY <1>1, <1>2, <1>4 DEF KnownEdge
<1> QED BY <1>1, <1>5, <1>6 DEF Keeps

(* So does a step that leaves the store alone.                             *)
LEMMA KeptQuietly ==
  ASSUME NodesAhead, graph' = graph, inbox' = inbox, unlucky \subseteq unlucky'
  PROVE  Keeps
<1>1. NodesAhead'
  BY DEF NodesAhead
<1>2. \A s \in Sessions : KnownNode(s) => KnownNode(s)'
  BY DEF KnownNode
<1>3. \A e \in Spawns : KnownEdge(e) => KnownEdge(e)'
  BY DEF KnownEdge
<1> QED BY <1>1, <1>2, <1>3 DEF Keeps

(* A tick makes known what its lane publishes, and keeps what is known.    *)
LEMMA TickKnows ==
  ASSUME InOrder, NodesAhead, NEW l \in ToSet(Lanes), NativeTick(l)
  PROVE  /\ Keeps
         /\ \A s \in Published(l) \ unlucky' : KnownNode(s)'
         /\ \A e \in Spawns : {e[1], e[2]} \subseteq Published(l) \ unlucky' => KnownEdge(e)'
<1>1. PICK d \in 0..Len(Emission(l)) : /\ inbox' = FoldLeft(Publish, inbox, Batch(l, d))
                                       /\ unlucky' = unlucky \cup Hit(l, d)
  BY TickPublishes
<1>2. /\ Batch(l, d) \in Seq(Events)
      /\ \A s \in Published(l) \ Hit(l, d) :
           Told("node", s, IncarnationFor(s)) \in ToSet(Batch(l, d))
      /\ \A e \in Spawns : {e[1], e[2]} \subseteq Published(l) \ Hit(l, d)
           => Link(e) \in ToSet(Batch(l, d))
      /\ NodesFirst(Batch(l, d), Hit(l, d))
  BY BatchFacts
<1>3. NodesFirst(Batch(l, d), unlucky') /\ graph' = graph /\ unlucky \subseteq unlucky'
  BY <1>1, <1>2 DEF NodesFirst, NativeTick
<1>4. /\ Keeps
      /\ \A s \in Sessions : \A v : Told("node", s, v) \in ToSet(Batch(l, d)) => KnownNode(s)'
      /\ \A e \in Spawns : Link(e) \in ToSet(Batch(l, d)) => KnownEdge(e)'
  BY <1>1, <1>2, <1>3, PublishKeeps
<1>5. Published(l) \subseteq Sessions
  BY DEF Published, Seen, Scan, OnDisk
<1> QED BY <1>1, <1>2, <1>4, <1>5

(* Every step keeps what is known.                                         *)
LEMMA NextKeeps ==
  ASSUME InOrder, OneIncarnation, NodesAhead, CollectorsNext
  PROVE  Keeps
<1>1. CASE Reconcile
  BY <1>1, ReconcileKeeps
<1>2. CASE OccupancyPublish
  <2>1. PICK es \in Seq(Events) : /\ inbox' = FoldLeft(Publish, inbox, es)
                                  /\ ToSet(es) = {Told("node", s, "process") : s \in frame}
    BY <1>2, OccupancyPublishes DEF InOrder, Typed
  <2>2. NodesFirst(es, unlucky')
    <3>1. \A i \in 1..Len(es) : es[i] \in ToSet(es)
      <4>1. DOMAIN es = 1..Len(es)
        OBVIOUS
      <4> QED BY <4>1 DEF ToSet
    <3>2. \A i \in 1..Len(es) : es[i].kind = "node"
      BY <2>1, <3>1 DEF Told
    <3> QED BY <3>2 DEF NodesFirst
  <2>3. graph' = graph /\ unlucky' = unlucky
    BY <1>2 DEF OccupancyPublish, ghosts
  <2> QED BY <2>1, <2>2, <2>3, PublishKeeps
<1>3. ASSUME NEW l \in ToSet(Lanes), NativeTick(l) PROVE Keeps
  BY <1>3, TickKnows
<1>4. CASE \/ Capture \/ RefreshOverlayOnly \/ TickProc \/ Second
           \/ \E l \in ToSet(Lanes) : ScanFails(l)
           \/ OccupancySeen \/ LaneReady \/ FlushBegins \/ FlushEnds \/ WaitVisible \/ Sample
           \/ \E s \in Sessions : Born(s) \/ Writes(s) \/ Quits(s) \/ Exits(s)
  <2>1. graph' = graph /\ inbox' = inbox /\ unlucky \subseteq unlucky'
    <3>1. CASE Capture \/ RefreshOverlayOnly \/ TickProc \/ Second
      BY <3>1 DEF Capture, RefreshOverlayOnly, TickProc, Second, evidence, ghosts
    <3>2. CASE \E l \in ToSet(Lanes) : ScanFails(l)
      BY <3>2 DEF ScanFails
    <3>3. CASE OccupancySeen \/ LaneReady \/ FlushBegins \/ FlushEnds \/ WaitVisible \/ Sample
      BY <3>3 DEF OccupancySeen, LaneReady, FlushBegins, FlushEnds, WaitVisible, Sample,
         evidence, ghosts
    <3>4. CASE \E s \in Sessions : Born(s) \/ Writes(s) \/ Quits(s) \/ Exits(s)
      BY <3>4 DEF Born, Writes, Quits, Exits, evidence, ghosts
    <3> QED BY <1>4, <3>1, <3>2, <3>3, <3>4
  <2> QED BY <2>1, KeptQuietly
<1> QED BY <1>1, <1>2, <1>3, <1>4 DEF CollectorsNext

-----------------------------------------------------------------------------
(* Nothing stays invisible.                                                *)

(* The second of the last poll of a lane that is behind it.                *)
Polled(l) == (now - ((now - Start) % PollEvery)) - (IF l \in due THEN PollEvery ELSE 0)

(* A session on disk is known, or was not there at the last poll, or the   *)
(* last poll gave it its grace.                                            *)
Graced(s) ==
  \/ KnownNode(s)
  \/ Polled(Home[s]) <= born[s]
  \/ /\ s \in awaiting /\ Polled(Home[s]) <= born[s] + PollEvery
     /\ Exited(s) => exited[s] >= Polled(Home[s])

(* The same of the edge to a child that appeared after its parent.         *)
Placed(e) ==
  /\ {e[1], e[2]} \subseteq (OnDisk \ unlucky) \ disturbed
  /\ e[1] \in Bindable /\ 0 < born[e[1]] /\ born[e[1]] <= born[e[2]] /\ ~Exited(e[2])

Followed(e) ==
  \/ KnownEdge(e)
  \/ Polled(Home[e[2]]) <= born[e[2]]
  \/ e[2] \in awaiting \cup Bindable /\ Polled(Home[e[2]]) <= born[e[2]] + PollEvery

Watched ==
  /\ Sighted /\ NodesAhead
  /\ mode = "live" => /\ \A s \in OnDisk \ unlucky : born[s] > 0 => Graced(s)
                      /\ \A e \in Spawns : Placed(e) => Followed(e)

(* Where the last poll is.                                                 *)
LEMMA PolledFacts ==
  ASSUME InOrder, NEW l \in ToSet(Lanes)
  PROVE  /\ Polled(l) \in Int /\ now - PollEvery <= Polled(l) /\ Polled(l) <= now
         /\ l \in due => Polled(l) = now - PollEvery
<1>1. /\ PollEvery \in Nat /\ PollEvery > 1 /\ now \in Nat /\ Start \in Nat /\ now - Start \in Nat
  BY CollectorsAssumption DEF Start, InOrder, Typed
<1>2. (now - Start) % PollEvery \in 0..(PollEvery - 1)
  BY <1>1, NextModulo
<1>3. l \in due => (now - Start) % PollEvery = 0
  BY DEF InOrder, ClocksInOrder
<1> DEFINE r == (now - Start) % PollEvery
<1>4. Polled(l) = (now - r) - (IF l \in due THEN PollEvery ELSE 0)
  BY DEF Polled
<1> HIDE DEF r
<1>5. r \in 0..(PollEvery - 1) /\ (l \in due => r = 0)
  BY <1>2, <1>3 DEF r
<1> QED BY <1>1, <1>4, <1>5

(* In this state and in the next.                                          *)
LEMMA PolledNumber ==
  InOrder => \A l \in ToSet(Lanes) : Polled(l) \in Int /\ Polled(l) <= now
BY PolledFacts

LEMMA NextPolled ==
  (InOrder => \A l \in ToSet(Lanes) : Polled(l) \in Int /\ Polled(l) <= now)'
BY PolledNumber, PTL

(* A second does not move it.                                              *)
LEMMA SecondPolled ==
  ASSUME InOrder, Second, NEW l \in ToSet(Lanes)
  PROVE  Polled(l)' = Polled(l)
<1>1. /\ PollEvery \in Nat /\ PollEvery > 1 /\ now \in Nat /\ Start \in Nat /\ now - Start \in Nat
  BY CollectorsAssumption DEF Start, InOrder, Typed
<1> DEFINE r == (now - Start) % PollEvery
           t == ((now + 1) - Start) % PollEvery
<1>2. r \in 0..(PollEvery - 1) /\ t = IF r = PollEvery - 1 THEN 0 ELSE r + 1
  <2>1. (now + 1) - Start = (now - Start) + 1
    BY <1>1
  <2> QED BY <1>1, <2>1, NextModulo
<1>3. due = {} /\ now' = now + 1 /\ (l \in due' <=> t = 0)
  <2>1. due = {} /\ now' = now + 1 /\ (l \in due' <=> (now + 1 - Start) % PollEvery = 0)
    BY CollectorsAssumption DEF Second
  <2>2. now + 1 - Start = (now + 1) - Start
    BY <1>1
  <2>3. (l \in due' <=> ((now + 1) - Start) % PollEvery = 0)
    BY <2>1, <2>2, Zenon
  <2> QED BY <2>1, <2>3
<1>4. Polled(l) = now - r
  <2>1. Polled(l) = (now - r) - 0
    BY <1>3 DEF Polled
  <2> HIDE DEF r, t
  <2> QED BY <1>1, <1>2, <2>1
<1>5. Polled(l)' = ((now + 1) - t) - (IF l \in due' THEN PollEvery ELSE 0)
  <2>1. (now - ((now - Start) % PollEvery))' = (now + 1) - t
    <3>1. now' = now + 1
      BY <1>3
    <3>2. (now - ((now - Start) % PollEvery))' = now' - ((now' - Start) % PollEvery)
      BY Zenon DEF Start
    <3> DEFINE At(n) == n - ((n - Start) % PollEvery)
    <3>3. At(now') = At(now + 1)
      BY <3>1, Zenon
    <3> QED BY <3>2, <3>3 DEF Start
  <2> HIDE DEF t
  <2> QED BY <2>1 DEF Polled
<1> HIDE DEF r, t
<1>6. CASE r = PollEvery - 1
  <2>1. Polled(l)' = ((now + 1) - 0) - PollEvery
    BY <1>2, <1>3, <1>5, <1>6
  <2> QED BY <1>1, <1>4, <1>6, <2>1
<1>7. CASE r # PollEvery - 1
  <2>1. t = r + 1 /\ t # 0 /\ r \in Nat
    BY <1>1, <1>2, <1>7
  <2>2. Polled(l)' = ((now + 1) - t) - 0
    BY <1>3, <1>5, <2>1
  <2> QED BY <1>1, <1>4, <2>1, <2>2
<1> QED BY <1>6, <1>7


(* A step but a poll of the lane leaves the poll where it is, or before,   *)
(* and takes nothing back.                                                 *)
LEMMA QuietStep ==
  ASSUME InOrder, CollectorsNext, NEW l \in ToSet(Lanes), ~NativeTick(l), ~ScanFails(l)
  PROVE  /\ Polled(l)' <= Polled(l) /\ mode' = mode
         /\ unlucky \subseteq unlucky' /\ disturbed \subseteq disturbed'
         /\ \A s \in Sessions : /\ born'[s] = born[s] \/ (born[s] = Never /\ born'[s] = now)
                                /\ exited'[s] = exited[s] \/ (~Exited(s) /\ exited'[s] = now)
                                /\ Home[s] = l /\ s \in awaiting => s \in awaiting'
<1>0. /\ l \notin {"overlay", "rows"} /\ Polled(l) \in Int /\ PollEvery \in Nat
      /\ born \in [Sessions -> Times] /\ exited \in [Sessions -> Times]
  BY PolledFacts, CollectorsAssumption DEF InOrder, Typed
<1>1. ASSUME now' = now, l \in due' <=> l \in due PROVE Polled(l)' <= Polled(l)
  <2>1. (now - ((now - Start) % PollEvery))' = now - ((now - Start) % PollEvery)
    BY <1>1, Zenon DEF Start
  <2> DEFINE x == now - ((now - Start) % PollEvery)
  <2>2. Polled(l) = x - (IF l \in due THEN PollEvery ELSE 0)
    BY DEF Polled
  <2>3. Polled(l)' = x - (IF l \in due' THEN PollEvery ELSE 0)
    BY <2>1 DEF Polled
  <2> HIDE DEF x
  <2>4. Polled(l)' = Polled(l)
    BY <1>1, <2>2, <2>3
  <2> QED BY <1>0, <2>4
<1>2. CASE Capture
  <2>1. /\ mode' = mode /\ unlucky' = unlucky /\ disturbed \subseteq disturbed'
        /\ born' = born /\ exited' = exited /\ awaiting' = awaiting
    BY <1>2 DEF Capture, Refresh, world, evidence
  <2>2. now' = now /\ l \in due' /\ l \notin due
    BY <1>2 DEF Capture, InOrder, ClocksInOrder
  <2>3. Polled(l)' <= Polled(l)
    <3>1. (now - ((now - Start) % PollEvery))' = now - ((now - Start) % PollEvery)
      BY <2>2, Zenon DEF Start
    <3> DEFINE x == now - ((now - Start) % PollEvery)
    <3>2. Polled(l) = x - 0 /\ Polled(l)' = x - PollEvery
      BY <2>2, <3>1 DEF Polled
    <3>3. x \in Int
      BY <1>0, CollectorsAssumption, NextModulo DEF InOrder, Typed, Start
    <3> HIDE DEF x
    <3> QED BY <1>0, <3>2, <3>3
  <2> QED BY <2>1, <2>3
<1>3. CASE RefreshOverlayOnly \/ TickProc
  <2>1. /\ mode' = mode /\ unlucky' = unlucky /\ disturbed \subseteq disturbed' /\ now' = now
        /\ born' = born /\ exited' = exited /\ awaiting' = awaiting /\ (l \in due' <=> l \in due)
    BY <1>0, <1>3 DEF RefreshOverlayOnly, TickProc, Refresh, world, evidence, ghosts
  <2> QED BY <1>1, <2>1
<1>4. CASE Reconcile \/ OccupancyPublish
  <2>1. /\ mode' = mode /\ unlucky' = unlucky /\ disturbed' = disturbed /\ now' = now
        /\ born' = born /\ exited' = exited /\ awaiting' = awaiting /\ due' = due
    BY <1>4 DEF Reconcile, OccupancyPublish, world, ghosts
  <2> QED BY <1>1, <2>1
<1>5. ASSUME NEW k \in ToSet(Lanes), NativeTick(k) \/ ScanFails(k)
      PROVE  /\ Polled(l)' <= Polled(l) /\ mode' = mode
             /\ unlucky \subseteq unlucky' /\ disturbed \subseteq disturbed'
             /\ born' = born /\ exited' = exited
             /\ \A s \in Sessions : Home[s] = l /\ s \in awaiting => s \in awaiting'
  <2>1. k # l /\ mode' = mode /\ now' = now /\ due' = due \ {k} /\ disturbed' = disturbed
        /\ born' = born /\ exited' = exited
    BY <1>5 DEF NativeTick, ScanFails, world
  <2>2. unlucky \subseteq unlucky'
    <3>1. CASE NativeTick(k)
      BY <3>1, TickPublishes
    <3>2. CASE ScanFails(k)
      BY <3>2 DEF ScanFails
    <3> QED BY <1>5, <3>1, <3>2
  <2>3. \A s \in Sessions : Home[s] = l /\ s \in awaiting => s \in awaiting'
    BY <1>5, <2>1 DEF NativeTick, ScanFails
  <2> QED BY <1>1, <2>1, <2>2, <2>3
<1>6. CASE OccupancySeen \/ LaneReady \/ FlushBegins \/ FlushEnds \/ WaitVisible \/ Sample
  <2>1. /\ mode' = mode /\ unlucky' = unlucky /\ disturbed' = disturbed /\ now' = now
        /\ born' = born /\ exited' = exited /\ awaiting' = awaiting /\ due' = due
    BY <1>6 DEF OccupancySeen, LaneReady, FlushBegins, FlushEnds, WaitVisible, Sample,
       world, evidence, ghosts
  <2> QED BY <1>1, <2>1
<1>7. CASE \E s \in Sessions : Born(s) \/ Writes(s) \/ Quits(s) \/ Exits(s)
  <2>1. /\ mode' = mode /\ unlucky' = unlucky /\ disturbed \subseteq disturbed' /\ now' = now
        /\ awaiting' = awaiting /\ due' = due
    BY <1>7 DEF Born, Writes, Quits, Exits, evidence, ghosts
  <2>2. \A s \in Sessions : /\ born'[s] = born[s] \/ (born[s] = Never /\ born'[s] = now)
                            /\ exited'[s] = exited[s] \/ (~Exited(s) /\ exited'[s] = now)
    <3>1. ASSUME NEW s \in Sessions, Born(s) \/ Exits(s)
          PROVE  \/ /\ exited' = exited /\ born[s] = Never /\ born' = [born EXCEPT ![s] = now]
                 \/ /\ born' = born /\ ~Exited(s) /\ exited' = [exited EXCEPT ![s] = now]
      BY <3>1 DEF Born, Exits
    <3>2. ASSUME NEW s \in Sessions, Writes(s) \/ Quits(s) PROVE born' = born /\ exited' = exited
      BY <3>2 DEF Writes, Quits
    <3> QED BY <1>0, <1>7, <3>1, <3>2
  <2> QED BY <1>1, <2>1, <2>2
<1>8. CASE Second
  <2>1. /\ mode' = mode /\ unlucky' = unlucky /\ disturbed' = disturbed
        /\ born' = born /\ exited' = exited /\ awaiting' = awaiting
    BY <1>8 DEF Second, world, evidence, ghosts
  <2>2. Polled(l)' <= Polled(l)
    BY <1>0, <1>8, SecondPolled
  <2> QED BY <2>1, <2>2
<1>9. CASE \E k \in ToSet(Lanes) : NativeTick(k) \/ ScanFails(k)
  BY <1>5, <1>9
<1> QED BY <1>2, <1>3, <1>4, <1>6, <1>7, <1>8, <1>9 DEF CollectorsNext


(* Whatever is not seen stays watched while its lane does not poll.        *)
LEMMA QuietlyWatched ==
  ASSUME Watched, Keeps, CollectorsNext, mode = "live", NEW l \in ToSet(Lanes),
         ~NativeTick(l), ~ScanFails(l)
  PROVE  /\ \A s \in OnDisk' \ unlucky' : Home[s] = l /\ born'[s] > 0 => Graced(s)'
         /\ \A e \in Spawns : Home[e[2]] = l /\ Placed(e)' => Followed(e)'
<1>0. /\ InOrder /\ Polled(l) \in Int /\ Polled(l) <= now /\ now \in Nat
      /\ born \in [Sessions -> Times] /\ exited \in [Sessions -> Times] /\ PollEvery \in Nat
  BY PolledFacts, CollectorsAssumption DEF Watched, Sighted, InOrder, Typed, Start
<1>1. /\ Polled(l)' <= Polled(l) /\ mode' = mode
      /\ unlucky \subseteq unlucky' /\ disturbed \subseteq disturbed'
      /\ \A s \in Sessions : /\ born'[s] = born[s] \/ (born[s] = Never /\ born'[s] = now)
                             /\ exited'[s] = exited[s] \/ (~Exited(s) /\ exited'[s] = now)
                             /\ Home[s] = l /\ s \in awaiting => s \in awaiting'
  BY <1>0, QuietStep
<1>2. Polled(l)' \in Int
  BY <1>0, StepInOrder, NextPolled
<1>3. \A s \in OnDisk' : born'[s] = born[s] => s \in OnDisk
  BY DEF OnDisk
<1>4. \A s \in Sessions : born[s] = Never => ~(born[s] > 0)
  BY DEF Never
<1>5. \A s \in OnDisk' : s \in Sessions /\ born'[s] \in Int /\ born[s] \in Int /\ exited[s] \in Int
  <2>1. \A s \in Sessions : born[s] \in Int /\ exited[s] \in Int
    BY <1>0 DEF Times, Never
  <2> QED BY <1>0, <1>1, <2>1 DEF OnDisk
<1>6. ASSUME NEW s \in OnDisk' \ unlucky', Home[s] = l, born'[s] > 0 PROVE Graced(s)'
  <2>1. CASE born'[s] = now
    <3>1. Polled(l)' <= born'[s]
      BY <1>0, <1>1, <1>2, <2>1
    <3> QED BY <1>6, <3>1 DEF Graced
  <2>2. CASE born'[s] = born[s]
    <3>1. s \in OnDisk \ unlucky /\ born[s] > 0 /\ s \in Sessions
      BY <1>1, <1>3, <1>5, <1>6, <2>2
    <3>2. Graced(s)
      BY <3>1 DEF Watched
    <3>3. CASE KnownNode(s)
      BY <3>1, <3>3 DEF Graced, Keeps
    <3>4. CASE Polled(l) <= born[s]
      <4>1. Polled(l)' <= born'[s]
        BY <1>0, <1>1, <1>2, <1>5, <2>2, <3>4
      <4> QED BY <1>6, <4>1 DEF Graced
    <3>5. CASE /\ s \in awaiting /\ Polled(l) <= born[s] + PollEvery
               /\ Exited(s) => exited[s] >= Polled(l)
      <4>1. s \in awaiting' /\ Polled(l)' <= born'[s] + PollEvery
        BY <1>0, <1>1, <1>2, <1>5, <1>6, <2>2, <3>1, <3>5
      <4>2. Exited(s)' => exited'[s] >= Polled(l)'
        <5>1. CASE exited'[s] = exited[s]
          BY <1>0, <1>1, <1>2, <1>5, <3>5, <5>1 DEF Exited
        <5>2. CASE exited'[s] = now
          BY <1>0, <1>1, <1>2, <5>2
        <5> QED BY <1>1, <3>1, <5>1, <5>2
      <4> QED BY <1>6, <4>1, <4>2 DEF Graced
    <3> QED BY <1>6, <3>2, <3>3, <3>4, <3>5 DEF Graced
  <2> QED BY <1>1, <1>5, <2>1, <2>2
<1>7. ASSUME NEW e \in Spawns, Home[e[2]] = l, Placed(e)' PROVE Followed(e)'
  <2>0. /\ {e[1], e[2]} \subseteq (OnDisk' \ unlucky') \ disturbed' /\ e[1] \in Bindable
        /\ 0 < born'[e[1]] /\ born'[e[1]] <= born'[e[2]] /\ ~Exited(e[2])'
    BY <1>7 DEF Placed
  <2>1. CASE born'[e[2]] >= now
    <3>1. Polled(l)' <= born'[e[2]]
      BY <1>0, <1>1, <1>2, <1>5, <2>0, <2>1
    <3> QED BY <1>7, <3>1 DEF Followed
  <2>2. CASE ~(born'[e[2]] >= now)
    <3>1. e[1] \in Sessions /\ e[2] \in Sessions
      BY <1>5, <2>0
    <3>2. born'[e[1]] = born[e[1]] /\ born'[e[2]] = born[e[2]]
      BY <1>0, <1>1, <1>5, <2>0, <2>2, <3>1
    <3>3. ~Exited(e[2])
      BY <1>0, <1>1, <2>0, <3>1 DEF Exited, Never
    <3>4. Placed(e)
      BY <1>1, <1>3, <2>0, <3>2, <3>3 DEF Placed
    <3>5. Followed(e)
      BY <3>4 DEF Watched
    <3>6. CASE KnownEdge(e)
      BY <3>4, <3>6 DEF Followed, Keeps, Placed, Steady
    <3>7. CASE Polled(l) <= born[e[2]]
      <4>1. Polled(l)' <= born'[e[2]]
        BY <1>0, <1>1, <1>2, <1>5, <2>0, <3>2, <3>7
      <4> QED BY <1>7, <4>1 DEF Followed
    <3>8. CASE e[2] \in awaiting \cup Bindable /\ Polled(l) <= born[e[2]] + PollEvery
      <4>1. e[2] \in awaiting' \cup Bindable /\ Polled(l)' <= born'[e[2]] + PollEvery
        BY <1>0, <1>1, <1>2, <1>5, <1>7, <2>0, <3>1, <3>2, <3>8
      <4> QED BY <1>7, <4>1 DEF Followed
    <3> QED BY <1>7, <3>5, <3>6, <3>7, <3>8 DEF Followed
  <2> QED BY <2>1, <2>2
<1> QED BY <1>6, <1>7

(* A poll makes known what it does not give its grace.                     *)
LEMMA TickWatched ==
  ASSUME Watched, mode = "live", NEW l \in ToSet(Lanes), NativeTick(l)
  PROVE  /\ \A s \in OnDisk' \ unlucky' : Home[s] = l /\ born'[s] > 0 => Graced(s)'
         /\ \A e \in Spawns : Home[e[2]] = l /\ Placed(e)' => Followed(e)'
<1>0. /\ InOrder /\ BoundAll /\ Bindable \subseteq Sessions
      /\ {PollEvery, BindWindow, ExitWindow, Horizon} \subseteq Nat /\ now \in Nat
      /\ PollEvery > 1 /\ BindWindow > PollEvery /\ ExitWindow >= PollEvery
      /\ Horizon >= BindWindow + PollEvery
      /\ \A e \in Spawns : e[1] \in Sessions /\ e[2] \in Sessions /\ Home[e[1]] = Home[e[2]]
  BY CollectorsAssumption DEF Watched, Sighted, InOrder, Typed, Start
<1>1. /\ l \in due /\ Collecting /\ now' = now /\ mode' = mode /\ born' = born
      /\ exited' = exited /\ disturbed' = disturbed
      /\ awaiting' = {s \in awaiting : Home[s] # l \/ s \in Seen(l)}
                       \cup {s \in Seen(l) : AwaitBinding(s)}
      /\ OnDisk' = OnDisk
  BY DEF NativeTick, world, OnDisk
<1>2. Polled(l) = now - PollEvery /\ Polled(l)' \in Int /\ Polled(l)' <= now
  <2>1. InOrder'
    BY <1>0, StepInOrder DEF CollectorsNext
  <2>2. Polled(l)' <= now'
    BY <2>1, NextPolled
  <2> QED BY <1>0, <1>1, <2>1, <2>2, PolledFacts, NextPolled
<1>3. /\ Keeps
      /\ \A s \in Published(l) \ unlucky' : KnownNode(s)'
      /\ \A e \in Spawns : {e[1], e[2]} \subseteq Published(l) \ unlucky' => KnownEdge(e)'
  BY <1>0, TickKnows DEF Watched
<1>4. unlucky \subseteq unlucky'
  BY TickPublishes
<1>5. ASSUME NEW s \in OnDisk
      PROVE  /\ s \in Sessions /\ born[s] \in Int /\ touched[s] \in Int /\ exited[s] \in Int
             /\ born[s] <= touched[s] /\ touched[s] <= now
             /\ Exited(s) => exited[s] <= now /\ born[s] <= exited[s] /\ s \notin proc
  BY <1>0 DEF InOrder, Typed, DiskInOrder, Times, Never, OnDisk
<1>6. ASSUME NEW s \in OnDisk, Home[s] = l, now <= born[s] + 2 * PollEvery,
             Exited(s) => now <= exited[s] + PollEvery
      PROVE  s \in Seen(l)
  <2>1. s \in Scan(l)
    BY <1>0, <1>5, <1>6 DEF Scan
  <2>2. ~TerminalOutsideWindow(s)
    BY <1>0, <1>5, <1>6 DEF TerminalOutsideWindow
  <2> QED BY <2>1, <2>2 DEF Seen
<1>7. \A s \in Seen(l) : s \in Published(l) \/ (AwaitBinding(s) /\ s \in awaiting' /\ ~Exited(s))
  BY <1>1 DEF Published, AwaitBinding
<1>8. ASSUME NEW s \in OnDisk' \ unlucky', Home[s] = l, born'[s] > 0 PROVE Graced(s)'
  <2>1. s \in OnDisk \ unlucky /\ born[s] > 0
    BY <1>1, <1>4, <1>8
  <2>2. Graced(s)
    BY <2>1 DEF Watched
  <2>3. CASE KnownNode(s)
    BY <1>3, <1>5, <2>1, <2>3 DEF Graced, Keeps
  <2>4. CASE Polled(l) <= born[s]
    <3>1. s \in Seen(l)
      BY <1>0, <1>2, <1>5, <1>6, <1>8, <2>1, <2>4
    <3>2. CASE s \in Published(l)
      BY <1>3, <1>8, <3>2 DEF Graced
    <3>3. CASE AwaitBinding(s) /\ s \in awaiting' /\ ~Exited(s)
      <4>1. Polled(l)' <= born'[s] + PollEvery /\ ~Exited(s)'
        BY <1>0, <1>1, <1>2, <1>5, <2>1, <2>4, <3>3 DEF Exited
      <4> QED BY <1>8, <3>3, <4>1 DEF Graced
    <3> QED BY <1>7, <3>1, <3>2, <3>3
  <2>5. CASE /\ s \in awaiting /\ Polled(l) <= born[s] + PollEvery
             /\ Exited(s) => exited[s] >= Polled(l)
    <3>1. s \in Seen(l)
      BY <1>0, <1>2, <1>5, <1>6, <1>8, <2>1, <2>5
    <3>2. s \in Published(l)
      BY <2>5, <3>1 DEF Published, AwaitBinding
    <3> QED BY <1>3, <1>8, <3>2 DEF Graced
  <2> QED BY <1>8, <2>2, <2>3, <2>4, <2>5 DEF Graced
<1>9. ASSUME NEW e \in Spawns, Home[e[2]] = l, Placed(e)' PROVE Followed(e)'
  <2>0. /\ e[1] \in OnDisk \ unlucky' /\ e[2] \in OnDisk \ unlucky'
        /\ e[1] \notin disturbed /\ e[2] \notin disturbed /\ Home[e[1]] = l
        /\ e[1] \in Bindable /\ 0 < born[e[1]] /\ born[e[1]] <= born[e[2]] /\ ~Exited(e[2])
    BY <1>0, <1>1, <1>9 DEF Placed, Exited
  <2>1. Placed(e)
    BY <1>4, <2>0 DEF Placed
  <2>2. Followed(e)
    BY <2>1 DEF Watched
  <2>3. Bound(e[1]) /\ ~Exited(e[1]) /\ main # "capture"
    <3>1. Bound(e[1])
      BY <1>0, <2>0 DEF BoundAll
    <3> QED BY <1>1, <1>5, <2>0, <3>1 DEF Bound, Collecting
  <2>4. CASE KnownEdge(e)
    BY <1>3, <2>1, <2>4 DEF Followed, Keeps, Placed, Steady
  <2>5. CASE ~KnownEdge(e)
    <3>1. now <= born[e[2]] + 2 * PollEvery
      BY <1>0, <1>2, <1>5, <1>9, <2>0, <2>2, <2>5 DEF Followed
    <3>2. e[2] \in Seen(l)
      BY <1>6, <1>9, <2>0, <3>1
    <3>3. ASSUME born[e[2]] >= now - 1 PROVE Followed(e)'
      <4>1. Polled(l)' <= born'[e[2]] + PollEvery
        BY <1>0, <1>1, <1>2, <1>5, <2>0, <3>3
      <4>2. e[2] \in awaiting' \cup Bindable
        <5> SUFFICES ASSUME e[2] \notin Bindable, e[2] \notin awaiting PROVE e[2] \in awaiting'
          BY <1>1, <3>2
        <5>1. e[2] \notin frame /\ now - touched[e[2]] < BindWindow
          BY <1>0, <1>5, <2>0, <3>3 DEF InOrder, Typed
        <5>2. AwaitBinding(e[2])
          BY <2>0, <5>1 DEF AwaitBinding
        <5> QED BY <1>1, <3>2, <5>2
      <4> QED BY <1>9, <4>1, <4>2 DEF Followed
    <3>4. CASE e[1] \notin frame
      <4>1. born[e[1]] >= now - 1
        BY <2>3, <3>4 DEF Bound
      <4>2. born[e[2]] >= now - 1
        BY <1>0, <1>5, <2>0, <4>1
      <4> QED BY <3>3, <4>2
    <3>5. CASE e[1] \in frame
      <4>1. e[1] \in Published(l)
        BY <2>0, <2>3, <3>5 DEF Published, Seen, Scan, TerminalOutsideWindow, AwaitBinding
      <4>2. CASE e[2] \in Published(l)
        <5>1. KnownEdge(e)'
          BY <1>3, <2>0, <4>1, <4>2
        <5> QED BY <5>1 DEF Followed
      <4>3. CASE AwaitBinding(e[2]) /\ e[2] \in awaiting'
        <5>1. CASE Polled(l) <= born[e[2]]
          <6>1. Polled(l)' <= born'[e[2]] + PollEvery
            BY <1>0, <1>1, <1>2, <1>5, <2>0, <5>1
          <6> QED BY <1>9, <4>3, <6>1 DEF Followed
        <5>2. CASE e[2] \in awaiting \cup Bindable
          <6>1. e[2] \in Bindable /\ e[2] \notin frame
            BY <4>3, <5>2 DEF AwaitBinding
          <6>2. Bound(e[2])
            BY <1>0, <2>0, <6>1 DEF BoundAll
          <6> QED BY <2>3, <3>3, <6>1, <6>2 DEF Bound
        <5> QED BY <1>9, <2>2, <2>5, <5>1, <5>2 DEF Followed
      <4> QED BY <1>7, <3>2, <4>2, <4>3
    <3> QED BY <3>4, <3>5
  <2> QED BY <2>4, <2>5
<1> QED BY <1>8, <1>9

(* The watch is kept by every step.                                        *)
LEMMA WatchedInductive ==
  /\ Init => Watched
  /\ Watched /\ [CollectorsNext]_collectorVars => Watched'
<1>1. ASSUME Init PROVE Watched
  <2>1. Sighted
    BY <1>1, SightedInductive
  <2>2. NodesAhead
    <3>1. 1..Len(inbox) = {}
      BY <1>1 DEF Init
    <3> QED BY <3>1 DEF NodesAhead
  <2>3. \A s \in Sessions : born[s] > 0 => Polled(Home[s]) <= born[s]
    <3> SUFFICES ASSUME NEW s \in Sessions, born[s] > 0 PROVE Polled(Home[s]) <= born[s]
      OBVIOUS
    <3>1. born[s] = now
      BY <1>1 DEF Init, Never
    <3> QED BY <2>1, <3>1, CollectorsAssumption, PolledFacts DEF Sighted
  <2>4. \A s \in OnDisk : born[s] > 0 => Graced(s)
    BY <2>3 DEF OnDisk, Graced
  <2>5. \A e \in Spawns : Placed(e) => Followed(e)
    <3> SUFFICES ASSUME NEW e \in Spawns, Placed(e) PROVE Followed(e)
      OBVIOUS
    <3>1. e[2] \in Sessions /\ born[e[2]] > 0
      BY <2>1 DEF Placed, OnDisk, Sighted, InOrder, Typed, Times, Never
    <3> QED BY <2>3, <3>1 DEF Followed
  <2> QED BY <2>1, <2>2, <2>4, <2>5 DEF Watched
<1>2. ASSUME Watched, [CollectorsNext]_collectorVars PROVE Watched'
  <2>1. Sighted'
    BY <1>2, SightedInductive DEF Watched
  <2>2. CASE CollectorsNext
    <3>1. Keeps
      BY <1>2, <2>2, NextKeeps DEF Watched, Sighted
    <3>2. NodesAhead'
      BY <3>1 DEF Keeps
    <3>3. CASE mode' = "live"
      <4>1. mode = "live"
        <5>1. mode' = mode
          BY <2>2 DEF CollectorsNext, Capture, RefreshOverlayOnly, TickProc, Reconcile,
             OccupancyPublish, NativeTick, ScanFails, OccupancySeen, LaneReady, FlushBegins,
             FlushEnds, WaitVisible, Sample, Born, Writes, Quits, Exits, Second
        <5> QED BY <3>3, <5>1
      <4>2. ASSUME NEW l \in ToSet(Lanes)
            PROVE  /\ \A s \in OnDisk' \ unlucky' : Home[s] = l /\ born'[s] > 0 => Graced(s)'
                   /\ \A e \in Spawns : Home[e[2]] = l /\ Placed(e)' => Followed(e)'
        <5>1. CASE NativeTick(l)
          BY <1>2, <4>1, <5>1, TickWatched
        <5>2. CASE ScanFails(l)
          <6>1. \A s \in OnDisk' : Home[s] = l => s \in unlucky'
            BY <5>2 DEF ScanFails, OnDisk, world
          <6> QED BY <6>1 DEF Placed
        <5>3. CASE ~NativeTick(l) /\ ~ScanFails(l)
          BY <1>2, <2>2, <3>1, <4>1, <5>3, QuietlyWatched
        <5> QED BY <5>1, <5>2, <5>3
      <4>3. /\ \A s \in OnDisk' : Home[s] \in ToSet(Lanes)
            /\ \A e \in Spawns : Home[e[2]] \in ToSet(Lanes)
        BY CollectorsAssumption DEF OnDisk
      <4>4. \A s \in OnDisk' \ unlucky' : born'[s] > 0 => Graced(s)'
        BY <4>2, <4>3
      <4>5. \A e \in Spawns : Placed(e)' => Followed(e)'
        BY <4>2, <4>3
      <4> QED BY <2>1, <3>2, <4>4, <4>5 DEF Watched
    <3> QED BY <2>1, <3>2, <3>3 DEF Watched
  <2>3. CASE UNCHANGED collectorVars
    <3>1. UNCHANGED <<NodesAhead, mode, OnDisk, unlucky, born>>
      BY <2>3 DEF collectorVars, world, engine, evidence, caller, ghosts, NodesAhead, OnDisk
    <3>2. \A s : Graced(s)' <=> Graced(s)
      BY <2>3 DEF collectorVars, world, engine, evidence, caller, ghosts, Graced, KnownNode,
         Polled, Exited, Start
    <3>3. \A e : (Placed(e)' <=> Placed(e)) /\ (Followed(e)' <=> Followed(e))
      BY <2>3 DEF collectorVars, world, engine, evidence, caller, ghosts, Placed, Followed,
         KnownEdge, Polled, Exited, OnDisk, Start
    <3> QED BY <1>2, <2>1, <3>1, <3>2, <3>3 DEF Watched
  <2> QED BY <1>2, <2>2, <2>3
<1> QED BY <1>1, <1>2

(* The grace is one tick: two polls after it appears a session is in the   *)
(* graph or in the queue, and so is the edge from a session with a process *)
(* to a child that appeared after it.                                      *)
THEOREM CollectorsVisible == CollectorsSpec => []NeverInvisible
<1>1. Watched => NeverInvisible
  <2> SUFFICES ASSUME Watched, mode = "live"
               PROVE  LET Late == {s \in OnDisk \ unlucky :
                                     born[s] > 0 /\ born[s] + 2 * PollEvery < now}
                          Waiting(kind, s, c) ==
                            \E e \in ToSet(inbox) : e.kind = kind /\ e.who = s /\ e.child = c
                      IN /\ \A s \in Late : graph.inc[s] # NoInc \/ Waiting("node", s, s)
                         /\ \A e \in Spawns :
                              /\ {e[1], e[2]} \subseteq Late \ disturbed /\ ~Exited(e[2])
                              /\ e[1] \in Bindable /\ born[e[1]] <= born[e[2]]
                              => e \in graph.edges \/ Waiting("spawn", e[1], e[2])
    BY DEF NeverInvisible
  <2> DEFINE Late == {s \in OnDisk \ unlucky : born[s] > 0 /\ born[s] + 2 * PollEvery < now}
             Waiting(kind, s, c) ==
               \E e \in ToSet(inbox) : e.kind = kind /\ e.who = s /\ e.child = c
  <2>0. /\ InOrder /\ inbox \in Seq(Events) /\ PollEvery \in Nat /\ now \in Nat
        /\ born \in [Sessions -> Times]
    BY CollectorsAssumption DEF Watched, Sighted, InOrder, Typed, Start
  <2>1. \A i \in 1..Len(inbox) : inbox[i] \in ToSet(inbox) /\ inbox[i] \in Events
    <3>1. DOMAIN inbox = 1..Len(inbox)
      BY <2>0
    <3> QED BY <2>0, <3>1 DEF ToSet
  <2>2. \A s \in Late : s \in Sessions /\ ~(Polled(Home[s]) <= born[s] + PollEvery)
                        /\ ~(Polled(Home[s]) <= born[s])
    <3> SUFFICES ASSUME NEW s \in Late
                 PROVE  s \in Sessions /\ ~(Polled(Home[s]) <= born[s] + PollEvery)
                        /\ ~(Polled(Home[s]) <= born[s])
      OBVIOUS
    <3>1. s \in Sessions /\ Home[s] \in ToSet(Lanes) /\ born[s] \in Int
      BY <2>0, CollectorsAssumption DEF OnDisk, Times, Never
    <3>2. Polled(Home[s]) \in Int /\ now - PollEvery <= Polled(Home[s])
      BY <2>0, <3>1, PolledFacts
    <3> QED BY <2>0, <3>1, <3>2
  <2>3. ASSUME NEW s \in Late PROVE graph.inc[s] # NoInc \/ Waiting("node", s, s)
    <3>1. KnownNode(s)
      BY <2>2 DEF Watched, Graced
    <3>2. CASE graph.inc[s] # NoInc
      BY <3>2
    <3>3. ASSUME NEW i \in 1..Len(inbox), inbox[i].kind = "node", inbox[i].who = s
          PROVE  Waiting("node", s, s)
      <4>1. inbox[i].child = s
        BY <2>1, <3>3 DEF Events
      <4> QED BY <2>1, <3>3, <4>1
    <3> QED BY <3>1, <3>2, <3>3 DEF KnownNode
  <2>4. ASSUME NEW e \in Spawns, {e[1], e[2]} \subseteq Late \ disturbed, ~Exited(e[2]),
               e[1] \in Bindable, born[e[1]] <= born[e[2]]
        PROVE  e \in graph.edges \/ Waiting("spawn", e[1], e[2])
    <3>1. Placed(e)
      BY <2>4 DEF Placed
    <3>2. KnownEdge(e)
      BY <2>2, <2>4, <3>1 DEF Watched, Followed
    <3>3. ASSUME NEW i \in 1..Len(inbox), inbox[i].kind = "spawn",
                 <<inbox[i].who, inbox[i].child>> = e
          PROVE  Waiting("spawn", e[1], e[2])
      <4>1. inbox[i].who = e[1] /\ inbox[i].child = e[2]
        BY <3>3
      <4> QED BY <2>1, <3>3, <4>1
    <3> QED BY <3>2, <3>3 DEF KnownEdge
  <2> QED BY <2>3, <2>4
<1> QED BY <1>1, WatchedInductive, PTL DEF CollectorsSpec


-----------------------------------------------------------------------------
(* A one-shot shows what the homes hold.                                   *)

(* What the homes hold inside the horizon.                                 *)
Held == {s \in OnDisk \ unlucky : s \in frame \/ now - touched[s] <= Horizon}

(* The graph has them, or one of the first m events that wait.             *)
NodeBy(s, m) ==
  \/ graph.inc[s] # NoInc
  \/ \E i \in 1..m : inbox[i].kind = "node" /\ inbox[i].who = s

EdgeBy(e, m) ==
  \/ e \in graph.edges
  \/ \E i \in 1..m : inbox[i].kind = "spawn" /\ <<inbox[i].who, inbox[i].child>> = e

(* A lane that ticked has said everything; when all have, Flush waits for  *)
(* the last of it, and then it is in the graph.                            *)
Ticked ==
  /\ \A l \in ToSet(Lanes) : first[l].done => l \notin due
  /\ \A l \in ready : first[l].done

Said ==
  main # "capture" =>
    \A l \in ToSet(Lanes) \ due :
      /\ \A s \in Held : Home[s] = l => KnownNode(s)
      /\ \A e \in Spawns : Home[e[2]] = l /\ {e[1], e[2]} \subseteq Held => KnownEdge(e)

Marked ==
  /\ main \in {"flush", "visible", "sample", "done"} /\ ~expired =>
       /\ \A s \in Held : NodeBy(s, mark)
       /\ \A e \in Spawns : {e[1], e[2]} \subseteq Held => EdgeBy(e, mark)
  /\ main \in {"visible", "sample", "done"} /\ ~expired => mark = 0

Shown == Sighted /\ NodesAhead /\ (mode = "once" => Ticked /\ Said /\ Marked)

(* In a one-shot what is held stays held, unless a failure touches it.     *)
LEMMA HeldStays ==
  ASSUME InOrder, CollectorsNext, mode = "once", main # "capture"
  PROVE  /\ Held' \subseteq Held /\ unlucky \subseteq unlucky'
         /\ UNCHANGED <<mode, now, frame, world, disturbed>>
         /\ \/ Reconcile \/ OccupancyPublish
            \/ \E l \in ToSet(Lanes) : NativeTick(l) \/ ScanFails(l)
            \/ OccupancySeen \/ LaneReady \/ FlushBegins \/ FlushEnds \/ WaitVisible \/ Sample
<1>1. main # "live"
  BY DEF InOrder, ClocksInOrder
<1>2. \/ Reconcile \/ OccupancyPublish
      \/ \E l \in ToSet(Lanes) : NativeTick(l) \/ ScanFails(l)
      \/ OccupancySeen \/ LaneReady \/ FlushBegins \/ FlushEnds \/ WaitVisible \/ Sample
  BY <1>1 DEF CollectorsNext, Capture, RefreshOverlayOnly, TickProc, Born, Writes, Quits, Exits,
     Changes, Second
<1>3. /\ unlucky \subseteq unlucky' /\ UNCHANGED <<mode, now, frame, world, disturbed>>
  <2>1. CASE Reconcile \/ OccupancyPublish
    BY <2>1 DEF Reconcile, OccupancyPublish, engine, ghosts
  <2>2. ASSUME NEW l \in ToSet(Lanes), NativeTick(l)
        PROVE  /\ unlucky \subseteq unlucky' /\ UNCHANGED <<mode, now, frame, world, disturbed>>
    <3>1. unlucky \subseteq unlucky'
      BY <2>2, TickPublishes
    <3> QED BY <2>2, <3>1 DEF NativeTick, engine
  <2>3. CASE \E l \in ToSet(Lanes) : ScanFails(l)
    BY <2>3 DEF ScanFails, engine
  <2>4. CASE OccupancySeen \/ LaneReady \/ FlushBegins \/ FlushEnds \/ WaitVisible \/ Sample
    BY <2>4 DEF OccupancySeen, LaneReady, FlushBegins, FlushEnds, WaitVisible, Sample,
       engine, ghosts
  <2> QED BY <1>2, <2>1, <2>2, <2>3, <2>4
<1>4. Held' \subseteq Held
  BY <1>3 DEF Held, OnDisk, world
<1> QED BY <1>2, <1>3, <1>4

(* What is held and ticked is published.                                   *)
LEMMA HeldPublished ==
  ASSUME InOrder, mode = "once", NEW s \in Held
  PROVE  s \in Published(Home[s])
<1>1. ~Exited(s) /\ ~AwaitBinding(s) /\ s \in Scan(Home[s])
  BY DEF Held, OnDisk, InOrder, DiskInOrder, AwaitBinding, Scan
<1> QED BY <1>1 DEF Published, Seen, TerminalOutsideWindow

(* Nothing runs before the capture.                                        *)
LEMMA OnlyCapture ==
  ASSUME InOrder, CollectorsNext, main = "capture"
  PROVE  Capture
<1>1. inbox = <<>>
  BY DEF InOrder, ClocksInOrder
<1>2. ~Reconcile
  <2>1. 1..Len(inbox) = {}
    BY <1>1
  <2> QED BY <2>1 DEF Reconcile
<1> QED BY <1>2 DEF CollectorsNext, RefreshOverlayOnly, TickProc, OccupancyPublish,
     NativeTick, ScanFails, Collecting, OccupancySeen, LaneReady, FlushBegins, FlushEnds,
     WaitVisible, Sample, Born, Writes, Quits, Exits, Changes, Second

(* The lanes that ticked.                                                  *)
LEMMA NextTicked ==
  ASSUME InOrder, CollectorsNext, mode = "once", Ticked
  PROVE  Ticked'
<1>0. first = [l \in ToSet(Lanes) |-> first[l]] /\ ready \subseteq ToSet(Lanes)
  BY DEF InOrder, Typed
<1>1. CASE Capture
  <2>1. UNCHANGED <<first, ready>> /\ \A l \in ToSet(Lanes) : ~first[l].done
    BY <1>1 DEF Capture, evidence, InOrder, ClocksInOrder
  <2> QED BY <1>0, <2>1 DEF Ticked
<1>2. CASE main # "capture"
  <2>1. CASE Reconcile \/ OccupancyPublish \/ OccupancySeen \/ FlushBegins \/ FlushEnds
             \/ WaitVisible \/ Sample
    BY <2>1 DEF Reconcile, OccupancyPublish, OccupancySeen, FlushBegins, FlushEnds, WaitVisible,
       Sample, evidence, caller, Ticked
  <2>2. CASE LaneReady
    BY <2>2 DEF LaneReady, evidence, Ticked
  <2>3. ASSUME NEW l \in ToSet(Lanes), NativeTick(l) \/ ScanFails(l) PROVE Ticked'
    <3>1. PICK w : w.done /\ FirstTick(l, w)
      <4>1. CASE NativeTick(l)
        BY <4>1 DEF NativeTick, WitnessOf
      <4>2. CASE ScanFails(l)
        BY <4>2 DEF ScanFails, NoWitness
      <4> QED BY <2>3, <4>1, <4>2
    <3>2. due' = due \ {l} /\ ready' = ready
      BY <2>3 DEF NativeTick, ScanFails, caller
    <3>3. \A k \in ToSet(Lanes) : /\ first[k].done => first'[k].done
                                  /\ k # l => first'[k] = first[k]
      BY <1>0, <3>1 DEF FirstTick
    <3> QED BY <1>0, <3>2, <3>3 DEF Ticked
  <2> QED BY <1>2, <2>1, <2>2, <2>3, HeldStays
<1>3. main = "capture" => Capture
  BY OnlyCapture
<1> QED BY <1>1, <1>2, <1>3

(* What the lanes that ticked said.                                        *)
LEMMA NextSaid ==
  ASSUME InOrder, OneIncarnation, NodesAhead, CollectorsNext, mode = "once", main # "capture", Said
  PROVE  Said'
<1>1. /\ Held' \subseteq Held /\ Keeps /\ mode' = mode
  BY HeldStays, NextKeeps
<1>2. Held \subseteq Sessions \ unlucky
  BY DEF Held, OnDisk
<1>3. ASSUME NEW l \in ToSet(Lanes) \ due', l \notin due
      PROVE  /\ \A s \in Held' : Home[s] = l => KnownNode(s)'
             /\ \A e \in Spawns : Home[e[2]] = l /\ {e[1], e[2]} \subseteq Held' => KnownEdge(e)'
  <2>1. /\ \A s \in Held : Home[s] = l => KnownNode(s)
        /\ \A e \in Spawns : Home[e[2]] = l /\ {e[1], e[2]} \subseteq Held => KnownEdge(e)
    BY <1>3 DEF Said
  <2> QED BY <1>1, <1>2, <2>1 DEF Keeps, Steady
<1>4. ASSUME NEW l \in ToSet(Lanes) \ due', l \in due
      PROVE  NativeTick(l) \/ ScanFails(l)
  <2>1. due' # due
    BY <1>4
  <2>2. CASE \E k \in ToSet(Lanes) : NativeTick(k) \/ ScanFails(k)
    BY <1>4, <2>2 DEF NativeTick, ScanFails
  <2>3. CASE Reconcile \/ OccupancyPublish \/ OccupancySeen \/ LaneReady \/ FlushBegins \/ FlushEnds
             \/ WaitVisible \/ Sample
    BY <2>1, <2>3 DEF Reconcile, OccupancyPublish, OccupancySeen, LaneReady, FlushBegins,
       FlushEnds, WaitVisible, Sample
  <2> QED BY <2>2, <2>3, HeldStays
<1>5. ASSUME NEW l \in ToSet(Lanes), NativeTick(l)
      PROVE  /\ \A s \in Held' : Home[s] = l => KnownNode(s)'
             /\ \A e \in Spawns : Home[e[2]] = l /\ {e[1], e[2]} \subseteq Held' => KnownEdge(e)'
  <2>1. /\ \A s \in Published(l) \ unlucky' : KnownNode(s)'
        /\ \A e \in Spawns : {e[1], e[2]} \subseteq Published(l) \ unlucky' => KnownEdge(e)'
    BY <1>5, TickKnows
  <2>2. \A s \in Held' : Home[s] = l => s \in Published(l) \ unlucky'
    <3>1. \A s \in Held' : s \notin unlucky'
      BY DEF Held
    <3> QED BY <1>1, <3>1, HeldPublished
  <2>3. \A e \in Spawns : Home[e[1]] = Home[e[2]]
    BY CollectorsAssumption
  <2> QED BY <2>1, <2>2, <2>3
<1>6. ASSUME NEW l \in ToSet(Lanes), ScanFails(l)
      PROVE  \A s \in Held' : Home[s] # l
  BY <1>6, HeldStays DEF ScanFails, Held, OnDisk, world
<1>7. ASSUME NEW l \in ToSet(Lanes) \ due'
      PROVE  /\ \A s \in Held' : Home[s] = l => KnownNode(s)'
             /\ \A e \in Spawns : Home[e[2]] = l /\ {e[1], e[2]} \subseteq Held' => KnownEdge(e)'
  <2>1. CASE l \notin due
    BY <1>3, <2>1
  <2>2. CASE NativeTick(l)
    BY <1>5, <2>2
  <2>3. CASE ScanFails(l)
    BY <1>6, <2>3
  <2> QED BY <1>4, <2>1, <2>2, <2>3
<1> QED BY <1>7 DEF Said

(* What Flush waits for, and what it found.                                *)
LEMMA NextMarked ==
  ASSUME InOrder, OneIncarnation, NodesAhead, CollectorsNext, mode = "once", main # "capture",
         Ticked, Said, Marked
  PROVE  Marked'
<1>0. /\ Held' \subseteq Held /\ Held \subseteq Sessions \ unlucky /\ Len(inbox) \in Nat
      /\ mark \in 0..Len(inbox) /\ ready \subseteq ToSet(Lanes)
      /\ inbox \in Seq(Events) /\ IsInjective(inbox)
  BY HeldStays DEF Held, OnDisk, InOrder, Typed
<1>1. CASE Reconcile
  <2>1. /\ graph.edges \subseteq graph'.edges /\ UNCHANGED <<main, expired>>
        /\ \A s \in Sessions : graph.inc[s] # NoInc => graph'.inc[s] # NoInc
    BY <1>1, ReconcileMoves DEF Reconcile
  <2>2. PICK n \in 1..Len(inbox) :
          /\ Len(inbox') = Len(inbox) - n /\ mark' = IF mark > n THEN mark - n ELSE 0
          /\ \A k \in 1..Len(inbox) :
               \/ k > n /\ inbox'[k - n] = inbox[k]
               \/ /\ inbox[k].kind = "node" => graph'.inc[inbox[k].who] # NoInc
                  /\ \A e \in Spawns :
                       /\ inbox[k].kind = "spawn" /\ <<inbox[k].who, inbox[k].child>> = e
                       /\ {e[1], e[2]} \cap unlucky = {} /\ Steady(e[1]) /\ Steady(e[2])
                       => e \in graph'.edges
    BY <1>1, ReconcileMoves
  <2>3. \A k \in 1..mark : k \in 1..Len(inbox) /\ (k > n => k - n \in 1..mark')
    BY <1>0, <2>2
  <2>4. \A s \in Sessions : NodeBy(s, mark) => NodeBy(s, mark)'
    BY <2>1, <2>2, <2>3 DEF NodeBy
  <2>5. \A e \in Spawns : {e[1], e[2]} \subseteq Held /\ EdgeBy(e, mark) => EdgeBy(e, mark)'
    BY <1>0, <2>1, <2>2, <2>3 DEF EdgeBy, Steady
  <2>6. mark = 0 => mark' = 0
    BY <1>0, <2>2
  <2> QED BY <1>0, <2>1, <2>4, <2>5, <2>6 DEF Marked
<1>2. ASSUME NEW es \in Seq(Events), inbox' = FoldLeft(Publish, inbox, es),
             UNCHANGED <<graph, main, expired, mark>>
      PROVE  Marked'
  <2>1. \A i \in 1..Len(inbox) : inbox'[i] = inbox[i]
    BY <1>0, <1>2, PublishQueue
  <2>2. \A i \in 1..mark : i \in 1..Len(inbox)
    BY <1>0
  <2>3. \A s \in Sessions : NodeBy(s, mark) => NodeBy(s, mark)'
    BY <1>2, <2>1, <2>2 DEF NodeBy
  <2>4. \A e \in Spawns : EdgeBy(e, mark) => EdgeBy(e, mark)'
    BY <1>2, <2>1, <2>2 DEF EdgeBy
  <2> QED BY <1>0, <1>2, <2>3, <2>4 DEF Marked
<1>3. CASE OccupancyPublish
  <2>1. PICK es \in Seq(Events) : inbox' = FoldLeft(Publish, inbox, es)
    BY <1>3, OccupancyPublishes DEF InOrder, Typed
  <2> QED BY <1>2, <1>3, <2>1 DEF OccupancyPublish, caller
<1>4. ASSUME NEW l \in ToSet(Lanes), NativeTick(l) PROVE Marked'
  <2>1. PICK d \in 0..Len(Emission(l)) : inbox' = FoldLeft(Publish, inbox, Batch(l, d))
    BY <1>4, TickPublishes
  <2>2. Batch(l, d) \in Seq(Events)
    BY BatchFacts
  <2> QED BY <1>2, <1>4, <2>1, <2>2 DEF NativeTick, caller
<1>5. ASSUME UNCHANGED <<graph, inbox, mark>>,
             ~expired' => ~expired,
             main' \in {"flush", "visible", "sample", "done"} /\ ~expired' =>
               /\ main \in {"flush", "visible", "sample", "done"}
               /\ main' \in {"visible", "sample", "done"} =>
                    main \in {"visible", "sample", "done"} \/ mark = 0
      PROVE  Marked'
  <2>1. \A s \in Sessions : NodeBy(s, mark) => NodeBy(s, mark)'
    BY <1>5 DEF NodeBy
  <2>2. \A e \in Spawns : EdgeBy(e, mark) => EdgeBy(e, mark)'
    BY <1>5 DEF EdgeBy
  <2> QED BY <1>0, <1>5, <2>1, <2>2 DEF Marked
<1>6. CASE \E l \in ToSet(Lanes) : ScanFails(l)
  BY <1>5, <1>6 DEF ScanFails, caller
<1>7. CASE OccupancySeen \/ LaneReady \/ FlushEnds \/ WaitVisible \/ Sample
  <2>1. UNCHANGED <<graph, inbox, mark>>
    BY <1>7 DEF OccupancySeen, LaneReady, FlushEnds, WaitVisible, Sample, evidence
  <2>2. ~expired' => ~expired
    BY <1>7 DEF OccupancySeen, LaneReady, FlushEnds, WaitVisible, Sample
  <2>3. main' \in {"flush", "visible", "sample", "done"} /\ ~expired' =>
          /\ main \in {"flush", "visible", "sample", "done"}
          /\ main' \in {"visible", "sample", "done"} =>
               main \in {"visible", "sample", "done"} \/ mark = 0
    BY <1>7 DEF OccupancySeen, LaneReady, FlushEnds, WaitVisible, Sample
  <2> QED BY <1>5, <2>1, <2>2, <2>3
<1>8. CASE FlushBegins
  <2>1. main' = "flush" /\ mark' = Len(inbox) /\ UNCHANGED <<graph, inbox>>
    BY <1>8 DEF FlushBegins, evidence
  <2>2. SUFFICES ASSUME ~expired'
                 PROVE  /\ \A s \in Held : NodeBy(s, mark)'
                        /\ \A e \in Spawns : {e[1], e[2]} \subseteq Held => EdgeBy(e, mark)'
    BY <1>0, <2>1 DEF Marked
  <2>3. ready = ToSet(Lanes)
    <3>1. Cardinality(ready) = Len(Lanes)
      BY <1>8, <2>2 DEF FlushBegins
    <3> QED BY <1>0, <3>1, LanesFinite, FS_Subset
  <2>4. \A l \in ToSet(Lanes) : l \notin due
    BY <2>3 DEF Ticked
  <2>5. /\ \A s \in Held : KnownNode(s)
        /\ \A e \in Spawns : {e[1], e[2]} \subseteq Held => KnownEdge(e)
    <3>1. /\ \A s \in Sessions : Home[s] \in ToSet(Lanes)
          /\ \A e \in Spawns : Home[e[2]] \in ToSet(Lanes)
      BY CollectorsAssumption
    <3> QED BY <1>0, <2>4, <3>1 DEF Said
  <2>6. \A s : KnownNode(s) => NodeBy(s, mark)'
    BY <2>1 DEF KnownNode, NodeBy
  <2>7. \A e : KnownEdge(e) => EdgeBy(e, mark)'
    BY <2>1 DEF KnownEdge, EdgeBy
  <2> QED BY <2>5, <2>6, <2>7
<1> QED BY <1>1, <1>3, <1>4, <1>6, <1>7, <1>8, HeldStays

(* What is shown is kept by every step.                                    *)
LEMMA ShownInductive ==
  /\ Init => Shown
  /\ Shown /\ [CollectorsNext]_collectorVars => Shown'
<1>1. ASSUME Init PROVE Shown
  <2>1. Sighted
    BY <1>1, SightedInductive
  <2>2. NodesAhead
    <3>1. 1..Len(inbox) = {}
      BY <1>1 DEF Init
    <3> QED BY <3>1 DEF NodesAhead
  <2>3. Ticked /\ Said /\ Marked
    BY <1>1 DEF Init, Ticked, Said, Marked, NoWitness
  <2> QED BY <2>1, <2>2, <2>3 DEF Shown
<1>2. ASSUME Shown, [CollectorsNext]_collectorVars PROVE Shown'
  <2>1. Sighted'
    BY <1>2, SightedInductive DEF Shown
  <2>2. CASE CollectorsNext
    <3>1. NodesAhead'
      BY <1>2, <2>2, NextKeeps DEF Shown, Sighted, Keeps
    <3>2. CASE mode' # "once"
      BY <2>1, <3>1, <3>2 DEF Shown
    <3>3. CASE mode' = "once"
      <4>1. mode = "once"
        <5>1. mode' = mode
          BY <2>2 DEF CollectorsNext, Capture, RefreshOverlayOnly, TickProc, Reconcile,
             OccupancyPublish, NativeTick, ScanFails, OccupancySeen, LaneReady, FlushBegins,
             FlushEnds, WaitVisible, Sample, Born, Writes, Quits, Exits, Second
        <5> QED BY <3>3, <5>1
      <4>2. Ticked'
        BY <1>2, <2>2, <4>1, NextTicked DEF Shown, Sighted
      <4>3. CASE main # "capture"
        BY <1>2, <2>1, <2>2, <3>1, <4>1, <4>2, <4>3, NextSaid, NextMarked DEF Shown, Sighted
      <4>4. CASE main = "capture"
        <5>1. Capture
          BY <1>2, <2>2, <4>4, OnlyCapture DEF Shown, Sighted
        <5>2. main' = "occupancy" /\ due' = ToSet(Lanes)
          BY <4>1, <5>1 DEF Capture
        <5>3. Said' /\ Marked'
          BY <5>2 DEF Said, Marked
        <5> QED BY <2>1, <3>1, <4>2, <5>3 DEF Shown
      <4> QED BY <4>3, <4>4
    <3> QED BY <3>2, <3>3
  <2>3. CASE UNCHANGED collectorVars
    <3>1. UNCHANGED <<NodesAhead, mode, Ticked>>
      BY <2>3 DEF collectorVars, world, engine, evidence, caller, ghosts, NodesAhead, Ticked
    <3>2. UNCHANGED <<Held, main, due, expired, mark, graph, inbox>>
      BY <2>3 DEF collectorVars, world, engine, evidence, caller, ghosts, Held, OnDisk
    <3>3. Said => Said'
      BY <3>2 DEF Said, KnownNode, KnownEdge
    <3>4. Marked => Marked'
      BY <3>2 DEF Marked, NodeBy, EdgeBy
    <3> QED BY <1>2, <2>1, <3>1, <3>3, <3>4 DEF Shown
  <2> QED BY <1>2, <2>2, <2>3
<1> QED BY <1>1, <1>2

(* A one-shot that did not run out of its budget, lose a scan or an event  *)
(* shows everything the homes hold inside the horizon, with the edges      *)
(* between them, whatever order the lanes and the reconciler ran in.       *)
THEOREM CollectorsComplete == CollectorsSpec => []OneShotComplete
<1>1. Shown => OneShotComplete
  <2> SUFFICES ASSUME Shown, main = "done", ~expired
               PROVE  /\ \A s \in Held : graph.inc[s] = IncarnationFor(s)
                      /\ \A e \in Spawns : {e[1], e[2]} \subseteq Held => e \in graph.edges
    BY DEF OneShotComplete, Held
  <2>1. mode = "once" /\ mark = 0 /\ main # "capture"
    BY DEF Shown, Sighted, InOrder, ClocksInOrder, Marked
  <2>2. 1..mark = {}
    BY <2>1
  <2>3. \A s \in Held : graph.inc[s] # NoInc
    BY <2>1, <2>2 DEF Shown, Marked, NodeBy
  <2>4. \A e \in Spawns : {e[1], e[2]} \subseteq Held => e \in graph.edges
    BY <2>1, <2>2 DEF Shown, Marked, EdgeBy
  <2>5. ASSUME NEW s \in Held PROVE graph.inc[s] = IncarnationFor(s)
    <3>1. s \in OnDisk /\ s \in Sessions
      BY DEF Held, OnDisk
    <3>2. graph.inc[s] = Right(s)
      BY <2>1, <2>3, <3>1 DEF Shown, Sighted, OneIncarnation, Steady
    <3>3. CASE s \in Bindable \ disturbed
      <4>1. Bound(s)
        BY <3>1, <3>3 DEF Shown, Sighted, BoundAll
      <4>2. s \in frame
        BY <2>1, <4>1 DEF Bound
      <4> QED BY <3>2, <3>3, <4>2 DEF Right, IncarnationFor
    <3>4. CASE s \notin Bindable \ disturbed
      BY <2>1, <3>2, <3>4 DEF Right
    <3> QED BY <3>3, <3>4
  <2> QED BY <2>4, <2>5
<1> QED BY <1>1, ShownInductive, PTL DEF CollectorsSpec


=============================================================================
