---------------------------- MODULE ReducerProofs ----------------------------
(***************************************************************************)
(* Proofs about Reducer, for any events, limits and numbers of actors.     *)
(*                                                                         *)
(* Sound says what the owners a transaction stages are like, at whatever   *)
(* point of it and whether or not a stage of it failed: every Stage        *)
(* operator, and every operator a stage calls, leads from sound owners to  *)
(* sound owners. What is committed is therefore sound, and the published   *)
(* generation is what was committed.                                       *)
(*                                                                         *)
(* Booked adds the books of history: the rows of evidence are one per      *)
(* source (Filed), and the history units are the sum of what is kept       *)
(* (Balanced). A row filed is a unit charged and a row dropped a unit      *)
(* returned, at every place where rows change (Refiled). Well is Sound and *)
(* Booked, Shaped the types of what the graph shows, and RecInv puts them  *)
(* together. Leaves follows who leaves the graph through every operator.   *)
(***************************************************************************)
EXTENDS Reducer, Inductions, FiniteSetTheorems, TLAPS

-----------------------------------------------------------------------------
(* The shape of the owners.                                                 *)

OwnerFields ==
  {"nodes", "proofs", "metrics", "states", "approvals", "health", "current", "retired",
   "edges", "expiry", "gaps", "transitions", "cursors", "fingerprints", "history", "error"}

NodeFields ==
  {"inc", "name", "startedAt", "startTicks", "usage", "state", "stale", "completedAt",
   "failedAt", "ghostAt", "pinned", "partial", "identity", "metricSources",
   "stateSources", "terminalSources"}

IsNode(n) == n = [f \in NodeFields |-> n[f]] /\ n.inc \in Incs

IsEdge(e) ==
  e = [source |-> e.source, target |-> e.target, ghost |-> e.ghost, partial |-> e.partial,
       contributors |-> e.contributors, messages |-> e.messages]

IsOwners(t) ==
  /\ DOMAIN t = OwnerFields /\ t = [f \in OwnerFields |-> t[f]]
  /\ t.nodes = [a \in Actors |-> t.nodes[a]]
  /\ t.edges = [k \in EdgeKeys |-> t.edges[k]]
  /\ t.current = [a \in Actors |-> t.current[a]]
  /\ \A a \in Actors : t.nodes[a] = NoNode \/ IsNode(t.nodes[a])
  /\ \A k \in EdgeKeys : t.edges[k] = NoEdge \/ IsEdge(t.edges[k])

(* What is true of the owners, part by part.                                *)
InPlace(t) == \A a \in Actors : Present(t, a) => t.nodes[a].inc = t.current[a].inc

Anchored(t) ==
  \A k \in EdgeKeys : Linked(t, k) =>
    /\ Present(t, k.source) /\ t.nodes[k.source].inc = t.edges[k].source
    /\ Present(t, k.target) /\ t.nodes[k.target].inc = t.edges[k].target

Ghosted(t) ==
  \A k \in EdgeKeys :
    Linked(t, k) /\ k.type # "message" /\ ~t.edges[k].ghost =>
      /\ ~Terminal(t.nodes[k.source].state.value)
      /\ ~Terminal(t.nodes[k.target].state.value)

Marked(t) ==
  /\ \A a \in Actors : Present(t, a) => t.nodes[a].partial = NodePartial(t.nodes[a], t.gaps)
  /\ \A k \in EdgeKeys : Linked(t, k) => t.edges[k].partial = EdgePartial(k, t.edges[k], t.gaps)

Entry(m, k) == [at |-> m.at + MessageWindow, digest |-> m.digest, edge |-> k]
Indexed(t) ==
  /\ \A x \in t.expiry : \E k \in EdgeKeys :
       Linked(t, k) /\ \E m \in t.edges[k].messages : x = Entry(m, k)
  /\ \A k \in EdgeKeys : Linked(t, k) => \A m \in t.edges[k].messages : Entry(m, k) \in t.expiry

(* Only message edges hold messages, and a message is on an edge once.      *)
Apart(t) ==
  \A k \in EdgeKeys : Linked(t, k) =>
    /\ k.type # "message" => t.edges[k].messages = {}
    /\ \A m \in t.edges[k].messages :
         /\ m.digest \in t.fingerprints
         /\ \A n \in t.edges[k].messages : m.digest = n.digest => m = n

Acyclic(t) ==
  \A S \in SUBSET Actors :
    S # {} => \E a \in S : \A k \in EdgeKeys :
                Ranks(t, k) /\ k.source = a => k.target \notin S

Sound(t) ==
  /\ IsOwners(t) /\ InPlace(t) /\ Anchored(t) /\ Ghosted(t)
  /\ Marked(t) /\ Indexed(t) /\ Apart(t) /\ Acyclic(t)

(* A stage that leaves the incarnations alone.                              *)
Keeps(t, u) == Sound(u) /\ u.current = t.current /\ u.retired = t.retired

-----------------------------------------------------------------------------
(* Facts about the shapes.                                                  *)

(* A node is not the absent node, nor an edge the absent edge.              *)
LEMMA NodeShows == ASSUME NEW n, IsNode(n) PROVE n # NoNode
<1>1. NoNode.inc = 0 /\ n.inc # 0
  BY ReducerAssumption DEF IsNode, NoNode
<1> QED BY <1>1

(* Changing a field of a node but its incarnation.                          *)
LEMMA SetField ==
  ASSUME NEW n, IsNode(n), NEW f \in NodeFields \ {"inc"}, NEW v
  PROVE  LET m == [n EXCEPT ![f] = v] IN
         IsNode(m) /\ m[f] = v /\ \A g \in NodeFields \ {f} : m[g] = n[g]
BY DEF IsNode, NodeFields

(* The node of an actor not shown before.                                   *)
LEMMA FreshIs ==
  ASSUME NEW inc \in Incs
  PROVE IsNode(FreshNode(inc)) /\ FreshNode(inc).inc = inc /\ FreshNode(inc).state = NoState
BY DEF IsNode, NodeFields, FreshNode

(* An edge that is there is not the absent edge.                            *)
LEMMA EdgeShows == ASSUME NEW n, IsEdge(n) PROVE n # NoEdge
BY DEF IsEdge, NoEdge

(* The ends of an edge are actors.                                          *)
LEMMA EndsAreActors ==
  ASSUME NEW k \in EdgeKeys
  PROVE  k.source \in Actors /\ k.target \in Actors /\ k.type \in EdgeTypes
BY ReducerAssumption

(* The presence of an actor can be read from the incarnation.               *)
LEMMA PresentByInc ==
  ASSUME NEW t, IsOwners(t), NEW a \in Actors
  PROVE  Present(t, a) <=> t.nodes[a].inc # 0
<1>1. CASE t.nodes[a] = NoNode
  BY <1>1 DEF Present, NoNode
<1>2. CASE IsNode(t.nodes[a])
  BY <1>2, NodeShows, ReducerAssumption DEF Present, IsNode
<1> QED BY <1>1, <1>2 DEF IsOwners

(* An actor is shown by a node, which has an incarnation.                   *)
LEMMA PresentIsNode ==
  ASSUME NEW t, IsOwners(t), NEW a \in Actors
  PROVE  Present(t, a) <=> IsNode(t.nodes[a])
BY NodeShows DEF IsOwners, Present

(* An edge is there if it has the shape of one.                             *)
LEMMA LinkedIsEdge ==
  ASSUME NEW t, IsOwners(t), NEW k \in EdgeKeys
  PROVE  Linked(t, k) <=> IsEdge(t.edges[k])
BY EdgeShows DEF IsOwners, Linked

(* Fewer edges close no more cycles.                                        *)
LEMMA FewerRanks ==
  ASSUME NEW t, NEW u, Acyclic(t), \A k \in EdgeKeys : Ranks(u, k) => Ranks(t, k)
  PROVE  Acyclic(u)
BY DEF Acyclic

-----------------------------------------------------------------------------
(* Steps beside the graph: evidence, cursors, transitions and errors.       *)

SharedFields == {"nodes", "edges", "current", "retired", "gaps", "expiry", "fingerprints"}
Aside(t, u) == IsOwners(u) /\ \A f \in SharedFields : u[f] = t[f]

(* A step beside the graph leaves it sound.                                 *)
LEMMA AsideKeeps ==
  ASSUME NEW t, NEW u, Sound(t), Aside(t, u)
  PROVE  Keeps(t, u)
<1>1. /\ u.nodes = t.nodes /\ u.edges = t.edges /\ u.current = t.current
      /\ u.retired = t.retired /\ u.gaps = t.gaps /\ u.expiry = t.expiry
      /\ u.fingerprints = t.fingerprints
  BY DEF Aside, SharedFields
<1>2. /\ \A a : Present(u, a) <=> Present(t, a)
      /\ \A k : (Linked(u, k) <=> Linked(t, k)) /\ (Ranks(u, k) <=> Ranks(t, k))
  BY <1>1 DEF Present, Linked, Ranks
<1>3. InPlace(u) /\ Anchored(u) /\ Ghosted(u)
  BY <1>1, <1>2 DEF Sound, InPlace, Anchored, Ghosted
<1>4. Marked(u) /\ Indexed(u) /\ Apart(u)
  BY <1>1, <1>2 DEF Sound, Marked, Indexed, Apart
<1>5. Acyclic(u)
  BY <1>2, FewerRanks DEF Sound
<1> QED BY <1>1, <1>3, <1>4, <1>5 DEF Keeps, Sound, Aside

(* Two of them are one.                                                     *)
LEMMA AsideAgain ==
  ASSUME NEW t, NEW u, NEW v, Aside(t, u), Aside(u, v)
  PROVE  Aside(t, v)
BY DEF Aside

(* Two stages that leave the incarnations alone are one.                    *)
LEMMA KeepsAgain ==
  ASSUME NEW t, NEW u, NEW v, Keeps(t, u), Keeps(u, v)
  PROVE  Keeps(t, v)
BY DEF Keeps

(* An error that a stage sets is beside the graph.                          *)
LEMMA FailedAside ==
  ASSUME NEW t, IsOwners(t), NEW rule
  PROVE  Aside(t, Failed(t, rule))
BY DEF Failed, Aside, SharedFields, IsOwners, OwnerFields

(* purgeHealthLane is beside the graph.                                     *)
LEMMA PurgeAside ==
  ASSUME NEW t, IsOwners(t), NEW a, NEW lanes
  PROVE  Aside(t, PurgeHealth(t, a, lanes))
BY DEF PurgeHealth, Aside, SharedFields, IsOwners, OwnerFields

(* A heartbeat is beside the graph.                                         *)
LEMMA BeatAside ==
  ASSUME NEW t, IsOwners(t), NEW a, NEW lane, NEW at
  PROVE  Aside(t, Beat(t, a, lane, at))
BY DEF Beat, Aside, SharedFields, IsOwners, OwnerFields

(* refreshHealthEpoch is beside the graph.                                  *)
LEMMA RefreshAside ==
  ASSUME NEW t, IsOwners(t), NEW a, NEW lane, NEW at
  PROVE  Aside(t, RefreshHealth(t, a, lane, at))
<1>1. PICK u \in {t, PurgeHealth(t, a, {lane})} : RefreshHealth(t, a, lane, at) = Beat(u, a, lane, at)
  BY DEF RefreshHealth
<1>2. Aside(t, u)
  BY <1>1, PurgeAside DEF Aside
<1>3. Aside(u, Beat(u, a, lane, at))
  BY <1>2, BeatAside DEF Aside
<1> QED BY <1>1, <1>2, <1>3, AsideAgain

(* The end of an actor's approvals is beside the graph.                     *)
LEMMA ClearAside ==
  ASSUME NEW t, IsOwners(t), NEW a
  PROVE  Aside(t, ClearApprovals(t, a))
BY DEF ClearApprovals, Aside, SharedFields, IsOwners, OwnerFields

(* A transition that is logged, or fails, is beside the graph.              *)
LEMMA LoggedAside ==
  ASSUME NEW t, IsOwners(t), NEW a, NEW now, NEW value, NEW moves
  PROVE  Aside(t, Logged(t, a, now, value, moves))
<1>1. Aside(t, t)
  BY DEF Aside
<1>2. Aside(t, Failed(t, "transition-time"))
  BY FailedAside
<1>3. Aside(t, [t EXCEPT !.transitions[a] = NextTransitions(t.transitions[a], now, value)])
  BY DEF Aside, SharedFields, IsOwners, OwnerFields
<1> QED BY <1>1, <1>2, <1>3 DEF Logged

(* A row of state evidence is beside the graph.                             *)
LEMMA RowsAside ==
  ASSUME NEW t, IsOwners(t), NEW e, NEW at
  PROVE  Aside(t, StateRows(t, e, at))
<1> DEFINE u == StateRows(t, e, at)
<1>1. CASE Awaits(e.value)
  <2>1. IsOwners(u)
    BY <1>1 DEF StateRows, IsOwners, OwnerFields
  <2>2. \A f \in SharedFields : u[f] = t[f]
    BY <1>1 DEF StateRows, SharedFields, IsOwners, OwnerFields
  <2> QED BY <2>1, <2>2 DEF Aside
<1>2. CASE ~Awaits(e.value)
  <2>1. IsOwners(u)
    BY <1>2 DEF StateRows, IsOwners, OwnerFields
  <2>2. \A f \in SharedFields : u[f] = t[f]
    BY <1>2 DEF StateRows, SharedFields, IsOwners, OwnerFields
  <2> QED BY <2>1, <2>2 DEF Aside
<1> QED BY <1>1, <1>2

(* A cursor that moves is beside the graph.                                 *)
LEMMA CursorAside ==
  ASSUME NEW t, IsOwners(t), NEW e, NEW at
  PROVE  Aside(t, MoveCursor(t, e, at))
BY DEF MoveCursor, Aside, SharedFields, IsOwners, OwnerFields

-----------------------------------------------------------------------------
(* Steps that touch one node, and may turn relationships into ghosts.       *)

Ghost(e) == [e EXCEPT !.ghost = TRUE]

Touched(t, u, a) ==
  /\ IsOwners(u)
  /\ \A f \in SharedFields \ {"nodes", "edges"} : u[f] = t[f]
  /\ Present(t, a) /\ Present(u, a)
  /\ u.nodes[a].inc = t.nodes[a].inc
  /\ u.nodes[a].partial = NodePartial(u.nodes[a], t.gaps)
  /\ \A b \in Actors \ {a} : u.nodes[b] = t.nodes[b]
  /\ \A k \in EdgeKeys :
       \/ u.edges[k] = t.edges[k]
       \/ Linked(t, k) /\ k.type # "message" /\ u.edges[k] = Ghost(t.edges[k])
  /\ Terminal(u.nodes[a].state.value) =>
       \/ Terminal(t.nodes[a].state.value)
       \/ \A k \in EdgeKeys :
            Linked(t, k) /\ k.type # "message" /\ (k.source = a \/ k.target = a)
              => u.edges[k] = Ghost(t.edges[k])

(* Setting the ghost flag of an edge leaves the rest of it.                 *)
LEMMA GhostedIs ==
  ASSUME NEW e, IsEdge(e), NEW ghost
  PROVE  LET g == [e EXCEPT !.ghost = ghost] IN
         /\ IsEdge(g) /\ g.source = e.source /\ g.target = e.target /\ g.partial = e.partial
         /\ g.contributors = e.contributors /\ g.messages = e.messages /\ g.ghost = ghost
BY DEF IsEdge

(* A ghost is the edge it was but for the flag.                             *)
LEMMA GhostIs ==
  ASSUME NEW e, IsEdge(e)
  PROVE  LET g == Ghost(e) IN
         /\ IsEdge(g) /\ g.source = e.source /\ g.target = e.target /\ g.partial = e.partial
         /\ g.contributors = e.contributors /\ g.messages = e.messages /\ g.ghost = TRUE
BY GhostedIs DEF Ghost

(* What a node that is touched leaves of an edge.                           *)
LEMMA TouchedEdges ==
  ASSUME NEW t, NEW u, NEW a \in Actors, Sound(t), Touched(t, u, a), NEW k \in EdgeKeys
  PROVE  /\ Linked(u, k) <=> Linked(t, k)
         /\ Linked(t, k) =>
              /\ u.edges[k].source = t.edges[k].source /\ u.edges[k].target = t.edges[k].target
              /\ u.edges[k].partial = t.edges[k].partial
              /\ u.edges[k].contributors = t.edges[k].contributors
              /\ u.edges[k].messages = t.edges[k].messages
              /\ ~u.edges[k].ghost => ~t.edges[k].ghost
<1>1. CASE u.edges[k] = t.edges[k]
  BY <1>1 DEF Linked
<1>2. CASE Linked(t, k) /\ u.edges[k] = Ghost(t.edges[k])
  <2>1. IsEdge(t.edges[k])
    BY <1>2, LinkedIsEdge DEF Sound
  <2>2. IsEdge(u.edges[k])
    BY <1>2, <2>1, GhostIs
  <2>3. Linked(u, k)
    BY <2>2, EdgeShows DEF Linked
  <2> QED BY <1>2, <2>1, <2>3, GhostIs
<1> QED BY <1>1, <1>2 DEF Touched

(* A node that is touched leaves the graph sound: it is in its place still, *)
(* its relationships are ghosts if it has ended, and its mark is right.     *)
LEMMA TouchedKeeps ==
  ASSUME NEW t, NEW u, NEW a \in Actors, Sound(t), Touched(t, u, a)
  PROVE  Keeps(t, u)
<1>1. /\ u.current = t.current /\ u.retired = t.retired /\ u.gaps = t.gaps
      /\ u.expiry = t.expiry /\ u.fingerprints = t.fingerprints
  BY DEF Touched, SharedFields
<1>2. /\ \A b \in Actors : Present(u, b) <=> Present(t, b)
      /\ \A b \in Actors : u.nodes[b].inc = t.nodes[b].inc
  BY DEF Touched, Present
<1>3. /\ \A k \in EdgeKeys : Linked(u, k) <=> Linked(t, k)
      /\ \A k \in EdgeKeys : Linked(t, k) =>
              /\ u.edges[k].source = t.edges[k].source /\ u.edges[k].target = t.edges[k].target
              /\ u.edges[k].partial = t.edges[k].partial
              /\ u.edges[k].contributors = t.edges[k].contributors
              /\ u.edges[k].messages = t.edges[k].messages
              /\ ~u.edges[k].ghost => ~t.edges[k].ghost
  BY TouchedEdges
<1>4. InPlace(u)
  BY <1>1, <1>2 DEF Sound, InPlace
<1>5. Anchored(u)
  BY <1>2, <1>3, EndsAreActors DEF Sound, Anchored
<1>6. Ghosted(u)
  <2> SUFFICES ASSUME NEW k \in EdgeKeys, Linked(u, k), k.type # "message", ~u.edges[k].ghost,
                      NEW b \in {k.source, k.target}
               PROVE  ~Terminal(u.nodes[b].state.value)
    BY DEF Ghosted
  <2>1. Linked(t, k) /\ ~t.edges[k].ghost
    BY <1>3
  <2>2. ~Terminal(t.nodes[b].state.value)
    BY <2>1 DEF Sound, Ghosted
  <2>3. CASE b # a
    BY <2>2, <2>3, EndsAreActors DEF Touched
  <2>4. CASE b = a
    <3>1. u.edges[k] # Ghost(t.edges[k])
      BY <2>1, GhostIs, LinkedIsEdge DEF Sound
    <3> QED BY <2>1, <2>2, <2>4, <3>1 DEF Touched
  <2> QED BY <2>3, <2>4
<1>7. Marked(u)
  <2>1. \A b \in Actors : Present(u, b) => u.nodes[b].partial = NodePartial(u.nodes[b], u.gaps)
    BY <1>1, <1>2 DEF Touched, Sound, Marked
  <2>2. \A k \in EdgeKeys : Linked(u, k) => u.edges[k].partial = EdgePartial(k, u.edges[k], u.gaps)
    BY <1>1, <1>3 DEF Sound, Marked, EdgePartial
  <2> QED BY <2>1, <2>2 DEF Marked
<1>8. Indexed(u)
  BY <1>1, <1>3 DEF Sound, Indexed
<1>9. Apart(u)
  BY <1>1, <1>3 DEF Sound, Apart
<1>10. Acyclic(u)
  <2>1. \A k \in EdgeKeys : Ranks(u, k) => Ranks(t, k)
    BY <1>3 DEF Ranks
  <2> QED BY <2>1, FewerRanks DEF Sound
<1> QED BY <1>1, <1>4, <1>5, <1>6, <1>7, <1>8, <1>9, <1>10 DEF Keeps, Sound, Touched

-----------------------------------------------------------------------------
(* The operators that change a node.                                        *)

(* What WithNode changes.                                                   *)
LEMMA WithNodeDoes ==
  ASSUME NEW t, IsOwners(t), NEW a \in Actors, NEW n, IsNode(n)
  PROVE  LET u == WithNode(t, a, n) IN
         /\ IsOwners(u)
         /\ u.nodes[a] = [n EXCEPT !.partial = NodePartial(n, t.gaps)]
         /\ \A b \in Actors \ {a} : u.nodes[b] = t.nodes[b]
         /\ \A f \in OwnerFields \ {"nodes"} : u[f] = t[f]
<1> DEFINE m == [n EXCEPT !.partial = NodePartial(n, t.gaps)]
<1>1. IsNode(m)
  BY DEF IsNode
<1> HIDE DEF m
<1>2. WithNode(t, a, n) = [t EXCEPT !.nodes[a] = m]
  BY DEF WithNode, m
<1> QED BY <1>1, <1>2 DEF IsOwners, OwnerFields, m

(* Marking a node as partial, or not, changes nothing else of it.           *)
LEMMA MarkIs ==
  ASSUME NEW n, IsNode(n), NEW p
  PROVE  LET m == [n EXCEPT !.partial = p] IN
         /\ IsNode(m) /\ m.partial = p /\ m.inc = n.inc /\ m.state = n.state
         /\ m.identity = n.identity /\ m.metricSources = n.metricSources
         /\ m.stateSources = n.stateSources /\ m.terminalSources = n.terminalSources
BY DEF IsNode

(* The mark of a node says nothing about what it is computed from.          *)
LEMMA MarkedIs ==
  ASSUME NEW n, IsNode(n), NEW G
  PROVE  LET m == [n EXCEPT !.partial = NodePartial(n, G)] IN
         /\ IsNode(m) /\ m.inc = n.inc /\ m.state = n.state /\ m.partial = NodePartial(m, G)
<1> DEFINE p == NodePartial(n, G)
           m == [n EXCEPT !.partial = p]
<1> HIDE DEF p
<1>1. /\ IsNode(m) /\ m.partial = p /\ m.inc = n.inc /\ m.state = n.state
      /\ m.identity = n.identity /\ m.metricSources = n.metricSources
      /\ m.stateSources = n.stateSources /\ m.terminalSources = n.terminalSources
  BY MarkIs
<1> HIDE DEF m
<1>2. NodePartial(m, G) = p
  BY <1>1 DEF NodePartial, p
<1> QED BY <1>1, <1>2 DEF m, p

(* A node that does not end is touched by being written.                    *)
LEMMA WithNodeTouches ==
  ASSUME NEW t, IsOwners(t), NEW a \in Actors, Present(t, a), NEW n, IsNode(n),
         n.inc = t.nodes[a].inc,
         Terminal(n.state.value) => Terminal(t.nodes[a].state.value)
  PROVE  Touched(t, WithNode(t, a, n), a)
<1> DEFINE u == WithNode(t, a, n)
           m == [n EXCEPT !.partial = NodePartial(n, t.gaps)]
<1>1. /\ IsOwners(u) /\ u.nodes[a] = m
      /\ \A b \in Actors \ {a} : u.nodes[b] = t.nodes[b]
      /\ \A f \in OwnerFields \ {"nodes"} : u[f] = t[f]
  <2> HIDE DEF u
  <2> QED BY WithNodeDoes DEF u
<1>2. /\ IsNode(m) /\ m.inc = n.inc /\ m.state = n.state
      /\ m.partial = NodePartial(m, t.gaps)
  <2>1. NodePartial(m, t.gaps) = NodePartial(n, t.gaps)
    BY MarkIs DEF NodePartial
  <2> QED BY <2>1, MarkIs
<1> HIDE DEF u, m
<1>3. Present(u, a)
  BY <1>1, <1>2, NodeShows DEF Present
<1>4. \A f \in SharedFields \ {"nodes"} : u[f] = t[f]
  BY <1>1 DEF SharedFields, OwnerFields
<1>5. u.edges = t.edges
  BY <1>4 DEF SharedFields
<1>6. Touched(t, u, a)
  BY <1>1, <1>2, <1>3, <1>4, <1>5 DEF Touched
<1> QED BY <1>6 DEF u

(* A node whose sources and state stay is as partial as it was.             *)
LEMMA SetNodeTouches ==
  ASSUME NEW t, Sound(t), NEW a \in Actors, Present(t, a), NEW m, IsNode(m),
         m.inc = t.nodes[a].inc, m.state = t.nodes[a].state, m.partial = t.nodes[a].partial,
         m.identity = t.nodes[a].identity, m.metricSources = t.nodes[a].metricSources,
         m.stateSources = t.nodes[a].stateSources,
         m.terminalSources = t.nodes[a].terminalSources
  PROVE  Touched(t, [t EXCEPT !.nodes[a] = m], a)
<1> DEFINE u == [t EXCEPT !.nodes[a] = m]
<1>1. /\ IsOwners(u) /\ u.nodes[a] = m
      /\ \A b \in Actors \ {a} : u.nodes[b] = t.nodes[b]
      /\ \A f \in OwnerFields \ {"nodes"} : u[f] = t[f]
  BY DEF Sound, IsOwners, OwnerFields
<1> HIDE DEF u
<1>2. m.partial = NodePartial(m, t.gaps)
  BY DEF Sound, Marked, NodePartial
<1>3. Present(u, a)
  BY <1>1, NodeShows DEF Present
<1>4. \A f \in SharedFields \ {"nodes"} : u[f] = t[f]
  BY <1>1 DEF SharedFields, OwnerFields
<1>5. u.edges = t.edges
  BY <1>4 DEF SharedFields
<1>6. Touched(t, u, a)
  BY <1>1, <1>2, <1>3, <1>4, <1>5 DEF Touched
<1> QED BY <1>6 DEF u

(* Staleness is beside everything Sound speaks of.                          *)
LEMMA StaleIs ==
  ASSUME NEW n, IsNode(n), NEW b
  PROVE  LET m == [n EXCEPT !.stale = b] IN
         /\ IsNode(m) /\ m.inc = n.inc /\ m.state = n.state /\ m.partial = n.partial
         /\ m.identity = n.identity /\ m.metricSources = n.metricSources
         /\ m.stateSources = n.stateSources /\ m.terminalSources = n.terminalSources
BY DEF IsNode

(* The pin is beside everything Sound speaks of.                            *)
LEMMA PinnedIs ==
  ASSUME NEW n, IsNode(n), NEW b
  PROVE  LET m == [n EXCEPT !.pinned = b] IN
         /\ IsNode(m) /\ m.inc = n.inc /\ m.state = n.state /\ m.partial = n.partial
         /\ m.identity = n.identity /\ m.metricSources = n.metricSources
         /\ m.stateSources = n.stateSources /\ m.terminalSources = n.terminalSources
         /\ m.ghostAt = n.ghostAt /\ m.pinned = b
BY DEF IsNode

(* StaleBit, or its failure.                                                *)
LEMMA StaleBitKeeps ==
  ASSUME NEW t, Sound(t), NEW a \in Actors, NEW b
  PROVE  Keeps(t, StaleBit(t, a, b))
<1>1. CASE ~Present(t, a)
  BY <1>1, FailedAside, AsideKeeps DEF StaleBit, Sound
<1>2. CASE Present(t, a)
  <2> DEFINE m == [t.nodes[a] EXCEPT !.stale = b]
  <2>1. IsNode(t.nodes[a])
    BY <1>2, PresentIsNode DEF Sound
  <2>2. /\ IsNode(m) /\ m.inc = t.nodes[a].inc /\ m.state = t.nodes[a].state
        /\ m.partial = t.nodes[a].partial /\ m.identity = t.nodes[a].identity
        /\ m.metricSources = t.nodes[a].metricSources
        /\ m.stateSources = t.nodes[a].stateSources
        /\ m.terminalSources = t.nodes[a].terminalSources
    BY <2>1, StaleIs
  <2>3. StaleBit(t, a, b) = [t EXCEPT !.nodes[a] = m]
    BY <1>2 DEF StaleBit
  <2> HIDE DEF m
  <2>4. Touched(t, [t EXCEPT !.nodes[a] = m], a)
    BY <1>2, <2>2, SetNodeTouches
  <2> QED BY <2>3, <2>4, TouchedKeeps
<1> QED BY <1>1, <1>2

(* Pinning, and unpinning.                                                  *)
LEMMA PinKeeps ==
  ASSUME NEW t, Sound(t), NEW a \in Actors, Present(t, a), NEW b
  PROVE  Keeps(t, [t EXCEPT !.nodes[a].pinned = b])
<1> DEFINE m == [t.nodes[a] EXCEPT !.pinned = b]
<1>1. IsNode(t.nodes[a])
  BY PresentIsNode DEF Sound
<1>2. /\ IsNode(m) /\ m.inc = t.nodes[a].inc /\ m.state = t.nodes[a].state
      /\ m.partial = t.nodes[a].partial /\ m.identity = t.nodes[a].identity
      /\ m.metricSources = t.nodes[a].metricSources
      /\ m.stateSources = t.nodes[a].stateSources
      /\ m.terminalSources = t.nodes[a].terminalSources
  BY <1>1, PinnedIs
<1>3. [t EXCEPT !.nodes[a].pinned = b] = [t EXCEPT !.nodes[a] = m]
  OBVIOUS
<1> HIDE DEF m
<1>4. Touched(t, [t EXCEPT !.nodes[a] = m], a)
  BY <1>2, SetNodeTouches
<1> QED BY <1>3, <1>4, TouchedKeeps

(* Usage.                                                                   *)
LEMMA UsageIs ==
  ASSUME NEW n, IsNode(n), NEW usage, NEW sources
  PROVE  LET m == [n EXCEPT !.usage = usage, !.metricSources = sources] IN
         IsNode(m) /\ m.inc = n.inc /\ m.state = n.state
<1> DEFINE m == [n EXCEPT !.usage = usage]
<1>1. IsNode(m) /\ m.inc = n.inc /\ m.state = n.state
  BY DEF IsNode
<1>2. [n EXCEPT !.usage = usage, !.metricSources = sources] = [m EXCEPT !.metricSources = sources]
  OBVIOUS
<1> HIDE DEF m
<1>3. LET o == [m EXCEPT !.metricSources = sources]
      IN IsNode(o) /\ o.inc = m.inc /\ o.state = m.state
  BY <1>1 DEF IsNode
<1> QED BY <1>1, <1>2, <1>3

(* MetricsObserved leaves the graph sound.                                  *)
LEMMA MetricsKeeps ==
  ASSUME NEW t, Sound(t), NEW e \in Events, NEW at
  PROVE  Keeps(t, StageMetrics(t, e, at))
<1> DEFINE a == e.actor
           old == {x \in ToSet(t.metrics[a]) : x.source = e.source /\ x.inc = e.inc}
           u == [t EXCEPT !.metrics[a] = Accept(@, old, [source |-> e.source, inc |-> e.inc,
                                                         at |-> at, usage |-> e.usage]),
                          !.history = @ + One(old = {})]
           fold == FoldMetrics(u.metrics[a])
           m == [t.nodes[a] EXCEPT !.usage = fold.usage, !.metricSources = fold.sources]
<1>0. a \in Actors
  BY ReducerAssumption DEF EventRecord
<1>1. Aside(t, u)
  BY DEF Sound, Aside, SharedFields, IsOwners, OwnerFields
<1>2. StageMetrics(t, e, at) = IF ~Present(t, a) THEN Failed(t, "metrics-owner")
                               ELSE WithNode(u, a, m)
  BY DEF StageMetrics
<1>3. CASE ~Present(t, a)
  BY <1>2, <1>3, FailedAside, AsideKeeps DEF Sound
<1>4. CASE Present(t, a)
  <2>1. IsNode(t.nodes[a])
    BY <1>0, <1>4, PresentIsNode DEF Sound
  <2>2. IsNode(m) /\ m.inc = t.nodes[a].inc /\ m.state = t.nodes[a].state
    <3> DEFINE n == t.nodes[a]
               usage == fold.usage
               sources == fold.sources
    <3>1. IsNode(n)
      BY <2>1
    <3> HIDE DEF n, usage, sources
    <3>2. LET o == [n EXCEPT !.usage = usage, !.metricSources = sources] IN
          IsNode(o) /\ o.inc = n.inc /\ o.state = n.state
      BY <3>1, UsageIs
    <3> QED BY <3>2 DEF n, usage, sources
  <2> HIDE DEF m, u, a
  <2>3. u.nodes = t.nodes /\ Keeps(t, u)
    BY <1>1, AsideKeeps DEF Aside, SharedFields
  <2>4. Touched(u, WithNode(u, a, m), a)
    BY <1>0, <1>4, <2>2, <2>3, WithNodeTouches DEF Keeps, Sound, Present
  <2>5. Keeps(u, WithNode(u, a, m))
    BY <1>0, <2>3, <2>4, TouchedKeeps DEF Keeps
  <2> QED BY <1>2, <1>4, <2>3, <2>5, KeepsAgain
<1> QED BY <1>3, <1>4

-----------------------------------------------------------------------------
(* Projections of the state.                                                *)

(* applyTerminalMetadata only sets times.                                   *)
LEMMA TerminalMetadataIs ==
  ASSUME NEW n, IsNode(n), NEW e
  PROVE  LET m == TerminalMetadata(n, e) IN
         IsNode(m) /\ m.inc = n.inc /\ m.state = n.state
<1> DEFINE x == IF e.value = "completed" THEN e.at ELSE 0
           y == IF e.value = "failed" THEN e.at ELSE 0
           z == e.at + GhostTTL(e.value)
           p == [n EXCEPT !.completedAt = x]
           q == [p EXCEPT !.failedAt = y]
           r == [q EXCEPT !.ghostAt = z]
<1>1. TerminalMetadata(n, e) \in {n, r}
  BY DEF TerminalMetadata
<1> HIDE DEF x, y, z
<1>2. IsNode(p) /\ p.inc = n.inc /\ p.state = n.state
  BY SetField DEF NodeFields
<1> HIDE DEF p
<1>3. IsNode(q) /\ q.inc = p.inc /\ q.state = p.state
  BY <1>2, SetField DEF NodeFields
<1> HIDE DEF q
<1>4. IsNode(r) /\ r.inc = q.inc /\ r.state = q.state
  BY <1>3, SetField DEF NodeFields
<1> HIDE DEF r
<1> QED BY <1>1, <1>2, <1>3, <1>4

(* projectNodeState leaves the incarnation, and shows the winner.           *)
LEMMA WithStateIs ==
  ASSUME NEW n, IsNode(n), NEW winner
  PROVE  LET m == WithState(n, winner) IN
         IsNode(m) /\ m.inc = n.inc /\ m.state = Shown(winner)
<1> DEFINE ids == IF winner = NoEvidence THEN {} ELSE {winner.source.id}
           w == Shown(winner)
           b == n.stale /\ ~Terminal(winner.value)
           x == IF winner.via = "state" THEN ids ELSE {}
           y == IF winner.via = "terminal" THEN ids ELSE {}
           p == [n EXCEPT !.state = w]
           q == [p EXCEPT !.stale = b]
           r == [q EXCEPT !.stateSources = x]
           s == [r EXCEPT !.terminalSources = y]
<1>1. WithState(n, winner) = TerminalMetadata(s, winner)
  BY DEF WithState
<1> HIDE DEF w, b, x, y
<1>2. IsNode(p) /\ p.inc = n.inc /\ p.state = w
  BY SetField DEF NodeFields
<1> HIDE DEF p
<1>3. IsNode(q) /\ q.inc = p.inc /\ q.state = p.state
  BY <1>2, SetField DEF NodeFields
<1> HIDE DEF q
<1>4. IsNode(r) /\ r.inc = q.inc /\ r.state = q.state
  BY <1>3, SetField DEF NodeFields
<1> HIDE DEF r
<1>5. IsNode(s) /\ s.inc = r.inc /\ s.state = r.state
  BY <1>4, SetField DEF NodeFields
<1> HIDE DEF s
<1>6. IsNode(TerminalMetadata(s, winner)) /\ TerminalMetadata(s, winner).inc = s.inc
      /\ TerminalMetadata(s, winner).state = s.state
  BY <1>5, TerminalMetadataIs
<1> QED BY <1>1, <1>2, <1>3, <1>4, <1>5, <1>6 DEF w

(* GhostEdges changes the relationships of the incarnation, and only those. *)
LEMMA GhostEdgesDoes ==
  ASSUME NEW t, IsOwners(t), NEW a, NEW inc
  PROVE  LET u == GhostEdges(t, a, inc) IN
         /\ IsOwners(u)
         /\ \A f \in OwnerFields \ {"edges"} : u[f] = t[f]
         /\ \A k \in EdgeKeys : u.edges[k] = IF k \in Relationships(t, a, inc)
                                             THEN Ghost(t.edges[k]) ELSE t.edges[k]
<1> DEFINE K == Relationships(t, a, inc)
           E == [k \in EdgeKeys |-> IF k \in K THEN Ghost(t.edges[k]) ELSE t.edges[k]]
           u == [t EXCEPT !.edges = E]
<1>1. GhostEdges(t, a, inc) = u
  BY DEF GhostEdges, Relationships, Ghost
<1>2. \A k \in EdgeKeys : E[k] = NoEdge \/ IsEdge(E[k])
  <2> SUFFICES ASSUME NEW k \in EdgeKeys PROVE E[k] = NoEdge \/ IsEdge(E[k])
    OBVIOUS
  <2>1. CASE k \in K
    <3>1. IsEdge(t.edges[k])
      BY <2>1, LinkedIsEdge DEF Relationships, EdgesOf
    <3> QED BY <2>1, <3>1, GhostIs
  <2>2. CASE k \notin K
    BY <2>2 DEF IsOwners
  <2> QED BY <2>1, <2>2
<1>3. E = [k \in EdgeKeys |-> E[k]]
  OBVIOUS
<1>4. \A k \in EdgeKeys : E[k] = IF k \in K THEN Ghost(t.edges[k]) ELSE t.edges[k]
  OBVIOUS
<1> HIDE DEF E, K
<1>5. /\ u.edges = E /\ \A f \in OwnerFields \ {"edges"} : u[f] = t[f]
      /\ IsOwners(u)
  BY <1>2, <1>3 DEF IsOwners, OwnerFields
<1> HIDE DEF u
<1> QED BY <1>1, <1>4, <1>5 DEF K

(* A node in another state: its transition is logged or fails, and when it  *)
(* has ended its relationships become ghosts in the same stage.             *)
LEMMA ProjectKeeps ==
  ASSUME NEW t, Sound(t), NEW a \in Actors, Present(t, a), NEW now, NEW winner,
         NEW after, IsNode(after), after.inc = t.nodes[a].inc,
         after.state.value = winner.value
  PROVE  Keeps(t, ProjectAs(t, a, now, winner, after))
<1> DEFINE l == Logged(t, a, now, winner.value, after.state # t.nodes[a].state)
           v == WithNode(l, a, after)
           m == [after EXCEPT !.partial = NodePartial(after, l.gaps)]
           w == IF Terminal(winner.value) THEN GhostEdges(v, a, after.inc) ELSE v
<1>1. ProjectAs(t, a, now, winner, after) = w
  BY DEF ProjectAs
<1>2. Aside(t, l)
  BY LoggedAside DEF Sound
<1> HIDE DEF l
<1>3. Keeps(t, l) /\ Present(l, a) /\ l.nodes[a].inc = after.inc
  BY <1>2, AsideKeeps DEF Aside, SharedFields, Present
<1>4. CASE ~Terminal(winner.value)
  <2>1. Touched(l, v, a)
    BY <1>3, <1>4, WithNodeTouches DEF Keeps, Sound
  <2>2. Keeps(l, v)
    BY <1>3, <2>1, TouchedKeeps DEF Keeps
  <2> QED BY <1>1, <1>3, <1>4, <2>2, KeepsAgain
<1>5. CASE Terminal(winner.value)
  <2>1. /\ IsOwners(v) /\ v.nodes[a] = m
        /\ \A b \in Actors \ {a} : v.nodes[b] = l.nodes[b]
        /\ \A f \in OwnerFields \ {"nodes"} : v[f] = l[f]
    <3> HIDE DEF v
    <3> QED BY <1>3, WithNodeDoes DEF Keeps, Sound, v
  <2>2. /\ IsNode(m) /\ m.inc = after.inc /\ m.state = after.state
        /\ m.partial = NodePartial(m, l.gaps)
    <3>1. NodePartial(m, l.gaps) = NodePartial(after, l.gaps)
      BY MarkIs DEF NodePartial
    <3> QED BY <3>1, MarkIs
  <2> DEFINE K == Relationships(v, a, after.inc)
  <2>3. w = GhostEdges(v, a, after.inc)
    BY <1>5
  <2> HIDE DEF w, v, m
  <2>4. /\ IsOwners(w)
        /\ \A f \in OwnerFields \ {"edges"} : w[f] = v[f]
        /\ \A k \in EdgeKeys : w.edges[k] = IF k \in K THEN Ghost(v.edges[k]) ELSE v.edges[k]
    BY <2>1, <2>3, GhostEdgesDoes
  <2>5. v.edges = l.edges /\ w.nodes = v.nodes
    BY <2>1, <2>4 DEF OwnerFields
  <2>6. \A f \in SharedFields \ {"nodes", "edges"} : w[f] = l[f]
    BY <2>1, <2>4 DEF OwnerFields, SharedFields
  <2>7. Present(w, a) /\ w.nodes[a] = m
    BY <2>1, <2>2, <2>5, NodeShows DEF Present
  <2>8. \A k \in K : Linked(l, k) /\ k.type # "message"
    BY <2>5 DEF Relationships, EdgesOf, Linked
  <2>9. \A k \in EdgeKeys :
          Linked(l, k) /\ k.type # "message" /\ (k.source = a \/ k.target = a) => k \in K
    <3> SUFFICES ASSUME NEW k \in EdgeKeys, Linked(l, k), k.type # "message",
                        k.source = a \/ k.target = a
                 PROVE  k \in K
      OBVIOUS
    <3>1. \/ k.source = a /\ l.edges[k].source = after.inc
          \/ k.target = a /\ l.edges[k].target = after.inc
      BY <1>3 DEF Keeps, Sound, Anchored
    <3> QED BY <2>5, <3>1 DEF Relationships, EdgesOf, Linked
  <2>10. /\ \A k \in EdgeKeys : \/ w.edges[k] = l.edges[k]
                                \/ Linked(l, k) /\ k.type # "message" /\ w.edges[k] = Ghost(l.edges[k])
         /\ \A k \in EdgeKeys :
              Linked(l, k) /\ k.type # "message" /\ (k.source = a \/ k.target = a)
                => w.edges[k] = Ghost(l.edges[k])
    <3> HIDE DEF K
    <3> QED BY <2>4, <2>5, <2>8, <2>9
  <2>11. \A b \in Actors \ {a} : w.nodes[b] = l.nodes[b]
    BY <2>1, <2>5
  <2>12. Touched(l, w, a)
    BY <1>3, <2>2, <2>4, <2>6, <2>7, <2>10, <2>11 DEF Touched
  <2>13. Keeps(l, w)
    BY <1>3, <2>12, TouchedKeeps DEF Keeps
  <2> QED BY <1>1, <1>3, <2>13, KeepsAgain
<1> QED BY <1>4, <1>5

(* stageStateProjection, or its failure.                                    *)
LEMMA ProjectionKeeps ==
  ASSUME NEW t, Sound(t), NEW a \in Actors, NEW now
  PROVE  Keeps(t, StateProjection(t, a, now))
<1>1. CASE ~Present(t, a)
  BY <1>1, FailedAside, AsideKeeps DEF StateProjection, Sound
<1>2. CASE Present(t, a)
  <2> DEFINE winner == FoldState(t.states[a], t.approvals[a], t.health[a], now)
             after == WithState(t.nodes[a], winner)
  <2>1. StateProjection(t, a, now) = ProjectAs(t, a, now, winner, after)
    BY <1>2 DEF StateProjection, ProjectTo
  <2> HIDE DEF winner
  <2>2. IsNode(t.nodes[a])
    BY <1>2, PresentIsNode DEF Sound
  <2>3. IsNode(after) /\ after.inc = t.nodes[a].inc /\ after.state = Shown(winner)
    BY <2>2, WithStateIs
  <2>4. after.state.value = winner.value
    BY <2>3 DEF Shown
  <2> HIDE DEF after
  <2> QED BY <1>2, <2>1, <2>3, <2>4, ProjectKeeps
<1> QED BY <1>1, <1>2

-----------------------------------------------------------------------------
(* The evidence stages.                                                     *)

(* StateObserved leaves the graph sound.                                    *)
LEMMA StateKeeps ==
  ASSUME NEW t, Sound(t), NEW e \in Events, NEW at, NEW now
  PROVE  Keeps(t, StageState(t, e, at, now))
<1> DEFINE a == e.actor
           u == IF ~Terminal(e.value) /\ e.source.authority # Passive
                THEN RefreshHealth(t, a, HealthKey(e.source), at) ELSE t
           w == StateRows(u, e, at)
           x == IF Terminal(e.value) THEN ClearApprovals(w, a) ELSE w
<1>0. a \in Actors
  BY ReducerAssumption DEF EventRecord
<1>1. StageState(t, e, at, now) = StateProjection(x, a, now)
  BY DEF StageState
<1>2. Keeps(t, u)
  <2>1. Aside(t, t) /\ Aside(t, RefreshHealth(t, a, HealthKey(e.source), at))
    BY RefreshAside DEF Sound, Aside
  <2>2. Aside(t, u)
    BY <2>1
  <2> QED BY <2>2, AsideKeeps
<1> HIDE DEF u
<1>3. Keeps(u, w)
  BY <1>2, RowsAside, AsideKeeps DEF Keeps, Sound
<1> HIDE DEF w
<1>4. Keeps(w, x)
  <2>1. Keeps(w, w)
    BY <1>3 DEF Keeps
  <2>2. Keeps(w, ClearApprovals(w, a))
    BY <1>3, ClearAside, AsideKeeps DEF Keeps, Sound
  <2> QED BY <2>1, <2>2
<1> HIDE DEF x, a
<1>5. Keeps(x, StateProjection(x, a, now))
  BY <1>0, <1>4, ProjectionKeeps DEF Keeps
<1> QED BY <1>1, <1>2, <1>3, <1>4, <1>5, KeepsAgain

(* ExitObserved leaves the graph sound.                                     *)
LEMMA ExitKeeps ==
  ASSUME NEW t, Sound(t), NEW e \in Events, NEW at, NEW now
  PROVE  Keeps(t, StageExit(t, e, at, now))
<1> DEFINE a == e.actor
           u == [t EXCEPT !.states[a] = AcceptOwn(@, ExitEvidence(e, at)),
                          !.history = @ + One(~HoldsOwn(t.states[a], e))]
           x == ClearApprovals(u, a)
<1>0. a \in Actors
  BY ReducerAssumption DEF EventRecord
<1>1. StageExit(t, e, at, now) = StateProjection(x, a, now)
  BY DEF StageExit
<1>2. Aside(t, u)
  BY DEF Sound, Aside, SharedFields, IsOwners, OwnerFields
<1> HIDE DEF u
<1>3. Keeps(t, u)
  BY <1>2, AsideKeeps
<1>4. Keeps(u, x)
  BY <1>3, ClearAside, AsideKeeps DEF Keeps, Sound
<1> HIDE DEF x, a
<1>5. Keeps(x, StateProjection(x, a, now))
  BY <1>0, <1>4, ProjectionKeeps DEF Keeps
<1> QED BY <1>1, <1>3, <1>4, <1>5, KeepsAgain

(* HeartbeatObserved leaves the graph sound.                                *)
LEMMA HeartbeatKeeps ==
  ASSUME NEW t, Sound(t), NEW e \in Events, NEW at, NEW now
  PROVE  Keeps(t, StageHeartbeat(t, e, at, now))
<1> DEFINE a == e.actor
           u == RefreshHealth(t, a, e.source, at)
           v == StateProjection(u, a, now)
<1>0. a \in Actors
  BY ReducerAssumption DEF EventRecord
<1>1. StageHeartbeat(t, e, at, now) = Heard(v, e)
  BY DEF StageHeartbeat
<1>2. Keeps(t, u)
  BY RefreshAside, AsideKeeps DEF Sound
<1> HIDE DEF u
<1>3. Keeps(u, v)
  BY <1>0, <1>2, ProjectionKeeps DEF Keeps
<1> HIDE DEF v
<1>4. Heard(v, e) \in {v, StaleBit(v, a, FALSE)}
  BY DEF Heard
<1>5. Keeps(v, Heard(v, e))
  <2> DEFINE b == FALSE
  <2>1. Heard(v, e) \in {v, StaleBit(v, a, b)}
    BY <1>4
  <2> HIDE DEF b, a
  <2>2. Keeps(v, StaleBit(v, a, b)) /\ Keeps(v, v)
    BY <1>0, <1>3, StaleBitKeeps DEF Keeps
  <2> QED BY <2>1, <2>2
<1> QED BY <1>1, <1>2, <1>3, <1>5, KeepsAgain

(* One actor that is due.                                                   *)
LEMMA SettleKeeps ==
  ASSUME NEW t, Sound(t), NEW a \in Actors, NEW now, NEW lanes
  PROVE  Keeps(t, Settle(t, a, now, lanes, PurgeHealth(t, a, lanes)))
<1> DEFINE u == PurgeHealth(t, a, lanes)
           v == StateProjection(u, a, now)
           silent == \E c \in ToSet(t.proofs[a]) : /\ c.source.authority = Native
                                                   /\ HealthKey(c.source) \in lanes
           suspect == silent \/ HealthMissing(u, a, now)
           dead == ~Terminal(v.nodes[a].state.value)
                     /\ UnheardOf(v.proofs[a], v.health[a], now)
<1>1. Settle(t, a, now, lanes, u) = MarkStale(v, a, now, suspect)
  BY DEF Settle
<1>2. Keeps(t, u)
  BY PurgeAside, AsideKeeps DEF Sound
<1> HIDE DEF u
<1>3. Keeps(u, v)
  BY <1>2, ProjectionKeeps DEF Keeps
<1>4. MarkStale(v, a, now, suspect) \in {v, StaleBit(v, a, dead)}
  BY DEF MarkStale
<1> HIDE DEF v, suspect, dead
<1>5. Keeps(v, MarkStale(v, a, now, suspect))
  BY <1>3, <1>4, StaleBitKeeps DEF Keeps
<1> QED BY <1>1, <1>2, <1>3, <1>5, KeepsAgain DEF u

-----------------------------------------------------------------------------
(* stageDueStateExpiry settles one actor after another. The fold is the     *)
(* value of a recursive function over the subsets of the actors that are    *)
(* due; that it has values is an argument about a smallest exception.       *)

(* What is done to one actor; t are the owners the fold started with.       *)
SettleOne(t, now, a, u) ==
  IF u.error # "" THEN u
  ELSE Settle(u, a, now, DueLanes(t, a, now), PurgeHealth(u, a, DueLanes(t, a, now)))

Settles(f, t, now, S) ==
  f = [s \in SUBSET S |-> IF s = {} THEN t
                          ELSE SettleOne(t, now, Chosen(s), f[s \ {Chosen(s)}])]

(* An actor that is due is settled soundly, at whatever point of the loop.  *)
LEMMA SettleOneKeeps ==
  ASSUME NEW t, NEW u, Sound(u), NEW a \in Actors, NEW now
  PROVE  Keeps(u, SettleOne(t, now, a, u))
<1> DEFINE lanes == DueLanes(t, a, now)
<1>1. SettleOne(t, now, a, u) \in {u, Settle(u, a, now, lanes, PurgeHealth(u, a, lanes))}
  BY DEF SettleOne
<1> HIDE DEF lanes
<1> QED BY <1>1, SettleKeeps DEF Keeps

(* The loop over a part of the actors is the same, whatever follows.        *)
LEMMA SettlesAgree ==
  ASSUME NEW t, NEW now, NEW S, NEW T, IsFiniteSet(T), T \subseteq S, NEW f, NEW g,
         Settles(f, t, now, S), Settles(g, t, now, T)
  PROVE  \A s \in SUBSET T : f[s] = g[s]
<1> DEFINE bad == {s \in SUBSET T : f[s] # g[s]}
<1>1. ASSUME bad # {} PROVE FALSE
  <2>0. bad \subseteq SUBSET T
    OBVIOUS
  <2>1. PICK least \in bad : \A b \in bad : b \subseteq least => b = least
    <3> HIDE DEF bad
    <3> QED BY <1>1, <2>0, SmallestException
  <2>2. least \in SUBSET T /\ f[least] # g[least]
    BY <2>1
  <2> DEFINE rest == least \ {Chosen(least)}
  <2>3. least # {}
    BY <2>2 DEF Settles
  <2>4. Chosen(least) \in least
    BY <2>3, PickMember
  <2>5. rest \in SUBSET T /\ rest \subseteq least /\ rest # least
    BY <2>2, <2>4
  <2>6. f[rest] = g[rest]
    BY <2>1, <2>5
  <2>7. f[least] = SettleOne(t, now, Chosen(least), f[rest])
    BY <2>2, <2>3 DEF Settles
  <2>8. g[least] = SettleOne(t, now, Chosen(least), g[rest])
    BY <2>2, <2>3 DEF Settles
  <2> QED BY <2>2, <2>6, <2>7, <2>8
<1> QED BY <1>1

(* There is such a loop.                                                    *)
LEMMA SettlesExist ==
  ASSUME NEW t, NEW now, NEW S, IsFiniteSet(S)
  PROVE  \E f : Settles(f, t, now, S)
<1> DEFINE bad == {T \in SUBSET S : ~ \E f : Settles(f, t, now, T)}
<1>1. ASSUME bad # {} PROVE FALSE
  <2>0. bad \subseteq SUBSET S
    OBVIOUS
  <2>1. PICK T \in bad : \A b \in bad : b \subseteq T => b = T
    <3> HIDE DEF bad
    <3> QED BY <1>1, <2>0, SmallestException
  <2> DEFINE F(s) == CHOOSE f : Settles(f, t, now, s)
             rest(s) == s \ {Chosen(s)}
             f == [s \in SUBSET T |->
                     IF s = {} THEN t ELSE SettleOne(t, now, Chosen(s), F(rest(s))[rest(s)])]
  <2>2. T \in SUBSET S /\ ~ \E h : Settles(h, t, now, T)
    BY <2>1
  <2>3. \A s \in SUBSET T : s # T => Settles(F(s), t, now, s)
    <3> SUFFICES ASSUME NEW s \in SUBSET T, s # T PROVE \E h : Settles(h, t, now, s)
      OBVIOUS
    <3>1. s \in SUBSET S /\ s \notin bad
      BY <2>1, <2>2
    <3> QED BY <3>1
  <2>4. \A s \in SUBSET T : s # {} => rest(s) \in SUBSET T /\ rest(s) # T
    BY PickMember
  <2>5. \A s \in SUBSET T : s # {} => f[rest(s)] = F(rest(s))[rest(s)]
    <3> SUFFICES ASSUME NEW s \in SUBSET T, s # {}
                 PROVE  f[rest(s)] = F(rest(s))[rest(s)]
      OBVIOUS
    <3> DEFINE u == rest(s)
    <3>1. u \in SUBSET T /\ u # T /\ Settles(F(u), t, now, u)
      BY <2>3, <2>4
    <3>2. CASE u = {}
      <4>1. f[u] = t
        BY <3>1, <3>2
      <4>2. F(u)[u] = t
        <5> HIDE DEF F, u
        <5> QED BY <3>1, <3>2 DEF Settles
      <4> QED BY <4>1, <4>2
    <3>3. CASE u # {}
      <4> DEFINE v == rest(u)
      <4>1. v \in SUBSET T /\ v # T /\ v \subseteq u /\ Settles(F(v), t, now, v)
        BY <2>3, <2>4, <3>1, <3>3
      <4>2. f[u] = SettleOne(t, now, Chosen(u), F(v)[v])
        BY <3>1, <3>3
      <4>3. F(u)[u] = SettleOne(t, now, Chosen(u), F(u)[v])
        <5> HIDE DEF F, u
        <5> QED BY <3>1, <3>3 DEF Settles
      <4>4. F(u)[v] = F(v)[v]
        <5>1. IsFiniteSet(v)
          BY <4>1, <2>2, FS_Subset
        <5> HIDE DEF F, u, v
        <5> QED BY <3>1, <4>1, <5>1, SettlesAgree
      <4> QED BY <4>2, <4>3, <4>4
    <3> QED BY <3>2, <3>3
  <2>6. Settles(f, t, now, T)
    <3>1. \A s \in SUBSET T :
            f[s] = IF s = {} THEN t ELSE SettleOne(t, now, Chosen(s), F(rest(s))[rest(s)])
      OBVIOUS
    <3>2. f = [s \in SUBSET T |-> f[s]]
      OBVIOUS
    <3>3. \A s \in SUBSET T : f[s] = IF s = {} THEN t ELSE SettleOne(t, now, Chosen(s), f[rest(s)])
      <4> HIDE DEF f, F, rest
      <4> QED BY <2>5, <3>1
    <3> HIDE DEF f
    <3> QED BY <3>2, <3>3 DEF Settles
  <2> HIDE DEF f
  <2> QED BY <2>2, <2>6
<1> QED BY <1>1

(* Whatever was settled, the owners are sound.                              *)
LEMMA SettlesKeep ==
  ASSUME NEW t, Sound(t), NEW now, NEW S, S \subseteq Actors, IsFiniteSet(S), NEW f,
         Settles(f, t, now, S)
  PROVE  Keeps(t, f[S])
<1> DEFINE bad == {s \in SUBSET S : ~Keeps(t, f[s])}
<1>1. ASSUME bad # {} PROVE FALSE
  <2>0. bad \subseteq SUBSET S
    OBVIOUS
  <2>1. PICK least \in bad : \A b \in bad : b \subseteq least => b = least
    <3> HIDE DEF bad
    <3> QED BY <1>1, <2>0, SmallestException
  <2>2. least \in SUBSET S /\ ~Keeps(t, f[least])
    BY <2>1
  <2>3. least # {}
    BY <2>2 DEF Settles, Keeps
  <2>4. Chosen(least) \in least
    BY <2>3, PickMember
  <2> DEFINE rest == least \ {Chosen(least)}
  <2>5. rest \in SUBSET S /\ rest \subseteq least /\ rest # least
    BY <2>2, <2>4
  <2>6. Keeps(t, f[rest])
    BY <2>1, <2>5
  <2>7. f[least] = SettleOne(t, now, Chosen(least), f[rest])
    BY <2>2, <2>3 DEF Settles
  <2> HIDE DEF rest
  <2>8. Keeps(f[rest], f[least])
    BY <2>2, <2>4, <2>6, <2>7, SettleOneKeeps DEF Keeps
  <2> QED BY <2>2, <2>6, <2>8, KeepsAgain
<1>2. S \notin bad
  BY <1>1
<1> QED BY <1>2

(* stageDueStateExpiry leaves the graph sound.                              *)
LEMMA DueKeeps ==
  ASSUME NEW t, Sound(t), NEW now
  PROVE  Keeps(t, DueStateExpiry(t, now))
<1> DEFINE S == {a \in Actors : \/ \E e \in ToSet(t.states[a]) : ~Current(e, now)
                                \/ DueLanes(t, a, now) # {} \/ HealthMissing(t, a, now)}
           f == CHOOSE h : Settles(h, t, now, S)
<1>1. S \subseteq Actors /\ IsFiniteSet(S)
  BY FS_Subset, ReducerAssumption
<1>2. DueStateExpiry(t, now) = f[S]
  <2> HIDE DEF S
  <2> QED BY DEF DueStateExpiry, FoldSet, MapThenFoldSet, Settles, SettleOne, Chosen, S
<1> HIDE DEF S
<1>3. Settles(f, t, now, S)
  BY <1>1, SettlesExist
<1> HIDE DEF f
<1> QED BY <1>1, <1>2, <1>3, SettlesKeep

-----------------------------------------------------------------------------
(* Gaps: what is partial is marked anew.                                    *)

(* stagePartialUpdates after the gaps changed marks everything anew.        *)
LEMMA PartialUpdatesKeeps ==
  ASSUME NEW t, Sound(t), NEW G
  PROVE  LET u == PartialUpdates([t EXCEPT !.gaps = G]) IN
         Keeps(t, u) /\ u.gaps = G
<1> DEFINE v == [t EXCEPT !.gaps = G]
           N == [a \in Actors |-> IF Present(t, a)
                 THEN [t.nodes[a] EXCEPT !.partial = NodePartial(t.nodes[a], G)] ELSE NoNode]
           E == [k \in EdgeKeys |-> IF Linked(t, k)
                 THEN [t.edges[k] EXCEPT !.partial = EdgePartial(k, t.edges[k], G)] ELSE NoEdge]
           u == [v EXCEPT !.nodes = N, !.edges = E]
<1>0. IsOwners(t)
  BY DEF Sound
<1>1. /\ IsOwners(v) /\ v.gaps = G /\ \A f \in OwnerFields \ {"gaps"} : v[f] = t[f]
  BY <1>0 DEF IsOwners, OwnerFields
<1>2. PartialUpdates(v) = u
  <2>1. v.nodes = t.nodes /\ v.edges = t.edges /\ v.gaps = G
    BY <1>1 DEF OwnerFields
  <2> HIDE DEF v
  <2> QED BY <2>1 DEF PartialUpdates, Present, Linked
<1>3. \A a \in Actors : Present(t, a) =>
        /\ IsNode(N[a]) /\ N[a].inc = t.nodes[a].inc /\ N[a].state = t.nodes[a].state
        /\ N[a].partial = NodePartial(N[a], G)
  <2> SUFFICES ASSUME NEW a \in Actors, Present(t, a)
               PROVE  /\ IsNode(N[a]) /\ N[a].inc = t.nodes[a].inc
                      /\ N[a].state = t.nodes[a].state /\ N[a].partial = NodePartial(N[a], G)
    OBVIOUS
  <2> DEFINE n == t.nodes[a]
             p == NodePartial(n, G)
             m == [n EXCEPT !.partial = p]
  <2>1. IsNode(n)
    BY <1>0, PresentIsNode
  <2>2. N[a] = m
    OBVIOUS
  <2> HIDE DEF N
  <2>3. /\ IsNode(m) /\ m.partial = p /\ m.inc = n.inc /\ m.state = n.state
        /\ m.identity = n.identity /\ m.metricSources = n.metricSources
        /\ m.stateSources = n.stateSources /\ m.terminalSources = n.terminalSources
    <3> HIDE DEF n, p
    <3> QED BY <2>1, MarkIs
  <2> HIDE DEF m
  <2>4. NodePartial(m, G) = p
    BY <2>3 DEF NodePartial
  <2> QED BY <2>2, <2>3, <2>4
<1>4. \A a \in Actors : ~Present(t, a) => N[a] = NoNode
  OBVIOUS
<1>5. \A k \in EdgeKeys : Linked(t, k) =>
        /\ IsEdge(E[k]) /\ E[k].source = t.edges[k].source /\ E[k].target = t.edges[k].target
        /\ E[k].ghost = t.edges[k].ghost /\ E[k].messages = t.edges[k].messages
        /\ E[k].partial = EdgePartial(k, E[k], G)
  <2> SUFFICES ASSUME NEW k \in EdgeKeys, Linked(t, k)
               PROVE  /\ IsEdge(E[k]) /\ E[k].source = t.edges[k].source
                      /\ E[k].target = t.edges[k].target /\ E[k].ghost = t.edges[k].ghost
                      /\ E[k].messages = t.edges[k].messages
                      /\ E[k].partial = EdgePartial(k, E[k], G)
    OBVIOUS
  <2> DEFINE n == t.edges[k]
             p == EdgePartial(k, n, G)
             m == [n EXCEPT !.partial = p]
  <2>1. IsEdge(n)
    BY <1>0, LinkedIsEdge
  <2>2. E[k] = m
    OBVIOUS
  <2> HIDE DEF E
  <2>3. /\ IsEdge(m) /\ m.partial = p /\ m.source = n.source /\ m.target = n.target
        /\ m.ghost = n.ghost /\ m.messages = n.messages /\ m.contributors = n.contributors
    <3> HIDE DEF n, p
    <3> QED BY <2>1 DEF IsEdge
  <2> HIDE DEF m
  <2>4. EdgePartial(k, m, G) = p
    BY <2>3 DEF EdgePartial
  <2> QED BY <2>2, <2>3, <2>4
<1>6. \A k \in EdgeKeys : ~Linked(t, k) => E[k] = NoEdge
  OBVIOUS
<1>7. N = [a \in Actors |-> N[a]] /\ E = [k \in EdgeKeys |-> E[k]]
  OBVIOUS
<1> HIDE DEF N, E, v
<1>8. /\ u.nodes = N /\ u.edges = E /\ u.gaps = G
      /\ u.current = t.current /\ u.retired = t.retired /\ u.expiry = t.expiry
      /\ u.fingerprints = t.fingerprints
  BY <1>1 DEF IsOwners, OwnerFields
<1>9. IsOwners(u)
  <2>1. \A a \in Actors : N[a] = NoNode \/ IsNode(N[a])
    BY <1>3, <1>4
  <2>2. \A k \in EdgeKeys : E[k] = NoEdge \/ IsEdge(E[k])
    BY <1>5, <1>6
  <2> QED BY <1>1, <1>7, <2>1, <2>2 DEF IsOwners, OwnerFields
<1> HIDE DEF u
<1>10. /\ \A a \in Actors : Present(u, a) <=> Present(t, a)
       /\ \A k \in EdgeKeys : Linked(u, k) <=> Linked(t, k)
  BY <1>3, <1>4, <1>5, <1>6, <1>8, NodeShows, EdgeShows DEF Present, Linked
<1>11. InPlace(u)
  BY <1>3, <1>8, <1>10 DEF Sound, InPlace
<1>12. Anchored(u)
  BY <1>3, <1>5, <1>8, <1>10, EndsAreActors DEF Sound, Anchored
<1>13. Ghosted(u)
  <2>1. \A k \in EdgeKeys : Linked(t, k) => Present(t, k.source) /\ Present(t, k.target)
    BY DEF Sound, Anchored
  <2> QED BY <1>3, <1>5, <1>8, <1>10, <2>1, EndsAreActors DEF Sound, Ghosted
<1>14. Marked(u)
  BY <1>3, <1>5, <1>8, <1>10 DEF Marked
<1>15. Indexed(u)
  BY <1>5, <1>8, <1>10 DEF Sound, Indexed
<1>16. Apart(u)
  BY <1>5, <1>8, <1>10 DEF Sound, Apart
<1>17. Acyclic(u)
  BY <1>10, FewerRanks DEF Sound, Ranks
<1> QED BY <1>2, <1>8, <1>9, <1>11, <1>12, <1>13, <1>14, <1>15, <1>16, <1>17
        DEF Keeps, Sound, v

(* GapObserved leaves the graph sound.                                      *)
LEMMA GapKeeps ==
  ASSUME NEW t, Sound(t), NEW e
  PROVE  Keeps(t, StageGap(t, e))
BY PartialUpdatesKeeps DEF StageGap

(* The row of an event that is refused leaves the graph sound.              *)
LEMMA DiagnosedKeeps ==
  ASSUME NEW t, Sound(t), NEW e, NEW refusal
  PROVE  Keeps(t, Diagnosed(t, e, refusal))
BY PartialUpdatesKeeps DEF Diagnosed

-----------------------------------------------------------------------------
(* Expiries.                                                                *)

(* stageGhostExpiry takes an actor with its edges and their messages.       *)
LEMMA GhostExpiryKeeps ==
  ASSUME NEW t, Sound(t), NEW now, NEW scope, scope \subseteq Actors
  PROVE  LET u == GhostExpiry(t, now, scope) IN
         /\ Keeps(t, u)
         /\ \A a \in Actors : u.nodes[a] = IF a \in scope /\ GhostOver(t.nodes[a], now)
                                           THEN NoNode ELSE t.nodes[a]
<1> DEFINE gone == {a \in scope : GhostOver(t.nodes[a], now)}
           cut == UNION {EdgesOf(t, a, t.nodes[a].inc) : a \in gone}
           N == [a \in Actors |-> IF a \in gone THEN NoNode ELSE t.nodes[a]]
           E == [k \in EdgeKeys |-> IF k \in cut THEN NoEdge ELSE t.edges[k]]
           X == {x \in t.expiry : x.edge \notin cut}
           u == GhostExpiry(t, now, scope)
<1>0. IsOwners(t)
  BY DEF Sound
<1>1. /\ \A a \in Actors : N[a] = IF a \in gone THEN NoNode ELSE t.nodes[a]
      /\ \A k \in EdgeKeys : E[k] = IF k \in cut THEN NoEdge ELSE t.edges[k]
      /\ N = [a \in Actors |-> N[a]] /\ E = [k \in EdgeKeys |-> E[k]]
  OBVIOUS
<1>2. /\ \A k \in cut : Linked(t, k) /\ (k.source \in gone \/ k.target \in gone)
      /\ \A k \in EdgeKeys : Linked(t, k) /\ (k.source \in gone \/ k.target \in gone) => k \in cut
  <2>1. ASSUME NEW k \in cut PROVE Linked(t, k) /\ (k.source \in gone \/ k.target \in gone)
    <3>1. PICK a \in gone : k \in EdgesOf(t, a, t.nodes[a].inc)
      OBVIOUS
    <3> QED BY <3>1 DEF EdgesOf
  <2>2. ASSUME NEW k \in EdgeKeys, Linked(t, k), NEW a \in gone, k.source = a \/ k.target = a
        PROVE  k \in EdgesOf(t, a, t.nodes[a].inc)
    BY <2>2 DEF EdgesOf, Sound, Anchored
  <2> QED BY <2>1, <2>2
<1>3. \A x \in t.expiry : x \in X <=> x.edge \notin cut
  OBVIOUS
<1>4. X \subseteq t.expiry /\ gone \subseteq Actors
  OBVIOUS
<1> HIDE DEF X
<1>5. /\ u.nodes = N /\ u.edges = E /\ u.expiry = X /\ u.gaps = t.gaps
      /\ u.current = t.current /\ u.retired = t.retired /\ u.fingerprints = t.fingerprints
      /\ DOMAIN u = OwnerFields /\ u = [f \in OwnerFields |-> u[f]]
  <2>0. t = [f \in OwnerFields |-> t[f]] /\ DOMAIN t = OwnerFields
    BY <1>0 DEF IsOwners
  <2>1. u.nodes = N /\ u.edges = E
    BY <2>0 DEF GhostExpiry, OwnerFields
  <2>2. u.expiry = X
    BY <2>0 DEF GhostExpiry, OwnerFields, X
  <2>3. /\ u.gaps = t.gaps /\ u.current = t.current /\ u.retired = t.retired
        /\ u.fingerprints = t.fingerprints
    BY <2>0 DEF GhostExpiry, OwnerFields
  <2>4. DOMAIN u = OwnerFields /\ u = [f \in OwnerFields |-> u[f]]
    BY <2>0 DEF GhostExpiry, OwnerFields
  <2> QED BY <2>1, <2>2, <2>3, <2>4
<1>6. \A a \in Actors : u.nodes[a] = IF a \in scope /\ GhostOver(t.nodes[a], now)
                                     THEN NoNode ELSE t.nodes[a]
  BY <1>1, <1>5
<1> HIDE DEF N, E, cut, gone, u
<1>7. IsOwners(u)
  BY <1>0, <1>1, <1>5 DEF IsOwners
<1>8. /\ \A a \in Actors : Present(u, a) <=> Present(t, a) /\ a \notin gone
      /\ \A a \in Actors : Present(u, a) => u.nodes[a] = t.nodes[a]
      /\ \A k \in EdgeKeys : Linked(u, k) <=> Linked(t, k) /\ k \notin cut
      /\ \A k \in EdgeKeys : Linked(u, k) => u.edges[k] = t.edges[k]
  BY <1>1, <1>5 DEF Present, Linked
<1>9. InPlace(u)
  BY <1>5, <1>8 DEF Sound, InPlace
<1>10. Anchored(u)
  BY <1>2, <1>8, EndsAreActors DEF Sound, Anchored
<1>11. Ghosted(u)
  BY <1>8, <1>10, EndsAreActors DEF Sound, Ghosted, Anchored
<1>12. Marked(u)
  BY <1>5, <1>8 DEF Sound, Marked
<1>13. Indexed(u)
  <2>1. ASSUME NEW x \in X
        PROVE  \E k \in EdgeKeys : Linked(u, k) /\ \E m \in u.edges[k].messages : x = Entry(m, k)
    <3>1. PICK k \in EdgeKeys : Linked(t, k) /\ \E m \in t.edges[k].messages : x = Entry(m, k)
      BY <1>4 DEF Sound, Indexed
    <3>2. x.edge = k
      BY <3>1 DEF Entry
    <3>3. Linked(u, k) /\ u.edges[k] = t.edges[k]
      BY <1>3, <1>4, <1>8, <3>1, <3>2
    <3> QED BY <3>1, <3>3
  <2>2. ASSUME NEW k \in EdgeKeys, Linked(u, k), NEW m \in u.edges[k].messages
        PROVE  Entry(m, k) \in X
    <3>1. Entry(m, k) \in t.expiry /\ k \notin cut
      BY <1>8, <2>2 DEF Sound, Indexed
    <3>2. Entry(m, k).edge = k
      BY DEF Entry
    <3> QED BY <1>3, <3>1, <3>2
  <2> QED BY <1>5, <2>1, <2>2 DEF Indexed
<1>14. Apart(u)
  BY <1>5, <1>8 DEF Sound, Apart
<1>15. Acyclic(u)
  BY <1>8, FewerRanks DEF Sound, Ranks
<1>16. Keeps(t, u)
  BY <1>5, <1>7, <1>9, <1>10, <1>11, <1>12, <1>13, <1>14, <1>15 DEF Keeps, Sound
<1> QED BY <1>6, <1>16 DEF u

(* An edge that lost some messages.                                         *)
LEMMA LessMessagesIs ==
  ASSUME NEW e, IsEdge(e), NEW M, NEW k, NEW G
  PROVE  LET r == [e EXCEPT !.messages = M]
             s == [r EXCEPT !.partial = EdgePartial(k, r, G)]
         IN /\ IsEdge(s) /\ s.source = e.source /\ s.target = e.target /\ s.ghost = e.ghost
            /\ s.messages = M /\ s.partial = EdgePartial(k, s, G) /\ r.messages = M
<1> DEFINE r == [e EXCEPT !.messages = M]
           p == EdgePartial(k, r, G)
           s == [r EXCEPT !.partial = p]
<1>1. /\ IsEdge(r) /\ r.source = e.source /\ r.target = e.target /\ r.ghost = e.ghost
      /\ r.messages = M
  BY DEF IsEdge
<1> HIDE DEF r, p
<1>2. /\ IsEdge(s) /\ s.source = r.source /\ s.target = r.target /\ s.ghost = r.ghost
      /\ s.messages = r.messages /\ s.contributors = r.contributors /\ s.partial = p
  BY <1>1 DEF IsEdge
<1> HIDE DEF s
<1>3. EdgePartial(k, s, G) = p
  BY <1>2 DEF EdgePartial, p
<1> QED BY <1>1, <1>2, <1>3 DEF s, r, p

(* stageMessageExpiry takes what the index says is over, from the edges and *)
(* from the index.                                                          *)
LEMMA MessageExpiryKeeps ==
  ASSUME NEW t, Sound(t), NEW now
  PROVE  LET u == MessageExpiry(t, now) IN Keeps(t, u) /\ u.nodes = t.nodes
<1> DEFINE due == {x \in t.expiry : now >= x.at}
           gone(k) == {m \in t.edges[k].messages : \E x \in due : x.edge = k /\ x.digest = m.digest}
           K == {k \in EdgeKeys : Linked(t, k) /\ gone(k) # {}}
           rest(k) == [t.edges[k] EXCEPT !.messages = @ \ gone(k)]
           kept(k) == [rest(k) EXCEPT !.partial = EdgePartial(k, rest(k), t.gaps)]
           E == [k \in EdgeKeys |-> IF k \notin K THEN t.edges[k]
                                    ELSE IF rest(k).messages = {} THEN NoEdge ELSE kept(k)]
           X == t.expiry \ due
           left(k) == t.edges[k].messages \ gone(k)
           u == MessageExpiry(t, now)
<1>0. IsOwners(t)
  BY DEF Sound
<1>1. /\ u.edges = E /\ u.expiry = X /\ u.nodes = t.nodes /\ u.gaps = t.gaps
      /\ u.current = t.current /\ u.retired = t.retired /\ u.fingerprints = t.fingerprints
      /\ DOMAIN u = OwnerFields /\ u = [f \in OwnerFields |-> u[f]]
  <2> DEFINE units == [k \in K |-> Cardinality(gone(k))]
             H == t.history - MapThenSumSet(LAMBDA k : units[k], K)
  <2>1. u = [t EXCEPT !.expiry = X, !.edges = E, !.history = H]
    BY DEF MessageExpiry
  <2> HIDE DEF H, X, E, u
  <2> QED BY <1>0, <2>1 DEF IsOwners, OwnerFields
<1>2. E = [k \in EdgeKeys |-> E[k]]
  OBVIOUS
<1>3. \A k \in EdgeKeys : Linked(t, k) =>
        \/ gone(k) = {} /\ E[k] = t.edges[k]
        \/ left(k) = {} /\ E[k] = NoEdge
        \/ /\ left(k) # {} /\ IsEdge(E[k])
           /\ E[k].source = t.edges[k].source /\ E[k].target = t.edges[k].target
           /\ E[k].ghost = t.edges[k].ghost /\ E[k].messages = left(k)
           /\ E[k].partial = EdgePartial(k, E[k], t.gaps)
  <2> SUFFICES ASSUME NEW k \in EdgeKeys, Linked(t, k), gone(k) # {}
               PROVE  \/ left(k) = {} /\ E[k] = NoEdge
                      \/ /\ left(k) # {} /\ IsEdge(E[k])
                         /\ E[k].source = t.edges[k].source /\ E[k].target = t.edges[k].target
                         /\ E[k].ghost = t.edges[k].ghost /\ E[k].messages = left(k)
                         /\ E[k].partial = EdgePartial(k, E[k], t.gaps)
    OBVIOUS
  <2> DEFINE e == t.edges[k]
             M == left(k)
             r == [e EXCEPT !.messages = M]
             s == [r EXCEPT !.partial = EdgePartial(k, r, t.gaps)]
  <2>1. IsEdge(e)
    BY <1>0, LinkedIsEdge
  <2>2. rest(k) = r /\ kept(k) = s
    OBVIOUS
  <2>3. E[k] = IF r.messages = {} THEN NoEdge ELSE s
    <3>1. k \in K
      OBVIOUS
    <3>2. E[k] = IF rest(k).messages = {} THEN NoEdge ELSE kept(k)
      <4> HIDE DEF K, gone
      <4> QED BY <3>1
    <3> HIDE DEF E, r, s, rest, kept
    <3> QED BY <2>2, <3>2
  <2> HIDE DEF M, e
  <2>4. /\ IsEdge(s) /\ s.source = e.source /\ s.target = e.target /\ s.ghost = e.ghost
        /\ s.messages = M /\ s.partial = EdgePartial(k, s, t.gaps) /\ r.messages = M
    BY <2>1, LessMessagesIs
  <2> HIDE DEF E, r, s, gone, left
  <2> QED BY <2>3, <2>4 DEF M, e
<1>4. \A k \in EdgeKeys : ~Linked(t, k) => E[k] = NoEdge
  BY DEF Linked
(* What is gone is what the index says is due.                              *)
<1>5. \A k \in EdgeKeys : Linked(t, k) =>
        \A m \in t.edges[k].messages : m \in left(k) <=> Entry(m, k) \in X
  <2> SUFFICES ASSUME NEW k \in EdgeKeys, Linked(t, k), NEW m \in t.edges[k].messages
               PROVE  m \in gone(k) <=> Entry(m, k) \in due
    <3>1. \A k \in EdgeKeys : Linked(t, k) => \A m \in t.edges[k].messages : Entry(m, k) \in t.expiry
      BY DEF Sound, Indexed
    <3> QED BY <3>1
  <2>1. Entry(m, k).edge = k /\ Entry(m, k).digest = m.digest
    BY DEF Entry
  <2>2. Entry(m, k) \in due => m \in gone(k)
    BY <2>1
  <2>3. ASSUME m \in gone(k) PROVE Entry(m, k) \in due
    <3>1. PICK x \in due : x.edge = k /\ x.digest = m.digest
      BY <2>3
    <3>2. PICK l \in EdgeKeys : Linked(t, l) /\ \E n \in t.edges[l].messages : x = Entry(n, l)
      BY <3>1 DEF Sound, Indexed
    <3>3. PICK n \in t.edges[l].messages : x = Entry(n, l)
      BY <3>2
    <3>4. l = k /\ n.digest = m.digest
      BY <3>1, <3>3 DEF Entry
    <3>5. n = m
      BY <3>3, <3>4 DEF Sound, Apart
    <3> QED BY <3>1, <3>3, <3>4, <3>5
  <2> QED BY <2>2, <2>3
<1>6. X \subseteq t.expiry /\ \A k : left(k) \subseteq t.edges[k].messages
  OBVIOUS
<1>7. \A k \in EdgeKeys : Linked(t, k) => (gone(k) = {} => left(k) = t.edges[k].messages)
  OBVIOUS
<1> HIDE DEF due, gone, K, rest, kept, E, X, left, u
<1>8. IsOwners(u)
  <2>1. \A k \in EdgeKeys : E[k] = NoEdge \/ IsEdge(E[k])
    BY <1>0, <1>3, <1>4 DEF IsOwners
  <2> QED BY <1>0, <1>1, <1>2, <2>1 DEF IsOwners
<1>9. \A k \in EdgeKeys :
        /\ Linked(u, k) => Linked(t, k)
        /\ Linked(t, k) /\ left(k) # {} => Linked(u, k)
        /\ Linked(u, k) =>
             /\ u.edges[k].source = t.edges[k].source /\ u.edges[k].target = t.edges[k].target
             /\ u.edges[k].ghost = t.edges[k].ghost /\ u.edges[k].messages = left(k)
             /\ u.edges[k].partial = EdgePartial(k, u.edges[k], t.gaps)
  <2> SUFFICES ASSUME NEW k \in EdgeKeys
               PROVE  /\ Linked(u, k) => Linked(t, k)
                      /\ Linked(t, k) /\ left(k) # {} => Linked(u, k)
                      /\ Linked(u, k) =>
                           /\ u.edges[k].source = t.edges[k].source
                           /\ u.edges[k].target = t.edges[k].target
                           /\ u.edges[k].ghost = t.edges[k].ghost
                           /\ u.edges[k].messages = left(k)
                           /\ u.edges[k].partial = EdgePartial(k, u.edges[k], t.gaps)
    OBVIOUS
  <2>1. CASE ~Linked(t, k)
    BY <1>1, <1>4, <2>1 DEF Linked
  <2>2. CASE Linked(t, k) /\ gone(k) = {} /\ E[k] = t.edges[k]
    <3>1. t.edges[k].partial = EdgePartial(k, t.edges[k], t.gaps)
      BY <2>2 DEF Sound, Marked
    <3> QED BY <1>1, <1>7, <2>2, <3>1 DEF Linked
  <2>3. CASE Linked(t, k) /\ left(k) = {} /\ E[k] = NoEdge
    BY <1>1, <2>3 DEF Linked
  <2>4. CASE /\ Linked(t, k) /\ left(k) # {} /\ IsEdge(E[k])
             /\ E[k].source = t.edges[k].source /\ E[k].target = t.edges[k].target
             /\ E[k].ghost = t.edges[k].ghost /\ E[k].messages = left(k)
             /\ E[k].partial = EdgePartial(k, E[k], t.gaps)
    BY <1>1, <2>4, EdgeShows DEF Linked
  <2> QED BY <1>3, <2>1, <2>2, <2>3, <2>4
<1>10. \A a : Present(u, a) <=> Present(t, a)
  BY <1>1 DEF Present
<1>11. InPlace(u) /\ Anchored(u)
  BY <1>1, <1>9, <1>10 DEF Sound, InPlace, Anchored
<1>12. Ghosted(u)
  BY <1>1, <1>9 DEF Sound, Ghosted
<1>13. Marked(u)
  BY <1>1, <1>9, <1>10 DEF Sound, Marked
<1>14. Indexed(u)
  <2>1. ASSUME NEW x \in X
        PROVE  \E k \in EdgeKeys : Linked(u, k) /\ \E m \in u.edges[k].messages : x = Entry(m, k)
    <3>1. PICK k \in EdgeKeys : Linked(t, k) /\ \E m \in t.edges[k].messages : x = Entry(m, k)
      BY <1>6 DEF Sound, Indexed
    <3>2. PICK m \in t.edges[k].messages : x = Entry(m, k)
      BY <3>1
    <3>3. m \in left(k)
      BY <1>5, <3>1, <3>2
    <3> QED BY <1>9, <3>1, <3>2, <3>3
  <2>2. ASSUME NEW k \in EdgeKeys, Linked(u, k), NEW m \in u.edges[k].messages
        PROVE  Entry(m, k) \in X
    BY <1>5, <1>6, <1>9, <2>2
  <2> QED BY <1>1, <2>1, <2>2 DEF Indexed
<1>15. Apart(u)
  <2> SUFFICES ASSUME NEW k \in EdgeKeys, Linked(u, k)
               PROVE  /\ k.type # "message" => u.edges[k].messages = {}
                      /\ \A m \in u.edges[k].messages :
                           /\ m.digest \in u.fingerprints
                           /\ \A n \in u.edges[k].messages : m.digest = n.digest => m = n
    BY DEF Apart
  <2>1. Linked(t, k) /\ u.edges[k].messages \subseteq t.edges[k].messages
    BY <1>6, <1>9
  <2> QED BY <1>1, <2>1 DEF Sound, Apart
<1>16. Acyclic(u)
  BY <1>9, FewerRanks DEF Sound, Ranks
<1>17. Keeps(t, u) /\ u.nodes = t.nodes
  BY <1>1, <1>8, <1>11, <1>12, <1>13, <1>14, <1>15, <1>16 DEF Keeps, Sound
<1> QED BY <1>17 DEF u

(* Advance leaves the graph sound.                                          *)
LEMMA AdvancedKeeps ==
  ASSUME NEW t, Sound(t), NEW now
  PROVE  Keeps(t, Advanced(t, now))
<1> DEFINE u == MessageExpiry(t, now)
           v == GhostExpiry(u, now, Actors)
<1>1. Advanced(t, now) = DueStateExpiry(v, now)
  BY DEF Advanced
<1>2. Keeps(t, u)
  BY MessageExpiryKeeps
<1> HIDE DEF u
<1>3. Keeps(u, v)
  BY <1>2, GhostExpiryKeeps DEF Keeps
<1> HIDE DEF v
<1>4. Keeps(v, DueStateExpiry(v, now))
  BY <1>3, DueKeeps DEF Keeps
<1> QED BY <1>1, <1>2, <1>3, <1>4, KeepsAgain

-----------------------------------------------------------------------------
(* Edges: one edge is new, or contributed to.                               *)

(* e is the edge of k in u.                                                 *)
Joined(t, u, k, e) ==
  /\ IsOwners(u) /\ IsEdge(e) /\ u.edges[k] = e
  /\ \A l \in EdgeKeys \ {k} : u.edges[l] = t.edges[l]
  /\ u.nodes = t.nodes /\ u.current = t.current /\ u.retired = t.retired /\ u.gaps = t.gaps
  /\ Present(t, k.source) /\ t.nodes[k.source].inc = e.source
  /\ Present(t, k.target) /\ t.nodes[k.target].inc = e.target
  /\ e.partial = EdgePartial(k, e, t.gaps)

(* What WithEdge changes.                                                   *)
LEMMA WithEdgeDoes ==
  ASSUME NEW t, IsOwners(t), NEW k \in EdgeKeys, NEW e, IsEdge(e)
  PROVE  LET u == WithEdge(t, k, e)
             f == [e EXCEPT !.partial = EdgePartial(k, e, t.gaps)]
         IN /\ IsOwners(u) /\ u.edges[k] = f
            /\ \A l \in EdgeKeys \ {k} : u.edges[l] = t.edges[l]
            /\ \A x \in OwnerFields \ {"edges"} : u[x] = t[x]
            /\ IsEdge(f) /\ f.source = e.source /\ f.target = e.target /\ f.ghost = e.ghost
            /\ f.messages = e.messages /\ f.contributors = e.contributors
            /\ f.partial = EdgePartial(k, f, t.gaps)
<1> DEFINE p == EdgePartial(k, e, t.gaps)
           f == [e EXCEPT !.partial = p]
           u == [t EXCEPT !.edges[k] = f]
<1>1. WithEdge(t, k, e) = u
  BY DEF WithEdge
<1> HIDE DEF p
<1>2. /\ IsEdge(f) /\ f.source = e.source /\ f.target = e.target /\ f.ghost = e.ghost
      /\ f.messages = e.messages /\ f.contributors = e.contributors /\ f.partial = p
  BY DEF IsEdge
<1> HIDE DEF f
<1>3. EdgePartial(k, f, t.gaps) = p
  BY <1>2 DEF EdgePartial, p
<1>4. /\ IsOwners(u) /\ u.edges[k] = f
      /\ \A l \in EdgeKeys \ {k} : u.edges[l] = t.edges[l]
      /\ \A x \in OwnerFields \ {"edges"} : u[x] = t[x]
  BY <1>2 DEF IsOwners, OwnerFields
<1> HIDE DEF u
<1> QED BY <1>1, <1>2, <1>3, <1>4 DEF f, p

(* What holds whatever kind of edge it is.                                  *)
LEMMA JoinedParts ==
  ASSUME NEW t, NEW u, Sound(t), NEW k \in EdgeKeys, NEW e, Joined(t, u, k, e)
  PROVE  /\ InPlace(u) /\ Anchored(u) /\ Marked(u)
         /\ Linked(u, k) /\ \A l \in EdgeKeys \ {k} : Linked(u, l) <=> Linked(t, l)
<1>1. Linked(u, k) /\ \A l \in EdgeKeys \ {k} : Linked(u, l) <=> Linked(t, l)
  BY EdgeShows DEF Joined, Linked
<1>2. \A a : Present(u, a) <=> Present(t, a)
  BY DEF Joined, Present
<1>3. InPlace(u)
  BY <1>2 DEF Joined, Sound, InPlace
<1>4. Anchored(u)
  <2> SUFFICES ASSUME NEW l \in EdgeKeys, Linked(u, l)
               PROVE  /\ Present(u, l.source) /\ u.nodes[l.source].inc = u.edges[l].source
                      /\ Present(u, l.target) /\ u.nodes[l.target].inc = u.edges[l].target
    BY DEF Anchored
  <2>1. CASE l = k
    BY <1>2, <2>1 DEF Joined
  <2>2. CASE l # k
    BY <1>1, <1>2, <2>2 DEF Joined, Sound, Anchored
  <2> QED BY <2>1, <2>2
<1>5. Marked(u)
  <2>1. \A a \in Actors : Present(u, a) => u.nodes[a].partial = NodePartial(u.nodes[a], u.gaps)
    BY <1>2 DEF Joined, Sound, Marked
  <2>2. \A l \in EdgeKeys : Linked(u, l) => u.edges[l].partial = EdgePartial(l, u.edges[l], u.gaps)
    <3> SUFFICES ASSUME NEW l \in EdgeKeys, Linked(u, l)
                 PROVE  u.edges[l].partial = EdgePartial(l, u.edges[l], u.gaps)
      OBVIOUS
    <3>1. CASE l = k
      BY <3>1 DEF Joined
    <3>2. CASE l # k
      BY <1>1, <3>2 DEF Joined, Sound, Marked
    <3> QED BY <3>1, <3>2
  <2> QED BY <2>1, <2>2 DEF Marked
<1> QED BY <1>1, <1>3, <1>4, <1>5

(* The edge an event contributes to.                                        *)
LEMMA EdgeOrNewIs ==
  ASSUME NEW t, Sound(t), NEW e \in Events, ~EndsRefused(t, e)
  PROVE  LET old == EdgeOrNew(t, e)
             k == e.edge
         IN /\ k \in EdgeKeys /\ IsEdge(old)
            /\ Present(t, k.source) /\ t.nodes[k.source].inc = old.source
            /\ Present(t, k.target) /\ t.nodes[k.target].inc = old.target
            /\ Linked(t, k) => old = t.edges[k]
            /\ ~Linked(t, k) => old.messages = {}
<1> DEFINE k == e.edge
<1>1. k \in EdgeKeys
  BY ReducerAssumption DEF EventRecord
<1>2. k.source \in Actors /\ k.target \in Actors
  BY <1>1, EndsAreActors
<1> HIDE DEF k
<1>3. /\ Present(t, k.source) /\ t.current[k.source].inc = e.inc
      /\ Present(t, k.target) /\ t.current[k.target].inc = e.tinc
  BY DEF EndsRefused, k
<1>4. t.nodes[k.source].inc = e.inc /\ t.nodes[k.target].inc = e.tinc
  BY <1>2, <1>3 DEF Sound, InPlace
<1>5. CASE Linked(t, k)
  <2>1. EdgeOrNew(t, e) = t.edges[k]
    BY <1>5 DEF EdgeOrNew, k
  <2>2. IsEdge(t.edges[k])
    BY <1>1, <1>5, LinkedIsEdge DEF Sound
  <2>3. t.nodes[k.source].inc = t.edges[k].source /\ t.nodes[k.target].inc = t.edges[k].target
    BY <1>1, <1>5 DEF Sound, Anchored
  <2> QED BY <1>1, <1>3, <1>5, <2>1, <2>2, <2>3 DEF k
<1>6. CASE ~Linked(t, k)
  <2>1. EdgeOrNew(t, e) = NewEdge(e)
    BY <1>6 DEF EdgeOrNew, k
  <2>2. /\ IsEdge(NewEdge(e)) /\ NewEdge(e).source = e.inc /\ NewEdge(e).target = e.tinc
        /\ NewEdge(e).messages = {}
    BY DEF NewEdge, IsEdge
  <2> QED BY <1>1, <1>3, <1>4, <1>6, <2>1, <2>2 DEF k
<1> QED BY <1>5, <1>6

(* Without a path from target to source, an edge from source to target      *)
(* closes no cycle.                                                         *)
LEMMA EdgeClosesNone ==
  ASSUME NEW t, NEW u, Acyclic(t), NEW k \in EdgeKeys,
         ~RankingCycle(t, k.source, k.target),
         \A l \in EdgeKeys \ {k} : Ranks(u, l) => Ranks(t, l)
  PROVE  Acyclic(u)
<1>1. PICK R \in SUBSET Actors :
        /\ k.target \in R /\ k.source \notin R
        /\ \A l \in EdgeKeys : Ranks(t, l) /\ l.source \in R => l.target \in R
  BY DEF RankingCycle
<1> SUFFICES ASSUME NEW S \in SUBSET Actors, S # {}
             PROVE  \E a \in S : \A l \in EdgeKeys : Ranks(u, l) /\ l.source = a => l.target \notin S
  BY DEF Acyclic
<1>2. CASE S \cap R # {}
  <2>1. PICK a \in S \cap R :
          \A l \in EdgeKeys : Ranks(t, l) /\ l.source = a => l.target \notin S \cap R
    <3>1. S \cap R \in SUBSET Actors
      OBVIOUS
    <3> QED BY <1>2, <3>1 DEF Acyclic
  <2>2. \A l \in EdgeKeys : Ranks(u, l) /\ l.source = a => l.target \notin S
    <3> SUFFICES ASSUME NEW l \in EdgeKeys, Ranks(u, l), l.source = a PROVE l.target \notin S
      OBVIOUS
    <3>1. l # k
      BY <1>1, <2>1
    <3>2. Ranks(t, l)
      BY <3>1
    <3> QED BY <1>1, <2>1, <3>2
  <2> QED BY <2>1, <2>2
<1>3. CASE S \cap R = {}
  <2>1. PICK a \in S : \A l \in EdgeKeys : Ranks(t, l) /\ l.source = a => l.target \notin S
    BY DEF Acyclic
  <2>2. \A l \in EdgeKeys : Ranks(u, l) /\ l.source = a => l.target \notin S
    BY <1>1, <1>3, <2>1
  <2> QED BY <2>2
<1> QED BY <1>2, <1>3

(* Another contributor leaves the ends and messages of an edge alone.       *)
LEMMA ContributorsIs ==
  ASSUME NEW e, IsEdge(e), NEW C
  PROVE  LET f == [e EXCEPT !.contributors = C] IN
         /\ IsEdge(f) /\ f.source = e.source /\ f.target = e.target /\ f.messages = e.messages
BY DEF IsEdge

(* Messages have edges of their own.                                        *)
LEMMA KindsOfEdges ==
  ASSUME NEW e \in Events
  PROVE  /\ e.kind = "message" => e.edge.type = "message"
         /\ e.kind = "relationship" => e.edge.type # "message"
BY ReducerAssumption

(* Another message leaves the ends of an edge alone.                        *)
LEMMA MessagesIs ==
  ASSUME NEW e, IsEdge(e), NEW M
  PROVE  LET r == [e EXCEPT !.messages = M] IN
         /\ IsEdge(r) /\ r.source = e.source /\ r.target = e.target /\ r.messages = M
BY DEF IsEdge

(* A relationship; one of an actor that has ended is a ghost at once.       *)
LEMMA RelationshipKeeps ==
  ASSUME NEW t, Sound(t), NEW e \in Events, e.kind = "relationship",
         RelationshipRefusal(t, e) = ""
  PROVE  Keeps(t, StageRelationship(t, e))
<1> DEFINE k == e.edge
           old == EdgeOrNew(t, e)
           ended == Terminal(t.nodes[k.source].state.value)
                      \/ Terminal(t.nodes[k.target].state.value)
           H == t.history + One(e.source \notin old.contributors)
           v == [t EXCEPT !.history = H]
           C == old.contributors \cup {e.source}
           new == [old EXCEPT !.contributors = C, !.ghost = ended]
           u == WithEdge(v, k, new)
           f == [new EXCEPT !.partial = EdgePartial(k, new, v.gaps)]
<1>1. StageRelationship(t, e) = u
  BY DEF StageRelationship
<1>2. /\ ~EndsRefused(t, e)
      /\ k.type = "spawn" => ~RankingCycle(t, k.source, k.target)
  BY DEF RelationshipRefusal
<1>3. /\ k \in EdgeKeys /\ IsEdge(old)
      /\ Present(t, k.source) /\ t.nodes[k.source].inc = old.source
      /\ Present(t, k.target) /\ t.nodes[k.target].inc = old.target
      /\ Linked(t, k) => old = t.edges[k]
      /\ ~Linked(t, k) => old.messages = {}
  <2> HIDE DEF k, old
  <2> QED BY <1>2, EdgeOrNewIs DEF k, old
<1>4. k.type # "message"
  BY KindsOfEdges
<1>5. old.messages = {}
  BY <1>3, <1>4 DEF Sound, Apart
<1>6. Aside(t, v)
  BY DEF Sound, Aside, SharedFields, IsOwners, OwnerFields
<1>7. Keeps(t, v)
  <2> HIDE DEF v
  <2> QED BY <1>6, AsideKeeps
<1>8. /\ v.nodes = t.nodes /\ v.edges = t.edges /\ v.current = t.current
      /\ v.retired = t.retired /\ v.gaps = t.gaps /\ v.expiry = t.expiry
      /\ v.fingerprints = t.fingerprints
  BY <1>6 DEF Aside, SharedFields
<1>9. /\ IsEdge(new) /\ new.source = old.source /\ new.target = old.target
      /\ new.messages = {} /\ new.ghost = ended
  <2>1. IsEdge(old)
    BY <1>3
  <2> HIDE DEF C, ended, old
  <2>0. PICK g : g = ended
    BY Zenon
  <2> DEFINE h == [old EXCEPT !.contributors = C]
             d == [h EXCEPT !.ghost = g]
  <2>3. new = d
    BY ONLY <2>0
  <2>4. /\ IsEdge(h) /\ h.source = old.source /\ h.target = old.target
        /\ h.messages = old.messages
    BY ONLY <2>1, ContributorsIs
  <2> HIDE DEF new, h
  <2>5. /\ IsEdge(d) /\ d.source = h.source /\ d.target = h.target
        /\ d.messages = h.messages /\ d.ghost = g
    BY ONLY <2>4, GhostedIs
  <2> HIDE DEF d
  <2>2. /\ IsEdge(new) /\ new.source = old.source /\ new.target = old.target
        /\ new.messages = old.messages /\ new.ghost = ended
    BY ONLY <2>0, <2>3, <2>4, <2>5
  <2> QED BY <1>5, <2>2
<1> HIDE DEF old, H, v, C, new, k
<1>10. /\ IsOwners(u) /\ u.edges[k] = f
       /\ \A l \in EdgeKeys \ {k} : u.edges[l] = v.edges[l]
       /\ \A x \in OwnerFields \ {"edges"} : u[x] = v[x]
       /\ IsEdge(f) /\ f.source = new.source /\ f.target = new.target /\ f.ghost = new.ghost
       /\ f.messages = new.messages /\ f.contributors = new.contributors
       /\ f.partial = EdgePartial(k, f, v.gaps)
  <2>1. k \in EdgeKeys /\ IsOwners(v) /\ IsEdge(new)
    BY <1>3, <1>9, <1>7 DEF Keeps, Sound
  <2> QED BY ONLY <2>1, WithEdgeDoes
<1> HIDE DEF u, f
<1>11. /\ u.nodes = t.nodes /\ u.current = t.current /\ u.retired = t.retired
       /\ u.gaps = t.gaps /\ u.expiry = t.expiry /\ u.fingerprints = t.fingerprints
  BY <1>8, <1>10 DEF OwnerFields
<1>12. Joined(v, u, k, f)
  BY <1>3, <1>8, <1>9, <1>10, <1>11 DEF Joined, Present
<1>13. /\ InPlace(u) /\ Anchored(u) /\ Marked(u)
       /\ Linked(u, k) /\ \A l \in EdgeKeys \ {k} : Linked(u, l) <=> Linked(v, l)
  BY <1>3, <1>7, <1>12, JoinedParts DEF Keeps
<1>14. \A l \in EdgeKeys \ {k} : (Linked(u, l) <=> Linked(t, l)) /\ u.edges[l] = t.edges[l]
  BY <1>8, <1>10, <1>13 DEF Linked
<1>15. Ghosted(u)
  <2> SUFFICES ASSUME NEW l \in EdgeKeys, Linked(u, l), l.type # "message", ~u.edges[l].ghost
               PROVE  /\ ~Terminal(u.nodes[l.source].state.value)
                      /\ ~Terminal(u.nodes[l.target].state.value)
    BY DEF Ghosted
  <2>1. CASE l = k
    <3>1. ~ended
      BY <1>9, <1>10, <2>1
    <3> QED BY <1>11, <2>1, <3>1
  <2>2. CASE l # k
    BY <1>11, <1>14, <2>2 DEF Sound, Ghosted
  <2> QED BY <2>1, <2>2
<1>16. Indexed(u)
  <2>1. ASSUME NEW x \in u.expiry
        PROVE  \E l \in EdgeKeys : Linked(u, l) /\ \E m \in u.edges[l].messages : x = Entry(m, l)
    <3>1. PICK l \in EdgeKeys : Linked(t, l) /\ \E m \in t.edges[l].messages : x = Entry(m, l)
      BY <1>11 DEF Sound, Indexed
    <3>2. l # k
      BY <1>4, <3>1 DEF Sound, Apart
    <3> QED BY <1>14, <3>1, <3>2
  <2>2. ASSUME NEW l \in EdgeKeys, Linked(u, l), NEW m \in u.edges[l].messages
        PROVE  Entry(m, l) \in u.expiry
    <3>1. l # k
      BY <1>9, <1>10, <2>2
    <3> QED BY <1>11, <1>14, <2>2, <3>1 DEF Sound, Indexed
  <2> QED BY <2>1, <2>2 DEF Indexed
<1>17. Apart(u)
  <2> SUFFICES ASSUME NEW l \in EdgeKeys, Linked(u, l)
               PROVE  /\ l.type # "message" => u.edges[l].messages = {}
                      /\ \A m \in u.edges[l].messages :
                           /\ m.digest \in u.fingerprints
                           /\ \A n \in u.edges[l].messages : m.digest = n.digest => m = n
    BY DEF Apart
  <2>1. CASE l = k
    BY <1>9, <1>10, <2>1
  <2>2. CASE l # k
    <3>1. Linked(t, l) /\ u.edges[l] = t.edges[l]
      BY <1>14, <2>2
    <3>2. u.fingerprints = t.fingerprints
      BY <1>11
    <3> QED BY <3>1, <3>2 DEF Sound, Apart
  <2> QED BY <2>1, <2>2
<1>18. Acyclic(u)
  <2>1. CASE k.type = "spawn"
    <3>1. \A l \in EdgeKeys \ {k} : Ranks(u, l) => Ranks(t, l)
      BY <1>14 DEF Ranks
    <3>2. ~RankingCycle(t, k.source, k.target)
      BY <1>2, <2>1 DEF k
    <3> QED BY <1>3, <3>1, <3>2, EdgeClosesNone DEF Sound
  <2>2. CASE k.type # "spawn"
    <3>1. \A l \in EdgeKeys : Ranks(u, l) => Ranks(t, l)
      BY <1>14, <2>2 DEF Ranks
    <3> QED BY <3>1, FewerRanks DEF Sound
  <2> QED BY <2>1, <2>2
<1> QED BY <1>1, <1>10, <1>11, <1>13, <1>15, <1>16, <1>17, <1>18 DEF Keeps, Sound

(* A message.                                                               *)
LEMMA MessageKeeps ==
  ASSUME NEW t, Sound(t), NEW e \in Events, NEW at, e.kind = "message",
         MessageRefusal(t, e) = "", e.digest \notin t.fingerprints
  PROVE  Keeps(t, StageMessage(t, e, at))
<1> DEFINE k == e.edge
           old == EdgeOrNew(t, e)
           message == [digest |-> e.digest, source |-> e.source, at |-> at]
           X == t.expiry \cup {[at |-> at + MessageWindow, digest |-> e.digest, edge |-> k]}
           D == t.fingerprints \cup {e.digest}
           H == t.history + 1
           M == old.messages \cup {message}
           v == [t EXCEPT !.history = H, !.fingerprints = D, !.expiry = X]
           new == [old EXCEPT !.messages = M]
           u == WithEdge(v, k, new)
           f == [new EXCEPT !.partial = EdgePartial(k, new, v.gaps)]
<1>1. StageMessage(t, e, at) = u
  BY DEF StageMessage
<1>2. ~EndsRefused(t, e)
  BY DEF MessageRefusal
<1>3. /\ k \in EdgeKeys /\ IsEdge(old)
      /\ Present(t, k.source) /\ t.nodes[k.source].inc = old.source
      /\ Present(t, k.target) /\ t.nodes[k.target].inc = old.target
      /\ Linked(t, k) => old = t.edges[k]
      /\ ~Linked(t, k) => old.messages = {}
  <2> HIDE DEF k, old
  <2> QED BY <1>2, EdgeOrNewIs DEF k, old
<1>4. k.type = "message"
  BY KindsOfEdges
<1>5. Entry(message, k) = [at |-> at + MessageWindow, digest |-> e.digest, edge |-> k]
      /\ message.digest = e.digest
  BY DEF Entry
<1>6. X = t.expiry \cup {Entry(message, k)}
  BY <1>5
<1>7. \A m \in old.messages : m.digest \in t.fingerprints
  BY <1>3 DEF Sound, Apart
<1> HIDE DEF X, D, H, M, message, k, old, new
<1>8. /\ v.nodes = t.nodes /\ v.edges = t.edges /\ v.current = t.current
      /\ v.retired = t.retired /\ v.gaps = t.gaps /\ v.expiry = X
      /\ v.fingerprints = D /\ IsOwners(v)
  BY DEF Sound, IsOwners, OwnerFields
<1>9. /\ IsEdge(new) /\ new.source = old.source /\ new.target = old.target
      /\ new.messages = M
  <2>1. IsEdge(old)
    BY <1>3
  <2> QED BY ONLY <2>1, MessagesIs DEF new
<1> HIDE DEF v
<1>10. /\ IsOwners(u) /\ u.edges[k] = f
       /\ \A l \in EdgeKeys \ {k} : u.edges[l] = v.edges[l]
       /\ \A x \in OwnerFields \ {"edges"} : u[x] = v[x]
       /\ IsEdge(f) /\ f.source = new.source /\ f.target = new.target /\ f.ghost = new.ghost
       /\ f.messages = new.messages /\ f.contributors = new.contributors
       /\ f.partial = EdgePartial(k, f, v.gaps)
  <2>1. k \in EdgeKeys /\ IsOwners(v) /\ IsEdge(new)
    BY <1>3, <1>9, <1>8
  <2> QED BY ONLY <2>1, WithEdgeDoes
<1> HIDE DEF u, f
<1>11. /\ u.nodes = t.nodes /\ u.current = t.current /\ u.retired = t.retired
       /\ u.gaps = t.gaps /\ u.expiry = X /\ u.fingerprints = D
  BY <1>8, <1>10 DEF OwnerFields
<1>12. Joined(t, u, k, f)
  BY <1>3, <1>8, <1>9, <1>10, <1>11 DEF Joined
<1>13. /\ InPlace(u) /\ Anchored(u) /\ Marked(u)
       /\ Linked(u, k) /\ \A l \in EdgeKeys \ {k} : Linked(u, l) <=> Linked(t, l)
  BY <1>3, <1>12, JoinedParts
<1>14. u.edges[k].messages = M /\ \A l \in EdgeKeys \ {k} : u.edges[l] = t.edges[l]
  BY <1>8, <1>9, <1>10
<1>15. Ghosted(u)
  <2> SUFFICES ASSUME NEW l \in EdgeKeys, Linked(u, l), l.type # "message", ~u.edges[l].ghost
               PROVE  /\ ~Terminal(u.nodes[l.source].state.value)
                      /\ ~Terminal(u.nodes[l.target].state.value)
    BY DEF Ghosted
  <2>1. l # k
    BY <1>4
  <2> QED BY <1>11, <1>13, <1>14, <2>1 DEF Sound, Ghosted
<1>16. Indexed(u)
  <2>1. ASSUME NEW x \in u.expiry
        PROVE  \E l \in EdgeKeys : Linked(u, l) /\ \E m \in u.edges[l].messages : x = Entry(m, l)
    <3>1. CASE x = Entry(message, k)
      BY <1>3, <1>13, <1>14, <3>1 DEF M
    <3>2. CASE x \in t.expiry
      <4>1. PICK l \in EdgeKeys : Linked(t, l) /\ \E m \in t.edges[l].messages : x = Entry(m, l)
        BY <3>2 DEF Sound, Indexed
      <4>2. CASE l = k
        BY <1>3, <1>13, <1>14, <4>1, <4>2 DEF M
      <4>3. CASE l # k
        BY <1>13, <1>14, <4>1, <4>3
      <4> QED BY <4>2, <4>3
    <3> QED BY <1>6, <1>11, <3>1, <3>2
  <2>2. ASSUME NEW l \in EdgeKeys, Linked(u, l), NEW m \in u.edges[l].messages
        PROVE  Entry(m, l) \in u.expiry
    <3>1. CASE l # k
      BY <1>6, <1>11, <1>13, <1>14, <2>2, <3>1 DEF Sound, Indexed
    <3>2. CASE l = k /\ m = message
      BY <1>6, <1>11, <3>2
    <3>3. CASE l = k /\ m \in old.messages
      <4>1. Linked(t, k) /\ m \in t.edges[k].messages
        BY <1>3, <3>3
      <4> QED BY <1>3, <1>6, <1>11, <3>3, <4>1 DEF Sound, Indexed
    <3> QED BY <1>14, <2>2, <3>1, <3>2, <3>3 DEF M
  <2> QED BY <2>1, <2>2 DEF Indexed
<1>17. Apart(u)
  <2> SUFFICES ASSUME NEW l \in EdgeKeys, Linked(u, l)
               PROVE  /\ l.type # "message" => u.edges[l].messages = {}
                      /\ \A m \in u.edges[l].messages :
                           /\ m.digest \in u.fingerprints
                           /\ \A n \in u.edges[l].messages : m.digest = n.digest => m = n
    BY DEF Apart
  <2>1. CASE l = k
    <3>1. \A m \in old.messages : m.digest # message.digest
      BY <1>5, <1>7
    <3>2. \A m, n \in old.messages : m.digest = n.digest => m = n
      BY <1>3 DEF Sound, Apart
    <3>3. \A m \in M : m.digest \in D
      BY <1>5, <1>7 DEF M, D
    <3>4. \A m, n \in M : m.digest = n.digest => m = n
      BY <3>1, <3>2 DEF M
    <3> QED BY <1>4, <1>11, <1>14, <2>1, <3>3, <3>4
  <2>2. CASE l # k
    BY <1>11, <1>13, <1>14, <2>2 DEF Sound, Apart, D
  <2> QED BY <2>1, <2>2
<1>18. Acyclic(u)
  <2>1. \A l \in EdgeKeys : Ranks(u, l) => Ranks(t, l)
    BY <1>4, <1>13 DEF Ranks
  <2> QED BY <2>1, FewerRanks DEF Sound
<1> QED BY <1>1, <1>10, <1>11, <1>13, <1>15, <1>16, <1>17, <1>18 DEF Keeps, Sound

-----------------------------------------------------------------------------
(* NodeObserved.                                                            *)

AgainNode(t, e) == ObservedNode(t, e, FALSE)
SuccessorNode(t, e) == ObservedNode(t, e, TRUE)

(* The node of an incarnation observed again, or of an actor not shown.     *)
LEMMA ObservedAgainIs ==
  ASSUME NEW t, NEW e \in Events, NEW before, before = t.nodes[e.actor],
         before = NoNode \/ IsNode(before)
  PROVE  LET n == AgainNode(t, e) IN
         /\ IsNode(n)
         /\ before = NoNode => n.inc = e.inc /\ n.state = NoState
         /\ before # NoNode => n.inc = before.inc /\ n.state = before.state
<1> DEFINE fold == FoldNode(t.proofs[e.actor])
           base == IF before = NoNode THEN FreshNode(e.inc) ELSE before
           x == fold.name
           y == fold.startedAt
           z == fold.startTicks
           i == fold.identity
           b == base.stale /\ e.source.authority = Native
           p == [base EXCEPT !.name = x]
           q == [p EXCEPT !.startedAt = y]
           r == [q EXCEPT !.startTicks = z]
           s == [r EXCEPT !.identity = i]
           n == [s EXCEPT !.stale = b]
<1>1. AgainNode(t, e) = n
  BY DEF AgainNode, ObservedNode
<1>2. e.inc \in Incs
  BY ReducerAssumption DEF EventRecord
<1>3. IsNode(base)
  BY <1>2, FreshIs
<1>4. /\ before = NoNode => base.inc = e.inc /\ base.state = NoState
      /\ before # NoNode => base.inc = before.inc /\ base.state = before.state
  BY <1>2, FreshIs
<1> HIDE DEF base, x, y, z, i, b
<1>5. IsNode(n) /\ n.inc = base.inc /\ n.state = base.state
  <2>1. IsNode(p) /\ p.inc = base.inc /\ p.state = base.state
    BY <1>3, SetField DEF NodeFields
  <2> HIDE DEF p
  <2>2. IsNode(q) /\ q.inc = p.inc /\ q.state = p.state
    BY <2>1, SetField DEF NodeFields
  <2> HIDE DEF q
  <2>3. IsNode(r) /\ r.inc = q.inc /\ r.state = q.state
    BY <2>2, SetField DEF NodeFields
  <2> HIDE DEF r
  <2>4. IsNode(s) /\ s.inc = r.inc /\ s.state = r.state
    BY <2>3, SetField DEF NodeFields
  <2> HIDE DEF s
  <2>5. IsNode(n) /\ n.inc = s.inc /\ n.state = s.state
    BY <2>4, SetField DEF NodeFields
  <2> HIDE DEF n
  <2> QED BY <2>1, <2>2, <2>3, <2>4, <2>5
<1> HIDE DEF n
<1> QED BY <1>1, <1>4, <1>5

(* The node of an incarnation that succeeds another.                        *)
LEMMA ObservedSuccessorIs ==
  ASSUME NEW t, NEW e \in Events, NEW before, before = t.nodes[e.actor],
         before = NoNode \/ IsNode(before)
  PROVE  LET n == SuccessorNode(t, e) IN
         IsNode(n) /\ n.inc = e.inc /\ n.state = NoState
<1> DEFINE fold == FoldNode(t.proofs[e.actor])
           fresh == FreshNode(e.inc)
           usage == before.usage
           sources == before.metricSources
           kept == [fresh EXCEPT !.usage = usage]
           resumed == [kept EXCEPT !.metricSources = sources]
           base == IF before = NoNode THEN fresh ELSE resumed
           x == fold.name
           y == fold.startedAt
           z == fold.startTicks
           i == fold.identity
           b == base.stale /\ e.source.authority = Native
           p == [base EXCEPT !.name = x]
           q == [p EXCEPT !.startedAt = y]
           r == [q EXCEPT !.startTicks = z]
           s == [r EXCEPT !.identity = i]
           n == [s EXCEPT !.stale = b]
<1>1. SuccessorNode(t, e) = n
  BY DEF SuccessorNode, ObservedNode
<1>2. e.inc \in Incs
  BY ReducerAssumption DEF EventRecord
<1>3. IsNode(fresh) /\ fresh.inc = e.inc /\ fresh.state = NoState
  BY <1>2, FreshIs
<1> HIDE DEF fresh, usage, sources, x, y, z, i, b
<1>4. IsNode(kept) /\ kept.inc = fresh.inc /\ kept.state = fresh.state
  BY <1>3, SetField DEF NodeFields
<1> HIDE DEF kept
<1>5. IsNode(resumed) /\ resumed.inc = kept.inc /\ resumed.state = kept.state
  BY <1>4, SetField DEF NodeFields
<1> HIDE DEF resumed
<1>6. IsNode(base) /\ base.inc = e.inc /\ base.state = NoState
  BY <1>3, <1>4, <1>5
<1> HIDE DEF base
<1>7. IsNode(n) /\ n.inc = base.inc /\ n.state = base.state
  <2>1. IsNode(p) /\ p.inc = base.inc /\ p.state = base.state
    BY <1>6, SetField DEF NodeFields
  <2> HIDE DEF p
  <2>2. IsNode(q) /\ q.inc = p.inc /\ q.state = p.state
    BY <2>1, SetField DEF NodeFields
  <2> HIDE DEF q
  <2>3. IsNode(r) /\ r.inc = q.inc /\ r.state = q.state
    BY <2>2, SetField DEF NodeFields
  <2> HIDE DEF r
  <2>4. IsNode(s) /\ s.inc = r.inc /\ s.state = r.state
    BY <2>3, SetField DEF NodeFields
  <2> HIDE DEF s
  <2>5. IsNode(n) /\ n.inc = s.inc /\ n.state = s.state
    BY <2>4, SetField DEF NodeFields
  <2> HIDE DEF n
  <2> QED BY <2>1, <2>2, <2>3, <2>4, <2>5
<1> HIDE DEF n
<1> QED BY <1>1, <1>6, <1>7

(* The sound parts about edges alone, when edges and what they need stay.   *)
LEMMA SameEdges ==
  ASSUME NEW t, NEW u, Sound(t), u.edges = t.edges, u.expiry = t.expiry,
         u.fingerprints = t.fingerprints
  PROVE  Indexed(u) /\ Apart(u) /\ Acyclic(u)
<1>1. \A k : (Linked(u, k) <=> Linked(t, k)) /\ (Ranks(u, k) <=> Ranks(t, k))
  BY DEF Linked, Ranks
<1>2. Indexed(u) /\ Apart(u)
  BY <1>1 DEF Sound, Indexed, Apart
<1>3. Acyclic(u)
  BY <1>1, FewerRanks DEF Sound
<1> QED BY <1>2, <1>3

(* What is left of the owners t by an event e about an actor that keeps its *)
(* incarnation or had none, and by one that gives it another.               *)
Again(t, u, e) ==
  /\ Sound(u) /\ u.retired = t.retired
  /\ u.current[e.actor].inc = e.inc
  /\ \A a \in Actors \ {e.actor} : u.current[a] = t.current[a]
Succeeded(t, u, e) ==
  /\ Sound(u)
  /\ u.retired = t.retired \cup {<<e.actor, t.current[e.actor].inc>>}
  /\ <<e.actor, e.inc>> \notin t.retired
  /\ u.current[e.actor].inc = e.inc
  /\ \A a \in Actors \ {e.actor} : u.current[a] = t.current[a]

(* An incarnation observed again, or an actor observed first.               *)
LEMMA NodeAgainSound ==
  ASSUME NEW t, Sound(t), NEW e \in Events, NEW at, NodeRefusal(t, e) = "", ~Switches(t, e)
  PROVE  Again(t, StageNode(t, e, at), e)
<1> DEFINE a == e.actor
           old == t.nodes[a]
           Q == AcceptOwn(t.proofs[a], NodeContribution(t.proofs[a], e, at))
           c == IF Knows(t, e) THEN t.current[a] ELSE Proof(e)
           H == t.history + One(~HoldsOwn(t.proofs[a], e))
           v == [t EXCEPT !.current[a] = c, !.proofs[a] = Q, !.history = H]
           n == AgainNode(v, e)
           m == [n EXCEPT !.partial = NodePartial(n, v.gaps)]
           u == WithNode(v, a, n)
<1>0. a \in Actors /\ e.inc \in Incs /\ e.inc # 0
  BY ReducerAssumption DEF EventRecord
<1>1. StageNode(t, e, at) = u
  BY DEF StageNode, ShowObserved, WithProof, AgainNode
<1>2. c.inc = e.inc
  BY DEF Knows, Proof
<1>3. Present(t, a) <=> t.current[a].inc = e.inc
  <2>1. Knows(t, e) => Present(t, a)
    BY DEF NodeRefusal
  <2>2. Present(t, a) => t.current[a].inc # 0
    BY <1>0, PresentByInc DEF Sound, InPlace
  <2> QED BY <2>1, <2>2 DEF Switches, Unseen, Knows
<1>4. old = NoNode \/ IsNode(old)
  BY <1>0 DEF Sound, IsOwners
<1>5. Present(t, a) => old.inc = e.inc
  BY <1>0, <1>3 DEF Sound, InPlace
<1> HIDE DEF Q, c, H
<1>6. /\ IsOwners(v) /\ v.nodes = t.nodes /\ v.edges = t.edges /\ v.retired = t.retired
      /\ v.gaps = t.gaps /\ v.expiry = t.expiry /\ v.fingerprints = t.fingerprints
      /\ v.current[a] = c /\ \A b \in Actors \ {a} : v.current[b] = t.current[b]
  BY <1>0 DEF Sound, IsOwners, OwnerFields
<1> HIDE DEF v
<1>7. IsNode(n) /\ n.inc = e.inc /\ (Present(t, a) => n.state = old.state)
  <2>1. old = v.nodes[e.actor]
    BY <1>6
  <2> HIDE DEF old, a
  <2>2. /\ IsNode(n)
        /\ old = NoNode => n.inc = e.inc /\ n.state = NoState
        /\ old # NoNode => n.inc = old.inc /\ n.state = old.state
    <3>1. e \in Events
      OBVIOUS
    <3>2. \A before : before = v.nodes[e.actor] /\ (before = NoNode \/ IsNode(before)) =>
            /\ IsNode(AgainNode(v, e))
            /\ before = NoNode => AgainNode(v, e).inc = e.inc /\ AgainNode(v, e).state = NoState
            /\ before # NoNode => /\ AgainNode(v, e).inc = before.inc
                                  /\ AgainNode(v, e).state = before.state
      BY ONLY <3>1, ObservedAgainIs
    <3> QED BY <1>4, <2>1, <3>2
  <2>3. Present(t, a) <=> old # NoNode
    BY DEF Present, old
  <2> QED BY <1>5, <2>2, <2>3
<1> HIDE DEF n
<1>8. /\ IsNode(m) /\ m.inc = n.inc /\ m.state = n.state /\ m.partial = NodePartial(m, v.gaps)
  <2>1. IsNode(n)
    BY <1>7
  <2> QED BY ONLY <2>1, MarkedIs
<1>9. /\ IsOwners(u) /\ u.nodes[a] = m
      /\ \A b \in Actors \ {a} : u.nodes[b] = v.nodes[b]
      /\ \A f \in OwnerFields \ {"nodes"} : u[f] = v[f]
  <2>1. a \in Actors /\ IsOwners(v) /\ IsNode(n)
    BY <1>0, <1>6, <1>7
  <2> HIDE DEF a
  <2> QED BY ONLY <2>1, WithNodeDoes
<1> HIDE DEF m, u
<1>10. /\ u.edges = t.edges /\ u.retired = t.retired /\ u.gaps = t.gaps
       /\ u.expiry = t.expiry /\ u.fingerprints = t.fingerprints
       /\ u.current[a] = c /\ \A b \in Actors \ {a} : u.current[b] = t.current[b]
  BY <1>6, <1>9 DEF OwnerFields
<1>11. /\ Present(u, a) /\ u.nodes[a] = m /\ m.inc = e.inc
       /\ \A b \in Actors \ {a} : u.nodes[b] = t.nodes[b] /\ (Present(u, b) <=> Present(t, b))
  BY <1>6, <1>7, <1>8, <1>9, NodeShows DEF Present
<1>12. \A k : Linked(u, k) <=> Linked(t, k)
  BY <1>10 DEF Linked
<1>13. InPlace(u)
  <2> SUFFICES ASSUME NEW b \in Actors, Present(u, b) PROVE u.nodes[b].inc = u.current[b].inc
    BY DEF InPlace
  <2>1. CASE b = a
    BY <1>2, <1>10, <1>11, <2>1
  <2>2. CASE b # a
    BY <1>10, <1>11, <2>2 DEF Sound, InPlace
  <2> QED BY <2>1, <2>2
<1>14. \A b \in Actors : Present(t, b) => Present(u, b) /\ u.nodes[b].inc = t.nodes[b].inc
                                          /\ u.nodes[b].state = t.nodes[b].state
  <2> SUFFICES ASSUME NEW b \in Actors, Present(t, b)
               PROVE  /\ Present(u, b) /\ u.nodes[b].inc = t.nodes[b].inc
                      /\ u.nodes[b].state = t.nodes[b].state
    OBVIOUS
  <2>1. CASE b = a
    BY <1>5, <1>7, <1>8, <1>11, <2>1
  <2>2. CASE b # a
    BY <1>11, <2>2
  <2> QED BY <2>1, <2>2
<1>15. Anchored(u)
  BY <1>10, <1>12, <1>14, EndsAreActors DEF Sound, Anchored
<1>16. Ghosted(u)
  BY <1>10, <1>12, <1>14, EndsAreActors DEF Sound, Ghosted, Anchored
<1>17. Marked(u)
  <2>1. \A b \in Actors : Present(u, b) => u.nodes[b].partial = NodePartial(u.nodes[b], u.gaps)
    <3> SUFFICES ASSUME NEW b \in Actors, Present(u, b)
                 PROVE  u.nodes[b].partial = NodePartial(u.nodes[b], u.gaps)
      OBVIOUS
    <3>1. CASE b = a
      BY <1>6, <1>8, <1>10, <1>11, <3>1
    <3>2. CASE b # a
      BY <1>10, <1>11, <3>2 DEF Sound, Marked
    <3> QED BY <3>1, <3>2
  <2>2. \A k \in EdgeKeys : Linked(u, k) => u.edges[k].partial = EdgePartial(k, u.edges[k], u.gaps)
    BY <1>10, <1>12 DEF Sound, Marked
  <2> QED BY <2>1, <2>2 DEF Marked
<1>18. Indexed(u) /\ Apart(u) /\ Acyclic(u)
  BY <1>10, SameEdges
<1>19. Sound(u)
  BY <1>9, <1>13, <1>15, <1>16, <1>17, <1>18 DEF Sound
<1> HIDE DEF c
<1>20. Again(t, u, e)
  BY <1>1, <1>2, <1>10, <1>19 DEF Again
<1> QED BY <1>1, <1>20

(* Carrying an edge over to a new incarnation of its source changes no more.*)
LEMMA SourceIs ==
  ASSUME NEW e, IsEdge(e), NEW x
  PROVE  LET f == [e EXCEPT !.source = x] IN
         /\ IsEdge(f) /\ f.source = x /\ f.target = e.target /\ f.ghost = e.ghost
         /\ f.partial = e.partial /\ f.contributors = e.contributors /\ f.messages = e.messages
BY DEF IsEdge

(* Nor does carrying it over to a new incarnation of its target.            *)
LEMMA TargetIs ==
  ASSUME NEW e, IsEdge(e), NEW x
  PROVE  LET f == [e EXCEPT !.target = x] IN
         /\ IsEdge(f) /\ f.source = e.source /\ f.target = x /\ f.ghost = e.ghost
         /\ f.partial = e.partial /\ f.contributors = e.contributors /\ f.messages = e.messages
BY DEF IsEdge

(* stageResumeEdges on owners whose edges are those of sound owners in      *)
(* which old was the incarnation of a: its relationships go, its messages   *)
(* are carried over.                                                        *)
Resumed(t, w, u, a, new) ==
  LET At(k) == k.source = a \/ k.target = a
  IN /\ IsOwners(u)
     /\ \A f \in OwnerFields \ {"edges", "history"} : u[f] = w[f]
     /\ \A k \in EdgeKeys : ~At(k) => u.edges[k] = t.edges[k]
     /\ \A k \in EdgeKeys : At(k) => (Linked(u, k) <=> Linked(t, k) /\ k.type = "message")
     /\ \A k \in EdgeKeys : At(k) /\ Linked(u, k) =>
          /\ u.edges[k].source = IF k.source = a THEN new ELSE t.edges[k].source
          /\ u.edges[k].target = IF k.target = a THEN new ELSE t.edges[k].target
          /\ u.edges[k].ghost = t.edges[k].ghost
          /\ u.edges[k].partial = t.edges[k].partial
          /\ u.edges[k].contributors = t.edges[k].contributors
          /\ u.edges[k].messages = t.edges[k].messages

(* stageResumeEdges leads there.                                            *)
LEMMA ResumeDoes ==
  ASSUME NEW t, Sound(t), NEW w, IsOwners(w), w.edges = t.edges, NEW a \in Actors, NEW old,
         old = t.current[a].inc, NEW new
  PROVE  Resumed(t, w, ResumeEdges(w, a, old, new), a, new)
<1> DEFINE u == ResumeEdges(w, a, old, new)
           At(k) == k.source = a \/ k.target = a
           ended == Relationships(w, a, old)
           carried == EdgesOf(w, a, old) \ ended
           x(k) == IF k.source = a /\ w.edges[k].source = old THEN new ELSE w.edges[k].source
           y(k) == IF k.target = a /\ w.edges[k].target = old THEN new ELSE w.edges[k].target
           carry(k) == [[w.edges[k] EXCEPT !.source = x(k)] EXCEPT !.target = y(k)]
           E == [k \in EdgeKeys |-> IF k \in ended THEN NoEdge
                                    ELSE IF k \in carried THEN carry(k) ELSE w.edges[k]]
           H == w.history - EdgeUnits(w, ended)
<1>1. u = [w EXCEPT !.edges = E, !.history = H]
  BY DEF ResumeEdges
<1>2. \A k \in EdgeKeys : Linked(w, k) <=> Linked(t, k)
  BY DEF Linked
<1>3. \A k \in EdgeKeys : k \in EdgesOf(w, a, old) <=> Linked(t, k) /\ At(k)
  <2> SUFFICES ASSUME NEW k \in EdgeKeys
               PROVE  k \in EdgesOf(w, a, old) <=> Linked(t, k) /\ At(k)
    OBVIOUS
  <2>1. ASSUME Linked(t, k), k.source = a PROVE t.edges[k].source = old
    BY <2>1 DEF Sound, Anchored, InPlace
  <2>2. ASSUME Linked(t, k), k.target = a PROVE t.edges[k].target = old
    BY <2>2 DEF Sound, Anchored, InPlace
  <2> QED BY <1>2, <2>1, <2>2 DEF EdgesOf
<1>4. /\ \A k \in EdgeKeys : k \in ended <=> Linked(t, k) /\ At(k) /\ k.type # "message"
      /\ \A k \in EdgeKeys : k \in carried <=> Linked(t, k) /\ At(k) /\ k.type = "message"
  BY <1>3 DEF Relationships
<1>5. \A k \in EdgeKeys : Linked(t, k) /\ At(k) =>
        /\ x(k) = IF k.source = a THEN new ELSE t.edges[k].source
        /\ y(k) = IF k.target = a THEN new ELSE t.edges[k].target
  <2> SUFFICES ASSUME NEW k \in EdgeKeys, Linked(t, k), At(k)
               PROVE  /\ x(k) = IF k.source = a THEN new ELSE t.edges[k].source
                      /\ y(k) = IF k.target = a THEN new ELSE t.edges[k].target
    OBVIOUS
  <2>1. ASSUME k.source = a PROVE t.edges[k].source = old
    BY <2>1 DEF Sound, Anchored, InPlace
  <2>2. ASSUME k.target = a PROVE t.edges[k].target = old
    BY <2>2 DEF Sound, Anchored, InPlace
  <2> QED BY <2>1, <2>2
<1>6. \A k \in EdgeKeys : Linked(t, k) =>
        /\ IsEdge(carry(k)) /\ carry(k).source = x(k) /\ carry(k).target = y(k)
        /\ carry(k).ghost = t.edges[k].ghost /\ carry(k).partial = t.edges[k].partial
        /\ carry(k).contributors = t.edges[k].contributors
        /\ carry(k).messages = t.edges[k].messages
  <2> SUFFICES ASSUME NEW k \in EdgeKeys, Linked(t, k)
               PROVE  /\ IsEdge(carry(k)) /\ carry(k).source = x(k) /\ carry(k).target = y(k)
                      /\ carry(k).ghost = t.edges[k].ghost
                      /\ carry(k).partial = t.edges[k].partial
                      /\ carry(k).contributors = t.edges[k].contributors
                      /\ carry(k).messages = t.edges[k].messages
    OBVIOUS
  <2>1. IsEdge(w.edges[k])
    BY LinkedIsEdge DEF Sound
  <2> DEFINE e == w.edges[k]
             p == x(k)
             q == y(k)
             h == [e EXCEPT !.source = p]
             c == [h EXCEPT !.target = q]
  <2>2. carry(k) = c /\ e = t.edges[k] /\ p = x(k) /\ q = y(k) /\ IsEdge(e)
    BY <2>1
  <2> HIDE DEF x, y, carry, e, p, q
  <2>3. /\ IsEdge(h) /\ h.source = p /\ h.target = e.target /\ h.ghost = e.ghost
        /\ h.partial = e.partial /\ h.contributors = e.contributors
        /\ h.messages = e.messages
    BY ONLY <2>2, SourceIs
  <2> HIDE DEF h
  <2>4. /\ IsEdge(c) /\ c.source = h.source /\ c.target = q /\ c.ghost = h.ghost
        /\ c.partial = h.partial /\ c.contributors = h.contributors
        /\ c.messages = h.messages
    BY ONLY <2>3, TargetIs
  <2> HIDE DEF c
  <2> QED BY ONLY <2>2, <2>3, <2>4
<1>7. \A k \in EdgeKeys : E[k] = IF k \in ended THEN NoEdge
                                 ELSE IF k \in carried THEN carry(k) ELSE w.edges[k]
  OBVIOUS
<1>8. E = [k \in EdgeKeys |-> E[k]]
  OBVIOUS
<1> HIDE DEF E, H, ended, carried, carry, x, y, u
<1>9. \A k \in EdgeKeys : E[k] = NoEdge \/ IsEdge(E[k])
  BY <1>4, <1>6, <1>7 DEF IsOwners
<1>10. /\ IsOwners(u) /\ u.edges = E
       /\ \A f \in OwnerFields \ {"edges", "history"} : u[f] = w[f]
  BY <1>1, <1>8, <1>9 DEF IsOwners, OwnerFields
<1>11. \A k \in EdgeKeys : ~At(k) => u.edges[k] = t.edges[k]
  BY <1>4, <1>7, <1>10
<1>12. \A k \in EdgeKeys : At(k) => (Linked(u, k) <=> Linked(t, k) /\ k.type = "message")
  <2> SUFFICES ASSUME NEW k \in EdgeKeys, At(k)
               PROVE  Linked(u, k) <=> Linked(t, k) /\ k.type = "message"
    OBVIOUS
  <2>1. CASE ~Linked(t, k)
    BY <1>4, <1>7, <1>10, <2>1 DEF Linked
  <2>2. CASE Linked(t, k) /\ k.type # "message"
    BY <1>4, <1>7, <1>10, <2>2 DEF Linked
  <2>3. CASE Linked(t, k) /\ k.type = "message"
    <3>1. u.edges[k] = carry(k)
      BY <1>4, <1>7, <1>10, <2>3
    <3>2. Linked(u, k)
      BY <1>6, <2>3, <3>1, EdgeShows DEF Linked
    <3> QED BY <2>3, <3>2
  <2> QED BY <2>1, <2>2, <2>3
<1>13. \A k \in EdgeKeys : At(k) /\ Linked(u, k) =>
         /\ u.edges[k].source = IF k.source = a THEN new ELSE t.edges[k].source
         /\ u.edges[k].target = IF k.target = a THEN new ELSE t.edges[k].target
         /\ u.edges[k].ghost = t.edges[k].ghost
         /\ u.edges[k].partial = t.edges[k].partial
         /\ u.edges[k].contributors = t.edges[k].contributors
         /\ u.edges[k].messages = t.edges[k].messages
  <2> SUFFICES ASSUME NEW k \in EdgeKeys, At(k), Linked(u, k)
               PROVE  /\ u.edges[k].source = IF k.source = a THEN new ELSE t.edges[k].source
                      /\ u.edges[k].target = IF k.target = a THEN new ELSE t.edges[k].target
                      /\ u.edges[k].ghost = t.edges[k].ghost
                      /\ u.edges[k].partial = t.edges[k].partial
                      /\ u.edges[k].contributors = t.edges[k].contributors
                      /\ u.edges[k].messages = t.edges[k].messages
    OBVIOUS
  <2>1. Linked(t, k) /\ k.type = "message"
    BY <1>12
  <2>2. u.edges[k] = carry(k)
    BY <1>4, <1>7, <1>10, <2>1
  <2> QED BY <1>5, <1>6, <2>1, <2>2
<1>14. Resumed(t, w, u, a, new)
  BY <1>10, <1>11, <1>12, <1>13 DEF Resumed
<1> QED BY <1>14 DEF u

(* An incarnation that succeeds another.                                    *)
LEMMA NodeSwitchSound ==
  ASSUME NEW t, Sound(t), NEW e \in Events, NEW at, NodeRefusal(t, e) = "", Switches(t, e)
  PROVE  Succeeded(t, StageNode(t, e, at), e)
<1> DEFINE a == e.actor
           old == t.current[a].inc
           R == t.retired \cup {<<a, old>>}
           s == Succeed(t, e)
           Q == AcceptOwn(s.proofs[a], NodeContribution(s.proofs[a], e, at))
           c == IF Knows(s, e) THEN s.current[a] ELSE Proof(e)
           H == s.history + One(~HoldsOwn(s.proofs[a], e))
           v == [s EXCEPT !.current[a] = c, !.proofs[a] = Q, !.history = H]
           n == SuccessorNode(v, e)
           m == [n EXCEPT !.partial = NodePartial(n, v.gaps)]
           w == WithNode(v, a, n)
           new == e.inc
           u == ResumeEdges(w, a, old, new)
           At(k) == k.source = a \/ k.target = a
<1>0. a \in Actors /\ e.inc \in Incs /\ e.inc # 0
  BY ReducerAssumption DEF EventRecord
<1>1. StageNode(t, e, at) = u
  BY DEF StageNode, ShowObserved, WithProof, SuccessorNode
<1>2. <<a, e.inc>> \notin t.retired
  BY DEF NodeRefusal
<1>3. /\ IsOwners(s) /\ s.nodes = t.nodes /\ s.edges = t.edges /\ s.retired = R
      /\ s.gaps = t.gaps /\ s.expiry = t.expiry /\ s.fingerprints = t.fingerprints
      /\ s.current = t.current
  <2>0. IsOwners(t) /\ t = [f \in OwnerFields |-> t[f]] /\ DOMAIN t = OwnerFields
    BY DEF Sound, IsOwners
  <2>1. /\ s.nodes = t.nodes /\ s.edges = t.edges /\ s.retired = R
        /\ s.gaps = t.gaps /\ s.expiry = t.expiry /\ s.fingerprints = t.fingerprints
        /\ s.current = t.current
    BY <2>0 DEF Succeed, OwnerFields
  <2>2. DOMAIN s = OwnerFields /\ s = [f \in OwnerFields |-> s[f]]
    <3> DEFINE P == [t.proofs EXCEPT ![a] = <<>>]
               S == [t.states EXCEPT ![a] = <<>>]
               A == [t.approvals EXCEPT ![a] = <<>>]
               L == [t.health EXCEPT ![a] = {}]
               U == t.history + 1 - EvidenceUnits(t, a)
    <3>1. s = [t EXCEPT !.retired = R, !.proofs = P, !.states = S, !.approvals = A,
                        !.health = L, !.history = U]
      BY <2>0 DEF Succeed, OwnerFields
    <3> HIDE DEF s, R, P, S, A, L, U
    <3> QED BY <2>0, <3>1 DEF OwnerFields
  <2> HIDE DEF s
  <2> QED BY <2>0, <2>1, <2>2 DEF IsOwners
<1>4. c.inc = e.inc
  BY DEF Knows, Proof
<1> HIDE DEF s, Q, c, H, R
<1>5. /\ IsOwners(v) /\ v.nodes = t.nodes /\ v.edges = t.edges /\ v.retired = R
      /\ v.gaps = t.gaps /\ v.expiry = t.expiry /\ v.fingerprints = t.fingerprints
      /\ v.current[a] = c /\ \A b \in Actors \ {a} : v.current[b] = t.current[b]
  <2>1. /\ IsOwners(v) /\ v.nodes = s.nodes /\ v.edges = s.edges /\ v.retired = s.retired
        /\ v.gaps = s.gaps /\ v.expiry = s.expiry /\ v.fingerprints = s.fingerprints
        /\ v.current[a] = c /\ \A b \in Actors \ {a} : v.current[b] = s.current[b]
    BY <1>0, <1>3 DEF IsOwners, OwnerFields
  <2> QED BY <1>3, <2>1
<1> HIDE DEF v
<1>6. IsNode(n) /\ n.inc = e.inc /\ n.state = NoState
  <2> DEFINE before == v.nodes[a]
  <2>1. before = v.nodes[e.actor] /\ (before = NoNode \/ IsNode(before)) /\ e \in Events
    BY <1>0, <1>5 DEF IsOwners
  <2> HIDE DEF before
  <2> QED BY ONLY <2>1, ObservedSuccessorIs
<1> HIDE DEF n
<1>7. /\ IsNode(m) /\ m.inc = n.inc /\ m.state = n.state /\ m.partial = NodePartial(m, v.gaps)
  <2>1. IsNode(n)
    BY <1>6
  <2> QED BY ONLY <2>1, MarkedIs
<1>8. /\ IsOwners(w) /\ w.nodes[a] = m
      /\ \A b \in Actors \ {a} : w.nodes[b] = v.nodes[b]
      /\ \A f \in OwnerFields \ {"nodes"} : w[f] = v[f]
  <2>1. a \in Actors /\ IsOwners(v) /\ IsNode(n)
    BY <1>0, <1>5, <1>6
  <2> HIDE DEF a
  <2> QED BY ONLY <2>1, WithNodeDoes
<1> HIDE DEF m, w
<1>9. w.edges = t.edges
  BY <1>5, <1>8 DEF OwnerFields
<1>10. /\ IsOwners(u)
       /\ \A f \in OwnerFields \ {"edges", "history"} : u[f] = w[f]
       /\ \A k \in EdgeKeys : ~At(k) => u.edges[k] = t.edges[k]
       /\ \A k \in EdgeKeys : At(k) => (Linked(u, k) <=> Linked(t, k) /\ k.type = "message")
       /\ \A k \in EdgeKeys : At(k) /\ Linked(u, k) =>
            /\ u.edges[k].source = IF k.source = a THEN new ELSE t.edges[k].source
            /\ u.edges[k].target = IF k.target = a THEN new ELSE t.edges[k].target
            /\ u.edges[k].ghost = t.edges[k].ghost
            /\ u.edges[k].partial = t.edges[k].partial
            /\ u.edges[k].contributors = t.edges[k].contributors
            /\ u.edges[k].messages = t.edges[k].messages
  <2>1. Resumed(t, w, u, a, new)
    BY <1>0, <1>8, <1>9, ResumeDoes
  <2> QED BY <2>1 DEF Resumed
<1> HIDE DEF u
<1>11. /\ u.retired = R /\ u.gaps = t.gaps /\ u.expiry = t.expiry
       /\ u.fingerprints = t.fingerprints /\ u.nodes = w.nodes
       /\ u.current[a] = c /\ \A b \in Actors \ {a} : u.current[b] = t.current[b]
  <2>1. /\ w.retired = R /\ w.gaps = t.gaps /\ w.expiry = t.expiry
        /\ w.fingerprints = t.fingerprints /\ w.current = v.current
    BY <1>5, <1>8 DEF OwnerFields
  <2>2. /\ u.retired = w.retired /\ u.gaps = w.gaps /\ u.expiry = w.expiry
        /\ u.fingerprints = w.fingerprints /\ u.nodes = w.nodes /\ u.current = w.current
    BY <1>10 DEF OwnerFields
  <2> QED BY <1>5, <2>1, <2>2
<1>12. /\ Present(u, a) /\ u.nodes[a] = m /\ m.inc = e.inc /\ m.state = NoState
       /\ \A b \in Actors \ {a} : u.nodes[b] = t.nodes[b] /\ (Present(u, b) <=> Present(t, b))
  BY <1>5, <1>6, <1>7, <1>8, <1>11, NodeShows DEF Present
(* An edge that is left is a message, or not at a; but for the incarnation  *)
(* of a it is as it was.                                                    *)
<1>13. \A k \in EdgeKeys : Linked(u, k) =>
         /\ Linked(t, k) /\ (At(k) => k.type = "message")
         /\ u.edges[k].source = IF k.source = a THEN new ELSE t.edges[k].source
         /\ u.edges[k].target = IF k.target = a THEN new ELSE t.edges[k].target
         /\ u.edges[k].ghost = t.edges[k].ghost /\ u.edges[k].partial = t.edges[k].partial
         /\ u.edges[k].contributors = t.edges[k].contributors
         /\ u.edges[k].messages = t.edges[k].messages
  <2> SUFFICES ASSUME NEW k \in EdgeKeys, Linked(u, k)
               PROVE  /\ Linked(t, k) /\ (At(k) => k.type = "message")
                      /\ u.edges[k].source = IF k.source = a THEN new ELSE t.edges[k].source
                      /\ u.edges[k].target = IF k.target = a THEN new ELSE t.edges[k].target
                      /\ u.edges[k].ghost = t.edges[k].ghost
                      /\ u.edges[k].partial = t.edges[k].partial
                      /\ u.edges[k].contributors = t.edges[k].contributors
                      /\ u.edges[k].messages = t.edges[k].messages
    OBVIOUS
  <2>1. CASE At(k)
    BY <1>10, <2>1
  <2>2. CASE ~At(k)
    BY <1>10, <2>2 DEF Linked
  <2> QED BY <2>1, <2>2
<1>14. \A k \in EdgeKeys : Linked(t, k) /\ k.type = "message" => Linked(u, k)
  <2> SUFFICES ASSUME NEW k \in EdgeKeys, Linked(t, k), k.type = "message" PROVE Linked(u, k)
    OBVIOUS
  <2>1. CASE At(k)
    BY <1>10, <2>1
  <2>2. CASE ~At(k)
    BY <1>10, <2>2 DEF Linked
  <2> QED BY <2>1, <2>2
<1>15. InPlace(u)
  <2> SUFFICES ASSUME NEW b \in Actors, Present(u, b) PROVE u.nodes[b].inc = u.current[b].inc
    BY DEF InPlace
  <2>1. CASE b = a
    BY <1>4, <1>11, <1>12, <2>1
  <2>2. CASE b # a
    BY <1>11, <1>12, <2>2 DEF Sound, InPlace
  <2> QED BY <2>1, <2>2
<1>16. Anchored(u)
  <2> SUFFICES ASSUME NEW k \in EdgeKeys, Linked(u, k)
               PROVE  /\ Present(u, k.source) /\ u.nodes[k.source].inc = u.edges[k].source
                      /\ Present(u, k.target) /\ u.nodes[k.target].inc = u.edges[k].target
    BY DEF Anchored
  <2>1. /\ Present(t, k.source) /\ t.nodes[k.source].inc = t.edges[k].source
        /\ Present(t, k.target) /\ t.nodes[k.target].inc = t.edges[k].target
    BY <1>13 DEF Sound, Anchored
  <2>2. k.source \in Actors /\ k.target \in Actors
    BY EndsAreActors
  <2>3. Present(u, k.source) /\ u.nodes[k.source].inc = u.edges[k].source
    BY <1>12, <1>13, <2>1, <2>2
  <2>4. Present(u, k.target) /\ u.nodes[k.target].inc = u.edges[k].target
    BY <1>12, <1>13, <2>1, <2>2
  <2> QED BY <2>3, <2>4
<1>17. Ghosted(u)
  <2> SUFFICES ASSUME NEW k \in EdgeKeys, Linked(u, k), k.type # "message", ~u.edges[k].ghost
               PROVE  /\ ~Terminal(u.nodes[k.source].state.value)
                      /\ ~Terminal(u.nodes[k.target].state.value)
    BY DEF Ghosted
  <2>1. Linked(t, k) /\ k.source # a /\ k.target # a /\ ~t.edges[k].ghost
    BY <1>13
  <2> QED BY <1>12, <2>1, EndsAreActors DEF Sound, Ghosted
<1>18. Marked(u)
  <2>1. \A b \in Actors : Present(u, b) => u.nodes[b].partial = NodePartial(u.nodes[b], u.gaps)
    <3> SUFFICES ASSUME NEW b \in Actors, Present(u, b)
                 PROVE  u.nodes[b].partial = NodePartial(u.nodes[b], u.gaps)
      OBVIOUS
    <3>1. CASE b = a
      BY <1>5, <1>7, <1>11, <1>12, <3>1
    <3>2. CASE b # a
      BY <1>11, <1>12, <3>2 DEF Sound, Marked
    <3> QED BY <3>1, <3>2
  <2>2. \A k \in EdgeKeys : Linked(u, k) => u.edges[k].partial = EdgePartial(k, u.edges[k], u.gaps)
    <3> SUFFICES ASSUME NEW k \in EdgeKeys, Linked(u, k)
                 PROVE  u.edges[k].partial = EdgePartial(k, u.edges[k], u.gaps)
      OBVIOUS
    <3>1. t.edges[k].partial = EdgePartial(k, t.edges[k], t.gaps)
      BY <1>13 DEF Sound, Marked
    <3>2. EdgePartial(k, u.edges[k], u.gaps) = EdgePartial(k, t.edges[k], t.gaps)
      BY <1>11, <1>13 DEF EdgePartial
    <3> QED BY <1>13, <3>1, <3>2
  <2> QED BY <2>1, <2>2 DEF Marked
<1>19. Indexed(u)
  <2>1. ASSUME NEW x \in u.expiry
        PROVE  \E k \in EdgeKeys : Linked(u, k) /\ \E m1 \in u.edges[k].messages : x = Entry(m1, k)
    <3>1. PICK k \in EdgeKeys : Linked(t, k) /\ \E m1 \in t.edges[k].messages : x = Entry(m1, k)
      BY <1>11 DEF Sound, Indexed
    <3>2. k.type = "message"
      BY <3>1 DEF Sound, Apart
    <3>3. Linked(u, k)
      BY <1>14, <3>1, <3>2
    <3> QED BY <1>13, <3>1, <3>3
  <2>2. ASSUME NEW k \in EdgeKeys, Linked(u, k), NEW m1 \in u.edges[k].messages
        PROVE  Entry(m1, k) \in u.expiry
    BY <1>11, <1>13, <2>2 DEF Sound, Indexed
  <2> QED BY <2>1, <2>2 DEF Indexed
<1>20. Apart(u)
  <2> SUFFICES ASSUME NEW k \in EdgeKeys, Linked(u, k)
               PROVE  /\ k.type # "message" => u.edges[k].messages = {}
                      /\ \A x \in u.edges[k].messages :
                           /\ x.digest \in u.fingerprints
                           /\ \A y \in u.edges[k].messages : x.digest = y.digest => x = y
    BY DEF Apart
  <2>1. Linked(t, k) /\ u.edges[k].messages = t.edges[k].messages
    BY <1>13
  <2>2. u.fingerprints = t.fingerprints
    BY <1>11
  <2> QED BY <2>1, <2>2 DEF Sound, Apart
<1>21. Acyclic(u)
  BY <1>13, FewerRanks DEF Sound, Ranks
<1>22. Sound(u)
  BY <1>10, <1>15, <1>16, <1>17, <1>18, <1>19, <1>20, <1>21 DEF Sound
<1>23. Succeeded(t, u, e)
  BY <1>2, <1>4, <1>11, <1>22 DEF Succeeded, R
<1> QED BY <1>1, <1>23

-----------------------------------------------------------------------------
(* The generation that is published.                                        *)

(* A transaction whose changes were told to be none of a kind changed none: *)
(* what buildGeneration takes over, or a transaction does not publish at    *)
(* all, is what the owners hold.                                            *)
LEMMA GenerationIs ==
  ASSUME NEW t, IsOwners(t), NEW u, IsOwners(u), published = Projection(t)
  PROVE  Generation(t, u) = Projection(u)
<1>1. CASE TopologyChanged(t, u) \/ VisibilityChanged(t, u) \/ StateChanged(t, u)
           \/ MetricsChanged(t, u)
  <2>1. Generation(t, u) =
          [nodes |-> IF PublicNodes(t) = PublicNodes(u) THEN published.nodes ELSE PublicNodes(u),
           edges |-> IF PublicEdges(t) = PublicEdges(u) THEN published.edges ELSE PublicEdges(u),
           gaps |-> IF t.gaps = u.gaps THEN published.gaps ELSE u.gaps]
    BY <1>1 DEF Generation
  <2>2. /\ published.nodes = PublicNodes(t) /\ published.edges = PublicEdges(t)
        /\ published.gaps = t.gaps
    BY DEF Projection
  <2> QED BY <2>1, <2>2 DEF Projection
<1>2. CASE ~(TopologyChanged(t, u) \/ VisibilityChanged(t, u) \/ StateChanged(t, u)
             \/ MetricsChanged(t, u))
  <2>1. Generation(t, u) = published
    BY <1>2 DEF Generation
  <2>2. \A a \in Actors : t.nodes[a].inc = u.nodes[a].inc
    BY <1>2 DEF TopologyChanged
  <2>3. \A a \in Actors : Present(t, a) <=> Present(u, a)
    BY <2>2, PresentByInc
  <2>4. \A k \in EdgeKeys : Linked(t, k) <=> Linked(u, k)
    <3> SUFFICES ASSUME NEW k \in EdgeKeys PROVE Linked(t, k) <=> Linked(u, k)
      OBVIOUS
    <3>1. Linked(t, k) = Linked(u, k)
      BY <1>2 DEF TopologyChanged
    <3> QED BY <3>1
  <2>5. \A a \in Actors : PublicNode(t, a) = PublicNode(u, a)
    <3> SUFFICES ASSUME NEW a \in Actors, Present(t, a), Present(u, a)
                 PROVE  PublicNode(t, a) = PublicNode(u, a)
      BY <2>3 DEF PublicNode
    <3>1. \A f \in {"name", "startedAt", "startTicks", "partial", "pinned", "ghostAt"} :
            t.nodes[a][f] = u.nodes[a][f]
      BY <1>2 DEF VisibilityChanged, Differ
    <3>2. \A f \in {"state", "stale", "completedAt", "failedAt"} : t.nodes[a][f] = u.nodes[a][f]
      BY <1>2 DEF StateChanged, Differ
    <3>3. t.transitions[a] = u.transitions[a]
      BY <1>2 DEF StateChanged
    <3>4. \A f \in {"usage"} : t.nodes[a][f] = u.nodes[a][f]
      BY <1>2 DEF MetricsChanged, Differ
    <3>5. t.nodes[a]["inc"] = u.nodes[a]["inc"]
      BY <2>2
    <3>6. \A f \in PublicFields : t.nodes[a][f] = u.nodes[a][f]
      BY <3>1, <3>2, <3>4, <3>5 DEF PublicFields
    <3>7. [f \in PublicFields |-> t.nodes[a][f]] = [f \in PublicFields |-> u.nodes[a][f]]
      BY <3>6
    <3> QED BY <3>3, <3>7 DEF PublicNode
  <2>6. \A k \in EdgeKeys : PublicEdge(t, k) = PublicEdge(u, k)
    <3> SUFFICES ASSUME NEW k \in EdgeKeys PROVE PublicEdge(t, k) = PublicEdge(u, k)
      OBVIOUS
    <3>1. CASE Linked(t, k)
      BY <1>2, <2>4, <3>1 DEF VisibilityChanged
    <3>2. CASE ~Linked(t, k)
      BY <2>4, <3>2 DEF PublicEdge
    <3> QED BY <3>1, <3>2
  <2>7. t.gaps = u.gaps
    BY <1>2 DEF VisibilityChanged
  <2>8. PublicNodes(t) = PublicNodes(u) /\ PublicEdges(t) = PublicEdges(u)
    BY <2>5, <2>6 DEF PublicNodes, PublicEdges
  <2> QED BY <2>1, <2>7, <2>8 DEF Projection
<1> QED BY <1>1, <1>2

-----------------------------------------------------------------------------
(* The inductive invariant, and its steps.                                  *)

RIInv == Sound(owners) /\ published = Projection(owners)

(* A step retires the incarnation an actor leaves and enters none that was  *)
(* retired.                                                                 *)
Succession(t, u) ==
  \A a \in Actors :
    u.current[a].inc # t.current[a].inc /\ t.current[a].inc # 0 =>
      /\ <<a, t.current[a].inc>> \in u.retired
      /\ <<a, u.current[a].inc>> \notin t.retired
Onward(t, u) == Sound(u) /\ Succession(t, u)

(* A stage that keeps the incarnations succeeds none.                       *)
LEMMA KeepsOnward ==
  ASSUME NEW t, NEW u, Keeps(t, u)
  PROVE  Onward(t, u)
BY DEF Keeps, Onward, Succession

(* A graph without actors is in order.                                      *)
LEMMA EmptyIsSound == Sound(NoOwners)
<1> DEFINE t == NoOwners
<1>1. /\ \A a \in Actors : t.nodes[a] = NoNode
      /\ \A k \in EdgeKeys : t.edges[k] = NoEdge
      /\ t.expiry = {}
  BY DEF NoOwners
<1>2. IsOwners(t)
  <2>1. DOMAIN t = OwnerFields /\ t = [f \in OwnerFields |-> t[f]]
    BY DEF NoOwners, OwnerFields
  <2>2. /\ t.nodes = [a \in Actors |-> t.nodes[a]] /\ t.edges = [k \in EdgeKeys |-> t.edges[k]]
        /\ t.current = [a \in Actors |-> t.current[a]]
    BY DEF NoOwners
  <2> HIDE DEF t
  <2> QED BY <1>1, <2>1, <2>2 DEF IsOwners
<1> HIDE DEF t
<1>3. \A a : a \in Actors => ~Present(t, a)
  BY <1>1 DEF Present
<1>4. \A k \in EdgeKeys : ~Linked(t, k) /\ ~Ranks(t, k)
  BY <1>1 DEF Linked, Ranks
<1>5. InPlace(t) /\ Anchored(t) /\ Ghosted(t) /\ Marked(t)
  BY <1>3, <1>4 DEF InPlace, Anchored, Ghosted, Marked
<1>6. Indexed(t) /\ Apart(t) /\ Acyclic(t)
  BY <1>1, <1>4 DEF Indexed, Apart, Acyclic
<1>7. Sound(t)
  BY <1>2, <1>5, <1>6 DEF Sound
<1> QED BY <1>7 DEF t

(* A node that is observed keeps its incarnation, or succeeds to it.        *)
LEMMA NodeOnward ==
  ASSUME NEW t, Sound(t), NEW e \in Events, NEW at, NodeRefusal(t, e) = ""
  PROVE  Onward(t, StageNode(t, e, at))
<1> DEFINE u == StageNode(t, e, at)
<1>0. e.actor \in Actors
  BY ReducerAssumption DEF EventRecord
<1>1. CASE ~Switches(t, e)
  <2>1. /\ Sound(u) /\ u.current[e.actor].inc = e.inc
        /\ \A a \in Actors \ {e.actor} : u.current[a] = t.current[a]
    <3>1. Again(t, StageNode(t, e, at), e)
      BY <1>1, NodeAgainSound
    <3> QED BY <3>1 DEF Again
  <2>2. t.current[e.actor].inc = 0 \/ t.current[e.actor].inc = e.inc
    BY <1>1 DEF Switches, Unseen, Knows
  <2> HIDE DEF u
  <2>3. Succession(t, u)
    BY <2>1, <2>2 DEF Succession
  <2> QED BY <2>1, <2>3 DEF Onward, u
<1>2. CASE Switches(t, e)
  <2>1. /\ Sound(u) /\ u.retired = t.retired \cup {<<e.actor, t.current[e.actor].inc>>}
        /\ <<e.actor, e.inc>> \notin t.retired /\ u.current[e.actor].inc = e.inc
        /\ \A a \in Actors \ {e.actor} : u.current[a] = t.current[a]
    <3>1. Succeeded(t, StageNode(t, e, at), e)
      BY <1>2, NodeSwitchSound
    <3> QED BY <3>1 DEF Succeeded
  <2> HIDE DEF u
  <2>2. Succession(t, u)
    BY <2>1 DEF Succession
  <2> QED BY <2>1, <2>2 DEF Onward, u
<1> QED BY <1>1, <1>2

(* Moving a cursor first makes no difference to that.                       *)
LEMMA OnwardFromBase ==
  ASSUME NEW e, NEW at, Sound(owners), NEW u, Onward(Base(e, at), u)
  PROVE  Onward(owners, u)
<1>1. Aside(owners, Base(e, at))
  BY CursorAside DEF Base, Sound
<1>2. Base(e, at).current = owners.current /\ Base(e, at).retired = owners.retired
  BY <1>1 DEF Aside, SharedFields
<1> QED BY <1>2 DEF Onward, Succession

(* The transaction an event starts with is sound, and knows the messages    *)
(* and events that were known.                                              *)
LEMMA BaseIsSound ==
  ASSUME NEW e, NEW at, Sound(owners)
  PROVE  Sound(Base(e, at)) /\ Base(e, at).fingerprints = owners.fingerprints
<1>1. Aside(owners, Base(e, at))
  BY CursorAside DEF Base, Sound
<1> QED BY <1>1, AsideKeeps DEF Keeps, Aside, SharedFields

(* What is committed, or not, by a step that stages u.                      *)
LEMMA CommitOnward ==
  ASSUME RIInv, NEW u, Onward(owners, u), Commit(u)
  PROVE  RIInv' /\ Succession(owners, owners')
<1>1. owners' = u /\ published' = Generation(owners, u)
  BY DEF Commit
<1>2. published' = Projection(u)
  BY <1>1, GenerationIs DEF RIInv, Onward, Sound
<1> QED BY <1>1, <1>2 DEF RIInv, Onward

(* A step that changes neither owners nor what is published.                *)
LEMMA StandsStill ==
  ASSUME RIInv, UNCHANGED <<owners, published>>
  PROVE  RIInv' /\ Succession(owners, owners')
<1>1. owners' = owners /\ published' = published
  OBVIOUS
<1> QED BY <1>1 DEF RIInv, Succession

(* A stage that failed commits nothing.                                     *)
LEMMA FinishedOnward ==
  ASSUME RIInv, NEW u, Onward(owners, u), Finished(u)
  PROVE  RIInv' /\ Succession(owners, owners')
<1>1. CASE Break(u.error)
  BY <1>1, StandsStill DEF Break
<1>2. CASE Commit(u)
  BY <1>2, CommitOnward
<1> QED BY <1>1, <1>2 DEF Finished

(* An event that would hold too much history leaves its row instead.        *)
LEMMA FinishOnward ==
  ASSUME RIInv, NEW e, NEW u, Onward(owners, u), Finish(e, u)
  PROVE  RIInv' /\ Succession(owners, owners')
<1> DEFINE v == IF u.error = "" /\ u.history > HistoryLimit
                THEN Diagnosed(owners, e, "history") ELSE u
<1>1. Finished(v)
  BY DEF Finish
<1>2. Onward(owners, Diagnosed(owners, e, "history"))
  BY DiagnosedKeeps, KeepsOnward DEF RIInv
<1>3. Onward(owners, v)
  BY <1>2
<1> HIDE DEF v
<1> QED BY <1>1, <1>3, FinishedOnward

(* The events, one by one.                                                  *)
LEMMA ObserveOnward ==
  ASSUME RIInv, NEW e \in Events, NEW at,
         \/ ObserveNode(e, at) \/ ObserveMetrics(e, at) \/ ObserveState(e, at)
         \/ ObserveHeartbeat(e, at) \/ ObserveExit(e, at) \/ ObserveRelationship(e, at)
         \/ ObserveMessage(e, at) \/ ObserveGap(e, at)
  PROVE  RIInv' /\ Succession(owners, owners')
<1> DEFINE t == Base(e, at)
<1>0. Sound(t) /\ t.fingerprints = owners.fingerprints /\ Sound(owners)
  BY BaseIsSound DEF RIInv
<1>a. \A u : Onward(t, u) => Onward(owners, u)
  BY <1>0, OnwardFromBase
<1>b. \A u : Onward(t, u) /\ Finish(e, u) => RIInv' /\ Succession(owners, owners')
  BY <1>a, FinishOnward
<1> HIDE DEF t
<1>1. CASE ObserveNode(e, at)
  <2>1. NodeRefusal(t, e) = "" /\ Finish(e, StageNode(t, e, at))
    <3>1. e.kind = "node" /\ Refusal(t, e) = "" /\ Takes(e, at) /\ Finish(e, StageNode(t, e, at))
      BY <1>1 DEF ObserveNode, Accepted, t
    <3> QED BY <3>1 DEF Refusal
  <2>2. Onward(t, StageNode(t, e, at))
    BY <1>0, <2>1, NodeOnward
  <2> QED BY <1>b, <2>1, <2>2
<1>2. CASE ObserveMetrics(e, at)
  <2>1. Finish(e, StageMetrics(t, e, at))
    BY <1>2 DEF ObserveMetrics, t
  <2>2. Onward(t, StageMetrics(t, e, at))
    BY <1>0, MetricsKeeps, KeepsOnward
  <2> QED BY <1>b, <2>1, <2>2
<1>3. CASE ObserveState(e, at)
  <2>1. Finish(e, StageState(t, e, at, clock))
    BY <1>3 DEF ObserveState, t
  <2>2. Onward(t, StageState(t, e, at, clock))
    BY <1>0, StateKeeps, KeepsOnward
  <2> QED BY <1>b, <2>1, <2>2
<1>4. CASE ObserveHeartbeat(e, at)
  <2>1. Finish(e, StageHeartbeat(t, e, at, clock))
    BY <1>4 DEF ObserveHeartbeat, t
  <2>2. Onward(t, StageHeartbeat(t, e, at, clock))
    BY <1>0, HeartbeatKeeps, KeepsOnward
  <2> QED BY <1>b, <2>1, <2>2
<1>5. CASE ObserveExit(e, at)
  <2>1. Finish(e, StageExit(t, e, at, clock))
    BY <1>5 DEF ObserveExit, t
  <2>2. Onward(t, StageExit(t, e, at, clock))
    BY <1>0, ExitKeeps, KeepsOnward
  <2> QED BY <1>b, <2>1, <2>2
<1>6. CASE ObserveRelationship(e, at)
  <2>1. /\ e.kind = "relationship" /\ RelationshipRefusal(t, e) = ""
        /\ Finish(e, StageRelationship(t, e))
    <3>1. e.kind = "relationship" /\ Refusal(t, e) = "" /\ Finish(e, StageRelationship(t, e))
      BY <1>6 DEF ObserveRelationship, Accepted, t
    <3> QED BY <3>1 DEF Refusal
  <2>2. Onward(t, StageRelationship(t, e))
    BY <1>0, <2>1, RelationshipKeeps, KeepsOnward
  <2> QED BY <1>b, <2>1, <2>2
<1>7. CASE ObserveMessage(e, at)
  <2>1. /\ e.kind = "message" /\ MessageRefusal(t, e) = "" /\ e.digest \notin owners.fingerprints
        /\ Finish(e, StageMessage(t, e, at))
    <3>1. /\ e.kind = "message" /\ Refusal(t, e) = "" /\ Takes(e, at)
          /\ Finish(e, StageMessage(t, e, at))
      BY <1>7 DEF ObserveMessage, Accepted, t
    <3>2. MessageRefusal(t, e) = ""
      BY <3>1 DEF Refusal
    <3> QED BY <3>1, <3>2 DEF Takes, Arrives
  <2>2. Onward(t, StageMessage(t, e, at))
    BY <1>0, <2>1, MessageKeeps, KeepsOnward
  <2> QED BY <1>b, <2>1, <2>2
<1>8. CASE ObserveGap(e, at)
  <2>1. Finish(e, StageGap(t, e))
    BY <1>8 DEF ObserveGap, t
  <2>2. Onward(t, StageGap(t, e))
    BY <1>0, GapKeeps, KeepsOnward
  <2> QED BY <1>b, <2>1, <2>2
<1> QED BY <1>1, <1>2, <1>3, <1>4, <1>5, <1>6, <1>7, <1>8

(* An event that is refused leaves its row alone.                           *)
LEMMA RefuseOnward ==
  ASSUME RIInv, NEW e, NEW at, Refuse(e, at)
  PROVE  RIInv' /\ Succession(owners, owners')
<1>1. PICK refusal : Commit(Diagnosed(owners, e, refusal))
  BY DEF Refuse
<1>2. Onward(owners, Diagnosed(owners, e, refusal))
  BY DiagnosedKeeps, KeepsOnward DEF RIInv
<1> QED BY <1>1, <1>2, CommitOnward

(* SetPinned, in both directions.                                           *)
LEMMA PinOnward ==
  ASSUME RIInv, NEW a \in Actors, Pin(a) \/ Unpin(a)
  PROVE  RIInv' /\ Succession(owners, owners')
<1>1. Sound(owners) /\ Present(owners, a)
  BY DEF RIInv, Pin, Unpin
<1>2. CASE Pin(a)
  <2> DEFINE u == [owners EXCEPT !.nodes[a].pinned = TRUE]
  <2>1. Commit(u)
    BY <1>2 DEF Pin
  <2>2. Onward(owners, u)
    BY <1>1, PinKeeps, KeepsOnward
  <2> HIDE DEF u
  <2> QED BY <2>1, <2>2, CommitOnward
<1>3. CASE Unpin(a)
  <2> DEFINE u == [owners EXCEPT !.nodes[a].pinned = FALSE]
             v == GhostExpiry(u, clock, {a})
  <2>1. Commit(u) \/ Commit(v)
    BY <1>3 DEF Unpin
  <2>2. Keeps(owners, u)
    BY <1>1, PinKeeps
  <2> HIDE DEF u
  <2>3. Keeps(u, v)
    BY <2>2, GhostExpiryKeeps DEF Keeps
  <2> HIDE DEF v
  <2>4. Onward(owners, u) /\ Onward(owners, v)
    BY <2>2, <2>3, KeepsAgain, KeepsOnward
  <2> QED BY <2>1, <2>4, CommitOnward
<1> QED BY <1>2, <1>3

(* Advance.                                                                 *)
LEMMA AdvanceOnward ==
  ASSUME RIInv, Advance
  PROVE  RIInv' /\ Succession(owners, owners')
<1>1. PICK d : Finished(Advanced(owners, d))
  BY DEF Advance
<1>2. Onward(owners, Advanced(owners, d))
  BY AdvancedKeeps, KeepsOnward DEF RIInv
<1> QED BY <1>1, <1>2, FinishedOnward

(* Every step.                                                              *)
LEMMA StepOnward ==
  ASSUME RIInv, [Next]_vars
  PROVE  RIInv' /\ Succession(owners, owners')
<1>1. ASSUME NEW e \in Events, NEW at,
             \/ ObserveNode(e, at) \/ ObserveMetrics(e, at) \/ ObserveState(e, at)
             \/ ObserveHeartbeat(e, at) \/ ObserveExit(e, at) \/ ObserveRelationship(e, at)
             \/ ObserveMessage(e, at) \/ ObserveGap(e, at)
      PROVE  RIInv' /\ Succession(owners, owners')
  BY <1>1, ObserveOnward
<1>2. ASSUME NEW e \in Events, NEW at, Refuse(e, at)
      PROVE  RIInv' /\ Succession(owners, owners')
  BY <1>2, RefuseOnward
<1>3. ASSUME NEW e \in Events, NEW at, Ignore(e, at)
      PROVE  RIInv' /\ Succession(owners, owners')
  BY <1>3, StandsStill DEF Ignore, vars
<1>4. ASSUME NEW a \in Pins, Pin(a) \/ Unpin(a)
      PROVE  RIInv' /\ Succession(owners, owners')
  BY <1>4, PinOnward, ReducerAssumption
<1>5. CASE Advance
  BY <1>5, AdvanceOnward
<1>6. CASE Tick
  BY <1>6, StandsStill DEF Tick
<1>7. CASE UNCHANGED vars
  BY <1>7, StandsStill DEF vars
<1> QED BY <1>1, <1>2, <1>3, <1>4, <1>5, <1>6, <1>7 DEF Next

(* The owners are in order, and published, at any time.                     *)
THEOREM OwnersAlwaysSound == Spec => []RIInv
<1>1. Init => RIInv
  BY EmptyIsSound DEF Init, RIInv
<1>2. RIInv /\ [Next]_vars => RIInv'
  BY StepOnward
<1> QED BY <1>1, <1>2, PTL DEF Spec

-----------------------------------------------------------------------------
(* What follows.                                                            *)

(* The entries of the index are those of the messages, as one set.          *)
LEMMA IndexedIs ==
  ASSUME NEW t, Indexed(t)
  PROVE  t.expiry = UNION {{[at |-> m.at + MessageWindow, digest |-> m.digest, edge |-> k] :
                              m \in t.edges[k].messages} : k \in {k \in EdgeKeys : Linked(t, k)}}
<1> DEFINE Entries(k) == {[at |-> m.at + MessageWindow, digest |-> m.digest, edge |-> k] :
                            m \in t.edges[k].messages}
           L == {k \in EdgeKeys : Linked(t, k)}
<1>1. ASSUME NEW x \in t.expiry PROVE x \in UNION {Entries(k) : k \in L}
  <2>1. PICK k \in EdgeKeys : Linked(t, k) /\ \E m \in t.edges[k].messages : x = Entry(m, k)
    BY DEF Indexed
  <2>2. k \in L /\ x \in Entries(k)
    BY <2>1 DEF Entry
  <2> QED BY <2>2
<1>2. ASSUME NEW x \in UNION {Entries(k) : k \in L} PROVE x \in t.expiry
  <2>1. PICK k \in L : x \in Entries(k)
    BY <1>2
  <2>2. PICK m \in t.edges[k].messages : x = Entry(m, k)
    BY <2>1 DEF Entry
  <2> QED BY <2>1, <2>2 DEF Indexed
<1> QED BY <1>1, <1>2

(* Marking what is marked changes nothing.                                  *)
LEMMA MarkedStays ==
  ASSUME NEW t, IsOwners(t), Marked(t)
  PROVE  PartialUpdates(t) = t
<1> DEFINE N == [a \in Actors |-> IF Present(t, a)
                 THEN [t.nodes[a] EXCEPT !.partial = NodePartial(t.nodes[a], t.gaps)] ELSE NoNode]
           E == [k \in EdgeKeys |-> IF Linked(t, k)
                 THEN [t.edges[k] EXCEPT !.partial = EdgePartial(k, t.edges[k], t.gaps)] ELSE NoEdge]
<1>1. PartialUpdates(t) = [t EXCEPT !.nodes = N, !.edges = E]
  BY DEF PartialUpdates
<1>2. N = t.nodes
  <2>1. \A a \in Actors : N[a] = t.nodes[a]
    <3> SUFFICES ASSUME NEW a \in Actors PROVE N[a] = t.nodes[a]
      OBVIOUS
    <3>1. CASE Present(t, a)
      <4>1. IsNode(t.nodes[a]) /\ t.nodes[a].partial = NodePartial(t.nodes[a], t.gaps)
        BY <3>1, PresentIsNode DEF Marked
      <4> DEFINE n == t.nodes[a]
                 p == NodePartial(t.nodes[a], t.gaps)
      <4>2. IsNode(n) /\ n.partial = p /\ N[a] = [n EXCEPT !.partial = p]
        BY <3>1, <4>1
      <4> HIDE DEF n, p, N
      <4>3. [n EXCEPT !.partial = p] = n
        BY <4>2 DEF IsNode
      <4> QED BY <4>2, <4>3 DEF n
    <3>2. CASE ~Present(t, a)
      BY <3>2 DEF Present
    <3> QED BY <3>1, <3>2
  <2> HIDE DEF E
  <2>2. t.nodes = [a \in Actors |-> t.nodes[a]]
    BY DEF IsOwners
  <2> QED BY <2>1, <2>2
<1>3. E = t.edges
  <2>1. \A k \in EdgeKeys : E[k] = t.edges[k]
    <3> SUFFICES ASSUME NEW k \in EdgeKeys PROVE E[k] = t.edges[k]
      OBVIOUS
    <3>1. CASE Linked(t, k)
      <4>1. IsEdge(t.edges[k]) /\ t.edges[k].partial = EdgePartial(k, t.edges[k], t.gaps)
        BY <3>1, LinkedIsEdge DEF Marked
      <4> DEFINE e == t.edges[k]
                 p == EdgePartial(k, t.edges[k], t.gaps)
      <4>2. IsEdge(e) /\ e.partial = p /\ E[k] = [e EXCEPT !.partial = p]
        BY <3>1, <4>1
      <4> HIDE DEF e, p, E
      <4>3. [e EXCEPT !.partial = p] = e
        BY <4>2 DEF IsEdge
      <4> QED BY <4>2, <4>3 DEF e
    <3>2. CASE ~Linked(t, k)
      BY <3>2 DEF Linked
    <3> QED BY <3>1, <3>2
  <2> HIDE DEF N
  <2>2. t.edges = [k \in EdgeKeys |-> t.edges[k]]
    BY DEF IsOwners
  <2> QED BY <2>1, <2>2
<1> HIDE DEF N, E
<1>4. [t EXCEPT !.nodes = N, !.edges = E] = t
  BY <1>2, <1>3 DEF IsOwners, OwnerFields
<1> QED BY <1>1, <1>4

(* What is published is what the owners hold, whatever a transaction tells  *)
(* of its changes.                                                          *)
THEOREM AlwaysPublished == Spec => []PublishedCurrent
<1>1. RIInv => PublishedCurrent
  BY DEF RIInv, PublishedCurrent
<1> QED BY <1>1, OwnersAlwaysSound, PTL

(* No edge outlives an end of it.                                           *)
THEOREM EdgesAlwaysAnchored == Spec => []EdgesAnchored
<1>1. RIInv => EdgesAnchored
  BY DEF RIInv, Sound, Anchored, EdgesAnchored
<1> QED BY <1>1, OwnersAlwaysSound, PTL

(* The expiry index names the messages of the edges, and no others.         *)
THEOREM IndexAlwaysExact == Spec => []IndexExact
<1>1. RIInv => IndexExact
  BY IndexedIs DEF RIInv, Sound, IndexExact
<1> QED BY <1>1, OwnersAlwaysSound, PTL

(* Spawn edges close no cycle.                                              *)
THEOREM RanksAlwaysAcyclic == Spec => []RankAcyclic
<1>1. RIInv => RankAcyclic
  BY DEF RIInv, Sound, Acyclic, RankAcyclic
<1> QED BY <1>1, OwnersAlwaysSound, PTL

(* A relationship of an actor that has ended is a ghost.                    *)
THEOREM EndedAlwaysGhosts == Spec => []TerminalGhosts
<1>1. RIInv => TerminalGhosts
  BY DEF RIInv, Sound, Ghosted, TerminalGhosts
<1> QED BY <1>1, OwnersAlwaysSound, PTL

(* What a gap covers is marked partial, and nothing else.                   *)
THEOREM PartialAlwaysExact == Spec => []PartialExact
<1>1. RIInv => PartialExact
  BY MarkedStays DEF RIInv, Sound, PartialExact
<1> QED BY <1>1, OwnersAlwaysSound, PTL

(* An incarnation that was succeeded never comes back.                      *)
THEOREM RetiredNeverReturn == Spec => RetiredStayRetired
<1> DEFINE Retires == \A a \in Actors :
             owners'.current[a].inc # owners.current[a].inc /\ owners.current[a].inc # 0 =>
               /\ <<a, owners.current[a].inc>> \in owners'.retired
               /\ <<a, owners'.current[a].inc>> \notin owners.retired
<1>1. RIInv /\ [Next]_vars => [Retires]_vars
  BY StepOnward DEF Succession
<1> HIDE DEF Retires
<1>2. Spec => [][Retires]_vars
  BY <1>1, OwnersAlwaysSound, PTL DEF Spec
<1> QED BY <1>2 DEF RetiredStayRetired, Retires

-----------------------------------------------------------------------------
(* Rows of evidence.                                                        *)

ProofRecords ==
  [source: Sources, at: Nat, name: STRING, startedAt: Nat, startTicks: Nat]
MetricsRecords == [source: Sources, inc: Incs, at: Nat, usage: Nat]
StateRecords ==
  [source: Sources, value: Values \cup {""}, at: Nat, until: Nat, via: {"state", "terminal"}]
ApprovalRecords == [source: Sources, rel: Relations \cup {""}, evidence: StateRecords]

ProofKey == [x \in ProofRecords |-> x.source]
MetricsKey == [x \in MetricsRecords |-> <<x.source, x.inc>>]
StateKey == [x \in StateRecords |-> x.source]
ApprovalKey == [x \in ApprovalRecords |-> <<x.source, x.rel>>]

FiledProofs(q) == q \in Seq(ProofRecords) /\ Distinct(q, ProofKey)
FiledMetrics(q) == q \in Seq(MetricsRecords) /\ Distinct(q, MetricsKey)
FiledStates(q) == q \in Seq(StateRecords) /\ Distinct(q, StateKey)
FiledApprovals(q) == q \in Seq(ApprovalRecords) /\ Distinct(q, ApprovalKey)
FiledHealth(h) ==
  /\ IsFiniteSet(h)
  /\ \A x \in h : x = [source |-> x.source, last |-> x.last] /\ x.last \in Nat
  /\ \A x, y \in h : x.source = y.source => x = y

FiledActor(t, a) ==
  /\ FiledProofs(t.proofs[a]) /\ FiledMetrics(t.metrics[a]) /\ FiledStates(t.states[a])
  /\ FiledApprovals(t.approvals[a]) /\ FiledHealth(t.health[a])

FiledEdge(k, e) ==
  /\ IsFiniteSet(e.contributors) /\ IsFiniteSet(e.messages)
  /\ k.type = "message" => e.contributors = {}

MovedCursors(t) == {k \in DOMAIN t.cursors : t.cursors[k] # NoCursor}

EvidenceFields == {"proofs", "metrics", "states", "approvals", "health"}

Filed(t) ==
  /\ \A f \in EvidenceFields : t[f] = [a \in Actors |-> t[f][a]]
  /\ \A a \in Actors : FiledActor(t, a)
  /\ \A k \in EdgeKeys : Linked(t, k) => FiledEdge(k, t.edges[k])
  /\ IsFiniteSet(t.retired) /\ IsFiniteSet(MovedCursors(t))
  /\ t.cursors = [k \in Sources \X Actors |-> t.cursors[k]]

(* What the rows cost.                                                      *)
EdgeCost(e) == Cardinality(e.contributors) + Cardinality(e.messages)
EdgeCosts(t) == [k \in EdgeKeys |-> IF Linked(t, k) THEN EdgeCost(t.edges[k]) ELSE 0]
ActorCost(t, a) == EvidenceUnits(t, a) + Len(t.metrics[a])
ActorCosts(t) == [a \in Actors |-> ActorCost(t, a)]
Balanced(t) ==
  t.history = Cardinality(t.retired) + Cardinality(MovedCursors(t))
              + SumOver(EdgeCosts(t), EdgeKeys) + SumOver(ActorCosts(t), Actors)

(* What is retired was an incarnation of an actor that is in another now.   *)
Retiring(t) ==
  \A a \in Actors :
    /\ <<a, t.current[a].inc>> \notin t.retired
    /\ t.current[a].inc = 0 => \A inc : <<a, inc>> \notin t.retired

Booked(t) == Filed(t) /\ Balanced(t) /\ Retiring(t)

-----------------------------------------------------------------------------
(* Facts about rows.                                                        *)

(* The members of a sequence over S are in S.                               *)
LEMMA MembersIn == ASSUME NEW S, NEW s \in Seq(S) PROVE ToSet(s) \subseteq S
<1>1. DOMAIN s = 1..Len(s) /\ \A i \in 1..Len(s) : s[i] \in S
  OBVIOUS
<1> QED BY <1>1 DEF ToSet

(* One unit, or none.                                                       *)
LEMMA OneIs ==
  ASSUME NEW old
  PROVE  /\ One(old = {}) = IF old = {} THEN 1 ELSE 0
         /\ One(old # {}) = IF old = {} THEN 0 ELSE 1
BY DEF One

(* What is left when the row of a key goes.                                 *)
LEMMA RowGoes ==
  ASSUME NEW S, NEW rows \in Seq(S), NEW K, Distinct(rows, K), NEW key, NEW old,
         old = Keyed(rows, K, key)
  PROVE  LET new == Without(rows, old) IN
         /\ new \in Seq(S) /\ Distinct(new, K) /\ ToSet(new) = ToSet(rows) \ old
         /\ Len(new) \in Nat /\ Len(rows) \in Nat /\ Len(new) = Len(rows) - One(old # {})
<1> DEFINE T == ToSet(rows) \ old
           new == Among(rows, T)
<1>1. Without(rows, old) = new
  BY DEF Without
<1>2. Len(new) = IF old = {} THEN Len(rows) ELSE Len(rows) - 1
  BY AmongOthers
<1>3. T = ToSet(rows) \cap T
  OBVIOUS
<1> HIDE DEF T
<1>4. /\ new \in Seq(S) /\ ToSet(new) = ToSet(rows) \cap T /\ Distinct(new, K)
  BY AmongMembers, AmongDistinct
<1> HIDE DEF new
<1>5. Len(rows) \in Nat /\ Len(new) \in Nat
  BY <1>4
<1>6. Len(new) = Len(rows) - One(old # {})
  BY <1>2, <1>5, OneIs
<1> QED BY <1>1, <1>3, <1>4, <1>5, <1>6 DEF T

(* A row that is accepted takes the place of the row of its key.            *)
Came(S, rows, K, old, x) ==
  LET new == Accept(rows, old, x) IN
  /\ new \in Seq(S) /\ Distinct(new, K) /\ ToSet(new) = (ToSet(rows) \ old) \cup {x}
  /\ Len(new) \in Nat /\ Len(rows) \in Nat /\ Len(new) = Len(rows) + One(old = {})

LEMMA RowComes ==
  ASSUME NEW S, NEW rows \in Seq(S), NEW K, Distinct(rows, K), NEW x \in S, NEW key,
         K[x] = key, NEW old, old = Keyed(rows, K, key)
  PROVE  Came(S, rows, K, old, x)
<1> DEFINE rest == Without(rows, old)
<1>1. /\ rest \in Seq(S) /\ Distinct(rest, K) /\ ToSet(rest) = ToSet(rows) \ old
      /\ Len(rest) \in Nat /\ Len(rows) \in Nat /\ Len(rest) = Len(rows) - One(old # {})
  <2> HIDE DEF rest
  <2> QED BY RowGoes DEF rest
<1>2. Accept(rows, old, x) = Append(rest, x)
  BY DEF Accept
<1> HIDE DEF rest
<1>3. \A y \in ToSet(rest) : K[y] # K[x]
  BY <1>1 DEF Keyed
<1>4. Distinct(Append(rest, x), K)
  BY <1>1, <1>3, DistinctAppend
<1>5. ToSet(Append(rest, x)) = ToSet(rest) \cup {x}
  BY <1>1, ToSetAppend
<1>6. Append(rest, x) \in Seq(S) /\ Len(Append(rest, x)) = Len(rest) + 1
  BY <1>1
<1>7. Len(Append(rest, x)) = Len(rows) + One(old = {})
  BY <1>1, <1>6, OneIs
<1> QED BY <1>1, <1>2, <1>4, <1>5, <1>6, <1>7 DEF Came

(* A selection of rows.                                                     *)
LEMMA RowsStay ==
  ASSUME NEW S, NEW rows \in Seq(S), NEW K, Distinct(rows, K), NEW T
  PROVE  LET new == Among(rows, T) IN
         /\ new \in Seq(S) /\ Distinct(new, K) /\ ToSet(new) = ToSet(rows) \cap T
         /\ Len(new) \in Nat /\ Len(rows) \in Nat
BY AmongMembers, AmongDistinct

(* No rows.                                                                 *)
LEMMA NoRows ==
  ASSUME NEW S, NEW K
  PROVE  <<>> \in Seq(S) /\ Distinct(<<>>, K) /\ Len(<<>>) = 0 /\ ToSet(<<>>) = {}
BY ToSetNone DEF Distinct

(* The rows of a source, by key.                                            *)
LEMMA OwnRows ==
  ASSUME NEW e, NEW q
  PROVE  /\ FiledProofs(q) => Own(q, e) = Keyed(q, ProofKey, e.source)
         /\ FiledStates(q) => Own(q, e) = Keyed(q, StateKey, e.source)
BY MembersIn DEF Own, Keyed, FiledProofs, FiledStates, ProofKey, StateKey

-----------------------------------------------------------------------------
(* Steps that change the rows of one actor.                                 *)

ActorTyped(t, a) ==
  /\ Len(t.proofs[a]) \in Nat /\ Len(t.metrics[a]) \in Nat /\ Len(t.states[a]) \in Nat
  /\ Len(t.approvals[a]) \in Nat /\ Cardinality(t.health[a]) \in Nat

(* Costs are numbers.                                                       *)
LEMMA ActorCostIs ==
  ASSUME NEW t, NEW a, FiledActor(t, a)
  PROVE  ActorCost(t, a) \in Nat /\ ActorTyped(t, a)
<1>1. ActorTyped(t, a)
  BY FS_CardinalityType DEF FiledActor, FiledProofs, FiledMetrics, FiledStates, FiledApprovals,
                            FiledHealth, ActorTyped
<1> DEFINE p == Len(t.proofs[a])
           m == Len(t.metrics[a])
           s == Len(t.states[a])
           q == Len(t.approvals[a])
           h == Cardinality(t.health[a])
<1>2. ActorCost(t, a) = p + s + q + h + m
  BY DEF ActorCost, EvidenceUnits
<1>3. p \in Nat /\ m \in Nat /\ s \in Nat /\ q \in Nat /\ h \in Nat
  BY <1>1 DEF ActorTyped
<1> HIDE DEF p, m, s, q, h
<1> QED BY <1>1, <1>2, <1>3

LEMMA EdgeCostIs ==
  ASSUME NEW k, NEW e, FiledEdge(k, e)
  PROVE  /\ EdgeCost(e) \in Nat
         /\ Cardinality(e.contributors) \in Nat /\ Cardinality(e.messages) \in Nat
BY FS_CardinalityType DEF EdgeCost, FiledEdge

CostsTyped(t) ==
  /\ \A a \in Actors : ActorCosts(t)[a] \in Nat
  /\ \A k \in EdgeKeys : EdgeCosts(t)[k] \in Nat
  /\ SumOver(ActorCosts(t), Actors) \in Nat /\ SumOver(EdgeCosts(t), EdgeKeys) \in Nat
  /\ Cardinality(t.retired) \in Nat /\ Cardinality(MovedCursors(t)) \in Nat

LEMMA CostsAreNumbers ==
  ASSUME NEW t, Filed(t)
  PROVE  CostsTyped(t)
<1>1. \A a \in Actors : ActorCosts(t)[a] \in Nat
  BY ActorCostIs DEF Filed, ActorCosts
<1>2. \A k \in EdgeKeys : EdgeCosts(t)[k] \in Nat
  BY EdgeCostIs DEF Filed, EdgeCosts
<1>3. SumOver(ActorCosts(t), Actors) \in Nat /\ SumOver(EdgeCosts(t), EdgeKeys) \in Nat
  BY <1>1, <1>2, SumTyped, ReducerAssumption
<1>4. Cardinality(t.retired) \in Nat /\ Cardinality(MovedCursors(t)) \in Nat
  BY FS_CardinalityType DEF Filed
<1> QED BY <1>1, <1>2, <1>3, <1>4 DEF CostsTyped

StillFields == {"nodes", "edges", "retired", "cursors", "gaps", "expiry", "error"}
Edited(t, u, a) ==
  /\ \A f \in EvidenceFields :
       u[f] = [b \in Actors |-> u[f][b]] /\ \A b \in Actors \ {a} : u[f][b] = t[f][b]
  /\ \A f \in StillFields : u[f] = t[f]

(* The rows of an actor that is edited are counted.                         *)
LEMMA EditedBalances ==
  ASSUME NEW t, NEW u, NEW a \in Actors, Filed(t), Balanced(t), Edited(t, u, a),
         FiledActor(u, a), u.history = t.history + ActorCost(u, a) - ActorCost(t, a)
  PROVE  Filed(u) /\ Balanced(u)
<1>1. u.edges = t.edges /\ u.retired = t.retired /\ u.cursors = t.cursors
  BY DEF Edited, StillFields
<1>2. \A b \in Actors \ {a} :
        /\ u.proofs[b] = t.proofs[b] /\ u.metrics[b] = t.metrics[b] /\ u.states[b] = t.states[b]
        /\ u.approvals[b] = t.approvals[b] /\ u.health[b] = t.health[b]
  BY DEF Edited, EvidenceFields
<1>3. \A b \in Actors \ {a} : FiledActor(u, b) /\ ActorCosts(u)[b] = ActorCosts(t)[b]
  BY <1>2 DEF Filed, FiledActor, ActorCosts, ActorCost, EvidenceUnits
<1>4. \A k \in EdgeKeys : Linked(u, k) <=> Linked(t, k)
  BY <1>1 DEF Linked
<1>5. MovedCursors(u) = MovedCursors(t) /\ EdgeCosts(u) = EdgeCosts(t)
  BY <1>1, <1>4 DEF MovedCursors, EdgeCosts
<1>6. \A f \in EvidenceFields : u[f] = [b \in Actors |-> u[f][b]]
  BY DEF Edited
<1>7. Filed(u)
  <2>1. \A b \in Actors : FiledActor(u, b)
    BY <1>3
  <2>2. \A k \in EdgeKeys : Linked(u, k) => FiledEdge(k, u.edges[k])
    BY <1>1, <1>4 DEF Filed
  <2>3. IsFiniteSet(u.retired) /\ IsFiniteSet(MovedCursors(u))
        /\ u.cursors = [k \in Sources \X Actors |-> u.cursors[k]]
    BY <1>1, <1>5 DEF Filed
  <2> QED BY <1>6, <2>1, <2>2, <2>3 DEF Filed
<1>8. CostsTyped(t) /\ CostsTyped(u)
  BY <1>7, CostsAreNumbers
<1>9. SumOver(ActorCosts(u), Actors) - SumOver(ActorCosts(t), Actors)
        = ActorCosts(u)[a] - ActorCosts(t)[a]
  BY <1>3, <1>8, SumAtOne, ReducerAssumption DEF CostsTyped
<1>10. ActorCosts(u)[a] = ActorCost(u, a) /\ ActorCosts(t)[a] = ActorCost(t, a)
  BY DEF ActorCosts
<1>11. Balanced(u)
  <2> DEFINE x == SumOver(ActorCosts(u), Actors)
             y == SumOver(ActorCosts(t), Actors)
             z == SumOver(EdgeCosts(t), EdgeKeys)
             r == Cardinality(t.retired)
             c == Cardinality(MovedCursors(t))
             p == ActorCost(u, a)
             q == ActorCost(t, a)
  <2>1. x \in Nat /\ y \in Nat /\ z \in Nat /\ r \in Nat /\ c \in Nat /\ p \in Nat /\ q \in Nat
    BY <1>8, <1>10 DEF CostsTyped
  <2>2. x - y = p - q
    BY <1>9, <1>10
  <2>3. t.history = r + c + z + y
    BY DEF Balanced
  <2>4. u.history = t.history + p - q
    OBVIOUS
  <2> HIDE DEF x, y, z, r, c, p, q
  <2>5. u.history = r + c + z + x
    BY <2>1, <2>2, <2>3, <2>4
  <2> QED BY <1>1, <1>5, <2>5 DEF Balanced, x, z, r, c
<1> QED BY <1>7, <1>11

Refiled(t, u, a) ==
  /\ Edited(t, u, a) /\ FiledActor(u, a)
  /\ u.history = t.history + ActorCost(u, a) - ActorCost(t, a)

(* An actor whose rows change, and are counted.                             *)
LEMMA RefiledBooks ==
  ASSUME NEW t, NEW u, NEW a \in Actors, Booked(t), Refiled(t, u, a), u.current = t.current
  PROVE  Booked(u)
<1>1. Filed(u) /\ Balanced(u)
  BY EditedBalances DEF Booked, Refiled
<1>2. u.retired = t.retired
  BY DEF Refiled, Edited, StillFields
<1>3. Retiring(u)
  BY <1>2 DEF Booked, Retiring
<1> QED BY <1>1, <1>3 DEF Booked

(* purgeHealthLane.                                                         *)
LEMMA PurgeBooks ==
  ASSUME NEW t, IsOwners(t), Filed(t), t.history \in Int, NEW a \in Actors, NEW lanes
  PROVE  Refiled(t, PurgeHealth(t, a, lanes), a)
<1> DEFINE T == {e \in ToSet(t.states[a]) :
                   \/ HealthKey(e.source) \notin lanes \/ Terminal(e.value)
                   \/ e.source.authority = Native /\ e.source.mode = "immutable"}
           P == {e \in ToSet(t.approvals[a]) : HealthKey(e.source) \notin lanes}
           s == Among(t.states[a], T)
           q == Among(t.approvals[a], P)
           h == {x \in t.health[a] : x.source \notin lanes}
           H == t.history - (Len(t.states[a]) - Len(s)) - (Len(t.approvals[a]) - Len(q))
                  - Cardinality(t.health[a] \ h)
           u == [t EXCEPT !.states[a] = s, !.approvals[a] = q, !.health[a] = h, !.history = H]
<1>1. PurgeHealth(t, a, lanes) = u
  BY DEF PurgeHealth
<1>2. FiledActor(t, a)
  BY DEF Filed
<1>3. FiledStates(s) /\ FiledApprovals(q)
  <2>1. FiledStates(t.states[a]) /\ FiledApprovals(t.approvals[a])
    BY <1>2 DEF FiledActor
  <2> HIDE DEF T, P
  <2>2. FiledStates(s)
    BY <2>1, RowsStay DEF FiledStates
  <2>3. FiledApprovals(q)
    BY <2>1, RowsStay DEF FiledApprovals
  <2> QED BY <2>2, <2>3
<1>4. /\ FiledHealth(h) /\ IsFiniteSet(t.health[a])
      /\ Cardinality(h) = Cardinality(t.health[a]) - Cardinality(t.health[a] \ h)
  <2>1. FiledHealth(t.health[a]) /\ h \subseteq t.health[a]
    BY <1>2 DEF FiledActor
  <2> HIDE DEF h
  <2>2. IsFiniteSet(t.health[a]) /\ IsFiniteSet(h) /\ FiledHealth(h)
    BY <2>1, FS_Subset DEF FiledHealth
  <2>3. h = t.health[a] \ (t.health[a] \ h) /\ IsFiniteSet(t.health[a] \ h)
        /\ t.health[a] \cap (t.health[a] \ h) = t.health[a] \ h
    BY <2>1, <2>2, FS_Subset
  <2>4. Cardinality(h) = Cardinality(t.health[a]) - Cardinality(t.health[a] \ h)
    BY <2>2, <2>3, FS_Difference
  <2> QED BY <2>2, <2>4
<1> HIDE DEF s, q, h, H
<1>5. /\ Edited(t, u, a) /\ u.proofs[a] = t.proofs[a] /\ u.metrics[a] = t.metrics[a]
      /\ u.states[a] = s /\ u.approvals[a] = q /\ u.health[a] = h /\ u.history = H
  BY DEF IsOwners, OwnerFields, Filed, EvidenceFields, Edited, StillFields
<1> HIDE DEF u
<1>6. FiledActor(u, a)
  BY <1>2, <1>3, <1>4, <1>5 DEF FiledActor
<1>7. ActorTyped(t, a) /\ ActorTyped(u, a)
  BY <1>2, <1>6, ActorCostIs
<1>8. u.history = t.history + ActorCost(u, a) - ActorCost(t, a)
  <2> DEFINE n1 == Len(t.proofs[a])
             n2 == Len(t.metrics[a])
             n3 == Len(t.states[a])
             n4 == Len(t.approvals[a])
             n5 == Cardinality(t.health[a])
             m3 == Len(s)
             m4 == Len(q)
             m5 == Cardinality(h)
             d == Cardinality(t.health[a] \ h)
  <2>1. /\ n1 \in Nat /\ n2 \in Nat /\ n3 \in Nat /\ n4 \in Nat /\ n5 \in Nat
        /\ m3 \in Nat /\ m4 \in Nat /\ m5 \in Nat
    BY <1>5, <1>7 DEF ActorTyped
  <2>2. d \in Nat
    BY <1>4, FS_Subset, FS_CardinalityType
  <2>3. ActorCost(t, a) = n1 + n3 + n4 + n5 + n2
    BY DEF ActorCost, EvidenceUnits
  <2>4. ActorCost(u, a) = n1 + m3 + m4 + m5 + n2
    BY <1>5 DEF ActorCost, EvidenceUnits
  <2>5. H = t.history - (n3 - m3) - (n4 - m4) - d
    BY DEF H
  <2>6. m5 = n5 - d
    BY <1>4
  <2> HIDE DEF n1, n2, n3, n4, n5, m3, m4, m5, d
  <2>7. H = t.history + (n1 + m3 + m4 + m5 + n2) - (n1 + n3 + n4 + n5 + n2)
    BY <2>1, <2>2, <2>5, <2>6
  <2> QED BY <1>5, <2>3, <2>4, <2>7
<1> QED BY <1>1, <1>5, <1>6, <1>8 DEF Refiled


(* The account of an edit.                                                  *)
LEMMA RefiledBy ==
  ASSUME NEW t, NEW u, NEW a, Edited(t, u, a), FiledActor(t, a), FiledActor(u, a),
         t.history \in Int,
         NEW dp \in Int, Len(u.proofs[a]) = Len(t.proofs[a]) + dp,
         NEW dm \in Int, Len(u.metrics[a]) = Len(t.metrics[a]) + dm,
         NEW ds \in Int, Len(u.states[a]) = Len(t.states[a]) + ds,
         NEW dq \in Int, Len(u.approvals[a]) = Len(t.approvals[a]) + dq,
         NEW dh \in Int, Cardinality(u.health[a]) = Cardinality(t.health[a]) + dh,
         u.history = t.history + (dp + dm + ds + dq + dh)
  PROVE  Refiled(t, u, a)
<1> DEFINE n1 == Len(t.proofs[a])
           n2 == Len(t.metrics[a])
           n3 == Len(t.states[a])
           n4 == Len(t.approvals[a])
           n5 == Cardinality(t.health[a])
<1>1. n1 \in Nat /\ n2 \in Nat /\ n3 \in Nat /\ n4 \in Nat /\ n5 \in Nat
  BY ActorCostIs DEF ActorTyped
<1>2. ActorCost(t, a) = n1 + n3 + n4 + n5 + n2
  BY DEF ActorCost, EvidenceUnits
<1>3. ActorCost(u, a) = (n1 + dp) + (n3 + ds) + (n4 + dq) + (n5 + dh) + (n2 + dm)
  BY DEF ActorCost, EvidenceUnits
<1> HIDE DEF n1, n2, n3, n4, n5
<1>4. u.history = t.history + ActorCost(u, a) - ActorCost(t, a)
  BY <1>1, <1>2, <1>3
<1> QED BY <1>4 DEF Refiled

(* Two edits of an actor are one.                                           *)
LEMMA RefiledAgain ==
  ASSUME NEW t, NEW u, NEW v, NEW a, FiledActor(t, a), t.history \in Int,
         Refiled(t, u, a), Refiled(u, v, a)
  PROVE  Refiled(t, v, a)
<1>1. Edited(t, v, a)
  <2>1. ASSUME NEW f \in EvidenceFields
        PROVE  v[f] = [b \in Actors |-> v[f][b]] /\ \A b \in Actors \ {a} : v[f][b] = t[f][b]
    <3>1. /\ v[f] = [b \in Actors |-> v[f][b]] /\ \A b \in Actors \ {a} : v[f][b] = u[f][b]
          /\ \A b \in Actors \ {a} : u[f][b] = t[f][b]
      BY <2>1 DEF Refiled, Edited
    <3> QED BY <3>1, Zenon
  <2>2. \A f \in StillFields : v[f] = t[f]
    BY DEF Refiled, Edited
  <2> QED BY <2>1, <2>2 DEF Edited
<1>2. ActorCost(t, a) \in Nat /\ ActorCost(u, a) \in Nat /\ ActorCost(v, a) \in Nat
  BY ActorCostIs DEF Refiled
<1>3. v.history = t.history + ActorCost(v, a) - ActorCost(t, a)
  BY <1>2 DEF Refiled
<1> QED BY <1>1, <1>3 DEF Refiled

(* What an edit leaves of the shapes of the rows.                           *)
LEMMA RefiledFiled ==
  ASSUME NEW t, NEW u, NEW a \in Actors, Filed(t), t.history \in Int, Refiled(t, u, a)
  PROVE  Filed(u) /\ u.history \in Int
<1>1. u.edges = t.edges /\ u.retired = t.retired /\ u.cursors = t.cursors
  BY DEF Refiled, Edited, StillFields
<1>2. \A b \in Actors \ {a} :
        /\ u.proofs[b] = t.proofs[b] /\ u.metrics[b] = t.metrics[b] /\ u.states[b] = t.states[b]
        /\ u.approvals[b] = t.approvals[b] /\ u.health[b] = t.health[b]
  BY DEF Refiled, Edited, EvidenceFields
<1>3. \A b \in Actors : FiledActor(u, b)
  BY <1>2 DEF Filed, FiledActor, Refiled
<1>4. \A k \in EdgeKeys : Linked(u, k) => FiledEdge(k, u.edges[k])
  BY <1>1 DEF Filed, Linked
<1>5. IsFiniteSet(u.retired) /\ IsFiniteSet(MovedCursors(u))
      /\ u.cursors = [k \in Sources \X Actors |-> u.cursors[k]]
  BY <1>1 DEF Filed, MovedCursors
<1>6. \A f \in EvidenceFields : u[f] = [b \in Actors |-> u[f][b]]
  BY DEF Refiled, Edited
<1>7. ActorCost(t, a) \in Nat /\ ActorCost(u, a) \in Nat
  BY ActorCostIs DEF Refiled, Filed
<1>8. u.history \in Int
  BY <1>7 DEF Refiled
<1> QED BY <1>3, <1>4, <1>5, <1>6, <1>8 DEF Filed

(* Nothing happens to the rows.                                             *)
LEMMA RefiledNot ==
  ASSUME NEW t, NEW a \in Actors, Filed(t), t.history \in Int
  PROVE  Refiled(t, t, a)
<1>1. FiledActor(t, a) /\ Edited(t, t, a)
  BY DEF Filed, Edited
<1>2. ActorCost(t, a) \in Nat
  BY <1>1, ActorCostIs
<1>3. t.history = t.history + ActorCost(t, a) - ActorCost(t, a)
  BY <1>2
<1> QED BY <1>1, <1>3 DEF Refiled

(* The later of two times.                                                  *)
LEMMA LaterOf ==
  ASSUME NEW m \in Nat, NEW n \in Nat
  PROVE  /\ Max({m}) = m /\ Max({m, n}) \in Nat
         /\ Max({m, n}) >= m /\ Max({m, n}) >= n
<1>1. \E x \in {m} : \A y \in {m} : x >= y
  OBVIOUS
<1>2. \E x \in {m, n} : \A y \in {m, n} : x >= y
  OBVIOUS
<1> QED BY <1>1, <1>2 DEF Max

(* A heartbeat of a lane.                                                   *)
LEMMA BeatBooks ==
  ASSUME NEW t, IsOwners(t), Filed(t), t.history \in Int, NEW a \in Actors, NEW lane,
         NEW at \in Nat
  PROVE  Refiled(t, Beat(t, a, lane, at), a)
<1> DEFINE kept == {x \in t.health[a] : x.source = lane}
           last == Max({at} \cup {x.last : x \in kept})
           beat == [source |-> lane, last |-> last]
           h == (t.health[a] \ kept) \cup {beat}
           H == t.history + One(kept = {})
           u == [t EXCEPT !.health[a] = h, !.history = H]
<1>1. Beat(t, a, lane, at) = u
  BY DEF Beat
<1>2. FiledActor(t, a)
  BY DEF Filed
<1>3. FiledHealth(t.health[a])
  BY <1>2 DEF FiledActor
<1>4. last \in Nat
  <2> DEFINE L == {at} \cup {x.last : x \in kept}
  <2>1. CASE kept = {}
    <3>1. L = {at}
      BY <2>1
    <3> QED BY <3>1, LaterOf
  <2>2. CASE kept # {}
    <3>1. PICK x \in kept : TRUE
      BY <2>2
    <3>2. kept = {x} /\ x.last \in Nat
      BY <1>3, <3>1 DEF FiledHealth
    <3>3. L = {at, x.last}
      BY <3>2
    <3> QED BY <3>2, <3>3, LaterOf
  <2> QED BY <2>1, <2>2
<1> HIDE DEF last
<1>5. /\ FiledHealth(h)
      /\ Cardinality(h) = Cardinality(t.health[a]) + One(kept = {})
  <2> DEFINE rest == t.health[a] \ kept
  <2>1. IsFiniteSet(rest) /\ beat \notin rest
    BY <1>3, FS_Subset DEF FiledHealth
  <2>2. IsFiniteSet(h) /\ Cardinality(h) = Cardinality(rest) + 1
    <3> HIDE DEF rest, beat
    <3> QED BY <2>1, FS_AddElement DEF rest
  <2>3. FiledHealth(h)
    <3>1. \A x \in h : x = [source |-> x.source, last |-> x.last] /\ x.last \in Nat
      BY <1>3, <1>4 DEF FiledHealth
    <3>2. \A x, y \in h : x.source = y.source => x = y
      BY <1>3 DEF FiledHealth
    <3> HIDE DEF h
    <3> QED BY <2>2, <3>1, <3>2 DEF FiledHealth
  <2>4. CASE kept = {}
    <3>1. rest = t.health[a]
      BY <2>4
    <3> HIDE DEF rest, kept, h
    <3> QED BY <2>2, <2>3, <2>4, <3>1, OneIs
  <2>5. CASE kept # {}
    <3>1. PICK x \in kept : TRUE
      BY <2>5
    <3>2. kept = {x} /\ x \in t.health[a]
      BY <1>3, <3>1 DEF FiledHealth
    <3> HIDE DEF kept
    <3>3. IsFiniteSet(t.health[a])
      BY <1>3 DEF FiledHealth
    <3>4. Cardinality(rest) = Cardinality(t.health[a]) - 1
      BY <3>2, <3>3, FS_RemoveElement
    <3>5. Cardinality(t.health[a]) \in Nat
      BY <3>3, FS_CardinalityType
    <3> HIDE DEF rest, h
    <3> QED BY <2>2, <2>3, <2>5, <3>4, <3>5, OneIs
  <2> QED BY <2>4, <2>5
<1> HIDE DEF h, H
<1>6. /\ Edited(t, u, a) /\ u.proofs[a] = t.proofs[a] /\ u.metrics[a] = t.metrics[a]
      /\ u.states[a] = t.states[a] /\ u.approvals[a] = t.approvals[a]
      /\ u.health[a] = h /\ u.history = H
  BY DEF IsOwners, OwnerFields, Filed, EvidenceFields, Edited, StillFields
<1> HIDE DEF u
<1>7. FiledActor(u, a)
  BY <1>2, <1>5, <1>6 DEF FiledActor
<1>8. ActorTyped(t, a) /\ One(kept = {}) \in Int
  <2> HIDE DEF kept
  <2> QED BY <1>2, ActorCostIs, OneIs
<1>9. Refiled(t, u, a)
  <2> DEFINE d == One(kept = {})
  <2>1. H = t.history + (0 + 0 + 0 + 0 + d) /\ d \in Int
    BY <1>8 DEF H
  <2>2. Cardinality(u.health[a]) = Cardinality(t.health[a]) + d
    BY <1>5, <1>6
  <2> HIDE DEF d
  <2>3. /\ Len(u.proofs[a]) = Len(t.proofs[a]) + 0 /\ Len(u.metrics[a]) = Len(t.metrics[a]) + 0
        /\ Len(u.states[a]) = Len(t.states[a]) + 0
        /\ Len(u.approvals[a]) = Len(t.approvals[a]) + 0
    BY <1>6, <1>8 DEF ActorTyped
  <2>4. u.history = t.history + (0 + 0 + 0 + 0 + d) /\ 0 \in Int
    BY <1>6, <2>1
  <2> QED BY <1>2, <1>6, <1>7, <2>1, <2>2, <2>3, <2>4, RefiledBy
<1> QED BY <1>1, <1>9

(* refreshHealthEpoch.                                                      *)
LEMMA RefreshBooks ==
  ASSUME NEW t, IsOwners(t), Filed(t), t.history \in Int, NEW a \in Actors, NEW lane,
         NEW at \in Nat
  PROVE  Refiled(t, RefreshHealth(t, a, lane, at), a)
<1>1. PICK u \in {t, PurgeHealth(t, a, {lane})} : RefreshHealth(t, a, lane, at) = Beat(u, a, lane, at)
  BY DEF RefreshHealth
<1>2. IsOwners(u)
  BY <1>1, PurgeAside DEF Aside
<1>3. Refiled(t, u, a)
  BY <1>1, PurgeBooks, RefiledNot
<1>4. Filed(u) /\ u.history \in Int
  BY <1>3, RefiledFiled
<1>5. Refiled(u, Beat(u, a, lane, at), a)
  BY <1>2, <1>4, BeatBooks
<1>6. FiledActor(t, a)
  BY DEF Filed
<1> QED BY <1>1, <1>3, <1>5, <1>6, RefiledAgain

(* The end of an actor's approvals.                                         *)
LEMMA ClearBooks ==
  ASSUME NEW t, IsOwners(t), Filed(t), t.history \in Int, NEW a \in Actors
  PROVE  Refiled(t, ClearApprovals(t, a), a)
<1> DEFINE H == t.history - Len(t.approvals[a])
           u == [t EXCEPT !.approvals[a] = <<>>, !.history = H]
<1>1. ClearApprovals(t, a) = u
  BY DEF ClearApprovals
<1>2. FiledActor(t, a)
  BY DEF Filed
<1> HIDE DEF H
<1>3. /\ Edited(t, u, a) /\ u.proofs[a] = t.proofs[a] /\ u.metrics[a] = t.metrics[a]
      /\ u.states[a] = t.states[a] /\ u.approvals[a] = <<>>
      /\ u.health[a] = t.health[a] /\ u.history = H
  BY DEF IsOwners, OwnerFields, Filed, EvidenceFields, Edited, StillFields
<1> HIDE DEF u
<1>4. FiledActor(u, a)
  BY <1>2, <1>3, NoRows DEF FiledActor, FiledApprovals
<1>5. ActorTyped(t, a)
  BY <1>2, ActorCostIs
<1>6. Refiled(t, u, a)
  <2> DEFINE d == 0 - Len(t.approvals[a])
  <2>1. H = t.history + (0 + 0 + 0 + d + 0) /\ d \in Int
    BY <1>5 DEF H, ActorTyped
  <2>2. Len(u.approvals[a]) = Len(t.approvals[a]) + d
    BY <1>3, <1>5, NoRows DEF ActorTyped
  <2> HIDE DEF d
  <2>3. /\ Len(u.proofs[a]) = Len(t.proofs[a]) + 0 /\ Len(u.metrics[a]) = Len(t.metrics[a]) + 0
        /\ Len(u.states[a]) = Len(t.states[a]) + 0
        /\ Cardinality(u.health[a]) = Cardinality(t.health[a]) + 0
    BY <1>3, <1>5 DEF ActorTyped
  <2>4. u.history = t.history + (0 + 0 + 0 + d + 0) /\ 0 \in Int
    BY <1>3, <2>1
  <2> QED BY <1>2, <1>3, <1>4, <2>1, <2>2, <2>3, <2>4, RefiledBy
<1> QED BY <1>1, <1>6


(* A row is accepted, kind by kind.                                         *)
LEMMA ApprovalComes ==
  ASSUME NEW q, FiledApprovals(q), NEW x \in ApprovalRecords, NEW old, NEW key,
         ApprovalKey[x] = key, old = Keyed(q, ApprovalKey, key)
  PROVE  LET new == Accept(q, old, x) IN
         /\ FiledApprovals(new) /\ Len(new) = Len(q) + One(old = {})
         /\ ToSet(new) = (ToSet(q) \ old) \cup {x}
<1> DEFINE S == ApprovalRecords
           K == ApprovalKey
<1>1. q \in Seq(S) /\ Distinct(q, K)
  BY DEF FiledApprovals
<1>2. old = Keyed(q, K, key) /\ x \in S /\ K[x] = key
  OBVIOUS
<1>3. \A n : FiledApprovals(n) <=> n \in Seq(S) /\ Distinct(n, K)
  BY DEF FiledApprovals
<1> HIDE DEF S, K
<1>4. Came(S, q, K, old, x)
  BY <1>1, <1>2, RowComes
<1> QED BY <1>3, <1>4 DEF Came

LEMMA StateComes ==
  ASSUME NEW q, FiledStates(q), NEW x \in StateRecords
  PROVE  LET old == Own(q, x)
             new == Accept(q, old, x) IN
         /\ FiledStates(new) /\ Len(new) = Len(q) + One(old = {})
         /\ ToSet(new) = (ToSet(q) \ old) \cup {x}
<1> DEFINE S == StateRecords
           K == StateKey
           old == Own(q, x)
<1>1. q \in Seq(S) /\ Distinct(q, K)
  BY DEF FiledStates
<1>2. old = Keyed(q, K, x.source) /\ x \in S /\ K[x] = x.source
  BY OwnRows DEF StateKey
<1>3. \A n : FiledStates(n) <=> n \in Seq(S) /\ Distinct(n, K)
  BY DEF FiledStates
<1> HIDE DEF S, K, old
<1>5. Came(S, q, K, old, x)
  BY <1>1, <1>2, RowComes
<1>4. LET new == Accept(q, old, x) IN
         /\ FiledStates(new) /\ Len(new) = Len(q) + One(old = {})
         /\ ToSet(new) = (ToSet(q) \ old) \cup {x}
  BY <1>3, <1>5 DEF Came
<1> QED BY <1>4 DEF old

LEMMA ProofComes ==
  ASSUME NEW q, FiledProofs(q), NEW x \in ProofRecords
  PROVE  LET old == Own(q, x)
             new == Accept(q, old, x) IN
         /\ FiledProofs(new) /\ Len(new) = Len(q) + One(old = {})
         /\ ToSet(new) = (ToSet(q) \ old) \cup {x}
<1> DEFINE S == ProofRecords
           K == ProofKey
           old == Own(q, x)
<1>1. q \in Seq(S) /\ Distinct(q, K)
  BY DEF FiledProofs
<1>2. old = Keyed(q, K, x.source) /\ x \in S /\ K[x] = x.source
  BY OwnRows DEF ProofKey
<1>3. \A n : FiledProofs(n) <=> n \in Seq(S) /\ Distinct(n, K)
  BY DEF FiledProofs
<1> HIDE DEF S, K, old
<1>5. Came(S, q, K, old, x)
  BY <1>1, <1>2, RowComes
<1>4. LET new == Accept(q, old, x) IN
         /\ FiledProofs(new) /\ Len(new) = Len(q) + One(old = {})
         /\ ToSet(new) = (ToSet(q) \ old) \cup {x}
  BY <1>3, <1>5 DEF Came
<1> QED BY <1>4 DEF old

LEMMA MetricsComes ==
  ASSUME NEW q, FiledMetrics(q), NEW x \in MetricsRecords, NEW old, NEW key,
         MetricsKey[x] = key, old = Keyed(q, MetricsKey, key)
  PROVE  LET new == Accept(q, old, x) IN
         FiledMetrics(new) /\ Len(new) = Len(q) + One(old = {})
<1> DEFINE S == MetricsRecords
           K == MetricsKey
<1>1. q \in Seq(S) /\ Distinct(q, K)
  BY DEF FiledMetrics
<1>2. old = Keyed(q, K, key) /\ x \in S /\ K[x] = key
  OBVIOUS
<1>3. \A n : FiledMetrics(n) <=> n \in Seq(S) /\ Distinct(n, K)
  BY DEF FiledMetrics
<1> HIDE DEF S, K
<1>4. Came(S, q, K, old, x)
  BY <1>1, <1>2, RowComes
<1> QED BY <1>3, <1>4 DEF Came

(* An approval goes.                                                        *)
LEMMA ApprovalGoes ==
  ASSUME NEW q, FiledApprovals(q), NEW key, NEW old, old = Keyed(q, ApprovalKey, key)
  PROVE  LET new == Without(q, old) IN
         /\ FiledApprovals(new) /\ Len(new) = Len(q) - One(old # {})
         /\ ToSet(new) = ToSet(q) \ old
<1> DEFINE S == ApprovalRecords
           K == ApprovalKey
<1>1. q \in Seq(S) /\ Distinct(q, K)
  BY DEF FiledApprovals
<1>2. old = Keyed(q, K, key)
  OBVIOUS
<1>3. \A n : FiledApprovals(n) <=> n \in Seq(S) /\ Distinct(n, K)
  BY DEF FiledApprovals
<1> HIDE DEF S, K
<1> QED BY <1>1, <1>2, <1>3, RowGoes

(* Events are typed.                                                        *)
LEMMA EventIs ==
  ASSUME NEW e \in Events
  PROVE  /\ e.source \in Sources /\ e.actor \in Actors /\ e.inc \in Incs /\ e.inc # 0
         /\ e.name \in STRING /\ e.startedAt \in Nat /\ e.startTicks \in Nat /\ e.usage \in Nat
         /\ e.value \in Values \cup {""} /\ e.validFor \in Nat /\ e.rel \in Relations \cup {""}
         /\ e.edge \in EdgeKeys /\ e.tinc \in Incs /\ e.cap \in Capabilities \cup {""}
         /\ e.kind \in Kinds
BY ReducerAssumption DEF EventRecord

(* How long evidence counts.                                                *)
LEMMA ValidityIs ==
  ASSUME NEW v, NEW requested \in Nat
  PROVE  NormalizeValidity(v, requested) \in Nat
<1>1. MaxValidity \in Nat /\ StateValidity \in Nat
  BY EvidenceAssumption
<1>2. Min({requested, MaxValidity}) \in Nat
  <2>1. \E x \in {requested, MaxValidity} : \A y \in {requested, MaxValidity} : x <= y
    BY <1>1
  <2> QED BY <1>1, <2>1 DEF Min
<1> QED BY <1>1, <1>2 DEF NormalizeValidity, DefaultValidity

(* The row of a state event, and of an exit.                                *)
LEMMA EvidenceIs ==
  ASSUME NEW e \in Events, NEW at \in Nat
  PROVE  /\ StateEvidence(e, at) \in StateRecords /\ StateEvidence(e, at).source = e.source
         /\ StateEvidence(e, at).value = e.value
         /\ ExitEvidence(e, at) \in StateRecords /\ ExitEvidence(e, at).source = e.source
         /\ ExitEvidence(e, at).value = e.value /\ ExitEvidence(e, at).until = 0
<1> DEFINE d == NormalizeValidity(e.value, e.validFor)
           until == IF d = 0 THEN 0 ELSE at + d
<1>1. until \in Nat
  <2>1. d \in Nat
    BY EventIs, ValidityIs
  <2> HIDE DEF d
  <2> QED BY <2>1
<1>2. StateEvidence(e, at) = Evidence(e.source, e.value, at, until, "state")
  BY DEF StateEvidence
<1> HIDE DEF until
<1>3. e.source \in Sources /\ e.value \in Values \cup {""}
  BY EventIs
<1>4. /\ Evidence(e.source, e.value, at, until, "state") \in StateRecords
      /\ Evidence(e.source, e.value, at, 0, "terminal") \in StateRecords
  BY <1>1, <1>3 DEF Evidence, StateRecords
<1> QED BY <1>2, <1>4 DEF Evidence, ExitEvidence

(* The approvals of a relationship, by key.                                 *)
LEMMA AskedRows ==
  ASSUME NEW q, FiledApprovals(q), NEW e
  PROVE  {x \in ToSet(q) : x.source = e.source /\ x.rel = e.rel}
           = Keyed(q, ApprovalKey, <<e.source, e.rel>>)
BY MembersIn DEF Keyed, FiledApprovals, ApprovalKey

(* A row of state evidence, or an approval.                                 *)
LEMMA RowsBooks ==
  ASSUME NEW t, IsOwners(t), Filed(t), t.history \in Int, NEW e \in Events, NEW at \in Nat
  PROVE  Refiled(t, StateRows(t, e, at), e.actor)
<1> DEFINE a == e.actor
           asked == {x \in ToSet(t.approvals[a]) : x.source = e.source /\ x.rel = e.rel}
           row == StateEvidence(e, at)
           ask == [source |-> e.source, rel |-> e.rel, evidence |-> row]
           ends == e.rel # "" /\ asked # {}
           u == StateRows(t, e, at)
<1>0. a \in Actors
  BY EventIs
<1>1. FiledActor(t, a) /\ ActorTyped(t, a)
  BY <1>0, ActorCostIs DEF Filed
<1>2. FiledApprovals(t.approvals[a]) /\ FiledStates(t.states[a])
  BY <1>1 DEF FiledActor
<1>3. asked = Keyed(t.approvals[a], ApprovalKey, <<e.source, e.rel>>)
  <2> HIDE DEF a
  <2> QED BY <1>2, AskedRows
<1>4. row \in StateRecords /\ StateKey[row] = e.source /\ row.source = e.source
  BY EvidenceIs DEF StateKey
<1>5. ask \in ApprovalRecords /\ ApprovalKey[ask] = <<e.source, e.rel>>
  BY <1>4, EventIs DEF ApprovalRecords, ApprovalKey
<1>6. CASE Awaits(e.value)
  <2> DEFINE q == Accept(t.approvals[a], asked, ask)
             H == t.history + One(asked = {})
             v == [t EXCEPT !.approvals[a] = q, !.history = H]
  <2>1. u = v
    BY <1>6 DEF StateRows
  <2> HIDE DEF asked, ask
  <2>2. FiledApprovals(q) /\ Len(q) = Len(t.approvals[a]) + One(asked = {})
    BY <1>2, <1>3, <1>5, ApprovalComes
  <2> HIDE DEF H, q
  <2>3. /\ Edited(t, v, a) /\ v.proofs[a] = t.proofs[a] /\ v.metrics[a] = t.metrics[a]
        /\ v.states[a] = t.states[a] /\ v.approvals[a] = q
        /\ v.health[a] = t.health[a] /\ v.history = H
    <3> HIDE DEF a
    <3> QED BY <1>0 DEF IsOwners, OwnerFields, Filed, EvidenceFields, Edited, StillFields
  <2> HIDE DEF v
  <2>4. FiledActor(v, a)
    BY <1>1, <2>2, <2>3 DEF FiledActor
  <2>5. Refiled(t, v, a)
    <3> DEFINE d == One(asked = {})
    <3>1. d \in Int /\ 0 \in Int
      BY OneIs
    <3>2. v.history = t.history + (0 + 0 + 0 + d + 0)
      BY <2>3, <3>1 DEF H
    <3>3. Len(v.approvals[a]) = Len(t.approvals[a]) + d
      BY <2>2, <2>3
    <3> HIDE DEF d
    <3>4. /\ Len(v.proofs[a]) = Len(t.proofs[a]) + 0 /\ Len(v.metrics[a]) = Len(t.metrics[a]) + 0
          /\ Len(v.states[a]) = Len(t.states[a]) + 0
          /\ Cardinality(v.health[a]) = Cardinality(t.health[a]) + 0
      BY <1>1, <2>3 DEF ActorTyped
    <3> QED BY <1>1, <2>3, <2>4, <3>1, <3>2, <3>3, <3>4, RefiledBy
  <2> QED BY <2>1, <2>5
<1>7. CASE ~Awaits(e.value)
  <2> DEFINE q == IF ends THEN Without(t.approvals[a], asked) ELSE t.approvals[a]
             s == AcceptOwn(t.states[a], row)
             H == t.history - One(ends) + One(~HoldsOwn(t.states[a], e))
             v == [t EXCEPT !.approvals[a] = q, !.states[a] = s, !.history = H]
             own == Own(t.states[a], row)
  <2>1. u = v
    BY <1>7 DEF StateRows
  <2>2. FiledApprovals(q) /\ Len(q) = Len(t.approvals[a]) - One(ends)
    <3>1. CASE ends
      <4>1. q = Without(t.approvals[a], asked)
        BY <3>1
      <4>2. asked # {}
        BY <3>1
      <4> HIDE DEF asked, q
      <4>3. /\ FiledApprovals(q) /\ Len(q) = Len(t.approvals[a]) - One(asked # {})
        BY <1>2, <1>3, <4>1, ApprovalGoes
      <4>4. One(asked # {}) = One(ends)
        BY <3>1, <4>2 DEF One
      <4> QED BY <4>3, <4>4
    <3>2. CASE ~ends
      <4>1. q = t.approvals[a]
        BY <3>2
      <4> HIDE DEF q, ends
      <4>2. One(ends) = 0 /\ Len(t.approvals[a]) \in Nat
        BY <1>1, <3>2 DEF One, ActorTyped
      <4> QED BY <1>2, <4>1, <4>2
    <3> QED BY <3>1, <3>2
  <2>3. own = Own(t.states[a], e)
    BY <1>4 DEF Own
  <2>4. s = Accept(t.states[a], own, row)
    BY DEF AcceptOwn
  <2> HIDE DEF s
  <2>5. FiledStates(s) /\ Len(s) = Len(t.states[a]) + One(own = {})
    <3> HIDE DEF row
    <3> QED BY <1>2, <1>4, <2>4, StateComes
  <2> HIDE DEF own
  <2>6. One(~HoldsOwn(t.states[a], e)) = One(own = {})
    BY <2>3 DEF HoldsOwn, One
  <2> HIDE DEF H, q
  <2>7. /\ Edited(t, v, a) /\ v.proofs[a] = t.proofs[a] /\ v.metrics[a] = t.metrics[a]
        /\ v.states[a] = s /\ v.approvals[a] = q
        /\ v.health[a] = t.health[a] /\ v.history = H
    <3> HIDE DEF a
    <3> QED BY <1>0 DEF IsOwners, OwnerFields, Filed, EvidenceFields, Edited, StillFields
  <2> HIDE DEF v
  <2>8. FiledActor(v, a)
    BY <1>1, <2>2, <2>5, <2>7 DEF FiledActor
  <2>9. Refiled(t, v, a)
    <3> DEFINE d == One(own = {})
               c == One(ends)
    <3> HIDE DEF ends
    <3>1. d \in Int /\ c \in Int /\ 0 - c \in Int /\ 0 \in Int
      BY DEF One
    <3>2. H = t.history - c + d
      BY <2>6 DEF H
    <3>3. /\ Len(v.approvals[a]) = Len(t.approvals[a]) + (0 - c)
          /\ Len(v.states[a]) = Len(t.states[a]) + d
      <4>1. Len(v.states[a]) = Len(t.states[a]) + d
        BY <2>5, <2>7
      <4>2. Len(v.approvals[a]) = Len(t.approvals[a]) - c
        BY <2>2, <2>7
      <4>3. Len(t.approvals[a]) \in Int
        BY <1>1 DEF ActorTyped
      <4> QED BY ONLY <3>1, <4>1, <4>2, <4>3
    <3> HIDE DEF d, c
    <3>4. v.history = t.history + (0 + 0 + d + (0 - c) + 0)
      BY <2>7, <3>1, <3>2
    <3>5. /\ Len(v.proofs[a]) = Len(t.proofs[a]) + 0 /\ Len(v.metrics[a]) = Len(t.metrics[a]) + 0
          /\ Cardinality(v.health[a]) = Cardinality(t.health[a]) + 0
      BY <1>1, <2>7 DEF ActorTyped
    <3> QED BY <1>1, <2>7, <2>8, <3>1, <3>3, <3>4, <3>5, RefiledBy
  <2> QED BY <2>1, <2>9
<1> QED BY <1>6, <1>7

(* The row of an exit.                                                      *)
ExitRow(t, e, at) ==
  [t EXCEPT !.states[e.actor] = AcceptOwn(@, ExitEvidence(e, at)),
            !.history = @ + One(~HoldsOwn(t.states[e.actor], e))]

LEMMA ExitBooks ==
  ASSUME NEW t, IsOwners(t), Filed(t), t.history \in Int, NEW e \in Events, NEW at \in Nat
  PROVE  Refiled(t, ExitRow(t, e, at), e.actor)
<1> DEFINE a == e.actor
           row == ExitEvidence(e, at)
           s == AcceptOwn(t.states[a], row)
           H == t.history + One(~HoldsOwn(t.states[a], e))
           v == [t EXCEPT !.states[a] = s, !.history = H]
           own == Own(t.states[a], row)
<1>0. a \in Actors
  BY EventIs
<1>1. FiledActor(t, a) /\ ActorTyped(t, a)
  BY <1>0, ActorCostIs DEF Filed
<1>2. FiledStates(t.states[a])
  BY <1>1 DEF FiledActor
<1>3. row \in StateRecords /\ StateKey[row] = e.source /\ row.source = e.source
  BY EvidenceIs DEF StateKey
<1>4. ExitRow(t, e, at) = v
  BY DEF ExitRow
<1>5. own = Own(t.states[a], e)
  BY <1>3 DEF Own
<1>6. s = Accept(t.states[a], own, row)
  BY DEF AcceptOwn
<1> HIDE DEF s, row
<1>7. FiledStates(s) /\ Len(s) = Len(t.states[a]) + One(own = {})
  BY <1>2, <1>3, <1>6, StateComes
<1> HIDE DEF own
<1>8. One(~HoldsOwn(t.states[a], e)) = One(own = {})
  BY <1>5 DEF HoldsOwn, One
<1> HIDE DEF H
<1>9. /\ Edited(t, v, a) /\ v.proofs[a] = t.proofs[a] /\ v.metrics[a] = t.metrics[a]
      /\ v.states[a] = s /\ v.approvals[a] = t.approvals[a]
      /\ v.health[a] = t.health[a] /\ v.history = H
  <2> HIDE DEF a
  <2> QED BY <1>0 DEF IsOwners, OwnerFields, Filed, EvidenceFields, Edited, StillFields
<1> HIDE DEF v
<1>10. FiledActor(v, a)
  BY <1>1, <1>7, <1>9 DEF FiledActor
<1>11. Refiled(t, v, a)
  <2> DEFINE d == One(own = {})
  <2>1. d \in Int /\ 0 \in Int
    BY OneIs
  <2>2. v.history = t.history + (0 + 0 + d + 0 + 0)
    BY <1>8, <1>9, <2>1 DEF H
  <2>3. Len(v.states[a]) = Len(t.states[a]) + d
    BY <1>7, <1>9
  <2> HIDE DEF d
  <2>4. /\ Len(v.proofs[a]) = Len(t.proofs[a]) + 0 /\ Len(v.metrics[a]) = Len(t.metrics[a]) + 0
        /\ Len(v.approvals[a]) = Len(t.approvals[a]) + 0
        /\ Cardinality(v.health[a]) = Cardinality(t.health[a]) + 0
    BY <1>1, <1>9 DEF ActorTyped
  <2> QED BY <1>1, <1>9, <1>10, <2>1, <2>2, <2>3, <2>4, RefiledBy
<1> QED BY <1>4, <1>11

(* The units are a number.                                                  *)
LEMMA HistoryIs ==
  ASSUME NEW t, Filed(t), Balanced(t)
  PROVE  t.history \in Nat
<1> DEFINE x == SumOver(ActorCosts(t), Actors)
           z == SumOver(EdgeCosts(t), EdgeKeys)
           r == Cardinality(t.retired)
           c == Cardinality(MovedCursors(t))
<1>1. x \in Nat /\ z \in Nat /\ r \in Nat /\ c \in Nat
  BY CostsAreNumbers DEF CostsTyped
<1>2. t.history = r + c + z + x
  BY DEF Balanced
<1> HIDE DEF x, z, r, c
<1> QED BY <1>1, <1>2

(* Steps beside the books: nothing that is counted changes.                 *)
CountedFields == {"retired", "cursors", "history", "current"}
SameBooks(t, u) ==
  /\ \A f \in EvidenceFields \cup CountedFields : u[f] = t[f]
  /\ \A k \in EdgeKeys : Linked(u, k) <=> Linked(t, k)
  /\ \A k \in EdgeKeys : Linked(t, k) =>
       /\ u.edges[k].contributors = t.edges[k].contributors
       /\ u.edges[k].messages = t.edges[k].messages

LEMMA SameBooksBalance ==
  ASSUME NEW t, NEW u, Filed(t), Balanced(t), SameBooks(t, u)
  PROVE  Filed(u) /\ Balanced(u)
<1>1. /\ u.retired = t.retired /\ u.cursors = t.cursors /\ u.history = t.history
      /\ u.proofs = t.proofs /\ u.metrics = t.metrics
      /\ u.states = t.states /\ u.approvals = t.approvals /\ u.health = t.health
  BY DEF SameBooks, EvidenceFields, CountedFields
<1>2. \A k \in EdgeKeys : /\ Linked(u, k) <=> Linked(t, k)
                          /\ Linked(t, k) => /\ FiledEdge(k, u.edges[k])
                                             /\ EdgeCost(u.edges[k]) = EdgeCost(t.edges[k])
  BY DEF SameBooks, Filed, FiledEdge, EdgeCost
<1>3. EdgeCosts(u) = EdgeCosts(t)
  BY <1>2 DEF EdgeCosts
<1>4. ActorCosts(u) = ActorCosts(t) /\ MovedCursors(u) = MovedCursors(t)
  BY <1>1 DEF ActorCosts, ActorCost, EvidenceUnits, MovedCursors
<1>5. Balanced(u)
  BY <1>1, <1>3, <1>4 DEF Balanced
<1>7. \A a \in Actors : FiledActor(u, a)
  BY <1>1 DEF Filed, FiledActor
<1>8. \A f \in EvidenceFields : u[f] = [a \in Actors |-> u[f][a]]
  <2>1. \A f \in EvidenceFields : u[f] = t[f] /\ t[f] = [a \in Actors |-> t[f][a]]
    BY DEF SameBooks, Filed
  <2> QED BY <2>1, Zenon
<1>9. IsFiniteSet(u.retired) /\ IsFiniteSet(MovedCursors(u))
      /\ u.cursors = [k \in Sources \X Actors |-> u.cursors[k]]
  BY <1>1, <1>4 DEF Filed
<1> QED BY <1>2, <1>5, <1>7, <1>8, <1>9 DEF Filed

LEMMA SameBooksBooked ==
  ASSUME NEW t, NEW u, Booked(t), SameBooks(t, u)
  PROVE  Booked(u)
<1>1. Filed(u) /\ Balanced(u)
  BY SameBooksBalance DEF Booked
<1>2. u.retired = t.retired /\ u.current = t.current
  BY DEF SameBooks, CountedFields
<1>3. Retiring(u)
  BY <1>2 DEF Booked, Retiring
<1> QED BY <1>1, <1>3 DEF Booked

(* Two of them are one.                                                     *)
LEMMA SameBooksAgain ==
  ASSUME NEW t, NEW u, NEW v, SameBooks(t, u), SameBooks(u, v)
  PROVE  SameBooks(t, v)
<1>1. \A f \in EvidenceFields \cup CountedFields : v[f] = t[f]
  BY DEF SameBooks
<1> QED BY <1>1 DEF SameBooks

(* A change of other fields alone.                                          *)
LEMMA OtherFields ==
  ASSUME NEW t, NEW u, \A f \in EvidenceFields \cup CountedFields \cup {"edges"} : u[f] = t[f]
  PROVE  SameBooks(t, u)
BY DEF SameBooks, Linked

(* An error.                                                                *)
LEMMA FailedSame ==
  ASSUME NEW t, IsOwners(t), NEW rule
  PROVE  SameBooks(t, Failed(t, rule))
<1>1. \A f \in OwnerFields \ {"error"} : Failed(t, rule)[f] = t[f]
  BY DEF Failed, IsOwners, OwnerFields
<1> QED BY <1>1, OtherFields DEF OwnerFields, EvidenceFields, CountedFields

LEMMA LoggedSame ==
  ASSUME NEW t, IsOwners(t), NEW a, NEW now, NEW value, NEW moves
  PROVE  SameBooks(t, Logged(t, a, now, value, moves))
<1>1. SameBooks(t, t)
  BY DEF SameBooks
<1>2. SameBooks(t, Failed(t, "transition-time"))
  BY FailedSame
<1>3. SameBooks(t, [t EXCEPT !.transitions[a] = NextTransitions(t.transitions[a], now, value)])
  <2> DEFINE u == [t EXCEPT !.transitions[a] = NextTransitions(t.transitions[a], now, value)]
  <2>1. \A f \in OwnerFields \ {"transitions"} : u[f] = t[f]
    BY DEF IsOwners, OwnerFields
  <2> HIDE DEF u
  <2>2. SameBooks(t, u)
    BY <2>1, OtherFields DEF OwnerFields, EvidenceFields, CountedFields
  <2> QED BY <2>2 DEF u
<1> QED BY <1>1, <1>2, <1>3 DEF Logged

LEMMA WithNodeSame ==
  ASSUME NEW t, IsOwners(t), NEW a, NEW n
  PROVE  SameBooks(t, WithNode(t, a, n))
<1> DEFINE m == [n EXCEPT !.partial = NodePartial(n, t.gaps)]
           u == [t EXCEPT !.nodes[a] = m]
<1>1. WithNode(t, a, n) = u
  BY DEF WithNode
<1> HIDE DEF m
<1>2. \A f \in OwnerFields \ {"nodes"} : u[f] = t[f]
  BY DEF IsOwners, OwnerFields
<1> HIDE DEF u
<1> QED BY <1>1, <1>2, OtherFields DEF OwnerFields, EvidenceFields, CountedFields

LEMMA StaleBitSame ==
  ASSUME NEW t, IsOwners(t), NEW a, NEW stale
  PROVE  SameBooks(t, StaleBit(t, a, stale))
<1>1. SameBooks(t, Failed(t, "state-owner"))
  BY FailedSame
<1> DEFINE u == [t EXCEPT !.nodes[a].stale = stale]
<1>2. \A f \in OwnerFields \ {"nodes"} : u[f] = t[f]
  BY DEF IsOwners, OwnerFields
<1> HIDE DEF u
<1>3. SameBooks(t, u)
  BY <1>2, OtherFields DEF OwnerFields, EvidenceFields, CountedFields
<1> QED BY <1>1, <1>3 DEF StaleBit, u

LEMMA PinSame ==
  ASSUME NEW t, IsOwners(t), NEW a, NEW pinned
  PROVE  SameBooks(t, [t EXCEPT !.nodes[a].pinned = pinned])
<1> DEFINE u == [t EXCEPT !.nodes[a].pinned = pinned]
<1>2. \A f \in OwnerFields \ {"nodes"} : u[f] = t[f]
  BY DEF IsOwners, OwnerFields
<1> HIDE DEF u
<1>3. SameBooks(t, u)
  BY <1>2, OtherFields DEF OwnerFields, EvidenceFields, CountedFields
<1> QED BY <1>3 DEF u

(* Relationships that become ghosts.                                        *)
LEMMA GhostEdgesSame ==
  ASSUME NEW t, IsOwners(t), NEW a, NEW inc
  PROVE  SameBooks(t, GhostEdges(t, a, inc))
<1> DEFINE K == {k \in EdgesOf(t, a, inc) : k.type # "message"}
           edges == [k \in EdgeKeys |-> IF k \in K THEN [t.edges[k] EXCEPT !.ghost = TRUE]
                                        ELSE t.edges[k]]
           u == [t EXCEPT !.edges = edges]
<1>1. GhostEdges(t, a, inc) = u
  BY DEF GhostEdges
<1>2. ASSUME NEW k \in EdgeKeys
      PROVE  /\ edges[k] # NoEdge <=> Linked(t, k)
             /\ Linked(t, k) => /\ edges[k].contributors = t.edges[k].contributors
                                /\ edges[k].messages = t.edges[k].messages
  <2>1. CASE k \in K
    <3>1. Linked(t, k) /\ edges[k] = [t.edges[k] EXCEPT !.ghost = TRUE]
      BY <2>1 DEF EdgesOf
    <3>2. IsEdge(t.edges[k])
      BY <3>1, LinkedIsEdge
    <3>3. IsEdge(edges[k])
      BY <3>1, <3>2, GhostedIs
    <3> HIDE DEF edges
    <3> QED BY <3>1, <3>2, <3>3, GhostedIs, EdgeShows
  <2>2. CASE k \notin K
    BY <2>2 DEF Linked
  <2> QED BY <2>1, <2>2
<1> HIDE DEF edges
<1>3. \A f \in OwnerFields \ {"edges"} : u[f] = t[f]
  BY DEF IsOwners, OwnerFields
<1>4. u.edges = edges
  BY DEF IsOwners, OwnerFields
<1> HIDE DEF u
<1>5. \A f \in EvidenceFields \cup CountedFields : u[f] = t[f]
  BY <1>3 DEF OwnerFields, EvidenceFields, CountedFields
<1> QED BY <1>1, <1>2, <1>4, <1>5 DEF SameBooks, Linked

(* A node in another state.                                                 *)
LEMMA ProjectSame ==
  ASSUME NEW t, IsOwners(t), NEW a \in Actors, NEW now, NEW winner,
         NEW after, IsNode(after)
  PROVE  SameBooks(t, ProjectAs(t, a, now, winner, after))
<1> DEFINE l == Logged(t, a, now, winner.value, after.state # t.nodes[a].state)
           v == WithNode(l, a, after)
           w == IF Terminal(winner.value) THEN GhostEdges(v, a, after.inc) ELSE v
<1>1. ProjectAs(t, a, now, winner, after) = w
  BY DEF ProjectAs
<1>2. IsOwners(l) /\ SameBooks(t, l)
  BY LoggedAside, LoggedSame DEF Aside
<1> HIDE DEF l
<1>3. IsOwners(v) /\ SameBooks(l, v)
  BY <1>2, WithNodeDoes, WithNodeSame
<1> HIDE DEF v
<1>4. SameBooks(v, v)
  BY DEF SameBooks
<1>5. SameBooks(v, GhostEdges(v, a, after.inc))
  BY <1>3, GhostEdgesSame
<1>6. SameBooks(v, w)
  BY <1>4, <1>5
<1> HIDE DEF w
<1> QED BY <1>1, <1>2, <1>3, <1>6, SameBooksAgain

(* stageStateProjection.                                                    *)
LEMMA ProjectionSame ==
  ASSUME NEW t, IsOwners(t), NEW a \in Actors, NEW now
  PROVE  SameBooks(t, StateProjection(t, a, now))
<1>1. CASE ~Present(t, a)
  BY <1>1, FailedSame DEF StateProjection
<1>2. CASE Present(t, a)
  <2> DEFINE winner == FoldState(t.states[a], t.approvals[a], t.health[a], now)
             after == WithState(t.nodes[a], winner)
  <2>1. StateProjection(t, a, now) = ProjectAs(t, a, now, winner, after)
    BY <1>2 DEF StateProjection, ProjectTo
  <2> HIDE DEF winner
  <2>2. IsNode(t.nodes[a])
    BY <1>2, PresentIsNode
  <2>3. IsNode(after)
    BY <2>2, WithStateIs
  <2> HIDE DEF after
  <2> QED BY <2>1, <2>3, ProjectSame
<1> QED BY <1>1, <1>2

(* Both at once: sound, and in the books.                                   *)
Well(t) == Sound(t) /\ Booked(t)

LEMMA SameWell ==
  ASSUME NEW t, NEW u, Well(t), Sound(u), SameBooks(t, u)
  PROVE  Well(u)
BY SameBooksBooked DEF Well

LEMMA RefiledWell ==
  ASSUME NEW t, NEW u, NEW a \in Actors, Well(t), Keeps(t, u), Refiled(t, u, a)
  PROVE  Well(u)
BY RefiledBooks DEF Well, Keeps

LEMMA WellHistory ==
  ASSUME NEW t, Well(t)
  PROVE  IsOwners(t) /\ Filed(t) /\ t.history \in Int
BY HistoryIs DEF Well, Booked, Sound

LEMMA ProjectionWell ==
  ASSUME NEW t, Well(t), NEW a \in Actors, NEW now
  PROVE  Well(StateProjection(t, a, now))
<1>1. Keeps(t, StateProjection(t, a, now)) /\ SameBooks(t, StateProjection(t, a, now))
  BY ProjectionKeeps, ProjectionSame DEF Well, Sound
<1> QED BY <1>1, SameWell DEF Keeps

LEMMA StateWell ==
  ASSUME NEW t, Well(t), NEW e \in Events, NEW at \in Nat, NEW now
  PROVE  Well(StageState(t, e, at, now))
<1> DEFINE a == e.actor
           u == IF ~Terminal(e.value) /\ e.source.authority # Passive
                THEN RefreshHealth(t, a, HealthKey(e.source), at) ELSE t
           w == StateRows(u, e, at)
           x == IF Terminal(e.value) THEN ClearApprovals(w, a) ELSE w
<1>0. a \in Actors
  BY EventIs
<1>1. StageState(t, e, at, now) = StateProjection(x, a, now)
  BY DEF StageState
<1>2. Well(u)
  <2> DEFINE h == HealthKey(e.source)
             r == RefreshHealth(t, a, h, at)
  <2>1. u \in {t, r}
    OBVIOUS
  <2> HIDE DEF h, a
  <2>2. Keeps(t, r) /\ Refiled(t, r, a)
    BY <1>0, WellHistory, RefreshAside, AsideKeeps, RefreshBooks DEF Well
  <2> QED BY <1>0, <2>1, <2>2, RefiledWell
<1> HIDE DEF u
<1>3. Well(w)
  <2>1. Keeps(u, w) /\ Refiled(u, w, a)
    BY <1>2, WellHistory, RowsAside, AsideKeeps, RowsBooks DEF Well
  <2> HIDE DEF w, a
  <2> QED BY <1>0, <1>2, <2>1, RefiledWell
<1> HIDE DEF w, a
<1>4. Well(x)
  <2>1. Keeps(w, ClearApprovals(w, a)) /\ Refiled(w, ClearApprovals(w, a), a)
    BY <1>0, <1>3, WellHistory, ClearAside, AsideKeeps, ClearBooks DEF Well
  <2>2. Well(ClearApprovals(w, a))
    BY <1>0, <1>3, <2>1, RefiledWell
  <2> QED BY <1>3, <2>2
<1> HIDE DEF x
<1> QED BY <1>0, <1>1, <1>4, ProjectionWell

LEMMA ExitWell ==
  ASSUME NEW t, Well(t), NEW e \in Events, NEW at \in Nat, NEW now
  PROVE  Well(StageExit(t, e, at, now))
<1> DEFINE a == e.actor
           u == ExitRow(t, e, at)
           x == ClearApprovals(u, a)
<1>0. a \in Actors
  BY EventIs
<1>1. StageExit(t, e, at, now) = StateProjection(x, a, now)
  BY DEF StageExit, ExitRow
<1>2. Aside(t, u)
  BY DEF ExitRow, Well, Sound, Aside, SharedFields, IsOwners, OwnerFields
<1>3. Refiled(t, u, a)
  BY WellHistory, ExitBooks
<1> HIDE DEF u, a
<1>4. Well(u)
  BY <1>0, <1>2, <1>3, AsideKeeps, RefiledWell DEF Well
<1>5. Keeps(u, x) /\ Refiled(u, x, a)
  BY <1>0, <1>4, WellHistory, ClearAside, AsideKeeps, ClearBooks DEF Well
<1> HIDE DEF x
<1>6. Well(x)
  BY <1>0, <1>4, <1>5, RefiledWell
<1> QED BY <1>0, <1>1, <1>6, ProjectionWell

LEMMA StaleBitWell ==
  ASSUME NEW t, Well(t), NEW a \in Actors, NEW b
  PROVE  Well(StaleBit(t, a, b))
<1>1. Keeps(t, StaleBit(t, a, b)) /\ SameBooks(t, StaleBit(t, a, b))
  BY StaleBitKeeps, StaleBitSame DEF Well, Sound
<1> QED BY <1>1, SameWell DEF Keeps

LEMMA HeartbeatWell ==
  ASSUME NEW t, Well(t), NEW e \in Events, NEW at \in Nat, NEW now
  PROVE  Well(StageHeartbeat(t, e, at, now))
<1> DEFINE a == e.actor
           s == e.source
           u == RefreshHealth(t, a, s, at)
           v == StateProjection(u, a, now)
           b == FALSE
<1>0. a \in Actors
  BY EventIs
<1>1. StageHeartbeat(t, e, at, now) = Heard(v, e)
  BY DEF StageHeartbeat
<1>4. Heard(v, e) \in {v, StaleBit(v, a, b)}
  BY DEF Heard
<1> HIDE DEF a, s, b
<1>2. Keeps(t, u) /\ Refiled(t, u, a)
  BY <1>0, WellHistory, RefreshAside, AsideKeeps, RefreshBooks DEF Well
<1> HIDE DEF u
<1>3. Well(v)
  BY <1>0, <1>2, RefiledWell, ProjectionWell
<1> HIDE DEF v
<1>5. Well(StaleBit(v, a, b))
  BY <1>0, <1>3, StaleBitWell
<1> QED BY <1>1, <1>3, <1>4, <1>5

LEMMA SettleWell ==
  ASSUME NEW t, Well(t), NEW a \in Actors, NEW now, NEW lanes
  PROVE  Well(Settle(t, a, now, lanes, PurgeHealth(t, a, lanes)))
<1> DEFINE u == PurgeHealth(t, a, lanes)
           v == StateProjection(u, a, now)
           silent == \E c \in ToSet(t.proofs[a]) : /\ c.source.authority = Native
                                                   /\ HealthKey(c.source) \in lanes
           suspect == silent \/ HealthMissing(u, a, now)
           dead == ~Terminal(v.nodes[a].state.value)
                     /\ UnheardOf(v.proofs[a], v.health[a], now)
<1>1. Settle(t, a, now, lanes, u) = MarkStale(v, a, now, suspect)
  BY DEF Settle
<1>2. Keeps(t, u) /\ Refiled(t, u, a)
  BY WellHistory, PurgeAside, AsideKeeps, PurgeBooks DEF Well
<1> HIDE DEF u
<1>3. Well(v)
  BY <1>2, RefiledWell, ProjectionWell
<1>4. MarkStale(v, a, now, suspect) \in {v, StaleBit(v, a, dead)}
  BY DEF MarkStale
<1> HIDE DEF v, suspect, dead
<1>5. Well(StaleBit(v, a, dead))
  BY <1>3, StaleBitWell
<1> QED BY <1>1, <1>3, <1>4, <1>5 DEF u

LEMMA SettlesWell ==
  ASSUME NEW t, Well(t), NEW now, NEW S, S \subseteq Actors, IsFiniteSet(S), NEW f,
         Settles(f, t, now, S)
  PROVE  Well(f[S])
<1> DEFINE bad == {s \in SUBSET S : ~Well(f[s])}
<1>1. ASSUME bad # {} PROVE FALSE
  <2>0. bad \subseteq SUBSET S
    OBVIOUS
  <2>1. PICK least \in bad : \A b \in bad : b \subseteq least => b = least
    <3> HIDE DEF bad
    <3> QED BY <1>1, <2>0, SmallestException
  <2>2. least \in SUBSET S /\ ~Well(f[least])
    BY <2>1
  <2>3. least # {}
    BY <2>2 DEF Settles
  <2>4. Chosen(least) \in least
    BY <2>3, PickMember
  <2> DEFINE rest == least \ {Chosen(least)}
             u == f[rest]
             a == Chosen(least)
             lanes == DueLanes(t, a, now)
  <2>5. rest \in SUBSET S /\ rest \subseteq least /\ rest # least
    BY <2>2, <2>4
  <2>6. Well(u)
    BY <2>1, <2>5
  <2>7. f[least] = SettleOne(t, now, a, u)
    BY <2>2, <2>3 DEF Settles
  <2>8. SettleOne(t, now, a, u) \in {u, Settle(u, a, now, lanes, PurgeHealth(u, a, lanes))}
    BY DEF SettleOne
  <2>9. a \in Actors
    BY <2>2, <2>4
  <2> HIDE DEF u, lanes, a
  <2>10. Well(Settle(u, a, now, lanes, PurgeHealth(u, a, lanes)))
    BY <2>6, <2>9, SettleWell
  <2> QED BY <2>2, <2>6, <2>7, <2>8, <2>10
<1>2. S \notin bad
  BY <1>1
<1> QED BY <1>2

LEMMA DueWell ==
  ASSUME NEW t, Well(t), NEW now
  PROVE  Well(DueStateExpiry(t, now))
<1> DEFINE S == {a \in Actors : \/ \E e \in ToSet(t.states[a]) : ~Current(e, now)
                                \/ DueLanes(t, a, now) # {} \/ HealthMissing(t, a, now)}
           f == CHOOSE h : Settles(h, t, now, S)
<1>1. S \subseteq Actors /\ IsFiniteSet(S)
  BY FS_Subset, ReducerAssumption
<1>2. DueStateExpiry(t, now) = f[S]
  <2> HIDE DEF S
  <2> QED BY DEF DueStateExpiry, FoldSet, MapThenFoldSet, Settles, SettleOne, Chosen, S
<1> HIDE DEF S
<1>3. Settles(f, t, now, S)
  BY <1>1, SettlesExist
<1> HIDE DEF f
<1> QED BY <1>1, <1>2, <1>3, SettlesWell

(* Marking what is partial anew.                                            *)
LEMMA PartialUpdatesSame ==
  ASSUME NEW t, IsOwners(t), NEW G
  PROVE  SameBooks(t, PartialUpdates([t EXCEPT !.gaps = G]))
<1> DEFINE v == [t EXCEPT !.gaps = G]
           N == [a \in Actors |-> IF Present(t, a)
                 THEN [t.nodes[a] EXCEPT !.partial = NodePartial(t.nodes[a], G)] ELSE NoNode]
           E == [k \in EdgeKeys |-> IF Linked(t, k)
                 THEN [t.edges[k] EXCEPT !.partial = EdgePartial(k, t.edges[k], G)] ELSE NoEdge]
           u == [v EXCEPT !.nodes = N, !.edges = E]
<1>1. /\ v.gaps = G /\ \A f \in OwnerFields \ {"gaps"} : v[f] = t[f]
      /\ DOMAIN v = OwnerFields /\ v = [f \in OwnerFields |-> v[f]]
  BY DEF IsOwners, OwnerFields
<1>2. PartialUpdates(v) = u
  <2>1. v.nodes = t.nodes /\ v.edges = t.edges /\ v.gaps = G
    BY <1>1 DEF OwnerFields
  <2> HIDE DEF v
  <2> QED BY <2>1 DEF PartialUpdates, Present, Linked
<1>3. \A k \in EdgeKeys : Linked(t, k) =>
        /\ E[k] # NoEdge /\ E[k].contributors = t.edges[k].contributors
        /\ E[k].messages = t.edges[k].messages
  <2> SUFFICES ASSUME NEW k \in EdgeKeys, Linked(t, k)
               PROVE  /\ E[k] # NoEdge /\ E[k].contributors = t.edges[k].contributors
                      /\ E[k].messages = t.edges[k].messages
    OBVIOUS
  <2> DEFINE n == t.edges[k]
             p == EdgePartial(k, n, G)
             m == [n EXCEPT !.partial = p]
  <2>1. IsEdge(n)
    BY LinkedIsEdge
  <2>2. E[k] = m
    OBVIOUS
  <2> HIDE DEF E
  <2>3. IsEdge(m) /\ m.messages = n.messages /\ m.contributors = n.contributors
    <3> HIDE DEF n, p
    <3> QED BY <2>1 DEF IsEdge
  <2> HIDE DEF m
  <2> QED BY <2>2, <2>3, EdgeShows
<1>4. \A k \in EdgeKeys : ~Linked(t, k) => E[k] = NoEdge
  OBVIOUS
<1> HIDE DEF N, E, v
<1>5. u.edges = E /\ \A f \in OwnerFields \ {"nodes", "edges", "gaps"} : u[f] = t[f]
  BY <1>1 DEF OwnerFields
<1> HIDE DEF u
<1>6. \A f \in EvidenceFields \cup CountedFields : u[f] = t[f]
  BY <1>5 DEF OwnerFields, EvidenceFields, CountedFields
<1>7. SameBooks(t, u)
  BY <1>3, <1>4, <1>5, <1>6 DEF SameBooks, Linked
<1> QED BY <1>2, <1>7 DEF v

LEMMA GapWell ==
  ASSUME NEW t, Well(t), NEW e
  PROVE  Well(StageGap(t, e))
<1> DEFINE G == IF e.resolved THEN t.gaps \ {ObservedGap(e)} ELSE t.gaps \cup {ObservedGap(e)}
           u == PartialUpdates([t EXCEPT !.gaps = G])
<1>1. StageGap(t, e) = u
  BY DEF StageGap
<1> HIDE DEF G
<1>2. Sound(u) /\ SameBooks(t, u)
  BY PartialUpdatesKeeps, PartialUpdatesSame DEF Well, Sound, Keeps
<1> HIDE DEF u
<1> QED BY <1>1, <1>2, SameWell

LEMMA DiagnosedWell ==
  ASSUME NEW t, Well(t), NEW e, NEW refusal
  PROVE  Well(Diagnosed(t, e, refusal))
<1>1. PICK G : Diagnosed(t, e, refusal) = PartialUpdates([t EXCEPT !.gaps = G])
  BY DEF Diagnosed
<1> DEFINE u == PartialUpdates([t EXCEPT !.gaps = G])
<1>2. Sound(u) /\ SameBooks(t, u)
  BY PartialUpdatesKeeps, PartialUpdatesSame DEF Well, Sound, Keeps
<1> HIDE DEF u
<1>3. Well(u)
  BY <1>2, SameWell
<1> QED BY <1>1, <1>3 DEF u

(* Pinning.                                                                 *)
LEMMA PinWell ==
  ASSUME NEW t, Well(t), NEW a \in Actors, Present(t, a), NEW b
  PROVE  Well([t EXCEPT !.nodes[a].pinned = b])
<1> DEFINE u == [t EXCEPT !.nodes[a].pinned = b]
<1>1. Keeps(t, u) /\ SameBooks(t, u)
  BY PinKeeps, PinSame DEF Well, Sound
<1> HIDE DEF u
<1>2. Well(u)
  BY <1>1, SameWell DEF Keeps
<1> QED BY <1>2 DEF u

(* The row of a usage.                                                      *)
MetricsRow(t, e, at) ==
  LET a == e.actor
      old == {x \in ToSet(t.metrics[a]) : x.source = e.source /\ x.inc = e.inc}
  IN [t EXCEPT !.metrics[a] = Accept(@, old, [source |-> e.source, inc |-> e.inc,
                                              at |-> at, usage |-> e.usage]),
               !.history = @ + One(old = {})]

LEMMA UsedRows ==
  ASSUME NEW q, FiledMetrics(q), NEW e
  PROVE  {x \in ToSet(q) : x.source = e.source /\ x.inc = e.inc}
           = Keyed(q, MetricsKey, <<e.source, e.inc>>)
BY MembersIn DEF Keyed, FiledMetrics, MetricsKey

LEMMA MetricsRowBooks ==
  ASSUME NEW t, IsOwners(t), Filed(t), t.history \in Int, NEW e \in Events, NEW at \in Nat
  PROVE  Refiled(t, MetricsRow(t, e, at), e.actor)
<1> DEFINE a == e.actor
           old == {x \in ToSet(t.metrics[a]) : x.source = e.source /\ x.inc = e.inc}
           row == [source |-> e.source, inc |-> e.inc, at |-> at, usage |-> e.usage]
           key == <<e.source, e.inc>>
           s == Accept(t.metrics[a], old, row)
           H == t.history + One(old = {})
           v == [t EXCEPT !.metrics[a] = s, !.history = H]
<1>0. a \in Actors
  BY EventIs
<1>1. FiledActor(t, a) /\ ActorTyped(t, a)
  BY <1>0, ActorCostIs DEF Filed
<1>2. FiledMetrics(t.metrics[a])
  BY <1>1 DEF FiledActor
<1>3. row \in MetricsRecords /\ MetricsKey[row] = key
  BY EventIs DEF MetricsKey, MetricsRecords
<1>4. MetricsRow(t, e, at) = v
  BY DEF MetricsRow
<1>5. old = Keyed(t.metrics[a], MetricsKey, key)
  <2> HIDE DEF a
  <2> QED BY <1>2, UsedRows
<1> HIDE DEF old, row, key
<1>7. FiledMetrics(s) /\ Len(s) = Len(t.metrics[a]) + One(old = {})
  BY <1>2, <1>3, <1>5, MetricsComes
<1> HIDE DEF H, s
<1>9. /\ Edited(t, v, a) /\ v.proofs[a] = t.proofs[a] /\ v.metrics[a] = s
      /\ v.states[a] = t.states[a] /\ v.approvals[a] = t.approvals[a]
      /\ v.health[a] = t.health[a] /\ v.history = H
  <2> HIDE DEF a
  <2> QED BY <1>0 DEF IsOwners, OwnerFields, Filed, EvidenceFields, Edited, StillFields
<1> HIDE DEF v
<1>10. FiledActor(v, a)
  BY <1>1, <1>7, <1>9 DEF FiledActor
<1>11. Refiled(t, v, a)
  <2> DEFINE d == One(old = {})
  <2>1. d \in Int /\ 0 \in Int
    BY OneIs
  <2>2. v.history = t.history + (0 + d + 0 + 0 + 0)
    BY <1>9, <2>1 DEF H
  <2>3. Len(v.metrics[a]) = Len(t.metrics[a]) + d
    BY <1>7, <1>9
  <2> HIDE DEF d
  <2>4. /\ Len(v.proofs[a]) = Len(t.proofs[a]) + 0 /\ Len(v.states[a]) = Len(t.states[a]) + 0
        /\ Len(v.approvals[a]) = Len(t.approvals[a]) + 0
        /\ Cardinality(v.health[a]) = Cardinality(t.health[a]) + 0
    BY <1>1, <1>9 DEF ActorTyped
  <2> QED BY <1>1, <1>9, <1>10, <2>1, <2>2, <2>3, <2>4, RefiledBy
<1> QED BY <1>4, <1>11

LEMMA MetricsWell ==
  ASSUME NEW t, Well(t), NEW e \in Events, NEW at \in Nat
  PROVE  Well(StageMetrics(t, e, at))
<1> DEFINE a == e.actor
           u == MetricsRow(t, e, at)
           fold == FoldMetrics(u.metrics[a])
           m == [t.nodes[a] EXCEPT !.usage = fold.usage, !.metricSources = fold.sources]
<1>1. StageMetrics(t, e, at) = IF ~Present(t, a) THEN Failed(t, "metrics-owner")
                               ELSE WithNode(u, a, m)
  BY DEF StageMetrics, MetricsRow
<1>2. Sound(StageMetrics(t, e, at))
  BY MetricsKeeps DEF Well, Keeps
<1>3. CASE ~Present(t, a)
  BY <1>1, <1>2, <1>3, FailedSame, SameWell DEF Well, Sound
<1>4. CASE Present(t, a)
  <2>1. Refiled(t, u, a)
    BY WellHistory, MetricsRowBooks
  <2>2. IsOwners(u) /\ u.current = t.current
    BY DEF Well, Sound, IsOwners, OwnerFields, MetricsRow
  <2>3. a \in Actors
    BY EventIs
  <2> HIDE DEF u, a, m
  <2>4. Booked(u)
    BY <2>1, <2>2, <2>3, RefiledBooks DEF Well
  <2>5. SameBooks(u, WithNode(u, a, m))
    BY <2>2, WithNodeSame
  <2>6. Booked(WithNode(u, a, m))
    BY <2>4, <2>5, SameBooksBooked
  <2> QED BY <1>1, <1>2, <1>4, <2>6 DEF Well
<1> QED BY <1>3, <1>4

(* A cursor that moves is counted once.                                     *)
LEMMA CursorWell ==
  ASSUME NEW t, Well(t), NEW e \in Events, NEW at \in Nat \ {0}
  PROVE  Well(MoveCursor(t, e, at))
<1> DEFINE key == <<e.source, e.actor>>
           c == [ordered |-> e.ordered, at |-> at]
           C == [t.cursors EXCEPT ![key] = c]
           d == One(CursorOf(t, e) = NoCursor)
           H == t.history + d
           u == [t EXCEPT !.cursors = C, !.history = H]
<1>1. CASE ~Observed(e)
  BY <1>1 DEF MoveCursor
<1>2. CASE Observed(e)
  <2>1. MoveCursor(t, e, at) = u
    BY <1>2 DEF MoveCursor
  <2>2. Sound(MoveCursor(t, e, at))
    BY CursorAside, AsideKeeps DEF Well, Sound, Keeps
  <2>3. key \in Sources \X Actors /\ c # NoCursor
    BY EventIs DEF NoCursor
  <2>4. t.cursors = [k \in Sources \X Actors |-> t.cursors[k]] /\ IsFiniteSet(MovedCursors(t))
        /\ d = One(t.cursors[key] = NoCursor)
    BY DEF Well, Booked, Filed, CursorOf
  <2> HIDE DEF key, c, d
  <2>5. /\ C = [k \in Sources \X Actors |-> C[k]] /\ C[key] = c
        /\ \A k \in Sources \X Actors : k # key => C[k] = t.cursors[k]
    BY <2>3, <2>4
  <2> HIDE DEF C, H
  <2>6. u.cursors = C /\ u.history = H /\ \A f \in OwnerFields \ {"cursors", "history"} : u[f] = t[f]
    BY DEF Well, Sound, IsOwners, OwnerFields
  <2>7. MovedCursors(u) = MovedCursors(t) \cup {key}
    <3>1. DOMAIN C = Sources \X Actors /\ DOMAIN t.cursors = Sources \X Actors
      BY <2>4, <2>5
    <3> HIDE DEF u
    <3> QED BY <2>3, <2>5, <2>6, <3>1 DEF MovedCursors
  <2> HIDE DEF u
  <2>8. IsFiniteSet(MovedCursors(u)) /\ Cardinality(MovedCursors(u)) = Cardinality(MovedCursors(t)) + d
    <3>1. key \in MovedCursors(t) <=> t.cursors[key] # NoCursor
      <4>1. DOMAIN t.cursors = Sources \X Actors
        BY <2>4
      <4> QED BY <2>3, <4>1 DEF MovedCursors
    <3>2. Cardinality(MovedCursors(t)) \in Nat
      BY <2>4, FS_CardinalityType
    <3>3. CASE key \in MovedCursors(t)
      <4>1. d = 0 /\ MovedCursors(u) = MovedCursors(t)
        BY <2>4, <2>7, <3>1, <3>3 DEF One
      <4> QED BY <2>4, <3>2, <4>1
    <3>4. CASE key \notin MovedCursors(t)
      <4>1. d = 1
        BY <2>4, <3>1, <3>4 DEF One
      <4> QED BY <2>4, <2>7, <3>4, <4>1, FS_AddElement
    <3> QED BY <3>3, <3>4
  <2>9. /\ u.retired = t.retired /\ u.edges = t.edges /\ u.current = t.current
        /\ u.proofs = t.proofs /\ u.metrics = t.metrics
        /\ u.states = t.states /\ u.approvals = t.approvals /\ u.health = t.health
    BY <2>6 DEF OwnerFields
  <2>10. EdgeCosts(u) = EdgeCosts(t) /\ ActorCosts(u) = ActorCosts(t)
    BY <2>9 DEF EdgeCosts, Linked, ActorCosts, ActorCost, EvidenceUnits
  <2>11. Balanced(u)
    <3> DEFINE x == SumOver(ActorCosts(t), Actors)
               z == SumOver(EdgeCosts(t), EdgeKeys)
               r == Cardinality(t.retired)
               m == Cardinality(MovedCursors(t))
    <3>1. x \in Nat /\ z \in Nat /\ r \in Nat /\ m \in Nat
      BY CostsAreNumbers DEF CostsTyped, Well, Booked
    <3>2. t.history = r + m + z + x
      BY DEF Balanced, Well, Booked
    <3>3. u.history = t.history + d /\ d \in Int
      BY <2>4, <2>6 DEF H, One
    <3>4. u.retired = t.retired /\ Cardinality(MovedCursors(u)) = m + d
      BY <2>8, <2>9
    <3>5. Balanced(u) <=> u.history = r + (m + d) + z + x
      BY <2>10, <3>4 DEF Balanced
    <3> HIDE DEF x, z, r, m
    <3>6. u.history = r + (m + d) + z + x
      BY <3>1, <3>2, <3>3
    <3> QED BY <3>5, <3>6
  <2>12. Retiring(u)
    BY <2>9 DEF Well, Booked, Retiring
  <2>13. Filed(u)
    <3>1. \A a \in Actors : FiledActor(u, a)
      BY <2>9 DEF FiledActor, Well, Booked, Filed
    <3>2. \A k \in EdgeKeys : Linked(u, k) => FiledEdge(k, u.edges[k])
      BY <2>9 DEF Linked, Well, Booked, Filed
    <3>3. \A f \in EvidenceFields : u[f] = t[f] /\ t[f] = [a \in Actors |-> t[f][a]]
      BY <2>9 DEF Well, Booked, Filed, EvidenceFields
    <3>4. \A f \in EvidenceFields : u[f] = [a \in Actors |-> u[f][a]]
      BY <3>3, Zenon
    <3>5. IsFiniteSet(u.retired)
      BY <2>9 DEF Well, Booked, Filed
    <3> QED BY <2>5, <2>6, <2>8, <3>1, <3>2, <3>4, <3>5 DEF Filed
  <2> QED BY <2>1, <2>2, <2>11, <2>12, <2>13 DEF Well, Booked
<1> QED BY <1>1, <1>2

(* The evidence of actors is the same in both, and so are the cursors and   *)
(* the incarnations.                                                        *)
SameActors(t, u) ==
  \A f \in EvidenceFields \cup {"retired", "cursors", "current"} : u[f] = t[f]

LEMMA SameActorsFiled ==
  ASSUME NEW t, NEW u, SameActors(t, u), Filed(t)
  PROVE  /\ u.retired = t.retired /\ u.cursors = t.cursors /\ u.current = t.current
         /\ ActorCosts(u) = ActorCosts(t) /\ MovedCursors(u) = MovedCursors(t)
         /\ (\A k \in EdgeKeys : Linked(u, k) => FiledEdge(k, u.edges[k])) => Filed(u)
<1>1. /\ u.retired = t.retired /\ u.cursors = t.cursors
      /\ u.current = t.current /\ u.proofs = t.proofs /\ u.metrics = t.metrics
      /\ u.states = t.states /\ u.approvals = t.approvals /\ u.health = t.health
  BY DEF SameActors, EvidenceFields
<1>4. ActorCosts(u) = ActorCosts(t) /\ MovedCursors(u) = MovedCursors(t)
  BY <1>1 DEF ActorCosts, ActorCost, EvidenceUnits, MovedCursors
<1>7. \A a \in Actors : FiledActor(u, a)
  BY <1>1 DEF Filed, FiledActor
<1>8. \A f \in EvidenceFields : u[f] = [a \in Actors |-> u[f][a]]
  <2>1. \A f \in EvidenceFields : u[f] = t[f] /\ t[f] = [a \in Actors |-> t[f][a]]
    BY DEF SameActors, Filed
  <2> QED BY <2>1, Zenon
<1>9. IsFiniteSet(u.retired) /\ IsFiniteSet(MovedCursors(u))
      /\ u.cursors = [k \in Sources \X Actors |-> u.cursors[k]]
  BY <1>1, <1>4 DEF Filed
<1> QED BY <1>1, <1>4, <1>7, <1>8, <1>9 DEF Filed

LEMMA SameActorsAre ==
  ASSUME NEW t, NEW u, SameActors(t, u), Booked(t)
  PROVE  /\ u.retired = t.retired /\ u.cursors = t.cursors /\ u.current = t.current
         /\ ActorCosts(u) = ActorCosts(t) /\ MovedCursors(u) = MovedCursors(t)
         /\ Retiring(u)
         /\ (\A k \in EdgeKeys : Linked(u, k) => FiledEdge(k, u.edges[k])) => Filed(u)
BY SameActorsFiled DEF Booked, Retiring

(* One edge changes, and what it costs is counted.                          *)
LEMMA JoinedBooks ==
  ASSUME NEW t, NEW u, Booked(t), NEW k \in EdgeKeys, SameActors(t, u), Linked(u, k),
         \A l \in EdgeKeys \ {k} : u.edges[l] = t.edges[l],
         FiledEdge(k, u.edges[k]),
         u.history = t.history + EdgeCost(u.edges[k]) - EdgeCosts(t)[k]
  PROVE  Booked(u)
<1>1. \A l \in EdgeKeys \ {k} : (Linked(u, l) <=> Linked(t, l)) /\ EdgeCosts(u)[l] = EdgeCosts(t)[l]
  BY DEF Linked, EdgeCosts
<1>2. EdgeCosts(u)[k] = EdgeCost(u.edges[k])
  BY DEF EdgeCosts
<1>3. \A l \in EdgeKeys : Linked(u, l) => FiledEdge(l, u.edges[l])
  BY <1>1 DEF Booked, Filed
<1>4. Filed(u) /\ Retiring(u) /\ u.retired = t.retired
      /\ ActorCosts(u) = ActorCosts(t) /\ MovedCursors(u) = MovedCursors(t)
  BY <1>3, SameActorsAre
<1>5. CostsTyped(t) /\ CostsTyped(u)
  BY <1>4, CostsAreNumbers DEF Booked
<1>6. SumOver(EdgeCosts(u), EdgeKeys) - SumOver(EdgeCosts(t), EdgeKeys)
        = EdgeCosts(u)[k] - EdgeCosts(t)[k]
  BY <1>1, <1>5, SumAtOne, ReducerAssumption DEF CostsTyped
<1>7. Balanced(u)
  <2> DEFINE x == SumOver(ActorCosts(t), Actors)
             z == SumOver(EdgeCosts(t), EdgeKeys)
             y == SumOver(EdgeCosts(u), EdgeKeys)
             r == Cardinality(t.retired)
             m == Cardinality(MovedCursors(t))
             p == EdgeCosts(u)[k]
             q == EdgeCosts(t)[k]
  <2>1. x \in Nat /\ z \in Nat /\ r \in Nat /\ m \in Nat /\ y \in Nat /\ p \in Nat /\ q \in Nat
    BY <1>5 DEF CostsTyped
  <2>2. t.history = r + m + z + x /\ u.history = t.history + p - q
    BY <1>2 DEF Balanced, Booked
  <2>3. y - z = p - q
    BY <1>6
  <2>4. Balanced(u) <=> u.history = r + m + y + x
    BY <1>4 DEF Balanced
  <2> HIDE DEF x, z, r, m, y, p, q
  <2>5. u.history = r + m + y + x
    BY <2>1, <2>2, <2>3
  <2> QED BY <2>4, <2>5
<1> QED BY <1>4, <1>7 DEF Booked

(* The edge an event contributes to.                                        *)
LEMMA EdgeOrNewCosts ==
  ASSUME NEW t, Well(t), NEW e \in Events
  PROVE  LET old == EdgeOrNew(t, e) IN
         /\ FiledEdge(e.edge, old) /\ EdgeCost(old) = EdgeCosts(t)[e.edge]
         /\ Linked(t, e.edge) => old = t.edges[e.edge]
         /\ ~Linked(t, e.edge) => old.messages = {}
<1>1. e.edge \in EdgeKeys
  BY EventIs
<1>2. CASE Linked(t, e.edge)
  BY <1>1, <1>2 DEF EdgeOrNew, Well, Booked, Filed, EdgeCosts
<1>3. CASE ~Linked(t, e.edge)
  <2>1. EdgeOrNew(t, e).contributors = {} /\ EdgeOrNew(t, e).messages = {}
    BY <1>3 DEF EdgeOrNew, NewEdge
  <2>2. Cardinality({}) = 0 /\ IsFiniteSet({})
    BY FS_EmptySet
  <2>3. EdgeCost(EdgeOrNew(t, e)) = 0
    BY <2>1, <2>2 DEF EdgeCost
  <2>4. FiledEdge(e.edge, EdgeOrNew(t, e))
    BY <2>1, <2>2 DEF FiledEdge
  <2> QED BY <1>1, <1>3, <2>1, <2>3, <2>4 DEF EdgeCosts
<1> QED BY <1>2, <1>3

(* One more member.                                                         *)
LEMMA OneMore ==
  ASSUME NEW S, IsFiniteSet(S), NEW x
  PROVE  /\ IsFiniteSet(S \cup {x}) /\ Cardinality(S) \in Nat
         /\ Cardinality(S \cup {x}) = Cardinality(S) + One(x \notin S)
<1>1. Cardinality(S) \in Nat
  BY FS_CardinalityType
<1>2. CASE x \in S
  <2>1. S \cup {x} = S /\ One(x \notin S) = 0
    BY <1>2 DEF One
  <2> QED BY <1>1, <2>1
<1>3. CASE x \notin S
  <2>1. One(x \notin S) = 1
    BY <1>3 DEF One
  <2> QED BY <1>1, <1>3, <2>1, FS_AddElement
<1> QED BY <1>2, <1>3

(* An edge with other messages.                                             *)
LEMMA OtherMessages ==
  ASSUME NEW e, IsEdge(e), NEW M
  PROVE  LET f == [e EXCEPT !.messages = M] IN
         IsEdge(f) /\ f.contributors = e.contributors /\ f.messages = M
BY DEF IsEdge

LEMMA RelationshipWell ==
  ASSUME NEW t, Well(t), NEW e \in Events, e.kind = "relationship",
         RelationshipRefusal(t, e) = ""
  PROVE  Well(StageRelationship(t, e))
<1> DEFINE k == e.edge
           old == EdgeOrNew(t, e)
           ended == Terminal(t.nodes[k.source].state.value)
                      \/ Terminal(t.nodes[k.target].state.value)
           d == One(e.source \notin old.contributors)
           H == t.history + d
           v == [t EXCEPT !.history = H]
           C == old.contributors \cup {e.source}
           new == [old EXCEPT !.contributors = C, !.ghost = ended]
           u == WithEdge(v, k, new)
<1>1. StageRelationship(t, e) = u
  BY DEF StageRelationship
<1>2. Sound(StageRelationship(t, e))
  BY RelationshipKeeps DEF Well, Keeps
<1>3. ~EndsRefused(t, e)
  BY DEF RelationshipRefusal
<1>4. k \in EdgeKeys /\ k.type # "message" /\ IsEdge(old)
  <2> HIDE DEF old
  <2> QED BY <1>3, EventIs, KindsOfEdges, EdgeOrNewIs DEF old, Well
<1>5. FiledEdge(k, old) /\ EdgeCost(old) = EdgeCosts(t)[k]
  BY EdgeOrNewCosts
<1> HIDE DEF k, old
<1>6. IsFiniteSet(C) /\ Cardinality(old.contributors) \in Nat
      /\ Cardinality(C) = Cardinality(old.contributors) + d
  BY <1>5, OneMore DEF FiledEdge
<1> HIDE DEF C, ended, d, H
<1>7. IsEdge(new) /\ new.contributors = C /\ new.messages = old.messages
  <2>0. PICK g : g = ended
    BY Zenon
  <2> DEFINE h == [old EXCEPT !.contributors = C]
             f == [h EXCEPT !.ghost = g]
  <2>1. new = f
    BY ONLY <2>0
  <2>2. IsEdge(old)
    BY <1>4
  <2>3. IsEdge(h) /\ h.contributors = C /\ h.messages = old.messages
    <3> HIDE DEF old, C
    <3> QED BY ONLY <2>2 DEF IsEdge
  <2>4. IsEdge(f) /\ f.contributors = C /\ f.messages = old.messages
    <3> HIDE DEF h
    <3>1. LET x == [h EXCEPT !.ghost = g] IN
          IsEdge(x) /\ x.contributors = h.contributors /\ x.messages = h.messages
      BY ONLY <2>3, GhostedIs
    <3> QED BY ONLY <2>3, <3>1
  <2> HIDE DEF new, f
  <2> QED BY ONLY <2>1, <2>4
<1> HIDE DEF new
<1>8. IsOwners(v) /\ v.history = H /\ \A f \in OwnerFields \ {"history"} : v[f] = t[f]
  BY DEF Well, Sound, IsOwners, OwnerFields
<1> HIDE DEF v
<1>9. /\ IsEdge(u.edges[k]) /\ u.edges[k].contributors = C /\ u.edges[k].messages = old.messages
      /\ \A l \in EdgeKeys \ {k} : u.edges[l] = v.edges[l]
      /\ \A x \in OwnerFields \ {"edges"} : u[x] = v[x]
  <2> DEFINE f == [new EXCEPT !.partial = EdgePartial(k, new, v.gaps)]
  <2>1. k \in EdgeKeys /\ IsOwners(v) /\ IsEdge(new)
    BY <1>4, <1>7, <1>8
  <2>2. /\ u.edges[k] = f
        /\ \A l \in EdgeKeys \ {k} : u.edges[l] = v.edges[l]
        /\ \A x \in OwnerFields \ {"edges"} : u[x] = v[x]
        /\ IsEdge(f) /\ f.messages = new.messages /\ f.contributors = new.contributors
    BY ONLY <2>1, WithEdgeDoes
  <2> HIDE DEF f, u
  <2> QED BY <1>4, <1>7, <1>8, <2>2
<1> HIDE DEF u
<1>10. SameActors(t, u) /\ u.history = H /\ v.edges = t.edges
  BY <1>8, <1>9 DEF OwnerFields, SameActors, EvidenceFields
<1>11. FiledEdge(k, u.edges[k])
  BY <1>4, <1>5, <1>6, <1>9 DEF FiledEdge
<1>12. EdgeCost(u.edges[k]) = EdgeCost(old) + d
  <2>1. EdgeCost(u.edges[k]) = Cardinality(C) + Cardinality(old.messages)
    BY <1>9 DEF EdgeCost
  <2>2. Cardinality(old.messages) \in Nat /\ d \in Nat
    BY <1>5, FS_CardinalityType DEF FiledEdge, d, One
  <2> DEFINE x == Cardinality(C)
             y == Cardinality(old.contributors)
             z == Cardinality(old.messages)
  <2>3. EdgeCost(old) = y + z /\ x = y + d /\ y \in Nat
    BY <1>6 DEF EdgeCost
  <2> HIDE DEF x, y, z
  <2>4. z \in Nat
    BY <2>2 DEF z
  <2>5. EdgeCost(u.edges[k]) = x + z
    BY <2>1 DEF x, z
  <2> DEFINE p == EdgeCost(u.edges[k])
             q == EdgeCost(old)
  <2>6. p = x + z /\ q = y + z /\ x = y + d
    BY <2>3, <2>5
  <2> HIDE DEF p, q
  <2>7. p = q + d
    BY ONLY <2>2, <2>3, <2>4, <2>6
  <2> QED BY <2>7 DEF p, q
<1>13. u.history = t.history + EdgeCost(u.edges[k]) - EdgeCosts(t)[k]
  <2>1. t.history \in Int /\ EdgeCost(old) \in Nat /\ d \in Nat
    BY <1>5, WellHistory, EdgeCostIs DEF d, One
  <2>2. u.history = t.history + d
    BY <1>10 DEF H
  <2> DEFINE c == EdgeCost(old)
             x == EdgeCost(u.edges[k])
             y == EdgeCosts(t)[k]
  <2>3. x = c + d /\ y = c /\ c \in Nat
    BY <1>5, <1>12, <2>1
  <2> HIDE DEF c, x, y
  <2> DEFINE g == t.history
             h == u.history
  <2>4. g \in Int /\ h = g + d
    BY <2>1, <2>2
  <2> HIDE DEF g, h
  <2>5. h = g + x - y
    BY ONLY <2>1, <2>3, <2>4
  <2> QED BY <2>5 DEF x, y, g, h
<1>14. Linked(u, k)
  BY <1>9, EdgeShows DEF Linked
<1>15. Booked(u)
  BY <1>4, <1>9, <1>10, <1>11, <1>13, <1>14, JoinedBooks DEF Well
<1> QED BY <1>1, <1>2, <1>15 DEF Well

LEMMA MessageWell ==
  ASSUME NEW t, Well(t), NEW e \in Events, NEW at, e.kind = "message",
         MessageRefusal(t, e) = "", e.digest \notin t.fingerprints
  PROVE  Well(StageMessage(t, e, at))
<1> DEFINE k == e.edge
           old == EdgeOrNew(t, e)
           message == [digest |-> e.digest, source |-> e.source, at |-> at]
           X == t.expiry \cup {[at |-> at + MessageWindow, digest |-> e.digest, edge |-> k]}
           D == t.fingerprints \cup {e.digest}
           H == t.history + 1
           M == old.messages \cup {message}
           v == [t EXCEPT !.history = H, !.fingerprints = D, !.expiry = X]
           new == [old EXCEPT !.messages = M]
           u == WithEdge(v, k, new)
<1>1. StageMessage(t, e, at) = u
  BY DEF StageMessage
<1>2. Sound(StageMessage(t, e, at))
  BY MessageKeeps DEF Well, Keeps
<1>3. ~EndsRefused(t, e)
  BY DEF MessageRefusal
<1>4. k \in EdgeKeys /\ IsEdge(old)
  <2> HIDE DEF old
  <2> QED BY <1>3, EventIs, EdgeOrNewIs DEF old, Well
<1>5. FiledEdge(k, old) /\ EdgeCost(old) = EdgeCosts(t)[k]
  BY EdgeOrNewCosts
<1>6. message \notin old.messages
  <2>1. message.digest = e.digest
    OBVIOUS
  <2>2. \A m \in old.messages : m.digest \in t.fingerprints
    <3> HIDE DEF old
    <3> QED BY <1>4, EdgeOrNewCosts DEF Well, Sound, Apart, old
  <2> HIDE DEF message, old
  <2> QED BY <2>1, <2>2
<1> HIDE DEF k, old, message
<1>7. /\ IsFiniteSet(M) /\ Cardinality(old.messages) \in Nat
      /\ Cardinality(M) = Cardinality(old.messages) + 1
  BY <1>5, <1>6, FS_AddElement, FS_CardinalityType DEF FiledEdge
<1> HIDE DEF X, D, M, H
<1>8. IsEdge(new) /\ new.contributors = old.contributors /\ new.messages = M
  <2>1. IsEdge(old)
    BY <1>4
  <2> QED BY ONLY <2>1, OtherMessages
<1> HIDE DEF new
<1>9. /\ IsOwners(v) /\ v.history = H
      /\ \A f \in OwnerFields \ {"history", "fingerprints", "expiry"} : v[f] = t[f]
  BY DEF Well, Sound, IsOwners, OwnerFields
<1> HIDE DEF v
<1>10. /\ IsEdge(u.edges[k]) /\ u.edges[k].contributors = old.contributors
       /\ u.edges[k].messages = M
       /\ \A l \in EdgeKeys \ {k} : u.edges[l] = v.edges[l]
       /\ \A x \in OwnerFields \ {"edges"} : u[x] = v[x]
  <2> DEFINE f == [new EXCEPT !.partial = EdgePartial(k, new, v.gaps)]
  <2>1. k \in EdgeKeys /\ IsOwners(v) /\ IsEdge(new)
    BY <1>4, <1>8, <1>9
  <2>2. /\ u.edges[k] = f
        /\ \A l \in EdgeKeys \ {k} : u.edges[l] = v.edges[l]
        /\ \A x \in OwnerFields \ {"edges"} : u[x] = v[x]
        /\ IsEdge(f) /\ f.messages = new.messages /\ f.contributors = new.contributors
    BY ONLY <2>1, WithEdgeDoes
  <2> HIDE DEF f, u
  <2> QED BY <1>4, <1>8, <1>9, <2>2
<1> HIDE DEF u
<1>11. SameActors(t, u) /\ u.history = H /\ v.edges = t.edges
  BY <1>9, <1>10 DEF OwnerFields, SameActors, EvidenceFields
<1>12. FiledEdge(k, u.edges[k])
  BY <1>5, <1>7, <1>10 DEF FiledEdge
<1>13. EdgeCost(u.edges[k]) = EdgeCost(old) + 1
  <2>1. EdgeCost(u.edges[k]) = Cardinality(old.contributors) + Cardinality(M)
    BY <1>10 DEF EdgeCost
  <2>2. Cardinality(old.contributors) \in Nat
    BY <1>5, FS_CardinalityType DEF FiledEdge
  <2> DEFINE x == Cardinality(old.contributors)
             y == Cardinality(old.messages)
             z == Cardinality(M)
  <2>3. EdgeCost(old) = x + y /\ EdgeCost(u.edges[k]) = x + z /\ z = y + 1
        /\ x \in Nat /\ y \in Nat
    BY <1>7, <2>1, <2>2 DEF EdgeCost
  <2> DEFINE p == EdgeCost(u.edges[k])
             q == EdgeCost(old)
  <2>4. p = x + z /\ q = x + y /\ z = y + 1
    BY <2>3
  <2> HIDE DEF x, y, z, p, q
  <2>5. p = q + 1
    BY ONLY <2>3, <2>4
  <2> QED BY <2>5 DEF p, q
<1>14. u.history = t.history + EdgeCost(u.edges[k]) - EdgeCosts(t)[k]
  <2>1. t.history \in Int /\ EdgeCost(old) \in Nat
    BY <1>5, WellHistory, EdgeCostIs
  <2>2. u.history = t.history + 1
    BY <1>11 DEF H
  <2> DEFINE c == EdgeCost(old)
             x == EdgeCost(u.edges[k])
             y == EdgeCosts(t)[k]
  <2>3. x = c + 1 /\ y = c /\ c \in Nat
    BY <1>5, <1>13, <2>1
  <2> HIDE DEF c, x, y
  <2> DEFINE g == t.history
             h == u.history
  <2>4. g \in Int /\ h = g + 1
    BY <2>1, <2>2
  <2> HIDE DEF g, h
  <2>5. h = g + x - y
    BY ONLY <2>1, <2>3, <2>4
  <2> QED BY <2>5 DEF x, y, g, h
<1>15. Linked(u, k)
  BY <1>10, EdgeShows DEF Linked
<1>16. Booked(u)
  BY <1>4, <1>10, <1>11, <1>12, <1>14, <1>15, JoinedBooks DEF Well
<1> QED BY <1>1, <1>2, <1>16 DEF Well

-----------------------------------------------------------------------------
(* NodeObserved.                                                            *)

(* What a source says of a node, with what it said before.                  *)
LEMMA ContributionIs ==
  ASSUME NEW q, FiledProofs(q), NEW e \in Events, NEW at \in Nat
  PROVE  LET c == NodeContribution(q, e, at) IN c \in ProofRecords /\ c.source = e.source
<1> DEFINE x == CHOOSE x \in Own(q, e) : TRUE
           keep(f, none) == IF e[f] = none /\ HoldsOwn(q, e) THEN x[f] ELSE e[f]
           n == keep("name", "")
           s == keep("startedAt", 0)
           p == keep("startTicks", 0)
<1>1. NodeContribution(q, e, at) =
        [source |-> e.source, at |-> at, name |-> n, startedAt |-> s, startTicks |-> p]
  BY DEF NodeContribution
<1>2. HoldsOwn(q, e) => x \in ProofRecords
  <2>1. HoldsOwn(q, e) => x \in Own(q, e)
    BY DEF HoldsOwn
  <2>2. Own(q, e) \subseteq ProofRecords
    BY MembersIn DEF Own, FiledProofs
  <2> QED BY <2>1, <2>2
<1>3. /\ e.source \in Sources /\ e.name \in STRING
      /\ e.startedAt \in Nat /\ e.startTicks \in Nat
  BY EventIs
<1> HIDE DEF x
<1>4. n \in STRING /\ s \in Nat /\ p \in Nat
  BY <1>2, <1>3 DEF ProofRecords
<1> HIDE DEF n, s, p
<1> QED BY <1>1, <1>3, <1>4 DEF ProofRecords

LEMMA WithProofBooks ==
  ASSUME NEW t, IsOwners(t), Filed(t), t.history \in Int, NEW e \in Events, NEW at \in Nat
  PROVE  Refiled(t, WithProof(t, e, at), e.actor)
<1> DEFINE a == e.actor
           row == NodeContribution(t.proofs[a], e, at)
           s == AcceptOwn(t.proofs[a], row)
           c == IF Knows(t, e) THEN t.current[a] ELSE Proof(e)
           H == t.history + One(~HoldsOwn(t.proofs[a], e))
           v == [t EXCEPT !.current[a] = c, !.proofs[a] = s, !.history = H]
           own == Own(t.proofs[a], row)
<1>0. a \in Actors
  BY EventIs
<1>1. FiledActor(t, a) /\ ActorTyped(t, a)
  BY <1>0, ActorCostIs DEF Filed
<1>2. FiledProofs(t.proofs[a])
  BY <1>1 DEF FiledActor
<1>3. row \in ProofRecords /\ row.source = e.source
  BY <1>2, ContributionIs
<1>4. WithProof(t, e, at) = v
  BY DEF WithProof
<1>5. own = Own(t.proofs[a], e)
  BY <1>3 DEF Own
<1>6. s = Accept(t.proofs[a], own, row)
  BY DEF AcceptOwn
<1> HIDE DEF s, row, c
<1>7. FiledProofs(s) /\ Len(s) = Len(t.proofs[a]) + One(own = {})
  BY <1>2, <1>3, <1>6, ProofComes
<1> HIDE DEF own
<1>8. One(~HoldsOwn(t.proofs[a], e)) = One(own = {})
  BY <1>5 DEF HoldsOwn, One
<1> HIDE DEF H
<1>9. /\ Edited(t, v, a) /\ v.proofs[a] = s /\ v.metrics[a] = t.metrics[a]
      /\ v.states[a] = t.states[a] /\ v.approvals[a] = t.approvals[a]
      /\ v.health[a] = t.health[a] /\ v.history = H
  <2> HIDE DEF a
  <2> QED BY <1>0 DEF IsOwners, OwnerFields, Filed, EvidenceFields, Edited, StillFields
<1> HIDE DEF v
<1>10. FiledActor(v, a)
  BY <1>1, <1>7, <1>9 DEF FiledActor
<1>11. Refiled(t, v, a)
  <2> DEFINE d == One(own = {})
  <2>1. d \in Int /\ 0 \in Int
    BY OneIs
  <2>2. v.history = t.history + (d + 0 + 0 + 0 + 0)
    BY <1>8, <1>9, <2>1 DEF H
  <2>3. Len(v.proofs[a]) = Len(t.proofs[a]) + d
    BY <1>7, <1>9
  <2> HIDE DEF d
  <2>4. /\ Len(v.metrics[a]) = Len(t.metrics[a]) + 0 /\ Len(v.states[a]) = Len(t.states[a]) + 0
        /\ Len(v.approvals[a]) = Len(t.approvals[a]) + 0
        /\ Cardinality(v.health[a]) = Cardinality(t.health[a]) + 0
    BY <1>1, <1>9 DEF ActorTyped
  <2> QED BY <1>1, <1>9, <1>10, <2>1, <2>2, <2>3, <2>4, RefiledBy
<1> QED BY <1>4, <1>11

(* WithProof of owners: what it leaves.                                     *)
LEMMA WithProofIs ==
  ASSUME NEW t, IsOwners(t), NEW e \in Events, NEW at
  PROVE  IsOwners(WithProof(t, e, at)) /\ WithProof(t, e, at).edges = t.edges
<1> DEFINE a == e.actor
           s == AcceptOwn(t.proofs[a], NodeContribution(t.proofs[a], e, at))
           c == IF Knows(t, e) THEN t.current[a] ELSE Proof(e)
           H == t.history + One(~HoldsOwn(t.proofs[a], e))
           v == [t EXCEPT !.current[a] = c, !.proofs[a] = s, !.history = H]
<1>0. a \in Actors
  BY EventIs
<1>1. WithProof(t, e, at) = v
  BY DEF WithProof
<1> HIDE DEF s, c, H, a
<1>2. IsOwners(v) /\ v.edges = t.edges
  BY <1>0 DEF IsOwners, OwnerFields
<1> QED BY <1>1, <1>2

(* The same incarnation, or the first of an actor.                          *)
LEMMA NodeAgainWell ==
  ASSUME NEW t, Well(t), NEW e \in Events, NEW at \in Nat,
         NodeRefusal(t, e) = "", ~Switches(t, e)
  PROVE  Well(StageNode(t, e, at))
<1> DEFINE a == e.actor
           v == WithProof(t, e, at)
           n == ObservedNode(v, e, FALSE)
           u == StageNode(t, e, at)
<1>0. a \in Actors
  BY EventIs
<1>1. u = WithNode(v, a, n)
  BY DEF StageNode, ShowObserved
<1>2. Again(t, u, e)
  BY NodeAgainSound DEF Well
<1>3. Refiled(t, v, a) /\ IsOwners(v)
  BY WellHistory, WithProofBooks, WithProofIs
<1> HIDE DEF u, v, n
<1>4. Filed(v) /\ Balanced(v)
  BY <1>0, <1>3, EditedBalances DEF Refiled, Well, Booked
<1>5. SameBooks(v, u)
  BY <1>1, <1>3, WithNodeSame
<1>6. Filed(u) /\ Balanced(u)
  BY <1>4, <1>5, SameBooksBalance
<1>7. <<a, e.inc>> \notin t.retired /\ e.inc # 0
  BY <1>0, EventIs DEF Switches, Unseen, Knows, Well, Booked, Retiring
<1>8. Retiring(u)
  BY <1>2, <1>7 DEF Again, Well, Booked, Retiring
<1> QED BY <1>2, <1>6, <1>8 DEF Again, Well, Booked, u

(* What edges cost is what the code gives back for them.                    *)
LEMMA EdgeUnitsAre ==
  ASSUME NEW t, NEW K, K \subseteq EdgeKeys, \A k \in K : Linked(t, k)
  PROVE  EdgeUnits(t, K) = SumOver(EdgeCosts(t), K)
<1> DEFINE units == [k \in K |-> Cardinality(t.edges[k].contributors)
                                   + Cardinality(t.edges[k].messages)]
<1>1. EdgeUnits(t, K) = SumOver(units, K)
  BY DEF EdgeUnits, SumOver
<1>2. \A k \in K : units[k] = EdgeCosts(t)[k]
  BY DEF EdgeCosts, EdgeCost
<1>3. IsFiniteSet(K)
  BY FS_Subset, ReducerAssumption
<1> HIDE DEF units
<1>4. SumOver(units, K) = SumOver(EdgeCosts(t), K)
  BY <1>2, <1>3, SumAgrees
<1> QED BY <1>1, <1>4

LEMMA ActorUnitsAre ==
  ASSUME NEW t, NEW A, A \subseteq Actors
  PROVE  ActorUnits(t, A) = SumOver(ActorCosts(t), A)
<1> DEFINE units == [a \in A |-> EvidenceUnits(t, a) + Len(t.metrics[a])]
<1>1. ActorUnits(t, A) = SumOver(units, A)
  BY DEF ActorUnits, SumOver
<1>2. \A a \in A : units[a] = ActorCosts(t)[a]
  BY DEF ActorCosts, ActorCost
<1>3. IsFiniteSet(A)
  BY FS_Subset, ReducerAssumption
<1> HIDE DEF units
<1>4. SumOver(units, A) = SumOver(ActorCosts(t), A)
  BY <1>2, <1>3, SumAgrees
<1> QED BY <1>1, <1>4

(* An incarnation more is retired.                                          *)
LEMMA RetiredBooks ==
  ASSUME NEW t, NEW u, Filed(t), Balanced(t), NEW x, x \notin t.retired,
         \A f \in EvidenceFields \cup {"cursors", "edges"} : u[f] = t[f],
         u.retired = t.retired \cup {x}, u.history = t.history + 1
  PROVE  Filed(u) /\ Balanced(u)
<1>1. /\ u.cursors = t.cursors /\ u.edges = t.edges /\ u.proofs = t.proofs
      /\ u.metrics = t.metrics /\ u.states = t.states /\ u.approvals = t.approvals
      /\ u.health = t.health
  BY DEF EvidenceFields
<1>2. EdgeCosts(u) = EdgeCosts(t) /\ ActorCosts(u) = ActorCosts(t)
      /\ MovedCursors(u) = MovedCursors(t)
  BY <1>1 DEF EdgeCosts, Linked, ActorCosts, ActorCost, EvidenceUnits, MovedCursors
<1>3. IsFiniteSet(t.retired)
  BY DEF Filed
<1>4. IsFiniteSet(u.retired) /\ Cardinality(u.retired) = Cardinality(t.retired) + 1
  <2> DEFINE S == t.retired
  <2>1. IsFiniteSet(S) /\ x \notin S /\ u.retired = S \cup {x}
    BY <1>3
  <2> HIDE DEF S
  <2>2. IsFiniteSet(S \cup {x}) /\ Cardinality(S \cup {x}) = Cardinality(S) + 1
    BY ONLY <2>1, FS_AddElement
  <2>3. IsFiniteSet(u.retired) /\ Cardinality(u.retired) = Cardinality(S) + 1
    BY ONLY <2>1, <2>2
  <2> QED BY <2>3 DEF S
<1>5. Filed(u)
  <2>1. \A a \in Actors : FiledActor(u, a)
    BY <1>1 DEF Filed, FiledActor
  <2>2. \A k \in EdgeKeys : Linked(u, k) => FiledEdge(k, u.edges[k])
    BY <1>1 DEF Linked, Filed
  <2>3. \A f \in EvidenceFields : u[f] = t[f] /\ t[f] = [a \in Actors |-> t[f][a]]
    BY DEF Filed
  <2>4. \A f \in EvidenceFields : u[f] = [a \in Actors |-> u[f][a]]
    BY <2>3, Zenon
  <2>5. IsFiniteSet(MovedCursors(u)) /\ u.cursors = [k \in Sources \X Actors |-> u.cursors[k]]
    BY <1>1, <1>2 DEF Filed
  <2> QED BY <1>4, <2>1, <2>2, <2>4, <2>5 DEF Filed
<1>6. Balanced(u)
  <2> DEFINE x1 == SumOver(ActorCosts(t), Actors)
             z == SumOver(EdgeCosts(t), EdgeKeys)
             r == Cardinality(t.retired)
             m == Cardinality(MovedCursors(t))
  <2>1. x1 \in Nat /\ z \in Nat /\ r \in Nat /\ m \in Nat
    BY CostsAreNumbers DEF CostsTyped
  <2>2. t.history = r + m + z + x1
    BY DEF Balanced
  <2>3. Balanced(u) <=> u.history = r + 1 + m + z + x1
    BY <1>2, <1>4 DEF Balanced
  <2> HIDE DEF x1, z, r, m
  <2>4. u.history = r + 1 + m + z + x1
    BY <2>1, <2>2
  <2> QED BY <2>3, <2>4
<1> QED BY <1>5, <1>6

(* The evidence of an actor goes, but for its metrics.                      *)
Cleared(t, a) ==
  [t EXCEPT !.proofs[a] = <<>>, !.states[a] = <<>>, !.approvals[a] = <<>>, !.health[a] = {},
            !.history = @ - EvidenceUnits(t, a)]

LEMMA ClearedBooks ==
  ASSUME NEW t, IsOwners(t), Filed(t), t.history \in Int, NEW a \in Actors
  PROVE  Refiled(t, Cleared(t, a), a)
<1> DEFINE H == t.history - EvidenceUnits(t, a)
           v == [t EXCEPT !.proofs[a] = <<>>, !.states[a] = <<>>, !.approvals[a] = <<>>,
                          !.health[a] = {}, !.history = H]
<1>1. FiledActor(t, a) /\ ActorTyped(t, a)
  BY ActorCostIs DEF Filed
<1>2. Cleared(t, a) = v
  BY DEF Cleared
<1> HIDE DEF H
<1>3. /\ Edited(t, v, a) /\ v.proofs[a] = <<>> /\ v.metrics[a] = t.metrics[a]
      /\ v.states[a] = <<>> /\ v.approvals[a] = <<>>
      /\ v.health[a] = {} /\ v.history = H
  BY DEF IsOwners, OwnerFields, Filed, EvidenceFields, Edited, StillFields
<1> HIDE DEF v
<1>4. FiledHealth({}) /\ Cardinality({}) = 0
  BY FS_EmptySet DEF FiledHealth
<1>5. FiledProofs(<<>>) /\ FiledStates(<<>>) /\ FiledApprovals(<<>>) /\ Len(<<>>) = 0
  BY NoRows DEF FiledProofs, FiledStates, FiledApprovals
<1>6. FiledActor(v, a)
  BY <1>1, <1>3, <1>4, <1>5 DEF FiledActor
<1>7. Refiled(t, v, a)
  <2> DEFINE p == Len(t.proofs[a])
             m == Len(t.metrics[a])
             s == Len(t.states[a])
             q == Len(t.approvals[a])
             h == Cardinality(t.health[a])
             dp == 0 - p
             ds == 0 - s
             dq == 0 - q
             dh == 0 - h
  <2>1. p \in Nat /\ m \in Nat /\ s \in Nat /\ q \in Nat /\ h \in Nat
    BY <1>1 DEF ActorTyped
  <2>2. EvidenceUnits(t, a) = p + s + q + h
    BY DEF EvidenceUnits
  <2>3. Len(v.proofs[a]) = 0 /\ Len(v.metrics[a]) = m /\ Len(v.states[a]) = 0
        /\ Len(v.approvals[a]) = 0 /\ Cardinality(v.health[a]) = 0
    BY <1>3, <1>4, <1>5
  <2>4. v.history = t.history - EvidenceUnits(t, a)
    BY <1>3 DEF H
  <2>5. /\ Len(t.proofs[a]) = p /\ Len(t.metrics[a]) = m /\ Len(t.states[a]) = s
        /\ Len(t.approvals[a]) = q /\ Cardinality(t.health[a]) = h
    OBVIOUS
  <2> HIDE DEF p, m, s, q, h
  <2>6. dp \in Int /\ ds \in Int /\ dq \in Int /\ dh \in Int /\ 0 \in Int
        /\ 0 = p + dp /\ 0 = s + ds /\ 0 = q + dq /\ 0 = h + dh /\ m = m + 0
    BY <2>1
  <2>7. v.history = t.history + (dp + 0 + ds + dq + dh)
    BY <2>1, <2>2, <2>4
  <2> HIDE DEF dp, ds, dq, dh
  <2>8. /\ Len(v.proofs[a]) = Len(t.proofs[a]) + dp
        /\ Len(v.metrics[a]) = Len(t.metrics[a]) + 0
        /\ Len(v.states[a]) = Len(t.states[a]) + ds
        /\ Len(v.approvals[a]) = Len(t.approvals[a]) + dq
        /\ Cardinality(v.health[a]) = Cardinality(t.health[a]) + dh
    BY ONLY <2>3, <2>5, <2>6
  <2>9. Edited(t, v, a) /\ FiledActor(t, a) /\ FiledActor(v, a) /\ t.history \in Int
    BY <1>1, <1>3, <1>6
  <2>10. dp \in Int /\ ds \in Int /\ dq \in Int /\ dh \in Int /\ 0 \in Int
    BY <2>6
  <2> QED BY ONLY <2>7, <2>8, <2>9, <2>10, RefiledBy
<1> QED BY <1>2, <1>7


(* The incarnation that is succeeded goes with its evidence.                *)
LEMMA SucceedBooks ==
  ASSUME NEW t, Well(t), NEW e \in Events
  PROVE  LET u == Succeed(t, e) IN
         /\ IsOwners(u) /\ Filed(u) /\ Balanced(u) /\ u.edges = t.edges
<1> DEFINE a == e.actor
           x == <<a, t.current[a].inc>>
           c == Cleared(t, a)
           R == t.retired \cup {x}
           P == [t.proofs EXCEPT ![a] = <<>>]
           S == [t.states EXCEPT ![a] = <<>>]
           A == [t.approvals EXCEPT ![a] = <<>>]
           L == [t.health EXCEPT ![a] = {}]
           E == EvidenceUnits(t, a)
           u == Succeed(t, e)
<1>0. a \in Actors
  BY EventIs
<1>1. IsOwners(t) /\ Filed(t) /\ Balanced(t) /\ t.history \in Int /\ x \notin t.retired
  BY <1>0, WellHistory DEF Well, Booked, Retiring
<1>2. Refiled(t, c, a)
  BY <1>0, <1>1, ClearedBooks
<1>3. /\ u = [t EXCEPT !.retired = R, !.proofs = P, !.states = S, !.approvals = A,
                       !.health = L, !.history = t.history + 1 - E]
      /\ c = [t EXCEPT !.proofs = P, !.states = S, !.approvals = A,
                       !.health = L, !.history = t.history - E]
  BY DEF Succeed, Cleared, Well, Sound, IsOwners, OwnerFields
<1>4. E \in Int
  <2> DEFINE p == Len(t.proofs[a])
             s == Len(t.states[a])
             q == Len(t.approvals[a])
             h == Cardinality(t.health[a])
  <2>1. ActorTyped(t, a)
    BY <1>0, <1>1, ActorCostIs DEF Filed
  <2>2. p \in Nat /\ s \in Nat /\ q \in Nat /\ h \in Nat
    BY <2>1 DEF ActorTyped
  <2>3. E = p + s + q + h
    BY DEF EvidenceUnits
  <2> HIDE DEF E, p, s, q, h
  <2> QED BY <2>2, <2>3
<1> HIDE DEF u, c, R, P, S, A, L, E, x
<1>5. /\ \A f \in OwnerFields \ {"retired", "history"} : u[f] = c[f]
      /\ u.retired = R /\ u.history = c.history + 1 /\ IsOwners(u) /\ c.retired = t.retired
      /\ u.edges = t.edges
  <2>1. DOMAIN t = OwnerFields /\ t = [f \in OwnerFields |-> t[f]] /\ IsOwners(t) /\ t.history \in Int
    BY <1>1 DEF IsOwners
  <2>2. /\ \A f \in OwnerFields \ {"retired", "history"} : u[f] = c[f]
        /\ u.retired = R /\ c.retired = t.retired /\ u.edges = t.edges
        /\ u.nodes = t.nodes /\ u.current = t.current
    BY ONLY <1>3, <2>1 DEF OwnerFields
  <2>3. DOMAIN u = OwnerFields /\ u = [f \in OwnerFields |-> u[f]]
    BY ONLY <1>3, <2>1 DEF OwnerFields
  <2>4. u.history = t.history + 1 - E /\ c.history = t.history - E
    BY ONLY <1>3, <2>1 DEF OwnerFields
  <2>5. IsOwners(u)
    BY <1>1, <2>2, <2>3 DEF IsOwners
  <2>6. u.history = c.history + 1
    BY <1>1, <1>4, <2>4
  <2> QED BY <2>2, <2>5, <2>6
<1>6. Filed(c) /\ Balanced(c)
  BY <1>0, <1>1, <1>2, EditedBalances DEF Refiled
<1>7. \A f \in EvidenceFields \cup {"cursors", "edges"} : u[f] = c[f]
  BY <1>5 DEF EvidenceFields, OwnerFields
<1>8. x \notin c.retired /\ u.retired = c.retired \cup {x}
  BY <1>1, <1>5 DEF R
<1>9. Filed(u) /\ Balanced(u)
  BY <1>5, <1>6, <1>7, <1>8, RetiredBooks
<1> QED BY <1>5, <1>9 DEF u

(* The edges of the incarnation an actor is in are the edges at the actor.  *)
LEMMA EdgesOfIs ==
  ASSUME NEW t, Sound(t), NEW w, w.edges = t.edges, NEW a \in Actors, NEW k \in EdgeKeys
  PROVE  k \in EdgesOf(w, a, t.current[a].inc) <=> Linked(t, k) /\ (k.source = a \/ k.target = a)
<1>1. ASSUME Linked(t, k), k.source = a PROVE t.edges[k].source = t.current[a].inc
  BY <1>1 DEF Sound, Anchored, InPlace
<1>2. ASSUME Linked(t, k), k.target = a PROVE t.edges[k].target = t.current[a].inc
  BY <1>2 DEF Sound, Anchored, InPlace
<1> QED BY <1>1, <1>2 DEF EdgesOf, Linked

(* Edges that go, or lose some of what they cost.                           *)
LEMMA EdgesBooks ==
  ASSUME NEW t, NEW u, Filed(t), Balanced(t), SameActors(t, u),
         \A k \in EdgeKeys : Linked(u, k) => FiledEdge(k, u.edges[k]),
         NEW K, K \subseteq EdgeKeys, NEW d, \A k \in K : d[k] \in Int,
         \A k \in EdgeKeys \ K : EdgeCosts(u)[k] = EdgeCosts(t)[k],
         \A k \in K : EdgeCosts(u)[k] = EdgeCosts(t)[k] - d[k],
         u.history = t.history - SumOver(d, K)
  PROVE  Filed(u) /\ Balanced(u)
<1>1. /\ Filed(u) /\ MovedCursors(u) = MovedCursors(t) /\ ActorCosts(u) = ActorCosts(t)
      /\ u.retired = t.retired
  BY SameActorsFiled
<1>2. CostsTyped(u) /\ CostsTyped(t)
  BY <1>1, CostsAreNumbers
<1>3. SumOver(EdgeCosts(u), EdgeKeys) = SumOver(EdgeCosts(t), EdgeKeys) - SumOver(d, K)
  <2> DEFINE p == EdgeCosts(u)
             q == EdgeCosts(t)
  <2>1. \A k \in EdgeKeys : p[k] \in Int /\ q[k] \in Int
    BY <1>2 DEF CostsTyped
  <2>2. IsFiniteSet(EdgeKeys)
    BY ReducerAssumption
  <2>3. (\A k \in K : p[k] = q[k] - d[k]) /\ \A k \in EdgeKeys \ K : p[k] = q[k]
    OBVIOUS
  <2> HIDE DEF p, q
  <2>4. SumOver(p, EdgeKeys) = SumOver(q, EdgeKeys) - SumOver(d, K)
    BY <2>1, <2>2, <2>3, SumDrops
  <2> QED BY <2>4 DEF p, q
<1>4. Balanced(u)
  <2> DEFINE x == SumOver(ActorCosts(t), Actors)
             z == SumOver(EdgeCosts(t), EdgeKeys)
             y == SumOver(EdgeCosts(u), EdgeKeys)
             D == SumOver(d, K)
             r == Cardinality(t.retired)
             m == Cardinality(MovedCursors(t))
  <2>1. x \in Nat /\ z \in Nat /\ r \in Nat /\ m \in Nat /\ y \in Nat
    BY <1>2 DEF CostsTyped
  <2>2. t.history = r + m + z + x
    BY DEF Balanced
  <2>3. Balanced(u) <=> u.history = r + m + y + x
    BY <1>1 DEF Balanced
  <2>4. u.history = t.history - D /\ y = z - D
    BY <1>3
  <2>5. D \in Int
    <3>1. IsFiniteSet(K)
      BY FS_Subset, ReducerAssumption
    <3> QED BY <3>1, SumTyped
  <2> HIDE DEF x, z, r, m, y, D
  <2>6. u.history = r + m + y + x
    BY <2>1, <2>2, <2>4, <2>5
  <2> QED BY <2>3, <2>6
<1> QED BY <1>1, <1>4

(* What is given back for the edges that end is what they cost.             *)
LEMMA ResumeBooks ==
  ASSUME NEW t, Sound(t), NEW w, IsOwners(w), Filed(w), Balanced(w), w.edges = t.edges,
         NEW a \in Actors, NEW old, old = t.current[a].inc, NEW new
  PROVE  LET u == ResumeEdges(w, a, old, new) IN Filed(u) /\ Balanced(u)
<1> DEFINE u == ResumeEdges(w, a, old, new)
           ended == Relationships(w, a, old)
           At(k) == k.source = a \/ k.target = a
           E == u.edges
           D == SumOver(EdgeCosts(w), ended)
<1>1. Resumed(t, w, u, a, new)
  BY ResumeDoes
<1>2. /\ \A k \in EdgeKeys : k \in ended <=> Linked(t, k) /\ At(k) /\ k.type # "message"
      /\ ended \subseteq EdgeKeys
  BY EdgesOfIs DEF Relationships, EdgesOf
<1>3. \A k \in EdgeKeys : Linked(w, k) <=> Linked(t, k)
  BY DEF Linked
<1>4. u.history = w.history - EdgeUnits(w, ended)
  BY DEF ResumeEdges, IsOwners, OwnerFields
<1> HIDE DEF u, ended
<1>5. EdgeUnits(w, ended) = D
  BY <1>2, <1>3, EdgeUnitsAre
<1>6. SameActors(w, u)
  BY <1>1 DEF Resumed, SameActors, OwnerFields, EvidenceFields
<1>7. /\ \A k \in EdgeKeys : Linked(u, k) <=> Linked(w, k) /\ k \notin ended
      /\ \A k \in EdgeKeys : Linked(u, k) =>
           /\ u.edges[k].contributors = w.edges[k].contributors
           /\ u.edges[k].messages = w.edges[k].messages
  <2> SUFFICES ASSUME NEW k \in EdgeKeys
               PROVE  /\ Linked(u, k) <=> Linked(w, k) /\ k \notin ended
                      /\ Linked(u, k) =>
                           /\ u.edges[k].contributors = w.edges[k].contributors
                           /\ u.edges[k].messages = w.edges[k].messages
    OBVIOUS
  <2>1. CASE At(k)
    BY <1>1, <1>2, <1>3, <2>1 DEF Resumed
  <2>2. CASE ~At(k)
    <3>1. u.edges[k] = t.edges[k]
      BY <1>1, <2>2 DEF Resumed
    <3> QED BY <1>2, <1>3, <2>2, <3>1 DEF Linked
  <2> QED BY <2>1, <2>2
<1>8. \A k \in EdgeKeys : Linked(u, k) =>
        FiledEdge(k, u.edges[k]) /\ EdgeCost(u.edges[k]) = EdgeCost(w.edges[k])
  BY <1>7 DEF Filed, FiledEdge, EdgeCost
<1>9. /\ \A k \in EdgeKeys \ ended : EdgeCosts(u)[k] = EdgeCosts(w)[k]
      /\ \A k \in ended : EdgeCosts(u)[k] = 0
  BY <1>2, <1>7, <1>8 DEF EdgeCosts
<1>10. \A k \in EdgeKeys : EdgeCosts(w)[k] \in Int
  BY CostsAreNumbers DEF CostsTyped
<1>11. Filed(u) /\ Balanced(u)
  <2> DEFINE d == EdgeCosts(w)
  <2>1. /\ \A k \in ended : d[k] \in Int /\ EdgeCosts(u)[k] = EdgeCosts(w)[k] - d[k]
        /\ u.history = w.history - SumOver(d, ended)
    BY <1>2, <1>4, <1>5, <1>9, <1>10
  <2> HIDE DEF d, D
  <2> QED BY <1>2, <1>6, <1>8, <1>9, <2>1, EdgesBooks
<1> QED BY <1>11 DEF u

(* An incarnation succeeds another.                                         *)
LEMMA NodeSwitchWell ==
  ASSUME NEW t, Well(t), NEW e \in Events, NEW at \in Nat,
         NodeRefusal(t, e) = "", Switches(t, e)
  PROVE  Well(StageNode(t, e, at))
<1> DEFINE a == e.actor
           old == t.current[a].inc
           s == Succeed(t, e)
           v == WithProof(s, e, at)
           n == ObservedNode(v, e, TRUE)
           w == WithNode(v, a, n)
           u == StageNode(t, e, at)
<1>0. a \in Actors
  BY EventIs
<1>1. u = ResumeEdges(w, a, old, e.inc)
  BY DEF StageNode, ShowObserved
<1>2. Succeeded(t, u, e)
  BY NodeSwitchSound DEF Well
<1>3. IsOwners(s) /\ Filed(s) /\ Balanced(s) /\ s.edges = t.edges
  BY SucceedBooks
<1> HIDE DEF u, v, s, n
<1>4. /\ s.history \in Int /\ IsOwners(v) /\ v.edges = s.edges /\ Refiled(s, v, a)
  <2>1. s.history \in Int
    <3>1. s.history \in Nat
      BY <1>3, HistoryIs
    <3> QED BY ONLY <3>1
  <2>2. IsOwners(v) /\ v.edges = s.edges
    BY <1>3, WithProofIs DEF v
  <2>3. Refiled(s, v, a)
    BY <1>3, <2>1, WithProofBooks DEF v
  <2> QED BY <2>1, <2>2, <2>3
<1>5. Filed(v) /\ Balanced(v)
  BY <1>0, <1>3, <1>4, EditedBalances DEF Refiled
<1>6. SameBooks(v, w)
  BY <1>4, WithNodeSame
<1>7. Filed(w) /\ Balanced(w)
  BY <1>5, <1>6, SameBooksBalance
<1>8. IsOwners(w) /\ w.edges = v.edges
  <2>1. IsNode(n)
    <3> DEFINE before == v.nodes[a]
    <3>1. before = v.nodes[e.actor] /\ (before = NoNode \/ IsNode(before)) /\ e \in Events
      BY <1>0, <1>4 DEF IsOwners
    <3> HIDE DEF before
    <3>2. IsNode(SuccessorNode(v, e))
      BY ONLY <3>1, ObservedSuccessorIs
    <3> QED BY <3>2 DEF SuccessorNode, n
  <2>2. a \in Actors /\ IsOwners(v) /\ IsNode(n)
    BY <1>0, <1>4, <2>1
  <2> HIDE DEF a
  <2> DEFINE m == [n EXCEPT !.partial = NodePartial(n, v.gaps)]
  <2>3. /\ IsOwners(w) /\ w.nodes[a] = m
        /\ \A b \in Actors \ {a} : w.nodes[b] = v.nodes[b]
        /\ \A f \in OwnerFields \ {"nodes"} : w[f] = v[f]
    BY ONLY <2>2, WithNodeDoes
  <2> QED BY <2>3 DEF OwnerFields
<1> HIDE DEF w
<1>9. Filed(u) /\ Balanced(u)
  BY <1>0, <1>1, <1>3, <1>4, <1>7, <1>8, ResumeBooks DEF Well
<1>10. Retiring(u)
  <2>1. /\ <<a, e.inc>> \notin t.retired /\ u.retired = t.retired \cup {<<a, old>>}
        /\ u.current[a].inc = e.inc /\ \A b \in Actors \ {a} : u.current[b] = t.current[b]
    BY <1>2 DEF Succeeded
  <2>2. e.inc # old /\ e.inc # 0
    BY EventIs DEF Switches, Knows
  <2>3. Retiring(t)
    BY DEF Well, Booked
  <2> SUFFICES ASSUME NEW b \in Actors
               PROVE  /\ <<b, u.current[b].inc>> \notin u.retired
                      /\ u.current[b].inc = 0 => \A inc : <<b, inc>> \notin u.retired
    BY DEF Retiring
  <2>4. CASE b = a
    BY <2>1, <2>2, <2>4
  <2>5. CASE b # a
    BY <2>1, <2>3, <2>5 DEF Retiring
  <2> QED BY <2>4, <2>5
<1> QED BY <1>2, <1>9, <1>10 DEF Succeeded, Well, Booked, u

LEMMA NodeWell ==
  ASSUME NEW t, Well(t), NEW e \in Events, NEW at \in Nat, NodeRefusal(t, e) = ""
  PROVE  Well(StageNode(t, e, at))
BY NodeAgainWell, NodeSwitchWell

-----------------------------------------------------------------------------
(* What Advance gives back.                                                 *)

(* The messages of edge k whose time is over.                               *)
Lapsing(t, now, k) ==
  {m \in t.edges[k].messages :
     \E x \in {x \in t.expiry : now >= x.at} : x.edge = k /\ x.digest = m.digest}
LapsingUnits(t, now, K) == [k \in K |-> Cardinality(Lapsing(t, now, k))]

Lapsed(t, u, now, k) ==
  LET gone == Lapsing(t, now, k)
      left == t.edges[k].messages \ gone
  IN IF ~Linked(t, k) THEN ~Linked(u, k)
     ELSE IF gone = {} THEN Linked(u, k) /\ u.edges[k] = t.edges[k]
     ELSE IF left = {} THEN ~Linked(u, k)
     ELSE /\ Linked(u, k) /\ u.edges[k].messages = left
          /\ u.edges[k].contributors = t.edges[k].contributors

LEMMA LapsedIs ==
  ASSUME NEW t, IsOwners(t), NEW now
  PROVE  LET u == MessageExpiry(t, now)
             K == {k \in EdgeKeys : Linked(t, k) /\ Lapsing(t, now, k) # {}}
         IN /\ SameActors(t, u) /\ \A k \in EdgeKeys : Lapsed(t, u, now, k)
            /\ u.history = t.history - SumOver(LapsingUnits(t, now, K), K)
<1> DEFINE due == {x \in t.expiry : now >= x.at}
           gone(k) == Lapsing(t, now, k)
           K == {k \in EdgeKeys : Linked(t, k) /\ gone(k) # {}}
           rest(k) == [t.edges[k] EXCEPT !.messages = t.edges[k].messages \ gone(k)]
           kept(k) == [rest(k) EXCEPT !.partial = EdgePartial(k, rest(k), t.gaps)]
           E == [k \in EdgeKeys |-> IF k \notin K THEN t.edges[k]
                                    ELSE IF rest(k).messages = {} THEN NoEdge ELSE kept(k)]
           X == t.expiry \ due
           H == t.history - SumOver(LapsingUnits(t, now, K), K)
           u == MessageExpiry(t, now)
           v == [t EXCEPT !.expiry = X, !.edges = E, !.history = H]
<1>1. u = v
  BY DEF MessageExpiry, Lapsing, LapsingUnits, SumOver
<1>2. \A k \in EdgeKeys : E[k] = IF k \notin K THEN t.edges[k]
                                 ELSE IF rest(k).messages = {} THEN NoEdge ELSE kept(k)
  OBVIOUS
<1> HIDE DEF E, H, X, u
<1>3. u.edges = E /\ u.history = H /\ SameActors(t, u)
  <2>1. v.edges = E /\ v.history = H
        /\ \A f \in OwnerFields \ {"edges", "history", "expiry"} : v[f] = t[f]
    BY DEF IsOwners, OwnerFields
  <2> HIDE DEF v
  <2> QED BY <1>1, <2>1 DEF SameActors, EvidenceFields, OwnerFields
<1> HIDE DEF v
<1>4. ASSUME NEW k \in EdgeKeys PROVE Lapsed(t, u, now, k)
  <2> DEFINE e == t.edges[k]
             M == e.messages \ gone(k)
             h == [e EXCEPT !.messages = M]
             p == EdgePartial(k, h, t.gaps)
             s == [h EXCEPT !.partial = p]
  <2>1. u.edges[k] = IF k \notin K THEN e ELSE IF h.messages = {} THEN NoEdge ELSE s
    <3>1. rest(k) = h /\ kept(k) = s
      OBVIOUS
    <3> HIDE DEF K, rest, kept, h, s
    <3> QED BY <1>2, <1>3, <3>1
  <2>2. CASE ~Linked(t, k)
    <3>1. u.edges[k] = e
      BY <2>1, <2>2
    <3> QED BY <2>2, <3>1 DEF Lapsed, Linked
  <2>3. CASE Linked(t, k) /\ gone(k) = {}
    <3>1. u.edges[k] = e
      BY <2>1, <2>3
    <3> QED BY <2>3, <3>1 DEF Lapsed, Linked
  <2>4. CASE Linked(t, k) /\ gone(k) # {}
    <3>1. IsEdge(e) /\ k \in K
      BY <2>4, LinkedIsEdge
    <3>2. Linked(t, k) /\ Lapsing(t, now, k) # {} /\ M = t.edges[k].messages \ Lapsing(t, now, k)
      BY <2>4
    <3> HIDE DEF e, M, K, gone
    <3>3. IsEdge(h) /\ h.messages = M /\ h.contributors = e.contributors
      BY <3>1, OtherMessages
    <3> HIDE DEF h, p
    <3>4. IsEdge(s) /\ s.messages = h.messages /\ s.contributors = h.contributors
      BY <3>3 DEF IsEdge
    <3> HIDE DEF s
    <3>5. CASE M = {}
      <4>1. u.edges[k] = NoEdge
        BY <2>1, <3>1, <3>3, <3>5
      <4> QED BY <3>2, <3>5, <4>1 DEF Lapsed, Linked
    <3>6. CASE M # {}
      <4>1. u.edges[k] = s
        BY <2>1, <3>1, <3>3, <3>6
      <4>2. Linked(u, k) /\ u.edges[k].messages = M /\ u.edges[k].contributors = e.contributors
        BY <3>3, <3>4, <4>1, EdgeShows DEF Linked
      <4> QED BY <3>2, <3>6, <4>2 DEF Lapsed, e
    <3> QED BY <3>5, <3>6
  <2> QED BY <2>2, <2>3, <2>4
<1> QED BY <1>3, <1>4 DEF H, u

(* What is left of a set is counted.                                        *)
LEMMA Leaving ==
  ASSUME NEW S, IsFiniteSet(S), NEW T, T \subseteq S
  PROVE  /\ IsFiniteSet(S \ T) /\ Cardinality(S) \in Nat /\ Cardinality(T) \in Nat
         /\ Cardinality(S \ T) = Cardinality(S) - Cardinality(T)
<1>1. IsFiniteSet(T) /\ IsFiniteSet(S \ T) /\ S \cap T = T
  BY FS_Subset
<1>2. Cardinality(S \ T) = Cardinality(S) - Cardinality(T)
  BY <1>1, FS_Difference
<1> QED BY <1>1, <1>2, FS_CardinalityType

LEMMA MessageExpiryBooks ==
  ASSUME NEW t, Well(t), NEW now
  PROVE  LET u == MessageExpiry(t, now) IN Filed(u) /\ Balanced(u)
<1> DEFINE u == MessageExpiry(t, now)
           K == {k \in EdgeKeys : Linked(t, k) /\ Lapsing(t, now, k) # {}}
           d == LapsingUnits(t, now, K)
<1>0. IsOwners(t) /\ Filed(t) /\ Balanced(t)
  BY DEF Well, Sound, Booked
<1>1. /\ SameActors(t, u) /\ \A k \in EdgeKeys : Lapsed(t, u, now, k)
      /\ u.history = t.history - SumOver(LapsingUnits(t, now, K), K)
  BY <1>0, LapsedIs
<1>2. K \subseteq EdgeKeys /\ \A k \in K : d[k] = Cardinality(Lapsing(t, now, k))
  BY DEF LapsingUnits
<1>3. \A k \in EdgeKeys : k \in K <=> Linked(t, k) /\ Lapsing(t, now, k) # {}
  OBVIOUS
<1>4. u.history = t.history - SumOver(d, K)
  BY <1>1
<1> HIDE DEF u, K, d
<1>5. ASSUME NEW k \in EdgeKeys
      PROVE  /\ Linked(u, k) => FiledEdge(k, u.edges[k])
             /\ k \notin K => EdgeCosts(u)[k] = EdgeCosts(t)[k]
             /\ k \in K => d[k] \in Int /\ EdgeCosts(u)[k] = EdgeCosts(t)[k] - d[k]
  <2> DEFINE gone == Lapsing(t, now, k)
             M == t.edges[k].messages
             C == t.edges[k].contributors
  <2>1. CASE ~Linked(t, k)
    BY <1>1, <1>3, <2>1 DEF Lapsed, EdgeCosts
  <2>2. CASE Linked(t, k) /\ gone = {}
    BY <1>0, <1>1, <1>3, <2>2 DEF Lapsed, EdgeCosts, Filed
  <2>3. CASE Linked(t, k) /\ gone # {}
    <3>1. /\ FiledEdge(k, t.edges[k]) /\ IsFiniteSet(M) /\ IsFiniteSet(C)
          /\ k.type = "message" => C = {}
      BY <1>0, <2>3 DEF Filed, FiledEdge
    <3>2. gone \subseteq M
      BY DEF Lapsing
    <3>3. k.type = "message"
      BY <2>3, <3>2 DEF Well, Sound, Apart
    <3>4. C = {} /\ Cardinality(C) = 0
      BY <3>1, <3>3, FS_EmptySet
    <3>5. EdgeCosts(t)[k] = Cardinality(C) + Cardinality(M)
      BY <2>3 DEF EdgeCosts, EdgeCost
    <3>6. k \in K /\ d[k] = Cardinality(gone)
      BY <1>2, <1>3, <2>3
    <3>7. /\ IsFiniteSet(M \ gone) /\ Cardinality(M) \in Nat /\ Cardinality(gone) \in Nat
          /\ Cardinality(M \ gone) = Cardinality(M) - Cardinality(gone)
      BY <3>1, <3>2, Leaving
    <3>8. CASE M \ gone = {}
      <4>1. ~Linked(u, k)
        BY <1>1, <2>3, <3>8 DEF Lapsed
      <4>2. Cardinality(M \ gone) = 0
        BY <3>8, FS_EmptySet
      <4>3. EdgeCosts(u)[k] = 0
        BY <4>1 DEF EdgeCosts
      <4> HIDE DEF M, gone, C
      <4> QED BY <3>4, <3>5, <3>6, <3>7, <4>1, <4>2, <4>3
    <3>9. CASE M \ gone # {}
      <4>1. Linked(u, k) /\ u.edges[k].messages = M \ gone /\ u.edges[k].contributors = C
        BY <1>1, <2>3, <3>9 DEF Lapsed
      <4>2. EdgeCosts(u)[k] = Cardinality(C) + Cardinality(M \ gone)
        BY <4>1 DEF EdgeCosts, EdgeCost
      <4>3. FiledEdge(k, u.edges[k])
        BY <3>1, <3>7, <4>1 DEF FiledEdge
      <4> HIDE DEF M, gone, C
      <4> QED BY <3>4, <3>5, <3>6, <3>7, <4>2, <4>3
    <3> QED BY <3>8, <3>9
  <2> QED BY <2>1, <2>2, <2>3
<1>6. Filed(u) /\ Balanced(u)
  BY <1>0, <1>1, <1>2, <1>4, <1>5, EdgesBooks
<1> QED BY <1>6 DEF u

(* No evidence is filed, and costs nothing.                                 *)
LEMMA NothingFiled ==
  ASSUME NEW u, NEW a, u.proofs[a] = <<>>, u.metrics[a] = <<>>, u.states[a] = <<>>,
         u.approvals[a] = <<>>, u.health[a] = {}
  PROVE  FiledActor(u, a) /\ ActorCost(u, a) = 0
<1>1. FiledHealth({}) /\ Cardinality({}) = 0
  BY FS_EmptySet DEF FiledHealth
<1>2. /\ FiledProofs(<<>>) /\ FiledMetrics(<<>>) /\ FiledStates(<<>>) /\ FiledApprovals(<<>>)
      /\ Len(<<>>) = 0
  BY NoRows DEF FiledProofs, FiledMetrics, FiledStates, FiledApprovals
<1>3. FiledActor(u, a)
  BY <1>1, <1>2 DEF FiledActor
<1>4. /\ Len(u.proofs[a]) = 0 /\ Len(u.states[a]) = 0 /\ Len(u.approvals[a]) = 0
      /\ Cardinality(u.health[a]) = 0 /\ Len(u.metrics[a]) = 0
  BY <1>1, <1>2
<1>5. ActorCost(u, a) = 0
  BY <1>4 DEF ActorCost, EvidenceUnits
<1> QED BY <1>3, <1>5

(* Actors that go with all of their evidence.                               *)
LEMMA ActorsBooks ==
  ASSUME NEW t, NEW u, Filed(t), Balanced(t), NEW A, A \subseteq Actors,
         u.edges = t.edges, u.cursors = t.cursors, u.retired = t.retired,
         \A f \in EvidenceFields : /\ u[f] = [a \in Actors |-> u[f][a]]
                                   /\ \A a \in Actors \ A : u[f][a] = t[f][a],
         \A a \in A : /\ u.proofs[a] = <<>> /\ u.metrics[a] = <<>> /\ u.states[a] = <<>>
                      /\ u.approvals[a] = <<>> /\ u.health[a] = {},
         u.history = t.history - SumOver(ActorCosts(t), A)
  PROVE  Filed(u) /\ Balanced(u)
<1>1. \A a \in Actors \ A :
        /\ u.proofs[a] = t.proofs[a] /\ u.metrics[a] = t.metrics[a] /\ u.states[a] = t.states[a]
        /\ u.approvals[a] = t.approvals[a] /\ u.health[a] = t.health[a]
  BY DEF EvidenceFields
<1>2. \A a \in Actors \ A : FiledActor(u, a) /\ ActorCosts(u)[a] = ActorCosts(t)[a]
  BY <1>1 DEF Filed, FiledActor, ActorCosts, ActorCost, EvidenceUnits
<1>3. \A a \in A : FiledActor(u, a) /\ ActorCosts(u)[a] = 0
  BY NothingFiled DEF ActorCosts
<1>4. EdgeCosts(u) = EdgeCosts(t) /\ MovedCursors(u) = MovedCursors(t)
      /\ \A k : Linked(u, k) <=> Linked(t, k)
  BY DEF EdgeCosts, MovedCursors, Linked
<1>5. Filed(u)
  <2>1. \A a \in Actors : FiledActor(u, a)
    BY <1>2, <1>3
  <2>2. \A k \in EdgeKeys : Linked(u, k) => FiledEdge(k, u.edges[k])
    BY <1>4 DEF Filed
  <2>3. IsFiniteSet(u.retired) /\ IsFiniteSet(MovedCursors(u))
        /\ u.cursors = [k \in Sources \X Actors |-> u.cursors[k]]
    BY <1>4 DEF Filed
  <2>4. \A f \in EvidenceFields : u[f] = [a \in Actors |-> u[f][a]]
    OBVIOUS
  <2> QED BY <2>1, <2>2, <2>3, <2>4 DEF Filed
<1>6. CostsTyped(u) /\ CostsTyped(t)
  BY <1>5, CostsAreNumbers
<1>7. SumOver(ActorCosts(u), Actors) = SumOver(ActorCosts(t), Actors) - SumOver(ActorCosts(t), A)
  <2> DEFINE p == ActorCosts(u)
             q == ActorCosts(t)
  <2>1. \A a \in Actors : p[a] \in Int /\ q[a] \in Int
    BY <1>6 DEF CostsTyped
  <2>2. IsFiniteSet(Actors)
    BY ReducerAssumption
  <2>3. (\A a \in A : p[a] = q[a] - q[a] /\ q[a] \in Int) /\ \A a \in Actors \ A : p[a] = q[a]
    BY <1>2, <1>3, <2>1
  <2> HIDE DEF p, q
  <2>4. SumOver(p, Actors) = SumOver(q, Actors) - SumOver(q, A)
    BY <2>1, <2>2, <2>3, SumDrops
  <2> QED BY <2>4 DEF p, q
<1>8. Balanced(u)
  <2> DEFINE x == SumOver(ActorCosts(t), Actors)
             y == SumOver(ActorCosts(u), Actors)
             z == SumOver(EdgeCosts(t), EdgeKeys)
             D == SumOver(ActorCosts(t), A)
             r == Cardinality(t.retired)
             m == Cardinality(MovedCursors(t))
  <2>1. x \in Nat /\ z \in Nat /\ r \in Nat /\ m \in Nat /\ y \in Nat
    BY <1>6 DEF CostsTyped
  <2>2. t.history = r + m + z + x
    BY DEF Balanced
  <2>3. Balanced(u) <=> u.history = r + m + z + y
    BY <1>4 DEF Balanced
  <2>4. u.history = t.history - D /\ y = x - D
    BY <1>7
  <2>5. D \in Int
    <3>1. IsFiniteSet(A) /\ \A a \in A : ActorCosts(t)[a] \in Int
      BY <1>6, FS_Subset, ReducerAssumption DEF CostsTyped
    <3> QED BY <3>1, SumTyped
  <2> HIDE DEF x, z, r, m, y, D
  <2>6. u.history = r + m + z + y
    BY <2>1, <2>2, <2>4, <2>5
  <2> QED BY <2>3, <2>6
<1> QED BY <1>5, <1>8

(* An actor goes with its edges.                                            *)
LEMMA GhostExpiryBooks ==
  ASSUME NEW t, IsOwners(t), Filed(t), Balanced(t), NEW now, NEW scope, scope \subseteq Actors
  PROVE  LET u == GhostExpiry(t, now, scope) IN Filed(u) /\ Balanced(u)
<1> DEFINE gone == {a \in scope : GhostOver(t.nodes[a], now)}
           cut == UNION {EdgesOf(t, a, t.nodes[a].inc) : a \in gone}
           E == [k \in EdgeKeys |-> IF k \in cut THEN NoEdge ELSE t.edges[k]]
           clear(f, none) == [a \in Actors |-> IF a \in gone THEN none ELSE f[a]]
           N == clear(t.nodes, NoNode)
           P == clear(t.proofs, <<>>)
           M == clear(t.metrics, <<>>)
           S == clear(t.states, <<>>)
           A == clear(t.approvals, <<>>)
           L == clear(t.health, {})
           X == {x \in t.expiry : x.edge \notin cut}
           D == EdgeUnits(t, cut)
           G == ActorUnits(t, gone)
           H == t.history - D - G
           J == t.history - D
           u == GhostExpiry(t, now, scope)
           v == [t EXCEPT !.nodes = N, !.proofs = P, !.metrics = M, !.states = S,
                          !.approvals = A, !.health = L, !.edges = E, !.expiry = X,
                          !.history = H]
           c == [t EXCEPT !.edges = E, !.history = J]
<1>1. u = v
  BY DEF GhostExpiry
<1>2. cut \subseteq EdgeKeys /\ \A k \in cut : Linked(t, k)
  BY DEF EdgesOf
<1>3. \A k \in EdgeKeys : E[k] = IF k \in cut THEN NoEdge ELSE t.edges[k]
  OBVIOUS
<1>4. gone \subseteq Actors
  OBVIOUS
<1>5. /\ \A a \in gone : P[a] = <<>> /\ M[a] = <<>> /\ S[a] = <<>> /\ A[a] = <<>> /\ L[a] = {}
      /\ \A a \in Actors \ gone : /\ P[a] = t.proofs[a] /\ M[a] = t.metrics[a]
                                  /\ S[a] = t.states[a] /\ A[a] = t.approvals[a]
                                  /\ L[a] = t.health[a]
  BY <1>4
<1>6. /\ P = [a \in Actors |-> P[a]] /\ M = [a \in Actors |-> M[a]] /\ S = [a \in Actors |-> S[a]]
      /\ A = [a \in Actors |-> A[a]] /\ L = [a \in Actors |-> L[a]]
  OBVIOUS
<1>7. D = SumOver(EdgeCosts(t), cut) /\ G = SumOver(ActorCosts(t), gone)
  BY <1>2, <1>4, EdgeUnitsAre, ActorUnitsAre
<1> HIDE DEF gone, cut, E, N, P, M, S, A, L, X, D, G, H, J, u
<1>8. /\ v.proofs = P /\ v.metrics = M /\ v.states = S /\ v.approvals = A /\ v.health = L
      /\ v.edges = E /\ v.history = H /\ v.cursors = t.cursors /\ v.retired = t.retired
  BY DEF IsOwners, OwnerFields
<1>9. c.edges = E /\ c.history = J /\ \A f \in OwnerFields \ {"edges", "history"} : c[f] = t[f]
  BY DEF IsOwners, OwnerFields
<1> HIDE DEF v, c
<1>10. SameActors(t, c)
  BY <1>9 DEF SameActors, EvidenceFields, OwnerFields
<1>11. \A k \in EdgeKeys : /\ k \in cut => ~Linked(c, k)
                           /\ k \notin cut => c.edges[k] = t.edges[k] /\ (Linked(c, k) <=> Linked(t, k))
  BY <1>3, <1>9 DEF Linked
<1>12. \A k \in EdgeKeys : Linked(c, k) => FiledEdge(k, c.edges[k])
  BY <1>11 DEF Filed
<1>13. /\ \A k \in EdgeKeys \ cut : EdgeCosts(c)[k] = EdgeCosts(t)[k]
       /\ \A k \in cut : EdgeCosts(c)[k] = 0
  BY <1>2, <1>11 DEF EdgeCosts
<1>14. \A k \in EdgeKeys : EdgeCosts(t)[k] \in Int
  BY CostsAreNumbers DEF CostsTyped
<1>15. Filed(c) /\ Balanced(c)
  <2> DEFINE d == EdgeCosts(t)
  <2>1. /\ \A k \in cut : d[k] \in Int /\ EdgeCosts(c)[k] = EdgeCosts(t)[k] - d[k]
        /\ c.history = t.history - SumOver(d, cut)
    BY <1>2, <1>7, <1>9, <1>13, <1>14 DEF J
  <2> HIDE DEF d
  <2> QED BY <1>2, <1>10, <1>12, <1>13, <2>1, EdgesBooks
<1>16. /\ c.proofs = t.proofs /\ c.metrics = t.metrics /\ c.states = t.states
       /\ c.approvals = t.approvals /\ c.health = t.health
       /\ c.cursors = t.cursors /\ c.retired = t.retired
  BY <1>9 DEF OwnerFields
<1>17. ActorCosts(c) = ActorCosts(t)
  BY <1>16 DEF ActorCosts, ActorCost, EvidenceUnits
<1>18. v.history = c.history - SumOver(ActorCosts(c), gone)
  <2>1. v.history = t.history - D - G /\ c.history = t.history - D
    BY <1>8, <1>9 DEF H, J
  <2> QED BY <1>7, <1>17, <2>1
<1>19. \A f \in EvidenceFields : /\ v[f] = [a \in Actors |-> v[f][a]]
                                 /\ \A a \in Actors \ gone : v[f][a] = c[f][a]
  BY <1>5, <1>6, <1>8, <1>16 DEF EvidenceFields
<1>20. v.edges = c.edges /\ v.cursors = c.cursors /\ v.retired = c.retired
  BY <1>8, <1>9, <1>16
<1>21. \A a \in gone : /\ v.proofs[a] = <<>> /\ v.metrics[a] = <<>> /\ v.states[a] = <<>>
                       /\ v.approvals[a] = <<>> /\ v.health[a] = {}
  BY <1>5, <1>8
<1>22. Filed(v) /\ Balanced(v)
  BY <1>4, <1>15, <1>18, <1>19, <1>20, <1>21, ActorsBooks
<1> QED BY <1>1, <1>22 DEF u

(* Retiring only speaks of incarnations.                                    *)
LEMMA RetiringStays ==
  ASSUME NEW t, NEW u, Retiring(t), Keeps(t, u)
  PROVE  Retiring(u)
BY DEF Retiring, Keeps

LEMMA GhostExpiryWell ==
  ASSUME NEW t, Well(t), NEW now, NEW scope, scope \subseteq Actors
  PROVE  Well(GhostExpiry(t, now, scope))
<1> DEFINE u == GhostExpiry(t, now, scope)
<1>1. Filed(u) /\ Balanced(u)
  BY GhostExpiryBooks DEF Well, Sound, Booked
<1>2. Keeps(t, u)
  BY GhostExpiryKeeps DEF Well
<1> HIDE DEF u
<1> QED BY <1>1, <1>2, RetiringStays DEF Keeps, Well, Booked, u

LEMMA MessageExpiryWell ==
  ASSUME NEW t, Well(t), NEW now
  PROVE  Well(MessageExpiry(t, now))
<1> DEFINE u == MessageExpiry(t, now)
<1>1. Filed(u) /\ Balanced(u)
  BY MessageExpiryBooks
<1>2. Keeps(t, u)
  BY MessageExpiryKeeps DEF Well
<1> HIDE DEF u
<1> QED BY <1>1, <1>2, RetiringStays DEF Keeps, Well, Booked, u

LEMMA AdvancedWell ==
  ASSUME NEW t, Well(t), NEW now
  PROVE  Well(Advanced(t, now))
BY MessageExpiryWell, GhostExpiryWell, DueWell DEF Advanced

-----------------------------------------------------------------------------
(* The strongest of the evidence.                                           *)

Better(best, e) == IF best = NoEvidence \/ StateWins(e, best) THEN e ELSE best
Judged == StateRecords \cup {NoEvidence}

(* Strongest looks at one place after the other.                            *)
LEMMA StrongestTrail ==
  ASSUME NEW s \in Seq(StateRecords)
  PROVE  \E f : /\ f[0] = NoEvidence /\ Strongest(s) = f[Len(s)]
                /\ \A i \in 0..Len(s) : f[i] \in Judged
                /\ \A i \in 1..Len(s) : f[i] = Better(f[i - 1], s[i])
<1> DEFINE n == Len(s)
           V == Judged
           q == NoEvidence
           G == [p \in V \X (1..n) |-> Better(p[1], s[p[2]])]
<1>0. n \in Nat /\ DOMAIN s = 1..n /\ (\A i \in 1..n : s[i] \in V) /\ q \in V
  BY DEF Judged
<1>1. \A v \in V, i \in 1..n : G[<<v, i>>] = Better(v, s[i]) /\ Better(v, s[i]) \in V
  BY <1>0 DEF Better
<1> HIDE DEF G, V, q
<1>2. PICK h : FoldOver(h, q, G, n) /\ \A t \in SUBSET (1..n) : h[t] \in V
  <2>1. q \in V /\ \A v \in V, i \in 1..n : G[<<v, i>>] \in V
    BY <1>0, <1>1
  <2> HIDE DEF n
  <2> QED BY <1>0, <2>1, FoldPlaces
<1>3. h = [t \in SUBSET (1..n) |->
             IF t = {} THEN q ELSE Better(h[t \ {Max(t)}], s[Max(t)])]
  <2>1. \A t \in SUBSET (1..n) : t # {} =>
          G[<<h[t \ {Max(t)}], Max(t)>>] = Better(h[t \ {Max(t)}], s[Max(t)])
    <3> SUFFICES ASSUME NEW t \in SUBSET (1..n), t # {}
                 PROVE  G[<<h[t \ {Max(t)}], Max(t)>>] = Better(h[t \ {Max(t)}], s[Max(t)])
      OBVIOUS
    <3>1. Max(t) \in 1..n /\ t \ {Max(t)} \in SUBSET (1..n)
      BY <1>0, GreatestNumber
    <3>2. h[t \ {Max(t)}] \in V
      BY <1>2, <3>1
    <3> HIDE DEF n
    <3> QED BY <1>1, <3>1, <3>2
  <2> HIDE DEF n
  <2> QED BY <1>2, <2>1 DEF FoldOver
<1> DEFINE Eqn(g) == g = [t \in SUBSET (1..n) |->
                            IF t = {} THEN q ELSE Better(g[t \ {Max(t)}], s[Max(t)])]
           k == CHOOSE g : Eqn(g)
<1>4. Eqn(k)
  BY <1>3
<1>5. Strongest(s) = k[1..n]
  <2>1. Strongest(s) = FoldLeft(Better, NoEvidence, s)
    BY DEF Strongest, Better
  <2> QED BY <1>0, <2>1 DEF FoldLeft, MapThenFoldSet, q
<1> HIDE DEF k
<1> DEFINE f == [i \in 0..n |-> k[1..i]]
<1>6. f[0] = q /\ f[n] = k[1..n]
  <2>1. 0 \in 0..n /\ n \in 0..n /\ 1..0 = {} /\ {} \in SUBSET (1..n)
    BY <1>0
  <2> QED BY <1>4, <2>1
<1>7. \A i \in 1..n : f[i] = Better(f[i - 1], s[i])
  <2> SUFFICES ASSUME NEW i \in 1..n PROVE f[i] = Better(f[i - 1], s[i])
    OBVIOUS
  <2>1. /\ 1..i \in SUBSET (1..n) /\ 1..i # {} /\ Max(1..i) = i
        /\ (1..i) \ {Max(1..i)} = 1..(i - 1)
    BY <1>0, LastPlace
  <2>2. f[i] = k[1..i] /\ f[i - 1] = k[1..(i - 1)]
    BY <1>0
  <2>3. k[1..i] = Better(k[(1..i) \ {Max(1..i)}], s[Max(1..i)])
    <3> DEFINE u == 1..i
    <3> HIDE DEF u, n
    <3> QED BY <1>4, <2>1 DEF u
  <2> QED BY <2>1, <2>2, <2>3
<1>8. \A i \in 0..n : f[i] \in V
  <2> DEFINE typed == {i \in 0..n : f[i] \in V}
  <2>1. 0 \in typed
    BY <1>0, <1>6
  <2>2. \A i \in 1..n : i - 1 \in typed => i \in typed
    <3> HIDE DEF f
    <3>1. \A i \in 1..n : f[i - 1] \in V => f[i] \in V
      <4> HIDE DEF n
      <4> QED BY <1>1, <1>7
    <3>2. \A i \in 1..n : i \in 0..n
      BY <1>0
    <3> HIDE DEF n
    <3> QED BY <3>1, <3>2
  <2>3. 0..n \subseteq typed
    <3> HIDE DEF typed, n
    <3> QED BY <1>0, <2>1, <2>2, UpToBound
  <2> QED BY <2>3
<1> HIDE DEF f
<1> QED BY <1>5, <1>6, <1>7, <1>8 DEF V, q

(* Evidence of an end outlasts evidence of anything else.                   *)
LEMMA EndWins ==
  ASSUME NEW best \in Judged, NEW e \in StateRecords,
         Terminal(best.value) \/ Terminal(e.value)
  PROVE  Terminal(Better(best, e).value)
<1>1. \A v : TerminalRank(v) \in 0..2 /\ (TerminalRank(v) > 0 <=> Terminal(v))
  BY DEF TerminalRank, Terminal
<1>2. ~Terminal(NoEvidence.value)
  BY DEF NoEvidence, Evidence, Terminal
<1>3. CASE best = NoEvidence
  BY <1>2, <1>3 DEF Better
<1>4. CASE best # NoEvidence /\ TerminalRank(e.value) = TerminalRank(best.value)
  BY <1>1, <1>4 DEF Better
<1>5. CASE best # NoEvidence /\ TerminalRank(e.value) # TerminalRank(best.value)
  <2>1. StateWins(e, best) <=> TerminalRank(e.value) > TerminalRank(best.value)
    BY <1>5 DEF StateWins
  <2> QED BY <1>1, <1>5, <2>1 DEF Better
<1> QED BY <1>3, <1>4, <1>5

LEMMA StrongestIs ==
  ASSUME NEW s \in Seq(StateRecords)
  PROVE  /\ Strongest(s) \in Judged
         /\ (\E x \in ToSet(s) : Terminal(x.value)) => Terminal(Strongest(s).value)
<1> DEFINE n == Len(s)
<1>1. PICK f : /\ f[0] = NoEvidence /\ Strongest(s) = f[n]
               /\ \A i \in 0..n : f[i] \in Judged
               /\ \A i \in 1..n : f[i] = Better(f[i - 1], s[i])
  BY StrongestTrail
<1>0. n \in Nat /\ DOMAIN s = 1..n /\ \A i \in 1..n : s[i] \in StateRecords
  OBVIOUS
<1> DEFINE P(i) == (\E j \in 1..i : Terminal(s[j].value)) => Terminal(f[i].value)
           good == {i \in 0..n : P(i)}
<1>2. 0 \in good
  <2>1. 1..0 = {} /\ 0 \in 0..n
    BY <1>0
  <2> QED BY <2>1
<1>3. ASSUME NEW i \in 1..n, i - 1 \in good PROVE i \in good
  <2>1. /\ f[i - 1] \in Judged /\ s[i] \in StateRecords /\ f[i] = Better(f[i - 1], s[i])
        /\ i \in 0..n /\ P(i - 1)
    BY <1>0, <1>1, <1>3
  <2>2. Terminal(f[i - 1].value) \/ Terminal(s[i].value) => Terminal(f[i].value)
    BY <2>1, EndWins
  <2>3. \A j \in 1..i : j = i \/ j \in 1..(i - 1)
    BY <1>0
  <2>4. P(i)
    BY <2>1, <2>2, <2>3
  <2> QED BY <2>1, <2>4
<1>4. n \in good
  <2>1. 0..n \subseteq good
    <3> HIDE DEF good, n
    <3> QED BY <1>0, <1>2, <1>3, UpToBound
  <2> QED BY <1>0, <2>1
<1>5. n \in 0..n
  BY <1>0
<1> QED BY <1>0, <1>1, <1>4, <1>5 DEF ToSet

(* foldState names evidence it holds, and the end of an actor once told.    *)
LEMMA FoldStateIs ==
  ASSUME NEW s, FiledStates(s), NEW q, FiledApprovals(q), NEW health, NEW now
  PROVE  /\ FoldState(s, q, health, now) \in Judged
         /\ (\E e \in ToSet(s) : Terminal(e.value) /\ e.until = 0)
              => Terminal(FoldState(s, q, health, now).value)
<1> DEFINE C == {e \in ToSet(s) : CountsAt(e, health, now)}
           counted == Among(s, C)
           best == Strongest(counted)
           asked == Among(q, {e \in ToSet(q) : Fresh(health, e.source, now)})
           told == [i \in DOMAIN asked |-> asked[i].evidence]
<1>1. FoldState(s, q, health, now) =
        IF Terminal(best.value) \/ asked = <<>> THEN best ELSE Strongest(told)
  BY DEF FoldState
<1>2. counted \in Seq(StateRecords) /\ ToSet(counted) = ToSet(s) \cap C
  BY AmongMembers DEF FiledStates
<1>3. asked \in Seq(ApprovalRecords)
  BY AmongMembers DEF FiledApprovals
<1>4. told \in Seq(StateRecords)
  <2>1. DOMAIN asked = 1..Len(asked) /\ \A i \in 1..Len(asked) : asked[i].evidence \in StateRecords
    <3> HIDE DEF asked
    <3>1. DOMAIN asked = 1..Len(asked) /\ \A i \in 1..Len(asked) : asked[i] \in ApprovalRecords
      BY <1>3
    <3> QED BY <3>1 DEF ApprovalRecords
  <2> HIDE DEF asked
  <2>2. told \in [1..Len(asked) -> StateRecords] /\ Len(asked) \in Nat
    BY <1>3, <2>1
  <2> QED BY <2>2, NumberedIsSeq
<1>5. /\ best \in Judged
      /\ (\E e \in ToSet(counted) : Terminal(e.value)) => Terminal(best.value)
  <2> HIDE DEF counted
  <2> QED BY <1>2, StrongestIs
<1>6. Strongest(told) \in Judged
  <2> HIDE DEF told
  <2> QED BY <1>4, StrongestIs
<1>7. ASSUME NEW e \in ToSet(s), Terminal(e.value), e.until = 0 PROVE e \in ToSet(counted)
  BY <1>2, <1>7 DEF CountsAt, Current
<1> HIDE DEF best, asked, told, counted
<1>8. (\E e \in ToSet(s) : Terminal(e.value) /\ e.until = 0) => Terminal(best.value)
  BY <1>5, <1>7
<1> QED BY <1>1, <1>5, <1>6, <1>8

-----------------------------------------------------------------------------
(* The shape of what the owners hold, beside the graph and the books.       *)

GapRows == [id: Ids \cup {Ledger}, cap: Capabilities \cup {""},
            kind: {"collector", "collision", "schema", "resource"}]
Errors == {"", "state-owner", "metrics-owner", "transition-time"}

Shaped(t) ==
  /\ t.gaps \subseteq GapRows /\ t.error \in Errors
  /\ \A a \in Actors : Present(t, a) => t.nodes[a].ghostAt \in Nat
  /\ \A k \in EdgeKeys : Linked(t, k) => \A m \in t.edges[k].messages : m.at \in Nat

(* No actor leaves.                                                         *)
Stays(t, u) == \A a \in Actors : Present(t, a) => Present(u, a)
Steady(t, u) == Shaped(u) /\ Stays(t, u)

LEMMA SteadyAgain ==
  ASSUME NEW t, NEW u, NEW v, Steady(t, u), Steady(u, v)
  PROVE  Steady(t, v)
BY DEF Steady, Stays

LEMMA SteadyNot == ASSUME NEW t, Shaped(t) PROVE Steady(t, t)
BY DEF Steady, Stays

(* A step beside them.                                                      *)
LEMMA SteadyBeside ==
  ASSUME NEW t, NEW u, Shaped(t), u.nodes = t.nodes, u.edges = t.edges, u.gaps = t.gaps,
         u.error \in Errors
  PROVE  Steady(t, u)
BY DEF Shaped, Steady, Stays, Present, Linked

LEMMA RefiledSteady ==
  ASSUME NEW t, NEW u, NEW a, Shaped(t), Refiled(t, u, a)
  PROVE  Steady(t, u)
<1>1. u.nodes = t.nodes /\ u.edges = t.edges /\ u.gaps = t.gaps /\ u.error = t.error
  BY DEF Refiled, Edited, StillFields
<1> QED BY <1>1, SteadyBeside DEF Shaped

LEMMA FailedSteady ==
  ASSUME NEW t, IsOwners(t), Shaped(t), NEW rule \in Errors
  PROVE  Steady(t, Failed(t, rule))
<1>1. \A f \in OwnerFields \ {"error"} : Failed(t, rule)[f] = t[f]
  BY DEF Failed, IsOwners, OwnerFields
<1>2. Failed(t, rule).error = rule
  BY DEF Failed, IsOwners, OwnerFields
<1> QED BY <1>1, <1>2, SteadyBeside DEF OwnerFields

LEMMA LoggedSteady ==
  ASSUME NEW t, IsOwners(t), Shaped(t), NEW a, NEW now, NEW value, NEW moves
  PROVE  Steady(t, Logged(t, a, now, value, moves))
<1>1. Steady(t, t)
  BY SteadyNot
<1>2. Steady(t, Failed(t, "transition-time"))
  BY FailedSteady DEF Errors
<1>3. Steady(t, [t EXCEPT !.transitions[a] = NextTransitions(t.transitions[a], now, value)])
  <2> DEFINE u == [t EXCEPT !.transitions[a] = NextTransitions(t.transitions[a], now, value)]
  <2>1. \A f \in OwnerFields \ {"transitions"} : u[f] = t[f]
    BY DEF IsOwners, OwnerFields
  <2> HIDE DEF u
  <2>2. Steady(t, u)
    BY <2>1, SteadyBeside DEF OwnerFields, Shaped
  <2> QED BY <2>2 DEF u
<1> QED BY <1>1, <1>2, <1>3 DEF Logged

(* A node that is written, with the gaps it is partial by.                  *)
LEMMA MarkKeepsGhost ==
  ASSUME NEW n, IsNode(n), NEW p
  PROVE  LET m == [n EXCEPT !.partial = p] IN IsNode(m) /\ m.ghostAt = n.ghostAt
BY DEF IsNode, NodeFields

LEMMA WithNodeSteady ==
  ASSUME NEW t, IsOwners(t), Shaped(t), NEW a \in Actors, NEW n, IsNode(n), n.ghostAt \in Nat
  PROVE  Steady(t, WithNode(t, a, n))
<1> DEFINE u == WithNode(t, a, n)
           m == [n EXCEPT !.partial = NodePartial(n, t.gaps)]
<1>1. /\ IsOwners(u) /\ u.nodes[a] = m
      /\ \A b \in Actors \ {a} : u.nodes[b] = t.nodes[b]
      /\ \A f \in OwnerFields \ {"nodes"} : u[f] = t[f]
  BY WithNodeDoes
<1>2. IsNode(m) /\ m.ghostAt \in Nat /\ m # NoNode
  BY MarkKeepsGhost, NodeShows
<1> HIDE DEF u, m
<1>3. u.edges = t.edges /\ u.gaps = t.gaps /\ u.error = t.error
  BY <1>1 DEF OwnerFields
<1>4. \A b \in Actors : /\ Present(t, b) => Present(u, b)
                        /\ Present(u, b) => u.nodes[b].ghostAt \in Nat
  BY <1>1, <1>2 DEF Present, Shaped
<1>5. Steady(t, u)
  BY <1>3, <1>4 DEF Shaped, Steady, Stays, Linked
<1> QED BY <1>5 DEF u

LEMMA StaleKeepsGhost ==
  ASSUME NEW n, IsNode(n), NEW b
  PROVE  LET m == [n EXCEPT !.stale = b] IN IsNode(m) /\ m.ghostAt = n.ghostAt
BY DEF IsNode, NodeFields

LEMMA StaleBitSteady ==
  ASSUME NEW t, IsOwners(t), Shaped(t), NEW a \in Actors, NEW b
  PROVE  Steady(t, StaleBit(t, a, b))
<1> DEFINE m == [t.nodes[a] EXCEPT !.stale = b]
           u == [t EXCEPT !.nodes[a] = m]
<1>1. CASE ~Present(t, a)
  BY <1>1, FailedSteady DEF StaleBit, Errors
<1>2. CASE Present(t, a)
  <2>1. StaleBit(t, a, b) = u
    BY <1>2 DEF StaleBit
  <2>2. IsNode(m) /\ m.ghostAt \in Nat /\ m # NoNode
    <3>1. IsNode(t.nodes[a]) /\ t.nodes[a].ghostAt \in Nat
      BY <1>2, PresentIsNode DEF Shaped
    <3> QED BY <3>1, StaleKeepsGhost, NodeShows
  <2> HIDE DEF m
  <2>3. /\ u.nodes[a] = m /\ \A c \in Actors \ {a} : u.nodes[c] = t.nodes[c]
        /\ u.edges = t.edges /\ u.gaps = t.gaps /\ u.error = t.error
    BY DEF IsOwners, OwnerFields
  <2> HIDE DEF u
  <2>4. \A c \in Actors : /\ Present(t, c) => Present(u, c)
                          /\ Present(u, c) => u.nodes[c].ghostAt \in Nat
    BY <2>2, <2>3 DEF Present, Shaped
  <2>5. Steady(t, u)
    BY <2>3, <2>4 DEF Shaped, Steady, Stays, Linked
  <2> QED BY <2>1, <2>5
<1> QED BY <1>1, <1>2

(* Edges whose messages are still those, or some of those, of before.       *)
LEMMA SteadyEdges ==
  ASSUME NEW t, NEW u, Shaped(t), u.nodes = t.nodes, u.gaps = t.gaps, u.error = t.error,
         \A k \in EdgeKeys : Linked(u, k) =>
           Linked(t, k) /\ u.edges[k].messages \subseteq t.edges[k].messages
  PROVE  Steady(t, u)
BY DEF Shaped, Steady, Stays, Present

LEMMA GhostEdgesSteady ==
  ASSUME NEW t, IsOwners(t), Shaped(t), NEW a, NEW inc
  PROVE  Steady(t, GhostEdges(t, a, inc))
<1> DEFINE u == GhostEdges(t, a, inc)
<1>1. /\ IsOwners(u)
      /\ \A f \in OwnerFields \ {"edges"} : u[f] = t[f]
      /\ \A k \in EdgeKeys : u.edges[k] = IF k \in Relationships(t, a, inc)
                                          THEN Ghost(t.edges[k]) ELSE t.edges[k]
  BY GhostEdgesDoes
<1> HIDE DEF u
<1>2. u.nodes = t.nodes /\ u.gaps = t.gaps /\ u.error = t.error
  BY <1>1 DEF OwnerFields
<1>3. \A k \in EdgeKeys : Linked(u, k) =>
        Linked(t, k) /\ u.edges[k].messages \subseteq t.edges[k].messages
  <2> SUFFICES ASSUME NEW k \in EdgeKeys, Linked(u, k)
               PROVE  Linked(t, k) /\ u.edges[k].messages \subseteq t.edges[k].messages
    OBVIOUS
  <2>1. CASE k \in Relationships(t, a, inc)
    <3>1. Linked(t, k)
      BY <2>1 DEF Relationships, EdgesOf
    <3>2. Ghost(t.edges[k]).messages = t.edges[k].messages
      BY <3>1, LinkedIsEdge, GhostIs
    <3> QED BY <1>1, <2>1, <3>1, <3>2
  <2>2. CASE k \notin Relationships(t, a, inc)
    BY <1>1, <2>2 DEF Linked
  <2> QED BY <2>1, <2>2
<1>4. Steady(t, u)
  BY <1>2, <1>3, SteadyEdges
<1> QED BY <1>4 DEF u

LEMMA ProjectSteady ==
  ASSUME NEW t, IsOwners(t), Shaped(t), NEW a \in Actors, NEW now, NEW winner,
         NEW after, IsNode(after), after.ghostAt \in Nat
  PROVE  Steady(t, ProjectAs(t, a, now, winner, after))
<1> DEFINE moves == after.state # t.nodes[a].state
           l == Logged(t, a, now, winner.value, moves)
           u == WithNode(l, a, after)
           g == GhostEdges(u, a, after.inc)
<1>1. ProjectAs(t, a, now, winner, after) = IF Terminal(winner.value) THEN g ELSE u
  BY DEF ProjectAs
<1>2. IsOwners(l) /\ Steady(t, l)
  BY LoggedAside, LoggedSteady DEF Aside
<1> HIDE DEF l
<1>3. Steady(l, u)
  BY <1>2, WithNodeSteady DEF Steady
<1>4. IsOwners(u)
  <2> HIDE DEF u
  <2>1. \A n : IsNode(n) => IsOwners(WithNode(l, a, n))
    BY <1>2, WithNodeDoes
  <2> QED BY <2>1 DEF u
<1> HIDE DEF u
<1>5. Steady(t, u)
  BY <1>2, <1>3, SteadyAgain
<1>6. Steady(u, g)
  BY <1>4, <1>5, GhostEdgesSteady DEF Steady
<1> HIDE DEF g
<1> QED BY <1>1, <1>5, <1>6, SteadyAgain

(* The ghost of a node that ends is over after a time.                      *)
LEMMA WithStateGhost ==
  ASSUME NEW n, IsNode(n), n.ghostAt \in Nat, NEW winner \in Judged
  PROVE  WithState(n, winner).ghostAt \in Nat
<1> DEFINE ids == IF winner = NoEvidence THEN {} ELSE {winner.source.id}
           m == [n EXCEPT !.state = Shown(winner),
                          !.stale = n.stale /\ ~Terminal(winner.value),
                          !.stateSources = IF winner.via = "state" THEN ids ELSE {},
                          !.terminalSources = IF winner.via = "terminal" THEN ids ELSE {}]
<1>1. WithState(n, winner) = TerminalMetadata(m, winner)
  BY DEF WithState
<1>2. IsNode(m) /\ m.ghostAt \in Nat
  BY DEF IsNode, NodeFields
<1> HIDE DEF m
<1>3. winner.at \in Nat
  <2>1. CASE winner = NoEvidence
    BY ONLY <2>1 DEF NoEvidence, Evidence
  <2>2. CASE winner \in StateRecords
    BY ONLY <2>2 DEF StateRecords
  <2> QED BY <2>1, <2>2 DEF Judged
<1>4. winner.at + GhostTTL(winner.value) \in Nat
  BY <1>3, EvidenceAssumption DEF GhostTTL
<1>5. CASE ~Terminal(winner.value)
  BY <1>1, <1>2, <1>5 DEF TerminalMetadata
<1>6. CASE Terminal(winner.value)
  <2> DEFINE c == IF winner.value = "completed" THEN winner.at ELSE 0
             f == IF winner.value = "failed" THEN winner.at ELSE 0
             g == winner.at + GhostTTL(winner.value)
             w == [m EXCEPT !.completedAt = c, !.failedAt = f, !.ghostAt = g]
  <2>1. TerminalMetadata(m, winner) = w
    BY <1>6 DEF TerminalMetadata
  <2> HIDE DEF c, f, g
  <2>2. w.ghostAt = g
    BY <1>2 DEF IsNode, NodeFields
  <2> QED BY <1>1, <1>4, <2>1, <2>2 DEF g
<1> QED BY <1>5, <1>6

LEMMA ProjectionSteady ==
  ASSUME NEW t, IsOwners(t), Shaped(t), NEW a \in Actors, FiledActor(t, a), NEW now
  PROVE  Steady(t, StateProjection(t, a, now))
<1> DEFINE winner == FoldState(t.states[a], t.approvals[a], t.health[a], now)
           m == WithState(t.nodes[a], winner)
<1>1. CASE ~Present(t, a)
  BY <1>1, FailedSteady DEF StateProjection, Errors
<1>2. CASE Present(t, a)
  <2>1. StateProjection(t, a, now) = ProjectAs(t, a, now, winner, m)
    BY <1>2 DEF StateProjection, ProjectTo
  <2>2. winner \in Judged
    BY FoldStateIs DEF FiledActor
  <2>3. IsNode(t.nodes[a]) /\ t.nodes[a].ghostAt \in Nat
    BY <1>2, PresentIsNode DEF Shaped
  <2> HIDE DEF winner
  <2>4. IsNode(m) /\ m.ghostAt \in Nat
    BY <2>2, <2>3, WithStateIs, WithStateGhost
  <2> HIDE DEF m
  <2> QED BY <2>1, <2>4, ProjectSteady
<1> QED BY <1>1, <1>2

-----------------------------------------------------------------------------
(* Every stage is steady.                                                   *)

LEMMA RefiledProjection ==
  ASSUME NEW t, Well(t), Shaped(t), NEW a \in Actors, NEW u, Keeps(t, u), Refiled(t, u, a),
         NEW now
  PROVE  Steady(t, StateProjection(u, a, now))
<1>1. Steady(t, u)
  BY RefiledSteady
<1>2. IsOwners(u) /\ FiledActor(u, a) /\ Shaped(u)
  BY <1>1 DEF Keeps, Sound, Refiled, Steady
<1>3. Steady(u, StateProjection(u, a, now))
  BY <1>2, ProjectionSteady
<1> QED BY <1>1, <1>3, SteadyAgain

LEMMA UsageGhost ==
  ASSUME NEW n, IsNode(n), NEW usage, NEW sources
  PROVE  LET m == [n EXCEPT !.usage = usage, !.metricSources = sources] IN
         IsNode(m) /\ m.ghostAt = n.ghostAt
BY DEF IsNode, NodeFields

LEMMA MetricsSteady ==
  ASSUME NEW t, Well(t), Shaped(t), NEW e \in Events, NEW at \in Nat
  PROVE  Steady(t, StageMetrics(t, e, at))
<1> DEFINE a == e.actor
           u == MetricsRow(t, e, at)
           fold == FoldMetrics(u.metrics[a])
           usage == fold.usage
           sources == fold.sources
           m == [t.nodes[a] EXCEPT !.usage = usage, !.metricSources = sources]
<1>1. StageMetrics(t, e, at) = IF ~Present(t, a) THEN Failed(t, "metrics-owner")
                               ELSE WithNode(u, a, m)
  BY DEF StageMetrics, MetricsRow
<1>2. CASE ~Present(t, a)
  BY <1>1, <1>2, FailedSteady DEF Well, Sound, Errors
<1>3. CASE Present(t, a)
  <2>0. a \in Actors
    BY EventIs
  <2>1. Refiled(t, u, a)
    BY WellHistory, MetricsRowBooks
  <2>2. IsOwners(u)
    BY <2>0 DEF Well, Sound, IsOwners, OwnerFields, MetricsRow
  <2>3. Steady(t, u)
    BY <2>1, RefiledSteady
  <2>4. IsNode(t.nodes[a]) /\ t.nodes[a].ghostAt \in Nat
    BY <1>3, <2>0, PresentIsNode DEF Well, Sound, Shaped
  <2> HIDE DEF u, a, usage, sources
  <2>5. IsNode(m) /\ m.ghostAt \in Nat
    BY <2>4, UsageGhost
  <2> HIDE DEF m
  <2>6. Steady(u, WithNode(u, a, m))
    BY <2>0, <2>2, <2>3, <2>5, WithNodeSteady DEF Steady
  <2> QED BY <1>1, <1>3, <2>3, <2>6, SteadyAgain
<1> QED BY <1>2, <1>3

(* The evidence of one actor again.                                         *)
Redone(t, u, a) == Keeps(t, u) /\ Refiled(t, u, a)

LEMMA RedoneAgain ==
  ASSUME NEW t, Well(t), NEW a \in Actors, NEW u, NEW v, Redone(t, u, a), Redone(u, v, a)
  PROVE  Redone(t, v, a)
<1>1. FiledActor(t, a) /\ t.history \in Int
  BY WellHistory DEF Filed
<1>2. Refiled(t, v, a)
  BY <1>1, RefiledAgain DEF Redone
<1>3. Keeps(t, v)
  BY KeepsAgain DEF Redone
<1> QED BY <1>2, <1>3 DEF Redone

LEMMA RedoneNot ==
  ASSUME NEW t, Well(t), NEW a \in Actors
  PROVE  Redone(t, t, a)
<1>1. Keeps(t, t)
  BY DEF Well, Keeps
<1> QED BY <1>1, WellHistory, RefiledNot DEF Redone

LEMMA RedoneWell ==
  ASSUME NEW t, Well(t), NEW a \in Actors, NEW u, Redone(t, u, a)
  PROVE  Well(u)
BY RefiledWell DEF Redone

LEMMA StateSteady ==
  ASSUME NEW t, Well(t), Shaped(t), NEW e \in Events, NEW at \in Nat, NEW now
  PROVE  Steady(t, StageState(t, e, at, now))
<1> DEFINE a == e.actor
           u == IF ~Terminal(e.value) /\ e.source.authority # Passive
                THEN RefreshHealth(t, a, HealthKey(e.source), at) ELSE t
           w == StateRows(u, e, at)
           x == IF Terminal(e.value) THEN ClearApprovals(w, a) ELSE w
<1>0. a \in Actors
  BY EventIs
<1>1. StageState(t, e, at, now) = StateProjection(x, a, now)
  BY DEF StageState
<1>2. Redone(t, u, a)
  <2> DEFINE h == HealthKey(e.source)
             r == RefreshHealth(t, a, h, at)
  <2>1. u \in {t, r}
    OBVIOUS
  <2> HIDE DEF h, a
  <2>2. Redone(t, r, a)
    BY <1>0, WellHistory, RefreshAside, AsideKeeps, RefreshBooks DEF Well, Redone
  <2> QED BY <1>0, <2>1, <2>2, RedoneNot
<1> HIDE DEF u
<1>3. Redone(t, w, a)
  <2>0. Well(u)
    BY <1>0, <1>2, RedoneWell
  <2>1. Keeps(u, w)
    BY <2>0, WellHistory, RowsAside, AsideKeeps DEF Well
  <2>2. Refiled(u, w, a)
    BY <2>0, WellHistory, RowsBooks
  <2> HIDE DEF w, a
  <2> QED BY <1>0, <1>2, <2>1, <2>2, RedoneAgain DEF Redone
<1> HIDE DEF w, a
<1>4. Redone(t, x, a)
  <2>0. Well(w)
    BY <1>0, <1>3, RedoneWell
  <2>1. Redone(w, ClearApprovals(w, a), a)
    BY <1>0, <2>0, WellHistory, ClearAside, AsideKeeps, ClearBooks DEF Well, Redone
  <2>2. Redone(t, ClearApprovals(w, a), a)
    BY <1>0, <1>3, <2>1, RedoneAgain
  <2> QED BY <1>3, <2>2
<1> HIDE DEF x
<1> QED BY <1>0, <1>1, <1>4, RefiledProjection DEF Redone

LEMMA ExitSteady ==
  ASSUME NEW t, Well(t), Shaped(t), NEW e \in Events, NEW at \in Nat, NEW now
  PROVE  Steady(t, StageExit(t, e, at, now))
<1> DEFINE a == e.actor
           u == ExitRow(t, e, at)
           x == ClearApprovals(u, a)
<1>0. a \in Actors
  BY EventIs
<1>1. StageExit(t, e, at, now) = StateProjection(x, a, now)
  BY DEF StageExit, ExitRow
<1>2. Aside(t, u)
  BY DEF ExitRow, Well, Sound, Aside, SharedFields, IsOwners, OwnerFields
<1>3. Redone(t, u, a)
  BY <1>2, WellHistory, AsideKeeps, ExitBooks DEF Redone, Well
<1> HIDE DEF u, a
<1>4. Well(u)
  BY <1>0, <1>3, RedoneWell
<1>5. Redone(u, x, a)
  BY <1>0, <1>4, WellHistory, ClearAside, AsideKeeps, ClearBooks DEF Well, Redone
<1> HIDE DEF x
<1>6. Redone(t, x, a)
  BY <1>0, <1>3, <1>5, RedoneAgain
<1> QED BY <1>0, <1>1, <1>6, RefiledProjection DEF Redone

LEMMA HeartbeatSteady ==
  ASSUME NEW t, Well(t), Shaped(t), NEW e \in Events, NEW at \in Nat, NEW now
  PROVE  Steady(t, StageHeartbeat(t, e, at, now))
<1> DEFINE a == e.actor
           s == e.source
           u == RefreshHealth(t, a, s, at)
           v == StateProjection(u, a, now)
           b == FALSE
<1>0. a \in Actors
  BY EventIs
<1>1. StageHeartbeat(t, e, at, now) = Heard(v, e)
  BY DEF StageHeartbeat
<1>4. Heard(v, e) \in {v, StaleBit(v, a, b)}
  BY DEF Heard
<1> HIDE DEF a, s, b
<1>2. Keeps(t, u) /\ Refiled(t, u, a)
  BY <1>0, WellHistory, RefreshAside, AsideKeeps, RefreshBooks DEF Well
<1>3. IsOwners(v) /\ Steady(t, v)
  <2> HIDE DEF u
  <2>1. Well(v)
    BY <1>0, <1>2, RefiledWell, ProjectionWell
  <2>2. Steady(t, v)
    BY <1>0, <1>2, RefiledProjection
  <2> QED BY <2>1, <2>2 DEF Well, Sound
<1> HIDE DEF v
<1>5. Steady(v, StaleBit(v, a, b))
  BY <1>0, <1>3, StaleBitSteady DEF Steady
<1> QED BY <1>1, <1>3, <1>4, <1>5, SteadyAgain

LEMMA SettleSteady ==
  ASSUME NEW t, Well(t), Shaped(t), NEW a \in Actors, NEW now, NEW lanes
  PROVE  Steady(t, Settle(t, a, now, lanes, PurgeHealth(t, a, lanes)))
<1> DEFINE u == PurgeHealth(t, a, lanes)
           v == StateProjection(u, a, now)
           silent == \E c \in ToSet(t.proofs[a]) : /\ c.source.authority = Native
                                                   /\ HealthKey(c.source) \in lanes
           suspect == silent \/ HealthMissing(u, a, now)
           dead == ~Terminal(v.nodes[a].state.value)
                     /\ UnheardOf(v.proofs[a], v.health[a], now)
<1>1. Settle(t, a, now, lanes, u) = MarkStale(v, a, now, suspect)
  BY DEF Settle
<1>2. Keeps(t, u) /\ Refiled(t, u, a)
  BY WellHistory, PurgeAside, AsideKeeps, PurgeBooks DEF Well
<1> HIDE DEF u
<1>3. Well(v) /\ Steady(t, v)
  BY <1>2, RefiledWell, ProjectionWell, RefiledProjection
<1>4. MarkStale(v, a, now, suspect) \in {v, StaleBit(v, a, dead)}
  BY DEF MarkStale
<1> HIDE DEF v, suspect, dead
<1>5. Steady(v, StaleBit(v, a, dead))
  BY <1>3, StaleBitSteady DEF Steady, Well, Sound
<1> QED BY <1>1, <1>3, <1>4, <1>5, SteadyAgain DEF u

LEMMA SettlesSteady ==
  ASSUME NEW t, Well(t), Shaped(t), NEW now, NEW S, S \subseteq Actors, IsFiniteSet(S),
         NEW f, Settles(f, t, now, S)
  PROVE  Steady(t, f[S])
<1> DEFINE Good(s) == Well(f[s]) /\ Steady(t, f[s])
           bad == {s \in SUBSET S : ~Good(s)}
<1>1. ASSUME bad # {} PROVE FALSE
  <2>0. bad \subseteq SUBSET S
    OBVIOUS
  <2>1. PICK least \in bad : \A b \in bad : b \subseteq least => b = least
    <3> HIDE DEF bad
    <3> QED BY <1>1, <2>0, SmallestException
  <2>2. least \in SUBSET S /\ ~Good(least)
    BY <2>1
  <2>3. least # {}
    BY <2>2, SteadyNot DEF Settles
  <2>4. Chosen(least) \in least
    BY <2>3, PickMember
  <2> DEFINE rest == least \ {Chosen(least)}
             u == f[rest]
             a == Chosen(least)
             lanes == DueLanes(t, a, now)
  <2>5. rest \in SUBSET S /\ rest \subseteq least /\ rest # least
    BY <2>2, <2>4
  <2>6. Well(u) /\ Steady(t, u)
    BY <2>1, <2>5
  <2>7. f[least] = SettleOne(t, now, a, u)
    BY <2>2, <2>3 DEF Settles
  <2>8. SettleOne(t, now, a, u) \in {u, Settle(u, a, now, lanes, PurgeHealth(u, a, lanes))}
    BY DEF SettleOne
  <2>9. a \in Actors
    BY <2>2, <2>4
  <2> HIDE DEF u, lanes, a
  <2>10. Well(Settle(u, a, now, lanes, PurgeHealth(u, a, lanes)))
    BY <2>6, <2>9, SettleWell
  <2>11. Steady(t, Settle(u, a, now, lanes, PurgeHealth(u, a, lanes)))
    BY <2>6, <2>9, SettleSteady, SteadyAgain DEF Steady
  <2> QED BY <2>2, <2>6, <2>7, <2>8, <2>10, <2>11
<1>2. S \notin bad
  BY <1>1
<1> QED BY <1>2

LEMMA DueSteady ==
  ASSUME NEW t, Well(t), Shaped(t), NEW now
  PROVE  Steady(t, DueStateExpiry(t, now))
<1> DEFINE S == {a \in Actors : \/ \E e \in ToSet(t.states[a]) : ~Current(e, now)
                                \/ DueLanes(t, a, now) # {} \/ HealthMissing(t, a, now)}
           f == CHOOSE h : Settles(h, t, now, S)
<1>1. S \subseteq Actors /\ IsFiniteSet(S)
  BY FS_Subset, ReducerAssumption
<1>2. DueStateExpiry(t, now) = f[S]
  <2> HIDE DEF S
  <2> QED BY DEF DueStateExpiry, FoldSet, MapThenFoldSet, Settles, SettleOne, Chosen, S
<1> HIDE DEF S
<1>3. Settles(f, t, now, S)
  BY <1>1, SettlesExist
<1> HIDE DEF f
<1> QED BY <1>1, <1>2, <1>3, SettlesSteady

(* One edge that is written.                                                *)
LEMMA WithEdgeSteady ==
  ASSUME NEW t, Shaped(t), NEW v, IsOwners(v), v.nodes = t.nodes, v.edges = t.edges,
         v.gaps = t.gaps, v.error = t.error,
         NEW k \in EdgeKeys, NEW e, IsEdge(e), \A m \in e.messages : m.at \in Nat
  PROVE  Steady(t, WithEdge(v, k, e))
<1> DEFINE u == WithEdge(v, k, e)
           f == [e EXCEPT !.partial = EdgePartial(k, e, v.gaps)]
<1>1. /\ u.edges[k] = f
      /\ \A l \in EdgeKeys \ {k} : u.edges[l] = v.edges[l]
      /\ \A x \in OwnerFields \ {"edges"} : u[x] = v[x]
      /\ f.messages = e.messages
  BY WithEdgeDoes
<1> HIDE DEF f, u
<1>2. u.nodes = t.nodes /\ u.gaps = t.gaps /\ u.error = t.error
  BY <1>1 DEF OwnerFields
<1>3. \A l \in EdgeKeys : Linked(u, l) => \A m \in u.edges[l].messages : m.at \in Nat
  BY <1>1 DEF Shaped, Linked
<1>4. Steady(t, u)
  BY <1>2, <1>3 DEF Shaped, Steady, Stays, Present
<1> QED BY <1>4 DEF u

LEMMA EdgeOrNewShaped ==
  ASSUME NEW t, Sound(t), Shaped(t), NEW e \in Events, ~EndsRefused(t, e)
  PROVE  /\ e.edge \in EdgeKeys /\ IsEdge(EdgeOrNew(t, e))
         /\ \A m \in EdgeOrNew(t, e).messages : m.at \in Nat
<1> DEFINE old == EdgeOrNew(t, e)
           k == e.edge
<1>1. /\ k \in EdgeKeys /\ IsEdge(old)
      /\ Linked(t, k) => old = t.edges[k]
      /\ ~Linked(t, k) => old.messages = {}
  BY EdgeOrNewIs
<1> HIDE DEF old, k
<1> QED BY <1>1 DEF Shaped, old, k

LEMMA RelationshipSteady ==
  ASSUME NEW t, Well(t), Shaped(t), NEW e \in Events, e.kind = "relationship",
         RelationshipRefusal(t, e) = ""
  PROVE  Steady(t, StageRelationship(t, e))
<1> DEFINE k == e.edge
           old == EdgeOrNew(t, e)
           ended == Terminal(t.nodes[k.source].state.value)
                      \/ Terminal(t.nodes[k.target].state.value)
           H == t.history + One(e.source \notin old.contributors)
           v == [t EXCEPT !.history = H]
           C == old.contributors \cup {e.source}
           new == [old EXCEPT !.contributors = C, !.ghost = ended]
<1>1. StageRelationship(t, e) = WithEdge(v, k, new)
  BY DEF StageRelationship
<1>2. ~EndsRefused(t, e)
  BY DEF RelationshipRefusal
<1>3. k \in EdgeKeys /\ IsEdge(old) /\ \A m \in old.messages : m.at \in Nat
  BY <1>2, EdgeOrNewShaped DEF Well
<1>4. /\ IsOwners(v) /\ v.nodes = t.nodes /\ v.edges = t.edges /\ v.gaps = t.gaps
      /\ v.error = t.error
  <2> HIDE DEF H
  <2> QED BY DEF Well, Sound, IsOwners, OwnerFields
<1> HIDE DEF k, old, C, ended, v
<1>5. IsEdge(new) /\ new.messages = old.messages
  <2>0. PICK g : g = ended
    BY Zenon
  <2> DEFINE h == [old EXCEPT !.contributors = C]
             f == [h EXCEPT !.ghost = g]
  <2>1. new = f
    BY ONLY <2>0
  <2>2. IsEdge(old)
    BY <1>3
  <2>3. IsEdge(h) /\ h.contributors = C /\ h.messages = old.messages
    <3> HIDE DEF old, C
    <3> QED BY ONLY <2>2 DEF IsEdge
  <2>4. IsEdge(f) /\ f.contributors = C /\ f.messages = old.messages
    <3> HIDE DEF h
    <3>1. LET x == [h EXCEPT !.ghost = g] IN
          IsEdge(x) /\ x.contributors = h.contributors /\ x.messages = h.messages
      BY ONLY <2>3, GhostedIs
    <3> QED BY ONLY <2>3, <3>1
  <2> HIDE DEF new, f
  <2> QED BY ONLY <2>1, <2>4
<1> HIDE DEF new
<1> QED BY <1>1, <1>3, <1>4, <1>5, WithEdgeSteady

LEMMA MessageSteady ==
  ASSUME NEW t, Well(t), Shaped(t), NEW e \in Events, NEW at \in Nat, e.kind = "message",
         MessageRefusal(t, e) = ""
  PROVE  Steady(t, StageMessage(t, e, at))
<1> DEFINE k == e.edge
           old == EdgeOrNew(t, e)
           message == [digest |-> e.digest, source |-> e.source, at |-> at]
           H == t.history + 1
           F == t.fingerprints \cup {e.digest}
           X == t.expiry \cup {[at |-> at + MessageWindow, digest |-> e.digest, edge |-> k]}
           v == [t EXCEPT !.history = H, !.fingerprints = F, !.expiry = X]
           M == old.messages \cup {message}
           new == [old EXCEPT !.messages = M]
<1>1. StageMessage(t, e, at) = WithEdge(v, k, new)
  BY DEF StageMessage
<1>2. ~EndsRefused(t, e)
  BY DEF MessageRefusal
<1>3. k \in EdgeKeys /\ IsEdge(old) /\ \A m \in old.messages : m.at \in Nat
  BY <1>2, EdgeOrNewShaped DEF Well
<1>4. /\ IsOwners(v) /\ v.nodes = t.nodes /\ v.edges = t.edges /\ v.gaps = t.gaps
      /\ v.error = t.error
  <2> HIDE DEF H, F, X
  <2> QED BY DEF Well, Sound, IsOwners, OwnerFields
<1>5. \A m \in M : m.at \in Nat
  <2>1. message.at \in Nat
    OBVIOUS
  <2> HIDE DEF old, message
  <2> QED BY <1>3, <2>1
<1> HIDE DEF k, old, M, v
<1>6. IsEdge(new) /\ new.messages = M
  BY <1>3, OtherMessages
<1> HIDE DEF new
<1> QED BY <1>1, <1>3, <1>4, <1>5, <1>6, WithEdgeSteady

-----------------------------------------------------------------------------
(* Gaps.                                                                    *)

LEMMA PartialUpdatesSteady ==
  ASSUME NEW t, Sound(t), Shaped(t), NEW G, G \subseteq GapRows
  PROVE  Steady(t, PartialUpdates([t EXCEPT !.gaps = G]))
<1> DEFINE v == [t EXCEPT !.gaps = G]
           N == [a \in Actors |-> IF Present(t, a)
                 THEN [t.nodes[a] EXCEPT !.partial = NodePartial(t.nodes[a], G)] ELSE NoNode]
           E == [k \in EdgeKeys |-> IF Linked(t, k)
                 THEN [t.edges[k] EXCEPT !.partial = EdgePartial(k, t.edges[k], G)] ELSE NoEdge]
           u == [v EXCEPT !.nodes = N, !.edges = E]
<1>0. IsOwners(t)
  BY DEF Sound
<1>1. /\ IsOwners(v) /\ v.gaps = G /\ \A f \in OwnerFields \ {"gaps"} : v[f] = t[f]
  BY <1>0 DEF IsOwners, OwnerFields
<1>2. PartialUpdates(v) = u
  <2>1. v.nodes = t.nodes /\ v.edges = t.edges /\ v.gaps = G
    BY <1>1 DEF OwnerFields
  <2> HIDE DEF v
  <2> QED BY <2>1 DEF PartialUpdates, Present, Linked
<1>3. \A a \in Actors : /\ Present(t, a) => /\ N[a] # NoNode
                                            /\ N[a].ghostAt = t.nodes[a].ghostAt
                        /\ ~Present(t, a) => N[a] = NoNode
  <2> SUFFICES ASSUME NEW a \in Actors, Present(t, a)
               PROVE  N[a] # NoNode /\ N[a].ghostAt = t.nodes[a].ghostAt
    OBVIOUS
  <2> DEFINE n == t.nodes[a]
             p == NodePartial(n, G)
             m == [n EXCEPT !.partial = p]
  <2>1. IsNode(n)
    BY <1>0, PresentIsNode
  <2>2. N[a] = m
    OBVIOUS
  <2> HIDE DEF N
  <2>3. IsNode(m) /\ m.ghostAt = n.ghostAt
    <3> HIDE DEF n, p
    <3> QED BY <2>1, MarkKeepsGhost
  <2> QED BY <2>2, <2>3, NodeShows
<1>4. \A k \in EdgeKeys : /\ Linked(t, k) => E[k].messages = t.edges[k].messages
                          /\ ~Linked(t, k) => E[k] = NoEdge
  <2> SUFFICES ASSUME NEW k \in EdgeKeys, Linked(t, k)
               PROVE  E[k].messages = t.edges[k].messages
    OBVIOUS
  <2>1. IsEdge(t.edges[k])
    BY <1>0, LinkedIsEdge
  <2> QED BY <2>1 DEF IsEdge
<1> HIDE DEF N, E
<1>5. /\ u.nodes = N /\ u.edges = E /\ u.gaps = G /\ u.error = t.error
  <2>1. v.error = t.error
    BY <1>1 DEF OwnerFields
  <2> HIDE DEF v
  <2> QED BY <1>1, <2>1 DEF IsOwners, OwnerFields
<1> HIDE DEF u, v
<1>6. Steady(t, u)
  BY <1>3, <1>4, <1>5 DEF Shaped, Steady, Stays, Present, Linked
<1> QED BY <1>2, <1>6 DEF v

LEMMA GapSteady ==
  ASSUME NEW t, Well(t), Shaped(t), NEW e \in Events
  PROVE  Steady(t, StageGap(t, e))
<1> DEFINE G == IF e.resolved THEN t.gaps \ {ObservedGap(e)} ELSE t.gaps \cup {ObservedGap(e)}
<1>1. e.source.id \in Ids /\ e.cap \in Capabilities \cup {""}
  BY EventIs, EvidenceAssumption DEF SourceRecord
<1>2. ObservedGap(e) \in GapRows
  BY <1>1 DEF ObservedGap, GapKey, GapRows
<1>3. G \subseteq GapRows
  BY <1>2 DEF Shaped
<1> HIDE DEF G
<1>4. Steady(t, PartialUpdates([t EXCEPT !.gaps = G]))
  BY <1>3, PartialUpdatesSteady DEF Well
<1> QED BY <1>4 DEF StageGap, G

LEMMA DiagnosedSteady ==
  ASSUME NEW t, Well(t), Shaped(t), NEW e \in Events, NEW refusal
  PROVE  Steady(t, Diagnosed(t, e, refusal))
<1> DEFINE c == EventCapability(e)
           i == e.source.id
           own == CASE refusal \in {"count", "history"} -> Catchall
                    [] refusal = "regime" -> GapKey(i, c, "schema")
                    [] refusal = "cycle" -> GapKey(i, "spawn", "collision")
                    [] OTHER -> GapKey(i, c, "collision")
           row == IF own # Catchall /\ RowsFull(t.gaps, own) THEN Catchall ELSE own
           G == t.gaps \cup {row}
<1>1. i \in Ids /\ c \in Capabilities \cup {""}
  <2>1. i \in Ids
    BY EventIs, EvidenceAssumption DEF SourceRecord
  <2>2. e.kind \in Kinds /\ e.edge.type \in EdgeTypes
    BY EventIs, EndsAreActors
  <2>3. c \in Capabilities \cup {""}
    BY ONLY <2>2 DEF EventCapability, Kinds, EdgeTypes, Capabilities
  <2> QED BY <2>1, <2>3
<1> HIDE DEF c, i
<1>2. \A x \in Capabilities \cup {""}, k \in {"collision", "schema"} : GapKey(i, x, k) \in GapRows
  BY <1>1 DEF GapKey, GapRows
<1>3. Catchall \in GapRows
  BY DEF Catchall, GapKey, GapRows
<1>4. own \in GapRows
  <2>1. "spawn" \in Capabilities \cup {""}
    BY DEF Capabilities
  <2> QED BY <1>1, <1>2, <1>3, <2>1
<1>5. G \subseteq GapRows
  BY <1>3, <1>4 DEF Shaped
<1> HIDE DEF G
<1>6. Steady(t, PartialUpdates([t EXCEPT !.gaps = G]))
  BY <1>5, PartialUpdatesSteady DEF Well
<1> QED BY <1>6 DEF Diagnosed, G, c, i

LEMMA CursorSteady ==
  ASSUME NEW t, IsOwners(t), Shaped(t), NEW e, NEW at
  PROVE  Steady(t, MoveCursor(t, e, at))
<1> DEFINE c == [ordered |-> e.ordered, at |-> at]
           C == [t.cursors EXCEPT ![<<e.source, e.actor>>] = c]
           H == t.history + One(CursorOf(t, e) = NoCursor)
           u == [t EXCEPT !.cursors = C, !.history = H]
<1>1. MoveCursor(t, e, at) \in {t, u}
  BY DEF MoveCursor
<1> HIDE DEF C, H
<1>2. u.nodes = t.nodes /\ u.edges = t.edges /\ u.gaps = t.gaps /\ u.error = t.error
  BY DEF IsOwners, OwnerFields
<1> HIDE DEF u
<1> QED BY <1>1, <1>2, SteadyBeside, SteadyNot DEF Shaped

LEMMA PinSteady ==
  ASSUME NEW t, IsOwners(t), Shaped(t), NEW a \in Actors, Present(t, a), NEW b
  PROVE  LET u == [t EXCEPT !.nodes[a].pinned = b] IN
         /\ Steady(t, u) /\ u.nodes[a].ghostAt = t.nodes[a].ghostAt
<1> DEFINE m == [t.nodes[a] EXCEPT !.pinned = b]
           u == [t EXCEPT !.nodes[a] = m]
<1>1. [t EXCEPT !.nodes[a].pinned = b] = u
  OBVIOUS
<1>2. IsNode(m) /\ m.ghostAt = t.nodes[a].ghostAt
  BY PresentIsNode, PinnedIs
<1> HIDE DEF m
<1>3. /\ u.nodes[a] = m /\ \A c \in Actors \ {a} : u.nodes[c] = t.nodes[c]
      /\ u.edges = t.edges /\ u.gaps = t.gaps /\ u.error = t.error
  BY DEF IsOwners, OwnerFields
<1> HIDE DEF u
<1>4. \A c \in Actors : /\ Present(t, c) => Present(u, c)
                        /\ Present(u, c) => u.nodes[c].ghostAt \in Nat
  BY <1>2, <1>3, NodeShows DEF Present, Shaped
<1>5. Steady(t, u)
  BY <1>3, <1>4 DEF Shaped, Steady, Stays, Linked
<1> QED BY <1>1, <1>2, <1>3, <1>5

-----------------------------------------------------------------------------
(* Nodes that are observed.                                                 *)

LEMMA ObservedGhost ==
  ASSUME NEW t, NEW e \in Events, NEW before, before = t.nodes[e.actor],
         before = NoNode \/ (IsNode(before) /\ before.ghostAt \in Nat), NEW sw \in BOOLEAN
  PROVE  IsNode(ObservedNode(t, e, sw)) /\ ObservedNode(t, e, sw).ghostAt \in Nat
<1> DEFINE fold == FoldNode(t.proofs[e.actor])
           fresh == FreshNode(e.inc)
           usage == before.usage
           sources == before.metricSources
           kept == [fresh EXCEPT !.usage = usage]
           resumed == [kept EXCEPT !.metricSources = sources]
           base == IF before = NoNode THEN fresh ELSE IF sw THEN resumed ELSE before
           x == fold.name
           y == fold.startedAt
           z == fold.startTicks
           i == fold.identity
           b == base.stale /\ e.source.authority = Native
           p == [base EXCEPT !.name = x]
           q == [p EXCEPT !.startedAt = y]
           r == [q EXCEPT !.startTicks = z]
           s == [r EXCEPT !.identity = i]
           n == [s EXCEPT !.stale = b]
<1>1. ObservedNode(t, e, sw) = n
  BY DEF ObservedNode
<1>2. IsNode(fresh) /\ fresh.ghostAt \in Nat
  <2>1. fresh.ghostAt = 0
    BY DEF FreshNode
  <2>2. e.inc \in Incs
    BY EventIs
  <2>3. IsNode(fresh)
    BY <2>2, FreshIs
  <2> QED BY <2>1, <2>3
<1> HIDE DEF usage, sources
<1>3. IsNode(kept) /\ kept.ghostAt = fresh.ghostAt
  <2> HIDE DEF fresh
  <2> QED BY <1>2, SetField DEF NodeFields
<1> HIDE DEF kept
<1>4. IsNode(resumed) /\ resumed.ghostAt = kept.ghostAt
  BY <1>3, SetField DEF NodeFields
<1> HIDE DEF resumed, fresh
<1>5. IsNode(base) /\ base.ghostAt \in Nat
  BY <1>2, <1>3, <1>4
<1> HIDE DEF base, x, y, z, i, b
<1>6. IsNode(p) /\ p.ghostAt = base.ghostAt
  BY <1>5, SetField DEF NodeFields
<1> HIDE DEF p
<1>7. IsNode(q) /\ q.ghostAt = p.ghostAt
  BY <1>6, SetField DEF NodeFields
<1> HIDE DEF q
<1>8. IsNode(r) /\ r.ghostAt = q.ghostAt
  BY <1>7, SetField DEF NodeFields
<1> HIDE DEF r
<1>9. IsNode(s) /\ s.ghostAt = r.ghostAt
  BY <1>8, SetField DEF NodeFields
<1> HIDE DEF s
<1>10. IsNode(n) /\ n.ghostAt = s.ghostAt
  BY <1>9, SetField DEF NodeFields
<1> HIDE DEF n
<1> QED BY <1>1, <1>5, <1>6, <1>7, <1>8, <1>9, <1>10

(* Showing a node, beside what the books say.                               *)
LEMMA ShowSteady ==
  ASSUME NEW t, Shaped(t), NEW v, IsOwners(v), v.nodes = t.nodes, v.edges = t.edges,
         v.gaps = t.gaps, v.error = t.error, NEW e \in Events, NEW sw \in BOOLEAN
  PROVE  Steady(t, ShowObserved(v, e, sw)) /\ IsOwners(ShowObserved(v, e, sw))
         /\ ShowObserved(v, e, sw).edges = t.edges
<1> DEFINE a == e.actor
           n == ObservedNode(v, e, sw)
           before == v.nodes[a]
<1>0. a \in Actors
  BY EventIs
<1>1. Steady(t, v)
  BY SteadyBeside DEF Shaped
<1>2. IsNode(n) /\ n.ghostAt \in Nat
  <2>1. before = v.nodes[e.actor] /\ (before = NoNode \/ (IsNode(before) /\ before.ghostAt \in Nat))
    BY <1>0, <1>1 DEF IsOwners, Steady, Shaped, Present
  <2> HIDE DEF before, a
  <2> QED BY <2>1, ObservedGhost
<1>3. ShowObserved(v, e, sw) = WithNode(v, a, n)
  BY DEF ShowObserved
<1> HIDE DEF a, n
<1>4. Steady(v, WithNode(v, a, n))
  BY <1>0, <1>1, <1>2, WithNodeSteady DEF Steady
<1>5. IsOwners(WithNode(v, a, n)) /\ WithNode(v, a, n).edges = v.edges
  <2> DEFINE w == WithNode(v, a, n)
             m == [n EXCEPT !.partial = NodePartial(n, v.gaps)]
  <2>1. /\ IsOwners(w) /\ w.nodes[a] = m
        /\ \A b \in Actors \ {a} : w.nodes[b] = v.nodes[b]
        /\ \A f \in OwnerFields \ {"nodes"} : w[f] = v[f]
    BY <1>0, <1>2, WithNodeDoes
  <2> HIDE DEF w
  <2> QED BY <2>1 DEF OwnerFields, w
<1> QED BY <1>1, <1>3, <1>4, <1>5, SteadyAgain

LEMMA WithProofBeside ==
  ASSUME NEW t, IsOwners(t), NEW e, NEW at
  PROVE  LET v == WithProof(t, e, at) IN
         /\ IsOwners(v) /\ v.nodes = t.nodes /\ v.edges = t.edges /\ v.gaps = t.gaps
         /\ v.error = t.error
<1> DEFINE a == e.actor
           s == AcceptOwn(t.proofs[a], NodeContribution(t.proofs[a], e, at))
           c == IF Knows(t, e) THEN t.current[a] ELSE Proof(e)
           H == t.history + One(~HoldsOwn(t.proofs[a], e))
           P == [t.proofs EXCEPT ![a] = s]
           D == [t.current EXCEPT ![a] = c]
           v == [t EXCEPT !.current = D, !.proofs = P, !.history = H]
<1>1. WithProof(t, e, at) = v
  BY DEF WithProof
<1>2. D = [b \in Actors |-> D[b]]
  BY DEF IsOwners
<1> HIDE DEF H, P, D
<1> QED BY <1>1, <1>2 DEF IsOwners, OwnerFields

LEMMA SucceedBeside ==
  ASSUME NEW t, IsOwners(t), NEW e
  PROVE  LET v == Succeed(t, e) IN
         /\ IsOwners(v) /\ v.nodes = t.nodes /\ v.edges = t.edges /\ v.gaps = t.gaps
         /\ v.error = t.error
<1> DEFINE a == e.actor
           R == t.retired \cup {<<a, t.current[a].inc>>}
           P == [t.proofs EXCEPT ![a] = <<>>]
           S == [t.states EXCEPT ![a] = <<>>]
           A == [t.approvals EXCEPT ![a] = <<>>]
           L == [t.health EXCEPT ![a] = {}]
           H == t.history + 1 - EvidenceUnits(t, a)
           v == [t EXCEPT !.retired = R, !.proofs = P, !.states = S, !.approvals = A,
                          !.health = L, !.history = H]
<1>1. Succeed(t, e) = v
  BY DEF Succeed
<1> HIDE DEF R, P, S, A, L, H
<1> QED BY <1>1 DEF IsOwners, OwnerFields

LEMMA NodeSteady ==
  ASSUME NEW t, Well(t), Shaped(t), NEW e \in Events, NEW at \in Nat
  PROVE  Steady(t, StageNode(t, e, at))
<1>0. IsOwners(t)
  BY DEF Well, Sound
<1>1. CASE ~Switches(t, e)
  <2> DEFINE v == WithProof(t, e, at)
             no == FALSE
  <2>1. StageNode(t, e, at) = ShowObserved(v, e, no)
    BY <1>1 DEF StageNode
  <2>2. /\ IsOwners(v) /\ v.nodes = t.nodes /\ v.edges = t.edges /\ v.gaps = t.gaps
        /\ v.error = t.error
    BY <1>0, WithProofBeside
  <2>3. no \in BOOLEAN
    OBVIOUS
  <2> HIDE DEF v, no
  <2> QED BY <2>1, <2>2, <2>3, ShowSteady
<1>2. CASE Switches(t, e)
  <2> DEFINE s == Succeed(t, e)
             v == WithProof(s, e, at)
             yes == TRUE
             w == ShowObserved(v, e, yes)
             a == e.actor
             old == t.current[a].inc
             new == e.inc
             u == ResumeEdges(w, a, old, new)
  <2>1. StageNode(t, e, at) = u
    BY <1>2 DEF StageNode
  <2>2. /\ IsOwners(s) /\ s.nodes = t.nodes /\ s.edges = t.edges /\ s.gaps = t.gaps
        /\ s.error = t.error
    BY <1>0, SucceedBeside
  <2>3. a \in Actors /\ yes \in BOOLEAN
    BY EventIs
  <2> HIDE DEF s
  <2>4. /\ IsOwners(v) /\ v.nodes = t.nodes /\ v.edges = t.edges /\ v.gaps = t.gaps
        /\ v.error = t.error
    <3>1. /\ IsOwners(v) /\ v.nodes = s.nodes /\ v.edges = s.edges /\ v.gaps = s.gaps
          /\ v.error = s.error
      BY <2>2, WithProofBeside
    <3> QED BY <2>2, <3>1
  <2> HIDE DEF v, yes
  <2>5. Steady(t, w) /\ IsOwners(w) /\ w.edges = t.edges
    BY <2>3, <2>4, ShowSteady
  <2> HIDE DEF w, a, new
  <2>6. Resumed(t, w, u, a, new)
    BY <2>3, <2>5, ResumeDoes DEF Well
  <2> HIDE DEF u
  <2>7. u.nodes = w.nodes /\ u.gaps = w.gaps /\ u.error = w.error
    BY <2>6 DEF Resumed, OwnerFields
  <2>8. \A k \in EdgeKeys : Linked(u, k) =>
          Linked(w, k) /\ u.edges[k].messages \subseteq w.edges[k].messages
    <3> SUFFICES ASSUME NEW k \in EdgeKeys, Linked(u, k)
                 PROVE  Linked(w, k) /\ u.edges[k].messages \subseteq w.edges[k].messages
      OBVIOUS
    <3>1. CASE k.source = a \/ k.target = a
      BY <2>5, <2>6, <3>1 DEF Resumed, Linked
    <3>2. CASE ~(k.source = a \/ k.target = a)
      BY <2>5, <2>6, <3>2 DEF Resumed, Linked
    <3> QED BY <3>1, <3>2
  <2>9. Steady(w, u)
    BY <2>5, <2>7, <2>8, SteadyEdges DEF Steady
  <2> QED BY <2>1, <2>5, <2>9, SteadyAgain
<1> QED BY <1>1, <1>2

-----------------------------------------------------------------------------
(* What Advance takes away.                                                 *)

LEMMA MessageExpirySteady ==
  ASSUME NEW t, Well(t), Shaped(t), NEW now
  PROVE  Steady(t, MessageExpiry(t, now))
<1> DEFINE u == MessageExpiry(t, now)
<1>1. u.nodes = t.nodes
  BY MessageExpiryKeeps DEF Well
<1>2. u.gaps = t.gaps /\ u.error = t.error
  <2>1. PICK X, E, H : u = [t EXCEPT !.expiry = X, !.edges = E, !.history = H]
    BY DEF MessageExpiry
  <2> HIDE DEF u
  <2> QED BY <2>1 DEF Well, Sound, IsOwners, OwnerFields
<1>3. \A k \in EdgeKeys : Lapsed(t, u, now, k)
  BY LapsedIs DEF Well, Sound
<1> HIDE DEF u
<1>4. \A k \in EdgeKeys : Linked(u, k) =>
        Linked(t, k) /\ u.edges[k].messages \subseteq t.edges[k].messages
  BY <1>3 DEF Lapsed
<1>5. Steady(t, u)
  BY <1>1, <1>2, <1>4, SteadyEdges
<1> QED BY <1>5 DEF u

LEMMA GhostExpiryShaped ==
  ASSUME NEW t, Well(t), Shaped(t), NEW now, NEW scope, scope \subseteq Actors
  PROVE  Shaped(GhostExpiry(t, now, scope))
<1> DEFINE u == GhostExpiry(t, now, scope)
           gone == {a \in scope : GhostOver(t.nodes[a], now)}
           cut == UNION {EdgesOf(t, a, t.nodes[a].inc) : a \in gone}
           E == [k \in EdgeKeys |-> IF k \in cut THEN NoEdge ELSE t.edges[k]]
<1>1. \A a \in Actors : u.nodes[a] = IF a \in scope /\ GhostOver(t.nodes[a], now)
                                     THEN NoNode ELSE t.nodes[a]
  BY GhostExpiryKeeps DEF Well
<1>2. u.gaps = t.gaps /\ u.error = t.error /\ u.edges = E
  <2>1. PICK N, P, M, S, A, L, X, H :
          u = [t EXCEPT !.nodes = N, !.proofs = P, !.metrics = M, !.states = S,
                        !.approvals = A, !.health = L, !.edges = E, !.expiry = X,
                        !.history = H]
    BY DEF GhostExpiry
  <2> HIDE DEF u, E
  <2> QED BY <2>1 DEF Well, Sound, IsOwners, OwnerFields
<1> HIDE DEF u, cut
<1>3. \A k \in EdgeKeys : Linked(u, k) => Linked(t, k) /\ u.edges[k] = t.edges[k]
  BY <1>2 DEF Linked
<1>4. Shaped(u)
  BY <1>1, <1>2, <1>3 DEF Shaped, Present
<1> QED BY <1>4 DEF u

-----------------------------------------------------------------------------
(* The books as the code could add them up.                                 *)

LEMMA HistoryCounts ==
  ASSUME NEW t, Well(t)
  PROVE  t.history =
           Cardinality(t.retired)
           + Cardinality({k \in DOMAIN t.cursors : t.cursors[k] # NoCursor})
           + EdgeUnits(t, {k \in EdgeKeys : Linked(t, k)}) + ActorUnits(t, Actors)
<1> DEFINE K == {k \in EdgeKeys : Linked(t, k)}
           w == EdgeCosts(t)
<1>1. Filed(t) /\ Balanced(t)
  BY DEF Well, Booked
<1>2. ActorUnits(t, Actors) = SumOver(ActorCosts(t), Actors)
  BY ActorUnitsAre
<1>3. EdgeUnits(t, K) = SumOver(w, K)
  BY EdgeUnitsAre
<1>4. SumOver(w, EdgeKeys) = SumOver(w, K)
  <2>1. \A k \in EdgeKeys : w[k] \in Nat
    BY <1>1, CostsAreNumbers DEF CostsTyped
  <2>2. \A k \in EdgeKeys : w[k] \in Int
    BY ONLY <2>1
  <2>3. \A k \in EdgeKeys \ K : w[k] = 0
    BY DEF EdgeCosts
  <2>4. K \subseteq EdgeKeys /\ IsFiniteSet(EdgeKeys)
    BY ReducerAssumption
  <2> HIDE DEF w, K
  <2> QED BY <2>2, <2>3, <2>4, SumOfPart
<1> QED BY <1>1, <1>2, <1>3, <1>4 DEF Balanced, MovedCursors

LEMMA NothingIsBooked == Well(NoOwners) /\ Shaped(NoOwners)
<1> DEFINE t == NoOwners
<1>1. Sound(t)
  BY EmptyIsSound
<1>2. /\ t.retired = {} /\ t.history = 0 /\ t.gaps = {} /\ t.error = ""
      /\ t.cursors = [k \in Sources \X Actors |-> NoCursor]
      /\ \A f \in EvidenceFields : t[f] = [a \in Actors |-> t[f][a]]
      /\ \A a \in Actors : /\ t.proofs[a] = <<>> /\ t.metrics[a] = <<>> /\ t.states[a] = <<>>
                           /\ t.approvals[a] = <<>> /\ t.health[a] = {}
      /\ \A k \in EdgeKeys : ~Linked(t, k)
      /\ \A a \in Actors : ~Present(t, a)
  BY DEF NoOwners, EvidenceFields, Linked, Present
<1> HIDE DEF t
<1>3. MovedCursors(t) = {} /\ t.cursors = [k \in Sources \X Actors |-> t.cursors[k]]
  BY <1>2 DEF MovedCursors
<1>4. Cardinality({}) = 0 /\ IsFiniteSet({})
  BY FS_EmptySet
<1>5. \A a \in Actors : FiledActor(t, a) /\ ActorCost(t, a) = 0
  BY <1>2, NothingFiled
<1>6. Filed(t)
  BY <1>2, <1>3, <1>4, <1>5 DEF Filed
<1>7. SumOver(EdgeCosts(t), EdgeKeys) = 0
  <2>1. \A k \in EdgeKeys : EdgeCosts(t)[k] = 0
    BY <1>2 DEF EdgeCosts
  <2> QED BY <2>1, SumOfNoughts, ReducerAssumption
<1>8. SumOver(ActorCosts(t), Actors) = 0
  <2>1. \A a \in Actors : ActorCosts(t)[a] = 0
    BY <1>5 DEF ActorCosts
  <2> QED BY <2>1, SumOfNoughts, ReducerAssumption
<1>9. Balanced(t)
  <2>1. Cardinality(t.retired) = 0 /\ Cardinality(MovedCursors(t)) = 0 /\ t.history = 0
    BY <1>2, <1>3, <1>4
  <2> QED BY <1>7, <1>8, <2>1 DEF Balanced
<1>10. Retiring(t)
  BY <1>2 DEF Retiring
<1>11. Shaped(t)
  BY <1>2 DEF Shaped, Errors
<1> QED BY <1>1, <1>6, <1>9, <1>10, <1>11 DEF Well, Booked, t

-----------------------------------------------------------------------------
(* Deadlines are instants.                                                  *)

LEMMA EarliestIs ==
  ASSUME NEW S, S \subseteq Nat, S # {}
  PROVE  Min(S) \in S /\ Min(S) \in Nat /\ \A x \in S : Min(S) <= x
<1>1. \E m \in S : \A x \in S : m <= x
  BY LeastNumber
<1> QED BY <1>1 DEF Min

LEMMA MissingIs ==
  ASSUME NEW q, FiledProofs(q), NEW h
  PROVE  MissingHealthDeadline(q, h) \in Nat
<1> DEFINE D == {c.at + HookFreshness : c \in Polled(q)}
<1>1. D \subseteq Nat
  <2>1. ToSet(q) \subseteq ProofRecords
    BY MembersIn DEF FiledProofs
  <2>2. \A c \in Polled(q) : c.at \in Nat
    BY <2>1 DEF Polled, ProofRecords
  <2> QED BY <2>2, EvidenceAssumption
<1>2. Polled(q) # {} => D # {}
  OBVIOUS
<1>3. (MissingHealthDeadline(q, h) = Min(D) /\ Polled(q) # {}) \/ MissingHealthDeadline(q, h) = 0
  BY DEF MissingHealthDeadline
<1> HIDE DEF D
<1>4. D # {} => Min(D) \in Nat
  BY <1>1, EarliestIs
<1> QED BY <1>2, <1>3, <1>4

LEMMA DeadlinesAreInstants ==
  ASSUME NEW t, Well(t), Shaped(t)
  PROVE  Deadlines(t) \subseteq Nat
<1> DEFINE S(a) == {e.until : e \in ToSet(t.states[a])}
           H(a) == {h.last + HookFreshness : h \in t.health[a]}
           M(a) == IF t.nodes[a].stale \/ Terminal(t.nodes[a].state.value) THEN {}
                   ELSE {MissingHealthDeadline(t.proofs[a], t.health[a])}
           G(a) == IF t.nodes[a].pinned THEN {} ELSE {t.nodes[a].ghostAt}
           N(a) == IF ~Present(t, a) THEN {} ELSE M(a) \cup G(a)
           X == {x.at : x \in t.expiry}
<1>1. Deadlines(t) = X \cup UNION {S(a) \cup H(a) \cup N(a) : a \in Actors}
  BY DEF Deadlines
<1>2. ASSUME NEW a \in Actors PROVE S(a) \cup H(a) \cup N(a) \subseteq Nat
  <2>0. FiledActor(t, a)
    BY DEF Well, Booked, Filed
  <2>1. S(a) \subseteq Nat
    <3>1. ToSet(t.states[a]) \subseteq StateRecords
      BY <2>0, MembersIn DEF FiledActor, FiledStates
    <3> QED BY <3>1 DEF StateRecords
  <2>2. H(a) \subseteq Nat
    <3>1. \A h \in t.health[a] : h.last \in Nat
      BY <2>0 DEF FiledActor, FiledHealth
    <3> QED BY <3>1, EvidenceAssumption
  <2>3. M(a) \subseteq Nat
    BY <2>0, MissingIs DEF FiledActor
  <2>4. Present(t, a) => G(a) \subseteq Nat
    BY DEF Shaped
  <2> HIDE DEF S, H, M, G
  <2> QED BY <2>1, <2>2, <2>3, <2>4
<1>3. X \subseteq Nat
  <2>1. ASSUME NEW x \in t.expiry PROVE x.at \in Nat
    <3>1. PICK k \in EdgeKeys : Linked(t, k) /\ \E m \in t.edges[k].messages : x = Entry(m, k)
      BY DEF Well, Sound, Indexed
    <3>2. PICK m \in t.edges[k].messages : x = Entry(m, k)
      BY <3>1
    <3>3. m.at \in Nat /\ MessageWindow \in Nat
      BY <3>1, <3>2, ReducerAssumption DEF Shaped
    <3>4. x.at = m.at + MessageWindow
      BY <3>2 DEF Entry
    <3> QED BY <3>3, <3>4
  <2> QED BY <2>1
<1> DEFINE R(a) == S(a) \cup H(a) \cup N(a)
<1>4. Deadlines(t) = X \cup UNION {R(a) : a \in Actors}
  BY <1>1
<1>5. \A a \in Actors : R(a) \subseteq Nat
  BY <1>2
<1> HIDE DEF S, H, N, X, R
<1> SUFFICES ASSUME NEW x \in Deadlines(t) PROVE x \in Nat
  OBVIOUS
<1>6. CASE x \in X
  BY <1>3, <1>6
<1>7. CASE x \in UNION {R(a) : a \in Actors}
  <2>1. PICK a \in Actors : x \in R(a)
    BY <1>7
  <2> QED BY <1>5, <2>1
<1> QED BY <1>4, <1>6, <1>7

-----------------------------------------------------------------------------
(* The invariant with the books, and who leaves.                            *)

InOrder(t) == Well(t) /\ Shaped(t)
RecInv ==
  InOrder(owners) /\ clock \in 1..Horizon /\ cursor \in 0..clock /\ outcome \in Errors

(* An actor that leaves had a ghost that is over now, and was not pinned    *)
(* when a deadline took it.                                                 *)
Leaves(t, u) ==
  \A a \in Actors : Present(t, a) /\ ~Present(u, a) =>
    /\ t.nodes[a].ghostAt # 0 /\ t.nodes[a].ghostAt <= clock
    /\ t.nodes[a].pinned => cursor' = cursor

Moves == InOrder(owners') /\ outcome' \in Errors /\ Leaves(owners, owners')

LEMMA SteadyLeaves ==
  ASSUME NEW t, NEW u, Stays(t, u)
  PROVE  Leaves(t, u)
BY DEF Stays, Leaves

LEMMA CommitMoves ==
  ASSUME RecInv, NEW u, InOrder(u), Leaves(owners, u), Commit(u)
  PROVE  Moves
BY DEF RecInv, Commit, Moves

LEMMA FinishedMoves ==
  ASSUME RecInv, NEW u, InOrder(u), Leaves(owners, u), Finished(u)
  PROVE  Moves
<1>1. CASE Commit(u)
  BY <1>1, CommitMoves
<1>2. CASE Break(u.error)
  <2>1. owners' = owners /\ outcome' = u.error
    BY <1>2 DEF Break
  <2>2. u.error \in Errors
    BY DEF InOrder, Shaped
  <2> QED BY <2>1, <2>2 DEF RecInv, Moves, Leaves
<1> QED BY <1>1, <1>2 DEF Finished

LEMMA StillMoves ==
  ASSUME RecInv, UNCHANGED <<owners, outcome>>
  PROVE  Moves
BY DEF RecInv, Moves, Leaves

LEMMA DiagnosedMoves ==
  ASSUME RecInv, NEW e \in Events, NEW refusal
  PROVE  LET u == Diagnosed(owners, e, refusal) IN InOrder(u) /\ Leaves(owners, u)
<1> DEFINE u == Diagnosed(owners, e, refusal)
<1>1. Well(u) /\ Steady(owners, u)
  BY DiagnosedWell, DiagnosedSteady DEF RecInv, InOrder
<1> HIDE DEF u
<1>2. InOrder(u) /\ Leaves(owners, u)
  BY <1>1, SteadyLeaves DEF InOrder, Steady
<1> QED BY <1>2 DEF u

LEMMA FinishMoves ==
  ASSUME RecInv, NEW e \in Events, NEW u, InOrder(u), Leaves(owners, u), Finish(e, u)
  PROVE  Moves
<1> DEFINE g == Diagnosed(owners, e, "history")
           v == IF u.error = "" /\ u.history > HistoryLimit THEN g ELSE u
<1>1. Finished(v)
  BY DEF Finish
<1>2. InOrder(g) /\ Leaves(owners, g)
  BY DiagnosedMoves
<1> HIDE DEF g
<1>3. InOrder(v) /\ Leaves(owners, v)
  BY <1>2
<1> HIDE DEF v
<1> QED BY <1>1, <1>3, FinishedMoves

(* The events, one by one.                                                  *)
LEMMA ObserveMoves ==
  ASSUME RecInv, NEW e \in Events, NEW at \in 1..Horizon,
         \/ ObserveNode(e, at) \/ ObserveMetrics(e, at) \/ ObserveState(e, at)
         \/ ObserveHeartbeat(e, at) \/ ObserveExit(e, at) \/ ObserveRelationship(e, at)
         \/ ObserveMessage(e, at) \/ ObserveGap(e, at)
  PROVE  Moves
<1> DEFINE t == Base(e, at)
<1>0. at \in Nat /\ at \in Nat \ {0}
  BY ReducerAssumption
<1>1. Well(t) /\ Shaped(t) /\ Stays(owners, t) /\ t.fingerprints = owners.fingerprints
  <2>1. Well(t)
    BY <1>0, CursorWell DEF Base, RecInv, InOrder
  <2>2. Steady(owners, t)
    BY CursorSteady DEF Base, RecInv, InOrder, Well, Sound
  <2>3. t.fingerprints = owners.fingerprints
    BY BaseIsSound DEF RecInv, InOrder, Well
  <2> QED BY <2>1, <2>2, <2>3 DEF Steady
<1>a. \A u : Well(u) /\ Steady(t, u) /\ Finish(e, u) => Moves
  <2> SUFFICES ASSUME NEW u, Well(u), Steady(t, u), Finish(e, u) PROVE Moves
    OBVIOUS
  <2>1. InOrder(u) /\ Stays(owners, u)
    BY <1>1 DEF Steady, Stays, InOrder
  <2> QED BY <2>1, SteadyLeaves, FinishMoves
<1> HIDE DEF t
<1>2. CASE ObserveNode(e, at)
  <2>1. NodeRefusal(t, e) = "" /\ Finish(e, StageNode(t, e, at))
    <3>1. e.kind = "node" /\ Refusal(t, e) = "" /\ Takes(e, at) /\ Finish(e, StageNode(t, e, at))
      BY <1>2 DEF ObserveNode, Accepted, t
    <3> QED BY <3>1 DEF Refusal
  <2>2. Well(StageNode(t, e, at)) /\ Steady(t, StageNode(t, e, at))
    BY <1>0, <1>1, <2>1, NodeWell, NodeSteady
  <2> QED BY <1>a, <2>1, <2>2
<1>3. CASE ObserveMetrics(e, at)
  <2>1. Finish(e, StageMetrics(t, e, at))
    BY <1>3 DEF ObserveMetrics, t
  <2>2. Well(StageMetrics(t, e, at)) /\ Steady(t, StageMetrics(t, e, at))
    BY <1>0, <1>1, MetricsWell, MetricsSteady
  <2> QED BY <1>a, <2>1, <2>2
<1>4. CASE ObserveState(e, at)
  <2>1. Finish(e, StageState(t, e, at, clock))
    BY <1>4 DEF ObserveState, t
  <2>2. Well(StageState(t, e, at, clock)) /\ Steady(t, StageState(t, e, at, clock))
    BY <1>0, <1>1, StateWell, StateSteady
  <2> QED BY <1>a, <2>1, <2>2
<1>5. CASE ObserveHeartbeat(e, at)
  <2>1. Finish(e, StageHeartbeat(t, e, at, clock))
    BY <1>5 DEF ObserveHeartbeat, t
  <2>2. Well(StageHeartbeat(t, e, at, clock)) /\ Steady(t, StageHeartbeat(t, e, at, clock))
    BY <1>0, <1>1, HeartbeatWell, HeartbeatSteady
  <2> QED BY <1>a, <2>1, <2>2
<1>6. CASE ObserveExit(e, at)
  <2>1. Finish(e, StageExit(t, e, at, clock))
    BY <1>6 DEF ObserveExit, t
  <2>2. Well(StageExit(t, e, at, clock)) /\ Steady(t, StageExit(t, e, at, clock))
    BY <1>0, <1>1, ExitWell, ExitSteady
  <2> QED BY <1>a, <2>1, <2>2
<1>7. CASE ObserveRelationship(e, at)
  <2>1. /\ e.kind = "relationship" /\ RelationshipRefusal(t, e) = ""
        /\ Finish(e, StageRelationship(t, e))
    <3>1. e.kind = "relationship" /\ Refusal(t, e) = "" /\ Finish(e, StageRelationship(t, e))
      BY <1>7 DEF ObserveRelationship, Accepted, t
    <3> QED BY <3>1 DEF Refusal
  <2>2. Well(StageRelationship(t, e)) /\ Steady(t, StageRelationship(t, e))
    BY <1>1, <2>1, RelationshipWell, RelationshipSteady
  <2> QED BY <1>a, <2>1, <2>2
<1>8. CASE ObserveMessage(e, at)
  <2>1. /\ e.kind = "message" /\ MessageRefusal(t, e) = "" /\ e.digest \notin owners.fingerprints
        /\ Finish(e, StageMessage(t, e, at))
    <3>1. /\ e.kind = "message" /\ Refusal(t, e) = "" /\ Takes(e, at)
          /\ Finish(e, StageMessage(t, e, at))
      BY <1>8 DEF ObserveMessage, Accepted, t
    <3>2. MessageRefusal(t, e) = ""
      BY <3>1 DEF Refusal
    <3> QED BY <3>1, <3>2 DEF Takes, Arrives
  <2>2. Well(StageMessage(t, e, at)) /\ Steady(t, StageMessage(t, e, at))
    BY <1>0, <1>1, <2>1, MessageWell, MessageSteady
  <2> QED BY <1>a, <2>1, <2>2
<1>9. CASE ObserveGap(e, at)
  <2>1. Finish(e, StageGap(t, e))
    BY <1>9 DEF ObserveGap, t
  <2>2. Well(StageGap(t, e)) /\ Steady(t, StageGap(t, e))
    BY <1>1, GapWell, GapSteady
  <2> QED BY <1>a, <2>1, <2>2
<1> QED BY <1>2, <1>3, <1>4, <1>5, <1>6, <1>7, <1>8, <1>9

LEMMA RefuseMoves ==
  ASSUME RecInv, NEW e \in Events, NEW at, Refuse(e, at)
  PROVE  Moves
<1>1. PICK refusal : Commit(Diagnosed(owners, e, refusal))
  BY DEF Refuse
<1>2. InOrder(Diagnosed(owners, e, refusal)) /\ Leaves(owners, Diagnosed(owners, e, refusal))
  BY DiagnosedMoves
<1> QED BY <1>1, <1>2, CommitMoves

LEMMA PinMoves ==
  ASSUME RecInv, NEW a \in Actors, Pin(a) \/ Unpin(a)
  PROVE  Moves
<1>1. Well(owners) /\ Shaped(owners) /\ Present(owners, a) /\ IsOwners(owners)
  BY DEF RecInv, InOrder, Pin, Unpin, Well, Sound
<1>2. CASE Pin(a)
  <2> DEFINE b == TRUE
             u == [owners EXCEPT !.nodes[a].pinned = b]
  <2>1. Commit(u)
    BY <1>2 DEF Pin
  <2> HIDE DEF b
  <2>2. Well(u) /\ Steady(owners, u)
    BY <1>1, PinWell, PinSteady
  <2> HIDE DEF u
  <2> QED BY <2>1, <2>2, SteadyLeaves, CommitMoves DEF Steady, InOrder
<1>3. CASE Unpin(a)
  <2> DEFINE b == FALSE
             u == [owners EXCEPT !.nodes[a].pinned = b]
             v == GhostExpiry(u, clock, {a})
  <2>1. Commit(u) \/ (Commit(v) /\ Overdue(a))
    BY <1>3 DEF Unpin
  <2>2. cursor' = cursor
    BY <1>3 DEF Unpin
  <2> HIDE DEF b
  <2>3. Well(u) /\ Steady(owners, u)
    BY <1>1, PinWell, PinSteady
  <2> HIDE DEF u
  <2>4. CASE Commit(u)
    BY <2>3, <2>4, SteadyLeaves, CommitMoves DEF Steady, InOrder
  <2>5. CASE Commit(v) /\ Overdue(a)
    <3>1. Well(v) /\ Shaped(v)
      BY <2>3, GhostExpiryWell, GhostExpiryShaped DEF Steady
    <3>2. \A c \in Actors \ {a} : v.nodes[c] = u.nodes[c]
      BY <2>3, GhostExpiryKeeps DEF Well
    <3> HIDE DEF v
    <3>3. Leaves(owners, v)
      <4> SUFFICES ASSUME NEW c \in Actors, Present(owners, c), ~Present(v, c)
                   PROVE  owners.nodes[c].ghostAt # 0 /\ owners.nodes[c].ghostAt <= clock
        BY <2>2 DEF Leaves
      <4>1. c = a
        BY <2>3, <3>2 DEF Steady, Stays, Present
      <4>2. owners.nodes[a].ghostAt # 0 /\ clock >= owners.nodes[a].ghostAt
        BY <2>5 DEF Overdue
      <4>3. owners.nodes[a].ghostAt \in Nat /\ clock \in Int
        BY <1>1 DEF Shaped, RecInv
      <4> DEFINE g == owners.nodes[a].ghostAt
      <4>4. g # 0 /\ g <= clock
        <5>1. clock >= g /\ g # 0 /\ g \in Nat /\ clock \in Int
          BY <4>2, <4>3
        <5> HIDE DEF g
        <5> QED BY ONLY <5>1
      <4> QED BY <4>1, <4>4
    <3> QED BY <2>5, <3>1, <3>3, CommitMoves DEF InOrder
  <2> QED BY <2>1, <2>4, <2>5
<1> QED BY <1>2, <1>3

LEMMA AdvanceMoves ==
  ASSUME RecInv, Advance
  PROVE  Moves /\ cursor' \in 0..clock /\ clock' = clock
<1> DEFINE S == NextDeadlines(owners, cursor)
           d == Min(S)
           m == MessageExpiry(owners, d)
           g == GhostExpiry(m, d, Actors)
           u == DueStateExpiry(g, d)
<1>0. Well(owners) /\ Shaped(owners) /\ clock \in Int
  BY DEF RecInv, InOrder
<1>1. d \in Nat
  <2>1. S \subseteq Nat
    BY <1>0, DeadlinesAreInstants DEF NextDeadlines
  <2>2. S # {}
    BY DEF Advance
  <2> HIDE DEF S
  <2> QED BY <2>1, <2>2, EarliestIs
<1>2. d <= clock /\ cursor' = d /\ Finished(u) /\ clock' = clock
  BY DEF Advance, Advanced
<1> HIDE DEF d
<1>3. cursor' \in 0..clock
  <2>1. d \in Nat /\ d <= clock /\ clock \in Int
    BY <1>0, <1>1, <1>2
  <2>2. d \in 0..clock
    BY ONLY <2>1
  <2> QED BY <1>2, <2>2
<1>4. Well(m) /\ Steady(owners, m) /\ m.nodes = owners.nodes
  BY <1>0, MessageExpiryWell, MessageExpirySteady, MessageExpiryKeeps DEF Well
<1> HIDE DEF m
<1>5. Well(g) /\ Shaped(g)
  BY <1>4, GhostExpiryWell, GhostExpiryShaped DEF Steady
<1>6. \A a \in Actors : g.nodes[a] = IF GhostOver(m.nodes[a], d) THEN NoNode ELSE m.nodes[a]
  BY <1>4, GhostExpiryKeeps DEF Well
<1> HIDE DEF g
<1>7. Well(u) /\ Steady(g, u)
  BY <1>5, DueWell, DueSteady
<1> HIDE DEF u
<1>8. Leaves(owners, u)
  <2> SUFFICES ASSUME NEW a \in Actors, Present(owners, a), ~Present(u, a)
               PROVE  /\ owners.nodes[a].ghostAt # 0 /\ owners.nodes[a].ghostAt <= clock
                      /\ ~owners.nodes[a].pinned
    BY DEF Leaves
  <2>1. GhostOver(owners.nodes[a], d)
    BY <1>4, <1>6, <1>7 DEF Steady, Stays, Present
  <2> DEFINE x == owners.nodes[a].ghostAt
  <2>2. x # 0 /\ ~owners.nodes[a].pinned /\ d >= x
    BY <2>1 DEF GhostOver
  <2>3. x \in Nat
    BY <1>0 DEF Shaped
  <2>4. x <= clock
    <3>1. x \in Nat /\ d \in Nat /\ clock \in Int /\ d >= x /\ d <= clock
      BY <1>0, <1>1, <1>2, <2>2, <2>3
    <3> HIDE DEF x
    <3> QED BY ONLY <3>1
  <2> QED BY <2>2, <2>4
<1>9. Moves
  BY <1>2, <1>7, <1>8, FinishedMoves DEF Steady, InOrder
<1> QED BY <1>2, <1>3, <1>9

-----------------------------------------------------------------------------
(* Every step keeps RecInv, and moves no actor out of the graph that may    *)
(* stay.                                                                    *)
LEMMA StepMoves ==
  ASSUME RecInv, [Next]_vars
  PROVE  RecInv' /\ Leaves(owners, owners')
<1> DEFINE Ticks == clock' \in 1..Horizon /\ cursor' \in 0..clock'
           Goal == Moves /\ Ticks
<1>0. clock \in 1..Horizon /\ cursor \in 0..clock
  BY DEF RecInv
<1>b. clock \in Nat /\ Horizon \in Nat /\ clock <= Horizon /\ clock >= 1
  BY <1>0, ReducerAssumption
<1>a. UNCHANGED <<clock, cursor>> => Ticks
  BY <1>0
<1>1. ASSUME NEW e \in Events, NEW at \in 1..Horizon,
             \/ ObserveNode(e, at) \/ ObserveMetrics(e, at) \/ ObserveState(e, at)
             \/ ObserveHeartbeat(e, at) \/ ObserveExit(e, at) \/ ObserveRelationship(e, at)
             \/ ObserveMessage(e, at) \/ ObserveGap(e, at)
      PROVE  Goal
  <2>1. UNCHANGED <<clock, cursor>>
    <3>1. \E u : Finish(e, u)
      BY <1>1 DEF ObserveNode, ObserveMetrics, ObserveState, ObserveHeartbeat, ObserveExit,
                  ObserveRelationship, ObserveMessage, ObserveGap
    <3> QED BY <3>1 DEF Finish
  <2> HIDE DEF Ticks
  <2> QED BY <1>1, <1>a, <2>1, ObserveMoves
<1>2. ASSUME NEW e \in Events, NEW at \in 1..Horizon, Refuse(e, at)
      PROVE  Goal
  <2>1. UNCHANGED <<clock, cursor>>
    BY <1>2 DEF Refuse
  <2> HIDE DEF Ticks
  <2> QED BY <1>2, <1>a, <2>1, RefuseMoves
<1>3. ASSUME NEW e \in Events, NEW at \in 1..Horizon, Ignore(e, at)
      PROVE  Goal
  <2>1. UNCHANGED <<clock, cursor>> /\ UNCHANGED <<owners, outcome>>
    BY <1>3 DEF Ignore, vars
  <2> HIDE DEF Ticks
  <2> QED BY <1>a, <2>1, StillMoves
<1>4. ASSUME NEW a \in Pins, Pin(a) \/ Unpin(a)
      PROVE  Goal
  <2>1. UNCHANGED <<clock, cursor>> /\ a \in Actors
    BY <1>4, ReducerAssumption DEF Pin, Unpin
  <2> HIDE DEF Ticks
  <2> QED BY <1>4, <1>a, <2>1, PinMoves
<1>5. ASSUME Advance PROVE Goal
  <2>1. Moves /\ cursor' \in 0..clock /\ clock' = clock
    BY <1>5, AdvanceMoves
  <2>2. Ticks
    BY ONLY <1>0, <2>1
  <2> QED BY <2>1, <2>2
<1>6. ASSUME Tick PROVE Goal
  <2>1. /\ UNCHANGED <<owners, outcome>> /\ cursor' = cursor
        /\ clock' = clock + 1 /\ clock < Horizon
    BY <1>6 DEF Tick
  <2>2. Moves
    BY <2>1, StillMoves
  <2>3. Ticks
    <3>1. cursor' = cursor /\ clock' = clock + 1 /\ clock < Horizon
      BY <2>1
    <3> QED BY ONLY <1>0, <1>b, <3>1
  <2> QED BY <2>2, <2>3
<1>7. ASSUME UNCHANGED vars PROVE Goal
  <2>1. UNCHANGED <<clock, cursor>> /\ UNCHANGED <<owners, outcome>>
    BY <1>7 DEF vars
  <2> HIDE DEF Ticks
  <2> QED BY <1>a, <2>1, StillMoves
<1>8. Goal
  <2> HIDE DEF Goal
  <2>1. Next \/ UNCHANGED vars
    OBVIOUS
  <2>2. CASE Next
    <3> USE DEF Next
    <3> QED BY <1>1, <1>2, <1>3, <1>4, <1>5, <1>6, <2>2
  <2> QED BY <1>7, <2>1, <2>2
<1> QED BY <1>8 DEF RecInv, Moves

(* RecInv is inductive, and what the runs check of the books follows.       *)
LEMMA RecInvAlways == Spec => []RecInv
<1>1. Init => RecInv
  <2> SUFFICES ASSUME Init PROVE RecInv
    OBVIOUS
  <2>1. /\ clock = 1 /\ cursor = 0 /\ outcome = "" /\ owners = NoOwners
    BY DEF Init
  <2>2. Horizon \in Nat \ {0}
    BY ReducerAssumption
  <2>3. clock \in 1..Horizon /\ cursor \in 0..clock
    <3>1. clock = 1 /\ cursor = 0
      BY <2>1
    <3>2. 1 \in 1..Horizon /\ 0 \in 0..1
      BY ONLY <2>2
    <3> QED BY ONLY <3>1, <3>2
  <2> QED BY <2>1, <2>3, NothingIsBooked DEF RecInv, InOrder, Errors
<1>2. RecInv /\ [Next]_vars => RecInv'
  BY StepMoves
<1> QED BY <1>1, <1>2, PTL DEF Spec

LEMMA RecInvIs ==
  ASSUME RecInv
  PROVE  ReducerTypeOK /\ HistoryExact
<1>1. Well(owners) /\ Shaped(owners)
  BY DEF RecInv, InOrder
<1>2. HistoryExact
  BY <1>1, HistoryCounts DEF HistoryExact
<1>3. ReducerTypeOK
  BY <1>1 DEF ReducerTypeOK, RecInv, Errors, Shaped, GapRows, Well, Sound, InPlace
<1> QED BY <1>2, <1>3

(* The history units count what is kept: what MaxHistoryEntries is compared *)
(* with at every admission never drifts.                                    *)
THEOREM HistoryAlwaysExact == Spec => []HistoryExact
<1>1. RecInv => HistoryExact
  BY RecInvIs
<1> QED BY <1>1, RecInvAlways, PTL

(* The owners keep their types, and no edge outlives an end of it; the      *)
(* expiry index names the messages there are, and the units are exact.      *)
THEOREM EdgesAlwaysInOrder == Spec => []EdgesInOrder
<1>1. RecInv => ReducerTypeOK /\ HistoryExact
  BY RecInvIs
<1> QED BY <1>1, RecInvAlways, EdgesAlwaysAnchored, IndexAlwaysExact, PTL DEF EdgesInOrder

(* An actor only leaves when its ghost is over, and a pinned one only when  *)
(* it is unpinned.                                                          *)
THEOREM PinnedAlwaysKept == Spec => PinnedKept
<1> DEFINE Goes == \A a \in Actors : Present(owners, a) /\ ~Present(owners', a) =>
                     /\ owners.nodes[a].ghostAt # 0 /\ owners.nodes[a].ghostAt <= clock
                     /\ owners.nodes[a].pinned => cursor' = cursor
<1>1. RecInv /\ [Next]_vars => [Goes]_vars
  BY StepMoves DEF Leaves
<1> HIDE DEF Goes
<1>2. Spec => [][Goes]_vars
  BY <1>1, RecInvAlways, PTL DEF Spec
<1> QED BY <1>2 DEF PinnedKept, Goes

=============================================================================
