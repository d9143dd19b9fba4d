------------------------------- MODULE Reducer --------------------------------
(***************************************************************************)
(* The Reconciler (src/internal/graph/reconcile.go) from an event that may *)
(* take effect to the published snapshot: actors and their incarnations,   *)
(* evidence, ghosts, pins, edges, the message window, diagnostic gaps, the *)
(* transitions, the history count, and the deadlines Advance is called at. *)
(*                                                                         *)
(* Every call of the code stages its changes in a reconcileTxn and commits *)
(* it whole or not at all.  A Stage operator maps the staged owners to the *)
(* staged owners, and an action commits what it returns.  A stage that     *)
(* fails with an error that is no admission error sets `error`: Store.Run  *)
(* then returns it and the graph stops (Break).                            *)
(*                                                                         *)
(* Which events of a protocol lane arrive, and replays, are ReorderLanes;  *)
(* byte limits are left out, the count limits are here.                    *)
(***************************************************************************)
EXTENDS Evidence

CONSTANTS
  Actors,            (* NodeIDs                                               *)
  Incs,              (* IncarnationIDs                                        *)
  Relations,         (* RelationshipIDs an approval may carry                 *)
  EdgeKeys,          (* [type, source, target] of the edges events may name   *)
  Digests,           (* replay digests of the messages                        *)
  Events,            (* the events, but for their ReceivedAt (EventRecord)    *)
  MessageWindow, TransitionLimit, MaxNodes, MaxEdges, MaxGaps, HistoryLimit,
  MaxEvents,         (* bound: how many events are accepted or refused        *)
  Pins,              (* bound: the actors a user pins                         *)
  Delay,             (* bound: how long an event waits for Run at most        *)
  Horizon            (* bound: the last instant of the clock                  *)

Kinds == {"node", "metrics", "state", "heartbeat", "exit", "relationship",
          "message", "gap"}
EdgeTypes == {"spawn", "service", "message"}
Capabilities == {"identity", "metrics", "state", "terminal", "spawn", "service",
                 "message"}

(* One shape for every kind: inc and tinc are the incarnations of actor and *)
(* target the source speaks of; a field a kind does not use is "" or 0.     *)
EventRecord ==
  [kind: Kinds, source: Sources, actor: Actors, inc: Incs,
   ordered: BOOLEAN,                          (* an observation with a time   *)
   name: STRING, startedAt: Nat, startTicks: Nat,          (* NodeObserved    *)
   usage: Nat,                                             (* MetricsObserved *)
   value: Values \cup {""}, validFor: Nat, rel: Relations \cup {""},  (* state, exit *)
   edge: EdgeKeys, tinc: Incs, digest: Digests \cup {0},   (* relations       *)
   cap: Capabilities \cup {""}, resolved: BOOLEAN]         (* GapObserved     *)

ASSUME ReducerAssumption ==
  /\ Events \subseteq EventRecord /\ IsFiniteSet(Events)
  /\ \A e \in Events : /\ e.kind = "message" => e.edge.type = "message"
                       /\ e.kind = "relationship" => e.edge.type # "message"
                       /\ e.kind = "exit" => Terminal(e.value)
  /\ IsFiniteSet(Actors) /\ IsFiniteSet(EdgeKeys)
  /\ EdgeKeys \subseteq [type: EdgeTypes, source: Actors, target: Actors]
  /\ 0 \notin Incs /\ 0 \notin Digests
  /\ \A n \in {MessageWindow, TransitionLimit, MaxNodes, MaxEdges, HistoryLimit, MaxEvents, Horizon} :
       n \in Nat \ {0}
  /\ MaxGaps \in Nat /\ MaxGaps >= 3 /\ Delay \in Nat /\ Pins \subseteq Actors

VARIABLES
  clock,       (* the time Run reads                                          *)
  owners,      (* what the Reconciler owns (Owners)                           *)
  cursor,      (* the deadline Advance was last called with (Store)           *)
  published,   (* the current generation: nodes, edges and gaps               *)
  outcome,     (* the error the graph stopped with, or ""                     *)
  arrived      (* how many events took effect                                 *)

vars == <<clock, owners, cursor, published, outcome, arrived>>

NoNode == [inc |-> 0]
NoEdge == [source |-> 0]
NoCursor == [ordered |-> FALSE, at |-> 0]
NoState == Shown(NoEvidence)

(* owners is a record:                                                      *)
(*   nodes        of each actor, NoNode or its node with the sources of it  *)
(*   proofs, metrics, states, approvals: the evidence of each actor         *)
(*   health       the heartbeat lanes of each actor                         *)
(*   current      the incarnation each actor was last seen in; it stays     *)
(*                when the ghost of the actor goes                          *)
(*   retired      <<actor, incarnation>> that were succeeded                *)
(*   edges        NoEdge, or the edge and what contributed to it            *)
(*   expiry       messageExpiryIndex                                        *)
(*   gaps         the open rows; ledger is the source aitop's own rows have *)
(*   transitions, cursors, fingerprints (of messages)                       *)
(*   history      historyUnits, without those of lanes and fingerprints     *)
NoOwners ==
  [nodes |-> [a \in Actors |-> NoNode],
   proofs |-> [a \in Actors |-> <<>>], metrics |-> [a \in Actors |-> <<>>],
   states |-> [a \in Actors |-> <<>>], approvals |-> [a \in Actors |-> <<>>],
   health |-> [a \in Actors |-> {}],
   current |-> [a \in Actors |-> [inc |-> 0, startedAt |-> 0, startTicks |-> 0]],
   retired |-> {}, edges |-> [k \in EdgeKeys |-> NoEdge], expiry |-> {}, gaps |-> {},
   transitions |-> [a \in Actors |-> <<>>],
   cursors |-> [k \in Sources \X Actors |-> NoCursor],
   fingerprints |-> {}, history |-> 0, error |-> ""]

Present(t, a) == t.nodes[a] # NoNode
Linked(t, k) == t.edges[k] # NoEdge
NodeCount(t) == Cardinality({a \in Actors : Present(t, a)})
EdgeCount(t) == Cardinality({k \in EdgeKeys : Linked(t, k)})
Failed(t, rule) == [t EXCEPT !.error = rule]

(* The edges of incarnation inc of a, at either end.                        *)
EdgesOf(t, a, inc) ==
  {k \in EdgeKeys : /\ Linked(t, k)
                    /\ \/ k.source = a /\ t.edges[k].source = inc
                       \/ k.target = a /\ t.edges[k].target = inc}

(* Row e takes the place of the rows in old, of which there is at most one; *)
(* what is accepted last stands last.                                       *)
Without(rows, old) == Among(rows, ToSet(rows) \ old)
Accept(rows, old, e) == Append(Without(rows, old), e)
Own(rows, e) == {x \in ToSet(rows) : x.source = e.source}
AcceptOwn(rows, e) == Accept(rows, Own(rows, e), e)
HoldsOwn(rows, e) == Own(rows, e) # {}
One(added) == IF added THEN 1 ELSE 0

-----------------------------------------------------------------------------
(* Partial: an open gap of a source that contributes to what is shown.      *)

Ledger == "ledger"
GapKey(id, cap, kind) == [id |-> id, cap |-> cap, kind |-> kind]
Catchall == GapKey(Ledger, "", "resource")
Ordinary(gaps) == gaps \ {Catchall}

Covers(gaps, ids, cap) == \E g \in gaps : g.id \in ids /\ g.cap \in {"", cap}

NodePartial(n, gaps) ==
  \/ Covers(gaps, n.identity, "identity") \/ Covers(gaps, n.metricSources, "metrics")
  \/ Covers(gaps, n.stateSources, "state") \/ Covers(gaps, n.terminalSources, "terminal")

EdgePartial(k, e, gaps) ==
  \/ Covers(gaps, {s.id : s \in e.contributors}, k.type)
  \/ Covers(gaps, {m.source.id : m \in e.messages}, "message")

PartialUpdates(t) ==
  [t EXCEPT
     !.nodes = [a \in Actors |-> IF Present(t, a)
                THEN [t.nodes[a] EXCEPT !.partial = NodePartial(t.nodes[a], t.gaps)]
                ELSE NoNode],
     !.edges = [k \in EdgeKeys |-> IF Linked(t, k)
                THEN [t.edges[k] EXCEPT !.partial = EdgePartial(k, t.edges[k], t.gaps)]
                ELSE NoEdge]]

WithNode(t, a, n) == [t EXCEPT !.nodes[a] = [n EXCEPT !.partial = NodePartial(n, t.gaps)]]
WithEdge(t, k, e) == [t EXCEPT !.edges[k] = [e EXCEPT !.partial = EdgePartial(k, e, t.gaps)]]

-----------------------------------------------------------------------------
(* The state of an actor.                                                   *)

GhostEdges(t, a, inc) ==
  LET K == {k \in EdgesOf(t, a, inc) : k.type # "message"}
  IN [t EXCEPT !.edges = [k \in EdgeKeys |-> IF k \in K
                            THEN [t.edges[k] EXCEPT !.ghost = TRUE] ELSE t.edges[k]]]

(* applyTerminalMetadata: a winner that is not terminal leaves it alone.    *)
TerminalMetadata(n, e) ==
  IF ~Terminal(e.value) THEN n
  ELSE [n EXCEPT !.completedAt = IF e.value = "completed" THEN e.at ELSE 0,
                 !.failedAt = IF e.value = "failed" THEN e.at ELSE 0,
                 !.ghostAt = e.at + GhostTTL(e.value)]

NextTransitions(log, now, value) ==
  LET longer == Append(log, [at |-> now, value |-> value])
  IN IF Len(longer) > TransitionLimit THEN Tail(longer) ELSE longer

WithState(n, winner) ==
  LET ids == IF winner = NoEvidence THEN {} ELSE {winner.source.id}
  IN TerminalMetadata([n EXCEPT !.state = Shown(winner),
                                !.stale = @ /\ ~Terminal(winner.value),
                                !.stateSources = IF winner.via = "state" THEN ids ELSE {},
                                !.terminalSources = IF winner.via = "terminal" THEN ids ELSE {}],
                      winner)

(* A node that moves to another public state is logged; time must not       *)
(* decrease in the log.                                                     *)
Logged(t, a, now, value, moves) ==
  LET log == t.transitions[a] IN
  IF ~moves THEN t
  ELSE IF log # <<>> /\ now < Last(log).at THEN Failed(t, "transition-time")
  ELSE [t EXCEPT !.transitions[a] = NextTransitions(log, now, value)]

ProjectAs(t, a, now, winner, after) ==
  LET u == WithNode(Logged(t, a, now, winner.value, after.state # t.nodes[a].state), a, after)
  IN IF Terminal(winner.value) THEN GhostEdges(u, a, after.inc) ELSE u
ProjectTo(t, a, now, winner) ==
  ProjectAs(t, a, now, winner, WithState(t.nodes[a], winner))

(* stageStateProjection: folds the evidence of a at now into its node.      *)
StateProjection(t, a, now) ==
  IF ~Present(t, a) THEN Failed(t, "state-owner")
  ELSE ProjectTo(t, a, now, FoldState(t.states[a], t.approvals[a], t.health[a], now))

(* purgeHealthLane, for a set of lanes: their state evidence goes, but for  *)
(* terminal values and what a native poll states once; so do the approvals. *)
PurgeHealth(t, a, lanes) ==
  LET keeps(e) == \/ HealthKey(e.source) \notin lanes \/ Terminal(e.value)
                  \/ e.source.authority = Native /\ e.source.mode = "immutable"
      states == Among(t.states[a], {e \in ToSet(t.states[a]) : keeps(e)})
      approvals == Among(t.approvals[a],
                         {e \in ToSet(t.approvals[a]) : HealthKey(e.source) \notin lanes})
      health == {h \in t.health[a] : h.source \notin lanes}
  IN [t EXCEPT !.states[a] = states, !.approvals[a] = approvals, !.health[a] = health,
               !.history = @ - (Len(t.states[a]) - Len(states))
                             - (Len(t.approvals[a]) - Len(approvals))
                             - Cardinality(t.health[a] \ health)]

(* refreshHealthEpoch: a lane whose heartbeat was overdue starts anew.      *)
Beat(t, a, lane, at) ==
  LET kept == {h \in t.health[a] : h.source = lane}
  IN [t EXCEPT !.health[a] = (@ \ kept) \cup
                 {[source |-> lane, last |-> Max({at} \cup {h.last : h \in kept})]},
               !.history = @ + One(kept = {})]
RefreshHealth(t, a, lane, at) ==
  LET rolled == \E h \in t.health[a] : h.source = lane /\ at >= h.last + HookFreshness
  IN Beat(IF rolled THEN PurgeHealth(t, a, {lane}) ELSE t, a, lane, at)

ClearApprovals(t, a) ==
  [t EXCEPT !.approvals[a] = <<>>, !.history = @ - Len(t.approvals[a])]

StaleBit(t, a, stale) ==
  IF ~Present(t, a) THEN Failed(t, "state-owner") ELSE [t EXCEPT !.nodes[a].stale = stale]

-----------------------------------------------------------------------------
(* NodeObserved.                                                            *)

Knows(t, e) == t.current[e.actor].inc = e.inc        (* the current incarnation *)
Unseen(t, e) == t.current[e.actor].inc = 0
Proof(e) == [inc |-> e.inc, startedAt |-> e.startedAt, startTicks |-> e.startTicks]
Switches(t, e) == ~Unseen(t, e) /\ ~Knows(t, e)

(* The units a switch gives back: the evidence of the old incarnation and   *)
(* its relationships.                                                       *)
Relationships(t, a, inc) == {k \in EdgesOf(t, a, inc) : k.type # "message"}
EdgeUnits(t, K) ==
  LET units == [k \in K |-> Cardinality(t.edges[k].contributors)
                              + Cardinality(t.edges[k].messages)]
  IN MapThenSumSet(LAMBDA k : units[k], K)
EvidenceUnits(t, a) ==
  Len(t.proofs[a]) + Len(t.states[a]) + Len(t.approvals[a]) + Cardinality(t.health[a])
ActorUnits(t, A) ==
  LET units == [a \in A |-> EvidenceUnits(t, a) + Len(t.metrics[a])]
  IN MapThenSumSet(LAMBDA a : units[a], A)

(* Mutant: a retired incarnation is only known while its actor is shown.   *)
NodeRefusalForgets(t, e) ==
  CASE Unseen(t, e) /\ NodeCount(t) >= MaxNodes -> "count"
    [] Knows(t, e) /\ ~Present(t, e.actor) -> "proof"
    [] Switches(t, e) /\ ~StrictlyNewer(t.current[e.actor], Proof(e)) -> "proof"
    [] OTHER -> ""

NodeRefusal(t, e) ==
  LET old == t.current[e.actor] IN
  CASE Unseen(t, e) /\ NodeCount(t) >= MaxNodes -> "count"
    [] Knows(t, e) /\ ~Present(t, e.actor) -> "proof"
    [] Switches(t, e) /\ (<<e.actor, e.inc>> \in t.retired \/ ~StrictlyNewer(old, Proof(e)))
         -> "proof"
    [] Switches(t, e) /\ ~Present(t, e.actor) /\ NodeCount(t) >= MaxNodes -> "count"
    [] /\ Switches(t, e) /\ Present(t, e.actor)
       /\ t.history + 2 - EvidenceUnits(t, e.actor)
            - EdgeUnits(t, Relationships(t, e.actor, old.inc)) > HistoryLimit -> "history"
    [] OTHER -> ""

(* stageResumeEdges: relationships of the old incarnation end, messages are *)
(* kept and carried over to the new one.                                    *)
ResumeEdges(t, a, old, new) ==
  LET ended == Relationships(t, a, old)
      carried == EdgesOf(t, a, old) \ ended
      carry(k) == [t.edges[k] EXCEPT
                     !.source = IF k.source = a /\ @ = old THEN new ELSE @,
                     !.target = IF k.target = a /\ @ = old THEN new ELSE @]
  IN [t EXCEPT !.edges = [k \in EdgeKeys |-> IF k \in ended THEN NoEdge
                            ELSE IF k \in carried THEN carry(k) ELSE t.edges[k]],
               !.history = @ - EdgeUnits(t, ended)]

(* The incarnation that is succeeded is retired with its evidence.          *)
Succeed(t, e) ==
  LET a == e.actor IN
  [t EXCEPT !.retired = @ \cup {<<a, t.current[a].inc>>},
            !.proofs[a] = <<>>, !.states[a] = <<>>, !.approvals[a] = <<>>, !.health[a] = {},
            !.history = @ + 1 - EvidenceUnits(t, a)]

(* A field the event leaves out keeps what its source said before.          *)
NodeContribution(proofs, e, at) ==
  LET keep(f, none) == IF e[f] = none /\ HoldsOwn(proofs, e)
                       THEN (CHOOSE x \in Own(proofs, e) : TRUE)[f] ELSE e[f]
  IN [source |-> e.source, at |-> at, name |-> keep("name", ""),
      startedAt |-> keep("startedAt", 0), startTicks |-> keep("startTicks", 0)]

FreshNode(inc) ==
  [inc |-> inc, name |-> "", startedAt |-> 0, startTicks |-> 0, usage |-> 0,
   state |-> NoState, stale |-> FALSE, completedAt |-> 0, failedAt |-> 0, ghostAt |-> 0,
   pinned |-> FALSE, partial |-> FALSE, identity |-> {}, metricSources |-> {},
   stateSources |-> {}, terminalSources |-> {}]

(* A node of a new incarnation starts over, but for its usage.              *)
ObservedNode(t, e, switching) ==
  LET before == t.nodes[e.actor]
      fold == FoldNode(t.proofs[e.actor])
      base == IF before = NoNode THEN FreshNode(e.inc)
              ELSE IF switching
              THEN [FreshNode(e.inc) EXCEPT !.usage = before.usage,
                                            !.metricSources = before.metricSources]
              ELSE before
  IN [base EXCEPT !.name = fold.name, !.startedAt = fold.startedAt,
                  !.startTicks = fold.startTicks, !.identity = fold.identity,
                  !.stale = base.stale /\ e.source.authority = Native]

WithProof(t, e, at) ==
  LET a == e.actor IN
  [t EXCEPT !.current[a] = IF Knows(t, e) THEN @ ELSE Proof(e),
            !.proofs[a] = AcceptOwn(@, NodeContribution(@, e, at)),
            !.history = @ + One(~HoldsOwn(t.proofs[a], e))]
ShowObserved(t, e, switching) == WithNode(t, e.actor, ObservedNode(t, e, switching))

StageNode(t, e, at) ==
  IF Switches(t, e)
  THEN ResumeEdges(ShowObserved(WithProof(Succeed(t, e), e, at), e, TRUE),
                   e.actor, t.current[e.actor].inc, e.inc)
  ELSE ShowObserved(WithProof(t, e, at), e, FALSE)

-----------------------------------------------------------------------------
(* MetricsObserved, StateObserved, HeartbeatObserved, ExitObserved.         *)

OwnerRefusal(t, e) == IF Knows(t, e) THEN "" ELSE "endpoint"

StageMetrics(t, e, at) ==
  LET a == e.actor
      old == {x \in ToSet(t.metrics[a]) : x.source = e.source /\ x.inc = e.inc}
      u == [t EXCEPT !.metrics[a] = Accept(@, old, [source |-> e.source, inc |-> e.inc,
                                                    at |-> at, usage |-> e.usage]),
                     !.history = @ + One(old = {})]
      fold == FoldMetrics(u.metrics[a])
  IN IF ~Present(t, a) THEN Failed(t, "metrics-owner")
     ELSE WithNode(u, a, [t.nodes[a] EXCEPT !.usage = fold.usage,
                                            !.metricSources = fold.sources])

StateEvidence(e, at) ==
  LET validity == NormalizeValidity(e.value, e.validFor)
  IN Evidence(e.source, e.value, at, IF validity = 0 THEN 0 ELSE at + validity, "state")

StateRefusal(t, e) ==
  IF ~Knows(t, e) THEN "endpoint"
  ELSE IF \/ ValidityForbidden(e.value, e.validFor)
          \/ EvidenceRefused(StateEvidence(e, 1), e.rel) THEN "conflict"
  ELSE ""

(* Mutant: an answer ends every approval its source asked.                 *)
StateRowsOfSource(t, e, at) ==
  LET asked == {x \in ToSet(t.approvals[e.actor]) : x.source = e.source /\ x.rel = e.rel}
      row == StateEvidence(e, at)
      kept == Without(t.approvals[e.actor], Own(t.approvals[e.actor], e))
  IN IF Awaits(e.value)
     THEN [t EXCEPT !.approvals[e.actor] = Accept(@, asked, [source |-> e.source, rel |-> e.rel,
                                                             evidence |-> row]),
                    !.history = @ + One(asked = {})]
     ELSE [t EXCEPT !.approvals[e.actor] = kept, !.states[e.actor] = AcceptOwn(@, row),
                    !.history = @ - (Len(t.approvals[e.actor]) - Len(kept))
                                  + One(~HoldsOwn(t.states[e.actor], e))]

(* An approval is a row of its own relationship; any other value replaces   *)
(* the source's state, and ends the approval of the relationship it names.  *)
StateRows(t, e, at) ==
  LET a == e.actor
      asked == {x \in ToSet(t.approvals[a]) : x.source = e.source /\ x.rel = e.rel}
      row == StateEvidence(e, at)
      ends == e.rel # "" /\ asked # {}
  IN IF Awaits(e.value)
     THEN [t EXCEPT !.approvals[a] = Accept(@, asked, [source |-> e.source, rel |-> e.rel,
                                                       evidence |-> row]),
                    !.history = @ + One(asked = {})]
     ELSE [t EXCEPT !.approvals[a] = IF ends THEN Without(@, asked) ELSE @,
                    !.states[a] = AcceptOwn(@, row),
                    !.history = @ - One(ends) + One(~HoldsOwn(t.states[a], e))]

StageState(t, e, at, now) ==
  LET a == e.actor
      u == IF ~Terminal(e.value) /\ e.source.authority # Passive
           THEN RefreshHealth(t, a, HealthKey(e.source), at) ELSE t
      w == StateRows(u, e, at)
  IN StateProjection(IF Terminal(e.value) THEN ClearApprovals(w, a) ELSE w, a, now)

HeartbeatRefusal(t, e) ==
  IF Knows(t, e) /\ Present(t, e.actor) THEN "" ELSE "endpoint"

(* A poll that identified the actor takes its staleness away.               *)
Heard(t, e) ==
  LET polls == /\ e.source.authority = Native /\ e.source.mode = "observation"
               /\ \E c \in ToSet(t.proofs[e.actor]) : /\ c.source.authority = Native
                                                      /\ HealthKey(c.source) = e.source
  IN IF t.error = "" /\ polls THEN StaleBit(t, e.actor, FALSE) ELSE t
StageHeartbeat(t, e, at, now) ==
  Heard(StateProjection(RefreshHealth(t, e.actor, e.source, at), e.actor, now), e)

ExitEvidence(e, at) == Evidence(e.source, e.value, at, 0, "terminal")

ExitRefusal(t, e) ==
  IF ~Knows(t, e) THEN "endpoint"
  ELSE IF EvidenceRefused(ExitEvidence(e, 1), "") THEN "conflict" ELSE ""

StageExit(t, e, at, now) ==
  LET a == e.actor
      u == [t EXCEPT !.states[a] = AcceptOwn(@, ExitEvidence(e, at)),
                     !.history = @ + One(~HoldsOwn(t.states[a], e))]
  IN StateProjection(ClearApprovals(u, a), a, now)

-----------------------------------------------------------------------------
(* RelationshipObserved and MessageObserved: both ends have to be shown, in *)
(* the incarnations the event names.                                        *)

EndsRefused(t, e) ==
  LET shown(a, inc) == Present(t, a) /\ t.current[a].inc = inc
  IN ~shown(e.edge.source, e.inc) \/ ~shown(e.edge.target, e.tinc)

(* rankingCycle: whether source can be reached from target along edges that *)
(* rank; if not, the actors reached from target are a closed set without it. *)
Ranks(t, k) == Linked(t, k) /\ k.type = "spawn"
(* Mutant: only a cycle of two is looked for.                              *)
RankingCycleDirect(t, source, target) ==
  \E k \in EdgeKeys : Ranks(t, k) /\ k.source = target /\ k.target = source

RankingCycle(t, source, target) ==
  \A R \in SUBSET Actors :
    (target \in R /\ \A k \in EdgeKeys : Ranks(t, k) /\ k.source \in R => k.target \in R)
      => source \in R

EdgeLimit(t, e) ==
  IF ~Linked(t, e.edge) /\ EdgeCount(t) >= MaxEdges THEN "count" ELSE ""

RelationshipRefusal(t, e) ==
  LET k == e.edge
      joins == ~Linked(t, k) \/ e.source \notin t.edges[k].contributors
  IN CASE k.source = k.target /\ k.type = "service" -> "endpoint"
       [] k.source = k.target /\ k.type = "spawn" -> "cycle"
       [] EndsRefused(t, e) -> "endpoint"
       [] k.type = "spawn" /\ RankingCycle(t, k.source, k.target) -> "cycle"
       [] EdgeLimit(t, e) # "" -> EdgeLimit(t, e)
       [] t.history + One(joins) > HistoryLimit -> "history"
       [] OTHER -> ""

NewEdge(e) == [source |-> e.inc, target |-> e.tinc, ghost |-> FALSE, partial |-> FALSE,
               contributors |-> {}, messages |-> {}]
EdgeOrNew(t, e) == IF Linked(t, e.edge) THEN t.edges[e.edge] ELSE NewEdge(e)

(* Mutant: an edge of an actor that has ended is shown.                    *)
StageRelationshipShown(t, e) ==
  LET old == EdgeOrNew(t, e)
      u == [t EXCEPT !.history = @ + One(e.source \notin old.contributors)]
  IN WithEdge(u, e.edge, [old EXCEPT !.contributors = @ \cup {e.source}])

StageRelationship(t, e) ==
  LET k == e.edge
      old == EdgeOrNew(t, e)
      ended == Terminal(t.nodes[k.source].state.value) \/ Terminal(t.nodes[k.target].state.value)
      u == [t EXCEPT !.history = @ + One(e.source \notin old.contributors)]
  IN WithEdge(u, k, [old EXCEPT !.contributors = @ \cup {e.source}, !.ghost = ended])

MessageRefusal(t, e) ==
  CASE e.edge.source = e.edge.target \/ EndsRefused(t, e) -> "endpoint"
    [] EdgeLimit(t, e) # "" -> EdgeLimit(t, e)
    [] t.history + 1 > HistoryLimit -> "history"
    [] OTHER -> ""

(* The index entry is written whether or not its time is over already.      *)
StageMessage(t, e, at) ==
  LET old == EdgeOrNew(t, e)
      message == [digest |-> e.digest, source |-> e.source, at |-> at]
      u == [t EXCEPT !.history = @ + 1, !.fingerprints = @ \cup {e.digest},
                     !.expiry = @ \cup {[at |-> at + MessageWindow, digest |-> e.digest,
                                        edge |-> e.edge]}]
  IN WithEdge(u, e.edge, [old EXCEPT !.messages = @ \cup {message}])

-----------------------------------------------------------------------------
(* GapObserved, and the row a refused event leaves behind.                  *)

RowsFull(gaps, g) == g \notin gaps /\ Cardinality(Ordinary(gaps)) >= MaxGaps - 3

ObservedGap(e) == GapKey(e.source.id, e.cap, "collector")
GapRefusal(t, e) ==
  IF ~e.resolved /\ RowsFull(t.gaps, ObservedGap(e)) THEN "count" ELSE ""

StageGap(t, e) ==
  PartialUpdates([t EXCEPT !.gaps = IF e.resolved THEN @ \ {ObservedGap(e)}
                                    ELSE @ \cup {ObservedGap(e)}])

EventCapability(e) ==
  CASE e.kind = "node" -> "identity"
    [] e.kind \in {"state", "heartbeat"} -> "state"
    [] e.kind = "exit" -> "terminal"
    [] e.kind = "relationship" -> e.edge.type
    [] e.kind = "message" -> "message"
    [] e.kind = "gap" -> ""
    [] e.kind = "metrics" -> "metrics"

(* Mutant: a gap leaves partial as it is.                                  *)
DiagnosedQuietly(t, e, refusal) ==
  [t EXCEPT !.gaps = @ \cup {GapKey(e.source.id, EventCapability(e), "collision")}]

(* prepareAdmission: nothing of the event, one row about its refusal.       *)
Diagnosed(t, e, refusal) ==
  LET own == CASE refusal \in {"count", "history"} -> Catchall
               [] refusal = "regime" -> GapKey(e.source.id, EventCapability(e), "schema")
               [] refusal = "cycle" -> GapKey(e.source.id, "spawn", "collision")
               [] OTHER -> GapKey(e.source.id, EventCapability(e), "collision")
      row == IF own # Catchall /\ RowsFull(t.gaps, own) THEN Catchall ELSE own
  IN PartialUpdates([t EXCEPT !.gaps = @ \cup {row}])

-----------------------------------------------------------------------------
(* Observation cursors.  Ordered observations carry a time of their own,    *)
(* structural ones are ordered by when they were received.                  *)

CursorOf(t, e) == t.cursors[<<e.source, e.actor>>]
Observed(e) == e.source.mode = "observation"

RegimeRefused(t, e) == Observed(e) /\ CursorOf(t, e).ordered /\ ~e.ordered
Outdated(t, e, at) ==
  /\ Observed(e) /\ CursorOf(t, e) # NoCursor
  /\ CursorOf(t, e).ordered = e.ordered /\ at <= CursorOf(t, e).at

MoveCursor(t, e, at) ==
  IF ~Observed(e) THEN t
  ELSE [t EXCEPT !.cursors[<<e.source, e.actor>>] = [ordered |-> e.ordered, at |-> at],
                 !.history = @ + One(CursorOf(t, e) = NoCursor)]

-----------------------------------------------------------------------------
(* What Advance stages.                                                     *)

MessageExpiry(t, now) ==
  LET due == {x \in t.expiry : now >= x.at}
      gone(k) == {m \in t.edges[k].messages : \E x \in due : x.edge = k /\ x.digest = m.digest}
      K == {k \in EdgeKeys : Linked(t, k) /\ gone(k) # {}}
      rest(k) == [t.edges[k] EXCEPT !.messages = @ \ gone(k)]
      kept(k) == [rest(k) EXCEPT !.partial = EdgePartial(k, rest(k), t.gaps)]
      units == [k \in K |-> Cardinality(gone(k))]
  IN [t EXCEPT !.expiry = @ \ due,
               !.edges = [k \in EdgeKeys |-> IF k \notin K THEN t.edges[k]
                            ELSE IF rest(k).messages = {} THEN NoEdge ELSE kept(k)],
               !.history = @ - MapThenSumSet(LAMBDA k : units[k], K)]

(* Mutant: a deadline removes pinned ghosts.                               *)
GhostOverPinned(n, now) == n # NoNode /\ n.ghostAt # 0 /\ now >= n.ghostAt

GhostOver(n, now) == n # NoNode /\ n.ghostAt # 0 /\ ~n.pinned /\ now >= n.ghostAt

(* Mutant: the messages of removed edges stay in the index.                *)
GhostExpiryKeepsIndex(t, now, scope) ==
  LET gone == {a \in scope : GhostOver(t.nodes[a], now)}
      cut == UNION {EdgesOf(t, a, t.nodes[a].inc) : a \in gone}
      clear(f, none) == [a \in Actors |-> IF a \in gone THEN none ELSE f[a]]
  IN [t EXCEPT !.nodes = clear(@, NoNode), !.proofs = clear(@, <<>>),
               !.metrics = clear(@, <<>>), !.states = clear(@, <<>>),
               !.approvals = clear(@, <<>>), !.health = clear(@, {}),
               !.edges = [k \in EdgeKeys |-> IF k \in cut THEN NoEdge ELSE t.edges[k]],
               !.history = @ - EdgeUnits(t, cut) - ActorUnits(t, gone)]

(* stageGhostExpiryScoped: an actor goes with all of its evidence, of its   *)
(* usage also what older incarnations said, and with its edges; only its    *)
(* current incarnation stays known.                                         *)
GhostExpiry(t, now, scope) ==
  LET gone == {a \in scope : GhostOver(t.nodes[a], now)}
      cut == UNION {EdgesOf(t, a, t.nodes[a].inc) : a \in gone}
      clear(f, none) == [a \in Actors |-> IF a \in gone THEN none ELSE f[a]]
  IN [t EXCEPT !.nodes = clear(@, NoNode), !.proofs = clear(@, <<>>),
               !.metrics = clear(@, <<>>), !.states = clear(@, <<>>),
               !.approvals = clear(@, <<>>), !.health = clear(@, {}),
               !.edges = [k \in EdgeKeys |-> IF k \in cut THEN NoEdge ELSE t.edges[k]],
               !.expiry = {x \in @ : x.edge \notin cut},
               !.history = @ - EdgeUnits(t, cut) - ActorUnits(t, gone)]

(* stageDueStateExpiry.  Evidence past its time is left where it is: it no  *)
(* longer counts.  A lane past its heartbeat goes.                          *)
DueLanes(t, a, now) ==
  {h.source : h \in {h \in t.health[a] : now >= h.last + HookFreshness}}
HealthMissing(t, a, now) ==
  LET d == MissingHealthDeadline(t.proofs[a], t.health[a])
  IN /\ Present(t, a) /\ d # 0 /\ now >= d
     /\ ~t.nodes[a].stale /\ ~Terminal(t.nodes[a].state.value)

MarkStale(t, a, now, suspect) ==
  IF t.error # "" \/ ~suspect THEN t
  ELSE StaleBit(t, a, ~Terminal(t.nodes[a].state.value) /\ UnheardOf(t.proofs[a], t.health[a], now))

Settle(t, a, now, lanes, purged) ==
  LET silent == \E c \in ToSet(t.proofs[a]) : /\ c.source.authority = Native
                                               /\ HealthKey(c.source) \in lanes
  IN MarkStale(StateProjection(purged, a, now), a, now, silent \/ HealthMissing(purged, a, now))

DueStateExpiry(t, now) ==
  LET due(a) == \/ \E e \in ToSet(t.states[a]) : ~Current(e, now)
                \/ DueLanes(t, a, now) # {} \/ HealthMissing(t, a, now)
      settle(a, u) == LET lanes == DueLanes(t, a, now)
                      IN IF u.error # "" THEN u
                         ELSE Settle(u, a, now, lanes, PurgeHealth(u, a, lanes))
  IN FoldSet(settle, t, {a \in Actors : due(a)})

Advanced(t, now) ==
  DueStateExpiry(GhostExpiry(MessageExpiry(t, now), now, Actors), now)

(* Mutant: only heartbeats that were heard become overdue.                 *)
DeadlinesOfHeard(t) ==
  {x.at : x \in t.expiry}
  \cup UNION {{e.until : e \in ToSet(t.states[a])} \cup {h.last + HookFreshness : h \in t.health[a]}
              \cup (IF ~Present(t, a) \/ t.nodes[a].pinned THEN {} ELSE {t.nodes[a].ghostAt})
            : a \in Actors}

(* nextDeadline: the first moment strictly after `after` something is due.  *)
Deadlines(t) ==
  {x.at : x \in t.expiry}
  \cup UNION {{e.until : e \in ToSet(t.states[a])}
              \cup {h.last + HookFreshness : h \in t.health[a]}
              \cup (IF ~Present(t, a) THEN {}
                    ELSE (IF t.nodes[a].stale \/ Terminal(t.nodes[a].state.value) THEN {}
                          ELSE {MissingHealthDeadline(t.proofs[a], t.health[a])})
                         \cup (IF t.nodes[a].pinned THEN {} ELSE {t.nodes[a].ghostAt}))
            : a \in Actors}
NextDeadlines(t, after) == {d \in Deadlines(t) : d > after}

-----------------------------------------------------------------------------
(* The published generation.                                                *)

PublicFields == {"inc", "name", "startedAt", "startTicks", "usage", "state", "stale",
                 "completedAt", "failedAt", "ghostAt", "pinned", "partial"}
PublicNode(t, a) == IF ~Present(t, a) THEN NoNode
                    ELSE [f \in PublicFields |-> t.nodes[a][f]] @@ [log |-> t.transitions[a]]
PublicEdge(t, k) == IF ~Linked(t, k) THEN NoEdge
                    ELSE [f \in {"ghost", "partial", "messages"} |-> t.edges[k][f]]
PublicNodes(t) == [a \in Actors |-> PublicNode(t, a)]
PublicEdges(t) == [k \in EdgeKeys |-> PublicEdge(t, k)]
Projection(t) == [nodes |-> PublicNodes(t), edges |-> PublicEdges(t), gaps |-> t.gaps]

(* normalizeTransactionDeltas: what is told to have changed from t to u.    *)
Differ(t, u, fields) ==
  \E a \in Actors : /\ Present(t, a) /\ Present(u, a)
                    /\ \E f \in fields : t.nodes[a][f] # u.nodes[a][f]
TopologyChanged(t, u) ==
  \/ \E a \in Actors : t.nodes[a].inc # u.nodes[a].inc
  \/ \E k \in EdgeKeys : Linked(t, k) # Linked(u, k)
VisibilityChanged(t, u) ==
  \/ t.gaps # u.gaps
  \/ \E k \in EdgeKeys : /\ Linked(t, k) /\ Linked(u, k)
                         /\ PublicEdge(t, k) # PublicEdge(u, k)
  \/ Differ(t, u, {"name", "startedAt", "startTicks", "partial", "pinned", "ghostAt"})
(* Mutant: a state is compared by its value alone.                         *)
StateChangedByValue(t, u) == Differ(t, u, {"completedAt", "failedAt"})
  \/ \E a \in Actors : Present(t, a) /\ Present(u, a) /\ t.transitions[a] # u.transitions[a]

StateChanged(t, u) ==
  \/ Differ(t, u, {"state", "stale", "completedAt", "failedAt"})
  \/ \E a \in Actors : Present(t, a) /\ Present(u, a) /\ t.transitions[a] # u.transitions[a]
MetricsChanged(t, u) == Differ(t, u, {"usage"})

(* buildGeneration: a part that did not change is taken over as it is, and  *)
(* a transaction that changed nothing public publishes nothing.             *)
Generation(t, u) ==
  IF ~(TopologyChanged(t, u) \/ VisibilityChanged(t, u) \/ StateChanged(t, u)
         \/ MetricsChanged(t, u))
  THEN published
  ELSE [nodes |-> IF PublicNodes(t) = PublicNodes(u) THEN published.nodes ELSE PublicNodes(u),
        edges |-> IF PublicEdges(t) = PublicEdges(u) THEN published.edges ELSE PublicEdges(u),
        gaps |-> IF t.gaps = u.gaps THEN published.gaps ELSE u.gaps]

Commit(u) == /\ owners' = u
             /\ published' = Generation(owners, u)
             /\ UNCHANGED outcome
Break(rule) == outcome' = rule /\ UNCHANGED <<owners, published>>
Finished(u) == IF u.error # "" THEN Break(u.error) ELSE Commit(u)

-----------------------------------------------------------------------------
(* Apply.                                                                   *)

Arrives(e, at) ==
  /\ outcome = "" /\ arrived < MaxEvents
  /\ at <= clock /\ at + Delay >= clock
  /\ e.digest \notin owners.fingerprints

Takes(e, at) == Arrives(e, at) /\ ~RegimeRefused(owners, e) /\ ~Outdated(owners, e, at)

(* The transaction the event starts with.                                   *)
Base(e, at) == MoveCursor(owners, e, at)

Refusal(t, e) ==
  CASE RegimeRefused(owners, e) -> "regime"
    [] e.kind = "node" -> NodeRefusal(t, e)
    [] e.kind = "metrics" -> OwnerRefusal(t, e)
    [] e.kind = "state" -> StateRefusal(t, e)
    [] e.kind = "heartbeat" -> HeartbeatRefusal(t, e)
    [] e.kind = "exit" -> ExitRefusal(t, e)
    [] e.kind = "relationship" -> RelationshipRefusal(t, e)
    [] e.kind = "message" -> MessageRefusal(t, e)
    [] e.kind = "gap" -> GapRefusal(t, e)

(* finishApplyTransaction, or the error of a stage.                         *)
Finish(e, u) ==
  /\ Finished(IF u.error = "" /\ u.history > HistoryLimit
              THEN Diagnosed(owners, e, "history") ELSE u)
  /\ arrived' = arrived + 1 /\ UNCHANGED <<clock, cursor>>

Accepted(kind, e, at) == e.kind = kind /\ Takes(e, at) /\ Refusal(Base(e, at), e) = ""

ObserveNode(e, at) == Accepted("node", e, at) /\ Finish(e, StageNode(Base(e, at), e, at))
ObserveMetrics(e, at) ==
  Accepted("metrics", e, at) /\ Finish(e, StageMetrics(Base(e, at), e, at))
ObserveState(e, at) ==
  Accepted("state", e, at) /\ Finish(e, StageState(Base(e, at), e, at, clock))
ObserveHeartbeat(e, at) ==
  Accepted("heartbeat", e, at) /\ Finish(e, StageHeartbeat(Base(e, at), e, at, clock))
ObserveExit(e, at) ==
  Accepted("exit", e, at) /\ Finish(e, StageExit(Base(e, at), e, at, clock))
ObserveRelationship(e, at) ==
  Accepted("relationship", e, at) /\ Finish(e, StageRelationship(Base(e, at), e))
ObserveMessage(e, at) ==
  Accepted("message", e, at) /\ Finish(e, StageMessage(Base(e, at), e, at))
ObserveGap(e, at) == Accepted("gap", e, at) /\ Finish(e, StageGap(Base(e, at), e))

Refuse(e, at) ==
  /\ Arrives(e, at) /\ (RegimeRefused(owners, e) \/ ~Outdated(owners, e, at))
  /\ \E refusal \in {Refusal(Base(e, at), e)} :
       refusal # "" /\ Commit(Diagnosed(owners, e, refusal))
  /\ arrived' = arrived + 1 /\ UNCHANGED <<clock, cursor>>

Ignore(e, at) ==
  Arrives(e, at) /\ ~RegimeRefused(owners, e) /\ Outdated(owners, e, at) /\ UNCHANGED vars

-----------------------------------------------------------------------------
(* Advance, SetPinned, and the passage of time.                             *)

(* Run calls Advance with the deadline it woke for, however late it is, and *)
(* after it has applied what was waiting (Store).                           *)
Advance ==
  /\ outcome = "" /\ NextDeadlines(owners, cursor) # {}
  /\ LET d == Min(NextDeadlines(owners, cursor))
     IN d <= clock /\ cursor' = d /\ Finished(Advanced(owners, d))
  /\ UNCHANGED <<clock, arrived>>

Overdue(a) == owners.nodes[a].ghostAt # 0 /\ clock >= owners.nodes[a].ghostAt

Pin(a) ==
  /\ outcome = "" /\ Present(owners, a) /\ ~owners.nodes[a].pinned /\ ~Overdue(a)
  /\ Commit([owners EXCEPT !.nodes[a].pinned = TRUE])
  /\ UNCHANGED <<clock, cursor, arrived>>

(* The ghost of an actor unpinned too late goes at once.                    *)
Unpin(a) ==
  /\ outcome = "" /\ Present(owners, a)
  /\ LET u == [owners EXCEPT !.nodes[a].pinned = FALSE]
     IN IF Overdue(a) THEN Commit(GhostExpiry(u, clock, {a}))
        ELSE owners.nodes[a].pinned /\ Commit(u)
  /\ UNCHANGED <<clock, cursor, arrived>>

Tick == /\ outcome = "" /\ clock < Horizon
        /\ clock' = clock + 1
        /\ UNCHANGED <<owners, cursor, published, outcome, arrived>>

Init == /\ clock = 1 /\ cursor = 0 /\ outcome = "" /\ arrived = 0
        /\ owners = NoOwners /\ published = Projection(NoOwners)

Next ==
  \/ \E e \in Events, at \in 1..Horizon :
       \/ ObserveNode(e, at) \/ ObserveMetrics(e, at) \/ ObserveState(e, at)
       \/ ObserveHeartbeat(e, at) \/ ObserveExit(e, at) \/ ObserveRelationship(e, at)
       \/ ObserveMessage(e, at) \/ ObserveGap(e, at) \/ Refuse(e, at) \/ Ignore(e, at)
  \/ \E a \in Pins : Pin(a) \/ Unpin(a)
  \/ Advance
  \/ Tick

Spec == Init /\ [][Next]_vars

-----------------------------------------------------------------------------
(* Properties.                                                              *)

(* The owners keep their shapes: every actor has a node of the incarnation  *)
(* it was last seen in or none, and no node without an incarnation.         *)
ReducerTypeOK ==
  /\ clock \in 1..Horizon /\ cursor \in 0..clock
  /\ \A a \in Actors : Present(owners, a) => owners.nodes[a].inc = owners.current[a].inc
  /\ owners.gaps \subseteq [id: Ids \cup {Ledger}, cap: Capabilities \cup {""},
                            kind: {"collector", "collision", "schema", "resource"}]
  /\ outcome \in {"", "state-owner", "metrics-owner", "transition-time"}

(* An edge never outlives an end: both actors are shown, in the             *)
(* incarnations the edge was observed or carried over for, through every    *)
(* succession, ghost expiry and late message.                               *)
EdgesAnchored ==
  \A k \in EdgeKeys : Linked(owners, k) =>
    /\ Present(owners, k.source) /\ owners.nodes[k.source].inc = owners.edges[k].source
    /\ Present(owners, k.target) /\ owners.nodes[k.target].inc = owners.edges[k].target

(* Spawn edges never close a cycle, in whatever order they are observed and *)
(* their ends succeeded: every set of actors has one with no child in it.   *)
RankAcyclic ==
  \A S \in SUBSET Actors :
    S # {} => \E a \in S : \A k \in EdgeKeys :
                Ranks(owners, k) /\ k.source = a => k.target \notin S

(* The expiry index names exactly the messages the edges hold: none stays   *)
(* for ever and none is removed twice, though edges also go with an actor   *)
(* and are carried over to new incarnations.                                *)
IndexExact ==
  owners.expiry =
    UNION {{[at |-> m.at + MessageWindow, digest |-> m.digest, edge |-> k] :
              m \in owners.edges[k].messages} : k \in {k \in EdgeKeys : Linked(owners, k)}}

(* A relationship of an actor that has ended is a ghost, whichever of the   *)
(* relationship and the end was observed first.                             *)
TerminalGhosts ==
  \A k \in EdgeKeys :
    Linked(owners, k) /\ k.type # "message" /\ ~owners.edges[k].ghost =>
      /\ ~Terminal(owners.nodes[k.source].state.value)
      /\ ~Terminal(owners.nodes[k.target].state.value)

(* A node or edge is marked partial exactly while a gap of a source that    *)
(* contributes to it is open, however gaps, refusals, evidence and expiries *)
(* follow each other.                                                       *)
PartialExact == PartialUpdates(owners) = owners

(* historyUnits counts what is kept: a unit that were not given back would  *)
(* bring the graph nearer to refusing everything.                           *)
HistoryExact ==
  owners.history =
    Cardinality(owners.retired)
    + Cardinality({k \in DOMAIN owners.cursors : owners.cursors[k] # NoCursor})
    + EdgeUnits(owners, {k \in EdgeKeys : Linked(owners, k)}) + ActorUnits(owners, Actors)

(* The edges of the graph are in order: types, ends, expiry index, units.   *)
EdgesInOrder == ReducerTypeOK /\ EdgesAnchored /\ IndexExact /\ HistoryExact

(* The published generation is what the owners hold, although transactions  *)
(* publish nothing, or reuse parts, by what they believe to have changed.   *)
PublishedCurrent == published = Projection(owners)

(* When no deadline is due, calling Advance now would neither fold an actor *)
(* that is shown to another state nor find it stale: evidence does not lose *)
(* its force at a moment at which Run does not wake.  Left out is the       *)
(* staleness of an actor that spoke again after its end, whose deadline may *)
(* have passed.                                                             *)
NothingOverdue ==
  outcome = "" /\ NextDeadlines(owners, cursor) \cap 1..clock = {} =>
    \A u \in {Advanced(owners, clock)} :
       \A a \in Actors : Present(u, a) =>
         /\ u.nodes[a].state = owners.nodes[a].state
         /\ owners.nodes[a].ghostAt = 0 => u.nodes[a].stale = owners.nodes[a].stale

(* Only an actor that native polls alone know, and that has not ended, is   *)
(* shown as stale.                                                          *)
StaleExact ==
  \A a \in Actors : Present(owners, a) /\ owners.nodes[a].stale =>
    ~Terminal(owners.nodes[a].state.value) /\ OnlyNative(owners.proofs[a])

(* What an actor is shown as is what its evidence says, in time.            *)
FoldedInTime == NothingOverdue /\ StaleExact

(* An incarnation that was succeeded never comes back, not even after the   *)
(* ghost of its successor is gone.                                          *)
RetiredStayRetired ==
  [][\A a \in Actors :
       owners'.current[a].inc # owners.current[a].inc /\ owners.current[a].inc # 0 =>
         /\ <<a, owners.current[a].inc>> \in owners'.retired
         /\ <<a, owners'.current[a].inc>> \notin owners.retired]_vars

(* An actor only leaves when its ghost is over, and a pinned one only when  *)
(* it is unpinned, never by a deadline.                                     *)
PinnedKept ==
  [][\A a \in Actors : Present(owners, a) /\ ~Present(owners', a) =>
       /\ owners.nodes[a].ghostAt # 0 /\ owners.nodes[a].ghostAt <= clock
       /\ owners.nodes[a].pinned => cursor' = cursor]_vars

(* An approval ends alone: a step ends several of an actor only if the      *)
(* actor ends or is succeeded, or their heartbeat is overdue.               *)
Asked(t, a) == {<<x.source, x.rel>> : x \in ToSet(t.approvals[a])}
ApprovalsIndependent ==
  [][\A a \in Actors :
       LET ended == Asked(owners, a) \ Asked(owners', a)
       IN \/ Cardinality(ended) <= 1
          \/ owners'.current[a] # owners.current[a]
          \/ ~Present(owners', a) \/ Terminal(owners'.nodes[a].state.value)
          \/ \A x \in ended : ~Fresh(owners.health[a], x[1], clock)]_vars

(* RISK_MODEL.md:628: an event for an incarnation whose ghost is gone is    *)
(* refused with an admission error, so that the graph goes on.              *)
TombstoneRefused == outcome \notin {"metrics-owner", "state-owner"}

(* RISK_MODEL.md:531: the times an actor is folded at do not decrease.      *)
TransitionsInOrder == outcome # "transition-time"

=============================================================================
