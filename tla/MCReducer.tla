------------------------------ MODULE MCReducer -------------------------------
(***************************************************************************)
(* Instances of Reducer for TLC.  A run is about the events of its cfg.    *)
(***************************************************************************)
EXTENDS Reducer

CONSTANTS A, B, C      (* actors *)

Hooks == [id |-> "hook", authority |-> Hook, mode |-> "immutable"]
Polls == [id |-> "poll", authority |-> Native, mode |-> "immutable"]
PollBeats == [id |-> "poll", authority |-> Native, mode |-> "observation"]
Scans == [id |-> "scan", authority |-> Passive, mode |-> "immutable"]
MCSources == {Hooks, Polls, PollBeats, Scans}
MCIds == {"hook", "poll", "scan"}

Edge(type, x, y) == [type |-> type, source |-> x, target |-> y]
TopologyEdges == {Edge("spawn", A, B), Edge("spawn", B, C), Edge("spawn", C, A),
                  Edge("message", A, B)}
NoEdges == {Edge("service", A, A)}

(* An event of a kind; what the kind does not use is empty.                 *)
Event(kind, source, a, inc) ==
  [kind |-> kind, source |-> source, actor |-> a, inc |-> inc, ordered |-> FALSE,
   name |-> "", startedAt |-> 0, startTicks |-> 0, usage |-> 0, value |-> "", validFor |-> 0,
   rel |-> "", edge |-> CHOOSE k \in EdgeKeys : TRUE, tinc |-> 1, digest |-> 0, cap |-> "",
   resolved |-> FALSE]
Seen(source, a, inc, started) ==
  [Event("node", source, a, inc) EXCEPT !.startedAt = started]
Said(source, a, value, rel) == [Event("state", source, a, 1) EXCEPT !.value = value, !.rel = rel]
Ended(source, a, inc, value) == [Event("exit", source, a, inc) EXCEPT !.value = value]
Related(k, inc, tinc) ==
  [Event("relationship", Hooks, k.source, inc) EXCEPT !.edge = k, !.tinc = tinc]
Sent(k, inc, tinc, d) ==
  [Event("message", Hooks, k.source, inc) EXCEPT !.edge = k, !.tinc = tinc, !.digest = d]
GapOf(source, resolved) == [Event("gap", source, A, 1) EXCEPT !.resolved = resolved]

(* Three actors, one of them succeeded, a ring of spawn edges, and messages.*)
TopologyEvents ==
  {Seen(Hooks, x, 1, 1) : x \in Actors} \cup {Seen(Hooks, A, 2, 2), Seen(Hooks, A, 1, 3)}
  \cup {Related(k, 1, 1) : k \in {k \in EdgeKeys : k.type = "spawn"}}
  \cup {Related(Edge("spawn", A, B), 2, 1)}
  \cup {Sent(Edge("message", A, B), 1, 1, d) : d \in Digests}
  \cup {Ended(Hooks, A, inc, "completed") : inc \in 1..2}
  \cup {GapOf(Hooks, r) : r \in BOOLEAN}

(* One actor, the evidence of a hook, a native poll and a process scan.     *)
EvidenceEvents ==
  {Seen(Hooks, A, 1, 1), Seen(Polls, A, 1, 1),
   Event("heartbeat", PollBeats, A, 1),
   Said(Hooks, A, "thinking", ""), Said(Polls, A, "active", ""),
   Said(Hooks, A, "approval", "r1"), Said(Hooks, A, "approval", "r2"),
   Said(Hooks, A, "idle", "r1"),
   [Event("metrics", PollBeats, A, 1) EXCEPT !.ordered = TRUE, !.usage = 1],
   Ended(Hooks, A, 1, "completed")}
=============================================================================
