------------------------------- MODULE Evidence -------------------------------
(***************************************************************************)
(* What the graph makes of the evidence it holds about one actor:          *)
(* src/internal/graph/state.go and the folds of reconcile.go.  These are   *)
(* the pure functions Reducer is built from.                               *)
(*                                                                         *)
(* Evidence of an actor is kept as a sequence in the order of acceptance,  *)
(* one element per source, the one accepted last at the end: a later       *)
(* element is one with a larger acceptedOrdinal.  Time is a number, and 0  *)
(* is the absent time.                                                     *)
(***************************************************************************)
EXTENDS SequencesExt, Selections

CONSTANTS
  Sources,           (* EventSource: SourceRef and mode (SourceRecord)        *)
  Ids,               (* SourceIDs                                             *)
  PollIds,           (* the SourceIDs of aitop's own native polls             *)
  HookFreshness, SuccessGhostTTL, FailureGhostTTL,   (* ReconcileConfig       *)
  StateValidity, MaxValidity   (* defaultStateValidity, maximumStateValidity  *)

Passive == 1
Native == 2
Hook == 3

SourceRecord ==
  [id: Ids, authority: {Passive, Native, Hook},
   mode: {"immutable", "observation", "protocol"}]

ASSUME EvidenceAssumption ==
  /\ Sources \subseteq SourceRecord /\ PollIds \subseteq Ids
  /\ HookFreshness \in Nat \ {0}
  /\ SuccessGhostTTL \in Nat \ {0} /\ FailureGhostTTL \in Nat \ {0}
  /\ StateValidity \in Nat \ {0} /\ MaxValidity \in Nat \ {0}

-----------------------------------------------------------------------------
(* State values.                                                            *)

Values == {"unknown", "idle", "active", "thinking", "tool", "shell", "waiting",
           "approval", "blocked", "error", "completed", "failed", "vanished"}

TerminalRank(v) == IF v \in {"completed", "failed"} THEN 2
                   ELSE IF v = "vanished" THEN 1 ELSE 0
Terminal(v) == v \in {"completed", "failed", "vanished"}
Awaits(v) == v \in {"approval", "blocked"}

DefaultValidity(v) ==
  IF v \in {"thinking", "tool", "shell", "waiting"} THEN StateValidity ELSE 0

(* ValidFor of a StateObserved; it may not be given for every value.        *)
ValidityForbidden(v, requested) == requested > 0 /\ (Terminal(v) \/ Awaits(v))
NormalizeValidity(v, requested) ==
  IF requested = 0 THEN DefaultValidity(v) ELSE Min({requested, MaxValidity})

(* One element of the evidence; via tells the two ways a terminal value is  *)
(* reported apart (CapabilityState or CapabilityTerminal).                  *)
Evidence(source, value, at, until, via) ==
  [source |-> source, value |-> value, at |-> at, until |-> until, via |-> via]
NoSource == [id |-> "", authority |-> 0, mode |-> ""]
NoEvidence == Evidence(NoSource, "", 0, 0, "")

(* ValidateStateEvidence, for an event with relationship rel.               *)
EvidenceRefused(e, rel) ==
  \/ Awaits(e.value) /\ rel = ""
  \/ /\ e.source.authority = Passive
     /\ \/ e.value \notin {"unknown", "active", "vanished"}
        \/ rel # "" \/ e.until # 0 \/ e.source.mode = "protocol"
  \/ e.until # 0 /\ (Terminal(e.value) \/ Awaits(e.value))

Current(e, now) == e.until = 0 \/ now < e.until

-----------------------------------------------------------------------------
(* Health.  health is a set of [source, last], one per lane.                *)

(* The lane whose heartbeat keeps evidence of source s fresh: what a native *)
(* poll states once and for all lives on the poll's observation heartbeat.  *)
HealthKey(s) == IF s.authority = Native /\ s.mode = "immutable"
                THEN [s EXCEPT !.mode = "observation"] ELSE s

Fresh(health, s, now) ==
  \E h \in health : h.source = HealthKey(s) /\ now < h.last + HookFreshness

-----------------------------------------------------------------------------
(* The state an actor is shown in.                                          *)

(* candidate, accepted after current, takes its place.  Numbers of one      *)
(* protocol source grow in the order of acceptance (ReorderLanes).          *)
StateWins(candidate, current) ==
  LET rank(e) == TerminalRank(e.value) IN
  IF rank(candidate) # rank(current) THEN rank(candidate) > rank(current)
  ELSE IF candidate.source.authority # current.source.authority
  THEN candidate.source.authority > current.source.authority
  ELSE \/ candidate.source = current.source /\ current.source.mode = "protocol"
       \/ candidate.at >= current.at

Strongest(evidence) ==
  FoldLeft(LAMBDA best, e : IF best = NoEvidence \/ StateWins(e, best) THEN e ELSE best,
           NoEvidence, evidence)

CountsAt(e, health, now) ==
  /\ Terminal(e.value) \/ e.source.authority = Passive \/ Fresh(health, e.source, now)
  /\ Current(e, now)

(* foldState: the strongest state evidence, and over one that is not        *)
(* terminal the strongest fresh approval.                                   *)
FoldState(states, approvals, health, now) ==
  LET best == Strongest(Among(states, {e \in ToSet(states) : CountsAt(e, health, now)}))
      asked == Among(approvals, {e \in ToSet(approvals) : Fresh(health, e.source, now)})
  IN IF Terminal(best.value) \/ asked = <<>> THEN best
     ELSE Strongest([i \in DOMAIN asked |-> asked[i].evidence])

(* projectNodeState: the public part, with the SourceRef alone.             *)
Ref(s) == <<s.id, s.authority>>
Shown(e) == [value |-> e.value, source |-> Ref(e.source), since |-> e.at, until |-> e.until]

GhostTTL(v) == IF v = "failed" THEN FailureGhostTTL ELSE SuccessGhostTTL

-----------------------------------------------------------------------------
(* Identity and usage: each field is taken from the contribution that       *)
(* states it and wins, and the winners' sources are the ones a gap of which *)
(* makes the node partial.                                                  *)

FieldWins(candidate, current) ==
  IF candidate.source.authority # current.source.authority
  THEN candidate.source.authority > current.source.authority
  ELSE candidate.at >= current.at

(* The winner among the contributions that state the field, as a sequence   *)
(* of at most one element.                                                  *)
FieldWinner(contributions, States(_)) ==
  FoldLeft(LAMBDA best, c : IF best = <<>> \/ FieldWins(c, best[1]) THEN <<c>> ELSE best,
           <<>>, SelectSeq(contributions, States))

FoldNode(proofs) ==
  LET any == FieldWinner(proofs, LAMBDA c : TRUE)
      name == FieldWinner(proofs, LAMBDA c : c.name # "")
      started == FieldWinner(proofs, LAMBDA c : c.startedAt # 0)
      process == FieldWinner(proofs, LAMBDA c : c.startTicks # 0)
  IN [name |-> IF name = <<>> THEN "" ELSE name[1].name,
      startedAt |-> IF started = <<>> THEN 0 ELSE started[1].startedAt,
      startTicks |-> IF process = <<>> THEN 0 ELSE process[1].startTicks,
      identity |-> {c.source.id : c \in ToSet(any \o name \o started \o process)}]

FoldMetrics(metrics) ==
  LET winner == FieldWinner(metrics, LAMBDA c : TRUE)
  IN [usage |-> IF winner = <<>> THEN 0 ELSE winner[1].usage,
      sources |-> {c.source.id : c \in ToSet(winner)}]

(* strictlyNewerIncarnation: no start the two both state is earlier, and    *)
(* one is later.                                                            *)
StrictlyNewer(old, new) ==
  LET both(f) == old[f] # 0 /\ new[f] # 0
      Starts == {"startedAt", "startTicks"}
  IN /\ \A f \in Starts : both(f) => new[f] >= old[f]
     /\ \E f \in Starts : both(f) /\ new[f] > old[f]

-----------------------------------------------------------------------------
(* Staleness of an actor only native polls know.                            *)

OnlyNative(proofs) ==
  proofs # <<>> /\ \A c \in ToSet(proofs) : c.source.authority = Native
Polled(proofs) ==
  {c \in ToSet(proofs) : /\ c.source.authority = Native /\ c.source.mode = "immutable"
                         /\ c.source.id \in PollIds}

(* nativeIdentityShouldBeStale, but for the node's own condition.           *)
UnheardOf(proofs, health, now) ==
  OnlyNative(proofs) /\ \A c \in ToSet(proofs) : ~Fresh(health, c.source, now)

(* missingNativeHealthDeadlines: a poll that identified the actor and never *)
(* sent a heartbeat is given until HookFreshness after its identity.        *)
MissingHealthDeadline(proofs, health) ==
  IF /\ OnlyNative(proofs) /\ Polled(proofs) # {}
     /\ \A c \in ToSet(proofs) : \A h \in health : h.source # HealthKey(c.source)
  THEN Min({c.at + HookFreshness : c \in Polled(proofs)})
  ELSE 0
=============================================================================
